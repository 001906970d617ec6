------------------------------ MODULE DataNodes ------------------------------
(***************************************************************************)
(* The nodes of a response: properties by key and children.  A builder     *)
(* (util.go) adds them on the server; the client reads them.  A category   *)
(* (category.go, category.ts) is defined by one node, and others are       *)
(* tagged as belonging to it; it is seen as its ID.                        *)
(***************************************************************************)
EXTENDS Sequences

\* The member of a set that has one; as a bound variable it is a value, that of an
\* expression that is not to be evaluated again.
Only(set) == CHOOSE x \in set : TRUE

NoProperties == <<>>
Node(properties, children) == [properties |-> properties, children |-> children]

\* With(): updates apply in order, so a later one of the same key stays.
Property(key, value) == [k \in {key} |-> value]
With(properties, update) ==
  Only({[k \in DOMAIN old \union DOMAIN new |-> IF k \in DOMAIN new THEN new[k] ELSE old[k]] :
          old \in {properties}, new \in {update}})

Has(node, key) == key \in DOMAIN node.properties

-----------------------------------------------------------------------------
\* Category.Define() and Tag(), which extends the tags there are.
Define(id) == Property("category_defined_id", id)
TagsOf(properties) ==
  IF "category_ids" \in DOMAIN properties THEN properties["category_ids"] ELSE <<>>
Tag(properties, id) == With(properties, Property("category_ids", Append(TagsOf(properties), id)))

\* getDefinedCategory(), where there is one.
DefinesCategory(node) == Has(node, "category_defined_id")
DefinedCategory(node) == node.properties["category_defined_id"]

\* getTaggedCategories() refuses a tag that is not of the set.
TagsAreKnown(categories, node) ==
  \A i \in DOMAIN TagsOf(node.properties) : TagsOf(node.properties)[i] \in categories
=============================================================================
