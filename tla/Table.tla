-------------------------------- MODULE Table --------------------------------
(***************************************************************************)
(* Tables on both sides of a response.  table.go writes a header with the  *)
(* columns, then rows of cells; table.ts reads them back for a DataTable.  *)
(* A cell holds a value, or a format and the properties it names.          *)
(***************************************************************************)
EXTENDS DataNodes, Integers, SequencesExt

-----------------------------------------------------------------------------
(* The builder.                                                            *)

\* A cell is tagged with its column, which goes by the ID of its category.
Column(id) == Node(Define(id), <<>>)
Cell(column, value) == Node(Tag(Property("table_cell", value), column), <<>>)

\* The format is seen as the keys of the properties it takes in.
FormattedCell(column, keys, properties) ==
  Node(Tag(With(properties, Property("table_formatted_cell", keys)), column), <<>>)
Row(cells, properties) == Node(properties, cells)

NewTable(columns, rows) == Node(NoProperties, <<Node(NoProperties, columns)>> \o rows)

-----------------------------------------------------------------------------
(* The reader.                                                             *)

\* columns(), in the order of their definition.
Columns(table) ==
  LET headers == IF table.children = <<>> THEN <<>> ELSE table.children[1].children
  IN  [i \in DOMAIN headers |-> DefinedCategory(headers[i])]

RowNodes(table) == IF table.children = <<>> THEN <<>> ELSE Tail(table.children)
RowCount(table) == Len(RowNodes(table))

\* rowSlice(), as Array.slice takes its bounds: from `start' to before `end'.
RowSlice(table, start, end) ==
  SubSeq(RowNodes(table), start + 1, IF end < RowCount(table) THEN end ELSE RowCount(table))

\* What the constructors of headers, rows and cells do not throw at: each header
\* defines a column, each cell is of at most one, and has no structure of its own.
IsTable(table) ==
  /\ table.children # <<>> => \A h \in ToSet(table.children[1].children) : DefinesCategory(h)
  /\ \A row \in ToSet(RowNodes(table)) : \A cell \in ToSet(row.children) :
       /\ TagsAreKnown(ToSet(Columns(table)), cell)
       /\ Len(TagsOf(cell.properties)) <= 1
       /\ cell.children = <<>>
       /\ Has(cell, "table_formatted_cell") =>
            \A key \in ToSet(cell.properties["table_formatted_cell"]) : Has(cell, key)

\* The value of a cell: one value, or none.
CellValue(cell) ==
  CASE Has(cell, "table_formatted_cell") ->
         LET keys == cell.properties["table_formatted_cell"]
         IN  <<[i \in DOMAIN keys |-> cell.properties[keys[i]]]>>
    [] ~Has(cell, "table_formatted_cell") /\ Has(cell, "table_cell") -> <<cell.properties["table_cell"]>>
    [] OTHER -> <<>>

\* cells(): of two cells for a column the later counts, and a column without one
\* gets an empty cell.
CellOf(row, column) ==
  LET tagged == {i \in DOMAIN row.children : TagsOf(row.children[i].properties) = <<column>>}
  IN  IF tagged = {} THEN <<>>
      ELSE CellValue(row.children[CHOOSE i \in tagged : \A j \in tagged : j <= i])
=============================================================================
