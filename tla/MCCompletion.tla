---------------------------- MODULE MCCompletion ----------------------------
(* Nested sections with a context, a table between two texts, a table at the*)
(* start of a section, and a spreadsheet.                                   *)
EXTENDS ContextGroups

Text(under, own) == [under |-> under, kind |-> "text", own |-> own, table |-> 0,
                     row |-> 0, col |-> 0, context |-> 0, sized |-> TRUE]
Tell(c, n) == [n EXCEPT !.context = c]
ContextNode(c, own) == [Text(0, own) EXCEPT !.kind = "context", !.context = c]
CellNode(under, row, col) == [Text(under, 1) EXCEPT !.kind = "cell", !.table = 1, !.row = row, !.col = col]

Sections == <<ContextNode(1, 1), ContextNode(2, 1), Tell(1, Text(0, 1)), Tell(1, Text(3, 2)),
              Tell(1, Text(3, 1)), Tell(2, Text(5, 1)), Tell(2, Text(0, 1)), Tell(2, Text(7, 4))>>
Long == <<Text(0, 1), Text(1, 2), Text(1, 2), Text(1, 2), Text(0, 7)>>
TableWithin == <<Text(0, 1), Text(1, 1), CellNode(1, 1, 1), CellNode(1, 2, 1), Text(1, 1), Text(5, 1)>>
TableFirst == <<Text(0, 1), CellNode(1, 1, 1), CellNode(1, 1, 2), CellNode(1, 2, 1), CellNode(1, 2, 2), Text(1, 1)>>
Unsized(n) == [n EXCEPT !.sized = FALSE]
Sheet == [r \in 1..5 |-> Unsized(CellNode(0, r, 1))] \o <<Unsized(Text(0, 2))>>
Slot == ContextNode(0, 1)
Fresh == <<Slot, Slot, Slot, Slot, Text(0, 1), Text(5, 2), Text(5, 1), Text(0, 4), Text(8, 1)>>
MCDocuments == {Fresh, Sections, Long, TableWithin, TableFirst, Sheet}
=============================================================================
