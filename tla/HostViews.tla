----------------------------- MODULE HostViews ------------------------------
(***************************************************************************)
(* What the process explorer of the frontend shows of an inventory         *)
(* (lib/processExplorer.ts and pages/ProcessExplorerPage.tsx): rows        *)
(* filtered by state and ownership, sorted by a column in which some have  *)
(* no value, and arranged as a forest by their parents.  A row has at most *)
(* one index per pid in a table.                                           *)
(***************************************************************************)
EXTENDS HostProcesses

ProcessStates == {"LIVE", "EXITED", "DISAPPEARED", "PERMISSION_DENIED", "UNAVAILABLE"}

SortKeys == {"pid", "state", "VmRSS", "threads", "read_bytes", "write_bytes"}

PidOf(row) == row.identity[1]

(* State letters in the order they compare in.                             *)
Letters == <<"D", "I", "R", "S", "T", "t", "Z">>
LetterRank(letter) == CHOOSE k \in DOMAIN Letters : Letters[k] = letter

(* sortableValue, rowValue: an unavailable metric has no value at all.     *)
RowValue(row, key) ==
    IF key = "pid" THEN PidOf(row)
    ELSE IF ~HasValue(row.fields[key]) THEN Null
    ELSE IF key = "state" THEN LetterRank(row.fields[key].value) ELSE row.fields[key].value

(* compareRows: rows without a value come last in either direction, rows   *)
(* with the same one in the order of their pids.                           *)
Precedes(a, b, key, direction) ==
    LET av == RowValue(a, key)
        bv == RowValue(b, key)
    IN  IF av = bv THEN PidOf(a) < PidOf(b)
        ELSE /\ av # Null
             /\ bv = Null \/ IF direction = "asc" THEN av < bv ELSE bv < av

SortRows(rows, key, direction) ==
    LET order == Seqs!SetToSortSeq(DOMAIN rows, LAMBDA i, j : Precedes(rows[i], rows[j], key, direction))
    IN  [k \in DOMAIN order |-> rows[order[k]]]

(* filterByState: no states asked for is no filter.                        *)
FilterByState(rows, states) ==
    SelectSeq(rows, LAMBDA row : states = {} \/ row.rowState \in states)

PartitionByOwnership(rows) ==
    [capsOwned |-> SelectSeq(rows, LAMBDA row : row.capsOwned),
     host |-> SelectSeq(rows, LAMBDA row : ~row.capsOwned)]

CountByState(rows) ==
    [s \in ProcessStates |-> Cardinality({i \in DOMAIN rows : rows[i].rowState = s})]

(* The table on the page: filtered first, then sorted.                     *)
Visible(rows, states, capsOnly, key, direction) ==
    LET filtered == FilterByState(rows, states)
    IN  SortRows(IF capsOnly THEN PartitionByOwnership(filtered).capsOwned ELSE filtered, key, direction)

-----------------------------------------------------------------------------
(* buildTree.  A node of the forest is the path of rows that leads to it.  *)

(* The row of a row's parent; 0 if the table has none but itself.          *)
ParentOf(rows, i) ==
    LET parents == {j \in DOMAIN rows \ {i} : HasValue(rows[i].fields["ppid"])
                                              /\ PidOf(rows[j]) = rows[i].fields["ppid"].value}
    IN  IF parents = {} THEN 0 ELSE CHOOSE j \in parents : TRUE

(* Without any row that has no parent, the one with the lowest pid.        *)
Roots(rows) ==
    LET orphans == {i \in DOMAIN rows : ParentOf(rows, i) = 0}
    IN  IF orphans # {} THEN orphans
        ELSE {i \in DOMAIN rows : \A j \in DOMAIN rows : PidOf(rows[i]) <= PidOf(rows[j])}

BuildTree(rows) ==
    LET Extended(path) ==
            {Append(path, i) : i \in {j \in DOMAIN rows \ Range(path) : ParentOf(rows, j) = path[Len(path)]}}
        level[n \in 1..Len(rows)] ==
            IF n = 1 THEN {<<r>> : r \in Roots(rows)} ELSE UNION {Extended(path) : path \in level[n - 1]}
    IN  UNION {level[n] : n \in 1..Len(rows)}

(* flattenTree: every node before its children, the roots by their pids,   *)
(* children in the order of the rows.                                      *)
FlattenTree(rows) ==
    LET Sooner(p, q) ==
            \/ Seqs!IsStrictPrefix(p, q)
            \/ \E k \in DOMAIN p \cap DOMAIN q :
                   /\ SubSeq(p, 1, k - 1) = SubSeq(q, 1, k - 1)
                   /\ IF k = 1 THEN PidOf(rows[p[k]]) < PidOf(rows[q[k]]) ELSE p[k] < q[k]
        nodes == Seqs!SetToSortSeq(BuildTree(rows), Sooner)
    IN  [n \in DOMAIN nodes |-> [row |-> nodes[n][Len(nodes[n])], depth |-> Len(nodes[n]) - 1]]

=============================================================================
