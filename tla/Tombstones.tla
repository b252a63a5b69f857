------------------------------ MODULE Tombstones ------------------------------
(***************************************************************************)
(* The reconciliation rule of a section that carries its own tombstones:   *)
(* the follows (internal/follows/section.go, mergeSection).  A section is  *)
(* a function from ids to cells; a cell holds the stamp of the entry and   *)
(* the stamp of the tombstone of one id, exactly as the two maps of the    *)
(* code do.  Stamps are Unix milliseconds.                                 *)
(***************************************************************************)
EXTENDS Integers

Absent == -1   \* no entry: the id is not a key of items
NoGrave == 0   \* no tombstone: reading a missing key of the Go map gives 0

\* A section keeps an id as an entry or as a tombstone, never as both.
Cell == {c \in [item : Nat \union {Absent}, grave : Nat] :
           c.item = Absent \/ c.grave = NoGrave}
EmptyCell == [item |-> Absent, grave |-> NoGrave]

Later(a, b) == IF a > b THEN a ELSE b

\* Whether the entry outlives the tombstone: on a tie the tombstone wins,
\* unless the merge is an explicit restore.
SurvivesAlways(item, grave, restore) == TRUE   \* mutated: tombstones ignored
Survives(item, grave, restore) == restore \/ item > grave

\* One id: the newest entry of both sides against the newest tombstone.
MergeCell(remote, local, restore) ==
  LET item == Later(local.item, remote.item)
      grave == Later(local.grave, remote.grave)
  IN  IF item # Absent /\ grave # NoGrave
      THEN IF Survives(item, grave, restore)
           THEN [item |-> item, grave |-> NoGrave]
           ELSE [item |-> Absent, grave |-> grave]
      ELSE [item |-> item, grave |-> grave]

\* The total order the rule works on: an older stamp is below a newer one and
\* an entry is below the tombstone of the same moment.
Rank(c) == IF c.item # Absent THEN 2 * c.item + 1
           ELSE IF c.grave # NoGrave THEN 2 * c.grave + 2
           ELSE 0
=============================================================================
