---------------------------- MODULE MCTabletStorage ----------------------------
(* Instances of TabletStorage for TLC. *)
EXTENDS TabletStorage

Insert(row) == [row |-> row, type |-> "INSERT"]

Update(row) == [row |-> row, type |-> "UPDATE"]

\* A row that is updated before, during and after a flush, and two rows whose
\* writes finish in either order and whose rowsets are compacted.
InsertsAndUpdates ==
    {<<Insert("a"), Update("a"), Update("a")>>,
     <<Insert("a"), Insert("b"), Update("a")>>}
===============================================================================
