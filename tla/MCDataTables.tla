---------------------------- MODULE MCDataTables ----------------------------
(* Instances of DataTables for TLC. *)
EXTENDS DataTablesInvariants, DataTablesRefinement, TLC

CONSTANTS d1, d2, t1, p1, p2

\* Partitions p1 and p2 belong to one table.
MCTableOf == [p \in {p1, p2} |-> "sales"]

\* Two objects share one table.
OneTable == [d \in {d1, d2} |-> {<<t1>>}]
\* They share a table; one has a partition of its own.
Mixed == d1 :> {<<t1, p1>>} @@ d2 :> {<<t1>>}
\* One object, whose user may drop or add the partitions.
OneObject == d1 :> {<<t1>>, <<p1, p2, t1>>}
=============================================================================
