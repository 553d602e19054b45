------------------------ MODULE DataTablesRefinement ------------------------
(***************************************************************************)
(* The controller implements CachedUnits when calls do not fail and specs  *)
(* are not edited, whatever the informer shows, whatever passes interleave *)
(* and whenever the process crashes.                                       *)
(***************************************************************************)
EXTENDS DataTables

NamedUnits == [d \in DataTable |-> {u \in Unit : Names(api[d], u)}]
ProtectedObjects == {d \in DataTable : api[d].finalizer}
LabelledUnits == [d \in DataTable |-> Labelled(api[d], "true")]
ClearedUnits == [d \in DataTable |-> Labelled(api[d], "false")]
Leaving == {d \in DataTable : api[d].deleting}
KnownUnits == [d \in DataTable |-> Labelled(cache[d], "true")]
Residues == {u \in Unit : Residue(u)}

\* The pass that holds the mutex: the unit it is restoring, and the labels of
\* its object that it is through with.
ClaimOf(p) == IF p.pc \in RestoreSteps THEN {p.unit} ELSE {}
DealtWith(p) == Labelled(p.ctx, "true") \ (p.left \cup ClaimOf(p))
Claimed == IF mutex = Nobody THEN {} ELSE ClaimOf(pass[mutex])
Dealt == IF mutex = Nobody THEN {} ELSE DealtWith(pass[mutex])

Units == INSTANCE CachedUnits WITH
            Object <- DataTable, Unit <- Unit, Nobody <- Nobody,
            named <- NamedUnits, protected <- ProtectedObjects,
            labelled <- LabelledUnits, cleared <- ClearedUnits, leaving <- Leaving,
            known <- KnownUnits, turn <- mutex, dealt <- Dealt, claim <- Claimed,
            residue <- Residues

\* The controller keeps the promise of CachedUnits: with an informer that lags,
\* the holders of a label are counted and its unit restored as if one deletion
\* worked at a time, the labels of an object are cleared, all at once, only when
\* each has been restored or left to another object that the informer shows to
\* hold it, and the finalizer goes last; caching, beside it, works only for
\* objects that the finalizer protects.
ImplementsCachedUnits == Units!Spec

=============================================================================
