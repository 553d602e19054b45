------------------------ MODULE DataTablesInvariants ------------------------
(***************************************************************************)
(* The inductive invariants behind the theorems about DataTables.          *)
(***************************************************************************)
EXTENDS DataTables

UnitSteps == TableSteps \cup PartitionSteps
DeletingSteps == {"lock", "finalize", "panic"} \cup LockedSteps

\* What an object in the API server looks like.
ObjectOK(o) ==
    /\ o.exists => Len(o.spec) > 0
    /\ o.finalizer => o.exists
    /\ o.deleting => o.finalizer
    /\ ~o.exists => o.labels = NoLabels /\ o.status = << >>

\* What a pass keeps track of.
PassOK(p) ==
    /\ p.pc # "idle" => p.ctx.exists /\ ObjectOK(p.ctx)
    /\ p.pc \in UnitSteps => p.i \in 1..Len(p.ctx.spec)
    /\ p.pc \in RestoreSteps => p.unit \in Unit
    /\ p.pc \in DeletingSteps => p.ctx.deleting

Shape ==
    \A d \in DataTable : ObjectOK(api[d]) /\ ObjectOK(cache[d]) /\ PassOK(pass[d])

\* A copy is no newer than the original, and equal to it if as new.
CopyOf(copy, original) ==
    /\ copy.rv <= original.rv
    /\ copy.rv = original.rv => copy = original

\* The informer follows the API server; a pass began with what a read gave.
Versions ==
    \A d \in DataTable :
        /\ CopyOf(cache[d], api[d])
        /\ pass[d].pc # "idle" => CopyOf(pass[d].ctx, View(d))

Protected(d) == api[d].exists /\ api[d].finalizer

\* Passes and copies that show a live object with the finalizer are about an
\* object that the API server still keeps.
Protection ==
    \A d \in DataTable :
        /\ View(d).finalizer /\ ~View(d).deleting => Protected(d)
        /\ pass[d].pc \in CachingSteps => Protected(d)

\* The parts of the invariant that hold whatever goes wrong.
Coherence == TypeOK /\ Shape /\ Versions /\ RecoverExclusive /\ Protection

\* When no call fails: a pass about to remove the finalizer began with a copy
\* without labels to restore, or with one that the API server will refuse.
ClearedOrOutdated ==
    /\ budget.failures = 0
    /\ \A d \in DataTable :
          /\ pass[d].pc = "clearUpdate" =>
                pass[d].ctx.rv <= pass[d].dt /\ pass[d].dt <= api[d].rv
          /\ pass[d].pc = "finalize" =>
                Labelled(pass[d].ctx, "true") = {} \/ pass[d].ctx.rv < api[d].rv

-----------------------------------------------------------------------------
(* Labels of live objects. *)

\* Whatever goes wrong, a copy that shows a deletion is of the object that is
\* there, or of a predecessor of one that nobody has labelled yet.
DeletionKnown(d) == api[d].deleting \/ Keys(api[d]) = {}

LabelHistory ==
    \A d \in DataTable :
        /\ \A u \in Unit : api[d].labels[u] = "false" => api[d].deleting
        /\ View(d).deleting => DeletionKnown(d)
        /\ pass[d].pc \in CachingSteps /\ View(d).deleting => api[d].deleting
        /\ pass[d].pc \in DeletingSteps => DeletionKnown(d)
        /\ pass[d].pc = "clearUpdate" =>
              pass[d].dt <= api[d].rv /\ (pass[d].dt = api[d].rv => Keys(api[d]) # {})

-----------------------------------------------------------------------------
(* Without edits and failures: what a deletion restores is labelled. *)

SpecUnits(o) == {u \in Unit : \E n \in 1..Len(o.spec) : o.spec[n] = u}

\* A copy that shows a deletion: the object is being deleted and has all labels
\* of the copy, cleared or not; or nothing of the copy is left to restore, and
\* the object is gone, or a new one that nobody has labelled yet.
Accounted(d, copy) ==
    \/ api[d].exists /\ api[d].deleting /\ Keys(copy) \subseteq Keys(api[d])
    \/ Labelled(copy, "true") = {} /\ Keys(api[d]) = {}

\* Whatever goes wrong, a deletion looks only at labels that its copy has.
FollowsCopy(d) ==
    /\ pass[d].pc \in LockedSteps => pass[d].left \subseteq Labelled(pass[d].ctx, "true")
    /\ pass[d].pc \in RestoreSteps => pass[d].unit \in Labelled(pass[d].ctx, "true")

LabelsHeld ==
    /\ budget.edits = 0
    /\ \A d \in DataTable :
          /\ Keys(api[d]) \subseteq SpecUnits(api[d])
          /\ View(d).finalizer /\ ~View(d).deleting =>
                View(d).spec = api[d].spec /\ Keys(View(d)) \subseteq SpecUnits(api[d])
          /\ pass[d].pc \in CachingSteps =>
                pass[d].ctx.spec = api[d].spec /\ Keys(View(d)) \subseteq SpecUnits(api[d])
          /\ View(d).deleting => Accounted(d, View(d))
          /\ pass[d].pc \in DeletingSteps => Accounted(d, pass[d].ctx)
          /\ FollowsCopy(d)

-----------------------------------------------------------------------------
(* Without edits and failures: labels come and go as a whole.              *)

\* An object bears the labels of all units of its spec, or none.
Whole(o) == Keys(o) \in {{}, SpecUnits(o)}

\* If both bear labels, they name the same units, and none is uncleared since.
LabelledLike(copy, o) ==
    Keys(copy) # {} /\ Keys(o) # {} =>
        /\ copy.spec = o.spec
        /\ Labelled(copy, "false") \subseteq Labelled(o, "false")

\* Labels in the API server and in the informer, while a pass works on d.
LabelsSeen(d) ==
    /\ Whole(api[d]) /\ Whole(cache[d])
    /\ Keys(api[d]) # {} => api[d].finalizer /\ api[d].status = api[d].spec
    /\ LabelledLike(cache[d], api[d])
    /\ cache[d].finalizer /\ ~cache[d].deleting => Keys(cache[d]) \subseteq Keys(api[d])
    /\ pass[d].pc \in CachingSteps /\ Keys(api[d]) = {} => Keys(cache[d]) = {}
    /\ Labelled(api[d], "false") # {} => cache[d].deleting /\ pass[d].pc \notin CachingSteps

\* Labels that a deletion goes by.
LabelsFollowed(d) ==
    /\ Whole(pass[d].ctx) /\ LabelledLike(pass[d].ctx, api[d])
    /\ pass[d].pc \in RestoreSteps => pass[d].unit \notin pass[d].left
    /\ pass[d].pc \in {"clearGet", "clearUpdate"} => pass[d].left = {}
    /\ pass[d].pc = "clearUpdate" => Keys(pass[d].ctx) # {} /\ pass[d].dt <= cache[d].rv

\* A pass labels only an object that has no labels, or its Update is refused.
LabelsFirst(d) ==
    pass[d].pc = "labelUpdate" =>
        pass[d].dt <= api[d].rv /\ (pass[d].dt = api[d].rv => Keys(api[d]) = {})

WholeLabels ==
    \A d \in DataTable :
        /\ LabelsSeen(d)
        /\ pass[d].pc \in DeletingSteps => LabelsFollowed(d)
        /\ LabelsFirst(d)

=============================================================================
