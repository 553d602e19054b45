---------------------- MODULE AlluxioRuntimesInvariants ----------------------
(***************************************************************************)
(* The inductive invariants behind the theorems about AlluxioRuntimes.     *)
(***************************************************************************)
EXTENDS AlluxioRuntimes

\* No two runtimes join namespace and name to the same id.
DistinctIDs == \A r, s \in Runtime : EngineID[r] = EngineID[s] => r = s

\* An engine works for a runtime with the id it is kept under.
OwnerOK(e, i) == e.owner \in Runtime /\ EngineID[e.owner] = i

Owners ==
    /\ \A i \in ID : engines[i].built => OwnerOK(engines[i], i)
    /\ \A r \in Runtime : pass[r].pc # "idle" => OwnerOK(pass[r].engine, EngineID[r])

\* What holds whatever ids there are and whatever goes wrong.
Structure == TypeOK /\ Owners /\ SchedulerExclusive

-----------------------------------------------------------------------------
(* Objects and their copies. *)

ObjectOK(o) == (o.finalizer => o.exists) /\ (o.deleting => o.finalizer)

\* Which copies lead to which steps.
ContextOK(p) ==
    /\ p.pc # "idle" => p.ctx.exists /\ ObjectOK(p.ctx)
    /\ p.pc \in {"addFinalizer"} \cup SetupSteps => ~p.ctx.deleting
    /\ p.pc \in ShutdownSteps => p.ctx.deleting

Shape ==
    \A r \in Runtime : ObjectOK(api[r]) /\ ObjectOK(cache[r]) /\ ContextOK(pass[r])

\* A copy is no newer than the original, and equal to it if as new.
CopyOf(copy, original) ==
    /\ copy.rv <= original.rv
    /\ copy.rv = original.rv => copy = original

Versions ==
    \A r \in Runtime :
        /\ CopyOf(cache[r], api[r])
        /\ pass[r].pc # "idle" => CopyOf(pass[r].ctx, cache[r])

Protected(r) == api[r].exists /\ api[r].finalizer

\* What an old copy still says about the object: a live copy with a finalizer
\* is about a protected object; and an object that has a finalizer is being
\* deleted if a copy says so, for the finalizer of an object created again is
\* only added by a pass that has seen the new object.
Protection ==
    \A r \in Runtime :
        /\ cache[r].finalizer /\ ~cache[r].deleting => Protected(r)
        /\ pass[r].pc \in SetupSteps => Protected(r)
        /\ cache[r].deleting /\ api[r].finalizer => api[r].deleting
        /\ pass[r].pc \in ShutdownSteps /\ api[r].finalizer => api[r].deleting

\* The release is gone before the finalizer goes.
Uninstalled ==
    \A r \in Runtime : pass[r].pc \in {"cleanAll", "finalize"} => release[r] = "none"

Coherence == Structure /\ Shape /\ Versions /\ Protection /\ ReleaseProtected /\ Uninstalled

-----------------------------------------------------------------------------
(* Nodes. *)

\* Labels have one value, and an absent one has no memory.
LabelsOK(view) ==
    \A n \in Node, i \in ID : view[n][i].value = "ok" \/ view[n][i] = NoLabel

\* The node whose label the holder of the mutex is waiting to see.
Awaited(r, n) ==
    pass[r].pc = "poll" /\ pass[r].node = n /\ nodeCache[n][EngineID[r]] = NoLabel

\* The cache lags for at most the node that is waited for, and the nodes still
\* to be labelled have no label.
FreshNodes ==
    /\ LabelsOK(nodes) /\ LabelsOK(nodeCache)
    /\ \A n \in Node : nodeCache[n] = nodes[n] \/ \E r \in Runtime : Awaited(r, n)
    /\ \A r \in Runtime :
          /\ pass[r].pc \in LockedSteps =>
                \A n \in pass[r].todo : nodes[n][EngineID[r]] = NoLabel
          /\ pass[r].pc = "poll" => pass[r].node \in Node \ pass[r].todo

\* Until a wait ends early.
FreshUntilTimeout ==
    /\ budget.timeouts <= MaxTimeouts
    /\ budget.timeouts = MaxTimeouts => FreshNodes

=============================================================================
