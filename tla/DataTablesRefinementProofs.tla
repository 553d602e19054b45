--------------------- MODULE DataTablesRefinementProofs ---------------------
(***************************************************************************)
(* Labels of DataTable objects and the promise about shared units.         *)
(***************************************************************************)
EXTENDS DataTablesProofs, DataTablesRefinement, FiniteSetTheorems

(***************************************************************************)
(* Labels of DataTable objects: whose labels are cleared, and whose units  *)
(* are restored.                                                           *)
(***************************************************************************)

(* All that a step can do to the pass of d. *)

\* A pass begins with what a read gives.
Begins(d) ==
    /\ pass[d].pc = "idle"
    /\ View(d).exists
    /\ pass'[d].pc = Dispatch(View(d))
    /\ pass'[d].ctx = View(d)
    /\ pass'[d].i = 1
    /\ UNCHANGED <<api, cache>>

\* A pass that caches units goes on.
CachesOn(d) ==
    /\ pass[d].pc \in CachingSteps /\ pass'[d].pc \in CachingSteps
    /\ pass'[d].ctx = pass[d].ctx
    /\ pass'[d].pc = "labelUpdate" =>
          /\ pass'[d].dt = View(d).rv /\ ~UpToDate(d, View(d))
          /\ UNCHANGED <<api, cache>>

Locks(d) ==
    /\ pass[d].pc = "lock" /\ pass'[d].pc = "list"
    /\ pass'[d].ctx = pass[d].ctx
    /\ pass'[d].left = LabelsToRestore(pass[d].ctx)

\* The loop over the labels takes the next one, or ends.
Lists(d) ==
    /\ pass[d].pc = "list" /\ pass'[d].ctx = pass[d].ctx
    /\ \/ pass'[d].pc = "clearGet" /\ pass[d].left = {} /\ pass'[d].left = {}
       \/ \E u \in pass[d].left :
             /\ pass'[d].left = pass[d].left \ {u}
             /\ \/ pass'[d].pc = "list" /\ ~IsLast(u)
                \/ /\ pass'[d].pc = FirstRestoreStep(u) /\ pass'[d].unit = u
                   /\ IsLast(u) \/ FailList(d)

\* One unit is restored, call by call.
RestoresOn(d) ==
    /\ pass'[d].ctx = pass[d].ctx /\ pass'[d].left = pass[d].left
    /\ \/ pass[d].pc = "unmount" /\ pass'[d].pc = "delkv" /\ pass'[d].unit = pass[d].unit
       \/ pass[d].pc = "delkv" /\ pass'[d].pc = "restore" /\ pass'[d].unit = pass[d].unit
       \/ pass[d].pc = "prestore" /\ pass'[d].pc = "punmount" /\ pass'[d].unit = pass[d].unit
       \/ pass[d].pc \in {"restore", "punmount"} /\ pass'[d].pc = "list"

PassChange(d) ==
    \/ pass'[d] = pass[d]
    \/ pass'[d] = IdlePass
    \/ Begins(d)
    \/ CachesOn(d)
    \/ Locks(d)
    \/ Lists(d)
    \/ RestoresOn(d)
    \/ ClearGet(d) \/ ClearUpdate(d) \/ FailClear(d)

LEMMA AdvancePass ==
    ASSUME Coherence, NEW d \in DataTable, pass[d].pc \in UnitSteps, Advance(d)
    PROVE  pass'[d] = IdlePass \/ CachesOn(d)
<1>1. /\ pass \in [DataTable -> Pass] /\ pass[d] \in Pass
      /\ pass[d].i \in Nat /\ pass[d].pc \in CachingSteps
  BY DEF Coherence, TypeOK, Pass, CachingSteps, UnitSteps
<1>2. CASE Return(d)
  BY <1>1, <1>2, ReturnFacts
<1>3. CASE pass[d].ctx.status = << >> /\ Goto(d, "labelGet")
  <2>1. "labelGet" \in CachingSteps /\ "labelGet" \in Steps
    BY DEF CachingSteps, LabelSteps, Steps
  <2>2. pass'[d] = [pass[d] EXCEPT !.pc = "labelGet"]
    BY <1>1, <1>3, <2>1, GotoFacts
  <2>3. pass'[d].pc = "labelGet" /\ pass'[d].ctx = pass[d].ctx
    BY <1>1, <2>2 DEF Pass
  <2> QED BY <1>1, <1>3, <2>1, <2>3 DEF CachesOn
<1>4. ASSUME NEW n, n = pass[d].i + 1,
             pass' = [pass EXCEPT ![d].pc = FirstStep(pass[d].ctx.spec[n]), ![d].i = n]
      PROVE  CachesOn(d)
  <2> DEFINE x == pass[d].ctx.spec[n]
  <2>1. /\ pass'[d].pc = FirstStep(x) /\ pass'[d].i = n
        /\ pass'[d].ctx = pass[d].ctx
    BY <1>1, <1>4 DEF Pass
  <2>2. FirstStep(x) \in CachingSteps \ LabelSteps /\ "labelUpdate" \in LabelSteps
    BY DEF FirstStep, CachingSteps, TableSteps, PartitionSteps, LabelSteps
  <2> QED BY <1>1, <2>1, <2>2 DEF CachesOn
<1> QED
  BY <1>2, <1>3, <1>4 DEF Advance

LEMMA PassChanges ==
    ASSUME Coherence, [Next]_vars, NEW d \in DataTable
    PROVE  PassChange(d)
<1>1. pass \in [DataTable -> Pass] /\ pass[d] \in Pass
  BY DEF Coherence, TypeOK
<1>2. CASE UNCHANGED pass
  BY <1>2 DEF PassChange
<1>3. CASE Restart
  BY <1>3, SMTT(60) DEF Restart, PassChange
<1>4. ASSUME NEW e \in DataTable, e # d,
             \/ Start(e) \/ Lock(e) \/ Fault(e) \/ AddFinalizer(e) \/ Cache(e)
             \/ Recover(e) \/ RemoveFinalizer(e)
      PROVE  pass'[d] = pass[d]
  BY <1>1, <1>4
     DEF Start, Reconcile, ReconcileNotFound, ReconcileNoRuntime, vars, Lock, Fault,
         FailConnect, NoConnection, FailReturned, FailLocked, FailLs, FailDropped, FailList, FailClear,
         AddFinalizer, Cache, CacheLs, CacheMount, CacheSize, CacheAddKV, CacheAlter,
         CachePartitionAlter, CachePartitionLs, CachePartitionMount, LabelGet, LabelUpdate,
         Recover, ListHolders, RestoreUnmount, RestoreRemoveKV, RestoreAlter,
         RestorePartitionAlter, RestorePartitionUnmount, ClearGet, ClearUpdate,
         RemoveFinalizer, Requeue, Return, Goto, Advance, Retry, Unlock, NextLabel
<1>5. CASE Return(d)
  BY <1>1, <1>5, ReturnFacts DEF PassChange
<1>6. ASSUME NEW step \in Steps, Goto(d, step)
      PROVE  /\ pass'[d].pc = step /\ pass'[d].ctx = pass[d].ctx /\ pass'[d].i = pass[d].i
             /\ pass'[d].left = pass[d].left /\ pass'[d].unit = pass[d].unit
  <2>1. pass'[d] = [pass[d] EXCEPT !.pc = step]
    BY <1>1, <1>6, GotoFacts
  <2> QED BY <1>1, <2>1 DEF Pass
<1>7. {"size", "mount", "kv", "alter", "pls", "pmount", "delkv", "restore", "punmount",
       "clearGet"} \subseteq Steps
  BY DEF Steps, CachingSteps, LockedSteps, RestoreSteps, TableSteps, PartitionSteps
<1>8. ASSUME Advance(d), pass[d].pc \in {"alter", "palter", "pls", "pmount"}
      PROVE  PassChange(d)
  BY <1>8, AdvancePass DEF PassChange, UnitSteps, TableSteps, PartitionSteps
<1>9. ASSUME NEW step, Goto(d, step),
             \/ pass[d].pc \in TableSteps /\ step \in {"size", "mount", "kv", "alter"}
             \/ pass[d].pc \in PartitionSteps /\ step \in {"pls", "pmount"}
      PROVE  PassChange(d)
  <2>1. /\ pass'[d].pc = step /\ pass'[d].ctx = pass[d].ctx /\ pass'[d].i = pass[d].i
    BY <1>6, <1>7, <1>9
  <2>2. CachesOn(d)
    BY <1>9, <2>1 DEF CachesOn, CachingSteps, TableSteps, PartitionSteps, LabelSteps
  <2> QED BY <2>2 DEF PassChange
<1>10. ASSUME CacheLs(d) \/ CacheMount(d) \/ CacheSize(d) \/ CacheAddKV(d) \/ CacheAlter(d)
       PROVE  PassChange(d)
  <2>1. /\ pass[d].pc \in TableSteps
        /\ \/ pass[d].pc = "alter" /\ Advance(d)
           \/ Return(d)
           \/ \E step \in {"size", "mount", "kv", "alter"} : Goto(d, step)
    BY <1>10 DEF CacheLs, CacheMount, CacheSize, CacheAddKV, CacheAlter, TableSteps, Requeue
  <2> QED BY <1>5, <1>8, <1>9, <2>1
<1>11. ASSUME CachePartitionAlter(d) \/ CachePartitionLs(d) \/ CachePartitionMount(d)
       PROVE  PassChange(d)
  <2>1. /\ pass[d].pc \in PartitionSteps
        /\ \/ pass[d].pc \in {"pls", "pmount"} /\ Advance(d)
           \/ \E step \in {"pls", "pmount"} : Goto(d, step)
    BY <1>11 DEF CachePartitionAlter, CachePartitionLs, CachePartitionMount, PartitionSteps
  <2> QED BY <1>8, <1>9, <2>1
<1>12. ASSUME LabelGet(d) \/ LabelUpdate(d) PROVE PassChange(d)
  <2>1. /\ pass[d].pc \in LabelSteps
        /\ \/ Return(d)
           \/ Retry(d, "labelGet")
           \/ /\ pass' = [pass EXCEPT ![d].pc = "labelUpdate", ![d].dt = View(d).rv]
              /\ ~UpToDate(d, View(d)) /\ UNCHANGED <<api, cache>>
    BY <1>12 DEF LabelGet, LabelUpdate, LabelSteps, Requeue
  <2>2. CASE Retry(d, "labelGet")
    <3>1. pass'[d].pc = "labelGet" /\ pass'[d].ctx = pass[d].ctx
      BY <1>1, <2>2 DEF Retry, Pass
    <3>2. CachesOn(d)
      BY <2>1, <3>1 DEF CachesOn, CachingSteps, LabelSteps
    <3> QED BY <3>2 DEF PassChange
  <2>3. CASE /\ pass' = [pass EXCEPT ![d].pc = "labelUpdate", ![d].dt = View(d).rv]
             /\ ~UpToDate(d, View(d)) /\ UNCHANGED <<api, cache>>
    <3>1. /\ pass'[d].pc = "labelUpdate" /\ pass'[d].dt = View(d).rv
          /\ pass'[d].ctx = pass[d].ctx
      BY <1>1, <2>3 DEF Pass
    <3>2. CachesOn(d)
      BY <2>1, <2>3, <3>1 DEF CachesOn, CachingSteps, LabelSteps
    <3> QED BY <3>2 DEF PassChange
  <2> QED BY <1>5, <2>1, <2>2, <2>3
<1>13. ASSUME Lock(d) PROVE PassChange(d)
  <2> DEFINE left == LabelsToRestore(pass[d].ctx)
  <2>1. pass' = [pass EXCEPT ![d].pc = "list", ![d].left = left] /\ pass[d].pc = "lock"
    BY <1>13 DEF Lock
  <2> HIDE DEF left
  <2>2. pass'[d].pc = "list" /\ pass'[d].left = left /\ pass'[d].ctx = pass[d].ctx
    BY <1>1, <2>1 DEF Pass
  <2> QED BY <2>1, <2>2 DEF Locks, PassChange, left
<1>14. ASSUME NEW u \in pass[d].left, pass[d].pc = "list", IsLast(u) \/ FailList(d),
              pass' = [pass EXCEPT ![d].pc = FirstRestoreStep(u), ![d].unit = u,
                                   ![d].left = @ \ {u}]
       PROVE  PassChange(d)
  <2> DEFINE step == FirstRestoreStep(u)
  <2>1. pass' = [pass EXCEPT ![d].pc = step, ![d].unit = u, ![d].left = @ \ {u}]
    BY <1>14
  <2> HIDE DEF step
  <2>2. /\ pass'[d].pc = step /\ pass'[d].unit = u
        /\ pass'[d].left = pass[d].left \ {u} /\ pass'[d].ctx = pass[d].ctx
    BY <1>1, <2>1 DEF Pass
  <2>3. Lists(d)
    BY <1>14, <2>2, ZenonT(60) DEF Lists, step
  <2> QED BY <2>3 DEF PassChange
<1>15. ASSUME ListHolders(d) PROVE PassChange(d)
  <2>0. pass[d].pc = "list"
    BY <1>15 DEF ListHolders
  <2>1. CASE pass[d].left = {} /\ Goto(d, "clearGet")
    BY <1>6, <1>7, <2>0, <2>1 DEF Lists, PassChange
  <2>2. ASSUME NEW u \in pass[d].left, ~IsLast(u), pass' = [pass EXCEPT ![d].left = @ \ {u}]
        PROVE  PassChange(d)
    <3>1. /\ pass'[d].pc = "list" /\ pass'[d].left = pass[d].left \ {u}
          /\ pass'[d].ctx = pass[d].ctx
      BY <1>1, <2>0, <2>2 DEF Pass
    <3>2. Lists(d)
      BY <2>0, <2>2, <3>1 DEF Lists
    <3> QED BY <3>2 DEF PassChange
  <2> QED BY <1>14, <1>15, <2>0, <2>1, <2>2, ZenonT(60) DEF ListHolders
<1>16. ASSUME FailList(d) PROVE PassChange(d)
  BY <1>14, <1>16 DEF FailList
<1>17. ASSUME \/ pass[d].pc = "unmount" /\ Goto(d, "delkv")
              \/ pass[d].pc = "delkv" /\ Goto(d, "restore")
              \/ pass[d].pc = "prestore" /\ Goto(d, "punmount")
       PROVE  PassChange(d)
  BY <1>6, <1>7, <1>17 DEF RestoresOn, PassChange
<1>18. ASSUME pass[d].pc \in {"restore", "punmount"}, NextLabel(d)
       PROVE  PassChange(d)
  <2>1. /\ pass'[d].pc = "list" /\ pass'[d].ctx = pass[d].ctx
        /\ pass'[d].left = pass[d].left
    BY <1>1, <1>18 DEF NextLabel, Pass
  <2> QED BY <1>18, <2>1 DEF RestoresOn, PassChange
<1>19. ASSUME \/ RestoreUnmount(d) \/ RestoreRemoveKV(d) \/ RestoreAlter(d)
              \/ RestorePartitionAlter(d) \/ RestorePartitionUnmount(d)
       PROVE  PassChange(d)
  BY <1>17, <1>18, <1>19 DEF RestoreUnmount, RestoreRemoveKV, RestoreAlter,
                             RestorePartitionAlter, RestorePartitionUnmount
<1>20. ASSUME Reconcile(d) PROVE PassChange(d)
  <2> DEFINE v == View(d)
             step == Dispatch(v)
             q == [IdlePass EXCEPT !.pc = step, !.ctx = v, !.i = 1]
  <2>1. /\ pass[d].pc = "idle" /\ v.exists /\ v \in Object /\ ObjectOK(v)
        /\ pass' = [pass EXCEPT ![d] = q] /\ UNCHANGED <<api, cache>>
    BY <1>20, ViewType DEF Reconcile, Take
  <2>2. step \in Steps
    BY <2>1, DispatchFacts
  <2> HIDE DEF v, step
  <2>3. q \in Pass /\ q.pc = step /\ q.ctx = v /\ q.i = 1
    BY <2>1, <2>2, IdlePassType DEF Pass
  <2> HIDE DEF q
  <2>4. pass'[d] = q
    BY <1>1, <2>1, <2>3
  <2> QED BY <2>1, <2>3, <2>4 DEF Begins, PassChange, v, step
<1>21. ASSUME Fault(d) PROVE PassChange(d)
  <2>1. CASE FailConnect(d)
    BY <1>2, <2>1 DEF FailConnect
  <2>2. CASE FailReturned(d) \/ FailLocked(d)
    BY <1>5, <2>2 DEF FailReturned, FailLocked, Requeue
  <2>3. CASE FailLs(d)
    <3>1. \/ pass[d].pc \in TableSteps /\ Goto(d, "size")
          \/ pass[d].pc = "pls" /\ Advance(d)
      BY <2>3 DEF FailLs, TableSteps
    <3> QED BY <1>8, <1>9, <3>1
  <2>4. CASE FailDropped(d)
    BY <1>8, <1>17, <1>18, <2>4 DEF FailDropped
  <2>5. CASE FailClear(d)
    BY <2>5 DEF PassChange
  <2> QED BY <1>16, <1>21, <2>1, <2>2, <2>3, <2>4, <2>5 DEF Fault
<1>22. ASSUME AddFinalizer(d) \/ RemoveFinalizer(d) PROVE PassChange(d)
  BY <1>5, <1>22 DEF AddFinalizer, RemoveFinalizer, Requeue
<1>23. ASSUME ClearGet(d) \/ ClearUpdate(d) PROVE PassChange(d)
  BY <1>23 DEF PassChange
<1>24. ASSUME ReconcileNotFound(d) \/ ReconcileNoRuntime(d) PROVE PassChange(d)
  BY <1>2, <1>24 DEF ReconcileNotFound, ReconcileNoRuntime, vars
<1>25. ASSUME \/ Start(d) \/ Lock(d) \/ Fault(d) \/ AddFinalizer(d) \/ Cache(d)
              \/ Recover(d) \/ RemoveFinalizer(d)
       PROVE  PassChange(d)
  BY <1>10, <1>11, <1>12, <1>13, <1>15, <1>19, <1>20, <1>21, <1>22, <1>23, <1>24, <1>25
     DEF Start, Cache, Recover
<1>26. ASSUME NEW e \in DataTable, User(e) \/ Deliver(e) \/ Resync(e) PROVE UNCHANGED pass
  BY <1>26 DEF User, Create, Delete, Edit, Deliver, Resync
<1>27. pass'[d] = pass[d] => PassChange(d)
  BY DEF PassChange
<1>28. ChangeRuntime \/ Crash \/ UNCHANGED vars => Restart \/ UNCHANGED pass
  BY DEF ChangeRuntime, Crash, NoConnection, vars
<1> QED
  BY <1>2, <1>3, <1>4, <1>25, <1>26, <1>27, <1>28 DEF Next, Work, Panic

\* The informer takes in one object, or all when the process starts anew.
LEMMA CacheSteps ==
    ASSUME [Next]_vars
    PROVE  UNCHANGED cache \/ Restart \/ \E d \in DataTable : Deliver(d)
<1>1. ASSUME NEW e \in DataTable,
             User(e) \/ Resync(e) \/ Start(e) \/ Lock(e) \/ Fault(e)
      PROVE  UNCHANGED cache
  BY <1>1, ZenonT(60)
     DEF User, Create, Delete, Edit, Resync, Start, Reconcile, ReconcileNotFound,
         ReconcileNoRuntime, vars, Lock, Fault, FailConnect, NoConnection, FailReturned,
         FailLocked, FailLs, FailDropped, FailList, FailClear
<1>2. ASSUME NEW e \in DataTable, Work(e)
      PROVE  UNCHANGED cache \/ Restart
  BY <1>2 DEF Work, AddFinalizer, Cache, CacheLs, CacheMount, CacheSize, CacheAddKV, CacheAlter,
              CachePartitionAlter, CachePartitionLs, CachePartitionMount, LabelGet,
              LabelUpdate, Recover, ListHolders, RestoreUnmount, RestoreRemoveKV,
              RestoreAlter, RestorePartitionAlter, RestorePartitionUnmount, ClearGet,
              ClearUpdate, RemoveFinalizer, Panic
<1>3. ChangeRuntime \/ Crash \/ UNCHANGED vars => Restart \/ UNCHANGED cache
  BY DEF ChangeRuntime, Crash, vars
<1> QED
  BY <1>1, <1>2, <1>3 DEF Next

\* A read gives the object as it is, or what it gave before.
LEMMA ViewChanges ==
    ASSUME Coherence, [Next]_vars, NEW d \in DataTable
    PROVE  View(d)' = api'[d] \/ View(d)' = View(d)
<1>1. cache \in [DataTable -> Object]
  BY SMTT(60) DEF Coherence, TypeOK
<1>2. ASSUME NEW e \in DataTable, Deliver(e)
      PROVE  View(d)' = api'[d] \/ View(d)' = View(d)
  BY <1>1, <1>2 DEF Deliver, View
<1> QED
  BY <1>2, CacheSteps DEF Restart, View

LEMMA ClearGetPass ==
    ASSUME Coherence, NEW d \in DataTable, ClearGet(d)
    PROVE  /\ pass[d].pc = "clearGet" /\ UNCHANGED <<api, cache>>
           /\ pass'[d].ctx = pass[d].ctx /\ pass'[d].left = pass[d].left
           /\ \/ /\ pass'[d].pc = "panic" /\ Keys(pass[d].ctx) # {}
                 /\ ~View(d).exists \/ Keys(View(d)) = {}
              \/ /\ pass'[d].pc = "finalize"
                 /\ \/ Keys(pass[d].ctx) = {}
                    \/ ClearLabels(View(d), Keys(pass[d].ctx)) = View(d)
              \/ /\ pass'[d].pc = "clearUpdate" /\ pass'[d].dt = View(d).rv
                 /\ Keys(View(d)) # {} /\ Keys(pass[d].ctx) # {}
<1>1. pass \in [DataTable -> Pass] /\ pass[d] \in Pass
  BY DEF Coherence, TypeOK
<1>2. pass[d].pc = "clearGet" /\ UNCHANGED <<api, cache>>
  BY DEF ClearGet
<1>3. CASE Goto(d, "panic") /\ Keys(pass[d].ctx) # {} /\ (~View(d).exists \/ Keys(View(d)) = {})
  <2>1. pass'[d] = [pass[d] EXCEPT !.pc = "panic"]
    BY <1>1, <1>3, GotoFacts DEF Steps
  <2>2. /\ pass'[d].pc = "panic" /\ pass'[d].ctx = pass[d].ctx
        /\ pass'[d].left = pass[d].left
    BY <1>1, <2>1 DEF Pass
  <2> QED BY <1>2, <1>3, <2>2
<1>4. CASE /\ Unlock(d)
           /\ \/ Keys(pass[d].ctx) = {}
              \/ ClearLabels(View(d), Keys(pass[d].ctx)) = View(d)
  <2>1. /\ pass'[d].pc = "finalize" /\ pass'[d].ctx = pass[d].ctx
        /\ pass'[d].left = pass[d].left
    BY <1>1, <1>4 DEF Unlock, Pass
  <2> QED BY <1>2, <1>4, <2>1
<1>5. CASE /\ pass' = [pass EXCEPT ![d].pc = "clearUpdate", ![d].dt = View(d).rv]
           /\ Keys(View(d)) # {} /\ Keys(pass[d].ctx) # {}
  <2>1. /\ pass'[d].pc = "clearUpdate" /\ pass'[d].dt = View(d).rv
        /\ pass'[d].ctx = pass[d].ctx /\ pass'[d].left = pass[d].left
    BY <1>1, <1>5 DEF Pass
  <2> QED BY <1>2, <1>5, <2>1
<1> QED
  BY <1>3, <1>4, <1>5 DEF ClearGet

LEMMA ClearUpdatePass ==
    ASSUME Coherence, NEW d \in DataTable, ClearUpdate(d) \/ FailClear(d)
    PROVE  /\ pass[d].pc = "clearUpdate"
           /\ pass'[d].ctx = pass[d].ctx /\ pass'[d].left = pass[d].left
           /\ pass'[d].pc \in {"clearGet", "finalize"}
<1>1. pass \in [DataTable -> Pass] /\ pass[d] \in Pass
  BY DEF Coherence, TypeOK
<1>2. pass[d].pc = "clearUpdate" /\ (Unlock(d) \/ Retry(d, "clearGet"))
  BY DEF ClearUpdate, FailClear
<1>3. CASE Unlock(d)
  BY <1>1, <1>2, <1>3 DEF Unlock, Pass
<1>4. CASE Retry(d, "clearGet")
  BY <1>1, <1>2, <1>4 DEF Retry, Pass
<1> QED
  BY <1>2, <1>3, <1>4

\* Steps towards the end of a deletion start in a deletion, and a pass that
\* caches has been one from the beginning.
LEMMA DeletingPass ==
    ASSUME Coherence, [Next]_vars, NEW d \in DataTable, pass'[d].pc \in DeletingSteps
    PROVE  \/ pass[d].pc \in DeletingSteps /\ pass'[d].ctx = pass[d].ctx
           \/ Begins(d) /\ View(d).deleting
<1>1. "idle" \notin DeletingSteps /\ IdlePass.pc = "idle"
  BY StepNames DEF IdlePass
<1>2. PassChange(d)
  BY PassChanges
<1>3. CASE Begins(d)
  <2>1. View(d) \in Object /\ ObjectOK(View(d)) /\ View(d).exists
    BY <1>3, ViewType DEF Begins
  <2> QED BY <1>3, <2>1, DispatchFacts DEF Begins
<1>4. ~CachesOn(d)
  BY StepNames DEF CachesOn
<1>5. CASE Locks(d) \/ Lists(d) \/ RestoresOn(d)
  BY <1>5 DEF Locks, Lists, RestoresOn, DeletingSteps, LockedSteps, RestoreSteps
<1>6. CASE ClearGet(d) \/ ClearUpdate(d) \/ FailClear(d)
  BY <1>6, ClearGetPass, ClearUpdatePass DEF DeletingSteps, LockedSteps
<1> QED
  BY <1>1, <1>2, <1>3, <1>4, <1>5, <1>6 DEF PassChange

LEMMA CachingPass ==
    ASSUME Coherence, [Next]_vars, NEW d \in DataTable, pass'[d].pc \in CachingSteps
    PROVE  \/ pass'[d] = pass[d]
           \/ CachesOn(d)
           \/ Begins(d) /\ View(d).finalizer /\ ~View(d).deleting
<1>1. "idle" \notin CachingSteps /\ IdlePass.pc = "idle"
  BY StepNames DEF IdlePass
<1>2. PassChange(d)
  BY PassChanges
<1>3. CASE Begins(d)
  <2>1. View(d) \in Object /\ ObjectOK(View(d)) /\ View(d).exists
    BY <1>3, ViewType DEF Begins
  <2> QED BY <1>3, <2>1, DispatchFacts DEF Begins
<1>4. pass'[d].pc \notin {"list", "clearGet", "delkv", "restore", "punmount", "clearUpdate",
                          "unmount", "prestore", "finalize", "panic"}
  BY DEF CachingSteps, TableSteps, PartitionSteps, LabelSteps
<1>5. ~Locks(d) /\ ~Lists(d) /\ ~RestoresOn(d)
  BY <1>4 DEF Locks, Lists, RestoresOn, FirstRestoreStep
<1>6. ~ClearGet(d) /\ ~ClearUpdate(d) /\ ~FailClear(d)
  BY <1>4, ClearGetPass, ClearUpdatePass
<1> QED
  BY <1>1, <1>2, <1>3, <1>5, <1>6 DEF PassChange

-----------------------------------------------------------------------------
(* Only labels of objects that are being deleted are cleared. *)

LEMMA KeysOfLabels ==
    ASSUME NEW o, NEW p, o.labels = p.labels
    PROVE  Keys(o) = Keys(p) /\ \A v : Labelled(o, v) = Labelled(p, v)
  BY DEF Keys, Labelled

LEMMA NoKeys ==
    ASSUME NEW o, o.labels = NoLabels
    PROVE  Keys(o) = {} /\ \A u \in Unit : o.labels[u] # "false" /\ o.labels[u] # "true"
  BY DEF Keys, NoLabels

\* What is known of a deletion stays known until someone labels the object.
LEMMA DeletionStaysKnown ==
    ASSUME Coherence, [Next]_vars, NEW d \in DataTable, DeletionKnown(d),
           ~LabelsWritten(d), LabelsCleared(d) => api[d].deleting
    PROVE  DeletionKnown(d)'
<1>1. ObjectChange(d)
  BY ObjectChanges
<1>2. CASE Created(d)
  BY <1>2, NoKeys DEF Created, Becomes, DeletionKnown
<1>3. CASE Deleted(d)
  BY <1>3, NoKeys DEF Deleted, Gone, Becomes, DeletionKnown
<1>4. CASE Edited(d)
  <2>1. api'[d].deleting = api[d].deleting /\ api'[d].labels = api[d].labels
    BY <1>4 DEF Edited, Becomes
  <2> QED BY <2>1, KeysOfLabels DEF DeletionKnown
<1>5. CASE FinalizerAdded(d)
  <2>1. api'[d].deleting = api[d].deleting /\ api'[d].labels = api[d].labels
    BY <1>5 DEF FinalizerAdded, Becomes
  <2> QED BY <2>1, KeysOfLabels DEF DeletionKnown
<1>6. CASE LabelsCleared(d)
  BY <1>6 DEF LabelsCleared, Becomes, DeletionKnown
<1>7. CASE FinalizerRemoved(d)
  BY <1>7, NoKeys DEF FinalizerRemoved, Gone, Becomes, DeletionKnown
<1>8. CASE api'[d] = api[d]
  BY <1>8 DEF DeletionKnown
<1> QED
  BY <1>1, <1>2, <1>3, <1>4, <1>5, <1>6, <1>7, <1>8 DEF ObjectChange

LEMMA LabelHistoryStep ==
    ASSUME Coherence, LabelHistory, [Next]_vars
    PROVE  LabelHistory'
<1> SUFFICES ASSUME NEW d \in DataTable
             PROVE  /\ \A u \in Unit : api'[d].labels[u] = "false" => api'[d].deleting
                    /\ View(d)'.deleting => DeletionKnown(d)'
                    /\ pass'[d].pc \in CachingSteps /\ View(d)'.deleting => api'[d].deleting
                    /\ pass'[d].pc \in DeletingSteps => DeletionKnown(d)'
                    /\ pass'[d].pc = "clearUpdate" =>
                          /\ pass'[d].dt <= api'[d].rv
                          /\ pass'[d].dt = api'[d].rv => Keys(api'[d]) # {}
  BY DEF LabelHistory
<1>1. ObjectChange(d) /\ PassChange(d)
  BY ObjectChanges, PassChanges
<1>2. View(d)' = api'[d] \/ View(d)' = View(d)
  BY ViewChanges
<1>3. "clearUpdate" \in DeletingSteps /\ "labelUpdate" \in CachingSteps
  BY DEF DeletingSteps, LockedSteps, CachingSteps, LabelSteps
<1>4. LabelsCleared(d) => api[d].deleting
  BY <1>3 DEF LabelsCleared, Accepted, LabelHistory, DeletionKnown
<1>5. \A u \in Unit : api'[d].labels[u] = "false" => api'[d].deleting
  <2>1. \A u \in Unit : api[d].labels[u] = "false" => api[d].deleting
    BY DEF LabelHistory
  <2>2. LabelsWritten(d) => \A u \in Unit : api'[d].labels[u] # "false"
    BY DEF LabelsWritten, Becomes, NewLabels
  <2>3. \A u \in Unit : NoLabels[u] # "false"
    BY DEF NoLabels
  <2>4. CASE Created(d) \/ FinalizerRemoved(d)
    BY <2>3, <2>4 DEF Created, FinalizerRemoved, Gone, Becomes
  <2>5. CASE Deleted(d)
    BY <2>3, <2>5 DEF Deleted, Gone, Becomes
  <2>6. CASE Edited(d) \/ FinalizerAdded(d)
    <3>1. api'[d].deleting = api[d].deleting /\ api'[d].labels = api[d].labels
      BY <2>6 DEF Edited, FinalizerAdded, Becomes
    <3> QED BY <2>1, <3>1
  <2>7. CASE LabelsCleared(d)
    BY <1>4, <2>7 DEF LabelsCleared, Becomes
  <2> QED BY <1>1, <2>1, <2>2, <2>4, <2>5, <2>6, <2>7 DEF ObjectChange
<1>6. View(d)'.deleting => DeletionKnown(d)'
  <2>1. CASE View(d)' = api'[d]
    BY <2>1 DEF DeletionKnown
  <2>2. CASE View(d)' = View(d) /\ View(d).deleting
    <3>1. DeletionKnown(d)
      BY <2>2 DEF LabelHistory
    <3>2. LabelsWritten(d) => api'[d].deleting
      BY <1>3, <2>2 DEF LabelsWritten, Becomes, LabelHistory
    <3> QED BY <1>4, <3>1, <3>2, DeletionStaysKnown DEF DeletionKnown
  <2> QED BY <1>2, <2>1, <2>2
<1>7. ASSUME pass'[d].pc \in CachingSteps, View(d)'.deleting
      PROVE  api'[d].deleting
  <2>1. CASE View(d)' = api'[d]
    BY <1>7, <2>1
  <2>2. CASE View(d)' = View(d)
    <3>1. pass[d].pc \in CachingSteps
      BY <1>7, <2>2, CachingPass DEF CachesOn
    <3>2. api[d].deleting /\ api[d].exists
      BY <1>7, <2>2, <3>1 DEF LabelHistory, Coherence, Protection, Protected
    <3>3. pass'[d] # IdlePass /\ pass'[d].pc # "finalize"
      BY <1>7, StepNames DEF IdlePass, DeletingSteps
    <3>4. Edited(d) => api'[d].deleting = api[d].deleting
      BY DEF Edited, Becomes
    <3> QED
      BY <1>1, <3>2, <3>3, <3>4
         DEF ObjectChange, Created, Deleted, LabelsWritten, LabelsCleared, FinalizerRemoved
  <2> QED BY <1>2, <2>1, <2>2
<1>8. ASSUME pass'[d].pc \in DeletingSteps
      PROVE  DeletionKnown(d)'
  <2>1. DeletionKnown(d)
    BY <1>8, DeletingPass DEF LabelHistory
  <2>2. ~LabelsWritten(d)
    <3>1. IdlePass.pc = "idle"
      BY DEF IdlePass
    <3> QED BY <1>8, <3>1, StepNames DEF LabelsWritten
  <2> QED BY <1>4, <2>1, <2>2, DeletionStaysKnown
<1>9. ASSUME pass'[d].pc = "clearUpdate"
      PROVE  /\ pass'[d].dt <= api'[d].rv
             /\ pass'[d].dt = api'[d].rv => Keys(api'[d]) # {}
  <2>1. pass[d].dt \in Nat /\ api[d].rv \in Nat
    BY DEF Coherence, TypeOK, Pass, Object
  <2>2. api'[d] = api[d] \/ api'[d].rv = api[d].rv + 1
    BY <1>1 DEF ObjectChange, Created, Deleted, Edited, FinalizerAdded, LabelsWritten,
                LabelsCleared, FinalizerRemoved, Gone, Becomes
  <2>3. CASE pass'[d] = pass[d]
    <3>1. pass[d].dt <= api[d].rv /\ (pass[d].dt = api[d].rv => Keys(api[d]) # {})
      BY <1>9, <2>3 DEF LabelHistory
    <3>2. CASE api'[d] = api[d]
      BY <2>3, <3>1, <3>2
    <3>3. CASE api'[d].rv = api[d].rv + 1
      BY <2>1, <2>3, <3>1, <3>3
    <3> QED BY <2>2, <3>2, <3>3
  <2>4. CASE ClearGet(d)
    <3>1. /\ pass[d].pc # "idle" /\ UNCHANGED api
          /\ pass'[d].dt = View(d).rv /\ Keys(View(d)) # {}
      BY <1>9, <2>4, ClearGetPass
    <3>2. CopyOf(View(d), api[d])
      BY <3>1, ContextIsCopy
    <3> QED BY <3>1, <3>2 DEF CopyOf
  <2>5. ~(ClearUpdate(d) \/ FailClear(d))
    BY <1>9, ClearUpdatePass
  <2>6. pass'[d] # IdlePass /\ ~Begins(d)
    BY <1>9 DEF IdlePass, Begins, Dispatch, FirstStep
  <2>7. ~CachesOn(d)
    BY <1>9 DEF CachesOn, CachingSteps, TableSteps, PartitionSteps, LabelSteps
  <2>8. ~Locks(d) /\ ~Lists(d) /\ ~RestoresOn(d)
    BY <1>9 DEF Locks, Lists, RestoresOn, FirstRestoreStep
  <2> QED BY <1>1, <2>3, <2>4, <2>5, <2>6, <2>7, <2>8 DEF PassChange
<1> QED
  BY <1>5, <1>6, <1>7, <1>8, <1>9

LEMMA InitLabelHistory == Init => LabelHistory
<1> SUFFICES ASSUME Init, NEW d \in DataTable
             PROVE  /\ \A u \in Unit : api[d].labels[u] # "false"
                    /\ ~View(d).deleting
                    /\ pass[d].pc = "idle"
  BY StepNames DEF LabelHistory, DeletingSteps
<1>1. api[d] = NoObject /\ View(d) = NoObject /\ pass[d] = IdlePass
  BY DEF Init, View
<1> QED
  BY <1>1, NoObjectFields DEF NoLabels, IdlePass

\* ReconcileDatatableDeletion may work for an object that is gone, or on a copy
\* that is out of date; all the same the Update that clears labels never hits a
\* live object, such as one created since under the same name: that one has no
\* labels until a pass of its own has cached its units, and until then a loop
\* that clears labels finds none to clear.  No assumption on caches, users,
\* failures, crashes or edits is needed.
THEOREM ClearsOnlyDeleted == Spec => []LiveLabelsKept
<1>1. Init => Coherence /\ LabelHistory
  BY InitCoherent, InitLabelHistory
<1>2. Coherence /\ LabelHistory /\ [Next]_vars => (Coherence /\ LabelHistory)'
  BY NextCoherent, LabelHistoryStep
<1>3. LabelHistory => LiveLabelsKept
  BY DEF LabelHistory, LiveLabelsKept
<1> QED
  BY <1>1, <1>2, <1>3, PTL DEF Spec

-----------------------------------------------------------------------------
(* Without edits and failures, what is moved back is labelled. *)

LEMMA NoEdits ==
    ASSUME Coherence, [Next]_vars, budget.edits = 0
    PROVE  budget'.edits = 0 /\ \A d \in DataTable : ~Edited(d)
<1>1. budget \in Budget
  BY DEF Coherence, TypeOK
<1>2. ASSUME NEW what \in {"creations", "edits", "failures", "crashes", "runtimeChanges"},
             Spend(what)
      PROVE  what # "edits" /\ budget'.edits = 0
  BY <1>1, <1>2 DEF Spend, Budget
<1>3. ASSUME NEW e \in DataTable, User(e) \/ Resync(e) \/ Deliver(e) \/ Start(e) \/ Lock(e)
      PROVE  budget'.edits = 0
  BY <1>2, <1>3, ZenonT(60) DEF User, Create, Delete, Edit, Resync, Deliver, Start, Reconcile,
                    ReconcileNotFound, ReconcileNoRuntime, vars, Lock
<1>4. ASSUME NEW e \in DataTable, Fault(e)
      PROVE  budget'.edits = 0
  BY <1>2, <1>4, ZenonT(60) DEF Fault, FailConnect, NoConnection, FailReturned, FailLocked, FailLs, FailDropped,
                    FailList, FailClear
<1>5. ASSUME NEW e \in DataTable, Work(e)
      PROVE  UNCHANGED budget
  BY <1>5 DEF Work, AddFinalizer, Cache, CacheLs, CacheMount, CacheSize, CacheAddKV, CacheAlter,
              CachePartitionAlter, CachePartitionLs, CachePartitionMount, LabelGet,
              LabelUpdate, Recover, ListHolders, RestoreUnmount, RestoreRemoveKV,
              RestoreAlter, RestorePartitionAlter, RestorePartitionUnmount, ClearGet,
              ClearUpdate, RemoveFinalizer, Panic
<1>6. ChangeRuntime \/ Crash \/ UNCHANGED vars => budget'.edits = 0
  BY <1>2 DEF ChangeRuntime, Crash, NoConnection, vars
<1>7. budget'.edits = 0
  BY <1>3, <1>4, <1>5, <1>6 DEF Next
<1> QED
  BY <1>7 DEF Edited

\* How the labels of an object change.
LEMMA KeysChange ==
    ASSUME Coherence, [Next]_vars, NEW d \in DataTable
    PROVE  /\ LabelsWritten(d) => Keys(api'[d]) = SpecUnits(pass[d].ctx)
           /\ LabelsCleared(d) => Keys(api'[d]) = Keys(api[d]) \cup Keys(pass[d].ctx)
           /\ Created(d) \/ FinalizerRemoved(d) => Keys(api'[d]) = {}
           /\ Deleted(d) => \/ ~api[d].finalizer /\ Keys(api'[d]) = {}
                            \/ /\ api[d].finalizer /\ Keys(api'[d]) = Keys(api[d])
                               /\ api'[d].spec = api[d].spec
                               /\ api'[d].exists /\ api'[d].deleting
           /\ FinalizerAdded(d) => Keys(api'[d]) = Keys(api[d])
           /\ FinalizerAdded(d) \/ LabelsWritten(d) \/ LabelsCleared(d) =>
                 /\ api'[d].spec = api[d].spec /\ api'[d].exists
                 /\ api'[d].deleting = api[d].deleting
<1>1. LabelsWritten(d) => Keys(api'[d]) = SpecUnits(pass[d].ctx)
  BY DEF LabelsWritten, Becomes, NewLabels, Keys, SpecUnits
<1>2. LabelsCleared(d) => Keys(api'[d]) = Keys(api[d]) \cup Keys(pass[d].ctx)
  <2> SUFFICES ASSUME LabelsCleared(d), NEW u \in Unit
               PROVE  api'[d].labels[u] # "absent"
                         <=> api[d].labels[u] # "absent" \/ u \in Keys(pass[d].ctx)
    BY DEF Keys
  <2>1. api'[d].labels[u] = IF u \in Keys(pass[d].ctx) THEN "false" ELSE api[d].labels[u]
    BY DEF LabelsCleared, Becomes, Cleared
  <2> QED BY <2>1
<1>3. Created(d) \/ FinalizerRemoved(d) => Keys(api'[d]) = {}
  BY NoKeys DEF Created, FinalizerRemoved, Gone, Becomes
<1>4. Deleted(d) => \/ ~api[d].finalizer /\ Keys(api'[d]) = {}
                    \/ /\ api[d].finalizer /\ Keys(api'[d]) = Keys(api[d])
                       /\ api'[d].spec = api[d].spec
                       /\ api'[d].exists /\ api'[d].deleting
  BY NoKeys, KeysOfLabels DEF Deleted, Gone, Becomes
<1>5. FinalizerAdded(d) => Keys(api'[d]) = Keys(api[d])
  BY KeysOfLabels DEF FinalizerAdded, Becomes
<1>6. FinalizerAdded(d) \/ LabelsWritten(d) \/ LabelsCleared(d) =>
         /\ api'[d].spec = api[d].spec /\ api'[d].exists
         /\ api'[d].deleting = api[d].deleting
  BY DEF FinalizerAdded, LabelsWritten, LabelsCleared, Becomes
<1> QED
  BY <1>1, <1>2, <1>3, <1>4, <1>5, <1>6

\* A copy that shows a deletion stays accounted for.
LEMMA StaysAccounted ==
    ASSUME Coherence, LabelHistory, LabelsHeld, [Next]_vars, NEW d \in DataTable,
           NEW copy, Accounted(d, copy),
           LabelsWritten(d) =>
              api[d].exists /\ api[d].deleting /\ Keys(copy) \subseteq SpecUnits(api[d]),
           FinalizerRemoved(d) => Labelled(copy, "true") = {}
    PROVE  Accounted(d, copy)'
<1>1. ObjectChange(d) /\ ~Edited(d)
  BY ObjectChanges, NoEdits DEF LabelsHeld
<1> DEFINE Ok == \/ api'[d].exists /\ api'[d].deleting /\ Keys(copy) \subseteq Keys(api'[d])
                 \/ Labelled(copy, "true") = {} /\ Keys(api'[d]) = {}
<1> SUFFICES Ok
  BY DEF Accounted
<1>2. CASE api'[d] = api[d]
  BY <1>2 DEF Accounted
<1>3. CASE Created(d)
  BY <1>3, KeysChange DEF Created, Accounted
<1>4. CASE Deleted(d)
  <2>1. ~api[d].deleting
    BY <1>4 DEF Deleted
  <2> QED BY <1>4, <2>1, KeysChange DEF Accounted
<1>5. CASE FinalizerAdded(d)
  BY <1>5, KeysChange DEF FinalizerAdded, Accounted
<1>6. CASE LabelsWritten(d)
  <2>1. pass[d].ctx.spec = api[d].spec
    BY <1>6 DEF LabelsWritten, LabelsHeld, CachingSteps, LabelSteps
  <2>2. Keys(api'[d]) = SpecUnits(api[d])
    BY <1>6, <2>1, KeysChange, SMTT(30) DEF SpecUnits
  <2>3. api'[d].exists /\ api'[d].deleting
    BY <1>6, KeysChange
  <2> QED BY <1>6, <2>2, <2>3
<1>7. CASE LabelsCleared(d)
  <2>1. Keys(api[d]) # {}
    BY <1>7 DEF LabelsCleared, Accepted, LabelHistory
  <2> QED BY <1>7, <2>1, KeysChange DEF Accounted
<1>8. CASE FinalizerRemoved(d)
  BY <1>8, KeysChange
<1> QED
  BY <1>1, <1>2, <1>3, <1>4, <1>5, <1>6, <1>7, <1>8 DEF ObjectChange

\* The Update that ends an object is that of the copy everybody else sees.
LEMMA RemovedCopy ==
    ASSUME Coherence, ClearedOrOutdated, NEW d \in DataTable, FinalizerRemoved(d)
    PROVE  /\ pass[d].ctx = api[d] /\ View(d) = api[d] /\ api[d].deleting
           /\ Labelled(api[d], "true") = {}
<1>1. pass[d].pc = "finalize" /\ pass[d].ctx.rv = api[d].rv
  BY DEF FinalizerRemoved, Accepted
<1>2. /\ CopyOf(pass[d].ctx, api[d]) /\ CopyOf(View(d), api[d])
      /\ CopyOf(pass[d].ctx, View(d))
      /\ pass[d].ctx.rv \in Nat /\ View(d).rv \in Nat /\ api[d].rv \in Nat
  BY <1>1, ContextIsCopy
<1>3. View(d).rv = api[d].rv
  BY <1>1, <1>2 DEF CopyOf
<1>4. pass[d].ctx = api[d] /\ View(d) = api[d]
  BY <1>1, <1>2, <1>3 DEF CopyOf
<1>5. pass[d].ctx.deleting
  BY <1>1 DEF Coherence, Shape, PassOK, DeletingSteps
<1>6. Labelled(pass[d].ctx, "true") = {} \/ pass[d].ctx.rv < api[d].rv
  BY <1>1 DEF ClearedOrOutdated
<1> QED
  BY <1>2, <1>4, <1>5, <1>6

\* An object that has a finalizer keeps its spec until it goes.
LEMMA SpecStays ==
    ASSUME Coherence, LabelsHeld, [Next]_vars, NEW d \in DataTable, Protected(d),
           ~FinalizerRemoved(d)
    PROVE  api'[d].spec = api[d].spec
<1>1. ObjectChange(d) /\ ~Edited(d)
  BY ObjectChanges, NoEdits DEF LabelsHeld
<1> QED
  BY <1>1, KeysChange DEF ObjectChange, Created, Protected

\* The loop over the labels is the copy's: of labels that are to be restored.
LEMMA FollowsCopyStep ==
    ASSUME Coherence, [Next]_vars, NEW d \in DataTable, FollowsCopy(d)
    PROVE  FollowsCopy(d)'
<1> SUFFICES ASSUME pass'[d].pc \in LockedSteps
             PROVE  /\ pass'[d].left \subseteq Labelled(pass'[d].ctx, "true")
                    /\ pass'[d].pc \in RestoreSteps =>
                          pass'[d].unit \in Labelled(pass'[d].ctx, "true")
  BY DEF FollowsCopy, LockedSteps
<1>1. /\ pass[d].pc \in LockedSteps => pass[d].left \subseteq Labelled(pass[d].ctx, "true")
      /\ pass[d].pc \in RestoreSteps => pass[d].unit \in Labelled(pass[d].ctx, "true")
  BY DEF FollowsCopy
<1>2. CASE pass'[d] = pass[d]
  BY <1>1, <1>2
<1>3. CASE Locks(d)
  BY <1>3 DEF Locks, LabelsToRestore, RestoreSteps
<1>4. CASE Lists(d)
  <2>1. pass[d].left \subseteq Labelled(pass[d].ctx, "true")
    BY <1>1, <1>4 DEF Lists, LockedSteps
  <2> QED BY <1>4, <2>1 DEF Lists, RestoreSteps
<1>5. CASE RestoresOn(d)
  BY <1>1, <1>5 DEF RestoresOn, LockedSteps, RestoreSteps
<1>6. CASE ClearGet(d) \/ ClearUpdate(d) \/ FailClear(d)
  <2>1. /\ pass[d].pc \in LockedSteps /\ pass'[d].left = pass[d].left
        /\ pass'[d].ctx = pass[d].ctx /\ pass'[d].pc \notin RestoreSteps
    BY <1>6, ClearGetPass, ClearUpdatePass DEF LockedSteps, RestoreSteps
  <2> QED BY <1>1, <2>1
<1>7. ~CachesOn(d)
  BY StepNames DEF CachesOn, DeletingSteps
<1>8. ~Begins(d)
  BY DEF Begins, Dispatch, FirstStep, LockedSteps, RestoreSteps
<1>9. pass'[d] # IdlePass
  BY StepNames DEF IdlePass, DeletingSteps
<1> QED
  BY <1>2, <1>3, <1>4, <1>5, <1>6, <1>7, <1>8, <1>9, PassChanges DEF PassChange

LEMMA LabelsHeldStep ==
    ASSUME Coherence, ClearedOrOutdated, LabelHistory, LabelsHeld, [Next]_vars
    PROVE  LabelsHeld'
<1>1. budget'.edits = 0
  BY NoEdits DEF LabelsHeld
<1> SUFFICES ASSUME NEW d \in DataTable
             PROVE  /\ Keys(api'[d]) \subseteq SpecUnits(api'[d])
                    /\ View(d)'.finalizer /\ ~View(d)'.deleting =>
                          /\ View(d)'.spec = api'[d].spec
                          /\ Keys(View(d)') \subseteq SpecUnits(api'[d])
                    /\ pass'[d].pc \in CachingSteps =>
                          /\ pass'[d].ctx.spec = api'[d].spec
                          /\ Keys(View(d)') \subseteq SpecUnits(api'[d])
                    /\ View(d)'.deleting => Accounted(d, View(d))'
                    /\ pass'[d].pc \in DeletingSteps => Accounted(d, pass[d].ctx)'
                    /\ FollowsCopy(d)'
  BY <1>1 DEF LabelsHeld
<1>2. ObjectChange(d) /\ ~Edited(d) /\ PassChange(d)
  BY ObjectChanges, PassChanges, NoEdits DEF LabelsHeld
<1>3. View(d)' = api'[d] \/ View(d)' = View(d)
  BY ViewChanges
<1>4. Coherence'
  BY NextCoherent
<1>5. ASSUME NEW o, NEW p, o.spec = p.spec PROVE SpecUnits(o) = SpecUnits(p)
  BY <1>5 DEF SpecUnits
<1>6. Keys(api'[d]) \subseteq SpecUnits(api'[d])
  <2>1. Keys(api[d]) \subseteq SpecUnits(api[d])
    BY DEF LabelsHeld
  <2>2. CASE LabelsWritten(d)
    <3>1. pass[d].ctx.spec = api[d].spec /\ api'[d].spec = api[d].spec
      BY <2>2, KeysChange DEF LabelsWritten, LabelsHeld, CachingSteps, LabelSteps
    <3> QED BY <1>5, <2>2, <3>1, KeysChange
  <2>3. CASE LabelsCleared(d)
    <3>1. Keys(api[d]) # {} /\ Accounted(d, pass[d].ctx)
      BY <2>3 DEF LabelsCleared, Accepted, LabelHistory, LabelsHeld, DeletingSteps, LockedSteps
    <3>2. Keys(api'[d]) = Keys(api[d])
      BY <2>3, <3>1, KeysChange DEF Accounted
    <3> QED BY <1>5, <2>1, <2>3, <3>2, KeysChange
  <2>4. CASE FinalizerAdded(d)
    BY <1>5, <2>1, <2>4, KeysChange
  <2>5. CASE Deleted(d)
    BY <1>5, <2>1, <2>5, KeysChange
  <2>6. CASE Created(d) \/ FinalizerRemoved(d)
    BY <2>6, KeysChange
  <2> QED BY <1>2, <2>1, <2>2, <2>3, <2>4, <2>5, <2>6 DEF ObjectChange
<1>7. ASSUME View(d)'.finalizer, ~View(d)'.deleting
      PROVE  View(d)'.spec = api'[d].spec /\ Keys(View(d)') \subseteq SpecUnits(api'[d])
  <2>1. CASE View(d)' = api'[d]
    BY <1>6, <2>1
  <2>2. CASE View(d)' = View(d)
    <3>1. /\ View(d).spec = api[d].spec /\ Keys(View(d)) \subseteq SpecUnits(api[d])
          /\ Protected(d)
      BY <1>7, <2>2 DEF LabelsHeld, Coherence, Protection
    <3>2. ~FinalizerRemoved(d)
      BY <1>7, <2>2, RemovedCopy
    <3>3. api'[d].spec = api[d].spec
      BY <3>1, <3>2, SpecStays
    <3> QED BY <1>5, <2>2, <3>1, <3>3
  <2> QED BY <1>3, <2>1, <2>2
<1>8. ASSUME pass'[d].pc \in CachingSteps
      PROVE  /\ pass'[d].ctx.spec = api'[d].spec
             /\ Keys(View(d)') \subseteq SpecUnits(api'[d])
  <2>1. /\ pass'[d].ctx.spec = api[d].spec
        /\ Keys(View(d)) \subseteq SpecUnits(api[d])
        /\ Protected(d)
    <3>1. CASE pass'[d] = pass[d] \/ CachesOn(d)
      BY <1>8, <3>1 DEF CachesOn, LabelsHeld, Coherence, Protection
    <3>2. CASE Begins(d) /\ View(d).finalizer /\ ~View(d).deleting
      BY <3>2 DEF Begins, LabelsHeld, Coherence, Protection
    <3> QED BY <1>8, <3>1, <3>2, CachingPass
  <2>2. ~FinalizerRemoved(d)
    <3>1. IdlePass.pc = "idle"
      BY DEF IdlePass
    <3> QED BY <1>8, <3>1, StepNames DEF FinalizerRemoved
  <2>3. api'[d].spec = api[d].spec
    BY <2>1, <2>2, SpecStays
  <2>4. Keys(View(d)') \subseteq SpecUnits(api'[d])
    BY <1>3, <1>5, <1>6, <2>1, <2>3
  <2> QED BY <2>1, <2>3, <2>4
<1>9. ASSUME View(d)'.deleting
      PROVE  Accounted(d, View(d))'
  <2>1. CASE View(d)' = api'[d]
    <3>1. api'[d].exists
      BY <1>4, <1>9, <2>1 DEF Coherence, Shape, ObjectOK
    <3> QED BY <1>9, <2>1, <3>1 DEF Accounted
  <2>2. CASE View(d)' = View(d)
    <3>1. Accounted(d, View(d))
      BY <1>9, <2>2 DEF LabelsHeld
    <3>2. LabelsWritten(d) =>
             /\ api[d].exists /\ api[d].deleting
             /\ Keys(View(d)) \subseteq SpecUnits(api[d])
      <4> SUFFICES ASSUME LabelsWritten(d)
                   PROVE  /\ api[d].exists /\ api[d].deleting
                          /\ Keys(View(d)) \subseteq SpecUnits(api[d])
        OBVIOUS
      <4>1. pass[d].pc \in CachingSteps
        BY DEF LabelsWritten, CachingSteps, LabelSteps
      <4> QED
        BY <1>9, <2>2, <4>1 DEF LabelHistory, LabelsHeld, Coherence, Protection, Protected
    <3>3. FinalizerRemoved(d) => Labelled(View(d), "true") = {}
      BY RemovedCopy
    <3>4. PICK v : v = View(d)
      OBVIOUS
    <3>5. Accounted(d, v)'
      BY <3>1, <3>2, <3>3, <3>4, StaysAccounted
    <3>6. v = View(d)'
      BY <2>2, <3>4
    <3> QED BY <3>5, <3>6 DEF Accounted
  <2> QED BY <1>3, <2>1, <2>2
<1>10. ASSUME pass'[d].pc \in DeletingSteps
       PROVE  Accounted(d, pass[d].ctx)'
  <2>1. PICK c : c = pass'[d].ctx
    OBVIOUS
  <2>2. Accounted(d, c)
    BY <1>10, <2>1, DeletingPass DEF Begins, LabelsHeld
  <2>3. ~LabelsWritten(d) /\ ~FinalizerRemoved(d)
    <3>1. IdlePass.pc = "idle"
      BY DEF IdlePass
    <3> QED BY <1>10, <3>1, StepNames DEF LabelsWritten, FinalizerRemoved
  <2>4. Accounted(d, c)'
    BY <2>2, <2>3, StaysAccounted
  <2> QED BY <2>1, <2>4 DEF Accounted
<1>11. FollowsCopy(d)'
  BY FollowsCopyStep DEF LabelsHeld
<1> QED
  BY <1>6, <1>7, <1>8, <1>9, <1>10, <1>11

LEMMA InitFollowsCopy == Init => \A d \in DataTable : FollowsCopy(d)
<1>1. IdlePass.pc = "idle"
  BY DEF IdlePass
<1> QED
  BY <1>1, StepNames DEF Init, FollowsCopy, DeletingSteps, LockedSteps

LEMMA InitLabelsHeld ==
    ASSUME MaxEdits = 0, Init
    PROVE  LabelsHeld
<1>1. budget.edits = 0
  BY DEF Init
<1> SUFFICES ASSUME NEW d \in DataTable
             PROVE  /\ Keys(api[d]) = {} /\ pass[d].pc = "idle"
                    /\ ~View(d).finalizer /\ ~View(d).deleting
  BY <1>1, StepNames, InitFollowsCopy DEF LabelsHeld, DeletingSteps
<1>2. api[d] = NoObject /\ View(d) = NoObject /\ pass[d] = IdlePass
  BY DEF Init, View
<1> QED
  BY <1>2, NoObjectFields, NoKeys DEF IdlePass

\* Which steps move a unit back to HDFS.
LEMMA MovedBack ==
    ASSUME Coherence, [Next]_vars, NEW u \in Unit,
           location[u] = "alluxio", location'[u] = "hdfs"
    PROVE  \E d \in DataTable : pass[d].pc \in RestoreSteps /\ pass[d].unit = u
<1> USE DEF cluster
<1>1. location \in [Unit -> {"hdfs", "alluxio"}] /\ location' # location
  BY DEF Coherence, TypeOK
<1>2. ASSUME NEW d \in DataTable, RestoreAlter(d) \/ RestorePartitionAlter(d)
      PROVE  pass[d].pc \in RestoreSteps /\ pass[d].unit = u
  BY <1>1, <1>2 DEF RestoreAlter, RestorePartitionAlter, RestoreSteps
<1>3. ASSUME NEW d \in DataTable, CacheAlter(d) \/ CachePartitionAlter(d)
      PROVE  FALSE
  BY <1>1, <1>3, SMTT(60) DEF CacheAlter, CachePartitionAlter
<1>4. ASSUME NEW d \in DataTable, User(d) \/ Resync(d) \/ Deliver(d) \/ Start(d) \/ Lock(d)
      PROVE  FALSE
  BY <1>1, <1>4, ZenonT(60) DEF User, Create, Delete, Edit, Resync, Deliver, Start, Reconcile,
                    ReconcileNotFound, ReconcileNoRuntime, vars, Lock
<1>5. ASSUME NEW d \in DataTable, Fault(d)
      PROVE  FALSE
  BY <1>1, <1>5, ZenonT(60) DEF Fault, FailConnect, NoConnection, FailReturned, FailLocked, FailLs, FailDropped,
                    FailList, FailClear
<1>6. ASSUME NEW d \in DataTable, Work(d)
      PROVE  RestoreAlter(d) \/ RestorePartitionAlter(d)
  BY <1>1, <1>3, <1>6
     DEF Work, AddFinalizer, Cache, CacheLs, CacheMount, CacheSize, CacheAddKV,
         CachePartitionLs, CachePartitionMount, LabelGet, LabelUpdate, Recover, ListHolders,
         RestoreUnmount, RestoreRemoveKV, RestorePartitionUnmount, ClearGet, ClearUpdate,
         RemoveFinalizer, Panic, Restart
<1>7. ~(ChangeRuntime \/ Crash \/ UNCHANGED vars)
  BY <1>1 DEF ChangeRuntime, Crash, Restart, vars
<1> QED
  BY <1>2, <1>4, <1>5, <1>6, <1>7 DEF Next

\* A unit moves back to HDFS only by a pass that holds the mutex and works for
\* an object that is being deleted now and bears the label of the unit, even if
\* the copy the pass began with is out of date.  Without failures, since after
\* one the finalizer may go before the labels; without edits, since a pass that
\* began before an edit may replace the labels of an object whose deletion, with
\* the labels before, the cache already shows.
THEOREM RestoresWhatItLabelled ==
    ASSUME MaxFailures = 0, MaxEdits = 0
    PROVE  Spec => RestoredByDeletion
<1> DEFINE Inv == Coherence /\ ClearedOrOutdated /\ LabelHistory /\ LabelsHeld
           Step == \A u \in Unit :
                      location[u] = "alluxio" /\ location'[u] = "hdfs" =>
                          \E d \in DataTable : /\ mutex = d
                                               /\ api[d].exists /\ api[d].deleting
                                               /\ api[d].labels[u] # "absent"
<1>1. Init => Inv
  BY InitCoherent, InitClearedOrOutdated, InitLabelHistory, InitLabelsHeld
<1>2. Inv /\ [Next]_vars => Inv'
  BY NextCoherent, ClearedOrOutdatedStep, LabelHistoryStep, LabelsHeldStep
<1>3. ASSUME Inv, [Next]_vars
      PROVE  Step
  <2> SUFFICES ASSUME NEW u \in Unit, location[u] = "alluxio", location'[u] = "hdfs"
               PROVE  \E d \in DataTable : /\ mutex = d
                                           /\ api[d].exists /\ api[d].deleting
                                           /\ api[d].labels[u] # "absent"
    OBVIOUS
  <2>1. PICK d \in DataTable : pass[d].pc \in RestoreSteps /\ pass[d].unit = u
    BY <1>3, MovedBack
  <2>2. pass[d].pc \in LockedSteps /\ pass[d].pc \in DeletingSteps
    BY <2>1 DEF LockedSteps, DeletingSteps
  <2>3. mutex = d
    BY <1>3, <2>2 DEF Coherence, RecoverExclusive
  <2>4. u \in Labelled(pass[d].ctx, "true") /\ Accounted(d, pass[d].ctx)
    BY <1>3, <2>1, <2>2 DEF LabelsHeld, FollowsCopy
  <2>5. api[d].exists /\ api[d].deleting /\ u \in Keys(api[d])
    BY <2>4 DEF Accounted, Labelled, Keys
  <2> QED BY <2>3, <2>5 DEF Keys
<1>4. Inv /\ [Next]_vars => [Step]_vars
  BY <1>3
<1> QED
  BY <1>1, <1>2, <1>4, PTL DEF Spec, RestoredByDeletion

-----------------------------------------------------------------------------
(* Without edits and failures, labels come and go as a whole.              *)

Basics == Coherence /\ ClearedOrOutdated /\ LabelHistory /\ LabelsHeld

LEMMA BasicsStep ==
    ASSUME Basics, [Next]_vars
    PROVE  Basics'
  BY NextCoherent, ClearedOrOutdatedStep, LabelHistoryStep, LabelsHeldStep DEF Basics

LEMMA InitBasics ==
    ASSUME MaxFailures = 0, MaxEdits = 0, Init
    PROVE  Basics
  BY InitCoherent, InitClearedOrOutdated, InitLabelHistory, InitLabelsHeld DEF Basics

LEMMA SameSpecUnits ==
    ASSUME NEW o, NEW p, o.spec = p.spec
    PROVE  SpecUnits(o) = SpecUnits(p)
  BY DEF SpecUnits

\* An object that is there names something.
LEMMA SpecNotEmpty ==
    ASSUME NEW o \in Object, ObjectOK(o), o.exists
    PROVE  SpecUnits(o) # {}
<1>1. o.spec \in Seq(Unit) /\ Len(o.spec) > 0
  BY DEF Object, ObjectOK
<1>2. 1 \in 1..Len(o.spec) /\ o.spec[1] \in Unit
  BY <1>1
<1>3. o.spec[1] \in SpecUnits(o)
  BY <1>2 DEF SpecUnits
<1> QED
  BY <1>3

(* What a step does to the labels of an object. *)

\* It leaves them, and what goes with them.
Keeps(d) ==
    /\ api'[d].exists = api[d].exists
    /\ api'[d].spec = api[d].spec /\ api'[d].labels = api[d].labels
    /\ Keys(api[d]) # {} => api'[d].status = api[d].status
    /\ api[d].finalizer => api'[d].finalizer
    /\ api[d].deleting => api'[d].deleting
    /\ api'[d] = api[d] \/ api'[d].rv = api[d].rv + 1

\* It creates the object, or ends it.
Drops(d) ==
    /\ ~Protected(d) \/ FinalizerRemoved(d)
    /\ ~api'[d].finalizer /\ api'[d].labels = NoLabels
    /\ api'[d].rv = api[d].rv + 1

\* A pass that has cached the units of an object without labels labels it.
Labels(d) ==
    /\ LabelsWritten(d) /\ Keys(api[d]) = {} /\ Protected(d)
    /\ api'[d].exists /\ api'[d].finalizer
    /\ api'[d].spec = api[d].spec /\ api'[d].status = api[d].spec
    /\ Keys(api'[d]) = SpecUnits(api[d]) /\ Labelled(api'[d], "false") = {}

\* A deletion clears all labels, which its copy has too.
Clears(d) ==
    /\ LabelsCleared(d)
    /\ api[d].deleting /\ cache[d].deleting /\ api'[d].deleting
    /\ api'[d].exists /\ api'[d].finalizer = api[d].finalizer
    /\ api'[d].spec = api[d].spec /\ api'[d].status = api[d].status
    /\ Keys(api[d]) # {} /\ Keys(pass[d].ctx) = Keys(api[d])
    /\ Keys(api'[d]) = Keys(api[d]) /\ Labelled(api'[d], "false") = Keys(api[d])

\* What the Update of the labels finds.
LEMMA LabelsWrittenFacts ==
    ASSUME Basics, WholeLabels, [Next]_vars, NEW d \in DataTable, LabelsWritten(d)
    PROVE  Labels(d)
<1>1. Coherence
  BY DEF Basics
<1>2. pass[d].pc \in CachingSteps /\ pass[d].pc = "labelUpdate"
  BY DEF LabelsWritten, CachingSteps, LabelSteps
<1>3. Keys(api[d]) = {}
  BY <1>2 DEF LabelsWritten, Accepted, WholeLabels, LabelsFirst
<1>4. Protected(d) /\ pass[d].ctx.spec = api[d].spec
  BY <1>1, <1>2 DEF Coherence, Protection, Basics, LabelsHeld
<1>5. Keys(api'[d]) = SpecUnits(api[d])
  BY <1>1, <1>4, KeysChange, SameSpecUnits
<1>6. Labelled(api'[d], "false") = {}
  BY DEF LabelsWritten, Becomes, NewLabels, Labelled
<1>7. /\ api'[d].exists /\ api'[d].finalizer
      /\ api'[d].spec = api[d].spec /\ api'[d].status = api[d].spec
  BY <1>4 DEF LabelsWritten, Becomes, Protected
<1> QED
  BY <1>3, <1>4, <1>5, <1>6, <1>7 DEF Labels

\* What the Update that clears them finds.
LEMMA LabelsClearedFacts ==
    ASSUME Basics, WholeLabels, [Next]_vars, NEW d \in DataTable, LabelsCleared(d)
    PROVE  Clears(d)
<1>1. Coherence /\ cache[d].rv \in Nat /\ api[d].rv \in Nat
  BY DEF Basics, Coherence, TypeOK, Object
<1>2. pass[d].pc = "clearUpdate" /\ pass[d].pc \in DeletingSteps /\ pass[d].pc # "idle"
  BY DEF LabelsCleared, DeletingSteps, LockedSteps
<1>3. /\ pass[d].dt = api[d].rv /\ Keys(api[d]) # {}
      /\ LabelsFollowed(d) /\ LabelsSeen(d) /\ Accounted(d, pass[d].ctx)
      /\ api[d].deleting
  BY <1>2 DEF LabelsCleared, Accepted, Basics, LabelHistory, DeletionKnown, LabelsHeld,
                    WholeLabels
<1>4. Keys(pass[d].ctx) \subseteq Keys(api[d]) /\ Keys(pass[d].ctx) # {}
  BY <1>2, <1>3 DEF Accounted, LabelsFollowed
<1>5. Keys(pass[d].ctx) = Keys(api[d])
  <2>1. Keys(pass[d].ctx) = SpecUnits(pass[d].ctx) /\ Keys(api[d]) = SpecUnits(api[d])
    BY <1>3, <1>4 DEF LabelsFollowed, LabelsSeen, Whole
  <2>2. pass[d].ctx.spec = api[d].spec
    BY <1>3, <1>4 DEF LabelsFollowed, LabelledLike
  <2> QED BY <2>1, <2>2, SameSpecUnits
<1>6. cache[d].deleting
  <2>1. pass[d].dt <= cache[d].rv
    BY <1>2, <1>3 DEF LabelsFollowed
  <2>2. CopyOf(cache[d], api[d])
    BY <1>1 DEF Coherence, Versions
  <2>3. cache[d] = api[d]
    BY <1>1, <1>3, <2>1, <2>2 DEF CopyOf
  <2> QED BY <1>3, <2>3
<1>7. Keys(api'[d]) = Keys(api[d])
  BY <1>1, <1>5, KeysChange
<1>8. Labelled(api'[d], "false") = Keys(api[d])
  <2>1. api'[d].labels = Cleared(d)
    BY DEF LabelsCleared, Becomes
  <2>2. ASSUME NEW u \in Unit
        PROVE  api'[d].labels[u] = "false" <=> api[d].labels[u] # "absent"
    <3>1. u \in Keys(pass[d].ctx) <=> api[d].labels[u] # "absent"
      BY <1>5 DEF Keys
    <3> QED BY <2>1, <3>1 DEF Cleared
  <2> QED BY <2>2 DEF Labelled, Keys
<1>9. /\ api'[d].exists /\ api'[d].finalizer = api[d].finalizer
      /\ api'[d].spec = api[d].spec /\ api'[d].status = api[d].status
      /\ api'[d].deleting
  BY <1>3 DEF LabelsCleared, Becomes
<1> QED
  BY <1>3, <1>5, <1>6, <1>7, <1>8, <1>9 DEF Clears

LEMMA LabelsChange ==
    ASSUME Basics, WholeLabels, [Next]_vars, NEW d \in DataTable
    PROVE  Keeps(d) \/ Drops(d) \/ Labels(d) \/ Clears(d)
<1>1. Coherence /\ ObjectChange(d) /\ ~Edited(d)
  BY ObjectChanges, NoEdits DEF Basics, LabelsHeld
<1>2. /\ api[d] \in Object /\ cache[d] \in Object /\ pass[d].ctx \in Object
      /\ api[d].rv \in Nat /\ cache[d].rv \in Nat /\ pass[d].dt \in Nat
      /\ ObjectOK(api[d])
  BY <1>1 DEF Coherence, TypeOK, Object, Pass, Shape
<1>3. CASE api'[d] = api[d]
  BY <1>3 DEF Keeps
<1>4. CASE Created(d)
  BY <1>4 DEF Created, Becomes, Drops, Protected
<1>5. CASE Deleted(d)
  BY <1>2, <1>5 DEF Deleted, Gone, Becomes, Drops, Keeps, Protected, Object
<1>6. CASE FinalizerAdded(d)
  BY <1>2, <1>6 DEF FinalizerAdded, Becomes, Keeps, Object
<1>7. CASE LabelsWritten(d)
  BY <1>7, LabelsWrittenFacts
<1>8. CASE LabelsCleared(d)
  BY <1>8, LabelsClearedFacts
<1>9. CASE FinalizerRemoved(d)
  BY <1>9 DEF FinalizerRemoved, Gone, Becomes, Drops
<1> QED
  BY <1>1, <1>3, <1>4, <1>5, <1>6, <1>7, <1>8, <1>9 DEF ObjectChange

\* The informer's copy stays, or is the object as it is now.
LEMMA CacheChanges ==
    ASSUME Coherence, [Next]_vars, NEW d \in DataTable
    PROVE  cache'[d] = api'[d] \/ cache'[d] = cache[d]
  BY ViewChanges DEF View

\* A pass that caches belongs to an object that no label was cleared on.
LEMMA LabelsSeenStep ==
    ASSUME Basics, WholeLabels, [Next]_vars, NEW d \in DataTable
    PROVE  LabelsSeen(d)'
<1>1. /\ Coherence /\ LabelsSeen(d)
      /\ Keeps(d) \/ Drops(d) \/ Labels(d) \/ Clears(d)
      /\ cache'[d] = api'[d] \/ cache'[d] = cache[d]
  BY LabelsChange, CacheChanges DEF Basics, WholeLabels
<1>2. /\ IdlePass.pc = "idle" /\ "idle" \notin CachingSteps
      /\ "labelUpdate" \in CachingSteps /\ "labelUpdate" # "finalize"
      /\ "finalize" \notin CachingSteps /\ "clearUpdate" \notin CachingSteps
  BY StepNames DEF IdlePass, CachingSteps, TableSteps, PartitionSteps, LabelSteps
<1>3. Drops(d) => /\ Keys(api'[d]) = {}
                  /\ \A v \in {"true", "false"} : Labelled(api'[d], v) = {}
  BY DEF Drops, Keys, Labelled, NoLabels
<1>4. Keeps(d) => /\ Keys(api'[d]) = Keys(api[d]) /\ SpecUnits(api'[d]) = SpecUnits(api[d])
                  /\ \A v : Labelled(api'[d], v) = Labelled(api[d], v)
  BY KeysOfLabels, SameSpecUnits DEF Keeps
<1>5. Labels(d) \/ Clears(d) => SpecUnits(api'[d]) = SpecUnits(api[d])
  BY SameSpecUnits DEF Labels, Clears
<1>6. Whole(api'[d])
  BY <1>1, <1>3, <1>4, <1>5 DEF Whole, LabelsSeen, Labels, Clears
<1>7. Whole(cache'[d])
  BY <1>1, <1>6 DEF LabelsSeen
<1>8. Keys(api'[d]) # {} => api'[d].finalizer /\ api'[d].status = api'[d].spec
  BY <1>1, <1>3, <1>4 DEF LabelsSeen, Keeps, Labels, Clears
<1>9. Labels(d) => /\ Keys(cache[d]) = {} /\ pass'[d].pc \notin CachingSteps
                   /\ pass[d].pc \in CachingSteps
  BY <1>1, <1>2 DEF LabelsSeen, Labels, LabelsWritten
<1>10. LabelledLike(cache'[d], api'[d])
  <2>1. CASE cache'[d] = api'[d]
    BY <2>1 DEF LabelledLike
  <2>2. CASE cache'[d] = cache[d]
    <3>1. CASE Keeps(d)
      BY <1>1, <1>4, <2>2, <3>1 DEF LabelsSeen, LabelledLike, Keeps
    <3>2. CASE Clears(d)
      <4>1. Labelled(api[d], "false") \subseteq Keys(api[d])
        BY DEF Labelled, Keys
      <4> QED BY <1>1, <2>2, <3>2, <4>1 DEF LabelsSeen, LabelledLike, Clears
    <3>3. CASE Drops(d) \/ Labels(d)
      BY <1>3, <1>9, <2>2, <3>3 DEF LabelledLike
    <3> QED BY <1>1, <3>1, <3>2, <3>3
  <2> QED BY <1>1, <2>1, <2>2
<1>11. ASSUME cache'[d].finalizer, ~cache'[d].deleting
       PROVE  Keys(cache'[d]) \subseteq Keys(api'[d])
  <2>1. CASE cache'[d] = cache[d]
    <3>1. Protected(d) /\ Keys(cache[d]) \subseteq Keys(api[d])
      BY <1>1, <1>11, <2>1 DEF LabelsSeen, Coherence, Protection, View
    <3>2. ~FinalizerRemoved(d)
      BY <1>11, <2>1, RemovedCopy DEF Basics, View
    <3>3. ~Drops(d)
      BY <3>1, <3>2 DEF Drops
    <3> QED BY <1>1, <1>4, <1>9, <2>1, <3>1, <3>3 DEF Clears
  <2> QED BY <1>1, <2>1
<1>12. ASSUME pass'[d].pc \in CachingSteps, Keys(api'[d]) = {}
       PROVE  Keys(cache'[d]) = {}
  <2>1. CASE cache'[d] = cache[d]
    <3>1. CASE Keys(api[d]) = {}
      <4>1. pass[d].pc \in CachingSteps \/ (View(d).finalizer /\ ~View(d).deleting)
        BY <1>1, <1>12, CachingPass DEF CachesOn
      <4> QED BY <1>1, <2>1, <3>1, <4>1 DEF LabelsSeen, View
    <3>2. CASE Keys(api[d]) # {}
      <4>1. Drops(d)
        BY <1>1, <1>4, <1>9, <1>12, <3>2 DEF Clears
      <4>2. Protected(d)
        BY <1>1, <3>2 DEF LabelsSeen, Coherence, Shape, ObjectOK, Protected
      <4>3. FinalizerRemoved(d)
        BY <4>1, <4>2 DEF Drops
      <4> QED BY <1>2, <1>12, <4>3 DEF FinalizerRemoved
    <3> QED BY <3>1, <3>2
  <2> QED BY <1>1, <1>12, <2>1
<1>13. ASSUME Labelled(api'[d], "false") # {}
       PROVE  cache'[d].deleting /\ pass'[d].pc \notin CachingSteps
  <2>1. CASE Keeps(d)
    <3>1. /\ cache[d].deleting /\ pass[d].pc \notin CachingSteps
          /\ api[d].deleting
      BY <1>1, <1>4, <1>13, <2>1 DEF LabelsSeen, Basics, LabelHistory, Labelled
    <3>2. cache'[d].deleting
      BY <1>1, <2>1, <3>1 DEF Keeps
    <3>3. pass'[d].pc \notin CachingSteps
      BY <1>1, <3>1, CachingPass DEF CachesOn, View
    <3> QED BY <3>2, <3>3
  <2>2. CASE Clears(d)
    <3>1. cache'[d].deleting /\ pass'[d].pc \notin CachingSteps
      BY <1>1, <1>2, <2>2 DEF Clears, LabelsCleared
    <3> QED BY <3>1
  <2>3. ~Drops(d) /\ ~Labels(d)
    BY <1>3, <1>13 DEF Labels
  <2> QED BY <1>1, <2>1, <2>2, <2>3
<1> QED
  BY <1>6, <1>7, <1>8, <1>10, <1>11, <1>12, <1>13 DEF LabelsSeen

LEMMA LabelsFollowedStep ==
    ASSUME Basics, WholeLabels, [Next]_vars, NEW d \in DataTable, pass'[d].pc \in DeletingSteps
    PROVE  LabelsFollowed(d)'
<1>1. /\ Coherence /\ LabelsSeen(d)
      /\ Keeps(d) \/ Drops(d) \/ Labels(d) \/ Clears(d)
      /\ PassChange(d)
      /\ \/ pass[d].pc \in DeletingSteps /\ pass'[d].ctx = pass[d].ctx /\ LabelsFollowed(d)
         \/ Begins(d) /\ View(d).deleting
  BY LabelsChange, PassChanges, DeletingPass DEF Basics, WholeLabels
<1>2. /\ IdlePass.pc = "idle" /\ "idle" \notin DeletingSteps
      /\ "labelUpdate" \notin DeletingSteps
  BY StepNames DEF IdlePass, CachingSteps, LabelSteps
<1>3. /\ api[d].rv \in Nat /\ cache[d].rv \in Nat /\ pass[d].dt \in Nat
      /\ CopyOf(cache[d], api[d])
  BY <1>1 DEF Coherence, TypeOK, Object, Pass, Versions
<1>4. ~Labels(d)
  BY <1>1, <1>2 DEF Labels, LabelsWritten
<1>5. CASE Begins(d)
  <2>1. /\ pass'[d].ctx = cache[d] /\ UNCHANGED api
        /\ pass'[d].pc = Dispatch(View(d))
    BY <1>5 DEF Begins, View
  <2>2. Whole(pass'[d].ctx) /\ LabelledLike(pass'[d].ctx, api'[d])
    BY <1>1, <2>1 DEF LabelsSeen
  <2>3. pass'[d].pc \notin RestoreSteps \cup {"clearGet", "clearUpdate"}
    BY <2>1 DEF Dispatch, FirstStep, RestoreSteps
  <2> QED BY <2>2, <2>3 DEF LabelsFollowed
<1>6. CASE pass[d].pc \in DeletingSteps /\ pass'[d].ctx = pass[d].ctx /\ LabelsFollowed(d)
  <2>1. Whole(pass'[d].ctx)
    BY <1>6 DEF LabelsFollowed
  <2>2. LabelledLike(pass'[d].ctx, api'[d])
    <3>1. LabelledLike(pass[d].ctx, api[d])
      BY <1>6 DEF LabelsFollowed
    <3>2. CASE Keeps(d)
      <4>1. Keys(api'[d]) = Keys(api[d]) /\ Labelled(api'[d], "false") = Labelled(api[d], "false")
        BY <3>2, KeysOfLabels DEF Keeps
      <4> QED BY <1>6, <3>1, <3>2, <4>1 DEF LabelledLike, Keeps
    <3>3. CASE Drops(d)
      BY <3>3, NoKeys DEF Drops, LabelledLike
    <3>4. CASE Clears(d)
      <4>1. Labelled(pass[d].ctx, "false") \subseteq Keys(pass[d].ctx)
        BY DEF Labelled, Keys
      <4> QED BY <1>6, <3>1, <3>4, <4>1 DEF LabelledLike, Clears
    <3> QED BY <1>1, <1>4, <3>2, <3>3, <3>4
  <2>3. cache[d].rv <= cache'[d].rv
    <3>1. api[d].rv <= api'[d].rv
      BY <1>1, <1>3, <1>4 DEF Keeps, Drops, Clears, LabelsCleared, Becomes
    <3>2. api'[d].rv \in Nat
      BY <1>1, NextCoherent DEF Coherence, TypeOK, Object
    <3> QED BY <1>1, <1>3, <3>1, <3>2, CacheChanges DEF CopyOf
  <2>4. /\ pass'[d].pc \in RestoreSteps => pass'[d].unit \notin pass'[d].left
        /\ pass'[d].pc \in {"clearGet", "clearUpdate"} => pass'[d].left = {}
        /\ pass'[d].pc = "clearUpdate" =>
              Keys(pass'[d].ctx) # {} /\ pass'[d].dt <= cache'[d].rv
    <3>1. CASE pass'[d] = pass[d]
      <4>1. cache'[d].rv \in Nat
        BY <1>1, NextCoherent DEF Coherence, TypeOK, Object
      <4> QED BY <1>3, <1>6, <2>3, <3>1, <4>1 DEF LabelsFollowed
    <3>2. CASE Locks(d)
      BY <3>2 DEF Locks, RestoreSteps
    <3>3. CASE Lists(d)
      BY <3>3 DEF Lists, RestoreSteps, FirstRestoreStep
    <3>4. CASE RestoresOn(d)
      BY <1>6, <3>4 DEF RestoresOn, RestoreSteps, LabelsFollowed
    <3>5. CASE ClearGet(d)
      BY <1>1, <1>3, <1>6, <3>5, ClearGetPass DEF LabelsFollowed, View, RestoreSteps
    <3>6. CASE ClearUpdate(d) \/ FailClear(d)
      BY <1>1, <1>6, <3>6, ClearUpdatePass DEF LabelsFollowed, RestoreSteps
    <3>7. ~CachesOn(d) /\ ~Begins(d)
      BY <1>2, <1>6, StepNames DEF CachesOn, Begins
    <3>8. pass'[d] # IdlePass
      BY <1>2
    <3> QED BY <1>1, <3>1, <3>2, <3>3, <3>4, <3>5, <3>6, <3>7, <3>8 DEF PassChange
  <2> QED BY <2>1, <2>2, <2>4 DEF LabelsFollowed
<1> QED
  BY <1>1, <1>5, <1>6

LEMMA LabelsFirstStep ==
    ASSUME Basics, WholeLabels, [Next]_vars, NEW d \in DataTable
    PROVE  LabelsFirst(d)'
<1> SUFFICES ASSUME pass'[d].pc = "labelUpdate"
             PROVE  /\ pass'[d].dt <= api'[d].rv
                    /\ pass'[d].dt = api'[d].rv => Keys(api'[d]) = {}
  BY DEF LabelsFirst
<1>1. /\ Coherence /\ LabelsSeen(d) /\ LabelsFirst(d)
      /\ Keeps(d) \/ Drops(d) \/ Labels(d) \/ Clears(d)
  BY LabelsChange DEF Basics, WholeLabels
<1>2. /\ api[d].rv \in Nat /\ cache[d].rv \in Nat /\ pass[d].dt \in Nat
      /\ CopyOf(cache[d], api[d]) /\ api[d] \in Object
  BY <1>1 DEF Coherence, TypeOK, Object, Pass, Versions
<1>3. "labelUpdate" \in CachingSteps
  BY DEF CachingSteps, LabelSteps
<1>4. CASE pass'[d] = pass[d]
  <2>1. pass[d].dt <= api[d].rv /\ (pass[d].dt = api[d].rv => Keys(api[d]) = {})
    BY <1>1, <1>4 DEF LabelsFirst
  <2>2. ~Labels(d) /\ ~Clears(d)
    <3>1. pass'[d] # IdlePass
      BY DEF IdlePass
    <3> QED BY <1>4, <3>1 DEF Labels, LabelsWritten, Clears, LabelsCleared
  <2>3. CASE Drops(d)
    BY <1>2, <1>4, <2>1, <2>3, NoKeys DEF Drops
  <2>4. CASE Keeps(d)
    <3>1. Keys(api'[d]) = Keys(api[d]) /\ (api'[d] = api[d] \/ api'[d].rv = api[d].rv + 1)
      BY <2>4, KeysOfLabels DEF Keeps
    <3> QED BY <1>2, <1>4, <2>1, <3>1
  <2> QED BY <1>1, <2>2, <2>3, <2>4
<1>5. CASE CachesOn(d)
  <2>1. /\ pass'[d].dt = cache[d].rv /\ ~UpToDate(d, cache[d])
        /\ UNCHANGED api /\ pass[d].pc \in CachingSteps
    BY <1>5 DEF CachesOn, View
  <2>2. ASSUME cache[d].rv = api[d].rv, Keys(api[d]) # {}
        PROVE  FALSE
    <3>1. /\ cache[d] = api[d] /\ api[d].status = api[d].spec
          /\ Keys(api[d]) = SpecUnits(api[d]) /\ Labelled(api[d], "false") = {}
      BY <1>1, <1>2, <2>1, <2>2 DEF CopyOf, LabelsSeen, Whole
    <3>2. pass[d].ctx.spec = api[d].spec
      BY <2>1 DEF Basics, LabelsHeld
    <3>3. ASSUME NEW u \in Unit
          PROVE  api[d].labels[u] = NewLabels(pass[d].ctx.spec)[u]
      <4>1. api[d].labels[u] \in LabelValue /\ api[d].labels[u] # "false"
        BY <1>2, <3>1 DEF Object, Labelled
      <4>2. api[d].labels[u] # "absent" <=> \E n \in 1..Len(api[d].spec) : api[d].spec[n] = u
        BY <3>1 DEF Keys, SpecUnits
      <4> QED BY <3>2, <4>1, <4>2 DEF LabelValue, NewLabels
    <3>4. api[d].labels = NewLabels(pass[d].ctx.spec)
      <4>1. api[d].labels \in [Unit -> LabelValue]
        BY <1>2 DEF Object
      <4>2. NewLabels(pass[d].ctx.spec) \in [Unit -> LabelValue]
        BY NewLabelsType
      <4> QED BY <3>3, <4>1, <4>2
    <3> QED BY <2>1, <3>1, <3>4 DEF UpToDate
  <2> QED BY <1>2, <2>1, <2>2 DEF CopyOf
<1>6. ~Begins(d)
  BY DEF Begins, Dispatch, FirstStep
<1> QED
  BY <1>1, <1>3, <1>4, <1>5, <1>6, CachingPass

LEMMA WholeLabelsStep ==
    ASSUME Basics, WholeLabels, [Next]_vars
    PROVE  WholeLabels'
  BY LabelsSeenStep, LabelsFollowedStep, LabelsFirstStep DEF WholeLabels

LEMMA InitWholeLabels ==
    ASSUME Init
    PROVE  WholeLabels
<1> SUFFICES ASSUME NEW d \in DataTable
             PROVE  /\ LabelsSeen(d) /\ LabelsFirst(d)
                    /\ pass[d].pc \notin DeletingSteps
  BY DEF WholeLabels
<1>1. api[d] = NoObject /\ cache[d] = NoObject /\ pass[d].pc = "idle"
  BY DEF Init, IdlePass
<1>2. Keys(NoObject) = {} /\ Labelled(NoObject, "false") = {}
  BY NoObjectFields DEF Keys, Labelled, NoLabels
<1> QED
  BY <1>1, <1>2, StepNames DEF LabelsSeen, LabelsFirst, Whole, LabelledLike

-----------------------------------------------------------------------------
(* What a step can do to the units, to the mutex and to a deletion.        *)

OnlyPass(e) == \A d \in DataTable \ {e} : pass'[d] = pass[d]

\* Nothing of u changes.
Same(u) ==
    /\ location'[u] = location[u]
    /\ u \in mounted' <=> u \in mounted
    /\ u \in kv' <=> u \in kv

\* A pass that caches puts something of its current unit in place.
Adds(e) ==
    /\ pass[e].pc \in UnitSteps
    /\ \A u \in Unit \ {Current(e)} : Same(u)
    /\ \A u \in Unit : Residue(u) => Residue(u)'
    /\ UNCHANGED <<api, cache, mutex>>

Restores(e) ==
    \/ RestoreUnmount(e) \/ RestoreRemoveKV(e) \/ RestoreAlter(e)
    \/ RestorePartitionAlter(e) \/ RestorePartitionUnmount(e)

StepKind ==
    \/ UNCHANGED cluster
    \/ \E e \in DataTable : OnlyPass(e) /\ (Adds(e) \/ Restores(e))

LEMMA CachingAdds ==
    ASSUME Coherence, NEW e \in DataTable,
           \/ CacheLs(e) \/ CacheMount(e) \/ CacheSize(e) \/ CacheAddKV(e) \/ CacheAlter(e)
           \/ CachePartitionAlter(e) \/ CachePartitionLs(e) \/ CachePartitionMount(e)
    PROVE  UNCHANGED cluster \/ Adds(e)
<1> DEFINE x == Current(e)
<1> USE DEF cluster
<1>1. pass[e].pc \in UnitSteps /\ UNCHANGED <<api, cache, mutex>>
  BY DEF CacheLs, CacheMount, CacheSize, CacheAddKV, CacheAlter, CachePartitionAlter,
         CachePartitionLs, CachePartitionMount, UnitSteps, TableSteps, PartitionSteps
<1>2. x \in Unit /\ location \in [Unit -> {"hdfs", "alluxio"}]
  BY <1>1, CurrentIsUnit DEF Coherence, TypeOK
<1> HIDE DEF x
<1>3. CASE UNCHANGED <<location, kv>> /\ mounted' = mounted \cup {x}
  BY <1>1, <1>3 DEF Adds, Same, Residue, x
<1>4. CASE UNCHANGED <<location, mounted>> /\ kv' = kv \cup {x}
  BY <1>1, <1>4 DEF Adds, Same, Residue, x
<1>5. CASE UNCHANGED <<mounted, kv>> /\ location' = [location EXCEPT ![x] = "alluxio"]
  BY <1>1, <1>2, <1>5 DEF Adds, Same, Residue, x
<1>6. \/ UNCHANGED cluster
      \/ UNCHANGED <<location, kv>> /\ mounted' = mounted \cup {x}
      \/ UNCHANGED <<location, mounted>> /\ kv' = kv \cup {x}
      \/ UNCHANGED <<mounted, kv>> /\ location' = [location EXCEPT ![x] = "alluxio"]
  BY DEF CacheLs, CacheMount, CacheSize, CacheAddKV, CacheAlter, CachePartitionAlter,
         CachePartitionLs, CachePartitionMount, x
<1> QED
  BY <1>3, <1>4, <1>5, <1>6

\* A step of one object leaves the passes of the others.
LEMMA OthersPasses ==
    ASSUME Coherence, NEW e \in DataTable,
           \/ Start(e) \/ Lock(e) \/ Fault(e) \/ AddFinalizer(e) \/ Cache(e)
           \/ Recover(e) \/ RemoveFinalizer(e)
    PROVE  OnlyPass(e)
<1> SUFFICES ASSUME NEW d \in DataTable, e # d PROVE pass'[d] = pass[d]
  BY DEF OnlyPass
<1>1. pass \in [DataTable -> Pass]
  BY DEF Coherence, TypeOK
<1> QED
  BY <1>1, ZenonT(60)
     DEF Start, Reconcile, ReconcileNotFound, ReconcileNoRuntime, vars, Lock, Fault,
         FailConnect, NoConnection, FailReturned, FailLocked, FailLs, FailDropped, FailList,
         FailClear, AddFinalizer, Cache, CacheLs, CacheMount, CacheSize, CacheAddKV, CacheAlter,
         CachePartitionAlter, CachePartitionLs, CachePartitionMount, LabelGet, LabelUpdate,
         Recover, ListHolders, RestoreUnmount, RestoreRemoveKV, RestoreAlter,
         RestorePartitionAlter, RestorePartitionUnmount, ClearGet, ClearUpdate,
         RemoveFinalizer, Requeue, Return, Goto, Advance, Retry, Unlock, NextLabel

LEMMA StepKinds ==
    ASSUME Coherence, [Next]_vars
    PROVE  StepKind
<1> USE DEF cluster
<1>1. ASSUME NEW e \in DataTable,
             \/ User(e) \/ Deliver(e) \/ Resync(e) \/ Start(e) \/ Lock(e) \/ Fault(e)
             \/ AddFinalizer(e) \/ LabelGet(e) \/ LabelUpdate(e) \/ ListHolders(e)
             \/ ClearGet(e) \/ ClearUpdate(e) \/ RemoveFinalizer(e) \/ Panic(e)
      PROVE  UNCHANGED cluster
  BY <1>1, ZenonT(60)
     DEF User, Create, Delete, Edit, Deliver, Resync, Start, Reconcile, ReconcileNotFound,
         ReconcileNoRuntime, vars, Lock, Fault, FailConnect, NoConnection, FailReturned,
         FailLocked, FailLs, FailDropped, FailList, FailClear, AddFinalizer, LabelGet,
         LabelUpdate, ListHolders, ClearGet, ClearUpdate, RemoveFinalizer, Panic, Restart
<1>2. ChangeRuntime \/ Crash \/ UNCHANGED vars => UNCHANGED cluster
  BY DEF ChangeRuntime, Crash, Restart, vars
<1> HIDE DEF cluster
<1>3. ASSUME NEW e \in DataTable, Cache(e) \/ Recover(e)
      PROVE  UNCHANGED cluster \/ (OnlyPass(e) /\ (Adds(e) \/ Restores(e)))
  BY <1>1, <1>3, OthersPasses, CachingAdds DEF Cache, Recover, Restores
<1> QED
  BY <1>1, <1>2, <1>3 DEF Next, Work, StepKind

\* What a call that restores a unit does.
LEMMA RestoresFacts ==
    ASSUME Coherence, NEW e \in DataTable, Restores(e)
    PROVE  /\ pass[e].pc \in RestoreSteps /\ pass[e].unit \in Unit
           /\ \A u \in Unit \ {pass[e].unit} : Same(u)
           /\ \A u \in Unit : Residue(u)' => Residue(u)
           /\ UNCHANGED <<api, cache, mutex>>
<1>1. pass[e].pc \in RestoreSteps /\ UNCHANGED <<api, cache, mutex>>
  BY DEF Restores, RestoreUnmount, RestoreRemoveKV, RestoreAlter, RestorePartitionAlter,
         RestorePartitionUnmount, RestoreSteps
<1>2. pass[e].unit \in Unit /\ location \in [Unit -> {"hdfs", "alluxio"}]
  BY <1>1 DEF Coherence, Shape, PassOK, TypeOK
<1>3. CASE RestoreUnmount(e) \/ RestorePartitionUnmount(e)
  BY <1>1, <1>2, <1>3 DEF RestoreUnmount, RestorePartitionUnmount, Same, Residue
<1>4. CASE RestoreRemoveKV(e)
  BY <1>1, <1>2, <1>4 DEF RestoreRemoveKV, Same, Residue
<1>5. CASE RestoreAlter(e) \/ RestorePartitionAlter(e)
  <2>1. /\ UNCHANGED <<mounted, kv>>
        /\ location' = [location EXCEPT ![pass[e].unit] = "hdfs"]
    BY <1>5 DEF RestoreAlter, RestorePartitionAlter
  <2> QED BY <1>1, <1>2, <2>1 DEF Same, Residue
<1> QED
  BY <1>3, <1>4, <1>5 DEF Restores

\* The mutex is taken when it is free, and given up.
LEMMA MutexChanges ==
    ASSUME [Next]_vars
    PROVE  \/ mutex' \in {mutex, Nobody}
           \/ mutex = Nobody /\ \E d \in DataTable : mutex' = d
<1>1. ASSUME NEW e \in DataTable, User(e) \/ Deliver(e) \/ Resync(e) \/ Start(e)
      PROVE  mutex' = mutex
  BY <1>1, ZenonT(60)
     DEF User, Create, Delete, Edit, Deliver, Resync, Start, Reconcile, ReconcileNotFound,
         ReconcileNoRuntime, vars
<1>2. ASSUME NEW e \in DataTable, Fault(e)
      PROVE  mutex' \in {mutex, Nobody}
  BY <1>2 DEF Fault, FailConnect, NoConnection, FailReturned, FailLocked, FailLs, FailDropped,
              FailList, FailClear, Unlock
<1>3. ASSUME NEW e \in DataTable, Work(e)
      PROVE  mutex' \in {mutex, Nobody}
  BY <1>3 DEF Work, AddFinalizer, Cache, CacheLs, CacheMount, CacheSize, CacheAddKV, CacheAlter,
              CachePartitionAlter, CachePartitionLs, CachePartitionMount, LabelGet,
              LabelUpdate, Recover, ListHolders, RestoreUnmount, RestoreRemoveKV,
              RestoreAlter, RestorePartitionAlter, RestorePartitionUnmount, ClearGet,
              ClearUpdate, RemoveFinalizer, Panic, Restart, Unlock
<1>4. ASSUME NEW e \in DataTable, Lock(e)
      PROVE  mutex = Nobody /\ mutex' = e
  BY <1>4 DEF Lock
<1>5. ChangeRuntime \/ Crash \/ UNCHANGED vars => mutex' \in {mutex, Nobody}
  BY DEF ChangeRuntime, Crash, Restart, vars
<1> QED
  BY <1>1, <1>2, <1>3, <1>4, <1>5 DEF Next

\* A pass that holds the mutex does not just end.
LEMMA LockedEnds ==
    ASSUME Coherence, [Next]_vars, NEW d \in DataTable,
           pass[d].pc \in LockedSteps \cup {"panic"}, pass'[d].pc = "idle"
    PROVE  Restart \/ Fault(d)
<1>1. pass \in [DataTable -> Pass] /\ pass[d] \in Pass /\ pass[d].pc # "idle"
  BY DEF Coherence, TypeOK, LockedSteps, RestoreSteps
<1>2. ~UNCHANGED pass
  BY <1>1
<1>3. ASSUME NEW e \in DataTable, User(e) \/ Deliver(e) \/ Resync(e)
      PROVE  FALSE
  BY <1>2, <1>3 DEF User, Create, Delete, Edit, Deliver, Resync
<1>4. ASSUME NEW e \in DataTable,
             \/ Start(e) \/ Lock(e) \/ Fault(e) \/ AddFinalizer(e) \/ Cache(e)
             \/ Recover(e) \/ RemoveFinalizer(e)
      PROVE  e = d
  BY <1>1, <1>4, OthersPasses DEF OnlyPass
<1>5. ~Start(d) /\ ~Lock(d) /\ ~AddFinalizer(d) /\ ~RemoveFinalizer(d)
  BY <1>1, <1>2 DEF Start, Take, Reconcile, ReconcileNotFound, ReconcileNoRuntime, vars, Lock,
                    AddFinalizer, RemoveFinalizer, LockedSteps, RestoreSteps
<1>6. ~Cache(d)
  BY DEF Cache, CacheLs, CacheMount, CacheSize, CacheAddKV, CacheAlter, CachePartitionAlter,
         CachePartitionLs, CachePartitionMount, LabelGet, LabelUpdate, LockedSteps, RestoreSteps
<1>7. ~Recover(d)
  <2>1. ~ListHolders(d)
    <3>1. ASSUME NEW u, pass' = [pass EXCEPT ![d].pc = FirstRestoreStep(u), ![d].unit = u,
                                             ![d].left = @ \ {u}]
          PROVE  FALSE
      BY <1>1, <3>1 DEF FirstRestoreStep, Pass
    <3>2. ASSUME NEW u, pass' = [pass EXCEPT ![d].left = @ \ {u}]
          PROVE  FALSE
      BY <1>1, <3>2 DEF Pass
    <3>3. ~Goto(d, "clearGet")
      BY <1>1 DEF Goto, Pass
    <3> QED BY <3>1, <3>2, <3>3 DEF ListHolders
  <2>2. ~(ClearGet(d) \/ ClearUpdate(d))
    BY ClearGetPass, ClearUpdatePass
  <2>3. ~Restores(d)
    BY <1>1 DEF Restores, RestoreUnmount, RestoreRemoveKV, RestoreAlter, RestorePartitionAlter,
                RestorePartitionUnmount, Goto, NextLabel, Pass
  <2> QED BY <2>1, <2>2, <2>3 DEF Recover, Restores
<1>8. ChangeRuntime \/ Crash \/ UNCHANGED vars => Restart
  BY <1>2 DEF ChangeRuntime, Crash, vars
<1> QED
  BY <1>3, <1>4, <1>5, <1>6, <1>7, <1>8 DEF Next, Work, Panic

-----------------------------------------------------------------------------
(* CachedUnits, step by step.                                              *)

Accounts == Basics /\ WholeLabels

\* The parts of the abstract state that a step leaves.
LEMMA ObjectsMapped ==
    ASSUME \A d \in DataTable : api'[d] = api[d]
    PROVE  UNCHANGED Units!objects
<1>1. NamedUnits' = NamedUnits
  BY DEF NamedUnits, Names
<1>2. ProtectedObjects' = ProtectedObjects
  BY DEF ProtectedObjects
<1>3. LabelledUnits' = LabelledUnits /\ ClearedUnits' = ClearedUnits
  BY DEF LabelledUnits, ClearedUnits, Labelled
<1>4. Leaving' = Leaving
  BY DEF Leaving
<1> QED
  BY <1>1, <1>2, <1>3, <1>4 DEF Units!objects

LEMMA CopiesMapped == UNCHANGED cache => KnownUnits' = KnownUnits
  BY DEF KnownUnits, Labelled

LEMMA ResiduesMapped == UNCHANGED cluster => Residues' = Residues
  BY DEF cluster, Residues, Residue

LEMMA SamePassMapped ==
    ASSUME mutex' = mutex, mutex # Nobody => pass'[mutex] = pass[mutex]
    PROVE  UNCHANGED Units!deletion
<1>1. Claimed' = Claimed /\ Dealt' = Dealt
  BY DEF Claimed, Dealt
<1> QED
  BY <1>1 DEF Units!deletion

\* The objects that the List at hiveClient.go counts are those known to hold.
LEMMA HoldersKnown ==
    ASSUME Coherence, NEW u \in Unit
    PROVE  IsLast(u) <=> Units!AtMostOneKnown(u)
<1>1. ASSUME NEW e \in DataTable, cache[e].labels[u] = "true"
      PROVE  cache[e].exists
  <2>1. ObjectOK(cache[e]) /\ NoLabels[u] = "absent"
    BY DEF Coherence, Shape, NoLabels
  <2> QED BY <1>1, <2>1 DEF ObjectOK
<1>2. Holders(u) = Units!KnownHolders(u)
  BY <1>1 DEF Holders, View, Units!KnownHolders, KnownUnits, Labelled
<1>3. IsFiniteSet(Holders(u))
  BY ConstantsAssumption, FS_Subset DEF Holders
<1>4. Cardinality(Holders(u)) \in Nat
  BY <1>3, FS_CardinalityType
<1>5. ASSUME IsLast(u), NEW e \in Holders(u), NEW f \in Holders(u)
      PROVE  e = f
  <2>1. Cardinality(Holders(u)) = 0 \/ Cardinality(Holders(u)) = 1
    BY <1>4, <1>5 DEF IsLast
  <2> QED BY <1>3, <1>5, <2>1, FS_EmptySet, FS_Singleton
<1>6. ASSUME NEW e \in Holders(u), \A f \in Holders(u) : e = f
      PROVE  IsLast(u)
  <2>1. Holders(u) = {e}
    BY <1>6
  <2>2. Cardinality(Holders(u)) = 1
    BY <2>1, FS_Singleton
  <2> QED BY <2>2 DEF IsLast
<1>7. Holders(u) = {} => IsLast(u)
  BY FS_EmptySet DEF IsLast
<1> QED
  BY <1>2, <1>5, <1>6, <1>7 DEF Units!AtMostOneKnown

(* What a step makes of the deletion that holds the mutex. *)

Leaves(u) ==
    /\ ~IsLast(u) /\ Claimed = {}
    /\ Dealt' = Dealt \cup {u}
    /\ UNCHANGED <<mutex, Claimed>>

Claims(d, u) ==
    /\ IsLast(u) /\ Claimed = {}
    /\ api[d].deleting /\ u \in Keys(api[d])
    /\ Claimed' = {u}
    /\ UNCHANGED <<mutex, Dealt>>

Finishes ==
    /\ Claimed # {} /\ Claimed' = {}
    /\ Dealt' = Dealt \cup Claimed
    /\ UNCHANGED mutex

Stops == Claimed = {} /\ Units!Done

LEMMA ListingMapped ==
    ASSUME Accounts, [Next]_vars, NEW d \in DataTable, mutex = d, mutex' = d, Lists(d)
    PROVE  UNCHANGED Units!deletion \/ \E u \in Unit : Leaves(u) \/ Claims(d, u)
<1>1. Coherence /\ d # Nobody /\ pass[d].pc = "list"
  BY ConstantsAssumption DEF Accounts, Basics, Lists
<1>2. pass[d].pc \in LockedSteps /\ pass[d].pc \in DeletingSteps /\ pass[d].pc \notin RestoreSteps
  BY <1>1 DEF LockedSteps, DeletingSteps, RestoreSteps
<1>3. /\ pass[d].left \subseteq Labelled(pass[d].ctx, "true")
      /\ Accounted(d, pass[d].ctx)
      /\ pass[d].left \subseteq Unit
  BY <1>1, <1>2 DEF Accounts, Basics, LabelsHeld, FollowsCopy, Coherence, TypeOK, Pass
<1>4. /\ Claimed = {} /\ Dealt = Labelled(pass[d].ctx, "true") \ pass[d].left
      /\ Claimed' = ClaimOf(pass'[d]) /\ Dealt' = DealtWith(pass'[d])
      /\ pass'[d].ctx = pass[d].ctx
  BY <1>1, <1>2 DEF Claimed, Dealt, ClaimOf, DealtWith, Lists
<1>5. CASE pass'[d].pc = "clearGet" /\ pass[d].left = {} /\ pass'[d].left = {}
  BY <1>4, <1>5 DEF ClaimOf, DealtWith, RestoreSteps, Units!deletion
<1>6. ASSUME NEW u \in pass[d].left, pass'[d].left = pass[d].left \ {u},
             pass'[d].pc = "list", ~IsLast(u)
      PROVE  Leaves(u)
  <2>1. Claimed' = {}
    BY <1>4, <1>6 DEF ClaimOf, RestoreSteps
  <2>2. Dealt' = Dealt \cup {u}
    BY <1>3, <1>4, <1>6, <2>1 DEF DealtWith
  <2> QED BY <1>4, <1>6, <2>1, <2>2 DEF Leaves
<1>7. ASSUME NEW u \in pass[d].left, pass'[d].left = pass[d].left \ {u},
             pass'[d].pc = FirstRestoreStep(u), pass'[d].unit = u, IsLast(u)
      PROVE  Claims(d, u)
  <2>1. Claimed' = {u}
    BY <1>4, <1>7 DEF ClaimOf, FirstRestoreStep, RestoreSteps
  <2>2. Dealt' = Dealt
    BY <1>3, <1>4, <1>7, <2>1 DEF DealtWith
  <2>3. u \in Labelled(pass[d].ctx, "true")
    BY <1>3
  <2>4. api[d].deleting /\ u \in Keys(api[d])
    BY <1>3, <2>3 DEF Accounted, Labelled, Keys
  <2> QED BY <1>4, <1>7, <2>1, <2>2, <2>4 DEF Claims
<1>8. ~FailList(d)
  BY <1>1, NoFailures DEF Fault, Accounts, Basics, ClearedOrOutdated
<1> QED
  BY <1>3, <1>5, <1>6, <1>7, <1>8 DEF Lists

LEMMA RestoringMapped ==
    ASSUME Accounts, NEW d \in DataTable, mutex = d, mutex' = d, RestoresOn(d)
    PROVE  Claimed # {} /\ (UNCHANGED Units!deletion \/ Finishes)
<1>1. d # Nobody /\ pass[d].pc \in RestoreSteps
  BY ConstantsAssumption DEF RestoresOn, RestoreSteps
<1>2. /\ pass[d].unit \in Labelled(pass[d].ctx, "true") /\ pass[d].unit \notin pass[d].left
  BY <1>1 DEF Accounts, Basics, LabelsHeld, FollowsCopy, WholeLabels, LabelsFollowed,
              DeletingSteps, LockedSteps
<1>3. /\ Claimed = {pass[d].unit}
      /\ Dealt = Labelled(pass[d].ctx, "true") \ (pass[d].left \cup {pass[d].unit})
      /\ Claimed' = ClaimOf(pass'[d]) /\ Dealt' = DealtWith(pass'[d])
      /\ pass'[d].ctx = pass[d].ctx /\ pass'[d].left = pass[d].left
  BY <1>1 DEF Claimed, Dealt, ClaimOf, DealtWith, RestoresOn
<1>4. CASE pass'[d].pc \in RestoreSteps /\ pass'[d].unit = pass[d].unit
  BY <1>3, <1>4 DEF ClaimOf, DealtWith, Units!deletion
<1>5. CASE pass'[d].pc = "list"
  <2>1. Claimed' = {}
    BY <1>3, <1>5 DEF ClaimOf, RestoreSteps
  <2>2. Dealt' = Dealt \cup Claimed
    BY <1>2, <1>3, <2>1 DEF DealtWith
  <2> QED BY <1>3, <2>1, <2>2 DEF Finishes
<1> QED
  BY <1>4, <1>5, <1>3 DEF RestoresOn, RestoreSteps

LEMMA ClearingMapped ==
    ASSUME Coherence, [Next]_vars, NEW d \in DataTable, mutex = d, ClearGet(d) \/ ClearUpdate(d)
    PROVE  UNCHANGED Units!deletion \/ Stops
<1>1. /\ d # Nobody /\ pass[d].pc \in {"clearGet", "clearUpdate"}
      /\ pass'[d].pc \in {"panic", "finalize", "clearGet", "clearUpdate"}
      /\ pass'[d].ctx = pass[d].ctx /\ pass'[d].left = pass[d].left
  BY ConstantsAssumption, ClearGetPass, ClearUpdatePass
<1>2. ClaimOf(pass[d]) = {} /\ ClaimOf(pass'[d]) = {}
  BY <1>1 DEF ClaimOf, RestoreSteps
<1>3. Claimed = {}
  BY <1>1, <1>2 DEF Claimed
<1>4. pass'[d].pc \in LockedSteps \cup {"panic"} <=> mutex' = d
  BY NextCoherent DEF Coherence, RecoverExclusive
<1>5. CASE pass'[d].pc = "finalize"
  <2>1. mutex' = Nobody
    BY <1>1, <1>4, <1>5, MutexChanges DEF LockedSteps, RestoreSteps
  <2> QED BY <1>3, <2>1 DEF Stops, Units!Done, Claimed, Dealt
<1>6. CASE pass'[d].pc # "finalize"
  <2>1. mutex' = d
    BY <1>1, <1>4, <1>6 DEF LockedSteps
  <2>2. DealtWith(pass'[d]) = DealtWith(pass[d])
    BY <1>1, <1>2 DEF DealtWith
  <2>3. Claimed' = Claimed /\ Dealt' = Dealt
    BY <1>1, <1>2, <2>1, <2>2 DEF Claimed, Dealt
  <2> QED BY <2>1, <2>3 DEF Units!deletion
<1> QED
  BY <1>5, <1>6

LEMMA DeletionMapped ==
    ASSUME Accounts, [Next]_vars, ~Restart, NEW d \in DataTable, mutex = d
    PROVE  \/ UNCHANGED Units!deletion
           \/ \E u \in Unit : Leaves(u) \/ Claims(d, u)
           \/ Finishes
           \/ Stops
<1>1. Coherence /\ d # Nobody /\ pass[d].pc \in LockedSteps \cup {"panic"}
  BY ConstantsAssumption DEF Accounts, Basics, Coherence, RecoverExclusive
<1>2. pass'[d].pc \in LockedSteps \cup {"panic"} <=> mutex' = d
  BY <1>1, NextCoherent DEF Coherence, RecoverExclusive
<1>3. PassChange(d) /\ ~Fault(d)
  BY <1>1, PassChanges, NoFailures DEF Accounts, Basics, ClearedOrOutdated
<1>4. CASE pass'[d] = pass[d]
  BY <1>1, <1>2, <1>4, SamePassMapped
<1>5. pass'[d] # IdlePass
  BY <1>1, <1>3, LockedEnds DEF IdlePass
<1>6. ~Begins(d) /\ ~CachesOn(d) /\ ~Locks(d)
  <2>1. pass[d].pc \notin CachingSteps \cup {"idle", "lock"}
    BY <1>1 DEF LockedSteps, RestoreSteps, CachingSteps, TableSteps, PartitionSteps, LabelSteps
  <2> QED BY <2>1 DEF Begins, CachesOn, Locks
<1>7. CASE Lists(d)
  <2>1. pass'[d].pc \in LockedSteps
    BY <1>7 DEF Lists, FirstRestoreStep, LockedSteps, RestoreSteps
  <2> QED BY <1>2, <1>7, <2>1, ListingMapped
<1>8. CASE RestoresOn(d)
  <2>1. pass'[d].pc \in LockedSteps
    BY <1>8 DEF RestoresOn, LockedSteps, RestoreSteps
  <2> QED BY <1>2, <1>8, <2>1, RestoringMapped
<1>9. CASE ClearGet(d) \/ ClearUpdate(d)
  BY <1>1, <1>9, ClearingMapped
<1> QED
  BY <1>3, <1>4, <1>5, <1>6, <1>7, <1>8, <1>9 DEF PassChange, Fault

\* A pass that waits for the mutex takes it when it is free.
LEMMA LockingMapped ==
    ASSUME Coherence, [Next]_vars, mutex = Nobody
    PROVE  \/ UNCHANGED Units!deletion
           \/ \E d \in DataTable : mutex' = d /\ UNCHANGED <<Dealt, Claimed>>
<1>1. Claimed = {} /\ Dealt = {}
  BY DEF Claimed, Dealt
<1>2. CASE mutex' = Nobody
  BY <1>2, SamePassMapped
<1>3. ASSUME NEW d \in DataTable, mutex' = d
      PROVE  UNCHANGED <<Dealt, Claimed>>
  <2>1. /\ d # Nobody
        /\ pass[d].pc \notin LockedSteps \cup {"panic"}
        /\ pass'[d].pc \in LockedSteps \cup {"panic"}
    BY <1>3, ConstantsAssumption, NextCoherent DEF Coherence, RecoverExclusive
  <2>2. PassChange(d)
    BY PassChanges
  <2>3. Locks(d)
    <3>1. pass'[d] # pass[d] /\ pass'[d] # IdlePass
      BY <2>1 DEF IdlePass, LockedSteps, RestoreSteps
    <3>2. ~Begins(d)
      BY <2>1 DEF Begins, Dispatch, FirstStep, LockedSteps, RestoreSteps
    <3>3. ~CachesOn(d)
      BY <2>1 DEF CachesOn, CachingSteps, TableSteps, PartitionSteps, LabelSteps, LockedSteps,
                  RestoreSteps
    <3>4. ~Lists(d) /\ ~RestoresOn(d) /\ ~ClearGet(d) /\ ~ClearUpdate(d) /\ ~FailClear(d)
      BY <2>1, ClearGetPass, ClearUpdatePass DEF Lists, RestoresOn, LockedSteps, RestoreSteps
    <3> QED BY <2>2, <3>1, <3>2, <3>3, <3>4 DEF PassChange
  <2>4. ClaimOf(pass'[d]) = {} /\ DealtWith(pass'[d]) = {}
    BY <2>3 DEF Locks, LabelsToRestore, ClaimOf, DealtWith, RestoreSteps
  <2> QED BY <1>1, <1>3, <2>1, <2>4 DEF Claimed, Dealt
<1> QED
  BY <1>2, <1>3, MutexChanges

(* Steps that write an object. *)

\* A step that changes the pass of one object leaves those of the others.
LEMMA OnePass ==
    ASSUME Coherence, [Next]_vars, ~Restart, NEW d \in DataTable, pass'[d] # pass[d]
    PROVE  OnlyPass(d)
<1>1. ~UNCHANGED pass
  BY DEF Coherence, TypeOK
<1>2. ASSUME NEW e \in DataTable,
             \/ Start(e) \/ Lock(e) \/ Fault(e) \/ AddFinalizer(e) \/ Cache(e)
             \/ Recover(e) \/ RemoveFinalizer(e)
      PROVE  OnlyPass(d)
  <2>1. OnlyPass(e)
    BY <1>2, OthersPasses
  <2> QED BY <2>1 DEF OnlyPass
<1>3. ASSUME NEW e \in DataTable, User(e) \/ Deliver(e) \/ Resync(e)
      PROVE  FALSE
  BY <1>1, <1>3 DEF User, Create, Delete, Edit, Deliver, Resync
<1>4. ~(ChangeRuntime \/ Crash \/ UNCHANGED vars)
  BY <1>1 DEF ChangeRuntime, Crash, vars
<1> QED
  BY <1>2, <1>3, <1>4 DEF Next, Work, Panic

\* The mutex changes hands only as passes enter the locked region and leave it.
LEMMA SameMutex ==
    ASSUME Coherence, [Next]_vars,
           \A e \in DataTable : pass'[e].pc \in LockedSteps \cup {"panic"}
                                   <=> pass[e].pc \in LockedSteps \cup {"panic"}
    PROVE  mutex' = mutex
<1>1. /\ mutex \in DataTable \cup {Nobody} /\ mutex' \in DataTable \cup {Nobody}
      /\ \A e \in DataTable : mutex = e <=> mutex' = e
  BY NextCoherent DEF Coherence, TypeOK, RecoverExclusive
<1> QED
  BY <1>1

\* A write does nothing else, but for the one that clears labels.
LEMMA WritesAlone ==
    ASSUME Coherence, [Next]_vars, NEW d \in DataTable, api'[d] # api[d]
    PROVE  /\ \A e \in DataTable \ {d} : api'[e] = api[e]
           /\ UNCHANGED <<cache, cluster>>
           /\ UNCHANGED Units!deletion \/ LabelsCleared(d)
<1>1. ObjectChange(d) /\ ~UNCHANGED api
  BY ObjectChanges
<1>2. \A e \in DataTable \ {d} : api'[e] = api[e]
  BY <1>1 DEF ObjectChange, Created, Deleted, Edited, FinalizerAdded, LabelsWritten,
              LabelsCleared, FinalizerRemoved, Gone, Becomes
<1>3. UNCHANGED cluster
  BY <1>1, StepKinds, RestoresFacts DEF StepKind, Adds
<1>4. ~Restart /\ UNCHANGED cache
  BY <1>1, CacheSteps DEF Restart, Deliver
<1>5. ASSUME pass' = pass
      PROVE  UNCHANGED Units!deletion
  BY <1>5, SameMutex, SamePassMapped
<1>6. ASSUME pass[d].pc \in {"addFinalizer", "labelUpdate", "finalize"}, pass'[d] = IdlePass
      PROVE  UNCHANGED Units!deletion
  <2>1. /\ pass[d].pc \notin LockedSteps \cup {"panic"}
        /\ pass'[d].pc \notin LockedSteps \cup {"panic"}
        /\ pass'[d] # pass[d]
    BY <1>6 DEF IdlePass, LockedSteps, RestoreSteps
  <2>2. OnlyPass(d)
    BY <1>4, <2>1, OnePass
  <2>3. mutex' = mutex
    BY <2>1, <2>2, SameMutex DEF OnlyPass
  <2>4. mutex # Nobody => pass'[mutex] = pass[mutex]
    BY <2>1, <2>2 DEF OnlyPass, Coherence, RecoverExclusive, TypeOK
  <2> QED BY <2>3, <2>4, SamePassMapped
<1>7. \/ pass' = pass \/ LabelsCleared(d)
      \/ pass[d].pc \in {"addFinalizer", "labelUpdate", "finalize"} /\ pass'[d] = IdlePass
  BY <1>1 DEF ObjectChange, FinalizerAdded, LabelsWritten, FinalizerRemoved
<1> QED
  BY <1>2, <1>3, <1>4, <1>5, <1>6, <1>7

\* How the abstract variables follow a write of one object.
LEMMA OneObjectMapped ==
    ASSUME NEW d \in DataTable, \A e \in DataTable \ {d} : api'[e] = api[e]
    PROVE  /\ NamedUnits' = [NamedUnits EXCEPT ![d] = NamedUnits'[d]]
           /\ LabelledUnits' = [LabelledUnits EXCEPT ![d] = LabelledUnits'[d]]
           /\ ClearedUnits' = [ClearedUnits EXCEPT ![d] = ClearedUnits'[d]]
           /\ NamedUnits'[d] = NamedUnits[d] => NamedUnits' = NamedUnits
           /\ LabelledUnits'[d] = LabelledUnits[d] => LabelledUnits' = LabelledUnits
           /\ ClearedUnits'[d] = ClearedUnits[d] => ClearedUnits' = ClearedUnits
           /\ api'[d].finalizer => ProtectedObjects' = ProtectedObjects \cup {d}
           /\ ~api'[d].finalizer => ProtectedObjects' = ProtectedObjects \ {d}
           /\ api'[d].deleting => Leaving' = Leaving \cup {d}
           /\ ~api'[d].deleting => Leaving' = Leaving \ {d}
           /\ (d \in ProtectedObjects <=> api'[d].finalizer) => ProtectedObjects' = ProtectedObjects
           /\ (d \in Leaving <=> api'[d].deleting) => Leaving' = Leaving
<1>1. ASSUME NEW e \in DataTable \ {d}
      PROVE  /\ NamedUnits'[e] = NamedUnits[e]
             /\ LabelledUnits'[e] = LabelledUnits[e] /\ ClearedUnits'[e] = ClearedUnits[e]
  BY DEF NamedUnits, Names, LabelledUnits, ClearedUnits, Labelled
<1>2. /\ NamedUnits' = [NamedUnits EXCEPT ![d] = NamedUnits'[d]]
      /\ NamedUnits'[d] = NamedUnits[d] => NamedUnits' = NamedUnits
  BY <1>1 DEF NamedUnits
<1>3. /\ LabelledUnits' = [LabelledUnits EXCEPT ![d] = LabelledUnits'[d]]
      /\ LabelledUnits'[d] = LabelledUnits[d] => LabelledUnits' = LabelledUnits
  BY <1>1 DEF LabelledUnits
<1>4. /\ ClearedUnits' = [ClearedUnits EXCEPT ![d] = ClearedUnits'[d]]
      /\ ClearedUnits'[d] = ClearedUnits[d] => ClearedUnits' = ClearedUnits
  BY <1>1 DEF ClearedUnits
<1>5. /\ api'[d].finalizer => ProtectedObjects' = ProtectedObjects \cup {d}
      /\ ~api'[d].finalizer => ProtectedObjects' = ProtectedObjects \ {d}
      /\ api'[d].deleting => Leaving' = Leaving \cup {d}
      /\ ~api'[d].deleting => Leaving' = Leaving \ {d}
  BY DEF ProtectedObjects, Leaving
<1>6. /\ (d \in ProtectedObjects <=> api'[d].finalizer) => ProtectedObjects' = ProtectedObjects
      /\ (d \in Leaving <=> api'[d].deleting) => Leaving' = Leaving
  BY DEF ProtectedObjects, Leaving
<1> QED
  BY <1>2, <1>3, <1>4, <1>5, <1>6

\* An object names the units of its spec.
LEMMA NamesSpec ==
    ASSUME NEW o, Whole(o)
    PROVE  {u \in Unit : Names(o, u)} = IF o.exists THEN SpecUnits(o) ELSE {}
  BY DEF Names, SpecUnits, Keys, Whole

LEMMA NoKeysNoLabels ==
    ASSUME NEW o, Keys(o) = {}
    PROVE  Labelled(o, "true") = {} /\ Labelled(o, "false") = {}
  BY DEF Keys, Labelled

\* The abstract step of each write.
LEMMA CreationMapped ==
    ASSUME Accounts, [Next]_vars, NEW d \in DataTable, Created(d),
           \A e \in DataTable \ {d} : api'[e] = api[e],
           UNCHANGED Units!deletion, UNCHANGED <<cache, cluster>>
    PROVE  Units!Join(d)
<1>1. Coherence /\ Coherence'
  BY NextCoherent DEF Accounts, Basics
<1>2. /\ ~api[d].exists /\ api'[d].exists
      /\ ~api'[d].finalizer /\ ~api'[d].deleting /\ api'[d].labels = NoLabels
  BY DEF Created, Becomes
<1>3. api[d].labels = NoLabels /\ ~api[d].finalizer /\ ~api[d].deleting
  BY <1>1, <1>2 DEF Coherence, Shape, ObjectOK
<1>4. NamedUnits[d] = {}
  BY <1>2 DEF NamedUnits, Names
<1>5. PICK U : U = NamedUnits'[d]
  OBVIOUS
<1>6. U \in SUBSET Unit /\ U # {}
  <2>1. api'[d] \in Object /\ ObjectOK(api'[d])
    BY <1>1 DEF Coherence, TypeOK, Shape
  <2>2. SpecUnits(api'[d]) # {}
    BY <1>2, <2>1, SpecNotEmpty
  <2>3. Whole(api'[d])
    BY <1>2, NoKeys DEF Whole
  <2>4. U = SpecUnits(api'[d])
    BY <1>2, <1>5, <2>3, NamesSpec DEF NamedUnits
  <2> QED BY <2>2, <2>4 DEF SpecUnits
<1>7. /\ LabelledUnits'[d] = LabelledUnits[d] /\ ClearedUnits'[d] = ClearedUnits[d]
      /\ d \notin ProtectedObjects /\ d \notin Leaving
  BY <1>2, <1>3 DEF LabelledUnits, ClearedUnits, Labelled, ProtectedObjects, Leaving
<1>8. /\ NamedUnits' = [NamedUnits EXCEPT ![d] = U]
      /\ LabelledUnits' = LabelledUnits /\ ClearedUnits' = ClearedUnits
  BY <1>5, <1>7, OneObjectMapped
<1>9. ProtectedObjects' = ProtectedObjects /\ Leaving' = Leaving
  BY <1>2, <1>7, OneObjectMapped
<1>10. KnownUnits' = KnownUnits /\ Residues' = Residues
  BY CopiesMapped, ResiduesMapped
<1> QED
  BY <1>4, <1>6, <1>8, <1>9, <1>10 DEF Units!Join

\* An object goes: unprotected, or with its labels cleared.
LEMMA GoneMapped ==
    ASSUME Accounts, [Next]_vars, NEW d \in DataTable, Gone(d),
           ~api[d].finalizer \/ (api[d].deleting /\ Labelled(api[d], "true") = {}),
           \A e \in DataTable \ {d} : api'[e] = api[e],
           UNCHANGED Units!deletion, UNCHANGED <<cache, cluster>>
    PROVE  Units!Leave(d)
<1>1. /\ ~api'[d].exists /\ ~api'[d].finalizer /\ ~api'[d].deleting
      /\ api'[d].labels = NoLabels
  BY DEF Gone, Becomes
<1>2. Labelled(api[d], "true") = {}
  BY NoKeysNoLabels DEF Accounts, WholeLabels, LabelsSeen
<1>3. /\ NamedUnits'[d] = {} /\ ClearedUnits'[d] = {}
      /\ LabelledUnits[d] = {} /\ LabelledUnits'[d] = {}
  BY <1>1, <1>2 DEF NamedUnits, Names, LabelledUnits, ClearedUnits, Labelled, NoLabels
<1>4. d \notin ProtectedObjects \/ d \in Leaving
  BY DEF ProtectedObjects, Leaving
<1>5. /\ NamedUnits' = [NamedUnits EXCEPT ![d] = {}]
      /\ ClearedUnits' = [ClearedUnits EXCEPT ![d] = {}]
      /\ LabelledUnits' = LabelledUnits
      /\ ProtectedObjects' = ProtectedObjects \ {d} /\ Leaving' = Leaving \ {d}
      /\ KnownUnits' = KnownUnits /\ Residues' = Residues
  BY <1>1, <1>3, OneObjectMapped, CopiesMapped, ResiduesMapped
<1> QED
  BY <1>3, <1>4, <1>5 DEF Units!Leave

LEMMA DeletionMarks ==
    ASSUME Accounts, [Next]_vars, NEW d \in DataTable, Deleted(d),
           \A e \in DataTable \ {d} : api'[e] = api[e],
           UNCHANGED Units!deletion, UNCHANGED <<cache, cluster>>
    PROVE  Units!Mark(d) \/ Units!Leave(d)
<1>1. CASE ~api[d].finalizer
  BY <1>1, GoneMapped DEF Deleted
<1>2. CASE api[d].finalizer
  <2>1. /\ api[d].exists /\ ~api[d].deleting
        /\ api'[d].exists /\ api'[d].deleting /\ api'[d].finalizer
        /\ api'[d].spec = api[d].spec /\ api'[d].labels = api[d].labels
    BY <1>2 DEF Deleted, Becomes
  <2>2. /\ NamedUnits'[d] = NamedUnits[d] /\ LabelledUnits'[d] = LabelledUnits[d]
        /\ ClearedUnits'[d] = ClearedUnits[d]
        /\ d \in ProtectedObjects \ Leaving
    BY <1>2, <2>1 DEF NamedUnits, Names, LabelledUnits, ClearedUnits, Labelled,
                      ProtectedObjects, Leaving
  <2>3. /\ NamedUnits' = NamedUnits /\ LabelledUnits' = LabelledUnits
        /\ ClearedUnits' = ClearedUnits
    BY <2>2, OneObjectMapped
  <2>4. ProtectedObjects' = ProtectedObjects /\ Leaving' = Leaving \cup {d}
    BY <2>1, <2>2, OneObjectMapped
  <2>5. KnownUnits' = KnownUnits /\ Residues' = Residues
    BY CopiesMapped, ResiduesMapped
  <2> QED BY <2>2, <2>3, <2>4, <2>5 DEF Units!Mark
<1> QED
  BY <1>1, <1>2

LEMMA FinalizerMapped ==
    ASSUME Accounts, [Next]_vars, NEW d \in DataTable, FinalizerAdded(d),
           \A e \in DataTable \ {d} : api'[e] = api[e],
           UNCHANGED Units!deletion, UNCHANGED <<cache, cluster>>
    PROVE  Units!Protect(d) \/ Units!Elsewhere
<1>1. /\ api[d] \in Object /\ ObjectOK(api[d]) /\ Whole(api[d])
  BY DEF Accounts, Basics, Coherence, TypeOK, Shape, WholeLabels, LabelsSeen
<1>2. /\ api[d].exists /\ api'[d].exists /\ api'[d].finalizer
      /\ api'[d].deleting = api[d].deleting
      /\ api'[d].spec = api[d].spec /\ api'[d].labels = api[d].labels
  BY DEF FinalizerAdded, Becomes
<1>3. /\ NamedUnits'[d] = NamedUnits[d] /\ LabelledUnits'[d] = LabelledUnits[d]
      /\ ClearedUnits'[d] = ClearedUnits[d]
  BY <1>2 DEF NamedUnits, Names, LabelledUnits, ClearedUnits, Labelled
<1>4. NamedUnits[d] # {}
  BY <1>1, <1>2, NamesSpec, SpecNotEmpty DEF NamedUnits
<1>5. /\ NamedUnits' = NamedUnits /\ LabelledUnits' = LabelledUnits
      /\ ClearedUnits' = ClearedUnits
      /\ ProtectedObjects' = ProtectedObjects \cup {d}
      /\ KnownUnits' = KnownUnits /\ Residues' = Residues
  BY <1>2, <1>3, OneObjectMapped, CopiesMapped, ResiduesMapped
<1>6. Leaving' = Leaving
  BY <1>2, OneObjectMapped DEF Leaving
<1>7. CASE api[d].deleting
  <2>1. ProtectedObjects' = ProtectedObjects
    BY <1>1, <1>5, <1>7 DEF ObjectOK, ProtectedObjects
  <2> QED BY <1>5, <1>6, <2>1 DEF Units!Elsewhere, Units!vars, Units!objects
<1>8. CASE ~api[d].deleting
  BY <1>4, <1>5, <1>6, <1>8 DEF Units!Protect, Leaving
<1> QED
  BY <1>7, <1>8

LEMMA LabellingMapped ==
    ASSUME Accounts, [Next]_vars, NEW d \in DataTable, LabelsWritten(d),
           \A e \in DataTable \ {d} : api'[e] = api[e],
           UNCHANGED Units!deletion, UNCHANGED <<cache, cluster>>
    PROVE  Units!Label(d)
<1>1. /\ api[d].exists /\ api[d].finalizer /\ Keys(api[d]) = {}
      /\ api'[d].exists /\ api'[d].finalizer
      /\ api'[d].spec = api[d].spec /\ api'[d].deleting = api[d].deleting
      /\ Keys(api'[d]) = SpecUnits(api[d]) /\ Labelled(api'[d], "false") = {}
  <2>1. Labels(d)
    BY LabelsWrittenFacts DEF Accounts
  <2>2. api[d].exists /\ api'[d].deleting = api[d].deleting
    BY DEF LabelsWritten, Accepted, Becomes
  <2> QED BY <2>1, <2>2 DEF Labels, Protected
<1>2. Labelled(api'[d], "true") = SpecUnits(api[d])
  <2>1. api'[d].labels = NewLabels(pass[d].ctx.spec)
    BY DEF LabelsWritten, Becomes
  <2> QED BY <1>1, <2>1 DEF Keys, Labelled, NewLabels
<1>3. NamedUnits[d] = SpecUnits(api[d]) /\ NamedUnits'[d] = SpecUnits(api[d])
  <2>1. SpecUnits(api'[d]) = SpecUnits(api[d])
    BY <1>1, SameSpecUnits
  <2>2. Whole(api[d]) /\ Whole(api'[d])
    BY <1>1, <2>1 DEF Whole
  <2> QED BY <1>1, <2>1, <2>2, NamesSpec DEF NamedUnits
<1>4. /\ LabelledUnits[d] = {} /\ ClearedUnits[d] = {}
      /\ LabelledUnits'[d] = NamedUnits[d] /\ ClearedUnits'[d] = {}
  BY <1>1, <1>2, <1>3, NoKeysNoLabels DEF LabelledUnits, ClearedUnits
<1>5. /\ NamedUnits' = NamedUnits
      /\ LabelledUnits' = [LabelledUnits EXCEPT ![d] = NamedUnits[d]]
      /\ ClearedUnits' = ClearedUnits
  BY <1>3, <1>4, OneObjectMapped
<1>6. ProtectedObjects' = ProtectedObjects /\ Leaving' = Leaving /\ d \in ProtectedObjects
  <2>1. d \in ProtectedObjects /\ (d \in Leaving <=> api'[d].deleting)
    BY <1>1 DEF ProtectedObjects, Leaving
  <2> QED BY <1>1, <2>1, OneObjectMapped
<1>7. KnownUnits' = KnownUnits /\ Residues' = Residues
  BY CopiesMapped, ResiduesMapped
<1> QED
  BY <1>4, <1>5, <1>6, <1>7 DEF Units!Label

\* The labels go when each has been dealt with.
LEMMA ClearingLabelsMapped ==
    ASSUME Accounts, [Next]_vars, NEW d \in DataTable, LabelsCleared(d),
           \A e \in DataTable \ {d} : api'[e] = api[e], UNCHANGED <<cache, cluster>>
    PROVE  Units!Clear(d)
<1>1. /\ Coherence /\ d # Nobody
      /\ api[d].labels \in [Unit -> LabelValue] /\ pass[d].ctx.labels \in [Unit -> LabelValue]
  BY ConstantsAssumption DEF Accounts, Basics, Coherence, TypeOK, Pass, Object
<1>2. /\ pass[d].pc = "clearUpdate" /\ pass[d].pc \in LockedSteps
      /\ pass[d].pc \in DeletingSteps /\ pass[d].pc \notin RestoreSteps
      /\ pass'[d].pc = "finalize" /\ pass'[d].pc \notin LockedSteps \cup {"panic"}
  BY DEF LabelsCleared, LockedSteps, DeletingSteps, RestoreSteps
<1>3. Clears(d)
  BY LabelsClearedFacts DEF Accounts, Basics
<1>4. /\ pass[d].left = {} /\ Whole(api[d])
      /\ Labelled(pass[d].ctx, "false") \subseteq Labelled(api[d], "false")
      /\ api[d].exists
  BY <1>2, <1>3 DEF Accounts, WholeLabels, LabelsFollowed, LabelsSeen, LabelledLike, Clears,
                    LabelsCleared, Accepted
<1>5. mutex = d /\ Claimed = {} /\ Dealt = Labelled(pass[d].ctx, "true")
  <2>1. mutex = d
    BY <1>1, <1>2 DEF Coherence, RecoverExclusive
  <2> QED BY <1>1, <1>2, <1>4, <2>1 DEF Claimed, Dealt, ClaimOf, DealtWith
<1>6. Labelled(api[d], "true") \subseteq Dealt
  <2> SUFFICES ASSUME NEW u \in Unit, api[d].labels[u] = "true"
               PROVE  pass[d].ctx.labels[u] = "true"
    BY <1>5 DEF Labelled
  <2>1. pass[d].ctx.labels[u] # "absent"
    BY <1>3 DEF Clears, Keys
  <2>2. pass[d].ctx.labels[u] # "false"
    BY <1>4 DEF Labelled
  <2> QED BY <1>1, <2>1, <2>2 DEF LabelValue
<1>7. Units!Done
  <2>1. mutex' # d
    BY <1>1, <1>2, NextCoherent DEF Coherence, RecoverExclusive
  <2>2. mutex' = Nobody
    BY <1>1, <1>5, <2>1, MutexChanges
  <2> QED BY <2>2 DEF Units!Done, Claimed, Dealt
<1>8. /\ Labelled(api'[d], "false") = Labelled(api[d], "false") \cup Labelled(api[d], "true")
      /\ Labelled(api'[d], "true") = {}
  <2>1. Keys(api[d]) = Labelled(api[d], "false") \cup Labelled(api[d], "true")
    BY <1>1 DEF Keys, Labelled, LabelValue
  <2>2. Labelled(api'[d], "true") \subseteq Keys(api'[d])
    BY DEF Keys, Labelled
  <2>3. Labelled(api'[d], "true") = {}
    BY <1>3, <2>2 DEF Clears, Labelled
  <2> QED BY <1>3, <2>1, <2>3 DEF Clears
<1>9. {u \in Unit : Names(api'[d], u)} = {u \in Unit : Names(api[d], u)}
  <2>1. SpecUnits(api'[d]) = SpecUnits(api[d]) /\ Whole(api'[d])
    BY <1>3, <1>4, SameSpecUnits DEF Clears, Whole
  <2> QED BY <1>3, <1>4, <2>1, NamesSpec DEF Clears
<1>10. /\ NamedUnits'[d] = NamedUnits[d]
       /\ LabelledUnits'[d] = {}
       /\ ClearedUnits'[d] = ClearedUnits[d] \cup LabelledUnits[d]
  BY <1>8, <1>9 DEF NamedUnits, LabelledUnits, ClearedUnits
<1>11. /\ NamedUnits' = NamedUnits
       /\ LabelledUnits' = [LabelledUnits EXCEPT ![d] = {}]
       /\ ClearedUnits' = [ClearedUnits EXCEPT ![d] = @ \cup LabelledUnits[d]]
       /\ KnownUnits' = KnownUnits /\ Residues' = Residues
  BY <1>10, OneObjectMapped, CopiesMapped, ResiduesMapped
<1>12. ProtectedObjects' = ProtectedObjects /\ Leaving' = Leaving /\ d \in Leaving
  <2>1. api'[d].finalizer = api[d].finalizer /\ api'[d].deleting = api[d].deleting
    BY DEF LabelsCleared, Becomes
  <2>2. \A e \in DataTable : /\ api'[e].finalizer = api[e].finalizer
                             /\ api'[e].deleting = api[e].deleting
    BY <2>1
  <2> QED BY <1>3, <2>2 DEF Clears, ProtectedObjects, Leaving
<1> QED
  BY <1>5, <1>6, <1>7, <1>11, <1>12 DEF Units!Clear, LabelledUnits

LEMMA WriteMapped ==
    ASSUME Accounts, [Next]_vars, NEW d \in DataTable, api'[d] # api[d]
    PROVE  Units!Next
<1>1. /\ ObjectChange(d) /\ ~Edited(d)
      /\ \A e \in DataTable \ {d} : api'[e] = api[e]
      /\ UNCHANGED <<cache, cluster>>
      /\ UNCHANGED Units!deletion \/ LabelsCleared(d)
  BY ObjectChanges, NoEdits, WritesAlone DEF Accounts, Basics, LabelsHeld
<1>2. CASE LabelsCleared(d)
  BY <1>1, <1>2, ClearingLabelsMapped DEF Units!Next
<1>3. CASE ~LabelsCleared(d)
  <2>1. CASE Created(d)
    BY <1>1, <1>3, <2>1, CreationMapped DEF Units!Next
  <2>2. CASE Deleted(d)
    BY <1>1, <1>3, <2>2, DeletionMarks DEF Units!Next
  <2>3. CASE FinalizerAdded(d)
    BY <1>1, <1>3, <2>3, FinalizerMapped DEF Units!Next
  <2>4. CASE LabelsWritten(d)
    BY <1>1, <1>3, <2>4, LabellingMapped DEF Units!Next
  <2>5. CASE FinalizerRemoved(d)
    <3>1. api[d].deleting /\ Labelled(api[d], "true") = {} /\ Gone(d)
      BY <2>5, RemovedCopy DEF Accounts, Basics, FinalizerRemoved
    <3> QED BY <1>1, <1>3, <3>1, GoneMapped DEF Units!Next
  <2> QED BY <1>1, <1>3, <2>1, <2>2, <2>3, <2>4, <2>5 DEF ObjectChange
<1> QED
  BY <1>2, <1>3

(* Steps that write no object. *)

LEMMA RestartMapped ==
    ASSUME Restart
    PROVE  Units!Restart
<1>1. /\ \A d \in DataTable : api'[d] = api[d]
      /\ mutex' = Nobody /\ cache' = api /\ UNCHANGED cluster
  BY DEF Restart
<1>2. Claimed' = {} /\ Dealt' = {}
  BY <1>1 DEF Claimed, Dealt
<1>3. KnownUnits' = LabelledUnits
  BY <1>1 DEF KnownUnits, LabelledUnits, Labelled
<1> QED
  BY <1>1, <1>2, <1>3, ObjectsMapped, ResiduesMapped DEF Units!Restart, Units!Done

LEMMA DeliverMapped ==
    ASSUME Coherence, NEW d \in DataTable, Deliver(d)
    PROVE  Units!Learn(d)
<1>1. /\ \A e \in DataTable : api'[e] = api[e]
      /\ cache' = [cache EXCEPT ![d] = api[d]]
      /\ mutex' = mutex /\ pass' = pass /\ UNCHANGED cluster
  BY DEF Deliver
<1>2. cache \in [DataTable -> Object]
  BY DEF Coherence, TypeOK
<1>3. ASSUME NEW e \in DataTable
      PROVE  Labelled(cache'[e], "true") = [KnownUnits EXCEPT ![d] = LabelledUnits[d]][e]
  BY <1>1, <1>2 DEF KnownUnits, LabelledUnits
<1>4. KnownUnits' = [KnownUnits EXCEPT ![d] = LabelledUnits[d]]
  BY <1>3 DEF KnownUnits
<1> QED
  BY <1>1, <1>4, ObjectsMapped, ResiduesMapped, SamePassMapped DEF Units!Learn

\* A pass that caches brings a unit that its object names.
LEMMA AddsMapped ==
    ASSUME Accounts, [Next]_vars, NEW e \in DataTable, OnlyPass(e), Adds(e)
    PROVE  Units!Next
<1> DEFINE x == Current(e)
<1>1. /\ Coherence /\ pass[e].pc \in UnitSteps /\ pass[e].pc \in CachingSteps
      /\ x \in Unit
  BY CurrentIsUnit DEF Accounts, Basics, Adds, UnitSteps, CachingSteps
<1>2. UNCHANGED <<Units!objects, KnownUnits>>
  BY ObjectsMapped, CopiesMapped DEF Adds
<1>3. UNCHANGED Units!deletion
  <2>1. pass[e].pc \notin LockedSteps \cup {"panic"}
    BY <1>1 DEF UnitSteps, TableSteps, PartitionSteps, LockedSteps, RestoreSteps
  <2>2. mutex # e /\ mutex \in DataTable \cup {Nobody} /\ mutex' = mutex
    BY <1>1, <2>1 DEF Coherence, RecoverExclusive, TypeOK, Adds
  <2> QED BY <2>2, SamePassMapped DEF OnlyPass
<1>4. e \in ProtectedObjects /\ x \in NamedUnits[e]
  <2>1. Protected(e) /\ pass[e].ctx.spec = api[e].spec
    BY <1>1 DEF Coherence, Protection, Accounts, Basics, LabelsHeld
  <2>2. pass[e].i \in 1..Len(pass[e].ctx.spec)
    BY <1>1 DEF Coherence, Shape, PassOK
  <2>3. Names(api[e], x)
    BY <2>1, <2>2 DEF Names, Protected, Current
  <2> QED BY <1>1, <2>1, <2>3 DEF ProtectedObjects, NamedUnits, Protected
<1>5. ASSUME NEW u \in Unit
      PROVE  /\ u # x => (Residue(u)' <=> Residue(u))
             /\ Residue(u) => Residue(u)'
  BY DEF Adds, Same, Residue
<1> HIDE DEF x
<1>6. Residues' = Residues \/ (x \notin Residues /\ Residues' = Residues \cup {x})
  BY <1>1, <1>5 DEF Residues
<1>7. CASE Residues' = Residues
  BY <1>2, <1>3, <1>7 DEF Units!Next, Units!Elsewhere, Units!vars
<1>8. CASE x \notin Residues /\ Residues' = Residues \cup {x}
  <2>1. Units!Bring(x)
    BY <1>2, <1>3, <1>4, <1>8 DEF Units!Bring
  <2> QED BY <1>1, <2>1 DEF Units!Next
<1> QED
  BY <1>6, <1>7, <1>8

\* The deletion that holds the mutex takes back the unit that it has claimed.
LEMMA RestoresMapped ==
    ASSUME Accounts, NEW e \in DataTable, Restores(e)
    PROVE  Units!Take
<1> DEFINE x == pass[e].unit
<1>1. /\ Coherence
      /\ pass[e].pc \in RestoreSteps /\ x \in Unit
      /\ \A u \in Unit \ {x} : Same(u)
      /\ \A u \in Unit : Residue(u)' => Residue(u)
      /\ UNCHANGED <<api, cache, mutex>>
  BY RestoresFacts DEF Accounts, Basics
<1>2. mutex = e /\ mutex' = e /\ Claimed = {x}
  <2>1. mutex = e
    BY <1>1 DEF Coherence, RecoverExclusive, LockedSteps
  <2> QED BY <1>1, <2>1, ConstantsAssumption DEF Claimed, ClaimOf
<1>3. RestoresOn(e)
  <2>1. pass \in [DataTable -> Pass] /\ pass[e] \in Pass
    BY <1>1 DEF Coherence, TypeOK
  <2>2. CASE RestoreAlter(e) \/ RestorePartitionUnmount(e)
    <3>1. pass'[e] = [pass[e] EXCEPT !.pc = "list", !.unit = Nobody]
      BY <2>1, <2>2 DEF RestoreAlter, RestorePartitionUnmount, NextLabel
    <3> QED BY <2>1, <2>2, <3>1 DEF RestoreAlter, RestorePartitionUnmount, RestoresOn, Pass
  <2>3. CASE RestoreUnmount(e) \/ RestoreRemoveKV(e) \/ RestorePartitionAlter(e)
    BY <2>1, <2>3 DEF RestoreUnmount, RestoreRemoveKV, RestorePartitionAlter, Goto,
                      RestoresOn, Pass
  <2> QED BY <2>2, <2>3 DEF Restores
<1>4. UNCHANGED Units!deletion \/ Finishes
  BY <1>2, <1>3, RestoringMapped
<1>5. ASSUME NEW u \in Unit \ {x}
      PROVE  Residue(u)' <=> Residue(u)
  BY <1>1 DEF Same, Residue
<1> HIDE DEF x
<1>6. Residues' = Residues \/ Residues' = Residues \ {x}
  BY <1>1, <1>5 DEF Residues
<1>7. UNCHANGED <<Units!objects, KnownUnits>>
  BY <1>1, ObjectsMapped, CopiesMapped
<1> QED
  BY <1>2, <1>4, <1>6, <1>7 DEF Units!Take, Units!deletion, Finishes

\* All other steps are about the deletion that holds the mutex, or nothing.
LEMMA OthersMapped ==
    ASSUME Accounts, [Next]_vars, ~Restart, \A e \in DataTable : api'[e] = api[e],
           UNCHANGED <<cache, cluster>>
    PROVE  Units!Next
<1>1. Coherence /\ UNCHANGED <<Units!objects, KnownUnits, Residues>>
  BY ObjectsMapped, CopiesMapped, ResiduesMapped DEF Accounts, Basics
<1>2. CASE UNCHANGED Units!deletion
  BY <1>1, <1>2 DEF Units!Next, Units!Elsewhere, Units!vars
<1>3. ASSUME NEW d \in DataTable, mutex = Nobody, mutex' = d, UNCHANGED <<Dealt, Claimed>>
      PROVE  Units!Next
  BY <1>1, <1>3 DEF Units!Next, Units!Begin
<1>4. ASSUME NEW d \in DataTable, mutex = d, NEW u \in Unit, Leaves(u)
      PROVE  Units!Next
  <2>1. Units!Pass(d, u)
    BY <1>1, <1>4, HoldersKnown DEF Leaves, Units!Pass
  <2> QED BY <2>1 DEF Units!Next
<1>5. ASSUME NEW d \in DataTable, mutex = d, NEW u \in Unit, Claims(d, u)
      PROVE  Units!Next
  <2>1. u \in LabelledUnits[d] \cup ClearedUnits[d] /\ d \in Leaving
    <3>1. api[d].labels \in [Unit -> LabelValue]
      BY <1>1 DEF Coherence, TypeOK, Object
    <3> QED BY <1>5, <3>1 DEF Claims, Keys, LabelValue, LabelledUnits, ClearedUnits, Labelled,
                              Leaving
  <2>2. Units!Claim(d, u)
    BY <1>1, <1>5, <2>1, HoldersKnown DEF Claims, Units!Claim
  <2> QED BY <2>2 DEF Units!Next
<1>6. CASE Finishes
  BY <1>1, <1>6 DEF Units!Next, Units!Take, Finishes
<1>7. ASSUME NEW d \in DataTable, mutex = d, Stops
      PROVE  Units!Next
  BY <1>1, <1>7, ConstantsAssumption DEF Units!Next, Units!End, Stops
<1>8. mutex \in DataTable \cup {Nobody}
  BY <1>1 DEF Coherence, TypeOK
<1>9. CASE mutex = Nobody
  BY <1>1, <1>2, <1>3, <1>9, LockingMapped
<1>10. CASE mutex \in DataTable
  BY <1>2, <1>4, <1>5, <1>6, <1>7, <1>10, DeletionMapped
<1> QED
  BY <1>8, <1>9, <1>10

LEMMA NextMapped ==
    ASSUME Accounts, [Next]_vars
    PROVE  Units!Next
<1>1. CASE Restart
  BY <1>1, RestartMapped DEF Units!Next
<1>2. CASE \E d \in DataTable : api'[d] # api[d]
  BY <1>2, WriteMapped
<1>3. CASE ~Restart /\ \A d \in DataTable : api'[d] = api[d]
  <2>1. CASE \E d \in DataTable : Deliver(d)
    BY <2>1, DeliverMapped DEF Units!Next, Accounts, Basics
  <2>2. CASE UNCHANGED <<cache, cluster>>
    BY <1>3, <2>2, OthersMapped
  <2>3. CASE \E e \in DataTable : OnlyPass(e) /\ (Adds(e) \/ Restores(e))
    BY <2>3, AddsMapped, RestoresMapped DEF Units!Next
  <2> QED BY <1>3, <2>1, <2>2, <2>3, CacheSteps, StepKinds DEF StepKind, Accounts, Basics
<1> QED
  BY <1>1, <1>2, <1>3

LEMMA InitMapped ==
    ASSUME Init
    PROVE  Units!Init
<1>1. \A d \in DataTable : api[d] = NoObject /\ cache[d] = NoObject
  BY DEF Init
<1>2. /\ NamedUnits = Units!Nothing /\ LabelledUnits = Units!Nothing
      /\ ClearedUnits = Units!Nothing /\ KnownUnits = Units!Nothing
  BY <1>1 DEF NamedUnits, Names, LabelledUnits, ClearedUnits, KnownUnits, Labelled,
              Units!Nothing, NoObject, NoLabels
<1>3. ProtectedObjects = {} /\ Leaving = {}
  BY <1>1 DEF ProtectedObjects, Leaving, NoObject
<1>4. Residues = {}
  BY DEF Init, Residues, Residue
<1>5. mutex = Nobody /\ Dealt = {} /\ Claimed = {}
  BY DEF Init, Dealt, Claimed
<1> QED
  BY <1>2, <1>3, <1>4, <1>5 DEF Units!Init

LEMMA AccountsInvariant ==
    ASSUME MaxFailures = 0, MaxEdits = 0
    PROVE  Spec => []Accounts
<1>1. Init => Accounts
  BY InitBasics, InitWholeLabels DEF Accounts
<1>2. Accounts /\ [Next]_vars => Accounts'
  BY BasicsStep, WholeLabelsStep DEF Accounts
<1> QED
  BY <1>1, <1>2, PTL DEF Spec

\* When no call fails and no spec is edited, the controller implements
\* CachedUnits: however far the informer lags, whatever passes interleave and
\* whenever the process ends, units are restored by one deletion at a time and
\* by the last object known to hold them (the List and the mutex in
\* ChangeSchemaURLForRecover), labels are cleared together once each has been
\* dealt with, and the finalizer goes after them.
THEOREM ControllerImplementsCachedUnits ==
    ASSUME MaxFailures = 0, MaxEdits = 0
    PROVE  Spec => ImplementsCachedUnits
<1>1. Init => Units!Init
  BY InitMapped
<1>2. Accounts /\ [Next]_vars => [Units!Next]_(Units!vars)
  BY NextMapped
<1>3. Spec => []Accounts
  BY AccountsInvariant
<1> QED
  BY <1>1, <1>2, <1>3, PTL DEF Spec, ImplementsCachedUnits, Units!Spec

=============================================================================
