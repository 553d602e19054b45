--------------------------- MODULE RuntimeStatus ----------------------------
(***************************************************************************)
(* The status of one AlluxioRuntime: its phases and its conditions, and    *)
(* the functions of the engine that write them.  Each looks at the master  *)
(* or the pods once and then writes in a loop that is repeated on          *)
(* conflicts: a copy from the informer's cache, changed and sent back.     *)
(* The health checks are called between two passes.                        *)
(***************************************************************************)
EXTENDS Naturals, Sequences

CONSTANTS
    Replicas,       \* values of spec.replicas
    RetrySteps,     \* attempts of retry.RetryOnConflict with DefaultBackoff
    MaxChanges      \* edits by the user and failures of pods

VARIABLES
    live,           \* the object in the apiserver
    copy,           \* the object in the informer's cache
    fresh,          \* copy has the resourceVersion of live
    work,           \* the master, the worker pods and the fuse pods
    pass,           \* the function under way
    changes         \* edits and failures left

vars == <<live, copy, fresh, work, pass, changes>>

-----------------------------------------------------------------------------
(* State. *)

Phase == {"", "NotReady", "PartialReady", "Ready"}
ConditionType ==
    {"MasterInitialized", "MasterReady", "WorkersInitialized", "WorkersReady", "FusesReady"}

\* at: LastTransitionTime, now for a time that an update just made has set.
Condition == [type : ConditionType, status : BOOLEAN, at : {"before", "now"}]

Pods == UNION {[desired : {n}, ready : 0..n, available : 0..n] : n \in Replicas \cup {0}}

\* fuses: the fuse pods only as far as the health check tells them apart.
Work == [master : {"absent", "starting", "ready"}, workers : Pods,
         fuses : {"none", "unavailable", "available"}]

SetupSteps == {"setupMaster", "masterReady", "setupWorkers", "workersReady", "status"}
HealthSteps == {"masterHealthy", "workersHealthy", "fuseHealthy"}

\* look: what the function saw before its loop; replicas: runtime.Replicas()
\* at that time; current: whether to set up was decided on a current copy.
Pass == [pc : {"idle"} \cup SetupSteps \cup HealthSteps, looked : BOOLEAN, look : Work,
         replicas : Replicas, tries : 0..RetrySteps, current : BOOLEAN]

NoPods == [desired |-> 0, ready |-> 0, available |-> 0]
NoWork == [master |-> "absent", workers |-> NoPods, fuses |-> "none"]
SomeReplicas == CHOOSE n \in Replicas : TRUE
Idle == [pc |-> "idle", looked |-> FALSE, look |-> NoWork, replicas |-> SomeReplicas,
         tries |-> 0, current |-> TRUE]

ASSUME StatusAssumption ==
    /\ Replicas \subseteq Nat \ {0} /\ Replicas # {}
    /\ RetrySteps \in Nat \ {0}
    /\ MaxChanges \in Nat

Init ==
    /\ live \in [replicas : Replicas, master : {""}, worker : {""}, fuse : {""},
                 conditions : {<<>>}]
    /\ copy = live
    /\ fresh = TRUE
    /\ work = NoWork
    /\ pass = Idle
    /\ changes = MaxChanges

-----------------------------------------------------------------------------
(* Conditions. *)

NewRuntimeCondition(type, status) == [type |-> type, status |-> status, at |-> "now"]

\* The index of the first condition of the type, 0 when there is none.
GetRuntimeCondition(conditions, type) ==
    LET found == {i \in DOMAIN conditions : conditions[i].type = type}
    IN  IF found = {} THEN 0 ELSE CHOOSE i \in found : \A j \in found : i <= j

\* Variant: the condition is always appended.
UpdateRuntimeConditionAppends(conditions, condition) == Append(conditions, condition)

\* Variant: the condition brings its own time along, changed or not.
UpdateRuntimeConditionStamps(conditions, condition) ==
    LET i == GetRuntimeCondition(conditions, condition.type)
    IN  IF i = 0 THEN Append(conditions, condition) ELSE [conditions EXCEPT ![i] = condition]

UpdateRuntimeCondition(conditions, condition) ==
    LET i == GetRuntimeCondition(conditions, condition.type)
    IN  IF i = 0 THEN Append(conditions, condition)
        ELSE LET old == conditions[i]
             IN  [conditions EXCEPT ![i] =
                    [condition EXCEPT !.at = IF condition.status = old.status THEN old.at ELSE @]]

\* The health checks write a condition only when there is none of its type.
Absent(rt, condition) ==
    IF GetRuntimeCondition(rt.conditions, condition.type) = 0
    THEN UpdateRuntimeCondition(rt.conditions, condition) ELSE rt.conditions

With(rt, condition) == UpdateRuntimeCondition(rt.conditions, condition)

-----------------------------------------------------------------------------
(* What each function makes of a copy of the object. *)

SetupMasterStatus(rt) ==
    [rt EXCEPT !.master = "NotReady",
               !.conditions = With(rt, NewRuntimeCondition("MasterInitialized", TRUE))]

CheckMasterReadyStatus(rt) ==
    [rt EXCEPT !.master = "Ready",
               !.conditions = With(rt, NewRuntimeCondition("MasterReady", TRUE))]

SetupWorkersStatus(rt) ==
    [rt EXCEPT !.worker = "NotReady",
               !.conditions = With(rt, NewRuntimeCondition("WorkersInitialized", TRUE))]

CheckWorkersReadyStatus(rt) ==
    [rt EXCEPT !.worker = IF pass.replicas = pass.look.workers.ready THEN @ ELSE "PartialReady",
               !.conditions = With(rt, NewRuntimeCondition("WorkersReady", TRUE))]

\* Variant: ready workers are compared with the scheduled ones.
UpdateStatusScheduled(rt) ==
    LET workers == pass.look.workers
    IN  [rt EXCEPT !.master = IF pass.look.master = "ready" THEN "Ready" ELSE "NotReady",
                   !.worker = IF workers.desired = workers.ready THEN "Ready"
                              ELSE IF workers.available = workers.ready THEN "PartialReady"
                              ELSE "NotReady"]

\* CheckAndUpdateRuntimeStatus.
UpdateStatus(rt) ==
    LET workers == pass.look.workers
    IN  [rt EXCEPT !.master = IF pass.look.master = "ready" THEN "Ready" ELSE "NotReady",
                   !.worker = IF rt.replicas = workers.ready THEN "Ready"
                              ELSE IF workers.available = workers.ready THEN "PartialReady"
                              ELSE "NotReady"]

\* The branch of a master that is not ready returns before the update.
CheckMasterHealthy(rt) ==
    IF pass.look.master # "ready" THEN rt
    ELSE [rt EXCEPT !.master = "Ready",
                    !.conditions = Absent(rt, NewRuntimeCondition("MasterReady", TRUE))]

Unhealthy(pods) ==
    pods.desired > pods.available \/ (pods.desired > 0 /\ pods.available = 0)

\* Healthy workers leave the phase as it is.
CheckWorkersHealthy(rt) ==
    LET bad == Unhealthy(pass.look.workers)
    IN  [rt EXCEPT !.worker = IF bad THEN "NotReady" ELSE @,
                   !.conditions = Absent(rt, NewRuntimeCondition("WorkersReady", ~bad))]

\* The condition is false when the fuses are ready, too.
CheckFuseHealthy(rt) ==
    [rt EXCEPT !.fuse = IF pass.look.fuses = "unavailable" THEN "NotReady" ELSE "Ready",
               !.conditions = Absent(rt, NewRuntimeCondition("FusesReady", FALSE))]

Changed(step, rt) ==
    CASE step = "setupMaster" -> SetupMasterStatus(rt)
      [] step = "masterReady" -> CheckMasterReadyStatus(rt)
      [] step = "setupWorkers" -> SetupWorkersStatus(rt)
      [] step = "workersReady" -> CheckWorkersReadyStatus(rt)
      [] step = "status" -> UpdateStatus(rt)
      [] step = "masterHealthy" -> CheckMasterHealthy(rt)
      [] step = "workersHealthy" -> CheckWorkersHealthy(rt)
      [] step = "fuseHealthy" -> CheckFuseHealthy(rt)

\* A new condition has a new LastProbeTime, so the object differs whenever
\* one was made; the others write only what has changed.
Differs(step, rt) ==
    step \in {"setupMaster", "masterReady", "setupWorkers", "workersReady"} \/ Changed(step, rt) # rt

-----------------------------------------------------------------------------
(* A pass of Setup. *)

Goto(step) ==
    pass' = [Idle EXCEPT !.pc = step, !.current = fresh]

Finish == pass' = Idle

\* Variant: the master is set up by every pass.
ShouldSetupMasterAlways == TRUE

ShouldSetupMaster == copy.master = ""

\* Setup begins.
Begin ==
    /\ pass.pc = "idle"
    /\ Goto(IF ShouldSetupMaster THEN "setupMaster" ELSE "masterReady")
    /\ UNCHANGED <<live, copy, fresh, work, changes>>

\* The step after one that has succeeded; ShouldSetupWorkers reads the copy.
After(step) ==
    CASE step = "setupMaster" -> Goto("masterReady")
      [] step = "masterReady" -> Goto(IF copy.worker = "" THEN "setupWorkers" ELSE "workersReady")
      [] step = "setupWorkers" -> Goto("workersReady")
      [] step = "workersReady" -> Goto("status")
      [] OTHER -> Finish

\* The function gets the StatefulSet or a DaemonSet, and its own copy.
Look ==
    LET of(steps, part, none) == IF pass.pc \in steps THEN part ELSE none
    IN  pass' = [pass EXCEPT !.looked = TRUE,
                    !.look = [master |-> of({"status", "masterHealthy"}, work.master, "ready"),
                              workers |-> of({"status", "workersReady", "workersHealthy"},
                                             work.workers, NoPods),
                              fuses |-> of({"fuseHealthy"}, work.fuses, "none")],
                    !.replicas = of({"workersReady"}, copy.replicas, SomeReplicas)]

\* SetupMaster: no StatefulSet yet, the chart is installed.
Install ==
    /\ pass.pc = "setupMaster"
    /\ ~pass.looked
    /\ work.master = "absent"
    /\ work' = [work EXCEPT !.master = "starting"]
    /\ Goto("masterReady")
    /\ UNCHANGED <<live, copy, fresh, changes>>

\* SetupWorkers: nodes are labelled for as many workers as the copy asks for,
\* the DaemonSets follow; where no node can be had the pass ends in an error.
Assign ==
    /\ pass.pc = "setupWorkers"
    /\ ~pass.looked
    /\ \/ /\ \E n \in Replicas :
              /\ n <= copy.replicas
              /\ work' = [work EXCEPT !.workers = [NoPods EXCEPT !.desired = n],
                                      !.fuses = "unavailable"]
          /\ Look
       \/ Finish /\ UNCHANGED work
    /\ UNCHANGED <<live, copy, fresh, changes>>

\* The function looks at the cluster; what is not ready ends the pass.
Observe ==
    /\ pass.pc # "idle"
    /\ ~pass.looked
    /\ pass.pc # "setupWorkers"
    /\ pass.pc = "setupMaster" => work.master # "absent"
    /\ IF \/ pass.pc = "masterReady" /\ work.master # "ready"
          \/ pass.pc = "workersReady" /\ work.workers.ready = 0
       THEN Finish ELSE Look
    /\ UNCHANGED <<live, copy, fresh, work, changes>>

\* The loop: the copy is as it should be, or the update is accepted.
Update ==
    /\ pass.looked
    /\ IF Differs(pass.pc, copy)
       THEN fresh /\ live' = Changed(pass.pc, copy) /\ fresh' = FALSE
       ELSE UNCHANGED <<live, fresh>>
    /\ After(pass.pc)
    /\ UNCHANGED <<copy, work, changes>>

\* Variant: conflicts are retried for ever.
ConflictForever ==
    /\ pass.looked
    /\ Differs(pass.pc, copy)
    /\ ~fresh
    /\ pass' = [pass EXCEPT !.tries = @ + 1]
    /\ UNCHANGED <<live, copy, fresh, work, changes>>

\* The copy is outdated: a conflict, and an error after the last attempt.
Conflict ==
    /\ pass.looked
    /\ Differs(pass.pc, copy)
    /\ ~fresh
    /\ IF pass.tries + 1 < RetrySteps THEN pass' = [pass EXCEPT !.tries = @ + 1] ELSE Finish
    /\ UNCHANGED <<live, copy, fresh, work, changes>>

\* A health check is called between two passes, once workers are set up.
CheckHealthy(step) ==
    /\ pass.pc = "idle"
    /\ copy.worker # ""
    /\ Goto(step)
    /\ UNCHANGED <<live, copy, fresh, work, changes>>

-----------------------------------------------------------------------------
(* The surroundings. *)

\* The times of an earlier update lie in the past.
Aged(rt) ==
    [rt EXCEPT !.conditions = [i \in DOMAIN @ |-> [@[i] EXCEPT !.at = "before"]]]

\* The watch delivers.
Deliver ==
    /\ ~fresh
    /\ copy' = Aged(live)
    /\ live' = Aged(live)
    /\ fresh' = TRUE
    /\ UNCHANGED <<work, pass, changes>>

Spend == changes > 0 /\ changes' = changes - 1

\* The user edits the number of replicas.
Scale ==
    /\ Spend
    /\ \E n \in Replicas \ {live.replicas} : live' = [live EXCEPT !.replicas = n]
    /\ fresh' = FALSE
    /\ UNCHANGED <<copy, work, pass>>

\* Pods start: a worker is ready before it is available.
Start ==
    /\ \/ work.master = "starting" /\ work' = [work EXCEPT !.master = "ready"]
       \/ /\ work.workers.ready < work.workers.desired
          /\ work' = [work EXCEPT !.workers.ready = @ + 1]
       \/ /\ work.workers.available < work.workers.ready
          /\ work' = [work EXCEPT !.workers.available = @ + 1]
       \/ work.fuses = "unavailable" /\ work' = [work EXCEPT !.fuses = "available"]
    /\ UNCHANGED <<live, copy, fresh, pass, changes>>

\* Pods fail.
Fail ==
    /\ Spend
    /\ \/ work.master = "ready" /\ work' = [work EXCEPT !.master = "starting"]
       \/ /\ work.workers.ready > 0
          /\ work' = [work EXCEPT !.workers.ready = 0, !.workers.available = 0]
       \/ work.fuses = "available" /\ work' = [work EXCEPT !.fuses = "unavailable"]
    /\ UNCHANGED <<live, copy, fresh, pass>>

Next ==
    \/ Begin
    \/ Install
    \/ Assign
    \/ Observe
    \/ Update
    \/ Conflict
    \/ \E step \in HealthSteps : CheckHealthy(step)
    \/ Deliver
    \/ Scale
    \/ Start
    \/ Fail

Spec == Init /\ [][Next]_vars

-----------------------------------------------------------------------------
(* Properties. *)

Object == [replicas : Replicas, master : Phase, worker : Phase, fuse : Phase,
           conditions : Seq(Condition)]

\* The state keeps its type.
TypeOK ==
    /\ live \in Object
    /\ copy \in Object
    /\ fresh \in BOOLEAN
    /\ work \in Work
    /\ pass \in Pass
    /\ changes \in 0..MaxChanges

\* However set-up passes, health checks, conflicts and retries alternate, the
\* status has one condition of a type: UpdateRuntimeCondition never adds a
\* second one beside the one in a copy.
OneConditionPerType ==
    \A i, j \in DOMAIN live.conditions :
        live.conditions[i].type = live.conditions[j].type => i = j

\* LastTransitionTime is the time of the last change (runtime_condition.go:50-53):
\* a condition that is written again by a later pass, an attempt that follows a
\* conflict or a health check, with the status it has, keeps it.
TransitionTimesKept ==
    [][\A i \in DOMAIN live.conditions :
        live'.conditions[i].status = live.conditions[i].status =>
            live'.conditions[i].at \in {live.conditions[i].at, "before"}]_vars

\* The worker phase becomes Ready only when as many workers were seen ready as
\* the object asks for at that moment, edits and conflicts in between included.
ReadyAsAskedFor ==
    [][live.worker # "Ready" /\ live'.worker = "Ready" =>
        pass.look.workers.ready = live.replicas]_vars

\* The master phase falls back from Ready only when the master was seen not
\* ready, or SetupMaster was decided on an outdated copy.
MasterFallsBackForCause ==
    [][live.master = "Ready" /\ live'.master = "NotReady" =>
        pass.look.master # "ready" \/ ~pass.current]_vars

=============================================================================
