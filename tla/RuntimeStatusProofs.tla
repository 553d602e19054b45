------------------------ MODULE RuntimeStatusProofs -------------------------
(***************************************************************************)
(* Theorems about the status of an AlluxioRuntime, for any numbers of      *)
(* replicas, attempts, edits and failures.                                 *)
(***************************************************************************)
EXTENDS RuntimeStatus, TLAPS

Unique(conditions) ==
    \A i, j \in DOMAIN conditions : conditions[i].type = conditions[j].type => i = j

\* What the theorems follow from: the copy that an accepted update is made from
\* is the object, and a pass that has decided on a current copy to set up the
\* master still finds no master phase.
StatusInv ==
    /\ TypeOK
    /\ Unique(live.conditions)
    /\ Unique(copy.conditions)
    /\ fresh => copy = live
    /\ pass.looked => pass.pc # "idle"
    /\ pass.pc = "setupMaster" /\ pass.current => live.master = ""

-----------------------------------------------------------------------------
(* Conditions. *)

LEMMA FoundAtMostOnce ==
    ASSUME NEW cs \in Seq(Condition), Unique(cs), NEW type
    PROVE  LET k == GetRuntimeCondition(cs, type)
           IN  \/ k = 0 /\ \A i \in DOMAIN cs : cs[i].type # type
               \/ k \in DOMAIN cs /\ cs[k].type = type
<1> DEFINE found == {i \in DOMAIN cs : cs[i].type = type}
<1>1. CASE found = {}
  BY <1>1 DEF GetRuntimeCondition
<1>2. CASE found # {}
  <2>1. PICK i \in found : TRUE
    BY <1>2
  <2>2. found = {i} /\ i \in Nat
    BY <2>1 DEF Unique
  <2>3. GetRuntimeCondition(cs, type) = i
    BY <2>2 DEF GetRuntimeCondition
  <2> QED
    BY <2>1, <2>3
<1> QED
  BY <1>1, <1>2

\* UpdateRuntimeCondition keeps the types apart, changes no other condition,
\* and keeps the time of a condition whose status it does not change.
LEMMA UpdateConditionFacts ==
    ASSUME NEW cs \in Seq(Condition), Unique(cs), NEW c \in Condition
    PROVE  LET new == UpdateRuntimeCondition(cs, c)
           IN  /\ new \in Seq(Condition)
               /\ Unique(new)
               /\ DOMAIN cs \subseteq DOMAIN new
               /\ \A i \in DOMAIN cs :
                     \/ new[i] = cs[i]
                     \/ /\ cs[i].type = c.type
                        /\ new[i].status = c.status
                        /\ cs[i].status = c.status => new[i].at = cs[i].at
<1> DEFINE k == GetRuntimeCondition(cs, c.type)
           new == UpdateRuntimeCondition(cs, c)
<1>1. CASE k = 0
  <2>1. new = Append(cs, c)
    BY <1>1 DEF UpdateRuntimeCondition
  <2>2. \A i \in DOMAIN cs : cs[i].type # c.type
    BY <1>1, FoundAtMostOnce
  <2>3. /\ new \in Seq(Condition)
        /\ DOMAIN new = 1..(Len(cs) + 1) /\ DOMAIN cs = 1..Len(cs)
        /\ \A i \in DOMAIN cs : new[i] = cs[i]
        /\ new[Len(cs) + 1] = c
    BY <2>1
  <2>4. Unique(new)
    BY <2>2, <2>3 DEF Unique
  <2> QED
    BY <2>3, <2>4
<1>2. CASE k # 0
  <2>1. k \in DOMAIN cs /\ cs[k].type = c.type
    BY <1>2, FoundAtMostOnce
  <2> DEFINE at == IF c.status = cs[k].status THEN cs[k].at ELSE c.at
             d == [c EXCEPT !.at = at]
  <2>2. new = [cs EXCEPT ![k] = d]
    BY <1>2 DEF UpdateRuntimeCondition
  <2>3. cs[k] \in Condition
    BY <2>1
  <2>4. d \in Condition /\ d.type = c.type /\ d.status = c.status /\ d.at = at
    BY <2>3 DEF Condition
  <2> HIDE DEF d
  <2>5. /\ new \in Seq(Condition)
        /\ DOMAIN new = DOMAIN cs
        /\ new[k] = d
        /\ \A i \in DOMAIN cs \ {k} : new[i] = cs[i]
    BY <2>1, <2>2, <2>4
  <2>6. Unique(new)
    BY <2>1, <2>4, <2>5 DEF Unique
  <2> QED
    BY <2>1, <2>4, <2>5, <2>6
<1> QED
  BY <1>1, <1>2

-----------------------------------------------------------------------------
(* What the functions make of a copy. *)

\* A condition of the list old whose status is the same in new has kept its time.
TimesKept(old, new) ==
    /\ DOMAIN old \subseteq DOMAIN new
    /\ \A i \in DOMAIN old :
          new[i].status = old[i].status => new[i].at \in {old[i].at, "before"}

LEMMA WriteTrue ==
    ASSUME NEW rt \in Object, Unique(rt.conditions), NEW type \in ConditionType
    PROVE  LET new == With(rt, NewRuntimeCondition(type, TRUE))
           IN  new \in Seq(Condition) /\ Unique(new) /\ TimesKept(rt.conditions, new)
<1> DEFINE c == NewRuntimeCondition(type, TRUE)
           cs == rt.conditions
<1>1. c \in Condition /\ c.status = TRUE /\ cs \in Seq(Condition)
  BY DEF NewRuntimeCondition, Condition, Object
<1> DEFINE new == UpdateRuntimeCondition(cs, c)
<1>2. With(rt, c) = new
  BY DEF With
<1> HIDE DEF c
<1>3. /\ new \in Seq(Condition) /\ Unique(new)
      /\ DOMAIN cs \subseteq DOMAIN new
      /\ \A i \in DOMAIN cs :
            \/ new[i] = cs[i]
            \/ /\ new[i].status = c.status
               /\ cs[i].status = c.status => new[i].at = cs[i].at
  BY <1>1, UpdateConditionFacts
<1>4. \A i \in DOMAIN cs : cs[i].status \in BOOLEAN
  <2>1. \A e \in Condition : e.status \in BOOLEAN
    BY DEF Condition
  <2>2. \A i \in DOMAIN cs : cs[i] \in Condition
    BY <1>1
  <2> QED
    BY <2>1, <2>2
<1> HIDE DEF new
<1>5. TimesKept(cs, new)
  BY <1>1, <1>3, <1>4 DEF TimesKept
<1> QED
  BY <1>2, <1>3, <1>5 DEF c, new

LEMMA WriteAbsent ==
    ASSUME NEW rt \in Object, Unique(rt.conditions), NEW type \in ConditionType,
           NEW status \in BOOLEAN
    PROVE  LET new == Absent(rt, NewRuntimeCondition(type, status))
           IN  new \in Seq(Condition) /\ Unique(new) /\ TimesKept(rt.conditions, new)
<1> DEFINE c == NewRuntimeCondition(type, status)
           cs == rt.conditions
<1>1. c \in Condition /\ c.type = type /\ cs \in Seq(Condition)
  BY DEF NewRuntimeCondition, Condition, Object
<1> HIDE DEF c
<1>2. CASE GetRuntimeCondition(cs, c.type) # 0
  BY <1>1, <1>2 DEF Absent, TimesKept, c
<1>3. CASE GetRuntimeCondition(cs, c.type) = 0
  <2>1. Absent(rt, c) = UpdateRuntimeCondition(cs, c)
    BY <1>3 DEF Absent
  <2>2. \A i \in DOMAIN cs : cs[i].type # c.type
    BY <1>1, <1>3, FoundAtMostOnce
  <2> DEFINE new == UpdateRuntimeCondition(cs, c)
  <2>3. /\ new \in Seq(Condition) /\ Unique(new)
        /\ DOMAIN cs \subseteq DOMAIN new
        /\ \A i \in DOMAIN cs : new[i] = cs[i]
    BY <1>1, <2>2, UpdateConditionFacts
  <2> HIDE DEF new
  <2>4. TimesKept(cs, new)
    BY <2>3 DEF TimesKept
  <2> QED
    BY <2>1, <2>3, <2>4 DEF c, new
<1> QED
  BY <1>2, <1>3

\* Whatever is written has its type, one condition per type and the times of
\* conditions that have not changed; the worker phase becomes Ready only from what was seen, and the
\* master phase NotReady only from what was seen or in SetupMaster.
Sound(step, rt, new) ==
    /\ new \in Object
    /\ new.replicas = rt.replicas
    /\ Unique(new.conditions)
    /\ TimesKept(rt.conditions, new.conditions)
    /\ new.worker = "Ready" => rt.worker = "Ready" \/ pass.look.workers.ready = rt.replicas
    /\ new.master = "NotReady" =>
          rt.master = "NotReady" \/ pass.look.master # "ready" \/ step = "setupMaster"

LEMMA ChangedSound ==
    ASSUME NEW rt \in Object, Unique(rt.conditions), pass \in Pass,
           NEW step \in SetupSteps \cup HealthSteps
    PROVE  Sound(step, rt, Changed(step, rt))
<1> DEFINE ct == rt.conditions
<1>0. /\ rt.conditions \in Seq(Condition) /\ TimesKept(ct, ct)
      /\ rt.replicas \in Replicas /\ rt.master \in Phase /\ rt.worker \in Phase
  BY DEF Object, TimesKept
<1>1. CASE step = "setupMaster"
  <2> DEFINE cs == With(rt, NewRuntimeCondition("MasterInitialized", TRUE))
  <2>1. cs \in Seq(Condition) /\ Unique(cs) /\ TimesKept(ct, cs)
    BY WriteTrue DEF ConditionType
  <2>2. Changed(step, rt) = [rt EXCEPT !.master = "NotReady", !.conditions = cs]
    BY <1>1 DEF Changed, SetupMasterStatus
  <2> HIDE DEF cs
  <2> QED
    BY <1>1, <2>1, <2>2 DEF Sound, Object, Phase
<1>2. CASE step = "masterReady"
  <2> DEFINE cs == With(rt, NewRuntimeCondition("MasterReady", TRUE))
  <2>1. cs \in Seq(Condition) /\ Unique(cs) /\ TimesKept(ct, cs)
    BY WriteTrue DEF ConditionType
  <2>2. Changed(step, rt) = [rt EXCEPT !.master = "Ready", !.conditions = cs]
    BY <1>2 DEF Changed, CheckMasterReadyStatus
  <2> HIDE DEF cs
  <2> QED
    BY <2>1, <2>2 DEF Sound, Object, Phase
<1>3. CASE step = "setupWorkers"
  <2> DEFINE cs == With(rt, NewRuntimeCondition("WorkersInitialized", TRUE))
  <2>1. cs \in Seq(Condition) /\ Unique(cs) /\ TimesKept(ct, cs)
    BY WriteTrue DEF ConditionType
  <2>2. Changed(step, rt) = [rt EXCEPT !.worker = "NotReady", !.conditions = cs]
    BY <1>3 DEF Changed, SetupWorkersStatus
  <2> HIDE DEF cs
  <2> QED
    BY <2>1, <2>2 DEF Sound, Object, Phase
<1>4. CASE step = "workersReady"
  <2> DEFINE cs == With(rt, NewRuntimeCondition("WorkersReady", TRUE))
             w == IF pass.replicas = pass.look.workers.ready THEN rt.worker ELSE "PartialReady"
  <2>1. cs \in Seq(Condition) /\ Unique(cs) /\ TimesKept(ct, cs)
    BY WriteTrue DEF ConditionType
  <2>2. Changed(step, rt) = [rt EXCEPT !.worker = w, !.conditions = cs]
    BY <1>4 DEF Changed, CheckWorkersReadyStatus
  <2>3. w \in Phase /\ (w = "Ready" => rt.worker = "Ready")
    BY <1>0 DEF Phase
  <2> HIDE DEF cs, w
  <2> QED
    BY <2>1, <2>2, <2>3 DEF Sound, Object
<1>5. CASE step = "status"
  <2> DEFINE m == IF pass.look.master = "ready" THEN "Ready" ELSE "NotReady"
             w == IF rt.replicas = pass.look.workers.ready THEN "Ready"
                  ELSE IF pass.look.workers.available = pass.look.workers.ready
                  THEN "PartialReady" ELSE "NotReady"
  <2>1. Changed(step, rt) = [rt EXCEPT !.master = m, !.worker = w]
    BY <1>5 DEF Changed, UpdateStatus
  <2>2. /\ m \in Phase /\ w \in Phase
        /\ w = "Ready" => pass.look.workers.ready = rt.replicas
        /\ m = "NotReady" => pass.look.master # "ready"
    BY DEF Phase
  <2> HIDE DEF m, w
  <2> QED
    BY <1>0, <2>1, <2>2 DEF Sound, Object
<1>6. CASE step = "masterHealthy"
  <2> DEFINE cs == Absent(rt, NewRuntimeCondition("MasterReady", TRUE))
  <2>1. cs \in Seq(Condition) /\ Unique(cs) /\ TimesKept(ct, cs)
    BY WriteAbsent DEF ConditionType
  <2>2. Changed(step, rt) = IF pass.look.master # "ready" THEN rt
                            ELSE [rt EXCEPT !.master = "Ready", !.conditions = cs]
    BY <1>6 DEF Changed, CheckMasterHealthy
  <2> HIDE DEF cs
  <2>3. CASE pass.look.master # "ready"
    BY <1>0, <2>2, <2>3 DEF Sound
  <2>4. CASE pass.look.master = "ready"
    BY <2>1, <2>2, <2>4 DEF Sound, Object, Phase
  <2> QED
    BY <2>3, <2>4
<1>7. CASE step = "workersHealthy"
  <2> DEFINE bad == Unhealthy(pass.look.workers)
             cs == Absent(rt, NewRuntimeCondition("WorkersReady", ~bad))
             w == IF bad THEN "NotReady" ELSE rt.worker
  <2>1. cs \in Seq(Condition) /\ Unique(cs) /\ TimesKept(ct, cs)
    BY WriteAbsent DEF ConditionType
  <2>2. Changed(step, rt) = [rt EXCEPT !.worker = w, !.conditions = cs]
    BY <1>7 DEF Changed, CheckWorkersHealthy
  <2>3. w \in Phase /\ (w = "Ready" => rt.worker = "Ready")
    BY <1>0 DEF Phase
  <2> HIDE DEF cs, w
  <2> QED
    BY <2>1, <2>2, <2>3 DEF Sound, Object
<1>8. CASE step = "fuseHealthy"
  <2> DEFINE cs == Absent(rt, NewRuntimeCondition("FusesReady", FALSE))
             f == IF pass.look.fuses = "unavailable" THEN "NotReady" ELSE "Ready"
  <2>1. cs \in Seq(Condition) /\ Unique(cs) /\ TimesKept(ct, cs)
    BY WriteAbsent DEF ConditionType
  <2>2. Changed(step, rt) = [rt EXCEPT !.fuse = f, !.conditions = cs]
    BY <1>8 DEF Changed, CheckFuseHealthy
  <2>3. f \in Phase
    BY DEF Phase
  <2> HIDE DEF cs, f
  <2> QED
    BY <2>1, <2>2, <2>3 DEF Sound, Object
<1> QED
  BY <1>1, <1>2, <1>3, <1>4, <1>5, <1>6, <1>7, <1>8 DEF SetupSteps, HealthSteps

-----------------------------------------------------------------------------
(* The steps. *)

LEMMA IdleType == Idle \in Pass /\ NoWork \in Work /\ NoPods \in Pods
<1>1. NoPods \in Pods
  BY DEF NoPods, Pods
<1>2. NoWork \in Work
  BY <1>1 DEF NoWork, Work
<1>3. SomeReplicas \in Replicas
  BY StatusAssumption DEF SomeReplicas
<1> QED
  BY <1>1, <1>2, <1>3, StatusAssumption DEF Idle, Pass

Steps == SetupSteps \cup HealthSteps

LEMMA GotoFacts ==
    ASSUME fresh \in BOOLEAN, NEW step \in Steps, Goto(step)
    PROVE  /\ pass' \in Pass
           /\ pass'.pc = step /\ pass'.current = fresh /\ ~pass'.looked
<1>1. pass' = [Idle EXCEPT !.pc = step, !.current = fresh]
  BY DEF Goto
<1> QED
  BY <1>1, IdleType DEF Pass, Steps, Idle

LEMMA FinishFacts ==
    ASSUME Finish PROVE pass' \in Pass /\ pass'.pc = "idle" /\ ~pass'.looked
  BY IdleType DEF Finish, Idle

LEMMA LookFacts ==
    ASSUME TypeOK, Look
    PROVE  /\ pass' \in Pass
           /\ pass'.pc = pass.pc /\ pass'.current = pass.current
<1> DEFINE m == IF pass.pc \in {"status", "masterHealthy"} THEN work.master ELSE "ready"
           w == IF pass.pc \in {"status", "workersReady", "workersHealthy"}
                THEN work.workers ELSE NoPods
           f == IF pass.pc \in {"fuseHealthy"} THEN work.fuses ELSE "none"
           l == [master |-> m, workers |-> w, fuses |-> f]
           n == IF pass.pc \in {"workersReady"} THEN copy.replicas ELSE SomeReplicas
<1>1. l \in Work
  BY IdleType DEF TypeOK, Work
<1>2. n \in Replicas
  BY StatusAssumption DEF TypeOK, Object, SomeReplicas
<1>3. pass' = [pass EXCEPT !.looked = TRUE, !.look = l, !.replicas = n]
  BY DEF Look
<1> HIDE DEF l, n
<1> QED
  BY <1>1, <1>2, <1>3 DEF TypeOK, Pass

\* A pass that goes on to a later step.
LEMMA AfterFacts ==
    ASSUME TypeOK, NEW step \in Steps, After(step)
    PROVE  pass' \in Pass /\ pass'.pc # "setupMaster" /\ ~pass'.looked
<1>1. \/ \E next \in {"masterReady", "setupWorkers", "workersReady", "status"} : Goto(next)
      \/ Finish
  BY DEF After, Steps, SetupSteps, HealthSteps
<1>2. {"masterReady", "setupWorkers", "workersReady", "status"} \subseteq Steps
  BY DEF Steps, SetupSteps
<1>3. CASE Finish
  BY <1>3, FinishFacts
<1>4. CASE \E next \in {"masterReady", "setupWorkers", "workersReady", "status"} : Goto(next)
  BY <1>2, <1>4, GotoFacts DEF TypeOK
<1> QED
  BY <1>1, <1>3, <1>4

LEMMA AgedFacts ==
    ASSUME NEW rt \in Object
    PROVE  /\ Aged(rt) \in Object
           /\ Aged(rt).replicas = rt.replicas
           /\ Aged(rt).master = rt.master /\ Aged(rt).worker = rt.worker
           /\ Unique(rt.conditions) => Unique(Aged(rt).conditions)
           /\ TimesKept(rt.conditions, Aged(rt).conditions)
<1> DEFINE cs == rt.conditions
           new == [i \in DOMAIN cs |-> [cs[i] EXCEPT !.at = "before"]]
<1>1. cs \in Seq(Condition)
  BY DEF Object
<1>2. \A c \in Condition : LET d == [c EXCEPT !.at = "before"]
                             IN  /\ d \in Condition /\ d.type = c.type
                                 /\ d.status = c.status /\ d.at = "before"
  BY DEF Condition
<1>3. \A i \in DOMAIN cs : /\ new[i] \in Condition /\ new[i].type = cs[i].type
                           /\ new[i].status = cs[i].status /\ new[i].at = "before"
  BY <1>1, <1>2
<1>4. DOMAIN new = DOMAIN cs /\ DOMAIN cs = 1..Len(cs) /\ Len(cs) \in Nat
  BY <1>1
<1>5. Aged(rt) = [rt EXCEPT !.conditions = new]
  BY DEF Aged
<1> HIDE DEF new
<1>6. new \in Seq(Condition)
  <2>1. new \in [1..Len(cs) -> Condition]
    <3>1. new = [i \in 1..Len(cs) |-> new[i]]
      BY <1>4 DEF new
    <3> QED
      BY <1>3, <1>4, <3>1
  <2> QED
    BY <1>4, <2>1
<1>7. /\ Aged(rt) \in Object /\ Aged(rt).conditions = new
      /\ Aged(rt).replicas = rt.replicas
      /\ Aged(rt).master = rt.master /\ Aged(rt).worker = rt.worker
  BY <1>5, <1>6 DEF Object
<1>8. Unique(cs) => Unique(new)
  BY <1>3, <1>4 DEF Unique
<1>9. TimesKept(cs, new)
  BY <1>3, <1>4 DEF TimesKept
<1> QED
  BY <1>7, <1>8, <1>9

LEMMA SpendFacts ==
    ASSUME changes \in 0..MaxChanges, Spend PROVE changes' \in 0..MaxChanges
  BY StatusAssumption DEF Spend

LEMMA PodsFacts ==
    ASSUME NEW n \in Replicas \cup {0}, NEW r \in 0..n, NEW a \in 0..n
    PROVE  [desired |-> n, ready |-> r, available |-> a] \in Pods
<1>1. [desired |-> n, ready |-> r, available |-> a]
          \in [desired : {n}, ready : 0..n, available : 0..n]
  OBVIOUS
<1> QED
  BY <1>1 DEF Pods

LEMMA PodsShape ==
    ASSUME NEW pods \in Pods
    PROVE  /\ pods = [desired |-> pods.desired, ready |-> pods.ready, available |-> pods.available]
           /\ pods.desired \in Replicas \cup {0} /\ pods.desired \in Nat
           /\ pods.ready \in 0..pods.desired /\ pods.available \in 0..pods.desired
<1>1. PICK n \in Replicas \cup {0} : pods \in [desired : {n}, ready : 0..n, available : 0..n]
  BY DEF Pods
<1>2. n \in Nat
  BY StatusAssumption
<1> QED
  BY <1>1, <1>2

LEMMA WorkFacts ==
    ASSUME work \in Work, Install \/ Assign \/ Start \/ Fail
    PROVE  work' \in Work
<1> DEFINE w == work.workers
<1>0. /\ work = [master |-> work.master, workers |-> w, fuses |-> work.fuses]
      /\ work.master \in {"absent", "starting", "ready"} /\ w \in Pods
      /\ work.fuses \in {"none", "unavailable", "available"}
  BY DEF Work
<1>1. /\ w = [desired |-> w.desired, ready |-> w.ready, available |-> w.available]
      /\ w.desired \in Replicas \cup {0} /\ w.desired \in Nat
      /\ w.ready \in 0..w.desired /\ w.available \in 0..w.desired
  BY <1>0, PodsShape
<1>2. CASE Install
  BY <1>2 DEF Install, Work
<1>3. CASE Assign
  <2>1. ASSUME NEW n \in Replicas,
               work' = [work EXCEPT !.workers = [NoPods EXCEPT !.desired = n],
                                    !.fuses = "unavailable"]
        PROVE  work' \in Work
    <3> DEFINE v == [NoPods EXCEPT !.desired = n]
    <3>1. v = [desired |-> n, ready |-> 0, available |-> 0]
      BY DEF NoPods
    <3>2. n \in Nat
      BY StatusAssumption
    <3>3. v \in Pods
      BY <3>1, <3>2, PodsFacts
    <3> HIDE DEF v
    <3> QED
      BY <2>1, <3>3 DEF Work, v
  <2> QED
    BY <1>3, <2>1 DEF Assign
<1>4. CASE Start
  <2>1. CASE work' = [work EXCEPT !.master = "ready"] \/ work' = [work EXCEPT !.fuses = "available"]
    BY <2>1 DEF Work
  <2>2. CASE w.ready < w.desired /\ work' = [work EXCEPT !.workers.ready = @ + 1]
    <3> DEFINE v == [w EXCEPT !.ready = w.ready + 1]
    <3>1. v = [desired |-> w.desired, ready |-> w.ready + 1, available |-> w.available]
      BY <1>1
    <3>2. w.ready + 1 \in 0..w.desired
      BY <1>1, <2>2
    <3>3. v \in Pods
      BY <1>1, <3>1, <3>2, PodsFacts
    <3>4. work' = [work EXCEPT !.workers = v]
      BY <2>2
    <3> HIDE DEF v
    <3> QED
      BY <3>3, <3>4 DEF Work
  <2>3. CASE w.available < w.ready /\ work' = [work EXCEPT !.workers.available = @ + 1]
    <3> DEFINE v == [w EXCEPT !.available = w.available + 1]
    <3>1. v = [desired |-> w.desired, ready |-> w.ready, available |-> w.available + 1]
      BY <1>1
    <3>2. w.available + 1 \in 0..w.desired
      BY <1>1, <2>3
    <3>3. v \in Pods
      BY <1>1, <3>1, <3>2, PodsFacts
    <3>4. work' = [work EXCEPT !.workers = v]
      BY <2>3
    <3> HIDE DEF v
    <3> QED
      BY <3>3, <3>4 DEF Work
  <2> QED
    BY <1>4, <2>1, <2>2, <2>3 DEF Start
<1>5. CASE Fail
  <2>1. CASE work' = [work EXCEPT !.master = "starting"] \/ work' = [work EXCEPT !.fuses = "unavailable"]
    BY <2>1 DEF Work
  <2>2. CASE work' = [work EXCEPT !.workers.ready = 0, !.workers.available = 0]
    <3> DEFINE v == [w EXCEPT !.ready = 0, !.available = 0]
    <3>1. v = [desired |-> w.desired, ready |-> 0, available |-> 0]
      <4> DEFINE u == [w EXCEPT !.ready = 0]
      <4>1. u = [desired |-> w.desired, ready |-> 0, available |-> w.available]
        BY <1>1
      <4>2. v = [u EXCEPT !.available = 0]
        OBVIOUS
      <4> HIDE DEF u, v
      <4>3. [u EXCEPT !.available = 0] = [desired |-> w.desired, ready |-> 0, available |-> 0]
        BY <4>1
      <4> QED
        BY <4>2, <4>3
    <3>2. v \in Pods
      BY <1>1, <3>1, PodsFacts
    <3>3. work' = [work EXCEPT !.workers = v]
      BY <2>2
    <3> HIDE DEF v
    <3> QED
      BY <3>2, <3>3 DEF Work
  <2> QED
    BY <1>5, <2>1, <2>2 DEF Fail
<1> QED
  BY <1>2, <1>3, <1>4, <1>5

\* An accepted update is made from the object itself.
LEMMA UpdateFacts ==
    ASSUME StatusInv, Update
    PROVE  /\ pass.pc \in Steps
           /\ \/ UNCHANGED <<live, fresh>>
              \/ Sound(pass.pc, live, live') /\ fresh' = FALSE
<1>1. pass.pc \in Steps
  BY DEF Update, StatusInv, TypeOK, Pass, Steps
<1>2. CASE Differs(pass.pc, copy)
  <2>1. copy = live /\ live' = Changed(pass.pc, live) /\ fresh' = FALSE
    BY <1>2 DEF Update, StatusInv
  <2> QED
    BY <1>1, <2>1, ChangedSound DEF StatusInv, TypeOK, Steps
<1>3. CASE ~Differs(pass.pc, copy)
  BY <1>1, <1>3 DEF Update
<1> QED
  BY <1>2, <1>3

LEMMA NextStatus ==
    ASSUME StatusInv, [Next]_vars
    PROVE  StatusInv'
<1>0. TypeOK
  BY DEF StatusInv
<1>1. CASE Begin
  <2>1. \/ ShouldSetupMaster /\ Goto("setupMaster")
        \/ ~ShouldSetupMaster /\ Goto("masterReady")
    BY <1>1 DEF Begin
  <2>2. "setupMaster" \in Steps /\ "masterReady" \in Steps
    BY DEF Steps, SetupSteps
  <2>3. UNCHANGED <<live, copy, fresh, work, changes>>
    BY <1>1 DEF Begin
  <2>4. /\ pass' \in Pass /\ pass'.current = fresh /\ ~pass'.looked
        /\ pass'.pc = "setupMaster" => copy.master = ""
    BY <1>0, <2>1, <2>2, GotoFacts DEF ShouldSetupMaster, TypeOK
  <2> QED
    BY <2>3, <2>4 DEF StatusInv, TypeOK
<1>2. CASE Install
  <2>1. Goto("masterReady") /\ "masterReady" \in Steps
    BY <1>2 DEF Install, Steps, SetupSteps
  <2>2. pass' \in Pass /\ pass'.pc = "masterReady" /\ ~pass'.looked
    BY <1>0, <2>1, GotoFacts DEF TypeOK
  <2>3. work' \in Work /\ UNCHANGED <<live, copy, fresh, changes>>
    BY <1>0, <1>2, WorkFacts DEF Install, TypeOK
  <2> QED
    BY <2>2, <2>3 DEF StatusInv, TypeOK
<1>3. CASE Assign
  <2>1. /\ Look \/ Finish
        /\ pass.pc # "idle" /\ UNCHANGED <<live, copy, fresh, changes>>
    BY <1>3 DEF Assign
  <2>2. work' \in Work
    BY <1>0, <1>3, WorkFacts DEF TypeOK
  <2>3. CASE Look
    BY <1>0, <2>1, <2>2, <2>3, LookFacts DEF StatusInv, TypeOK
  <2>4. CASE Finish
    BY <1>0, <2>1, <2>2, <2>4, FinishFacts DEF StatusInv, TypeOK
  <2> QED
    BY <2>1, <2>3, <2>4
<1>4. CASE Observe
  <2>1. /\ Finish \/ Look
        /\ pass.pc # "idle" /\ UNCHANGED <<live, copy, fresh, work, changes>>
    BY <1>4 DEF Observe
  <2>2. /\ pass' \in Pass
        /\ pass'.looked => pass'.pc # "idle"
        /\ pass'.pc = "setupMaster" /\ pass'.current =>
              pass.pc = "setupMaster" /\ pass.current
    BY <1>0, <2>1, LookFacts, FinishFacts
  <2> QED
    BY <2>1, <2>2 DEF StatusInv, TypeOK
<1>5. CASE Update
  <2>1. After(pass.pc) /\ UNCHANGED <<copy, work, changes>>
    BY <1>5 DEF Update
  <2>2. /\ pass' \in Pass /\ pass'.pc # "setupMaster" /\ ~pass'.looked
        /\ \/ UNCHANGED <<live, fresh>>
           \/ Sound(pass.pc, live, live') /\ fresh' = FALSE
    BY <1>0, <1>5, <2>1, AfterFacts, UpdateFacts
  <2>3. CASE UNCHANGED <<live, fresh>>
    BY <2>1, <2>2, <2>3 DEF StatusInv, TypeOK
  <2>4. CASE Sound(pass.pc, live, live') /\ fresh' = FALSE
    <3>1. live' \in Object /\ Unique(live'.conditions)
      BY <2>4 DEF Sound
    <3> QED
      BY <2>1, <2>2, <2>4, <3>1 DEF StatusInv, TypeOK
  <2> QED
    BY <2>2, <2>3, <2>4
<1>6. CASE Conflict
  <2>1. UNCHANGED <<live, copy, fresh, work, changes>>
    BY <1>6 DEF Conflict
  <2>2. CASE Finish
    BY <2>1, <2>2, FinishFacts DEF StatusInv, TypeOK
  <2>3. CASE pass.tries + 1 < RetrySteps /\ pass' = [pass EXCEPT !.tries = @ + 1]
    <3>1. pass.tries \in 0..RetrySteps /\ RetrySteps \in Nat
      BY <1>0, StatusAssumption DEF TypeOK, Pass
    <3>2. pass.tries + 1 \in 0..RetrySteps
      BY <2>3, <3>1
    <3>3. /\ pass' \in Pass /\ pass'.pc = pass.pc
          /\ pass'.current = pass.current /\ pass'.looked = pass.looked
      BY <1>0, <2>3, <3>2 DEF TypeOK, Pass
    <3> QED
      BY <2>1, <3>3 DEF StatusInv, TypeOK
  <2> QED
    BY <1>6, <2>2, <2>3 DEF Conflict
<1>7. ASSUME NEW step \in HealthSteps, CheckHealthy(step) PROVE StatusInv'
  <2>1. step \in Steps /\ step # "setupMaster"
    BY DEF Steps, HealthSteps
  <2>2. Goto(step) /\ UNCHANGED <<live, copy, fresh, work, changes>>
    BY <1>7 DEF CheckHealthy
  <2>3. pass' \in Pass /\ pass'.pc = step /\ ~pass'.looked
    BY <1>0, <2>1, <2>2, GotoFacts DEF TypeOK
  <2> QED
    BY <2>1, <2>2, <2>3 DEF StatusInv, TypeOK
<1>8. CASE Deliver
  BY <1>8, AgedFacts DEF Deliver, StatusInv, TypeOK
<1>9. CASE Scale
  <2>1. PICK n \in Replicas : live' = [live EXCEPT !.replicas = n]
    BY <1>9 DEF Scale
  <2>2. /\ live' \in Object /\ live'.conditions = live.conditions
        /\ live'.master = live.master
    BY <1>0, <2>1 DEF TypeOK, Object
  <2>3. /\ fresh' = FALSE /\ UNCHANGED <<copy, work, pass>>
        /\ changes' \in 0..MaxChanges
    BY <1>0, <1>9, SpendFacts DEF Scale, TypeOK
  <2> QED
    BY <2>2, <2>3 DEF StatusInv, TypeOK
<1>10. CASE Start
  BY <1>0, <1>10, WorkFacts DEF Start, StatusInv, TypeOK
<1>11. CASE Fail
  BY <1>0, <1>11, WorkFacts, SpendFacts DEF Fail, StatusInv, TypeOK
<1>12. CASE UNCHANGED vars
  BY <1>12 DEF vars, StatusInv, TypeOK
<1> QED
  BY <1>1, <1>2, <1>3, <1>4, <1>5, <1>6, <1>7, <1>8, <1>9, <1>10, <1>11, <1>12 DEF Next

LEMMA InitStatus == Init => StatusInv
<1> SUFFICES ASSUME Init PROVE StatusInv
  OBVIOUS
<1>0. << >> \in Seq(Condition) /\ Len(<< >>) = 0
  OBVIOUS
<1>1. /\ live.replicas \in Replicas /\ live.master = "" /\ live.worker = ""
      /\ live.fuse = "" /\ live.conditions = << >>
      /\ live = [replicas |-> live.replicas, master |-> "", worker |-> "", fuse |-> "",
                 conditions |-> << >>]
  BY DEF Init
<1>2. live \in Object
  BY <1>0, <1>1 DEF Object, Phase
<1>3. Unique(live.conditions)
  <2>1. \A i \in DOMAIN << >> : FALSE
    OBVIOUS
  <2> QED
    BY <1>1, <2>1 DEF Unique
<1>4. pass \in Pass /\ work \in Work
  BY IdleType DEF Init
<1>5. pass.pc = "idle" /\ ~pass.looked
  BY DEF Init, Idle
<1>6. changes \in 0..MaxChanges
  <2>1. MaxChanges \in Nat /\ changes = MaxChanges
    BY StatusAssumption DEF Init
  <2> QED
    BY <2>1
<1>7. copy = live /\ fresh = TRUE
  BY DEF Init
<1>8. TypeOK
  BY <1>2, <1>4, <1>6, <1>7 DEF TypeOK
<1> QED
  BY <1>1, <1>3, <1>5, <1>7, <1>8 DEF StatusInv

-----------------------------------------------------------------------------
(* The theorems. *)

\* The invariant the other theorems follow from.
THEOREM StatusInvariant == Spec => []StatusInv
<1>1. StatusInv /\ [Next]_vars => StatusInv'
  BY NextStatus
<1> QED
  BY InitStatus, <1>1, PTL DEF Spec

\* The variables keep their types: phases, conditions and what a function saw.
THEOREM StatusTypeCorrect == Spec => []TypeOK
<1>1. StatusInv => TypeOK
  BY DEF StatusInv
<1> QED
  BY <1>1, StatusInvariant, PTL

\* UpdateRuntimeCondition never adds a second condition of a type, whatever
\* conflicts, retries and health checks there are.
THEOREM NoSecondCondition == Spec => []OneConditionPerType
<1>1. StatusInv => OneConditionPerType
  BY DEF StatusInv, Unique, OneConditionPerType
<1> QED
  BY <1>1, StatusInvariant, PTL

\* What a step does to the object in the apiserver.
LEMMA LiveSteps ==
    ASSUME StatusInv, [Next]_vars
    PROVE  \/ live' = live
           \/ Update /\ Sound(pass.pc, live, live')
           \/ live' = Aged(live)
           \/ \E n \in Replicas : live' = [live EXCEPT !.replicas = n]
<1>1. CASE Update
  BY <1>1, UpdateFacts
<1>2. CASE Deliver
  BY <1>2 DEF Deliver
<1>3. CASE Scale
  BY <1>3 DEF Scale
<1> QED
  BY <1>1, <1>2, <1>3
     DEF Next, vars, Begin, Install, Assign, Observe, Conflict, CheckHealthy, Start, Fail

\* A condition keeps its LastTransitionTime until its status changes.
THEOREM TimesOfConditionsKept == Spec => TransitionTimesKept
<1>1. StatusInv /\ [Next]_vars => TimesKept(live.conditions, live'.conditions)
  <2> SUFFICES ASSUME StatusInv, [Next]_vars
               PROVE  TimesKept(live.conditions, live'.conditions)
    OBVIOUS
  <2>1. live \in Object
    BY DEF StatusInv, TypeOK
  <2>2. CASE live' = live \/ \E n \in Replicas : live' = [live EXCEPT !.replicas = n]
    <3>1. live'.conditions = live.conditions
      BY <2>1, <2>2 DEF Object
    <3> QED
      BY <3>1 DEF TimesKept
  <2>3. CASE Sound(pass.pc, live, live')
    BY <2>3 DEF Sound
  <2>4. CASE live' = Aged(live)
    BY <2>1, <2>4, AgedFacts
  <2> QED
    BY <2>2, <2>3, <2>4, LiveSteps
<1>2. StatusInv /\ [Next]_vars =>
        [\A i \in DOMAIN live.conditions :
            live'.conditions[i].status = live.conditions[i].status =>
                live'.conditions[i].at \in {live.conditions[i].at, "before"}]_vars
  BY <1>1 DEF TimesKept
<1> QED
  BY <1>2, StatusInvariant, PTL DEF Spec, TransitionTimesKept

\* Ready is written only for as many workers as the object asks for at the
\* time of the write, although they were counted before the loop of attempts.
THEOREM ReadyForTheReplicasAsked == Spec => ReadyAsAskedFor
<1>1. StatusInv /\ [Next]_vars =>
        [live.worker # "Ready" /\ live'.worker = "Ready" =>
            pass.look.workers.ready = live.replicas]_vars
  <2> SUFFICES ASSUME StatusInv, [Next]_vars, live.worker # "Ready", live'.worker = "Ready"
               PROVE  pass.look.workers.ready = live.replicas
    OBVIOUS
  <2>1. live \in Object
    BY DEF StatusInv, TypeOK
  <2>2. live'.worker = live.worker \/ Sound(pass.pc, live, live')
    BY <2>1, LiveSteps, AgedFacts DEF Object
  <2> QED
    BY <2>2 DEF Sound
<1> QED
  BY <1>1, StatusInvariant, PTL DEF Spec, ReadyAsAskedFor

\* A ready master is called not ready only when it was seen so, or when the
\* decision to set it up was made on an outdated copy.
THEOREM MasterFallsBack == Spec => MasterFallsBackForCause
<1>1. StatusInv /\ [Next]_vars =>
        [live.master = "Ready" /\ live'.master = "NotReady" =>
            pass.look.master # "ready" \/ ~pass.current]_vars
  <2> SUFFICES ASSUME StatusInv, [Next]_vars, live.master = "Ready", live'.master = "NotReady"
               PROVE  pass.look.master # "ready" \/ ~pass.current
    OBVIOUS
  <2>1. live \in Object
    BY DEF StatusInv, TypeOK
  <2>2. live'.master = live.master \/ Sound(pass.pc, live, live')
    BY <2>1, LiveSteps, AgedFacts DEF Object
  <2>3. pass.look.master # "ready" \/ pass.pc = "setupMaster"
    BY <2>2 DEF Sound
  <2> QED
    BY <2>3 DEF StatusInv
<1> QED
  BY <1>1, StatusInvariant, PTL DEF Spec, MasterFallsBackForCause

=============================================================================
