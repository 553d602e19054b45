------------------------ MODULE AlluxioRuntimesProofs ------------------------
(***************************************************************************)
(* Theorems about AlluxioRuntimes, for every set of runtimes and nodes and *)
(* every bound: the state of passes, engines and objects first, then nodes *)
(* and workers.                                                            *)
(***************************************************************************)
EXTENDS AlluxioRuntimesInvariants, FiniteSetTheorems, TLAPS

-----------------------------------------------------------------------------
(* What a step may do to each piece of state. *)

\* The pass of r goes to another step, with the same object and engine.
PassGoes(r, step) ==
    /\ pass' \in [Runtime -> Pass]
    /\ \A s \in Runtime \ {r} : pass'[s] = pass[s]
    /\ pass'[r].pc = step
    /\ pass'[r].ctx = pass[r].ctx
    /\ pass'[r].engine = pass[r].engine

\* The pass of r ends.
PassEnds(r) ==
    /\ pass' \in [Runtime -> Pass]
    /\ \A s \in Runtime \ {r} : pass'[s] = pass[s]
    /\ pass'[r] = IdlePass

\* Statuses, replicas and quotas are written, nothing else.
ApiKeeps ==
    /\ api' \in [Runtime -> Object]
    /\ \A s \in Runtime :
          /\ api'[s].exists = api[s].exists
          /\ api'[s].deleting = api[s].deleting
          /\ api'[s].finalizer = api[s].finalizer
          /\ api'[s] = api[s] \/ api'[s].rv > api[s].rv

\* The environment does not regain what it has spent.
BudgetShrinks ==
    /\ budget' \in Budget
    /\ budget'.timeouts <= budget.timeouts
    /\ budget'.outages <= budget.outages

\* The pass of r ends, or goes on with what it has begun.
Moves(r) ==
    \/ PassEnds(r)
    \/ /\ PassGoes(r, pass'[r].pc)
       /\ \/ pass[r].pc \in SetupSteps /\ pass'[r].pc \in SetupSteps
          \/ pass[r].pc \in ShutdownSteps /\ pass'[r].pc \in ShutdownSteps

\* The mutex is kept, taken when it is free, or given back.
MutexMoves(r) ==
    \/ mutex' = mutex /\ (pass'[r].pc \in LockedSteps <=> pass[r].pc \in LockedSteps)
    \/ mutex = Nobody /\ mutex' = r /\ pass'[r].pc \in LockedSteps
    \/ mutex = r /\ mutex' = Nobody /\ pass'[r].pc \notin LockedSteps

\* A release is made by setupMaster and undone by destroyMaster.
ReleaseMoves(r) ==
    \/ /\ release' = release
       /\ pass'[r].pc \in {"cleanAll", "finalize"} =>
             pass[r].pc \in {"cleanAll", "finalize"}
    \/ /\ pass[r].pc = "setupMaster"
       /\ \A s \in Runtime \ {Owner(r)} : release'[s] = release[s]
       /\ release'[Owner(r)] # "none"
    \/ /\ pass[r].pc = "destroyMaster"
       /\ \A s \in Runtime \ {Owner(r)} : release'[s] = release[s]
       /\ release'[Owner(r)] = "none"

EnginesKept ==
    /\ engines' \in [ID -> Engine]
    /\ \A i \in ID : engines'[i].built => OwnerOK(engines'[i], i)

RestTyped ==
    /\ queue' \subseteq Runtime
    /\ nodes' \in [Node -> [ID -> Label]]
    /\ nodeCache' \in [Node -> [ID -> Label]]
    /\ ready' \subseteq Node
    /\ release' \in [Runtime -> {"none", "failed", "deployed"}]
    /\ master' \subseteq Runtime
    /\ workers' \in [Runtime -> SUBSET Node]
    /\ BudgetShrinks

\* What every step of a pass does, but for its first one and the ones that
\* write finalizers.
Works(r) ==
    /\ Moves(r) /\ ApiKeeps /\ UNCHANGED cache
    /\ EnginesKept /\ MutexMoves(r) /\ ReleaseMoves(r) /\ RestTyped

\* The cluster, the queue or the copies of the nodes change.
Aside ==
    /\ UNCHANGED <<api, cache, pass, engines, mutex, release>>
    /\ RestTyped

-----------------------------------------------------------------------------
(* The building blocks of the actions. *)

\* The values that variables begin with have their types.
LEMMA InitialValues ==
    /\ NoObject \in Object /\ NoEngine \in Engine
    /\ IdlePass \in Pass /\ NoLabel \in Label
<1>1. NoObject \in Object
    BY DEF NoObject, Object, Phase
<1>2. NoEngine \in Engine
    BY DEF NoEngine, Engine
<1>3. IdlePass \in Pass
    BY <1>1, <1>2 DEF IdlePass, Pass, Steps
<1>4. NoLabel \in Label
    BY DEF NoLabel, Label
<1> QED BY <1>1, <1>2, <1>3, <1>4

\* An update of an object has its type, touches no other object, and has a
\* resourceVersion one higher.
LEMMA WriteFacts ==
    ASSUME api \in [Runtime -> Object], NEW r \in Runtime, NEW o \in Object,
           Write(r, o)
    PROVE  /\ api' \in [Runtime -> Object]
           /\ \A s \in Runtime \ {r} : api'[s] = api[s]
           /\ api'[r] = [o EXCEPT !.rv = api[r].rv + 1]
           /\ api'[r].rv = api[r].rv + 1
<1> DEFINE new == [o EXCEPT !.rv = api[r].rv + 1]
<1>1. api[r].rv + 1 \in Nat
    BY DEF Object
<1>2. new \in Object /\ new.rv = api[r].rv + 1
    BY <1>1 DEF Object
<1>3. api' = [api EXCEPT ![r] = new]
    BY DEF Write
<1> HIDE DEF new
<1>4. /\ api' \in [Runtime -> Object]
      /\ \A s \in Runtime \ {r} : api'[s] = api[s]
      /\ api'[r] = new
    BY <1>2, <1>3
<1> QED BY <1>2, <1>4 DEF new

\* Spending leaves a budget and gives nothing back.
LEMMA SpendFacts ==
    ASSUME budget \in Budget,
           NEW what \in {"creations", "edits", "failures", "installFailures",
                         "timeouts", "outages", "crashes", "probes"},
           Spend(what)
    PROVE  BudgetShrinks
<1>1. budget' = [budget EXCEPT ![what] = budget[what] - 1] /\ budget[what] > 0
    BY DEF Spend
<1>2. budget[what] - 1 \in Nat
    BY <1>1 DEF Budget
<1>3. budget' \in Budget
    BY <1>1, <1>2 DEF Budget
<1>4. budget'.timeouts <= budget.timeouts /\ budget'.outages <= budget.outages
    BY <1>1 DEF Budget
<1> QED BY <1>3, <1>4 DEF BudgetShrinks

LEMMA BudgetStays ==
    ASSUME budget \in Budget, UNCHANGED budget
    PROVE  BudgetShrinks
BY DEF BudgetShrinks, Budget

\* Goto.
LEMMA GotoFacts ==
    ASSUME pass \in [Runtime -> Pass], NEW r \in Runtime, NEW step \in Steps,
           Goto(r, step)
    PROVE  PassGoes(r, step)
<1> DEFINE p == [pass[r] EXCEPT !.pc = step]
<1>1. pass[r] \in Pass
    OBVIOUS
<1>2. p \in Pass /\ p.pc = step /\ p.ctx = pass[r].ctx /\ p.engine = pass[r].engine
    BY <1>1 DEF Pass
<1>3. pass' = [pass EXCEPT ![r] = p]
    BY DEF Goto
<1> HIDE DEF p
<1>4. /\ pass' \in [Runtime -> Pass]
      /\ \A s \in Runtime \ {r} : pass'[s] = pass[s]
      /\ pass'[r] = p
    BY <1>2, <1>3
<1> QED BY <1>2, <1>4 DEF PassGoes

\* Return.
LEMMA ReturnFacts ==
    ASSUME pass \in [Runtime -> Pass], NEW r \in Runtime, Return(r)
    PROVE  PassEnds(r)
BY InitialValues DEF Return, PassEnds

LEMMA RequeueFacts ==
    ASSUME pass \in [Runtime -> Pass], queue \subseteq Runtime, NEW r \in Runtime,
           Requeue(r)
    PROVE  PassEnds(r) /\ queue' \subseteq Runtime
BY ReturnFacts DEF Requeue

LEMMA ApiStays ==
    ASSUME api \in [Runtime -> Object], UNCHANGED api
    PROVE  ApiKeeps
BY DEF ApiKeeps

\* A write that keeps the flags of the object.
LEMMA StatusWrite ==
    ASSUME api \in [Runtime -> Object], NEW o \in Runtime, NEW m \in Phase, NEW w \in Phase,
           Write(o, [api[o] EXCEPT !.masterPhase = m, !.workerPhase = w])
    PROVE  /\ ApiKeeps
           /\ \A s \in Runtime \ {o} : api'[s] = api[s]
           /\ api'[o].workerPhase = w
<1> DEFINE one == [api[o] EXCEPT !.masterPhase = m]
           new == [one EXCEPT !.workerPhase = w]
<1>1. api[o] \in Object
    OBVIOUS
<1>2. /\ one \in Object
      /\ one.exists = api[o].exists /\ one.deleting = api[o].deleting
      /\ one.finalizer = api[o].finalizer
    BY <1>1 DEF Object
<1>3. /\ new \in Object
      /\ new.exists = one.exists /\ new.deleting = one.deleting
      /\ new.finalizer = one.finalizer /\ new.workerPhase = w
    <2> HIDE DEF one
    <2> QED BY <1>2 DEF Object
<1>4. Write(o, new)
    OBVIOUS
<1> HIDE DEF one, new
<1>5. /\ api' \in [Runtime -> Object]
      /\ \A s \in Runtime \ {o} : api'[s] = api[s]
      /\ api'[o] = [new EXCEPT !.rv = api[o].rv + 1]
      /\ api'[o].rv = api[o].rv + 1
    BY <1>3, <1>4, WriteFacts
<1>6. /\ api'[o].exists = new.exists /\ api'[o].deleting = new.deleting
      /\ api'[o].finalizer = new.finalizer /\ api'[o].workerPhase = new.workerPhase
    BY <1>3, <1>5 DEF Object
<1>7. api'[o].rv > api[o].rv
    BY <1>1, <1>5 DEF Object
<1> QED BY <1>2, <1>3, <1>5, <1>6, <1>7 DEF ApiKeeps

\* UpdateStatus.
LEMMA UpdateStatusFacts ==
    ASSUME api \in [Runtime -> Object], pass \in [Runtime -> Pass], budget \in Budget,
           queue \subseteq Runtime, NEW r \in Runtime, Owner(r) \in Runtime,
           NEW m \in Phase, NEW w \in Phase, NEW step \in Steps,
           UpdateStatus(r, m, w, step)
    PROVE  /\ ApiKeeps
           /\ PassGoes(r, step) \/ PassEnds(r)
           /\ queue' \subseteq Runtime
           /\ BudgetShrinks
           /\ \A s \in Runtime \ {Owner(r)} : api'[s] = api[s]
           /\ api'[Owner(r)].workerPhase \in {w, api[Owner(r)].workerPhase}
<1> DEFINE o == Owner(r)
           new == [api[o] EXCEPT !.masterPhase = m, !.workerPhase = w]
<1>1. CASE /\ new # api[o] /\ Write(o, new) /\ UNCHANGED budget
           /\ Goto(r, step) /\ UNCHANGED queue
    BY <1>1, StatusWrite, GotoFacts, BudgetStays
<1>2. CASE /\ new = api[o] /\ Spend("probes") /\ Write(o, new)
           /\ Goto(r, step) /\ UNCHANGED queue
    <2>1. Write(o, new)
        BY <1>2
    <2>2. /\ ApiKeeps
          /\ \A s \in Runtime \ {o} : api'[s] = api[s]
          /\ api'[o].workerPhase = w
        BY <2>1, StatusWrite
    <2>3. BudgetShrinks /\ PassGoes(r, step)
        BY <1>2, SpendFacts, GotoFacts
    <2> QED BY <1>2, <2>2, <2>3
<1>3. CASE UNCHANGED <<api, budget, queue>> /\ Goto(r, step)
    BY <1>3, ApiStays, GotoFacts, BudgetStays
<1>4. CASE Requeue(r) /\ UNCHANGED <<api, budget>>
    BY <1>4, ApiStays, RequeueFacts, BudgetStays
<1> QED BY <1>1, <1>2, <1>3, <1>4 DEF UpdateStatus

-----------------------------------------------------------------------------
(* The steps of a pass. *)

\* The runtime that the engine of a pass works on is one.
LEMMA OwnerFacts ==
    ASSUME Structure, NEW r \in Runtime, pass[r].pc # "idle"
    PROVE  Owner(r) \in Runtime /\ EngineID[Owner(r)] = EngineID[r]
BY DEF Structure, Owners, OwnerOK, Owner

\* With ids that differ it is the runtime of the pass.
LEMMA OwnEngine ==
    ASSUME Structure, DistinctIDs, NEW r \in Runtime, pass[r].pc # "idle"
    PROVE  Owner(r) = r
BY OwnerFacts DEF DistinctIDs

LEMMA EnginesStay ==
    ASSUME Structure, UNCHANGED engines
    PROVE  EnginesKept
BY DEF Structure, TypeOK, Owners, EnginesKept, OwnerOK

LEMMA EngineRemoved ==
    ASSUME Structure, NEW r \in Runtime, RemoveEngine(r)
    PROVE  EnginesKept
<1>1. EngineID[r] \in ID /\ engines \in [ID -> Engine]
    BY DEF ID, Structure, TypeOK
<1>2. /\ engines' \in [ID -> Engine]
      /\ \A i \in ID : engines'[i] = engines[i] \/ engines'[i] = NoEngine
    BY <1>1, InitialValues DEF RemoveEngine
<1>3. NoEngine.built = FALSE
    BY DEF NoEngine
<1> QED BY <1>2, <1>3 DEF Structure, Owners, EnginesKept, OwnerOK

\* Steps that leave the engines, the mutex and the cluster alone.
LEMMA WorksPlain ==
    ASSUME Structure, NEW r \in Runtime, Moves(r), ApiKeeps, queue' \subseteq Runtime,
           BudgetShrinks, UNCHANGED <<cache, engines, mutex, nodeCache, cluster>>,
           pass'[r].pc \in LockedSteps <=> pass[r].pc \in LockedSteps,
           pass'[r].pc \in {"cleanAll", "finalize"} =>
              pass[r].pc \in {"cleanAll", "finalize"}
    PROVE  Works(r)
<1>1. EnginesKept
    BY EnginesStay
<1>2. RestTyped
    BY DEF Structure, TypeOK, RestTyped, cluster
<1>3. MutexMoves(r) /\ ReleaseMoves(r)
    BY DEF MutexMoves, ReleaseMoves, cluster
<1> QED BY <1>1, <1>2, <1>3 DEF Works

\* The steps there are.
LEMMA StepFacts ==
    /\ IdlePass.pc = "idle"
    /\ "idle" \notin SetupSteps \cup ShutdownSteps
    /\ SetupSteps \cup ShutdownSteps \subseteq Steps
    /\ \A s \in SetupSteps : s \notin ShutdownSteps
BY DEF IdlePass, SetupSteps, ShutdownSteps, Steps

\* Passes that end where they do not hold the mutex.
LEMMA EndsWorks ==
    ASSUME Structure, NEW r \in Runtime, PassEnds(r), ApiKeeps, queue' \subseteq Runtime,
           BudgetShrinks, pass[r].pc \notin LockedSteps,
           UNCHANGED <<cache, engines, mutex, nodeCache, cluster>>
    PROVE  Works(r)
BY WorksPlain, StepFacts DEF PassEnds, Moves, LockedSteps

\* Passes that go on, without the mutex.
LEMMA GoesWorks ==
    ASSUME Structure, NEW r \in Runtime, NEW step \in SetupSteps \ LockedSteps,
           PassGoes(r, step), ApiKeeps, queue' \subseteq Runtime,
           BudgetShrinks, pass[r].pc \in SetupSteps \ LockedSteps,
           UNCHANGED <<cache, engines, mutex, nodeCache, cluster>>
    PROVE  Works(r)
BY WorksPlain DEF PassGoes, Moves, SetupSteps

\* Check, CheckMasterReady, ShouldSetupWorkers, WorkersStatus,
\* CheckWorkersReady and CheckAndUpdateRuntimeStatus.
LEMMA SetupWorks ==
    ASSUME Structure, NEW r \in Runtime,
           \/ Check(r) \/ CheckMasterReady(r) \/ ShouldSetupWorkers(r)
           \/ WorkersStatus(r) \/ CheckWorkersReady(r) \/ CheckAndUpdateRuntimeStatus(r)
    PROVE  Works(r)
<1>1. /\ api \in [Runtime -> Object] /\ pass \in [Runtime -> Pass]
      /\ budget \in Budget /\ queue \subseteq Runtime /\ cache \in [Runtime -> Object]
    BY DEF Structure, TypeOK
<1>2. /\ UNCHANGED <<cache, engines, mutex, nodeCache, cluster>>
      /\ pass[r].pc \in SetupSteps \ LockedSteps
    BY DEF Check, CheckMasterReady, ShouldSetupWorkers, WorkersStatus, CheckWorkersReady,
           CheckAndUpdateRuntimeStatus, SetupSteps, LockedSteps
<1>3. Owner(r) \in Runtime
    BY <1>2, OwnerFacts, StepFacts
<1>4. api[Owner(r)].masterPhase \in Phase /\ api[Owner(r)].workerPhase \in Phase
    BY <1>1, <1>3 DEF Object
<1>5. /\ {"setupMaster", "setupWorkers", "schedule", "workersReady", "status"}
            \subseteq SetupSteps \ LockedSteps
      /\ {"Ready", "NotReady", "PartialReady"} \subseteq Phase
    BY DEF SetupSteps, LockedSteps, Phase
<1>6. ASSUME NEW m \in Phase, NEW w \in Phase, NEW step \in SetupSteps \ LockedSteps,
             UpdateStatus(r, m, w, step)
      PROVE  Works(r)
    <2>1. /\ ApiKeeps
          /\ PassGoes(r, step) \/ PassEnds(r)
          /\ queue' \subseteq Runtime /\ BudgetShrinks
        BY <1>1, <1>3, <1>6, StepFacts, UpdateStatusFacts
    <2> QED BY <1>2, <2>1, EndsWorks, GoesWorks
<1>7. ASSUME Requeue(r), UNCHANGED <<api, budget>>
      PROVE  Works(r)
    BY <1>1, <1>2, <1>7, RequeueFacts, ApiStays, BudgetStays, EndsWorks
<1>8. ASSUME NEW step \in SetupSteps \ LockedSteps, PassGoes(r, step),
             UNCHANGED <<api, queue, budget>>
      PROVE  Works(r)
    BY <1>1, <1>2, <1>8, ApiStays, BudgetStays, GoesWorks
<1>9. CASE Check(r)
    BY <1>1, <1>5, <1>7, <1>8, <1>9, GotoFacts, StepFacts DEF Check
<1>10. CASE CheckMasterReady(r)
    BY <1>4, <1>5, <1>6, <1>7, <1>10 DEF CheckMasterReady
<1>11. CASE ShouldSetupWorkers(r)
    <2> DEFINE o == Owner(r)
               step == IF cache[o].workerPhase = "None" THEN "schedule" ELSE "workersReady"
               one == [pass[r] EXCEPT !.pc = step]
               p == [one EXCEPT !.desired = cache[o].replicas]
    <2>1. CASE /\ pass' = [pass EXCEPT ![r].pc = step, ![r].desired = cache[o].replicas]
               /\ UNCHANGED queue
        <3>1. step \in SetupSteps \ LockedSteps /\ step \in Steps
            BY <1>5, StepFacts
        <3> HIDE DEF step
        <3>2. cache[o].replicas \in Nat
            BY <1>1, <1>3 DEF Object
        <3>3. /\ one \in Pass /\ one.pc = step /\ one.ctx = pass[r].ctx
              /\ one.engine = pass[r].engine
            BY <1>1, <3>1 DEF Pass
        <3>4. pass' = [pass EXCEPT ![r] = p]
            BY <2>1
        <3> HIDE DEF one, o
        <3>5. p \in Pass /\ p.pc = step /\ p.ctx = pass[r].ctx /\ p.engine = pass[r].engine
            BY <3>2, <3>3 DEF Pass
        <3> HIDE DEF p
        <3>6. PassGoes(r, step)
            BY <1>1, <3>4, <3>5 DEF PassGoes
        <3>7. UNCHANGED <<api, queue, budget>>
            BY <1>11, <2>1 DEF ShouldSetupWorkers
        <3> QED BY <1>8, <3>1, <3>6, <3>7
    <2>2. CASE Requeue(r)
        BY <1>7, <1>11, <2>2 DEF ShouldSetupWorkers
    <2> QED BY <1>11, <2>1, <2>2 DEF ShouldSetupWorkers
<1>12. CASE WorkersStatus(r)
    BY <1>4, <1>5, <1>6, <1>12 DEF WorkersStatus
<1>13. CASE CheckWorkersReady(r)
    BY <1>4, <1>5, <1>6, <1>7, <1>13 DEF CheckWorkersReady
<1>14. CASE CheckAndUpdateRuntimeStatus(r)
    <2> DEFINE o == Owner(r)
               m == IF o \in master THEN "Ready" ELSE "NotReady"
               w == IF cache[o].replicas = NumberReady(o) THEN "Ready" ELSE "PartialReady"
    <2>1. m \in Phase /\ w \in Phase
        BY <1>5
    <2>2. /\ Write(o, [api[o] EXCEPT !.masterPhase = m, !.workerPhase = w]) \/ UNCHANGED api
          /\ Requeue(r) /\ UNCHANGED budget
        BY <1>14 DEF CheckAndUpdateRuntimeStatus
    <2> HIDE DEF m, w
    <2>3. ApiKeeps
        BY <1>1, <1>3, <2>1, <2>2, StatusWrite, ApiStays
    <2> QED BY <1>1, <1>2, <2>2, <2>3, RequeueFacts, BudgetStays, EndsWorks
<1> QED BY <1>9, <1>10, <1>11, <1>12, <1>13, <1>14

\* SetupMaster and FailInstall.
LEMMA MasterWorks ==
    ASSUME Structure, NEW r \in Runtime, SetupMaster(r) \/ FailInstall(r)
    PROVE  Works(r)
<1> DEFINE o == Owner(r)
<1>1. /\ api \in [Runtime -> Object] /\ pass \in [Runtime -> Pass]
      /\ budget \in Budget /\ queue \subseteq Runtime
      /\ release \in [Runtime -> {"none", "failed", "deployed"}]
    BY DEF Structure, TypeOK
<1>2. /\ pass[r].pc = "setupMaster"
      /\ UNCHANGED <<cache, engines, mutex, nodeCache, nodes, ready, master, workers>>
    BY DEF SetupMaster, FailInstall
<1>3. o \in Runtime
    BY <1>2, OwnerFacts
<1>4. /\ "setupMaster" \in SetupSteps \ LockedSteps
      /\ "masterReady" \in SetupSteps \ LockedSteps
      /\ "masterReady" \in Steps /\ "NotReady" \in Phase
    BY DEF SetupSteps, LockedSteps, Steps, Phase
<1>5. api[o].workerPhase \in Phase
    BY <1>1, <1>3 DEF Object
<1> HIDE DEF o
<1>6. ASSUME ApiKeeps, PassGoes(r, "masterReady") \/ PassEnds(r), queue' \subseteq Runtime,
             BudgetShrinks, UNCHANGED release
      PROVE  Works(r)
    BY <1>2, <1>4, <1>6, EndsWorks, GoesWorks DEF cluster
<1>7. ASSUME UNCHANGED api, PassGoes(r, "masterReady") \/ PassEnds(r),
             queue' \subseteq Runtime, BudgetShrinks,
             NEW v \in {"failed", "deployed"}, release' = [release EXCEPT ![o] = v]
      PROVE  Works(r)
    <2>1. Moves(r) /\ pass'[r].pc \notin LockedSteps
        BY <1>2, <1>4, <1>7, StepFacts DEF Moves, PassGoes, PassEnds, LockedSteps
    <2>2. MutexMoves(r)
        BY <1>2, <1>4, <2>1 DEF MutexMoves
    <2>3. /\ release' \in [Runtime -> {"none", "failed", "deployed"}]
          /\ \A s \in Runtime \ {o} : release'[s] = release[s]
          /\ release'[o] # "none"
        BY <1>1, <1>3, <1>7
    <2>4. ReleaseMoves(r)
        BY <1>2, <2>3 DEF ReleaseMoves, o
    <2>5. RestTyped
        BY <1>2, <1>7, <2>3 DEF RestTyped, Structure, TypeOK
    <2> QED BY <1>1, <1>2, <1>7, <2>1, <2>2, <2>4, <2>5, EnginesStay, ApiStays DEF Works
<1>8. CASE FailInstall(r)
    <2>1. /\ Spend("installFailures") /\ release' = [release EXCEPT ![o] = "failed"]
          /\ Requeue(r) /\ UNCHANGED api
        BY <1>8 DEF FailInstall, o
    <2> QED BY <1>1, <1>7, <2>1, SpendFacts, RequeueFacts
<1>9. CASE SetupMaster(r)
    <2>1. CASE Goto(r, "masterReady") /\ UNCHANGED <<api, queue, release, budget>>
        BY <1>1, <1>4, <1>6, <2>1, GotoFacts, ApiStays, BudgetStays
    <2>2. CASE /\ release' = [release EXCEPT ![o] = IF @ = "none" THEN "deployed" ELSE @]
               /\ Goto(r, "masterReady")
               /\ UNCHANGED <<api, queue, budget>>
        <3> DEFINE v == IF release[o] = "none" THEN "deployed" ELSE release[o]
        <3>1. v \in {"failed", "deployed"}
            BY <1>1, <1>3
        <3>2. release' = [release EXCEPT ![o] = v]
            BY <2>2
        <3> HIDE DEF v
        <3> QED BY <1>1, <1>4, <1>7, <2>2, <3>1, <3>2, GotoFacts, BudgetStays
    <2>3. CASE Requeue(r) /\ UNCHANGED <<api, release, budget>>
        BY <1>1, <1>6, <2>3, RequeueFacts, ApiStays, BudgetStays
    <2>4. CASE UpdateStatus(r, "NotReady", api[o].workerPhase, "masterReady") /\ UNCHANGED release
        BY <1>1, <1>3, <1>4, <1>5, <1>6, <2>4, UpdateStatusFacts DEF o
    <2> QED BY <1>9, <2>1, <2>2, <2>3, <2>4 DEF SetupMaster, o
<1> QED BY <1>8, <1>9

\* Passes that end while they hold the mutex: Assigned and FailLabel.
LEMMA UnlockWorks ==
    ASSUME Structure, NEW r \in Runtime, Assigned(r) \/ FailLabel(r)
    PROVE  Works(r)
<1>1. /\ api \in [Runtime -> Object] /\ pass \in [Runtime -> Pass]
      /\ budget \in Budget /\ queue \subseteq Runtime
    BY DEF Structure, TypeOK
<1>2. /\ pass[r].pc = "label" /\ mutex' = Nobody
      /\ UNCHANGED <<api, cache, engines, nodeCache, cluster>>
    BY DEF Assigned, FailLabel
<1>3. mutex = r
    BY <1>2 DEF Structure, SchedulerExclusive, LockedSteps
<1>4. /\ PassGoes(r, "workersStatus") \/ PassEnds(r)
      /\ queue' \subseteq Runtime /\ BudgetShrinks
    <2>1. "workersStatus" \in Steps
        BY DEF Steps, SetupSteps
    <2>2. CASE Assigned(r)
        BY <1>1, <2>1, <2>2, GotoFacts, RequeueFacts, BudgetStays DEF Assigned
    <2>3. CASE FailLabel(r)
        BY <1>1, <2>3, RequeueFacts, SpendFacts DEF FailLabel
    <2> QED BY <2>2, <2>3
<1>5. Moves(r) /\ pass'[r].pc \notin LockedSteps
    BY <1>2, <1>4, StepFacts DEF Moves, PassGoes, PassEnds, LockedSteps, SetupSteps
<1>6. pass'[r].pc \notin {"cleanAll", "finalize"}
    BY <1>4, StepFacts DEF PassGoes, PassEnds
<1>7. MutexMoves(r) /\ ReleaseMoves(r)
    BY <1>2, <1>3, <1>5, <1>6 DEF MutexMoves, ReleaseMoves, cluster
<1>8. RestTyped
    BY <1>2, <1>4 DEF RestTyped, Structure, TypeOK, cluster
<1> QED BY <1>1, <1>2, <1>5, <1>7, <1>8, EnginesStay, ApiStays DEF Works

\* A pass that goes on with other values.
LEMMA PassUpdate ==
    ASSUME pass \in [Runtime -> Pass], NEW r \in Runtime, NEW p \in Pass,
           p.ctx = pass[r].ctx, p.engine = pass[r].engine,
           pass' = [pass EXCEPT ![r] = p]
    PROVE  PassGoes(r, p.pc) /\ pass'[r] = p
BY DEF PassGoes

\* AssignDatasetToNodes counts the nodes it has chosen.
LEMMA AssignFacts ==
    ASSUME Structure, NEW r \in Runtime, AssignDatasetToNodes(r)
    PROVE  /\ PassGoes(r, "label")
           /\ \A n \in pass'[r].todo : ~AlreadyAssigned(EngineID[r], n)
<1> DEFINE i == EngineID[r]
           begin == LabelledTrue(nodeCache, i)
           eligible == Eligible(i, pass[r].engine.quota) \ begin
<1>1. PICK K \in Choices(begin, eligible, pass[r].desired) :
          pass' = [pass EXCEPT ![r].pc = "label",
                               ![r].todo = {n \in K : ~AlreadyAssigned(i, n)},
                               ![r].current = Cardinality(begin \cup K)]
    BY DEF AssignDatasetToNodes
<1>2. begin \subseteq Node /\ eligible \subseteq Node
    BY DEF LabelledTrue, Eligible, Structure, TypeOK
<1>3. K \subseteq Node
    BY <1>1, <1>2 DEF Choices
<1> DEFINE todo == {n \in K : ~AlreadyAssigned(i, n)}
           current == Cardinality(begin \cup K)
           one == [pass[r] EXCEPT !.pc = "label"]
           two == [one EXCEPT !.todo = todo]
           p == [two EXCEPT !.current = current]
<1>4. current \in Nat
    <2>1. IsFiniteSet(begin \cup K)
        BY <1>2, <1>3, FS_Subset, RuntimesAssumption
    <2> QED BY <2>1, FS_CardinalityType
<1>5. todo \in SUBSET Node
    BY <1>3
<1>6. pass \in [Runtime -> Pass] /\ pass[r] \in Pass /\ "label" \in Steps
    BY DEF Structure, TypeOK, Steps, SetupSteps
<1>7. pass' = [pass EXCEPT ![r] = p]
    BY <1>1
<1>8. \A n \in todo : ~AlreadyAssigned(i, n)
    OBVIOUS
<1> HIDE DEF todo, current
<1>9. /\ one \in Pass /\ one.pc = "label" /\ one.ctx = pass[r].ctx
      /\ one.engine = pass[r].engine
    BY <1>6 DEF Pass
<1> HIDE DEF one
<1>10. /\ two \in Pass /\ two.pc = "label" /\ two.ctx = pass[r].ctx
       /\ two.engine = pass[r].engine /\ two.todo = todo
    BY <1>5, <1>9 DEF Pass
<1> HIDE DEF two
<1>11. /\ p \in Pass /\ p.pc = "label" /\ p.ctx = pass[r].ctx
       /\ p.engine = pass[r].engine /\ p.todo = todo
    BY <1>4, <1>10 DEF Pass
<1> HIDE DEF p
<1>12. PassGoes(r, "label") /\ pass'[r] = p
    BY <1>6, <1>7, <1>11, PassUpdate
<1> QED BY <1>8, <1>11, <1>12

\* LabelCacheNode takes a node off the list and waits for its label.
LEMMA LabelFacts ==
    ASSUME Structure, NEW r \in Runtime, LabelCacheNode(r)
    PROVE  \E n \in Node :
              /\ PassGoes(r, "poll") /\ pass'[r].node = n /\ n \in pass[r].todo
              /\ pass'[r].todo = pass[r].todo \ {n}
              /\ nodes' = [nodes EXCEPT ![n][EngineID[r]] = NewLabel(pass[r].engine.quota)]
<1>0. PICK n \in pass[r].todo :
          /\ nodes' = [nodes EXCEPT ![n][EngineID[r]] = NewLabel(pass[r].engine.quota)]
          /\ pass' = [pass EXCEPT ![r].pc = "poll", ![r].node = n, ![r].todo = @ \ {n}]
    BY DEF LabelCacheNode
<1> DEFINE one == [pass[r] EXCEPT !.pc = "poll"]
           two == [one EXCEPT !.node = n]
           todo == pass[r].todo \ {n}
           p == [two EXCEPT !.todo = todo]
<1>1. pass \in [Runtime -> Pass] /\ pass[r] \in Pass /\ "poll" \in Steps
    BY DEF Structure, TypeOK, Steps, SetupSteps
<1>2. n \in Node /\ todo \in SUBSET Node
    BY <1>1 DEF Pass
<1>3. /\ one \in Pass /\ one.pc = "poll" /\ one.ctx = pass[r].ctx
      /\ one.engine = pass[r].engine /\ one.todo = pass[r].todo
    BY <1>1 DEF Pass
<1>4. pass' = [pass EXCEPT ![r] = p]
    BY <1>0, <1>1 DEF Pass
<1> HIDE DEF one, todo
<1>5. /\ two \in Pass /\ two.pc = "poll" /\ two.ctx = pass[r].ctx
      /\ two.engine = pass[r].engine /\ two.node = n
    BY <1>2, <1>3 DEF Pass
<1> HIDE DEF two
<1>6. /\ p \in Pass /\ p.pc = "poll" /\ p.ctx = pass[r].ctx
      /\ p.engine = pass[r].engine /\ p.node = n /\ p.todo = todo
    BY <1>2, <1>5 DEF Pass
<1> HIDE DEF p
<1>7. PassGoes(r, "poll") /\ pass'[r] = p
    BY <1>1, <1>4, <1>6, PassUpdate
<1> QED BY <1>0, <1>2, <1>6, <1>7 DEF todo

\* The wait ends, and the rest of the list is as it was.
LEMMA NextNodeFacts ==
    ASSUME Structure, NEW r \in Runtime, NextNode(r)
    PROVE  PassGoes(r, "label") /\ pass'[r].todo = pass[r].todo
<1> DEFINE one == [pass[r] EXCEPT !.pc = "label"]
           p == [one EXCEPT !.node = Nobody]
<1>1. pass \in [Runtime -> Pass] /\ pass[r] \in Pass /\ "label" \in Steps
    BY DEF Structure, TypeOK, Steps, SetupSteps
<1>2. pass' = [pass EXCEPT ![r] = p]
    BY DEF NextNode
<1>3. /\ one \in Pass /\ one.pc = "label" /\ one.ctx = pass[r].ctx
      /\ one.engine = pass[r].engine /\ one.todo = pass[r].todo
    BY <1>1 DEF Pass
<1> HIDE DEF one
<1>4. /\ p \in Pass /\ p.pc = "label" /\ p.ctx = pass[r].ctx
      /\ p.engine = pass[r].engine /\ p.todo = pass[r].todo
    BY <1>3 DEF Pass
<1> HIDE DEF p
<1> QED BY <1>1, <1>2, <1>4, PassUpdate

\* A label on one node.
LEMMA LabelWritten ==
    ASSUME Structure, NEW r \in Runtime, NEW n \in Node,
           nodes' = [nodes EXCEPT ![n][EngineID[r]] = NewLabel(pass[r].engine.quota)]
    PROVE  /\ nodes' \in [Node -> [ID -> Label]]
           /\ \A m \in Node \ {n} : nodes'[m] = nodes[m]
           /\ \A j \in ID \ {EngineID[r]} : nodes'[n][j] = nodes[n][j]
           /\ nodes'[n][EngineID[r]] # NoLabel
           /\ nodes'[n][EngineID[r]].value = "ok"
<1> DEFINE label == NewLabel(pass[r].engine.quota)
<1>1. /\ nodes \in [Node -> [ID -> Label]] /\ EngineID[r] \in ID
      /\ pass[r].engine.quota \in Nat
    BY DEF Structure, TypeOK, ID, Pass, Engine
<1>2. label \in Label /\ label.value = "ok"
    BY <1>1 DEF NewLabel, Label
<1>3. NoLabel.value = "absent"
    BY DEF NoLabel
<1>4. nodes' = [nodes EXCEPT ![n][EngineID[r]] = label]
    OBVIOUS
<1> HIDE DEF label
<1> QED BY <1>1, <1>2, <1>3, <1>4

\* AssignDatasetToNodes, LabelCacheNode, Poll and PollTimeout.
LEMMA ScheduleWorks ==
    ASSUME Structure, NEW r \in Runtime,
           AssignDatasetToNodes(r) \/ LabelCacheNode(r) \/ Poll(r) \/ PollTimeout(r)
    PROVE  Works(r)
<1>1. /\ pass[r].pc \in SetupSteps /\ queue' = queue /\ ApiKeeps
      /\ UNCHANGED <<cache, engines, nodeCache, ready, release, master, workers>>
    BY ApiStays DEF AssignDatasetToNodes, LabelCacheNode, Poll, PollTimeout, SetupSteps,
           cluster, Structure, TypeOK
<1>2. BudgetShrinks
    <2>1. budget \in Budget
        BY DEF Structure, TypeOK
    <2>2. UNCHANGED budget \/ Spend("timeouts")
        BY DEF AssignDatasetToNodes, LabelCacheNode, Poll, PollTimeout
    <2> QED BY <2>1, <2>2, BudgetStays, SpendFacts
<1>3. /\ PassGoes(r, pass'[r].pc) /\ pass'[r].pc \in LockedSteps
      /\ nodes' \in [Node -> [ID -> Label]]
    <2>1. nodes \in [Node -> [ID -> Label]]
        BY SMTT(60) DEF Structure, TypeOK
    <2>2. CASE AssignDatasetToNodes(r)
        BY <2>1, <2>2, AssignFacts DEF PassGoes, LockedSteps, AssignDatasetToNodes, cluster
    <2>3. CASE LabelCacheNode(r)
        BY <2>3, LabelFacts, LabelWritten, ZenonT(60) DEF PassGoes, LockedSteps
    <2>4. CASE Poll(r) \/ PollTimeout(r)
        <3>1. PassGoes(r, "label")
            BY <2>4, NextNodeFacts DEF Poll, PollTimeout
        <3> QED BY <2>1, <2>4, <3>1 DEF PassGoes, LockedSteps, Poll, PollTimeout, cluster
    <2> QED BY <2>2, <2>3, <2>4
<1>4. Moves(r)
    BY <1>1, <1>3 DEF Moves, LockedSteps, SetupSteps
<1>5. MutexMoves(r)
    <2>1. CASE AssignDatasetToNodes(r)
        BY <1>3, <2>1 DEF AssignDatasetToNodes, LockScheduler, MutexMoves
    <2>2. CASE LabelCacheNode(r) \/ Poll(r) \/ PollTimeout(r)
        BY <1>3, <2>2 DEF LabelCacheNode, Poll, PollTimeout, MutexMoves, LockedSteps
    <2> QED BY <2>1, <2>2
<1>6. ReleaseMoves(r)
    BY <1>1, <1>3 DEF ReleaseMoves, LockedSteps
<1>7. RestTyped
    BY <1>1, <1>2, <1>3 DEF RestTyped, Structure, TypeOK
<1> QED BY <1>1, <1>4, <1>5, <1>6, <1>7, EnginesStay DEF Works

\* ForceShutdown, FailCleanup, DestroyWorkers, DestroyMaster and CleanAll.
LEMMA ShutdownWorks ==
    ASSUME Structure, NEW r \in Runtime,
           \/ ForceShutdown(r) \/ FailCleanup(r) \/ DestroyWorkers(r) \/ DestroyMaster(r)
           \/ CleanAll(r)
    PROVE  Works(r)
<1>1. /\ pass \in [Runtime -> Pass] /\ budget \in Budget
      /\ nodes \in [Node -> [ID -> Label]] /\ workers \in [Runtime -> SUBSET Node]
      /\ master \subseteq Runtime /\ EngineID[r] \in ID
      /\ release \in [Runtime -> {"none", "failed", "deployed"}]
    BY DEF Structure, TypeOK, ID
<1>2. /\ pass[r].pc \in ShutdownSteps /\ ApiKeeps
      /\ UNCHANGED <<cache, queue, engines, mutex, nodeCache, ready>>
    BY ApiStays DEF ForceShutdown, FailCleanup, DestroyWorkers, DestroyMaster, CleanAll,
           ShutdownSteps, cluster, Structure, TypeOK
<1>3. Owner(r) \in Runtime
    BY <1>2, OwnerFacts, StepFacts
<1>4. BudgetShrinks
    <2>1. UNCHANGED budget \/ Spend("failures")
        BY DEF ForceShutdown, FailCleanup, DestroyWorkers, DestroyMaster, CleanAll
    <2> QED BY <1>1, <2>1, BudgetStays, SpendFacts
<1>5. PICK step \in ShutdownSteps : Goto(r, step)
    BY DEF ForceShutdown, FailCleanup, DestroyWorkers, DestroyMaster, CleanAll, ShutdownSteps
<1>6. PassGoes(r, step) /\ pass'[r].pc = step
    BY <1>1, <1>5, GotoFacts, StepFacts DEF PassGoes
<1>7. Moves(r) /\ MutexMoves(r)
    <2>1. \A s \in ShutdownSteps : s \notin LockedSteps
        BY DEF ShutdownSteps, LockedSteps
    <2> QED BY <1>2, <1>5, <1>6, <2>1 DEF Moves, MutexMoves
<1>8. nodes' \in [Node -> [ID -> Label]]
    <2>1. CASE DestroyWorkers(r)
        BY <1>1, <2>1, InitialValues DEF DestroyWorkers
    <2> QED BY <1>1, <2>1 DEF ForceShutdown, FailCleanup, DestroyMaster, CleanAll, cluster
<1>9. /\ release' \in [Runtime -> {"none", "failed", "deployed"}]
      /\ master' \subseteq Runtime /\ workers' \in [Runtime -> SUBSET Node]
    <2>1. CASE DestroyMaster(r)
        BY <1>1, <1>3, <2>1 DEF DestroyMaster
    <2> QED BY <1>1, <2>1 DEF ForceShutdown, FailCleanup, DestroyWorkers, CleanAll, cluster
<1>10. ReleaseMoves(r)
    <2>1. CASE DestroyMaster(r)
        <3>1. release' = [release EXCEPT ![Owner(r)] = "none"] /\ pass[r].pc = "destroyMaster"
            BY <2>1 DEF DestroyMaster
        <3> QED BY <1>1, <1>3, <3>1 DEF ReleaseMoves
    <2>2. CASE ForceShutdown(r) \/ FailCleanup(r) \/ DestroyWorkers(r)
        <3>1. UNCHANGED release /\ (Goto(r, "destroyWorkers") \/ Goto(r, "destroyMaster"))
            BY <2>2 DEF ForceShutdown, FailCleanup, DestroyWorkers, cluster
        <3>2. pass'[r].pc \in {"destroyWorkers", "destroyMaster"}
            BY <1>1, <3>1, GotoFacts DEF PassGoes, Steps, ShutdownSteps
        <3> QED BY <3>1, <3>2 DEF ReleaseMoves
    <2>3. CASE CleanAll(r)
        BY <2>3 DEF CleanAll, cluster, ReleaseMoves
    <2> QED BY <2>1, <2>2, <2>3
<1>11. RestTyped
    BY <1>2, <1>4, <1>8, <1>9 DEF RestTyped, Structure, TypeOK
<1> QED BY <1>2, <1>7, <1>10, <1>11, EnginesStay DEF Works

\* Attempts are counted: CleanupCache.
LEMMA CleanupWorks ==
    ASSUME Structure, NEW r \in Runtime, CleanupCache(r)
    PROVE  Works(r)
<1> DEFINE i == EngineID[r]
           e == [engines[i] EXCEPT !.retryShutdown = @ + 1]
<1>1. /\ pass \in [Runtime -> Pass] /\ engines \in [ID -> Engine] /\ i \in ID
      /\ queue \subseteq Runtime /\ api \in [Runtime -> Object] /\ budget \in Budget
    BY DEF Structure, TypeOK, ID
<1>2. /\ pass[r].pc = "cleanup" /\ Requeue(r)
      /\ UNCHANGED <<api, cache, mutex, nodeCache, cluster, budget>>
      /\ engines' = [engines EXCEPT ![i] = e] \/ engines' = engines
    BY DEF CleanupCache
<1>3. e \in Engine /\ e.built = engines[i].built /\ e.owner = engines[i].owner
    BY <1>1 DEF Engine
<1> HIDE DEF e
<1>4. /\ engines' \in [ID -> Engine]
      /\ \A j \in ID : engines'[j].built = engines[j].built
                       /\ engines'[j].owner = engines[j].owner
    BY <1>1, <1>2, <1>3
<1>5. EnginesKept
    BY <1>4 DEF EnginesKept, OwnerOK, Structure, Owners
<1>6. PassEnds(r) /\ queue' \subseteq Runtime /\ pass'[r].pc = "idle"
    BY <1>1, <1>2, RequeueFacts, StepFacts DEF PassEnds
<1>7. Moves(r) /\ MutexMoves(r) /\ ReleaseMoves(r)
    BY <1>2, <1>6 DEF Moves, MutexMoves, ReleaseMoves, LockedSteps, cluster
<1>8. RestTyped
    BY <1>2, <1>6, BudgetStays DEF RestTyped, Structure, TypeOK, cluster
<1> QED BY <1>1, <1>2, <1>5, <1>7, <1>8, ApiStays DEF Works

\* Steps that fail: the pass ends, with or without its engine.
LEMMA FailWorks ==
    ASSUME Structure, NEW r \in Runtime,
           \/ FailStep(r) \/ FailFinalize(r)
           \/ AddFinalizer(r) /\ UNCHANGED api
           \/ RemoveFinalizer(r) /\ UNCHANGED api /\ Requeue(r) /\ RemoveEngine(r)
    PROVE  Works(r)
<1>1. /\ pass \in [Runtime -> Pass] /\ queue \subseteq Runtime
      /\ api \in [Runtime -> Object] /\ budget \in Budget
    BY DEF Structure, TypeOK
<1>2. /\ pass[r].pc \notin LockedSteps /\ Requeue(r)
      /\ UNCHANGED <<api, cache, mutex, nodeCache, cluster>>
    BY DEF FailStep, FailFinalize, AddFinalizer, RemoveFinalizer, LockedSteps
<1>3. EnginesKept
    BY EnginesStay, EngineRemoved DEF FailStep, FailFinalize, AddFinalizer
<1>4. BudgetShrinks
    <2>1. UNCHANGED budget \/ Spend("failures")
        BY DEF FailStep, FailFinalize, AddFinalizer, RemoveFinalizer
    <2> QED BY <1>1, <2>1, BudgetStays, SpendFacts
<1>5. PassEnds(r) /\ queue' \subseteq Runtime /\ pass'[r].pc = "idle"
    BY <1>1, <1>2, RequeueFacts, StepFacts DEF PassEnds
<1>6. Moves(r) /\ MutexMoves(r) /\ ReleaseMoves(r)
    BY <1>2, <1>5 DEF Moves, MutexMoves, ReleaseMoves, LockedSteps, cluster
<1>7. RestTyped
    BY <1>2, <1>4, <1>5 DEF RestTyped, Structure, TypeOK, cluster
<1> QED BY <1>1, <1>2, <1>3, <1>6, <1>7, ApiStays DEF Works

\* A step of a pass keeps the structure.
LEMMA WorksStructure ==
    ASSUME Structure, NEW r \in Runtime, Works(r)
    PROVE  Structure'
<1>1. /\ pass' \in [Runtime -> Pass]
      /\ \A s \in Runtime \ {r} : pass'[s] = pass[s]
      /\ pass'[r].pc # "idle" => pass[r].pc # "idle" /\ pass'[r].engine = pass[r].engine
    BY StepFacts DEF Works, Moves, PassGoes, PassEnds
<1>2. mutex' \in Runtime \cup {Nobody}
    BY DEF Works, MutexMoves, Structure, TypeOK
<1>3. TypeOK'
    BY <1>1, <1>2 DEF Works, ApiKeeps, EnginesKept, RestTyped, BudgetShrinks, Structure, TypeOK
<1>4. Owners'
    <2>1. \A i \in ID : engines'[i].built => OwnerOK(engines'[i], i)
        BY DEF Works, EnginesKept
    <2>2. \A s \in Runtime : pass'[s].pc # "idle" => OwnerOK(pass'[s].engine, EngineID[s])
        BY <1>1 DEF Structure, Owners, OwnerOK
    <2> QED BY <2>1, <2>2 DEF Owners, OwnerOK
<1>5. SchedulerExclusive'
    <2>1. MutexMoves(r) /\ Nobody \notin Runtime
        BY RuntimesAssumption DEF Works
    <2>2. \A s \in Runtime : pass[s].pc \in LockedSteps <=> mutex = s
        BY DEF Structure, SchedulerExclusive
    <2>3. \A s \in Runtime : pass'[s].pc \in LockedSteps <=> mutex' = s
        BY <1>1, <2>1, <2>2 DEF MutexMoves
    <2> QED BY <2>3 DEF SchedulerExclusive
<1> QED BY <1>3, <1>4, <1>5 DEF Structure

-----------------------------------------------------------------------------
(* The first step of a pass, and the steps that are of no pass. *)

\* What Create, Delete and Edit write has the type of an object.
LEMMA UserFacts ==
    ASSUME Structure, NEW r \in Runtime, User(r)
    PROVE  /\ api' \in [Runtime -> Object]
           /\ \A s \in Runtime \ {r} : api'[s] = api[s]
           /\ api'[r].rv = api[r].rv + 1
           /\ BudgetShrinks
           /\ UNCHANGED <<cache, queue, pass, engines, mutex, nodeCache, cluster>>
           /\ \/ /\ ~api[r].exists
                 /\ api'[r].exists /\ ~api'[r].deleting /\ ~api'[r].finalizer
                 /\ api'[r].workerPhase = "None"
              \/ /\ api[r].exists /\ ~api[r].deleting /\ api[r].finalizer
                 /\ api'[r].exists /\ api'[r].deleting /\ api'[r].finalizer
                 /\ api'[r].workerPhase = api[r].workerPhase
              \/ /\ api[r].exists /\ ~api[r].deleting /\ ~api[r].finalizer
                 /\ ~api'[r].exists /\ ~api'[r].deleting /\ ~api'[r].finalizer
                 /\ api'[r].workerPhase = "None"
              \/ /\ api'[r].exists = api[r].exists
                 /\ api'[r].deleting = api[r].deleting
                 /\ api'[r].finalizer = api[r].finalizer
                 /\ api'[r].workerPhase = api[r].workerPhase
<1>1. /\ api \in [Runtime -> Object] /\ api[r] \in Object /\ budget \in Budget
      /\ api[r].rv \in Nat
    BY SMTT(60) DEF Structure, TypeOK, Object
<1>2. UNCHANGED <<cache, queue, pass, engines, mutex, nodeCache, cluster>>
    BY DEF User, Create, Delete, Edit
<1>3. BudgetShrinks
    <2>1. UNCHANGED budget \/ Spend("creations") \/ Spend("edits")
        BY DEF User, Create, Delete, Edit
    <2> QED BY <1>1, <2>1, BudgetStays, SpendFacts, SMTT(60)
<1>4. ASSUME NEW o \in Object, Write(r, o)
      PROVE  /\ api' \in [Runtime -> Object]
             /\ \A s \in Runtime \ {r} : api'[s] = api[s]
             /\ api'[r].rv = api[r].rv + 1
             /\ api'[r].exists = o.exists /\ api'[r].deleting = o.deleting
             /\ api'[r].finalizer = o.finalizer /\ api'[r].workerPhase = o.workerPhase
    <2>1. /\ api' \in [Runtime -> Object]
          /\ \A s \in Runtime \ {r} : api'[s] = api[s]
          /\ api'[r] = [o EXCEPT !.rv = api[r].rv + 1]
          /\ api'[r].rv = api[r].rv + 1
        BY <1>1, <1>4, WriteFacts
    <2> QED BY <2>1 DEF Object
<1>5. CASE Create(r)
    <2>1. PICK k \in Replicas, q \in Quota :
              Write(r, [NoObject EXCEPT !.exists = TRUE, !.uid = api[r].rv + 1,
                                        !.replicas = k, !.quota = q])
        BY <1>5 DEF Create
    <2> DEFINE o == [NoObject EXCEPT !.exists = TRUE, !.uid = api[r].rv + 1,
                                     !.replicas = k, !.quota = q]
    <2>2. k \in Nat /\ q \in Nat /\ api[r].rv + 1 \in Nat
        BY <1>1, RuntimesAssumption
    <2>3. /\ o \in Object /\ o.exists /\ ~o.deleting /\ ~o.finalizer
          /\ o.workerPhase = "None"
        BY <2>2 DEF NoObject, Object, Phase
    <2>4. Write(r, o)
        BY <2>1
    <2> HIDE DEF o
    <2> QED BY <1>2, <1>3, <1>4, <1>5, <2>3, <2>4 DEF Create
<1>6. CASE Delete(r)
    <2>1. CASE api[r].finalizer
        <3> DEFINE o == [api[r] EXCEPT !.deleting = TRUE]
        <3>1. /\ o \in Object /\ o.exists = api[r].exists /\ o.deleting
              /\ o.finalizer = api[r].finalizer /\ o.workerPhase = api[r].workerPhase
            BY <1>1 DEF Object
        <3>2. Write(r, o) /\ api[r].exists /\ ~api[r].deleting
            BY <1>6, <2>1 DEF Delete
        <3> HIDE DEF o
        <3> QED BY <1>2, <1>3, <1>4, <2>1, <3>1, <3>2
    <2>2. CASE ~api[r].finalizer
        <3>1. Write(r, NoObject) /\ api[r].exists /\ ~api[r].deleting
            BY <1>6, <2>2 DEF Delete
        <3>2. /\ NoObject.exists = FALSE /\ NoObject.deleting = FALSE
              /\ NoObject.finalizer = FALSE /\ NoObject.workerPhase = "None"
            BY DEF NoObject
        <3> QED BY <1>2, <1>3, <1>4, <2>2, <3>1, <3>2, InitialValues
    <2> QED BY <2>1, <2>2
<1>7. CASE Edit(r)
    <2>1. PICK k \in Replicas, q \in Quota :
              Write(r, [api[r] EXCEPT !.replicas = k, !.quota = q])
        BY <1>7 DEF Edit
    <2> DEFINE one == [api[r] EXCEPT !.replicas = k]
               o == [one EXCEPT !.quota = q]
    <2>2. k \in Nat /\ q \in Nat
        BY RuntimesAssumption
    <2>3. /\ one \in Object /\ one.exists = api[r].exists
          /\ one.deleting = api[r].deleting /\ one.finalizer = api[r].finalizer
          /\ one.workerPhase = api[r].workerPhase
        BY <1>1, <2>2 DEF Object
    <2>4. Write(r, o)
        BY <2>1
    <2> HIDE DEF one
    <2>5. /\ o \in Object /\ o.exists = api[r].exists
          /\ o.deleting = api[r].deleting /\ o.finalizer = api[r].finalizer
          /\ o.workerPhase = api[r].workerPhase
        BY <2>2, <2>3 DEF Object
    <2> HIDE DEF o
    <2> QED BY <1>2, <1>3, <1>4, <2>4, <2>5
<1> QED BY <1>5, <1>6, <1>7 DEF User

\* The first step of a pass.
LEMMA ReconcileFacts ==
    ASSUME Structure, NEW r \in Runtime, Reconcile(r)
    PROVE  /\ pass' \in [Runtime -> Pass]
           /\ \A s \in Runtime \ {r} : pass'[s] = pass[s]
           /\ pass[r].pc = "idle" /\ cache[r].exists
           /\ pass'[r].pc = Dispatch(cache[r])
           /\ pass'[r].pc \in {"cleanup", "addFinalizer", "check"}
           /\ pass'[r].ctx = cache[r]
           /\ OwnerOK(pass'[r].engine, EngineID[r])
           /\ EnginesKept
           /\ UNCHANGED <<api, cache, mutex, nodeCache, cluster, budget>>
           /\ queue' \subseteq Runtime
<1> DEFINE i == EngineID[r]
           e == GetOrCreateEngine(r)
           step == Dispatch(cache[r])
           one == [IdlePass EXCEPT !.pc = step]
           two == [one EXCEPT !.ctx = cache[r]]
           p == [two EXCEPT !.engine = e]
<1>1. /\ pass \in [Runtime -> Pass] /\ engines \in [ID -> Engine] /\ i \in ID
      /\ cache[r] \in Object /\ queue \subseteq Runtime
    BY DEF Structure, TypeOK, ID
<1>2. NewEngine(r) \in Engine /\ OwnerOK(NewEngine(r), i)
    BY <1>1 DEF NewEngine, Engine, Object, OwnerOK
<1>3. e \in Engine /\ OwnerOK(e, i)
    <2>1. CASE engines[i].built
        BY <1>1, <2>1 DEF GetOrCreateEngine, EngineOf, Structure, Owners
    <2>2. CASE ~engines[i].built
        BY <1>2, <2>2 DEF GetOrCreateEngine, EngineOf
    <2> QED BY <2>1, <2>2
<1>4. step \in {"cleanup", "addFinalizer", "check"}
    BY DEF Dispatch
<1>5. step \in Steps
    BY <1>4 DEF Steps, SetupSteps, ShutdownSteps
<1>6. /\ pass' = [pass EXCEPT ![r] = p]
      /\ engines' = [engines EXCEPT ![i] = e]
      /\ queue' = queue \ {r} /\ pass[r].pc = "idle" /\ cache[r].exists
      /\ UNCHANGED <<api, cache, mutex, nodeCache, cluster, budget>>
    BY DEF Reconcile, Take
<1> HIDE DEF e, step
<1>7. one \in Pass /\ one.pc = step
    BY <1>5, InitialValues DEF Pass
<1> HIDE DEF one
<1>8. two \in Pass /\ two.pc = step /\ two.ctx = cache[r]
    BY <1>1, <1>7 DEF Pass
<1> HIDE DEF two
<1>9. p \in Pass /\ p.pc = step /\ p.ctx = cache[r] /\ p.engine = e
    BY <1>3, <1>8 DEF Pass
<1> HIDE DEF p
<1>10. /\ pass' \in [Runtime -> Pass]
       /\ \A s \in Runtime \ {r} : pass'[s] = pass[s]
       /\ pass'[r] = p
    BY <1>1, <1>6, <1>9
<1>11. EnginesKept
    <2>1. engines' \in [ID -> Engine] /\ \A j \in ID \ {i} : engines'[j] = engines[j]
        BY <1>1, <1>3, <1>6
    <2>2. engines'[i] = e
        BY <1>1, <1>6
    <2> QED BY <1>3, <2>1, <2>2 DEF EnginesKept, Structure, Owners
<1> QED BY <1>1, <1>3, <1>4, <1>6, <1>9, <1>10, <1>11 DEF step

\* The finalizer is written, or taken away and the object goes with it.
LEMMA FinalizerFacts ==
    ASSUME Structure, NEW r \in Runtime, Accepted(r, pass[r].ctx.rv),
           AddFinalizer(r) \/ RemoveFinalizer(r)
    PROVE  /\ api' \in [Runtime -> Object]
           /\ \A s \in Runtime \ {r} : api'[s] = api[s]
           /\ api'[r].rv = api[r].rv + 1
           /\ PassEnds(r) /\ pass'[r].pc = "idle"
           /\ queue' \subseteq Runtime
           /\ UNCHANGED <<cache, engines, mutex, nodeCache, cluster, budget>>
           /\ \/ /\ pass[r].pc = "addFinalizer"
                 /\ api'[r].exists = api[r].exists
                 /\ api'[r].deleting = api[r].deleting
                 /\ api'[r].finalizer
                 /\ api'[r].workerPhase = api[r].workerPhase
              \/ /\ pass[r].pc = "finalize"
                 /\ ~api'[r].exists /\ ~api'[r].deleting /\ ~api'[r].finalizer
                 /\ api'[r].workerPhase = "None"
<1>1. /\ pass \in [Runtime -> Pass] /\ queue \subseteq Runtime
      /\ api \in [Runtime -> Object] /\ api[r] \in Object
    BY DEF Structure, TypeOK
<1>2. CASE AddFinalizer(r)
    <2> DEFINE o == [api[r] EXCEPT !.finalizer = TRUE]
    <2>1. /\ o \in Object /\ o.exists = api[r].exists /\ o.deleting = api[r].deleting
          /\ o.finalizer /\ o.workerPhase = api[r].workerPhase
        BY <1>1 DEF Object
    <2>2. /\ Write(r, o) /\ pass[r].pc = "addFinalizer" /\ Requeue(r)
          /\ UNCHANGED <<cache, engines, mutex, nodeCache, cluster, budget>>
        BY <1>2 DEF AddFinalizer
    <2> HIDE DEF o
    <2>3. /\ api' \in [Runtime -> Object]
          /\ \A s \in Runtime \ {r} : api'[s] = api[s]
          /\ api'[r] = [o EXCEPT !.rv = api[r].rv + 1]
          /\ api'[r].rv = api[r].rv + 1
        BY <1>1, <2>1, <2>2, WriteFacts
    <2>4. /\ api'[r].exists = o.exists /\ api'[r].deleting = o.deleting
          /\ api'[r].finalizer = o.finalizer /\ api'[r].workerPhase = o.workerPhase
        BY <2>1, <2>3 DEF Object
    <2>5. PassEnds(r) /\ pass'[r].pc = "idle" /\ queue' \subseteq Runtime
        BY <1>1, <2>2, RequeueFacts, StepFacts DEF PassEnds
    <2> QED BY <2>1, <2>2, <2>3, <2>4, <2>5
<1>3. CASE RemoveFinalizer(r)
    <2>1. /\ Write(r, NoObject) /\ pass[r].pc = "finalize" /\ Return(r)
          /\ UNCHANGED <<cache, queue, engines, mutex, nodeCache, cluster, budget>>
        BY <1>3 DEF RemoveFinalizer
    <2>2. /\ api' \in [Runtime -> Object]
          /\ \A s \in Runtime \ {r} : api'[s] = api[s]
          /\ api'[r] = [NoObject EXCEPT !.rv = api[r].rv + 1]
          /\ api'[r].rv = api[r].rv + 1
        BY <1>1, <2>1, WriteFacts, InitialValues
    <2>3. /\ ~api'[r].exists /\ ~api'[r].deleting /\ ~api'[r].finalizer
          /\ api'[r].workerPhase = "None"
        BY <2>2 DEF NoObject
    <2>4. PassEnds(r) /\ pass'[r].pc = "idle"
        BY <1>1, <2>1, ReturnFacts, StepFacts DEF PassEnds
    <2> QED BY <1>1, <2>1, <2>2, <2>3, <2>4
<1> QED BY <1>2, <1>3

\* Steps that leave the passes and the objects alone: of the queue,
LEMMA QueueAside ==
    ASSUME Structure, NEW r \in Runtime,
           ReconcileNotFound(r) \/ FailBuild(r) \/ MasterUp(r)
    PROVE  Aside
<1>1. UNCHANGED <<api, cache, pass, engines, mutex, nodes, nodeCache, ready, release, workers>>
    BY DEF ReconcileNotFound, FailBuild, MasterUp, cluster
<1>2. BudgetShrinks
    <2>1. UNCHANGED budget \/ Spend("failures")
        BY DEF ReconcileNotFound, FailBuild, MasterUp
    <2> QED BY <2>1, BudgetStays, SpendFacts DEF Structure, TypeOK
<1>3. queue' \subseteq Runtime /\ master' \subseteq Runtime
    BY DEF ReconcileNotFound, FailBuild, MasterUp, cluster, Structure, TypeOK
<1> QED BY <1>1, <1>2, <1>3 DEF Aside, RestTyped, Structure, TypeOK

\* and of the nodes.
LEMMA NodeAside ==
    ASSUME Structure, NEW n \in Node, DeliverNode(n) \/ Kubelet(n) \/ NodeDown(n)
    PROVE  Aside
<1>1. UNCHANGED <<api, cache, queue, pass, engines, mutex, nodes, release, master>>
    BY DEF DeliverNode, Kubelet, NodeUp, NodeDown, WorkerUp, cluster
<1>2. BudgetShrinks
    <2>1. UNCHANGED budget \/ Spend("outages")
        BY DEF DeliverNode, Kubelet, NodeUp, NodeDown, WorkerUp
    <2> QED BY <2>1, BudgetStays, SpendFacts DEF Structure, TypeOK
<1>3. ready' \subseteq Node
    BY DEF DeliverNode, Kubelet, NodeUp, NodeDown, WorkerUp, cluster, Structure, TypeOK
<1>4. nodeCache' \in [Node -> [ID -> Label]]
    BY DEF DeliverNode, Kubelet, NodeUp, NodeDown, WorkerUp, Structure, TypeOK
<1>5. workers' \in [Runtime -> SUBSET Node]
    <2>1. workers \in [Runtime -> SUBSET Node]
        BY DEF Structure, TypeOK
    <2>2. \/ UNCHANGED workers
          \/ workers' = [r \in Runtime |-> workers[r] \ {n}]
          \/ \E r \in Runtime : workers' = [workers EXCEPT ![r] = @ \cup {n}]
        BY DEF DeliverNode, Kubelet, NodeUp, NodeDown, WorkerUp, cluster
    <2> QED BY <2>1, <2>2
<1> QED BY <1>1, <1>2, <1>3, <1>4, <1>5 DEF Aside, RestTyped, Structure, TypeOK

\* Every step is of one of these kinds.
LEMMA NextCases ==
    ASSUME Structure, Next
    PROVE  \/ Aside \/ Crash
           \/ \E r \in Runtime :
                 \/ Works(r) \/ User(r) \/ Deliver(r) \/ Reconcile(r)
                 \/ /\ Accepted(r, pass[r].ctx.rv)
                    /\ AddFinalizer(r) \/ RemoveFinalizer(r)
<1>1. ASSUME NEW r \in Runtime, Start(r)
      PROVE  Reconcile(r) \/ Aside
    BY <1>1, QueueAside DEF Start
<1>2. ASSUME NEW r \in Runtime, AddFinalizer(r) \/ RemoveFinalizer(r)
      PROVE  Works(r) \/ Accepted(r, pass[r].ctx.rv)
    <2>1. SUFFICES ASSUME ~Accepted(r, pass[r].ctx.rv)
                   PROVE  Works(r)
        OBVIOUS
    <2>2. \/ AddFinalizer(r) /\ UNCHANGED api
          \/ RemoveFinalizer(r) /\ UNCHANGED api /\ Requeue(r) /\ RemoveEngine(r)
        BY <1>2, <2>1 DEF AddFinalizer, RemoveFinalizer
    <2> QED BY <2>2, FailWorks
<1>3. ASSUME NEW r \in Runtime, Work(r)
      PROVE  Works(r) \/ AddFinalizer(r) \/ RemoveFinalizer(r)
    BY <1>3, SetupWorks, MasterWorks, UnlockWorks, ScheduleWorks, ShutdownWorks, CleanupWorks
       DEF Work, Setup, Shutdown
<1>4. ASSUME NEW r \in Runtime, Fault(r)
      PROVE  Works(r) \/ Aside
    BY <1>4, QueueAside, MasterWorks, UnlockWorks, ScheduleWorks, ShutdownWorks, FailWorks
       DEF Fault
<1> QED BY <1>1, <1>2, <1>3, <1>4, QueueAside, NodeAside, ScheduleWorks, ShutdownWorks DEF Next

-----------------------------------------------------------------------------
(* Types, the mutex and the owners of engines. *)

LEMMA InitStructure == ASSUME Init PROVE Structure
<1>1. TypeOK
    <2>1. budget \in Budget
        BY RuntimesAssumption DEF Init, Budget
    <2> QED BY <2>1, InitialValues DEF Init, TypeOK
<1>2. Owners
    BY DEF Init, Owners, NoEngine, IdlePass
<1>3. SchedulerExclusive
    BY RuntimesAssumption DEF Init, SchedulerExclusive, IdlePass, LockedSteps
<1> QED BY <1>1, <1>2, <1>3 DEF Structure

\* The passes, the engines and the mutex are as they were.
LEMMA StructureFrame ==
    ASSUME Structure, api' \in [Runtime -> Object], cache' \in [Runtime -> Object],
           RestTyped, UNCHANGED <<pass, engines, mutex>>
    PROVE  Structure'
<1>1. TypeOK'
    BY DEF RestTyped, BudgetShrinks, Structure, TypeOK
<1>2. Owners' /\ SchedulerExclusive'
    BY DEF Structure, Owners, OwnerOK, SchedulerExclusive
<1> QED BY <1>1, <1>2 DEF Structure

LEMMA DeliverFacts ==
    ASSUME Structure, NEW r \in Runtime, Deliver(r)
    PROVE  /\ cache' \in [Runtime -> Object]
           /\ \A s \in Runtime \ {r} : cache'[s] = cache[s]
           /\ cache'[r] = api[r]
           /\ queue' \subseteq Runtime
           /\ UNCHANGED <<api, pass, engines, mutex, nodeCache, cluster, budget>>
BY DEF Deliver, Structure, TypeOK

LEMMA CrashFacts ==
    ASSUME Structure, Crash
    PROVE  /\ pass' \in [Runtime -> Pass]
           /\ \A s \in Runtime : pass'[s].pc = "idle"
           /\ EnginesKept /\ mutex' = Nobody
           /\ queue' \subseteq Runtime /\ BudgetShrinks
           /\ cache' = api /\ nodeCache' = nodes
           /\ UNCHANGED <<api, nodes, ready, release, master, workers>>
<1>1. BudgetShrinks
    BY SpendFacts DEF Crash, Structure, TypeOK
<1>2. EnginesKept
    BY InitialValues DEF Crash, EnginesKept, NoEngine
<1>3. pass' \in [Runtime -> Pass] /\ \A s \in Runtime : pass'[s].pc = "idle"
    BY InitialValues, StepFacts DEF Crash
<1> QED BY <1>1, <1>2, <1>3 DEF Crash, cluster

\* Every step keeps the structure.
LEMMA NextStructure ==
    ASSUME Structure, [Next]_vars
    PROVE  Structure'
<1>1. CASE UNCHANGED vars
    BY <1>1 DEF vars, Structure, TypeOK, Owners, OwnerOK, SchedulerExclusive
<1>2. CASE Aside
    <2>1. api' \in [Runtime -> Object] /\ cache' \in [Runtime -> Object]
        BY <1>2 DEF Aside, Structure, TypeOK
    <2> QED BY <1>2, <2>1, StructureFrame DEF Aside
<1>3. CASE Crash
    <2>1. TypeOK'
        BY <1>3, CrashFacts DEF EnginesKept, BudgetShrinks, Structure, TypeOK
    <2>2. Owners'
        BY <1>3, CrashFacts DEF EnginesKept, Owners, OwnerOK
    <2>3. SchedulerExclusive'
        BY <1>3, CrashFacts, RuntimesAssumption DEF SchedulerExclusive, LockedSteps
    <2> QED BY <2>1, <2>2, <2>3 DEF Structure
<1>4. ASSUME NEW r \in Runtime, User(r)
      PROVE  Structure'
    <2>1. RestTyped /\ api' \in [Runtime -> Object] /\ cache' \in [Runtime -> Object]
        BY <1>4, UserFacts DEF RestTyped, Structure, TypeOK, cluster
    <2> QED BY <1>4, <2>1, UserFacts, StructureFrame
<1>5. ASSUME NEW r \in Runtime, Deliver(r)
      PROVE  Structure'
    <2>1. RestTyped /\ api' \in [Runtime -> Object]
        BY <1>5, DeliverFacts, BudgetStays DEF RestTyped, Structure, TypeOK, cluster
    <2> QED BY <1>5, <2>1, DeliverFacts, StructureFrame
<1>6. ASSUME NEW r \in Runtime, Reconcile(r)
      PROVE  Structure'
    <2>1. TypeOK'
        BY <1>6, ReconcileFacts DEF EnginesKept, Structure, TypeOK, cluster
    <2>2. Owners'
        BY <1>6, ReconcileFacts DEF EnginesKept, Structure, Owners, OwnerOK
    <2>3. SchedulerExclusive'
        BY <1>6, ReconcileFacts DEF Structure, SchedulerExclusive, LockedSteps
    <2> QED BY <2>1, <2>2, <2>3 DEF Structure
<1>7. ASSUME NEW r \in Runtime, Accepted(r, pass[r].ctx.rv),
             AddFinalizer(r) \/ RemoveFinalizer(r)
      PROVE  Structure'
    <2>1. TypeOK'
        BY <1>7, FinalizerFacts DEF PassEnds, Structure, TypeOK, cluster
    <2>2. Owners'
        BY <1>7, FinalizerFacts DEF PassEnds, Structure, Owners, OwnerOK
    <2>3. SchedulerExclusive'
        <3>1. pass[r].pc \notin LockedSteps
            BY <1>7 DEF AddFinalizer, RemoveFinalizer, LockedSteps
        <3> QED BY <1>7, <3>1, FinalizerFacts DEF PassEnds, Structure, SchedulerExclusive, LockedSteps
    <2> QED BY <2>1, <2>2, <2>3 DEF Structure
<1> QED BY <1>1, <1>2, <1>3, <1>4, <1>5, <1>6, <1>7, NextCases, WorksStructure

\* Whatever the ids are and whatever goes wrong: engines are kept under the id
\* of the runtime they work for, and the mutex is held exactly by the pass that
\* is between its Lock and its Unlock.
THEOREM StructureInvariant == Spec => []Structure
<1>1. Init => Structure
    BY InitStructure
<1>2. Structure /\ [Next]_vars => Structure'
    BY NextStructure
<1> QED BY <1>1, <1>2, PTL DEF Spec

\* Every variable has its type.
THEOREM RuntimesTypeCorrect == Spec => []TypeOK
<1>1. Structure => TypeOK
    BY DEF Structure
<1> QED BY <1>1, StructureInvariant, PTL

\* One pass at a time chooses and labels nodes, and every way out of
\* AssignDatasetToNodes unlocks SchedulerMutex.
THEOREM SchedulerMutualExclusion == Spec => []SchedulerExclusive
<1>1. Structure => SchedulerExclusive
    BY DEF Structure
<1> QED BY <1>1, StructureInvariant, PTL

-----------------------------------------------------------------------------
(* Releases, and the objects they belong to.  From here on no two runtimes *)
(* have the same id.                                                       *)

LEMMA InitCoherence == ASSUME Init PROVE Coherence
<1>1. /\ \A r \in Runtime : /\ api[r] = NoObject /\ cache[r] = NoObject
                            /\ pass[r].pc = "idle" /\ release[r] = "none"
      /\ ~NoObject.exists /\ ~NoObject.finalizer /\ ~NoObject.deleting
      /\ NoObject.rv = 0
    BY DEF Init, NoObject, IdlePass
<1>2. Shape
    BY <1>1 DEF Shape, ObjectOK, ContextOK, SetupSteps, ShutdownSteps
<1>3. Versions
    BY <1>1 DEF Versions, CopyOf
<1>4. Protection
    BY <1>1 DEF Protection, Protected, SetupSteps, ShutdownSteps
<1>5. ReleaseProtected /\ Uninstalled
    BY <1>1 DEF ReleaseProtected, Uninstalled
<1> QED BY <1>2, <1>3, <1>4, <1>5, InitStructure DEF Coherence

\* The versions of objects and copies are numbers.
LEMMA VersionTypes ==
    ASSUME Structure
    PROVE  \A r \in Runtime : api[r].rv \in Nat /\ cache[r].rv \in Nat /\ pass[r].ctx.rv \in Nat
BY DEF Structure, TypeOK, Object, Pass

\* An update based on the newest version is based on the object as it is, and
\* the cache has it.
LEMMA AcceptedIsCurrent ==
    ASSUME Coherence, NEW r \in Runtime, pass[r].pc # "idle", Accepted(r, pass[r].ctx.rv)
    PROVE  cache[r] = api[r] /\ pass[r].ctx = api[r]
<1>1. CopyOf(cache[r], api[r]) /\ CopyOf(pass[r].ctx, cache[r]) /\ api[r].rv = pass[r].ctx.rv
    BY DEF Coherence, Versions, Accepted
<1>2. api[r].rv \in Nat /\ cache[r].rv \in Nat
    BY VersionTypes DEF Coherence
<1> QED BY <1>1, <1>2 DEF CopyOf

\* A step of a pass.
LEMMA WorksCoherence ==
    ASSUME Coherence, DistinctIDs, NEW r \in Runtime, Works(r)
    PROVE  Coherence'
<1>1. Structure /\ Structure'
    BY WorksStructure DEF Coherence
<1>2. /\ \A s \in Runtime \ {r} : pass'[s] = pass[s]
      /\ \/ pass'[r].pc = "idle"
         \/ /\ pass[r].pc # "idle" /\ pass'[r].ctx = pass[r].ctx
            /\ \/ pass[r].pc \in SetupSteps /\ pass'[r].pc \in SetupSteps
               \/ pass[r].pc \in ShutdownSteps /\ pass'[r].pc \in ShutdownSteps
    BY StepFacts DEF Works, Moves, PassGoes, PassEnds
<1>3. /\ ApiKeeps /\ UNCHANGED cache
    BY DEF Works
<1>4. Shape'
    <2>1. \A s \in Runtime : ObjectOK(api'[s]) /\ ObjectOK(cache'[s])
        BY <1>3 DEF ApiKeeps, ObjectOK, Coherence, Shape
    <2>2. \A s \in Runtime : ContextOK(pass'[s])
        BY <1>2 DEF Coherence, Shape, ContextOK, ObjectOK, SetupSteps, ShutdownSteps
    <2> QED BY <2>1, <2>2 DEF Shape, ContextOK, ObjectOK
<1>5. Versions'
    <2>1. SUFFICES ASSUME NEW s \in Runtime
                   PROVE  /\ CopyOf(cache'[s], api'[s])
                          /\ pass'[s].pc # "idle" => CopyOf(pass'[s].ctx, cache'[s])
        BY DEF Versions, CopyOf
    <2>2. CopyOf(cache'[s], api'[s])
        <3>1. CopyOf(cache[s], api[s])
            BY DEF Coherence, Versions
        <3>2. api'[s].rv \in Nat /\ api[s].rv \in Nat /\ cache[s].rv \in Nat
            BY <1>1, VersionTypes DEF Structure, TypeOK, Object
        <3>3. api'[s] = api[s] \/ api'[s].rv > api[s].rv
            BY <1>3 DEF ApiKeeps
        <3> QED BY <1>3, <3>1, <3>2, <3>3 DEF CopyOf
    <2>3. pass'[s].pc # "idle" => CopyOf(pass'[s].ctx, cache'[s])
        BY <1>2, <1>3 DEF Coherence, Versions
    <2> QED BY <2>2, <2>3
<1>6. Protection'
    <2>1. SUFFICES ASSUME NEW s \in Runtime
                   PROVE  /\ cache'[s].finalizer /\ ~cache'[s].deleting =>
                                api'[s].exists /\ api'[s].finalizer
                          /\ pass'[s].pc \in SetupSteps => api'[s].exists /\ api'[s].finalizer
                          /\ cache'[s].deleting /\ api'[s].finalizer => api'[s].deleting
                          /\ pass'[s].pc \in ShutdownSteps /\ api'[s].finalizer => api'[s].deleting
        BY DEF Protection, Protected
    <2>2. /\ pass'[s].pc \in SetupSteps => pass[s].pc \in SetupSteps
          /\ pass'[s].pc \in ShutdownSteps => pass[s].pc \in ShutdownSteps
        BY <1>2, StepFacts
    <2> QED BY <1>3, <2>2 DEF ApiKeeps, Coherence, Protection, Protected
<1>7. ReleaseProtected' /\ Uninstalled'
    <2>1. CASE /\ release' = release
               /\ pass'[r].pc \in {"cleanAll", "finalize"} =>
                     pass[r].pc \in {"cleanAll", "finalize"}
        BY <1>2, <1>3, <2>1 DEF ApiKeeps, Coherence, ReleaseProtected, Uninstalled
    <2>2. CASE /\ pass[r].pc = "setupMaster"
               /\ \A s \in Runtime \ {Owner(r)} : release'[s] = release[s]
        <3>1. Owner(r) = r
            BY <1>1, <2>2, OwnEngine
        <3>2. api[r].exists /\ api[r].finalizer
            BY <2>2 DEF Coherence, Protection, Protected, SetupSteps
        <3>3. pass'[r].pc \notin {"cleanAll", "finalize"}
            BY <1>2, <2>2 DEF SetupSteps, ShutdownSteps
        <3> QED BY <1>2, <1>3, <2>2, <3>1, <3>2, <3>3
                DEF ApiKeeps, Coherence, ReleaseProtected, Uninstalled
    <2>3. CASE /\ pass[r].pc = "destroyMaster"
               /\ \A s \in Runtime \ {Owner(r)} : release'[s] = release[s]
               /\ release'[Owner(r)] = "none"
        <3>1. Owner(r) = r
            BY <1>1, <2>3, OwnEngine
        <3> QED BY <1>2, <1>3, <2>3, <3>1
                DEF ApiKeeps, Coherence, ReleaseProtected, Uninstalled
    <2> QED BY <2>1, <2>2, <2>3 DEF Works, ReleaseMoves
<1> QED BY <1>1, <1>4, <1>5, <1>6, <1>7 DEF Coherence

\* The user creates, deletes or edits an object.
LEMMA UserCoherence ==
    ASSUME Coherence, NEW r \in Runtime, User(r), Structure'
    PROVE  Coherence'
<1>1. /\ Structure /\ UNCHANGED <<cache, pass, release>>
      /\ \A s \in Runtime \ {r} : api'[s] = api[s]
      /\ api'[r].rv = api[r].rv + 1
    BY UserFacts DEF Coherence, cluster
<1>2. /\ ObjectOK(api[r]) /\ ObjectOK(cache[r]) /\ ContextOK(pass[r])
      /\ cache[r].finalizer /\ ~cache[r].deleting => Protected(r)
      /\ pass[r].pc \in SetupSteps => Protected(r)
      /\ cache[r].deleting /\ api[r].finalizer => api[r].deleting
      /\ pass[r].pc \in ShutdownSteps /\ api[r].finalizer => api[r].deleting
      /\ release[r] # "none" => Protected(r)
    BY DEF Coherence, Shape, Protection, ReleaseProtected, Protected
<1>3. /\ ObjectOK(api'[r])
      /\ Protected(r) => api'[r].exists /\ api'[r].finalizer
      /\ api'[r].finalizer => api[r].finalizer
      /\ api'[r].finalizer /\ api[r].deleting => api'[r].deleting
    BY <1>1, <1>2, UserFacts DEF ObjectOK, Protected
<1>4. Shape'
    BY <1>1, <1>3 DEF Coherence, Shape, ObjectOK, ContextOK
<1>5. Versions'
    <2>1. CopyOf(cache[r], api'[r])
        <3>1. CopyOf(cache[r], api[r]) /\ api[r].rv \in Nat /\ cache[r].rv \in Nat
            BY <1>1, VersionTypes DEF Coherence, Versions
        <3> QED BY <1>1, <3>1 DEF CopyOf
    <2> QED BY <1>1, <2>1 DEF Coherence, Versions, CopyOf
<1>6. Protection'
    BY <1>1, <1>2, <1>3 DEF Coherence, Protection, Protected
<1>7. ReleaseProtected' /\ Uninstalled'
    BY <1>1, <1>2, <1>3 DEF Coherence, ReleaseProtected, Uninstalled, Protected
<1> QED BY <1>4, <1>5, <1>6, <1>7 DEF Coherence

\* The cache catches up.
LEMMA DeliverCoherence ==
    ASSUME Coherence, NEW r \in Runtime, Deliver(r), Structure'
    PROVE  Coherence'
<1>1. /\ Structure /\ UNCHANGED <<api, pass, release>>
      /\ \A s \in Runtime \ {r} : cache'[s] = cache[s]
      /\ cache'[r] = api[r]
    BY DeliverFacts DEF Coherence, cluster
<1>2. Shape'
    BY <1>1 DEF Coherence, Shape, ObjectOK, ContextOK
<1>3. Versions'
    <2>1. CopyOf(cache'[r], api[r])
        BY <1>1, VersionTypes DEF CopyOf
    <2>2. pass[r].pc # "idle" => CopyOf(pass[r].ctx, cache'[r])
        <3>1. SUFFICES ASSUME pass[r].pc # "idle"
                       PROVE  CopyOf(pass[r].ctx, api[r])
            BY <1>1
        <3>2. /\ CopyOf(cache[r], api[r]) /\ CopyOf(pass[r].ctx, cache[r])
              /\ api[r].rv \in Nat /\ cache[r].rv \in Nat /\ pass[r].ctx.rv \in Nat
            BY <1>1, <3>1, VersionTypes DEF Coherence, Versions
        <3> QED BY <3>2 DEF CopyOf
    <2> QED BY <1>1, <2>1, <2>2 DEF Coherence, Versions, CopyOf
<1>4. Protection'
    BY <1>1 DEF Coherence, Protection, Protected, Shape, ObjectOK
<1>5. ReleaseProtected' /\ Uninstalled'
    BY <1>1 DEF Coherence, ReleaseProtected, Uninstalled
<1> QED BY <1>2, <1>3, <1>4, <1>5 DEF Coherence

\* A pass begins with the copy in the cache.
LEMMA ReconcileCoherence ==
    ASSUME Coherence, NEW r \in Runtime, Reconcile(r), Structure'
    PROVE  Coherence'
<1>1. /\ Structure /\ UNCHANGED <<api, cache, release>>
      /\ \A s \in Runtime \ {r} : pass'[s] = pass[s]
      /\ pass'[r].ctx = cache[r] /\ cache[r].exists
      /\ pass'[r].pc = Dispatch(cache[r])
    BY ReconcileFacts DEF Coherence, cluster
<1>2. \/ pass'[r].pc = "cleanup" /\ cache[r].deleting
      \/ pass'[r].pc = "addFinalizer" /\ ~cache[r].deleting
      \/ pass'[r].pc = "check" /\ ~cache[r].deleting /\ cache[r].finalizer
    BY <1>1 DEF Dispatch
<1>3. /\ pass'[r].pc \in SetupSteps => ~cache[r].deleting /\ cache[r].finalizer
      /\ pass'[r].pc \in ShutdownSteps => cache[r].deleting
      /\ pass'[r].pc = "addFinalizer" => ~cache[r].deleting
      /\ pass'[r].pc \notin {"cleanAll", "finalize"}
    BY <1>2 DEF SetupSteps, ShutdownSteps
<1>4. Shape'
    BY <1>1, <1>3 DEF Coherence, Shape, ObjectOK, ContextOK
<1>5. Versions'
    <2>1. CopyOf(cache[r], cache[r])
        BY <1>1, VersionTypes DEF CopyOf
    <2> QED BY <1>1, <2>1 DEF Coherence, Versions, CopyOf
<1>6. Protection'
    BY <1>1, <1>3 DEF Coherence, Protection, Protected
<1>7. ReleaseProtected' /\ Uninstalled'
    BY <1>1, <1>3 DEF Coherence, ReleaseProtected, Uninstalled
<1> QED BY <1>4, <1>5, <1>6, <1>7 DEF Coherence

\* A finalizer is added or removed: the pass has seen the object as it is.
LEMMA FinalizerCoherence ==
    ASSUME Coherence, NEW r \in Runtime, Accepted(r, pass[r].ctx.rv),
           AddFinalizer(r) \/ RemoveFinalizer(r), Structure'
    PROVE  Coherence'
<1>1. /\ Structure /\ UNCHANGED <<cache, release>>
      /\ \A s \in Runtime \ {r} : api'[s] = api[s] /\ pass'[s] = pass[s]
      /\ api'[r].rv = api[r].rv + 1 /\ pass'[r].pc = "idle"
    BY FinalizerFacts DEF Coherence, PassEnds, cluster
<1>2. pass[r].pc \in {"addFinalizer", "finalize"} /\ api[r].exists
    BY DEF AddFinalizer, RemoveFinalizer, Accepted
<1>3. cache[r] = api[r] /\ pass[r].ctx = api[r]
    BY <1>2, AcceptedIsCurrent
<1>4. ObjectOK(api[r]) /\ ContextOK(pass[r])
    BY DEF Coherence, Shape
<1>5. \/ /\ pass[r].pc = "addFinalizer" /\ ~api[r].deleting
         /\ api'[r].exists /\ ~api'[r].deleting /\ api'[r].finalizer
      \/ /\ pass[r].pc = "finalize" /\ api[r].deleting
         /\ ~api'[r].exists /\ ~api'[r].deleting /\ ~api'[r].finalizer
    BY <1>1, <1>2, <1>3, <1>4, FinalizerFacts DEF ContextOK, ShutdownSteps
<1>6. Shape'
    BY <1>1, <1>5 DEF Coherence, Shape, ObjectOK, ContextOK, SetupSteps, ShutdownSteps
<1>7. Versions'
    <2>1. CopyOf(cache[r], api'[r])
        BY <1>1, <1>3, VersionTypes DEF CopyOf
    <2> QED BY <1>1, <2>1 DEF Coherence, Versions, CopyOf
<1>8. Protection'
    BY <1>1, <1>3, <1>5 DEF Coherence, Protection, Protected, SetupSteps, ShutdownSteps
<1>9. ReleaseProtected' /\ Uninstalled'
    BY <1>1, <1>5 DEF Coherence, ReleaseProtected, Uninstalled
<1> QED BY <1>6, <1>7, <1>8, <1>9 DEF Coherence

\* The controller restarts.
LEMMA CrashCoherence ==
    ASSUME Coherence, Crash, Structure'
    PROVE  Coherence'
<1>1. /\ Structure /\ UNCHANGED <<api, release>> /\ cache' = api
      /\ \A s \in Runtime : pass'[s].pc = "idle"
    BY CrashFacts DEF Coherence
<1>2. Shape'
    BY <1>1 DEF Coherence, Shape, ObjectOK, ContextOK, SetupSteps, ShutdownSteps
<1>3. Versions'
    BY <1>1, VersionTypes DEF Versions, CopyOf
<1>4. Protection'
    BY <1>1 DEF Coherence, Protection, Protected, Shape, ObjectOK, SetupSteps, ShutdownSteps
<1>5. ReleaseProtected' /\ Uninstalled'
    BY <1>1 DEF Coherence, ReleaseProtected, Uninstalled
<1> QED BY <1>2, <1>3, <1>4, <1>5 DEF Coherence

LEMMA NextCoherence ==
    ASSUME Coherence, DistinctIDs, [Next]_vars
    PROVE  Coherence'
<1>1. Structure /\ Structure'
    BY NextStructure DEF Coherence
<1>2. ASSUME UNCHANGED <<api, cache, pass, release>>
      PROVE  Coherence'
    <2>1. Shape' /\ Versions'
        BY <1>2 DEF Coherence, Shape, ObjectOK, ContextOK, Versions, CopyOf
    <2>2. Protection' /\ ReleaseProtected' /\ Uninstalled'
        BY <1>2 DEF Coherence, Protection, Protected, ReleaseProtected, Uninstalled
    <2> QED BY <1>1, <2>1, <2>2 DEF Coherence
<1>3. CASE UNCHANGED vars
    BY <1>2, <1>3 DEF vars
<1>4. CASE Aside
    BY <1>2, <1>4 DEF Aside
<1> QED BY <1>1, <1>3, <1>4, NextCases, WorksCoherence, UserCoherence, DeliverCoherence,
           ReconcileCoherence, FinalizerCoherence, CrashCoherence

\* Coherence is an invariant, for any number of runtimes with ids of their own,
\* however stale the cache is and whatever fails or crashes.
THEOREM CoherenceInvariant == ASSUME DistinctIDs PROVE Spec => []Coherence
<1>1. Init => Coherence
    BY InitCoherence
<1>2. Coherence /\ [Next]_vars => Coherence'
    BY NextCoherence
<1> QED BY <1>1, <1>2, PTL DEF Spec

\* A helm release exists only while its AlluxioRuntime exists and has the
\* finalizer: setupMaster installs nothing for an object that is gone, and
\* RemoveFinalizer comes after destroyMaster.
THEOREM ReleasesAreProtected == ASSUME DistinctIDs PROVE Spec => []ReleaseProtected
<1>1. Coherence => ReleaseProtected
    BY DEF Coherence
<1> QED BY <1>1, CoherenceInvariant, PTL

\* destroyMaster uninstalls the release of the runtime that is being deleted.
LEMMA UninstallsDeleted ==
    ASSUME Coherence, DistinctIDs, [Next]_vars, NEW r \in Runtime,
           release[r] # "none", release'[r] = "none"
    PROVE  api[r].deleting
<1>1. Structure /\ Structure' /\ api[r].finalizer
    BY NextStructure DEF Coherence, ReleaseProtected
<1>2. release'[r] # release[r]
    OBVIOUS
<1>3. \E s \in Runtime : Works(s)
    <2>1. ~UNCHANGED vars /\ ~Aside /\ ~Crash
        BY <1>1, <1>2, CrashFacts DEF vars, Aside
    <2>2. \A s \in Runtime : ~User(s) /\ ~Deliver(s) /\ ~Reconcile(s)
        BY <1>1, <1>2, UserFacts, DeliverFacts, ReconcileFacts DEF cluster
    <2>3. \A s \in Runtime : /\ Accepted(s, pass[s].ctx.rv)
                             /\ AddFinalizer(s) \/ RemoveFinalizer(s)
                             => FALSE
        BY <1>1, <1>2, FinalizerFacts DEF cluster
    <2> QED BY <1>1, <2>1, <2>2, <2>3, NextCases
<1>4. PICK s \in Runtime : Works(s)
    BY <1>3
<1>5. ReleaseMoves(s)
    BY <1>4 DEF Works
<1>6. pass[s].pc \in {"setupMaster", "destroyMaster"}
    BY <1>2, <1>5 DEF ReleaseMoves
<1>7. Owner(s) = s
    BY <1>1, <1>6, OwnEngine
<1>8. r = s /\ pass[r].pc = "destroyMaster"
    BY <1>2, <1>5, <1>6, <1>7 DEF ReleaseMoves
<1> QED BY <1>1, <1>8 DEF Coherence, Protection, ShutdownSteps

\* ReconcileRuntimeDeletion shuts down the runtime that is being deleted and no
\* other.
THEOREM ShutsDownOnlyDeleted == ASSUME DistinctIDs PROVE Spec => OnlyDeletedShutDown
<1>1. Coherence /\ [Next]_vars =>
          [\A r \in Runtime :
              release[r] # "none" /\ release'[r] = "none" => api[r].deleting]_vars
    BY UninstallsDeleted
<1> QED BY <1>1, CoherenceInvariant, PTL DEF Spec, OnlyDeletedShutDown

-----------------------------------------------------------------------------
(* Fresh nodes, if no wait times out. *)

\* The passes, the nodes and their copies are as they were.
Still == UNCHANGED <<pass, nodes, nodeCache>>

\* The pass of r moves outside the part that the mutex protects, or leaves it.
Calm(r) ==
    /\ \A s \in Runtime \ {r} : pass'[s] = pass[s]
    /\ pass[r].pc # "poll"
    /\ pass'[r].pc \notin LockedSteps
    /\ UNCHANGED <<nodes, nodeCache>>

\* Every step of a pass that is not about labels.
LEMMA CalmSteps ==
    ASSUME Structure, Structure', NEW r \in Runtime,
           Start(r) \/ Work(r) \/ Fault(r),
           ~LabelCacheNode(r), ~Poll(r), ~PollTimeout(r)
    PROVE  Still \/ Calm(r)
<1>1. CASE ReconcileNotFound(r) \/ FailBuild(r)
    BY <1>1 DEF ReconcileNotFound, FailBuild, Still, cluster
<1>2. CASE ~(ReconcileNotFound(r) \/ FailBuild(r))
    <2>1. \/ Reconcile(r) \/ AddFinalizer(r) \/ Check(r) \/ SetupMaster(r)
          \/ CheckMasterReady(r) \/ ShouldSetupWorkers(r) \/ Assigned(r) \/ WorkersStatus(r)
          \/ CheckWorkersReady(r) \/ CheckAndUpdateRuntimeStatus(r)
          \/ CleanupCache(r) \/ ForceShutdown(r) \/ DestroyMaster(r) \/ CleanAll(r)
          \/ RemoveFinalizer(r) \/ FailInstall(r) \/ FailStep(r) \/ FailLabel(r)
          \/ FailFinalize(r) \/ FailCleanup(r)
        BY <1>2 DEF Start, Work, Setup, Shutdown, Fault
    <2>2. pass[r].pc # "poll" /\ UNCHANGED <<nodes, nodeCache>>
        BY <2>1 DEF Reconcile, Take, AddFinalizer, Check, SetupMaster, CheckMasterReady,
               ShouldSetupWorkers, Assigned, WorkersStatus, CheckWorkersReady,
               CheckAndUpdateRuntimeStatus, CleanupCache, ForceShutdown, DestroyMaster,
               CleanAll, RemoveFinalizer, FailInstall, FailStep, FailLabel, FailFinalize,
               FailCleanup, cluster
    <2>3. mutex' = Nobody \/ (mutex' = mutex /\ pass[r].pc \notin LockedSteps)
        BY <2>1 DEF Reconcile, Take, AddFinalizer, Check, SetupMaster, CheckMasterReady,
               ShouldSetupWorkers, Assigned, WorkersStatus, CheckWorkersReady,
               CheckAndUpdateRuntimeStatus, CleanupCache, ForceShutdown, DestroyMaster,
               CleanAll, RemoveFinalizer, FailInstall, FailStep, FailLabel, FailFinalize,
               FailCleanup, LockedSteps
    <2>4. pass'[r].pc \notin LockedSteps
        <3>1. mutex' # r
            BY <2>3, RuntimesAssumption DEF Structure, SchedulerExclusive
        <3> QED BY <3>1 DEF Structure, SchedulerExclusive
    <2>5. \A s \in Runtime \ {r} : pass'[s] = pass[s]
        <3>1. Works(r) \/ Reconcile(r) \/ AddFinalizer(r) \/ RemoveFinalizer(r)
            BY <2>1, SetupWorks, MasterWorks, UnlockWorks, ShutdownWorks, CleanupWorks, FailWorks
        <3>2. CASE Works(r)
            BY <3>2 DEF Works, Moves, PassGoes, PassEnds
        <3>3. CASE Reconcile(r)
            BY <3>3, ReconcileFacts
        <3>4. CASE AddFinalizer(r) \/ RemoveFinalizer(r)
            BY <3>4 DEF AddFinalizer, RemoveFinalizer, Requeue, Return, Structure, TypeOK
        <3> QED BY <3>1, <3>2, <3>3, <3>4
    <2> QED BY <2>2, <2>4, <2>5 DEF Calm
<1> QED BY <1>1, <1>2

\* A view of the nodes is fresh when nobody waits.
LEMMA NobodyWaits ==
    ASSUME Structure, FreshNodes, \A r \in Runtime : pass[r].pc # "poll"
    PROVE  nodeCache = nodes
<1>1. \A n \in Node : nodeCache[n] = nodes[n]
    BY DEF FreshNodes, Awaited
<1> QED BY <1>1 DEF Structure, TypeOK

\* The step of every pass but that of the holder of the mutex.
LEMMA OthersUnlocked ==
    ASSUME Structure, NEW r \in Runtime, mutex \in {r, Nobody}
    PROVE  \A s \in Runtime \ {r} : pass[s].pc \notin LockedSteps
BY RuntimesAssumption DEF Structure, SchedulerExclusive

LEMMA CalmFresh ==
    ASSUME FreshNodes, NEW r \in Runtime, Calm(r)
    PROVE  FreshNodes'
<1>1. /\ UNCHANGED <<nodes, nodeCache>>
      /\ \A s \in Runtime : pass'[s] = pass[s] \/ s = r
      /\ pass[r].pc # "poll" /\ pass'[r].pc \notin LockedSteps
    BY DEF Calm
<1>2. LabelsOK(nodes)' /\ LabelsOK(nodeCache)'
    BY <1>1 DEF FreshNodes, LabelsOK
<1>3. \A n \in Node : nodeCache'[n] = nodes'[n] \/ \E s \in Runtime : Awaited(s, n)'
    <2>1. SUFFICES ASSUME NEW n \in Node, nodeCache[n] # nodes[n]
                   PROVE  \E s \in Runtime : Awaited(s, n)'
        BY <1>1
    <2>2. PICK s \in Runtime : Awaited(s, n)
        BY <2>1 DEF FreshNodes
    <2>3. Awaited(s, n)'
        BY <1>1, <2>2 DEF Awaited
    <2> QED BY <2>3
<1>4. \A s \in Runtime :
          /\ pass'[s].pc \in LockedSteps =>
                \A n \in pass'[s].todo : nodes'[n][EngineID[s]] = NoLabel
          /\ pass'[s].pc = "poll" => pass'[s].node \in Node \ pass'[s].todo
    BY <1>1 DEF FreshNodes, LockedSteps
<1> QED BY <1>2, <1>3, <1>4 DEF FreshNodes

LEMMA StillFresh ==
    ASSUME FreshNodes, Still
    PROVE  FreshNodes'
BY DEF FreshNodes, LabelsOK, Awaited, Still

\* The nodes to be labelled have no label: the cache is fresh.
LEMMA AssignFresh ==
    ASSUME Structure, FreshNodes,
           NEW r \in Runtime, AssignDatasetToNodes(r)
    PROVE  FreshNodes'
<1>1. mutex = Nobody /\ UNCHANGED <<nodes, nodeCache>>
    BY DEF AssignDatasetToNodes, LockScheduler, cluster
<1>2. \A s \in Runtime : pass[s].pc \notin LockedSteps
    BY <1>1, RuntimesAssumption DEF Structure, SchedulerExclusive
<1>3. nodeCache = nodes
    BY <1>2, NobodyWaits DEF LockedSteps
<1>4. /\ \A s \in Runtime \ {r} : pass'[s] = pass[s]
      /\ pass'[r].pc = "label" /\ pass'[r].todo \subseteq Node
      /\ \A n \in pass'[r].todo : nodeCache[n][EngineID[r]].value = "absent"
    BY AssignFacts DEF PassGoes, Pass, AlreadyAssigned
<1>5. \A n \in pass'[r].todo : nodes'[n][EngineID[r]] = NoLabel
    BY <1>1, <1>3, <1>4 DEF FreshNodes, LabelsOK, ID
<1>6. LabelsOK(nodes)' /\ LabelsOK(nodeCache)'
    BY <1>1 DEF FreshNodes, LabelsOK
<1> QED BY <1>1, <1>2, <1>3, <1>4, <1>5, <1>6 DEF FreshNodes, LockedSteps

\* The label that is written is the one that is waited for.
LEMMA LabelFresh ==
    ASSUME Structure, FreshNodes,
           NEW r \in Runtime, LabelCacheNode(r)
    PROVE  FreshNodes'
<1>1. pass[r].pc = "label" /\ UNCHANGED nodeCache
    BY DEF LabelCacheNode
<1>2. mutex = r
    BY <1>1 DEF Structure, SchedulerExclusive, LockedSteps
<1>3. \A s \in Runtime \ {r} : pass[s].pc \notin LockedSteps
    BY <1>2, OthersUnlocked
<1>4. nodeCache = nodes
    BY <1>1, <1>3, NobodyWaits DEF LockedSteps
<1>5. PICK n \in Node :
          /\ PassGoes(r, "poll") /\ pass'[r].node = n /\ n \in pass[r].todo
          /\ pass'[r].todo = pass[r].todo \ {n}
          /\ nodes' = [nodes EXCEPT ![n][EngineID[r]] = NewLabel(pass[r].engine.quota)]
    BY LabelFacts
<1>6. /\ \A m \in Node \ {n} : nodes'[m] = nodes[m]
      /\ \A j \in ID \ {EngineID[r]} : nodes'[n][j] = nodes[n][j]
      /\ nodes'[n][EngineID[r]].value = "ok"
    <2>1. nodes' = [nodes EXCEPT ![n][EngineID[r]] = NewLabel(pass[r].engine.quota)]
        BY <1>5
    <2> QED BY <2>1, LabelWritten, Zenon
<1>7. \A m \in pass[r].todo : nodes[m][EngineID[r]] = NoLabel
    BY <1>1 DEF FreshNodes, LockedSteps
<1>8. LabelsOK(nodes)' /\ LabelsOK(nodeCache)'
    BY <1>1, <1>6 DEF FreshNodes, LabelsOK
<1>9. Awaited(r, n)'
    BY <1>1, <1>4, <1>5, <1>7 DEF Awaited, PassGoes
<1>10. \A m \in Node : nodeCache'[m] = nodes'[m] \/ \E s \in Runtime : Awaited(s, m)'
    BY <1>1, <1>4, <1>6, <1>9
<1>11. /\ \A s \in Runtime \ {r} : pass'[s] = pass[s]
       /\ pass'[r].pc = "poll" /\ pass[r].todo \subseteq Node
    BY <1>5 DEF PassGoes, Structure, TypeOK, Pass
<1>12. \A m \in pass'[r].todo : nodes'[m][EngineID[r]] = NoLabel
    BY <1>5, <1>6, <1>7, <1>11
<1>13. pass'[r].node \in Node \ pass'[r].todo
    BY <1>5
<1> QED BY <1>3, <1>8, <1>10, <1>11, <1>12, <1>13 DEF FreshNodes, LockedSteps

\* The wait ends when the cache has the label.
LEMMA PollFresh ==
    ASSUME Structure, FreshNodes, NEW r \in Runtime, Poll(r)
    PROVE  FreshNodes'
<1>1. pass[r].pc = "poll" /\ CaughtUp(r) /\ NextNode(r) /\ UNCHANGED <<nodes, nodeCache>>
    BY DEF Poll, cluster
<1>2. mutex = r
    BY <1>1 DEF Structure, SchedulerExclusive, LockedSteps
<1>3. \A s \in Runtime \ {r} : pass[s].pc \notin LockedSteps
    BY <1>2, OthersUnlocked
<1>4. \A n \in Node, s \in Runtime : ~Awaited(s, n)
    BY <1>1, <1>3 DEF Awaited, CaughtUp, LockedSteps
<1>5. \A n \in Node : nodeCache[n] = nodes[n]
    BY <1>4 DEF FreshNodes
<1>6. /\ \A s \in Runtime \ {r} : pass'[s] = pass[s]
      /\ pass'[r].pc = "label" /\ pass'[r].todo = pass[r].todo
    BY <1>1, NextNodeFacts DEF PassGoes
<1>7. \A n \in pass'[r].todo : nodes'[n][EngineID[r]] = NoLabel
    BY <1>1, <1>6 DEF FreshNodes, LockedSteps
<1>8. LabelsOK(nodes)' /\ LabelsOK(nodeCache)'
    BY <1>1 DEF FreshNodes, LabelsOK
<1> QED BY <1>1, <1>3, <1>5, <1>6, <1>7, <1>8 DEF FreshNodes, LockedSteps

\* destroyWorkers finds no node labelled "true".
LEMMA DestroyFresh ==
    ASSUME Structure, FreshNodes,
           NEW r \in Runtime, DestroyWorkers(r)
    PROVE  FreshNodes'
<1>1. LabelledTrue(nodeCache, EngineID[r]) = {}
    BY DEF LabelledTrue, FreshNodes, LabelsOK, ID, NoLabel
<1>2. nodes' = nodes
    BY <1>1 DEF DestroyWorkers, Structure, TypeOK
<1>3. /\ pass[r].pc = "destroyWorkers" /\ UNCHANGED nodeCache
      /\ Goto(r, "destroyMaster")
    BY DEF DestroyWorkers
<1>4. PassGoes(r, "destroyMaster")
    BY <1>3, GotoFacts DEF Structure, TypeOK, Steps, ShutdownSteps
<1>5. Calm(r)
    BY <1>2, <1>3, <1>4 DEF Calm, PassGoes, LockedSteps
<1> QED BY <1>5, CalmFresh

\* The cache catches up with a node.
LEMMA DeliverNodeFresh ==
    ASSUME Structure, FreshNodes, NEW n \in Node, DeliverNode(n)
    PROVE  FreshNodes'
<1>1. /\ \A m \in Node \ {n} : nodeCache'[m] = nodeCache[m]
      /\ nodeCache'[n] = nodes[n]
      /\ UNCHANGED <<pass, nodes>>
    BY DEF DeliverNode, Structure, TypeOK, cluster
<1>2. LabelsOK(nodes)' /\ LabelsOK(nodeCache)'
    BY <1>1 DEF FreshNodes, LabelsOK
<1>3. \A m \in Node : nodeCache'[m] = nodes'[m] \/ \E r \in Runtime : Awaited(r, m)'
    BY <1>1 DEF FreshNodes, Awaited
<1> QED BY <1>1, <1>2, <1>3 DEF FreshNodes

LEMMA CrashFresh ==
    ASSUME Structure, FreshNodes, Crash
    PROVE  FreshNodes'
<1>1. /\ \A s \in Runtime : pass'[s].pc = "idle"
      /\ nodeCache' = nodes /\ UNCHANGED nodes
    BY CrashFacts
<1>2. LabelsOK(nodes)' /\ LabelsOK(nodeCache)'
    BY <1>1 DEF FreshNodes, LabelsOK
<1> QED BY <1>1, <1>2 DEF FreshNodes, LockedSteps

\* No step gives a timeout back.
LEMMA TimeoutsShrink ==
    ASSUME Structure, [Next]_vars
    PROVE  budget'.timeouts <= budget.timeouts
<1>1. budget \in Budget /\ budget.timeouts \in Nat
    BY DEF Structure, TypeOK, Budget
<1>2. BudgetShrinks => budget'.timeouts <= budget.timeouts
    BY DEF BudgetShrinks
<1>3. UNCHANGED budget => budget'.timeouts <= budget.timeouts
    BY <1>1
<1>4. CASE Crash \/ UNCHANGED vars
    BY <1>2, <1>3, <1>4, CrashFacts DEF vars
<1>5. ASSUME NEW r \in Runtime, User(r) \/ Deliver(r) \/ MasterUp(r)
      PROVE  budget'.timeouts <= budget.timeouts
    BY <1>2, <1>3, <1>5, UserFacts DEF Deliver, MasterUp
<1>6. ASSUME NEW r \in Runtime, Start(r) \/ Work(r) \/ Fault(r)
      PROVE  budget'.timeouts <= budget.timeouts
    <2>1. \/ UNCHANGED budget
          \/ Spend("failures") \/ Spend("installFailures") \/ Spend("timeouts") \/ Works(r)
        BY <1>6, SetupWorks, MasterWorks, ScheduleWorks
           DEF Start, Reconcile, ReconcileNotFound, Work, AddFinalizer, Setup, Assigned,
               Shutdown, CleanupCache, ForceShutdown, DestroyMaster, CleanAll,
               RemoveFinalizer, Fault, PollTimeout, FailBuild, FailInstall, FailStep,
               FailLabel, FailFinalize, FailCleanup
    <2> QED BY <1>1, <1>2, <1>3, <2>1, SpendFacts DEF Works, RestTyped
<1>7. ASSUME NEW r \in Runtime, AssignDatasetToNodes(r) \/ DestroyWorkers(r)
      PROVE  budget'.timeouts <= budget.timeouts
    BY <1>3, <1>7 DEF AssignDatasetToNodes, DestroyWorkers
<1>8. ASSUME NEW n \in Node, DeliverNode(n) \/ Kubelet(n) \/ NodeDown(n)
      PROVE  budget'.timeouts <= budget.timeouts
    BY <1>2, <1>8, NodeAside DEF Aside, RestTyped
<1> QED BY <1>4, <1>5, <1>6, <1>7, <1>8 DEF Next

\* Every step but a wait that ends early.
LEMMA NextFresh ==
    ASSUME Structure, FreshNodes, [Next]_vars, budget'.timeouts = budget.timeouts
    PROVE  FreshNodes'
<1>1. Structure'
    BY NextStructure
<1>2. budget \in Budget
    BY DEF Structure, TypeOK
<1>3. CASE UNCHANGED vars
    BY <1>3, StillFresh DEF vars, Still
<1>4. CASE Crash
    BY <1>4, CrashFresh
<1>5. ASSUME NEW r \in Runtime, User(r) \/ Deliver(r) \/ MasterUp(r)
      PROVE  FreshNodes'
    <2>1. Still
        BY <1>5, UserFacts DEF User, Deliver, MasterUp, Still, cluster
    <2> QED BY <2>1, StillFresh
<1>6. ASSUME NEW r \in Runtime, Start(r) \/ Work(r) \/ Fault(r)
      PROVE  FreshNodes'
    <2>1. ~PollTimeout(r)
        BY <1>2 DEF PollTimeout, Spend, Budget
    <2>2. CASE LabelCacheNode(r)
        BY <2>2, LabelFresh
    <2>3. CASE Poll(r)
        BY <2>3, PollFresh
    <2>4. CASE ~LabelCacheNode(r) /\ ~Poll(r)
        BY <1>1, <1>6, <2>1, <2>4, CalmSteps, CalmFresh, StillFresh
    <2> QED BY <2>2, <2>3, <2>4
<1>7. ASSUME NEW r \in Runtime, AssignDatasetToNodes(r)
      PROVE  FreshNodes'
    BY <1>7, AssignFresh
<1>8. ASSUME NEW r \in Runtime, DestroyWorkers(r)
      PROVE  FreshNodes'
    BY <1>8, DestroyFresh
<1>9. ASSUME NEW n \in Node, DeliverNode(n)
      PROVE  FreshNodes'
    BY <1>9, DeliverNodeFresh
<1>10. ASSUME NEW n \in Node, Kubelet(n) \/ NodeDown(n)
       PROVE  FreshNodes'
    <2>1. Still
        BY <1>10 DEF Kubelet, NodeUp, WorkerUp, NodeDown, Still
    <2> QED BY <2>1, StillFresh
<1> QED BY <1>3, <1>4, <1>5, <1>6, <1>7, <1>8, <1>9, <1>10 DEF Next

LEMMA InitFresh ==
    ASSUME Init
    PROVE  FreshUntilTimeout
<1>1. /\ budget.timeouts = MaxTimeouts /\ MaxTimeouts \in Nat
      /\ nodeCache = nodes /\ \A r \in Runtime : pass[r].pc = "idle"
    BY RuntimesAssumption DEF Init, IdlePass
<1>2. LabelsOK(nodes) /\ LabelsOK(nodeCache)
    BY DEF Init, LabelsOK
<1> QED BY <1>1, <1>2 DEF FreshUntilTimeout, FreshNodes, LockedSteps

LEMMA NextFreshUntilTimeout ==
    ASSUME Structure, FreshUntilTimeout, [Next]_vars
    PROVE  FreshUntilTimeout'
<1>1. budget'.timeouts <= budget.timeouts /\ budget.timeouts \in Nat /\ budget'.timeouts \in Nat
    BY TimeoutsShrink, NextStructure DEF Structure, TypeOK, Budget
<1>2. budget.timeouts <= MaxTimeouts /\ MaxTimeouts \in Nat
    BY RuntimesAssumption DEF FreshUntilTimeout
<1>3. ASSUME budget'.timeouts = MaxTimeouts
      PROVE  FreshNodes'
    <2>1. budget'.timeouts = budget.timeouts /\ budget.timeouts = MaxTimeouts
        BY <1>1, <1>2, <1>3
    <2> QED BY <2>1, NextFresh DEF FreshUntilTimeout
<1> QED BY <1>1, <1>2, <1>3 DEF FreshUntilTimeout

\* As long as no wait for a label has timed out, every pass that takes
\* SchedulerMutex chooses nodes with an up-to-date view of their labels,
\* whatever fails or crashes, however many runtimes label nodes and shut down,
\* and whatever the ids are: the time limit of the wait in LabelCacheNode is
\* the only way to a stale choice.
THEOREM StaleNeedsTimeout == Spec => []StaleOnlyAfterTimeout
<1>1. Init => FreshUntilTimeout
    BY InitFresh
<1>2. Structure /\ FreshUntilTimeout /\ [Next]_vars => FreshUntilTimeout'
    BY NextFreshUntilTimeout
<1>3. Structure /\ FreshUntilTimeout => StaleOnlyAfterTimeout
    <2>1. SUFFICES ASSUME Structure, FreshNodes, mutex = Nobody
                   PROVE  nodeCache = nodes
        BY DEF StaleOnlyAfterTimeout, SchedulesOnFreshNodes, FreshUntilTimeout
    <2>2. \A r \in Runtime : pass[r].pc # "poll"
        BY <2>1, RuntimesAssumption DEF Structure, SchedulerExclusive, LockedSteps
    <2> QED BY <2>1, <2>2, NobodyWaits
<1> QED BY <1>1, <1>2, <1>3, StructureInvariant, PTL DEF Spec

=============================================================================
