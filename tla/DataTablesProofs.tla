-------------------------- MODULE DataTablesProofs --------------------------
(***************************************************************************)
(* Theorems about the DataTable controller, for any number of objects,     *)
(* units, workers, failures and crashes.                                   *)
(***************************************************************************)
EXTENDS DataTablesInvariants, TLAPS

-----------------------------------------------------------------------------
(* What the building blocks of the actions do. *)

LEMMA StepNames ==
    /\ CachingSteps \cup LockedSteps \cup DeletingSteps \cup UnitSteps
          \cup RestoreSteps \subseteq Steps
    /\ "idle" \in Steps
    /\ "addFinalizer" \in Steps
    /\ "idle" \notin CachingSteps \cup DeletingSteps \cup UnitSteps
    /\ CachingSteps \cap DeletingSteps = {}
    /\ "panic" \notin LockedSteps
  BY DEF Steps, CachingSteps, LockedSteps, DeletingSteps, UnitSteps, RestoreSteps,
         TableSteps, PartitionSteps, LabelSteps

LEMMA NoObjectType == NoObject \in Object /\ ObjectOK(NoObject)
  BY DEF Object, NoObject, NoLabels, LabelValue, ObjectOK

LEMMA IdlePassType == IdlePass \in Pass /\ PassOK(IdlePass)
  BY NoObjectType, StepNames DEF Pass, IdlePass, PassOK, RestoreSteps

LEMMA WriteFacts ==
    ASSUME api \in [DataTable -> Object], NEW d \in DataTable,
           NEW o \in Object, Write(d, o)
    PROVE  /\ api' \in [DataTable -> Object]
           /\ api'[d] = [o EXCEPT !.rv = api[d].rv + 1]
           /\ api'[d].rv = api[d].rv + 1
           /\ \A e \in DataTable \ {d} : api'[e] = api[e]
<1> DEFINE n == [o EXCEPT !.rv = api[d].rv + 1]
<1>1. api[d].rv + 1 \in Nat
  BY DEF Object
<1>2. n \in Object /\ n.rv = api[d].rv + 1
  BY <1>1 DEF Object
<1>3. api' = [api EXCEPT ![d] = n]
  BY DEF Write
<1> HIDE DEF n
<1>4. /\ api' \in [DataTable -> Object]
      /\ api'[d] = n
      /\ \A e \in DataTable \ {d} : api'[e] = api[e]
  BY <1>2, <1>3
<1> QED
  BY <1>2, <1>4 DEF n

LEMMA SpendFacts ==
    ASSUME budget \in Budget,
           NEW what \in {"creations", "edits", "failures", "crashes", "runtimeChanges"},
           Spend(what)
    PROVE  budget' \in Budget
  BY DEF Spend, Budget

\* Only the pass of d changes.
PassFrame(d) ==
    /\ pass' \in [DataTable -> Pass]
    /\ \A e \in DataTable \ {d} : pass'[e] = pass[e]

LEMMA PassSet ==
    ASSUME pass \in [DataTable -> Pass], NEW d \in DataTable, NEW q \in Pass,
           pass' = [pass EXCEPT ![d] = q]
    PROVE  PassFrame(d) /\ pass'[d] = q
  BY DEF PassFrame

LEMMA GotoFacts ==
    ASSUME pass \in [DataTable -> Pass], NEW d \in DataTable,
           NEW step \in Steps, Goto(d, step)
    PROVE  /\ PassFrame(d)
           /\ pass'[d] = [pass[d] EXCEPT !.pc = step]
  BY DEF Goto, Pass, PassFrame

LEMMA ReturnFacts ==
    ASSUME pass \in [DataTable -> Pass], NEW d \in DataTable, Return(d)
    PROVE  PassFrame(d) /\ pass'[d] = IdlePass
  BY IdlePassType DEF Return, PassFrame

-----------------------------------------------------------------------------
(* Steps that change no object and no cached copy. *)

\* The pass of d moves on, or ends; the mutex follows the locked region.
Local(d) ==
    /\ UNCHANGED <<api, cache>>
    /\ PassFrame(d)
    /\ PassOK(pass'[d])
    /\ pass'[d].pc # "idle" => pass[d].pc # "idle" /\ pass'[d].ctx = pass[d].ctx
    /\ pass'[d].pc \in CachingSteps => pass[d].pc \in CachingSteps
    /\ pass'[d].pc \in LockedSteps \cup {"panic"} <=> mutex' = d
    /\ \A e \in DataTable \ {d} : mutex' = e <=> mutex = e

LEMMA LocalCoherent ==
    ASSUME Coherence, NEW d \in DataTable, Local(d)
    PROVE  Shape' /\ Versions' /\ RecoverExclusive' /\ Protection'
<1> USE DEF Local, PassFrame
<1>1. Shape'
  BY DEF Coherence, Shape
<1>2. \A e \in DataTable : View(e)' = View(e)
  BY DEF View
<1>3. Versions'
  BY <1>2 DEF Coherence, Versions
<1>4. RecoverExclusive'
  BY DEF Coherence, RecoverExclusive
<1>5. Protection'
  BY <1>2 DEF Coherence, Protection, Protected
<1> QED BY <1>1, <1>3, <1>4, <1>5

LEMMA LocalGoto ==
    ASSUME Coherence, NEW d \in DataTable, NEW step \in Steps,
           Goto(d, step), UNCHANGED <<api, cache, mutex>>,
           \/ pass[d].pc \in UnitSteps /\ step \in CachingSteps
           \/ pass[d].pc \in RestoreSteps /\ step \in RestoreSteps
           \/ pass[d].pc \in LockedSteps /\ step \in {"clearGet", "panic"}
    PROVE  Local(d)
<1> DEFINE p == pass[d]
<1>1. p \in Pass /\ PassOK(p) /\ (p.pc \in LockedSteps \cup {"panic"} <=> mutex = d)
  BY DEF Coherence, TypeOK, Shape, RecoverExclusive
<1>2. PassFrame(d) /\ pass'[d] = [p EXCEPT !.pc = step]
  BY GotoFacts DEF Coherence, TypeOK
<1>3. /\ pass'[d].pc = step /\ pass'[d].ctx = p.ctx
      /\ pass'[d].i = p.i /\ pass'[d].unit = p.unit
  BY <1>1, <1>2 DEF Pass
<1>4. /\ p.pc # "idle"
      /\ step \in CachingSteps => step \notin DeletingSteps \cup LockedSteps \cup RestoreSteps
      /\ step \in UnitSteps => p.pc \in UnitSteps
      /\ step \in RestoreSteps => p.pc \in RestoreSteps
      /\ step \in DeletingSteps => p.pc \in DeletingSteps
      /\ step \in CachingSteps => p.pc \in CachingSteps
      /\ step \in LockedSteps \cup {"panic"} <=> p.pc \in LockedSteps \cup {"panic"}
  BY DEF Steps, CachingSteps, LockedSteps, DeletingSteps, UnitSteps, RestoreSteps,
         TableSteps, PartitionSteps, LabelSteps
<1>5. PassOK(pass'[d])
  BY <1>1, <1>3, <1>4 DEF PassOK
<1> QED
  BY <1>1, <1>2, <1>3, <1>4, <1>5 DEF Local

LEMMA LocalReturn ==
    ASSUME Coherence, NEW d \in DataTable, Return(d), UNCHANGED <<api, cache>>,
           \/ pass[d].pc \notin LockedSteps \cup {"panic"} /\ UNCHANGED mutex
           \/ pass[d].pc \in LockedSteps /\ mutex' = Nobody
    PROVE  Local(d)
<1>1. PassFrame(d) /\ pass'[d] = IdlePass /\ PassOK(pass'[d])
  BY ReturnFacts, IdlePassType DEF Coherence, TypeOK
<1>2. pass'[d].pc = "idle"
  BY <1>1 DEF IdlePass
<1>3. "idle" \notin CachingSteps \cup LockedSteps \cup {"panic"}
  BY StepNames DEF DeletingSteps
<1>4. mutex' # d /\ \A e \in DataTable \ {d} : mutex' = e <=> mutex = e
  BY ConstantsAssumption DEF Coherence, RecoverExclusive
<1> QED
  BY <1>1, <1>2, <1>3, <1>4 DEF Local

LEMMA LocalAdvance ==
    ASSUME Coherence, NEW d \in DataTable, Advance(d),
           UNCHANGED <<api, cache, mutex>>, pass[d].pc \in UnitSteps
    PROVE  Local(d)
<1> DEFINE p == pass[d]
           next == p.i + 1
<1>1. /\ p \in Pass /\ PassOK(p)
      /\ (p.pc \in LockedSteps \cup {"panic"} <=> mutex = d)
      /\ pass \in [DataTable -> Pass]
  BY DEF Coherence, TypeOK, Shape, RecoverExclusive
<1>2. p.pc \notin LockedSteps \cup {"panic"} /\ p.pc \in CachingSteps /\ p.pc # "idle"
  BY StepNames DEF UnitSteps, CachingSteps, DeletingSteps
<1>3. CASE next <= Len(p.ctx.spec)
                /\ pass' = [pass EXCEPT ![d].pc = FirstStep(p.ctx.spec[next]), ![d].i = next]
  <2>1. FirstStep(p.ctx.spec[next]) \in {"ls", "palter"}
    BY DEF FirstStep
  <2>2. FirstStep(p.ctx.spec[next]) \in UnitSteps \ (DeletingSteps \cup RestoreSteps \cup LockedSteps \cup {"panic"})
    BY <2>1 DEF UnitSteps, DeletingSteps, LockedSteps, RestoreSteps, TableSteps, PartitionSteps
  <2>3. p.i \in 1..Len(p.ctx.spec) /\ p.ctx.spec \in Seq(Unit)
    BY <1>1 DEF PassOK, Pass, Object
  <2>4. next \in 1..Len(p.ctx.spec) /\ next \in Nat
    BY <1>3, <2>3, SMTT(60)
  <2>5. PassFrame(d) /\ pass'[d] = [p EXCEPT !.pc = FirstStep(p.ctx.spec[next]), !.i = next]
    BY <1>1, <1>3, <2>2, <2>4, StepNames DEF Pass, PassFrame
  <2>6. pass'[d].pc = FirstStep(p.ctx.spec[next]) /\ pass'[d].ctx = p.ctx /\ pass'[d].i = next
    BY <1>1, <2>5 DEF Pass
  <2>7. PassOK(pass'[d])
    BY <1>1, <1>2, <2>2, <2>4, <2>6 DEF PassOK
  <2> QED
    BY <1>1, <1>2, <2>2, <2>5, <2>6, <2>7 DEF Local
<1>4. CASE Goto(d, "labelGet")
  BY <1>4, LocalGoto DEF CachingSteps, LabelSteps, Steps
<1>5. CASE Return(d)
  BY <1>2, <1>5, LocalReturn
<1> QED
  BY <1>3, <1>4, <1>5 DEF Advance

\* Types of the variables a local step may change besides the pass.
OthersOK ==
    /\ queue \subseteq DataTable
    /\ mutex \in DataTable \cup {Nobody}
    /\ location \in [Unit -> {"hdfs", "alluxio"}]
    /\ mounted \subseteq Unit
    /\ kv \subseteq Unit
    /\ runtime \in BOOLEAN
    /\ budget \in Budget

LEMMA LocalStep ==
    ASSUME Coherence, NEW d \in DataTable, Local(d), OthersOK'
    PROVE  Coherence'
<1>1. TypeOK'
  BY DEF Coherence, TypeOK, OthersOK, Local, PassFrame
<1> QED
  BY <1>1, LocalCoherent DEF Coherence

LEMMA CurrentIsUnit ==
    ASSUME Coherence, NEW d \in DataTable, pass[d].pc \in UnitSteps
    PROVE  Current(d) \in Unit
<1>1. pass[d].ctx.spec \in Seq(Unit) /\ pass[d].i \in 1..Len(pass[d].ctx.spec)
  BY DEF Coherence, TypeOK, Pass, Object, Shape, PassOK
<1> QED
  BY <1>1 DEF Current

-----------------------------------------------------------------------------
(* Steps that write an object. *)

\* As Local(d), but the object of d is written.
Writing(d, o) ==
    /\ Write(d, o)
    /\ UNCHANGED cache
    /\ PassFrame(d)
    /\ PassOK(pass'[d])
    /\ pass'[d].pc # "idle" => pass[d].pc # "idle" /\ pass'[d].ctx = pass[d].ctx
    /\ pass'[d].pc \in CachingSteps => pass[d].pc \in CachingSteps
    /\ pass'[d].pc \in LockedSteps \cup {"panic"} <=> mutex' = d
    /\ \A e \in DataTable \ {d} : mutex' = e <=> mutex = e

LEMMA WriteStep ==
    ASSUME Coherence, NEW d \in DataTable, NEW o \in Object, ObjectOK(o),
           Writing(d, o), OthersOK',
           \/ o.finalizer
           \/ ~Protected(d)
           \/ pass'[d].pc \notin CachingSteps /\ cache[d].deleting
    PROVE  Coherence'
<1>1. /\ api' \in [DataTable -> Object]
      /\ api'[d] = [o EXCEPT !.rv = api[d].rv + 1]
      /\ api'[d].rv = api[d].rv + 1
      /\ \A e \in DataTable \ {d} : api'[e] = api[e]
  BY WriteFacts DEF Writing, Coherence, TypeOK
<1>2. /\ api'[d].exists = o.exists /\ api'[d].finalizer = o.finalizer
      /\ api'[d].deleting = o.deleting /\ api'[d].status = o.status
      /\ api'[d].spec = o.spec /\ api'[d].labels = o.labels
  BY <1>1 DEF Object
<1>3. TypeOK'
  BY <1>1 DEF Coherence, TypeOK, OthersOK, Writing, PassFrame
<1>4. ObjectOK(api'[d])
  BY <1>2 DEF ObjectOK
<1>5. Shape'
  BY <1>1, <1>4 DEF Coherence, Shape, Writing, PassFrame
<1>6. RecoverExclusive'
  BY DEF Coherence, RecoverExclusive, Writing, PassFrame
<1>7. /\ api[d].rv \in Nat /\ cache[d].rv \in Nat /\ pass[d].ctx.rv \in Nat
      /\ CopyOf(cache[d], api[d])
      /\ pass[d].pc # "idle" => CopyOf(pass[d].ctx, View(d))
  BY DEF Coherence, TypeOK, Versions, Object, Pass
<1>8. CopyOf(cache'[d], api'[d])
  BY <1>1, <1>7 DEF Writing, CopyOf
<1>9. pass'[d].pc # "idle" => CopyOf(pass'[d].ctx, View(d)')
  <2> SUFFICES ASSUME pass'[d].pc # "idle" PROVE CopyOf(pass'[d].ctx, View(d)')
    OBVIOUS
  <2>1. pass'[d].ctx = pass[d].ctx /\ CopyOf(pass[d].ctx, View(d))
    BY <1>7 DEF Writing
  <2> QED BY <2>1 DEF View, Writing
<1>10. \A e \in DataTable \ {d} : View(e)' = View(e)
  BY <1>1 DEF View, Writing
<1>11. Versions'
  <2> SUFFICES ASSUME NEW e \in DataTable
               PROVE  /\ CopyOf(cache'[e], api'[e])
                      /\ pass'[e].pc # "idle" => CopyOf(pass'[e].ctx, View(e)')
    BY DEF Versions
  <2>1. CASE e = d
    BY <1>8, <1>9, <2>1
  <2>2. CASE e # d
    BY <1>1, <1>10, <2>2 DEF Coherence, Versions, Writing, PassFrame
  <2> QED BY <2>1, <2>2
<1>12. /\ View(d)'.finalizer /\ ~View(d)'.deleting => Protected(d)'
       /\ pass'[d].pc \in CachingSteps => Protected(d)'
  <2>1. CASE o.finalizer
    BY <1>2, <2>1 DEF ObjectOK, Protected
  <2>2. CASE ~o.finalizer
    <3>1. pass'[d].pc \notin CachingSteps
      BY <2>2 DEF Writing, Coherence, Protection
    <3>2. View(d)' = cache[d] /\ View(d) = cache[d]
      BY DEF View, Writing
    <3> QED
      BY <2>2, <3>1, <3>2 DEF Writing, Coherence, Protection
  <2> QED BY <2>1, <2>2
<1>13. Protection'
  <2> SUFFICES ASSUME NEW e \in DataTable
               PROVE  /\ View(e)'.finalizer /\ ~View(e)'.deleting => Protected(e)'
                      /\ pass'[e].pc \in CachingSteps => Protected(e)'
    BY DEF Protection
  <2>1. CASE e = d
    BY <1>12, <2>1
  <2>2. CASE e # d
    <3>1. View(e)' = View(e) /\ api'[e] = api[e] /\ pass'[e] = pass[e]
      BY <1>1, <1>10, <2>2 DEF Writing, PassFrame
    <3> QED
      BY <3>1 DEF Coherence, Protection, Protected
  <2> QED BY <2>1, <2>2
<1> QED
  BY <1>3, <1>5, <1>6, <1>11, <1>13 DEF Coherence

-----------------------------------------------------------------------------
(* The actions, one group after the other. *)

LEMMA UserCoherent ==
    ASSUME Coherence, NEW d \in DataTable, User(d)
    PROVE  Coherence'
<1> USE DEF cluster
<1>1. api[d] \in Object /\ ObjectOK(api[d])
  BY DEF Coherence, TypeOK, Shape
<1>2. ASSUME UNCHANGED <<cache, pass, mutex>>, NEW o \in Object, Write(d, o)
      PROVE  Writing(d, o)
  BY <1>2 DEF Writing, PassFrame, Coherence, TypeOK, Shape, RecoverExclusive
<1>3. CASE Create(d)
  <2>1. PICK s \in Specs[d] : Write(d, [NoObject EXCEPT !.exists = TRUE, !.spec = s])
    BY <1>3 DEF Create
  <2> DEFINE o == [NoObject EXCEPT !.exists = TRUE, !.spec = s]
  <2>2. s \in Seq(Unit) /\ s # << >>
    BY ConstantsAssumption
  <2>3. Len(s) > 0
    BY <2>2
  <2>4. o \in Object /\ ObjectOK(o)
    <3>1. o \in Object /\ o.exists /\ o.spec = s /\ o.deleting = NoObject.deleting
      BY <2>2, NoObjectType DEF Object
    <3>2. ~NoObject.deleting
      BY DEF NoObject
    <3> QED BY <2>3, <3>1, <3>2 DEF ObjectOK
  <2>5. OthersOK'
    BY <1>3, SpendFacts DEF Create, OthersOK, Coherence, TypeOK
  <2>6. ~Protected(d)
    BY <1>3 DEF Create, Protected
  <2>7. Writing(d, o)
    BY <1>2, <1>3, <2>1, <2>4 DEF Create
  <2> QED
    BY <2>4, <2>5, <2>6, <2>7, WriteStep
<1>4. CASE Delete(d)
  <2> DEFINE o == IF api[d].finalizer THEN [api[d] EXCEPT !.deleting = TRUE] ELSE NoObject
  <2>1. o \in Object /\ ObjectOK(o)
    BY <1>1, <1>4, NoObjectType DEF Delete, Object, ObjectOK
  <2>2. OthersOK'
    BY <1>4 DEF Delete, OthersOK, Coherence, TypeOK
  <2>3. o.finalizer \/ ~Protected(d)
    BY <1>1 DEF Protected, Object
  <2>4. Writing(d, o)
    BY <1>2, <1>4, <2>1 DEF Delete
  <2> QED
    BY <2>1, <2>2, <2>3, <2>4, WriteStep
<1>5. CASE Edit(d)
  <2>1. PICK s \in Specs[d] : Write(d, [api[d] EXCEPT !.spec = s])
    BY <1>5 DEF Edit
  <2> DEFINE o == [api[d] EXCEPT !.spec = s]
  <2>2. s \in Seq(Unit) /\ s # << >>
    BY ConstantsAssumption
  <2>3. Len(s) > 0
    BY <2>2
  <2>4. o \in Object /\ ObjectOK(o)
    BY <1>1, <2>2, <2>3 DEF Object, ObjectOK
  <2>5. OthersOK'
    BY <1>5, SpendFacts DEF Edit, OthersOK, Coherence, TypeOK
  <2>6. o.finalizer \/ ~Protected(d)
    BY <1>1 DEF Protected, Object
  <2>7. Writing(d, o)
    BY <1>2, <1>5, <2>1, <2>4 DEF Edit
  <2> QED
    BY <2>4, <2>5, <2>6, <2>7, WriteStep
<1> QED
  BY <1>3, <1>4, <1>5 DEF User

LEMMA CacheUnitCoherent ==
    ASSUME Coherence, NEW d \in DataTable,
           \/ CacheLs(d) \/ CacheMount(d) \/ CacheSize(d) \/ CacheAddKV(d) \/ CacheAlter(d)
           \/ CachePartitionAlter(d) \/ CachePartitionLs(d) \/ CachePartitionMount(d)
    PROVE  Coherence'
<1> USE DEF cluster
<1>1. pass[d].pc \in UnitSteps /\ UNCHANGED <<api, cache, mutex, runtime, budget>>
  BY DEF CacheLs, CacheMount, CacheSize, CacheAddKV, CacheAlter, CachePartitionAlter,
         CachePartitionLs, CachePartitionMount, UnitSteps, TableSteps, PartitionSteps
<1>2. Current(d) \in Unit
  BY <1>1, CurrentIsUnit
<1>3. OthersOK'
  BY <1>1, <1>2
     DEF CacheLs, CacheMount, CacheSize, CacheAddKV, CacheAlter, CachePartitionAlter,
         CachePartitionLs, CachePartitionMount, Requeue, OthersOK, Coherence, TypeOK
<1>4. pass[d].pc \notin LockedSteps \cup {"panic"}
  BY <1>1, StepNames DEF UnitSteps, CachingSteps, DeletingSteps
<1>5. \/ Advance(d) \/ Return(d)
      \/ \E step \in UnitSteps : Goto(d, step)
  BY DEF CacheLs, CacheMount, CacheSize, CacheAddKV, CacheAlter, CachePartitionAlter,
         CachePartitionLs, CachePartitionMount, Requeue, UnitSteps, TableSteps, PartitionSteps
<1>6. UnitSteps \subseteq Steps \cap CachingSteps
  BY StepNames DEF UnitSteps, CachingSteps
<1>7. Local(d)
  BY <1>1, <1>4, <1>5, <1>6, LocalAdvance, LocalReturn, LocalGoto
<1> QED
  BY <1>3, <1>7, LocalStep

\* Steps between which a pass moves without changing its copy of the object
\* or its claim to the mutex.
LEMMA LocalMove ==
    ASSUME Coherence, NEW d \in DataTable, NEW q \in Pass,
           PassFrame(d), pass'[d] = q, q.ctx = pass[d].ctx,
           UNCHANGED <<api, cache, mutex>>,
           \/ pass[d].pc \in LabelSteps /\ q.pc \in LabelSteps
           \/ /\ pass[d].pc \in LockedSteps
              /\ q.pc \in LockedSteps
              /\ q.pc \in RestoreSteps => q.unit \in Unit
    PROVE  Local(d)
<1>1. /\ PassOK(pass[d])
      /\ (pass[d].pc \in LockedSteps \cup {"panic"} <=> mutex = d)
  BY DEF Coherence, Shape, RecoverExclusive
<1>2. /\ pass[d].pc # "idle"
      /\ q.pc \notin UnitSteps
      /\ q.pc \in DeletingSteps => pass[d].pc \in DeletingSteps
      /\ q.pc \in CachingSteps => pass[d].pc \in CachingSteps
      /\ q.pc \in LockedSteps \cup {"panic"} <=> pass[d].pc \in LockedSteps \cup {"panic"}
      /\ q.pc \in RestoreSteps => q.unit \in Unit
  BY DEF Steps, CachingSteps, LockedSteps, DeletingSteps, UnitSteps, RestoreSteps,
         TableSteps, PartitionSteps, LabelSteps
<1>3. PassOK(q)
  BY <1>1, <1>2 DEF PassOK
<1> QED
  BY <1>1, <1>2, <1>3 DEF Local

LEMMA ViewType ==
    ASSUME Coherence, NEW d \in DataTable
    PROVE  View(d) \in Object /\ ObjectOK(View(d)) /\ View(d).rv \in Nat
<1>1. View(d) \in Object /\ ObjectOK(View(d))
  BY DEF Coherence, TypeOK, Shape, View
<1> QED
  BY <1>1 DEF Object

LEMMA RetryFacts ==
    ASSUME Coherence, NEW d \in DataTable, NEW step \in Steps, Retry(d, step),
           UNCHANGED <<api, cache, mutex>>,
           \/ pass[d].pc \in LabelSteps /\ step \in LabelSteps
           \/ pass[d].pc \in LockedSteps /\ step \in LockedSteps \ RestoreSteps
    PROVE  Local(d)
<1> DEFINE q == [pass[d] EXCEPT !.pc = step, !.tries = pass[d].tries + 1, !.dt = 0]
<1>1. pass \in [DataTable -> Pass] /\ pass[d] \in Pass
  BY DEF Coherence, TypeOK
<1>2. q \in Pass /\ q.pc = step /\ q.ctx = pass[d].ctx
  <2>1. pass[d].tries + 1 \in Nat
    BY <1>1 DEF Pass
  <2> DEFINE n == pass[d].tries + 1
  <2> HIDE DEF n
  <2>2. [pass[d] EXCEPT !.pc = step, !.tries = n, !.dt = 0] \in Pass
    BY <1>1, <2>1 DEF Pass, n
  <2> QED BY <1>1, <2>2 DEF Pass, n
<1>3. pass' = [pass EXCEPT ![d] = q]
  BY <1>1 DEF Retry, Pass
<1> HIDE DEF q
<1>4. PassFrame(d) /\ pass'[d] = q
  BY <1>1, <1>2, <1>3, PassSet
<1> QED
  BY <1>2, <1>4, LocalMove

LEMMA LabelGetCoherent ==
    ASSUME Coherence, NEW d \in DataTable, LabelGet(d)
    PROVE  Coherence'
<1> USE DEF cluster
<1>1. /\ pass[d].pc = "labelGet"
      /\ pass[d].pc \in LabelSteps
      /\ pass[d].pc \notin LockedSteps \cup {"panic"}
      /\ UNCHANGED <<api, cache, mutex>>
  BY DEF LabelGet, LabelSteps, LockedSteps, RestoreSteps
<1>2. OthersOK'
  BY DEF LabelGet, Requeue, OthersOK, Coherence, TypeOK
<1>3. CASE Return(d)
  BY <1>1, <1>2, <1>3, LocalReturn, LocalStep
<1>4. CASE pass' = [pass EXCEPT ![d].pc = "labelUpdate", ![d].dt = View(d).rv]
  <2> DEFINE q == [pass[d] EXCEPT !.pc = "labelUpdate", !.dt = View(d).rv]
  <2>1. pass \in [DataTable -> Pass] /\ pass[d] \in Pass /\ "labelUpdate" \in Steps
    BY DEF Coherence, TypeOK, Steps, CachingSteps, LabelSteps
  <2>2. q \in Pass /\ q.pc = "labelUpdate" /\ q.ctx = pass[d].ctx
    BY <2>1, ViewType DEF Pass
  <2>3. pass' = [pass EXCEPT ![d] = q]
    BY <1>4, <2>1 DEF Pass
  <2> HIDE DEF q
  <2>4. PassFrame(d) /\ pass'[d] = q
    BY <2>1, <2>2, <2>3, PassSet
  <2>5. Local(d)
    BY <1>1, <2>2, <2>4, LocalMove DEF LabelSteps
  <2> QED
    BY <1>2, <2>5, LocalStep
<1> QED
  BY <1>3, <1>4 DEF LabelGet, Requeue

LEMMA NewLabelsType ==
    ASSUME NEW s
    PROVE  NewLabels(s) \in [Unit -> LabelValue]
  BY DEF NewLabels, LabelValue

\* A pass that ends with a write of its object.
LEMMA ReturnWriting ==
    ASSUME Coherence, NEW d \in DataTable, NEW o \in Object, Write(d, o), Return(d),
           UNCHANGED <<cache, mutex>>, pass[d].pc \notin LockedSteps \cup {"panic"}
    PROVE  Writing(d, o) /\ pass'[d].pc \notin CachingSteps
<1>1. PassFrame(d) /\ pass'[d] = IdlePass /\ PassOK(pass'[d])
  BY ReturnFacts, IdlePassType DEF Coherence, TypeOK
<1>2. pass'[d].pc = "idle"
  BY <1>1 DEF IdlePass
<1>3. "idle" \notin CachingSteps \cup LockedSteps \cup {"panic"}
  BY StepNames DEF DeletingSteps
<1>4. mutex' # d /\ \A e \in DataTable \ {d} : mutex' = e <=> mutex = e
  BY DEF Coherence, RecoverExclusive
<1> QED
  BY <1>1, <1>2, <1>3, <1>4 DEF Writing

LEMMA LabelUpdateCoherent ==
    ASSUME Coherence, NEW d \in DataTable, LabelUpdate(d)
    PROVE  Coherence'
<1> USE DEF cluster
<1>1. /\ pass[d].pc = "labelUpdate"
      /\ pass[d].pc \in LabelSteps /\ pass[d].pc \in CachingSteps
      /\ pass[d].pc \notin LockedSteps \cup {"panic"}
      /\ UNCHANGED <<cache, mutex>>
  BY DEF LabelUpdate, LabelSteps, CachingSteps, LockedSteps, RestoreSteps
<1>2. OthersOK'
  BY DEF LabelUpdate, Requeue, OthersOK, Coherence, TypeOK
<1>3. CASE /\ Accepted(d, pass[d].dt)
           /\ Write(d, [api[d] EXCEPT !.status = api[d].spec,
                                      !.labels = NewLabels(pass[d].ctx.spec)])
           /\ Return(d)
  <2> DEFINE o == [api[d] EXCEPT !.status = api[d].spec, !.labels = NewLabels(pass[d].ctx.spec)]
  <2>1. api[d] \in Object /\ ObjectOK(api[d]) /\ Protected(d)
    BY <1>1 DEF Coherence, TypeOK, Shape, Protection
  <2>2. o \in Object
    BY <2>1, NewLabelsType DEF Object
  <2>3. /\ o.exists = api[d].exists /\ o.finalizer = api[d].finalizer
        /\ o.spec = api[d].spec /\ o.deleting = api[d].deleting
    BY <2>1 DEF Object
  <2>4. ObjectOK(o) /\ o.finalizer
    BY <2>1, <2>3 DEF ObjectOK, Protected
  <2> HIDE DEF o
  <2>5. Writing(d, o)
    BY <1>1, <1>3, <2>2, ReturnWriting DEF o
  <2> QED
    BY <1>2, <2>2, <2>4, <2>5, WriteStep
<1>4. CASE Conflict(d, pass[d].dt) /\ Retry(d, "labelGet") /\ UNCHANGED <<api, queue>>
  <2>1. "labelGet" \in Steps /\ "labelGet" \in LabelSteps
    BY DEF Steps, CachingSteps, LabelSteps
  <2>2. Local(d)
    BY <1>1, <1>4, <2>1, RetryFacts
  <2> QED
    BY <1>2, <2>2, LocalStep
<1>5. CASE GiveUp(d) /\ Requeue(d) /\ UNCHANGED api
  BY <1>1, <1>2, <1>5, LocalReturn, LocalStep DEF Requeue
<1> QED
  BY <1>3, <1>4, <1>5 DEF LabelUpdate

LEMMA AddFinalizerCoherent ==
    ASSUME Coherence, NEW d \in DataTable, AddFinalizer(d)
    PROVE  Coherence'
<1> USE DEF cluster
<1>1. /\ pass[d].pc \notin LockedSteps \cup {"panic"}
      /\ UNCHANGED <<cache, mutex>> /\ Return(d)
  BY DEF AddFinalizer, Requeue, LockedSteps, RestoreSteps
<1>2. OthersOK'
  BY DEF AddFinalizer, Requeue, OthersOK, Coherence, TypeOK
<1>3. CASE Accepted(d, pass[d].ctx.rv) /\ Write(d, [api[d] EXCEPT !.finalizer = TRUE])
  <2> DEFINE o == [api[d] EXCEPT !.finalizer = TRUE]
  <2>1. api[d] \in Object /\ ObjectOK(api[d]) /\ api[d].exists
    BY <1>3 DEF Coherence, TypeOK, Shape, Accepted
  <2>2. /\ o \in Object /\ o.finalizer /\ o.exists = api[d].exists
        /\ o.spec = api[d].spec /\ o.deleting = api[d].deleting
    BY <2>1 DEF Object
  <2>3. ObjectOK(o)
    BY <2>1, <2>2 DEF ObjectOK
  <2> HIDE DEF o
  <2>4. Writing(d, o)
    BY <1>1, <1>3, <2>2, ReturnWriting DEF o
  <2> QED
    BY <1>2, <2>2, <2>3, <2>4, WriteStep
<1>4. CASE UNCHANGED api
  BY <1>1, <1>2, <1>4, LocalReturn, LocalStep
<1> QED
  BY <1>3, <1>4 DEF AddFinalizer

LEMMA LockCoherent ==
    ASSUME Coherence, NEW d \in DataTable, Lock(d)
    PROVE  Coherence'
<1> USE DEF cluster
<1> DEFINE left == LabelsToRestore(pass[d].ctx)
           q == [pass[d] EXCEPT !.pc = "list", !.left = left]
<1>1. /\ pass \in [DataTable -> Pass] /\ pass[d] \in Pass /\ PassOK(pass[d])
      /\ "list" \in Steps /\ left \subseteq Unit
  BY DEF Coherence, TypeOK, Shape, Steps, LockedSteps, LabelsToRestore, Labelled
<1>2. pass' = [pass EXCEPT ![d] = q]
  BY <1>1 DEF Lock, Pass
<1> HIDE DEF left
<1>3. q \in Pass /\ q.pc = "list" /\ q.ctx = pass[d].ctx
  BY <1>1 DEF Pass
<1> HIDE DEF q
<1>4. PassFrame(d) /\ pass'[d] = q
  BY <1>1, <1>2, <1>3, PassSet
<1>5. /\ pass[d].pc = "lock" /\ pass[d].pc \in DeletingSteps
      /\ "list" \in LockedSteps /\ "list" \notin UnitSteps \cup RestoreSteps \cup CachingSteps
  BY DEF Lock, CachingSteps, LockedSteps, DeletingSteps, UnitSteps, RestoreSteps,
         TableSteps, PartitionSteps, LabelSteps
<1>6. PassOK(q)
  BY <1>1, <1>3, <1>5 DEF PassOK
<1>7. Local(d)
  BY <1>3, <1>4, <1>5, <1>6, ConstantsAssumption DEF Local, Lock
<1>8. OthersOK'
  BY DEF Lock, OthersOK, Coherence, TypeOK
<1> QED
  BY <1>7, <1>8, LocalStep

LEMMA FirstRestoreStepType ==
    ASSUME NEW u
    PROVE  FirstRestoreStep(u) \in RestoreSteps /\ FirstRestoreStep(u) \in Steps
  BY DEF FirstRestoreStep, RestoreSteps, Steps, LockedSteps

\* The loop goes on to restore u.
LEMMA RestoreNext ==
    ASSUME Coherence, NEW d \in DataTable, NEW u \in pass[d].left,
           pass[d].pc = "list", UNCHANGED <<api, cache, mutex>>,
           pass' = [pass EXCEPT ![d].pc = FirstRestoreStep(u), ![d].unit = u,
                                ![d].left = @ \ {u}]
    PROVE  Local(d)
<1> DEFINE left == pass[d].left \ {u}
           step == FirstRestoreStep(u)
           q == [pass[d] EXCEPT !.pc = step, !.unit = u, !.left = left]
<1>1. pass \in [DataTable -> Pass] /\ pass[d] \in Pass
  BY DEF Coherence, TypeOK
<1>2. u \in Unit /\ left \subseteq Unit /\ step \in RestoreSteps /\ step \in Steps
  BY <1>1, FirstRestoreStepType DEF Pass
<1>3. pass' = [pass EXCEPT ![d] = q]
  BY <1>1 DEF Pass
<1> HIDE DEF left, step
<1>4. q \in Pass /\ q.pc = step /\ q.ctx = pass[d].ctx /\ q.unit = u
  BY <1>1, <1>2 DEF Pass
<1> HIDE DEF q
<1>5. PassFrame(d) /\ pass'[d] = q
  BY <1>1, <1>3, <1>4, PassSet, ZenonT(60)
<1>6. pass[d].pc \in LockedSteps /\ step \in LockedSteps
  BY <1>2, SMTT(60) DEF LockedSteps
<1> QED
  BY <1>2, <1>4, <1>5, <1>6, LocalMove

LEMMA ListHoldersCoherent ==
    ASSUME Coherence, NEW d \in DataTable, ListHolders(d)
    PROVE  Coherence'
<1> USE DEF cluster
<1>1. pass[d].pc = "list" /\ UNCHANGED <<api, cache, mutex>>
  BY DEF ListHolders
<1>2. OthersOK'
  BY DEF ListHolders, OthersOK, Coherence, TypeOK
<1>3. "list" \in LockedSteps /\ "list" \notin RestoreSteps /\ "clearGet" \in Steps
  BY DEF LockedSteps, RestoreSteps, Steps
<1>4. CASE Goto(d, "clearGet")
  BY <1>1, <1>2, <1>3, <1>4, LocalGoto, LocalStep
<1>5. CASE \E u \in pass[d].left : pass' = [pass EXCEPT ![d].left = @ \ {u}]
  <2>1. PICK u \in pass[d].left : pass' = [pass EXCEPT ![d].left = @ \ {u}]
    BY <1>5
  <2> DEFINE left == pass[d].left \ {u}
             q == [pass[d] EXCEPT !.left = left]
  <2>2. pass \in [DataTable -> Pass] /\ pass[d] \in Pass /\ left \subseteq Unit
    BY DEF Coherence, TypeOK, Pass
  <2>3. pass' = [pass EXCEPT ![d] = q]
    BY <2>1, <2>2 DEF Pass
  <2> HIDE DEF left
  <2>4. q \in Pass /\ q.pc = pass[d].pc /\ q.ctx = pass[d].ctx
    BY <2>2 DEF Pass
  <2> HIDE DEF q
  <2>5. PassFrame(d) /\ pass'[d] = q
    BY <2>2, <2>3, <2>4, PassSet
  <2>6. Local(d)
    BY <1>1, <1>3, <2>4, <2>5, LocalMove
  <2> QED
    BY <1>2, <2>6, LocalStep
<1>6. CASE \E u \in pass[d].left :
              pass' = [pass EXCEPT ![d].pc = FirstRestoreStep(u), ![d].unit = u,
                                   ![d].left = @ \ {u}]
  BY <1>1, <1>2, <1>6, RestoreNext, LocalStep
<1> QED
  BY <1>4, <1>5, <1>6, ZenonT(60) DEF ListHolders

LEMMA NextLabelLocal ==
    ASSUME Coherence, NEW d \in DataTable, NextLabel(d),
           UNCHANGED <<api, cache, mutex>>, pass[d].pc \in RestoreSteps
    PROVE  Local(d)
<1> DEFINE q == [pass[d] EXCEPT !.pc = "list", !.unit = Nobody]
<1>1. pass \in [DataTable -> Pass] /\ pass[d] \in Pass /\ "list" \in Steps
  BY DEF Coherence, TypeOK, Steps, LockedSteps
<1>2. q \in Pass /\ q.pc = "list" /\ q.ctx = pass[d].ctx
  BY <1>1 DEF Pass
<1>3. pass' = [pass EXCEPT ![d] = q]
  BY <1>1 DEF NextLabel, Pass
<1> HIDE DEF q
<1>4. PassFrame(d) /\ pass'[d] = q
  BY <1>1, <1>2, <1>3, PassSet
<1>5. pass[d].pc \in LockedSteps /\ "list" \in LockedSteps /\ "list" \notin RestoreSteps
  BY DEF LockedSteps, RestoreSteps
<1> QED
  BY <1>2, <1>4, <1>5, LocalMove

LEMMA RestoreCoherent ==
    ASSUME Coherence, NEW d \in DataTable,
           \/ RestoreUnmount(d) \/ RestoreRemoveKV(d) \/ RestoreAlter(d)
           \/ RestorePartitionAlter(d) \/ RestorePartitionUnmount(d)
    PROVE  Coherence'
<1> USE DEF cluster
<1>1. pass[d].pc \in RestoreSteps /\ UNCHANGED <<api, cache, mutex, queue, runtime, budget>>
  BY DEF RestoreUnmount, RestoreRemoveKV, RestoreAlter, RestorePartitionAlter,
         RestorePartitionUnmount, RestoreSteps
<1>2. OthersOK'
  BY <1>1 DEF RestoreUnmount, RestoreRemoveKV, RestoreAlter, RestorePartitionAlter,
              RestorePartitionUnmount, OthersOK, Coherence, TypeOK
<1>3. NextLabel(d) \/ \E step \in RestoreSteps : Goto(d, step)
  BY DEF RestoreUnmount, RestoreRemoveKV, RestoreAlter, RestorePartitionAlter,
         RestorePartitionUnmount, RestoreSteps
<1>4. RestoreSteps \subseteq Steps
  BY StepNames
<1>5. Local(d)
  BY <1>1, <1>3, <1>4, NextLabelLocal, LocalGoto
<1> QED
  BY <1>2, <1>5, LocalStep

\* The pass leaves the locked region.
LEMMA UnlockFacts ==
    ASSUME Coherence, NEW d \in DataTable, Unlock(d), pass[d].pc \in LockedSteps
    PROVE  /\ PassFrame(d) /\ PassOK(pass'[d])
           /\ pass'[d].pc = "finalize" /\ pass'[d].ctx = pass[d].ctx
           /\ mutex = d /\ mutex' = Nobody /\ mutex' # d
           /\ pass'[d].pc \notin CachingSteps \cup LockedSteps \cup {"panic", "idle"}
           /\ pass[d].pc # "idle"
           /\ \A e \in DataTable \ {d} : mutex' = e <=> mutex = e
<1> DEFINE q == [pass[d] EXCEPT !.pc = "finalize", !.dt = 0, !.tries = 0]
<1>1. /\ pass \in [DataTable -> Pass] /\ pass[d] \in Pass /\ PassOK(pass[d])
      /\ "finalize" \in Steps
  BY DEF Coherence, TypeOK, Shape, Steps
<1>2. q \in Pass /\ q.pc = "finalize" /\ q.ctx = pass[d].ctx
  BY <1>1 DEF Pass
<1>3. pass' = [pass EXCEPT ![d] = q]
  BY <1>1 DEF Unlock, Pass
<1> HIDE DEF q
<1>4. PassFrame(d) /\ pass'[d] = q
  BY <1>1, <1>2, <1>3, PassSet
<1>5. /\ pass[d].pc \in DeletingSteps /\ pass[d].pc # "idle"
      /\ "finalize" \notin UnitSteps \cup RestoreSteps \cup CachingSteps \cup LockedSteps
      /\ "finalize" \notin {"panic", "idle"}
  BY DEF CachingSteps, LockedSteps, DeletingSteps, UnitSteps, RestoreSteps,
         TableSteps, PartitionSteps, LabelSteps
<1>6. PassOK(q)
  BY <1>1, <1>2, <1>5 DEF PassOK
<1>7. mutex = d /\ mutex' = Nobody
  BY DEF Unlock, Coherence, RecoverExclusive
<1> QED
  BY <1>2, <1>4, <1>5, <1>6, <1>7, ConstantsAssumption

LEMMA LocalUnlock ==
    ASSUME Coherence, NEW d \in DataTable, Unlock(d), pass[d].pc \in LockedSteps,
           UNCHANGED <<api, cache>>
    PROVE  Local(d)
  BY UnlockFacts DEF Local

LEMMA ClearGetCoherent ==
    ASSUME Coherence, NEW d \in DataTable, ClearGet(d)
    PROVE  Coherence'
<1> USE DEF cluster
<1>1. /\ pass[d].pc = "clearGet" /\ pass[d].pc \in LockedSteps
      /\ UNCHANGED <<api, cache>>
  BY DEF ClearGet, LockedSteps
<1>2. OthersOK'
  BY DEF ClearGet, Unlock, OthersOK, Coherence, TypeOK
<1>3. CASE Goto(d, "panic") /\ UNCHANGED mutex
  BY <1>1, <1>2, <1>3, LocalGoto, LocalStep DEF Steps
<1>4. CASE Unlock(d)
  BY <1>1, <1>2, <1>4, LocalUnlock, LocalStep
<1>5. CASE /\ pass' = [pass EXCEPT ![d].pc = "clearUpdate", ![d].dt = View(d).rv]
           /\ UNCHANGED mutex
  <2> DEFINE q == [pass[d] EXCEPT !.pc = "clearUpdate", !.dt = View(d).rv]
  <2>1. pass \in [DataTable -> Pass] /\ pass[d] \in Pass /\ "clearUpdate" \in Steps
    BY DEF Coherence, TypeOK, Steps, LockedSteps
  <2>2. q \in Pass /\ q.pc = "clearUpdate" /\ q.ctx = pass[d].ctx
    BY <2>1, ViewType DEF Pass
  <2>3. pass' = [pass EXCEPT ![d] = q]
    BY <1>5, <2>1 DEF Pass
  <2> HIDE DEF q
  <2>4. PassFrame(d) /\ pass'[d] = q
    BY <2>1, <2>2, <2>3, PassSet
  <2>5. "clearUpdate" \in LockedSteps /\ "clearUpdate" \notin RestoreSteps
    BY DEF LockedSteps, RestoreSteps
  <2>6. Local(d)
    BY <1>1, <1>5, <2>2, <2>4, <2>5, LocalMove
  <2> QED
    BY <1>2, <2>6, LocalStep
<1> QED
  BY <1>3, <1>4, <1>5 DEF ClearGet

LEMMA ClearLabelsType ==
    ASSUME NEW o \in Object, NEW keys, ObjectOK(o), o.exists
    PROVE  /\ ClearLabels(o, keys) \in Object
           /\ ObjectOK(ClearLabels(o, keys))
           /\ ClearLabels(o, keys).finalizer = o.finalizer
           /\ ClearLabels(o, keys).exists = o.exists
<1> DEFINE l == [u \in Unit |-> IF u \in keys THEN "false" ELSE o.labels[u]]
<1>1. l \in [Unit -> LabelValue]
  BY DEF Object, LabelValue
<1> HIDE DEF l
<1> DEFINE n == [o EXCEPT !.labels = l]
<1>2. /\ n \in Object /\ n.exists = o.exists /\ n.finalizer = o.finalizer
      /\ n.spec = o.spec /\ n.deleting = o.deleting
  BY <1>1 DEF Object
<1>3. ObjectOK(n)
  BY <1>2 DEF ObjectOK
<1> QED
  BY <1>2, <1>3 DEF ClearLabels, l

LEMMA ClearUpdateCoherent ==
    ASSUME Coherence, NEW d \in DataTable, ClearUpdate(d)
    PROVE  Coherence'
<1> USE DEF cluster
<1>1. /\ pass[d].pc = "clearUpdate" /\ pass[d].pc \in LockedSteps
      /\ UNCHANGED cache
  BY DEF ClearUpdate, LockedSteps
<1>2. OthersOK'
  BY DEF ClearUpdate, Unlock, OthersOK, Coherence, TypeOK
<1>3. CASE /\ Accepted(d, pass[d].dt)
           /\ Write(d, ClearLabels(api[d], Keys(pass[d].ctx)))
           /\ Unlock(d)
  <2> DEFINE o == ClearLabels(api[d], Keys(pass[d].ctx))
  <2>1. o \in Object /\ ObjectOK(o) /\ o.finalizer = api[d].finalizer
    BY <1>3, ClearLabelsType DEF Coherence, TypeOK, Shape, Accepted
  <2>2. o.finalizer \/ ~Protected(d)
    BY <2>1 DEF Protected
  <2> HIDE DEF o
  <2>3. Writing(d, o)
    BY <1>1, <1>3, UnlockFacts DEF Writing, o
  <2> QED
    BY <1>2, <2>1, <2>2, <2>3, WriteStep
<1>4. CASE Conflict(d, pass[d].dt) /\ Retry(d, "clearGet") /\ UNCHANGED <<api, mutex>>
  <2>1. "clearGet" \in Steps /\ "clearGet" \in LockedSteps \ RestoreSteps
    BY DEF Steps, LockedSteps, RestoreSteps
  <2>2. Local(d)
    BY <1>1, <1>4, <2>1, RetryFacts
  <2> QED
    BY <1>2, <2>2, LocalStep
<1>5. CASE GiveUp(d) /\ Unlock(d) /\ UNCHANGED api
  BY <1>1, <1>2, <1>5, LocalUnlock, LocalStep
<1> QED
  BY <1>3, <1>4, <1>5 DEF ClearUpdate

LEMMA RemoveFinalizerCoherent ==
    ASSUME Coherence, NEW d \in DataTable, RemoveFinalizer(d)
    PROVE  Coherence'
<1> USE DEF cluster
<1>1. /\ pass[d].pc = "finalize" /\ pass[d].pc \in DeletingSteps
      /\ pass[d].pc \notin LockedSteps \cup {"panic"}
      /\ UNCHANGED <<cache, mutex>> /\ Return(d)
  BY DEF RemoveFinalizer, Requeue, DeletingSteps, LockedSteps, RestoreSteps
<1>2. OthersOK'
  BY DEF RemoveFinalizer, Requeue, OthersOK, Coherence, TypeOK
<1>3. CASE Accepted(d, pass[d].ctx.rv) /\ Write(d, NoObject)
  <2>1. Writing(d, NoObject) /\ pass'[d].pc \notin CachingSteps
    BY <1>1, <1>3, NoObjectType, ReturnWriting
  <2>2. cache[d].deleting
    <3>1. /\ api[d] \in Object /\ cache[d] \in Object /\ pass[d].ctx \in Object
          /\ CopyOf(cache[d], api[d]) /\ CopyOf(pass[d].ctx, cache[d])
          /\ pass[d].ctx.deleting
      BY <1>1 DEF Coherence, TypeOK, Pass, Versions, View, Shape, PassOK
    <3>2. api[d].rv \in Nat /\ cache[d].rv \in Nat /\ pass[d].ctx.rv = api[d].rv
      BY <1>3, <3>1 DEF Object, Accepted
    <3>3. pass[d].ctx = cache[d]
      BY <3>1, <3>2 DEF CopyOf
    <3> QED BY <3>1, <3>3
  <2> QED
    BY <1>2, <2>1, <2>2, NoObjectType, WriteStep
<1>4. CASE UNCHANGED api
  BY <1>1, <1>2, <1>4, LocalReturn, LocalStep
<1> QED
  BY <1>3, <1>4 DEF RemoveFinalizer

LEMMA DispatchFacts ==
    ASSUME NEW v \in Object, ObjectOK(v), v.exists
    PROVE  /\ Dispatch(v) \in Steps \ (LockedSteps \cup {"panic", "idle"})
           /\ Dispatch(v) \in DeletingSteps => v.deleting
           /\ Dispatch(v) \notin RestoreSteps
           /\ Dispatch(v) \in CachingSteps => v.finalizer /\ ~v.deleting
           /\ 1 \in 1..Len(v.spec)
<1>1. v.deleting \in BOOLEAN /\ v.finalizer \in BOOLEAN /\ v.spec \in Seq(Unit)
  BY DEF Object
<1>2. \/ v.deleting /\ Dispatch(v) = "lock"
      \/ ~v.deleting /\ ~v.finalizer /\ Dispatch(v) = "addFinalizer"
      \/ ~v.deleting /\ v.finalizer /\ Dispatch(v) \in {"ls", "palter"}
  BY <1>1 DEF Dispatch, FirstStep
<1>3. 1 \in 1..Len(v.spec)
  BY <1>1 DEF ObjectOK
<1> QED
  BY <1>2, <1>3 DEF Steps, CachingSteps, LockedSteps, DeletingSteps, UnitSteps,
                    RestoreSteps, TableSteps, PartitionSteps, LabelSteps

LEMMA ReconcileCoherent ==
    ASSUME Coherence, NEW d \in DataTable, Reconcile(d)
    PROVE  Coherence'
<1> USE DEF cluster
<1> DEFINE v == View(d)
           step == Dispatch(v)
           q == [IdlePass EXCEPT !.pc = step, !.ctx = v, !.i = 1]
<1>1. /\ pass \in [DataTable -> Pass] /\ pass[d].pc = "idle" /\ v.exists
      /\ v \in Object /\ ObjectOK(v)
      /\ pass' = [pass EXCEPT ![d] = q] /\ UNCHANGED <<api, cache, mutex>>
  BY ViewType DEF Reconcile, Take, Coherence, TypeOK
<1>2. /\ step \in Steps \ (LockedSteps \cup {"panic", "idle"})
      /\ step \in DeletingSteps => v.deleting
      /\ step \notin RestoreSteps
      /\ step \in CachingSteps => v.finalizer /\ ~v.deleting
      /\ 1 \in 1..Len(v.spec)
  BY <1>1, DispatchFacts
<1> HIDE DEF v, step
<1>3. q \in Pass /\ q.pc = step /\ q.ctx = v /\ q.i = 1
  BY <1>1, <1>2, IdlePassType DEF Pass
<1> HIDE DEF q
<1>4. PassFrame(d) /\ pass'[d] = q
  BY <1>1, <1>3, PassSet
<1>5. PassOK(q)
  BY <1>1, <1>2, <1>3 DEF PassOK
<1>6. TypeOK'
  BY <1>1, <1>4 DEF PassFrame, Reconcile, Coherence, TypeOK
<1>7. Shape'
  BY <1>1, <1>4, <1>5 DEF PassFrame, Coherence, Shape
<1>8. \A e \in DataTable : View(e)' = View(e)
  BY <1>1 DEF View
<1>9. CopyOf(v, v)
  BY <1>1 DEF CopyOf, Object
<1>10. Versions'
  BY <1>1, <1>3, <1>4, <1>8, <1>9 DEF PassFrame, Coherence, Versions, v
<1>11. mutex # d
  BY <1>1, StepNames DEF Coherence, RecoverExclusive, DeletingSteps
<1>12. RecoverExclusive'
  BY <1>1, <1>2, <1>3, <1>4, <1>11 DEF PassFrame, Coherence, RecoverExclusive
<1>13. Protection'
  BY <1>1, <1>2, <1>3, <1>4, <1>8 DEF PassFrame, Coherence, Protection, Protected, v
<1> QED
  BY <1>6, <1>7, <1>10, <1>12, <1>13 DEF Coherence

\* Steps that leave the objects, the copies, the passes and the mutex alone.
LEMMA OtherCoherent ==
    ASSUME Coherence, UNCHANGED <<api, cache, pass, mutex>>, OthersOK'
    PROVE  Coherence'
<1>1. TypeOK'
  BY DEF Coherence, TypeOK, OthersOK
<1>2. \A e \in DataTable : View(e)' = View(e)
  BY DEF View
<1>3. Shape' /\ Versions' /\ RecoverExclusive' /\ Protection'
  BY <1>2 DEF Coherence, Shape, Versions, RecoverExclusive, Protection, Protected
<1> QED
  BY <1>1, <1>3 DEF Coherence

LEMMA StartCoherent ==
    ASSUME Coherence, NEW d \in DataTable, Start(d)
    PROVE  Coherence'
<1> USE DEF cluster
<1>1. CASE Reconcile(d)
  BY <1>1, ReconcileCoherent
<1>2. CASE ReconcileNotFound(d) \/ ReconcileNoRuntime(d)
  <2>1. OthersOK'
    BY <1>2 DEF ReconcileNotFound, ReconcileNoRuntime, vars, OthersOK, Coherence, TypeOK
  <2> QED
    BY <1>2, <2>1, OtherCoherent DEF ReconcileNotFound, ReconcileNoRuntime, vars
<1> QED
  BY <1>1, <1>2 DEF Start

LEMMA FaultCoherent ==
    ASSUME Coherence, NEW d \in DataTable, Fault(d)
    PROVE  Coherence'
<1> USE DEF cluster
<1>1. budget \in Budget
  BY SMTT(60) DEF Coherence, TypeOK
<1>2. UNCHANGED <<api, cache, location, mounted, kv, runtime>> /\ budget' \in Budget
  BY <1>1, SpendFacts
     DEF Fault, FailConnect, NoConnection, FailReturned, FailLocked, FailLs, FailDropped, FailList, FailClear
<1>3. OthersOK'
  BY <1>2 DEF Fault, FailConnect, NoConnection, FailReturned, FailLocked, FailLs, FailDropped, FailList,
              FailClear, Requeue, Unlock, OthersOK, Coherence, TypeOK
<1>4. CASE FailConnect(d)
  BY <1>2, <1>3, <1>4, OtherCoherent DEF FailConnect, NoConnection
<1>5. CASE FailReturned(d)
  <2>1. pass[d].pc \notin LockedSteps \cup {"panic"} /\ UNCHANGED mutex
    BY <1>5 DEF FailReturned, TableSteps, LockedSteps, RestoreSteps
  <2> QED
    BY <1>2, <1>3, <1>5, <2>1, LocalReturn, LocalStep DEF FailReturned, Requeue
<1>6. CASE FailLocked(d)
  <2>1. pass[d].pc \in LockedSteps
    BY <1>6 DEF FailLocked, LockedSteps, RestoreSteps
  <2> QED
    BY <1>2, <1>3, <1>6, <2>1, LocalReturn, LocalStep DEF FailLocked, Requeue
<1>7. CASE FailLs(d)
  <2>1. UNCHANGED mutex /\ pass[d].pc \in UnitSteps /\ (Goto(d, "size") \/ Advance(d))
    BY <1>7 DEF FailLs, UnitSteps, TableSteps, PartitionSteps
  <2>2. "size" \in Steps \cap CachingSteps
    BY DEF Steps, CachingSteps, TableSteps
  <2>3. Local(d)
    BY <1>2, <2>1, <2>2, LocalGoto, LocalAdvance
  <2> QED
    BY <1>3, <2>3, LocalStep
<1>8. CASE FailDropped(d)
  <2>1. /\ UNCHANGED mutex
        /\ \/ pass[d].pc \in UnitSteps /\ Advance(d)
           \/ pass[d].pc \in RestoreSteps /\ Goto(d, "delkv")
           \/ pass[d].pc \in RestoreSteps /\ NextLabel(d)
    BY <1>8 DEF FailDropped, UnitSteps, PartitionSteps, RestoreSteps
  <2>2. "delkv" \in Steps /\ "delkv" \in RestoreSteps
    BY DEF Steps, LockedSteps, RestoreSteps
  <2>3. Local(d)
    BY <1>2, <2>1, <2>2, LocalGoto, LocalAdvance, NextLabelLocal
  <2> QED
    BY <1>3, <2>3, LocalStep
<1>9. CASE FailList(d)
  BY <1>2, <1>3, <1>9, RestoreNext, LocalStep DEF FailList
<1>10. CASE FailClear(d)
  <2>1. pass[d].pc \in LockedSteps
    BY <1>10 DEF FailClear, LockedSteps
  <2> QED
    BY <1>2, <1>3, <1>10, <2>1, LocalUnlock, LocalStep DEF FailClear
<1> QED
  BY <1>4, <1>5, <1>6, <1>7, <1>8, <1>9, <1>10 DEF Fault

LEMMA DeliverCoherent ==
    ASSUME Coherence, NEW d \in DataTable, Deliver(d)
    PROVE  Coherence'
<1> USE DEF cluster
<1>1. /\ api \in [DataTable -> Object] /\ cache \in [DataTable -> Object]
      /\ UNCHANGED <<api, pass, mutex>>
      /\ cache' = [cache EXCEPT ![d] = api[d]]
  BY DEF Coherence, TypeOK, Deliver
<1>2. /\ cache' \in [DataTable -> Object] /\ cache'[d] = api[d]
      /\ \A e \in DataTable \ {d} : cache'[e] = cache[e]
  BY <1>1
<1>3. TypeOK'
  BY <1>1, <1>2 DEF Deliver, Coherence, TypeOK
<1>4. Shape'
  BY <1>1, <1>2 DEF Coherence, Shape
<1>5. RecoverExclusive'
  BY <1>1 DEF Coherence, RecoverExclusive
<1>6. \A e \in DataTable \ {d} : View(e)' = View(e)
  BY <1>1, <1>2 DEF View
<1>7. View(d)' = api[d]
  BY <1>1, <1>2 DEF View
<1>8. CopyOf(api[d], api[d])
  BY <1>1 DEF CopyOf, Object
<1>9. pass[d].pc # "idle" => CopyOf(pass[d].ctx, api[d])
  <2> SUFFICES ASSUME pass[d].pc # "idle" PROVE CopyOf(pass[d].ctx, api[d])
    OBVIOUS
  <2>1. /\ CopyOf(pass[d].ctx, View(d)) /\ CopyOf(cache[d], api[d])
        /\ pass[d].ctx \in Object
    BY DEF Coherence, Versions, TypeOK, Pass
  <2>2. api[d].rv \in Nat /\ cache[d].rv \in Nat /\ pass[d].ctx.rv \in Nat
    BY <1>1, <2>1 DEF Object
  <2> QED BY <2>1, <2>2 DEF View, CopyOf
<1>10. Versions'
  BY <1>1, <1>2, <1>6, <1>7, <1>8, <1>9 DEF Coherence, Versions
<1>11. api[d].finalizer => api[d].exists
  BY DEF Coherence, Shape, ObjectOK
<1>12. Protection'
  BY <1>1, <1>6, <1>7, <1>11 DEF Coherence, Protection, Protected
<1> QED
  BY <1>3, <1>4, <1>5, <1>10, <1>12 DEF Coherence

\* States in which no pass runs and every copy is up to date.
Fresh ==
    /\ api \in [DataTable -> Object] /\ cache = api /\ OthersOK
    /\ pass = [d \in DataTable |-> IdlePass] /\ mutex = Nobody
    /\ \A d \in DataTable : ObjectOK(api[d])

LEMMA FreshCoherent == Fresh => Coherence
<1> SUFFICES ASSUME Fresh PROVE Coherence
  OBVIOUS
<1> USE DEF Fresh
<1>1. \A d \in DataTable : pass[d] = IdlePass /\ pass[d].pc = "idle" /\ View(d) = api[d]
  BY DEF IdlePass, View
<1>2. TypeOK
  BY IdlePassType DEF TypeOK, OthersOK
<1>3. Shape
  BY <1>1, IdlePassType DEF Shape
<1>4. \A d \in DataTable : CopyOf(api[d], api[d])
  BY DEF CopyOf, Object
<1>5. Versions
  BY <1>1, <1>4 DEF Versions
<1>6. RecoverExclusive
  BY <1>1, StepNames, ConstantsAssumption DEF RecoverExclusive, DeletingSteps
<1>7. Protection
  BY <1>1, StepNames DEF Protection, Protected, ObjectOK
<1> QED
  BY <1>2, <1>3, <1>5, <1>6, <1>7 DEF Coherence

LEMMA RestartCoherent ==
    ASSUME Coherence, Restart, budget' \in Budget
    PROVE  Coherence'
<1>1. /\ api' \in [DataTable -> Object] /\ cache' = api'
      /\ \A d \in DataTable : ObjectOK(api'[d])
  BY DEF Restart, Coherence, TypeOK, Shape
<1>2. pass' = [d \in DataTable |-> IdlePass] /\ mutex' = Nobody
  BY DEF Restart
<1>3. OthersOK'
  BY DEF Restart, cluster, OthersOK, Coherence, TypeOK
<1>4. Fresh'
  BY <1>1, <1>2, <1>3 DEF Fresh
<1> QED
  BY <1>4, FreshCoherent, PTL

LEMMA InitCoherent == Init => Coherence
<1> SUFFICES ASSUME Init PROVE Coherence
  OBVIOUS
<1>1. /\ api \in [DataTable -> Object]
      /\ \A d \in DataTable : ObjectOK(api[d])
  BY NoObjectType DEF Init
<1>2. budget \in Budget
  BY ConstantsAssumption DEF Init, Budget
<1>3. OthersOK
  BY <1>2 DEF Init, OthersOK
<1> QED
  BY <1>1, <1>3, FreshCoherent DEF Init, Fresh

LEMMA NextCoherent == Coherence /\ [Next]_vars => Coherence'
<1> SUFFICES ASSUME Coherence, [Next]_vars PROVE Coherence'
  OBVIOUS
<1> USE DEF cluster
<1>1. CASE UNCHANGED vars
  <2>1. OthersOK'
    BY <1>1 DEF vars, OthersOK, Coherence, TypeOK
  <2> QED
    BY <1>1, <2>1, OtherCoherent DEF vars
<1>2. CASE ChangeRuntime
  <2>1. OthersOK'
    BY <1>2, SpendFacts DEF ChangeRuntime, OthersOK, Coherence, TypeOK
  <2> QED
    BY <1>2, <2>1, OtherCoherent DEF ChangeRuntime
<1>3. CASE Crash
  BY <1>3, SpendFacts, RestartCoherent DEF Crash, NoConnection, Coherence, TypeOK
<1>4. ASSUME NEW d \in DataTable, Resync(d)
      PROVE  Coherence'
  <2>1. OthersOK'
    BY <1>4 DEF Resync, OthersOK, Coherence, TypeOK
  <2> QED
    BY <1>4, <2>1, OtherCoherent DEF Resync
<1>5. ASSUME NEW d \in DataTable, Panic(d)
      PROVE  Coherence'
  BY <1>5, RestartCoherent DEF Panic, Coherence, TypeOK
<1>6. ASSUME NEW d \in DataTable, Work(d)
      PROVE  Coherence'
  BY <1>5, <1>6, AddFinalizerCoherent, CacheUnitCoherent, LabelGetCoherent,
     LabelUpdateCoherent, ListHoldersCoherent, RestoreCoherent, ClearGetCoherent,
     ClearUpdateCoherent, RemoveFinalizerCoherent
     DEF Work, Cache, Recover
<1> QED
  BY <1>1, <1>2, <1>3, <1>4, <1>6, UserCoherent, DeliverCoherent, StartCoherent,
     LockCoherent, FaultCoherent
     DEF Next

-----------------------------------------------------------------------------
(* Theorems. *)

\* The invariant behind the theorems below holds under every assumption on
\* caches, users, failures, crashes and edits.
THEOREM CoherenceInvariant == Spec => []Coherence
  BY InitCoherent, NextCoherent, PTL DEF Spec

\* Every variable keeps its type.
THEOREM TypeCorrect == Spec => []TypeOK
<1>1. Coherence => TypeOK
  BY DEF Coherence
<1> QED
  BY <1>1, CoherenceInvariant, PTL

\* The locked region of ChangeSchemaURLForRecover is exclusive, and left only
\* with the mutex free, whatever fails inside it.
THEOREM LockedRegionExclusive == Spec => []RecoverExclusive
<1>1. Coherence => RecoverExclusive
  BY DEF Coherence
<1> QED
  BY <1>1, CoherenceInvariant, PTL

\* A pass that caches units or writes labels has an object with a finalizer in
\* the API server to work for, even when it began with a stale copy.
THEOREM CachingIsProtected == Spec => []FinalizerHeld
<1>1. Coherence => FinalizerHeld
  BY DEF Coherence, Protection, Protected, FinalizerHeld
<1> QED
  BY <1>1, CoherenceInvariant, PTL

-----------------------------------------------------------------------------
(***************************************************************************)
(* What the end of a deletion means: the Update that removes the finalizer *)
(* carries the resourceVersion read at the start of the pass, so it can    *)
(* only succeed in a pass that had no label to restore.                    *)
(***************************************************************************)

\* A pass began with a copy of the object in the API server.
LEMMA ContextIsCopy ==
    ASSUME Coherence, NEW d \in DataTable, pass[d].pc # "idle"
    PROVE  /\ CopyOf(pass[d].ctx, api[d])
           /\ pass[d].ctx.exists
           /\ pass[d].ctx.rv \in Nat /\ View(d).rv \in Nat /\ api[d].rv \in Nat
           /\ CopyOf(View(d), api[d]) /\ CopyOf(pass[d].ctx, View(d))
<1>1. /\ CopyOf(pass[d].ctx, View(d)) /\ CopyOf(cache[d], api[d])
      /\ pass[d].ctx \in Object /\ api[d] \in Object /\ View(d) \in Object
      /\ PassOK(pass[d])
  BY ViewType DEF Coherence, Versions, TypeOK, Pass, Shape
<1>2. /\ pass[d].ctx.rv \in Nat /\ View(d).rv \in Nat /\ api[d].rv \in Nat
      /\ pass[d].ctx.exists
  BY <1>1 DEF Object, PassOK
<1>3. CopyOf(View(d), api[d])
  BY <1>1, <1>2 DEF View, CopyOf
<1>4. CopyOf(pass[d].ctx, api[d])
  BY <1>1, <1>2, <1>3 DEF CopyOf
<1> QED
  BY <1>1, <1>2, <1>3, <1>4

\* A write of an object that exists leaves its resourceVersion behind.
LEMMA WrittenObject ==
    ASSUME Coherence, NEW e \in DataTable, NEW o \in Object, Write(e, o), NEW d \in DataTable
    PROVE  \/ api'[d] = api[d]
           \/ d = e /\ api'[d].rv = api[d].rv + 1 /\ api'[d].exists = o.exists
<1>1. /\ api'[e] = [o EXCEPT !.rv = api[e].rv + 1]
      /\ api'[e].rv = api[e].rv + 1
      /\ \A f \in DataTable \ {e} : api'[f] = api[f]
  BY WriteFacts DEF Coherence, TypeOK
<1>2. api'[e].exists = o.exists
  BY <1>1 DEF Object
<1> QED
  BY <1>1, <1>2

\* The only step that ends an object with the finalizer is RemoveFinalizer.
LEMMA ObjectSteps ==
    ASSUME Coherence, [Next]_vars, NEW d \in DataTable
    PROVE  \/ api'[d] = api[d]
           \/ /\ api'[d].rv = api[d].rv + 1
              /\ \/ api'[d].exists
                 \/ ~api[d].finalizer
                 \/ RemoveFinalizer(d) /\ Accepted(d, pass[d].ctx.rv)
<1> DEFINE Goal == \/ api'[d] = api[d]
                   \/ /\ api'[d].rv = api[d].rv + 1
                      /\ \/ api'[d].exists
                         \/ ~api[d].finalizer
                         \/ RemoveFinalizer(d) /\ Accepted(d, pass[d].ctx.rv)
<1>1. ASSUME NEW e \in DataTable PROVE api[e] \in Object
  BY DEF Coherence, TypeOK
<1>2. CASE UNCHANGED api
  BY <1>2
<1>3. ASSUME NEW e \in DataTable, Create(e) PROVE Goal
  <2>1. PICK s \in Specs[e] : Write(e, [NoObject EXCEPT !.exists = TRUE, !.spec = s])
    BY <1>3 DEF Create
  <2> DEFINE o == [NoObject EXCEPT !.exists = TRUE, !.spec = s]
  <2>2. s \in Seq(Unit)
    BY ConstantsAssumption
  <2>3. o \in Object /\ o.exists
    BY <2>2, NoObjectType DEF Object
  <2> HIDE DEF o
  <2> QED BY <2>1, <2>3, WrittenObject DEF o
<1>4. ASSUME NEW e \in DataTable, Delete(e) PROVE Goal
  <2>1. CASE api[e].finalizer
    <3> DEFINE o == [api[e] EXCEPT !.deleting = TRUE]
    <3>1. o \in Object /\ o.exists = api[e].exists
      BY <1>1 DEF Object
    <3>2. Write(e, o) /\ api[e].exists
      BY <1>4, <2>1 DEF Delete
    <3> HIDE DEF o
    <3> QED BY <3>1, <3>2, WrittenObject
  <2>2. CASE ~api[e].finalizer
    <3>1. Write(e, NoObject)
      BY <1>4, <2>2 DEF Delete
    <3> QED BY <2>2, <3>1, NoObjectType, WrittenObject
  <2> QED BY <2>1, <2>2
<1>5. ASSUME NEW e \in DataTable, Edit(e) PROVE Goal
  <2>1. PICK s \in Specs[e] : Write(e, [api[e] EXCEPT !.spec = s])
    BY <1>5 DEF Edit
  <2> DEFINE o == [api[e] EXCEPT !.spec = s]
  <2>2. s \in Seq(Unit) /\ api[e].exists
    BY <1>5, ConstantsAssumption DEF Edit
  <2>3. o \in Object /\ o.exists = api[e].exists
    BY <1>1, <2>2 DEF Object
  <2> HIDE DEF o
  <2> QED BY <2>1, <2>2, <2>3, WrittenObject DEF o
<1>6. ASSUME NEW e \in DataTable, AddFinalizer(e) PROVE Goal
  <2>1. CASE Accepted(e, pass[e].ctx.rv) /\ Write(e, [api[e] EXCEPT !.finalizer = TRUE])
    <3> DEFINE o == [api[e] EXCEPT !.finalizer = TRUE]
    <3>1. o \in Object /\ o.exists = api[e].exists
      BY <1>1 DEF Object
    <3>2. Write(e, o) /\ api[e].exists
      BY <2>1 DEF Accepted
    <3> HIDE DEF o
    <3> QED BY <3>1, <3>2, WrittenObject
  <2>2. CASE UNCHANGED api
    BY <2>2
  <2> QED BY <1>6, <2>1, <2>2 DEF AddFinalizer
<1>7. ASSUME NEW e \in DataTable, LabelUpdate(e) PROVE Goal
  <2> DEFINE o == [api[e] EXCEPT !.status = api[e].spec, !.labels = NewLabels(pass[e].ctx.spec)]
  <2>1. CASE Accepted(e, pass[e].dt) /\ Write(e, o)
    <3>1. o \in Object /\ o.exists = api[e].exists
      BY <1>1, NewLabelsType DEF Object
    <3>2. Write(e, o) /\ api[e].exists
      BY <2>1 DEF Accepted
    <3> HIDE DEF o
    <3> QED BY <3>1, <3>2, WrittenObject
  <2>2. CASE UNCHANGED api
    BY <2>2
  <2> QED BY <1>7, <2>1, <2>2 DEF LabelUpdate
<1>8. ASSUME NEW e \in DataTable, ClearUpdate(e) PROVE Goal
  <2> DEFINE o == ClearLabels(api[e], Keys(pass[e].ctx))
  <2>1. CASE Accepted(e, pass[e].dt) /\ Write(e, o)
    <3>1. api[e].exists /\ ObjectOK(api[e])
      BY <2>1 DEF Accepted, Coherence, Shape
    <3>2. o \in Object /\ o.exists = api[e].exists
      BY <1>1, <3>1, ClearLabelsType
    <3> HIDE DEF o
    <3> QED BY <2>1, <3>1, <3>2, WrittenObject
  <2>2. CASE UNCHANGED api
    BY <2>2
  <2> QED BY <1>8, <2>1, <2>2 DEF ClearUpdate
<1>9. ASSUME NEW e \in DataTable, RemoveFinalizer(e) PROVE Goal
  <2>1. CASE Accepted(e, pass[e].ctx.rv) /\ Write(e, NoObject)
    BY <1>9, <2>1, NoObjectType, WrittenObject, SMTT(60)
  <2>2. CASE UNCHANGED api
    BY <2>2
  <2> QED BY <1>9, <2>1, <2>2 DEF RemoveFinalizer
<1>10. ASSUME NEW e \in DataTable,
              \/ Deliver(e) \/ Resync(e) \/ Start(e) \/ Lock(e) \/ Fault(e) \/ Panic(e)
              \/ CacheLs(e) \/ CacheMount(e) \/ CacheSize(e) \/ CacheAddKV(e) \/ CacheAlter(e)
              \/ CachePartitionAlter(e) \/ CachePartitionLs(e) \/ CachePartitionMount(e)
              \/ LabelGet(e) \/ ListHolders(e)
              \/ RestoreUnmount(e) \/ RestoreRemoveKV(e) \/ RestoreAlter(e)
              \/ RestorePartitionAlter(e) \/ RestorePartitionUnmount(e) \/ ClearGet(e)
       PROVE  UNCHANGED api
  BY <1>10
     DEF Deliver, Resync, Start, Reconcile, ReconcileNotFound, ReconcileNoRuntime, vars, Lock,
         Fault, FailConnect, NoConnection, FailReturned, FailLocked, FailLs, FailDropped, FailList, FailClear,
         Panic, Restart, CacheLs, CacheMount, CacheSize, CacheAddKV, CacheAlter,
         CachePartitionAlter, CachePartitionLs, CachePartitionMount, LabelGet, ListHolders,
         RestoreUnmount, RestoreRemoveKV, RestoreAlter, RestorePartitionAlter,
         RestorePartitionUnmount, ClearGet
<1>11. CASE ChangeRuntime \/ Crash \/ UNCHANGED vars
  BY <1>11 DEF ChangeRuntime, Crash, Restart, vars
<1> QED
  BY <1>2, <1>3, <1>4, <1>5, <1>6, <1>7, <1>8, <1>9, <1>10, <1>11
     DEF Next, User, Work, Cache, Recover

\* The passes that get to clearUpdate or finalize are those of ClearGet,
\* ClearUpdate and FailClear; everyone else leaves or passes them by.
LEMMA PassSteps ==
    ASSUME Coherence, [Next]_vars, NEW d \in DataTable
    PROVE  \/ pass'[d] = pass[d]
           \/ pass'[d].pc \notin {"clearUpdate", "finalize"}
           \/ ClearGet(d) \/ ClearUpdate(d) \/ FailClear(d)
<1> DEFINE Other == pass'[d] = pass[d] \/ pass'[d].pc \notin {"clearUpdate", "finalize"}
<1>1. pass \in [DataTable -> Pass] /\ pass[d] \in Pass /\ IdlePass.pc = "idle"
  BY DEF Coherence, TypeOK, IdlePass
<1>2. ASSUME NEW e \in DataTable, Return(e) PROVE Other
  BY <1>1, <1>2, ReturnFacts DEF PassFrame
<1>3. ASSUME NEW e \in DataTable, NEW step \in Steps \ {"clearUpdate", "finalize"},
             Goto(e, step)
      PROVE  Other
  <2>1. PassFrame(e) /\ pass'[e] = [pass[e] EXCEPT !.pc = step]
    BY <1>1, <1>3, GotoFacts
  <2>2. pass[e] \in Pass
    BY <1>1
  <2> QED BY <2>1, <2>2 DEF PassFrame, Pass
<1>4. ASSUME NEW e \in DataTable, Advance(e) PROVE Other
  <2>1. CASE \E next, x : pass' = [pass EXCEPT ![e].pc = FirstStep(x), ![e].i = next]
    BY <1>1, <2>1 DEF FirstStep, Pass
  <2>2. CASE Goto(e, "labelGet")
    BY <1>3, <2>2 DEF Steps, CachingSteps, LabelSteps
  <2> QED BY <1>2, <1>4, <2>1, <2>2 DEF Advance
<1>5. ASSUME NEW e \in DataTable, NEW u, NEW left,
             pass' = [pass EXCEPT ![e].pc = FirstRestoreStep(u), ![e].unit = u, ![e].left = left]
      PROVE  Other
  BY <1>1, <1>5 DEF FirstRestoreStep, Pass
<1>6. ASSUME NEW e \in DataTable, NextLabel(e) PROVE Other
  BY <1>1, <1>6 DEF NextLabel, Pass
<1>7. {"size", "mount", "kv", "alter", "pls", "pmount", "delkv", "restore", "punmount",
       "clearGet"} \subseteq Steps \ {"clearUpdate", "finalize"}
  BY DEF Steps, CachingSteps, LockedSteps, RestoreSteps, TableSteps, PartitionSteps
<1>8. ASSUME NEW e \in DataTable,
             \/ CacheLs(e) \/ CacheMount(e) \/ CacheSize(e) \/ CacheAddKV(e) \/ CacheAlter(e)
             \/ CachePartitionAlter(e) \/ CachePartitionLs(e) \/ CachePartitionMount(e)
             \/ RestoreUnmount(e) \/ RestoreRemoveKV(e) \/ RestoreAlter(e)
             \/ RestorePartitionAlter(e) \/ RestorePartitionUnmount(e)
      PROVE  Other
  <2>1. \/ Advance(e) \/ Return(e) \/ NextLabel(e)
        \/ \E step \in {"size", "mount", "kv", "alter", "pls", "pmount", "delkv", "restore",
                        "punmount"} : Goto(e, step)
    BY <1>8 DEF CacheLs, CacheMount, CacheSize, CacheAddKV, CacheAlter, CachePartitionAlter,
                CachePartitionLs, CachePartitionMount, RestoreUnmount, RestoreRemoveKV,
                RestoreAlter, RestorePartitionAlter, RestorePartitionUnmount, Requeue
  <2> HIDE DEF Other
  <2> QED BY <1>2, <1>3, <1>4, <1>6, <1>7, <2>1
<1>9. ASSUME NEW e \in DataTable, LabelGet(e) \/ LabelUpdate(e) PROVE Other
  <2>1. \/ Return(e) \/ Retry(e, "labelGet")
        \/ pass' = [pass EXCEPT ![e].pc = "labelUpdate", ![e].dt = View(e).rv]
    BY <1>9 DEF LabelGet, LabelUpdate, Requeue
  <2>2. CASE Retry(e, "labelGet")
    BY <1>1, <2>2 DEF Retry, Pass
  <2>3. CASE pass' = [pass EXCEPT ![e].pc = "labelUpdate", ![e].dt = View(e).rv]
    BY <1>1, <2>3, SMTT(60) DEF Pass
  <2> QED BY <1>2, <2>1, <2>2, <2>3
<1>10. ASSUME NEW e \in DataTable, ListHolders(e) PROVE Other
  <2>1. CASE \E u \in pass[e].left : pass' = [pass EXCEPT ![e].left = @ \ {u}]
    <3>1. pass[e].pc = "list"
      BY <1>10 DEF ListHolders
    <3> QED BY <1>1, <2>1, <3>1, SMTT(60) DEF Pass
  <2>2. CASE Goto(e, "clearGet")
    BY <1>3, <1>7, <2>2
  <2>3. CASE \E u \in pass[e].left :
                pass' = [pass EXCEPT ![e].pc = FirstRestoreStep(u), ![e].unit = u,
                                     ![e].left = @ \ {u}]
    BY <1>5, <2>3
  <2> QED BY <1>10, <2>1, <2>2, <2>3 DEF ListHolders
<1>11. ASSUME NEW e \in DataTable, Lock(e) PROVE Other
  BY <1>1, <1>11 DEF Lock, Pass
<1>12. ASSUME NEW e \in DataTable, Reconcile(e) PROVE Other
  <2> DEFINE step == Dispatch(View(e))
             q == [IdlePass EXCEPT !.pc = step, !.ctx = View(e), !.i = 1]
  <2>1. View(e) \in Object /\ ObjectOK(View(e)) /\ View(e).exists
    BY <1>12, ViewType DEF Reconcile
  <2>2. step \in Steps \ LockedSteps /\ (step \in DeletingSteps => View(e).deleting)
    BY <2>1, DispatchFacts
  <2>3. step \notin {"clearUpdate", "finalize"}
    BY DEF Dispatch, FirstStep
  <2>4. pass' = [pass EXCEPT ![e] = q]
    BY <1>12 DEF Reconcile
  <2> HIDE DEF step
  <2>5. q.pc = step /\ q \in Pass
    BY <2>1, <2>2, IdlePassType DEF Pass
  <2> HIDE DEF q
  <2> QED BY <1>1, <2>3, <2>4, <2>5
<1>13. ASSUME NEW e \in DataTable, Fault(e) PROVE Other \/ FailClear(e)
  <2>1. CASE FailDropped(e) \/ FailLs(e)
    <3>1. \/ Advance(e) \/ NextLabel(e)
          \/ \E step \in {"size", "delkv"} : Goto(e, step)
      BY <2>1 DEF FailDropped, FailLs
    <3> HIDE DEF Other
    <3> QED BY <1>3, <1>4, <1>6, <1>7, <3>1
  <2>2. CASE FailList(e)
    <3>1. PICK u \in pass[e].left :
                pass' = [pass EXCEPT ![e].pc = FirstRestoreStep(u), ![e].unit = u,
                                     ![e].left = @ \ {u}]
      BY <2>2 DEF FailList
    <3> HIDE DEF Other
    <3> QED BY <1>5, <3>1
  <2>3. CASE FailConnect(e)
    BY <2>3 DEF FailConnect
  <2>4. CASE FailReturned(e) \/ FailLocked(e)
    BY <1>2, <2>4 DEF FailReturned, FailLocked, Requeue
  <2> QED BY <1>13, <2>1, <2>2, <2>3, <2>4 DEF Fault
<1>14. Restart => Other
  BY <1>1 DEF Restart
<1>15. UNCHANGED pass => Other
  OBVIOUS
<1>16. ASSUME NEW e \in DataTable,
              User(e) \/ Deliver(e) \/ Resync(e) \/ ReconcileNotFound(e) \/ ReconcileNoRuntime(e)
       PROVE  UNCHANGED pass
  BY <1>16 DEF User, Create, Delete, Edit, Deliver, Resync, ReconcileNotFound,
               ReconcileNoRuntime, vars
<1>17. ASSUME NEW e \in DataTable, AddFinalizer(e) \/ RemoveFinalizer(e) PROVE Other
  BY <1>2, <1>17 DEF AddFinalizer, RemoveFinalizer, Requeue
<1>18. ASSUME NEW e \in DataTable, e # d, ClearGet(e) \/ ClearUpdate(e) \/ FailClear(e)
       PROVE  pass'[d] = pass[d]
  BY <1>1, <1>18 DEF ClearGet, ClearUpdate, FailClear, Goto, Unlock, Retry, Pass
<1>19. ChangeRuntime \/ Crash \/ UNCHANGED vars => Restart \/ UNCHANGED pass
  BY DEF ChangeRuntime, Crash, vars
<1> HIDE DEF Other
<1>20. ASSUME NEW e \in DataTable, User(e) \/ Deliver(e) \/ Resync(e) \/ Start(e) \/ Lock(e)
       PROVE  Other
  BY <1>11, <1>12, <1>15, <1>16, <1>20 DEF Start
<1>21. ASSUME NEW e \in DataTable, Work(e) \/ Fault(e)
       PROVE  Other \/ ClearGet(e) \/ ClearUpdate(e) \/ FailClear(e)
  BY <1>8, <1>9, <1>10, <1>13, <1>14, <1>17, <1>21 DEF Work, Cache, Recover, Panic
<1>22. CASE Other
  BY <1>22 DEF Other
<1> QED
  BY <1>14, <1>15, <1>18, <1>19, <1>20, <1>21, <1>22 DEF Next

LEMMA InitClearedOrOutdated ==
    ASSUME MaxFailures = 0, Init
    PROVE  ClearedOrOutdated
  BY DEF Init, ClearedOrOutdated, IdlePass

LEMMA NoFailures ==
    ASSUME Coherence, [Next]_vars, budget.failures = 0
    PROVE  /\ budget'.failures = 0
           /\ \A d \in DataTable : ~Fault(d)
<1>1. budget \in Budget
  BY DEF Coherence, TypeOK
<1>2. ASSUME NEW what \in {"creations", "edits", "failures", "crashes", "runtimeChanges"},
             Spend(what)
      PROVE  what # "failures" /\ budget'.failures = 0
  BY <1>1, <1>2, SMTT(60) DEF Spend, Budget
<1>3. \A d \in DataTable : ~Fault(d)
  BY <1>2, ZenonT(60) DEF Fault, FailConnect, NoConnection, FailReturned, FailLocked, FailLs, FailDropped, FailList,
              FailClear
<1>4. \/ UNCHANGED budget
      \/ \E what \in {"creations", "edits", "failures", "crashes", "runtimeChanges"} : Spend(what)
  BY <1>3, ZenonT(60)
     DEF Next, User, Create, Delete, Edit, Deliver, Resync, Start, Reconcile, ReconcileNotFound,
         ReconcileNoRuntime, vars, Lock, Work, AddFinalizer, Cache, CacheLs, CacheMount,
         CacheSize, CacheAddKV, CacheAlter, CachePartitionAlter, CachePartitionLs,
         CachePartitionMount, LabelGet, LabelUpdate, Recover, ListHolders, RestoreUnmount,
         RestoreRemoveKV, RestoreAlter, RestorePartitionAlter, RestorePartitionUnmount,
         ClearGet, ClearUpdate, RemoveFinalizer, Panic, ChangeRuntime, Crash,
         NoConnection
<1> QED
  BY <1>2, <1>3, <1>4

LEMMA ClearedOrOutdatedStep ==
    ASSUME Coherence, ClearedOrOutdated, [Next]_vars
    PROVE  ClearedOrOutdated'
<1> DEFINE Ok(d) ==
              /\ pass[d].pc = "clearUpdate" =>
                    pass[d].ctx.rv <= pass[d].dt /\ pass[d].dt <= api[d].rv
              /\ pass[d].pc = "finalize" =>
                    Labelled(pass[d].ctx, "true") = {} \/ pass[d].ctx.rv < api[d].rv
<1>1. budget'.failures = 0 /\ \A d \in DataTable : ~Fault(d)
  BY NoFailures DEF ClearedOrOutdated
<1> SUFFICES ASSUME NEW d \in DataTable PROVE Ok(d)'
  BY <1>1 DEF ClearedOrOutdated
<1>2. Ok(d) /\ pass[d] \in Pass
  BY DEF ClearedOrOutdated, Coherence, TypeOK
<1>3. pass[d].dt \in Nat /\ pass[d].ctx.rv \in Nat /\ api[d].rv \in Nat
  BY <1>2 DEF Pass, Object, Coherence, TypeOK
<1>4. api'[d].rv \in Nat /\ api[d].rv <= api'[d].rv
  BY <1>3, ObjectSteps
<1>5. CASE pass'[d] = pass[d]
  BY <1>2, <1>3, <1>4, <1>5
<1>6. CASE pass'[d].pc \notin {"clearUpdate", "finalize"}
  BY <1>6
<1>7. CASE ClearGet(d)
  <2>1. pass[d].pc = "clearGet" /\ UNCHANGED api
    BY <1>7 DEF ClearGet
  <2>2. /\ CopyOf(pass[d].ctx, View(d)) /\ CopyOf(View(d), api[d])
        /\ pass[d].ctx.rv \in Nat /\ View(d).rv \in Nat /\ api[d].rv \in Nat
    BY <2>1, ContextIsCopy
  <2>3. CASE Goto(d, "panic")
    <3>1. "panic" \in Steps
      BY DEF Steps
    <3>2. pass'[d].pc = "panic"
      <4>1. pass'[d] = [pass[d] EXCEPT !.pc = "panic"]
        BY <2>3, <3>1, GotoFacts DEF Coherence, TypeOK
      <4> QED BY <1>2, <4>1 DEF Pass
    <3> QED BY <3>2
  <2>4. CASE pass' = [pass EXCEPT ![d].pc = "clearUpdate", ![d].dt = View(d).rv]
    <3>1. pass'[d].pc = "clearUpdate" /\ pass'[d].dt = View(d).rv /\ pass'[d].ctx = pass[d].ctx
      BY <1>2, <2>4 DEF Pass, Coherence, TypeOK
    <3> QED BY <2>1, <2>2, <3>1 DEF CopyOf
  <2>5. CASE /\ \/ Keys(pass[d].ctx) = {}
                \/ ClearLabels(View(d), Keys(pass[d].ctx)) = View(d)
             /\ Unlock(d)
    <3>1. pass'[d].pc = "finalize" /\ pass'[d].ctx = pass[d].ctx
      BY <2>1, <2>5, UnlockFacts DEF LockedSteps
    <3>2. Labelled(pass[d].ctx, "true") \subseteq Keys(pass[d].ctx)
      BY DEF Labelled, Keys
    <3>3. CASE Keys(pass[d].ctx) = {}
      BY <3>1, <3>2, <3>3
    <3>4. CASE ClearLabels(View(d), Keys(pass[d].ctx)) = View(d)
      <4>1. \A u \in Keys(pass[d].ctx) : View(d).labels[u] = "false"
        <5> DEFINE keys == Keys(pass[d].ctx)
                   l == [u \in Unit |-> IF u \in keys THEN "false" ELSE View(d).labels[u]]
        <5>1. keys \subseteq Unit
          BY DEF Keys
        <5>2. View(d) = [View(d) EXCEPT !.labels = l] /\ View(d) \in Object
          BY <3>4, ViewType DEF ClearLabels
        <5> HIDE DEF l
        <5>3. View(d).labels = l
          BY <5>2 DEF Object
        <5> QED BY <5>1, <5>3 DEF l
      <4>2. CASE pass[d].ctx.rv = View(d).rv
        <5>1. pass[d].ctx = View(d)
          BY <2>2, <4>2 DEF CopyOf
        <5>2. Labelled(pass[d].ctx, "true") = {}
          BY <3>2, <4>1, <5>1 DEF Labelled
        <5> QED BY <3>1, <5>2
      <4>3. CASE pass[d].ctx.rv # View(d).rv
        BY <2>1, <2>2, <3>1, <4>3 DEF CopyOf
      <4> QED BY <4>2, <4>3
    <3> QED BY <2>5, <3>3, <3>4
  <2> QED BY <1>7, <2>3, <2>4, <2>5 DEF ClearGet
<1>8. CASE ClearUpdate(d)
  <2>1. pass[d].pc = "clearUpdate" /\ pass[d].ctx.rv <= pass[d].dt /\ pass[d].dt <= api[d].rv
    BY <1>2, <1>8 DEF ClearUpdate
  <2>2. CopyOf(pass[d].ctx, api[d]) /\ pass[d].ctx.exists
    BY <2>1, ContextIsCopy
  <2>3. CASE Retry(d, "clearGet")
    <3>1. pass'[d].pc = "clearGet"
      BY <1>2, <2>3 DEF Retry, Pass, Coherence, TypeOK
    <3> QED BY <3>1
  <2>4. CASE Unlock(d)
    <3>1. pass'[d].pc = "finalize" /\ pass'[d].ctx = pass[d].ctx
      BY <2>1, <2>4, UnlockFacts DEF LockedSteps
    <3>2. CASE ~api[d].exists
      BY <1>3, <1>4, <2>1, <2>2, <3>1, <3>2 DEF CopyOf
    <3>3. CASE Conflict(d, pass[d].dt)
      BY <1>3, <1>4, <2>1, <3>1, <3>3 DEF Conflict
    <3>4. CASE Write(d, ClearLabels(api[d], Keys(pass[d].ctx))) /\ api[d].exists
      <4>1. api[d] \in Object /\ ObjectOK(api[d])
        BY DEF Coherence, TypeOK, Shape
      <4>2. api'[d].rv = api[d].rv + 1
        BY <3>4, <4>1, ClearLabelsType, WriteFacts DEF Coherence, TypeOK
      <4> QED BY <1>3, <2>1, <3>1, <4>2
    <3>5. GiveUp(d) => ~api[d].exists \/ Conflict(d, pass[d].dt)
      BY DEF GiveUp
    <3> QED BY <1>8, <2>4, <3>2, <3>3, <3>4, <3>5 DEF ClearUpdate, Accepted
  <2> QED BY <1>8, <2>3, <2>4 DEF ClearUpdate
<1>9. ~FailClear(d)
  BY <1>1 DEF Fault
<1> HIDE DEF Ok
<1> QED
  BY <1>5, <1>6, <1>7, <1>8, <1>9, PassSteps

\* The Update in ReconcileDatatableDeletion that removes the finalizer works on
\* the copy read when the pass began.  As long as no call fails, it is accepted
\* only for an object none of whose labels is left to restore.
THEOREM FinalizerOutlivesLabels ==
    ASSUME MaxFailures = 0
    PROVE  Spec => RemovedOnlyWhenCleared
<1> DEFINE Inv == Coherence /\ ClearedOrOutdated
           Step == \A d \in DataTable :
                      api[d].finalizer /\ ~api'[d].exists => Labelled(api[d], "true") = {}
<1>1. Init => Inv
  BY InitCoherent, InitClearedOrOutdated
<1>2. Inv /\ [Next]_vars => Inv'
  BY NextCoherent, ClearedOrOutdatedStep
<1>3. ASSUME Inv, [Next]_vars
      PROVE  Step
  <2> SUFFICES ASSUME NEW d \in DataTable, api[d].finalizer, ~api'[d].exists
               PROVE  Labelled(api[d], "true") = {}
    OBVIOUS
  <2>1. api[d].exists
    BY <1>3 DEF Coherence, Shape, ObjectOK
  <2>2. RemoveFinalizer(d) /\ Accepted(d, pass[d].ctx.rv)
    BY <1>3, <2>1, ObjectSteps
  <2>3. pass[d].pc = "finalize" /\ pass[d].ctx.rv = api[d].rv
    BY <2>2 DEF RemoveFinalizer, Accepted
  <2>4. CopyOf(pass[d].ctx, api[d]) /\ api[d].rv \in Nat
    BY <1>3, <2>3, ContextIsCopy
  <2>5. pass[d].ctx = api[d]
    BY <2>3, <2>4 DEF CopyOf
  <2>6. Labelled(pass[d].ctx, "true") = {} \/ pass[d].ctx.rv < api[d].rv
    BY <1>3, <2>3 DEF ClearedOrOutdated
  <2> QED BY <2>3, <2>4, <2>5, <2>6
<1>4. Inv /\ [Next]_vars => [Step]_vars
  BY <1>3
<1> QED
  BY <1>1, <1>2, <1>4, PTL DEF Spec, RemovedOnlyWhenCleared

-----------------------------------------------------------------------------
(* All that a step can do to an object, and to a pass. *)

\* The object of d is written: its fields, and those of the others stay.
Becomes(d, exists, spec, deleting, finalizer, status, labels) ==
    /\ api'[d].rv = api[d].rv + 1
    /\ api'[d].exists = exists
    /\ api'[d].spec = spec
    /\ api'[d].deleting = deleting
    /\ api'[d].finalizer = finalizer
    /\ api'[d].status = status
    /\ api'[d].labels = labels
    /\ \A e \in DataTable \ {d} : api'[e] = api[e]

LEMMA WrittenFields ==
    ASSUME Coherence, NEW d \in DataTable, NEW o \in Object, Write(d, o)
    PROVE  Becomes(d, o.exists, o.spec, o.deleting, o.finalizer, o.status, o.labels)
<1>1. /\ api'[d] = [o EXCEPT !.rv = api[d].rv + 1]
      /\ api'[d].rv = api[d].rv + 1
      /\ \A e \in DataTable \ {d} : api'[e] = api[e]
  BY WriteFacts DEF Coherence, TypeOK
<1> QED
  BY <1>1 DEF Object, Becomes

Gone(d) == Becomes(d, FALSE, << >>, FALSE, FALSE, << >>, NoLabels)

Cleared(d) == [u \in Unit |-> IF u \in Keys(pass[d].ctx) THEN "false" ELSE api[d].labels[u]]

Created(d) ==
    /\ ~api[d].exists
    /\ \E s \in Specs[d] : Becomes(d, TRUE, s, FALSE, FALSE, << >>, NoLabels)

Deleted(d) ==
    /\ api[d].exists /\ ~api[d].deleting
    /\ PatientUser => api[d].status # << >>
    /\ \/ /\ api[d].finalizer
          /\ Becomes(d, TRUE, api[d].spec, TRUE, TRUE, api[d].status, api[d].labels)
       \/ ~api[d].finalizer /\ Gone(d)

Edited(d) ==
    /\ api[d].exists /\ budget.edits > 0
    /\ \E s \in Specs[d] : Becomes(d, TRUE, s, api[d].deleting, api[d].finalizer,
                                   api[d].status, api[d].labels)

FinalizerAdded(d) ==
    /\ api[d].exists /\ pass[d].pc = "addFinalizer"
    /\ Becomes(d, TRUE, api[d].spec, api[d].deleting, TRUE, api[d].status, api[d].labels)

LabelsWritten(d) ==
    /\ pass[d].pc = "labelUpdate" /\ Accepted(d, pass[d].dt)
    /\ pass'[d] = IdlePass
    /\ Becomes(d, TRUE, api[d].spec, api[d].deleting, api[d].finalizer, api[d].spec,
               NewLabels(pass[d].ctx.spec))

LabelsCleared(d) ==
    /\ pass[d].pc = "clearUpdate" /\ Accepted(d, pass[d].dt)
    /\ pass'[d].pc = "finalize" /\ pass'[d].ctx = pass[d].ctx
    /\ Becomes(d, TRUE, api[d].spec, api[d].deleting, api[d].finalizer, api[d].status,
               Cleared(d))

FinalizerRemoved(d) ==
    /\ pass[d].pc = "finalize" /\ Accepted(d, pass[d].ctx.rv)
    /\ pass'[d] = IdlePass
    /\ Gone(d)

ObjectChange(d) ==
    \/ api'[d] = api[d]
    \/ Created(d) /\ pass' = pass
    \/ Deleted(d) /\ pass' = pass
    \/ Edited(d) /\ pass' = pass
    \/ FinalizerAdded(d) /\ pass'[d] = IdlePass
    \/ LabelsWritten(d)
    \/ LabelsCleared(d)
    \/ FinalizerRemoved(d)

\* One object is written at a time.
LEMMA OneObjectWritten ==
    ASSUME NEW d \in DataTable, NEW e \in DataTable, e # d,
           NEW x1, NEW x2, NEW x3, NEW x4, NEW x5, NEW x6, Becomes(e, x1, x2, x3, x4, x5, x6)
    PROVE  api'[d] = api[d]
  BY DEF Becomes

\* The fields of an absent object.
LEMMA NoObjectFields ==
    /\ NoObject.exists = FALSE /\ NoObject.spec = << >> /\ NoObject.deleting = FALSE
    /\ NoObject.finalizer = FALSE /\ NoObject.status = << >> /\ NoObject.labels = NoLabels
  BY DEF NoObject

LEMMA ObjectChanges ==
    ASSUME Coherence, [Next]_vars, NEW d \in DataTable
    PROVE  ObjectChange(d)
<1>1. ASSUME NEW e \in DataTable PROVE api[e] \in Object
  BY DEF Coherence, TypeOK
<1>2. CASE UNCHANGED api
  BY <1>2 DEF ObjectChange
<1>3. ASSUME NEW e \in DataTable, Create(e) PROVE ObjectChange(d)
  <2>1. PICK s \in Specs[e] : Write(e, [NoObject EXCEPT !.exists = TRUE, !.spec = s])
    BY <1>3 DEF Create
  <2> DEFINE o == [NoObject EXCEPT !.exists = TRUE, !.spec = s]
  <2>2. s \in Seq(Unit)
    BY ConstantsAssumption
  <2>3. /\ o \in Object /\ o.exists = TRUE /\ o.spec = s /\ o.deleting = FALSE
        /\ o.finalizer = FALSE /\ o.status = << >> /\ o.labels = NoLabels
    BY <2>2, NoObjectType, NoObjectFields DEF Object
  <2> HIDE DEF o
  <2>4. Becomes(e, TRUE, s, FALSE, FALSE, << >>, NoLabels)
    BY <2>1, <2>3, WrittenFields DEF o
  <2>5. CASE e = d
    BY <1>3, <2>4, <2>5 DEF Create, Created, ObjectChange
  <2>6. CASE e # d
    BY <2>4, <2>6, OneObjectWritten DEF ObjectChange
  <2> QED BY <2>5, <2>6
<1>4. ASSUME NEW e \in DataTable, Delete(e) PROVE ObjectChange(d)
  <2>1. CASE api[e].finalizer
    <3> DEFINE o == [api[e] EXCEPT !.deleting = TRUE]
    <3>1. Write(e, o) /\ api[e].exists
      BY <1>4, <2>1 DEF Delete
    <3>2. /\ o \in Object /\ o.exists = TRUE /\ o.spec = api[e].spec /\ o.deleting = TRUE
          /\ o.finalizer = TRUE /\ o.status = api[e].status /\ o.labels = api[e].labels
      BY <1>1, <2>1, <3>1 DEF Object
    <3> HIDE DEF o
    <3>3. Becomes(e, TRUE, api[e].spec, TRUE, TRUE, api[e].status, api[e].labels)
      BY <3>1, <3>2, WrittenFields
    <3>4. CASE e = d
      BY <1>4, <2>1, <3>3, <3>4 DEF Delete, Deleted, ObjectChange
    <3>5. CASE e # d
      BY <3>3, <3>5, OneObjectWritten DEF ObjectChange
    <3> QED BY <3>4, <3>5
  <2>2. CASE ~api[e].finalizer
    <3>1. Write(e, NoObject)
      BY <1>4, <2>2 DEF Delete
    <3>2. Gone(e)
      BY <3>1, NoObjectType, NoObjectFields, WrittenFields DEF Gone
    <3>3. CASE e = d
      BY <1>4, <2>2, <3>2, <3>3 DEF Delete, Deleted, ObjectChange
    <3>4. CASE e # d
      BY <3>2, <3>4, OneObjectWritten DEF ObjectChange, Gone
    <3> QED BY <3>3, <3>4
  <2> QED BY <2>1, <2>2
<1>5. ASSUME NEW e \in DataTable, Edit(e) PROVE ObjectChange(d)
  <2>1. PICK s \in Specs[e] : Write(e, [api[e] EXCEPT !.spec = s])
    BY <1>5 DEF Edit
  <2> DEFINE o == [api[e] EXCEPT !.spec = s]
  <2>2. s \in Seq(Unit) /\ api[e].exists /\ budget.edits > 0
    BY <1>5, ConstantsAssumption DEF Edit, Spend
  <2>3. /\ o \in Object /\ o.exists = TRUE /\ o.spec = s /\ o.deleting = api[e].deleting
        /\ o.finalizer = api[e].finalizer /\ o.status = api[e].status
        /\ o.labels = api[e].labels
    BY <1>1, <2>2 DEF Object
  <2> HIDE DEF o
  <2>4. Becomes(e, TRUE, s, api[e].deleting, api[e].finalizer, api[e].status, api[e].labels)
    BY <2>1, <2>3, WrittenFields DEF o
  <2>5. CASE e = d
    BY <1>5, <2>2, <2>4, <2>5 DEF Edit, Edited, ObjectChange
  <2>6. CASE e # d
    BY <2>4, <2>6, OneObjectWritten DEF ObjectChange
  <2> QED BY <2>5, <2>6
<1>6. ASSUME NEW e \in DataTable, AddFinalizer(e) PROVE ObjectChange(d)
  <2>1. CASE Accepted(e, pass[e].ctx.rv) /\ Write(e, [api[e] EXCEPT !.finalizer = TRUE])
    <3> DEFINE o == [api[e] EXCEPT !.finalizer = TRUE]
    <3>1. Write(e, o) /\ api[e].exists
      BY <2>1 DEF Accepted
    <3>2. /\ o \in Object /\ o.exists = TRUE /\ o.spec = api[e].spec
          /\ o.deleting = api[e].deleting /\ o.finalizer = TRUE
          /\ o.status = api[e].status /\ o.labels = api[e].labels
      BY <1>1, <3>1 DEF Object
    <3> HIDE DEF o
    <3>3. Becomes(e, TRUE, api[e].spec, api[e].deleting, TRUE, api[e].status, api[e].labels)
      BY <3>1, <3>2, WrittenFields
    <3>4. pass'[e] = IdlePass
      BY <1>6, ReturnFacts DEF AddFinalizer, Requeue, Coherence, TypeOK
    <3>5. CASE e = d
      BY <1>6, <3>1, <3>3, <3>4, <3>5 DEF AddFinalizer, FinalizerAdded, ObjectChange
    <3>6. CASE e # d
      BY <3>3, <3>6, OneObjectWritten DEF ObjectChange
    <3> QED BY <3>5, <3>6
  <2>2. CASE UNCHANGED api
    BY <2>2 DEF ObjectChange
  <2> QED BY <1>6, <2>1, <2>2 DEF AddFinalizer
<1>7. ASSUME NEW e \in DataTable, LabelUpdate(e) PROVE ObjectChange(d)
  <2> DEFINE l == NewLabels(pass[e].ctx.spec)
             o == [api[e] EXCEPT !.status = api[e].spec, !.labels = l]
  <2>1. CASE Accepted(e, pass[e].dt) /\ Write(e, o) /\ Return(e)
    <3>1. api[e].exists /\ l \in [Unit -> LabelValue]
      BY <2>1, NewLabelsType DEF Accepted
    <3> HIDE DEF l
    <3>2. /\ o \in Object /\ o.exists = TRUE /\ o.spec = api[e].spec
          /\ o.deleting = api[e].deleting /\ o.finalizer = api[e].finalizer
          /\ o.status = api[e].spec /\ o.labels = l
      BY <1>1, <3>1 DEF Object
    <3> HIDE DEF o
    <3>3. Becomes(e, TRUE, api[e].spec, api[e].deleting, api[e].finalizer, api[e].spec, l)
      BY <2>1, <3>2, WrittenFields
    <3>4. pass'[e] = IdlePass
      BY <2>1, ReturnFacts DEF Coherence, TypeOK
    <3>5. CASE e = d
      BY <1>7, <2>1, <3>3, <3>4, <3>5 DEF LabelUpdate, LabelsWritten, ObjectChange, l
    <3>6. CASE e # d
      BY <3>3, <3>6, OneObjectWritten DEF ObjectChange
    <3> QED BY <3>5, <3>6
  <2>2. CASE UNCHANGED api
    BY <2>2 DEF ObjectChange
  <2> QED BY <1>7, <2>1, <2>2 DEF LabelUpdate
<1>8. ASSUME NEW e \in DataTable, ClearUpdate(e) PROVE ObjectChange(d)
  <2> DEFINE l == Cleared(e)
             o == [api[e] EXCEPT !.labels = l]
  <2>1. CASE Accepted(e, pass[e].dt) /\ Write(e, o) /\ Unlock(e)
    <3>1. api[e].exists /\ api[e].labels \in [Unit -> LabelValue] /\ pass[e].pc = "clearUpdate"
      BY <1>1, <1>8, <2>1 DEF Accepted, Object, ClearUpdate
    <3>2. l \in [Unit -> LabelValue]
      BY <3>1 DEF Cleared, LabelValue
    <3> HIDE DEF l
    <3>3. /\ o \in Object /\ o.exists = TRUE /\ o.spec = api[e].spec
          /\ o.deleting = api[e].deleting /\ o.finalizer = api[e].finalizer
          /\ o.status = api[e].status /\ o.labels = l
      BY <1>1, <3>1, <3>2 DEF Object
    <3> HIDE DEF o
    <3>4. Becomes(e, TRUE, api[e].spec, api[e].deleting, api[e].finalizer, api[e].status, l)
      BY <2>1, <3>3, WrittenFields
    <3>5. pass'[e].pc = "finalize" /\ pass'[e].ctx = pass[e].ctx
      BY <2>1, <3>1, UnlockFacts DEF LockedSteps
    <3>6. CASE e = d
      BY <2>1, <3>1, <3>4, <3>5, <3>6 DEF LabelsCleared, ObjectChange, l
    <3>7. CASE e # d
      BY <3>4, <3>7, OneObjectWritten DEF ObjectChange
    <3> QED BY <3>6, <3>7
  <2>2. CASE UNCHANGED api
    BY <2>2 DEF ObjectChange
  <2>3. ClearLabels(api[e], Keys(pass[e].ctx)) = o
    BY DEF ClearLabels, Cleared
  <2> QED BY <1>8, <2>1, <2>2, <2>3 DEF ClearUpdate
<1>9. ASSUME NEW e \in DataTable, RemoveFinalizer(e) PROVE ObjectChange(d)
  <2>1. CASE Accepted(e, pass[e].ctx.rv) /\ Write(e, NoObject) /\ Return(e)
    <3>1. Gone(e)
      BY <2>1, NoObjectType, NoObjectFields, WrittenFields DEF Gone
    <3>2. pass'[e] = IdlePass
      BY <2>1, ReturnFacts DEF Coherence, TypeOK
    <3>3. CASE e = d
      BY <1>9, <2>1, <3>1, <3>2, <3>3 DEF RemoveFinalizer, FinalizerRemoved, ObjectChange
    <3>4. CASE e # d
      BY <3>1, <3>4, OneObjectWritten DEF ObjectChange, Gone
    <3> QED BY <3>3, <3>4
  <2>2. CASE UNCHANGED api
    BY <2>2 DEF ObjectChange
  <2> QED BY <1>9, <2>1, <2>2 DEF RemoveFinalizer
<1>10. ASSUME NEW e \in DataTable,
              \/ Deliver(e) \/ Resync(e) \/ Start(e) \/ Lock(e) \/ Fault(e) \/ Panic(e)
              \/ CacheLs(e) \/ CacheMount(e) \/ CacheSize(e) \/ CacheAddKV(e) \/ CacheAlter(e)
              \/ CachePartitionAlter(e) \/ CachePartitionLs(e) \/ CachePartitionMount(e)
              \/ LabelGet(e) \/ ListHolders(e)
              \/ RestoreUnmount(e) \/ RestoreRemoveKV(e) \/ RestoreAlter(e)
              \/ RestorePartitionAlter(e) \/ RestorePartitionUnmount(e) \/ ClearGet(e)
       PROVE  UNCHANGED api
  BY <1>10
     DEF Deliver, Resync, Start, Reconcile, ReconcileNotFound, ReconcileNoRuntime, vars, Lock,
         Fault, FailConnect, NoConnection, FailReturned, FailLocked, FailLs, FailDropped, FailList, FailClear,
         Panic, Restart, CacheLs, CacheMount, CacheSize, CacheAddKV, CacheAlter,
         CachePartitionAlter, CachePartitionLs, CachePartitionMount, LabelGet, ListHolders,
         RestoreUnmount, RestoreRemoveKV, RestoreAlter, RestorePartitionAlter,
         RestorePartitionUnmount, ClearGet
<1>11. CASE ChangeRuntime \/ Crash \/ UNCHANGED vars
  BY <1>2, <1>11 DEF ChangeRuntime, Crash, Restart, vars
<1> QED
  BY <1>2, <1>3, <1>4, <1>5, <1>6, <1>7, <1>8, <1>9, <1>10, <1>11
     DEF Next, User, Work, Cache, Recover

=============================================================================
