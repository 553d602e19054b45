---------------------------- MODULE AlluxioShell ----------------------------
(***************************************************************************)
(* AlluxioFileUtils: commands executed in the master pod.  exec runs the   *)
(* command in a goroutine and waits for it or for a timer; goroutine and   *)
(* caller share the named results stdout and err without a lock.           *)
(***************************************************************************)
EXTENDS ShellParsers, FiniteSets

CONSTANTS
    Caller,         \* goroutines that call operations
    Path,           \* paths in the Alluxio namespace
    Exec,           \* executions: the bound on commands under way at a time
    Operations,     \* Operations[c]: the operations caller c may call
    NoExec,         \* no execution
    MaxFailures     \* failures of building the configuration or the client

VARIABLES
    fs,             \* the Alluxio namespace
    release,        \* what /etc/issue says
    restConfig,     \* the package variable is set
    clientset,      \* the package variable is set
    run,            \* run[x]: execution x, its goroutine and named results
    call,           \* call[c]: the operation c is in
    failures        \* failures left

vars == <<fs, release, restConfig, clientset, run, call, failures>>

-----------------------------------------------------------------------------
(* Commands, executions and calls. *)

Commands == {Command[o] : o \in Op} \cup {"free"}

\* execWithoutTimeout is called directly.
Untimed == {"LoadMetadataWithoutTimeout", "Count", "GetFileCount", "SyncLocalDir"}

FileSystem == [exists : SUBSET Path, mounted : SUBSET Path, cached : SUBSET Path]

GoSteps == {"free", "config", "build", "client", "new", "run", "out", "err", "send", "end"}

\* out, err: the named results; ans, ansErr: what the command answered and is
\* not yet assigned; done: the channel holds a value.
Run == [go : GoSteps, cmd : Commands, path : Path, timed : BOOLEAN, ans : Outputs,
        ansErr : Errors, out : Outputs, err : Errors, done : BOOLEAN]

FreeRun == [go |-> "free", cmd |-> "print", path |-> CHOOSE p \in Path : TRUE,
            timed |-> FALSE, ans |-> NoOutput, ansErr |-> "nil", out |-> NoOutput,
            err |-> "nil", done |-> FALSE]

\* seen: the values Watched has had since the call began; expired: some
\* execution of the call ran into its timer.  The process is gone in "panic",
\* an index out of range in the caller, and in "crash", a nil pointer in a
\* goroutine of exec.
Call == [pc : {"idle", "wait", "readOut", "readErr", "parse", "panic", "crash"}, op : Op,
         path : Path, cmd : Commands, exec : Exec \cup {NoExec}, out : Outputs, err : Errors,
         seen : SUBSET BOOLEAN, expired : BOOLEAN]

\* No call under way.
NoCall == [pc |-> "idle", op |-> "Ready", path |-> CHOOSE p \in Path : TRUE,
           cmd |-> "report", exec |-> NoExec, out |-> NoOutput, err |-> "nil",
           seen |-> {}, expired |-> FALSE]

ASSUME ShellAssumption ==
    /\ IsFiniteSet(Caller) /\ IsFiniteSet(Exec)
    /\ Path # {}
    /\ Operations \in [Caller -> SUBSET Op]
    /\ NoExec \notin Exec
    /\ MaxFailures \in Nat

Init ==
    /\ fs = [exists |-> {}, mounted |-> {}, cached |-> {}]
    /\ release \in Release
    /\ restConfig = FALSE
    /\ clientset = FALSE
    /\ run = [x \in Exec |-> FreeRun]
    /\ call = [c \in Caller |-> NoCall]
    /\ failures = MaxFailures

-----------------------------------------------------------------------------
(* What a command does in the pod. *)

\* The namespace after the command, the output and the exit status.
Effect(cmd, p) ==
    LET same(out, err) == [fs |-> fs, out |-> out, err |-> err]
        changed(new) == [fs |-> new, out |-> Output("text", 1, 4, FALSE), err |-> "nil"]
        refused == same(Output("text", 1, 4, FALSE), "exit")
        missing == same(Output("does not exist", 1, 4, FALSE), "exit")
    IN  CASE cmd = "ls" -> IF p \in fs.exists THEN same(Output("text", 2, 4, FALSE), "nil")
                                              ELSE missing
          [] cmd = "mkdir" -> IF p \in fs.exists THEN refused
                              ELSE changed([fs EXCEPT !.exists = @ \cup {p}])
          [] cmd = "mount" -> IF p \in fs.exists THEN refused
                              ELSE changed([fs EXCEPT !.exists = @ \cup {p},
                                                      !.mounted = @ \cup {p}])
          [] cmd = "unmount" -> IF p \notin fs.mounted THEN refused
                                ELSE changed([exists |-> fs.exists \ {p},
                                              mounted |-> fs.mounted \ {p},
                                              cached |-> fs.cached \ {p}])
          [] cmd = "free" -> IF p \notin fs.exists THEN missing
                             ELSE changed([fs EXCEPT !.cached = @ \ {p}])
          [] cmd = "mounts" -> same(Output(IF p \in fs.mounted THEN "on path" ELSE "elsewhere",
                                           2, 4, FALSE), "nil")
          [] cmd = "issue" -> same(Output(release, 1, 3, FALSE), "nil")
          [] cmd = "report" -> same(Output("Used Capacity:", 2, 3, TRUE), "nil")
          [] cmd \in {"du", "count"} ->
                IF p \in fs.exists
                THEN same(Output("text", 2, IF cmd = "du" THEN 4 ELSE 3, TRUE), "nil")
                ELSE missing
          [] cmd = "metrics" -> same(Output("text", 1, 4, TRUE), "nil")
          [] cmd = "print" -> same(Output("text", 2, 4, FALSE), "nil")

\* What operation o on path p asks of the namespace s, or is to bring about.
Watched(o, p, s) ==
    CASE o \in {"IsExist", "Mkdir"} -> p \in s.exists
      [] o \in {"IsMounted", "Mount"} -> p \in s.mounted
      [] o = "UnMount" -> p \notin s.mounted
      [] o = "CleanCache" -> p \notin s.cached
      [] OTHER -> TRUE

\* Every call under way sees the namespace change.
Witness(new) ==
    [c \in Caller |->
        IF call[c].pc \in {"idle", "panic", "crash"} THEN call[c]
        ELSE [call[c] EXCEPT !.seen = @ \cup {Watched(call[c].op, call[c].path, new)}]]

\* A reader in some pod brings the data of a path into the cache.
Read(p) ==
    /\ p \in fs.exists \ fs.cached
    /\ fs' = [fs EXCEPT !.cached = @ \cup {p}]
    /\ call' = Witness(fs')
    /\ UNCHANGED <<release, restConfig, clientset, run, failures>>

-----------------------------------------------------------------------------
(* The goroutine of an execution: execWithoutTimeout and what it calls. *)

Fail == failures > 0 /\ failures' = failures - 1

Go(x, from, to) == run[x].go = from /\ run' = [run EXCEPT ![x].go = to]

\* The command is answered without having been run.
Refuse(x) == run' = [run EXCEPT ![x].go = "out", ![x].ans = NoOutput, ![x].ansErr = "init"]

\* A goroutine dereferences a nil pointer: the process ends.
Crash ==
    /\ run' = [x \in Exec |-> FreeRun]
    /\ call' = [c \in Caller |-> [NoCall EXCEPT !.pc = "crash"]]

\* Variant: whoever finds the configuration leaves the client to the goroutine
\* that built it.
CheckConfigOnce(x) ==
    /\ Go(x, "config", IF restConfig THEN "run" ELSE "build")
    /\ UNCHANGED <<fs, release, restConfig, clientset, call, failures>>

\* initClient, first check: is the shared configuration there?
CheckConfig(x) ==
    /\ Go(x, "config", IF restConfig THEN "client" ELSE "build")
    /\ UNCHANGED <<fs, release, restConfig, clientset, call, failures>>

\* BuildConfigFromFlags assigns the shared variable, nil when it fails.
BuildConfig(x) ==
    /\ run[x].go = "build"
    /\ \/ restConfig' = TRUE /\ Go(x, "build", "client") /\ UNCHANGED failures
       \/ restConfig' = FALSE /\ Refuse(x) /\ Fail
    /\ UNCHANGED <<fs, release, clientset, call>>

\* initClient, second check: is the shared client there?
CheckClient(x) ==
    /\ Go(x, "client", IF clientset THEN "run" ELSE "new")
    /\ UNCHANGED <<fs, release, restConfig, clientset, call, failures>>

\* NewForConfig assigns the shared client, nil when it fails, also when another
\* goroutine has built one since the check; a nil configuration it dereferences.
BuildClient(x) ==
    /\ run[x].go = "new"
    /\ \/ restConfig /\ clientset' = TRUE /\ Go(x, "new", "run") /\ UNCHANGED <<call, failures>>
       \/ restConfig /\ clientset' = FALSE /\ Refuse(x) /\ Fail /\ UNCHANGED call
       \/ ~restConfig /\ Crash /\ UNCHANGED <<clientset, failures>>
    /\ UNCHANGED <<fs, release, restConfig>>

\* ExecWithOptions dereferences a client or a configuration that a failing
\* initClient has set to nil since.
DereferenceNil(x) ==
    /\ run[x].go = "run"
    /\ ~(clientset /\ restConfig)
    /\ Crash
    /\ UNCHANGED <<fs, release, restConfig, clientset, failures>>

\* Variant: the goroutine signals before the results are assigned.
ExecuteSendsFirst(x) ==
    LET e == Effect(run[x].cmd, run[x].path)
    IN  /\ run[x].go = "run"
        /\ fs' = e.fs
        /\ run' = [run EXCEPT ![x].go = "out", ![x].ans = e.out, ![x].ansErr = e.err,
                              ![x].done = TRUE]
        /\ call' = Witness(fs')
        /\ UNCHANGED <<release, restConfig, clientset, failures>>

\* ExecWithOptions: the command takes effect in the pod and its trimmed output
\* comes back; the connection may break before or after that.
Execute(x) ==
    LET e == Effect(run[x].cmd, run[x].path)
        answer(out, err) ==
            run' = [run EXCEPT ![x].go = "out", ![x].ans = out, ![x].ansErr = err]
    IN  /\ run[x].go = "run"
        /\ clientset /\ restConfig
        /\ \/ fs' = e.fs /\ answer(e.out, e.err)
           \/ fs' \in {fs, e.fs} /\ answer(NoOutput, "exit")
        /\ call' = Witness(fs')
        /\ UNCHANGED <<release, restConfig, clientset, failures>>

\* Some caller will still read the results of the execution.
Referenced(x) == \E c \in Caller : call[c].exec = x

\* stdout, stderr, err = a.execWithoutTimeout(...): the results are assigned
\* one after the other; those nobody can read any more are not kept.
WriteOut(x) ==
    /\ run[x].go = "out"
    /\ run' = [run EXCEPT ![x].go = "err", ![x].ans = NoOutput,
                          ![x].out = IF Referenced(x) THEN run[x].ans ELSE NoOutput]
    /\ UNCHANGED <<fs, release, restConfig, clientset, call, failures>>

WriteErr(x) ==
    /\ run[x].go = "err"
    /\ run' = [run EXCEPT ![x].go = "send", ![x].ansErr = "nil",
                          ![x].err = IF Referenced(x) THEN run[x].ansErr ELSE "nil"]
    /\ UNCHANGED <<fs, release, restConfig, clientset, call, failures>>

\* Variant: the channel has no buffer, a send needs a receiver.
SendUnbuffered(x) ==
    /\ run[x].go = "send"
    /\ \E c \in Caller : call[c].pc = "wait" /\ call[c].exec = x
    /\ run' = [run EXCEPT ![x].go = "end", ![x].done = TRUE]
    /\ UNCHANGED <<fs, release, restConfig, clientset, call, failures>>

\* ch <- "done": the channel has room for one value, so the send never waits.
Send(x) ==
    /\ run[x].go = "send"
    /\ run' = [run EXCEPT ![x].go = "end", ![x].done = TRUE]
    /\ UNCHANGED <<fs, release, restConfig, clientset, call, failures>>

\* The goroutine and its caller are through with the execution's variables.
Collect(x) ==
    /\ run[x].go = "end"
    /\ ~Referenced(x)
    /\ run' = [run EXCEPT ![x] = FreeRun]
    /\ UNCHANGED <<fs, release, restConfig, clientset, call, failures>>

-----------------------------------------------------------------------------
(* What an operation makes of stdout and err. *)

\* CleanCache goes on with its second command.
GoesOn(c) ==
    /\ call[c].op = "CleanCache"
    /\ call[c].cmd = "issue"
    /\ CleanCache("issue", call[c].out, call[c].err).err = "nil"

Result(c) == ResultOf(call[c].op, call[c].cmd, call[c].out, call[c].err)

-----------------------------------------------------------------------------
(* The caller. *)

Free == {x \in Exec : run[x].go = "free"}

Active == {c \in Caller : call[c].pc # "idle"}

Start(x, cmd, p, timed) ==
    run' = [run EXCEPT ![x] = [FreeRun EXCEPT !.go = "config", !.cmd = cmd, !.path = p,
                                              !.timed = timed]]

\* An operation is called.  One execution is left for each caller under way.
CallOp(c, o, p) ==
    LET x == CHOOSE y \in Free : TRUE
    IN  /\ call[c].pc = "idle"
        /\ Cardinality(Free) > Cardinality(Active)
        /\ Start(x, Command[o], p, o \notin Untimed)
        /\ call' = [call EXCEPT ![c] = [NoCall EXCEPT !.pc = "wait", !.op = o, !.path = p,
                                                      !.cmd = Command[o], !.exec = x,
                                                      !.seen = {Watched(o, p, fs)}]]
        /\ UNCHANGED <<fs, release, restConfig, clientset, failures>>

\* case <-ch, or the return of execWithoutTimeout itself.
Receive(c) ==
    /\ call[c].pc = "wait"
    /\ run[call[c].exec].done
    /\ call' = [call EXCEPT ![c].pc = "readOut"]
    /\ UNCHANGED <<fs, release, restConfig, clientset, run, failures>>

\* Variant: the timer is not waited for.
TimeoutForgotten(c) == FALSE /\ UNCHANGED vars

\* Variant: the timer fires and leaves err alone.
TimeoutSilent(c) ==
    /\ call[c].pc = "wait"
    /\ run[call[c].exec].timed
    /\ call' = [call EXCEPT ![c].pc = "readOut", ![c].expired = TRUE]
    /\ UNCHANGED <<fs, release, restConfig, clientset, run, failures>>

\* case <-ctx.Done(): the timer sets err while the goroutine may be setting it.
Timeout(c) ==
    /\ call[c].pc = "wait"
    /\ run[call[c].exec].timed
    /\ run' = [run EXCEPT ![call[c].exec].err = "timeout"]
    /\ call' = [call EXCEPT ![c].pc = "readOut", ![c].expired = TRUE]
    /\ UNCHANGED <<fs, release, restConfig, clientset, failures>>

\* return: the results are read one after the other.
ReadOut(c) ==
    /\ call[c].pc = "readOut"
    /\ call' = [call EXCEPT ![c].pc = "readErr", ![c].out = run[call[c].exec].out]
    /\ UNCHANGED <<fs, release, restConfig, clientset, run, failures>>

ReadErr(c) ==
    /\ call[c].pc = "readErr"
    /\ call' = [call EXCEPT ![c].pc = "parse", ![c].err = run[call[c].exec].err,
                            ![c].exec = NoExec]
    /\ run' = [run EXCEPT ![call[c].exec].out = NoOutput, ![call[c].exec].err = "nil"]
    /\ UNCHANGED <<fs, release, restConfig, clientset, failures>>

\* Variant: the command is run without its prefix, as a program called 60.
CleanCacheNextBare(c) ==
    LET x == CHOOSE y \in Free : TRUE
    IN  /\ call[c].pc = "parse"
        /\ GoesOn(c)
        /\ Free # {}
        /\ Start(x, "60", call[c].path, TRUE)
        /\ call' = [call EXCEPT ![c].pc = "wait", ![c].cmd = "free", ![c].exec = x]
        /\ UNCHANGED <<fs, release, restConfig, clientset, failures>>

\* CleanCache: free the cache after the release of the image is known.
CleanCacheNext(c) ==
    LET x == CHOOSE y \in Free : TRUE
    IN  /\ call[c].pc = "parse"
        /\ GoesOn(c)
        /\ Free # {}
        /\ Start(x, "free", call[c].path, TRUE)
        /\ call' = [call EXCEPT ![c].pc = "wait", ![c].cmd = "free",
                                ![c].exec = x]
        /\ UNCHANGED <<fs, release, restConfig, clientset, failures>>

\* A panic ends the process, goroutines and all.
Panic(c) ==
    /\ call' = [d \in Caller |-> [NoCall EXCEPT !.pc = "panic", !.expired = call[c].expired]]
    /\ run' = [x \in Exec |-> FreeRun]

\* The operation returns what it made of the results, or panics.
Return(c) ==
    LET r == Result(c)
    IN  /\ call[c].pc = "parse"
        /\ ~GoesOn(c)
        /\ IF r.panic THEN Panic(c)
                      ELSE call' = [call EXCEPT ![c] = NoCall] /\ UNCHANGED run
        /\ UNCHANGED <<fs, release, restConfig, clientset, failures>>

-----------------------------------------------------------------------------

CallerStep(c) ==
    \/ Receive(c)
    \/ Timeout(c)
    \/ ReadOut(c)
    \/ ReadErr(c)
    \/ CleanCacheNext(c)
    \/ Return(c)

GoStep(x) ==
    \/ CheckConfig(x)
    \/ BuildConfig(x)
    \/ CheckClient(x)
    \/ BuildClient(x)
    \/ DereferenceNil(x)
    \/ WriteOut(x)
    \/ WriteErr(x)
    \/ Send(x)
    \/ Collect(x)

Next ==
    \/ \E c \in Caller : \E o \in Operations[c], p \in Path : CallOp(c, o, p)
    \/ \E c \in Caller : CallerStep(c)
    \/ \E x \in Exec : GoStep(x)
    \/ \E x \in Exec : Execute(x)
    \/ \E p \in Path : Read(p)

Spec == Init /\ [][Next]_vars

\* Goroutines and timers run; a command in the pod may hang, so Execute is not
\* among the fair steps.
FairSpec ==
    /\ Spec
    /\ \A c \in Caller : WF_vars(CallerStep(c))
    /\ \A x \in Exec : WF_vars(GoStep(x))

-----------------------------------------------------------------------------
(* Properties. *)

\* The state keeps its type: executions hold what ExecWithOptions and the
\* timer of exec can put there.
TypeOK ==
    /\ fs \in FileSystem
    /\ release \in Release
    /\ restConfig \in BOOLEAN
    /\ clientset \in BOOLEAN
    /\ run \in [Exec -> Run]
    /\ call \in [Caller -> Call]
    /\ failures \in 0..MaxFailures

\* An operation of AlluxioFileUtils that returns without an error was right at
\* some moment between its call and its return, whatever other callers, timers
\* and broken connections do.
AnswersWithinCall ==
    [][\A c \in Caller :
        LET r == Result(c)
        IN  call[c].pc = "parse" /\ call'[c].pc = "idle" /\ r.err = "nil" =>
                (IF call[c].op \in {"IsExist", "IsMounted"} THEN r.found ELSE TRUE)
                    \in call[c].seen]_vars

\* An index out of range in IsMounted or MasterPodName needs a timer that fired
\* while the goroutine was assigning the results.
PanicOnlyAfterTimeout == \A c \in Caller : call[c].pc = "panic" => call[c].expired

\* initClient (exec.go:65-95) checks and assigns the two package variables without
\* a lock.  As long as building neither has failed, every goroutine that is about
\* to post its command finds both, and none has dereferenced nil, however the
\* checks and assignments of several goroutines interleave.
ClientBuilt ==
    failures = MaxFailures =>
        /\ \A x \in Exec : run[x].go = "run" => clientset /\ restConfig
        /\ \A c \in Caller : call[c].pc # "crash"

\* Once its command is answered a goroutine of exec ends, also when the timer
\* has fired and nobody receives from its channel.
GoroutinesEnd ==
    \A x \in Exec : (run[x].go = "out") ~> (run[x].go = "free")

\* An operation that runs its commands with exec returns although they hang.
CallsReturn ==
    \A c \in Caller :
        (call[c].pc # "idle" /\ call[c].op \notin Untimed) ~>
            call[c].pc \in {"idle", "panic", "crash"}

=============================================================================
