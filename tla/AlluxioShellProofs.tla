------------------------- MODULE AlluxioShellProofs -------------------------
(***************************************************************************)
(* Theorems about AlluxioShell, for any number of callers, paths and       *)
(* executions.                                                             *)
(***************************************************************************)
EXTENDS AlluxioShell, FiniteSetTheorems, TLAPS

-----------------------------------------------------------------------------
(* The inductive invariant. *)

Waiting == {"wait", "readOut", "readErr"}
UnderWay == Waiting \cup {"parse"}

\* A call that waits has an execution of its own, of its command on its path.
Linked(k, r) ==
    /\ k.pc \in Waiting => /\ k.exec \in Exec /\ r.go # "free"
                           /\ r.cmd = k.cmd /\ r.path = k.path
    /\ k.pc \notin Waiting => k.exec = NoExec
    /\ k.pc \in UnderWay =>
          k.cmd = Command[k.op] \/ (k.op = "CleanCache" /\ k.cmd = "free")

\* What a nil error tells about the namespace during call k, and an output.
ErrTrue(k, err) ==
    /\ err = "nil"
    /\ k.op \in {"IsExist", "Mkdir", "Mount", "UnMount"} \/ k.cmd = "free"
    => TRUE \in k.seen

OutTrue(k, out) ==
    /\ k.op = "IsExist" /\ out.says = "does not exist" => FALSE \in k.seen
    /\ k.op = "IsMounted" /\ out.fields >= 3 => (out.says = "on path") \in k.seen

\* Wherever output and error are on their way to the caller they tell the
\* truth, each for itself.
Truth(k, r) ==
    /\ k.pc \in Waiting =>
          /\ OutTrue(k, r.out)
          /\ r.go = "out" => OutTrue(k, r.ans)
          /\ r.go \in {"out", "err"} => ErrTrue(k, r.ansErr)
          /\ r.go \in {"send", "end"} => ErrTrue(k, r.err)
          /\ k.pc # "wait" => ErrTrue(k, r.err)
    /\ k.pc \in {"readErr", "parse"} => OutTrue(k, k.out)
    /\ k.pc = "parse" => ErrTrue(k, k.err)

\* An output that comes with a nil error has the lines and fields that the
\* operation will index.
Shaped(k, out, err) ==
    err = "nil" => /\ k.op = "IsMounted" => out.fields >= 3
                   /\ k.op = "MasterPodName" => out.lines = 2 /\ out.fields = 3

\* As long as no timer has fired, output and error belong together.
Paired(k, r) ==
    ~k.expired =>
        /\ k.pc \in {"wait", "readOut"} =>
              /\ r.go = "out" => Shaped(k, r.ans, r.ansErr)
              /\ r.go = "err" => Shaped(k, r.out, r.ansErr)
              /\ r.go \in {"send", "end"} => Shaped(k, r.out, r.err)
        /\ k.pc \in {"readOut", "readErr"} => r.go = "end"
        /\ k.pc = "readErr" => Shaped(k, k.out, r.err)
        /\ k.pc = "parse" => Shaped(k, k.out, k.err)
        /\ k.pc # "panic"

\* The namespace as it is has been seen.
UpToDate(k, s) == k.pc \in UnderWay => Watched(k.op, k.path, s) \in k.seen

CallOK(k, r, s) == Linked(k, r) /\ Truth(k, r) /\ Paired(k, r) /\ UpToDate(k, s)

OwnExecutions ==
    \A c, d \in Caller : call[c].exec = call[d].exec /\ call[c].exec # NoExec => c = d

RunOK(x) == run[x].done => run[x].go = "end"

ShellInv ==
    /\ TypeOK
    /\ OwnExecutions
    /\ \A x \in Exec : RunOK(x)
    /\ \A c \in Caller : CallOK(call[c], run[call[c].exec], fs)

\* initClient while nothing has failed: whoever has passed a check finds what it
\* checked, since the variables are only ever set.
ClientInv ==
    failures = MaxFailures =>
        /\ \A x \in Exec : run[x].go \in {"client", "new", "run"} => restConfig
        /\ \A x \in Exec : run[x].go = "run" => clientset
        /\ \A c \in Caller : call[c].pc # "crash"

-----------------------------------------------------------------------------
(* Commands, and the values that variables begin with. *)

\* The commands that the parsers depend on.
LEMMA CommandFacts ==
    /\ Command["IsExist"] = "ls" /\ Command["Mkdir"] = "mkdir"
    /\ Command["Mount"] = "mount" /\ Command["UnMount"] = "unmount"
    /\ Command["IsMounted"] = "mounts" /\ Command["MasterPodName"] = "report"
    /\ Command["CleanCache"] = "issue" /\ Command["Ready"] = "report"
    /\ \A o \in Op : Command[o] \in Commands /\ Command[o] # "free"
    /\ "free" \in Commands /\ "print" \in Commands /\ "report" \in Commands
    /\ "Ready" \in Op
<1>1. Op = {"IsExist", "LoadMetaData", "LoadMetadataWithoutTimeout", "Mkdir", "Mount",
            "UnMount", "IsMounted", "Ready", "Du", "Count", "GetFileCount", "Report",
            "MasterPodName", "CachedState", "GetConf", "SyncLocalDir", "CleanCache"}
    BY DEF Op, Command
<1>2. /\ Command["IsExist"] = "ls" /\ Command["Mkdir"] = "mkdir"
      /\ Command["Mount"] = "mount" /\ Command["UnMount"] = "unmount"
      /\ Command["IsMounted"] = "mounts" /\ Command["MasterPodName"] = "report"
      /\ Command["CleanCache"] = "issue" /\ Command["Ready"] = "report"
    BY DEF Command
<1>3. \A o \in Op : Command[o] \in Commands
    BY DEF Commands
<1>4. \A o \in Op : Command[o] # "free"
    BY <1>1 DEF Command
<1>5. "free" \in Commands /\ "report" \in Commands /\ "Ready" \in Op
    BY <1>1, <1>2, <1>3 DEF Commands
<1>6. "print" \in Commands
    <2>1. Command["GetConf"] = "print" /\ "GetConf" \in Op
        BY <1>1 DEF Command
    <2> QED BY <1>3, <2>1
<1> QED BY <1>2, <1>3, <1>4, <1>5, <1>6

\* The commands there are.
LEMMA CommandsAre ==
    Commands \subseteq {"ls", "print", "mkdir", "mount", "unmount", "mounts", "report", "du",
                        "count", "metrics", "issue", "free"}
<1>1. Op = {"IsExist", "LoadMetaData", "LoadMetadataWithoutTimeout", "Mkdir", "Mount",
            "UnMount", "IsMounted", "Ready", "Du", "Count", "GetFileCount", "Report",
            "MasterPodName", "CachedState", "GetConf", "SyncLocalDir", "CleanCache"}
    BY DEF Op, Command
<1>2. \A o \in Op : Command[o] \in {"ls", "print", "mkdir", "mount", "unmount", "mounts",
                                    "report", "du", "count", "metrics", "issue", "free"}
    BY <1>1 DEF Command
<1> QED BY <1>2 DEF Commands

LEMMA InitialValues ==
    /\ NoOutput \in Outputs /\ NoOutput.says = "" /\ NoOutput.fields = 0
    /\ FreeRun \in Run /\ FreeRun.go = "free" /\ ~FreeRun.done
    /\ FreeRun.out = NoOutput
    /\ NoCall \in Call /\ NoCall.pc = "idle" /\ NoCall.exec = NoExec
<1>1. NoOutput \in Outputs /\ NoOutput.says = "" /\ NoOutput.fields = 0
    BY DEF NoOutput, Output, Outputs, Says
<1>2. (CHOOSE p \in Path : TRUE) \in Path
    BY ShellAssumption
<1>3. FreeRun \in Run /\ FreeRun.go = "free" /\ ~FreeRun.done /\ FreeRun.out = NoOutput
    <2> HIDE DEF NoOutput
    <2> QED BY <1>1, <1>2, CommandFacts DEF FreeRun, Run, GoSteps, Errors
<1>4. NoCall \in Call /\ NoCall.pc = "idle" /\ NoCall.exec = NoExec
    BY <1>1, <1>2, CommandFacts DEF NoCall, Call, Errors
<1> QED BY <1>1, <1>3, <1>4

-----------------------------------------------------------------------------
(* What a step does to one execution or to one call. *)

\* Execution x gets these values and keeps its command and path.
RunBecomes(x, go, ans, ansErr, out, err, done) ==
    /\ run' \in [Exec -> Run]
    /\ \A y \in Exec \ {x} : run'[y] = run[y]
    /\ run'[x].go = go /\ run'[x].ans = ans /\ run'[x].ansErr = ansErr
    /\ run'[x].out = out /\ run'[x].err = err /\ run'[x].done = done
    /\ run'[x].cmd = run[x].cmd /\ run'[x].path = run[x].path

LEMMA GoFacts ==
    ASSUME run \in [Exec -> Run], NEW x \in Exec, NEW to \in GoSteps, NEW from, Go(x, from, to)
    PROVE  /\ run[x].go = from
           /\ RunBecomes(x, to, run[x].ans, run[x].ansErr, run[x].out, run[x].err, run[x].done)
<1> DEFINE r == [run[x] EXCEPT !.go = to]
<1>1. run[x] \in Run /\ run[x].go = from /\ run' = [run EXCEPT ![x] = r]
    BY DEF Go
<1>2. /\ r \in Run /\ r.go = to /\ r.ans = run[x].ans /\ r.ansErr = run[x].ansErr
      /\ r.out = run[x].out /\ r.err = run[x].err /\ r.done = run[x].done
      /\ r.cmd = run[x].cmd /\ r.path = run[x].path
    BY <1>1 DEF Run
<1> HIDE DEF r
<1> QED BY <1>1, <1>2 DEF RunBecomes

\* The command is answered.
LEMMA AnswerFacts ==
    ASSUME run \in [Exec -> Run], NEW x \in Exec, NEW out \in Outputs, NEW err \in Errors,
           run' = [run EXCEPT ![x].go = "out", ![x].ans = out, ![x].ansErr = err]
    PROVE  RunBecomes(x, "out", out, err, run[x].out, run[x].err, run[x].done)
<1> DEFINE r == [run[x] EXCEPT !.go = "out", !.ans = out, !.ansErr = err]
<1>1. run[x] \in Run /\ run' = [run EXCEPT ![x] = r]
    OBVIOUS
<1>2. /\ r \in Run /\ r.go = "out" /\ r.ans = out /\ r.ansErr = err
      /\ r.out = run[x].out /\ r.err = run[x].err /\ r.done = run[x].done
      /\ r.cmd = run[x].cmd /\ r.path = run[x].path
    BY <1>1 DEF Run, GoSteps
<1> HIDE DEF r
<1> QED BY <1>1, <1>2, ZenonT(60) DEF RunBecomes

LEMMA WriteOutFacts ==
    ASSUME run \in [Exec -> Run], NEW x \in Exec, WriteOut(x)
    PROVE  RunBecomes(x, "err", NoOutput, run[x].ansErr,
                      IF Referenced(x) THEN run[x].ans ELSE NoOutput, run[x].err, run[x].done)
<1> DEFINE o == IF Referenced(x) THEN run[x].ans ELSE NoOutput
           r == [run[x] EXCEPT !.go = "err", !.ans = NoOutput, !.out = o]
<1>1. run[x] \in Run /\ run' = [run EXCEPT ![x] = r]
    BY DEF WriteOut
<1>2. o \in Outputs
    BY <1>1, InitialValues DEF Run
<1> HIDE DEF o
<1>3. /\ r \in Run /\ r.go = "err" /\ r.ans = NoOutput /\ r.ansErr = run[x].ansErr
      /\ r.out = o /\ r.err = run[x].err /\ r.done = run[x].done
      /\ r.cmd = run[x].cmd /\ r.path = run[x].path
    BY <1>1, <1>2, InitialValues DEF Run, GoSteps
<1> HIDE DEF r
<1>4. RunBecomes(x, "err", NoOutput, run[x].ansErr, o, run[x].err, run[x].done)
    BY <1>1, <1>3 DEF RunBecomes
<1> QED BY <1>4 DEF o

LEMMA WriteErrFacts ==
    ASSUME run \in [Exec -> Run], NEW x \in Exec, WriteErr(x)
    PROVE  RunBecomes(x, "send", run[x].ans, "nil", run[x].out,
                      IF Referenced(x) THEN run[x].ansErr ELSE "nil", run[x].done)
<1> DEFINE e == IF Referenced(x) THEN run[x].ansErr ELSE "nil"
           r == [run[x] EXCEPT !.go = "send", !.ansErr = "nil", !.err = e]
<1>1. run[x] \in Run /\ run' = [run EXCEPT ![x] = r]
    BY DEF WriteErr
<1>2. e \in Errors
    BY <1>1 DEF Run, Errors
<1> HIDE DEF e
<1>3. /\ r \in Run /\ r.go = "send" /\ r.ansErr = "nil" /\ r.ans = run[x].ans
      /\ r.out = run[x].out /\ r.err = e /\ r.done = run[x].done
      /\ r.cmd = run[x].cmd /\ r.path = run[x].path
    BY <1>1, <1>2 DEF Run, GoSteps, Errors
<1> HIDE DEF r
<1>4. RunBecomes(x, "send", run[x].ans, "nil", run[x].out, e, run[x].done)
    BY <1>1, <1>3 DEF RunBecomes
<1> QED BY <1>4 DEF e

LEMMA SendFacts ==
    ASSUME run \in [Exec -> Run], NEW x \in Exec, Send(x)
    PROVE  RunBecomes(x, "end", run[x].ans, run[x].ansErr, run[x].out, run[x].err, TRUE)
<1> DEFINE r == [run[x] EXCEPT !.go = "end", !.done = TRUE]
<1>1. run[x] \in Run /\ run' = [run EXCEPT ![x] = r]
    BY DEF Send
<1>2. /\ r \in Run /\ r.go = "end" /\ r.ans = run[x].ans /\ r.ansErr = run[x].ansErr
      /\ r.out = run[x].out /\ r.err = run[x].err /\ r.done = TRUE
      /\ r.cmd = run[x].cmd /\ r.path = run[x].path
    BY <1>1 DEF Run, GoSteps
<1> HIDE DEF r
<1> QED BY <1>1, <1>2 DEF RunBecomes

\* Call c gets these values and keeps its operation, path and what it has seen.
CallBecomes(c, pc, cmd, exec, out, err, expired) ==
    /\ call' \in [Caller -> Call]
    /\ \A d \in Caller \ {c} : call'[d] = call[d]
    /\ call'[c].pc = pc /\ call'[c].cmd = cmd /\ call'[c].exec = exec
    /\ call'[c].out = out /\ call'[c].err = err /\ call'[c].expired = expired
    /\ call'[c].op = call[c].op /\ call'[c].path = call[c].path
    /\ call'[c].seen = call[c].seen

LEMMA ReceiveFacts ==
    ASSUME call \in [Caller -> Call], NEW c \in Caller, Receive(c)
    PROVE  CallBecomes(c, "readOut", call[c].cmd, call[c].exec, call[c].out, call[c].err,
                       call[c].expired)
<1> DEFINE k == [call[c] EXCEPT !.pc = "readOut"]
<1>1. call[c] \in Call /\ call' = [call EXCEPT ![c] = k]
    BY DEF Receive
<1>2. /\ k \in Call /\ k.pc = "readOut" /\ k.cmd = call[c].cmd /\ k.exec = call[c].exec
      /\ k.out = call[c].out /\ k.err = call[c].err /\ k.expired = call[c].expired
      /\ k.op = call[c].op /\ k.path = call[c].path /\ k.seen = call[c].seen
    BY <1>1 DEF Call
<1> HIDE DEF k
<1> QED BY <1>1, <1>2 DEF CallBecomes

LEMMA TimeoutFacts ==
    ASSUME call \in [Caller -> Call], run \in [Exec -> Run], NEW c \in Caller,
           call[c].exec \in Exec, Timeout(c)
    PROVE  /\ CallBecomes(c, "readOut", call[c].cmd, call[c].exec, call[c].out, call[c].err,
                          TRUE)
           /\ RunBecomes(call[c].exec, run[call[c].exec].go, run[call[c].exec].ans,
                         run[call[c].exec].ansErr, run[call[c].exec].out, "timeout",
                         run[call[c].exec].done)
<1> DEFINE k == [call[c] EXCEPT !.pc = "readOut", !.expired = TRUE]
           x == call[c].exec
           r == [run[x] EXCEPT !.err = "timeout"]
<1>1. /\ call[c] \in Call /\ call' = [call EXCEPT ![c] = k]
      /\ run[x] \in Run /\ run' = [run EXCEPT ![x] = r]
    BY DEF Timeout
<1>2. /\ k \in Call /\ k.pc = "readOut" /\ k.cmd = call[c].cmd /\ k.exec = call[c].exec
      /\ k.out = call[c].out /\ k.err = call[c].err /\ k.expired = TRUE
      /\ k.op = call[c].op /\ k.path = call[c].path /\ k.seen = call[c].seen
    BY <1>1 DEF Call
<1> HIDE DEF k, x
<1>3. /\ r \in Run /\ r.go = run[x].go /\ r.ans = run[x].ans /\ r.ansErr = run[x].ansErr
      /\ r.out = run[x].out /\ r.err = "timeout" /\ r.done = run[x].done
      /\ r.cmd = run[x].cmd /\ r.path = run[x].path
    BY <1>1 DEF Run, Errors
<1> HIDE DEF r
<1>4. CallBecomes(c, "readOut", call[c].cmd, call[c].exec, call[c].out, call[c].err, TRUE)
    BY <1>1, <1>2 DEF CallBecomes
<1>5. x \in Exec
    BY DEF x
<1>6. RunBecomes(x, run[x].go, run[x].ans, run[x].ansErr, run[x].out, "timeout", run[x].done)
    BY <1>1, <1>3, <1>5 DEF RunBecomes
<1> QED BY <1>4, <1>6 DEF x

LEMMA ReadOutFacts ==
    ASSUME call \in [Caller -> Call], run \in [Exec -> Run], NEW c \in Caller,
           call[c].exec \in Exec, ReadOut(c)
    PROVE  CallBecomes(c, "readErr", call[c].cmd, call[c].exec, run[call[c].exec].out,
                       call[c].err, call[c].expired)
<1> DEFINE o == run[call[c].exec].out
           k == [call[c] EXCEPT !.pc = "readErr", !.out = o]
<1>1. call[c] \in Call /\ call' = [call EXCEPT ![c] = k]
    BY DEF ReadOut
<1>2. o \in Outputs
    BY DEF Run
<1> HIDE DEF o
<1>3. /\ k \in Call /\ k.pc = "readErr" /\ k.cmd = call[c].cmd /\ k.exec = call[c].exec
      /\ k.out = o /\ k.err = call[c].err /\ k.expired = call[c].expired
      /\ k.op = call[c].op /\ k.path = call[c].path /\ k.seen = call[c].seen
    BY <1>1, <1>2 DEF Call
<1> HIDE DEF k
<1>4. CallBecomes(c, "readErr", call[c].cmd, call[c].exec, o, call[c].err, call[c].expired)
    BY <1>1, <1>3 DEF CallBecomes
<1> QED BY <1>4 DEF o

LEMMA ReadErrFacts ==
    ASSUME call \in [Caller -> Call], run \in [Exec -> Run], NEW c \in Caller,
           call[c].exec \in Exec, ReadErr(c)
    PROVE  /\ CallBecomes(c, "parse", call[c].cmd, NoExec, call[c].out,
                          run[call[c].exec].err, call[c].expired)
           /\ RunBecomes(call[c].exec, run[call[c].exec].go, run[call[c].exec].ans,
                         run[call[c].exec].ansErr, NoOutput, "nil", run[call[c].exec].done)
<1> DEFINE x == call[c].exec
           e == run[x].err
           k == [call[c] EXCEPT !.pc = "parse", !.err = e, !.exec = NoExec]
           r == [run[x] EXCEPT !.out = NoOutput, !.err = "nil"]
<1>1. /\ call[c] \in Call /\ call' = [call EXCEPT ![c] = k]
      /\ run[x] \in Run /\ run' = [run EXCEPT ![x] = r] /\ x \in Exec
    BY DEF ReadErr
<1>2. e \in Errors
    BY <1>1 DEF Run
<1> HIDE DEF e, x
<1>3. /\ k \in Call /\ k.pc = "parse" /\ k.cmd = call[c].cmd /\ k.exec = NoExec
      /\ k.out = call[c].out /\ k.err = e /\ k.expired = call[c].expired
      /\ k.op = call[c].op /\ k.path = call[c].path /\ k.seen = call[c].seen
    BY <1>1, <1>2 DEF Call
<1>4. /\ r \in Run /\ r.go = run[x].go /\ r.ans = run[x].ans /\ r.ansErr = run[x].ansErr
      /\ r.out = NoOutput /\ r.err = "nil" /\ r.done = run[x].done
      /\ r.cmd = run[x].cmd /\ r.path = run[x].path
    BY <1>1, InitialValues DEF Run, Errors
<1> HIDE DEF k, r
<1>5. CallBecomes(c, "parse", call[c].cmd, NoExec, call[c].out, e, call[c].expired)
    BY <1>1, <1>3 DEF CallBecomes
<1>6. RunBecomes(x, run[x].go, run[x].ans, run[x].ansErr, NoOutput, "nil", run[x].done)
    BY <1>1, <1>4 DEF RunBecomes
<1> QED BY <1>5, <1>6 DEF e, x

\* A new execution.
LEMMA StartFacts ==
    ASSUME run \in [Exec -> Run], NEW x \in Exec, NEW cmd \in Commands, NEW p \in Path,
           NEW timed \in BOOLEAN, Start(x, cmd, p, timed)
    PROVE  /\ run' \in [Exec -> Run]
           /\ \A y \in Exec \ {x} : run'[y] = run[y]
           /\ run'[x].go = "config" /\ run'[x].cmd = cmd /\ run'[x].path = p
           /\ run'[x].out = NoOutput /\ ~run'[x].done
<1> DEFINE r == [FreeRun EXCEPT !.go = "config", !.cmd = cmd, !.path = p, !.timed = timed]
<1>1. run' = [run EXCEPT ![x] = r]
    BY DEF Start
<1>2. /\ r \in Run /\ r.go = "config" /\ r.cmd = cmd /\ r.path = p
      /\ r.out = NoOutput /\ r.done = FALSE
    BY InitialValues DEF Run, GoSteps
<1> HIDE DEF r
<1> QED BY <1>1, <1>2

-----------------------------------------------------------------------------
(* What commands do and say. *)

Outcome(s, out, err) == [fs |-> s, out |-> out, err |-> err]
Said == Output("text", 1, 4, FALSE)
Missing == Output("does not exist", 1, 4, FALSE)

\* The commands one by one.
LEMMA EffectIs ==
    ASSUME NEW p
    PROVE  /\ Effect("ls", p) =
                  IF p \in fs.exists THEN Outcome(fs, Output("text", 2, 4, FALSE), "nil")
                                     ELSE Outcome(fs, Missing, "exit")
           /\ Effect("mkdir", p) =
                  IF p \in fs.exists THEN Outcome(fs, Said, "exit")
                  ELSE Outcome([fs EXCEPT !.exists = @ \cup {p}], Said, "nil")
           /\ Effect("mount", p) =
                  IF p \in fs.exists THEN Outcome(fs, Said, "exit")
                  ELSE Outcome([fs EXCEPT !.exists = @ \cup {p}, !.mounted = @ \cup {p}],
                               Said, "nil")
           /\ Effect("unmount", p) =
                  IF p \notin fs.mounted THEN Outcome(fs, Said, "exit")
                  ELSE Outcome([exists |-> fs.exists \ {p}, mounted |-> fs.mounted \ {p},
                                cached |-> fs.cached \ {p}], Said, "nil")
           /\ Effect("free", p) =
                  IF p \notin fs.exists THEN Outcome(fs, Missing, "exit")
                  ELSE Outcome([fs EXCEPT !.cached = @ \ {p}], Said, "nil")
           /\ Effect("mounts", p) =
                  Outcome(fs, Output(IF p \in fs.mounted THEN "on path" ELSE "elsewhere",
                                     2, 4, FALSE), "nil")
           /\ Effect("issue", p) = Outcome(fs, Output(release, 1, 3, FALSE), "nil")
           /\ Effect("report", p) = Outcome(fs, Output("Used Capacity:", 2, 3, TRUE), "nil")
           /\ Effect("du", p) =
                  IF p \in fs.exists THEN Outcome(fs, Output("text", 2, 4, TRUE), "nil")
                                     ELSE Outcome(fs, Missing, "exit")
           /\ Effect("count", p) =
                  IF p \in fs.exists THEN Outcome(fs, Output("text", 2, 3, TRUE), "nil")
                                     ELSE Outcome(fs, Missing, "exit")
           /\ Effect("metrics", p) = Outcome(fs, Output("text", 1, 4, TRUE), "nil")
           /\ Effect("print", p) = Outcome(fs, Output("text", 2, 4, FALSE), "nil")
<1>1. Effect("ls", p) =
          IF p \in fs.exists THEN Outcome(fs, Output("text", 2, 4, FALSE), "nil")
                             ELSE Outcome(fs, Missing, "exit")
    BY DEF Effect, Outcome, Missing
<1>2. Effect("mkdir", p) =
          IF p \in fs.exists THEN Outcome(fs, Said, "exit")
          ELSE Outcome([fs EXCEPT !.exists = @ \cup {p}], Said, "nil")
    BY DEF Effect, Outcome, Said
<1>3. Effect("mount", p) =
          IF p \in fs.exists THEN Outcome(fs, Said, "exit")
          ELSE Outcome([fs EXCEPT !.exists = @ \cup {p}, !.mounted = @ \cup {p}], Said, "nil")
    BY DEF Effect, Outcome, Said
<1>4. Effect("unmount", p) =
          IF p \notin fs.mounted THEN Outcome(fs, Said, "exit")
          ELSE Outcome([exists |-> fs.exists \ {p}, mounted |-> fs.mounted \ {p},
                        cached |-> fs.cached \ {p}], Said, "nil")
    BY DEF Effect, Outcome, Said
<1>5. Effect("free", p) =
          IF p \notin fs.exists THEN Outcome(fs, Missing, "exit")
          ELSE Outcome([fs EXCEPT !.cached = @ \ {p}], Said, "nil")
    BY DEF Effect, Outcome, Said, Missing
<1>6. Effect("mounts", p) =
          Outcome(fs, Output(IF p \in fs.mounted THEN "on path" ELSE "elsewhere", 2, 4, FALSE),
                  "nil")
    BY DEF Effect, Outcome
<1>7. /\ Effect("issue", p) = Outcome(fs, Output(release, 1, 3, FALSE), "nil")
      /\ Effect("report", p) = Outcome(fs, Output("Used Capacity:", 2, 3, TRUE), "nil")
    BY DEF Effect, Outcome
<1>8. Effect("du", p) =
          IF p \in fs.exists THEN Outcome(fs, Output("text", 2, 4, TRUE), "nil")
                             ELSE Outcome(fs, Missing, "exit")
    BY DEF Effect, Outcome, Missing
<1>9. Effect("count", p) =
          IF p \in fs.exists THEN Outcome(fs, Output("text", 2, 3, TRUE), "nil")
                             ELSE Outcome(fs, Missing, "exit")
    BY DEF Effect, Outcome, Missing
<1>10. /\ Effect("metrics", p) = Outcome(fs, Output("text", 1, 4, TRUE), "nil")
       /\ Effect("print", p) = Outcome(fs, Output("text", 2, 4, FALSE), "nil")
    BY DEF Effect, Outcome
<1> QED BY <1>1, <1>2, <1>3, <1>4, <1>5, <1>6, <1>7, <1>8, <1>9, <1>10

LEMMA OutcomeFields ==
    ASSUME NEW s, NEW out, NEW err
    PROVE  /\ Outcome(s, out, err).fs = s
           /\ Outcome(s, out, err).out = out
           /\ Outcome(s, out, err).err = err
BY DEF Outcome

LEMMA OutputFields ==
    ASSUME NEW says, NEW lines, NEW fields, NEW numbers
    PROVE  /\ Output(says, lines, fields, numbers).says = says
           /\ Output(says, lines, fields, numbers).lines = lines
           /\ Output(says, lines, fields, numbers).fields = fields
           /\ (says \in Says /\ lines \in 1..2 /\ fields \in 0..4 /\ numbers \in BOOLEAN) =>
                  Output(says, lines, fields, numbers) \in Outputs
BY DEF Output, Outputs

LEMMA EffectType ==
    ASSUME fs \in FileSystem, release \in Release, NEW cmd \in Commands, NEW p \in Path
    PROVE  /\ Effect(cmd, p).fs \in FileSystem
           /\ Effect(cmd, p).out \in Outputs
           /\ Effect(cmd, p).err \in {"nil", "exit"}
<1>1. cmd \in {"ls", "print", "mkdir", "mount", "unmount", "mounts", "report", "du",
               "count", "metrics", "issue", "free"}
    BY CommandsAre
<1>2. /\ "text" \in Says /\ "does not exist" \in Says /\ "on path" \in Says
      /\ "elsewhere" \in Says /\ "Used Capacity:" \in Says /\ release \in Says
      /\ 1 \in 1..2 /\ 2 \in 1..2 /\ 3 \in 0..4 /\ 4 \in 0..4
    <2>1. 1 \in 1..2 /\ 2 \in 1..2 /\ 3 \in 0..4 /\ 4 \in 0..4
        OBVIOUS
    <2>2. /\ "text" \in Says /\ "does not exist" \in Says /\ "on path" \in Says
          /\ "elsewhere" \in Says /\ "Used Capacity:" \in Says
        BY DEF Says
    <2>3. release \in Says
        BY DEF Says
    <2> QED BY <2>1, <2>2, <2>3
<1>3. Said \in Outputs /\ Missing \in Outputs
    BY <1>2, OutputFields DEF Said, Missing
<1>4. /\ fs.exists \in SUBSET Path /\ fs.mounted \in SUBSET Path /\ fs.cached \in SUBSET Path
    BY DEF FileSystem
<1>5. ASSUME NEW e, NEW s \in FileSystem, NEW out \in Outputs, NEW err \in {"nil", "exit"},
             e = Outcome(s, out, err)
      PROVE  e.fs \in FileSystem /\ e.out \in Outputs /\ e.err \in {"nil", "exit"}
    BY <1>5, OutcomeFields
<1>6. CASE cmd \in {"ls", "du", "count"}
    <2>1. /\ Output("text", 2, 4, FALSE) \in Outputs /\ Output("text", 2, 4, TRUE) \in Outputs
          /\ Output("text", 2, 3, TRUE) \in Outputs
        BY <1>2, OutputFields
    <2>2. CASE p \in fs.exists
        BY <1>5, <1>6, <2>1, <2>2, EffectIs, ZenonT(60)
    <2>3. CASE p \notin fs.exists
        BY <1>3, <1>5, <1>6, <2>3, EffectIs
    <2> QED BY <2>2, <2>3
<1>7. CASE cmd \in {"print", "metrics", "report"}
    <2>1. /\ Output("text", 2, 4, FALSE) \in Outputs /\ Output("text", 1, 4, TRUE) \in Outputs
          /\ Output("Used Capacity:", 2, 3, TRUE) \in Outputs
        BY <1>2, OutputFields
    <2> QED BY <1>5, <1>7, <2>1, EffectIs
<1>8. CASE cmd = "issue"
    <2>1. Output(release, 1, 3, FALSE) \in Outputs
        BY <1>2, OutputFields
    <2> QED BY <1>5, <1>8, <2>1, EffectIs
<1>9. CASE cmd = "mounts"
    <2>1. Output(IF p \in fs.mounted THEN "on path" ELSE "elsewhere", 2, 4, FALSE) \in Outputs
        BY <1>2, OutputFields
    <2> QED BY <1>5, <1>9, <2>1, EffectIs
<1>10. CASE cmd = "mkdir"
    <2>1. [fs EXCEPT !.exists = @ \cup {p}] \in FileSystem
        BY DEF FileSystem
    <2> QED BY <1>3, <1>5, <1>10, <2>1, EffectIs, ZenonT(60)
<1>11. CASE cmd = "mount"
    <2>1. [fs EXCEPT !.exists = @ \cup {p}, !.mounted = @ \cup {p}] \in FileSystem
        BY DEF FileSystem
    <2> QED BY <1>3, <1>5, <1>11, <2>1, EffectIs, ZenonT(60)
<1>12. CASE cmd = "unmount"
    <2>1. [exists |-> fs.exists \ {p}, mounted |-> fs.mounted \ {p},
           cached |-> fs.cached \ {p}] \in FileSystem
        BY DEF FileSystem
    <2> QED BY <1>3, <1>5, <1>12, <2>1, EffectIs, ZenonT(60)
<1>13. CASE cmd = "free"
    <2>1. [fs EXCEPT !.cached = @ \ {p}] \in FileSystem
        BY DEF FileSystem
    <2> QED BY <1>3, <1>5, <1>13, <2>1, EffectIs
<1> QED BY <1>1, <1>6, <1>7, <1>8, <1>9, <1>10, <1>11, <1>12, <1>13

\* A command that succeeds has brought about what its operation is for, or has
\* found it so; what it says about the path is so.
Honest(o, cmd, seen, e) ==
    /\ /\ e.err = "nil"
       /\ o \in {"IsExist", "Mkdir", "Mount", "UnMount"} \/ cmd = "free"
       => TRUE \in seen
    /\ o = "IsExist" /\ e.out.says = "does not exist" => FALSE \in seen
    /\ o = "IsMounted" => e.out.fields = 4 /\ (e.out.says = "on path") \in seen
    /\ o = "MasterPodName" => e.out.lines = 2 /\ e.out.fields = 3

LEMMA EffectTrue ==
    ASSUME fs \in FileSystem, NEW o \in Op, NEW p \in Path,
           NEW cmd, cmd = Command[o] \/ (o = "CleanCache" /\ cmd = "free"),
           NEW seen, Watched(o, p, fs) \in seen, Watched(o, p, Effect(cmd, p).fs) \in seen
    PROVE  Honest(o, cmd, seen, Effect(cmd, p))
<1> SUFFICES /\ /\ Effect(cmd, p).err = "nil"
                /\ o \in {"IsExist", "Mkdir", "Mount", "UnMount"} \/ cmd = "free"
                => TRUE \in seen
             /\ o = "IsExist" /\ Effect(cmd, p).out.says = "does not exist" => FALSE \in seen
             /\ o = "IsMounted" => /\ Effect(cmd, p).out.fields = 4
                                   /\ (Effect(cmd, p).out.says = "on path") \in seen
             /\ o = "MasterPodName" => /\ Effect(cmd, p).out.lines = 2
                                       /\ Effect(cmd, p).out.fields = 3
    BY DEF Honest
<1>1. CASE o = "IsExist"
    <2>1. cmd = "ls"
        BY <1>1, CommandFacts
    <2>2. CASE p \in fs.exists
        <3>1. Effect(cmd, p) = Outcome(fs, Output("text", 2, 4, FALSE), "nil")
            BY <2>1, <2>2, EffectIs
        <3>2. Effect(cmd, p).out.says = "text"
            BY <3>1 DEF Outcome, Output
        <3>3. Watched(o, p, fs) = TRUE
            BY <1>1, <2>2 DEF Watched
        <3> QED BY <1>1, <3>2, <3>3
    <2>3. CASE p \notin fs.exists
        <3>1. Effect(cmd, p) = Outcome(fs, Missing, "exit")
            BY <2>1, <2>3, EffectIs
        <3>2. Effect(cmd, p).err = "exit"
            BY <3>1, OutcomeFields
        <3>3. Watched(o, p, fs) = FALSE
            BY <1>1, <2>3 DEF Watched
        <3> QED BY <1>1, <2>1, <3>2, <3>3
    <2> QED BY <2>2, <2>3
<1>2. CASE o = "Mkdir"
    <2>1. cmd = "mkdir"
        BY <1>2, CommandFacts
    <2>2. CASE p \in fs.exists
        <3>1. Watched(o, p, fs) = TRUE
            BY <1>2, <2>2 DEF Watched
        <3> QED BY <1>2, <3>1
    <2>3. CASE p \notin fs.exists
        <3> DEFINE new == [fs EXCEPT !.exists = @ \cup {p}]
        <3>1. Effect(cmd, p) = Outcome(new, Said, "nil")
            BY <2>1, <2>3, EffectIs
        <3>2. p \in new.exists
            BY DEF FileSystem
        <3> HIDE DEF new
        <3>3. Effect(cmd, p).fs = new
            BY <3>1, OutcomeFields
        <3>4. Watched(o, p, Effect(cmd, p).fs) = TRUE
            BY <1>2, <3>2, <3>3 DEF Watched
        <3> QED BY <1>2, <3>4
    <2> QED BY <2>2, <2>3
<1>3. CASE o = "Mount"
    <2>1. cmd = "mount"
        BY <1>3, CommandFacts
    <2>2. CASE p \in fs.exists
        <3>1. Effect(cmd, p) = Outcome(fs, Said, "exit")
            BY <2>1, <2>2, EffectIs
        <3>2. Effect(cmd, p).err = "exit"
            BY <3>1, OutcomeFields
        <3> QED BY <1>3, <3>2
    <2>3. CASE p \notin fs.exists
        <3> DEFINE new == [fs EXCEPT !.exists = @ \cup {p}, !.mounted = @ \cup {p}]
        <3>1. Effect(cmd, p) = Outcome(new, Said, "nil")
            BY <2>1, <2>3, EffectIs
        <3>2. p \in new.mounted
            BY DEF FileSystem
        <3> HIDE DEF new
        <3>3. Effect(cmd, p).fs = new
            BY <3>1, OutcomeFields
        <3>4. Watched(o, p, Effect(cmd, p).fs) = TRUE
            BY <1>3, <3>2, <3>3 DEF Watched
        <3> QED BY <1>3, <3>4
    <2> QED BY <2>2, <2>3
<1>4. CASE o = "UnMount"
    <2>1. cmd = "unmount"
        BY <1>4, CommandFacts
    <2>2. CASE p \notin fs.mounted
        <3>1. Watched(o, p, fs) = TRUE
            BY <1>4, <2>2 DEF Watched
        <3> QED BY <1>4, <3>1
    <2>3. CASE p \in fs.mounted
        <3> DEFINE new == [exists |-> fs.exists \ {p}, mounted |-> fs.mounted \ {p},
                           cached |-> fs.cached \ {p}]
        <3>1. Effect(cmd, p) = Outcome(new, Said, "nil")
            BY <2>1, <2>3, EffectIs
        <3>2. p \notin new.mounted
            OBVIOUS
        <3> HIDE DEF new
        <3>3. Effect(cmd, p).fs = new
            BY <3>1, OutcomeFields
        <3>4. Watched(o, p, Effect(cmd, p).fs) = TRUE
            BY <1>4, <3>2, <3>3 DEF Watched
        <3> QED BY <1>4, <3>4
    <2> QED BY <2>2, <2>3
<1>5. CASE o = "IsMounted"
    <2>1. cmd = "mounts" /\ cmd # "free"
        BY <1>5, CommandFacts
    <2> DEFINE says == IF p \in fs.mounted THEN "on path" ELSE "elsewhere"
    <2>2. Effect(cmd, p) = Outcome(fs, Output(says, 2, 4, FALSE), "nil")
        BY <2>1, EffectIs
    <2>3. (says = "on path") = Watched(o, p, fs)
        BY <1>5 DEF Watched
    <2> HIDE DEF says
    <2>4. Effect(cmd, p).out.says = says /\ Effect(cmd, p).out.fields = 4
        BY <2>2 DEF Outcome, Output
    <2> QED BY <1>5, <2>1, <2>3, <2>4
<1>6. CASE o = "CleanCache"
    <2>1. CASE cmd = "free" /\ p \in fs.exists
        <3> DEFINE new == [fs EXCEPT !.cached = @ \ {p}]
        <3>1. Effect(cmd, p) = Outcome(new, Said, "nil")
            BY <2>1, EffectIs
        <3>2. p \notin new.cached
            BY DEF FileSystem
        <3> HIDE DEF new
        <3>3. Effect(cmd, p).fs = new
            BY <3>1, OutcomeFields
        <3>4. Watched(o, p, Effect(cmd, p).fs) = TRUE
            BY <1>6, <3>2, <3>3 DEF Watched
        <3> QED BY <1>6, <3>4
    <2>2. CASE cmd = "free" /\ p \notin fs.exists
        <3>1. Effect(cmd, p) = Outcome(fs, Missing, "exit")
            BY <2>2, EffectIs
        <3>2. Effect(cmd, p).err = "exit"
            BY <3>1, OutcomeFields
        <3> QED BY <1>6, <3>2
    <2>3. CASE cmd # "free"
        BY <1>6, <2>3
    <2> QED BY <2>1, <2>2, <2>3
<1>7. CASE o = "MasterPodName"
    <2>1. cmd = "report" /\ cmd # "free"
        BY <1>7, CommandFacts
    <2> DEFINE says == "Used Capacity:"
    <2>2. Effect(cmd, p) = Outcome(fs, Output(says, 2, 3, TRUE), "nil")
        BY <2>1, EffectIs
    <2> HIDE DEF says
    <2>3. Effect(cmd, p).out.lines = 2 /\ Effect(cmd, p).out.fields = 3
        BY <2>2 DEF Outcome, Output
    <2> QED BY <1>7, <2>1, <2>3
<1>8. CASE o \notin {"IsExist", "Mkdir", "Mount", "UnMount", "IsMounted", "CleanCache",
                     "MasterPodName"}
    <2>1. cmd # "free"
        BY <1>8, CommandFacts
    <2> QED BY <1>8, <2>1
<1> QED BY <1>1, <1>2, <1>3, <1>4, <1>5, <1>6, <1>7, <1>8

-----------------------------------------------------------------------------
(* How a call and its execution go on: k and r before a step, j and q after. *)

\* A call without an execution does not depend on any.
LEMMA WithoutExecution ==
    ASSUME NEW k, NEW r, NEW q, NEW s, CallOK(k, r, s), k.pc \notin Waiting
    PROVE  CallOK(k, q, s)
BY DEF CallOK, Linked, Truth, Paired, UpToDate, Waiting

\* The goroutine is on its way to the command.
LEMMA BeforeCommand ==
    ASSUME NEW k, NEW r, NEW q, NEW s, CallOK(k, r, s),
           r.go \in {"config", "build", "client", "new"},
           q.go \in {"config", "build", "client", "new", "run"},
           q.out = r.out, q.err = r.err, q.cmd = r.cmd, q.path = r.path
    PROVE  CallOK(k, q, s)
BY DEF CallOK, Linked, Truth, Paired, UpToDate, Waiting

\* The command is answered.
LEMMA CommandAnswered ==
    ASSUME NEW k, NEW r, NEW q, NEW s, CallOK(k, r, s),
           r.go \in {"build", "new", "run"}, q.go = "out",
           OutTrue(k, q.ans), ErrTrue(k, q.ansErr), Shaped(k, q.ans, q.ansErr),
           q.out = r.out, q.err = r.err, q.cmd = r.cmd, q.path = r.path
    PROVE  CallOK(k, q, s)
BY DEF CallOK, Linked, Truth, Paired, UpToDate, Waiting

\* Without an output nothing is claimed,
LEMMA SilenceIsTrue ==
    ASSUME NEW k
    PROVE  OutTrue(k, NoOutput)
<1>1. NoOutput.fields = 0
    BY InitialValues
<1>2. NoOutput.says # "does not exist"
    BY InitialValues
<1>3. ~(NoOutput.fields >= 3)
    BY <1>1
<1> QED BY <1>2, <1>3 DEF OutTrue

\* nor with an error.
LEMMA NothingSaid ==
    ASSUME NEW k, NEW err, err # "nil"
    PROVE  OutTrue(k, NoOutput) /\ ErrTrue(k, err) /\ Shaped(k, NoOutput, err)
<1>1. OutTrue(k, NoOutput)
    BY SilenceIsTrue
<1>2. ErrTrue(k, err)
    BY DEF ErrTrue
<1>3. Shaped(k, NoOutput, err)
    BY DEF Shaped
<1> QED BY <1>1, <1>2, <1>3

LEMMA OutWritten ==
    ASSUME NEW k, NEW r, NEW q, NEW s, CallOK(k, r, s), r.go = "out", q.go = "err",
           q.out = r.ans, q.ansErr = r.ansErr, q.err = r.err, q.cmd = r.cmd, q.path = r.path
    PROVE  CallOK(k, q, s)
BY DEF CallOK, Linked, Truth, Paired, UpToDate, Waiting

LEMMA ErrWritten ==
    ASSUME NEW k, NEW r, NEW q, NEW s, CallOK(k, r, s), r.go = "err", q.go = "send",
           q.out = r.out, q.err = r.ansErr, q.cmd = r.cmd, q.path = r.path
    PROVE  CallOK(k, q, s)
BY DEF CallOK, Linked, Truth, Paired, UpToDate, Waiting

LEMMA Sent ==
    ASSUME NEW k, NEW r, NEW q, NEW s, CallOK(k, r, s), r.go = "send", q.go = "end",
           q.out = r.out, q.err = r.err, q.cmd = r.cmd, q.path = r.path
    PROVE  CallOK(k, q, s)
BY DEF CallOK, Linked, Truth, Paired, UpToDate, Waiting

\* The caller goes on in the same call.
SameCall(j, k) ==
    j.op = k.op /\ j.path = k.path /\ j.cmd = k.cmd /\ j.seen = k.seen

\* What a call says of itself depends on its operation and what it has seen.
LEMMA SameClaims ==
    ASSUME NEW j, NEW k, SameCall(j, k), NEW out, NEW err
    PROVE  /\ OutTrue(j, out) <=> OutTrue(k, out)
           /\ ErrTrue(j, err) <=> ErrTrue(k, err)
           /\ Shaped(j, out, err) <=> Shaped(k, out, err)
BY DEF SameCall, OutTrue, ErrTrue, Shaped

LEMMA Received ==
    ASSUME NEW k, NEW r, NEW j, NEW s, CallOK(k, r, s), k.pc = "wait", r.go = "end",
           SameCall(j, k), j.pc = "readOut", j.exec = k.exec, j.expired = k.expired
    PROVE  CallOK(j, r, s)
BY SameClaims DEF CallOK, Linked, Truth, Paired, UpToDate, Waiting, UnderWay, SameCall

LEMMA TimedOut ==
    ASSUME NEW k, NEW r, NEW j, NEW q, NEW s, CallOK(k, r, s), k.pc = "wait",
           SameCall(j, k), j.pc = "readOut", j.exec = k.exec, j.expired,
           q.go = r.go, q.ans = r.ans, q.ansErr = r.ansErr, q.out = r.out, q.err = "timeout",
           q.cmd = r.cmd, q.path = r.path
    PROVE  CallOK(j, q, s)
<1>1. ErrTrue(j, q.err)
    BY DEF ErrTrue
<1> QED BY <1>1, SameClaims
        DEF CallOK, Linked, Truth, Paired, UpToDate, Waiting, UnderWay, SameCall

LEMMA OutRead ==
    ASSUME NEW k, NEW r, NEW j, NEW s, CallOK(k, r, s), k.pc = "readOut",
           SameCall(j, k), j.pc = "readErr", j.exec = k.exec, j.expired = k.expired,
           j.out = r.out
    PROVE  CallOK(j, r, s)
BY SameClaims DEF CallOK, Linked, Truth, Paired, UpToDate, Waiting, UnderWay, SameCall

LEMMA ErrRead ==
    ASSUME NEW k, NEW r, NEW j, NEW q, NEW s, CallOK(k, r, s), k.pc = "readErr",
           SameCall(j, k), j.pc = "parse", j.exec = NoExec, j.expired = k.expired,
           j.out = k.out, j.err = r.err
    PROVE  CallOK(j, q, s)
BY SameClaims DEF CallOK, Linked, Truth, Paired, UpToDate, Waiting, UnderWay, SameCall

\* A call begins, or goes on with the second command.
LEMMA CommandStarted ==
    ASSUME NEW j, NEW q, NEW s, j.pc = "wait", j.exec \in Exec, q.go = "config",
           q.cmd = j.cmd, q.path = j.path, q.out = NoOutput,
           j.cmd = Command[j.op] \/ (j.op = "CleanCache" /\ j.cmd = "free"),
           Watched(j.op, j.path, s) \in j.seen
    PROVE  CallOK(j, q, s)
<1>1. OutTrue(j, q.out)
    BY SilenceIsTrue
<1> QED BY <1>1 DEF CallOK, Linked, Truth, Paired, UpToDate, Waiting, UnderWay

\* No call, or the call of a process that has ended.
LEMMA NothingUnderWay ==
    ASSUME NEW k, NEW r, NEW s, k.pc \in {"idle", "panic", "crash"}, k.exec = NoExec,
           k.pc = "panic" => k.expired
    PROVE  CallOK(k, r, s)
BY DEF CallOK, Linked, Truth, Paired, UpToDate, Waiting, UnderWay

\* The namespace changes and the call sees it.
LEMMA ChangeSeen ==
    ASSUME NEW k, NEW r, NEW j, NEW s, NEW new, CallOK(k, r, s),
           j.op = k.op, j.path = k.path, j.cmd = k.cmd, j.pc = k.pc, j.exec = k.exec,
           j.out = k.out, j.err = k.err, j.expired = k.expired,
           k.seen \subseteq j.seen,
           k.pc \in UnderWay => Watched(k.op, k.path, new) \in j.seen
    PROVE  CallOK(j, r, new)
<1>1. ASSUME NEW out, NEW err
      PROVE  /\ OutTrue(k, out) => OutTrue(j, out)
             /\ ErrTrue(k, err) => ErrTrue(j, err)
             /\ Shaped(k, out, err) => Shaped(j, out, err)
    BY DEF OutTrue, ErrTrue, Shaped
<1>2. UpToDate(j, new)
    BY DEF UpToDate
<1> QED BY <1>1, <1>2 DEF CallOK, Linked, Truth, Paired

-----------------------------------------------------------------------------
(* Steps of goroutines. *)

\* What is to be shown of a step that changes one execution and no call.
LEMMA OneExecution ==
    ASSUME ShellInv, TypeOK', NEW x \in Exec, UNCHANGED <<fs, call>>,
           \A y \in Exec \ {x} : run'[y] = run[y],
           RunOK(x)',
           \A c \in Caller :
               call[c].exec = x /\ call[c].pc \in Waiting => CallOK(call[c], run'[x], fs)
    PROVE  ShellInv'
<1>1. OwnExecutions'
    BY DEF ShellInv, OwnExecutions
<1>2. ASSUME NEW y \in Exec
      PROVE  RunOK(y)'
    <2>1. CASE y = x
        BY <2>1
    <2>2. CASE y # x
        <3>1. RunOK(y) /\ run'[y] = run[y]
            BY <2>2 DEF ShellInv
        <3> QED BY <3>1 DEF RunOK
    <2> QED BY <2>1, <2>2
<1>3. ASSUME NEW c \in Caller
      PROVE  CallOK(call[c], run'[call[c].exec], fs)
    <2>1. CallOK(call[c], run[call[c].exec], fs)
        BY DEF ShellInv
    <2>2. CASE call[c].pc \notin Waiting
        BY <2>1, <2>2, WithoutExecution
    <2>3. CASE call[c].pc \in Waiting /\ call[c].exec = x
        BY <2>3
    <2>4. CASE call[c].pc \in Waiting /\ call[c].exec # x
        <3>1. call[c].exec \in Exec
            BY <2>1, <2>4 DEF CallOK, Linked
        <3> QED BY <2>1, <2>4, <3>1
    <2> QED BY <2>2, <2>3, <2>4
<1>4. \A c \in Caller : CallOK(call[c], run[call[c].exec], fs)'
    BY <1>3
<1> QED BY <1>1, <1>2, <1>4 DEF ShellInv

\* A call that waits for an execution, and what is known of it.
LEMMA ItsCall ==
    ASSUME ShellInv, NEW x \in Exec, NEW c \in Caller, call[c].exec = x
    PROVE  CallOK(call[c], run[x], fs)
BY DEF ShellInv

\* What is known of the variables.
LEMMA Types ==
    ASSUME ShellInv
    PROVE  /\ run \in [Exec -> Run] /\ call \in [Caller -> Call]
           /\ fs \in FileSystem /\ release \in Release
           /\ restConfig \in BOOLEAN /\ clientset \in BOOLEAN
           /\ failures \in 0..MaxFailures
BY DEF ShellInv, TypeOK

LEMMA CheckConfigStep ==
    ASSUME ShellInv, NEW x \in Exec, CheckConfig(x)
    PROVE  ShellInv'
<1> DEFINE to == IF restConfig THEN "client" ELSE "build"
           r == run[x]
<1>1. Go(x, "config", to) /\ UNCHANGED <<fs, release, restConfig, clientset, call, failures>>
    BY DEF CheckConfig
<1>2. to \in {"build", "client"} /\ to \in GoSteps
    BY DEF GoSteps
<1> HIDE DEF to
<1>3. /\ r.go = "config"
      /\ RunBecomes(x, to, r.ans, r.ansErr, r.out, r.err, r.done)
    BY <1>1, <1>2, Types, GoFacts
<1>4. TypeOK'
    BY <1>1, <1>3, Types DEF TypeOK, RunBecomes
<1>5. RunOK(x)'
    <2>1. RunOK(x)
        BY DEF ShellInv
    <2> QED BY <1>1, <1>2, <1>3, <2>1 DEF RunOK, RunBecomes
<1>6. ASSUME NEW c \in Caller, call[c].exec = x
      PROVE  CallOK(call[c], run'[x], fs)
    <2>1. CallOK(call[c], r, fs)
        BY <1>6, ItsCall
    <2> QED BY <1>2, <1>3, <2>1, BeforeCommand DEF RunBecomes
<1> QED BY <1>1, <1>3, <1>4, <1>5, <1>6, OneExecution DEF RunBecomes

LEMMA CheckClientStep ==
    ASSUME ShellInv, NEW x \in Exec, CheckClient(x)
    PROVE  ShellInv'
<1> DEFINE to == IF clientset THEN "run" ELSE "new"
           r == run[x]
<1>1. Go(x, "client", to) /\ UNCHANGED <<fs, release, restConfig, clientset, call, failures>>
    BY DEF CheckClient
<1>2. to \in {"run", "new"} /\ to \in GoSteps
    BY DEF GoSteps
<1> HIDE DEF to
<1>3. /\ r.go = "client"
      /\ RunBecomes(x, to, r.ans, r.ansErr, r.out, r.err, r.done)
    BY <1>1, <1>2, Types, GoFacts
<1>4. TypeOK'
    BY <1>1, <1>3, Types DEF TypeOK, RunBecomes
<1>5. RunOK(x)'
    <2>1. RunOK(x)
        BY DEF ShellInv
    <2> QED BY <1>1, <1>2, <1>3, <2>1 DEF RunOK, RunBecomes
<1>6. ASSUME NEW c \in Caller, call[c].exec = x
      PROVE  CallOK(call[c], run'[x], fs)
    <2>1. CallOK(call[c], r, fs)
        BY <1>6, ItsCall
    <2> QED BY <1>2, <1>3, <2>1, BeforeCommand DEF RunBecomes
<1> QED BY <1>1, <1>3, <1>4, <1>5, <1>6, OneExecution DEF RunBecomes

LEMMA RefuseFacts ==
    ASSUME ShellInv, NEW x \in Exec, Refuse(x)
    PROVE  RunBecomes(x, "out", NoOutput, "init", run[x].out, run[x].err, run[x].done)
<1>1. "init" \in Errors
    BY DEF Errors
<1> QED BY <1>1, InitialValues, AnswerFacts, Types DEF Refuse

LEMMA RefuseCall ==
    ASSUME ShellInv, NEW x \in Exec, run[x].go \in {"build", "new"}, Refuse(x),
           NEW c \in Caller, call[c].exec = x
    PROVE  CallOK(call[c], run'[x], fs)
<1>1. CallOK(call[c], run[x], fs)
    BY ItsCall
<1>2. RunBecomes(x, "out", NoOutput, "init", run[x].out, run[x].err, run[x].done)
    BY RefuseFacts
<1>3. /\ OutTrue(call[c], NoOutput) /\ ErrTrue(call[c], "init")
      /\ Shaped(call[c], NoOutput, "init")
    BY NothingSaid
<1> QED BY <1>1, <1>2, <1>3, CommandAnswered DEF RunBecomes

LEMMA BuildConfigStep ==
    ASSUME ShellInv, NEW x \in Exec, BuildConfig(x)
    PROVE  ShellInv'
<1> DEFINE r == run[x]
<1>1. r.go = "build" /\ UNCHANGED <<fs, release, clientset, call>>
    BY DEF BuildConfig
<1>2. RunOK(x)
    BY DEF ShellInv
<1>3. CASE restConfig' = TRUE /\ Go(x, "build", "client") /\ UNCHANGED failures
    <2>1. "client" \in GoSteps
        BY DEF GoSteps
    <2>2. RunBecomes(x, "client", r.ans, r.ansErr, r.out, r.err, r.done)
        BY <1>3, <2>1, Types, GoFacts
    <2>3. TypeOK'
        BY <1>1, <1>3, <2>2, Types DEF TypeOK, RunBecomes
    <2>4. RunOK(x)'
        BY <1>1, <1>2, <1>3, <2>2 DEF RunOK, RunBecomes
    <2>5. ASSUME NEW c \in Caller, call[c].exec = x
          PROVE  CallOK(call[c], run'[x], fs)
        <3>1. CallOK(call[c], r, fs)
            BY <2>5, ItsCall
        <3> QED BY <1>1, <2>2, <3>1, BeforeCommand DEF RunBecomes
    <2> QED BY <1>1, <1>3, <2>2, <2>3, <2>4, <2>5, OneExecution DEF RunBecomes
<1>4. CASE restConfig' = FALSE /\ Refuse(x) /\ Fail
    <2>1. RunBecomes(x, "out", NoOutput, "init", r.out, r.err, r.done)
        BY <1>4, RefuseFacts
    <2>2. failures' \in 0..MaxFailures /\ failures' < MaxFailures
        BY <1>4, Types, ShellAssumption DEF Fail
    <2>3. TypeOK'
        BY <1>1, <1>4, <2>1, <2>2, Types DEF TypeOK, RunBecomes
    <2>4. RunOK(x)'
        BY <1>1, <1>2, <2>1 DEF RunOK, RunBecomes
    <2>5. \A c \in Caller : call[c].exec = x => CallOK(call[c], run'[x], fs)
        BY <1>1, <1>4, RefuseCall
    <2> QED BY <1>1, <2>1, <2>2, <2>3, <2>4, <2>5, OneExecution DEF RunBecomes
<1> QED BY <1>3, <1>4 DEF BuildConfig

\* A process that has ended has no goroutine and no call under way.
LEMMA CrashFacts ==
    ASSUME Crash
    PROVE  /\ run' = [x \in Exec |-> FreeRun]
           /\ \E k \in Call : /\ k.pc = "crash" /\ k.exec = NoExec
                             /\ call' = [c \in Caller |-> k]
<1> DEFINE k == [NoCall EXCEPT !.pc = "crash"]
<1>1. run' = [x \in Exec |-> FreeRun] /\ call' = [c \in Caller |-> k]
    BY DEF Crash
<1>2. k \in Call /\ k.pc = "crash" /\ k.exec = NoExec
    BY InitialValues DEF Call
<1> HIDE DEF k
<1> QED BY <1>1, <1>2

LEMMA CrashStep ==
    ASSUME ShellInv, Crash, UNCHANGED <<fs, release, restConfig, clientset, failures>>
    PROVE  ShellInv'
<1>1. PICK k \in Call : k.pc = "crash" /\ k.exec = NoExec /\ call' = [c \in Caller |-> k]
    BY CrashFacts
<1>2. run' = [x \in Exec |-> FreeRun]
    BY CrashFacts
<1>3. TypeOK'
    BY <1>1, <1>2, Types, InitialValues DEF TypeOK
<1>4. OwnExecutions'
    BY <1>1 DEF OwnExecutions
<1>5. \A x \in Exec : RunOK(x)'
    BY <1>2, InitialValues DEF RunOK
<1>6. \A c \in Caller : CallOK(call'[c], run'[call'[c].exec], fs')
    BY <1>1, NothingUnderWay
<1> QED BY <1>3, <1>4, <1>5, <1>6 DEF ShellInv

LEMMA BuildClientStep ==
    ASSUME ShellInv, NEW x \in Exec, BuildClient(x)
    PROVE  ShellInv'
<1> DEFINE r == run[x]
<1>1. r.go = "new" /\ UNCHANGED <<fs, release, restConfig>>
    BY DEF BuildClient
<1>2. RunOK(x)
    BY DEF ShellInv
<1>3. CASE clientset' = TRUE /\ Go(x, "new", "run") /\ UNCHANGED <<call, failures>>
    <2>1. "run" \in GoSteps
        BY DEF GoSteps
    <2>2. RunBecomes(x, "run", r.ans, r.ansErr, r.out, r.err, r.done)
        BY <1>3, <2>1, Types, GoFacts
    <2>3. TypeOK'
        BY <1>1, <1>3, <2>2, Types DEF TypeOK, RunBecomes
    <2>4. RunOK(x)'
        BY <1>1, <1>2, <1>3, <2>2 DEF RunOK, RunBecomes
    <2>5. ASSUME NEW c \in Caller, call[c].exec = x
          PROVE  CallOK(call[c], run'[x], fs)
        <3>1. CallOK(call[c], r, fs)
            BY <2>5, ItsCall
        <3> QED BY <1>1, <2>2, <3>1, BeforeCommand DEF RunBecomes
    <2> QED BY <1>1, <1>3, <2>2, <2>3, <2>4, <2>5, OneExecution DEF RunBecomes
<1>4. CASE clientset' = FALSE /\ Refuse(x) /\ Fail /\ UNCHANGED call
    <2>1. RunBecomes(x, "out", NoOutput, "init", r.out, r.err, r.done)
        BY <1>4, RefuseFacts
    <2>2. failures' \in 0..MaxFailures /\ failures' < MaxFailures
        BY <1>4, Types, ShellAssumption DEF Fail
    <2>3. TypeOK'
        BY <1>1, <1>4, <2>1, <2>2, Types DEF TypeOK, RunBecomes
    <2>4. RunOK(x)'
        BY <1>1, <1>2, <2>1 DEF RunOK, RunBecomes
    <2>5. \A c \in Caller : call[c].exec = x => CallOK(call[c], run'[x], fs)
        BY <1>1, <1>4, RefuseCall
    <2> QED BY <1>1, <1>4, <2>1, <2>2, <2>3, <2>4, <2>5, OneExecution DEF RunBecomes
<1>5. CASE Crash /\ UNCHANGED <<clientset, failures>>
    BY <1>1, <1>5, CrashStep
<1> QED BY <1>3, <1>4, <1>5 DEF BuildClient

LEMMA DereferenceNilStep ==
    ASSUME ShellInv, NEW x \in Exec, DereferenceNil(x)
    PROVE  ShellInv'
BY CrashStep DEF DereferenceNil

LEMMA WriteOutStep ==
    ASSUME ShellInv, NEW x \in Exec, WriteOut(x)
    PROVE  ShellInv'
<1> DEFINE r == run[x]
           o == IF Referenced(x) THEN r.ans ELSE NoOutput
<1>1. r.go = "out" /\ UNCHANGED <<fs, release, restConfig, clientset, call, failures>>
    BY DEF WriteOut
<1>2. RunBecomes(x, "err", NoOutput, r.ansErr, o, r.err, r.done)
    BY WriteOutFacts, Types
<1>3. Referenced(x) => o = r.ans
    OBVIOUS
<1> HIDE DEF o
<1>4. TypeOK'
    BY <1>1, <1>2, Types DEF TypeOK, RunBecomes
<1>5. RunOK(x)'
    <2>1. RunOK(x)
        BY DEF ShellInv
    <2> QED BY <1>1, <1>2, <2>1 DEF RunOK, RunBecomes
<1>6. ASSUME NEW c \in Caller, call[c].exec = x
      PROVE  CallOK(call[c], run'[x], fs)
    <2>1. CallOK(call[c], r, fs)
        BY <1>6, ItsCall
    <2>2. o = r.ans
        BY <1>3, <1>6 DEF Referenced
    <2> QED BY <1>1, <1>2, <2>1, <2>2, OutWritten DEF RunBecomes
<1> QED BY <1>1, <1>2, <1>4, <1>5, <1>6, OneExecution DEF RunBecomes

LEMMA WriteErrStep ==
    ASSUME ShellInv, NEW x \in Exec, WriteErr(x)
    PROVE  ShellInv'
<1> DEFINE r == run[x]
           e == IF Referenced(x) THEN r.ansErr ELSE "nil"
<1>1. r.go = "err" /\ UNCHANGED <<fs, release, restConfig, clientset, call, failures>>
    BY DEF WriteErr
<1>2. RunBecomes(x, "send", r.ans, "nil", r.out, e, r.done)
    BY WriteErrFacts, Types
<1>3. Referenced(x) => e = r.ansErr
    OBVIOUS
<1> HIDE DEF e
<1>4. TypeOK'
    BY <1>1, <1>2, Types DEF TypeOK, RunBecomes
<1>5. RunOK(x)'
    <2>1. RunOK(x)
        BY DEF ShellInv
    <2> QED BY <1>1, <1>2, <2>1 DEF RunOK, RunBecomes
<1>6. ASSUME NEW c \in Caller, call[c].exec = x
      PROVE  CallOK(call[c], run'[x], fs)
    <2>1. CallOK(call[c], r, fs)
        BY <1>6, ItsCall
    <2>2. e = r.ansErr
        BY <1>3, <1>6 DEF Referenced
    <2> QED BY <1>1, <1>2, <2>1, <2>2, ErrWritten DEF RunBecomes
<1> QED BY <1>1, <1>2, <1>4, <1>5, <1>6, OneExecution DEF RunBecomes

LEMMA SendStep ==
    ASSUME ShellInv, NEW x \in Exec, Send(x)
    PROVE  ShellInv'
<1> DEFINE r == run[x]
<1>1. r.go = "send" /\ UNCHANGED <<fs, release, restConfig, clientset, call, failures>>
    BY DEF Send
<1>2. RunBecomes(x, "end", r.ans, r.ansErr, r.out, r.err, TRUE)
    BY SendFacts, Types
<1>3. TypeOK'
    BY <1>1, <1>2, Types DEF TypeOK, RunBecomes
<1>4. RunOK(x)'
    BY <1>2 DEF RunOK, RunBecomes
<1>5. ASSUME NEW c \in Caller, call[c].exec = x
      PROVE  CallOK(call[c], run'[x], fs)
    <2>1. CallOK(call[c], r, fs)
        BY <1>5, ItsCall
    <2> QED BY <1>1, <1>2, <2>1, Sent DEF RunBecomes
<1> QED BY <1>1, <1>2, <1>3, <1>4, <1>5, OneExecution DEF RunBecomes

LEMMA CollectStep ==
    ASSUME ShellInv, NEW x \in Exec, Collect(x)
    PROVE  ShellInv'
<1>1. /\ ~Referenced(x) /\ run' = [run EXCEPT ![x] = FreeRun]
      /\ UNCHANGED <<fs, release, restConfig, clientset, call, failures>>
    BY DEF Collect
<1>2. run' \in [Exec -> Run] /\ run'[x] = FreeRun /\ \A y \in Exec \ {x} : run'[y] = run[y]
    BY <1>1, Types, InitialValues
<1>3. TypeOK'
    BY <1>1, <1>2, Types DEF TypeOK
<1>4. RunOK(x)'
    BY <1>2, InitialValues DEF RunOK
<1>5. \A c \in Caller : call[c].exec # x
    BY <1>1 DEF Referenced
<1> QED BY <1>1, <1>2, <1>3, <1>4, <1>5, OneExecution

-----------------------------------------------------------------------------
(* Steps that change the namespace. *)

LEMMA WatchedIsBoolean ==
    ASSUME NEW o, NEW p, NEW s
    PROVE  Watched(o, p, s) \in BOOLEAN
<1>1. CASE o \in {"IsExist", "Mkdir"}
    <2>1. Watched(o, p, s) = (p \in s.exists)
        BY <1>1 DEF Watched
    <2> QED BY <2>1
<1>2. CASE o \in {"IsMounted", "Mount"}
    <2>1. Watched(o, p, s) = (p \in s.mounted)
        BY <1>2 DEF Watched
    <2> QED BY <2>1
<1>3. CASE o = "UnMount"
    BY <1>3 DEF Watched
<1>4. CASE o = "CleanCache"
    BY <1>4 DEF Watched
<1>5. CASE o \notin {"IsExist", "Mkdir", "IsMounted", "Mount", "UnMount", "CleanCache"}
    BY <1>5 DEF Watched
<1> QED BY <1>1, <1>2, <1>3, <1>4, <1>5

LEMMA WitnessFacts ==
    ASSUME call \in [Caller -> Call], NEW new, call' = Witness(new)
    PROVE  /\ call' \in [Caller -> Call]
           /\ \A c \in Caller :
                /\ call'[c].pc = call[c].pc /\ call'[c].op = call[c].op
                /\ call'[c].path = call[c].path /\ call'[c].cmd = call[c].cmd
                /\ call'[c].exec = call[c].exec /\ call'[c].out = call[c].out
                /\ call'[c].err = call[c].err /\ call'[c].expired = call[c].expired
                /\ call[c].seen \subseteq call'[c].seen
                /\ call[c].pc \in UnderWay =>
                      Watched(call[c].op, call[c].path, new) \in call'[c].seen
<1> SUFFICES ASSUME NEW c \in Caller
             PROVE  /\ call'[c] \in Call
                    /\ call'[c].pc = call[c].pc /\ call'[c].op = call[c].op
                    /\ call'[c].path = call[c].path /\ call'[c].cmd = call[c].cmd
                    /\ call'[c].exec = call[c].exec /\ call'[c].out = call[c].out
                    /\ call'[c].err = call[c].err /\ call'[c].expired = call[c].expired
                    /\ call[c].seen \subseteq call'[c].seen
                    /\ call[c].pc \in UnderWay =>
                          Watched(call[c].op, call[c].path, new) \in call'[c].seen
    BY DEF Witness
<1> DEFINE w == Watched(call[c].op, call[c].path, new)
           k == call[c]
<1>1. k \in Call /\ w \in BOOLEAN
    BY WatchedIsBoolean
<1>2. call'[c] = IF k.pc \in {"idle", "panic", "crash"} THEN k ELSE [k EXCEPT !.seen = @ \cup {w}]
    BY DEF Witness
<1> HIDE DEF w, k
<1>3. CASE k.pc \in {"idle", "panic", "crash"}
    <2>1. k.pc \notin UnderWay
        BY <1>3 DEF UnderWay, Waiting
    <2> QED BY <1>1, <1>2, <1>3, <2>1 DEF k
<1>4. CASE k.pc \notin {"idle", "panic", "crash"}
    <2> DEFINE j == [k EXCEPT !.seen = @ \cup {w}]
    <2>1. /\ j \in Call /\ j.pc = k.pc /\ j.op = k.op /\ j.path = k.path /\ j.cmd = k.cmd
          /\ j.exec = k.exec /\ j.out = k.out /\ j.err = k.err /\ j.expired = k.expired
          /\ j.seen = k.seen \cup {w}
        BY <1>1 DEF Call
    <2>2. call'[c] = j
        BY <1>2, <1>4
    <2> HIDE DEF j
    <2> QED BY <2>1, <2>2 DEF k, w
<1> QED BY <1>3, <1>4

\* Every call sees the change.
LEMMA ChangeSeenByAll ==
    ASSUME ShellInv, call' = Witness(fs'), NEW c \in Caller
    PROVE  CallOK(call'[c], run[call'[c].exec], fs')
<1> DEFINE k == call[c]
           j == call'[c]
           r == run[k.exec]
<1>1. CallOK(k, r, fs)
    BY DEF ShellInv
<1>2. /\ j.pc = k.pc /\ j.op = k.op /\ j.path = k.path /\ j.cmd = k.cmd /\ j.exec = k.exec
      /\ j.out = k.out /\ j.err = k.err /\ j.expired = k.expired /\ k.seen \subseteq j.seen
      /\ k.pc \in UnderWay => Watched(k.op, k.path, fs') \in j.seen
    BY Types, WitnessFacts
<1> HIDE DEF k, j
<1>3. CallOK(j, r, fs')
    BY <1>1, <1>2, ChangeSeen
<1> QED BY <1>2, <1>3 DEF j

LEMMA ReadStep ==
    ASSUME ShellInv, NEW p \in Path, Read(p)
    PROVE  ShellInv'
<1>1. /\ fs' = [fs EXCEPT !.cached = @ \cup {p}] /\ call' = Witness(fs')
      /\ UNCHANGED <<release, restConfig, clientset, run, failures>>
    BY DEF Read
<1>2. fs' \in FileSystem
    BY <1>1, Types DEF FileSystem
<1>3. TypeOK' /\ \A c \in Caller : call'[c].exec = call[c].exec
    BY <1>1, <1>2, Types, WitnessFacts DEF TypeOK
<1>4. OwnExecutions'
    BY <1>3 DEF ShellInv, OwnExecutions
<1>5. \A x \in Exec : RunOK(x)'
    BY <1>1 DEF ShellInv, RunOK
<1>6. \A c \in Caller : CallOK(call[c], run[call[c].exec], fs)'
    BY <1>1, ChangeSeenByAll
<1> QED BY <1>3, <1>4, <1>5, <1>6 DEF ShellInv

\* What the command of a call answers is so.
LEMMA AnswerTrue ==
    ASSUME fs \in FileSystem, NEW j, j.op \in Op, j.path \in Path,
           j.cmd = Command[j.op] \/ (j.op = "CleanCache" /\ j.cmd = "free"),
           NEW e, e = Effect(j.cmd, j.path),
           Watched(j.op, j.path, fs) \in j.seen, Watched(j.op, j.path, e.fs) \in j.seen
    PROVE  OutTrue(j, e.out) /\ ErrTrue(j, e.err) /\ Shaped(j, e.out, e.err)
<1> DEFINE o == j.op
           p == j.path
           cmd == j.cmd
           seen == j.seen
<1>a. /\ o \in Op /\ p \in Path
      /\ cmd = Command[o] \/ (o = "CleanCache" /\ cmd = "free")
      /\ Watched(o, p, fs) \in seen /\ Watched(o, p, Effect(cmd, p).fs) \in seen
    OBVIOUS
<1> HIDE DEF o, p, cmd, seen
<1>b. Honest(o, cmd, seen, Effect(cmd, p))
    BY <1>a, EffectTrue
<1>1. /\ /\ e.err = "nil"
         /\ j.op \in {"IsExist", "Mkdir", "Mount", "UnMount"} \/ j.cmd = "free"
         => TRUE \in j.seen
      /\ j.op = "IsExist" /\ e.out.says = "does not exist" => FALSE \in j.seen
      /\ j.op = "IsMounted" => e.out.fields = 4 /\ (e.out.says = "on path") \in j.seen
      /\ j.op = "MasterPodName" => e.out.lines = 2 /\ e.out.fields = 3
    BY <1>b DEF o, p, cmd, seen, Honest
<1>2. OutTrue(j, e.out)
    BY <1>1 DEF OutTrue
<1>3. ErrTrue(j, e.err)
    BY <1>1 DEF ErrTrue
<1>4. Shaped(j, e.out, e.err)
    <2>1. e.out.fields = 4 => e.out.fields >= 3
        OBVIOUS
    <2>2. j.op = "IsMounted" => e.out.fields >= 3
        BY <1>1, <2>1
    <2> QED BY <1>1, <2>2 DEF Shaped
<1> QED BY <1>2, <1>3, <1>4

\* The command is posted and answered, or the connection breaks.
LEMMA ExecuteStep ==
    ASSUME ShellInv, NEW x \in Exec, Execute(x)
    PROVE  ShellInv'
<1> DEFINE r == run[x]
           e == Effect(r.cmd, r.path)
           answer(out, err) ==
               run' = [run EXCEPT ![x].go = "out", ![x].ans = out, ![x].ansErr = err]
<1>1. /\ r.go = "run" /\ call' = Witness(fs')
      /\ \/ fs' = e.fs /\ answer(e.out, e.err)
         \/ fs' \in {fs, e.fs} /\ answer(NoOutput, "exit")
      /\ UNCHANGED <<release, restConfig, clientset, failures>>
    BY SMTT(60) DEF Execute
<1>2. r.cmd \in Commands /\ r.path \in Path
    BY Types DEF Run
<1>3. e.fs \in FileSystem /\ e.out \in Outputs /\ e.err \in {"nil", "exit"}
    BY <1>2, EffectType, Types
<1> HIDE DEF e
<1>4. PICK out \in Outputs, err \in Errors :
          /\ answer(out, err)
          /\ \/ fs' = e.fs /\ out = e.out /\ err = e.err
             \/ out = NoOutput /\ err = "exit"
    <2>1. CASE fs' = e.fs /\ answer(e.out, e.err)
        BY <1>3, <2>1 DEF Errors
    <2>2. CASE answer(NoOutput, "exit")
        BY <2>2, InitialValues DEF Errors
    <2> QED BY <1>1, <2>1, <2>2
<1>5. RunBecomes(x, "out", out, err, r.out, r.err, r.done)
    BY <1>4, Types, AnswerFacts
<1>6. fs' \in FileSystem
    BY <1>1, <1>3, Types
<1>8. /\ call' \in [Caller -> Call]
      /\ \A c \in Caller : call'[c].exec = call[c].exec /\ call'[c].pc = call[c].pc
    BY <1>1, Types, WitnessFacts
<1>9. TypeOK'
    BY <1>1, <1>5, <1>6, <1>8, Types DEF TypeOK, RunBecomes
<1>10. OwnExecutions'
    BY <1>8 DEF ShellInv, OwnExecutions
<1>11. ASSUME NEW y \in Exec
       PROVE  RunOK(y)'
    <2>1. RunOK(y)
        BY DEF ShellInv
    <2>3. CASE y = x
        BY <1>1, <1>5, <2>1, <2>3 DEF RunOK, RunBecomes
    <2>4. CASE y # x
        <3>1. run'[y] = run[y]
            BY <1>5, <2>4 DEF RunBecomes
        <3> QED BY <2>1, <3>1 DEF RunOK
    <2> QED BY <2>3, <2>4
<1>12. ASSUME NEW c \in Caller
       PROVE  CallOK(call'[c], run'[call'[c].exec], fs')
    <2> DEFINE j == call'[c]
               k == call[c]
    <2>1. CallOK(j, run[j.exec], fs')
        BY <1>1, ChangeSeenByAll
    <2>2. CASE j.pc \notin Waiting
        BY <2>1, <2>2, WithoutExecution
    <2>3. CASE j.pc \in Waiting /\ j.exec # x
        <3>1. j.exec \in Exec
            BY <2>1, <2>3 DEF CallOK, Linked
        <3>2. run'[j.exec] = run[j.exec]
            BY <1>5, <2>3, <3>1 DEF RunBecomes
        <3> QED BY <2>1, <3>2
    <2>4. CASE j.pc \in Waiting /\ j.exec = x
        <3>1. CallOK(j, r, fs')
            BY <2>1, <2>4
        <3>2. /\ CallOK(k, r, fs) /\ k.pc \in UnderWay /\ j.pc \in UnderWay
              /\ j.op = k.op /\ j.path = k.path
              /\ j.cmd = k.cmd /\ k.seen \subseteq j.seen
            BY <1>1, <1>8, <2>4, Types, WitnessFacts, ItsCall DEF UnderWay
        <3>3. /\ r.cmd = j.cmd /\ r.path = j.path /\ j.op \in Op /\ j.path \in Path
              /\ j.cmd = Command[j.op] \/ (j.op = "CleanCache" /\ j.cmd = "free")
            <4>1. /\ r.cmd = j.cmd /\ r.path = j.path
                  /\ j.cmd = Command[j.op] \/ (j.op = "CleanCache" /\ j.cmd = "free")
                BY <2>4, <3>1, <3>2 DEF CallOK, Linked
            <4>2. j \in Call
                BY <1>8
            <4>3. j.op \in Op /\ j.path \in Path
                BY <4>2 DEF Call
            <4> QED BY <4>1, <4>3
        <3>4. Watched(j.op, j.path, fs) \in j.seen
            BY <3>2 DEF CallOK, UpToDate
        <3>5. Watched(j.op, j.path, fs') \in j.seen
            BY <3>1, <3>2 DEF CallOK, UpToDate
        <3>6. OutTrue(j, out) /\ ErrTrue(j, err) /\ Shaped(j, out, err)
            <4>1. CASE fs' = e.fs /\ out = e.out /\ err = e.err
                <5>1. e = Effect(j.cmd, j.path)
                    BY <3>3 DEF e
                <5>2. Watched(j.op, j.path, e.fs) \in j.seen
                    BY <3>5, <4>1
                <5> HIDE DEF j
                <5>3. OutTrue(j, e.out) /\ ErrTrue(j, e.err) /\ Shaped(j, e.out, e.err)
                    BY <3>3, <3>4, <5>1, <5>2, Types, AnswerTrue
                <5> QED BY <4>1, <5>3
            <4>2. CASE out = NoOutput /\ err = "exit"
                BY <4>2, NothingSaid
            <4> QED BY <1>4, <4>1, <4>2
        <3> HIDE DEF j
        <3>7. CallOK(j, run'[x], fs')
            BY <1>1, <1>5, <3>1, <3>6, CommandAnswered DEF RunBecomes
        <3> QED BY <2>4, <3>7 DEF j
    <2> QED BY <2>2, <2>3, <2>4
<1>13. \A c \in Caller : CallOK(call[c], run[call[c].exec], fs)'
    BY <1>12
<1> QED BY <1>9, <1>10, <1>11, <1>13 DEF ShellInv

-----------------------------------------------------------------------------
(* Steps of callers. *)

\* What is to be shown of a step of one call, which may touch one execution
\* that is no other call's.
LEMMA OneCall ==
    ASSUME ShellInv, TypeOK', NEW c \in Caller, NEW x,
           UNCHANGED <<fs, restConfig, clientset, failures>>,
           \A d \in Caller \ {c} : call'[d] = call[d] /\ (x \in Exec => call[d].exec # x),
           \A y \in Exec \ {x} : run'[y] = run[y],
           x \in Exec => RunOK(x)',
           call'[c].exec = NoExec \/ (call'[c].exec = x /\ x \in Exec),
           CallOK(call'[c], run'[call'[c].exec], fs)
    PROVE  ShellInv'
<1>1. OwnExecutions'
    <2>1. OwnExecutions
        BY DEF ShellInv
    <2> QED BY <2>1 DEF OwnExecutions
<1>2. ASSUME NEW y \in Exec
      PROVE  RunOK(y)'
    <2>1. CASE y = x
        BY <2>1
    <2>2. CASE y # x
        <3>1. RunOK(y) /\ run'[y] = run[y]
            BY <2>2 DEF ShellInv
        <3> QED BY <3>1 DEF RunOK
    <2> QED BY <2>1, <2>2
<1>3. ASSUME NEW d \in Caller
      PROVE  CallOK(call'[d], run'[call'[d].exec], fs)
    <2>1. CASE d = c
        BY <2>1
    <2>2. CASE d # c
        <3>1. CallOK(call[d], run[call[d].exec], fs) /\ call'[d] = call[d]
            BY <2>2 DEF ShellInv
        <3>2. CASE call[d].pc \notin Waiting
            BY <3>1, <3>2, WithoutExecution
        <3>3. CASE call[d].pc \in Waiting
            <4>1. call[d].exec \in Exec
                BY <3>1, <3>3 DEF CallOK, Linked
            <4>2. call[d].exec # x
                BY <2>2, <4>1
            <4> QED BY <3>1, <4>1, <4>2
        <3> QED BY <3>2, <3>3
    <2> QED BY <2>1, <2>2
<1>4. \A d \in Caller : CallOK(call[d], run[call[d].exec], fs)'
    BY <1>3
<1> QED BY <1>1, <1>2, <1>4 DEF ShellInv

\* A call that waits has its execution for itself.
LEMMA WaitingCall ==
    ASSUME ShellInv, NEW c \in Caller, call[c].pc \in Waiting
    PROVE  /\ call[c].exec \in Exec /\ CallOK(call[c], run[call[c].exec], fs)
           /\ RunOK(call[c].exec)
           /\ \A d \in Caller \ {c} : call[d].exec # call[c].exec
<1>1. CallOK(call[c], run[call[c].exec], fs) /\ OwnExecutions
    BY DEF ShellInv
<1>2. call[c].exec \in Exec
    BY <1>1 DEF CallOK, Linked
<1>3. RunOK(call[c].exec)
    BY <1>2 DEF ShellInv
<1>4. call[c].exec # NoExec
    BY <1>2, ShellAssumption
<1> QED BY <1>1, <1>2, <1>3, <1>4 DEF OwnExecutions

LEMMA ReceiveStep ==
    ASSUME ShellInv, NEW c \in Caller, Receive(c)
    PROVE  ShellInv'
<1> DEFINE k == call[c]
<1>0. PICK x : x = k.exec
    OBVIOUS
<1>1. /\ k.pc = "wait" /\ run[x].done
      /\ UNCHANGED <<fs, release, restConfig, clientset, run, failures>>
    BY <1>0 DEF Receive
<1>2. /\ x \in Exec /\ CallOK(k, run[x], fs) /\ RunOK(x)
      /\ \A d \in Caller \ {c} : call[d].exec # x
    BY <1>0, <1>1, WaitingCall DEF Waiting
<1>3. CallBecomes(c, "readOut", k.cmd, x, k.out, k.err, k.expired)
    BY <1>0, Types, ReceiveFacts
<1>4. TypeOK'
    BY <1>1, <1>3, Types DEF TypeOK, CallBecomes
<1> HIDE DEF k
<1>5. k.exec = x /\ call[c] = k
    BY <1>0 DEF k
<1>6. run[x].go = "end"
    BY <1>1, <1>2 DEF RunOK
<1>7. CallOK(call'[c], run[x], fs)
    BY <1>1, <1>2, <1>3, <1>5, <1>6, Received DEF CallBecomes, SameCall
<1>8. RunOK(x)'
    BY <1>1, <1>2 DEF RunOK
<1>9. CallOK(call'[c], run'[call'[c].exec], fs)
    BY <1>1, <1>3, <1>7 DEF CallBecomes
<1> QED BY <1>1, <1>2, <1>3, <1>4, <1>8, <1>9, OneCall DEF CallBecomes

LEMMA TimeoutStep ==
    ASSUME ShellInv, NEW c \in Caller, Timeout(c)
    PROVE  ShellInv'
<1> DEFINE k == call[c]
<1>0. PICK x : x = k.exec
    OBVIOUS
<1> DEFINE r == run[x]
<1>1. k.pc = "wait" /\ UNCHANGED <<fs, release, restConfig, clientset, failures>>
    BY DEF Timeout
<1>2. /\ x \in Exec /\ CallOK(k, r, fs) /\ RunOK(x)
      /\ \A d \in Caller \ {c} : call[d].exec # x
    BY <1>0, <1>1, WaitingCall DEF Waiting
<1>3. /\ CallBecomes(c, "readOut", k.cmd, x, k.out, k.err, TRUE)
      /\ RunBecomes(x, r.go, r.ans, r.ansErr, r.out, "timeout", r.done)
    BY <1>0, <1>2, Types, TimeoutFacts
<1>4. TypeOK'
    BY <1>1, <1>3, Types DEF TypeOK, CallBecomes, RunBecomes
<1> HIDE DEF k
<1>5. k.exec = x /\ call[c] = k
    BY <1>0 DEF k
<1>6. CallOK(call'[c], run'[x], fs)
    BY <1>1, <1>2, <1>3, <1>5, TimedOut DEF CallBecomes, RunBecomes, SameCall
<1>7. RunOK(x)'
    BY <1>1, <1>2, <1>3 DEF RunOK, RunBecomes
<1>8. CallOK(call'[c], run'[call'[c].exec], fs)
    BY <1>3, <1>6 DEF CallBecomes
<1> QED BY <1>1, <1>2, <1>3, <1>4, <1>7, <1>8, OneCall DEF CallBecomes, RunBecomes

LEMMA ReadOutStep ==
    ASSUME ShellInv, NEW c \in Caller, ReadOut(c)
    PROVE  ShellInv'
<1> DEFINE k == call[c]
<1>0. PICK x : x = k.exec
    OBVIOUS
<1>1. /\ k.pc = "readOut"
      /\ UNCHANGED <<fs, release, restConfig, clientset, run, failures>>
    BY DEF ReadOut
<1>2. /\ x \in Exec /\ CallOK(k, run[x], fs) /\ RunOK(x)
      /\ \A d \in Caller \ {c} : call[d].exec # x
    BY <1>0, <1>1, WaitingCall DEF Waiting
<1>3. CallBecomes(c, "readErr", k.cmd, x, run[x].out, k.err, k.expired)
    BY <1>0, <1>2, Types, ReadOutFacts
<1>4. TypeOK'
    BY <1>1, <1>3, Types DEF TypeOK, CallBecomes
<1> HIDE DEF k
<1>5. k.exec = x /\ call[c] = k
    BY <1>0 DEF k
<1>6. CallOK(call'[c], run[x], fs)
    BY <1>1, <1>2, <1>3, <1>5, OutRead DEF CallBecomes, SameCall
<1>7. RunOK(x)'
    BY <1>1, <1>2 DEF RunOK
<1>8. CallOK(call'[c], run'[call'[c].exec], fs)
    BY <1>1, <1>3, <1>6 DEF CallBecomes
<1> QED BY <1>1, <1>2, <1>3, <1>4, <1>7, <1>8, OneCall DEF CallBecomes

LEMMA ReadErrStep ==
    ASSUME ShellInv, NEW c \in Caller, ReadErr(c)
    PROVE  ShellInv'
<1> DEFINE k == call[c]
<1>0. PICK x : x = k.exec
    OBVIOUS
<1> DEFINE r == run[x]
<1>1. k.pc = "readErr" /\ UNCHANGED <<fs, release, restConfig, clientset, failures>>
    BY DEF ReadErr
<1>2. /\ x \in Exec /\ CallOK(k, r, fs) /\ RunOK(x)
      /\ \A d \in Caller \ {c} : call[d].exec # x
    BY <1>0, <1>1, WaitingCall DEF Waiting
<1>3. /\ CallBecomes(c, "parse", k.cmd, NoExec, k.out, r.err, k.expired)
      /\ RunBecomes(x, r.go, r.ans, r.ansErr, NoOutput, "nil", r.done)
    BY <1>0, <1>2, Types, ReadErrFacts
<1>4. TypeOK'
    BY <1>1, <1>3, Types DEF TypeOK, CallBecomes, RunBecomes
<1> HIDE DEF k
<1>5. k.exec = x /\ call[c] = k
    BY <1>0 DEF k
<1>6. CallOK(call'[c], run'[call'[c].exec], fs)
    BY <1>1, <1>2, <1>3, <1>5, ErrRead DEF CallBecomes, SameCall
<1>7. RunOK(x)'
    BY <1>1, <1>2, <1>3 DEF RunOK, RunBecomes
<1> QED BY <1>1, <1>2, <1>3, <1>4, <1>6, <1>7, OneCall DEF CallBecomes, RunBecomes

\* An execution that is free is nobody's.
LEMMA FreeIsNobodys ==
    ASSUME ShellInv, NEW x \in Free, NEW d \in Caller
    PROVE  x \in Exec /\ call[d].exec # x
<1>1. x \in Exec /\ run[x].go = "free"
    BY DEF Free
<1>2. CallOK(call[d], run[call[d].exec], fs)
    BY DEF ShellInv
<1>3. CASE call[d].pc \in Waiting
    <2>1. run[call[d].exec].go # "free"
        BY <1>2, <1>3 DEF CallOK, Linked
    <2> QED BY <1>1, <2>1
<1>4. CASE call[d].pc \notin Waiting
    <2>1. call[d].exec = NoExec
        BY <1>2, <1>4 DEF CallOK, Linked
    <2> QED BY <1>1, <2>1, ShellAssumption
<1> QED BY <1>1, <1>3, <1>4

\* Where more executions are free than calls are under way there is one.
LEMMA SomeFree ==
    ASSUME Cardinality(Free) > Cardinality(Active)
    PROVE  Free # {}
<1>1. IsFiniteSet(Active)
    BY FS_Subset, ShellAssumption DEF Active
<1>2. Cardinality(Active) \in Nat
    BY <1>1, FS_CardinalityType
<1>3. Cardinality({}) = 0
    BY FS_EmptySet
<1> QED BY <1>2, <1>3

LEMMA CallOpStep ==
    ASSUME ShellInv, NEW c \in Caller, NEW o \in Operations[c], NEW p \in Path, CallOp(c, o, p)
    PROVE  ShellInv'
<1>0. PICK x : x = CHOOSE y \in Free : TRUE
    OBVIOUS
<1> DEFINE j == [NoCall EXCEPT !.pc = "wait", !.op = o, !.path = p, !.cmd = Command[o],
                               !.exec = x, !.seen = {Watched(o, p, fs)}]
<1>1. /\ Cardinality(Free) > Cardinality(Active)
      /\ Start(x, Command[o], p, o \notin Untimed)
      /\ call' = [call EXCEPT ![c] = j]
      /\ UNCHANGED <<fs, release, restConfig, clientset, failures>>
    BY <1>0 DEF CallOp
<1>2. x \in Free
    BY <1>0, <1>1, SomeFree
<1>3. x \in Exec /\ \A d \in Caller : call[d].exec # x
    BY <1>2, FreeIsNobodys
<1>4. o \in Op
    BY ShellAssumption
<1>5. Command[o] \in Commands /\ (o \notin Untimed) \in BOOLEAN
    BY <1>4, CommandFacts
<1>6. /\ run' \in [Exec -> Run] /\ \A y \in Exec \ {x} : run'[y] = run[y]
      /\ run'[x].go = "config" /\ run'[x].cmd = Command[o] /\ run'[x].path = p
      /\ run'[x].out = NoOutput /\ ~run'[x].done
    BY <1>1, <1>3, <1>5, Types, StartFacts
<1>7. /\ j \in Call /\ j.pc = "wait" /\ j.op = o /\ j.path = p /\ j.cmd = Command[o]
      /\ j.exec = x /\ j.seen = {Watched(o, p, fs)}
    <2> DEFINE w == Watched(o, p, fs)
    <2>1. w \in BOOLEAN
        BY WatchedIsBoolean
    <2> HIDE DEF w
    <2> SUFFICES LET i == [NoCall EXCEPT !.pc = "wait", !.op = o, !.path = p,
                                         !.cmd = Command[o], !.exec = x, !.seen = {w}]
                 IN  /\ i \in Call /\ i.pc = "wait" /\ i.op = o /\ i.path = p
                     /\ i.cmd = Command[o] /\ i.exec = x /\ i.seen = {w}
        BY DEF w
    <2> QED BY <1>3, <1>4, <1>5, <2>1, InitialValues DEF Call
<1> HIDE DEF j
<1>8. call' \in [Caller -> Call] /\ call'[c] = j /\ \A d \in Caller \ {c} : call'[d] = call[d]
    BY <1>1, <1>7, Types
<1>9. TypeOK'
    BY <1>1, <1>6, <1>8, Types DEF TypeOK
<1>10. CallOK(call'[c], run'[call'[c].exec], fs)
    <2>1. CallOK(j, run'[x], fs)
        BY <1>3, <1>6, <1>7, CommandStarted
    <2> QED BY <1>7, <1>8, <2>1
<1>11. RunOK(x)'
    BY <1>6 DEF RunOK
<1> QED BY <1>1, <1>3, <1>6, <1>7, <1>8, <1>9, <1>10, <1>11, OneCall

LEMMA CleanCacheNextStep ==
    ASSUME ShellInv, NEW c \in Caller, CleanCacheNext(c)
    PROVE  ShellInv'
<1>0. PICK x : x = CHOOSE y \in Free : TRUE
    OBVIOUS
<1> DEFINE k == call[c]
           j == [k EXCEPT !.pc = "wait", !.cmd = "free", !.exec = x]
<1>1. /\ k.pc = "parse" /\ k.op = "CleanCache" /\ Free # {}
      /\ Start(x, "free", k.path, TRUE)
      /\ call' = [call EXCEPT ![c] = j]
      /\ UNCHANGED <<fs, release, restConfig, clientset, failures>>
    <2>1. call' = [call EXCEPT ![c] = j]
        BY <1>0 DEF CleanCacheNext
    <2> QED BY <1>0, <2>1 DEF CleanCacheNext, GoesOn
<1>2. x \in Free
    BY <1>0, <1>1
<1>3. x \in Exec /\ \A d \in Caller : call[d].exec # x
    BY <1>2, FreeIsNobodys
<1>4. k \in Call
    BY Types
<1>5. k.path \in Path /\ "free" \in Commands
    BY <1>4, CommandFacts DEF Call
<1>6. /\ run' \in [Exec -> Run] /\ \A y \in Exec \ {x} : run'[y] = run[y]
      /\ run'[x].go = "config" /\ run'[x].cmd = "free" /\ run'[x].path = k.path
      /\ run'[x].out = NoOutput /\ ~run'[x].done
    <2>1. PICK timed \in BOOLEAN : Start(x, "free", k.path, timed)
        BY <1>1
    <2> HIDE DEF k
    <2> QED BY <1>3, <1>5, <2>1, Types, StartFacts
<1>7. CallOK(k, run[k.exec], fs)
    BY DEF ShellInv
<1>8. Watched(k.op, k.path, fs) \in k.seen
    BY <1>1, <1>7 DEF CallOK, UpToDate, UnderWay
<1> HIDE DEF k
<1>9. /\ j \in Call /\ j.pc = "wait" /\ j.op = k.op /\ j.path = k.path /\ j.cmd = "free"
      /\ j.exec = x /\ j.seen = k.seen
    BY <1>3, <1>4, <1>5 DEF Call
<1> HIDE DEF j
<1>10. call' \in [Caller -> Call] /\ call'[c] = j /\ \A d \in Caller \ {c} : call'[d] = call[d]
    BY <1>1, <1>9, Types
<1>11. TypeOK'
    BY <1>1, <1>6, <1>10, Types DEF TypeOK
<1>12. CallOK(call'[c], run'[call'[c].exec], fs)
    <2>1. CallOK(j, run'[x], fs)
        BY <1>1, <1>3, <1>6, <1>8, <1>9, CommandStarted
    <2> QED BY <1>9, <1>10, <2>1
<1>13. RunOK(x)'
    BY <1>6 DEF RunOK
<1> QED BY <1>1, <1>3, <1>6, <1>9, <1>10, <1>11, <1>12, <1>13, OneCall

-----------------------------------------------------------------------------
(* What an operation returns. *)

\* The operations there are.
LEMMA OpsAre ==
    Op = {"IsExist", "LoadMetaData", "LoadMetadataWithoutTimeout", "Mkdir", "Mount",
          "UnMount", "IsMounted", "Ready", "Du", "Count", "GetFileCount", "Report",
          "MasterPodName", "CachedState", "GetConf", "SyncLocalDir", "CleanCache"}
BY DEF Op, Command

LEMMA AnswerFields ==
    ASSUME NEW r, NEW err, NEW found, r = Answer(err, found)
    PROVE  r.err = err /\ r.found = found /\ r.panic = FALSE
BY DEF Answer

\* Only two operations index what they have not counted.
LEMMA PanicFacts ==
    ASSUME NEW op \in Op, NEW cmd, NEW out, NEW err, ResultOf(op, cmd, out, err).panic
    PROVE  /\ err = "nil"
           /\ \/ op = "IsMounted" /\ out.fields < 3
              \/ op = "MasterPodName" /\ (out.lines < 2 \/ out.fields = 2)
<1> DEFINE R == ResultOf(op, cmd, out, err)
<1>1. ASSUME NEW e, NEW f, R = Answer(e, f)
      PROVE  FALSE
    <2>1. R.panic = FALSE
        BY <1>1, AnswerFields
    <2> QED BY <2>1
<1>2. CASE op = "IsExist"
    <2>1. R = IsExist(out, err)
        BY <1>2 DEF ResultOf
    <2> QED BY <1>1, <2>1 DEF IsExist
<1>3. CASE op \in {"Report", "GetConf", "SyncLocalDir", "LoadMetaData",
                   "LoadMetadataWithoutTimeout", "Mkdir", "Mount", "UnMount"}
    <2>1. R = Answer(err, FALSE)
        BY <1>3 DEF ResultOf, Report, GetConf, SyncLocalDir, LoadMetaData, Mount
    <2> QED BY <1>1, <2>1
<1>4. CASE op = "IsMounted"
    <2>1. R = IsMounted(out, err)
        BY <1>4 DEF ResultOf
    <2>2. CASE err # "nil"
        BY <1>1, <2>1, <2>2 DEF IsMounted
    <2>3. CASE err = "nil" /\ ~(out.fields < 3)
        BY <1>1, <2>1, <2>3 DEF IsMounted
    <2> QED BY <1>4, <2>2, <2>3
<1>5. CASE op = "Ready"
    <2>1. R = Answer(err, err = "nil")
        BY <1>5 DEF ResultOf, Ready
    <2> QED BY <1>1, <2>1
<1>6. CASE op = "MasterPodName"
    <2>1. R = MasterPodName(out, err)
        BY <1>6 DEF ResultOf
    <2>2. CASE err # "nil"
        BY <1>1, <2>1, <2>2 DEF MasterPodName
    <2>3. CASE err = "nil" /\ ~(out.lines < 2) /\ out.fields # 2
        BY <1>1, <2>1, <2>3 DEF MasterPodName
    <2> QED BY <1>6, <2>2, <2>3
<1>7. CASE op = "CachedState"
    <2>1. R = CachedState(out, err)
        BY <1>7 DEF ResultOf
    <2> QED BY <1>1, <2>1 DEF CachedState, Parsed
<1>8. CASE op = "Du"
    <2>1. R = Du(out, err)
        BY <1>8 DEF ResultOf
    <2> QED BY <1>1, <2>1 DEF Du, Parsed
<1>9. CASE op = "Count"
    <2>1. R = Count(out, err)
        BY <1>9 DEF ResultOf
    <2> QED BY <1>1, <2>1 DEF Count, Parsed
<1>10. CASE op = "GetFileCount"
    <2>1. R = GetFileCount(out, err)
        BY <1>10 DEF ResultOf
    <2> QED BY <1>1, <2>1 DEF GetFileCount, Parsed
<1>11. CASE op = "CleanCache"
    <2>1. R = CleanCache(cmd, out, err)
        BY <1>11 DEF ResultOf
    <2> QED BY <1>1, <2>1 DEF CleanCache
<1> QED BY <1>2, <1>3, <1>4, <1>5, <1>6, <1>7, <1>8, <1>9, <1>10, <1>11, OpsAre

\* What a nil error of an operation says of the command's output and error.
Tells(op, cmd, out, err, r) ==
    /\ op = "IsExist" => \/ err = "nil" /\ r.found = TRUE
                         \/ out.says = "does not exist" /\ r.found = FALSE
    /\ op \in {"Mkdir", "Mount", "UnMount", "CleanCache"} => err = "nil"
    /\ op = "IsMounted" => ~(out.fields < 3) /\ r.found = (out.says = "on path")
    /\ op = "CleanCache" /\ cmd = "issue" => CleanCache("issue", out, err).err = "nil"

LEMMA NilFacts ==
    ASSUME NEW op \in Op, NEW cmd, NEW out, NEW err, NEW r, r = ResultOf(op, cmd, out, err),
           ~r.panic, r.err = "nil"
    PROVE  Tells(op, cmd, out, err, r)
<1> SUFFICES /\ op = "IsExist" => \/ err = "nil" /\ r.found = TRUE
                                  \/ out.says = "does not exist" /\ r.found = FALSE
             /\ op \in {"Mkdir", "Mount", "UnMount", "CleanCache"} => err = "nil"
             /\ op = "IsMounted" => ~(out.fields < 3) /\ r.found = (out.says = "on path")
             /\ op = "CleanCache" /\ cmd = "issue" => CleanCache("issue", out, err).err = "nil"
    BY DEF Tells
<1>1. CASE op = "IsExist"
    <2>1. r = IsExist(out, err)
        BY <1>1 DEF ResultOf
    <2>2. CASE err # "nil" /\ out.says # "does not exist"
        <3>1. r = Answer(err, FALSE)
            BY <2>1, <2>2 DEF IsExist
        <3>2. r.err = err
            BY <3>1, AnswerFields
        <3> QED BY <2>2, <3>2
    <2>3. CASE err # "nil" /\ out.says = "does not exist"
        <3>1. r = Answer("nil", FALSE)
            BY <2>1, <2>3 DEF IsExist
        <3>2. r.found = FALSE
            BY <3>1, AnswerFields
        <3> QED BY <1>1, <2>3, <3>2
    <2>4. CASE err = "nil"
        <3>1. r = Answer("nil", TRUE)
            BY <2>1, <2>4 DEF IsExist
        <3>2. r.found = TRUE
            BY <3>1, AnswerFields, ZenonT(60)
        <3> QED BY <1>1, <2>4, <3>2
    <2> QED BY <2>2, <2>3, <2>4
<1>2. CASE op \in {"Mkdir", "Mount", "UnMount"}
    <2>1. r = Answer(err, FALSE)
        BY <1>2 DEF ResultOf, Mount
    <2>2. err = "nil"
        BY <2>1, AnswerFields
    <2> QED BY <1>2, <2>2
<1>3. CASE op = "IsMounted"
    <2>1. r = IsMounted(out, err)
        BY <1>3 DEF ResultOf
    <2>2. CASE err # "nil"
        <3>1. r = Answer(err, FALSE)
            BY <2>1, <2>2 DEF IsMounted
        <3>2. r.err = err
            BY <3>1, AnswerFields
        <3> QED BY <2>2, <3>2
    <2>3. CASE err = "nil" /\ out.fields < 3
        <3>1. r = Panics
            BY <2>1, <2>3 DEF IsMounted
        <3>2. r.panic = TRUE
            BY <3>1 DEF Panics
        <3> QED BY <3>2
    <2>4. CASE err = "nil" /\ ~(out.fields < 3)
        <3>1. r = Answer("nil", out.says = "on path")
            BY <2>1, <2>4 DEF IsMounted
        <3>2. PICK found : found = (out.says = "on path")
            OBVIOUS
        <3>3. r = Answer("nil", found)
            BY <3>1, <3>2, Zenon
        <3>4. r.found = found
            BY <3>3 DEF Answer
        <3> QED BY <1>3, <2>4, <3>2, <3>4
    <2> QED BY <2>2, <2>3, <2>4
<1>4. CASE op = "CleanCache"
    <2>1. r = CleanCache(cmd, out, err)
        BY <1>4 DEF ResultOf
    <2>2. r = Answer(err, FALSE) \/ r = Answer("parse", FALSE)
        BY <2>1 DEF CleanCache
    <2>3. err = "nil"
        <3>1. r.err = err \/ r.err = "parse"
            BY <2>2, AnswerFields
        <3> QED BY <3>1
    <2> QED BY <1>4, <2>1, <2>3
<1>5. CASE op \notin {"IsExist", "Mkdir", "Mount", "UnMount", "IsMounted", "CleanCache"}
    BY <1>5
<1> QED BY <1>1, <1>2, <1>3, <1>4, <1>5

\* Without a timer the outputs have the fields that are indexed.
LEMMA PanicNeedsTimer ==
    ASSUME ShellInv, NEW c \in Caller, call[c].pc = "parse", Result(c).panic
    PROVE  call[c].expired
<1> DEFINE k == call[c]
<1>1. k \in Call /\ CallOK(k, run[k.exec], fs)
    BY Types DEF ShellInv
<1>2. k.op \in Op /\ k.out \in Outputs
    BY <1>1 DEF Call
<1>3. /\ k.err = "nil"
      /\ \/ k.op = "IsMounted" /\ k.out.fields < 3
         \/ k.op = "MasterPodName" /\ (k.out.lines < 2 \/ k.out.fields = 2)
    BY <1>2, PanicFacts DEF Result
<1>4. k.out.fields \in 0..4 /\ k.out.lines \in 1..2
    BY <1>2 DEF Outputs
<1>5. SUFFICES ASSUME ~k.expired
               PROVE  FALSE
    BY <1>5
<1>6. Shaped(k, k.out, k.err)
    BY <1>1, <1>5 DEF CallOK, Paired
<1> HIDE DEF k
<1>7. /\ k.op = "IsMounted" => k.out.fields >= 3
      /\ k.op = "MasterPodName" => k.out.lines = 2 /\ k.out.fields = 3
    BY <1>3, <1>6 DEF Shaped
<1>8. CASE k.op = "IsMounted" /\ k.out.fields < 3
    BY <1>4, <1>7, <1>8
<1>9. CASE k.op = "MasterPodName" /\ (k.out.lines < 2 \/ k.out.fields = 2)
    <2>1. k.out.lines = 2 /\ k.out.fields = 3
        BY <1>7, <1>9
    <2> QED BY <1>9, <2>1
<1> QED BY <1>3, <1>8, <1>9

LEMMA ReturnStep ==
    ASSUME ShellInv, NEW c \in Caller, Return(c)
    PROVE  ShellInv'
<1>1. /\ call[c].pc = "parse"
      /\ UNCHANGED <<fs, release, restConfig, clientset, failures>>
    BY DEF Return
<1>2. CASE Result(c).panic
    <2>1. call[c].expired = TRUE
        <3>1. call[c].expired
            BY <1>1, <1>2, PanicNeedsTimer
        <3>2. call[c].expired \in BOOLEAN
            BY Types DEF Call
        <3> QED BY <3>1, <3>2
    <2> DEFINE k == [NoCall EXCEPT !.pc = "panic", !.expired = TRUE]
    <2>2. /\ call' = [d \in Caller |-> k] /\ run' = [x \in Exec |-> FreeRun]
        BY <1>2, <2>1 DEF Return, Panic
    <2>3. k \in Call /\ k.pc = "panic" /\ k.expired = TRUE /\ k.exec = NoExec
        BY InitialValues DEF Call
    <2> HIDE DEF k
    <2>4. TypeOK'
        BY <1>1, <2>2, <2>3, Types, InitialValues DEF TypeOK
    <2>5. OwnExecutions'
        BY <2>2, <2>3 DEF OwnExecutions
    <2>6. \A x \in Exec : RunOK(x)'
        BY <2>2, InitialValues DEF RunOK
    <2>7. \A d \in Caller : CallOK(call'[d], run'[call'[d].exec], fs')
        BY <2>2, <2>3, NothingUnderWay
    <2> QED BY <2>4, <2>5, <2>6, <2>7 DEF ShellInv
<1>3. CASE ~Result(c).panic
    <2>1. call' = [call EXCEPT ![c] = NoCall] /\ UNCHANGED run
        BY <1>3 DEF Return
    <2>2. /\ call' \in [Caller -> Call] /\ call'[c] = NoCall
          /\ \A d \in Caller \ {c} : call'[d] = call[d]
        BY <2>1, Types, InitialValues
    <2>3. TypeOK'
        BY <1>1, <2>1, <2>2, Types DEF TypeOK
    <2>4. CallOK(call'[c], run'[call'[c].exec], fs)
        <3>1. NoCall.pc = "idle" /\ NoCall.exec = NoExec
            BY InitialValues
        <3> HIDE DEF NoCall
        <3>2. CallOK(NoCall, run'[NoExec], fs)
            BY <3>1, NothingUnderWay
        <3> QED BY <2>2, <3>1, <3>2
    <2>5. NoExec \notin Exec /\ call'[c].exec = NoExec
        BY <2>2, InitialValues, ShellAssumption
    <2> QED BY <1>1, <2>1, <2>2, <2>3, <2>4, <2>5, OneCall
<1> QED BY <1>2, <1>3

-----------------------------------------------------------------------------
(* The theorems. *)

LEMMA InitShell == Init => ShellInv
<1> SUFFICES ASSUME Init
             PROVE  ShellInv
    OBVIOUS
<1>1. TypeOK
    <2>1. fs \in FileSystem
        BY DEF Init, FileSystem
    <2>2. failures \in 0..MaxFailures
        BY ShellAssumption DEF Init
    <2> QED BY <2>1, <2>2, InitialValues DEF Init, TypeOK
<1>2. OwnExecutions
    BY InitialValues DEF Init, OwnExecutions
<1>3. \A x \in Exec : RunOK(x)
    BY InitialValues DEF Init, RunOK
<1>4. \A c \in Caller : CallOK(call[c], run[call[c].exec], fs)
    <2>1. \A c \in Caller : call[c] = NoCall
        BY DEF Init
    <2>2. NoCall.pc = "idle" /\ NoCall.exec = NoExec
        BY InitialValues
    <2>3. CallOK(NoCall, run[NoExec], fs)
        BY <2>2, NothingUnderWay
    <2> QED BY <2>1, <2>2, <2>3
<1> QED BY <1>1, <1>2, <1>3, <1>4 DEF ShellInv

LEMMA NextShell == ShellInv /\ [Next]_vars => ShellInv'
<1> SUFFICES ASSUME ShellInv, [Next]_vars
             PROVE  ShellInv'
    OBVIOUS
<1>1. ASSUME NEW c \in Caller, NEW o \in Operations[c], NEW p \in Path, CallOp(c, o, p)
      PROVE  ShellInv'
    BY <1>1, CallOpStep
<1>2. ASSUME NEW c \in Caller, CallerStep(c)
      PROVE  ShellInv'
    BY <1>2, ReceiveStep, TimeoutStep, ReadOutStep, ReadErrStep, CleanCacheNextStep,
       ReturnStep DEF CallerStep
<1>3. ASSUME NEW x \in Exec, GoStep(x)
      PROVE  ShellInv'
    BY <1>3, CheckConfigStep, BuildConfigStep, CheckClientStep, BuildClientStep,
       DereferenceNilStep, WriteOutStep, WriteErrStep, SendStep, CollectStep DEF GoStep
<1>4. ASSUME NEW x \in Exec, Execute(x)
      PROVE  ShellInv'
    BY <1>4, ExecuteStep
<1>5. ASSUME NEW p \in Path, Read(p)
      PROVE  ShellInv'
    BY <1>5, ReadStep
<1>6. CASE UNCHANGED vars
    BY <1>6 DEF vars, ShellInv, TypeOK, OwnExecutions, RunOK
<1> QED BY <1>1, <1>2, <1>3, <1>4, <1>5, <1>6 DEF Next

\* The inductive invariant: executions belong to one call each, and what is on
\* its way to a caller of exec is the truth about the time of its call.
THEOREM ShellInvariant == Spec => []ShellInv
BY InitShell, NextShell, PTL DEF Spec

\* The state keeps its type, whatever timers and broken connections do.
THEOREM ShellTypeCorrect == Spec => []TypeOK
<1>1. ShellInv => TypeOK
    BY DEF ShellInv
<1> QED BY <1>1, ShellInvariant, PTL

\* IsMounted and MasterPodName index out of range only after a timer of exec
\* has fired.
THEOREM PanicsNeedTimers == Spec => []PanicOnlyAfterTimeout
<1>1. ShellInv => PanicOnlyAfterTimeout
    <2> SUFFICES ASSUME ShellInv, NEW c \in Caller, call[c].pc = "panic"
                 PROVE  call[c].expired
        BY DEF PanicOnlyAfterTimeout
    <2>1. CallOK(call[c], run[call[c].exec], fs)
        BY DEF ShellInv
    <2> QED BY <2>1 DEF CallOK, Paired
<1> QED BY <1>1, ShellInvariant, PTL

\* While nothing fails the variables are only set, and a goroutine goes to its
\* command when it has found both.
LEMMA ClientKept ==
    ASSUME ClientInv, failures = MaxFailures,
           restConfig => restConfig', clientset => clientset',
           NEW x \in Exec,
           \A y \in Exec \ {x} : run'[y].go \in {run[y].go, "free"},
           run'[x].go \in {"client", "new", "run"} => restConfig',
           run'[x].go = "run" => clientset',
           \A c \in Caller : call[c].pc # "crash" => call'[c].pc # "crash"
    PROVE  ClientInv'
<1>1. ASSUME NEW y \in Exec, run'[y].go \in {"client", "new", "run"}
      PROVE  restConfig'
    <2>1. CASE y = x
        BY <1>1, <2>1
    <2>2. CASE y # x
        <3>1. run[y].go \in {"client", "new", "run"}
            BY <1>1, <2>2
        <3> QED BY <3>1 DEF ClientInv
    <2> QED BY <2>1, <2>2
<1>2. ASSUME NEW y \in Exec, run'[y].go = "run"
      PROVE  clientset'
    <2>1. CASE y = x
        BY <1>2, <2>1
    <2>2. CASE y # x
        <3>1. run[y].go = "run"
            BY <1>2, <2>2
        <3> QED BY <3>1 DEF ClientInv
    <2> QED BY <2>1, <2>2
<1>3. \A c \in Caller : call'[c].pc # "crash"
    BY DEF ClientInv
<1> QED BY <1>1, <1>2, <1>3 DEF ClientInv

\* A step that sets neither and brings no goroutine nearer to its command.
LEMMA ClientUntouched ==
    ASSUME ClientInv, failures = MaxFailures, UNCHANGED <<restConfig, clientset>>,
           \A y \in Exec : run'[y].go \in {run[y].go, "free"},
           \A c \in Caller : call[c].pc # "crash" => call'[c].pc # "crash"
    PROVE  ClientInv'
<1>1. \A y \in Exec : run'[y].go \in {"client", "new", "run"} => restConfig'
    BY DEF ClientInv
<1>2. \A y \in Exec : run'[y].go = "run" => clientset'
    BY DEF ClientInv
<1>3. \A c \in Caller : call'[c].pc # "crash"
    BY DEF ClientInv
<1> QED BY <1>1, <1>2, <1>3 DEF ClientInv

\* Goroutines, while nothing fails.
LEMMA GoStepKeepsClient ==
    ASSUME ShellInv, ClientInv, NEW x \in Exec, GoStep(x), failures' = MaxFailures
    PROVE  ClientInv'
<1> DEFINE r == run[x]
<1>a. ~Fail
    BY Types, ShellAssumption DEF Fail
<1>b. ASSUME failures = MaxFailures, ~(clientset /\ restConfig), r.go = "run"
      PROVE  FALSE
    BY <1>b DEF ClientInv
<1>c. ASSUME failures = MaxFailures, ~restConfig, r.go \in {"client", "new"}
      PROVE  FALSE
    BY <1>c DEF ClientInv
<1>1. CASE CheckConfig(x)
    <2> DEFINE to == IF restConfig THEN "client" ELSE "build"
    <2>1. Go(x, "config", to) /\ UNCHANGED <<restConfig, clientset, call, failures>>
        BY <1>1 DEF CheckConfig
    <2>2. to \in GoSteps /\ to # "run" /\ to \notin {"new"} /\ (to = "client" => restConfig)
        BY DEF GoSteps
    <2> HIDE DEF to
    <2>3. RunBecomes(x, to, r.ans, r.ansErr, r.out, r.err, r.done)
        BY <2>1, <2>2, Types, GoFacts
    <2> QED BY <2>1, <2>2, <2>3, ClientKept DEF RunBecomes
<1>2. CASE BuildConfig(x)
    <2>1. /\ restConfig' = TRUE /\ Go(x, "build", "client")
          /\ UNCHANGED <<clientset, call, failures>>
        BY <1>2, <1>a DEF BuildConfig
    <2>2. "client" \in GoSteps
        BY DEF GoSteps
    <2>3. RunBecomes(x, "client", r.ans, r.ansErr, r.out, r.err, r.done)
        BY <2>1, <2>2, Types, GoFacts
    <2> QED BY <2>1, <2>3, ClientKept DEF RunBecomes
<1>3. CASE CheckClient(x)
    <2> DEFINE to == IF clientset THEN "run" ELSE "new"
    <2>1. Go(x, "client", to) /\ UNCHANGED <<restConfig, clientset, call, failures>>
        BY <1>3 DEF CheckClient
    <2>2. to \in GoSteps /\ (to = "run" => clientset)
        BY DEF GoSteps
    <2> HIDE DEF to
    <2>3. r.go = "client" /\ RunBecomes(x, to, r.ans, r.ansErr, r.out, r.err, r.done)
        BY <2>1, <2>2, Types, GoFacts
    <2>4. restConfig
        BY <1>c, <2>1, <2>3
    <2> QED BY <2>1, <2>2, <2>3, <2>4, ClientKept DEF RunBecomes
<1>4. CASE BuildClient(x)
    <2>1. /\ r.go = "new" /\ UNCHANGED restConfig
          /\ \/ /\ restConfig /\ clientset' = TRUE /\ Go(x, "new", "run")
                /\ UNCHANGED <<call, failures>>
             \/ ~restConfig /\ UNCHANGED failures
        BY <1>4, <1>a DEF BuildClient
    <2>2. /\ restConfig /\ clientset' = TRUE /\ Go(x, "new", "run")
          /\ UNCHANGED <<restConfig, call, failures>>
        BY <1>c, <2>1
    <2>3. "run" \in GoSteps
        BY DEF GoSteps
    <2>4. RunBecomes(x, "run", r.ans, r.ansErr, r.out, r.err, r.done)
        BY <2>2, <2>3, Types, GoFacts
    <2> QED BY <2>2, <2>4, ClientKept DEF RunBecomes
<1>5. CASE DereferenceNil(x)
    BY <1>5, <1>b DEF DereferenceNil
<1>6. CASE WriteOut(x) \/ WriteErr(x) \/ Send(x) \/ Collect(x)
    <2>1. UNCHANGED <<restConfig, clientset, call, failures>>
        BY <1>6 DEF WriteOut, WriteErr, Send, Collect
    <2>2. /\ run'[x].go \in {"err", "send", "end", "free"}
          /\ \A y \in Exec \ {x} : run'[y] = run[y]
        <3>1. CASE WriteOut(x)
            BY <3>1, WriteOutFacts, Types DEF RunBecomes
        <3>2. CASE WriteErr(x)
            BY <3>2, WriteErrFacts, Types DEF RunBecomes
        <3>3. CASE Send(x)
            BY <3>3, SendFacts, Types DEF RunBecomes
        <3>4. CASE Collect(x)
            <4>1. run' = [run EXCEPT ![x] = FreeRun]
                BY <3>4 DEF Collect
            <4> QED BY <4>1, Types, InitialValues
        <3> QED BY <1>6, <3>1, <3>2, <3>3, <3>4
    <2> QED BY <2>1, <2>2, ClientKept
<1> QED BY <1>1, <1>2, <1>3, <1>4, <1>5, <1>6 DEF GoStep

\* Callers neither set nor read the two variables.
LEMMA CallerKeepsClient ==
    ASSUME ShellInv, ClientInv, NEW c \in Caller, CallerStep(c), failures' = MaxFailures
    PROVE  ClientInv'
<1>0. UNCHANGED <<restConfig, clientset, failures>>
    BY DEF CallerStep, Receive, Timeout, ReadOut, ReadErr, CleanCacheNext, Return
<1>1. CASE Receive(c) \/ ReadOut(c)
    <2>1. UNCHANGED run
        BY <1>1 DEF Receive, ReadOut
    <2>2. call[c].pc \in Waiting
        BY <1>1 DEF Receive, ReadOut, Waiting
    <2>3. \A d \in Caller : call'[d] = call[d] \/ call'[d].pc \in {"readOut", "readErr"}
        <3>1. call[c].exec \in Exec
            BY <2>2, WaitingCall
        <3> QED BY <1>1, <3>1, Types, ReceiveFacts, ReadOutFacts DEF CallBecomes
    <2> QED BY <1>0, <2>1, <2>3, ClientUntouched
<1>2. CASE Timeout(c) \/ ReadErr(c)
    <2>1. call[c].pc \in Waiting
        BY <1>2 DEF Timeout, ReadErr, Waiting
    <2>2. call[c].exec \in Exec
        BY <2>1, WaitingCall
    <2>3. /\ \A d \in Caller : call'[d] = call[d] \/ call'[d].pc \in {"readOut", "parse"}
          /\ \A y \in Exec : run'[y].go = run[y].go
        <3>1. CASE Timeout(c)
            <4>1. \A d \in Caller \ {c} : call'[d] = call[d]
                BY <2>2, <3>1, Types, TimeoutFacts DEF CallBecomes
            <4>2. call'[c].pc = "readOut"
                BY <2>2, <3>1, Types, TimeoutFacts DEF CallBecomes
            <4>3. \A y \in Exec : run'[y].go = run[y].go
                BY <2>2, <3>1, Types, TimeoutFacts DEF RunBecomes
            <4> QED BY <4>1, <4>2, <4>3
        <3>2. CASE ReadErr(c)
            <4>1. \A d \in Caller \ {c} : call'[d] = call[d]
                BY <2>2, <3>2, Types, ReadErrFacts DEF CallBecomes
            <4>2. call'[c].pc = "parse"
                BY <2>2, <3>2, Types, ReadErrFacts DEF CallBecomes
            <4>3. \A y \in Exec : run'[y].go = run[y].go
                BY <2>2, <3>2, Types, ReadErrFacts DEF RunBecomes
            <4> QED BY <4>1, <4>2, <4>3
        <3> QED BY <1>2, <3>1, <3>2
    <2> QED BY <1>0, <2>3, ClientUntouched
<1>3. CASE CleanCacheNext(c)
    <2>0. PICK x : x = CHOOSE y \in Free : TRUE
        OBVIOUS
    <2>1. /\ Free # {} /\ Start(x, "free", call[c].path, TRUE)
          /\ call' = [call EXCEPT ![c].pc = "wait", ![c].cmd = "free", ![c].exec = x]
        BY <1>3, <2>0 DEF CleanCacheNext
    <2>2. x \in Exec
        BY <2>0, <2>1 DEF Free
    <2>3. run'[x].go = "config" /\ \A y \in Exec \ {x} : run'[y] = run[y]
        <3>1. call[c].path \in Path /\ "free" \in Commands
            BY Types, CommandFacts DEF Call
        <3> QED BY <2>1, <2>2, <3>1, Types, StartFacts
    <2>4. \A d \in Caller : call'[d] = call[d] \/ call'[d].pc = "wait"
        <3> DEFINE k == [call[c] EXCEPT !.pc = "wait", !.cmd = "free", !.exec = x]
        <3>1. call' = [call EXCEPT ![c] = k]
            BY <2>1
        <3>2. k.pc = "wait"
            BY Types DEF Call
        <3> HIDE DEF k
        <3> QED BY <3>1, <3>2, Types
    <2> QED BY <1>0, <2>2, <2>3, <2>4, ClientKept
<1>4. CASE Return(c)
    <2>1. /\ \A y \in Exec : run'[y].go \in {run[y].go, "free"}
          /\ \A d \in Caller : call'[d] = call[d] \/ call'[d].pc \in {"idle", "panic"}
        <3>1. CASE Result(c).panic
            <4> DEFINE k == [NoCall EXCEPT !.pc = "panic", !.expired = call[c].expired]
            <4>1. call' = [d \in Caller |-> k] /\ run' = [x \in Exec |-> FreeRun]
                BY <1>4, <3>1 DEF Return, Panic
            <4>2. k.pc = "panic"
                BY InitialValues DEF Call
            <4> HIDE DEF k
            <4> QED BY <4>1, <4>2, InitialValues
        <3>2. CASE ~Result(c).panic
            <4>1. call' = [call EXCEPT ![c] = NoCall] /\ UNCHANGED run
                BY <1>4, <3>2 DEF Return
            <4> QED BY <4>1, Types, InitialValues
        <3> QED BY <3>1, <3>2
    <2> QED BY <1>0, <2>1, ClientUntouched
<1> QED BY <1>1, <1>2, <1>3, <1>4 DEF CallerStep

LEMMA NextClient == ShellInv /\ ClientInv /\ [Next]_vars => ClientInv'
<1> SUFFICES ASSUME ShellInv, ClientInv, [Next]_vars, failures' = MaxFailures
             PROVE  ClientInv'
    BY DEF ClientInv
<1>1. ASSUME NEW c \in Caller, NEW o \in Operations[c], NEW p \in Path, CallOp(c, o, p)
      PROVE  ClientInv'
    <2>0. PICK x : x = CHOOSE y \in Free : TRUE
        OBVIOUS
    <2> DEFINE j == [NoCall EXCEPT !.pc = "wait", !.op = o, !.path = p, !.cmd = Command[o],
                                   !.exec = x, !.seen = {Watched(o, p, fs)}]
    <2>1. /\ Cardinality(Free) > Cardinality(Active)
          /\ Start(x, Command[o], p, o \notin Untimed)
          /\ call' = [call EXCEPT ![c] = j]
          /\ UNCHANGED <<restConfig, clientset, failures>>
        BY <1>1, <2>0 DEF CallOp
    <2>2. x \in Exec
        BY <2>0, <2>1, SomeFree DEF Free
    <2>3. Command[o] \in Commands /\ (o \notin Untimed) \in BOOLEAN
        BY ShellAssumption, CommandFacts
    <2>4. run'[x].go = "config" /\ \A y \in Exec \ {x} : run'[y] = run[y]
        BY <2>1, <2>2, <2>3, Types, StartFacts
    <2>5. j.pc = "wait"
        BY InitialValues DEF Call
    <2> HIDE DEF j
    <2>6. \A d \in Caller : call'[d] = call[d] \/ call'[d].pc = "wait"
        BY <2>1, <2>5, Types
    <2> QED BY <2>1, <2>2, <2>4, <2>6, ClientKept
<1>2. ASSUME NEW c \in Caller, CallerStep(c)
      PROVE  ClientInv'
    BY <1>2, CallerKeepsClient
<1>3. ASSUME NEW x \in Exec, GoStep(x)
      PROVE  ClientInv'
    BY <1>3, GoStepKeepsClient
<1>4. ASSUME NEW x \in Exec, Execute(x)
      PROVE  ClientInv'
    <2>1. run'[x].go = "out" /\ \A y \in Exec \ {x} : run'[y] = run[y]
        <3>1. PICK out, err :
                  run' = [run EXCEPT ![x].go = "out", ![x].ans = out, ![x].ansErr = err]
            BY <1>4 DEF Execute
        <3> DEFINE q == [run[x] EXCEPT !.go = "out", !.ans = out, !.ansErr = err]
        <3>2. run' = [run EXCEPT ![x] = q]
            BY <3>1
        <3>3. q.go = "out"
            BY Types DEF Run
        <3> HIDE DEF q
        <3> QED BY <3>2, <3>3, Types
    <2>2. call' = Witness(fs') /\ UNCHANGED <<restConfig, clientset, failures>>
        BY <1>4 DEF Execute
    <2>3. \A c \in Caller : call'[c].pc = call[c].pc
        BY <2>2, Types, WitnessFacts
    <2> QED BY <2>1, <2>2, <2>3, ClientKept
<1>5. ASSUME NEW p \in Path, Read(p)
      PROVE  ClientInv'
    <2>1. call' = Witness(fs') /\ UNCHANGED <<restConfig, clientset, run, failures>>
        BY <1>5 DEF Read
    <2>2. \A c \in Caller : call'[c].pc = call[c].pc
        BY <2>1, Types, WitnessFacts
    <2> QED BY <2>1, <2>2, ClientUntouched
<1>6. CASE UNCHANGED vars
    BY <1>6 DEF vars, ClientInv
<1> QED BY <1>1, <1>2, <1>3, <1>4, <1>5, <1>6 DEF Next

\* As long as building the configuration or the client has not failed, initClient
\* hands both to every goroutine that goes on to post its command, and none
\* dereferences nil.
THEOREM ClientBeforeCommand == Spec => []ClientBuilt
<1>1. Init => ClientInv
    <2> SUFFICES ASSUME Init
                 PROVE  ClientInv
        OBVIOUS
    <2>1. \A x \in Exec : run[x].go = "free"
        BY InitialValues DEF Init
    <2>2. \A c \in Caller : call[c].pc = "idle"
        BY InitialValues DEF Init
    <2> QED BY <2>1, <2>2 DEF ClientInv
<1>2. ClientInv => ClientBuilt
    BY DEF ClientInv, ClientBuilt
<1>3. Spec => []ClientInv
    BY <1>1, NextClient, ShellInvariant, PTL DEF Spec
<1> QED BY <1>2, <1>3, PTL

\* Only the return of a call makes it idle.
LEMMA IdleAfterReturn ==
    ASSUME ShellInv, [Next]_vars, NEW c \in Caller, call[c].pc = "parse",
           call'[c].pc = "idle"
    PROVE  Return(c) /\ ~Result(c).panic
<1>0. call \in [Caller -> Call]
    BY Types
<1>1. ASSUME NEW d \in Caller, NEW o \in Operations[d], NEW p \in Path, CallOp(d, o, p)
      PROVE  FALSE
    BY <1>0, <1>1 DEF CallOp
<1>2. ASSUME NEW d \in Caller, Return(d)
      PROVE  Return(c) /\ ~Result(c).panic
    <2>1. CASE Result(d).panic
        <3>1. call'[c] = [NoCall EXCEPT !.pc = "panic", !.expired = call[d].expired]
            BY <1>2, <2>1 DEF Return, Panic
        <3>2. call'[c].pc = "panic"
            BY <3>1, InitialValues DEF Call
        <3> QED BY <3>2
    <2>2. CASE ~Result(d).panic
        <3>1. call' = [call EXCEPT ![d] = NoCall]
            BY <1>2, <2>2 DEF Return
        <3> QED BY <1>0, <1>2, <2>2, <3>1
    <2> QED BY <2>1, <2>2
<1>3. ASSUME NEW d \in Caller, Receive(d) \/ Timeout(d) \/ ReadOut(d) \/ ReadErr(d)
                               \/ CleanCacheNext(d)
      PROVE  FALSE
    <2>1. CASE d # c
        BY <1>0, <1>3, <2>1 DEF Receive, Timeout, ReadOut, ReadErr, CleanCacheNext
    <2>2. CASE d = c /\ CleanCacheNext(c)
        <3>1. PICK x : call' = [call EXCEPT ![c].pc = "wait", ![c].cmd = "free", ![c].exec = x]
            BY <2>2 DEF CleanCacheNext
        <3>2. call'[c] = [call[c] EXCEPT !.pc = "wait", !.cmd = "free", !.exec = x]
            BY <1>0, <3>1
        <3>3. call'[c].pc = "wait"
            BY <1>0, <3>2, SMTT(60) DEF Call
        <3> QED BY <3>3
    <2>3. CASE d = c /\ ~CleanCacheNext(c)
        BY <1>3, <2>3 DEF Receive, Timeout, ReadOut, ReadErr
    <2> QED BY <1>3, <2>1, <2>2, <2>3
<1>4. ASSUME NEW x \in Exec, GoStep(x)
      PROVE  FALSE
    <2>1. CASE Crash
        <3>1. PICK k \in Call : k.pc = "crash" /\ call' = [d \in Caller |-> k]
            BY <2>1, CrashFacts
        <3> QED BY <3>1
    <2>2. CASE ~Crash
        BY <1>4, <2>2 DEF GoStep, CheckConfig, BuildConfig, CheckClient, BuildClient,
                          DereferenceNil, WriteOut, WriteErr, Send, Collect
    <2> QED BY <2>1, <2>2
<1>5. ASSUME call' = Witness(fs')
      PROVE  FALSE
    BY <1>0, <1>5, WitnessFacts
<1>6. CASE UNCHANGED vars
    BY <1>6 DEF vars
<1>7. ASSUME NEW x \in Exec, Execute(x)
      PROVE  FALSE
    BY <1>5, <1>7 DEF Execute
<1>8. ASSUME NEW p \in Path, Read(p)
      PROVE  FALSE
    BY <1>5, <1>8 DEF Read
<1> QED BY <1>1, <1>2, <1>3, <1>4, <1>6, <1>7, <1>8 DEF Next, CallerStep

\* What a return without an error says was so at some moment of the call.
LEMMA ReturnsTheTruth ==
    ASSUME ShellInv, NEW c \in Caller, Return(c), ~Result(c).panic, Result(c).err = "nil"
    PROVE  (IF call[c].op \in {"IsExist", "IsMounted"} THEN Result(c).found ELSE TRUE)
               \in call[c].seen
<1> DEFINE k == call[c]
           r == Result(c)
<1>1. k \in Call /\ CallOK(k, run[k.exec], fs) /\ k.pc = "parse" /\ ~GoesOn(c)
    BY Types DEF ShellInv, Return
<1>2. /\ OutTrue(k, k.out) /\ ErrTrue(k, k.err) /\ Watched(k.op, k.path, fs) \in k.seen
      /\ k.cmd = Command[k.op] \/ (k.op = "CleanCache" /\ k.cmd = "free")
    BY <1>1 DEF CallOK, Truth, UpToDate, Linked, UnderWay
<1>3. k.op \in Op /\ k.out \in Outputs
    BY <1>1 DEF Call
<1>a. Tells(k.op, k.cmd, k.out, k.err, r)
    <2>1. r = ResultOf(k.op, k.cmd, k.out, k.err) /\ ~r.panic /\ r.err = "nil"
        BY DEF Result
    <2> HIDE DEF k, r
    <2> QED BY <1>3, <2>1, NilFacts
<1>4. /\ k.op = "IsExist" => \/ k.err = "nil" /\ r.found = TRUE
                             \/ k.out.says = "does not exist" /\ r.found = FALSE
      /\ k.op \in {"Mkdir", "Mount", "UnMount", "CleanCache"} => k.err = "nil"
      /\ k.op = "IsMounted" => ~(k.out.fields < 3) /\ r.found = (k.out.says = "on path")
      /\ k.op = "CleanCache" /\ k.cmd = "issue" => CleanCache("issue", k.out, k.err).err = "nil"
    BY <1>a DEF Tells
<1>5. ~(k.op = "CleanCache" /\ k.cmd = "issue")
    BY <1>1, <1>4 DEF GoesOn
<1> HIDE DEF k, r
<1>6. (IF k.op \in {"IsExist", "IsMounted"} THEN r.found ELSE TRUE) \in k.seen
    <2>1. CASE k.op = "IsExist"
        <3>1. CASE k.err = "nil" /\ r.found = TRUE
            BY <1>2, <2>1, <3>1 DEF ErrTrue
        <3>2. CASE k.out.says = "does not exist" /\ r.found = FALSE
            BY <1>2, <2>1, <3>2 DEF OutTrue
        <3> QED BY <1>4, <2>1, <3>1, <3>2
    <2>2. CASE k.op = "IsMounted"
        <3>1. k.out.fields \in 0..4
            BY <1>3 DEF Outputs
        <3>2. k.out.fields >= 3
            <4>1. ~(k.out.fields < 3)
                BY <1>4, <2>2
            <4> QED BY <3>1, <4>1
        <3>3. (k.out.says = "on path") \in k.seen
            BY <1>2, <2>2, <3>2 DEF OutTrue
        <3> QED BY <1>4, <2>2, <3>3
    <2>3. CASE k.op \in {"Mkdir", "Mount", "UnMount"}
        BY <1>2, <1>4, <2>3 DEF ErrTrue
    <2>4. CASE k.op = "CleanCache"
        <3>1. k.cmd = "free"
            BY <1>2, <1>5, <2>4, CommandFacts
        <3> QED BY <1>2, <1>4, <2>4, <3>1 DEF ErrTrue
    <2>5. CASE k.op \notin {"IsExist", "IsMounted", "Mkdir", "Mount", "UnMount", "CleanCache"}
        <3>1. Watched(k.op, k.path, fs) = TRUE
            BY <2>5 DEF Watched
        <3> QED BY <1>2, <2>5, <3>1
    <2> QED BY <2>1, <2>2, <2>3, <2>4, <2>5
<1> QED BY <1>6 DEF k, r

\* An operation of AlluxioFileUtils that returns without an error was right at
\* some moment between its call and its return.
THEOREM AnswersAreOfTheirCall == Spec => AnswersWithinCall
<1>1. ShellInv /\ [Next]_vars =>
          [\A c \in Caller :
              LET r == Result(c)
              IN  call[c].pc = "parse" /\ call'[c].pc = "idle" /\ r.err = "nil" =>
                      (IF call[c].op \in {"IsExist", "IsMounted"} THEN r.found ELSE TRUE)
                          \in call[c].seen]_vars
    BY IdleAfterReturn, ReturnsTheTruth
<1> QED BY <1>1, ShellInvariant, PTL DEF Spec, AnswersWithinCall

=============================================================================
