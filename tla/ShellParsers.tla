---------------------------- MODULE ShellParsers ----------------------------
(***************************************************************************)
(* What the operations of AlluxioFileUtils make of the stdout and the err  *)
(* of the commands they execute.                                           *)
(***************************************************************************)
EXTENDS Naturals

CONSTANT Release    \* the Linux releases the pod's image may be

\* What the parsers tell apart in stdout: a phrase, the number of lines, the
\* fields of a line, and whether numbers stand where they should.
Output(says, lines, fields, numbers) ==
    [says |-> says, lines |-> lines, fields |-> fields, numbers |-> numbers]

Says == {"", "does not exist", "text", "Used Capacity:", "on path", "elsewhere"}
            \cup Release
Outputs == [says : Says, lines : 1..2, fields : 0..4, numbers : BOOLEAN]

\* An empty string still splits into one line, without fields.
NoOutput == Output("", 1, 0, FALSE)
Errors == {"nil", "init", "exit", "timeout", "parse"}

\* The command of an operation; CleanCache has a second one.  LoadMetaData
\* stands for ReportSummary and QueryMetaDataInfoIntoFile too, Report for
\* ReportMetrics and ReportCapacity.
Command ==
    [IsExist |-> "ls", LoadMetaData |-> "print", LoadMetadataWithoutTimeout |-> "print",
     Mkdir |-> "mkdir", Mount |-> "mount", UnMount |-> "unmount", IsMounted |-> "mounts",
     Ready |-> "report", Du |-> "du", Count |-> "count", GetFileCount |-> "metrics",
     Report |-> "print", MasterPodName |-> "report", CachedState |-> "report",
     GetConf |-> "print", SyncLocalDir |-> "print", CleanCache |-> "issue"]

Op == DOMAIN Command
-----------------------------------------------------------------------------
Answer(err, found) == [err |-> err, found |-> found, panic |-> FALSE]

\* An index out of range.
Panics == [err |-> "nil", found |-> FALSE, panic |-> TRUE]

\* Variant: a command that fails says that the path does not exist.
IsExistAnyError(out, err) == Answer("nil", err = "nil")

IsExist(out, err) ==
    IF err # "nil" /\ out.says # "does not exist" THEN Answer(err, FALSE)
                                                   ELSE Answer("nil", err = "nil")

\* These return the text itself or part of it, or only whether it went well:
\* ReportSummary, the loads of metadata and QueryMetaDataInfoIntoFile,
LoadMetaData(out, err) == Answer(err, FALSE)

\* Mkdir, Mount and UnMount,
Mount(out, err) == Answer(err, FALSE)

\* ReportMetrics and ReportCapacity.
Report(out, err) == Answer(err, FALSE)

GetConf(out, err) == Answer(err, FALSE)

SyncLocalDir(out, err) == Answer(err, FALSE)

\* fields[2] of every line up to the one with the path.
IsMounted(out, err) ==
    IF err # "nil" THEN Answer(err, FALSE)
    ELSE IF out.fields < 3 THEN Panics
    ELSE Answer("nil", out.says = "on path")

Ready(out, err) == Answer(err, err = "nil")

Parsed(ok) == Answer(IF ok THEN "nil" ELSE "parse", FALSE)

Du(out, err) ==
    IF err # "nil" THEN Answer(err, FALSE)
    ELSE Parsed(out.lines = 2 /\ out.fields = 4 /\ out.numbers)

Count(out, err) ==
    IF err # "nil" THEN Answer(err, FALSE)
    ELSE Parsed(out.lines = 2 /\ out.fields = 3 /\ out.numbers)

GetFileCount(out, err) ==
    IF err # "nil" THEN Answer(err, FALSE) ELSE Parsed(out.numbers)

\* A split has at least one element, so the test for none never holds, and
\* two fields pass the test although the third is read.
MasterPodName(out, err) ==
    IF err # "nil" THEN Answer(err, FALSE)
    ELSE IF out.lines < 2 THEN Panics
    ELSE IF out.fields < 2 THEN Answer("parse", FALSE)
    ELSE IF out.fields = 2 THEN Panics
    ELSE Answer("nil", FALSE)

CachedState(out, err) ==
    IF err # "nil" THEN Answer(err, FALSE)
    ELSE Parsed(out.says = "Used Capacity:" /\ out.fields # 0 /\ out.numbers)

\* The answer of CleanCache when its last command is the one that has run.
CleanCache(cmd, out, err) ==
    IF cmd = "issue" /\ err = "nil" /\ out.says \notin {"Ubuntu", "Alpine"}
    THEN Answer("parse", FALSE)
    ELSE Answer(err, FALSE)

\* The operation op after command cmd.
ResultOf(op, cmd, out, err) ==
    CASE op = "IsExist" -> IsExist(out, err)
      [] op = "Report" -> Report(out, err)
      [] op = "GetConf" -> GetConf(out, err)
      [] op = "SyncLocalDir" -> SyncLocalDir(out, err)
      [] op \in {"LoadMetaData", "LoadMetadataWithoutTimeout"} -> LoadMetaData(out, err)
      [] op \in {"Mkdir", "Mount", "UnMount"} -> Mount(out, err)
      [] op = "IsMounted" -> IsMounted(out, err)
      [] op = "Ready" -> Ready(out, err)
      [] op = "MasterPodName" -> MasterPodName(out, err)
      [] op = "CachedState" -> CachedState(out, err)
      [] op = "Du" -> Du(out, err)
      [] op = "Count" -> Count(out, err)
      [] op = "GetFileCount" -> GetFileCount(out, err)
      [] op = "CleanCache" -> CleanCache(cmd, out, err)

=============================================================================
