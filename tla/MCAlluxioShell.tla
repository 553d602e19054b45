--------------------------- MODULE MCAlluxioShell ---------------------------
(* A small instance of AlluxioShell: one caller and two executions; one of    *)
(* the operations parses, one changes the namespace, one runs two commands.   *)
EXTENDS AlluxioShell, TLC

CONSTANT c1

MCOperations ==
    c1 :> {"IsMounted", "Mount", "CleanCache"}

=============================================================================
