------------------------- MODULE MCAlluxioRuntimes -------------------------
(* Instances of AlluxioRuntimes for TLC. *)
EXTENDS AlluxioRuntimes, TLC

CONSTANTS r1, r2, n1, n2

\* Ids that differ.
OwnIDs == r1 :> "default-a" @@ r2 :> "default-b"

MCMemory == [n \in Node |-> 2]
=============================================================================
