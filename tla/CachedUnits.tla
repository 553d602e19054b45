----------------------------- MODULE CachedUnits -----------------------------
(***************************************************************************)
(* What the DataTable controller promises about the units (tables and      *)
(* partitions) that several objects share, although it sees the objects    *)
(* only as its informer last showed them.  Something of a unit appears in  *)
(* Alluxio only for an object that is protected by its finalizer.  It is   *)
(* taken back for an object that is leaving, one object at a time, and     *)
(* only when at most one object is known to bear its label; it is left     *)
(* where it is only when another object is known to bear it.  The labels   *)
(* of an object are cleared when each of them has been dealt with so, and  *)
(* an object leaves only without labels.                                   *)
(***************************************************************************)
CONSTANTS Object, Unit, Nobody

VARIABLES
    named,      \* named[d]: the units that object d names
    protected,  \* the objects that bear the finalizer
    labelled,   \* labelled[d]: the units whose label d bears
    cleared,    \* cleared[d]: the units whose label d has borne
    leaving,    \* the objects that are being deleted
    known,      \* known[d]: labelled[d] as it was when the informer last looked
    turn,       \* the object whose deletion is at work
    dealt,      \* the units it has dealt with
    claim,      \* the unit, if any, that it is taking back
    residue     \* the units that have something in Alluxio or redis

objects == <<named, protected, labelled, cleared, leaving>>
deletion == <<turn, dealt, claim>>
vars == <<objects, known, deletion, residue>>

Nothing == [d \in Object |-> {}]
KnownHolders(u) == {e \in Object : u \in known[e]}
AtMostOneKnown(u) == \A e, f \in KnownHolders(u) : e = f

Init ==
    /\ named = Nothing /\ labelled = Nothing /\ cleared = Nothing /\ known = Nothing
    /\ protected = {} /\ leaving = {} /\ residue = {}
    /\ turn = Nobody /\ dealt = {} /\ claim = {}

-----------------------------------------------------------------------------
(* Objects come, are protected, labelled, marked and leave. *)

Join(d) ==
    /\ named[d] = {}
    /\ \E U \in (SUBSET Unit) \ {{}} : named' = [named EXCEPT ![d] = U]
    /\ UNCHANGED <<protected, labelled, cleared, leaving, known, deletion, residue>>

Protect(d) ==
    /\ named[d] # {} /\ d \notin leaving
    /\ protected' = protected \cup {d}
    /\ UNCHANGED <<named, labelled, cleared, leaving, known, deletion, residue>>

\* An object gets the labels of all that it names, once.
Label(d) ==
    /\ d \in protected /\ labelled[d] = {} /\ cleared[d] = {}
    /\ labelled' = [labelled EXCEPT ![d] = named[d]]
    /\ UNCHANGED <<named, protected, cleared, leaving, known, deletion, residue>>

\* Its user deletes it: it stays as long as it is protected.
Mark(d) ==
    /\ d \in protected \ leaving
    /\ leaving' = leaving \cup {d}
    /\ UNCHANGED <<named, protected, labelled, cleared, known, deletion, residue>>

\* It is gone: unprotected, or with its deletion done.
Leave(d) ==
    /\ d \notin protected \/ d \in leaving
    /\ labelled[d] = {}
    /\ named' = [named EXCEPT ![d] = {}]
    /\ cleared' = [cleared EXCEPT ![d] = {}]
    /\ protected' = protected \ {d} /\ leaving' = leaving \ {d}
    /\ UNCHANGED <<labelled, known, deletion, residue>>

\* The informer takes in the labels of d.
Learn(d) ==
    /\ known' = [known EXCEPT ![d] = labelled[d]]
    /\ UNCHANGED <<objects, deletion, residue>>

\* Something of a unit appears in Alluxio.
Bring(u) ==
    /\ u \notin residue
    /\ \E d \in protected : u \in named[d]
    /\ residue' = residue \cup {u}
    /\ UNCHANGED <<objects, known, deletion>>

-----------------------------------------------------------------------------
(* One deletion at a time deals with the labels of its object. *)

Begin(d) ==
    /\ turn = Nobody
    /\ turn' = d
    /\ UNCHANGED <<objects, known, dealt, claim, residue>>

\* Another object is known to hold u, which is left to it.
Pass(d, u) ==
    /\ turn = d /\ claim = {}
    /\ ~AtMostOneKnown(u)
    /\ dealt' = dealt \cup {u}
    /\ UNCHANGED <<objects, known, turn, claim, residue>>

\* The last one known to hold u starts to take it back.
Claim(d, u) ==
    /\ turn = d /\ claim = {} /\ d \in leaving
    /\ u \in labelled[d] \cup cleared[d]
    /\ AtMostOneKnown(u)
    /\ claim' = {u}
    /\ UNCHANGED <<objects, known, turn, dealt, residue>>

\* It goes on, may have removed the rest, and may be done.
Take ==
    /\ claim # {}
    /\ residue' \in {residue, residue \ claim}
    /\ \/ UNCHANGED <<dealt, claim>>
       \/ dealt' = dealt \cup claim /\ claim' = {}
    /\ UNCHANGED <<objects, known, turn>>

Done == turn' = Nobody /\ dealt' = {} /\ claim' = {}

\* The labels go, all at once.
Clear(d) ==
    /\ turn = d /\ claim = {} /\ d \in leaving
    /\ labelled[d] \subseteq dealt
    /\ cleared' = [cleared EXCEPT ![d] = @ \cup labelled[d]]
    /\ labelled' = [labelled EXCEPT ![d] = {}]
    /\ Done
    /\ UNCHANGED <<named, protected, leaving, known, residue>>

\* The deletion has nothing to clear, or did not get to it.
End ==
    /\ turn # Nobody /\ claim = {}
    /\ Done
    /\ UNCHANGED <<objects, known, residue>>

\* The controller starts anew.
Restart ==
    /\ Done
    /\ known' = labelled
    /\ UNCHANGED <<objects, residue>>

\* A step of something else; most steps of an implementation are.
Elsewhere == UNCHANGED vars

Next ==
    \/ Elsewhere \/ Take \/ End \/ Restart
    \/ \E d \in Object :
          \/ Join(d) \/ Protect(d) \/ Label(d) \/ Mark(d) \/ Leave(d) \/ Learn(d)
          \/ Begin(d) \/ Clear(d)
          \/ \E u \in Unit : Pass(d, u) \/ Claim(d, u)
    \/ \E u \in Unit : Bring(u)

Spec == Init /\ [][Next]_vars

=============================================================================
