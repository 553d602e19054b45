---------------------------- MODULE MCAlgorithms ----------------------------
(* Inputs for Algorithms that are small and hold every special case. *)
EXTENDS Algorithms

MCTiers == UNION {[1..n -> LevelSpec(MediumType, {2, 3}, 2)] : n \in 0..1}
             \cup [1..3 -> {l \in LevelSpec(MediumType, {3}, 2) : Len(l.quotaList) # 1}]

Storage == {[t \in {} |-> 0], [memory |-> 2], [disk |-> 3], [memory |-> 2, disk |-> 3]}

\* Labels of a node: of another runtime, of nobody, and the exclusive one.
Before ==
    UNION {[keys -> {"r1", "r2"}] :
              keys \in SUBSET {CommonLabelName("r2"), <<"zone", "">>, ExclusiveKey}}

MCLabels == [labels : Before, runtime : {"r1"}, storage : Storage,
             exclusive : BOOLEAN, attempts : 1..3]

Change == [op : {"Add", "UpdateValue"}, key : {"a", "b"}, value : {"x", "y"}]
             \cup [op : {"Delete"}, key : {"a", "b"}, value : {""}]

MCChanges == [labels : UNION {[keys -> {"x"}] : keys \in SUBSET {"a", "b"}},
              ops : BoundedSeq(Change, 3)]

Pod == [node : {"", "n1", "n2"}, claims : {<<"data">>, <<"", "data">>, <<"other", "data", "data">>, <<"other">>},
        phase : {"Running", "Succeeded", "Unknown"}, deleting : BOOLEAN]

MCPods == [pods : BoundedSeq({p \in Pod : p.node = "" => p.phase = "Running"}, 2),
           pvc : {c \in [exists : BOOLEAN, annotated : BOOLEAN, deleting : BOOLEAN,
                         finalizer : BOOLEAN, waited : BOOLEAN] :
                     /\ c.waited => c.deleting
                     /\ c.deleting => c.exists
                     /\ c.exists /\ ~c.deleting => c.finalizer}]

Nodes == <<"n1", "n2", "n3", "n4", "n5">>
MCSchedule == [nodes : {Nodes}, selected : {{}, {"n2", "n5"}},
               mounts : UNION {[S -> 1..3] : S \in SUBSET ToSet(Nodes)}]

\* Workers known by address, by host name and not at all.
Hosts == <<[name |-> "n1", ip |-> "10.0.0.1", hostname |-> ""],
           [name |-> "n2", ip |-> "10.0.0.2", hostname |-> "host2"],
           [name |-> "n3", ip |-> "", hostname |-> "host3"]>>

MCShutdown ==
    [nodes : {Hosts, SubSeq(Hosts, 2, 2)}, fuseGlobal : BOOLEAN,
     mounts : UNION {[S -> {1}] : S \in SUBSET {"n1", "n2", "n3"}},
     report : [header : BOOLEAN, odd : BOOLEAN,
               used : UNION {[S -> {0, 1, 2}] : S \in SUBSET {"10.0.0.1", "host2", "host3"}}]]

MCParse ==
    {i \in [op : Op, cmd : {"print", "issue"}, out : Outputs, err : {"nil", "exit", "timeout"}] :
        i.cmd = "issue" => i.op = "CleanCache"}

=============================================================================
