------------------------------ MODULE MCCluster ------------------------------
(* One run for the three parts of the pool that do not share state: part   *)
(* says which of them moves.  The others keep their first state.           *)
EXTENDS NodeAgent, MeshAllocator, Scheduler

VARIABLE part

Status(ram, busy, vms, users, quarters, trust) ==
    [ready |-> TRUE, health |-> "healthy", draining |-> FALSE,
     ram |-> ram, ramUsed |-> busy, disk |-> 2, diskUsed |-> 0, vms |-> vms,
     users |-> users, quarters |-> quarters, trust |-> trust]

MCFacts ==
    {Status(4, 2, 1, {"u1"}, 1, 50), Status(2, 0, 0, {}, 0, 100),
     Status(4, 2, 2, {}, 5, 50), Status(4, 3, 1, {"u2"}, -1, 50),
     [Status(4, 0, 0, {}, 0, 100) EXCEPT !.health = "unknown"],
     [Status(4, 0, 0, {}, 0, 100) EXCEPT !.ready = FALSE]}

MCRequests ==
    {[mem |-> 1, disk |-> 1, trust |-> 0, user |-> "u1", prefer |-> {"p2"}],
     [mem |-> 2, disk |-> 2, trust |-> 50, user |-> "u2", prefer |-> {}]}

Init ==
    /\ ClusterInit /\ MeshInit /\ SchedInit
    /\ part \in {"heartbeats", "subnets", "placements"}
    /\ part # "placements" => \A n \in Pool : pool[n] = CHOOSE f \in Facts : TRUE

Next ==
    \/ part = "heartbeats" /\ ClusterNext /\ UNCHANGED <<meshVars, schedVars, part>>
    \/ part = "subnets" /\ MeshNext /\ UNCHANGED <<clusterVars, schedVars, part>>
    \/ part = "placements" /\ SchedNext /\ UNCHANGED <<clusterVars, meshVars, part>>

allVars == <<clusterVars, meshVars, schedVars, part>>

Spec == Init /\ [][Next]_allVars /\ ClusterFairness
=============================================================================
