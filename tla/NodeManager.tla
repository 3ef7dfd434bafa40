----------------------------- MODULE NodeManager -----------------------------
(***************************************************************************)
(* The control plane's table of nodes: internal/controlplane/              *)
(* nodemanager.go.                                                         *)
(*                                                                         *)
(* Every method runs under the one lock, so a method is one step; the      *)
(* exception is CheckTimeouts, whose callbacks run as deferred calls.      *)
(* Deferred calls run last-in first-out and the unlock was deferred first, *)
(* so the callbacks run BEFORE the unlock: while some are still due, the   *)
(* lock is held and every other method waits.                              *)
(*                                                                         *)
(* LastSeen is kept as an age that grows up to the last threshold.         *)
(* Commands are numbered in the order they are enqueued.                   *)
(***************************************************************************)
EXTENDS Integers, Sequences, FiniteSets

CONSTANTS
    Nodes,            \* node ids
    TimeoutUnknown,   \* the three thresholds, in ticks
    TimeoutOffline,
    TimeoutDead,
    MaxCommands,      \* bound: commands enqueued
    MaxRegistrations  \* bound: registrations, all nodes together

ASSUME TimeoutsAssumption ==
    /\ {TimeoutUnknown, TimeoutOffline, TimeoutDead} \subseteq Nat \ {0}
    /\ TimeoutUnknown < TimeoutOffline
    /\ TimeoutOffline < TimeoutDead

ASSUME NmBoundsAssumption == {MaxCommands, MaxRegistrations} \subseteq Nat

VARIABLES
    nodes,      \* TrackedNode by id, or NoNode
    due,        \* nodes whose onNodeDead call is deferred: the lock is held
    enqueued,   \* number of the last command enqueued
    regs,       \* registrations so far
    deadCalls   \* history: onNodeDead calls since the node was last heard

nmVars == <<nodes, due, enqueued, regs, deadCalls>>

Threshold == [healthy |-> 0, unknown |-> TimeoutUnknown,
              offline |-> TimeoutOffline, dead |-> TimeoutDead]
Healths == DOMAIN Threshold

NoNode == [tracked |-> FALSE, health |-> "healthy", age |-> 0, pending |-> <<>>]
NewNode == [NoNode EXCEPT !.tracked = TRUE]

Tracked(n) == nodes[n].tracked
Unlocked == due = {}

NmInit ==
    /\ nodes = [n \in Nodes |-> NoNode]
    /\ due = {}
    /\ enqueued = 0
    /\ regs = 0
    /\ deadCalls = [n \in Nodes |-> 0]

-----------------------------------------------------------------------------
(* Registering again replaces the entry, its queue included.               *)
RegisterNode(n) ==
    /\ Unlocked
    /\ regs < MaxRegistrations
    /\ regs' = regs + 1
    /\ nodes' = [nodes EXCEPT ![n] = NewNode]
    /\ deadCalls' = [deadCalls EXCEPT ![n] = 0]
    /\ UNCHANGED <<due, enqueued>>

RemoveNode(n) ==
    /\ Unlocked
    /\ Tracked(n)
    /\ nodes' = [nodes EXCEPT ![n] = NoNode]
    /\ UNCHANGED <<due, enqueued, regs, deadCalls>>

(* The caller sends the queue as it was before the step.                   *)
ProcessHeartbeat(n) ==
    /\ Unlocked
    /\ Tracked(n)
    /\ nodes' = [nodes EXCEPT ![n] = NewNode]
    /\ deadCalls' = [deadCalls EXCEPT ![n] = 0]
    /\ UNCHANGED <<due, enqueued, regs>>

EnqueueCommand(n) ==
    /\ Unlocked
    /\ Tracked(n)
    /\ enqueued < MaxCommands
    /\ enqueued' = enqueued + 1
    /\ nodes' = [nodes EXCEPT ![n].pending = Append(@, enqueued')]
    /\ UNCHANGED <<due, regs, deadCalls>>

-----------------------------------------------------------------------------
MutantHealthAfter(age, old) ==
    IF age >= TimeoutUnknown THEN "unknown"
    ELSE IF age >= TimeoutOffline THEN "offline"
    ELSE IF age >= TimeoutDead THEN "dead"
    ELSE old

(* The health CheckTimeouts gives a node last heard age ticks ago.         *)
HealthAfter(age, old) ==
    IF age >= TimeoutDead THEN "dead"
    ELSE IF age >= TimeoutOffline THEN "offline"
    ELSE IF age >= TimeoutUnknown THEN "unknown"
    ELSE old

Checked(n) == HealthAfter(nodes[n].age, nodes[n].health)

MutantCheckTimeouts ==
    /\ Unlocked
    /\ nodes' = [n \in Nodes |-> IF Tracked(n) THEN [nodes[n] EXCEPT !.health = Checked(n)]
                                 ELSE nodes[n]]
    /\ due' = {n \in Nodes : Tracked(n) /\ Checked(n) = "dead"}
    /\ UNCHANGED <<enqueued, regs, deadCalls>>

CheckTimeouts ==
    /\ Unlocked
    /\ nodes' = [n \in Nodes |-> IF Tracked(n) THEN [nodes[n] EXCEPT !.health = Checked(n)]
                                 ELSE nodes[n]]
    /\ due' = {n \in Nodes : /\ Tracked(n)
                             /\ Checked(n) = "dead"
                             /\ nodes[n].health # "dead"}
    /\ UNCHANGED <<enqueued, regs, deadCalls>>

(* Map order and defer order together are any order.                       *)
CallOnNodeDead(n) ==
    /\ n \in due
    /\ due' = due \ {n}
    /\ deadCalls' = [deadCalls EXCEPT ![n] = @ + 1]
    /\ UNCHANGED <<nodes, enqueued, regs>>

(* Time passes, also while the lock is held; one tick past TimeoutDead     *)
(* stands for every longer silence.                                        *)
MaxAge == TimeoutDead + 1

Tick ==
    /\ nodes' = [n \in Nodes |->
                   IF Tracked(n) /\ nodes[n].age < MaxAge
                   THEN [nodes[n] EXCEPT !.age = @ + 1] ELSE nodes[n]]
    /\ UNCHANGED <<due, enqueued, regs, deadCalls>>

-----------------------------------------------------------------------------
(* VMs are rescheduled once per death: between two times a node is heard   *)
(* from (a heartbeat or a registration) onNodeDead is called for it at     *)
(* most once, however often the checker runs, and only after the node was  *)
(* silent for TimeoutDead; no health is worse than the silence behind it.  *)
DeadOnce ==
    \A n \in Nodes :
        /\ deadCalls[n] + Cardinality(due \cap {n}) <= 1
        /\ n \in due \/ (deadCalls[n] = 1 /\ Tracked(n)) => nodes[n].health = "dead"
        /\ nodes[n].age >= Threshold[nodes[n].health]

=============================================================================
