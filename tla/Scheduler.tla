------------------------------ MODULE Scheduler ------------------------------
(***************************************************************************)
(* Placing VMs on nodes: internal/scheduler/scheduler.go.                  *)
(*                                                                         *)
(* PlaceVM reads the nodes from the provider, filters them, scores them    *)
(* and returns one with the highest score (the sort is not stable, so any  *)
(* of them).  It reserves nothing: the VM shows in the node's usage only   *)
(* when the caller has started it, so a placement works on what was true   *)
(* when it read the nodes.  The provider and the caller are not in the     *)
(* repository; they are modelled from the interface.                       *)
(*                                                                         *)
(* Scores are exact: fractions are multiples of 1/Scale and the weights    *)
(* are in tenths.  RegisteredAt is the quarters of a year since, or -1     *)
(* when it is zero.                                                        *)
(***************************************************************************)
EXTENDS Integers, FiniteSets, FiniteSetsExt

CONSTANTS
    Pool,       \* nodes
    Facts,      \* what may hold of a node at the start
    Requests,   \* placements: [mem, disk, trust, user, prefer]
    Scale       \* denominator of the scores

(* What the provider says of a node, and what is asked for a VM.           *)
NodeStatus ==
    [ready : BOOLEAN, health : STRING, draining : BOOLEAN, ram : Nat, ramUsed : Nat,
     disk : Nat, diskUsed : Nat, vms : Nat, users : SUBSET STRING, quarters : Nat \cup {-1},
     trust : Nat]
VMSpec ==
    [mem : Nat \ {0}, disk : Nat, trust : Nat, user : STRING, prefer : SUBSET Pool]

(* No node is over-full at the start.                                      *)
ASSUME PoolAssumption ==
    /\ Facts \subseteq NodeStatus
    /\ Requests \subseteq VMSpec /\ IsFiniteSet(Requests)
    /\ \A f \in Facts : f.ramUsed <= f.ram /\ f.diskUsed <= f.disk

(* Scale is a common denominator.                                          *)
ASSUME ScaleAssumption ==
    /\ Scale \in Nat \ {0}
    /\ Scale % 20 = 0
    /\ \A f \in Facts :
          /\ f.ram > 0 => Scale % f.ram = 0
          /\ (f.trust * Scale) % 100 = 0
          /\ \A k \in 1..(f.vms + Cardinality(Requests)) : Scale % k = 0

VARIABLES
    pool,     \* NodeStatus by node
    place,    \* placement by request: step, nodes it read, its choice
    raced     \* history: two placements overlapped, or a node changed under one

schedVars == <<pool, place, raced>>

NoPlace == [pc |-> "new", seen |-> [n \in {} |-> 0], node |-> "none"]

SchedInit ==
    /\ pool \in [Pool -> Facts]
    /\ place = [r \in Requests |-> NoPlace]
    /\ raced = FALSE

-----------------------------------------------------------------------------
(* Phase 1. *)

AvailableRAM(s) == IF s.ram < s.ramUsed THEN 0 ELSE s.ram - s.ramUsed
AvailableDisk(s) == IF s.disk < s.diskUsed THEN 0 ELSE s.disk - s.diskUsed

MutantPasses(s, r) ==
    /\ s.ready
    /\ s.health = "healthy"
    /\ ~s.draining
    /\ s.ram >= r.mem
    /\ r.disk > 0 => AvailableDisk(s) >= r.disk
    /\ r.trust > 0 => s.trust >= r.trust

Passes(s, r) ==
    /\ s.ready
    /\ s.health = "healthy"
    /\ ~s.draining
    /\ AvailableRAM(s) >= r.mem
    /\ r.disk > 0 => AvailableDisk(s) >= r.disk
    /\ r.trust > 0 => s.trust >= r.trust

Candidates(seen, r) == {n \in DOMAIN seen : Passes(seen[n], r)}

-----------------------------------------------------------------------------
(* Phase 2. *)

Capped(x) == IF x > Scale THEN Scale ELSE x

ScoreBinPacking(s, r) ==
    IF s.ram = 0 THEN 0 ELSE Capped((s.ramUsed + r.mem) * (Scale \div s.ram))

ScoreSpread(s, all) ==
    LET most == Max({1} \cup {c.vms : c \in all})
    IN Scale - s.vms * (Scale \div most)

ScoreLocality(n, s, r) ==
    IF r.user \in s.users THEN Scale
    ELSE IF n \in r.prefer THEN 4 * (Scale \div 5) ELSE 0

ScoreFreshness(s) ==
    IF s.quarters = -1 THEN Scale \div 2
    ELSE IF s.quarters > 4 THEN 0 ELSE Scale - s.quarters * (Scale \div 4)

ScoreTrust(s) == (s.trust * Scale) \div 100

Scores(n, seen, r) ==
    LET all == {seen[m] : m \in Candidates(seen, r)}
    IN <<ScoreBinPacking(seen[n], r), ScoreSpread(seen[n], all),
         ScoreLocality(n, seen[n], r), ScoreFreshness(seen[n]), ScoreTrust(seen[n])>>

Score(n, seen, r) ==
    LET s == Scores(n, seen, r)
    IN 4 * s[1] + 2 * s[2] + 2 * s[3] + s[4] + s[5]

Best(seen, r) ==
    {n \in Candidates(seen, r) :
        \A m \in Candidates(seen, r) : Score(m, seen, r) <= Score(n, seen, r)}

-----------------------------------------------------------------------------
Busy == {q \in Requests : place[q].pc \in {"read", "placed"}}

(* GetNodes. *)
PlaceRead(r) ==
    /\ place[r].pc = "new"
    /\ place' = [place EXCEPT ![r].pc = "read", ![r].seen = pool]
    /\ raced' = (raced \/ Busy # {})
    /\ UNCHANGED pool

PlaceVM(r) ==
    /\ place[r].pc = "read"
    /\ \/ \E n \in Best(place[r].seen, r) :
             place' = [place EXCEPT ![r].pc = "placed", ![r].node = n]
       \/ /\ Candidates(place[r].seen, r) = {}
          /\ place' = [place EXCEPT ![r].pc = "refused"]
    /\ UNCHANGED <<pool, raced>>

(* The caller starts the VM on the node it was given (external).           *)
Hosting(s, r) ==
    [s EXCEPT !.ramUsed = @ + r.mem, !.diskUsed = @ + r.disk,
              !.vms = @ + 1, !.users = @ \cup {r.user}]

StartPlaced(r) ==
    /\ place[r].pc = "placed"
    /\ place' = [place EXCEPT ![r].pc = "done"]
    /\ pool' = [pool EXCEPT ![place[r].node] = Hosting(@, r)]
    /\ UNCHANGED raced

(* MarkDraining, of the provider. *)
DrainNode(n) ==
    /\ ~pool[n].draining
    /\ pool' = [pool EXCEPT ![n].draining = TRUE]
    /\ raced' = (raced \/ Busy # {})
    /\ UNCHANGED place

SchedNext ==
    \/ \E r \in Requests : PlaceRead(r) \/ PlaceVM(r) \/ StartPlaced(r)
    \/ \E n \in Pool : DrainNode(n)

SchedSpec == SchedInit /\ [][SchedNext]_schedVars

-----------------------------------------------------------------------------
(* A VM is placed where it fits: the node chosen could take the VM when    *)
(* the placement read it, and the pool is never overcommitted unless two   *)
(* placements overlapped, nor is a VM started on a node drained before its *)
(* placement began.                                                        *)
PlacedWhereItFits ==
    raced \/ /\ \A n \in Pool : /\ pool[n].ramUsed <= pool[n].ram
                                /\ pool[n].diskUsed <= pool[n].disk
             /\ \A r \in Requests : place[r].pc = "placed" =>
                   ~pool[place[r].node].draining /\ pool[place[r].node].trust >= r.trust

(* a is at least as full, as empty of VMs, as close to the user, as fresh  *)
(* and as trusted as b, and more so in one of the measurable ones.         *)
Dominates(a, sa, b, sb, r) ==
    LET ra == (sa.ramUsed + r.mem) * sb.ram
        rb == (sb.ramUsed + r.mem) * sa.ram
    IN /\ ra >= rb
       /\ sa.vms <= sb.vms
       /\ r.user \in sb.users => r.user \in sa.users
       /\ b \in r.prefer => a \in r.prefer \/ r.user \in sa.users
       /\ sa.quarters \in 0..sb.quarters
       /\ sa.trust >= sb.trust
       /\ ra > rb \/ sa.vms < sb.vms \/ sa.trust > sb.trust

(* No node that passed the filter beats the chosen one in every dimension  *)
(* at once: stated of what the nodes report, not of the scores.            *)
NotDominated ==
    \A r \in Requests : place[r].pc = "placed" =>
        LET seen == place[r].seen
            w == place[r].node
        IN \A n \in Candidates(seen, r) : ~Dominates(n, seen[n], w, seen[w], r)

(* A placement fits and there was none better.                             *)
PlacedWell == PlacedWhereItFits /\ NotDominated

=============================================================================
