---------------------------- MODULE ClusterProofs ----------------------------
(***************************************************************************)
(* The pool, for every number of nodes, commands, registrations and        *)
(* faults.  Heartbeats: a death is reported once, and commands are handled *)
(* once and in order.  Mesh subnets: the allocator keeps its two tables    *)
(* inverse to each other, gives no subnet to two nodes, and implements     *)
(* SubnetLeases, for every geometry of the network.  Placements: the node  *)
(* chosen has room, and no candidate is better in every respect.           *)
(***************************************************************************)
EXTENDS NodeAgent, MeshAllocator, Scheduler, FiniteSetTheorems, NaturalsLemmas

-----------------------------------------------------------------------------
(* The way of a command: enqueued, in a response, in the batch that the    *)
(* receiver works on, handled.  Numbers grow within each stage, and each   *)
(* stage is behind the ones before it.                                     *)

Grows(s) == \A i, j \in 1..Len(s) : i < j => s[i] < s[j]

Before(s, t) == \A i \in 1..Len(s), j \in 1..Len(t) : s[i] < t[j]

UpTo(s, e) == \A i \in 1..Len(s) : s[i] <= e

(* The batches of the responses, between what came before and after. *)
Batches(r, e) ==
    /\ \A a \in 1..Len(r) : Grows(r[a]) /\ UpTo(r[a], e)
    /\ \A a, b \in 1..Len(r) : a < b => Before(r[a], r[b])

Pipe(h, t, r, p, e) ==
    /\ Grows(h) /\ Grows(t) /\ Grows(p) /\ Batches(r, e)
    /\ UpTo(h, e) /\ UpTo(t, e) /\ UpTo(p, e)
    /\ Before(h, t) /\ Before(h, p) /\ Before(t, p)
    /\ \A a \in 1..Len(r) : Before(h, r[a]) /\ Before(t, r[a]) /\ Before(r[a], p)

PipeTypes(h, t, r, p, e) ==
    /\ {h, t, p} \subseteq Seq(Nat)
    /\ r \in Seq(Seq(Nat))
    /\ e \in Nat

LEMMA SeqElements ==
    ASSUME NEW S, NEW s \in Seq(S)
    PROVE  Len(s) \in Nat /\ \A i \in 1..Len(s) : s[i] \in S
OBVIOUS

LEMMA AppendElements ==
    ASSUME NEW S, NEW s \in Seq(S), NEW x \in S, NEW u, u = Append(s, x)
    PROVE  /\ u \in Seq(S) /\ Len(s) \in Nat /\ Len(u) = Len(s) + 1
           /\ u[Len(s) + 1] = x
           /\ \A i \in 1..Len(s) : u[i] = s[i] /\ i < Len(s) + 1
           /\ \A i \in 1..Len(u) : i \in 1..Len(s) \/ i = Len(s) + 1
OBVIOUS

LEMMA TailElements ==
    ASSUME NEW S, NEW s \in Seq(S), s # <<>>, NEW u, u = Tail(s)
    PROVE  /\ u \in Seq(S) /\ Len(u) = Len(s) - 1 /\ Len(s) \in Nat \ {0}
           /\ Head(s) = s[1] /\ s[1] \in S
           /\ \A i \in 1..Len(u) : u[i] = s[i + 1] /\ i + 1 \in 1..Len(s) /\ 1 < i + 1
OBVIOUS

LEMMA PipeEnqueue ==
    ASSUME NEW h, NEW t, NEW r, NEW p, NEW e, PipeTypes(h, t, r, p, e), Pipe(h, t, r, p, e)
    PROVE  /\ Pipe(h, t, r, Append(p, e + 1), e + 1)
           /\ Append(p, e + 1) \in Seq(Nat)
<1>0. /\ h \in Seq(Nat) /\ t \in Seq(Nat) /\ p \in Seq(Nat) /\ r \in Seq(Seq(Nat)) /\ e \in Nat
      /\ \A a \in 1..Len(r) : r[a] \in Seq(Nat)
  BY SeqElements DEF PipeTypes
<1>. PICK q : q = Append(p, e + 1)
  OBVIOUS
<1>1. /\ q \in Seq(Nat) /\ Len(q) = Len(p) + 1 /\ q[Len(p) + 1] = e + 1 /\ Len(p) \in Nat
      /\ \A i \in 1..Len(p) : q[i] = p[i] /\ p[i] \in Nat
      /\ \A i \in 1..Len(q) : i \in 1..Len(p) \/ i = Len(p) + 1
  <2>1. e + 1 \in Nat
    BY <1>0
  <2>2. /\ q \in Seq(Nat) /\ Len(p) \in Nat /\ Len(q) = Len(p) + 1 /\ q[Len(p) + 1] = e + 1
        /\ \A i \in 1..Len(p) : q[i] = p[i] /\ i < Len(p) + 1
        /\ \A i \in 1..Len(q) : i \in 1..Len(p) \/ i = Len(p) + 1
    BY <1>0, <2>1, AppendElements
  <2>3. \A i \in 1..Len(p) : p[i] \in Nat
    BY <1>0, SeqElements
  <2>. QED  BY <2>2, <2>3
<1>2. ASSUME NEW s \in Seq(Nat), UpTo(s, e)
      PROVE  UpTo(s, e + 1) /\ (Before(s, p) => Before(s, q))
  <2>1. \A i \in 1..Len(s) : s[i] \in Nat /\ s[i] <= e /\ s[i] < e + 1
    BY <1>0, <1>2, SeqElements DEF UpTo
  <2>2. UpTo(s, e + 1)
    BY <1>0, <2>1 DEF UpTo
  <2>3. ASSUME Before(s, p) PROVE Before(s, q)
    <3>. SUFFICES ASSUME NEW i \in 1..Len(s), NEW j \in 1..Len(q) PROVE s[i] < q[j]
      BY DEF Before
    <3>1. CASE j \in 1..Len(p)
      BY <1>1, <2>3, <3>1 DEF Before
    <3>2. CASE j = Len(p) + 1
      BY <1>1, <2>1, <3>2
    <3>. QED  BY <1>1, <3>1, <3>2
  <2>. QED  BY <2>2, <2>3
<1>3. Grows(q) /\ UpTo(q, e + 1)
  <2>1. \A i \in 1..Len(p) : p[i] <= e /\ p[i] < e + 1
    BY <1>0, <1>1 DEF Pipe, UpTo
  <2>2. ASSUME NEW i \in 1..Len(q), NEW j \in 1..Len(q), i < j PROVE q[i] < q[j]
    <3>0. i \in 1..Len(p) /\ Len(p) \in Nat
      BY <1>1, <2>2
    <3>1. CASE j \in 1..Len(p)
      <4>1. p[i] < p[j]
        BY <2>2, <3>0, <3>1 DEF Pipe, Grows
      <4>. QED  BY <1>1, <3>0, <3>1, <4>1
    <3>2. CASE j = Len(p) + 1
      BY <1>1, <2>1, <3>0, <3>2
    <3>. QED  BY <1>1, <3>1, <3>2
  <2>. QED  BY <1>0, <1>1, <2>1, <2>2 DEF Grows, UpTo
<1>4. Batches(r, e + 1) /\ \A a \in 1..Len(r) : Before(r[a], q)
  BY <1>0, <1>2 DEF Pipe, Batches
<1>. QED  BY <1>0, <1>1, <1>2, <1>3, <1>4 DEF Pipe

LEMMA PipeServe ==
    ASSUME NEW h, NEW t, NEW r, NEW p, NEW e, PipeTypes(h, t, r, p, e), Pipe(h, t, r, p, e)
    PROVE  /\ Pipe(h, t, Append(r, p), <<>>, e)
           /\ Append(r, p) \in Seq(Seq(Nat))
<1>0. /\ h \in Seq(Nat) /\ t \in Seq(Nat) /\ p \in Seq(Nat) /\ r \in Seq(Seq(Nat)) /\ e \in Nat
      /\ \A a \in 1..Len(r) : r[a] \in Seq(Nat)
  BY SeqElements DEF PipeTypes
<1>. PICK q : q = Append(r, p)
  OBVIOUS
<1>1. /\ q \in Seq(Seq(Nat)) /\ Len(q) = Len(r) + 1 /\ q[Len(r) + 1] = p /\ Len(r) \in Nat
      /\ \A a \in 1..Len(r) : q[a] = r[a] /\ a < Len(r) + 1
      /\ \A a \in 1..Len(q) : a \in 1..Len(r) \/ a = Len(r) + 1
  BY <1>0, AppendElements
<1>2. Batches(q, e)
  <2>1. \A a \in 1..Len(q) : Grows(q[a]) /\ UpTo(q[a], e)
    BY <1>1 DEF Pipe, Batches
  <2>2. ASSUME NEW a \in 1..Len(q), NEW b \in 1..Len(q), a < b PROVE Before(q[a], q[b])
    <3>1. a \in 1..Len(r)
      BY <1>1, <2>2
    <3>. QED  BY <1>1, <2>2, <3>1 DEF Pipe, Batches
  <2>. QED  BY <2>1, <2>2 DEF Batches
<1>3. \A a \in 1..Len(q) : Before(h, q[a]) /\ Before(t, q[a])
  BY <1>1 DEF Pipe
<1>4. \A s : Before(s, <<>>)
  BY DEF Before
<1>5. Grows(<<>>) /\ UpTo(<<>>, e)
  BY DEF Grows, UpTo
<1>. QED  BY <1>1, <1>2, <1>3, <1>4, <1>5 DEF Pipe

LEMMA PipeDropPending ==
    ASSUME NEW h, NEW t, NEW r, NEW p, NEW e, PipeTypes(h, t, r, p, e), Pipe(h, t, r, p, e)
    PROVE  Pipe(h, t, r, <<>>, e)
<1>1. \A s : Before(s, <<>>)
  BY DEF Before
<1>2. Grows(<<>>) /\ UpTo(<<>>, e)
  BY DEF Grows, UpTo
<1>. QED  BY <1>1, <1>2 DEF Pipe

LEMMA PipeRecv ==
    ASSUME NEW h, NEW r, NEW p, NEW e, PipeTypes(h, <<>>, r, p, e), Pipe(h, <<>>, r, p, e),
           r # <<>>
    PROVE  /\ Pipe(h, Head(r), Tail(r), p, e)
           /\ Head(r) \in Seq(Nat) /\ Tail(r) \in Seq(Seq(Nat))
<1>0. r \in Seq(Seq(Nat))
  BY DEF PipeTypes
<1>. PICK q : q = Tail(r)
  OBVIOUS
<1>1. /\ q \in Seq(Seq(Nat)) /\ Len(q) = Len(r) - 1 /\ Len(r) \in Nat \ {0} /\ Head(r) = r[1]
      /\ r[1] \in Seq(Nat) /\ 1 \in 1..Len(r)
      /\ \A a \in 1..Len(q) : q[a] = r[a + 1] /\ a + 1 \in 1..Len(r) /\ 1 < a + 1
  BY <1>0, TailElements
<1>2. Batches(q, e)
  <2>1. ASSUME NEW a \in 1..Len(q), NEW b \in 1..Len(q), a < b PROVE Before(q[a], q[b])
    <3>1. a + 1 < b + 1
      BY <1>1, <2>1
    <3>. QED  BY <1>1, <3>1 DEF Pipe, Batches
  <2>. QED  BY <1>1, <2>1 DEF Pipe, Batches
<1>3. \A a \in 1..Len(q) : Before(h, q[a]) /\ Before(r[1], q[a]) /\ Before(q[a], p)
  BY <1>1 DEF Pipe, Batches
<1>4. Grows(r[1]) /\ UpTo(r[1], e) /\ Before(h, r[1]) /\ Before(r[1], p)
  BY <1>1 DEF Pipe, Batches
<1>. QED  BY <1>1, <1>2, <1>3, <1>4 DEF Pipe

LEMMA PipeHandle ==
    ASSUME NEW h, NEW t, NEW r, NEW p, NEW e, PipeTypes(h, t, r, p, e), Pipe(h, t, r, p, e),
           t # <<>>
    PROVE  /\ Pipe(Append(h, Head(t)), Tail(t), r, p, e)
           /\ Append(h, Head(t)) \in Seq(Nat) /\ Tail(t) \in Seq(Nat)
<1>0. h \in Seq(Nat) /\ t \in Seq(Nat) /\ e \in Nat
  BY DEF PipeTypes
<1>. PICK u : u = Tail(t)
  OBVIOUS
<1>1. /\ u \in Seq(Nat) /\ Len(u) = Len(t) - 1 /\ Len(t) \in Nat \ {0} /\ Head(t) = t[1]
      /\ t[1] \in Nat /\ 1 \in 1..Len(t)
      /\ \A i \in 1..Len(u) : u[i] = t[i + 1] /\ i + 1 \in 1..Len(t) /\ 1 < i + 1
  BY <1>0, TailElements
<1>. PICK g : g = Append(h, t[1])
  OBVIOUS
<1>2. /\ g \in Seq(Nat) /\ Len(g) = Len(h) + 1 /\ g[Len(h) + 1] = t[1] /\ Len(h) \in Nat
      /\ \A i \in 1..Len(h) : g[i] = h[i]
      /\ \A i \in 1..Len(g) : i \in 1..Len(h) \/ i = Len(h) + 1
  BY <1>0, <1>1, AppendElements
<1>3. Grows(u) /\ UpTo(u, e)
  <2>1. ASSUME NEW i \in 1..Len(u), NEW j \in 1..Len(u), i < j PROVE u[i] < u[j]
    <3>1. i + 1 < j + 1
      BY <1>1, <2>1
    <3>. QED  BY <1>1, <3>1 DEF Pipe, Grows
  <2>. QED  BY <1>1, <2>1 DEF Pipe, Grows, UpTo
<1>4. Grows(g) /\ UpTo(g, e)
  <2>1. ASSUME NEW i \in 1..Len(g), NEW j \in 1..Len(g), i < j PROVE g[i] < g[j]
    <3>1. i \in 1..Len(h)
      BY <1>2, <2>1
    <3>. QED  BY <1>1, <1>2, <2>1, <3>1 DEF Pipe, Grows, Before
  <2>. QED  BY <1>1, <1>2, <2>1 DEF Pipe, Grows, UpTo
<1>5. Before(g, u)
  BY <1>1, <1>2 DEF Pipe, Grows, Before
<1>6. ASSUME NEW s, Before(h, s), Before(t, s)
      PROVE  Before(g, s) /\ Before(u, s)
  <2>1. ASSUME NEW i \in 1..Len(g), NEW j \in 1..Len(s) PROVE g[i] < s[j]
    <3>1. CASE i \in 1..Len(h)
      BY <1>2, <1>6, <3>1 DEF Before
    <3>2. CASE i = Len(h) + 1
      BY <1>1, <1>2, <1>6, <3>2 DEF Before
    <3>. QED  BY <1>2, <3>1, <3>2
  <2>2. ASSUME NEW i \in 1..Len(u), NEW j \in 1..Len(s) PROVE u[i] < s[j]
    BY <1>1, <1>6, <2>2 DEF Before
  <2>. QED  BY <2>1, <2>2 DEF Before
<1>7. \A a \in 1..Len(r) : Before(g, r[a]) /\ Before(u, r[a])
  BY <1>6 DEF Pipe
<1>8. Before(g, p) /\ Before(u, p)
  BY <1>6 DEF Pipe
<1>. QED  BY <1>1, <1>2, <1>3, <1>4, <1>5, <1>7, <1>8 DEF Pipe

LEMMA PipeCut ==
    ASSUME NEW h, NEW t, NEW r, NEW p, NEW e, PipeTypes(h, t, r, p, e), Pipe(h, t, r, p, e),
           NEW k \in 0..Len(r)
    PROVE  /\ Pipe(h, t, SubSeq(r, 1, k), p, e)
           /\ SubSeq(r, 1, k) \in Seq(Seq(Nat))
<1>. PICK q : q = SubSeq(r, 1, k)
  OBVIOUS
<1>0. r \in Seq(Seq(Nat)) /\ Len(r) \in Nat
  BY DEF PipeTypes
<1>1. /\ q \in Seq(Seq(Nat)) /\ Len(q) = k
      /\ \A a \in 1..k : q[a] = r[a]
  BY <1>0
<1>2. \A a \in 1..Len(q) : a \in 1..Len(r) /\ q[a] = r[a]
  BY <1>0, <1>1
<1>3. Batches(q, e)
  BY <1>2 DEF Pipe, Batches
<1>. QED  BY <1>1, <1>2, <1>3 DEF Pipe

(* What was left of a stream, or of a process, is gone. *)
LEMMA PipeReset ==
    ASSUME NEW h, NEW t, NEW r, NEW p, NEW e, PipeTypes(h, t, r, p, e), Pipe(h, t, r, p, e)
    PROVE  Pipe(h, <<>>, <<>>, p, e)
BY DEF Pipe, Batches, Before, Grows, UpTo

-----------------------------------------------------------------------------
(* The node manager: deaths. *)

NodeRecord == [tracked : BOOLEAN, health : {"healthy", "unknown", "offline", "dead"},
               age : Nat, pending : Seq(Nat)]

NmTypes ==
    /\ nodes \in [Nodes -> NodeRecord]
    /\ due \subseteq Nodes
    /\ enqueued \in Nat
    /\ deadCalls \in [Nodes -> Nat]

(* A call that is due has not been made; one that was made keeps the node  *)
(* dead until it is heard from or removed; no health outruns the silence.  *)
DeadInv ==
    \A n \in Nodes :
        /\ deadCalls[n] <= 1
        /\ n \in due => deadCalls[n] = 0 /\ nodes[n].health = "dead"
        /\ deadCalls[n] = 1 /\ nodes[n].tracked => nodes[n].health = "dead"
        /\ nodes[n].age >= Threshold[nodes[n].health]

NmInv == NmTypes /\ DeadInv

LEMMA FreshRecords ==
    /\ NoNode \in NodeRecord /\ NewNode \in NodeRecord
    /\ NoNode.pending = <<>> /\ NewNode.pending = <<>>
    /\ NoNode.tracked = FALSE /\ NewNode.tracked = TRUE
    /\ NoNode.age = 0 /\ NewNode.age = 0
    /\ NoNode.health = "healthy" /\ NewNode.health = "healthy"
<1>1. NoNode \in NodeRecord
  BY DEF NoNode, NodeRecord
<1>2. NewNode \in NodeRecord
  BY <1>1 DEF NewNode, NodeRecord
<1>3. NoNode.pending = <<>> /\ NoNode.tracked = FALSE /\ NoNode.age = 0
  BY DEF NoNode
<1>4. NewNode.pending = <<>> /\ NewNode.tracked = TRUE /\ NewNode.age = 0
  BY DEF NoNode, NewNode
<1>5. NoNode.health = "healthy" /\ NewNode.health = "healthy"
  BY DEF NoNode, NewNode
<1>. QED  BY <1>1, <1>2, <1>3, <1>4, <1>5

LEMMA Thresholds ==
    /\ Threshold["healthy"] = 0 /\ Threshold["unknown"] = TimeoutUnknown
    /\ Threshold["offline"] = TimeoutOffline /\ Threshold["dead"] = TimeoutDead
    /\ TimeoutUnknown \in Nat /\ TimeoutOffline \in Nat /\ TimeoutDead \in Nat
BY TimeoutsAssumption DEF Threshold

LEMMA NmInitInv == NmInit => NmInv
<1>. SUFFICES ASSUME NmInit PROVE NmInv
  OBVIOUS
<1>1. NmTypes
  BY FreshRecords DEF NmInit, NmTypes
<1>2. \A n \in Nodes : nodes[n] = NoNode /\ deadCalls[n] = 0 /\ n \notin due
  BY DEF NmInit
<1>3. DeadInv
  BY <1>2, FreshRecords, Thresholds DEF DeadInv
<1>. QED  BY <1>1, <1>3 DEF NmInv

(* The entry of one node is replaced by a fresh one. *)
LEMMA RenewInv ==
    ASSUME NmInv, Unlocked, NEW n \in Nodes, NEW r \in {NoNode, NewNode},
           nodes' = [nodes EXCEPT ![n] = r],
           \/ deadCalls' = [deadCalls EXCEPT ![n] = 0]
           \/ UNCHANGED deadCalls /\ r = NoNode,
           UNCHANGED <<due, enqueued>>
    PROVE  NmInv'
<1>. USE DEF NmInv
<1>1. NmTypes'
  BY FreshRecords DEF NmTypes
<1>2. DeadInv'
  BY FreshRecords, Thresholds DEF NmTypes, DeadInv, Unlocked
<1>. QED  BY <1>1, <1>2

LEMMA EnqueueInv ==
    ASSUME NmInv, NEW n \in Nodes, EnqueueCommand(n)
    PROVE  /\ NmInv'
           /\ nodes'[n].pending = Append(nodes[n].pending, enqueued + 1)
           /\ \A m \in Nodes : m # n => nodes'[m] = nodes[m]
<1>. USE DEF NmInv
<1>0. /\ enqueued' = enqueued + 1 /\ enqueued \in Nat
      /\ nodes' = [nodes EXCEPT ![n] = [nodes[n] EXCEPT
                                          !.pending = Append(nodes[n].pending, enqueued + 1)]]
      /\ UNCHANGED <<due, deadCalls>>
  BY DEF EnqueueCommand, NmTypes
<1>1. nodes[n] \in NodeRecord /\ Append(nodes[n].pending, enqueued + 1) \in Seq(Nat)
  BY <1>0 DEF NmTypes, NodeRecord
<1>2. /\ nodes'[n].pending = Append(nodes[n].pending, enqueued + 1)
      /\ nodes'[n].health = nodes[n].health /\ nodes'[n].age = nodes[n].age
      /\ nodes'[n].tracked = nodes[n].tracked /\ nodes'[n] \in NodeRecord
      /\ nodes' \in [Nodes -> NodeRecord]
      /\ \A m \in Nodes : m # n => nodes'[m] = nodes[m]
  BY <1>0, <1>1 DEF NmTypes, NodeRecord
<1>3. NmTypes'
  BY <1>0, <1>2 DEF NmTypes
<1>4. DeadInv'
  BY <1>0, <1>2 DEF DeadInv
<1>. QED  BY <1>2, <1>3, <1>4

LEMMA CheckInv ==
    ASSUME NmInv, CheckTimeouts
    PROVE  NmInv' /\ \A m \in Nodes : nodes'[m].pending = nodes[m].pending
<1>. USE DEF NmInv
<1>1. ASSUME NEW n \in Nodes
      PROVE  /\ Checked(n) \in {"healthy", "unknown", "offline", "dead"}
             /\ nodes[n].age >= Threshold[Checked(n)]
             /\ nodes[n].health = "dead" => Checked(n) = "dead"
  <2>. DEFINE age == nodes[n].age
              old == nodes[n].health
  <2>0. /\ age \in Nat /\ old \in {"healthy", "unknown", "offline", "dead"}
        /\ age >= Threshold[old]
    BY DEF NmTypes, NodeRecord, DeadInv
  <2>1. TimeoutUnknown < TimeoutOffline /\ TimeoutOffline < TimeoutDead
    BY TimeoutsAssumption
  <2>2. \/ age >= TimeoutDead /\ Checked(n) = "dead"
        \/ age < TimeoutDead /\ age >= TimeoutOffline /\ Checked(n) = "offline"
        \/ age < TimeoutOffline /\ age >= TimeoutUnknown /\ Checked(n) = "unknown"
        \/ age < TimeoutUnknown /\ Checked(n) = old
    BY <2>0, <2>1, Thresholds DEF Checked, HealthAfter
  <2>. QED  BY <2>0, <2>1, <2>2, Thresholds
<1>2. ASSUME NEW n \in Nodes
      PROVE  /\ nodes'[n] \in NodeRecord
             /\ nodes'[n].pending = nodes[n].pending /\ nodes'[n].age = nodes[n].age
             /\ nodes'[n].tracked = nodes[n].tracked
             /\ nodes'[n].health = IF nodes[n].tracked THEN Checked(n) ELSE nodes[n].health
  BY <1>1 DEF CheckTimeouts, NmTypes, NodeRecord, Tracked
<1>3. NmTypes'
  BY <1>2 DEF CheckTimeouts, NmTypes
<1>4. DeadInv'
  <2>. SUFFICES ASSUME NEW n \in Nodes PROVE DeadInv!(n)'
    BY DEF DeadInv
  <2>1. n \in due' => nodes[n].tracked /\ Checked(n) = "dead" /\ nodes[n].health # "dead"
    BY DEF CheckTimeouts, Tracked
  <2>2. deadCalls'[n] = deadCalls[n] /\ deadCalls[n] \in Nat
    BY DEF CheckTimeouts, NmTypes
  <2>. QED  BY <1>1, <1>2, <2>1, <2>2 DEF DeadInv
<1>. QED  BY <1>2, <1>3, <1>4

LEMMA CallInv ==
    ASSUME NmInv, NEW n \in Nodes, CallOnNodeDead(n)
    PROVE  NmInv' /\ \A m \in Nodes : nodes'[m].pending = nodes[m].pending
<1>. USE DEF NmInv
<1>1. NmTypes'
  BY DEF CallOnNodeDead, NmTypes
<1>2. DeadInv'
  BY DEF CallOnNodeDead, NmTypes, DeadInv
<1>. QED  BY <1>1, <1>2 DEF CallOnNodeDead

LEMMA TickInv ==
    ASSUME NmInv, Tick
    PROVE  NmInv' /\ \A m \in Nodes : nodes'[m].pending = nodes[m].pending
<1>. USE DEF NmInv
<1>1. ASSUME NEW n \in Nodes
      PROVE  /\ nodes'[n] \in NodeRecord
             /\ nodes'[n].pending = nodes[n].pending /\ nodes'[n].age >= nodes[n].age
             /\ nodes'[n].tracked = nodes[n].tracked /\ nodes'[n].health = nodes[n].health
  <2>0. nodes[n] \in NodeRecord /\ nodes[n].age \in Nat
    BY DEF NmTypes, NodeRecord
  <2>1. nodes'[n] \in {nodes[n], [nodes[n] EXCEPT !.age = nodes[n].age + 1]}
    BY DEF Tick
  <2>2. CASE nodes'[n] = nodes[n]
    BY <2>0, <2>2
  <2>3. CASE nodes'[n] = [nodes[n] EXCEPT !.age = nodes[n].age + 1]
    BY <2>0, <2>3 DEF NodeRecord
  <2>. QED  BY <2>1, <2>2, <2>3
<1>2. NmTypes'
  BY <1>1 DEF Tick, NmTypes
<1>3. DeadInv'
  <2>0. UNCHANGED <<due, deadCalls>>
    BY DEF Tick
  <2>. SUFFICES ASSUME NEW n \in Nodes
                PROVE  nodes'[n].age >= Threshold[nodes'[n].health]
    BY <1>1, <2>0 DEF DeadInv
  <2>1. Threshold[nodes[n].health] \in Nat /\ nodes[n].age \in Nat /\ nodes'[n].age \in Nat
    <3>1. /\ nodes[n].health \in {"healthy", "unknown", "offline", "dead"}
          /\ nodes[n].age \in Nat
      BY DEF NmTypes, NodeRecord
    <3>2. nodes'[n].age \in Nat
      BY <1>1 DEF NodeRecord
    <3>. QED  BY <3>1, <3>2, Thresholds
  <2>. QED  BY <1>1, <2>1 DEF DeadInv
<1>. QED  BY <1>1, <1>2, <1>3

-----------------------------------------------------------------------------
(* The agent: commands. *)

AgentPcs == {"down", "idle", "loop", "dial", "alone", "stream", "wait", "backoff"}

AgentState == [pc : AgentPcs, ctx : {"live", "cancelled"}, client : BOOLEAN]

Receiver == [on : BOOLEAN, todo : Seq(Nat)]

Stream == [slot : Slots, up : BOOLEAN, req : Nat, resp : Seq(Seq(Nat))]

AgTypes ==
    /\ agent \in [Nodes -> AgentState]
    /\ stream \in [Nodes -> Stream]
    /\ recv \in [Nodes -> [Slots -> Receiver]]
    /\ handled \in [Nodes -> Seq(Nat)]

(* Only the receiver of the current stream runs, and only until the loop   *)
(* has waited for it: an old one never handles beside a new one.           *)
ReceiverOK(n) ==
    \A k \in Slots :
        /\ ~recv[n][k].on => recv[n][k] = NoRecv
        /\ k # stream[n].slot \/ agent[n].pc \notin {"stream", "wait"} => recv[n][k] = NoRecv

PipeOK(n) ==
    Pipe(handled[n], recv[n][stream[n].slot].todo, stream[n].resp, nodes[n].pending, enqueued)

NodeOK(n) == ReceiverOK(n) /\ PipeOK(n)

ClusterInv == NmInv /\ AgTypes /\ \A n \in Nodes : NodeOK(n)

(* What NodeOK(n) reads does not change. *)
Kept(n) ==
    /\ agent'[n].pc = agent[n].pc /\ recv'[n] = recv[n] /\ handled'[n] = handled[n]
    /\ stream'[n].slot = stream[n].slot /\ stream'[n].resp = stream[n].resp

LEMMA TypesAt ==
    ASSUME ClusterInv, NEW n \in Nodes
    PROVE  /\ stream[n].slot \in Slots
           /\ PipeTypes(handled[n], recv[n][stream[n].slot].todo, stream[n].resp,
                        nodes[n].pending, enqueued)
           /\ ReceiverOK(n) /\ PipeOK(n)
<1>1. stream[n].slot \in Slots /\ stream[n].resp \in Seq(Seq(Nat))
  BY DEF ClusterInv, AgTypes, Stream
<1>2. recv[n][stream[n].slot].todo \in Seq(Nat) /\ handled[n] \in Seq(Nat)
  BY <1>1 DEF ClusterInv, AgTypes, Receiver
<1>3. nodes[n].pending \in Seq(Nat) /\ enqueued \in Nat
  BY DEF ClusterInv, NmInv, NmTypes, NodeRecord
<1>. QED  BY <1>1, <1>2, <1>3 DEF PipeTypes, ClusterInv, NodeOK

LEMMA PipeLater ==
    ASSUME NEW h, NEW t, NEW r, NEW p, NEW e, PipeTypes(h, t, r, p, e), Pipe(h, t, r, p, e)
    PROVE  Pipe(h, t, r, p, e + 1)
<1>1. ASSUME NEW s \in Seq(Nat), UpTo(s, e) PROVE UpTo(s, e + 1)
  <2>1. \A i \in 1..Len(s) : s[i] \in Nat /\ s[i] <= e
    BY <1>1, SeqElements DEF UpTo
  <2>. QED  BY <2>1 DEF UpTo, PipeTypes
<1>2. \A a \in 1..Len(r) : r[a] \in Seq(Nat)
  BY SeqElements DEF PipeTypes
<1>. QED  BY <1>1, <1>2 DEF Pipe, Batches, PipeTypes

LEMMA KeptOK ==
    ASSUME ClusterInv, NEW n \in Nodes, Kept(n), nodes'[n].pending = nodes[n].pending,
           enqueued' \in {enqueued, enqueued + 1}
    PROVE  NodeOK(n)'
<1>1. ReceiverOK(n)'
  BY TypesAt DEF Kept, ReceiverOK
<1>2. PipeOK(n)'
  BY TypesAt, PipeLater DEF Kept, PipeOK
<1>. QED  BY <1>1, <1>2 DEF NodeOK

(* The queue of n is emptied and nobody gets it. *)
LEMMA EmptiedOK ==
    ASSUME ClusterInv, NEW n \in Nodes, Kept(n), nodes'[n].pending = <<>>, UNCHANGED enqueued
    PROVE  NodeOK(n)'
<1>1. ReceiverOK(n)'
  BY TypesAt DEF Kept, ReceiverOK
<1>2. PipeOK(n)'
  BY TypesAt, PipeDropPending DEF Kept, PipeOK
<1>. QED  BY <1>1, <1>2 DEF NodeOK

(* A step of the node manager, beside an agent that keeps what it has: the *)
(* queue of each node stays, is emptied, or grows by the next command.     *)
LEMMA ManagerSteps ==
    ASSUME ClusterInv, UNCHANGED <<agent, stream, recv, handled>>,
           \/ \E n \in Nodes : \/ RegisterNode(n) \/ RemoveNode(n) \/ ProcessHeartbeat(n)
                               \/ EnqueueCommand(n) \/ CallOnNodeDead(n)
           \/ CheckTimeouts \/ Tick
    PROVE  ClusterInv'
<1>0. NmInv /\ AgTypes /\ AgTypes' /\ \A n \in Nodes : Kept(n)
  BY DEF ClusterInv, AgTypes, Kept
<1>1. ASSUME NEW n \in Nodes, RegisterNode(n) \/ RemoveNode(n) \/ ProcessHeartbeat(n)
      PROVE  ClusterInv'
  <2>1. PICK r \in {NoNode, NewNode} :
          /\ Unlocked /\ nodes' = [nodes EXCEPT ![n] = r] /\ UNCHANGED <<due, enqueued>>
          /\ \/ deadCalls' = [deadCalls EXCEPT ![n] = 0]
             \/ UNCHANGED deadCalls /\ r = NoNode
    BY <1>1 DEF RegisterNode, RemoveNode, ProcessHeartbeat
  <2>2. NmInv'
    BY <1>0, <2>1, RenewInv
  <2>3. nodes'[n].pending = <<>> /\ \A m \in Nodes : m # n => nodes'[m] = nodes[m]
    BY <1>0, <2>1, FreshRecords DEF NmInv, NmTypes
  <2>4. \A m \in Nodes : NodeOK(m)'
    BY <1>0, <2>1, <2>3, EmptiedOK, KeptOK
  <2>. QED  BY <1>0, <2>2, <2>4 DEF ClusterInv
<1>2. ASSUME NEW n \in Nodes, EnqueueCommand(n) PROVE ClusterInv'
  <2>1. /\ NmInv' /\ enqueued' = enqueued + 1
        /\ nodes'[n].pending = Append(nodes[n].pending, enqueued + 1)
        /\ \A m \in Nodes : m # n => nodes'[m] = nodes[m]
    BY <1>0, <1>2, EnqueueInv DEF EnqueueCommand
  <2>2. \A m \in Nodes : m # n => NodeOK(m)'
    BY <1>0, <2>1, KeptOK
  <2>3. PipeOK(n)'
    BY <1>0, <2>1, TypesAt, PipeEnqueue DEF Kept, PipeOK
  <2>4. ReceiverOK(n)'
    BY TypesAt DEF ReceiverOK
  <2>. QED  BY <1>0, <2>1, <2>2, <2>3, <2>4 DEF ClusterInv, NodeOK
<1>3. ASSUME CheckTimeouts \/ Tick \/ \E n \in Nodes : CallOnNodeDead(n) PROVE ClusterInv'
  <2>1. NmInv' /\ UNCHANGED enqueued /\ \A m \in Nodes : nodes'[m].pending = nodes[m].pending
    BY <1>0, <1>3, CheckInv, TickInv, CallInv DEF CheckTimeouts, Tick, CallOnNodeDead
  <2>. QED  BY <1>0, <2>1, KeptOK DEF ClusterInv
<1>. QED  BY <1>1, <1>2, <1>3

(* A step of one agent, beside a node manager that does nothing. *)
LEMMA AgentSteps ==
    ASSUME ClusterInv, NEW n \in Nodes, UNCHANGED nmVars, AgTypes',
           \A m \in Nodes : m # n => Kept(m),
           NodeOK(n)'
    PROVE  ClusterInv'
<1>1. NmInv'
  BY DEF ClusterInv, NmInv, nmVars, NmTypes, DeadInv
<1>2. \A m \in Nodes : NodeOK(m)'
  BY KeptOK DEF nmVars
<1>. QED  BY <1>1, <1>2 DEF ClusterInv

(* The invariant of one node on values. *)
ValuesOK(n, a, s, r, h) ==
    /\ \A k \in Slots : /\ ~r[k].on => r[k] = NoRecv
                        /\ k # s.slot \/ a.pc \notin {"stream", "wait"} => r[k] = NoRecv
    /\ Pipe(h, r[s.slot].todo, s.resp, nodes[n].pending, enqueued)

LEMMA AgentUpdate ==
    ASSUME ClusterInv, NEW n \in Nodes, UNCHANGED nmVars,
           NEW a \in AgentState, NEW s \in Stream, NEW r \in [Slots -> Receiver],
           NEW h \in Seq(Nat), ValuesOK(n, a, s, r, h),
           agent' = [agent EXCEPT ![n] = a] \/ (agent' = agent /\ a = agent[n]),
           stream' = [stream EXCEPT ![n] = s] \/ (stream' = stream /\ s = stream[n]),
           recv' = [recv EXCEPT ![n] = r] \/ (recv' = recv /\ r = recv[n]),
           handled' = [handled EXCEPT ![n] = h] \/ (handled' = handled /\ h = handled[n])
    PROVE  ClusterInv'
<1>0. AgTypes
  BY DEF ClusterInv
<1>1. AgTypes'
  <2>1. agent' \in [Nodes -> AgentState]
    BY <1>0 DEF AgTypes, AgentState
  <2>2. stream' \in [Nodes -> Stream]
    BY <1>0 DEF AgTypes
  <2>3. recv' \in [Nodes -> [Slots -> Receiver]]
    BY <1>0 DEF AgTypes
  <2>4. handled' \in [Nodes -> Seq(Nat)]
    BY <1>0 DEF AgTypes
  <2>. QED  BY <2>1, <2>2, <2>3, <2>4 DEF AgTypes, AgentState
<1>2. /\ agent'[n] = a /\ stream'[n] = s /\ recv'[n] = r /\ handled'[n] = h
      /\ \A m \in Nodes : m # n => Kept(m)
  BY <1>0 DEF AgTypes, Kept
<1>3. NodeOK(n)'
  BY <1>2 DEF NodeOK, ReceiverOK, PipeOK, ValuesOK, nmVars
<1>. QED  BY <1>1, <1>2, <1>3, AgentSteps

LEMMA ValuesAt ==
    ASSUME ClusterInv, NEW n \in Nodes
    PROVE  /\ agent[n] \in AgentState /\ stream[n] \in Stream
           /\ recv[n] \in [Slots -> Receiver] /\ handled[n] \in Seq(Nat)
           /\ agent[n].pc \in AgentPcs /\ agent[n].ctx \in {"live", "cancelled"}
           /\ stream[n].slot \in Slots /\ stream[n].resp \in Seq(Seq(Nat))
           /\ ValuesOK(n, agent[n], stream[n], recv[n], handled[n])
<1>1. ValuesOK(n, agent[n], stream[n], recv[n], handled[n])
  BY TypesAt DEF ValuesOK, ReceiverOK, PipeOK
<1>2. /\ agent[n] \in AgentState /\ stream[n] \in Stream
      /\ recv[n] \in [Slots -> Receiver] /\ handled[n] \in Seq(Nat)
  BY DEF ClusterInv, AgTypes, AgentState
<1>3. /\ agent[n].pc \in AgentPcs /\ agent[n].ctx \in {"live", "cancelled"}
      /\ stream[n].slot \in Slots /\ stream[n].resp \in Seq(Seq(Nat))
  BY <1>2 DEF AgentState, Stream
<1>. QED  BY <1>1, <1>2, <1>3

LEMMA NoAgentState == NoAgent \in AgentState /\ NoAgent.pc = "down"
BY DEF NoAgent, AgentState, AgentPcs

LEMMA GotoState ==
    ASSUME ClusterInv, NEW n \in Nodes, NEW l \in AgentPcs, Goto(n, l)
    PROVE  \E a \in AgentState : a.pc = l /\ agent' = [agent EXCEPT ![n] = a]
<1>. PICK a : a = IF l = "down" THEN NoAgent ELSE [agent[n] EXCEPT !.pc = l]
  OBVIOUS
<1>1. a \in AgentState /\ a.pc = l
  BY ValuesAt, NoAgentState DEF AgentState
<1>2. agent' = [agent EXCEPT ![n] = a]
  BY DEF Goto
<1>. QED  BY <1>1, <1>2

(* Steps that move Start or the loop and touch no stream. *)
LEMMA LoopSteps ==
    ASSUME ClusterInv, NEW n \in Nodes, UNCHANGED nmVars, UNCHANGED <<stream, recv, handled>>,
           \/ SaveState(n) \/ SaveCerts(n) \/ JoinFails(n)
           \/ Start(n) \/ StartReturns(n) \/ HeartbeatLoop(n) \/ Standalone(n)
           \/ LoopTop(n) \/ EndStream(n) \/ WaitReceiver(n) \/ Backoff(n) \/ Dial(n)
    PROVE  ClusterInv'
<1>1. ASSUME UNCHANGED agent PROVE ClusterInv'
  BY <1>1, ValuesAt, AgentUpdate
<1>2. ASSUME NEW a \in AgentState, agent' = [agent EXCEPT ![n] = a],
             a.pc \in {"stream", "wait"} \/ agent[n].pc \notin {"stream", "wait"}
      PROVE  ClusterInv'
  <2>1. ValuesOK(n, a, stream[n], recv[n], handled[n])
    BY <1>2, ValuesAt DEF ValuesOK
  <2>. QED  BY <1>2, <2>1, ValuesAt, AgentUpdate
<1>3. CASE SaveState(n) \/ SaveCerts(n) \/ JoinFails(n)
  BY <1>1, <1>3 DEF SaveState, SaveCerts, JoinFails
<1>4. CASE Start(n) \/ HeartbeatLoop(n)
  <2>1. PICK l \in {"idle", "loop"}, c \in BOOLEAN :
           agent' = [agent EXCEPT ![n] = [NoAgent EXCEPT !.pc = l, !.client = c]]
           /\ agent[n].pc = "down"
    BY <1>4, ClientsAssumption DEF Start, HeartbeatLoop, Enter, At
  <2>2. PICK a : a = [NoAgent EXCEPT !.pc = l, !.client = c]
    OBVIOUS
  <2>3. a \in AgentState /\ agent' = [agent EXCEPT ![n] = a]
    BY <2>1, <2>2, NoAgentState DEF AgentState, AgentPcs
  <2>. QED  BY <2>1, <2>3, <1>2
<1>5. CASE \/ LoopTop(n) \/ EndStream(n) \/ Backoff(n) \/ Dial(n)
           \/ StartReturns(n) \/ Standalone(n)
  <2>1. PICK l \in AgentPcs :
           /\ Goto(n, l)
           /\ l = "wait" \/ agent[n].pc \notin {"stream", "wait"}
    <3>1. CASE LoopTop(n)
      BY <3>1 DEF LoopTop, At, AgentPcs
    <3>2. CASE EndStream(n)
      BY <3>2 DEF EndStream, At, AgentPcs
    <3>3. CASE Backoff(n)
      BY <3>3 DEF Backoff, At, AgentPcs
    <3>4. CASE Dial(n)
      BY <3>4 DEF Dial, At, AgentPcs
    <3>5. CASE StartReturns(n) \/ Standalone(n)
      BY <3>5 DEF StartReturns, Standalone, At, AgentPcs
    <3>. QED  BY <1>5, <3>1, <3>2, <3>3, <3>4, <3>5
  <2>. QED  BY <2>1, <1>2, GotoState
<1>6. CASE WaitReceiver(n)
  <2>1. PICK l \in AgentPcs : Goto(n, l) /\ ~recv[n][stream[n].slot].on
    BY <1>6 DEF WaitReceiver, AgentPcs
  <2>3. PICK a \in AgentState : a.pc = l /\ agent' = [agent EXCEPT ![n] = a]
    BY <2>1, GotoState
  <2>4. \A k \in Slots : recv[n][k] = NoRecv
    BY <2>1, ValuesAt DEF ValuesOK
  <2>5. ValuesOK(n, a, stream[n], recv[n], handled[n])
    BY <2>4, ValuesAt DEF ValuesOK
  <2>. QED  BY <2>3, <2>5, ValuesAt, AgentUpdate
<1>. QED  BY <1>3, <1>4, <1>5, <1>6

LEMMA DialSteps ==
    ASSUME ClusterInv, NEW n \in Nodes, Dial(n)
    PROVE  ClusterInv'
<1>0. UNCHANGED nmVars /\ UNCHANGED handled /\ agent[n].pc = "dial"
  BY DEF Dial, At
<1>1. CASE UNCHANGED <<stream, recv>>
  BY <1>0, <1>1, LoopSteps
<1>2. CASE ~UNCHANGED <<stream, recv>>
  <2>. PICK k : k = 1 - stream[n].slot
    OBVIOUS
  <2>. PICK a : a = [agent[n] EXCEPT !.pc = "stream"]
    OBVIOUS
  <2>. PICK s : s = [NoStream EXCEPT !.slot = k, !.up = TRUE]
    OBVIOUS
  <2>. PICK z : z = [NoRecv EXCEPT !.on = TRUE]
    OBVIOUS
  <2>. PICK r : r = [recv[n] EXCEPT ![k] = z]
    OBVIOUS
  <2>1. /\ stream' = [stream EXCEPT ![n] = s]
        /\ recv' = [recv EXCEPT ![n] = r]
        /\ agent' = [agent EXCEPT ![n] = a]
    BY <1>2, ValuesAt DEF Dial, Goto, ClusterInv, AgTypes
  <2>2. k \in Slots /\ k # stream[n].slot
    BY ValuesAt DEF Slots
  <2>3. a \in AgentState /\ a.pc = "stream"
    BY ValuesAt DEF AgentState, AgentPcs
  <2>4. s \in Stream /\ s.slot = k /\ s.resp = <<>>
    <3>1. NoStream \in Stream /\ NoStream.resp = <<>>
      BY DEF NoStream, Stream, Slots
    <3>. QED  BY <2>2, <3>1 DEF Stream
  <2>5. z \in Receiver /\ z.on = TRUE /\ z.todo = <<>>
    <3>1. NoRecv \in Receiver /\ NoRecv.todo = <<>>
      BY DEF NoRecv, Receiver
    <3>. QED  BY <3>1 DEF Receiver
  <2>6. /\ r \in [Slots -> Receiver] /\ r[k].on = TRUE /\ r[k].todo = <<>>
        /\ \A l \in Slots : l # k => r[l] = recv[n][l]
    BY <2>2, <2>5, ValuesAt
  <2>7. \A l \in Slots : recv[n][l] = NoRecv
    BY <1>0, ValuesAt DEF ValuesOK
  <2>8. ValuesOK(n, a, s, r, handled[n])
    <3>1. Pipe(handled[n], <<>>, <<>>, nodes[n].pending, enqueued)
      BY TypesAt, PipeReset DEF PipeOK
    <3>2. \A l \in Slots : l # k => r[l] = NoRecv
      BY <2>6, <2>7
    <3>. QED  BY <2>3, <2>4, <2>6, <3>1, <3>2 DEF ValuesOK
  <2>9. handled[n] \in Seq(Nat) /\ handled' = handled
    BY <1>0, ValuesAt
  <2>. QED  BY <1>0, <2>1, <2>3, <2>4, <2>6, <2>8, <2>9, AgentUpdate
<1>. QED  BY <1>1, <1>2

LEMMA SendSteps ==
    ASSUME ClusterInv, NEW n \in Nodes, SendHeartbeat(n)
    PROVE  ClusterInv'
<1>0. UNCHANGED nmVars /\ UNCHANGED <<agent, recv, handled>>
  BY DEF SendHeartbeat
<1>. PICK s : s = [stream[n] EXCEPT !.req = stream[n].req + 1]
  OBVIOUS
<1>1. /\ stream' = [stream EXCEPT ![n] = s] /\ s \in Stream
      /\ s.slot = stream[n].slot /\ s.resp = stream[n].resp
  <2>1. stream[n] \in Stream /\ stream[n].req + 1 \in Nat
    BY ValuesAt DEF Stream
  <2>2. stream' = [stream EXCEPT ![n] = s]
    BY DEF SendHeartbeat
  <2>. QED  BY <2>1, <2>2 DEF Stream
<1>2. ValuesOK(n, agent[n], s, recv[n], handled[n])
  BY <1>1, ValuesAt DEF ValuesOK
<1>. QED  BY <1>0, <1>1, <1>2, ValuesAt, AgentUpdate

LEMMA RecvSteps ==
    ASSUME ClusterInv, NEW n \in Nodes, NEW k \in Slots, Recv(n, k)
    PROVE  ClusterInv'
<1>0. /\ UNCHANGED nmVars /\ UNCHANGED <<agent, handled>>
      /\ recv[n][k].on /\ recv[n][k].todo = <<>>
  BY DEF Recv
<1>k. stream[n].slot = k
  BY <1>0, ValuesAt DEF ValuesOK, NoRecv
<1>1. CASE stream[n].resp # <<>>
  <2>. PICK s : s = [stream[n] EXCEPT !.resp = Tail(stream[n].resp)]
    OBVIOUS
  <2>. PICK c : c = [recv[n][k] EXCEPT !.todo = Head(stream[n].resp)]
    OBVIOUS
  <2>. PICK r : r = [recv[n] EXCEPT ![k] = c]
    OBVIOUS
  <2>1. stream' = [stream EXCEPT ![n] = s] /\ recv' = [recv EXCEPT ![n] = r]
    BY <1>1, <1>k, ValuesAt DEF Recv, ClusterInv, AgTypes
  <2>2. /\ Pipe(handled[n], Head(stream[n].resp), Tail(stream[n].resp), nodes[n].pending, enqueued)
        /\ Head(stream[n].resp) \in Seq(Nat) /\ Tail(stream[n].resp) \in Seq(Seq(Nat))
    BY <1>0, <1>1, <1>k, TypesAt, PipeRecv DEF PipeOK
  <2>3. s \in Stream /\ s.slot = k /\ s.resp = Tail(stream[n].resp)
    BY <1>k, <2>2, ValuesAt DEF Stream
  <2>4. recv[n][k] \in Receiver
    BY ValuesAt
  <2>5. c \in Receiver /\ c.on = recv[n][k].on /\ c.todo = Head(stream[n].resp)
    BY <2>2, <2>4 DEF Receiver
  <2>6. /\ r \in [Slots -> Receiver] /\ r[k] = c
        /\ \A l \in Slots : l # k => r[l] = recv[n][l]
    BY <2>5, ValuesAt
  <2>7. agent[n].pc \in {"stream", "wait"}
    BY <1>0, ValuesAt DEF ValuesOK, NoRecv
  <2>8. ValuesOK(n, agent[n], s, r, handled[n])
    BY <1>0, <1>k, <2>2, <2>3, <2>5, <2>6, <2>7, ValuesAt DEF ValuesOK
  <2>9. agent[n] \in AgentState /\ handled[n] \in Seq(Nat) /\ UNCHANGED agent /\ UNCHANGED handled
    BY <1>0, ValuesAt
  <2>. QED  BY <1>0, <2>1, <2>3, <2>6, <2>8, <2>9, AgentUpdate
<1>2. CASE stream[n].resp = <<>>
  <2>. PICK r : r = [recv[n] EXCEPT ![k] = NoRecv]
    OBVIOUS
  <2>1. UNCHANGED stream /\ recv' = [recv EXCEPT ![n] = r]
    BY <1>2, <1>k, ValuesAt DEF Recv, ClusterInv, AgTypes
  <2>2. NoRecv \in Receiver /\ NoRecv.todo = <<>>
    BY DEF NoRecv, Receiver
  <2>3. /\ r \in [Slots -> Receiver] /\ r[k] = NoRecv
        /\ \A l \in Slots : l # k => r[l] = recv[n][l]
    BY <2>2, ValuesAt
  <2>4. Pipe(handled[n], <<>>, stream[n].resp, nodes[n].pending, enqueued)
    BY <1>0, <1>k, TypesAt DEF PipeOK
  <2>5. ValuesOK(n, agent[n], stream[n], r, handled[n])
    BY <1>k, <2>2, <2>3, <2>4, ValuesAt DEF ValuesOK
  <2>. QED  BY <1>0, <2>1, <2>3, <2>5, ValuesAt, AgentUpdate
<1>. QED  BY <1>1, <1>2

LEMMA HandleSteps ==
    ASSUME ClusterInv, NEW n \in Nodes, NEW k \in Slots, HandleCommand(n, k)
    PROVE  ClusterInv'
<1>. PICK t : t = recv[n][k].todo
  OBVIOUS
<1>. PICK c : c = [recv[n][k] EXCEPT !.todo = Tail(t)]
  OBVIOUS
<1>. PICK r : r = [recv[n] EXCEPT ![k] = c]
  OBVIOUS
<1>. PICK h : h = Append(handled[n], Head(t))
  OBVIOUS
<1>0. /\ UNCHANGED nmVars /\ UNCHANGED <<agent, stream>> /\ t # <<>>
      /\ recv' = [recv EXCEPT ![n] = r] /\ handled' = [handled EXCEPT ![n] = h]
  BY ValuesAt DEF HandleCommand, ClusterInv, AgTypes
<1>1. recv[n][k] # NoRecv
  BY <1>0 DEF NoRecv
<1>2. stream[n].slot = k /\ agent[n].pc \in {"stream", "wait"} /\ recv[n][k].on
  BY <1>1, ValuesAt DEF ValuesOK
<1>3. /\ Pipe(h, Tail(t), stream[n].resp, nodes[n].pending, enqueued)
      /\ h \in Seq(Nat) /\ Tail(t) \in Seq(Nat)
  BY <1>0, <1>2, TypesAt, PipeHandle DEF PipeOK
<1>4. recv[n][k] \in Receiver
  BY ValuesAt
<1>5. c \in Receiver /\ c.on = recv[n][k].on /\ c.todo = Tail(t)
  BY <1>3, <1>4 DEF Receiver
<1>6. /\ r \in [Slots -> Receiver] /\ r[k] = c
      /\ \A l \in Slots : l # k => r[l] = recv[n][l]
  BY <1>5, ValuesAt
<1>7. ValuesOK(n, agent[n], stream[n], r, h)
  BY <1>2, <1>3, <1>5, <1>6, ValuesAt DEF ValuesOK
<1>8. agent[n] \in AgentState /\ stream[n] \in Stream /\ UNCHANGED agent /\ UNCHANGED stream
  BY <1>0, ValuesAt
<1>. QED  BY <1>0, <1>3, <1>6, <1>7, <1>8, AgentUpdate

(* The stream of n breaks; the loop is where it was. *)
LEMMA BreakSteps ==
    ASSUME ClusterInv, NEW n \in Nodes, BreakStream(n), UNCHANGED nmVars,
           UNCHANGED <<recv, handled>>,
           NEW a \in AgentState, a.pc = agent[n].pc,
           agent' = [agent EXCEPT ![n] = a] \/ (agent' = agent /\ a = agent[n])
    PROVE  ClusterInv'
<1>1. PICK k \in 0..Len(stream[n].resp) :
        stream' = [stream EXCEPT ![n].up = FALSE, ![n].req = 0,
                                 ![n].resp = SubSeq(stream[n].resp, 1, k)]
  BY DEF BreakStream
<1>. PICK q : q = SubSeq(stream[n].resp, 1, k)
  OBVIOUS
<1>. PICK s : s = [stream[n] EXCEPT !.up = FALSE, !.req = 0, !.resp = q]
  OBVIOUS
<1>2. stream' = [stream EXCEPT ![n] = s]
  BY <1>1, ValuesAt DEF ClusterInv, AgTypes
<1>3. /\ Pipe(handled[n], recv[n][stream[n].slot].todo, q, nodes[n].pending, enqueued)
      /\ q \in Seq(Seq(Nat))
  BY TypesAt, PipeCut DEF PipeOK
<1>4. s \in Stream /\ s.slot = stream[n].slot /\ s.resp = q
  BY <1>3, ValuesAt DEF Stream
<1>5. ValuesOK(n, a, s, recv[n], handled[n])
  BY <1>3, <1>4, ValuesAt DEF ValuesOK
<1>6. recv[n] \in [Slots -> Receiver] /\ handled[n] \in Seq(Nat)
  BY ValuesAt
<1>. QED  BY <1>2, <1>4, <1>5, <1>6, AgentUpdate

LEMMA CrashSteps ==
    ASSUME ClusterInv, NEW n \in Nodes, Crash(n)
    PROVE  ClusterInv'
<1>. PICK a : a = NoAgent
  OBVIOUS
<1>. PICK r : r = [k \in Slots |-> NoRecv]
  OBVIOUS
<1>1. /\ agent' = [agent EXCEPT ![n] = a] /\ stream' = [stream EXCEPT ![n] = NoStream]
      /\ recv' = [recv EXCEPT ![n] = r] /\ handled' = handled /\ UNCHANGED nmVars
  BY DEF Crash
<1>2. a \in AgentState
  BY NoAgentState
<1>3. NoStream \in Stream /\ NoStream.resp = <<>> /\ NoStream.slot \in Slots
  BY DEF NoStream, Stream, Slots
<1>4. NoRecv \in Receiver /\ NoRecv.todo = <<>>
  BY DEF NoRecv, Receiver
<1>5. r \in [Slots -> Receiver] /\ \A k \in Slots : r[k] = NoRecv
  BY <1>4
<1>6. ValuesOK(n, a, NoStream, r, handled[n])
  <2>1. Pipe(handled[n], <<>>, <<>>, nodes[n].pending, enqueued)
    BY TypesAt, PipeReset DEF PipeOK
  <2>. QED  BY <1>3, <1>4, <1>5, <2>1 DEF ValuesOK
<1>7. handled[n] \in Seq(Nat)
  BY ValuesAt
<1>. QED  BY <1>1, <1>2, <1>3, <1>5, <1>6, <1>7, AgentUpdate

(* The queue of n moves into a response of its stream. *)
LEMMA ServeSteps ==
    ASSUME ClusterInv, NEW n \in Nodes, ServeHeartbeat(n)
    PROVE  ClusterInv'
<1>. PICK q : q = IF nodes[n].pending = <<>> THEN stream[n].resp
                  ELSE Append(stream[n].resp, nodes[n].pending)
  OBVIOUS
<1>. PICK s : s = [stream[n] EXCEPT !.req = stream[n].req - 1, !.resp = q]
  OBVIOUS
<1>0. NmInv /\ AgTypes
  BY DEF ClusterInv
<1>1. /\ Unlocked /\ nodes' = [nodes EXCEPT ![n] = NewNode]
      /\ deadCalls' = [deadCalls EXCEPT ![n] = 0] /\ UNCHANGED <<due, enqueued>>
      /\ stream' = [stream EXCEPT ![n] = s] /\ stream[n].req > 0
      /\ UNCHANGED <<agent, recv, handled>>
  BY <1>0 DEF ServeHeartbeat, ProcessHeartbeat, AgTypes
<1>2. NmInv'
  BY <1>0, <1>1, RenewInv
<1>3. /\ Pipe(handled[n], recv[n][stream[n].slot].todo, q, <<>>, enqueued)
      /\ q \in Seq(Seq(Nat))
  <2>1. CASE nodes[n].pending = <<>>
    BY <2>1, TypesAt, ValuesAt DEF PipeOK
  <2>2. CASE nodes[n].pending # <<>>
    BY <2>2, TypesAt, PipeServe DEF PipeOK
  <2>. QED  BY <2>1, <2>2
<1>4. s \in Stream /\ s.slot = stream[n].slot /\ s.resp = q
  <2>1. stream[n] \in Stream /\ stream[n].req - 1 \in Nat
    BY <1>1, ValuesAt DEF Stream
  <2>. QED  BY <1>3, <2>1 DEF Stream
<1>5. AgTypes'
  BY <1>0, <1>1, <1>4 DEF AgTypes
<1>6. stream'[n] = s /\ nodes'[n].pending = <<>>
  BY <1>0, <1>1, FreshRecords DEF AgTypes, NmInv, NmTypes
<1>7. NodeOK(n)'
  BY <1>1, <1>3, <1>4, <1>6, TypesAt DEF NodeOK, ReceiverOK, PipeOK
<1>8. ASSUME NEW m \in Nodes, m # n PROVE NodeOK(m)'
  <2>1. Kept(m) /\ nodes'[m].pending = nodes[m].pending
    BY <1>0, <1>1, <1>8 DEF AgTypes, Kept, NmInv, NmTypes
  <2>. QED  BY <1>1, <2>1, KeptOK
<1>. QED  BY <1>2, <1>5, <1>7, <1>8 DEF ClusterInv

LEMMA ClusterInitInv == ClusterInit => ClusterInv
<1>. SUFFICES ASSUME ClusterInit PROVE ClusterInv
  OBVIOUS
<1>1. NmInv
  BY NmInitInv DEF ClusterInit
<1>2. /\ NoStream \in Stream /\ NoStream.resp = <<>> /\ NoStream.slot \in Slots
      /\ NoRecv \in Receiver /\ NoRecv.todo = <<>>
  BY DEF NoStream, Stream, Slots, NoRecv, Receiver
<1>3. AgTypes
  BY <1>2, NoAgentState DEF ClusterInit, AgTypes
<1>4. ASSUME NEW n \in Nodes PROVE NodeOK(n)
  <2>1. /\ stream[n] = NoStream /\ handled[n] = <<>> /\ \A k \in Slots : recv[n][k] = NoRecv
        /\ nodes[n].pending = <<>>
    BY FreshRecords DEF ClusterInit, NmInit
  <2>2. Pipe(<<>>, <<>>, <<>>, <<>>, enqueued)
    BY DEF Pipe, Batches, Before, Grows, UpTo
  <2>. QED  BY <1>2, <2>1, <2>2 DEF NodeOK, ReceiverOK, PipeOK
<1>. QED  BY <1>1, <1>3, <1>4 DEF ClusterInv

LEMMA ClusterNextInv == ClusterInv /\ [ClusterNext]_clusterVars => ClusterInv'
<1>. SUFFICES ASSUME ClusterInv, [ClusterNext]_clusterVars PROVE ClusterInv'
  OBVIOUS
<1>1. CASE UNCHANGED clusterVars
  BY <1>1 DEF clusterVars, nmVars, agVars, ClusterInv, NmInv, NmTypes, DeadInv, AgTypes,
              NodeOK, ReceiverOK, PipeOK
<1>2. CASE Control
  BY <1>2, ManagerSteps DEF Control
<1>3. CASE Clock
  BY <1>3, ManagerSteps DEF Clock, agVars
<1>4. ASSUME NEW n \in Nodes, JoinRegister(n) \/ ServeLate(n) PROVE ClusterInv'
  <2>1. CASE JoinRegister(n)
    BY <2>1, ManagerSteps DEF JoinRegister
  <2>2. CASE ServeLate(n) /\ ProcessHeartbeat(n)
    BY <2>2, ManagerSteps DEF ServeLate
  <2>3. CASE ServeLate(n) /\ ~ProcessHeartbeat(n)
    <3>1. UNCHANGED nmVars /\ UNCHANGED <<agent, stream, recv, handled>>
      BY <2>3 DEF ServeLate
    <3>. QED  BY <3>1, ValuesAt, AgentUpdate
  <2>. QED  BY <1>4, <2>1, <2>2, <2>3
<1>5. ASSUME NEW n \in Nodes, \/ SaveState(n) \/ SaveCerts(n) \/ JoinFails(n)
                              \/ AgentStep(n)
      PROVE  ClusterInv'
  <2>1. CASE Dial(n)
    BY <2>1, DialSteps
  <2>2. CASE SendHeartbeat(n)
    BY <2>2, SendSteps
  <2>3. CASE ~Dial(n) /\ ~SendHeartbeat(n)
    <3>1. UNCHANGED nmVars /\ UNCHANGED <<stream, recv, handled>>
      BY <1>5, <2>3 DEF SaveState, SaveCerts, JoinFails, AgentStep, LoopStep, Start, StartReturns,
                        HeartbeatLoop, Enter, Standalone, LoopTop, EndStream, WaitReceiver, Backoff
    <3>. QED  BY <1>5, <2>3, <3>1, LoopSteps DEF AgentStep, LoopStep
  <2>. QED  BY <2>1, <2>2, <2>3
<1>6. ASSUME NEW n \in Nodes, Receive(n) PROVE ClusterInv'
  BY <1>6, RecvSteps, HandleSteps DEF Receive
<1>7. ASSUME NEW n \in Nodes, ServeHeartbeat(n) \/ Crash(n) PROVE ClusterInv'
  BY <1>7, ServeSteps, CrashSteps
<1>8. ASSUME NEW n \in Nodes, RefuseHeartbeat(n) \/ Break(n) PROVE ClusterInv'
  <2>1. /\ BreakStream(n) /\ UNCHANGED nmVars /\ UNCHANGED <<recv, handled>>
        /\ agent' = agent
    BY <1>8 DEF RefuseHeartbeat, Break
  <2>. QED  BY <2>1, BreakSteps, ValuesAt
<1>9. ASSUME NEW n \in Nodes, Cancel(n) PROVE ClusterInv'
  <2>. PICK a : a = [agent[n] EXCEPT !.ctx = "cancelled"]
    OBVIOUS
  <2>1. /\ BreakStream(n) /\ UNCHANGED nmVars /\ UNCHANGED <<recv, handled>>
        /\ agent' = [agent EXCEPT ![n] = a]
    BY <1>9 DEF Cancel
  <2>2. a \in AgentState /\ a.pc = agent[n].pc
    BY ValuesAt DEF AgentState
  <2>. QED  BY <2>1, <2>2, BreakSteps
<1>. QED  BY <1>1, <1>2, <1>3, <1>4, <1>5, <1>6, <1>7, <1>8, <1>9 DEF ClusterNext, Serve

LEMMA ClusterInvariant == ClusterSpec => []ClusterInv
BY ClusterInitInv, ClusterNextInv, PTL DEF ClusterSpec

(* onNodeDead is called at most once per death and only for a node that    *)
(* was silent long enough, for every number of nodes and all thresholds,   *)
(* whatever the agents, the network and the checker's ticker do.           *)
THEOREM DeathsReportedOnce == ClusterSpec => []DeadOnce
<1>1. ClusterInv => DeadOnce
  <2>. SUFFICES ASSUME ClusterInv, NEW n \in Nodes PROVE DeadOnce!(n)
    BY DEF DeadOnce
  <2>0. NmTypes /\ DeadInv!(n)
    BY DEF ClusterInv, NmInv, DeadInv
  <2>1. n \in due => due \cap {n} = {n} /\ Cardinality({n}) = 1
    BY FS_Singleton
  <2>2. n \notin due => due \cap {n} = {} /\ Cardinality({}) = 0
    BY FS_EmptySet
  <2>3. deadCalls[n] \in Nat
    BY <2>0 DEF NmTypes
  <2>4. deadCalls[n] + Cardinality(due \cap {n}) <= 1
    BY <2>0, <2>1, <2>2, <2>3
  <2>. QED  BY <2>0, <2>4 DEF Tracked
<1>. QED  BY <1>1, ClusterInvariant, PTL

(* HandleCommand runs in the order of EnqueueCommand and never twice for   *)
(* one command, for every number of nodes, requests in flight, broken      *)
(* streams, reconnects and restarts: the receiver of an old stream has     *)
(* ended before a new one starts.                                          *)
THEOREM CommandsInOrder == ClusterSpec => []HandledInOrder
<1>1. ClusterInv => HandledInOrder
  <2>. SUFFICES ASSUME ClusterInv, NEW n \in Nodes PROVE HandledInOrder!(n)
    BY DEF HandledInOrder
  <2>1. Grows(handled[n]) /\ DOMAIN handled[n] = 1..Len(handled[n])
    BY TypesAt, ValuesAt DEF PipeOK, Pipe
  <2>. QED  BY <2>1 DEF Grows
<1>. QED  BY <1>1, ClusterInvariant, PTL

-----------------------------------------------------------------------------
(* The conversions between an index and a subnet. *)

LEMMA Geometry ==
    /\ Word \in Nat /\ BaseIP \in Nat /\ SubnetSize \in Nat /\ SubnetSize > 0
    /\ MaxSubnetIndex \in Nat
    /\ BaseIP + SubnetSize * MaxSubnetIndex <= Word
BY MeshAssumption DEF MaxSubnetIndex

(* Within baseNet the address arithmetic does not wrap. *)
LEMMA NoWrap ==
    ASSUME NEW i \in Indexes
    PROVE  /\ i \in Nat
           /\ SubnetForIndex(i) = BaseIP + i * SubnetSize
           /\ i * SubnetSize \in Nat /\ i * SubnetSize < Word
<1>. DEFINE M == MaxSubnetIndex
<1>0. M \in Nat /\ i \in Nat /\ i <= M - 1
  BY Geometry DEF Indexes
<1>1. i * SubnetSize \in Nat /\ i * SubnetSize <= (M - 1) * SubnetSize
  BY <1>0, Geometry
<1>2. (M - 1) * SubnetSize = SubnetSize * M - SubnetSize
  BY <1>0, Geometry
<1>3. SubnetSize * M \in Nat
  BY <1>0, Geometry
<1>4. BaseIP + i * SubnetSize < Word
  BY <1>1, <1>2, <1>3, Geometry
<1>5. BaseIP + i * SubnetSize \in Nat
  BY <1>1, Geometry
<1>6. \A a, w \in Nat : a < w => a % w = a
  OBVIOUS
<1>. QED  BY <1>0, <1>1, <1>4, <1>5, <1>6, Geometry DEF SubnetForIndex

LEMMA RoundTrip ==
    ASSUME NEW i \in Indexes
    PROVE  /\ IndexForSubnet(SubnetForIndex(i)) = i
           /\ SubnetForIndex(i) \in Subnets
           /\ SubnetForIndex(i) # NoSubnet
<1>1. (SubnetForIndex(i) - BaseIP) = i * SubnetSize
  BY NoWrap, Geometry
<1>2. \A a, w \in Nat : a < w => a % w = a
  OBVIOUS
<1>3. ((SubnetForIndex(i) - BaseIP) % Word) = i * SubnetSize
  BY <1>1, <1>2, NoWrap, Geometry
<1>4. (i * SubnetSize) \div SubnetSize = i
  BY NoWrap, Geometry
<1>. QED  BY <1>3, <1>4, NoWrap, Geometry DEF IndexForSubnet, Subnets, NoSubnet

LEMMA SubnetInjective ==
    ASSUME NEW i \in Indexes, NEW j \in Indexes, SubnetForIndex(i) = SubnetForIndex(j)
    PROVE  i = j
BY RoundTrip

-----------------------------------------------------------------------------
(* The inductive invariant. *)

(* What was exported is a table that can be imported: one subnet for a     *)
(* node and one node for a subnet.                                         *)
ExportInv ==
    /\ exported \subseteq MeshNodes \X Subnets
    /\ \A q, r \in exported : q[1] = r[1] <=> q[2] = r[2]

(* A node uses what the table says, unless a restart was given an old one. *)
HoldsInv ==
    ~stale => \A n \in MeshNodes : holds[n] # NoSubnet => holds[n] = allocated[n]

MeshTypes ==
    /\ allocated \in [MeshNodes -> Subnets \cup {NoSubnet}]
    /\ used \in [Indexes -> MeshNodes \cup {NoOwner}]
    /\ holds \in [MeshNodes -> Subnets \cup {NoSubnet}]
    /\ stale \in BOOLEAN

MeshInv == MeshTypes /\ MapsAgree /\ ExportInv /\ HoldsInv

(* Different nodes have different subnets. *)
LEMMA OneNodePerSubnet ==
    ASSUME MeshTypes, MapsAgree, NEW m \in MeshNodes, NEW n \in MeshNodes,
           allocated[m] = allocated[n], allocated[m] # NoSubnet
    PROVE  m = n
<1>1. PICK i \in Indexes : allocated[m] = SubnetForIndex(i)
  BY DEF MeshTypes, Subnets
<1>2. used[i] = m /\ used[i] = n
  BY <1>1 DEF MapsAgree
<1>. QED  BY <1>2

LEMMA SoundFromInv == MeshInv => SubnetsSound
<1>. SUFFICES ASSUME MeshInv PROVE HeldOnce
  BY DEF MeshInv, SubnetsSound
<1>. SUFFICES ASSUME ~stale, NEW m \in MeshNodes, NEW n \in MeshNodes,
                     holds[m] = holds[n], holds[m] # NoSubnet
              PROVE  m = n
  BY DEF HeldOnce
<1>1. holds[m] = allocated[m] /\ holds[n] = allocated[n]
  BY DEF MeshInv, HoldsInv
<1>. QED  BY <1>1, OneNodePerSubnet DEF MeshInv

LEMMA NoOwnerOutside == NoOwner \notin MeshNodes /\ NoSubnet \notin Subnets
BY MeshAssumption, RoundTrip DEF NoOwner, Subnets

(* The table of the moment can always be exported. *)
LEMMA TableFit ==
    ASSUME MeshTypes, MapsAgree
    PROVE  /\ Table \subseteq MeshNodes \X Subnets
           /\ \A q, r \in Table : q[1] = r[1] <=> q[2] = r[2]
<1>1. \A r \in Table : /\ r[1] \in MeshNodes /\ r[2] = allocated[r[1]]
                       /\ r[2] # NoSubnet /\ r = <<r[1], r[2]>>
  BY DEF Table
<1>2. Table \subseteq MeshNodes \X Subnets
  BY <1>1 DEF MeshTypes
<1>. QED  BY <1>1, <1>2, OneNodePerSubnet

LEMMA MeshInitInv == MeshInit => MeshInv
<1>. SUFFICES ASSUME MeshInit PROVE MeshInv
  OBVIOUS
<1>1. MeshTypes /\ ExportInv /\ HoldsInv
  BY DEF MeshInit, MeshTypes, ExportInv, HoldsInv
<1>2. MapsAgree
  BY NoOwnerOutside, RoundTrip DEF MeshInit, MapsAgree
<1>. QED  BY <1>1, <1>2 DEF MeshInv

LEMMA AllocateInv ==
    ASSUME MeshInv, NEW n \in MeshNodes, Allocate(n)
    PROVE  MeshInv'
<1>. USE DEF MeshInv
<1>1. CASE /\ allocated[n] # NoSubnet
           /\ holds' = [holds EXCEPT ![n] = allocated[n]]
           /\ UNCHANGED <<allocated, used>>
  BY <1>1 DEF Allocate, MeshTypes, MapsAgree, ExportInv, HoldsInv
<1>2. CASE UNCHANGED <<allocated, used, holds>>
  BY <1>2 DEF Allocate, MeshTypes, MapsAgree, ExportInv, HoldsInv
<1>3. ASSUME allocated[n] = NoSubnet, NEW i \in Free,
             used' = [used EXCEPT ![i] = n],
             allocated' = [allocated EXCEPT ![n] = SubnetForIndex(i)],
             holds' = [holds EXCEPT ![n] = SubnetForIndex(i)]
      PROVE  MeshInv'
  <2>0. i \in Indexes /\ used[i] = NoOwner /\ UNCHANGED <<exported, stale>>
    BY <1>3 DEF Free, Allocate
  <2>1. SubnetForIndex(i) \in Subnets
    BY <2>0, RoundTrip
  <2>2. MeshTypes'
    BY <1>3, <2>0, <2>1 DEF MeshTypes
  <2>3. ASSUME NEW m \in MeshNodes, NEW j \in Indexes
        PROVE  used'[j] = m <=> allocated'[m] = SubnetForIndex(j)
    <3>1. j = i => (used'[j] = m <=> m = n)
      BY <1>3, <2>0 DEF MeshTypes
    <3>2. j # i => used'[j] = used[j]
      BY <1>3 DEF MeshTypes
    <3>3. m = n => (allocated'[m] = SubnetForIndex(j) <=> j = i)
      BY <1>3, <2>0, SubnetInjective DEF MeshTypes
    <3>4. m # n => allocated'[m] = allocated[m]
      BY <1>3 DEF MeshTypes
    <3>5. used[j] = m <=> allocated[m] = SubnetForIndex(j)
      BY DEF MapsAgree
    <3>6. used[i] # m
      BY <2>0, NoOwnerOutside
    <3>7. m = n => used[j] # m
      BY <1>3, <3>5, RoundTrip
    <3>. QED  BY <2>0, <3>1, <3>2, <3>3, <3>4, <3>5, <3>6, <3>7
  <2>4. MapsAgree'
    BY <2>2, <2>3 DEF MapsAgree, MeshTypes
  <2>5. ExportInv' /\ HoldsInv'
    BY <1>3, <2>0 DEF ExportInv, HoldsInv, MeshTypes
  <2>. QED  BY <2>2, <2>4, <2>5
<1>. QED  BY <1>1, <1>2, <1>3 DEF Allocate

LEMMA ReleaseInv ==
    ASSUME MeshInv, NEW n \in MeshNodes, Release(n)
    PROVE  MeshInv'
<1>. USE DEF MeshInv
<1>0. PICK i \in Indexes : used[i] = n /\ used' = [used EXCEPT ![i] = NoOwner]
  BY DEF Release
<1>1. /\ allocated' = [allocated EXCEPT ![n] = NoSubnet]
      /\ holds' = [holds EXCEPT ![n] = NoSubnet]
      /\ UNCHANGED <<exported, stale>>
  BY DEF Release
<1>2. MeshTypes'
  BY <1>0, <1>1 DEF MeshTypes
<1>3. ASSUME NEW m \in MeshNodes, NEW j \in Indexes
      PROVE  used'[j] = m <=> allocated'[m] = SubnetForIndex(j)
  <2>1. \A k \in Indexes : used[k] = n => k = i
    BY <1>0, SubnetInjective DEF MapsAgree
  <2>2. used[j] = m <=> allocated[m] = SubnetForIndex(j)
    BY DEF MapsAgree
  <2>. QED
    BY <1>0, <1>1, <2>1, <2>2, NoOwnerOutside, RoundTrip DEF MeshTypes
<1>4. MapsAgree'
  BY <1>2, <1>3 DEF MapsAgree, MeshTypes
<1>5. ExportInv' /\ HoldsInv'
  BY <1>1 DEF ExportInv, HoldsInv, MeshTypes
<1>. QED  BY <1>2, <1>4, <1>5

LEMMA ExportStep ==
    ASSUME MeshInv, ExportAllocations
    PROVE  MeshInv'
<1>1. MeshTypes' /\ MapsAgree' /\ HoldsInv'
  BY DEF ExportAllocations, MeshInv, MeshTypes, MapsAgree, HoldsInv
<1>2. ExportInv'
  BY TableFit DEF ExportAllocations, MeshInv, ExportInv
<1>. QED  BY <1>1, <1>2 DEF MeshInv

(* What a node is given back is what was recorded for it. *)
LEMMA Reimported ==
    ASSUME ExportInv, NEW kept \in SUBSET exported, ImportAllocations(kept), NEW n \in MeshNodes
    PROVE  \/ <<n, allocated'[n]>> \in kept
           \/ allocated'[n] = NoSubnet /\ \A r \in kept : r[1] # n
<1>0. \A r \in kept : r = <<r[1], r[2]>>
  BY DEF ExportInv
<1>1. CASE Recorded(kept, n) = {}
  BY <1>1 DEF Recorded, ImportAllocations
<1>2. CASE Recorded(kept, n) # {}
  <2>1. (CHOOSE s \in Recorded(kept, n) : TRUE) \in Recorded(kept, n)
    BY <1>2
  <2>2. allocated'[n] \in Recorded(kept, n)
    BY <1>2, <2>1 DEF ImportAllocations
  <2>. QED  BY <1>0, <2>2 DEF Recorded
<1>. QED  BY <1>1, <1>2

LEMMA ReimportedOwner ==
    ASSUME ExportInv, NEW kept \in SUBSET exported, ImportAllocations(kept), NEW i \in Indexes
    PROVE  \/ <<used'[i], SubnetForIndex(i)>> \in kept
           \/ used'[i] = NoOwner /\ \A r \in kept : r[2] # SubnetForIndex(i)
<1>0. \A r \in kept : r = <<r[1], r[2]>> /\ r[2] \in Subnets
  BY DEF ExportInv
<1>1. \A r \in kept : IndexForSubnet(r[2]) = i <=> r[2] = SubnetForIndex(i)
  BY <1>0, RoundTrip DEF Subnets
<1>2. CASE Owners(kept, i) = {}
  BY <1>1, <1>2 DEF Owners, ImportAllocations
<1>3. CASE Owners(kept, i) # {}
  <2>1. (CHOOSE n \in Owners(kept, i) : TRUE) \in Owners(kept, i)
    BY <1>3
  <2>2. used'[i] \in Owners(kept, i)
    BY <1>3, <2>1 DEF ImportAllocations
  <2>3. PICK r \in kept : IndexForSubnet(r[2]) = i /\ used'[i] = r[1]
    BY <2>2 DEF Owners
  <2>. QED  BY <1>0, <1>1, <2>3
<1>. QED  BY <1>2, <1>3

LEMMA ImportInv ==
    ASSUME MeshInv, NEW kept \in SUBSET exported, ImportAllocations(kept)
    PROVE  MeshInv'
<1>. USE DEF MeshInv
<1>a. /\ kept \subseteq MeshNodes \X Subnets
      /\ \A q, r \in kept : q[1] = r[1] <=> q[2] = r[2]
  BY DEF ExportInv
<1>b. \A n \in MeshNodes : \/ <<n, allocated'[n]>> \in kept
                           \/ allocated'[n] = NoSubnet /\ \A r \in kept : r[1] # n
  BY Reimported
<1>c. \A i \in Indexes : \/ <<used'[i], SubnetForIndex(i)>> \in kept
                         \/ used'[i] = NoOwner /\ \A r \in kept : r[2] # SubnetForIndex(i)
  BY ReimportedOwner
<1>1. /\ DOMAIN allocated' = MeshNodes /\ DOMAIN used' = Indexes
      /\ allocated' = [n \in MeshNodes |-> allocated'[n]]
      /\ used' = [i \in Indexes |-> used'[i]]
      /\ UNCHANGED <<exported, holds>>
      /\ stale' = (stale \/ kept # Table)
  BY DEF ImportAllocations
<1>2. MeshTypes'
  <2>1. \A n \in MeshNodes : allocated'[n] \in Subnets \cup {NoSubnet}
    BY <1>a, <1>b
  <2>2. \A i \in Indexes : used'[i] \in MeshNodes \cup {NoOwner}
    BY <1>a, <1>c
  <2>3. stale' \in BOOLEAN
    BY <1>1
  <2>. QED  BY <1>1, <2>1, <2>2, <2>3 DEF MeshTypes
<1>3. ASSUME NEW n \in MeshNodes, NEW i \in Indexes
      PROVE  used'[i] = n <=> allocated'[n] = SubnetForIndex(i)
  <2>. DEFINE s == SubnetForIndex(i)
  <2>1. used'[i] = n <=> <<n, s>> \in kept
    <3>1. used'[i] = n => <<n, s>> \in kept
      BY <1>c, NoOwnerOutside
    <3>2. <<n, s>> \in kept => used'[i] = n
      BY <1>a, <1>c
    <3>. QED  BY <3>1, <3>2
  <2>2. allocated'[n] = s <=> <<n, s>> \in kept
    <3>1. allocated'[n] = s => <<n, s>> \in kept
      BY <1>b, RoundTrip
    <3>2. <<n, s>> \in kept => allocated'[n] = s
      BY <1>a, <1>b
    <3>. QED  BY <3>1, <3>2
  <2>. QED  BY <2>1, <2>2
<1>4. MapsAgree'
  BY <1>2, <1>3 DEF MapsAgree, MeshTypes
<1>5. ExportInv'
  BY <1>1 DEF ExportInv
<1>6. HoldsInv'
  <2>. SUFFICES ASSUME ~stale', NEW n \in MeshNodes, holds[n] # NoSubnet
                PROVE  holds[n] = allocated'[n]
    BY <1>1 DEF HoldsInv
  <2>1. ~stale /\ kept = Table
    BY <1>1 DEF MeshTypes
  <2>2. holds[n] = allocated[n]
    BY <2>1 DEF HoldsInv
  <2>3. <<n, allocated[n]>> \in kept
    BY <2>1, <2>2 DEF Table
  <2>. QED  BY <1>a, <1>b, <2>2, <2>3
<1>. QED  BY <1>2, <1>4, <1>5, <1>6

LEMMA MeshInductive == MeshSpec => []MeshInv
<1>1. MeshInv /\ [MeshNext]_meshVars => MeshInv'
  <2>. SUFFICES ASSUME MeshInv, [MeshNext]_meshVars PROVE MeshInv'
    OBVIOUS
  <2>1. CASE UNCHANGED meshVars
    BY <2>1 DEF meshVars, MeshInv, MeshTypes, MapsAgree, ExportInv, HoldsInv, Table
  <2>. QED
    BY <2>1, AllocateInv, ReleaseInv, ExportStep, ImportInv DEF MeshNext
<1>. QED  BY <1>1, MeshInitInv, PTL DEF MeshSpec

(* The two tables stay inverse to each other, also over imports, and no    *)
(* two nodes use one subnet unless a restart was given an old export.      *)
THEOREM SubnetsStaySound == MeshSpec => []SubnetsSound
BY MeshInductive, SoundFromInv, PTL

(* Every step of the allocator is one of SubnetLeases, or none.            *)
THEOREM AllocatorImplementsLeases == MeshSpec => ImplementsLeases
<1>1. MeshInit => Leases!LeaseInit
  BY DEF MeshInit, Leases!LeaseInit
<1>2. MeshInv /\ [MeshNext]_meshVars => [Leases!LeaseNext]_<<allocated, exported>>
  <2>. SUFFICES ASSUME MeshInv, MeshNext \/ UNCHANGED meshVars
                PROVE  Leases!LeaseNext \/ UNCHANGED <<allocated, exported>>
    OBVIOUS
  <2>1. CASE UNCHANGED meshVars
    BY <2>1 DEF meshVars
  <2>2. CASE ExportAllocations
    BY <2>2 DEF ExportAllocations, Table, Leases!LeaseNext, Leases!Save, Leases!Pairs
  <2>3. ASSUME NEW kept \in SUBSET exported, ImportAllocations(kept) PROVE Leases!LeaseNext
    BY <2>3, Reimported DEF MeshInv, ImportAllocations, Leases!LeaseNext, Leases!Reload
  <2>4. ASSUME NEW n \in MeshNodes, Release(n) PROVE Leases!LeaseNext
    BY <2>4 DEF Release, Leases!LeaseNext, Leases!Drop
  <2>5. ASSUME NEW n \in MeshNodes, Allocate(n)
        PROVE  Leases!LeaseNext \/ UNCHANGED <<allocated, exported>>
    <3>1. CASE UNCHANGED allocated
      BY <2>5, <3>1 DEF Allocate
    <3>2. ASSUME allocated[n] = NoSubnet, NEW i \in Free,
                 allocated' = [allocated EXCEPT ![n] = SubnetForIndex(i)]
          PROVE  Leases!Grant(n)
      <4>1. i \in Indexes /\ used[i] = NoOwner /\ UNCHANGED exported
        BY <2>5, <3>2 DEF Free, Allocate
      <4>2. SubnetForIndex(i) \in Subnets
        BY <4>1, RoundTrip
      <4>3. \A m \in MeshNodes : allocated[m] # SubnetForIndex(i)
        BY <4>1, NoOwnerOutside DEF MeshInv, MapsAgree
      <4>. QED  BY <3>2, <4>1, <4>2, <4>3 DEF Leases!Grant
    <3>. QED  BY <2>5, <3>1, <3>2 DEF Allocate, Leases!LeaseNext
  <2>. QED  BY <2>1, <2>2, <2>3, <2>4, <2>5 DEF MeshNext
<1>. QED
  BY <1>1, <1>2, MeshInductive, PTL DEF MeshSpec, ImplementsLeases, Leases!LeaseSpec

-----------------------------------------------------------------------------
(* Placements: the arithmetic of the scores. *)

(* What makes scores exact: the denominators divide Scale. *)
SoundNode(s) ==
    /\ s \in NodeStatus
    /\ s.ram > 0 => Scale % s.ram = 0
    /\ (s.trust * Scale) % 100 = 0
    /\ s.vms <= Scale

SoundNodes(seen) == DOMAIN seen = Pool /\ \A n \in Pool : SoundNode(seen[n])

LEMMA ScaleFacts ==
    /\ Scale \in Nat \ {0}
    /\ Scale = 4 * (Scale \div 4) /\ Scale \div 4 \in Nat
    /\ Scale = 5 * (Scale \div 5) /\ Scale \div 5 \in Nat
    /\ Scale \div 2 \in Nat
<1>1. Scale \in Nat \ {0} /\ Scale % 20 = 0
  BY ScaleAssumption
<1>. QED  BY <1>1

(* A candidate has room for the VM, so its share of memory is not capped.  *)
LEMMA BinPackingOrder ==
    ASSUME NEW sa, NEW sb, SoundNode(sa), SoundNode(sb), NEW r \in Requests,
           Passes(sa, r), Passes(sb, r),
           NEW xa, xa = ScoreBinPacking(sa, r), NEW xb, xb = ScoreBinPacking(sb, r),
           NEW ra, ra = (sa.ramUsed + r.mem) * sb.ram, NEW rb, rb = (sb.ramUsed + r.mem) * sa.ram
    PROVE  /\ xa \in Int /\ xb \in Int /\ ra \in Int /\ rb \in Int
           /\ ra >= rb => xa >= xb
           /\ ra > rb => xa > xb
<1>1. r.mem \in Nat \ {0}
  BY PoolAssumption DEF VMSpec
<1>2. ASSUME NEW s, SoundNode(s), Passes(s, r)
      PROVE  /\ s.ram \in Nat \ {0} /\ s.ramUsed \in Nat /\ s.ramUsed + r.mem <= s.ram
             /\ Scale % s.ram = 0
  <2>1. s.ram \in Nat /\ s.ramUsed \in Nat
    BY <1>2 DEF SoundNode, NodeStatus
  <2>2. AvailableRAM(s) >= r.mem
    BY <1>2 DEF Passes
  <2>3. s.ramUsed + r.mem <= s.ram /\ s.ram > 0
    BY <1>1, <2>1, <2>2 DEF AvailableRAM
  <2>. QED  BY <1>2, <2>1, <2>3 DEF SoundNode
<1>3. ASSUME NEW s, SoundNode(s), Passes(s, r), NEW k, k = s.ramUsed + r.mem
      PROVE  /\ k \in Nat /\ Scale \div s.ram \in Nat \ {0} /\ Scale = s.ram * (Scale \div s.ram)
             /\ ScoreBinPacking(s, r) = k * (Scale \div s.ram)
  <2>1. /\ s.ram \in Nat \ {0} /\ s.ramUsed \in Nat /\ k <= s.ram /\ k \in Nat
        /\ Scale % s.ram = 0
    BY <1>1, <1>2, <1>3
  <2>2. Scale \div s.ram \in Nat \ {0} /\ Scale = s.ram * (Scale \div s.ram)
    BY <2>1, ScaleFacts, ExactQuotient
  <2>3. k * (Scale \div s.ram) <= Scale
    <3>. DEFINE q == Scale \div s.ram
    <3>1. q * s.ram >= q * k
      <4>. HIDE DEF q
      <4>. QED  BY <2>1, <2>2, TimesOrder DEF q
    <3>. QED  BY <2>1, <2>2, <3>1
  <2>4. k * (Scale \div s.ram) \in Int
    BY <2>1, <2>2
  <2>5. ScoreBinPacking(s, r) = Capped(k * (Scale \div s.ram))
    BY <1>3, <2>1 DEF ScoreBinPacking
  <2>. QED  BY <2>1, <2>2, <2>3, <2>4, <2>5, ScaleFacts DEF Capped
<1>. DEFINE ka == sa.ramUsed + r.mem
            kb == sb.ramUsed + r.mem
            ma == sa.ram
            mb == sb.ram
            qa == Scale \div ma
            qb == Scale \div mb
<1>4. /\ ka \in Nat /\ kb \in Nat /\ qa \in Nat \ {0} /\ qb \in Nat \ {0}
      /\ ma \in Nat \ {0} /\ mb \in Nat \ {0} /\ ma * qa = mb * qb
      /\ xa = ka * qa /\ xb = kb * qb /\ ra = ka * mb /\ rb = kb * ma
  BY <1>2, <1>3
<1>. HIDE DEF ka, kb, ma, mb, qa, qb
<1>5. /\ ka * mb >= kb * ma <=> ka * qa >= kb * qb
      /\ ka * mb > kb * ma <=> ka * qa > kb * qb
  BY <1>4, CrossMultiply
<1>6. xa \in Int /\ xb \in Int /\ ra \in Int /\ rb \in Int
  BY <1>4
<1>. QED  BY <1>4, <1>5, <1>6

(* The fewer VMs, the higher the score, whatever the fullest candidate has. *)
LEMMA SpreadOrder ==
    ASSUME NEW all, \A c \in all : SoundNode(c), NEW sa \in all, NEW sb \in all,
           NEW xa, xa = ScoreSpread(sa, all), NEW xb, xb = ScoreSpread(sb, all)
    PROVE  /\ xa \in Int /\ xb \in Int
           /\ sa.vms <= sb.vms => xa >= xb
           /\ sa.vms < sb.vms => xa > xb
<1>. DEFINE T == {1} \cup {c.vms : c \in all}
            most == Max(T)
<1>1. \A c \in all : c.vms \in Nat /\ c.vms <= Scale
  BY DEF SoundNode, NodeStatus
<1>2. most \in Nat \ {0} /\ most <= Scale
  <2>1. T \in SUBSET Nat /\ T # {} /\ 1 \in T /\ \A y \in T : y <= Scale
    BY <1>1, ScaleFacts
  <2>. HIDE DEF T
  <2>2. \E x \in T : \A y \in T : x >= y
    BY <2>1, ScaleFacts, GreatestNatural
  <2>3. most \in T /\ \A y \in T : most >= y
    BY <2>2 DEF Max
  <2>. HIDE DEF most
  <2>. QED  BY <2>1, <2>3
<1>3. xa = Scale - sa.vms * (Scale \div most) /\ xb = Scale - sb.vms * (Scale \div most)
  BY DEF ScoreSpread
<1>. HIDE DEF most
<1>4. Scale \div most \in Nat \ {0}
  BY <1>2, ScaleFacts
<1>. DEFINE q == Scale \div most
<1>. HIDE DEF q
<1>5. /\ sb.vms >= sa.vms <=> q * sb.vms >= q * sa.vms
      /\ sb.vms > sa.vms <=> q * sb.vms > q * sa.vms
  BY <1>1, <1>4, TimesOrder DEF q
<1>6. /\ xa = Scale - q * sa.vms /\ xb = Scale - q * sb.vms
      /\ q * sa.vms \in Int /\ q * sb.vms \in Int /\ Scale \in Int
  BY <1>1, <1>3, <1>4, ScaleFacts DEF q
<1>. QED  BY <1>1, <1>5, <1>6

LEMMA LocalityOrder ==
    ASSUME NEW a, NEW b, NEW sa, NEW sb, NEW r,
           r.user \in sb.users => r.user \in sa.users,
           b \in r.prefer => a \in r.prefer \/ r.user \in sa.users,
           NEW xa, xa = ScoreLocality(a, sa, r), NEW xb, xb = ScoreLocality(b, sb, r)
    PROVE  xa \in Int /\ xb \in Int /\ xa >= xb
BY ScaleFacts DEF ScoreLocality

LEMMA FreshnessOrder ==
    ASSUME NEW sa, NEW sb, SoundNode(sa), SoundNode(sb), sa.quarters \in 0..sb.quarters,
           NEW xa, xa = ScoreFreshness(sa), NEW xb, xb = ScoreFreshness(sb)
    PROVE  xa \in Int /\ xb \in Int /\ xa >= xb
<1>1. sa.quarters \in Nat /\ sb.quarters \in Nat /\ sa.quarters <= sb.quarters
  BY DEF SoundNode, NodeStatus
<1>. DEFINE q == Scale \div 4
<1>2. q \in Nat /\ Scale = 4 * q
  BY ScaleFacts
<1>3. /\ xa = IF sa.quarters > 4 THEN 0 ELSE Scale - sa.quarters * q
      /\ xb = IF sb.quarters > 4 THEN 0 ELSE Scale - sb.quarters * q
  BY <1>1 DEF ScoreFreshness
<1>. HIDE DEF q
<1>4. sa.quarters * q <= sb.quarters * q /\ sa.quarters * q \in Int /\ sb.quarters * q \in Int
  BY <1>1, <1>2
<1>5. sa.quarters <= 4 => sa.quarters * q <= 4 * q
  BY <1>1, <1>2
<1>. QED  BY <1>1, <1>2, <1>3, <1>4, <1>5

LEMMA TrustOrder ==
    ASSUME NEW sa, NEW sb, SoundNode(sa), SoundNode(sb), sa.trust >= sb.trust,
           NEW xa, xa = ScoreTrust(sa), NEW xb, xb = ScoreTrust(sb)
    PROVE  xa \in Int /\ xb \in Int /\ xa >= xb /\ (sa.trust > sb.trust => xa > xb)
<1>. DEFINE ta == sa.trust * Scale
            tb == sb.trust * Scale
<1>1. /\ sa.trust \in Nat /\ sb.trust \in Nat /\ ta \in Nat /\ tb \in Nat
      /\ ta % 100 = 0 /\ tb % 100 = 0
  BY ScaleFacts DEF SoundNode, NodeStatus
<1>2. ta >= tb /\ (sa.trust > sb.trust => ta > tb)
  <2>1. /\ sa.trust >= sb.trust <=> Scale * sa.trust >= Scale * sb.trust
        /\ sa.trust > sb.trust <=> Scale * sa.trust > Scale * sb.trust
    <3>1. sa.trust \in Int /\ sb.trust \in Int
      BY <1>1
    <3>. QED  BY <3>1, ScaleFacts, TimesOrder
  <2>. QED  BY <1>1, <2>1, ScaleFacts
<1>3. xa = ta \div 100 /\ xb = tb \div 100
  BY DEF ScoreTrust
<1>. HIDE DEF ta, tb
<1>. QED  BY <1>1, <1>2, <1>3

(* A candidate that beats another one in every dimension has more points.  *)
LEMMA DominatorScoresMore ==
    ASSUME NEW seen, SoundNodes(seen), NEW r \in Requests,
           NEW a \in Candidates(seen, r), NEW b \in Candidates(seen, r),
           Dominates(a, seen[a], b, seen[b], r)
    PROVE  ~(Score(a, seen, r) <= Score(b, seen, r))
<1>. DEFINE sa == seen[a]
            sb == seen[b]
            all == {seen[m] : m \in Candidates(seen, r)}
<1>1. /\ SoundNode(sa) /\ SoundNode(sb) /\ Passes(sa, r) /\ Passes(sb, r)
      /\ sa \in all /\ sb \in all /\ \A c \in all : SoundNode(c)
  BY DEF SoundNodes, Candidates
<1>2. /\ Score(a, seen, r) = 4 * ScoreBinPacking(sa, r) + 2 * ScoreSpread(sa, all)
                             + 2 * ScoreLocality(a, sa, r) + ScoreFreshness(sa) + ScoreTrust(sa)
      /\ Score(b, seen, r) = 4 * ScoreBinPacking(sb, r) + 2 * ScoreSpread(sb, all)
                             + 2 * ScoreLocality(b, sb, r) + ScoreFreshness(sb) + ScoreTrust(sb)
  BY DEF Score, Scores
<1>. DEFINE ra == (sa.ramUsed + r.mem) * sb.ram
            rb == (sb.ramUsed + r.mem) * sa.ram
<1>3. /\ ra >= rb /\ sa.vms <= sb.vms
      /\ r.user \in sb.users => r.user \in sa.users
      /\ b \in r.prefer => a \in r.prefer \/ r.user \in sa.users
      /\ sa.quarters \in 0..sb.quarters
      /\ sa.trust >= sb.trust
      /\ ra > rb \/ sa.vms < sb.vms \/ sa.trust > sb.trust
  BY DEF Dominates
<1>. HIDE DEF sa, sb, all, ra, rb
<1>4. PICK pa, pb : pa = ScoreBinPacking(sa, r) /\ pb = ScoreBinPacking(sb, r)
  OBVIOUS
<1>5. PICK va, vb : va = ScoreSpread(sa, all) /\ vb = ScoreSpread(sb, all)
  OBVIOUS
<1>6. PICK la, lb : la = ScoreLocality(a, sa, r) /\ lb = ScoreLocality(b, sb, r)
  OBVIOUS
<1>7. PICK fa, fb : fa = ScoreFreshness(sa) /\ fb = ScoreFreshness(sb)
  OBVIOUS
<1>8. PICK ta, tb : ta = ScoreTrust(sa) /\ tb = ScoreTrust(sb)
  OBVIOUS
<1>9. pa \in Int /\ pb \in Int /\ pa >= pb /\ (ra > rb => pa > pb)
  BY <1>1, <1>3, <1>4, BinPackingOrder DEF ra, rb
<1>10. va \in Int /\ vb \in Int /\ va >= vb /\ (sa.vms < sb.vms => va > vb)
  BY <1>1, <1>3, <1>5, SpreadOrder
<1>11. la \in Int /\ lb \in Int /\ la >= lb
  BY <1>3, <1>6, LocalityOrder
<1>12. fa \in Int /\ fb \in Int /\ fa >= fb
  BY <1>1, <1>3, <1>7, FreshnessOrder
<1>13. ta \in Int /\ tb \in Int /\ ta >= tb /\ (sa.trust > sb.trust => ta > tb)
  BY <1>1, <1>3, <1>8, TrustOrder
<1>14. pa > pb \/ va > vb \/ ta > tb
  BY <1>3, <1>9, <1>10, <1>13
<1>15. 4 * pa + 2 * va + 2 * la + fa + ta > 4 * pb + 2 * vb + 2 * lb + fb + tb
  BY <1>9, <1>10, <1>11, <1>12, <1>13, <1>14
<1>. QED
  BY <1>2, <1>4, <1>5, <1>6, <1>7, <1>8, <1>9, <1>10, <1>11, <1>12, <1>13, <1>15

-----------------------------------------------------------------------------
(* Placements: the steps. *)

NoSeen == [n \in {} |-> 0]

Placement ==
    [pc : {"new", "read", "placed", "refused", "done"},
     seen : [Pool -> NodeStatus] \cup {NoSeen}, node : Pool \cup {"none"}]

PlaceTypes == pool \in [Pool -> NodeStatus] /\ place \in [Requests -> Placement]

Started == {r \in Requests : place[r].pc = "done"}

(* A node is what it was at the start, but for the VMs started since. *)
GrownFrom(s, f, k) ==
    s.ram = f.ram /\ s.disk = f.disk /\ s.trust = f.trust /\ s.vms <= f.vms + k

PoolInv == \A n \in Pool : \E f \in Facts : GrownFrom(pool[n], f, Cardinality(Started))

(* A placement keeps what it read, and chose the best of it. *)
SeenInv ==
    \A r \in Requests :
        /\ place[r].pc \in {"read", "placed"} => SoundNodes(place[r].seen)
        /\ place[r].pc = "placed" => place[r].node \in Best(place[r].seen, r)

(* Until placements overlap, what a placement read is still so. *)
AloneInv ==
    ~raced => /\ \A n \in Pool : /\ pool[n].ramUsed <= pool[n].ram
                                 /\ pool[n].diskUsed <= pool[n].disk
              /\ \A q, r \in Busy : q = r
              /\ \A r \in Busy : place[r].seen = pool

SchedInv == PlaceTypes /\ PoolInv /\ SeenInv /\ AloneInv

LEMMA StartedCount ==
    /\ IsFiniteSet(Started) /\ Cardinality(Started) \in Nat
    /\ Cardinality(Requests) \in Nat /\ Cardinality(Started) <= Cardinality(Requests)
<1>1. Started \subseteq Requests /\ IsFiniteSet(Requests)
  BY PoolAssumption DEF Started
<1>. QED  BY <1>1, FS_Subset, FS_CardinalityType

(* So the scores of the nodes are exact at any time. *)
LEMMA PoolIsSound ==
    ASSUME PlaceTypes, PoolInv
    PROVE  SoundNodes(pool)
<1>. SUFFICES ASSUME NEW n \in Pool PROVE SoundNode(pool[n])
  BY DEF SoundNodes, PlaceTypes
<1>1. pool[n] \in NodeStatus
  BY DEF PlaceTypes
<1>2. PICK f \in Facts : GrownFrom(pool[n], f, Cardinality(Started))
  BY DEF PoolInv
<1>3. /\ pool[n].ram = f.ram /\ pool[n].trust = f.trust
      /\ pool[n].vms <= f.vms + Cardinality(Started) /\ pool[n].vms \in Nat /\ f.vms \in Nat
  BY <1>1, <1>2, PoolAssumption DEF GrownFrom, NodeStatus
<1>4. pool[n].vms <= Scale
  <2>. DEFINE k == f.vms + Cardinality(Requests)
  <2>1. k \in Nat /\ pool[n].vms <= k
    BY <1>3, StartedCount
  <2>2. CASE k = 0
    BY <1>3, <2>1, <2>2, ScaleFacts
  <2>3. CASE k # 0
    <3>1. k \in 1..k /\ k \in Nat \ {0}
      BY <2>1, <2>3
    <3>2. Scale % k = 0
      BY <3>1, ScaleAssumption
    <3>. HIDE DEF k
    <3>3. k <= Scale
      BY <3>1, <3>2, ScaleFacts, ExactQuotient
    <3>. QED  BY <1>3, <2>1, <3>3, ScaleFacts
  <2>. QED  BY <2>2, <2>3
<1>. QED  BY <1>1, <1>3, <1>4, ScaleAssumption DEF SoundNode

LEMMA SchedInitial == ASSUME SchedInit PROVE SchedInv
<1>0. pool \in [Pool -> Facts] /\ place = [r \in Requests |-> NoPlace] /\ Facts \subseteq NodeStatus
  BY PoolAssumption DEF SchedInit
<1>1. PlaceTypes
  BY <1>0 DEF PlaceTypes, Placement, NoPlace, NoSeen
<1>2. \A r \in Requests : place[r].pc = "new"
  BY <1>0 DEF NoPlace
<1>3. PoolInv
  <2>1. \A n \in Pool : GrownFrom(pool[n], pool[n], Cardinality(Started))
    BY <1>1, StartedCount DEF GrownFrom, PlaceTypes, NodeStatus
  <2>. QED  BY <1>0, <2>1 DEF PoolInv
<1>4. SeenInv
  BY <1>2 DEF SeenInv
<1>5. AloneInv
  <2>1. Busy = {}
    BY <1>2 DEF Busy
  <2>. QED  BY <1>0, <2>1, PoolAssumption DEF AloneInv
<1>. QED  BY <1>1, <1>3, <1>4, <1>5 DEF SchedInv

LEMMA ReadStep ==
    ASSUME SchedInv, NEW r \in Requests, PlaceRead(r)
    PROVE  SchedInv'
<1>1. /\ place' = [place EXCEPT ![r].pc = "read", ![r].seen = pool]
      /\ pool' = pool /\ raced' = (raced \/ Busy # {}) /\ place[r].pc = "new" /\ PlaceTypes
  BY DEF PlaceRead, SchedInv
<1>2. /\ place'[r].pc = "read" /\ place'[r].seen = pool
      /\ \A q \in Requests : q # r => place'[q] = place[q]
  BY <1>1 DEF PlaceTypes, Placement
<1>3. PlaceTypes'
  <2>. DEFINE v == [place[r] EXCEPT !.pc = "read", !.seen = pool]
  <2>1. /\ place' = [place EXCEPT ![r] = v] /\ place[r] \in Placement
        /\ pool \in [Pool -> NodeStatus] /\ place \in [Requests -> Placement]
    BY <1>1 DEF PlaceTypes
  <2>2. v \in Placement
    BY <2>1 DEF Placement
  <2>. HIDE DEF v
  <2>. QED  BY <1>1, <2>1, <2>2 DEF PlaceTypes
<1>4. PoolInv'
  <2>1. Started' = Started
    BY <1>1, <1>2 DEF Started
  <2>. QED  BY <1>1, <2>1 DEF SchedInv, PoolInv
<1>5. SeenInv'
  BY <1>2, PoolIsSound DEF SchedInv, SeenInv
<1>6. AloneInv'
  <2>. SUFFICES ASSUME ~raced' PROVE AloneInv'
    BY DEF AloneInv
  <2>1. Busy = {} /\ ~raced
    BY <1>1
  <2>2. Busy' \subseteq {r}
    BY <1>2, <2>1 DEF Busy
  <2>. QED  BY <1>1, <1>2, <2>1, <2>2 DEF SchedInv, AloneInv
<1>. QED  BY <1>3, <1>4, <1>5, <1>6 DEF SchedInv

LEMMA ChooseStep ==
    ASSUME SchedInv, NEW r \in Requests, PlaceVM(r)
    PROVE  SchedInv'
<1>1. place[r].pc = "read" /\ pool' = pool /\ raced' = raced /\ PlaceTypes
  BY DEF PlaceVM, SchedInv
<1>0. SoundNodes(place[r].seen)
  BY <1>1 DEF SchedInv, SeenInv
<1>2. /\ \A q \in Requests : q # r => place'[q] = place[q]
      /\ place'[r].seen = place[r].seen
      /\ \/ place'[r].pc = "placed" /\ place'[r].node \in Best(place[r].seen, r)
         \/ place'[r].pc = "refused"
      /\ PlaceTypes'
  <2>1. CASE \E n \in Best(place[r].seen, r) :
                place' = [place EXCEPT ![r].pc = "placed", ![r].node = n]
    <3>1. PICK n \in Best(place[r].seen, r) :
                 place' = [place EXCEPT ![r].pc = "placed", ![r].node = n]
      BY <2>1
    <3>2. n \in Pool
      BY <1>0 DEF Best, Candidates, SoundNodes
    <3>. DEFINE v == [place[r] EXCEPT !.pc = "placed", !.node = n]
    <3>3. /\ place' = [place EXCEPT ![r] = v] /\ place[r] \in Placement
          /\ pool' \in [Pool -> NodeStatus] /\ place \in [Requests -> Placement]
      BY <1>1, <3>1 DEF PlaceTypes
    <3>4. v \in Placement /\ v.pc = "placed" /\ v.node = n /\ v.seen = place[r].seen
      BY <3>2, <3>3 DEF Placement
    <3>. HIDE DEF v
    <3>. QED  BY <3>3, <3>4 DEF PlaceTypes
  <2>2. CASE place' = [place EXCEPT ![r].pc = "refused"]
    <3>. DEFINE v == [place[r] EXCEPT !.pc = "refused"]
    <3>1. /\ place' = [place EXCEPT ![r] = v] /\ place[r] \in Placement
          /\ pool' \in [Pool -> NodeStatus] /\ place \in [Requests -> Placement]
      BY <1>1, <2>2 DEF PlaceTypes
    <3>2. v \in Placement /\ v.pc = "refused" /\ v.seen = place[r].seen
      BY <3>1 DEF Placement
    <3>. HIDE DEF v
    <3>. QED  BY <3>1, <3>2 DEF PlaceTypes
  <2>. QED  BY <2>1, <2>2 DEF PlaceVM
<1>3. PoolInv'
  <2>1. Started' = Started
    BY <1>1, <1>2 DEF Started
  <2>. QED  BY <1>1, <2>1 DEF SchedInv, PoolInv
<1>4. SeenInv'
  BY <1>0, <1>2 DEF SchedInv, SeenInv
<1>5. AloneInv'
  <2>1. Busy' \subseteq Busy
    BY <1>1, <1>2 DEF Busy
  <2>. QED  BY <1>1, <1>2, <2>1 DEF SchedInv, AloneInv, Busy
<1>. QED  BY <1>2, <1>3, <1>4, <1>5 DEF SchedInv

(* The node chosen, when nothing changed since it was read, has the room.  *)
LEMMA ChosenFits ==
    ASSUME SchedInv, NEW r \in Requests, place[r].pc = "placed", NEW m, m = place[r].node
    PROVE  /\ m \in Pool /\ m \in Candidates(place[r].seen, r)
           /\ ~raced => /\ pool[m].ramUsed + r.mem <= pool[m].ram
                        /\ pool[m].diskUsed + r.disk <= pool[m].disk
                        /\ ~pool[m].draining /\ pool[m].trust >= r.trust
<1>1. m \in Best(place[r].seen, r) /\ SoundNodes(place[r].seen)
  BY DEF SchedInv, SeenInv
<1>2. m \in Pool /\ m \in Candidates(place[r].seen, r)
  BY <1>1 DEF Best, Candidates, SoundNodes
<1>3. ASSUME ~raced
      PROVE  /\ pool[m].ramUsed + r.mem <= pool[m].ram
             /\ pool[m].diskUsed + r.disk <= pool[m].disk
             /\ ~pool[m].draining /\ pool[m].trust >= r.trust
  <2>1. /\ Passes(pool[m], r) /\ pool[m].ramUsed <= pool[m].ram /\ pool[m].diskUsed <= pool[m].disk
    BY <1>2, <1>3 DEF SchedInv, AloneInv, Busy, Candidates
  <2>2. pool[m] \in NodeStatus /\ r \in VMSpec
    BY <1>2, PoolAssumption DEF SchedInv, PlaceTypes
  <2>. QED  BY <2>1, <2>2 DEF Passes, AvailableRAM, AvailableDisk, NodeStatus, VMSpec
<1>. QED  BY <1>2, <1>3

LEMMA HostingFields ==
    ASSUME NEW s \in NodeStatus, NEW r \in VMSpec, NEW h, h = Hosting(s, r)
    PROVE  /\ h \in NodeStatus /\ h.ram = s.ram /\ h.disk = s.disk /\ h.trust = s.trust
           /\ h.vms = s.vms + 1 /\ s.vms \in Nat
           /\ h.ramUsed = s.ramUsed + r.mem /\ h.diskUsed = s.diskUsed + r.disk
<1>1. /\ s.ramUsed + r.mem \in Nat /\ s.diskUsed + r.disk \in Nat /\ s.vms + 1 \in Nat
      /\ s.vms \in Nat
  BY DEF NodeStatus, VMSpec
<1>2. s.users \cup {r.user} \in SUBSET STRING
  BY DEF NodeStatus, VMSpec
<1>. DEFINE ru == s.ramUsed + r.mem
            du == s.diskUsed + r.disk
            vu == s.vms + 1
            us == s.users \cup {r.user}
<1>3. h = [[[[s EXCEPT !.ramUsed = ru] EXCEPT !.diskUsed = du] EXCEPT !.vms = vu] EXCEPT !.users = us]
  BY DEF Hosting, NodeStatus
<1>4. ru \in Nat /\ du \in Nat /\ vu \in Nat /\ us \in SUBSET STRING
  BY <1>1, <1>2
<1>. HIDE DEF ru, du, vu, us
<1>5. /\ h \in NodeStatus /\ h.ram = s.ram /\ h.disk = s.disk /\ h.trust = s.trust
      /\ h.vms = vu /\ h.ramUsed = ru /\ h.diskUsed = du
  BY <1>3, <1>4 DEF NodeStatus
<1>. QED  BY <1>1, <1>5 DEF ru, du, vu

LEMMA StartStep ==
    ASSUME SchedInv, NEW r \in Requests, StartPlaced(r)
    PROVE  SchedInv'
<1>. DEFINE m == place[r].node
            new == Hosting(pool[m], r)
<1>1. /\ place[r].pc = "placed" /\ PlaceTypes /\ raced' = raced
      /\ place' = [place EXCEPT ![r].pc = "done"]
  BY DEF StartPlaced, SchedInv
<1>2. /\ m \in Pool /\ pool[m] \in NodeStatus /\ r \in VMSpec
      /\ ~raced => /\ pool[m].ramUsed + r.mem <= pool[m].ram
                   /\ pool[m].diskUsed + r.disk <= pool[m].disk
  BY <1>1, ChosenFits, PoolAssumption DEF PlaceTypes
<1>p. pool' = [pool EXCEPT ![m] = new]
  BY <1>1, <1>2 DEF StartPlaced, PlaceTypes
<1>3. /\ new \in NodeStatus /\ new.ram = pool[m].ram /\ new.disk = pool[m].disk
      /\ new.trust = pool[m].trust /\ new.vms = pool[m].vms + 1
      /\ new.ramUsed = pool[m].ramUsed + r.mem /\ new.diskUsed = pool[m].diskUsed + r.disk
      /\ pool[m].vms \in Nat
  BY <1>2, HostingFields
<1>. HIDE DEF new, m
<1>4. /\ place'[r].pc = "done" /\ \A q \in Requests : q # r => place'[q] = place[q]
      /\ pool'[m] = new /\ \A n \in Pool : n # m => pool'[n] = pool[n]
      /\ PlaceTypes'
  BY <1>1, <1>2, <1>p, <1>3 DEF PlaceTypes, Placement
<1>5. PoolInv'
  <2>1. Started' = Started \cup {r} /\ r \notin Started
    BY <1>1, <1>4 DEF Started
  <2>2. Cardinality(Started') = Cardinality(Started) + 1 /\ Cardinality(Started) \in Nat
    BY <2>1, StartedCount, FS_AddElement
  <2>. SUFFICES ASSUME NEW n \in Pool
                PROVE  \E f \in Facts : GrownFrom(pool'[n], f, Cardinality(Started'))
    BY DEF PoolInv
  <2>3. PICK f \in Facts : GrownFrom(pool[n], f, Cardinality(Started))
    BY DEF SchedInv, PoolInv
  <2>4. f.vms \in Nat /\ pool[n].vms \in Nat
    BY <1>1, PoolAssumption DEF PlaceTypes, NodeStatus
  <2>5. GrownFrom(pool'[n], f, Cardinality(Started'))
    BY <1>3, <1>4, <2>2, <2>3, <2>4 DEF GrownFrom
  <2>. QED  BY <2>5
<1>6. SeenInv'
  BY <1>4 DEF SchedInv, SeenInv
<1>7. AloneInv'
  <2>. SUFFICES ASSUME ~raced' PROVE AloneInv'
    BY DEF AloneInv
  <2>1. Busy' = {}
    <3>1. r \in Busy /\ \A q \in Busy : q = r
      BY <1>1 DEF SchedInv, AloneInv, Busy
    <3>. QED  BY <1>4, <3>1 DEF Busy
  <2>2. \A n \in Pool : pool'[n].ramUsed <= pool'[n].ram /\ pool'[n].diskUsed <= pool'[n].disk
    BY <1>1, <1>2, <1>3, <1>4 DEF SchedInv, AloneInv
  <2>. QED  BY <2>1, <2>2 DEF AloneInv
<1>. QED  BY <1>4, <1>5, <1>6, <1>7 DEF SchedInv

LEMMA DrainStep ==
    ASSUME SchedInv, NEW n \in Pool, DrainNode(n)
    PROVE  SchedInv'
<1>1. /\ pool' = [pool EXCEPT ![n].draining = TRUE] /\ place' = place /\ PlaceTypes
      /\ raced' = (raced \/ Busy # {})
  BY DEF DrainNode, SchedInv
<1>2. /\ \A k \in Pool : /\ pool'[k] \in NodeStatus /\ pool'[k].ram = pool[k].ram
                         /\ pool'[k].disk = pool[k].disk /\ pool'[k].trust = pool[k].trust
                         /\ pool'[k].vms = pool[k].vms /\ pool'[k].ramUsed = pool[k].ramUsed
                         /\ pool'[k].diskUsed = pool[k].diskUsed
      /\ pool' \in [Pool -> NodeStatus]
  <2>. DEFINE s == pool[n]
              t == [s EXCEPT !.draining = TRUE]
  <2>1. s \in NodeStatus /\ pool' = [pool EXCEPT ![n] = t]
    BY <1>1 DEF PlaceTypes
  <2>. HIDE DEF s
  <2>2. /\ t \in NodeStatus /\ t.ram = s.ram /\ t.disk = s.disk /\ t.trust = s.trust
        /\ t.vms = s.vms /\ t.ramUsed = s.ramUsed /\ t.diskUsed = s.diskUsed
    BY <2>1 DEF NodeStatus
  <2>. HIDE DEF t
  <2>. QED  BY <1>1, <2>1, <2>2 DEF PlaceTypes, s
<1>3. PlaceTypes' /\ SeenInv' /\ Started' = Started /\ Busy' = Busy
  BY <1>1, <1>2 DEF PlaceTypes, SchedInv, SeenInv, Started, Busy
<1>4. PoolInv'
  BY <1>2, <1>3 DEF SchedInv, PoolInv, GrownFrom
<1>5. AloneInv'
  BY <1>1, <1>2, <1>3 DEF SchedInv, AloneInv
<1>. QED  BY <1>3, <1>4, <1>5 DEF SchedInv

LEMMA SchedInductive == ASSUME SchedInv, [SchedNext]_schedVars PROVE SchedInv'
<1>1. CASE SchedNext
  BY <1>1, ReadStep, ChooseStep, StartStep, DrainStep DEF SchedNext
<1>2. CASE UNCHANGED schedVars
  BY <1>2 DEF schedVars, SchedInv, PlaceTypes, PoolInv, SeenInv, AloneInv, Started, Busy
<1>. QED  BY <1>1, <1>2

(* PlaceVM, for any pool, requests and facts: while placements do not      *)
(* overlap, no node is over-full and none is chosen that is drained or not *)
(* trusted enough; and no candidate beats the chosen node in every         *)
(* dimension of the scores at once, overlapping or not.                    *)
THEOREM PlacementsAreGood == SchedSpec => []PlacedWell
<1>1. SchedInit => SchedInv
  BY SchedInitial
<1>2. SchedInv /\ [SchedNext]_schedVars => SchedInv'
  BY SchedInductive
<1>3. SchedInv => PlacedWell
  <2>. SUFFICES ASSUME SchedInv PROVE PlacedWell
    OBVIOUS
  <2>1. PlacedWhereItFits
    BY ChosenFits DEF SchedInv, AloneInv, PlacedWhereItFits
  <2>2. NotDominated
    <3>. SUFFICES ASSUME NEW r \in Requests, place[r].pc = "placed",
                         NEW n \in Candidates(place[r].seen, r),
                         Dominates(n, place[r].seen[n], place[r].node,
                                   place[r].seen[place[r].node], r)
                  PROVE  FALSE
      BY DEF NotDominated
    <3>1. /\ SoundNodes(place[r].seen) /\ place[r].node \in Candidates(place[r].seen, r)
          /\ Score(n, place[r].seen, r) <= Score(place[r].node, place[r].seen, r)
      BY DEF SchedInv, SeenInv, Best
    <3>. QED  BY <3>1, DominatorScoresMore
  <2>. QED  BY <2>1, <2>2 DEF PlacedWell
<1>. QED  BY <1>1, <1>2, <1>3, PTL DEF SchedSpec

=============================================================================
