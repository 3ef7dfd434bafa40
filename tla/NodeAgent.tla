------------------------------ MODULE NodeAgent ------------------------------
(***************************************************************************)
(* The node agent and its heartbeat stream to the node manager:            *)
(* internal/agent/agent.go and heartbeat.go, cmd/ussyverse-agent.          *)
(*                                                                         *)
(* A join is a process of its own ("ussyverse-agent join"), so it can run  *)
(* beside the agent.  The agent that "ussyverse-agent run" starts waits    *)
(* for its context and does nothing else: Start does not call              *)
(* heartbeatLoop, nothing does.  The loop is modelled as it is written,    *)
(* entered by HeartbeatLoop in place of Start: the sender and one          *)
(* receiving goroutine per stream; a new stream takes the other of two     *)
(* slots, so that a receiver which outlives its stream can be told apart.  *)
(*                                                                         *)
(* The transport is not in the repository and a.client never set there;    *)
(* Clients says whether there is one.  As the code uses it: Send and Recv  *)
(* fail once the stream is broken or its context cancelled; responses      *)
(* already received may still be read; a request already at the server may *)
(* be processed late, its response going nowhere.  Responses without       *)
(* commands and the lengths of the backoff are left out.                   *)
(***************************************************************************)
EXTENDS NodeManager

CONSTANTS
    Calls,         \* what is called: "Start" by the program, "heartbeatLoop" by nothing yet
    Clients,       \* may a.client be set?  FALSE is the repository as it is
    MaxInflight,   \* bound: unanswered requests of a stream
    MaxLate,       \* bound: requests of broken streams at the server
    MaxFaults      \* bound: broken streams, failed dials, crashes, failed writes

ASSUME ClientsAssumption ==
    Clients \subseteq BOOLEAN /\ Calls \subseteq {"Start", "heartbeatLoop"}

ASSUME AgBoundsAssumption == {MaxInflight, MaxLate, MaxFaults} \subseteq Nat

VARIABLES
    agent,     \* where Start or heartbeatLoop is, its context, its client
    join,      \* where a join process is
    disk,      \* whether state.json exists
    stream,    \* current stream: its slot, unanswered requests, responses
    late,      \* requests of broken streams that the server still processes
    recv,      \* receiving goroutine by slot: running, commands left to handle
    handled,   \* commands handled, in order
    lost,      \* history: commands taken from a queue and never handled
    faults     \* faults so far

agVars == <<agent, join, disk, stream, late, recv, handled, lost, faults>>
clusterVars == <<nmVars, agVars>>

Slots == {0, 1}
NoRecv == [on |-> FALSE, todo |-> <<>>]
NoAgent == [pc |-> "down", ctx |-> "live", client |-> FALSE]
NoStream == [slot |-> 0, up |-> FALSE, req |-> 0, resp |-> <<>>]

ClusterInit ==
    /\ NmInit
    /\ agent = [n \in Nodes |-> NoAgent]
    /\ join = [n \in Nodes |-> "none"]
    /\ disk = [n \in Nodes |-> FALSE]
    /\ stream = [n \in Nodes |-> NoStream]
    /\ late = [n \in Nodes |-> 0]
    /\ recv = [n \in Nodes |-> [k \in Slots |-> NoRecv]]
    /\ handled = [n \in Nodes |-> <<>>]
    /\ lost = {}
    /\ faults = 0

At(n, l) == agent[n].pc = l
Goto(n, l) == agent' = [agent EXCEPT ![n] = IF l = "down" THEN NoAgent ELSE [@ EXCEPT !.pc = l]]
Live(n) == agent[n].ctx = "live"

Elems(s) == {s[i] : i \in DOMAIN s}
Flat(ss) == UNION {Elems(s) : s \in Elems(ss)}

Fault == faults < MaxFaults /\ faults' = faults + 1

-----------------------------------------------------------------------------
(* Join. *)

(* Without a client register returns an error and nothing changes.         *)
JoinRegister(n) ==
    /\ join[n] = "none"
    /\ TRUE \in Clients
    /\ RegisterNode(n)
    /\ join' = [join EXCEPT ![n] = "state"]
    /\ lost' = lost \cup Elems(nodes[n].pending)
    /\ UNCHANGED <<agent, disk, stream, late, recv, handled, faults>>

SaveState(n) ==
    /\ join[n] = "state"
    /\ disk' = [disk EXCEPT ![n] = TRUE]
    /\ join' = [join EXCEPT ![n] = "certs"]
    /\ UNCHANGED <<nmVars, agent, stream, late, recv, handled, lost, faults>>

SaveCerts(n) ==
    /\ join[n] = "certs"
    /\ join' = [join EXCEPT ![n] = "none"]
    /\ UNCHANGED <<nmVars, agent, disk, stream, late, recv, handled, lost, faults>>

(* A write fails or the process dies: nothing is undone.                   *)
JoinFails(n) ==
    /\ join[n] \in {"state", "certs"}
    /\ Fault
    /\ join' = [join EXCEPT ![n] = "none"]
    /\ UNCHANGED <<nmVars, agent, disk, stream, late, recv, handled, lost>>

-----------------------------------------------------------------------------
(* Start, heartbeatLoop and runHeartbeatStream. *)

Enter(n, l, client) ==
    /\ At(n, "down")
    /\ disk[n]
    /\ agent' = [agent EXCEPT ![n] = [NoAgent EXCEPT !.pc = l, !.client = client]]
    /\ UNCHANGED <<nmVars, join, disk, stream, late, recv, handled, lost, faults>>

(* Start never looks at a.client. *)
Start(n) == "Start" \in Calls /\ Enter(n, "idle", FALSE)

StartReturns(n) ==
    /\ At(n, "idle")
    /\ ~Live(n)
    /\ Goto(n, "down")
    /\ UNCHANGED <<nmVars, join, disk, stream, late, recv, handled, lost, faults>>

HeartbeatLoop(n) ==
    "heartbeatLoop" \in Calls /\ \E client \in Clients : Enter(n, "loop", client)

(* What a break of n's stream leaves: a prefix of the responses that were  *)
(* on their way, and some of the requests at the server.                   *)
LateAfter(n) == {l \in late[n]..(late[n] + stream[n].req) : l <= MaxLate}

BreakStream(n) ==
    \E k \in 0..Len(stream[n].resp), l \in LateAfter(n) :
        /\ stream' = [stream EXCEPT ![n].up = FALSE, ![n].req = 0,
                                    ![n].resp = SubSeq(@, 1, k)]
        /\ late' = [late EXCEPT ![n] = l]
        /\ lost' = lost \cup Flat(SubSeq(stream[n].resp, k + 1, Len(stream[n].resp)))

MutantLoopTop(n) ==
    /\ At(n, "loop")
    /\ Goto(n, "dial")
    /\ UNCHANGED <<nmVars, join, disk, stream, late, recv, handled, lost, faults>>

LoopTop(n) ==
    /\ At(n, "loop")
    /\ Goto(n, IF Live(n) THEN "dial" ELSE "down")
    /\ UNCHANGED <<nmVars, join, disk, stream, late, recv, handled, lost, faults>>

Dial(n) ==
    /\ At(n, "dial")
    /\ agent[n].client
    /\ \/ /\ Live(n)
          /\ LET k == 1 - stream[n].slot IN
                /\ stream' = [stream EXCEPT ![n] = [NoStream EXCEPT !.slot = k, !.up = TRUE]]
                /\ recv' = [recv EXCEPT ![n][k] = [NoRecv EXCEPT !.on = TRUE]]
          /\ Goto(n, "stream")
          /\ UNCHANGED faults
       \/ /\ IF Live(n) THEN Fault ELSE UNCHANGED faults
          /\ Goto(n, IF Live(n) THEN "backoff" ELSE "loop")
          /\ UNCHANGED <<stream, recv>>
    /\ UNCHANGED <<nmVars, join, disk, late, handled, lost>>

(* runStandaloneHeartbeat, the branch without a client: metrics go to the  *)
(* log until the context is cancelled.                                     *)
Standalone(n) ==
    /\ \/ At(n, "dial") /\ ~agent[n].client /\ Goto(n, "alone")
       \/ At(n, "alone") /\ ~Live(n) /\ Goto(n, "loop")
    /\ UNCHANGED <<nmVars, join, disk, stream, late, recv, handled, lost, faults>>

(* Metrics that cannot be collected skip a tick; not for ever.             *)
SendHeartbeat(n) ==
    /\ At(n, "stream")
    /\ stream[n].up
    /\ stream[n].req < MaxInflight
    /\ stream' = [stream EXCEPT ![n].req = @ + 1]
    /\ UNCHANGED <<nmVars, agent, join, disk, late, recv, handled, lost, faults>>

MutantEndStream(n) ==
    /\ At(n, "stream")
    /\ ~Live(n)
    /\ Goto(n, "wait")
    /\ UNCHANGED <<nmVars, join, disk, stream, late, recv, handled, lost, faults>>

(* ctx.Done, or Send fails. *)
EndStream(n) ==
    /\ At(n, "stream")
    /\ ~Live(n) \/ ~stream[n].up
    /\ Goto(n, "wait")
    /\ UNCHANGED <<nmVars, join, disk, stream, late, recv, handled, lost, faults>>

MutantWaitReceiver(n) ==
    /\ At(n, "wait")
    /\ Goto(n, IF Live(n) THEN "backoff" ELSE "loop")
    /\ UNCHANGED <<nmVars, join, disk, stream, late, recv, handled, lost, faults>>

(* wg.Wait; a stream that ended because of the context returns no error.   *)
WaitReceiver(n) ==
    /\ At(n, "wait")
    /\ ~recv[n][stream[n].slot].on
    /\ Goto(n, IF Live(n) THEN "backoff" ELSE "loop")
    /\ UNCHANGED <<nmVars, join, disk, stream, late, recv, handled, lost, faults>>

Backoff(n) ==
    /\ At(n, "backoff")
    /\ Goto(n, IF Live(n) THEN "loop" ELSE "down")
    /\ UNCHANGED <<nmVars, join, disk, stream, late, recv, handled, lost, faults>>

(* The receiving goroutine takes the next batch, or ends on the error that *)
(* a broken stream gives once what was received is read.                   *)
Recv(n, k) ==
    /\ recv[n][k].on
    /\ recv[n][k].todo = <<>>
    /\ LET s == stream[n]
           mine == s.slot = k
       IN \/ /\ mine /\ s.resp # <<>>
             /\ recv' = [recv EXCEPT ![n][k].todo = Head(s.resp)]
             /\ stream' = [stream EXCEPT ![n].resp = Tail(@)]
          \/ /\ mine /\ s.resp = <<>> => ~s.up
             /\ mine => s.resp = <<>>
             /\ recv' = [recv EXCEPT ![n][k] = NoRecv]
             /\ UNCHANGED stream
    /\ UNCHANGED <<nmVars, agent, join, disk, late, handled, lost, faults>>

HandleCommand(n, k) ==
    /\ recv[n][k].todo # <<>>
    /\ handled' = [handled EXCEPT ![n] = Append(@, Head(recv[n][k].todo))]
    /\ recv' = [recv EXCEPT ![n][k].todo = Tail(@)]
    /\ UNCHANGED <<nmVars, agent, join, disk, stream, late, lost, faults>>

-----------------------------------------------------------------------------
(* The server's side of the stream. *)

ServeHeartbeat(n) ==
    /\ stream[n].up
    /\ stream[n].req > 0
    /\ ProcessHeartbeat(n)
    /\ stream' = [stream EXCEPT
                    ![n].req = @ - 1,
                    ![n].resp = IF nodes[n].pending = <<>> THEN @
                                ELSE Append(@, nodes[n].pending)]
    /\ UNCHANGED <<agent, join, disk, late, recv, handled, lost, faults>>

(* "unknown node": the handler returns the error, which ends the stream.   *)
RefuseHeartbeat(n) ==
    /\ stream[n].up
    /\ stream[n].req > 0
    /\ Unlocked /\ ~Tracked(n)
    /\ BreakStream(n)
    /\ UNCHANGED <<nmVars, agent, join, disk, recv, handled, faults>>

ServeLate(n) ==
    /\ late[n] > 0
    /\ \/ /\ ProcessHeartbeat(n)
          /\ lost' = lost \cup Elems(nodes[n].pending)
       \/ /\ Unlocked /\ ~Tracked(n)
          /\ UNCHANGED <<nmVars, lost>>
    /\ late' = [late EXCEPT ![n] = @ - 1]
    /\ UNCHANGED <<agent, join, disk, stream, recv, handled, faults>>

-----------------------------------------------------------------------------
(* The environment: the operator, the network, crashes. *)

(* SIGTERM, or Stop: the context is cancelled, which breaks the stream.    *)
Cancel(n) ==
    /\ ~At(n, "down")
    /\ Live(n)
    /\ agent' = [agent EXCEPT ![n].ctx = "cancelled"]
    /\ BreakStream(n)
    /\ UNCHANGED <<nmVars, join, disk, recv, handled, faults>>

Break(n) ==
    /\ stream[n].up
    /\ Fault
    /\ BreakStream(n)
    /\ UNCHANGED <<nmVars, agent, join, disk, recv, handled>>

Crash(n) ==
    /\ ~At(n, "down")
    /\ Fault
    /\ agent' = [agent EXCEPT ![n] = NoAgent]
    /\ recv' = [recv EXCEPT ![n] = [k \in Slots |-> NoRecv]]
    /\ stream' = [stream EXCEPT ![n] = NoStream]
    /\ \E l \in LateAfter(n) : late' = [late EXCEPT ![n] = l]
    /\ lost' = lost \cup Flat(stream[n].resp)
                    \cup UNION {Elems(recv[n][k].todo) : k \in Slots}
    /\ UNCHANGED <<nmVars, join, disk, handled>>

Control ==
    /\ \E n \in Nodes :
          \/ RemoveNode(n) /\ lost' = lost \cup Elems(nodes[n].pending)
          \/ EnqueueCommand(n) /\ UNCHANGED lost
    /\ UNCHANGED <<agent, join, disk, stream, late, recv, handled, faults>>

Clock ==
    /\ \/ CheckTimeouts
       \/ \E n \in Nodes : CallOnNodeDead(n)
       \/ Tick
    /\ UNCHANGED agVars

LoopStep(n) ==
    \/ LoopTop(n) \/ Dial(n) \/ Standalone(n) \/ EndStream(n) \/ WaitReceiver(n) \/ Backoff(n)

AgentStep(n) ==
    \/ Start(n) \/ StartReturns(n) \/ HeartbeatLoop(n)
    \/ LoopStep(n) \/ SendHeartbeat(n)

Receive(n) == \E k \in Slots : Recv(n, k) \/ HandleCommand(n, k)

Serve(n) == ServeHeartbeat(n) \/ RefuseHeartbeat(n) \/ ServeLate(n)

ClusterNext ==
    \/ Control \/ Clock
    \/ \E n \in Nodes :
          \/ JoinRegister(n) \/ SaveState(n) \/ SaveCerts(n) \/ JoinFails(n)
          \/ AgentStep(n) \/ Receive(n) \/ Serve(n)
          \/ Cancel(n) \/ Break(n) \/ Crash(n)

(* Goroutines that can run do, the clock ticks and the checker's ticker    *)
(* fires; joins, starts, commands and faults need not happen.              *)
ClusterFairness ==
    /\ WF_clusterVars(Tick /\ UNCHANGED agVars)
    /\ WF_clusterVars(CheckTimeouts /\ UNCHANGED agVars)
    /\ \A n \in Nodes :
          /\ WF_clusterVars(CallOnNodeDead(n) /\ UNCHANGED agVars)
          /\ WF_clusterVars(StartReturns(n))
          /\ WF_clusterVars(LoopStep(n))
          /\ WF_clusterVars(SendHeartbeat(n))
          /\ WF_clusterVars(ServeHeartbeat(n) \/ RefuseHeartbeat(n))
          /\ WF_clusterVars(ServeLate(n))
          /\ \A k \in Slots : WF_clusterVars(Recv(n, k) \/ HandleCommand(n, k))

ClusterSpec == ClusterInit /\ [][ClusterNext]_clusterVars /\ ClusterFairness

-----------------------------------------------------------------------------
(* Of heartbeatLoop as written: a node handles its commands in the order   *)
(* they were enqueued and none of them twice, over broken streams,         *)
(* reconnects, late heartbeats and restarts: a create is never overtaken   *)
(* by the destroy that follows it.                                         *)
HandledInOrder ==
    \A n \in Nodes : \A i, j \in DOMAIN handled[n] :
        i < j => handled[n][i] < handled[n][j]

(* A tracked node whose agent sends no heartbeats (stopped, crashed, run   *)
(* by Start, without a client, or left without state between Register and  *)
(* saveState) is declared dead, unless it is removed or comes back.        *)
Silent(n) == ~agent[n].client

SilentDies ==
    \A n \in Nodes : (Tracked(n) /\ Silent(n))
        ~> (nodes[n].health = "dead" \/ ~Tracked(n) \/ ~Silent(n))

(* Cancelling the agent's context ends Start and heartbeatLoop, wherever   *)
(* it is: between streams, sending, waiting for the receiver, backing off  *)
(* or without a client.                                                    *)
CancelReturns == \A n \in Nodes : (~At(n, "down") /\ ~Live(n)) ~> At(n, "down")

(* Of heartbeatLoop alone, as written and with a client: a command in the  *)
(* queue of a node that runs it is eventually handled, unless the stream   *)
(* that carried it broke, the node was removed or registered again, or the *)
(* loop ended.  No program of the repository runs the loop, see            *)
(* StartHandlesCommands.                                                   *)
Delivered ==
    \A n \in Nodes, c \in 1..MaxCommands :
        (c \in Elems(nodes[n].pending) /\ ~Silent(n) /\ Live(n))
            ~> (c \in Elems(handled[n]) \/ c \in lost \/ Silent(n) \/ ~Live(n))

(* "Start begins the agent's main loop (heartbeat + command processing)":  *)
(* a command for a node whose agent Start runs is handled.  It is not.     *)
StartHandlesCommands ==
    \A n \in Nodes, c \in 1..MaxCommands :
        (c \in Elems(nodes[n].pending) /\ At(n, "idle") /\ Live(n))
            ~> (c \in Elems(handled[n]) \/ c \in lost \/ ~At(n, "idle") \/ ~Live(n))

=============================================================================
