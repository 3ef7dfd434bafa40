--------------------------- MODULE PlatformProofs ---------------------------
(***************************************************************************)
(* Proofs about the parts of the platform around the VMs: the rules of the *)
(* firewall, the image cache, the LLM gateway, mail and the arena.  Each   *)
(* theorem rests on an inductive invariant of its own module.              *)
(***************************************************************************)
EXTENDS Firewall, ImageCache, LLMGateway, Mail, Arena, FiniteSetTheorems, TLAPS

-----------------------------------------------------------------------------
(* Firewall: the base rules.  In a new table they are the first rules of   *)
(* the forward chain, so no rule of a VM ever has a handle below 8, in     *)
(* this table or in one that a session still has handles of.               *)

Starting == {"add", "addreturn", "boot", "undo"}
Stopping == {"list", "delete", "release"}
Job == [pc : {"idle", "flush", "load", "tap"} \cup Starting \cup Stopping,
        vm : VMs \cup {Base}, handles : SUBSET Nat]

FwTypes ==
    /\ table \in {"present", "absent"}
    /\ handle \in Nat
    /\ chain \subseteq [handle : Nat, vm : VMs \cup {Base}]
    /\ guest \in [VMs -> {"off", "starting", "up", "stopping"}]
    /\ proc \in [Sessions -> Job]
    /\ \A s \in Sessions : proc[s].pc # "idle" => proc[s].vm \in VMs

HandlesInv ==
    /\ table = "absent" => chain = {}
    /\ table = "present" => handle >= 7 /\ [handle : {6, 7}, vm : {Base}] \subseteq chain
    /\ \A r \in chain : r.vm # Base => r.handle >= 8
    /\ \A s \in Sessions : \A h \in proc[s].handles : h >= 8

(* A session that starts or stops a VM has it alone. *)
OwnInv ==
    /\ \A s \in Sessions : /\ proc[s].pc \in Starting => guest[proc[s].vm] = "starting"
                           /\ proc[s].pc \in Stopping => guest[proc[s].vm] = "stopping"
    /\ \A s, t \in Sessions :
          /\ proc[s].pc \in Starting \cup Stopping
          /\ proc[t].pc \in Starting \cup Stopping
          /\ proc[s].vm = proc[t].vm
          => s = t

(* Where nothing failed, a stop holds the handles of all rules its VM has  *)
(* left, and whoever is about to give the address up has left none.        *)
RulesInv ==
    \A r \in chain : r.vm \in VMs \ marred =>
        /\ guest[r.vm] # "off"
        /\ \A s \in Sessions : proc[s].vm = r.vm =>
              /\ proc[s].pc = "delete" => r.handle \in proc[s].handles
              /\ proc[s].pc \notin {"release", "undo"}

FwInv == FwTypes /\ HandlesInv /\ OwnInv /\ RulesInv

LEMMA FwInitInv == Init => FwInv
BY DEF Init, FwInv, FwTypes, HandlesInv, OwnInv, RulesInv, NoJob, Job, Starting, Stopping, Base

Owning == Starting \cup Stopping

(* One session moves to x and its VM v to g; it takes v, keeps it, gives   *)
(* it back or has none.                                                    *)
LEMMA OwnMoves ==
    ASSUME FwTypes, OwnInv, NEW s \in Sessions, NEW x \in Job, x.pc # "idle" => x.vm \in VMs,
           proc' = [proc EXCEPT ![s] = x],
           NEW v \in VMs, NEW g \in {"off", "starting", "up", "stopping"},
           guest' = [guest EXCEPT ![v] = g],
           x.pc \in Owning => x.vm = v,
           proc[s].pc \in Owning => proc[s].vm = v,
           x.pc \in Starting => g = "starting",
           x.pc \in Stopping => g = "stopping",
           proc[s].pc \notin Owning => g = guest[v] \/ guest[v] \in {"off", "up"},
           proc[s].pc \notin Owning /\ x.pc \in Owning => guest[v] \in {"off", "up"}
    PROVE  OwnInv' /\ proc' \in [Sessions -> Job] /\ guest' \in [VMs -> {"off", "starting", "up", "stopping"}]
           /\ \A t \in Sessions : proc'[t].pc # "idle" => proc'[t].vm \in VMs
<1>1. \A t \in Sessions : proc'[t] = IF t = s THEN x ELSE proc[t]
  BY DEF FwTypes
<1>2. \A w \in VMs : guest'[w] = IF w = v THEN g ELSE guest[w]
  BY DEF FwTypes
<1>3. ASSUME NEW t \in Sessions, t # s, proc[t].pc \in Owning, g # guest[v] \/ x.pc \in Owning
      PROVE  proc[t].vm # v
  <2>1. CASE proc[s].pc \in Owning
    BY <1>3, <2>1 DEF OwnInv, Owning
  <2>2. CASE proc[s].pc \notin Owning
    BY <1>3, <2>2 DEF OwnInv, Owning, FwTypes
  <2>. QED  BY <2>1, <2>2
<1>4. \A t \in Sessions : /\ proc'[t].pc \in Starting => guest'[proc'[t].vm] = "starting"
                          /\ proc'[t].pc \in Stopping => guest'[proc'[t].vm] = "stopping"
  <2>. TAKE t \in Sessions
  <2>1. CASE t = s
    BY <1>1, <1>2, <2>1 DEF Owning
  <2>2. CASE t # s
    <3>1. proc[t].pc \in Owning => proc[t].vm \in VMs
      BY DEF FwTypes, Owning, Starting, Stopping
    <3>. QED  BY <1>1, <1>2, <1>3, <2>2, <3>1 DEF OwnInv, Owning
  <2>. QED  BY <2>1, <2>2
<1>5. \A t, u \in Sessions :
        proc'[t].pc \in Owning /\ proc'[u].pc \in Owning /\ proc'[t].vm = proc'[u].vm => t = u
  <2>. SUFFICES ASSUME NEW t \in Sessions, NEW u \in Sessions, proc'[t].pc \in Owning,
                       proc'[u].pc \in Owning, proc'[t].vm = proc'[u].vm, t # u
                PROVE  FALSE
    OBVIOUS
  <2>1. CASE t = s
    BY <1>1, <1>3, <2>1
  <2>2. CASE u = s
    BY <1>1, <1>3, <2>2
  <2>3. CASE t # s /\ u # s
    BY <1>1, <2>3 DEF OwnInv, Owning
  <2>. QED  BY <2>1, <2>2, <2>3
<1>. QED  BY <1>1, <1>4, <1>5 DEF OwnInv, Owning, FwTypes

(* The whole invariant, from what the step does to the job and the VM and  *)
(* from what was shown about the rules.                                    *)
LEMMA FwMoves ==
    ASSUME FwInv, NEW s \in Sessions, NEW x \in Job, x.pc # "idle" => x.vm \in VMs,
           proc' = [proc EXCEPT ![s] = x],
           NEW v \in VMs, NEW g \in {"off", "starting", "up", "stopping"},
           guest' = [guest EXCEPT ![v] = g],
           x.pc \in Owning => x.vm = v,
           proc[s].pc \in Owning => proc[s].vm = v,
           x.pc \in Starting => g = "starting",
           x.pc \in Stopping => g = "stopping",
           proc[s].pc \notin Owning => g = guest[v] \/ guest[v] \in {"off", "up"},
           proc[s].pc \notin Owning /\ x.pc \in Owning => guest[v] \in {"off", "up"},
           table' \in {"present", "absent"}, handle' \in Nat,
           chain' \subseteq [handle : Nat, vm : VMs \cup {Base}],
           table' = "absent" => chain' = {},
           table' = "present" => handle' >= 7 /\ [handle : {6, 7}, vm : {Base}] \subseteq chain',
           \A r \in chain' : r.vm # Base => r.handle >= 8,
           \A h \in x.handles : h >= 8,
           RulesInv'
    PROVE  FwInv'
<1>1. \A t \in Sessions : proc'[t] = IF t = s THEN x ELSE proc[t]
  BY DEF FwInv, FwTypes
<1>2. HandlesInv'
  BY <1>1 DEF FwInv, HandlesInv
<1>3. /\ OwnInv' /\ proc' \in [Sessions -> Job]
      /\ guest' \in [VMs -> {"off", "starting", "up", "stopping"}]
      /\ \A t \in Sessions : proc'[t].pc # "idle" => proc'[t].vm \in VMs
  BY OwnMoves DEF FwInv
<1>. QED  BY <1>2, <1>3 DEF FwInv, FwTypes

(* A step that leaves the VMs as they are. *)
LEMMA FwStill ==
    ASSUME FwInv, NEW s \in Sessions, NEW x \in Job, x.pc # "idle" => x.vm \in VMs,
           proc' = [proc EXCEPT ![s] = x],
           guest' = guest,
           NEW v \in VMs, x.pc \in Owning => x.vm = v,
           x.pc \in Owning <=> proc[s].pc \in Owning,
           x.pc \in Starting <=> proc[s].pc \in Starting,
           proc[s].pc \in Owning => proc[s].vm = v,
           table' \in {"present", "absent"}, handle' \in Nat,
           chain' \subseteq [handle : Nat, vm : VMs \cup {Base}],
           table' = "absent" => chain' = {},
           table' = "present" => handle' >= 7 /\ [handle : {6, 7}, vm : {Base}] \subseteq chain',
           \A r \in chain' : r.vm # Base => r.handle >= 8,
           \A h \in x.handles : h >= 8,
           RulesInv'
    PROVE  FwInv'
<1>. PICK g : g = guest[v]
  OBVIOUS
<1>1. g \in {"off", "starting", "up", "stopping"} /\ guest' = [guest EXCEPT ![v] = g]
  BY DEF FwInv, FwTypes
<1>2. (x.pc \in Starting => g = "starting") /\ (x.pc \in Stopping => g = "stopping")
  BY DEF FwInv, OwnInv, Owning, Starting, Stopping
<1>. QED  BY <1>1, <1>2, FwMoves

(* The same two where the table is not touched. *)
LEMMA FwQuietMoves ==
    ASSUME FwInv, UNCHANGED <<table, chain, handle>>,
           NEW s \in Sessions, NEW x \in Job, NEW v \in VMs, x.pc # "idle" => x.vm = v,
           proc' = [proc EXCEPT ![s] = x],
           proc[s].vm = v,
           NEW g \in {"off", "starting", "up", "stopping"},
           guest' = [guest EXCEPT ![v] = g],
           x.pc \in Starting => g = "starting",
           x.pc \in Stopping => g = "stopping",
           proc[s].pc \notin Owning => guest[v] \in {"off", "up"},
           \A h \in x.handles : h >= 8,
           RulesInv'
    PROVE  FwInv'
<1>1. /\ table' \in {"present", "absent"} /\ handle' \in Nat
      /\ chain' \subseteq [handle : Nat, vm : VMs \cup {Base}]
  BY DEF FwInv, FwTypes
<1>2. /\ table' = "absent" => chain' = {}
      /\ table' = "present" => handle' >= 7 /\ [handle : {6, 7}, vm : {Base}] \subseteq chain'
      /\ \A r \in chain' : r.vm # Base => r.handle >= 8
  BY DEF FwInv, HandlesInv
<1>3. x.pc \in Owning => x.vm = v
  BY DEF Owning, Starting, Stopping
<1>. QED  BY <1>1, <1>2, <1>3, FwMoves

LEMMA FwQuietStill ==
    ASSUME FwInv, UNCHANGED <<table, chain, handle>>,
           NEW s \in Sessions, NEW x \in Job, NEW v \in VMs, x.pc # "idle" => x.vm = v,
           proc' = [proc EXCEPT ![s] = x],
           guest' = guest,
           proc[s].vm = v,
           x.pc \in Owning <=> proc[s].pc \in Owning,
           x.pc \in Starting <=> proc[s].pc \in Starting,
           \A h \in x.handles : h >= 8,
           RulesInv'
    PROVE  FwInv'
<1>1. /\ table' \in {"present", "absent"} /\ handle' \in Nat
      /\ chain' \subseteq [handle : Nat, vm : VMs \cup {Base}]
  BY DEF FwInv, FwTypes
<1>2. /\ table' = "absent" => chain' = {}
      /\ table' = "present" => handle' >= 7 /\ [handle : {6, 7}, vm : {Base}] \subseteq chain'
      /\ \A r \in chain' : r.vm # Base => r.handle >= 8
  BY DEF FwInv, HandlesInv
<1>3. x.pc \in Owning => x.vm = v
  BY DEF Owning, Starting, Stopping
<1>. QED  BY <1>1, <1>2, <1>3, FwStill

LEMMA FwNextInv == FwInv /\ [Next]_vars => FwInv'
<1>. SUFFICES ASSUME FwInv, [Next]_vars PROVE FwInv'
  OBVIOUS
<1>0. FwTypes /\ HandlesInv /\ OwnInv /\ RulesInv
  BY DEF FwInv
<1>f. /\ \A l \in {"idle", "flush", "load", "tap"} :
            l \notin Owning /\ l \notin Starting /\ l \notin Stopping
      /\ \A l \in {"add", "addreturn", "boot", "undo"} :
            l \in Owning /\ l \in Starting /\ l \notin Stopping
      /\ \A l \in {"list", "delete", "release"} :
            l \in Owning /\ l \notin Starting /\ l \in Stopping
  BY DEF Owning, Starting, Stopping
<1>a. /\ table \in {"present", "absent"} /\ handle \in Nat
      /\ chain \subseteq [handle : Nat, vm : VMs \cup {Base}]
      /\ guest \in [VMs -> {"off", "starting", "up", "stopping"}]
      /\ table = "absent" => chain = {}
      /\ table = "present" => handle >= 7 /\ [handle : {6, 7}, vm : {Base}] \subseteq chain
      /\ \A r \in chain : r.vm # Base => r.handle >= 8
      /\ \A v \in VMs : guest[v] \in {"off", "starting", "up", "stopping"}
  BY <1>0 DEF FwTypes, HandlesInv
<1>b. ASSUME NEW s \in Sessions
      PROVE  /\ proc[s] \in Job /\ (proc[s].pc # "idle" => proc[s].vm \in VMs)
             /\ \A h \in proc[s].handles : h >= 8
             /\ proc[s].pc \in Starting => guest[proc[s].vm] = "starting"
             /\ proc[s].pc \in Stopping => guest[proc[s].vm] = "stopping"
  BY <1>0 DEF FwTypes, HandlesInv, OwnInv
<1>c. NoJob \in Job /\ NoJob.pc = "idle" /\ NoJob.handles = {} /\ NoJob.vm = Base
  BY DEF NoJob, Job, Starting, Stopping
<1>d. \A v \in VMs : v # Base /\ guest = [guest EXCEPT ![v] = guest[v]]
  BY <1>a, FwVMsAssumption DEF Base
<1>e. ASSUME NEW s \in Sessions, NEW x, proc' = [proc EXCEPT ![s] = x]
      PROVE  \A t \in Sessions : proc'[t] = IF t = s THEN x ELSE proc[t]
  BY <1>0, <1>e DEF FwTypes
<1>1. CASE UNCHANGED vars
  BY <1>1 DEF vars, FwInv, FwTypes, HandlesInv, OwnInv, RulesInv
<1>2. ASSUME NEW s \in Sessions, NEW v \in VMs, BeginStart(s, v) PROVE FwInv'
  <2>x. PICK x : x = [NoJob EXCEPT !.pc = "flush", !.vm = v]
    OBVIOUS
  <2>1. x \in Job /\ x.pc = "flush" /\ x.vm = v /\ x.handles = {}
    BY <2>x DEF NoJob, Job, Starting, Stopping
  <2>2. proc' = [proc EXCEPT ![s] = x] /\ UNCHANGED <<table, chain, handle, guest, marred>>
        /\ proc[s].pc = "idle"
    BY <2>x, <1>2 DEF BeginStart, At
  <2>3. RulesInv'
    BY <1>0, <1>e, <2>1, <2>2 DEF RulesInv
  <2>. QED  BY <1>a, <1>f, <2>1, <2>2, <2>3, FwStill
<1>3. ASSUME NEW s \in Sessions, NEW v \in VMs, BeginStop(s, v) PROVE FwInv'
  <2>x. PICK x : x = [NoJob EXCEPT !.pc = "list", !.vm = v]
    OBVIOUS
  <2>1. x \in Job /\ x.pc = "list" /\ x.vm = v /\ x.handles = {}
    BY <2>x DEF NoJob, Job, Starting, Stopping
  <2>2. /\ proc' = [proc EXCEPT ![s] = x] /\ UNCHANGED <<table, chain, handle, marred>>
        /\ guest' = [guest EXCEPT ![v] = "stopping"] /\ guest[v] = "up"
        /\ proc[s].pc = "idle"
    BY <2>x, <1>3 DEF BeginStop, At
  <2>3. RulesInv'
    BY <1>0, <1>a, <1>e, <2>1, <2>2 DEF RulesInv
  <2>. QED  BY <1>a, <1>f, <2>1, <2>2, <2>3, FwMoves
<1>4. ASSUME NEW s \in Sessions, DeleteTable(s) PROVE FwInv'
  <2>. PICK y : y = proc[s]
    OBVIOUS
  <2>x. PICK x : x = [y EXCEPT !.pc = "load"]
    OBVIOUS
  <2>0. y \in Job /\ y.vm \in VMs /\ y.pc = "flush" /\ \A h \in y.handles : h >= 8
    BY <1>4, <1>b DEF DeleteTable, At
  <2>1. x \in Job /\ x.pc = "load" /\ x.vm = y.vm /\ x.handles = y.handles
    BY <2>x, <2>0 DEF Job, Starting, Stopping
  <2>2. /\ proc' = [proc EXCEPT ![s] = x] /\ table' = "absent" /\ chain' = {} /\ handle' = 0
        /\ guest' = guest
    BY <2>x, <1>4 DEF DeleteTable, Goto
  <2>3. RulesInv'
    BY <2>2 DEF RulesInv
  <2>. QED  BY <1>a, <1>f, <2>0, <2>1, <2>2, <2>3, FwStill
<1>5. ASSUME NEW s \in Sessions, LoadRuleset(s) PROVE FwInv'
  <2>. PICK y : y = proc[s]
    OBVIOUS
  <2>x. PICK x : x = [y EXCEPT !.pc = "tap"]
    OBVIOUS
  <2>0. y \in Job /\ y.vm \in VMs /\ y.pc = "load" /\ (\A h \in y.handles : h >= 8) /\ guest' = guest
    BY <1>5, <1>b DEF LoadRuleset, At
  <2>1. x \in Job /\ x.pc = "tap" /\ x.vm = y.vm /\ x.handles = y.handles
    BY <2>x, <2>0 DEF Job, Starting, Stopping
  <2>2. CASE Done(s) /\ UNCHANGED <<table, chain, handle>> /\ marred' = marred \cup {y.vm}
    <3>1. RulesInv'
      BY <1>0, <1>c, <1>d, <1>e, <2>0, <2>2 DEF RulesInv, Done
    <3>. QED  BY <1>a, <1>f, <1>c, <2>0, <2>2, <3>1, FwStill DEF Done
  <2>3. CASE /\ table' = "present" /\ chain' = chain \cup [handle : BaseHandles, vm : {Base}]
             /\ handle' = IF table = "absent" THEN 7 ELSE handle + 4
             /\ Goto(s, "tap") /\ marred' = marred
    <3>1. proc' = [proc EXCEPT ![s] = x]
      BY <2>x, <2>3 DEF Goto
    <3>2. BaseHandles \subseteq Nat /\ (table = "absent" => BaseHandles = {6, 7})
      BY <1>a DEF BaseHandles
    <3>3. /\ [handle : BaseHandles, vm : {Base}] \subseteq [handle : Nat, vm : VMs \cup {Base}]
          /\ \A r \in [handle : BaseHandles, vm : {Base}] : r.vm = Base
      BY <3>2
    <3>4. /\ handle' \in Nat /\ handle' >= 7
          /\ [handle : {6, 7}, vm : {Base}] \subseteq chain'
      BY <1>a, <2>3, <3>2
    <3>5. RulesInv'
      <4>. SUFFICES ASSUME NEW r \in chain', r.vm \in VMs \ marred
                    PROVE  /\ guest[r.vm] # "off"
                           /\ \A t \in Sessions : proc'[t].vm = r.vm =>
                                 /\ proc'[t].pc = "delete" => r.handle \in proc'[t].handles
                                 /\ proc'[t].pc \notin {"release", "undo"}
        BY <2>0, <2>3 DEF RulesInv
      <4>1. r \in chain
        BY <1>d, <2>3, <3>3
      <4>. QED  BY <1>0, <1>e, <2>0, <2>1, <3>1, <4>1 DEF RulesInv
    <3>6. /\ chain' \subseteq [handle : Nat, vm : VMs \cup {Base}]
          /\ \A r \in chain' : r.vm # Base => r.handle >= 8
      BY <1>a, <2>3, <3>3
    <3>7. x.pc \notin Owning /\ x.pc \notin Starting /\ y.pc \notin Owning /\ y.pc \notin Starting
      BY <1>f, <2>0, <2>1
    <3>8. table' = "present"
      BY <2>3
    <3>. QED  BY <2>0, <2>1, <3>1, <3>4, <3>5, <3>6, <3>7, <3>8, FwStill
  <2>. QED  BY <1>5, <2>2, <2>3 DEF LoadRuleset, Fails
<1>6. ASSUME NEW s \in Sessions, TakeTap(s) PROVE FwInv'
  <2>. PICK y : y = proc[s]
    OBVIOUS
  <2>x. PICK x : x = [y EXCEPT !.pc = "add"]
    OBVIOUS
  <2>0. /\ y \in Job /\ y.vm \in VMs /\ y.pc = "tap" /\ (\A h \in y.handles : h >= 8)
        /\ UNCHANGED <<table, chain, handle, marred>>
    BY <1>6, <1>b DEF TakeTap, At
  <2>1. x \in Job /\ x.pc = "add" /\ x.vm = y.vm /\ x.handles = y.handles
    BY <2>x, <2>0 DEF Job, Starting, Stopping
  <2>2. CASE guest' = guest /\ Done(s)
    <3>1. RulesInv'
      BY <1>0, <1>c, <1>d, <1>e, <2>0, <2>2 DEF RulesInv, Done
    <3>2. NoJob.pc \notin Owning /\ NoJob.pc \notin Starting /\ y.pc \notin Owning /\ y.pc \notin Starting
      BY <1>f, <1>c, <2>0
    <3>3. proc' = [proc EXCEPT ![s] = NoJob] /\ guest' = guest
      BY <2>2 DEF Done
    <3>. QED  BY <1>c, <2>0, <3>1, <3>2, <3>3, FwQuietStill
  <2>3. CASE guest[y.vm] = "off" /\ guest' = [guest EXCEPT ![y.vm] = "starting"] /\ Goto(s, "add")
    <3>1. proc' = [proc EXCEPT ![s] = x]
      BY <2>x, <2>3 DEF Goto
    <3>2. RulesInv'
      BY <1>0, <1>a, <1>e, <2>0, <2>1, <2>3, <3>1 DEF RulesInv
    <3>3. x.pc \in Starting /\ x.pc \notin Stopping /\ guest[y.vm] \in {"off", "up"}
      BY <1>f, <2>1, <2>3
    <3>4. guest' = [guest EXCEPT ![y.vm] = "starting"]
      BY <2>3
    <3>. QED  BY <2>0, <2>1, <3>1, <3>2, <3>3, <3>4, FwQuietMoves
  <2>. QED  BY <1>6, <2>2, <2>3 DEF TakeTap
<1>7. ASSUME NEW s \in Sessions, NEW l \in {"addreturn", "boot"},
             proc[s].pc \in {"add", "addreturn"}, AddRule(s, l)
      PROVE  FwInv'
  <2>. PICK y : y = proc[s]
    OBVIOUS
  <2>x. PICK x : x = [y EXCEPT !.pc = l]
    OBVIOUS
  <2>z. PICK z : z = [y EXCEPT !.pc = "undo"]
    OBVIOUS
  <2>0. /\ y \in Job /\ y.vm \in VMs /\ y.pc \in {"add", "addreturn"}
        /\ guest[y.vm] = "starting"
        /\ (\A h \in y.handles : h >= 8) /\ UNCHANGED <<table, guest>>
    BY <1>7, <1>b, <1>f DEF AddRule
  <2>1. /\ x \in Job /\ x.pc = l /\ x.vm = y.vm /\ x.handles = y.handles
        /\ z \in Job /\ z.pc = "undo" /\ z.vm = y.vm /\ z.handles = y.handles
    BY <2>z, <2>x, <2>0 DEF Job, Starting, Stopping
  <2>2. CASE /\ table = "present" /\ handle' = handle + 1 /\ Goto(s, l) /\ marred' = marred
             /\ chain' = chain \cup {[handle |-> handle + 1, vm |-> y.vm]}
    <3>q. PICK q : q = [handle |-> handle + 1, vm |-> y.vm]
      OBVIOUS
    <3>1. proc' = [proc EXCEPT ![s] = x]
      BY <2>x, <2>2 DEF Goto
    <3>2. /\ q \in [handle : Nat, vm : VMs \cup {Base}] /\ q.vm = y.vm /\ q.handle >= 8
          /\ handle' \in Nat /\ handle' >= 7
      BY <1>a, <2>0, <2>2, <3>q
    <3>3. chain' = chain \cup {q}
      BY <2>2, <3>q
    <3>4. ASSUME NEW t \in Sessions, proc'[t].vm = y.vm
          PROVE  proc'[t].pc \notin {"delete", "release", "undo"}
      <4>1. CASE t = s
        BY <1>7, <1>e, <2>1, <3>1, <4>1
      <4>2. CASE t # s
        BY <1>0, <1>e, <2>0, <3>1, <3>4, <4>2 DEF OwnInv, Starting, Stopping
      <4>. QED  BY <4>1, <4>2
    <3>5. RulesInv'
      <4>. SUFFICES ASSUME NEW r \in chain', r.vm \in VMs \ marred
                    PROVE  /\ guest[r.vm] # "off"
                           /\ \A t \in Sessions : proc'[t].vm = r.vm =>
                                 /\ proc'[t].pc = "delete" => r.handle \in proc'[t].handles
                                 /\ proc'[t].pc \notin {"release", "undo"}
        BY <2>0, <2>2 DEF RulesInv
      <4>1. CASE r = q
        BY <2>0, <3>2, <3>4, <4>1
      <4>2. CASE r \in chain
        BY <1>0, <1>e, <2>0, <2>1, <3>1, <4>2 DEF RulesInv
      <4>. QED  BY <3>3, <4>1, <4>2
    <3>6. /\ chain' \subseteq [handle : Nat, vm : VMs \cup {Base}]
          /\ [handle : {6, 7}, vm : {Base}] \subseteq chain'
          /\ \A r \in chain' : r.vm # Base => r.handle >= 8
      BY <1>a, <2>2, <3>2, <3>3
    <3>7. /\ x.pc \in Owning /\ x.pc \in Starting /\ y.pc \in Owning /\ y.pc \in Starting
          /\ x.pc # "idle" /\ table' = "present"
      BY <1>7, <1>f, <2>0, <2>1, <2>2
    <3>. QED  BY <2>0, <2>1, <3>1, <3>2, <3>5, <3>6, <3>7, FwStill
  <2>3. CASE /\ UNCHANGED <<chain, handle>> /\ Goto(s, "undo")
             /\ \/ table = "absent" /\ marred' = marred
                \/ marred' = marred \cup {y.vm}
    <3>1. proc' = [proc EXCEPT ![s] = z]
      BY <2>z, <2>3 DEF Goto
    <3>2. RulesInv'
      BY <1>0, <1>a, <1>e, <2>0, <2>1, <2>3, <3>1 DEF RulesInv
    <3>3. z.pc \in Owning /\ z.pc \in Starting /\ y.pc \in Owning /\ y.pc \in Starting
      BY <1>f, <2>0, <2>1
    <3>4. UNCHANGED <<table, chain, handle>> /\ guest' = guest
      BY <2>0, <2>3
    <3>5. z \in Job /\ y.vm \in VMs /\ z.vm = y.vm /\ \A h \in z.handles : h >= 8
      BY <2>0, <2>1
    <3>. QED  BY <3>1, <3>2, <3>3, <3>4, <3>5, FwQuietStill
  <2>. QED  BY <1>7, <2>2, <2>3 DEF AddRule, Fails
<1>8. ASSUME NEW s \in Sessions, StartVM(s) PROVE FwInv'
  <2>. PICK y : y = proc[s]
    OBVIOUS
  <2>x. PICK x : x = [y EXCEPT !.pc = "undo"]
    OBVIOUS
  <2>0. /\ y \in Job /\ y.vm \in VMs /\ y.pc = "boot" /\ (\A h \in y.handles : h >= 8)
        /\ UNCHANGED <<table, chain, handle>>
    BY <1>8, <1>b DEF StartVM, At
  <2>1. x \in Job /\ x.pc = "undo" /\ x.vm = y.vm /\ x.handles = y.handles
    BY <2>x, <2>0 DEF Job, Starting, Stopping
  <2>2. CASE guest' = [guest EXCEPT ![y.vm] = "up"] /\ Done(s) /\ marred' = marred
    <3>1. RulesInv'
      BY <1>0, <1>a, <1>c, <1>d, <1>e, <2>0, <2>2 DEF RulesInv, Done
    <3>2. NoJob.pc \notin Starting /\ NoJob.pc \notin Stopping /\ y.pc \in Owning
      BY <1>f, <1>c, <2>0
    <3>3. proc' = [proc EXCEPT ![s] = NoJob] /\ guest' = [guest EXCEPT ![y.vm] = "up"]
      BY <2>2 DEF Done
    <3>. QED  BY <1>c, <2>0, <3>1, <3>2, <3>3, FwQuietMoves
  <2>3. CASE marred' = marred \cup {y.vm} /\ guest' = guest /\ Goto(s, "undo")
    <3>1. proc' = [proc EXCEPT ![s] = x]
      BY <2>x, <2>3 DEF Goto
    <3>2. RulesInv'
      BY <1>0, <1>a, <1>e, <2>0, <2>1, <2>3, <3>1 DEF RulesInv
    <3>3. x.pc \in Owning /\ x.pc \in Starting /\ y.pc \in Owning /\ y.pc \in Starting
      BY <1>f, <2>0, <2>1
    <3>4. guest' = guest
      BY <2>3
    <3>. QED  BY <2>0, <2>1, <3>1, <3>2, <3>3, <3>4, FwQuietStill
  <2>. QED  BY <1>8, <2>2, <2>3 DEF StartVM, Fails
<1>9. ASSUME NEW s \in Sessions, proc[s].pc \in {"undo", "release"},
             guest' = [guest EXCEPT ![proc[s].vm] = "off"], Done(s),
             UNCHANGED <<table, chain, handle, marred>>
      PROVE  FwInv'
  <2>. PICK y : y = proc[s]
    OBVIOUS
  <2>0. y \in Job /\ y.vm \in VMs /\ y.pc \in {"undo", "release"} /\ (\A h \in y.handles : h >= 8)
    BY <1>9, <1>b
  <2>1. \A r \in chain : r.vm \in VMs \ marred => r.vm # y.vm
    BY <1>0, <2>0 DEF RulesInv
  <2>2. RulesInv'
    BY <1>0, <1>a, <1>c, <1>d, <1>e, <1>9, <2>0, <2>1 DEF RulesInv, Done
  <2>3. NoJob.pc \notin Starting /\ NoJob.pc \notin Stopping /\ y.pc \in Owning
    BY <1>f, <1>c, <2>0
  <2>4. proc' = [proc EXCEPT ![s] = NoJob] /\ guest' = [guest EXCEPT ![y.vm] = "off"]
    BY <1>9 DEF Done
  <2>5. UNCHANGED <<table, chain, handle>>
    BY <1>9
  <2>. QED  BY <1>c, <2>0, <2>2, <2>3, <2>4, <2>5, FwQuietMoves
<1>10. ASSUME NEW s \in Sessions, ListRules(s) PROVE FwInv'
  <2>. PICK y : y = proc[s]
    OBVIOUS
  <2>H. PICK H : H = {r.handle : r \in {q \in chain : MatchesComment(y.vm, q.vm)}}
    OBVIOUS
  <2>x. PICK x : x = [y EXCEPT !.pc = "delete", !.handles = H]
    OBVIOUS
  <2>z. PICK z : z = [y EXCEPT !.pc = "release"]
    OBVIOUS
  <2>0. /\ y \in Job /\ y.vm \in VMs /\ y.pc = "list" /\ (\A h \in y.handles : h >= 8)
        /\ UNCHANGED <<table, chain, handle, guest>>
    BY <1>10, <1>b DEF ListRules, At
  <2>1. H \subseteq Nat /\ \A r \in chain : r.vm = y.vm => r.handle \in H
    BY <1>a, <2>H DEF MatchesComment
  <2>2. \A h \in H : h >= 8
    <3>1. ASSUME NEW r \in chain, MatchesComment(y.vm, r.vm) PROVE r.vm # Base
      <4>1. y.vm \in Nat /\ y.vm # 0
        BY <2>0, FwVMsAssumption
      <4>2. 0 \div 10 = 0
        OBVIOUS
      <4>. QED  BY <3>1, <4>1, <4>2 DEF MatchesComment, Base
    <3>. QED  BY <1>a, <2>H, <3>1
  <2>3. /\ x \in Job /\ x.pc = "delete" /\ x.vm = y.vm /\ x.handles = H
        /\ z \in Job /\ z.pc = "release" /\ z.vm = y.vm /\ z.handles = y.handles
    BY <2>z, <2>x, <2>0, <2>1 DEF Job, Starting, Stopping
  <2>4. CASE marred' = marred /\ proc' = [proc EXCEPT ![s] = x]
    <3>1. \A t \in Sessions : proc'[t] = IF t = s THEN x ELSE proc[t]
      BY <1>e, <2>4
    <3>2. RulesInv'
      BY <1>0, <2>0, <2>1, <2>3, <2>4, <3>1 DEF RulesInv
    <3>3. x.pc \in Owning /\ x.pc \notin Starting /\ y.pc \in Owning /\ y.pc \notin Starting
      BY <1>f, <2>0, <2>3
    <3>4. proc' = [proc EXCEPT ![s] = x]
      BY <2>4
    <3>. QED  BY <2>0, <2>2, <2>3, <3>2, <3>3, <3>4, FwQuietStill
  <2>5. CASE /\ proc' = [proc EXCEPT ![s] = z]
             /\ \/ table = "absent" /\ marred' = marred
                \/ marred' = marred \cup {y.vm}
    <3>1. RulesInv'
      BY <1>0, <1>a, <1>e, <2>0, <2>3, <2>5 DEF RulesInv
    <3>2. z.pc \in Owning /\ z.pc \notin Starting /\ y.pc \in Owning /\ y.pc \notin Starting
      BY <1>f, <2>0, <2>3
    <3>3. proc' = [proc EXCEPT ![s] = z]
      BY <2>5
    <3>. QED  BY <2>0, <2>3, <3>1, <3>2, <3>3, FwQuietStill
  <2>. QED  BY <1>10, <2>H, <2>x, <2>z, <2>4, <2>5 DEF ListRules, Fails, Goto
<1>11. ASSUME NEW s \in Sessions, DeleteRule(s) PROVE FwInv'
  <2>. PICK y : y = proc[s]
    OBVIOUS
  <2>z. PICK z : z = [y EXCEPT !.pc = "release"]
    OBVIOUS
  <2>0. /\ y \in Job /\ y.vm \in VMs /\ y.pc = "delete" /\ (\A h \in y.handles : h >= 8)
        /\ UNCHANGED <<table, handle, guest>>
    BY <1>11, <1>b DEF DeleteRule, At
  <2>1. \A r \in chain : r.vm = y.vm /\ y.vm \notin marred => r.handle \in y.handles
    BY <1>0, <2>0 DEF RulesInv
  <2>2. CASE y.handles = {}
    <3>1. UNCHANGED <<chain, marred>> /\ proc' = [proc EXCEPT ![s] = z]
      BY <2>z, <1>11, <2>2 DEF DeleteRule, Goto
    <3>2. z \in Job /\ z.pc = "release" /\ z.vm = y.vm /\ z.handles = {}
      BY <2>z, <2>0, <2>2 DEF Job, Starting, Stopping
    <3>3. RulesInv'
      BY <1>0, <1>e, <2>0, <2>1, <2>2, <3>1, <3>2 DEF RulesInv
    <3>4. z.pc \in Owning /\ z.pc \notin Starting /\ y.pc \in Owning /\ y.pc \notin Starting
      BY <1>f, <2>0, <3>2
    <3>. QED  BY <2>0, <3>1, <3>2, <3>3, <3>4, FwQuietStill
  <2>3. CASE y.handles # {}
    <3>1. PICK h \in y.handles :
            /\ \/ chain' = {r \in chain : r.handle # h} /\ marred' = marred
               \/ marred' = marred \cup {y.vm} /\ chain' = chain
            /\ proc' = [proc EXCEPT ![s].handles = @ \ {h}]
      BY <1>11, <2>3 DEF DeleteRule, Fails
    <3>x. PICK x : x = [y EXCEPT !.handles = @ \ {h}]
      OBVIOUS
    <3>2. proc' = [proc EXCEPT ![s] = x]
      BY <3>x, <3>1
    <3>3. x \in Job /\ x.pc = "delete" /\ x.vm = y.vm /\ x.handles = y.handles \ {h}
      BY <3>x, <2>0 DEF Job, Starting, Stopping
    <3>4. RulesInv'
      BY <1>0, <1>e, <2>0, <2>1, <3>1, <3>2, <3>3 DEF RulesInv
    <3>5. h >= 8 /\ h \in Nat
      BY <2>0 DEF Job, Starting, Stopping
    <3>6. \A b \in [handle : {6, 7}, vm : {Base}] : b.handle # h
      BY <3>5
    <3>7. /\ chain' \subseteq chain
          /\ table = "present" => [handle : {6, 7}, vm : {Base}] \subseteq chain'
      BY <1>a, <3>1, <3>6
    <3>. QED  BY <1>a, <1>f, <2>0, <3>2, <3>3, <3>4, <3>7, FwStill
  <2>. QED  BY <2>2, <2>3
<1>12. ASSUME NEW s \in Sessions, UndoNetwork(s) \/ Release(s) PROVE FwInv'
  BY <1>9, <1>12 DEF UndoNetwork, Release, At
<1>13. ASSUME NEW s \in Sessions, AddForwardRule(s) \/ AddReturnRule(s) PROVE FwInv'
  BY <1>7, <1>13 DEF AddForwardRule, AddReturnRule, At
<1>. QED  BY <1>1, <1>2, <1>3, <1>4, <1>5, <1>6, <1>8, <1>10, <1>11, <1>12, <1>13 DEF Next

(* A VM that is off has no rule left in the forward chain unless a command *)
(* or a boot failed for it since the table was last reloaded; for any      *)
(* number of VMs and of sessions that start and stop them, whatever the    *)
(* faults.                                                                 *)
THEOREM RulesLeaveWithTheirVM == Spec => []NoStrayRules
<1>1. FwInv => NoStrayRules
  BY DEF FwInv, RulesInv, NoStrayRules, RulesOf
<1>. QED  BY <1>1, FwInitInv, FwNextInv, PTL DEF Spec

(* A table that is there has its base rules: no handle that RemoveVMRules  *)
(* deletes, from this table or from one deleted since, names one of them.  *)
THEOREM BaseRulesStay == Spec => []BaseRulesInPlace
<1>1. FwInv => BaseRulesInPlace
  BY DEF FwInv, HandlesInv, BaseRulesInPlace
<1>. QED  BY <1>1, FwInitInv, FwNextInv, PTL DEF Spec

-----------------------------------------------------------------------------
(* Image cache.  Between taking the lock and giving it back one call works *)
(* at a time, so nobody touches the tar it is about to load or the file it *)
(* is about to rename; and an image in hand is one its reference has named.*)

Locked == {"stat", "save", "load", "pull", "lookup", "extract", "create", "mkfs", "rename"}
HasImage == {"lookup", "extract", "create", "mkfs", "rename", "copy"}
Build == [pc : Locked \cup {"idle", "copy", "done", "failed"}, ref : Refs \cup {"absent"},
          try : 1..Candidates, img : Digests \cup {"absent"}]

ImageTypes ==
    /\ docker \in [Refs -> Digests \cup {"absent"}]
    /\ registry \in [Refs -> Digests \cup {"absent"}]
    /\ tars \in [Refs -> [1..Candidates -> Digests \cup {"absent", "partial"}]]
    /\ tmps \in [Digests -> Digests \cup {"absent", "partial"}]
    /\ ext4s \in [Digests -> Digests \cup {"absent"}]
    /\ locked \in BOOLEAN
    /\ build \in [Builders -> Build]
    /\ disks \in [Builders -> Digests \cup {"absent", "partial"}]
    /\ named \in [Refs -> SUBSET (Digests \cup {"absent"})]

(* What a reference has named: also what its tars hold. *)
FilesOK ==
    /\ \A r \in Refs : docker[r] \in named[r] /\ registry[r] \in named[r]
    /\ \A r \in Refs, i \in 1..Candidates : tars[r][i] \in named[r] \cup {"absent", "partial"}
    /\ \A d \in Digests : ext4s[d] \in {"absent", d}

(* The record y of a call agrees with the files. *)
BuildOK(b, y) ==
    /\ y.pc \notin {"idle", "failed"} => y.ref \in Refs
    /\ y.pc \in HasImage => y.img \in named[y.ref] \cap Digests
    /\ y.pc = "load" => tars[y.ref][y.try] # "absent"
    /\ y.pc = "rename" => tmps[y.img] = y.img
    /\ y.pc = "copy" => ext4s[y.img] = y.img
    /\ y.pc = "done" => disks[b] \in named[y.ref] \cap Digests

LockOK ==
    /\ \A b \in Builders : build[b].pc \in Locked => locked
    /\ \A b, c \in Builders : build[b].pc \in Locked /\ build[c].pc \in Locked => b = c

ImageInv == ImageTypes /\ FilesOK /\ LockOK /\ \A b \in Builders : BuildOK(b, build[b])

LEMMA ImageInitInv == ImageInit => ImageInv
<1>. SUFFICES ASSUME ImageInit PROVE ImageInv
  OBVIOUS
<1>1. 1 \in 1..Candidates
  BY ImageAssumption
<1>2. NoBuild \in Build /\ NoBuild.pc = "idle"
  BY <1>1 DEF NoBuild, Build
<1>3. ImageTypes
  BY <1>2 DEF ImageInit, ImageTypes
<1>4. FilesOK
  BY DEF ImageInit, FilesOK
<1>5. \A b \in Builders : build[b] = NoBuild
  BY DEF ImageInit
<1>6. LockOK /\ \A b \in Builders : BuildOK(b, build[b])
  BY <1>2, <1>5 DEF LockOK, BuildOK, Locked, HasImage
<1>. QED  BY <1>3, <1>4, <1>6 DEF ImageInv

(* One call moves to y under the lock or without it, and what the others   *)
(* rely on stays.                                                          *)
LEMMA ImageMoves ==
    ASSUME ImageInv, ImageTypes', FilesOK', named' = named,
           NEW b \in Builders, NEW y, build' = [build EXCEPT ![b] = y], BuildOK(b, y)',
           y.pc \in Locked => locked',
           y.pc \in Locked => build[b].pc \in Locked \/ ~locked,
           locked' = locked \/ build[b].pc \in Locked \/ locked',
           \A c \in Builders \ {b} :
              /\ disks'[c] = disks[c]
              /\ build[c].pc = "copy" =>
                    (ext4s[build[c].img] = build[c].img => ext4s'[build[c].img] = build[c].img)
              /\ build[c].pc \in Locked =>
                    /\ tars'[build[c].ref][build[c].try] = tars[build[c].ref][build[c].try]
                    /\ tmps'[build[c].img] = tmps[build[c].img]
    PROVE  ImageInv'
<1>1. \A c \in Builders : build'[c] = IF c = b THEN y ELSE build[c]
  BY DEF ImageInv, ImageTypes
<1>2. LockOK'
  BY <1>1 DEF ImageInv, LockOK
<1>3. ASSUME NEW c \in Builders, c # b PROVE BuildOK(c, build[c])'
  <2>1. build'[c] = build[c] /\ BuildOK(c, build[c])
    BY <1>1, <1>3 DEF ImageInv
  <2>2. BuildOK(c, build[c])'
    BY <1>3, <2>1 DEF BuildOK, Locked
  <2>. QED  BY <2>2
<1>4. BuildOK(b, build[b])'
  BY <1>1 DEF BuildOK
<1>. QED  BY <1>2, <1>3, <1>4 DEF ImageInv

LEMMA ImageNextInv == ImageInv /\ [ImageNext]_imageVars => ImageInv'
<1>. SUFFICES ASSUME ImageInv, [ImageNext]_imageVars PROVE ImageInv'
  OBVIOUS
<1>0. /\ ImageTypes /\ FilesOK /\ LockOK /\ (\A b \in Builders : BuildOK(b, build[b]))
      /\ 1 \in 1..Candidates /\ Candidates \in Nat /\ "absent" \notin Digests /\ "partial" \notin Digests
  BY ImageAssumption DEF ImageInv
<1>1. CASE UNCHANGED imageVars
  BY <1>1 DEF imageVars, ImageInv, ImageTypes, FilesOK, LockOK, BuildOK
<1>2. ASSUME NEW b \in Builders, NEW y \in Build, build' = [build EXCEPT ![b] = y],
             build[b].pc \in Locked, BuildOK(b, y)',
             y.pc \in Locked => locked' = locked, locked' \in BOOLEAN,
             UNCHANGED <<disks, docker, registry, named>>,
             FilesOK',
             tars' \in [Refs -> [1..Candidates -> Digests \cup {"absent", "partial"}]],
             tmps' \in [Digests -> Digests \cup {"absent", "partial"}],
             ext4s' \in [Digests -> Digests \cup {"absent"}],
             \A d \in Digests : ext4s[d] = d => ext4s'[d] = d
      PROVE  ImageInv'
  <2>1. ImageTypes'
    BY <1>0, <1>2 DEF ImageTypes
  <2>2. locked
    BY <1>0, <1>2 DEF LockOK
  <2>3. \A c \in Builders \ {b} : build[c].pc \notin Locked
    BY <1>0, <1>2 DEF LockOK
  <2>4. \A c \in Builders : build[c].pc = "copy" => build[c].img \in Digests
    BY <1>0 DEF BuildOK, HasImage
  <2>. QED  BY <1>2, <2>1, <2>2, <2>3, <2>4, ImageMoves
<1>3. ASSUME NEW b \in Builders, NEW r \in Refs, Ensure(b, r) PROVE ImageInv'
  <2>y. PICK y : y = [NoBuild EXCEPT !.pc = "stat", !.ref = r]
    OBVIOUS
  <2>1. y \in Build /\ y.pc = "stat" /\ y.ref = r
    BY <1>0, <2>y DEF NoBuild, Build, Locked
  <2>2. /\ build' = [build EXCEPT ![b] = y] /\ locked' = TRUE /\ ~locked
        /\ UNCHANGED <<tars, tmps, ext4s, disks, docker, registry, named>>
    BY <1>3, <2>y DEF Ensure, cacheFiles, outside
  <2>3. ImageTypes' /\ FilesOK'
    BY <1>0, <2>1, <2>2 DEF ImageTypes, FilesOK
  <2>4. BuildOK(b, y)'
    BY <2>1 DEF BuildOK, HasImage
  <2>5. \A c \in Builders : build[c].pc \notin Locked
    BY <1>0, <2>2 DEF LockOK
  <2>. QED  BY <2>1, <2>2, <2>3, <2>4, <2>5, ImageMoves
<1>4. ASSUME NEW b \in Builders, NEW l \in Locked \cup {"copy", "failed"},
             BuildGoto(b, l), UNCHANGED <<tars, tmps, ext4s, disks, docker, registry, named>>,
             build[b].pc \in Locked,
             l \in Locked => locked' = locked, locked' \in BOOLEAN,
             l \in HasImage => build[b].pc \in HasImage,
             l = "load" => tars[build[b].ref][build[b].try] # "absent",
             l = "copy" => ext4s[build[b].img] # "absent",
             l # "rename"
      PROVE  ImageInv'
  <2>x. PICK x : x = build[b]
    OBVIOUS
  <2>y. PICK y : y = [x EXCEPT !.pc = l]
    OBVIOUS
  <2>0. x \in Build /\ BuildOK(b, x)
    BY <1>0, <2>x DEF ImageTypes
  <2>1. y \in Build /\ y.pc = l /\ y.ref = x.ref /\ y.img = x.img /\ y.try = x.try
    BY <1>4, <2>0, <2>y DEF Build
  <2>2. build' = [build EXCEPT ![b] = y]
    BY <1>4, <2>x, <2>y DEF BuildGoto
  <2>3. x.ref \in Refs /\ (l \in HasImage => x.img \in named[x.ref] \cap Digests)
    BY <1>4, <2>0, <2>x DEF BuildOK, Locked
  <2>4. l = "copy" => ext4s[x.img] = x.img
    BY <1>0, <1>4, <2>3, <2>x DEF FilesOK, HasImage
  <2>5. BuildOK(b, y)'
    <3>1. l # "done" /\ l # "rename" /\ l # "idle"
      BY <1>4 DEF Locked
    <3>2. y.pc = "load" => tars[y.ref][y.try] # "absent"
      BY <1>4, <2>1, <2>x
    <3>. QED  BY <1>4, <2>1, <2>3, <2>4, <3>1, <3>2 DEF BuildOK
  <2>6. FilesOK'
    BY <1>0, <1>4 DEF FilesOK
  <2>. QED  BY <1>0, <1>2, <1>4, <2>1, <2>2, <2>5, <2>6, <2>x DEF ImageTypes
<1>5. ASSUME NEW b \in Builders, GiveUp(b), build[b].pc \in Locked,
             UNCHANGED <<tars, tmps, ext4s, disks, docker, registry, named>>
      PROVE  ImageInv'
  BY <1>4, <1>5 DEF GiveUp, Locked, HasImage
<1>6. ASSUME NEW b \in Builders, ExtractRootfs(b) \/ LookUp(b) PROVE ImageInv'
  <2>1. /\ build[b].pc \in Locked /\ build[b].pc \in HasImage
        /\ UNCHANGED <<tars, tmps, ext4s, disks, docker, registry, named>>
    BY <1>6 DEF ExtractRootfs, LookUp, BuildAt, cacheFiles, outside, Locked, HasImage
  <2>2. CASE GiveUp(b)
    BY <1>5, <2>1, <2>2
  <2>3. CASE ~GiveUp(b)
    <3>1. \/ locked' = locked /\ \E l \in {"create", "extract"} : BuildGoto(b, l)
          \/ locked' = FALSE /\ BuildGoto(b, "copy") /\ ext4s[build[b].img] # "absent"
      BY <1>6, <2>3 DEF ExtractRootfs, LookUp
    <3>2. locked \in BOOLEAN
      BY <1>0 DEF ImageTypes
    <3>. QED  BY <1>4, <2>1, <3>1, <3>2 DEF Locked, HasImage
  <2>. QED  BY <2>2, <2>3
<1>7. ASSUME NEW b \in Builders, NextCandidate(b), build[b].pc \in {"save", "load"},
             UNCHANGED <<tmps, ext4s, locked, disks, docker, registry, named>>, FilesOK',
             tars' \in [Refs -> [1..Candidates -> Digests \cup {"absent", "partial"}]]
      PROVE  ImageInv'
  <2>x. PICK x : x = build[b]
    OBVIOUS
  <2>0. x \in Build /\ BuildOK(b, x) /\ x.ref \in Refs /\ x.try \in 1..Candidates /\ x.pc \in Locked
    BY <1>0, <1>7, <2>x DEF ImageTypes, BuildOK, Build, Locked
  <2>1. PICK l \in {"stat", "pull"}, i \in 1..Candidates :
          build' = [build EXCEPT ![b] = [x EXCEPT !.pc = l, !.try = i]]
    <3>1. CASE x.try < Candidates
      <4>1. x.try + 1 \in 1..Candidates
        BY <1>0, <2>0, <3>1
      <4>2. build' = [build EXCEPT ![b] = [x EXCEPT !.pc = "stat", !.try = x.try + 1]]
        BY <1>7, <2>x, <3>1 DEF NextCandidate
      <4>. QED  BY <4>1, <4>2
    <3>2. CASE ~(x.try < Candidates)
      <4>1. build' = [build EXCEPT ![b] = [x EXCEPT !.pc = "pull"]]
        BY <1>7, <2>x, <3>2 DEF NextCandidate
      <4>2. [x EXCEPT !.pc = "pull"] = [x EXCEPT !.pc = "pull", !.try = x.try]
        BY <2>0 DEF Build
      <4>. QED  BY <2>0, <4>1, <4>2
    <3>. QED  BY <3>1, <3>2
  <2>y. PICK y : y = [x EXCEPT !.pc = l, !.try = i]
    OBVIOUS
  <2>2. y \in Build /\ y.pc = l /\ y.ref = x.ref
    BY <2>0, <2>y DEF Build, Locked
  <2>3. BuildOK(b, y)'
    BY <2>0, <2>2 DEF BuildOK, HasImage
  <2>. QED  BY <1>0, <1>2, <1>7, <2>0, <2>1, <2>2, <2>3, <2>x, <2>y DEF ImageTypes
<1>8. ASSUME NEW b \in Builders, build[b].pc \in {"stat", "save"},
             NEW f \in named[build[b].ref] \cup {"absent", "partial"}, SetTar(b, f),
             UNCHANGED <<docker, registry, named, ext4s>>
      PROVE  /\ FilesOK' /\ tars' \in [Refs -> [1..Candidates -> Digests \cup {"absent", "partial"}]]
             /\ tars'[build[b].ref][build[b].try] = f
  <2>x. PICK x : x = build[b]
    OBVIOUS
  <2>0. x.ref \in Refs /\ x.try \in 1..Candidates /\ x.pc \in {"stat", "save"}
    BY <1>0, <1>8, <2>x DEF ImageTypes, BuildOK, Build
  <2>1. tars' = [tars EXCEPT ![x.ref] = [tars[x.ref] EXCEPT ![x.try] = f]]
    BY <1>8, <2>x DEF SetTar
  <2>2. f \in Digests \cup {"absent", "partial"}
    BY <1>0, <1>8, <2>0, <2>x DEF ImageTypes
  <2>3. tars' \in [Refs -> [1..Candidates -> Digests \cup {"absent", "partial"}]]
    BY <1>0, <2>0, <2>1, <2>2 DEF ImageTypes
  <2>4. \A r \in Refs, i \in 1..Candidates :
          tars'[r][i] = IF r = x.ref /\ i = x.try THEN f ELSE tars[r][i]
    BY <1>0, <2>0, <2>1 DEF ImageTypes
  <2>5. FilesOK'
    BY <1>0, <1>8, <2>4, <2>x DEF FilesOK
  <2>. QED  BY <2>0, <2>3, <2>4, <2>5, <2>x
<1>9. ASSUME NEW b \in Builders, StatTar(b) PROVE ImageInv'
  <2>0. build[b].pc = "stat" /\ UNCHANGED <<tmps, ext4s, locked, disks, docker, registry, named>>
    BY <1>9 DEF StatTar, BuildAt, outside
  <2>x. PICK x : x = build[b]
    OBVIOUS
  <2>1. x \in Build /\ BuildOK(b, x) /\ x.ref \in Refs /\ x.pc = "stat" /\ x.pc \in Locked
    BY <1>0, <2>0, <2>x DEF ImageTypes, BuildOK, Locked
  <2>2. CASE SetTar(b, "partial") /\ BuildGoto(b, "save")
    <3>y. PICK y : y = [x EXCEPT !.pc = "save"]
      OBVIOUS
    <3>1. y \in Build /\ y.pc = "save" /\ y.ref = x.ref
      BY <2>1, <3>y DEF Build, Locked
    <3>2. build' = [build EXCEPT ![b] = y]
      BY <2>2, <2>x, <3>y DEF BuildGoto
    <3>3. BuildOK(b, y)'
      BY <2>1, <3>1 DEF BuildOK, HasImage
    <3>4. FilesOK' /\ tars' \in [Refs -> [1..Candidates -> Digests \cup {"absent", "partial"}]]
      BY <1>8, <2>0, <2>2
    <3>. QED  BY <1>0, <1>2, <2>0, <2>1, <2>x, <3>1, <3>2, <3>3, <3>4 DEF ImageTypes
  <2>3. CASE BuildGoto(b, "load") /\ tars' = tars /\ TarOf(b) # "absent"
    <3>1. locked \in BOOLEAN
      BY <1>0 DEF ImageTypes
    <3>. QED  BY <1>4, <2>0, <2>3, <3>1 DEF Locked, HasImage, TarOf
  <2>. QED  BY <1>9, <2>2, <2>3 DEF StatTar
<1>10. ASSUME NEW b \in Builders, DockerSave(b) PROVE ImageInv'
  <2>0. build[b].pc = "save" /\ UNCHANGED <<tmps, ext4s, locked, disks, docker, registry, named>>
    BY <1>10 DEF DockerSave, BuildAt, outside
  <2>x. PICK x : x = build[b]
    OBVIOUS
  <2>1. /\ x \in Build /\ BuildOK(b, x) /\ x.ref \in Refs /\ x.pc = "save" /\ x.pc \in Locked
        /\ docker[x.ref] \in named[x.ref]
    BY <1>0, <2>0, <2>x DEF ImageTypes, BuildOK, Locked, FilesOK
  <2>2. CASE docker[x.ref] # "absent" /\ SetTar(b, docker[x.ref]) /\ BuildGoto(b, "load")
    <3>y. PICK y : y = [x EXCEPT !.pc = "load"]
      OBVIOUS
    <3>1. y \in Build /\ y.pc = "load" /\ y.ref = x.ref /\ y.try = x.try
      BY <2>1, <3>y DEF Build, Locked
    <3>2. build' = [build EXCEPT ![b] = y]
      BY <2>2, <2>x, <3>y DEF BuildGoto
    <3>3. /\ FilesOK' /\ tars' \in [Refs -> [1..Candidates -> Digests \cup {"absent", "partial"}]]
          /\ tars'[x.ref][x.try] # "absent"
      BY <1>8, <2>0, <2>1, <2>2, <2>x
    <3>4. BuildOK(b, y)'
      BY <2>1, <3>1, <3>3 DEF BuildOK, HasImage
    <3>. QED  BY <1>0, <1>2, <2>0, <2>1, <2>x, <3>1, <3>2, <3>3, <3>4 DEF ImageTypes
  <2>3. CASE SetTar(b, "absent") /\ NextCandidate(b)
    <3>1. FilesOK' /\ tars' \in [Refs -> [1..Candidates -> Digests \cup {"absent", "partial"}]]
      BY <1>8, <2>0, <2>3
    <3>. QED  BY <1>7, <2>0, <2>3, <3>1
  <2>. QED  BY <1>10, <2>2, <2>3, <2>x DEF DockerSave
<1>11. ASSUME NEW b \in Builders, NEW d, build[b].pc \in Locked, d \in named[build[b].ref] \cap Digests,
              build' = [build EXCEPT ![b].pc = "lookup", ![b].img = d],
              UNCHANGED <<tars, tmps, ext4s, locked, disks, docker, registry, named>>
       PROVE  ImageInv'
  <2>x. PICK x : x = build[b]
    OBVIOUS
  <2>1. x \in Build /\ x.ref \in Refs
    BY <1>0, <1>11, <2>x DEF ImageTypes, BuildOK, Locked
  <2>y. PICK y : y = [x EXCEPT !.pc = "lookup", !.img = d]
    OBVIOUS
  <2>2. y \in Build /\ y.pc = "lookup" /\ y.ref = x.ref /\ y.img = d
    BY <1>11, <2>1, <2>y DEF Build, Locked
  <2>3. BuildOK(b, y)'
    BY <1>11, <2>1, <2>2, <2>x DEF BuildOK, HasImage
  <2>4. FilesOK'
    BY <1>0, <1>11 DEF FilesOK
  <2>5. build' = [build EXCEPT ![b] = y]
    BY <1>11, <2>x, <2>y
  <2>. QED  BY <1>0, <1>2, <1>11, <2>2, <2>3, <2>4, <2>5 DEF ImageTypes
<1>12. ASSUME NEW b \in Builders, LoadTar(b) PROVE ImageInv'
  <2>0. /\ build[b].pc = "load"
        /\ UNCHANGED <<tars, tmps, ext4s, locked, disks, docker, registry, named>>
    BY <1>12 DEF LoadTar, BuildAt, cacheFiles, outside
  <2>1. TarOf(b) \in named[build[b].ref] \cup {"partial"} /\ build[b].ref \in Refs
    BY <1>0, <2>0 DEF BuildOK, FilesOK, ImageTypes, Build, TarOf
  <2>2. CASE TarOf(b) = "partial"
    <3>1. FilesOK' /\ tars' \in [Refs -> [1..Candidates -> Digests \cup {"absent", "partial"}]]
      BY <1>0, <2>0 DEF FilesOK, ImageTypes
    <3>. QED  BY <1>7, <1>12, <2>0, <2>2, <3>1 DEF LoadTar
  <2>3. CASE TarOf(b) # "partial"
    <3>1. TarOf(b) \in named[build[b].ref] \cap Digests
      <4>1. TarOf(b) # "absent"
        BY <1>0, <2>0 DEF BuildOK, TarOf
      <4>. QED  BY <1>0, <2>1, <2>3, <4>1 DEF ImageTypes
    <3>2. build' = [build EXCEPT ![b].pc = "lookup", ![b].img = TarOf(b)]
      BY <1>12, <2>3 DEF LoadTar
    <3>3. build[b].pc \in Locked
      BY <2>0 DEF Locked
    <3>. QED  BY <1>11, <2>0, <3>1, <3>2, <3>3
  <2>. QED  BY <2>2, <2>3
<1>13. ASSUME NEW b \in Builders, Pull(b) PROVE ImageInv'
  <2>0. build[b].pc = "pull" /\ UNCHANGED <<tars, tmps, ext4s, disks, docker, registry, named>>
    BY <1>13 DEF Pull, BuildAt, cacheFiles, outside
  <2>1. build[b].pc \in Locked /\ build[b].ref \in Refs
    BY <1>0, <2>0 DEF Locked, BuildOK
  <2>2. CASE GiveUp(b)
    BY <1>5, <2>0, <2>1, <2>2
  <2>3. CASE /\ registry[build[b].ref] # "absent" /\ locked' = locked
             /\ build' = [build EXCEPT ![b].pc = "lookup", ![b].img = registry[build[b].ref]]
    <3>1. registry[build[b].ref] \in named[build[b].ref] \cap Digests
      BY <1>0, <2>1, <2>3 DEF FilesOK, ImageTypes
    <3>. QED  BY <1>11, <2>0, <2>1, <2>3, <3>1
  <2>. QED  BY <1>13, <2>2, <2>3 DEF Pull
<1>14. ASSUME NEW b \in Builders, CreateExt4(b) \/ Mkfs(b) \/ RenameExt4(b) PROVE ImageInv'
  <2>x. PICK x : x = build[b]
    OBVIOUS
  <2>0. /\ x \in Build /\ BuildOK(b, x) /\ x.pc \in {"create", "mkfs", "rename"} /\ x.pc \in Locked
        /\ x.ref \in Refs /\ x.img \in named[x.ref] \cap Digests
        /\ UNCHANGED <<tars, disks, docker, registry, named>> /\ locked \in BOOLEAN
    <3>1. /\ x.pc \in {"create", "mkfs", "rename"}
          /\ UNCHANGED <<tars, disks, docker, registry, named>>
      BY <1>14, <2>x DEF CreateExt4, Mkfs, RenameExt4, BuildAt, outside
    <3>2. x \in Build /\ BuildOK(b, x) /\ locked \in BOOLEAN
      BY <1>0, <2>x DEF ImageTypes
    <3>. QED  BY <3>1, <3>2 DEF BuildOK, Locked, HasImage
  <2>1. ASSUME NEW l \in {"mkfs", "rename", "copy", "failed"}, BuildGoto(b, l),
               locked' = IF l \in {"mkfs", "rename"} THEN locked ELSE FALSE,
               NEW f \in {"absent", "partial", x.img}, tmps' = [tmps EXCEPT ![x.img] = f],
               l = "rename" => f = x.img,
               \/ ext4s' = ext4s /\ l # "copy"
               \/ ext4s' = [ext4s EXCEPT ![x.img] = x.img]
        PROVE  ImageInv'
    <3>y. PICK y : y = [x EXCEPT !.pc = l]
      OBVIOUS
    <3>1. y \in Build /\ y.pc = l /\ y.ref = x.ref /\ y.img = x.img
      BY <2>0, <2>1, <3>y DEF Build, Locked
    <3>2. build' = [build EXCEPT ![b] = y]
      BY <2>1, <2>x, <3>y DEF BuildGoto
    <3>3. /\ tmps' \in [Digests -> Digests \cup {"absent", "partial"}] /\ tmps'[x.img] = f
          /\ ext4s' \in [Digests -> Digests \cup {"absent"}]
          /\ l = "copy" => ext4s'[x.img] = x.img
          /\ \A d \in Digests : ext4s'[d] = ext4s[d] \/ ext4s'[d] = d
      <4>d. PICK d : d = x.img
        OBVIOUS
      <4>1. /\ d \in Digests /\ tmps \in [Digests -> Digests \cup {"absent", "partial"}]
            /\ ext4s \in [Digests -> Digests \cup {"absent"}]
        BY <1>0, <2>0, <4>d DEF ImageTypes
      <4>2. tmps' = [tmps EXCEPT ![d] = f] /\ f \in {"absent", "partial", d}
        BY <2>1, <4>d
      <4>3. tmps' \in [Digests -> Digests \cup {"absent", "partial"}] /\ tmps'[d] = f
        BY <4>1, <4>2
      <4>4. CASE ext4s' = ext4s /\ l # "copy"
        BY <4>1, <4>3, <4>4, <4>d
      <4>5. CASE ext4s' = [ext4s EXCEPT ![d] = d]
        BY <4>1, <4>3, <4>5, <4>d
      <4>. QED  BY <2>1, <4>4, <4>5, <4>d
    <3>4. FilesOK'
      BY <1>0, <2>0, <3>3 DEF FilesOK
    <3>5. BuildOK(b, y)'
      BY <2>0, <2>1, <3>1, <3>3 DEF BuildOK
    <3>6. y.pc \in Locked => locked' = locked
      BY <2>1, <3>1 DEF Locked
    <3>7. tars' \in [Refs -> [1..Candidates -> Digests \cup {"absent", "partial"}]]
      BY <1>0, <2>0 DEF ImageTypes
    <3>8. \A d \in Digests : ext4s[d] = d => ext4s'[d] = d
      BY <3>3
    <3>9. build[b].pc \in Locked /\ locked' \in BOOLEAN /\ UNCHANGED <<disks, docker, registry, named>>
      BY <2>0, <2>1, <2>x
    <3>. QED  BY <1>2, <3>1, <3>2, <3>3, <3>4, <3>5, <3>6, <3>7, <3>8, <3>9
  <2>2. CASE CreateExt4(b)
    BY <2>1, <2>2, <2>x DEF CreateExt4
  <2>3. CASE Mkfs(b)
    BY <2>1, <2>3, <2>x DEF Mkfs, GiveUp
  <2>4. CASE RenameExt4(b)
    <3>1. tmps[x.img] = x.img
      BY <2>0, <2>4, <2>x DEF RenameExt4, BuildAt, BuildOK
    <3>. QED  BY <2>1, <2>4, <2>x, <3>1 DEF RenameExt4, GiveUp
  <2>. QED  BY <1>14, <2>2, <2>3, <2>4
<1>15. ASSUME NEW b \in Builders, CopyFile(b) PROVE ImageInv'
  <2>x. PICK x : x = build[b]
    OBVIOUS
  <2>0. /\ x \in Build /\ BuildOK(b, x) /\ x.pc = "copy" /\ x.ref \in Refs
        /\ x.img \in named[x.ref] \cap Digests /\ ext4s[x.img] = x.img
        /\ UNCHANGED <<tars, tmps, ext4s, locked, docker, registry, named>>
    <3>1. x.pc = "copy" /\ UNCHANGED <<tars, tmps, ext4s, locked, docker, registry, named>>
      BY <1>15, <2>x DEF CopyFile, BuildAt, outside, cacheFiles
    <3>2. x \in Build /\ BuildOK(b, x)
      BY <1>0, <2>x DEF ImageTypes
    <3>. QED  BY <3>1, <3>2 DEF BuildOK, HasImage
  <2>1. PICK l \in {"done", "failed"}, f \in {x.img, "partial"} :
          BuildGoto(b, l) /\ disks' = [disks EXCEPT ![b] = f] /\ (l = "done" => f = x.img)
    BY <1>15, <2>0, <2>x DEF CopyFile
  <2>y. PICK y : y = [x EXCEPT !.pc = l]
    OBVIOUS
  <2>2. y \in Build /\ y.pc = l /\ y.ref = x.ref /\ y.pc \notin Locked
    BY <2>0, <2>y DEF Build, Locked
  <2>3. build' = [build EXCEPT ![b] = y]
    BY <2>1, <2>x, <2>y DEF BuildGoto
  <2>4. disks' \in [Builders -> Digests \cup {"absent", "partial"}] /\ disks'[b] = f
        /\ \A c \in Builders \ {b} : disks'[c] = disks[c]
    BY <1>0, <2>0, <2>1 DEF ImageTypes
  <2>5. ImageTypes' /\ FilesOK'
    BY <1>0, <2>0, <2>2, <2>3, <2>4 DEF ImageTypes, FilesOK
  <2>6. BuildOK(b, y)'
    BY <2>0, <2>1, <2>2, <2>4 DEF BuildOK, HasImage
  <2>. QED  BY <2>0, <2>2, <2>3, <2>4, <2>5, <2>6, ImageMoves
<1>16. ASSUME NEW r \in Refs, NEW d \in Digests, PushImage(r, d) PROVE ImageInv'
  <2>0. /\ UNCHANGED <<tars, tmps, ext4s, locked, build, disks>>
        /\ named' = [named EXCEPT ![r] = named[r] \cup {d}]
        /\ docker' = docker \/ docker' = [docker EXCEPT ![r] = d]
        /\ registry' = registry \/ registry' = [registry EXCEPT ![r] = d]
    BY <1>16 DEF PushImage, cacheFiles
  <2>1. /\ named' \in [Refs -> SUBSET (Digests \cup {"absent"})]
        /\ \A q \in Refs : named[q] \subseteq named'[q]
        /\ d \in named'[r]
    BY <1>0, <2>0 DEF ImageTypes
  <2>2. /\ docker' \in [Refs -> Digests \cup {"absent"}]
        /\ registry' \in [Refs -> Digests \cup {"absent"}]
        /\ \A q \in Refs : docker'[q] \in named'[q] /\ registry'[q] \in named'[q]
    <3>1. /\ docker' \in [Refs -> Digests \cup {"absent"}]
          /\ \A q \in Refs : docker'[q] \in named'[q]
      <4>1. CASE docker' = docker
        BY <1>0, <2>1, <4>1 DEF ImageTypes, FilesOK
      <4>2. CASE docker' = [docker EXCEPT ![r] = d]
        BY <1>0, <2>1, <4>2 DEF ImageTypes, FilesOK
      <4>. QED  BY <2>0, <4>1, <4>2
    <3>2. /\ registry' \in [Refs -> Digests \cup {"absent"}]
          /\ \A q \in Refs : registry'[q] \in named'[q]
      <4>1. CASE registry' = registry
        BY <1>0, <2>1, <4>1 DEF ImageTypes, FilesOK
      <4>2. CASE registry' = [registry EXCEPT ![r] = d]
        BY <1>0, <2>1, <4>2 DEF ImageTypes, FilesOK
      <4>. QED  BY <2>0, <4>1, <4>2
    <3>. QED  BY <3>1, <3>2
  <2>5. ImageTypes'
    BY <1>0, <2>0, <2>1, <2>2 DEF ImageTypes
  <2>6. FilesOK'
    BY <1>0, <2>0, <2>1, <2>2 DEF FilesOK
  <2>3. LockOK'
    BY <1>0, <2>0 DEF LockOK
  <2>4. ASSUME NEW b \in Builders PROVE BuildOK(b, build[b])'
    BY <1>0, <2>0, <2>1 DEF BuildOK, HasImage
  <2>. QED  BY <2>3, <2>4, <2>5, <2>6 DEF ImageInv
<1>17. CASE CrashImages
  <2>0. /\ UNCHANGED <<tars, tmps, ext4s, disks, docker, registry, named>> /\ locked' = FALSE
        /\ build' = [b \in Builders |-> IF build[b].pc \in {"idle", "done"} THEN build[b]
                                        ELSE [build[b] EXCEPT !.pc = "failed"]]
    BY <1>17 DEF CrashImages, cacheFiles
  <2>1. ASSUME NEW b \in Builders
        PROVE  /\ build'[b] \in Build /\ build'[b].pc \in {"idle", "done", "failed"}
               /\ build'[b] = build[b] \/ build'[b].pc = "failed"
    <3>x. PICK x : x = build[b]
      OBVIOUS
    <3>y. PICK y : y = [x EXCEPT !.pc = "failed"]
      OBVIOUS
    <3>1. x \in Build
      BY <1>0, <3>x DEF ImageTypes
    <3>2. y \in Build /\ y.pc = "failed"
      BY <3>1, <3>y DEF Build
    <3>3. build'[b] = IF x.pc \in {"idle", "done"} THEN x ELSE y
      BY <2>0, <3>x, <3>y
    <3>. QED  BY <3>1, <3>2, <3>3, <3>x
  <2>2. build' \in [Builders -> Build]
    BY <2>0, <2>1
  <2>3. ImageTypes' /\ FilesOK'
    BY <1>0, <2>0, <2>2 DEF ImageTypes, FilesOK
  <2>4. LockOK'
    BY <2>1 DEF LockOK, Locked
  <2>5. ASSUME NEW b \in Builders PROVE BuildOK(b, build[b])'
    BY <1>0, <2>0, <2>1 DEF BuildOK, HasImage
  <2>. QED  BY <2>3, <2>4, <2>5 DEF ImageInv
<1>. QED  BY <1>1, <1>3, <1>6, <1>9, <1>10, <1>12, <1>13, <1>14, <1>15, <1>16, <1>17 DEF ImageNext

(* A file under a digest is all of that image, and a VM gets all of one    *)
(* image that its own reference has named, whatever crashes and failed     *)
(* commands left in the cache directory: for any images, references,       *)
(* candidates and calls of EnsureRootfs, and any number of crashes.        *)
THEOREM CacheServesWholeImages == ImageSpec => []DisksAreWhole
<1>1. ImageInv => DisksAreWhole
  BY ImageAssumption DEF ImageInv, FilesOK, BuildOK, DisksAreWhole, BuildAt
<1>. QED  BY <1>1, ImageInitInv, ImageNextInv, PTL DEF ImageSpec

-----------------------------------------------------------------------------
(* LLM gateway.  Every key a provider's director may hold was set for that *)
(* provider; a request that is alone with its provider finds its own key   *)
(* there, since whoever else could store one would not leave it alone.     *)

LlmKeys == [user : Guests \cup {"nobody"}, provider : Byok \cup {"none"}, version : Versions \cup {0}]
LlmRows == [key : LlmKeys, secret : Secrets \cup {"unset"}]
Flights == {"limit", "key", "direct", "serve"}
LlmRequests ==
    [pc : Flights \cup {"new", "sent", "refused"}, user : Guests \cup {"nobody"},
     provider : Providers \cup {"none"}, key : LlmKeys,
     track : {"no", "pending", "done", "lost"}, alone : BOOLEAN, may : SUBSET LlmKeys]

LlmTypes ==
    /\ stored \in [Guests -> [Byok -> LlmRows]]
    /\ secret \in Secrets \cup {"unset"}
    /\ director \in [Providers -> LlmKeys]
    /\ llmReq \in [LlmReqs -> LlmRequests]

(* The provider a key for p names. *)
Home(p) == IF p \in Byok THEN p ELSE "none"

RowsHome == \A u \in Guests, p \in Byok :
               stored[u][p] = NoLlmRow \/ stored[u][p].key.provider = p

LlmReqOK(y) ==
    /\ y.pc \in Flights =>
          /\ y.user \in Guests /\ y.provider \in Providers
          /\ y.provider \notin Byok => NoLlmKey \in y.may
    /\ y.pc \in {"limit", "key"} =>
          /\ y.key = NoLlmKey
          /\ y.provider \in Byok /\ stored[y.user][y.provider] # NoLlmRow =>
                stored[y.user][y.provider].key \in y.may
    /\ y.pc \in {"direct", "serve"} => y.key.provider = Home(y.provider) /\ y.key \in y.may
    /\ y.pc = "serve" => /\ director[y.provider].provider = Home(y.provider)
                         /\ y.alone = TRUE => director[y.provider] = y.key
    /\ y.pc = "sent" => /\ y.key.provider = Home(y.provider)
                        /\ y.alone = TRUE => y.key \in y.may

Apart ==
    \A r, q \in LlmReqs :
        llmReq[r].pc \in Flights /\ llmReq[q].pc \in Flights /\ r # q
        /\ llmReq[r].provider = llmReq[q].provider => llmReq[r].alone = FALSE

LlmInv == LlmTypes /\ RowsHome /\ Apart /\ \A r \in LlmReqs : LlmReqOK(llmReq[r])

LEMMA LlmConstants ==
    /\ NoLlmKey \in LlmKeys /\ NoLlmKey.provider = "none"
    /\ NoLlmRow \in LlmRows /\ NoLlmRow.key = NoLlmKey
    /\ Fresh \in LlmRequests /\ Fresh.pc = "new"
    /\ \A p \in Providers : p \in Byok <=> p \notin SelfHosted
<1>1. NoLlmKey \in LlmKeys /\ NoLlmKey.provider = "none"
  BY DEF NoLlmKey, LlmKeys
<1>2. NoLlmRow \in LlmRows /\ NoLlmRow.key = NoLlmKey
  BY <1>1 DEF NoLlmRow, LlmRows
<1>3. Fresh \in LlmRequests /\ Fresh.pc = "new"
  BY <1>1 DEF Fresh, LlmRequests
<1>. QED  BY <1>1, <1>2, <1>3, LlmAssumption DEF Providers

LEMMA LlmInitInv == LlmInit => LlmInv
<1>. SUFFICES ASSUME LlmInit PROVE LlmInv
  OBVIOUS
<1>1. LlmTypes
  BY LlmConstants DEF LlmInit, LlmTypes
<1>2. RowsHome
  BY DEF LlmInit, RowsHome
<1>3. \A r \in LlmReqs : llmReq[r].pc = "new"
  BY LlmConstants DEF LlmInit
<1>4. Apart /\ \A r \in LlmReqs : LlmReqOK(llmReq[r])
  BY <1>3 DEF Apart, LlmReqOK, Flights
<1>. QED  BY <1>1, <1>2, <1>4 DEF LlmInv

(* One request moves on; it does not take off, and stores only its own     *)
(* key in the director, if any.                                            *)
LEMMA LlmMoves ==
    ASSUME LlmInv, NEW r \in LlmReqs, NEW y \in LlmRequests,
           llmReq' = [llmReq EXCEPT ![r] = y],
           UNCHANGED <<stored, secret>>,
           y.pc \in Flights => llmReq[r].pc \in Flights,
           y.provider = llmReq[r].provider, y.alone = llmReq[r].alone,
           \/ director' = director
           \/ /\ llmReq[r].pc \in Flights /\ llmReq[r].key.provider = Home(llmReq[r].provider)
              /\ director' = [director EXCEPT ![llmReq[r].provider] = llmReq[r].key],
           LlmReqOK(y)'
    PROVE  LlmInv'
<1>1. \A q \in LlmReqs : llmReq'[q] = IF q = r THEN y ELSE llmReq[q]
  BY DEF LlmInv, LlmTypes
<1>x. PICK x : x = llmReq[r]
  OBVIOUS
<1>0. x \in LlmRequests /\ LlmReqOK(x) /\ director \in [Providers -> LlmKeys]
  BY <1>x DEF LlmInv, LlmTypes
<1>2. LlmTypes'
  <2>1. director' \in [Providers -> LlmKeys]
    BY <1>0, <1>x DEF LlmReqOK, LlmRequests
  <2>. QED  BY <2>1 DEF LlmInv, LlmTypes
<1>3. RowsHome'
  BY DEF LlmInv, RowsHome
<1>4. Apart'
  <2>. SUFFICES ASSUME NEW a \in LlmReqs, NEW q \in LlmReqs, llmReq'[a].pc \in Flights,
                       llmReq'[q].pc \in Flights, a # q, llmReq'[a].provider = llmReq'[q].provider
                PROVE  llmReq'[a].alone = FALSE
    BY DEF Apart
  <2>1. \A b \in {a, q} : /\ llmReq[b].pc \in Flights /\ llmReq[b].provider = llmReq'[b].provider
                          /\ llmReq[b].alone = llmReq'[b].alone
    BY <1>1
  <2>. QED  BY <2>1 DEF LlmInv, Apart
<1>5. ASSUME NEW q \in LlmReqs, q # r PROVE LlmReqOK(llmReq[q])'
  <2>z. PICK z : z = llmReq[q]
    OBVIOUS
  <2>1. llmReq'[q] = z /\ LlmReqOK(z) /\ z \in LlmRequests
    BY <1>1, <1>5, <2>z DEF LlmInv, LlmTypes
  <2>2. z.pc = "serve" => /\ director'[z.provider].provider = Home(z.provider)
                          /\ z.alone = TRUE => director'[z.provider] = z.key
    <3>1. CASE director' = director \/ z.provider # x.provider
      BY <1>0, <1>x, <2>1, <3>1 DEF LlmReqOK, Flights
    <3>2. CASE z.provider = x.provider /\ director' # director /\ z.pc = "serve"
      <4>1. x.pc \in Flights /\ z.pc \in Flights /\ x.key.provider = Home(x.provider)
            /\ director' = [director EXCEPT ![x.provider] = x.key]
        BY <1>x, <3>2 DEF Flights
      <4>2. z.alone = FALSE
        BY <1>5, <1>x, <2>z, <3>2, <4>1 DEF LlmInv, Apart
      <4>3. director'[z.provider] = x.key
        BY <1>0, <3>2, <4>1 DEF LlmReqOK
      <4>. QED  BY <3>2, <4>1, <4>2, <4>3
    <3>. QED  BY <3>1, <3>2
  <2>3. LlmReqOK(z)'
    BY <2>1, <2>2 DEF LlmReqOK
  <2>. QED  BY <2>1, <2>3 DEF LlmReqOK
<1>6. LlmReqOK(llmReq[r])'
  BY <1>1 DEF LlmReqOK
<1>. QED  BY <1>2, <1>3, <1>4, <1>5, <1>6 DEF LlmInv

LEMMA LlmNextInv == LlmInv /\ [LlmNext]_llmVars => LlmInv'
<1>. SUFFICES ASSUME LlmInv, [LlmNext]_llmVars PROVE LlmInv'
  OBVIOUS
<1>0. LlmTypes /\ RowsHome /\ Apart /\ \A r \in LlmReqs : LlmReqOK(llmReq[r])
  BY DEF LlmInv
<1>1. CASE UNCHANGED <<stored, secret, director, llmReq>>
  BY <1>1 DEF LlmInv, LlmTypes, RowsHome, Apart, LlmReqOK
<1>2. ASSUME NEW u \in Guests, NEW p \in Byok, DeleteLLMKey(u, p) PROVE LlmInv'
  <2>0. /\ stored' = [stored EXCEPT ![u] = [stored[u] EXCEPT ![p] = NoLlmRow]]
        /\ UNCHANGED <<secret, director, llmReq>>
    BY <1>2 DEF DeleteLLMKey
  <2>1. /\ stored' \in [Guests -> [Byok -> LlmRows]]
        /\ \A w \in Guests, q \in Byok : stored'[w][q] = stored[w][q] \/ stored'[w][q] = NoLlmRow
    BY <1>0, <2>0, LlmConstants DEF LlmTypes
  <2>2. LlmTypes' /\ RowsHome' /\ Apart'
    BY <1>0, <2>0, <2>1 DEF LlmTypes, RowsHome, Apart
  <2>3. ASSUME NEW r \in LlmReqs PROVE LlmReqOK(llmReq[r])'
    BY <1>0, <2>0, <2>1 DEF LlmReqOK, Flights
  <2>. QED  BY <2>2, <2>3 DEF LlmInv
<1>3. ASSUME NEW u \in Guests, NEW p \in Byok, NEW v \in Versions, SetUserKey(u, p, v) PROVE LlmInv'
  <2>k. PICK k : k = [user |-> u, provider |-> p, version |-> v]
    OBVIOUS
  <2>w. PICK w : w = [key |-> k, secret |-> secret]
    OBVIOUS
  <2>1. k \in LlmKeys /\ k.provider = p
    BY <2>k DEF LlmKeys
  <2>2. w \in LlmRows /\ w.key = k
    BY <1>0, <2>1, <2>w DEF LlmRows, LlmTypes
  <2>0. /\ stored' = [stored EXCEPT ![u] = [stored[u] EXCEPT ![p] = w]]
        /\ llmReq' = [r \in LlmReqs |-> IF r \in Flight(u, p)
                        THEN [llmReq[r] EXCEPT !.may = @ \cup {k}] ELSE llmReq[r]]
        /\ UNCHANGED <<secret, director>>
    BY <1>3, <2>k, <2>w DEF SetUserKey, Encrypt
  <2>3. /\ stored' \in [Guests -> [Byok -> LlmRows]]
        /\ \A g \in Guests, q \in Byok :
              stored'[g][q] = IF g = u /\ q = p THEN w ELSE stored[g][q]
    BY <1>0, <2>0, <2>2 DEF LlmTypes
  <2>4. ASSUME NEW r \in LlmReqs
        PROVE  /\ llmReq'[r] \in LlmRequests
               /\ llmReq'[r].pc = llmReq[r].pc /\ llmReq'[r].alone = llmReq[r].alone
               /\ llmReq'[r].provider = llmReq[r].provider /\ llmReq'[r].user = llmReq[r].user
               /\ llmReq'[r].key = llmReq[r].key /\ llmReq[r].may \subseteq llmReq'[r].may
               /\ r \in Flight(u, p) => k \in llmReq'[r].may
    <3>x. PICK x : x = llmReq[r]
      OBVIOUS
    <3>y. PICK y : y = [x EXCEPT !.may = x.may \cup {k}]
      OBVIOUS
    <3>1. x \in LlmRequests
      BY <1>0, <3>x DEF LlmTypes
    <3>2. /\ y \in LlmRequests /\ y.pc = x.pc /\ y.alone = x.alone /\ y.provider = x.provider
          /\ y.user = x.user /\ y.key = x.key /\ y.may = x.may \cup {k}
      BY <2>1, <3>1, <3>y DEF LlmRequests
    <3>3. llmReq'[r] = IF r \in Flight(u, p) THEN y ELSE x
      BY <2>0, <3>x, <3>y
    <3>. QED  BY <3>1, <3>2, <3>3, <3>x
  <2>5. llmReq' \in [LlmReqs -> LlmRequests]
    BY <2>0, <2>4
  <2>6. LlmTypes' /\ Apart'
    BY <1>0, <2>0, <2>3, <2>4, <2>5 DEF LlmTypes, Apart
  <2>7. RowsHome'
    BY <1>0, <2>1, <2>2, <2>3 DEF RowsHome
  <2>8. ASSUME NEW r \in LlmReqs PROVE LlmReqOK(llmReq[r])'
    <3>x. PICK x : x = llmReq[r]
      OBVIOUS
    <3>y. PICK y : y = llmReq'[r]
      OBVIOUS
    <3>1. /\ LlmReqOK(x) /\ y.pc = x.pc /\ y.alone = x.alone /\ y.provider = x.provider
          /\ y.user = x.user /\ y.key = x.key /\ x.may \subseteq y.may
          /\ r \in Flight(u, p) => k \in y.may
      BY <1>0, <2>4, <3>x, <3>y
    <3>2. x.pc \in Flights /\ x.user = u /\ x.provider = p => r \in Flight(u, p)
      BY <3>x DEF Flight, Flying, Flights
    <3>3. /\ y.pc \in {"limit", "key"} /\ y.provider \in Byok
          /\ stored'[y.user][y.provider] # NoLlmRow
          => stored'[y.user][y.provider].key \in y.may
      BY <2>2, <2>3, <3>1, <3>2 DEF LlmReqOK, Flights
    <3>4. LlmReqOK(y)'
      BY <2>0, <3>1, <3>3 DEF LlmReqOK, Flights
    <3>. QED  BY <3>4, <3>y DEF LlmReqOK
  <2>. QED  BY <2>6, <2>7, <2>8 DEF LlmInv
<1>4. ASSUME NEW r \in LlmReqs, NEW u \in Guests, NEW p \in Providers, HandleLLMProxy(r, u, p)
      PROVE  LlmInv'
  <2>m. PICK m : m = {IF p \in Byok THEN stored[u][p].key ELSE NoLlmKey}
    OBVIOUS
  <2>a. PICK a : a = (Peers(p) = {})
    OBVIOUS
  <2>y. PICK y : y = [Fresh EXCEPT !.pc = "limit", !.user = u, !.provider = p,
                                   !.alone = a, !.may = m]
    OBVIOUS
  <2>0. /\ llmReq' = [q \in LlmReqs |-> IF q = r THEN y
                        ELSE IF q \in Peers(p) THEN [llmReq[q] EXCEPT !.alone = FALSE]
                        ELSE llmReq[q]]
        /\ UNCHANGED <<stored, secret, director>> /\ llmReq[r].pc = "new"
    BY <1>4, <2>a, <2>m, <2>y DEF HandleLLMProxy
  <2>1. m \subseteq LlmKeys
    BY <1>0, <2>m, LlmConstants DEF LlmTypes, LlmRows
  <2>2. /\ y \in LlmRequests /\ y.pc = "limit" /\ y.user = u /\ y.provider = p
        /\ y.key = NoLlmKey /\ y.may = m /\ (y.alone = TRUE => Peers(p) = {})
    <3>1. a \in BOOLEAN /\ (a = TRUE => Peers(p) = {})
      BY <2>a
    <3>2. /\ y.pc = "limit" /\ y.user = u /\ y.provider = p
          /\ y.key = NoLlmKey /\ y.may = m /\ y.alone = a
      BY <2>y DEF Fresh
    <3>3. y \in LlmRequests
      BY <2>1, <2>y, <3>1, LlmConstants DEF Fresh, LlmRequests, Flights
    <3>. QED  BY <3>1, <3>2, <3>3
  <2>3. LlmReqOK(y)'
    BY <2>0, <2>2, <2>m DEF LlmReqOK, Flights
  <2>4. ASSUME NEW q \in LlmReqs, q # r
        PROVE  /\ llmReq'[q] \in LlmRequests /\ LlmReqOK(llmReq[q])'
               /\ llmReq'[q].pc = llmReq[q].pc /\ llmReq'[q].provider = llmReq[q].provider
               /\ llmReq[q].alone = FALSE => llmReq'[q].alone = FALSE
               /\ q \in Peers(p) => llmReq'[q].alone = FALSE
    <3>x. PICK x : x = llmReq[q]
      OBVIOUS
    <3>z. PICK z : z = [x EXCEPT !.alone = FALSE]
      OBVIOUS
    <3>1. x \in LlmRequests /\ LlmReqOK(x)
      BY <1>0, <3>x DEF LlmTypes
    <3>2. /\ z \in LlmRequests /\ z.pc = x.pc /\ z.alone = FALSE /\ z.provider = x.provider
          /\ z.user = x.user /\ z.key = x.key /\ z.may = x.may
      BY <3>1, <3>z DEF LlmRequests
    <3>3. llmReq'[q] = IF q \in Peers(p) THEN z ELSE x
      BY <2>0, <2>4, <3>x, <3>z
    <3>4. LlmReqOK(z)' /\ LlmReqOK(x)'
      BY <2>0, <3>1, <3>2 DEF LlmReqOK
    <3>. QED  BY <3>1, <3>2, <3>3, <3>4, <3>x DEF LlmReqOK
  <2>5. llmReq'[r] = y
    BY <2>0
  <2>6. LlmTypes'
    BY <1>0, <2>0, <2>2, <2>4, <2>5 DEF LlmTypes
  <2>7. RowsHome'
    BY <1>0, <2>0 DEF RowsHome
  <2>8. \A q \in LlmReqs : llmReq[q].pc \in Flights /\ llmReq[q].provider = p => q \in Peers(p)
    BY DEF Peers, Flying, Flights
  <2>9. Apart'
    <3>. SUFFICES ASSUME NEW b \in LlmReqs, NEW q \in LlmReqs, llmReq'[b].pc \in Flights,
                         llmReq'[q].pc \in Flights, b # q, llmReq'[b].provider = llmReq'[q].provider
                  PROVE  llmReq'[b].alone = FALSE
      BY DEF Apart
    <3>1. CASE b = r
      <4>1. q \in Peers(p)
        BY <2>2, <2>4, <2>5, <2>8, <3>1
      <4>. QED  BY <2>2, <2>5, <3>1, <4>1 DEF LlmRequests
    <3>2. CASE q = r
      BY <2>2, <2>4, <2>5, <2>8, <3>2
    <3>3. CASE b # r /\ q # r
      BY <1>0, <2>4, <3>3 DEF Apart
    <3>. QED  BY <3>1, <3>2, <3>3
  <2>10. \A q \in LlmReqs : LlmReqOK(llmReq[q])'
    BY <2>3, <2>4, <2>5 DEF LlmReqOK
  <2>. QED  BY <2>6, <2>7, <2>9, <2>10 DEF LlmInv
<1>5. ASSUME NEW r \in LlmReqs,
             Admit(r) \/ GetUserKey(r) \/ IncrementLLMUsage(r) \/ SetDirector(r) \/ ServeHTTP(r)
      PROVE  LlmInv'
  <2>x. PICK x : x = llmReq[r]
    OBVIOUS
  <2>0. x \in LlmRequests /\ LlmReqOK(x) /\ UNCHANGED <<stored, secret>>
    BY <1>0, <1>5, <2>x DEF LlmTypes, Admit, GetUserKey, IncrementLLMUsage, SetDirector, ServeHTTP
  <2>1. CASE Admit(r)
    <3>1. PICK l \in {"key", "refused"} : llmReq' = [llmReq EXCEPT ![r].pc = l]
      BY <2>1 DEF Admit
    <3>y. PICK y : y = [x EXCEPT !.pc = l]
      OBVIOUS
    <3>2. /\ y \in LlmRequests /\ y.pc = l /\ y.user = x.user /\ y.provider = x.provider
          /\ y.key = x.key /\ y.alone = x.alone /\ y.may = x.may
      BY <2>0, <3>y DEF LlmRequests, Flights
    <3>3. llmReq' = [llmReq EXCEPT ![r] = y] /\ director' = director /\ x.pc = "limit"
      BY <2>1, <2>x, <3>1, <3>y DEF Admit
    <3>4. LlmReqOK(y)'
      BY <2>0, <3>2, <3>3 DEF LlmReqOK, Flights
    <3>5. x.pc \in Flights
      BY <3>3 DEF Flights
    <3>. QED  BY <2>0, <2>x, <3>2, <3>3, <3>4, <3>5, LlmMoves
  <2>2. CASE GetUserKey(r)
    <3>1. x.pc = "key" /\ director' = director
      BY <2>2, <2>x DEF GetUserKey
    <3>2. x.user \in Guests /\ x.provider \in Providers /\ x.key = NoLlmKey /\ x.pc \in Flights
      BY <2>0, <3>1 DEF LlmReqOK, Flights
    <3>3. CASE llmReq' = [llmReq EXCEPT ![r].pc = "refused"]
      <4>y. PICK y : y = [x EXCEPT !.pc = "refused"]
        OBVIOUS
      <4>1. y \in LlmRequests /\ y.pc = "refused" /\ y.provider = x.provider /\ y.alone = x.alone
        BY <2>0, <4>y DEF LlmRequests
      <4>2. llmReq' = [llmReq EXCEPT ![r] = y]
        BY <2>x, <3>3, <4>y
      <4>3. LlmReqOK(y)'
        BY <4>1 DEF LlmReqOK, Flights
      <4>. QED  BY <2>0, <2>x, <3>1, <3>2, <4>1, <4>2, <4>3, LlmMoves
    <3>4. CASE x.provider \in SelfHosted
      <4>y. PICK y : y = [x EXCEPT !.pc = "direct", !.track = "pending"]
        OBVIOUS
      <4>1. /\ y \in LlmRequests /\ y.pc = "direct" /\ y.user = x.user /\ y.provider = x.provider
            /\ y.key = x.key /\ y.alone = x.alone /\ y.may = x.may
        BY <2>0, <4>y DEF LlmRequests, Flights
      <4>2. llmReq' = [llmReq EXCEPT ![r] = y]
        BY <2>2, <2>x, <3>4, <4>y DEF GetUserKey
      <4>3. x.provider \notin Byok /\ NoLlmKey \in x.may /\ NoLlmKey.provider = Home(x.provider)
        BY <2>0, <3>2, <3>4, LlmConstants DEF LlmReqOK, Home
      <4>4. LlmReqOK(y)'
        BY <2>0, <3>2, <4>1, <4>3 DEF LlmReqOK, Flights
      <4>. QED  BY <2>0, <2>x, <3>1, <3>2, <4>1, <4>2, <4>4, LlmMoves
    <3>5. CASE /\ x.provider \notin SelfHosted
               /\ ~(llmReq' = [llmReq EXCEPT ![r].pc = "refused"])
      <4>k. PICK k : k = stored[x.user][x.provider].key
        OBVIOUS
      <4>1. /\ stored[x.user][x.provider] # NoLlmRow
            /\ llmReq' = [llmReq EXCEPT ![r].pc = "direct", ![r].track = "pending", ![r].key = k]
        BY <2>2, <2>x, <3>5, <4>k DEF GetUserKey, Decrypts
      <4>2. x.provider \in Byok
        BY <3>2, <3>5, LlmConstants
      <4>3. k \in LlmKeys /\ k.provider = Home(x.provider) /\ k \in x.may
        BY <1>0, <2>0, <3>1, <3>2, <4>k, <4>1, <4>2 DEF LlmTypes, LlmRows, RowsHome, LlmReqOK, Home
      <4>y. PICK y : y = [x EXCEPT !.pc = "direct", !.track = "pending", !.key = k]
        OBVIOUS
      <4>4. /\ y \in LlmRequests /\ y.pc = "direct" /\ y.user = x.user /\ y.provider = x.provider
            /\ y.key = k /\ y.alone = x.alone /\ y.may = x.may
        BY <2>0, <4>3, <4>y DEF LlmRequests, Flights
      <4>5. llmReq' = [llmReq EXCEPT ![r] = y]
        BY <2>x, <4>1, <4>y
      <4>6. LlmReqOK(y)'
        BY <3>2, <4>2, <4>3, <4>4 DEF LlmReqOK, Flights
      <4>. QED  BY <2>0, <2>x, <3>1, <3>2, <4>4, <4>5, <4>6, LlmMoves
    <3>. QED  BY <3>3, <3>4, <3>5
  <2>3. CASE IncrementLLMUsage(r)
    <3>y. PICK y : y = [x EXCEPT !.track = "done"]
      OBVIOUS
    <3>1. /\ y \in LlmRequests /\ y.pc = x.pc /\ y.user = x.user /\ y.provider = x.provider
          /\ y.key = x.key /\ y.alone = x.alone /\ y.may = x.may
      BY <2>0, <3>y DEF LlmRequests
    <3>2. llmReq' = [llmReq EXCEPT ![r] = y] /\ director' = director
      BY <2>3, <2>x, <3>y DEF IncrementLLMUsage
    <3>3. LlmReqOK(y)'
      BY <2>0, <3>1, <3>2 DEF LlmReqOK
    <3>. QED  BY <2>0, <2>x, <3>1, <3>2, <3>3, LlmMoves
  <2>4. CASE SetDirector(r)
    <3>y. PICK y : y = [x EXCEPT !.pc = "serve"]
      OBVIOUS
    <3>1. /\ y \in LlmRequests /\ y.pc = "serve" /\ y.user = x.user /\ y.provider = x.provider
          /\ y.key = x.key /\ y.alone = x.alone /\ y.may = x.may
      BY <2>0, <3>y DEF LlmRequests, Flights
    <3>2. /\ llmReq' = [llmReq EXCEPT ![r] = y] /\ x.pc = "direct"
          /\ director' = [director EXCEPT ![x.provider] = x.key]
      BY <2>4, <2>x, <3>y DEF SetDirector
    <3>3. x.pc \in Flights /\ x.provider \in Providers /\ x.key.provider = Home(x.provider)
      BY <2>0, <3>2 DEF LlmReqOK, Flights
    <3>4. director'[x.provider] = x.key
      BY <1>0, <3>2, <3>3 DEF LlmTypes
    <3>5. LlmReqOK(y)'
      BY <2>0, <3>1, <3>2, <3>3, <3>4 DEF LlmReqOK
    <3>. QED  BY <2>0, <2>x, <3>1, <3>2, <3>3, <3>5, LlmMoves
  <2>5. CASE ServeHTTP(r)
    <3>k. PICK k : k = director[x.provider]
      OBVIOUS
    <3>y. PICK y : y = [x EXCEPT !.pc = "sent", !.key = k]
      OBVIOUS
    <3>0. /\ llmReq' = [llmReq EXCEPT ![r] = y] /\ x.pc = "serve" /\ director' = director
      BY <2>5, <2>x, <3>k, <3>y DEF ServeHTTP
    <3>1. /\ k \in LlmKeys /\ k.provider = Home(x.provider)
          /\ x.alone = TRUE => k \in x.may
      BY <1>0, <2>0, <3>0, <3>k DEF LlmTypes, LlmReqOK, Flights
    <3>2. /\ y \in LlmRequests /\ y.pc = "sent" /\ y.provider = x.provider
          /\ y.key = k /\ y.alone = x.alone /\ y.may = x.may
      BY <2>0, <3>1, <3>y DEF LlmRequests
    <3>3. LlmReqOK(y)' /\ y.pc \notin Flights
      BY <3>1, <3>2 DEF LlmReqOK, Flights
    <3>. QED  BY <2>0, <2>x, <3>0, <3>2, <3>3, LlmMoves
  <2>. QED  BY <1>5, <2>1, <2>2, <2>3, <2>4, <2>5
<1>6. ASSUME NEW a \in Secrets \cup {"unset"}, RestartLlm(a) PROVE LlmInv'
  <2>f. PICK f : f = [Fresh EXCEPT !.pc = "refused"]
    OBVIOUS
  <2>0. /\ secret' = a /\ director' = [p \in Providers |-> NoLlmKey] /\ stored' = stored
        /\ llmReq' = [r \in LlmReqs |->
                    IF Flying(r) THEN f
                    ELSE IF llmReq[r].track = "pending"
                    THEN [llmReq[r] EXCEPT !.track = "lost"] ELSE llmReq[r]]
    BY <1>6, <2>f DEF RestartLlm
  <2>1. f \in LlmRequests /\ f.pc = "refused"
    BY <2>f, LlmConstants DEF Fresh, LlmRequests
  <2>2. ASSUME NEW r \in LlmReqs
        PROVE  llmReq'[r] \in LlmRequests /\ llmReq'[r].pc \notin Flights /\ LlmReqOK(llmReq[r])'
    <3>x. PICK x : x = llmReq[r]
      OBVIOUS
    <3>y. PICK y : y = [x EXCEPT !.track = "lost"]
      OBVIOUS
    <3>1. x \in LlmRequests /\ LlmReqOK(x)
      BY <1>0, <3>x DEF LlmTypes
    <3>2. /\ y \in LlmRequests /\ y.pc = x.pc /\ y.provider = x.provider
          /\ y.key = x.key /\ y.alone = x.alone /\ y.may = x.may
      BY <3>1, <3>y DEF LlmRequests
    <3>3. Flying(r) <=> x.pc \in Flights
      BY <3>1, <3>x DEF Flying, Flights, LlmRequests
    <3>4. llmReq'[r] = IF x.pc \in Flights THEN f ELSE IF x.track = "pending" THEN y ELSE x
      BY <2>0, <3>3, <3>x, <3>y
    <3>5. LlmReqOK(f)' /\ f.pc \notin Flights
      BY <2>1 DEF LlmReqOK, Flights
    <3>6. x.pc \notin Flights => LlmReqOK(x)' /\ LlmReqOK(y)'
      BY <3>1, <3>2 DEF LlmReqOK, Flights
    <3>. QED  BY <2>1, <3>1, <3>2, <3>4, <3>5, <3>6 DEF LlmReqOK
  <2>3. llmReq' \in [LlmReqs -> LlmRequests] /\ director' \in [Providers -> LlmKeys]
    BY <2>0, <2>2, LlmConstants
  <2>4. LlmTypes' /\ RowsHome' /\ Apart'
    BY <1>0, <2>0, <2>2, <2>3 DEF LlmTypes, RowsHome, Apart
  <2>. QED  BY <2>2, <2>4 DEF LlmInv
<1>7. CASE UNCHANGED llmVars \/ PassLlmTime
  BY <1>1, <1>7 DEF llmVars, PassLlmTime
<1>. QED  BY <1>2, <1>3, <1>4, <1>5, <1>6, <1>7 DEF LlmNext

(* A user's key leaves only for the provider it was set for, and a request *)
(* that was alone with its provider leaves with a key its own user had     *)
(* there: for any users, providers, keys and requests of the gateway, over *)
(* restarts with other secrets.                                            *)
THEOREM KeysGoHome == LlmSpec => []KeysKept
<1>1. LlmInv => KeysKept
  BY DEF LlmInv, LlmReqOK, KeysKept, KeysStayHome, AloneCarriesOwn, Home
<1>. QED  BY <1>1, LlmInitInv, LlmNextInv, PTL DEF LlmSpec

-----------------------------------------------------------------------------
(* Mail.  Counting the members of a finite set that has changed in one.    *)

LEMMA OneMoves ==
    ASSUME NEW S, IsFiniteSet(S), NEW A \in SUBSET S, NEW B \in SUBSET S, NEW c \in S,
           \A d \in S : d # c => (d \in A <=> d \in B)
    PROVE  /\ Cardinality(A) \in Nat /\ Cardinality(B) \in Nat /\ Cardinality(S) \in Nat
           /\ Cardinality(A) <= Cardinality(S) /\ Cardinality(B) <= Cardinality(S)
           /\ c \notin A => Cardinality(A) < Cardinality(S)
           /\ c \in A /\ c \notin B => Cardinality(A) = Cardinality(B) + 1
           /\ c \notin A /\ c \in B => Cardinality(B) = Cardinality(A) + 1
           /\ (c \in A <=> c \in B) => A = B
<1>1. /\ IsFiniteSet(A) /\ IsFiniteSet(B) /\ Cardinality(A) \in Nat /\ Cardinality(B) \in Nat
      /\ Cardinality(S) \in Nat
      /\ Cardinality(A) <= Cardinality(S) /\ Cardinality(B) <= Cardinality(S)
  BY FS_Subset, FS_CardinalityType
<1>2. ASSUME c \notin A PROVE Cardinality(A) < Cardinality(S)
  <2>1. A # S
    BY <1>2
  <2>. QED  BY <1>1, <2>1, FS_Subset
<1>3. ASSUME c \in A, c \notin B PROVE Cardinality(A) = Cardinality(B) + 1
  <2>1. A = B \cup {c}
    BY <1>3
  <2>. QED  BY <1>1, <1>3, <2>1, FS_AddElement
<1>4. ASSUME c \notin A, c \in B PROVE Cardinality(B) = Cardinality(A) + 1
  <2>1. B = A \cup {c}
    BY <1>4
  <2>. QED  BY <1>1, <1>4, <2>1, FS_AddElement
<1>. QED  BY <1>1, <1>2, <1>3, <1>4

(* What comes in.  A delivery keeps the VM of its first recipient, and a   *)
(* place in the mailbox is spoken for from the count on.                   *)

Delivery == {"create", "write", "rename"}
SmtpSession ==
    [pc : {"closed", "command", "unread"} \cup Delivery, from : BOOLEAN,
     rcpt : SUBSET MailVMs, vm : MailVMs \cup {"none"}, file : Nat]
MailFile == [id : Nat, rcpt : SUBSET MailVMs, whole : BOOLEAN]

EnvelopeOK(y) ==
    /\ y.vm = "none" <=> y.rcpt = {}
    /\ y.vm # "none" => y.vm \in y.rcpt
    /\ y.pc \in Delivery \cup {"unread"} => y.vm \in MailVMs

Delivering(v) == {c \in Mailers : mailer[c].vm = v /\ mailer[c].pc \in Delivery}

BoxOK(v) ==
    /\ IsFiniteSet(newDir[v])
    /\ Cardinality(newDir[v]) + Cardinality(Delivering(v)) <= MaxUnread + Cardinality(Mailers) - 1
    /\ \A f \in newDir[v] : f.whole = TRUE /\ v \in f.rcpt

InInv ==
    /\ mailer \in [Mailers -> SmtpSession]
    /\ newDir \in [MailVMs -> SUBSET MailFile]
    /\ mails \in Nat
    /\ \A c \in Mailers : EnvelopeOK(mailer[c])
    /\ \A v \in MailVMs : BoxOK(v)

LEMMA MailSizes ==
    /\ IsFiniteSet(Mailers) /\ IsFiniteSet(Senders)
    /\ Cardinality(Mailers) \in Nat /\ Cardinality(Senders) \in Nat
    /\ MaxUnread \in Nat \ {0} /\ OutRate \in Nat \ {0}
    /\ Cardinality({}) = 0 /\ IsFiniteSet({}) /\ "none" \notin MailVMs
BY MailAssumption, FS_CardinalityType, FS_EmptySet

LEMMA Dialogue ==
    /\ Greeted \in SmtpSession /\ Greeted.pc = "command" /\ EnvelopeOK(Greeted)
    /\ NoMailer \in SmtpSession /\ NoMailer.pc = "closed" /\ EnvelopeOK(NoMailer)
<1>1. /\ Greeted \in SmtpSession /\ Greeted.pc = "command" /\ Greeted.vm = "none"
      /\ Greeted.rcpt = {}
  BY DEF Greeted, SmtpSession
<1>2. NoMailer \in SmtpSession /\ NoMailer.pc = "closed" /\ NoMailer.vm = "none"
      /\ NoMailer.rcpt = {}
  BY DEF NoMailer, Greeted, SmtpSession
<1>. QED  BY <1>1, <1>2 DEF EnvelopeOK, Delivery

LEMMA InInitInv == MailInit => InInv
<1>. SUFFICES ASSUME MailInit PROVE InInv
  OBVIOUS
<1>1. /\ mailer = [c \in Mailers |-> NoMailer] /\ newDir = [v \in MailVMs |-> {}] /\ mails = 0
  BY DEF MailInit
<1>2. ASSUME NEW v \in MailVMs PROVE BoxOK(v)
  <2>1. Delivering(v) = {} /\ newDir[v] = {}
    BY <1>1, Dialogue DEF Delivering, Delivery
  <2>. QED  BY <2>1, MailSizes DEF BoxOK
<1>. QED  BY <1>1, <1>2, Dialogue DEF InInv

(* One session moves to y, and the mailbox of its VM to D. *)
LEMMA InMoves ==
    ASSUME InInv, NEW c \in Mailers, NEW y \in SmtpSession, EnvelopeOK(y),
           mailer' = [mailer EXCEPT ![c] = y], mails' \in Nat,
           NEW v \in MailVMs, NEW D \in SUBSET MailFile, newDir' = [newDir EXCEPT ![v] = D],
           \A f \in D : f.whole = TRUE /\ v \in f.rcpt,
           mailer[c].pc \in Delivery => mailer[c].vm = v,
           y.pc \in Delivery => y.vm = v,
           \/ D = newDir[v] /\ (y.pc \in Delivery => mailer[c].pc \in Delivery)
           \/ D = newDir[v] /\ Cardinality(D) < MaxUnread
           \/ /\ mailer[c].pc \in Delivery /\ y.pc \notin Delivery
              /\ \E f : D = newDir[v] \cup {f}
    PROVE  InInv'
<1>1. \A d \in Mailers : mailer'[d] = IF d = c THEN y ELSE mailer[d]
  BY DEF InInv
<1>2. \A w \in MailVMs : newDir'[w] = IF w = v THEN D ELSE newDir[w]
  BY DEF InInv
<1>3. ASSUME NEW w \in MailVMs, w # v PROVE BoxOK(w)'
  <2>1. Delivering(w)' = Delivering(w)
    BY <1>1, <1>3 DEF Delivering
  <2>. QED  BY <1>2, <1>3, <2>1 DEF InInv, BoxOK
<1>4. BoxOK(v)'
  <2>A. PICK A : A = Delivering(v)
    OBVIOUS
  <2>B. PICK B : B = Delivering(v)'
    OBVIOUS
  <2>0. /\ c \in A <=> mailer[c].pc \in Delivery
        /\ c \in B <=> y.pc \in Delivery
        /\ A \subseteq Mailers /\ B \subseteq Mailers
        /\ \A d \in Mailers : d # c => (d \in A <=> d \in B)
    BY <1>1, <2>A, <2>B DEF Delivering
  <2>a. PICK a : a = Cardinality(A)
    OBVIOUS
  <2>b. PICK b : b = Cardinality(B)
    OBVIOUS
  <2>m. PICK m : m = Cardinality(Mailers)
    OBVIOUS
  <2>n. PICK n : n = Cardinality(newDir[v])
    OBVIOUS
  <2>1. /\ a \in Nat /\ b \in Nat /\ m \in Nat /\ a <= m /\ b <= m
        /\ c \in A /\ c \notin B => a = b + 1
        /\ (c \in A <=> c \in B) => a = b
    BY <2>0, <2>a, <2>b, <2>m, MailSizes, OneMoves
  <2>2. IsFiniteSet(newDir[v]) /\ n \in Nat /\ n + a <= MaxUnread + m - 1 /\ MaxUnread \in Nat
    BY <2>A, <2>a, <2>m, <2>n, MailSizes, FS_CardinalityType DEF InInv, BoxOK
  <2>3. IsFiniteSet(D) /\ Cardinality(D) + b <= MaxUnread + m - 1
    <3>1. CASE D = newDir[v] /\ (y.pc \in Delivery => mailer[c].pc \in Delivery)
      <4>1. b <= a
        BY <2>0, <2>1, <3>1
      <4>. QED  BY <2>1, <2>2, <2>n, <3>1, <4>1
    <3>2. CASE D = newDir[v] /\ Cardinality(D) < MaxUnread
      BY <2>1, <2>2, <2>n, <3>2
    <3>3. CASE /\ mailer[c].pc \in Delivery /\ y.pc \notin Delivery
               /\ \E f : D = newDir[v] \cup {f}
      <4>1. PICK f : D = newDir[v] \cup {f}
        BY <3>3
      <4>2. IsFiniteSet(D) /\ Cardinality(D) \in Nat /\ Cardinality(D) <= n + 1
        <5>1. IsFiniteSet(D) /\ (Cardinality(D) = n \/ Cardinality(D) = n + 1)
          <6>1. IsFiniteSet(newDir[v])
            BY <2>2
          <6>. QED  BY <2>n, <4>1, <6>1, FS_AddElement
        <5>. QED  BY <2>2, <5>1
      <4>3. a = b + 1
        BY <2>0, <2>1, <3>3
      <4>. QED  BY <2>1, <2>2, <4>2, <4>3
    <3>. QED  BY <3>1, <3>2, <3>3
  <2>. QED  BY <1>2, <2>3, <2>B, <2>b, <2>m DEF BoxOK
<1>5. newDir' \in [MailVMs -> SUBSET MailFile] /\ mailer' \in [Mailers -> SmtpSession]
  BY DEF InInv
<1>6. ASSUME NEW d \in Mailers PROVE EnvelopeOK(mailer[d])'
  BY <1>1 DEF InInv, EnvelopeOK
<1>. QED  BY <1>3, <1>4, <1>5, <1>6 DEF InInv

(* Mailboxes shrink or stay, and no delivery begins. *)
LEMMA InShrinks ==
    ASSUME InInv, mailer' \in [Mailers -> SmtpSession], mails' \in Nat,
           newDir' \in [MailVMs -> SUBSET MailFile],
           \A c \in Mailers : EnvelopeOK(mailer'[c]),
           \A v \in MailVMs : newDir'[v] \subseteq newDir[v],
           \A c \in Mailers : mailer'[c].pc \in Delivery =>
              mailer[c].pc \in Delivery /\ mailer'[c].vm = mailer[c].vm
    PROVE  InInv'
<1>1. ASSUME NEW v \in MailVMs PROVE BoxOK(v)'
  <2>A. PICK A : A = Delivering(v)
    OBVIOUS
  <2>B. PICK B : B = Delivering(v)'
    OBVIOUS
  <2>1. B \subseteq A /\ A \subseteq Mailers /\ newDir'[v] \subseteq newDir[v]
    BY <2>A, <2>B DEF Delivering
  <2>2. /\ IsFiniteSet(A) /\ IsFiniteSet(B) /\ Cardinality(B) <= Cardinality(A)
        /\ Cardinality(A) \in Nat /\ Cardinality(B) \in Nat
    <3>1. IsFiniteSet(A)
      BY <2>1, MailSizes, FS_Subset
    <3>. QED  BY <2>1, <3>1, FS_Subset, FS_CardinalityType
  <2>3. IsFiniteSet(newDir[v]) /\ BoxOK(v)
    BY DEF InInv, BoxOK
  <2>4. /\ IsFiniteSet(newDir'[v]) /\ Cardinality(newDir'[v]) <= Cardinality(newDir[v])
        /\ Cardinality(newDir[v]) \in Nat /\ Cardinality(newDir'[v]) \in Nat
    BY <2>1, <2>3, FS_Subset, FS_CardinalityType
  <2>5. Cardinality(newDir'[v]) + Cardinality(B) <= MaxUnread + Cardinality(Mailers) - 1
    BY <2>2, <2>3, <2>4, <2>A, MailSizes DEF BoxOK
  <2>. QED  BY <2>1, <2>3, <2>4, <2>5, <2>B DEF BoxOK
<1>2. ASSUME NEW c \in Mailers PROVE EnvelopeOK(mailer[c])'
  BY DEF EnvelopeOK
<1>. QED  BY <1>1, <1>2 DEF InInv

LEMMA InStill ==
    ASSUME InInv, NEW c \in Mailers, NEW y \in SmtpSession, EnvelopeOK(y),
           mailer' = [mailer EXCEPT ![c] = y], mails' \in Nat, newDir' = newDir,
           y.pc \in Delivery => mailer[c].pc \in Delivery /\ y.vm = mailer[c].vm
    PROVE  InInv'
<1>1. \A d \in Mailers : mailer'[d] = IF d = c THEN y ELSE mailer[d]
  BY DEF InInv
<1>2. mailer' \in [Mailers -> SmtpSession] /\ newDir' \in [MailVMs -> SUBSET MailFile]
  BY DEF InInv
<1>3. \A d \in Mailers : EnvelopeOK(mailer'[d])
  BY <1>1 DEF InInv
<1>. QED  BY <1>1, <1>2, <1>3, InShrinks

LEMMA InboundInv == InInv /\ Inbound => InInv'
<1>. SUFFICES ASSUME InInv, Inbound PROVE InInv'
  OBVIOUS
<1>a. ASSUME NEW c \in Mailers
      PROVE  mailer[c] \in SmtpSession /\ EnvelopeOK(mailer[c])
  BY DEF InInv
<1>b. mails \in Nat
  BY DEF InInv
<1>c. "command" \notin Delivery /\ "closed" \notin Delivery /\ "unread" \notin Delivery
  BY DEF Delivery
<1>1. ASSUME NEW c \in Mailers, HandleConn(c) \/ HandleRSET(c) \/ CloseMail(c) PROVE InInv'
  <2>1. UNCHANGED <<newDir, mails>>
    BY <1>1 DEF HandleConn, HandleRSET, CloseMail
  <2>2. mailer' = [mailer EXCEPT ![c] = Greeted] \/ mailer' = [mailer EXCEPT ![c] = NoMailer]
    BY <1>1 DEF HandleConn, HandleRSET, CloseMail
  <2>. QED  BY <1>b, <1>c, <2>1, <2>2, Dialogue, InStill
<1>2. ASSUME NEW c \in Mailers, NEW null \in BOOLEAN, HandleMAIL(c, null) PROVE InInv'
  <2>y. PICK y : y = [Greeted EXCEPT !.from = ~null]
    OBVIOUS
  <2>1. y \in SmtpSession /\ y.pc = "command" /\ y.rcpt = {} /\ y.vm = "none"
    BY <2>y DEF Greeted, SmtpSession
  <2>2. EnvelopeOK(y)
    BY <1>c, <2>1 DEF EnvelopeOK
  <2>3. mailer' = [mailer EXCEPT ![c] = y] /\ UNCHANGED <<newDir, mails>>
    BY <1>2, <2>y DEF HandleMAIL
  <2>. QED  BY <1>b, <1>c, <2>1, <2>2, <2>3, InStill
<1>3. ASSUME NEW c \in Mailers, NEW v \in MailVMs, HandleRCPT(c, v) PROVE InInv'
  <2>x. PICK x : x = mailer[c]
    OBVIOUS
  <2>w. PICK w : w = IF x.vm = "none" THEN v ELSE x.vm
    OBVIOUS
  <2>y. PICK y : y = [x EXCEPT !.vm = w, !.rcpt = x.rcpt \cup {v}]
    OBVIOUS
  <2>0. x \in SmtpSession /\ EnvelopeOK(x) /\ x.pc = "command" /\ w \in MailVMs
    BY <1>3, <1>a, <2>w, <2>x DEF HandleRCPT, Takes, SmtpSession
  <2>1. y \in SmtpSession /\ y.pc = "command" /\ y.rcpt = x.rcpt \cup {v} /\ y.vm = w
    BY <2>0, <2>y DEF SmtpSession
  <2>2. EnvelopeOK(y)
    BY <1>c, <2>0, <2>1, <2>w, MailSizes DEF EnvelopeOK
  <2>3. mailer' = [mailer EXCEPT ![c] = y] /\ UNCHANGED <<newDir, mails>>
    BY <1>3, <2>w, <2>x, <2>y DEF HandleRCPT
  <2>. QED  BY <1>b, <1>c, <2>1, <2>2, <2>3, InStill
<1>4. ASSUME NEW c \in Mailers, NEW l, NEW x, x = mailer[c], Mailer(c, l),
             l \in {"command", "unread"} \cup Delivery, x.vm \in MailVMs
      PROVE  \E y \in SmtpSession : /\ mailer' = [mailer EXCEPT ![c] = y] /\ EnvelopeOK(y)
                                    /\ y.pc = l /\ y.vm = x.vm
  <2>n. PICK n : n = IF l = "command" THEN 0 ELSE x.file
    OBVIOUS
  <2>y. PICK y : y = [x EXCEPT !.pc = l, !.file = n]
    OBVIOUS
  <2>0. x \in SmtpSession /\ EnvelopeOK(x)
    BY <1>4, <1>a
  <2>1. n \in Nat
    BY <2>0, <2>n DEF SmtpSession
  <2>2. y \in SmtpSession /\ y.pc = l /\ y.vm = x.vm /\ y.rcpt = x.rcpt
    BY <1>4, <2>0, <2>1, <2>y DEF SmtpSession
  <2>3. EnvelopeOK(y)
    BY <1>4, <2>0, <2>2 DEF EnvelopeOK
  <2>4. mailer' = [mailer EXCEPT ![c] = y]
    BY <1>4, <2>n, <2>y DEF Mailer
  <2>. QED  BY <2>2, <2>3, <2>4
<1>5. ASSUME NEW c \in Mailers, HandleDATA(c) PROVE InInv'
  <2>1. UNCHANGED <<newDir, mails>> /\ mailer[c].rcpt # {}
    BY <1>5 DEF HandleDATA
  <2>2. mailer[c].vm \in MailVMs
    BY <1>a, <2>1 DEF EnvelopeOK, SmtpSession
  <2>3. CASE mailer' = mailer
    BY <2>1, <2>3 DEF InInv, BoxOK, EnvelopeOK, Delivering
  <2>4. CASE Mailer(c, "unread")
    <3>1. PICK y \in SmtpSession : /\ mailer' = [mailer EXCEPT ![c] = y] /\ EnvelopeOK(y)
                                   /\ y.pc = "unread"
      BY <1>4, <2>2, <2>4
    <3>. QED  BY <1>b, <1>c, <2>1, <3>1, InStill
  <2>. QED  BY <1>5, <2>3, <2>4 DEF HandleDATA
<1>6. ASSUME NEW c \in Mailers, NEW ok \in BOOLEAN, CountUnread(c, ok) PROVE InInv'
  <2>v. PICK v : v = mailer[c].vm
    OBVIOUS
  <2>0. UNCHANGED <<newDir, mails>> /\ v \in MailVMs /\ mailer[c].pc = "unread"
    BY <1>6, <1>a, <2>v DEF CountUnread, Takes, EnvelopeOK
  <2>1. CASE Mailer(c, "command")
    <3>1. PICK y \in SmtpSession : /\ mailer' = [mailer EXCEPT ![c] = y] /\ EnvelopeOK(y)
                                   /\ y.pc = "command"
      BY <1>4, <2>0, <2>1, <2>v
    <3>. QED  BY <1>b, <1>c, <2>0, <3>1, InStill
  <2>2. CASE Mailer(c, "create") /\ Cardinality(newDir[v]) < MaxUnread
    <3>1. PICK y \in SmtpSession : /\ mailer' = [mailer EXCEPT ![c] = y] /\ EnvelopeOK(y)
                                   /\ y.vm = v
      BY <1>4, <2>0, <2>2, <2>v DEF Delivery
    <3>D. PICK D : D = newDir[v]
      OBVIOUS
    <3>2. /\ newDir' = [newDir EXCEPT ![v] = D] /\ D \in SUBSET MailFile
          /\ \A f \in D : f.whole = TRUE /\ v \in f.rcpt
      BY <2>0, <3>D DEF InInv, BoxOK
    <3>3. /\ D = newDir[v] /\ Cardinality(D) < MaxUnread /\ mails' \in Nat
          /\ mailer[c].pc \in Delivery => mailer[c].vm = v
          /\ y.pc \in Delivery => y.vm = v
      BY <1>b, <1>c, <2>0, <2>2, <2>v, <3>1, <3>D
    <3>4. v \in MailVMs
      BY <2>0
    <3>. QED  BY <3>1, <3>2, <3>3, <3>4, InMoves
  <2>. QED  BY <1>6, <2>1, <2>2, <2>v DEF CountUnread
<1>7. ASSUME NEW c \in Mailers, CreateTmp(c) PROVE InInv'
  <2>x. PICK x : x = mailer[c]
    OBVIOUS
  <2>y. PICK y : y = [x EXCEPT !.pc = "write", !.file = mails + 1]
    OBVIOUS
  <2>0. /\ x \in SmtpSession /\ EnvelopeOK(x) /\ x.pc = "create"
        /\ mailer' = [mailer EXCEPT ![c] = y] /\ mails' = mails + 1 /\ newDir' = newDir
    BY <1>7, <1>a, <2>x, <2>y DEF CreateTmp, Takes
  <2>1. mails + 1 \in Nat
    BY <1>b
  <2>2. y \in SmtpSession /\ y.pc = "write" /\ y.vm = x.vm /\ y.rcpt = x.rcpt
    BY <2>0, <2>1, <2>y DEF SmtpSession, Delivery
  <2>3. EnvelopeOK(y) /\ x.pc \in Delivery
    BY <2>0, <2>2 DEF EnvelopeOK, Delivery
  <2>. QED  BY <2>0, <2>1, <2>2, <2>3, <2>x, InStill
<1>8. ASSUME NEW c \in Mailers, NEW ok \in BOOLEAN, WriteTmp(c, ok) PROVE InInv'
  <2>0. UNCHANGED <<newDir, mails>> /\ mailer[c].vm \in MailVMs /\ mailer[c].pc \in Delivery
    BY <1>8, <1>a DEF WriteTmp, Takes, EnvelopeOK, Delivery
  <2>1. PICK l \in {"rename", "command"} : Mailer(c, l)
    BY <1>8 DEF WriteTmp
  <2>2. l \in {"command", "unread"} \cup Delivery
    BY DEF Delivery
  <2>3. PICK y \in SmtpSession : /\ mailer' = [mailer EXCEPT ![c] = y] /\ EnvelopeOK(y)
                                 /\ y.vm = mailer[c].vm
    BY <1>4, <2>0, <2>1, <2>2
  <2>. QED  BY <1>b, <2>0, <2>3, InStill
<1>9. ASSUME NEW c \in Mailers, NEW ok \in BOOLEAN, Rename(c, ok) PROVE InInv'
  <2>x. PICK x : x = mailer[c]
    OBVIOUS
  <2>v. PICK v : v = x.vm
    OBVIOUS
  <2>f. PICK f : f = [id |-> x.file, rcpt |-> x.rcpt, whole |-> TRUE]
    OBVIOUS
  <2>0. /\ x \in SmtpSession /\ EnvelopeOK(x) /\ x.pc = "rename" /\ x.pc \in Delivery
        /\ v \in MailVMs /\ mails' = mails /\ Mailer(c, "command")
        /\ newDir' = [newDir EXCEPT ![v] = IF ok THEN newDir[v] \cup {f} ELSE newDir[v]]
    <3>1. /\ x.pc = "rename" /\ mails' = mails /\ Mailer(c, "command")
          /\ newDir' = [newDir EXCEPT ![v] = IF ok THEN newDir[v] \cup {f} ELSE newDir[v]]
      BY <1>9, <2>f, <2>v, <2>x DEF Rename, Takes, File
    <3>2. x \in SmtpSession /\ EnvelopeOK(x)
      BY <1>a, <2>x
    <3>. QED  BY <2>v, <3>1, <3>2 DEF EnvelopeOK, Delivery
  <2>1. PICK y \in SmtpSession : /\ mailer' = [mailer EXCEPT ![c] = y] /\ EnvelopeOK(y)
                                 /\ y.pc = "command"
    BY <1>4, <2>0, <2>v, <2>x
  <2>2. f \in MailFile /\ f.whole = TRUE /\ v \in f.rcpt
    BY <2>0, <2>f, <2>v, MailSizes DEF SmtpSession, MailFile, EnvelopeOK
  <2>3. newDir[v] \in SUBSET MailFile /\ \A g \in newDir[v] : g.whole = TRUE /\ v \in g.rcpt
    BY <2>0 DEF InInv, BoxOK
  <2>4. CASE ~ok
    <3>1. newDir' = newDir
      BY <2>0, <2>4 DEF InInv
    <3>. QED  BY <1>b, <1>c, <2>0, <2>1, <3>1, InStill
  <2>5. CASE ok
    <3>D. PICK D : D = newDir[v] \cup {f}
      OBVIOUS
    <3>1. /\ newDir' = [newDir EXCEPT ![v] = D] /\ D \in SUBSET MailFile
          /\ \A g \in D : g.whole = TRUE /\ v \in g.rcpt
      BY <2>0, <2>2, <2>3, <2>5, <3>D
    <3>2. /\ \E g : D = newDir[v] \cup {g}
          /\ mails' \in Nat /\ mailer[c].pc \in Delivery /\ mailer[c].vm = v
          /\ y.pc \notin Delivery
      BY <1>b, <1>c, <2>0, <2>1, <2>v, <2>x, <3>D
    <3>. QED  BY <2>0, <2>1, <3>1, <3>2, InMoves
  <2>. QED  BY <2>4, <2>5
<1>10. ASSUME NEW v \in MailVMs, ReadMail(v) PROVE InInv'
  <2>1. PICK f \in newDir[v] : newDir' = [newDir EXCEPT ![v] = newDir[v] \ {f}]
    BY <1>10 DEF ReadMail
  <2>2. UNCHANGED <<mailer, mails>>
    BY <1>10 DEF ReadMail
  <2>3. newDir' \in [MailVMs -> SUBSET MailFile] /\ \A w \in MailVMs : newDir'[w] \subseteq newDir[w]
    BY <2>1 DEF InInv
  <2>4. mailer' \in [Mailers -> SmtpSession] /\ mails' \in Nat /\ \A c \in Mailers : EnvelopeOK(mailer'[c])
    BY <1>a, <2>2 DEF InInv
  <2>. QED  BY <2>2, <2>3, <2>4, InShrinks
<1>. QED  BY <1>1, <1>2, <1>3, <1>5, <1>6, <1>7, <1>8, <1>9, <1>10 DEF Inbound

(* What goes out.  Mails given to the relay this hour and those about to   *)
(* be are at most those counted in this hour and one for every request     *)
(* that was admitted in the hour before.                                   *)

SendJob == [pc : {"idle", "rate", "send"}, vm : MailVMs \cup {"none"}, to : Addresses \cup {"none"}]
HourCount == [count : Nat, hour : Int]

Sending(v) == {s \in Senders : sender[s].vm = v /\ sender[s].pc = "send"}
Used(v) == IF outCount[v].hour = hour THEN outCount[v].count ELSE 0

RelayOK(v) ==
    /\ outCount[v].hour <= hour /\ outCount[v].count <= OutRate
    /\ relayed[v] + Cardinality(Sending(v)) <= Used(v) + Cardinality(Senders)

OutInv ==
    /\ hour \in Nat
    /\ outCount \in [MailVMs -> HourCount]
    /\ relayed \in [MailVMs -> Nat]
    /\ sender \in [Senders -> SendJob]
    /\ \A s \in Senders : sender[s].pc # "idle" => sender[s].vm \in MailVMs
    /\ \A v \in MailVMs : RelayOK(v)

LEMMA OutFresh ==
    ASSUME hour' \in Nat, NEW h \in [MailVMs -> HourCount], outCount' = h,
           \A v \in MailVMs : h[v].hour < hour' /\ h[v].count <= OutRate,
           relayed' = [v \in MailVMs |-> 0],
           sender' \in [Senders -> SendJob],
           \A s \in Senders : sender'[s].pc # "idle" => sender'[s].vm \in MailVMs
    PROVE  OutInv'
<1>1. ASSUME NEW v \in MailVMs PROVE RelayOK(v)'
  <2>1. Sending(v)' \subseteq Senders
    BY DEF Sending
  <2>2. Cardinality(Sending(v)') \in Nat /\ Cardinality(Sending(v)') <= Cardinality(Senders)
    BY <2>1, MailSizes, FS_Subset, FS_CardinalityType
  <2>3. h[v].hour \in Int
    BY DEF HourCount
  <2>4. Used(v)' = 0 /\ relayed'[v] = 0
    BY <2>3 DEF Used
  <2>5. outCount'[v].hour <= hour' /\ outCount'[v].count <= OutRate
    BY <2>3
  <2>6. relayed'[v] + Cardinality(Sending(v)') <= Used(v)' + Cardinality(Senders)
    BY <2>2, <2>4, MailSizes
  <2>. QED  BY <2>5, <2>6 DEF RelayOK
<1>. QED  BY <1>1 DEF OutInv

LEMMA Clean ==
    /\ NoSender \in SendJob /\ NoSender.pc = "idle"
    /\ Unused \in HourCount /\ Unused.hour = -1 /\ Unused.count = 0
BY DEF NoSender, SendJob, Unused, HourCount

LEMMA OutInitInv == MailInit => OutInv
<1>. SUFFICES ASSUME MailInit PROVE OutInv
  OBVIOUS
<1>1. /\ hour = 0 /\ outCount = [v \in MailVMs |-> Unused] /\ relayed = [v \in MailVMs |-> 0]
      /\ sender = [s \in Senders |-> NoSender]
  BY DEF MailInit
<1>2. ASSUME NEW v \in MailVMs PROVE RelayOK(v)
  <2>1. Sending(v) = {} /\ Used(v) = 0 /\ relayed[v] = 0
    BY <1>1, Clean DEF Sending, Used
  <2>2. 0 + 0 <= 0 + Cardinality(Senders) /\ 0 <= OutRate
    BY MailSizes
  <2>3. outCount[v].hour <= hour /\ outCount[v].count <= OutRate
    BY <1>1, <2>2, Clean
  <2>. QED  BY <2>1, <2>2, <2>3, MailSizes DEF RelayOK
<1>. QED  BY <1>1, <1>2, Clean DEF OutInv

(* One request moves to y, its VM's count to q, and its mails to n. *)
LEMMA OutMoves ==
    ASSUME OutInv, hour' = hour, NEW s \in Senders, NEW y \in SendJob,
           y.pc # "idle" => y.vm \in MailVMs,
           sender' = [sender EXCEPT ![s] = y],
           NEW v \in MailVMs,
           sender[s].pc = "send" => sender[s].vm = v,
           y.pc = "send" => y.vm = v,
           NEW q \in HourCount, q.hour <= hour, q.count <= OutRate,
           outCount' = [outCount EXCEPT ![v] = q],
           NEW n \in Nat, relayed' = [relayed EXCEPT ![v] = n],
           \/ q = outCount[v] /\ n = relayed[v] /\ y.pc # "send"
           \/ q = outCount[v] /\ n = relayed[v] + 1 /\ sender[s].pc = "send" /\ y.pc # "send"
           \/ /\ n = relayed[v] /\ sender[s].pc # "send" /\ y.pc = "send"
              /\ q.hour = hour /\ q.count = Used(v) + 1
    PROVE  OutInv'
<1>1. \A t \in Senders : sender'[t] = IF t = s THEN y ELSE sender[t]
  BY DEF OutInv
<1>2. \A w \in MailVMs : /\ outCount'[w] = IF w = v THEN q ELSE outCount[w]
                         /\ relayed'[w] = IF w = v THEN n ELSE relayed[w]
  BY DEF OutInv
<1>3. ASSUME NEW w \in MailVMs, w # v PROVE RelayOK(w)'
  <2>1. Sending(w)' = Sending(w)
    BY <1>1, <1>3 DEF Sending
  <2>2. Used(w)' = Used(w)
    BY <1>2, <1>3 DEF Used
  <2>. QED  BY <1>2, <1>3, <2>1, <2>2 DEF OutInv, RelayOK
<1>4. RelayOK(v)'
  <2>A. PICK A : A = Sending(v)
    OBVIOUS
  <2>B. PICK B : B = Sending(v)'
    OBVIOUS
  <2>0. /\ s \in A <=> sender[s].pc = "send"
        /\ s \in B <=> y.pc = "send"
        /\ A \subseteq Senders /\ B \subseteq Senders
        /\ \A d \in Senders : d # s => (d \in A <=> d \in B)
    BY <1>1, <2>A, <2>B DEF Sending
  <2>a. PICK a : a = Cardinality(A)
    OBVIOUS
  <2>b. PICK b : b = Cardinality(B)
    OBVIOUS
  <2>m. PICK m : m = Cardinality(Senders)
    OBVIOUS
  <2>u. PICK u : u = Used(v)
    OBVIOUS
  <2>w. PICK w : w = Used(v)'
    OBVIOUS
  <2>r. PICK r : r = relayed[v]
    OBVIOUS
  <2>1. /\ a \in Nat /\ b \in Nat /\ m \in Nat
        /\ s \in A /\ s \notin B => a = b + 1
        /\ s \notin A /\ s \in B => b = a + 1
        /\ (s \in A <=> s \in B) => a = b
    <3>1. /\ IsFiniteSet(Senders) /\ A \in SUBSET Senders /\ B \in SUBSET Senders
          /\ \A d \in Senders : d # s => (d \in A <=> d \in B)
      BY <2>0, MailSizes
    <3>2. /\ Cardinality(A) \in Nat /\ Cardinality(B) \in Nat /\ Cardinality(Senders) \in Nat
          /\ s \in A /\ s \notin B => Cardinality(A) = Cardinality(B) + 1
          /\ s \notin A /\ s \in B => Cardinality(B) = Cardinality(A) + 1
          /\ (s \in A <=> s \in B) => A = B
      BY ONLY <3>1, s \in Senders, OneMoves
    <3>. QED  BY <2>a, <2>b, <2>m, <3>2
  <2>2. r \in Nat /\ u \in Nat /\ r + a <= u + m
    BY <2>A, <2>a, <2>m, <2>r, <2>u DEF OutInv, RelayOK, Used, HourCount
  <2>3. n + b <= w + m
    <3>1. CASE q = outCount[v] /\ n = relayed[v] /\ y.pc # "send"
      <4>1. w = u
        BY <1>2, <2>u, <2>w, <3>1 DEF Used
      <4>2. b <= a
        BY <2>0, <2>1, <3>1
      <4>. QED  BY <2>1, <2>2, <2>r, <3>1, <4>1, <4>2
    <3>2. CASE q = outCount[v] /\ n = relayed[v] + 1 /\ sender[s].pc = "send" /\ y.pc # "send"
      <4>1. w = u
        BY <1>2, <2>u, <2>w, <3>2 DEF Used
      <4>2. a = b + 1
        BY <2>0, <2>1, <3>2
      <4>. QED  BY <2>1, <2>2, <2>r, <3>2, <4>1, <4>2
    <3>3. CASE /\ n = relayed[v] /\ sender[s].pc # "send" /\ y.pc = "send"
               /\ q.hour = hour /\ q.count = Used(v) + 1
      <4>1. w = u + 1
        BY <1>2, <2>u, <2>w, <3>3 DEF Used
      <4>2. b = a + 1
        BY <2>0, <2>1, <3>3
      <4>. QED  BY <2>1, <2>2, <2>r, <3>3, <4>1, <4>2
    <3>. QED  BY <3>1, <3>2, <3>3
  <2>. QED  BY <1>2, <2>3, <2>B, <2>b, <2>m, <2>w DEF RelayOK
<1>5. /\ outCount' \in [MailVMs -> HourCount] /\ relayed' \in [MailVMs -> Nat]
      /\ sender' \in [Senders -> SendJob]
  BY DEF OutInv
<1>6. \A t \in Senders : sender'[t].pc # "idle" => sender'[t].vm \in MailVMs
  BY <1>1 DEF OutInv
<1>. QED  BY <1>3, <1>4, <1>5, <1>6 DEF OutInv

LEMMA OutboundInv == OutInv /\ hour' = hour /\ Outbound => OutInv'
<1>. SUFFICES ASSUME OutInv, hour' = hour, Outbound PROVE OutInv'
  OBVIOUS
<1>1. ASSUME UNCHANGED <<outCount, sender, relayed>> PROVE OutInv'
  BY <1>1 DEF OutInv, RelayOK, Used, Sending
<1>2. ASSUME NEW v \in MailVMs
      PROVE  /\ outCount[v] \in HourCount /\ outCount[v].hour <= hour /\ outCount[v].count <= OutRate
             /\ relayed[v] \in Nat
             /\ outCount = [outCount EXCEPT ![v] = outCount[v]]
             /\ relayed = [relayed EXCEPT ![v] = relayed[v]]
  BY DEF OutInv, RelayOK
<1>3. ASSUME NEW s \in Senders, NEW v \in MailVMs, NEW to \in Addresses, HandleEmailSend(s, v, to)
      PROVE  OutInv'
  <2>y. PICK y : y = [pc |-> "rate", vm |-> v, to |-> to]
    OBVIOUS
  <2>1. /\ sender' = [sender EXCEPT ![s] = y] /\ UNCHANGED <<outCount, relayed>>
        /\ sender[s].pc = "idle"
    BY <1>3, <2>y DEF HandleEmailSend
  <2>2. y \in SendJob /\ y.pc = "rate" /\ y.vm = v
    BY <2>y DEF SendJob
  <2>q. PICK q : q = outCount[v]
    OBVIOUS
  <2>n. PICK n : n = relayed[v]
    OBVIOUS
  <2>3. /\ q \in HourCount /\ q.hour <= hour /\ q.count <= OutRate /\ n \in Nat
        /\ outCount' = [outCount EXCEPT ![v] = q] /\ relayed' = [relayed EXCEPT ![v] = n]
    BY <1>2, <2>1, <2>n, <2>q
  <2>4. q = outCount[v] /\ n = relayed[v] /\ y.pc # "send" /\ sender[s].pc # "send"
    BY <2>1, <2>2, <2>n, <2>q
  <2>5. /\ y.pc # "idle" => y.vm \in MailVMs
        /\ sender[s].pc = "send" => sender[s].vm = v
        /\ y.pc = "send" => y.vm = v
    BY <2>2, <2>4
  <2>6. sender' = [sender EXCEPT ![s] = y]
    BY <2>1
  <2>. QED  BY <2>2, <2>3, <2>4, <2>5, <2>6, OutMoves
<1>4. ASSUME NEW s \in Senders, CheckSendRate(s) PROVE OutInv'
  <2>x. PICK x : x = sender[s]
    OBVIOUS
  <2>v. PICK v : v = x.vm
    OBVIOUS
  <2>0. x \in SendJob /\ x.pc = "rate" /\ v \in MailVMs /\ relayed' = relayed
    BY <1>4, <2>v, <2>x DEF CheckSendRate, OutInv
  <2>o. PICK o : o = outCount[v]
    OBVIOUS
  <2>1. o \in HourCount /\ o.hour <= hour /\ o.count <= OutRate /\ hour \in Nat /\ o.count \in Nat
        /\ o.hour \in Int
    BY <1>2, <2>0, <2>o DEF OutInv, HourCount
  <2>q. PICK q : q = Counted(o, OutRate)
    OBVIOUS
  <2>n. PICK n : n = relayed[v]
    OBVIOUS
  <2>2. /\ outCount' = [outCount EXCEPT ![v] = q]
        /\ relayed' = [relayed EXCEPT ![v] = n] /\ n \in Nat
        /\ sender' = [sender EXCEPT ![s] = IF Allowed(o, OutRate)
                                           THEN [x EXCEPT !.pc = "send"] ELSE NoSender]
    BY <1>2, <1>4, <2>0, <2>n, <2>o, <2>q, <2>v, <2>x DEF CheckSendRate
  <2>3. CASE Allowed(o, OutRate)
    <3>y. PICK y : y = [x EXCEPT !.pc = "send"]
      OBVIOUS
    <3>1. y \in SendJob /\ y.pc = "send" /\ y.vm = v /\ sender' = [sender EXCEPT ![s] = y]
      BY <2>0, <2>2, <2>3, <2>v, <3>y DEF SendJob
    <3>2. q \in HourCount /\ q.hour = hour /\ q.count = Used(v) + 1 /\ q.count <= OutRate
      <4>1. CASE o.hour # hour
        <5>1. q = [count |-> 1, hour |-> hour] /\ Used(v) = 0
          BY <2>o, <2>q, <4>1 DEF Counted, Used
        <5>. QED  BY <2>1, <5>1, MailSizes DEF HourCount
      <4>2. CASE o.hour = hour
        <5>1. o.count < OutRate /\ Used(v) = o.count
          BY <2>3, <2>o, <4>2 DEF Allowed, Used
        <5>2. q = [o EXCEPT !.count = o.count + 1]
          BY <2>q, <4>2, <5>1 DEF Counted
        <5>3. q \in HourCount /\ q.hour = hour /\ q.count = o.count + 1
          BY <2>1, <4>2, <5>2 DEF HourCount
        <5>. QED  BY <2>1, <5>1, <5>3, MailSizes
      <4>. QED  BY <4>1, <4>2
    <3>3. n = relayed[v] /\ sender[s].pc # "send" /\ q.hour <= hour
      BY <2>0, <2>1, <2>n, <2>x, <3>2
    <3>4. /\ outCount' = [outCount EXCEPT ![v] = q] /\ relayed' = [relayed EXCEPT ![v] = n]
          /\ n \in Nat /\ v \in MailVMs
      BY <2>0, <2>2
    <3>5. /\ y.pc # "idle" => y.vm \in MailVMs
          /\ sender[s].pc = "send" => sender[s].vm = v
          /\ y.pc = "send" => y.vm = v
      BY <3>1, <3>3, <3>4
    <3>. QED  BY <3>1, <3>2, <3>3, <3>4, <3>5, OutMoves
  <2>4. CASE ~Allowed(o, OutRate)
    <3>1. q = outCount[v]
      BY <2>4, <2>o, <2>q DEF Allowed, Counted
    <3>2. sender' = [sender EXCEPT ![s] = NoSender] /\ n = relayed[v] /\ sender[s].pc # "send"
      BY <2>0, <2>2, <2>4, <2>n, <2>x
    <3>3. NoSender.pc # "idle" => NoSender.vm \in MailVMs
      BY Clean
    <3>4. NoSender \in SendJob /\ NoSender.pc # "send" /\ q \in HourCount /\ q.hour <= hour
          /\ q.count <= OutRate
      BY <2>1, <2>o, <3>1, Clean
    <3>5. /\ outCount' = [outCount EXCEPT ![v] = q] /\ relayed' = [relayed EXCEPT ![v] = n]
          /\ n \in Nat /\ v \in MailVMs
      BY <2>0, <2>2
    <3>6. /\ sender[s].pc = "send" => sender[s].vm = v
          /\ NoSender.pc = "send" => NoSender.vm = v
      BY <3>2, <3>4
    <3>. QED  BY <3>1, <3>2, <3>3, <3>4, <3>5, <3>6, OutMoves
  <2>. QED  BY <2>3, <2>4
<1>5. ASSUME NEW s \in Senders, NEW ok \in BOOLEAN, SendMail(s, ok) PROVE OutInv'
  <2>v. PICK v : v = sender[s].vm
    OBVIOUS
  <2>0. sender[s].pc = "send" /\ v \in MailVMs
    BY <1>5, <2>v DEF SendMail, OutInv
  <2>n. PICK n : n = IF ok THEN relayed[v] + 1 ELSE relayed[v]
    OBVIOUS
  <2>q. PICK q : q = outCount[v]
    OBVIOUS
  <2>1. /\ relayed' = [relayed EXCEPT ![v] = n] /\ sender' = [sender EXCEPT ![s] = NoSender]
        /\ outCount' = [outCount EXCEPT ![v] = q]
    BY <1>2, <1>5, <2>0, <2>n, <2>q, <2>v DEF SendMail
  <2>2. /\ n \in Nat /\ q \in HourCount /\ q.hour <= hour /\ q.count <= OutRate
        /\ NoSender \in SendJob /\ NoSender.pc = "idle"
    BY <1>2, <2>0, <2>n, <2>q, Clean
  <2>3. q = outCount[v] /\ (n = relayed[v] \/ n = relayed[v] + 1) /\ NoSender.pc # "send"
    BY <2>2, <2>n, <2>q
  <2>. QED  BY <2>0, <2>1, <2>2, <2>3, <2>v, OutMoves
<1>6. ASSUME NEW v \in MailVMs, NEW a \in Addresses, SetUserEmail(v, a) PROVE OutInv'
  BY <1>1, <1>6 DEF SetUserEmail
<1>. QED  BY <1>3, <1>4, <1>5, <1>6 DEF Outbound

LEMMA MailNextInv == InInv /\ OutInv /\ [MailNext]_mailVars => InInv' /\ OutInv'
<1>. SUFFICES ASSUME InInv, OutInv, [MailNext]_mailVars PROVE InInv' /\ OutInv'
  OBVIOUS
<1>1. ASSUME UNCHANGED inVars PROVE InInv'
  BY <1>1 DEF inVars, InInv, BoxOK, EnvelopeOK, Delivering
<1>2. ASSUME UNCHANGED <<outVars, hour>> PROVE OutInv'
  BY <1>2 DEF outVars, OutInv, RelayOK, Used, Sending
<1>3. CASE UNCHANGED mailVars
  BY <1>1, <1>2, <1>3 DEF mailVars
<1>4. CASE InboundNext
  BY <1>2, <1>4, InboundInv DEF InboundNext
<1>5. CASE OutboundNext
  BY <1>1, <1>5, OutboundInv DEF OutboundNext
<1>6. CASE NextHour
  <2>1. InInv'
    BY <1>1, <1>6 DEF NextHour
  <2>2. /\ hour' = hour + 1 /\ relayed' = [v \in MailVMs |-> 0] /\ UNCHANGED <<outCount, sender>>
        /\ hour \in Nat
    BY <1>6 DEF NextHour, OutInv
  <2>3. \A v \in MailVMs : outCount[v].hour < hour' /\ outCount[v].count <= OutRate
    BY <2>2 DEF OutInv, RelayOK, HourCount
  <2>4. OutInv'
    BY <2>2, <2>3, OutFresh DEF OutInv
  <2>. QED  BY <2>1, <2>4
<1>7. CASE CrashMail
  <2>0. /\ mailer' = [c \in Mailers |-> NoMailer] /\ sender' = [s \in Senders |-> NoSender]
        /\ outCount' = [v \in MailVMs |-> Unused] /\ relayed' = [v \in MailVMs |-> 0]
        /\ UNCHANGED <<newDir, mails, hour>>
    BY <1>7 DEF CrashMail
  <2>1. InInv'
    <3>1. mailer' \in [Mailers -> SmtpSession] /\ \A c \in Mailers : mailer'[c] = NoMailer
      BY <2>0, Dialogue
    <3>2. \A c \in Mailers : mailer'[c].pc \notin Delivery /\ EnvelopeOK(mailer'[c])
      BY <3>1, Dialogue DEF Delivery
    <3>3. /\ mails' \in Nat /\ newDir' \in [MailVMs -> SUBSET MailFile]
          /\ \A v \in MailVMs : newDir'[v] \subseteq newDir[v]
      BY <2>0 DEF InInv
    <3>. QED  BY <3>1, <3>2, <3>3, InShrinks
  <2>2. OutInv'
    <3>1. hour' \in Nat /\ outCount' \in [MailVMs -> HourCount] /\ sender' \in [Senders -> SendJob]
      BY <2>0, Clean DEF OutInv
    <3>2. \A v \in MailVMs : outCount'[v].hour < hour' /\ outCount'[v].count <= OutRate
      BY <2>0, <3>1, Clean, MailSizes
    <3>3. \A s \in Senders : sender'[s].pc # "idle" => sender'[s].vm \in MailVMs
      BY <2>0, Clean
    <3>. QED  BY <2>0, <3>1, <3>2, <3>3, OutFresh
  <2>. QED  BY <2>1, <2>2
<1>. QED  BY <1>3, <1>4, <1>5, <1>6, <1>7 DEF MailNext, Ambient

(* What a guest finds in Maildir/new is whole and addressed to it, for any *)
(* VMs, connections and interleaving of deliveries, over failed writes and *)
(* crashes.                                                                *)
THEOREM MailArrivesWhole == MailSpec => []MailIsWholeAndOwn
<1>1. InInv => MailIsWholeAndOwn
  BY DEF InInv, BoxOK, MailIsWholeAndOwn
<1>. QED  BY <1>1, InInitInv, OutInitInv, MailNextInv, PTL DEF MailSpec

(* Both limits hold for every size of mailbox, hourly rate and number of   *)
(* connections: a mailbox outgrows its limit by less than the deliveries   *)
(* at one time, a VM's hour by no more than the requests at one time.      *)
THEOREM MailKeepsLimits == MailSpec => []MailLimitsHold
<1>1. InInv => MailboxBounded
  BY DEF InInv, BoxOK, MailboxBounded, Delivering, Delivery
<1>2. OutInv => RelayBounded
  <2>. SUFFICES ASSUME OutInv, NEW v \in MailVMs
                PROVE  relayed[v] <= OutRate + Cardinality(Senders)
    BY DEF RelayBounded
  <2>1. Cardinality(Sending(v)) \in Nat
    <3>1. Sending(v) \subseteq Senders
      BY DEF Sending
    <3>. QED  BY <3>1, MailSizes, FS_Subset, FS_CardinalityType
  <2>2. /\ outCount[v].count \in Nat /\ outCount[v].count <= OutRate /\ relayed[v] \in Nat
        /\ relayed[v] + Cardinality(Sending(v)) <= Used(v) + Cardinality(Senders)
    BY DEF OutInv, RelayOK, HourCount
  <2>3. Used(v) \in Nat /\ Used(v) <= OutRate
    BY <2>2, MailSizes DEF Used
  <2>. QED  BY <2>1, <2>2, <2>3, MailSizes
<1>. QED  BY <1>1, <1>2, InInitInv, OutInitInv, MailNextInv, PTL DEF MailSpec, MailLimitsHold

-----------------------------------------------------------------------------
(* The arena.  A count that a join has read is never larger than the       *)
(* number of players, who never leave; and where joins do not overlap it   *)
(* is exact until the join inserts.                                        *)

Command == [pc : {"prompt", "autojoin", "member", "count", "join", "start"},
            player : Players \cup {"none"}, match : Matches \cup {"none"}, count : Nat]

CommandOK(x) ==
    /\ x.match = "none" <=> x.pc = "prompt"
    /\ x.match # "none" => x.player \in Players

ReadOK(t, m) ==
    /\ term[t].pc = "join" => term[t].count <= Cardinality(joined[m])
    /\ term[t].pc = "start" => Cardinality(joined[m]) >= maxAgents[m]

AloneOK(t, m) ==
    /\ Joining(m) = {t}
    /\ term[t].pc = "autojoin" => joined[m] = {}
    /\ term[t].pc = "join" => /\ term[t].count = Cardinality(joined[m])
                              /\ term[t].count < maxAgents[m]

FullOK(m) ==
    /\ Cardinality(joined[m]) <= maxAgents[m]
    /\ Cardinality(joined[m]) = maxAgents[m] =>
          status[m] = "running" \/ \E t \in Joining(m) : term[t].pc = "start"

MatchOK(m) ==
    /\ IsFiniteSet(joined[m])
    /\ status[m] = "absent" => Joining(m) = {} /\ joined[m] = {}
    /\ status[m] # "absent" => maxAgents[m] >= 2
    /\ status[m] = "running" => Cardinality(joined[m]) >= maxAgents[m]
    /\ \A t \in Joining(m) : ReadOK(t, m)
    /\ m \notin raced => \A t \in Joining(m) : AloneOK(t, m)
    /\ m \notin raced /\ status[m] # "absent" => FullOK(m)

ArenaInv ==
    /\ status \in [Matches -> {"absent", "waiting", "running"}]
    /\ maxAgents \in [Matches -> Nat]
    /\ joined \in [Matches -> SUBSET Players]
    /\ term \in [Terminals -> Command]
    /\ \A t \in Terminals : CommandOK(term[t])
    /\ \A m \in Matches : MatchOK(m)

LEMMA Idle == NoCommand \in Command /\ CommandOK(NoCommand) /\ NoCommand.match = "none"
BY DEF NoCommand, Command, CommandOK

LEMMA NoneIsNoMatch == "none" \notin Matches
BY ArenaAssumption

(* Terminal t moves to y and touches match m alone. *)
LEMMA ArenaMoves ==
    ASSUME ArenaInv, NEW t \in Terminals, NEW m \in Matches, NEW y \in Command, CommandOK(y),
           term' = [term EXCEPT ![t] = y],
           term[t].match \in {m, "none"}, y.match \in {m, "none"},
           NEW st \in {"absent", "waiting", "running"}, status' = [status EXCEPT ![m] = st],
           NEW k \in Nat, maxAgents' = [maxAgents EXCEPT ![m] = k],
           NEW J \in SUBSET Players, joined' = [joined EXCEPT ![m] = J],
           \A w \in Matches : w # m => (w \in raced' <=> w \in raced),
           MatchOK(m)'
    PROVE  ArenaInv'
<1>1. \A u \in Terminals : term'[u] = IF u = t THEN y ELSE term[u]
  BY DEF ArenaInv
<1>2. \A w \in Matches : w # m => /\ status'[w] = status[w] /\ maxAgents'[w] = maxAgents[w]
                                  /\ joined'[w] = joined[w]
  BY DEF ArenaInv
<1>3. ASSUME NEW w \in Matches, w # m PROVE MatchOK(w)'
  <2>1. Joining(w)' = Joining(w) /\ t \notin Joining(w)
    BY <1>1, <1>3, NoneIsNoMatch DEF Joining
  <2>2. \A u \in Joining(w) : term'[u] = term[u]
    BY <1>1, <2>1 DEF Joining
  <2>3. MatchOK(w)
    BY DEF ArenaInv
  <2>4. \A u \in Joining(w) : (ReadOK(u, w) => ReadOK(u, w)') /\ (AloneOK(u, w) => AloneOK(u, w)')
    BY <1>2, <1>3, <2>1, <2>2 DEF ReadOK, AloneOK
  <2>5. FullOK(w) => FullOK(w)'
    BY <1>2, <1>3, <2>1, <2>2 DEF FullOK
  <2>. QED  BY <1>2, <1>3, <2>1, <2>3, <2>4, <2>5 DEF MatchOK
<1>4. /\ status' \in [Matches -> {"absent", "waiting", "running"}]
      /\ maxAgents' \in [Matches -> Nat] /\ joined' \in [Matches -> SUBSET Players]
      /\ term' \in [Terminals -> Command]
  BY DEF ArenaInv
<1>5. \A u \in Terminals : CommandOK(term'[u])
  BY <1>1 DEF ArenaInv
<1>6. \A u \in Terminals : CommandOK(term[u])'
  BY <1>5 DEF CommandOK
<1>. QED  BY <1>3, <1>4, <1>6 DEF ArenaInv

(* A terminal that is joining m moves to y, or back to its prompt. *)
LEMMA JoinerMoves ==
    ASSUME ArenaInv, NEW t \in Terminals, NEW m \in Matches, term[t].match = m,
           NEW y \in Command, CommandOK(y), y.match \in {m, "none"},
           term' = [term EXCEPT ![t] = y],
           NEW st \in {"waiting", "running"}, status' = [status EXCEPT ![m] = st],
           maxAgents' = maxAgents, raced' = raced,
           NEW J \in SUBSET Players, joined' = [joined EXCEPT ![m] = J],
           joined[m] \subseteq J, IsFiniteSet(J),
           y.pc # "autojoin",
           y.pc = "join" => y.count = Cardinality(J) /\ y.count < maxAgents[m],
           y.pc = "start" => Cardinality(J) >= maxAgents[m],
           st = "running" => Cardinality(J) >= maxAgents[m],
           m \notin raced => /\ Cardinality(J) <= maxAgents[m]
                             /\ Cardinality(J) = maxAgents[m] => st = "running" \/ y.pc = "start"
    PROVE  ArenaInv'
<1>k. PICK k : k = maxAgents[m]
  OBVIOUS
<1>n. PICK n : n = Cardinality(J)
  OBVIOUS
<1>0. /\ MatchOK(m) /\ k \in Nat /\ n \in Nat /\ Cardinality(joined[m]) \in Nat
      /\ Cardinality(joined[m]) <= n /\ t \in Joining(m)
  <2>1. MatchOK(m) /\ k \in Nat /\ t \in Joining(m)
    BY <1>k DEF ArenaInv, Joining
  <2>. QED  BY <1>n, <2>1, FS_Subset, FS_CardinalityType DEF MatchOK
<1>1. /\ \A u \in Joining(m)' : u # t => u \in Joining(m) /\ term'[u] = term[u]
      /\ t \in Joining(m)' <=> y.match = m
      /\ term'[t] = y
  BY DEF ArenaInv, Joining
<1>2. status'[m] = st /\ joined'[m] = J /\ maxAgents'[m] = k
  BY <1>k DEF ArenaInv
<1>3. k >= 2
  BY <1>0, <1>k DEF MatchOK
<1>4. ASSUME NEW u \in Joining(m)' PROVE ReadOK(u, m)'
  <2>1. CASE u = t
    <3>1. /\ term'[u].pc = "join" => term'[u].count <= n
          /\ term'[u].pc = "start" => n >= k
      BY <1>0, <1>1, <1>k, <1>n, <2>1
    <3>. QED  BY <1>2, <1>n, <3>1 DEF ReadOK
  <2>2. CASE u # t
    <3>1. u \in Joining(m) /\ term'[u] = term[u] /\ ReadOK(u, m) /\ term[u] \in Command
      BY <1>0, <1>1, <2>2 DEF MatchOK, ArenaInv, Joining
    <3>2. /\ term[u].pc = "join" => term[u].count <= n
          /\ term[u].pc = "start" => n >= k
      BY <1>0, <1>k, <3>1 DEF ReadOK, Command
    <3>. QED  BY <1>2, <1>n, <3>1, <3>2 DEF ReadOK
  <2>. QED  BY <2>1, <2>2
<1>5. ASSUME m \notin raced, NEW u \in Joining(m)' PROVE AloneOK(u, m)'
  <2>1. Joining(m) = {t}
    BY <1>0, <1>5 DEF MatchOK, AloneOK
  <2>2. u = t /\ Joining(m)' = {t} /\ term'[u] = y
    BY <1>1, <1>5, <2>1
  <2>. QED  BY <1>2, <1>k, <2>2 DEF AloneOK
<1>6. ASSUME m \notin raced PROVE FullOK(m)'
  <2>1. n <= k /\ (n = k => st = "running" \/ y.pc = "start")
    BY <1>6, <1>k, <1>n
  <2>2. ASSUME y.pc = "start" PROVE t \in Joining(m)' /\ term'[t].pc = "start"
    BY <1>1, <2>2 DEF CommandOK
  <2>. QED  BY <1>2, <1>n, <2>1, <2>2 DEF FullOK
<1>7. MatchOK(m)'
  <2>1. status'[m] # "absent" /\ IsFiniteSet(joined'[m]) /\ maxAgents'[m] >= 2
    BY <1>2, <1>3
  <2>2. status'[m] = "running" => Cardinality(joined'[m]) >= maxAgents'[m]
    BY <1>2, <1>k
  <2>. QED  BY <1>4, <1>5, <1>6, <2>1, <2>2 DEF MatchOK
<1>8. maxAgents' = [maxAgents EXCEPT ![m] = k]
  BY <1>k DEF ArenaInv
<1>. QED  BY <1>0, <1>7, <1>8, ArenaMoves

(* A terminal at its prompt begins with match m. *)
LEMMA Begins ==
    ASSUME ArenaInv, NEW t \in Terminals, NEW m \in Matches, On(t, "prompt"), term[t].match = "none",
           NEW y \in Command, CommandOK(y), y.match = m, y.pc \in {"autojoin", "member"},
           term' = [term EXCEPT ![t] = y], joined' = joined,
           status' = [status EXCEPT ![m] = "waiting"],
           NEW k \in Nat, k >= 2, maxAgents' = [maxAgents EXCEPT ![m] = k],
           \A w \in Matches : w # m => (w \in raced' <=> w \in raced),
           \/ y.pc = "autojoin" /\ status[m] = "absent"
           \/ y.pc = "member" /\ status[m] = "waiting" /\ k = maxAgents[m],
           m \notin raced' => m \notin raced /\ Joining(m) = {}
    PROVE  ArenaInv'
<1>J. PICK J : J = joined[m]
  OBVIOUS
<1>0. MatchOK(m) /\ IsFiniteSet(J) /\ Cardinality(J) \in Nat
  BY <1>J, FS_CardinalityType DEF ArenaInv, MatchOK
<1>1. /\ \A u \in Joining(m)' : u # t => u \in Joining(m) /\ term'[u] = term[u]
      /\ t \in Joining(m)'
      /\ term'[t] = y
  BY DEF ArenaInv, Joining
<1>2. status'[m] = "waiting" /\ joined'[m] = J /\ maxAgents'[m] = k
  BY <1>J DEF ArenaInv
<1>3. status[m] = "absent" => Joining(m) = {} /\ J = {} /\ Cardinality(J) = 0
  BY <1>0, <1>J, FS_EmptySet DEF MatchOK
<1>4. ASSUME NEW u \in Joining(m)' PROVE ReadOK(u, m)'
  <2>1. CASE u = t
    BY <1>1, <2>1 DEF ReadOK
  <2>2. CASE u # t
    <3>1. u \in Joining(m) /\ term'[u] = term[u] /\ ReadOK(u, m)
      BY <1>0, <1>1, <2>2 DEF MatchOK
    <3>2. k = maxAgents[m]
      BY <1>3, <3>1
    <3>. QED  BY <1>2, <1>J, <3>1, <3>2 DEF ReadOK
  <2>. QED  BY <2>1, <2>2
<1>5. ASSUME m \notin raced', NEW u \in Joining(m)' PROVE AloneOK(u, m)'
  <2>1. u = t /\ Joining(m)' = {t} /\ term'[u] = y
    BY <1>1, <1>5
  <2>2. y.pc = "autojoin" => J = {}
    BY <1>3
  <2>. QED  BY <1>2, <2>1, <2>2 DEF AloneOK
<1>6. ASSUME m \notin raced' PROVE FullOK(m)'
  <2>1. Cardinality(J) < k
    <3>1. CASE status[m] = "absent"
      BY <1>3, <3>1
    <3>2. CASE status[m] = "waiting" /\ k = maxAgents[m]
      <4>1. FullOK(m) /\ Joining(m) = {}
        BY <1>0, <1>6, <3>2 DEF MatchOK
      <4>. QED  BY <1>0, <1>J, <3>2, <4>1 DEF FullOK
    <3>. QED  BY <3>1, <3>2
  <2>. QED  BY <1>0, <1>2, <2>1 DEF FullOK
<1>7. MatchOK(m)'
  <2>1. status'[m] = "waiting" /\ IsFiniteSet(joined'[m]) /\ maxAgents'[m] >= 2
    BY <1>0, <1>2
  <2>. QED  BY <1>4, <1>5, <1>6, <2>1 DEF MatchOK
<1>8. joined' = [joined EXCEPT ![m] = J] /\ J \in SUBSET Players
  BY <1>J DEF ArenaInv
<1>. QED  BY <1>7, <1>8, ArenaMoves

LEMMA ArenaInitInv == ArenaInit => ArenaInv
<1>. SUFFICES ASSUME ArenaInit PROVE ArenaInv
  OBVIOUS
<1>1. /\ status = [m \in Matches |-> "absent"] /\ maxAgents = [m \in Matches |-> 0]
      /\ joined = [m \in Matches |-> {}] /\ term = [t \in Terminals |-> NoCommand]
  BY DEF ArenaInit
<1>2. ASSUME NEW m \in Matches PROVE MatchOK(m)
  <2>1. Joining(m) = {} /\ status[m] = "absent" /\ joined[m] = {}
    BY <1>1, Idle, NoneIsNoMatch DEF Joining
  <2>. QED  BY <2>1, FS_EmptySet DEF MatchOK
<1>. QED  BY <1>1, <1>2, Idle DEF ArenaInv

LEMMA ArenaNextInv == ArenaInv /\ [ArenaNext]_arenaVars => ArenaInv'
<1>. SUFFICES ASSUME ArenaInv, [ArenaNext]_arenaVars PROVE ArenaInv'
  OBVIOUS
<1>a. ASSUME NEW t \in Terminals
      PROVE  term[t] \in Command /\ CommandOK(term[t])
  BY DEF ArenaInv
<1>1. CASE UNCHANGED arenaVars
  BY <1>1 DEF arenaVars, ArenaInv, MatchOK, ReadOK, AloneOK, FullOK, Joining, CommandOK
<1>2. CASE CrashArena
  <2>0. /\ term' = [t \in Terminals |-> NoCommand]
        /\ raced' = raced \cup {m \in Matches : Joining(m) # {}}
        /\ UNCHANGED <<status, maxAgents, joined>>
    BY <1>2 DEF CrashArena
  <2>1. ASSUME NEW m \in Matches PROVE MatchOK(m)'
    <3>1. Joining(m)' = {}
      BY <2>0, Idle, NoneIsNoMatch DEF Joining
    <3>2. m \notin raced' => m \notin raced /\ Joining(m) = {}
      BY <2>0
    <3>3. MatchOK(m)
      BY DEF ArenaInv
    <3>4. FullOK(m) /\ Joining(m) = {} => FullOK(m)'
      BY <2>0 DEF FullOK
    <3>. QED  BY <2>0, <3>1, <3>2, <3>3, <3>4 DEF MatchOK
  <2>2. \A t \in Terminals : term'[t] = NoCommand
    BY <2>0
  <2>3. ASSUME NEW t \in Terminals PROVE CommandOK(term[t])'
    BY <2>2, Idle DEF CommandOK
  <2>. QED  BY <2>0, <2>1, <2>3, Idle DEF ArenaInv
<1>3. ASSUME NEW t \in Terminals, NEW p \in Players, NEW m \in Matches, NEW n \in AgentCounts,
             CreateArenaMatch(t, p, m, n)
      PROVE  ArenaInv'
  <2>k. PICK k : k = IF ScenarioMax > 0 /\ n > ScenarioMax THEN ScenarioMax ELSE n
    OBVIOUS
  <2>y. PICK y : y = [pc |-> "autojoin", player |-> p, match |-> m, count |-> 0]
    OBVIOUS
  <2>1. /\ On(t, "prompt") /\ status[m] = "absent" /\ status' = [status EXCEPT ![m] = "waiting"]
        /\ maxAgents' = [maxAgents EXCEPT ![m] = k] /\ term' = [term EXCEPT ![t] = y]
        /\ joined' = joined /\ raced' = raced
    BY <1>3, <2>k, <2>y DEF CreateArenaMatch
  <2>2. k \in Nat /\ k >= 2
    BY <2>k, ArenaAssumption
  <2>3. y \in Command /\ CommandOK(y) /\ y.match = m /\ y.pc = "autojoin"
    BY <2>y, NoneIsNoMatch DEF Command, CommandOK
  <2>4. Joining(m) = {}
    BY <2>1 DEF ArenaInv, MatchOK
  <2>5. term[t].match = "none" /\ \A w \in Matches : w # m => (w \in raced' <=> w \in raced)
    BY <1>a, <2>1 DEF CommandOK, On
  <2>6. m \notin raced' => m \notin raced /\ Joining(m) = {}
    BY <2>1, <2>4
  <2>. QED  BY <2>1, <2>2, <2>3, <2>5, <2>6, Begins
<1>4. ASSUME NEW t \in Terminals, NEW p \in Players, NEW m \in Matches, GetArenaMatch(t, p, m)
      PROVE  ArenaInv'
  <2>y. PICK y : y = [pc |-> "member", player |-> p, match |-> m, count |-> 0]
    OBVIOUS
  <2>k. PICK k : k = maxAgents[m]
    OBVIOUS
  <2>0. /\ On(t, "prompt") /\ status[m] = "waiting" /\ term' = [term EXCEPT ![t] = y]
        /\ raced' = IF Joining(m) = {} THEN raced ELSE raced \cup {m}
        /\ UNCHANGED <<status, maxAgents, joined>>
    BY <1>4, <2>y DEF GetArenaMatch
  <2>1. /\ status' = [status EXCEPT ![m] = "waiting"] /\ maxAgents' = [maxAgents EXCEPT ![m] = k]
    BY <2>0, <2>k DEF ArenaInv
  <2>2. k \in Nat /\ k >= 2
    BY <2>0, <2>k DEF ArenaInv, MatchOK
  <2>3. y \in Command /\ CommandOK(y) /\ y.match = m /\ y.pc = "member"
    BY <2>y, NoneIsNoMatch DEF Command, CommandOK
  <2>4. /\ \A w \in Matches : w # m => (w \in raced' <=> w \in raced)
        /\ m \notin raced' => m \notin raced /\ Joining(m) = {}
    BY <2>0
  <2>5. /\ On(t, "prompt") /\ status[m] = "waiting" /\ term' = [term EXCEPT ![t] = y]
        /\ joined' = joined /\ term[t].match = "none"
    BY <1>a, <2>0 DEF CommandOK, On
  <2>. QED  BY <2>1, <2>2, <2>3, <2>4, <2>5, <2>k, Begins
<1>5. ASSUME NEW t \in Terminals, ~On(t, "prompt"), NEW m, m = term[t].match,
             NEW n, n = Cardinality(joined[m])
      PROVE  /\ m \in Matches /\ term[t].player \in Players /\ t \in Joining(m) /\ MatchOK(m)
             /\ status[m] \in {"waiting", "running"} /\ maxAgents[m] \in Nat /\ maxAgents[m] >= 2
             /\ joined[m] \in SUBSET Players /\ IsFiniteSet(joined[m]) /\ n \in Nat
             /\ status = [status EXCEPT ![m] = status[m]]
             /\ joined = [joined EXCEPT ![m] = joined[m]]
  <2>1. m \in Matches /\ term[t].player \in Players /\ t \in Joining(m)
    BY <1>5, <1>a DEF On, CommandOK, Command, Joining
  <2>2. /\ MatchOK(m) /\ status[m] \in {"absent", "waiting", "running"} /\ maxAgents[m] \in Nat
        /\ joined[m] \in SUBSET Players
        /\ status = [status EXCEPT ![m] = status[m]] /\ joined = [joined EXCEPT ![m] = joined[m]]
    BY <2>1 DEF ArenaInv
  <2>3. /\ status[m] # "absent" /\ maxAgents[m] >= 2 /\ IsFiniteSet(joined[m])
    BY <2>1, <2>2 DEF MatchOK
  <2>. QED  BY <1>5, <2>1, <2>2, <2>3, FS_CardinalityType
(* A step that only reads, of a command that is not about to start m. *)
<1>6. ASSUME NEW t \in Terminals, ~On(t, "prompt"), ~On(t, "start"),
             NEW m, m = term[t].match,
             NEW y \in Command, CommandOK(y), y.match \in {m, "none"},
             term' = [term EXCEPT ![t] = y], UNCHANGED <<status, maxAgents, joined, raced>>,
             y.pc \in {"prompt", "count", "join"},
             y.pc = "join" => y.count = Cardinality(joined[m]) /\ y.count < maxAgents[m]
      PROVE  ArenaInv'
  <2>n. PICK n : n = Cardinality(joined[m])
    OBVIOUS
  <2>J. PICK J : J = joined[m]
    OBVIOUS
  <2>s. PICK st : st = status[m]
    OBVIOUS
  <2>1. /\ m \in Matches /\ t \in Joining(m) /\ MatchOK(m) /\ st \in {"waiting", "running"}
        /\ J \in SUBSET Players /\ IsFiniteSet(J) /\ joined[m] \subseteq J
    BY <1>5, <1>6, <2>J, <2>s
  <2>2. status' = [status EXCEPT ![m] = st] /\ joined' = [joined EXCEPT ![m] = J]
    BY <1>5, <1>6, <2>J, <2>s
  <2>3. st = "running" => Cardinality(J) >= maxAgents[m]
    BY <2>1, <2>J, <2>s DEF MatchOK
  <2>4. ASSUME m \notin raced
        PROVE  /\ Cardinality(J) <= maxAgents[m]
               /\ Cardinality(J) = maxAgents[m] => st = "running" \/ y.pc = "start"
    <3>1. Joining(m) = {t} /\ FullOK(m)
      BY <2>1, <2>4, <2>s DEF MatchOK, AloneOK
    <3>. QED  BY <1>6, <2>J, <2>s, <3>1 DEF FullOK, On
  <2>5. maxAgents' = maxAgents /\ raced' = raced /\ y.pc # "autojoin" /\ y.pc # "start"
        /\ term[t].match = m
    BY <1>6
  <2>6. y.pc = "join" => y.count = Cardinality(J) /\ y.count < maxAgents[m]
    BY <1>6, <2>J
  <2>7. term' = [term EXCEPT ![t] = y] /\ CommandOK(y) /\ y.match \in {m, "none"}
    BY <1>6
  <2>. QED  BY <1>6, <2>1, <2>2, <2>3, <2>4, <2>5, <2>6, <2>7, JoinerMoves
<1>7. ASSUME NEW t \in Terminals, IsArenaParticipant(t) PROVE ArenaInv'
  <2>m. PICK m : m = term[t].match
    OBVIOUS
  <2>0. ~On(t, "prompt") /\ ~On(t, "start") /\ UNCHANGED <<status, maxAgents, joined, raced>>
    BY <1>7 DEF IsArenaParticipant, On
  <2>1. CASE Prompt(t)
    BY <1>6, <2>0, <2>1, <2>m, Idle DEF Prompt, NoCommand
  <2>2. CASE term' = [term EXCEPT ![t].pc = "count"]
    <3>y. PICK y : y = [term[t] EXCEPT !.pc = "count"]
      OBVIOUS
    <3>1. term' = [term EXCEPT ![t] = y]
      BY <2>2, <3>y
    <3>2. y \in Command /\ y.pc = "count" /\ y.match = m /\ y.player = term[t].player
      BY <1>a, <2>m, <3>y DEF Command
    <3>3. CommandOK(y)
      BY <1>a, <2>0, <2>m, <3>2 DEF CommandOK, On
    <3>. QED  BY <1>6, <2>0, <2>m, <3>1, <3>2, <3>3
  <2>. QED  BY <1>7, <2>1, <2>2 DEF IsArenaParticipant
<1>8. ASSUME NEW t \in Terminals, ArenaParticipantCount(t) PROVE ArenaInv'
  <2>m. PICK m : m = term[t].match
    OBVIOUS
  <2>n. PICK n : n = Cardinality(joined[m])
    OBVIOUS
  <2>0. ~On(t, "prompt") /\ ~On(t, "start") /\ UNCHANGED <<status, maxAgents, joined, raced>>
    BY <1>8 DEF ArenaParticipantCount, On
  <2>1. CASE Prompt(t)
    BY <1>6, <2>0, <2>1, <2>m, Idle DEF Prompt, NoCommand
  <2>2. CASE /\ term' = [term EXCEPT ![t].pc = "join", ![t].count = n]
             /\ ~(n >= maxAgents[m])
    <3>y. PICK y : y = [term[t] EXCEPT !.pc = "join", !.count = n]
      OBVIOUS
    <3>0. n \in Nat /\ maxAgents[m] \in Nat
      BY <1>5, <2>0, <2>m, <2>n
    <3>1. term' = [term EXCEPT ![t] = y]
      BY <2>2, <3>y
    <3>2. y \in Command /\ y.pc = "join" /\ y.match = m /\ y.player = term[t].player /\ y.count = n
      BY <1>a, <2>m, <3>0, <3>y DEF Command
    <3>3. CommandOK(y)
      BY <1>a, <2>0, <2>m, <3>2 DEF CommandOK, On
    <3>4. y.count < maxAgents[m]
      BY <2>2, <3>0, <3>2
    <3>. QED  BY <1>6, <2>0, <2>m, <2>n, <3>1, <3>2, <3>3, <3>4
  <2>. QED  BY <1>8, <2>1, <2>2, <2>m, <2>n DEF ArenaParticipantCount
<1>9. ASSUME NEW t \in Terminals, NEW m, m = term[t].match, NEW J, J = joined[m] \cup {term[t].player},
             ~On(t, "prompt")
      PROVE  /\ J \in SUBSET Players /\ IsFiniteSet(J) /\ joined[m] \subseteq J
             /\ Cardinality(J) \in Nat /\ Cardinality(joined[m]) \in Nat
             /\ term[t].player \in joined[m] => Cardinality(J) = Cardinality(joined[m])
             /\ term[t].player \notin joined[m] => Cardinality(J) = Cardinality(joined[m]) + 1
  <2>1. IsFiniteSet(joined[m]) /\ term[t].player \in Players /\ joined[m] \in SUBSET Players
    BY <1>5, <1>9
  <2>. QED  BY <1>9, <2>1, FS_AddElement, FS_CardinalityType
<1>10. ASSUME NEW t \in Terminals, AutoJoin(t) PROVE ArenaInv'
  <2>m. PICK m : m = term[t].match
    OBVIOUS
  <2>J. PICK J : J = joined[m] \cup {term[t].player}
    OBVIOUS
  <2>s. PICK st : st = status[m]
    OBVIOUS
  <2>0. ~On(t, "prompt") /\ joined' = [joined EXCEPT ![m] = J] /\ maxAgents' = maxAgents
        /\ raced' = raced /\ term' = [term EXCEPT ![t] = NoCommand] /\ term[t].pc = "autojoin"
        /\ status' = status
    BY <1>10, <2>J, <2>m DEF AutoJoin, On, Prompt
  <2>1. /\ m \in Matches /\ t \in Joining(m) /\ MatchOK(m) /\ st \in {"waiting", "running"}
        /\ maxAgents[m] \in Nat /\ maxAgents[m] >= 2 /\ status = [status EXCEPT ![m] = st]
    BY <1>5, <2>0, <2>m, <2>s
  <2>2. /\ J \in SUBSET Players /\ IsFiniteSet(J) /\ joined[m] \subseteq J
        /\ Cardinality(J) \in Nat /\ Cardinality(joined[m]) \in Nat
        /\ Cardinality(joined[m]) <= Cardinality(J)
        /\ Cardinality(J) <= Cardinality(joined[m]) + 1
    BY <1>9, <2>0, <2>J, <2>m
  <2>3. st = "running" => Cardinality(J) >= maxAgents[m]
    BY <2>1, <2>2, <2>s DEF MatchOK
  <2>4. ASSUME m \notin raced
        PROVE  Cardinality(J) <= maxAgents[m] /\ Cardinality(J) # maxAgents[m]
    <3>1. joined[m] = {}
      BY <2>0, <2>1, <2>4 DEF MatchOK, AloneOK
    <3>. QED  BY <2>1, <2>2, <3>1, FS_EmptySet
  <2>5. NoCommand.pc = "prompt" /\ NoCommand.match \in {m, "none"}
    BY DEF NoCommand
  <2>6. status' = [status EXCEPT ![m] = st] /\ term[t].match = m
    BY <2>0, <2>1, <2>m
  <2>7. joined' = [joined EXCEPT ![m] = J] /\ maxAgents' = maxAgents
        /\ raced' = raced /\ term' = [term EXCEPT ![t] = NoCommand]
    BY <2>0
  <2>. QED  BY <2>1, <2>2, <2>3, <2>4, <2>5, <2>6, <2>7, Idle, JoinerMoves
<1>11. ASSUME NEW t \in Terminals, JoinArenaMatch(t) PROVE ArenaInv'
  <2>x. PICK x : x = term[t]
    OBVIOUS
  <2>m. PICK m : m = x.match
    OBVIOUS
  <2>J. PICK J : J = joined[m] \cup {x.player}
    OBVIOUS
  <2>s. PICK st : st = status[m]
    OBVIOUS
  <2>S. PICK S : S <=> (x.player \notin joined[m] /\ x.count + 1 >= maxAgents[m])
    OBVIOUS
  <2>y. PICK y : y = IF S THEN [x EXCEPT !.pc = "start"] ELSE NoCommand
    OBVIOUS
  <2>0. /\ ~On(t, "prompt") /\ joined' = [joined EXCEPT ![m] = J] /\ maxAgents' = maxAgents
        /\ raced' = raced /\ x.pc = "join" /\ status' = status
    BY <1>11, <2>J, <2>m, <2>x DEF JoinArenaMatch, On
  <2>t. term' = [term EXCEPT ![t] = y]
    BY <1>11, <2>S, <2>m, <2>x, <2>y DEF JoinArenaMatch, Prompt
  <2>1. /\ m \in Matches /\ t \in Joining(m) /\ MatchOK(m) /\ st \in {"waiting", "running"}
        /\ maxAgents[m] \in Nat /\ maxAgents[m] >= 2 /\ status = [status EXCEPT ![m] = st]
    BY <1>5, <2>0, <2>m, <2>s, <2>x
  <2>2. /\ J \in SUBSET Players /\ IsFiniteSet(J) /\ joined[m] \subseteq J
        /\ Cardinality(J) \in Nat /\ Cardinality(joined[m]) \in Nat
        /\ x.player \in joined[m] => Cardinality(J) = Cardinality(joined[m])
        /\ x.player \notin joined[m] => Cardinality(J) = Cardinality(joined[m]) + 1
    BY <1>9, <2>0, <2>J, <2>m, <2>x
  <2>3. st = "running" => Cardinality(J) >= maxAgents[m]
    BY <2>1, <2>2, <2>s DEF MatchOK
  <2>4. x.count <= Cardinality(joined[m]) /\ x.count \in Nat
    BY <1>a, <2>0, <2>1, <2>x DEF MatchOK, ReadOK, Command
  <2>5. /\ y \in Command /\ CommandOK(y) /\ y.match \in {m, "none"}
        /\ S => y.pc = "start"
        /\ ~S => y.pc = "prompt"
    <3>1. CASE S
      <4>1. y = [x EXCEPT !.pc = "start"] /\ x \in Command /\ CommandOK(x)
        BY <1>a, <2>x, <2>y, <3>1
      <4>2. y \in Command /\ y.pc = "start" /\ y.match = x.match /\ y.player = x.player
        BY <4>1 DEF Command
      <4>. QED  BY <2>0, <2>m, <3>1, <4>1, <4>2 DEF CommandOK
    <3>2. CASE ~S
      BY <2>y, <3>2, Idle DEF NoCommand
    <3>. QED  BY <3>1, <3>2
  <2>6. y.pc = "start" => Cardinality(J) >= maxAgents[m]
    BY <2>1, <2>2, <2>4, <2>5, <2>S
  <2>7. ASSUME m \notin raced
        PROVE  /\ Cardinality(J) <= maxAgents[m]
               /\ Cardinality(J) = maxAgents[m] => y.pc = "start"
    <3>1. x.count = Cardinality(joined[m]) /\ x.count < maxAgents[m]
      BY <2>0, <2>1, <2>7, <2>x DEF MatchOK, AloneOK
    <3>. QED  BY <2>1, <2>2, <2>4, <2>5, <2>S, <3>1
  <2>8. /\ status' = [status EXCEPT ![m] = st] /\ term[t].match = m
        /\ y.pc # "autojoin" /\ y.pc # "join"
    BY <2>0, <2>1, <2>5, <2>m, <2>x
  <2>9. joined' = [joined EXCEPT ![m] = J] /\ maxAgents' = maxAgents /\ raced' = raced
    BY <2>0
  <2>. QED  BY <2>1, <2>2, <2>3, <2>5, <2>6, <2>7, <2>8, <2>9, <2>t, JoinerMoves
<1>12. ASSUME NEW t \in Terminals, StartMatch(t) PROVE ArenaInv'
  <2>m. PICK m : m = term[t].match
    OBVIOUS
  <2>J. PICK J : J = joined[m]
    OBVIOUS
  <2>0. /\ ~On(t, "prompt") /\ status' = [status EXCEPT ![m] = "running"]
        /\ term' = [term EXCEPT ![t] = NoCommand] /\ term[t].pc = "start"
        /\ maxAgents' = maxAgents /\ raced' = raced
    BY <1>12, <2>m DEF StartMatch, On, Prompt
  <2>1. /\ m \in Matches /\ t \in Joining(m) /\ MatchOK(m) /\ status[m] # "absent"
        /\ J \in SUBSET Players /\ IsFiniteSet(J) /\ joined[m] \subseteq J
        /\ joined = [joined EXCEPT ![m] = J]
    BY <1>5, <2>0, <2>J, <2>m
  <2>2. joined' = [joined EXCEPT ![m] = J] /\ term[t].match = m
    BY <1>12, <2>1, <2>m DEF StartMatch
  <2>3. Cardinality(J) >= maxAgents[m]
    BY <2>0, <2>1, <2>J DEF MatchOK, ReadOK
  <2>4. m \notin raced => Cardinality(J) <= maxAgents[m]
    BY <2>1, <2>J DEF MatchOK, FullOK
  <2>5. NoCommand.pc = "prompt" /\ NoCommand.match \in {m, "none"}
    BY DEF NoCommand
  <2>. QED  BY <2>0, <2>1, <2>2, <2>3, <2>4, <2>5, Idle, JoinerMoves
<1>. QED  BY <1>1, <1>2, <1>3, <1>4, <1>7, <1>8, <1>10, <1>11, <1>12 DEF ArenaNext

(* A match runs only with all its agents, and one whose joins never        *)
(* overlapped starts when it is full and never gets more, for any users,   *)
(* terminals, matches and agent counts.                                    *)
THEOREM MatchesStartWhenFull == ArenaSpec => []StartsWhenFull
<1>1. ArenaInv => StartsWhenFull
  <2>1. ArenaInv => RunningIsFull
    BY DEF ArenaInv, MatchOK, RunningIsFull
  <2>2. ArenaInv => FullMatchStarts
    BY DEF ArenaInv, MatchOK, FullOK, FullMatchStarts, On
  <2>. QED  BY <2>1, <2>2 DEF StartsWhenFull
<1>. QED  BY <1>1, ArenaInitInv, ArenaNextInv, PTL DEF ArenaSpec

=============================================================================
