------------------------------ MODULE Firewall ------------------------------
(***************************************************************************)
(* The rules of the nft table: internal/vm/nftables.go, called by          *)
(* SetupBridge and by Manager's start and stop.                            *)
(*                                                                         *)
(* Every start first reloads the whole table (SetupNAT: one command to     *)
(* delete it, one to load the base rules), then takes the tap, then adds   *)
(* two rules for its VM; every stop lists the forward chain, looks for its *)
(* comment and deletes the rules it found by handle.  Each nft command is  *)
(* one step, and nothing serialises the steps of different sessions.       *)
(*                                                                         *)
(* Only the forward chain is kept.  nft numbers the objects of a table     *)
(* from 1 in the order they are added, the three chains and then the rules *)
(* of the script, and starts again when the table is deleted, so a handle  *)
(* read from an old table may name another rule of the new one.            *)
(*                                                                         *)
(* A VM is started only when it is off and stopped only when it is up, by  *)
(* one session at a time: what VMPower says and VMOwnershipProofs proves.  *)
(***************************************************************************)
EXTENDS Integers, FiniteSets

CONSTANTS
    VMs,        \* row ids
    Sessions,   \* sessions that start and stop VMs
    Faults      \* "boot": StartVM may fail; "nft": an nft command may fail

ASSUME FwVMsAssumption == VMs \subseteq Nat \ {0}
ASSUME FwFaultsAssumption == Faults \subseteq {"boot", "nft"}

VARIABLES
    table,    \* "present" or "absent"
    chain,    \* rules of the forward chain, [handle, vm]
    handle,   \* the table's last handle
    guest,    \* "off", "starting", "up" or "stopping", by VM
    proc,     \* the session's step, its VM, the handles it has still to delete
    marred    \* history: VMs for which a boot or an nft command has failed
              \* since the table was last deleted

vars == <<table, chain, handle, guest, proc, marred>>

Base == 0   \* owner of the two base rules
NoJob == [pc |-> "idle", vm |-> Base, handles |-> {}]

Init ==
    /\ table = "absent"
    /\ chain = {}
    /\ handle = 0
    /\ guest = [v \in VMs |-> "off"]
    /\ proc = [s \in Sessions |-> NoJob]
    /\ marred = {}

At(s, l) == proc[s].pc = l
Goto(s, l) == proc' = [proc EXCEPT ![s].pc = l]
Done(s) == proc' = [proc EXCEPT ![s] = NoJob]

(* A failure the instance allows, while s works for its VM. *)
Fails(s, fault) == fault \in Faults /\ marred' = marred \cup {proc[s].vm}

-----------------------------------------------------------------------------
(* SetupNAT. *)

(* A start reloads the table before anything refuses it, so v may be up.   *)
BeginStart(s, v) ==
    /\ At(s, "idle")
    /\ proc' = [proc EXCEPT ![s] = [NoJob EXCEPT !.pc = "flush", !.vm = v]]
    /\ UNCHANGED <<table, chain, handle, guest, marred>>

(* "nft delete table", whose error is ignored. *)
DeleteTable(s) ==
    /\ At(s, "flush")
    /\ table' = "absent"
    /\ chain' = {}
    /\ handle' = 0
    /\ marred' = {}
    /\ Goto(s, "load")
    /\ UNCHANGED guest

(* The script adds four rules, the last two to the forward chain, and the  *)
(* three chains when the table is new; loaded twice it adds them twice.    *)
BaseHandles == IF table = "absent" THEN {6, 7} ELSE {handle + 3, handle + 4}

LoadRuleset(s) ==
    /\ At(s, "load")
    /\ \/ /\ table' = "present"
          /\ chain' = chain \cup [handle : BaseHandles, vm : {Base}]
          /\ handle' = IF table = "absent" THEN 7 ELSE handle + 4
          /\ Goto(s, "tap")
          /\ UNCHANGED marred
       \/ /\ Fails(s, "nft")
          /\ UNCHANGED <<table, chain, handle>>
          /\ Done(s)
    /\ UNCHANGED guest

-----------------------------------------------------------------------------
(* The rest of a start. *)

(* AllocateNetwork: whoever comes second finds the tap in place; it may    *)
(* also fail for reasons of its own.                                       *)
TakeTap(s) ==
    LET v == proc[s].vm IN
    /\ At(s, "tap")
    /\ \/ /\ guest[v] = "off"
          /\ guest' = [guest EXCEPT ![v] = "starting"]
          /\ Goto(s, "add")
       \/ UNCHANGED guest /\ Done(s)
    /\ UNCHANGED <<table, chain, handle, marred>>

(* One "nft add rule"; it fails when another start has deleted the table. *)
AddRule(s, next) ==
    /\ \/ /\ table = "present"
          /\ handle' = handle + 1
          /\ chain' = chain \cup {[handle |-> handle + 1, vm |-> proc[s].vm]}
          /\ Goto(s, next)
          /\ UNCHANGED marred
       \/ /\ \/ table = "absent" /\ UNCHANGED marred
             \/ table = "present" /\ Fails(s, "nft")
          /\ UNCHANGED <<chain, handle>>
          /\ Goto(s, "undo")
    /\ UNCHANGED <<table, guest>>

(* AddVMRules. *)
AddForwardRule(s) == At(s, "add") /\ AddRule(s, "addreturn")
AddReturnRule(s) == At(s, "addreturn") /\ AddRule(s, "boot")

StartVM(s) ==
    /\ At(s, "boot")
    /\ \/ guest' = [guest EXCEPT ![proc[s].vm] = "up"] /\ Done(s) /\ UNCHANGED marred
       \/ Fails(s, "boot") /\ UNCHANGED guest /\ Goto(s, "undo")
    /\ UNCHANGED <<table, chain, handle>>

(* The error path of a start releases the tap and leaves the rules. *)
UndoNetwork(s) ==
    /\ At(s, "undo")
    /\ guest' = [guest EXCEPT ![proc[s].vm] = "off"]
    /\ Done(s)
    /\ UNCHANGED <<table, chain, handle, marred>>

-----------------------------------------------------------------------------
(* Manager.Stop and RemoveVMRules. *)

BeginStop(s, v) ==
    /\ At(s, "idle")
    /\ guest[v] = "up"
    /\ guest' = [guest EXCEPT ![v] = "stopping"]
    /\ proc' = [proc EXCEPT ![s] = [NoJob EXCEPT !.pc = "list", !.vm = v]]
    /\ UNCHANGED <<table, chain, handle, marred>>

MutantMatchesComment(v, w) == TRUE

(* parseNftHandles looks for "vm-<id>" anywhere in the line, so the id of  *)
(* the VM is matched as a prefix.  Two digits are enough here.             *)
MatchesComment(v, w) == w = v \/ w \div 10 = v

(* A chain that cannot be listed is left alone. *)
ListRules(s) ==
    /\ At(s, "list")
    /\ \/ /\ table = "present"
          /\ proc' = [proc EXCEPT ![s].pc = "delete",
                 ![s].handles = {r.handle : r \in {q \in chain : MatchesComment(proc[s].vm, q.vm)}}]
          /\ UNCHANGED marred
       \/ /\ \/ table = "absent" /\ UNCHANGED marred
             \/ table = "present" /\ Fails(s, "nft")
          /\ Goto(s, "release")
    /\ UNCHANGED <<table, chain, handle, guest>>

MutantDeleteRule(s) ==
    /\ At(s, "delete")
    /\ chain' = {r \in chain : \E h \in proc[s].handles : r.handle # h /\ h <= r.handle}
                \cup {r \in chain : \A h \in proc[s].handles : r.handle < h}
    /\ Goto(s, "release")
    /\ UNCHANGED <<table, handle, guest, marred>>

(* One "nft delete rule", in the order of the listing; an error is logged. *)
DeleteRule(s) ==
    /\ At(s, "delete")
    /\ IF proc[s].handles = {}
       THEN UNCHANGED <<chain, marred>> /\ Goto(s, "release")
       ELSE \E h \in proc[s].handles :
              /\ \A k \in proc[s].handles : h <= k
              /\ \/ chain' = {r \in chain : r.handle # h} /\ UNCHANGED marred
                 \/ Fails(s, "nft") /\ UNCHANGED chain
              /\ proc' = [proc EXCEPT ![s].handles = @ \ {h}]
    /\ UNCHANGED <<table, handle, guest>>

(* ReleaseNetwork. *)
Release(s) ==
    /\ At(s, "release")
    /\ guest' = [guest EXCEPT ![proc[s].vm] = "off"]
    /\ Done(s)
    /\ UNCHANGED <<table, chain, handle, marred>>

-----------------------------------------------------------------------------
Next ==
    \E s \in Sessions :
        \/ \E v \in VMs : BeginStart(s, v) \/ BeginStop(s, v)
        \/ DeleteTable(s) \/ LoadRuleset(s) \/ TakeTap(s) \/ AddForwardRule(s)
        \/ AddReturnRule(s) \/ StartVM(s) \/ UndoNetwork(s)
        \/ ListRules(s) \/ DeleteRule(s) \/ Release(s)

Spec == Init /\ [][Next]_vars

-----------------------------------------------------------------------------
AllIdle == \A s \in Sessions : At(s, "idle")

RulesOf(v) == {r \in chain : r.vm = v}

(* Rules outlive their guest only where a command or the boot failed, and  *)
(* then only until the next reload: whichever reloads, stale handles and   *)
(* prefix matches came between, a VM that is off has no other rule left    *)
(* for the address it gave up (AddVMRules, RemoveVMRules, SetupNAT).       *)
NoStrayRules ==
    \A v \in VMs : guest[v] = "off" /\ v \notin marred => RulesOf(v) = {}

(* A table that is there has the base rules that let guests out, under any *)
(* failures: a handle read from an older table, which RemoveVMRules may    *)
(* still delete, never names one of them.                                  *)
BaseRulesInPlace ==
    table = "present" => [handle : {6, 7}, vm : {Base}] \subseteq chain

(* SetupBridge is safe to call again: a guest that is up keeps its rules.  *)
GuestKeepsRules ==
    AllIdle => \A v \in VMs : guest[v] = "up" => Cardinality(RulesOf(v)) = 2
=============================================================================
