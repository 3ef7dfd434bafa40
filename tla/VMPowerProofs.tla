--------------------------- MODULE VMPowerProofs ---------------------------
(***************************************************************************)
(* VMLifecycle implements VMPower: every step of the sessions, of shutdown *)
(* and of the failures is a move of VMPower on one VM, one of its two      *)
(* restarts, or no move at all.  The moves are read off TapOwnership: who  *)
(* holds the tap of a VM is what its power is.                             *)
(***************************************************************************)
EXTENDS VMOwnershipProofs

PowerMap == [v \in VMs |-> PowerOf(v)]

(* Only p moved, and it worked for v if it held anything. *)
OnlyFor(p, v) ==
    /\ \A q \in Procs : q # p => proc'[q] = proc[q]
    /\ proc[p].pc \in HoldPcs => proc[p].vm = v
    /\ proc'[p].pc \in HoldPcs => proc'[p].vm = v
    /\ \A w \in VMs : w # v => running'[w] = running[w] /\ (w \in taps' <=> w \in taps)

(* The power of the other VMs stays. *)
LEMMA OthersKeepPower ==
    ASSUME NEW p \in Procs, NEW v \in VMs, OnlyFor(p, v), NEW w \in VMs, w # v
    PROVE  PowerOf(w)' = PowerOf(w)
<1>. USE DEF OnlyFor, HoldPcs, BootPcs, LivePcs, FreePcs
<1>1. HeldAt(w, StartHoldPcs)' <=> HeldAt(w, StartHoldPcs)
  BY DEF HeldAt, StartHoldPcs
<1>2. HeldAt(w, StopHoldPcs)' <=> HeldAt(w, StopHoldPcs)
  BY DEF HeldAt, StopHoldPcs
<1>. QED  BY <1>1, <1>2 DEF PowerOf

LEMMA QuietPower ==
    ASSUME NEW p \in Procs, Quiet(p)
    PROVE  PowerMap' = PowerMap
<1>. USE DEF Quiet, hostVars, HoldPcs, BootPcs, LivePcs, FreePcs
<1>1. ASSUME NEW v \in VMs PROVE PowerOf(v)' = PowerOf(v)
  <2>1. HeldAt(v, StartHoldPcs)' <=> HeldAt(v, StartHoldPcs)
    BY DEF HeldAt, StartHoldPcs
  <2>2. HeldAt(v, StopHoldPcs)' <=> HeldAt(v, StopHoldPcs)
    BY DEF HeldAt, StopHoldPcs
  <2>. QED  BY <2>1, <2>2 DEF PowerOf
<1>. QED  BY <1>1 DEF PowerMap

(* What the power of a VM is, from who holds its tap. *)
LEMMA PowerWhenFree ==
    ASSUME Inv, NEW v \in VMs, v \notin taps
    PROVE  PowerOf(v) = "off"
BY DEF Inv, OwnInv, TapOwnership, PowerOf, HeldAt, HoldPcs, BootPcs, LivePcs, FreePcs,
       StartHoldPcs, StopHoldPcs

LEMMA PowerWhenStarting ==
    ASSUME Inv, NEW p \in Procs, proc[p].pc \in StartHoldPcs
    PROVE  PowerOf(proc[p].vm) = "starting"
BY DEF Inv, OwnInv, TapOwnership, PowerOf, HeldAt, HoldPcs, BootPcs, LivePcs, FreePcs,
       StartHoldPcs, StopHoldPcs

LEMMA PowerWhenStopping ==
    ASSUME Inv, NEW p \in Procs, proc[p].pc \in StopHoldPcs
    PROVE  PowerOf(proc[p].vm) = "stopping"
BY DEF Inv, OwnInv, TapOwnership, PowerOf, HeldAt, HoldPcs, BootPcs, LivePcs, FreePcs,
       StartHoldPcs, StopHoldPcs

(* The moves VMPower has for one VM, and the step none of them is. *)
Allowed(a, b) ==
    \/ a = b
    \/ a = "off" /\ b \in {"starting", "lost"}
    \/ a = "starting" /\ b \in {"on", "off", "lost"}
    \/ a = "on" /\ b = "stopping"
    \/ a = "stopping" /\ b \in {"off", "lost"}

LEMMA MoveLemma ==
    ASSUME NEW p \in Procs, NEW v \in VMs, OnlyFor(p, v),
           Allowed(PowerOf(v), PowerOf(v)')
    PROVE  Power!PowerNext \/ PowerMap' = PowerMap
<1>1. \A w \in VMs : w # v => PowerOf(w)' = PowerOf(w)
  BY OthersKeepPower
<1>2. PowerMap' = [PowerMap EXCEPT ![v] = PowerOf(v)']
  BY <1>1 DEF PowerMap
<1>3. PowerMap[v] = PowerOf(v)
  BY DEF PowerMap
<1>4. CASE PowerOf(v)' = PowerOf(v)
  BY <1>2, <1>3, <1>4 DEF PowerMap
<1>5. CASE PowerOf(v)' # PowerOf(v)
  <2>1. \/ Power!BeginStart(v) \/ Power!StartDone(v) \/ Power!BeginStop(v)
        \/ Power!Released(v) \/ Power!TapLeaked(v)
    BY <1>2, <1>3, <1>5 DEF Allowed, PowerMap, Power!BeginStart, Power!StartDone,
       Power!BeginStop, Power!Released, Power!TapLeaked, Power!Move
  <2>. QED  BY <2>1 DEF Power!PowerNext
<1>. QED  BY <1>4, <1>5

(* The holder of a tap works on, or lets go of it. *)
LEMMA HolderMoves ==
    ASSUME Inv, NEW p \in Procs, proc[p].vm \in VMs, UNCHANGED running,
           \A q \in Procs : q # p => proc'[q] = proc[q],
           proc'[p].vm = proc[p].vm,
           \/ /\ proc[p].pc \in StartHoldPcs /\ proc'[p].pc \in StartHoldPcs
              /\ UNCHANGED taps
           \/ /\ proc[p].pc \in StopHoldPcs /\ proc'[p].pc \in StopHoldPcs
              /\ UNCHANGED taps
           \/ /\ proc[p].pc \in HoldPcs /\ proc'[p].pc \notin HoldPcs
              /\ taps' \in {taps, taps \ {proc[p].vm}}
    PROVE  Power!PowerNext \/ PowerMap' = PowerMap
<1>. USE DEF HoldPcs, BootPcs, LivePcs, FreePcs, StartHoldPcs, StopHoldPcs
<1>1. PICK v \in VMs : v = proc[p].vm
  OBVIOUS
<1>2. running'[v] = NoIP
  BY <1>1 DEF Inv, OwnInv, TapOwnership
<1>3. OnlyFor(p, v)
  BY <1>1 DEF OnlyFor
<1>4. Allowed(PowerOf(v), PowerOf(v)')
  <2>1. CASE proc[p].pc \in StartHoldPcs /\ proc'[p].pc \in StartHoldPcs
    <3>1. PowerOf(v) = "starting"
      BY <1>1, <2>1, PowerWhenStarting
    <3>2. PowerOf(v)' = "starting"
      BY <1>1, <1>2, <2>1 DEF PowerOf, HeldAt
    <3>. QED  BY <3>1, <3>2 DEF Allowed
  <2>2. CASE proc[p].pc \in StopHoldPcs /\ proc'[p].pc \in StopHoldPcs
    <3>1. PowerOf(v) = "stopping"
      BY <1>1, <2>2, PowerWhenStopping
    <3>2. ~HeldAt(v, StartHoldPcs)'
      BY <1>1, <2>2 DEF HeldAt, Inv, OwnInv, TapOwnership
    <3>3. HeldAt(v, StopHoldPcs)'
      BY <1>1, <2>2 DEF HeldAt
    <3>4. PowerOf(v)' = "stopping"
      BY <1>2, <3>2, <3>3 DEF PowerOf
    <3>. QED  BY <3>1, <3>4 DEF Allowed
  <2>3. CASE proc[p].pc \in HoldPcs /\ proc'[p].pc \notin HoldPcs
    <3>1. PowerOf(v) \in {"starting", "stopping"}
      BY <1>1, <2>3, PowerWhenStarting, PowerWhenStopping
    <3>2. ~HeldAt(v, StartHoldPcs)' /\ ~HeldAt(v, StopHoldPcs)'
      BY <1>1, <2>3 DEF HeldAt, Inv, OwnInv, TapOwnership
    <3>3. PowerOf(v)' \in {"off", "lost"}
      BY <1>2, <3>2 DEF PowerOf
    <3>. QED  BY <3>1, <3>3 DEF Allowed
  <2>. QED  BY <2>1, <2>2, <2>3
<1>. QED  BY <1>3, <1>4, MoveLemma

(* Nothing PowerOf looks at changes. *)
LEMMA SamePower ==
    ASSUME UNCHANGED <<proc, running, taps>>
    PROVE  PowerMap' = PowerMap
BY DEF PowerMap, PowerOf, HeldAt

LEMMA PowerStep ==
    ASSUME Inv, [Next]_vars
    PROVE  Power!PowerNext \/ PowerMap' = PowerMap
<1>. DEFINE Goal == Power!PowerNext \/ PowerMap' = PowerMap
<1>0. Sessions \subseteq Procs /\ Main \in Procs
  BY DEF Procs
<1>. USE DEF At
<1>1. ASSUME NEW s \in Sessions, QuietAction(s) PROVE Goal
  BY <1>0, <1>1, QuietActions, QuietPower
<1>2. ASSUME NEW s \in Sessions, AllocateNet(s) PROVE Goal
  <2>00. proc[s].pc = "net" /\ proc[s].vm \in VMs /\ TypeOK /\ s \in Procs
    BY <1>0, <1>2 DEF AllocateNet, Inv, TypeInv, ControlOK, ProcOK, NoVMPcs
  <2>01. PICK v \in VMs : v = proc[s].vm
    BY <2>00
  <2>0. proc[s].pc = "net" /\ proc[s].vm = v /\ TypeOK /\ s \in Procs
    BY <2>00, <2>01
  <2>1. /\ UNCHANGED running
        /\ \A w \in VMs : w # v => (w \in taps' <=> w \in taps)
        /\ \/ proc'[s].pc = "boot" /\ v \notin taps
           \/ proc'[s].pc = "markerr" /\ (v \in taps' <=> v \in taps)
           \/ proc'[s].pc = "markerr" /\ v \notin taps
        /\ proc'[s].vm = v
        /\ \A q \in Procs : q # s => proc'[q] = proc[q]
    <3>1. CASE AllocateNetwork(proc[s].vm) /\ GotoWithIP(s, "boot", nextIP)
      <4>1. nextIP \in IPs
        BY <2>0, <3>1, MaxIPAssumption DEF AllocateNetwork, TypeOK, NetTypeOK, IPs, FirstIP
      <4>2. Moved(s, "boot", nextIP)
        BY <2>0, <3>1, <4>1, GotoWithIPLemma DEF Pcs, HoldPcs, BootPcs
      <4>. QED  BY <1>2, <2>0, <3>1, <4>2 DEF AllocateNet, AllocateNetwork, TapFree, Moved
    <3>2. CASE \/ AllocateNetworkFails(proc[s].vm) /\ Goto(s, "markerr")
               \/ May("bridge") /\ UNCHANGED netVars /\ Goto(s, "markerr")
      <4>1. Moved(s, "markerr", proc[s].ip)
        BY <2>0, <3>2, GotoLemma DEF Pcs
      <4>. QED
        BY <1>2, <2>0, <3>2, <4>1 DEF AllocateNet, AllocateNetworkFails, TapFree, Moved, netVars
    <3>. QED  BY <1>2, <3>1, <3>2 DEF AllocateNet
  <2>2. OnlyFor(s, v)
    BY <2>0, <2>1 DEF OnlyFor, HoldPcs, BootPcs, LivePcs, FreePcs
  <2>3. Allowed(PowerOf(v), PowerOf(v)')
    <3>1. CASE v \notin taps
      <4>1. PowerOf(v) = "off"
        BY <2>0, <3>1, PowerWhenFree
      <4>2. running[v] = NoIP /\ ~HeldAt(v, StartHoldPcs) /\ ~HeldAt(v, StopHoldPcs)
        BY <2>0, <3>1 DEF Inv, OwnInv, TapOwnership, HeldAt, HoldPcs, BootPcs, LivePcs,
           FreePcs, StartHoldPcs, StopHoldPcs
      <4>3. PowerOf(v)' \in {"off", "starting", "lost"}
        BY <2>0, <2>1, <4>2 DEF PowerOf, HeldAt, StartHoldPcs, StopHoldPcs
      <4>. QED  BY <4>1, <4>3 DEF Allowed
    <3>2. CASE v \in taps
      <4>1. proc'[s].pc = "markerr" /\ v \in taps'
        BY <2>1, <3>2
      <4>2. HeldAt(v, StartHoldPcs)' <=> HeldAt(v, StartHoldPcs)
        BY <2>0, <2>1, <4>1 DEF HeldAt, StartHoldPcs
      <4>3. HeldAt(v, StopHoldPcs)' <=> HeldAt(v, StopHoldPcs)
        BY <2>0, <2>1, <4>1 DEF HeldAt, StopHoldPcs
      <4>4. PowerOf(v)' = PowerOf(v)
        BY <2>1, <3>2, <4>1, <4>2, <4>3 DEF PowerOf
      <4>. QED  BY <4>4 DEF Allowed
    <3>. QED  BY <3>1, <3>2
  <2>. QED  BY <2>0, <2>2, <2>3, MoveLemma
<1>3. ASSUME NEW s \in Sessions, StartVM(s) PROVE Goal
  <2>1. /\ proc[s].pc = "boot" /\ proc[s].vm \in VMs
        /\ UNCHANGED <<taps, running>>
    BY <1>0, <1>3 DEF StartVM, netVars, Inv, TypeInv, ControlOK, ProcOK, NoVMPcs
  <2>2. Moved(s, "mark", proc[s].ip) \/ Moved(s, "undo", proc[s].ip)
    BY <1>0, <1>3, GotoLemma DEF StartVM, Inv, TypeInv, Pcs, HoldPcs, BootPcs, LivePcs
  <2>. QED  BY <1>0, <2>1, <2>2, HolderMoves DEF Moved, StartHoldPcs
<1>4. ASSUME NEW s \in Sessions, UndoNetwork(s) PROVE Goal
  <2>1. /\ proc[s].pc = "undo" /\ proc[s].vm \in VMs
        /\ UNCHANGED running /\ taps' \in {taps, taps \ {proc[s].vm}}
    BY <1>0, <1>4 DEF UndoNetwork, ReleaseNetwork, Inv, TypeInv, ControlOK, ProcOK, NoVMPcs
  <2>2. Moved(s, "markerr", proc[s].ip)
    BY <1>0, <1>4, GotoLemma DEF UndoNetwork, Inv, TypeInv, Pcs
  <2>. QED
    BY <1>0, <2>1, <2>2, HolderMoves DEF Moved, HoldPcs, BootPcs, LivePcs, FreePcs
<1>5. ASSUME NEW s \in Sessions, MarkRunning(s) PROVE Goal
  <2>1. /\ proc[s].pc = "mark" /\ proc[s].vm \in VMs
        /\ UNCHANGED <<taps, running>>
    BY <1>0, <1>5 DEF MarkRunning, netVars, Inv, TypeInv, ControlOK, ProcOK, NoVMPcs
  <2>2. Moved(s, "track", proc[s].ip)
    BY <1>0, <1>5, GotoLemma DEF MarkRunning, Inv, TypeInv, Pcs, HoldPcs, LivePcs
  <2>. QED  BY <1>0, <2>1, <2>2, HolderMoves DEF Moved, StartHoldPcs
<1>6. ASSUME NEW s \in Sessions, Track(s) PROVE Goal
  <2>1. /\ proc[s].pc = "track" /\ proc[s].vm \in VMs /\ proc[s].ip \in IPs
        /\ running' = [running EXCEPT ![proc[s].vm] = proc[s].ip]
        /\ UNCHANGED taps /\ running \in [VMs -> MaybeIP]
    BY <1>0, <1>6 DEF Track, netVars, Inv, TypeInv, TypeOK, ControlOK, ProcOK, NoVMPcs,
       AddressPcs
  <2>2. Moved(s, "readmeta", proc[s].ip)
    BY <1>0, <1>6, GotoLemma DEF Track, Inv, TypeInv, Pcs
  <2>3. PICK v \in VMs : v = proc[s].vm
    BY <2>1
  <2>4. PowerOf(v) = "starting"
    BY <1>0, <2>1, <2>3, PowerWhenStarting DEF StartHoldPcs
  <2>5. running'[v] # NoIP
    BY <2>1, <2>3 DEF IPs, NoIP, FirstIP
  <2>6. PowerOf(v)' = "on"
    BY <2>5 DEF PowerOf
  <2>7. OnlyFor(s, v)
    BY <2>1, <2>2, <2>3 DEF OnlyFor, Moved
  <2>. QED  BY <1>0, <2>4, <2>6, <2>7, MoveLemma DEF Allowed
<1>7. ASSUME NEW p \in Procs, TakeRunning(p) PROVE Goal
  <2>0. /\ proc[p].pc = "take" /\ proc[p].vm \in VMs
        /\ UNCHANGED <<taps, nextIP, machines, crashes>>
    BY <1>7 DEF TakeRunning, netVars, Inv, TypeInv, ControlOK, ProcOK, NoVMPcs
  <2>1. CASE running[proc[p].vm] = NoIP
    <3>1. AfterStop(proc[p].cmd) \in {"idle", "stat", "disks", "next"}
      BY DEF AfterStop
    <3>2. Quiet(p)
      BY <1>7, <2>0, <2>1, <3>1, GotoLemma DEF TakeRunning, Quiet, hostVars, Moved, Pcs,
         Inv, TypeInv, HoldPcs, BootPcs, LivePcs, FreePcs
    <3>. QED  BY <3>2, QuietPower
  <2>2. CASE running[proc[p].vm] # NoIP
    <3>1. running[proc[p].vm] \in IPs /\ running \in [VMs -> MaybeIP]
      BY <2>0, <2>2 DEF Inv, TypeInv, TypeOK, MaybeIP
    <3>2. /\ Moved(p, "stopvm", running[proc[p].vm])
          /\ running' = [running EXCEPT ![proc[p].vm] = NoIP]
      BY <1>7, <2>2, <3>1, GotoWithIPLemma DEF TakeRunning, Inv, TypeInv, Pcs, HoldPcs,
         LivePcs
    <3>3. PICK v \in VMs : v = proc[p].vm
      BY <2>0
    <3>4. PowerOf(v) = "on"
      BY <2>2, <3>3 DEF PowerOf
    <3>5. ~HeldAt(v, StartHoldPcs)'
      BY <2>0, <2>2, <3>2, <3>3 DEF HeldAt, Moved, Inv, OwnInv, TapOwnership, HoldPcs,
         BootPcs, LivePcs, FreePcs, StartHoldPcs
    <3>6. HeldAt(v, StopHoldPcs)'
      BY <3>2, <3>3 DEF HeldAt, Moved, StopHoldPcs
    <3>7. running'[v] = NoIP
      BY <3>1, <3>2, <3>3
    <3>8. PowerOf(v)' = "stopping"
      BY <3>5, <3>6, <3>7 DEF PowerOf
    <3>9. OnlyFor(p, v)
      BY <2>0, <3>1, <3>2, <3>3 DEF OnlyFor, Moved
    <3>. QED  BY <3>4, <3>8, <3>9, MoveLemma DEF Allowed
  <2>. QED  BY <2>1, <2>2
<1>8. ASSUME NEW p \in Procs, StopVM(p) PROVE Goal
  <2>1. /\ proc[p].pc = "stopvm" /\ proc[p].vm \in VMs
        /\ UNCHANGED <<taps, running>>
    BY <1>8 DEF StopVM, netVars, Inv, TypeInv, ControlOK, ProcOK, NoVMPcs
  <2>2. Moved(p, "release", proc[p].ip)
    BY <1>8, GotoLemma DEF StopVM, Inv, TypeInv, Pcs, HoldPcs, FreePcs
  <2>. QED  BY <2>1, <2>2, HolderMoves DEF Moved, StopHoldPcs
<1>9. ASSUME NEW p \in Procs, ReleaseNet(p) PROVE Goal
  <2>1. /\ proc[p].pc = "release" /\ proc[p].vm \in VMs
        /\ UNCHANGED running /\ taps' \in {taps, taps \ {proc[p].vm}}
    BY <1>9 DEF ReleaseNet, ReleaseNetwork, Inv, TypeInv, ControlOK, ProcOK, NoVMPcs
  <2>2. Moved(p, "markstopped", proc[p].ip)
    BY <1>9, GotoLemma DEF ReleaseNet, Inv, TypeInv, Pcs
  <2>. QED
    BY <2>1, <2>2, HolderMoves DEF Moved, HoldPcs, BootPcs, LivePcs, FreePcs
<1>10. ASSUME NEW p \in Procs, MarkStopped(p) PROVE Goal
  <2>1. AfterStop(proc[p].cmd) \in {"idle", "stat", "disks", "next"}
    BY DEF AfterStop
  <2>2. Quiet(p)
    BY <1>10, <2>1, GotoLemma DEF MarkStopped, Quiet, hostVars, netVars, Moved, Pcs,
       Inv, TypeInv, HoldPcs, BootPcs, LivePcs, FreePcs
  <2>. QED  BY <2>2, QuietPower
<1>11. CASE ShutdownAll
  <2>1. Quiet(Main)
    BY <1>0, <1>11 DEF ShutdownAll, Quiet, hostVars, netVars, Idle, Inv, TypeInv, TypeOK,
       HoldPcs, BootPcs, LivePcs, FreePcs
  <2>. QED  BY <1>0, <2>1, QuietPower
<1>12. CASE ShutdownNext
  <2>1. /\ UNCHANGED hostVars /\ proc[Main].pc = "next"
        /\ \A q \in Procs : q # Main => proc'[q] = proc[q]
        /\ proc'[Main].pc \in {"take", "down"}
    <3>1. CASE Goto(Main, "down")
      BY <1>0, <1>12, <3>1, GotoLemma DEF ShutdownNext, Moved, Pcs, hostVars, netVars,
         Inv, TypeInv
    <3>2. ASSUME NEW v \in VMs,
                 proc' = [proc EXCEPT ![Main] = [@ EXCEPT !.pc = "take", !.vm = v]]
          PROVE  /\ \A q \in Procs : q # Main => proc'[q] = proc[q]
                 /\ proc'[Main].pc = "take"
      BY <1>0, <3>2 DEF Inv, TypeInv, TypeOK, Proc
    <3>. QED
      BY <1>12, <3>1, <3>2 DEF ShutdownNext, Inv, TypeInv, TypeOK, hostVars, netVars
  <2>2. Quiet(Main)
    BY <2>1 DEF Quiet, HoldPcs, BootPcs, LivePcs, FreePcs
  <2>. QED  BY <1>0, <2>2, QuietPower
<1>13. CASE ShutdownExpires \/ GuestExits
  BY <1>13, SamePower DEF ShutdownExpires, GuestExits, netVars
<1>14. CASE Crash
  <2>1. /\ UNCHANGED taps
        /\ \A p \in Procs : proc'[p].pc = "idle"
        /\ \A v \in VMs : running'[v] = NoIP
    BY <1>14 DEF Crash, ServerRestarts, NetRestart, Idle
  <2>2. ASSUME NEW v \in VMs
        PROVE  PowerOf(v)' = IF PowerOf(v) = "off" THEN "off" ELSE "lost"
    <3>1. PowerOf(v)' = IF v \in taps THEN "lost" ELSE "off"
      BY <2>1 DEF PowerOf, HeldAt, StartHoldPcs, StopHoldPcs
    <3>2. v \notin taps => PowerOf(v) = "off"
      BY PowerWhenFree
    <3>3. v \in taps => PowerOf(v) # "off"
      BY DEF PowerOf
    <3>. QED  BY <3>1, <3>2, <3>3
  <2>3. PowerMap' = [v \in VMs |-> IF PowerMap[v] = "off" THEN "off" ELSE "lost"]
    BY <2>2 DEF PowerMap
  <2>. QED  BY <2>3 DEF PowerMap, Power!PowerNext, Power!ServerDies
<1>15. CASE HostReboots
  <2>1. /\ taps' = {}
        /\ \A p \in Procs : proc'[p].pc = "idle"
        /\ \A v \in VMs : running'[v] = NoIP
    BY <1>15 DEF HostReboots, ServerRestarts, NetRestart, Idle
  <2>2. \A v \in VMs : PowerOf(v)' = "off"
    BY <2>1 DEF PowerOf, HeldAt, StartHoldPcs, StopHoldPcs
  <2>. QED  BY <2>2 DEF PowerMap, Power!PowerNext, Power!HostDies
<1>16. CASE UNCHANGED vars
  BY <1>16, SamePower DEF vars, netVars
<1>17. ASSUME NEW s \in Sessions, CmdRefused(s) PROVE Goal
  BY <1>16, <1>17 DEF CmdRefused
<1>. QED
  BY <1>0, <1>1, <1>2, <1>3, <1>4, <1>5, <1>6, <1>7, <1>8, <1>9, <1>10, <1>11, <1>12,
     <1>13, <1>14, <1>15, <1>16, <1>17
  DEF Next, Command, SessionStep, StopStep, StartStep, RegisterStep, RowStep, MainStep,
      QuietAction

(* Whatever sessions, failing commands, crashes and reboots do, a VM moves *)
(* only as VMPower says: no start of a VM that is not off, no way down but *)
(* a stop, and what a dead server left stays lost until the host reboots.  *)
THEOREM ManagerImplementsPower == Spec => ImplementsPower
<1>1. Init => Power!PowerInit
  <2>. SUFFICES ASSUME Init PROVE Power!PowerInit
    OBVIOUS
  <2>1. /\ taps = {}
        /\ \A p \in Procs : proc[p].pc = "idle"
        /\ \A v \in VMs : running[v] = NoIP
    BY DEF Init, NetInit, Idle
  <2>2. \A v \in VMs : PowerOf(v) = "off"
    BY <2>1 DEF PowerOf, HeldAt, StartHoldPcs, StopHoldPcs
  <2>. QED  BY <2>2 DEF Power!PowerInit
<1>2. Inv /\ [Next]_vars => [Power!PowerNext]_PowerMap
  BY PowerStep
<1>3. Inv /\ [Next]_vars => [Power!PowerNext]_[v \in VMs |-> PowerOf(v)]
  BY <1>2 DEF PowerMap
<1>. QED  BY <1>1, <1>3, InvInductive, PTL DEF Spec, ImplementsPower, Power!PowerSpec
=============================================================================
