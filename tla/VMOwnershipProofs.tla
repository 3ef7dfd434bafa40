------------------------- MODULE VMOwnershipProofs -------------------------
(***************************************************************************)
(* OneMachinePerVM and UniqueGuestIP for every number of sessions, VMs,    *)
(* addresses and crashes and every combination of faults, through the      *)
(* inductive invariants TapOwnership and AddressOwnership.                 *)
(***************************************************************************)
EXTENDS VMLifecycleProofs

OwnInv == TapOwnership /\ AddressOwnership /\ OneMachinePerVM /\ UniqueGuestIP

Inv == TypeInv /\ OwnInv

hostVars == <<taps, running, machines, nextIP, crashes>>

(* p holds no tap before or after, and nobody else moves. *)
Quiet(p) ==
    /\ UNCHANGED hostVars
    /\ \A q \in Procs : q # p => proc'[q] = proc[q]
    /\ proc[p].pc \notin HoldPcs
    /\ proc'[p].pc \notin HoldPcs

LEMMA QuietStep ==
    ASSUME Inv, NEW p \in Procs, Quiet(p)
    PROVE  OwnInv'
<1>. USE DEF Quiet, hostVars, Inv, OwnInv
<1>1. TapOwnership'
  BY DEF TapOwnership, Booted, HoldPcs
<1>2. AddressOwnership'
  BY DEF AddressOwnership, HoldPcs, BootPcs
<1>3. OneMachinePerVM' /\ UniqueGuestIP'
  BY DEF OneMachinePerVM, UniqueGuestIP
<1>. QED  BY <1>1, <1>2, <1>3

LEMMA InitOwnership == Init => OwnInv
<1>. SUFFICES ASSUME Init PROVE OwnInv
  OBVIOUS
<1>1. \A p \in Procs : proc[p].pc = "idle"
  BY DEF Init, Idle
<1>2. machines = {} /\ \A v \in VMs : running[v] = NoIP
  BY DEF Init
<1>3. "idle" \notin HoldPcs /\ "boot" # "idle"
  BY DEF HoldPcs, BootPcs, LivePcs, FreePcs
<1>. QED
  BY <1>1, <1>2, <1>3 DEF OwnInv, TapOwnership, AddressOwnership, OneMachinePerVM,
     UniqueGuestIP, HoldPcs

(* The steps that touch neither a tap nor a process and hold none. *)
QuietAction(s) ==
    \/ CmdNew(s) \/ CmdCp(s) \/ CmdStart(s) \/ CmdStop(s)
    \/ CmdRestart(s) \/ CmdRm(s) \/ CreateVM(s) \/ Confirm(s)
    \/ CreateVMFails(s) \/ MarkCreating(s) \/ EnsureRootfs(s) \/ StatRootfs(s)
    \/ SeedAuthorizedKeys(s) \/ CreateDataDisk(s) \/ MarkError(s) \/ RegisterVM(s)
    \/ AddRoute(s) \/ UnregisterVM(s) \/ RemoveRoute(s) \/ IsRunning(s)
    \/ RemoveDisks(s) \/ DeleteRow(s) \/ CloneRootfs(s) \/ CloneData(s)
    \/ ReadForMeta(s) \/ ReadForRoute(s) \/ ReadForUnmeta(s)

LEMMA QuietActions ==
    ASSUME Inv, NEW s \in Sessions, QuietAction(s)
    PROVE  Quiet(s)
<1>. USE DEF Inv, TypeInv, At, hostVars, netVars
<1>0. s \in Procs
  BY DEF Procs
<1>1. CASE CmdNew(s)
  BY <1>0, <1>1 DEF CmdNew, Begin, Quiet, Idle, TypeOK, HoldPcs, BootPcs, LivePcs,
     FreePcs
<1>2. CASE CmdCp(s)
  BY <1>0, <1>2 DEF CmdCp, Begin, Quiet, Idle, TypeOK, HoldPcs, BootPcs, LivePcs,
     FreePcs
<1>3. CASE CmdStart(s)
  BY <1>0, <1>3 DEF CmdStart, Begin, Quiet, Idle, TypeOK, HoldPcs, BootPcs, LivePcs,
     FreePcs
<1>4. CASE CmdStop(s)
  BY <1>0, <1>4 DEF CmdStop, Begin, Quiet, Idle, TypeOK, HoldPcs, BootPcs, LivePcs,
     FreePcs
<1>5. CASE CmdRestart(s)
  BY <1>0, <1>5 DEF CmdRestart, Begin, Quiet, Idle, TypeOK, HoldPcs, BootPcs,
     LivePcs, FreePcs
<1>6. CASE CmdRm(s)
  BY <1>0, <1>6 DEF CmdRm, Begin, Quiet, Idle, TypeOK, HoldPcs, BootPcs, LivePcs,
     FreePcs
<1>7. CASE CreateVM(s)
  BY <1>0, <1>7 DEF CreateVM, Quiet, TypeOK, Proc, HoldPcs, BootPcs, LivePcs, FreePcs
<1>8. CASE Confirm(s)
  BY <1>0, <1>8, GotoLemma DEF Confirm, Quiet, Moved, HoldPcs, BootPcs, LivePcs,
     FreePcs, Pcs
<1>9. CASE CreateVMFails(s)
  BY <1>0, <1>9, GotoLemma DEF CreateVMFails, Quiet, Moved, HoldPcs, BootPcs,
     LivePcs, FreePcs, Pcs
<1>10. CASE MarkCreating(s)
  BY <1>0, <1>10, GotoLemma DEF MarkCreating, Quiet, Moved, HoldPcs, BootPcs,
     LivePcs, FreePcs, Pcs
<1>11. CASE EnsureRootfs(s)
  BY <1>0, <1>11, GotoLemma DEF EnsureRootfs, Quiet, Moved, HoldPcs, BootPcs,
     LivePcs, FreePcs, Pcs
<1>12. CASE StatRootfs(s)
  BY <1>0, <1>12, GotoLemma DEF StatRootfs, Quiet, Moved, HoldPcs, BootPcs, LivePcs,
     FreePcs, Pcs
<1>13. CASE SeedAuthorizedKeys(s)
  BY <1>0, <1>13, GotoLemma DEF SeedAuthorizedKeys, Quiet, Moved, HoldPcs, BootPcs,
     LivePcs, FreePcs, Pcs
<1>14. CASE CreateDataDisk(s)
  BY <1>0, <1>14, GotoLemma DEF CreateDataDisk, Quiet, Moved, HoldPcs, BootPcs,
     LivePcs, FreePcs, Pcs
<1>15. CASE MarkError(s)
  BY <1>0, <1>15, GotoLemma DEF MarkError, Quiet, Moved, HoldPcs, BootPcs, LivePcs,
     FreePcs, Pcs
<1>16. CASE RegisterVM(s)
  BY <1>0, <1>16, GotoLemma DEF RegisterVM, Quiet, Moved, HoldPcs, BootPcs, LivePcs,
     FreePcs, Pcs
<1>17. CASE AddRoute(s)
  BY <1>0, <1>17, GotoLemma DEF AddRoute, Quiet, Moved, HoldPcs, BootPcs, LivePcs,
     FreePcs, Pcs
<1>18. CASE UnregisterVM(s)
  BY <1>0, <1>18, GotoLemma DEF UnregisterVM, AfterUnregister, Quiet, Moved,
     HoldPcs, BootPcs, LivePcs, FreePcs, Pcs
<1>19. CASE RemoveRoute(s)
  BY <1>0, <1>19, GotoLemma DEF RemoveRoute, AfterUnregister, Quiet, Moved, HoldPcs,
     BootPcs, LivePcs, FreePcs, Pcs
<1>20. CASE IsRunning(s)
  BY <1>0, <1>20, GotoLemma DEF IsRunning, Quiet, Moved, HoldPcs, BootPcs, LivePcs,
     FreePcs, Pcs
<1>21. CASE RemoveDisks(s)
  BY <1>0, <1>21, GotoLemma DEF RemoveDisks, Quiet, Moved, HoldPcs, BootPcs,
     LivePcs, FreePcs, Pcs
<1>22. CASE DeleteRow(s)
  BY <1>0, <1>22, GotoLemma DEF DeleteRow, Quiet, Moved, HoldPcs, BootPcs, LivePcs,
     FreePcs, Pcs
<1>23. CASE CloneRootfs(s)
  BY <1>0, <1>23, GotoLemma DEF CloneRootfs, Quiet, Moved, HoldPcs, BootPcs,
     LivePcs, FreePcs, Pcs
<1>24. CASE CloneData(s)
  BY <1>0, <1>24, GotoLemma DEF CloneData, Quiet, Moved, HoldPcs, BootPcs, LivePcs,
     FreePcs, Pcs
<1>25. CASE ReadForMeta(s)
  <2>1. rowIP[proc[s].vm] # NoIP => rowIP[proc[s].vm] \in IPs
    BY <1>0, <1>25 DEF ReadForMeta, TypeOK, ControlOK, ProcOK, NoVMPcs, MaybeIP
  <2>. QED
    BY <1>0, <1>25, <2>1, GotoLemma, GotoWithIPLemma
    DEF ReadForMeta, Quiet, Moved, HoldPcs, BootPcs, LivePcs, FreePcs, Pcs
<1>26. CASE ReadForRoute(s)
  <2>1. rowIP[proc[s].vm] # NoIP => rowIP[proc[s].vm] \in IPs
    BY <1>0, <1>26 DEF ReadForRoute, TypeOK, ControlOK, ProcOK, NoVMPcs, MaybeIP
  <2>. QED
    BY <1>0, <1>26, <2>1, GotoLemma, GotoWithIPLemma
    DEF ReadForRoute, Quiet, Moved, HoldPcs, BootPcs, LivePcs, FreePcs, Pcs
<1>27. CASE ReadForUnmeta(s)
  <2>1. rowIP[proc[s].vm] # NoIP => rowIP[proc[s].vm] \in IPs
    BY <1>0, <1>27 DEF ReadForUnmeta, TypeOK, ControlOK, ProcOK, NoVMPcs, MaybeIP
  <2>. QED
    BY <1>0, <1>27, <2>1, GotoLemma, GotoWithIPLemma
    DEF ReadForUnmeta, AfterUnregister, Quiet, Moved, HoldPcs, BootPcs, LivePcs,
       FreePcs, Pcs
<1>. QED  BY <1>1, <1>2, <1>3, <1>4, <1>5, <1>6, <1>7, <1>8, <1>9, <1>10, <1>11,
   <1>12, <1>13, <1>14, <1>15, <1>16, <1>17, <1>18, <1>19, <1>20, <1>21, <1>22, <1>23,
   <1>24, <1>25, <1>26, <1>27 DEF QuietAction

LEMMA OwnershipStep == Inv /\ [Next]_vars => OwnInv'
<1>. SUFFICES ASSUME Inv, [Next]_vars PROVE OwnInv'
  OBVIOUS
<1>. USE DEF Inv, TypeInv, OwnInv, At, netVars, HoldPcs, BootPcs, LivePcs, FreePcs
<1>0. Sessions \subseteq Procs /\ Main \in Procs
  BY DEF Procs
<1>1. ASSUME NEW s \in Sessions, QuietAction(s) PROVE OwnInv'
  BY <1>0, <1>1, QuietActions, QuietStep
<1>2. ASSUME NEW s \in Sessions, AllocateNet(s) PROVE OwnInv'
  <2>01. nextIP \in Int /\ nextIP' \in Int
    BY <1>2, MaxIPAssumption
    DEF AllocateNet, AllocateNetwork, AllocateNetworkFails, TakeIP, TypeOK,
       NetTypeOK, FirstIP
  <2>02. \A m \in machines : m.ip \in Int
    BY MaxIPAssumption DEF TypeOK, Machine, IPs, FirstIP
  <2>03. \A p \in Procs : proc[p].ip \in Int
    BY MaxIPAssumption DEF TypeOK, Proc, MaybeIP, NoIP, IPs, FirstIP
  <2>1. CASE \/ AllocateNetworkFails(proc[s].vm) /\ Goto(s, "markerr")
             \/ May("bridge") /\ UNCHANGED netVars /\ Goto(s, "markerr")
    <3>1. Moved(s, "markerr", proc[s].ip)
      BY <1>0, <2>1, GotoLemma DEF Pcs
    <3>2. UNCHANGED <<running, machines, crashes>> /\ taps \subseteq taps'
      BY <1>2, <2>1 DEF AllocateNet, AllocateNetworkFails
    <3>3. nextIP' >= nextIP
      BY <1>2, <2>1, MaxIPAssumption DEF TypeOK, NetTypeOK, FirstIP,
         AllocateNetworkFails, TakeIP
    <3>4. proc[s].pc = "net"
      BY <1>2 DEF AllocateNet
    <3>5. TapOwnership'
      BY <1>0, <3>1, <3>2, <3>4 DEF TapOwnership, Moved, Booted
    <3>6. AddressOwnership'
      BY <1>0, <2>01, <2>02, <2>03, <3>1, <3>2, <3>3, <3>4 DEF AddressOwnership, Moved
    <3>. QED  BY <3>2, <3>5, <3>6 DEF OneMachinePerVM, UniqueGuestIP
  <2>2. CASE AllocateNetwork(proc[s].vm) /\ GotoWithIP(s, "boot", nextIP)
    <3>1. nextIP \in IPs /\ nextIP' = nextIP + 1
      BY <2>2, MaxIPAssumption DEF TypeOK, NetTypeOK, AllocateNetwork, TakeIP,
         IPs, FirstIP
    <3>2. Moved(s, "boot", nextIP)
      BY <1>0, <2>2, <3>1, GotoWithIPLemma DEF Pcs
    <3>3. /\ proc[s].pc = "net"
          /\ proc[s].vm \in VMs /\ proc[s].vm \notin taps
          /\ taps' = taps \cup {proc[s].vm}
          /\ UNCHANGED <<running, machines, crashes>>
      BY <1>0, <1>2, <2>2 DEF AllocateNet, AllocateNetwork, TapFree, ControlOK,
         ProcOK, NoVMPcs
    <3>4. TapOwnership'
      BY <1>0, <3>2, <3>3 DEF TapOwnership, Moved, Booted
    <3>5. AddressOwnership'
      BY <1>0, <2>01, <2>02, <2>03, <3>1, <3>2, <3>3 DEF AddressOwnership, Moved
    <3>. QED  BY <3>3, <3>4, <3>5 DEF OneMachinePerVM, UniqueGuestIP
  <2>. QED  BY <1>2, <2>1, <2>2 DEF AllocateNet
<1>3. ASSUME NEW s \in Sessions, StartVM(s) PROVE OwnInv'
  <2>0. /\ proc[s].pc = "boot"
        /\ UNCHANGED <<taps, nextIP, running, crashes>>
    BY <1>3 DEF StartVM
  <2>1. CASE machines' = machines /\ Goto(s, "undo")
    <3>1. Moved(s, "undo", proc[s].ip)
      BY <1>0, <2>1, GotoLemma DEF Pcs
    <3>2. TapOwnership'
      BY <1>0, <2>0, <2>1, <3>1 DEF TapOwnership, Moved, Booted
    <3>3. AddressOwnership'
      BY <1>0, <2>0, <2>1, <3>1 DEF AddressOwnership, Moved
    <3>. QED  BY <2>1, <3>2, <3>3 DEF OneMachinePerVM, UniqueGuestIP
  <2>2. CASE machines' = machines \cup {Booted(s)} /\ Goto(s, "mark")
    <3>1. Moved(s, "mark", proc[s].ip)
      BY <1>0, <2>2, GotoLemma DEF Pcs
    <3>2. Booted(s).vm = proc[s].vm /\ Booted(s).ip = proc[s].ip /\ Booted(s).epoch = crashes
      BY DEF Booted
    <3>3. TapOwnership'
      BY <1>0, <2>0, <2>2, <3>1, <3>2 DEF TapOwnership, Moved, Booted
    <3>4. AddressOwnership'
      BY <1>0, <2>0, <2>2, <3>1, <3>2 DEF AddressOwnership, Moved, TypeOK
    <3>5. OneMachinePerVM'
      BY <1>0, <2>0, <2>2, <3>2 DEF OneMachinePerVM, TapOwnership
    <3>6. UniqueGuestIP'
      BY <1>0, <2>0, <2>2, <3>2 DEF UniqueGuestIP, AddressOwnership
    <3>. QED  BY <3>3, <3>4, <3>5, <3>6
  <2>. QED  BY <1>3, <2>1, <2>2 DEF StartVM
<1>4. ASSUME NEW s \in Sessions, UndoNetwork(s) PROVE OwnInv'
  <2>1. /\ proc[s].pc = "undo" /\ Moved(s, "markerr", proc[s].ip)
        /\ UNCHANGED <<nextIP, running, machines, crashes>>
        /\ taps' \in {taps, taps \ {proc[s].vm}}
    BY <1>0, <1>4, GotoLemma DEF UndoNetwork, ReleaseNetwork, Pcs
  <2>2. TapOwnership'
    BY <1>0, <2>1 DEF TapOwnership, Moved, Booted
  <2>3. AddressOwnership'
    BY <1>0, <2>1 DEF AddressOwnership, Moved
  <2>. QED  BY <2>1, <2>2, <2>3 DEF OneMachinePerVM, UniqueGuestIP
<1>5. ASSUME NEW s \in Sessions, MarkRunning(s) PROVE OwnInv'
  <2>1. /\ proc[s].pc = "mark" /\ Moved(s, "track", proc[s].ip)
        /\ UNCHANGED <<taps, nextIP, running, machines, crashes>>
    BY <1>0, <1>5, GotoLemma DEF MarkRunning, Pcs
  <2>2. TapOwnership'
    BY <1>0, <2>1 DEF TapOwnership, Moved, Booted
  <2>3. AddressOwnership'
    BY <1>0, <2>1 DEF AddressOwnership, Moved
  <2>. QED  BY <2>1, <2>2, <2>3 DEF OneMachinePerVM, UniqueGuestIP
<1>6. ASSUME NEW s \in Sessions, Track(s) PROVE OwnInv'
  <2>1. /\ proc[s].pc = "track" /\ Moved(s, "readmeta", proc[s].ip)
        /\ proc[s].vm \in VMs
        /\ running' = [running EXCEPT ![proc[s].vm] = proc[s].ip]
        /\ UNCHANGED <<taps, nextIP, machines, crashes>>
    BY <1>0, <1>6, GotoLemma DEF Track, Pcs, ControlOK, ProcOK, NoVMPcs
  <2>2. \A m \in machines : m.vm \in VMs
    BY DEF TypeOK, Machine
  <2>3. TapOwnership'
    BY <1>0, <2>1, <2>2 DEF TapOwnership, Moved, Booted, TypeOK
  <2>4. AddressOwnership'
    BY <1>0, <2>1 DEF AddressOwnership, Moved
  <2>. QED  BY <2>1, <2>3, <2>4 DEF OneMachinePerVM, UniqueGuestIP
<1>7. ASSUME NEW p \in Procs, TakeRunning(p) PROVE OwnInv'
  <2>0. /\ proc[p].pc = "take" /\ proc[p].vm \in VMs
        /\ UNCHANGED <<taps, nextIP, machines, crashes>>
    BY <1>7 DEF TakeRunning, ControlOK, ProcOK, NoVMPcs
  <2>1. CASE running[proc[p].vm] = NoIP
    <3>1. AfterStop(proc[p].cmd) \in {"idle", "stat", "disks", "next"}
      BY DEF AfterStop
    <3>2. Quiet(p)
      BY <1>7, <2>0, <2>1, <3>1, GotoLemma DEF TakeRunning, Quiet, hostVars, Moved, Pcs
    <3>. QED  BY <3>2, QuietStep
  <2>2. CASE running[proc[p].vm] # NoIP
    <3>1. running[proc[p].vm] \in IPs
      BY <2>0, <2>2 DEF TypeOK, MaybeIP
    <3>2. /\ Moved(p, "stopvm", running[proc[p].vm])
          /\ running' = [running EXCEPT ![proc[p].vm] = NoIP]
      BY <1>7, <2>2, <3>1, GotoWithIPLemma DEF TakeRunning, Pcs
    <3>3. \A m \in machines : /\ m.vm \in VMs
                              /\ m = [vm |-> m.vm, ip |-> m.ip, epoch |-> m.epoch]
      BY DEF TypeOK, Machine
    <3>4. TapOwnership'
      BY <2>0, <2>2, <3>2, <3>3 DEF TapOwnership, Moved, Booted, TypeOK
    <3>5. AddressOwnership'
      BY <2>0, <3>2 DEF AddressOwnership, Moved
    <3>. QED  BY <2>0, <3>4, <3>5 DEF OneMachinePerVM, UniqueGuestIP
  <2>. QED  BY <2>1, <2>2
<1>8. ASSUME NEW p \in Procs, StopVM(p) PROVE OwnInv'
  <2>1. /\ proc[p].pc = "stopvm" /\ Moved(p, "release", proc[p].ip)
        /\ machines' = machines \ {Booted(p)}
        /\ UNCHANGED <<taps, nextIP, running, crashes>>
    BY <1>8, GotoLemma DEF StopVM, Pcs
  <2>2. TapOwnership'
    BY <2>1 DEF TapOwnership, Moved, Booted
  <2>3. AddressOwnership'
    BY <2>1 DEF AddressOwnership, Moved
  <2>. QED  BY <2>1, <2>2, <2>3 DEF OneMachinePerVM, UniqueGuestIP
<1>9. ASSUME NEW p \in Procs, ReleaseNet(p) PROVE OwnInv'
  <2>1. /\ proc[p].pc = "release" /\ Moved(p, "markstopped", proc[p].ip)
        /\ UNCHANGED <<nextIP, running, machines, crashes>>
        /\ taps' \in {taps, taps \ {proc[p].vm}}
    BY <1>9, GotoLemma DEF ReleaseNet, ReleaseNetwork, Pcs
  <2>2. TapOwnership'
    BY <2>1 DEF TapOwnership, Moved, Booted
  <2>3. AddressOwnership'
    BY <2>1 DEF AddressOwnership, Moved
  <2>. QED  BY <2>1, <2>2, <2>3 DEF OneMachinePerVM, UniqueGuestIP
<1>10. ASSUME NEW p \in Procs, MarkStopped(p) PROVE OwnInv'
  <2>1. AfterStop(proc[p].cmd) \in {"idle", "stat", "disks", "next"}
    BY DEF AfterStop
  <2>2. Quiet(p)
    BY <1>10, <2>1, GotoLemma DEF MarkStopped, Quiet, hostVars, Moved, Pcs
  <2>. QED  BY <2>2, QuietStep
<1>11. CASE ShutdownAll
  BY <1>0, <1>11, QuietStep DEF ShutdownAll, Quiet, hostVars, Idle, TypeOK
<1>12. CASE ShutdownNext
  <2>1. /\ UNCHANGED hostVars /\ proc[Main].pc = "next"
        /\ \A q \in Procs : q # Main => proc'[q] = proc[q]
        /\ proc'[Main].pc \in {"take", "down"}
    <3>1. CASE Goto(Main, "down")
      BY <1>0, <1>12, <3>1, GotoLemma DEF ShutdownNext, Moved, Pcs, hostVars
    <3>2. ASSUME NEW v \in VMs,
                 proc' = [proc EXCEPT ![Main] = [@ EXCEPT !.pc = "take", !.vm = v]]
          PROVE  /\ \A q \in Procs : q # Main => proc'[q] = proc[q]
                 /\ proc'[Main].pc = "take"
      BY <1>0, <3>2 DEF TypeOK, Proc
    <3>. QED  BY <1>12, <3>1, <3>2 DEF ShutdownNext, TypeOK, hostVars
  <2>2. Quiet(Main)
    BY <2>1 DEF Quiet
  <2>. QED  BY <1>0, <2>2, QuietStep
<1>13. CASE ShutdownExpires
  BY <1>13 DEF ShutdownExpires, TapOwnership, AddressOwnership, OneMachinePerVM,
     UniqueGuestIP, Booted
<1>14. CASE GuestExits
  <2>1. machines' \subseteq machines /\ UNCHANGED <<proc, taps, nextIP, running, crashes>>
    BY <1>14 DEF GuestExits
  <2>. QED
    BY <2>1 DEF TapOwnership, AddressOwnership, OneMachinePerVM, UniqueGuestIP, Booted
<1>15. CASE Crash \/ HostReboots
  <2>1. /\ \A p \in Procs : proc'[p].pc = "idle"
        /\ \A v \in VMs : running'[v] = NoIP
        /\ machines' \subseteq machines
        /\ \A m \in machines' : m.vm \in taps'
        /\ crashes' = crashes + 1
    BY <1>15 DEF Crash, HostReboots, ServerRestarts, NetRestart, Idle, TapOwnership
  <2>2. \A m \in machines : m.vm \in VMs /\ m.epoch \in Nat /\ m.epoch <= crashes
    BY DEF TypeOK, Machine, AddressOwnership
  <2>3. crashes \in Nat
    BY MaxCrashesAssumption DEF TypeOK
  <2>4. TapOwnership'
    BY <2>1, <2>2 DEF TapOwnership
  <2>5. AddressOwnership'
    BY <2>1, <2>2, <2>3 DEF AddressOwnership
  <2>. QED  BY <2>1, <2>4, <2>5 DEF OneMachinePerVM, UniqueGuestIP
<1>16. CASE UNCHANGED vars
  BY <1>16 DEF vars, TapOwnership, AddressOwnership, OneMachinePerVM, UniqueGuestIP,
     Booted
<1>17. ASSUME NEW s \in Sessions, CmdRefused(s) PROVE OwnInv'
  BY <1>16, <1>17 DEF CmdRefused
<1>. QED
  BY <1>0, <1>1, <1>2, <1>3, <1>4, <1>5, <1>6, <1>7, <1>8, <1>9, <1>10, <1>11, <1>12,
     <1>13, <1>14, <1>15, <1>16, <1>17
  DEF Next, Command, SessionStep, StopStep, StartStep, RegisterStep, RowStep, MainStep,
      QuietAction

LEMMA InvInductive == Spec => []Inv
<1>1. Init => Inv
  BY TypeInitLemma, InitOwnership DEF Inv
<1>2. Inv /\ [Next]_vars => Inv'
  BY TypeStep, OwnershipStep DEF Inv
<1>. QED  BY <1>1, <1>2, PTL DEF Spec

(* The tap device works as the lock of its VM in every reachable state. *)
THEOREM TapIsTheLock == Spec => []TapOwnership
<1>1. Inv => TapOwnership
  BY DEF Inv, OwnInv
<1>. QED  BY <1>1, InvInductive, PTL

(* Two Firecracker processes never share a VM's disks, whatever sessions   *)
(* do, whichever external commands fail, and however often the server      *)
(* crashes over guests that live on: AllocateNetwork's exclusive tap name  *)
(* is enough, without a per-VM lock in Manager.                            *)
THEOREM NeverTwoMachines == Spec => []OneMachinePerVM
<1>1. Inv => OneMachinePerVM
  BY DEF Inv, OwnInv
<1>. QED  BY <1>1, InvInductive, PTL

(* Within one server lifetime no two guests have the same address.         *)
THEOREM GuestAddressesUnique == Spec => []UniqueGuestIP
<1>1. Inv => UniqueGuestIP
  BY DEF Inv, OwnInv
<1>. QED  BY <1>1, InvInductive, PTL
=============================================================================
