------------------------- MODULE VMResourceProofs --------------------------
(***************************************************************************)
(* What the manager keeps about its VMs is what the host has: the running  *)
(* map, the allocation map, the rows and the metadata registry, for every  *)
(* number of sessions, VMs and addresses.  The fault a statement cannot    *)
(* survive is a hypothesis, and what a new server process cannot know is   *)
(* claimed up to the first crash.                                          *)
(***************************************************************************)
EXTENDS VMOwnershipProofs, FiniteSetTheorems

(* Nothing outside proc, rows, disks and registries changes. *)
LEMMA QuietKeepsAllocated ==
    ASSUME NEW s \in Sessions, QuietAction(s)
    PROVE  UNCHANGED allocated
<1>. USE DEF netVars
<1>1. CASE \/ CmdNew(s) \/ CmdCp(s) \/ CmdStart(s) \/ CmdStop(s)
           \/ CmdRestart(s) \/ CmdRm(s) \/ CreateVM(s) \/ Confirm(s)
  BY <1>1 DEF CmdNew, CmdCp, CmdStart, CmdStop, CmdRestart, CmdRm, Begin, CreateVM, Confirm
<1>2. CASE \/ CreateVMFails(s) \/ MarkCreating(s) \/ EnsureRootfs(s) \/ StatRootfs(s)
           \/ SeedAuthorizedKeys(s) \/ CreateDataDisk(s) \/ MarkError(s) \/ RegisterVM(s)
  BY <1>2 DEF CreateVMFails, MarkCreating, EnsureRootfs, StatRootfs, SeedAuthorizedKeys,
     CreateDataDisk, MarkError, RegisterVM
<1>3. CASE \/ AddRoute(s) \/ UnregisterVM(s) \/ RemoveRoute(s) \/ IsRunning(s)
           \/ RemoveDisks(s) \/ DeleteRow(s) \/ CloneRootfs(s) \/ CloneData(s)
           \/ ReadForMeta(s) \/ ReadForRoute(s) \/ ReadForUnmeta(s)
  BY <1>3 DEF AddRoute, UnregisterVM, RemoveRoute, IsRunning, RemoveDisks, DeleteRow,
     CloneRootfs, CloneData, ReadForMeta, ReadForRoute, ReadForUnmeta
<1>. QED  BY <1>1, <1>2, <1>3 DEF QuietAction

(* What a quiet action does to a row: it may delete it or take its address *)
(* away, but none makes it say running.                                    *)
LEMMA QuietRow ==
    ASSUME Inv, NEW s \in Sessions, QuietAction(s)
    PROVE  /\ proc[s].pc \notin {"release", "markstopped"}
           /\ \A v \in VMs : /\ rowIP'[v] \in {rowIP[v], NoIP}
                             /\ status'[v] = "running" =>
                                   status[v] = "running" /\ rowIP'[v] = rowIP[v]
<1>. USE DEF rowVars, At, Inv, TypeInv, TypeOK
<1>1. CASE \/ CmdNew(s) \/ CmdCp(s) \/ CmdStart(s) \/ CmdStop(s)
           \/ CmdRestart(s) \/ CmdRm(s) \/ Confirm(s)
  BY <1>1 DEF CmdNew, CmdCp, CmdStart, CmdStop, CmdRestart, CmdRm, Begin, Confirm
<1>2. CASE CreateVM(s)
  BY <1>2 DEF CreateVM
<1>3. CASE MarkCreating(s) \/ MarkError(s)
  BY <1>3 DEF MarkCreating, MarkError, UpdateVMStatus
<1>4. CASE DeleteRow(s)
  BY <1>4 DEF DeleteRow, DeleteVM
<1>5. CASE \/ CreateVMFails(s) \/ EnsureRootfs(s) \/ StatRootfs(s)
           \/ SeedAuthorizedKeys(s) \/ CreateDataDisk(s) \/ RegisterVM(s)
  BY <1>5 DEF CreateVMFails, EnsureRootfs, StatRootfs, SeedAuthorizedKeys,
     CreateDataDisk, RegisterVM
<1>6. CASE \/ AddRoute(s) \/ UnregisterVM(s) \/ RemoveRoute(s) \/ IsRunning(s)
           \/ RemoveDisks(s) \/ CloneRootfs(s) \/ CloneData(s)
           \/ ReadForMeta(s) \/ ReadForRoute(s) \/ ReadForUnmeta(s)
  BY <1>6 DEF AddRoute, UnregisterVM, RemoveRoute, IsRunning, RemoveDisks,
     CloneRootfs, CloneData, ReadForMeta, ReadForRoute, ReadForUnmeta
<1>. QED  BY <1>1, <1>2, <1>3, <1>4, <1>5, <1>6 DEF QuietAction

(* ... and to the registry. *)
LEMMA QuietMeta ==
    ASSUME Inv, NEW s \in Sessions, QuietAction(s)
    PROVE  \A i \in IPs : \/ meta'[i] \in {meta[i], NoVM}
                          \/ /\ proc[s].pc = "setmeta" /\ proc[s].ip = i
                             /\ meta'[i] = proc[s].vm
<1>. USE DEF regVars, At, Inv, TypeInv, TypeOK
<1>1. CASE RegisterVM(s)
  BY <1>1 DEF RegisterVM
<1>2. CASE UnregisterVM(s)
  BY <1>2 DEF UnregisterVM
<1>3. CASE \/ CmdNew(s) \/ CmdCp(s) \/ CmdStart(s) \/ CmdStop(s)
           \/ CmdRestart(s) \/ CmdRm(s) \/ CreateVM(s) \/ Confirm(s)
  BY <1>3 DEF CmdNew, CmdCp, CmdStart, CmdStop, CmdRestart, CmdRm, Begin, CreateVM, Confirm
<1>4. CASE \/ CreateVMFails(s) \/ MarkCreating(s) \/ EnsureRootfs(s) \/ StatRootfs(s)
           \/ SeedAuthorizedKeys(s) \/ CreateDataDisk(s) \/ MarkError(s)
  BY <1>4 DEF CreateVMFails, MarkCreating, EnsureRootfs, StatRootfs, SeedAuthorizedKeys,
     CreateDataDisk, MarkError
<1>5. CASE \/ AddRoute(s) \/ RemoveRoute(s) \/ IsRunning(s)
           \/ RemoveDisks(s) \/ DeleteRow(s) \/ CloneRootfs(s) \/ CloneData(s)
           \/ ReadForMeta(s) \/ ReadForRoute(s) \/ ReadForUnmeta(s)
  BY <1>5 DEF AddRoute, RemoveRoute, IsRunning, RemoveDisks, DeleteRow,
     CloneRootfs, CloneData, ReadForMeta, ReadForRoute, ReadForUnmeta
<1>. QED  BY <1>1, <1>2, <1>3, <1>4, <1>5 DEF QuietAction

(* ... and to its own address: forgotten, or read from the row.            *)
LEMMA QuietProc ==
    ASSUME Inv, NEW s \in Sessions, QuietAction(s)
    PROVE  \/ proc'[s].pc \notin AddressPcs
           \/ /\ proc'[s].vm = proc[s].vm
              /\ proc'[s].ip = rowIP[proc[s].vm]
<1>. USE DEF Inv, TypeInv, At, AddressPcs, Pcs, Moved
<1>0. s \in Procs
  BY DEF Procs
<1>1. CASE CmdNew(s) \/ CmdCp(s) \/ CmdStart(s) \/ CmdStop(s) \/ CmdRestart(s) \/ CmdRm(s)
  <2>1. ASSUME NEW c, NEW v, NEW l \in {"insert", "stat", "readunmeta", "confirm"}, NEW w,
               Begin(s, c, v, l, w)
        PROVE  proc'[s].pc = l
    BY <1>0, <2>1 DEF Begin, Idle, TypeOK
  <2>. QED
    BY <1>1, <2>1 DEF CmdNew, CmdCp, CmdStart, CmdStop, CmdRestart, CmdRm
<1>3. CASE CreateVM(s)
  BY <1>0, <1>3 DEF CreateVM, TypeOK, Proc
<1>4. CASE Confirm(s) \/ CreateVMFails(s) \/ MarkCreating(s) \/ EnsureRootfs(s)
  BY <1>0, <1>4, GotoLemma DEF Confirm, CreateVMFails, MarkCreating, EnsureRootfs
<1>5. CASE StatRootfs(s) \/ SeedAuthorizedKeys(s) \/ CreateDataDisk(s) \/ MarkError(s)
  BY <1>0, <1>5, GotoLemma DEF StatRootfs, SeedAuthorizedKeys, CreateDataDisk, MarkError
<1>6. CASE RegisterVM(s) \/ AddRoute(s) \/ IsRunning(s) \/ RemoveDisks(s)
  BY <1>0, <1>6, GotoLemma DEF RegisterVM, AddRoute, IsRunning, RemoveDisks
<1>7. CASE DeleteRow(s) \/ CloneRootfs(s) \/ CloneData(s)
  BY <1>0, <1>7, GotoLemma DEF DeleteRow, CloneRootfs, CloneData
<1>8. CASE UnregisterVM(s) \/ RemoveRoute(s)
  BY <1>0, <1>8, GotoLemma DEF UnregisterVM, RemoveRoute, AfterUnregister
<1>9. CASE ReadForMeta(s) \/ ReadForRoute(s) \/ ReadForUnmeta(s)
  <2>. DEFINE i == rowIP[proc[s].vm]
  <2>1. rowIP[proc[s].vm] # NoIP => rowIP[proc[s].vm] \in IPs
    BY <1>0, <1>9 DEF ReadForMeta, ReadForRoute, ReadForUnmeta, TypeOK, ControlOK, ProcOK,
       NoVMPcs, MaybeIP
  <2>2. ASSUME NEW l \in {"setmeta", "addroute", "unmeta"}, i # NoIP, GotoWithIP(s, l, i)
        PROVE  proc'[s].vm = proc[s].vm /\ proc'[s].ip = i
    BY <1>0, <2>1, <2>2, GotoWithIPLemma
  <2>3. ASSUME NEW l \in {"readroute", "idle", "unroute", "isrunning", "stat", "take"},
               Goto(s, l)
        PROVE  proc'[s].pc \notin AddressPcs
    BY <1>0, <2>3, GotoLemma
  <2>4. AfterUnregister(s) \in {"isrunning", "stat", "take"}
    BY DEF AfterUnregister
  <2>5. CASE ReadForMeta(s)
    BY <2>2, <2>3, <2>5 DEF ReadForMeta
  <2>6. CASE ReadForRoute(s)
    BY <2>2, <2>3, <2>6 DEF ReadForRoute
  <2>7. CASE ReadForUnmeta(s)
    BY <2>2, <2>3, <2>4, <2>7 DEF ReadForUnmeta
  <2>. QED  BY <1>9, <2>5, <2>6, <2>7
<1>. QED  BY <1>1, <1>3, <1>4, <1>5, <1>6, <1>7, <1>8, <1>9 DEF QuietAction

-----------------------------------------------------------------------------
(* The inductive invariants. *)

(* The allocation map follows the holder of the tap, then the running map. *)
AllocInv ==
    /\ \A p \in Procs : proc[p].pc \in HoldPcs => allocated[proc[p].vm] = proc[p].ip
    /\ \A v \in VMs : running[v] # NoIP => allocated[v] = running[v]

(* Where a process should be, it is. *)
LiveInv ==
    "exit" \notin Faults =>
        /\ \A p \in Procs : proc[p].pc \in LivePcs => Booted(p) \in machines
        /\ \A v \in VMs : running[v] # NoIP =>
              [vm |-> v, ip |-> running[v], epoch |-> crashes] \in machines

(* A tap or an allocation has an owner: somebody who holds the tap, or the *)
(* running map.                                                            *)
LeakInv ==
    "tapdel" \notin Faults /\ crashes = 0 =>
        /\ \A v \in taps : \/ running[v] # NoIP
                           \/ \E p \in Procs : proc[p].pc \in HoldPcs /\ proc[p].vm = v
        /\ \A v \in VMs : allocated[v] # NoIP => v \in taps

RowInv ==
    "exit" \notin Faults /\ "expire" \notin Faults /\ crashes = 0 => RunningRowBacked

(* Somebody knows i as the address of v. *)
Known(i, v) ==
    \/ \E m \in machines : m.ip = i /\ m.vm = v
    \/ rowIP[v] = i
    \/ running[v] = i
    \/ meta[i] = v
    \/ \E p \in Procs : proc[p].pc \in AddressPcs /\ proc[p].ip = i /\ proc[p].vm = v

(* An address is known for one VM, ever. *)
KnownInv ==
    crashes = 0 =>
        \A i \in IPs, v \in VMs : Known(i, v) =>
            i < nextIP /\ \A w \in VMs : Known(i, w) => v = w

ResInv == AllocInv /\ LiveInv /\ LeakInv /\ RowInv /\ KnownInv

FullInv == Inv /\ ResInv

(* Nothing new is known, or the address just allocated. *)
NothingNew == \A i \in IPs, v \in VMs : Known(i, v)' => Known(i, v)

LEMMA NothingNewStep ==
    ASSUME KnownInv, NothingNew, UNCHANGED crashes, nextIP \in Int, nextIP' \in Int,
           nextIP' >= nextIP
    PROVE  KnownInv'
<1>. SUFFICES ASSUME crashes = 0, NEW i \in IPs, NEW v \in VMs, Known(i, v)'
              PROVE  i < nextIP' /\ \A w \in VMs : Known(i, w)' => v = w
  BY DEF KnownInv
<1>1. i < nextIP /\ \A w \in VMs : Known(i, w) => v = w
  BY DEF KnownInv, NothingNew
<1>2. i \in Int
  BY MaxIPAssumption DEF IPs, FirstIP
<1>. QED  BY <1>1, <1>2 DEF NothingNew

(* p holds no tap, and writes no address that it has not been given. *)
Harmless(p) ==
    /\ Quiet(p)
    /\ UNCHANGED allocated
    /\ proc[p].pc \notin {"release", "markstopped"}
    /\ \A v \in VMs : /\ rowIP'[v] \in {rowIP[v], NoIP}
                      /\ status'[v] = "running" =>
                            status[v] = "running" /\ rowIP'[v] = rowIP[v]
    /\ \A i \in IPs : \/ meta'[i] \in {meta[i], NoVM}
                      \/ /\ proc[p].pc = "setmeta" /\ proc[p].ip = i
                         /\ meta'[i] = proc[p].vm
    /\ \/ proc'[p].pc \notin AddressPcs
       \/ proc'[p].vm = proc[p].vm /\ proc'[p].ip = rowIP[proc[p].vm]

LEMMA HarmlessActions ==
    ASSUME Inv, NEW s \in Sessions, QuietAction(s)
    PROVE  Harmless(s)
BY QuietActions, QuietKeepsAllocated, QuietRow, QuietMeta, QuietProc DEF Harmless

LEMMA HarmlessResources ==
    ASSUME FullInv, NEW s \in Procs, Harmless(s)
    PROVE  ResInv'
<1>. USE DEF FullInv, ResInv
<1>1. Quiet(s) /\ UNCHANGED allocated
  BY DEF Harmless
<1>2. AllocInv'
  BY <1>1 DEF AllocInv, Quiet, hostVars
<1>3. LiveInv'
  BY <1>1 DEF LiveInv, Quiet, hostVars, Booted, HoldPcs
<1>4. LeakInv'
  BY <1>1 DEF LeakInv, Quiet, hostVars
<1>5. RowInv'
  BY <1>1 DEF Harmless, RowInv, RunningRowBacked, Quiet, hostVars
<1>6. NothingNew
  <2>. SUFFICES ASSUME NEW i \in IPs, NEW v \in VMs, Known(i, v)'
                PROVE  Known(i, v)
    BY DEF NothingNew
  <2>0. i # NoIP /\ v # NoVM
    BY VMsAssumption DEF IPs, NoIP, FirstIP, NoVM
  <2>1. CASE \E m \in machines' : m.ip = i /\ m.vm = v
    BY <1>1, <2>1 DEF Known, Quiet, hostVars
  <2>2. CASE rowIP'[v] = i
    BY <2>0, <2>2 DEF Harmless, Known
  <2>3. CASE running'[v] = i
    BY <1>1, <2>3 DEF Known, Quiet, hostVars
  <2>4. CASE meta'[i] = v
    BY <2>0, <2>4 DEF Harmless, Known, AddressPcs
  <2>5. CASE \E p \in Procs : proc'[p].pc \in AddressPcs /\ proc'[p].ip = i /\ proc'[p].vm = v
    BY <1>1, <2>5 DEF Harmless, Known, Quiet
  <2>. QED  BY <2>1, <2>2, <2>3, <2>4, <2>5 DEF Known
<1>7. nextIP \in Int /\ nextIP' = nextIP /\ crashes' = crashes
  BY <1>1, MaxIPAssumption DEF Inv, TypeInv, TypeOK, NetTypeOK, FirstIP, Quiet, hostVars
<1>8. KnownInv'
  BY <1>6, <1>7, NothingNewStep
<1>. QED  BY <1>2, <1>3, <1>4, <1>5, <1>8

LEMMA ResourcesInit == Init => ResInv
<1>. SUFFICES ASSUME Init PROVE ResInv
  OBVIOUS
<1>1. /\ \A p \in Procs : proc[p].pc = "idle"
      /\ machines = {} /\ taps = {}
      /\ \A v \in VMs : /\ running[v] = NoIP /\ allocated[v] = NoIP
                        /\ rowIP[v] = NoIP /\ status[v] = "absent"
      /\ \A i \in IPs : meta[i] = NoVM
  BY DEF Init, NetInit, Idle
<1>2. "idle" \notin HoldPcs \cup AddressPcs
  BY DEF HoldPcs, BootPcs, LivePcs, FreePcs, AddressPcs
<1>3. AllocInv /\ LiveInv /\ LeakInv /\ RowInv
  BY <1>1, <1>2 DEF AllocInv, LiveInv, LeakInv, RowInv, RunningRowBacked, HoldPcs
<1>4. \A i \in IPs, v \in VMs : ~Known(i, v)
  <2>1. \A i \in IPs, v \in VMs : i # NoIP /\ v # NoVM
    BY VMsAssumption DEF IPs, NoIP, FirstIP, NoVM
  <2>. QED  BY <1>1, <1>2, <2>1 DEF Known
<1>. QED  BY <1>3, <1>4 DEF ResInv, KnownInv

(* The row of v, when a step rewrites one row at most. *)
OtherRowsKept(v) ==
    \A w \in VMs : w # v => status'[w] = status[w] /\ rowIP'[w] = rowIP[w]

(* The steps that hold a tap, and the environment. *)
LEMMA AllocateNetResources ==
    ASSUME FullInv, NEW s \in Sessions, AllocateNet(s)
    PROVE  ResInv'
<1>. USE DEF FullInv, ResInv, HoldPcs, BootPcs, LivePcs, FreePcs
<1>0. /\ s \in Procs /\ proc[s].pc = "net" /\ proc[s].vm \in VMs
      /\ UNCHANGED <<status, rowIP, running, machines, meta, crashes>>
      /\ TypeOK
  BY DEF Procs, AllocateNet, At, rowVars, regVars, Inv, TypeInv, ControlOK, ProcOK, NoVMPcs
<1>01. nextIP \in Int /\ nextIP' \in Int /\ nextIP' >= nextIP
  BY <1>0, MaxIPAssumption DEF AllocateNet, AllocateNetwork, AllocateNetworkFails, TakeIP,
     netVars, TypeOK, NetTypeOK, FirstIP
<1>1. CASE \/ AllocateNetworkFails(proc[s].vm) /\ Goto(s, "markerr")
           \/ May("bridge") /\ UNCHANGED netVars /\ Goto(s, "markerr")
  <2>1. Moved(s, "markerr", proc[s].ip)
    BY <1>0, <1>1, GotoLemma DEF Pcs
  <2>2. UNCHANGED allocated /\ ("tapdel" \notin Faults => UNCHANGED taps) /\ taps \subseteq taps'
    BY <1>1 DEF AllocateNetworkFails, netVars
  <2>3. AllocInv'
    BY <1>0, <2>1, <2>2 DEF AllocInv, Moved
  <2>4. LiveInv'
    BY <1>0, <2>1 DEF LiveInv, Moved, Booted
  <2>5. LeakInv'
    BY <1>0, <2>1, <2>2 DEF LeakInv, Moved
  <2>6. RowInv'
    BY <1>0, <2>1 DEF RowInv, RunningRowBacked, Moved
  <2>7. NothingNew
    BY <1>0, <2>1 DEF NothingNew, Known, Moved, AddressPcs
  <2>8. KnownInv'
    BY <1>0, <1>01, <2>7, NothingNewStep
  <2>. QED  BY <2>3, <2>4, <2>5, <2>6, <2>8
<1>2. CASE AllocateNetwork(proc[s].vm) /\ GotoWithIP(s, "boot", nextIP)
  <2>1. nextIP \in IPs /\ nextIP' = nextIP + 1
    BY <1>0, <1>2, MaxIPAssumption DEF TypeOK, NetTypeOK, AllocateNetwork, TakeIP, IPs, FirstIP
  <2>2. Moved(s, "boot", nextIP)
    BY <1>0, <1>2, <2>1, GotoWithIPLemma DEF Pcs
  <2>3. /\ proc[s].vm \notin taps /\ taps' = taps \cup {proc[s].vm}
        /\ allocated' = [allocated EXCEPT ![proc[s].vm] = nextIP]
        /\ allocated \in [VMs -> MaybeIP]
    BY <1>0, <1>2 DEF AllocateNetwork, TapFree, TypeOK, NetTypeOK
  <2>4. AllocInv'
    BY <1>0, <2>2, <2>3 DEF AllocInv, Moved, Inv, OwnInv, TapOwnership, TypeInv, ControlOK,
       ProcOK, NoVMPcs
  <2>5. LiveInv'
    BY <1>0, <2>2 DEF LiveInv, Moved, Booted
  <2>6. LeakInv'
    BY <1>0, <2>2, <2>3 DEF LeakInv, Moved
  <2>7. RowInv'
    BY <1>0, <2>2 DEF RowInv, RunningRowBacked, Moved
  <2>8. \A i \in IPs, v \in VMs :
           Known(i, v)' => Known(i, v) \/ (i = nextIP /\ v = proc[s].vm)
    BY <1>0, <2>2 DEF Known, Moved
  <2>9. KnownInv'
    <3>. SUFFICES ASSUME crashes = 0, NEW i \in IPs, NEW v \in VMs, Known(i, v)'
                  PROVE  i < nextIP' /\ \A w \in VMs : Known(i, w)' => v = w
      BY <1>0 DEF KnownInv
    <3>1. i \in Int
      BY MaxIPAssumption DEF IPs, FirstIP
    <3>2. \A w \in VMs : Known(i, w) => i < nextIP /\ \A x \in VMs : Known(i, x) => w = x
      BY DEF KnownInv
    <3>. QED  BY <1>01, <2>1, <2>8, <3>1, <3>2
  <2>. QED  BY <2>4, <2>5, <2>6, <2>7, <2>9
<1>. QED  BY <1>1, <1>2 DEF AllocateNet

LEMMA StartVMResources ==
    ASSUME FullInv, NEW s \in Sessions, StartVM(s)
    PROVE  ResInv'
<1>. USE DEF FullInv, ResInv, HoldPcs, BootPcs, LivePcs, FreePcs
<1>0. /\ s \in Procs /\ proc[s].pc = "boot" /\ proc[s].vm \in VMs
      /\ UNCHANGED <<status, rowIP, running, meta, crashes, taps, nextIP, allocated>>
      /\ TypeOK /\ nextIP \in Int
  BY MaxIPAssumption DEF Procs, StartVM, At, rowVars, regVars, netVars, Inv, TypeInv,
     ControlOK, ProcOK, NoVMPcs, TypeOK, NetTypeOK, FirstIP
<1>1. \/ machines' = machines /\ Moved(s, "undo", proc[s].ip)
      \/ machines' = machines \cup {Booted(s)} /\ Moved(s, "mark", proc[s].ip)
  BY <1>0, GotoLemma DEF StartVM, Pcs
<1>2. AllocInv'
  BY <1>0, <1>1 DEF AllocInv, Moved
<1>3. LiveInv'
  BY <1>0, <1>1 DEF LiveInv, Moved, Booted
<1>4. LeakInv'
  BY <1>0, <1>1 DEF LeakInv, Moved
<1>5. RowInv'
  BY <1>0, <1>1 DEF RowInv, RunningRowBacked, Moved
<1>6. NothingNew
  BY <1>0, <1>1 DEF NothingNew, Known, Moved, AddressPcs, Booted
<1>7. KnownInv'
  BY <1>0, <1>6, NothingNewStep
<1>. QED  BY <1>2, <1>3, <1>4, <1>5, <1>7

(* UndoNetwork and ReleaseNet: the holder lets the tap go. *)
LEMMA ReleaseResources ==
    ASSUME FullInv, NEW p \in Procs, ReleaseNetwork(proc[p].vm), NEW l \in Pcs,
           \/ proc[p].pc = "undo" /\ l = "markerr"
           \/ proc[p].pc = "release" /\ l = "markstopped",
           Goto(p, l),
           UNCHANGED <<rowVars, running, machines, regVars, crashes>>
    PROVE  ResInv'
<1>. USE DEF FullInv, ResInv, HoldPcs, BootPcs, LivePcs, FreePcs, rowVars, regVars
<1>0. /\ proc[p].vm \in VMs /\ TypeOK /\ nextIP \in Int /\ UNCHANGED nextIP
      /\ allocated' = [allocated EXCEPT ![proc[p].vm] = NoIP]
      /\ allocated \in [VMs -> MaybeIP]
      /\ taps' \in {taps, taps \ {proc[p].vm}}
      /\ "tapdel" \notin Faults => taps' = taps \ {proc[p].vm}
  BY MaxIPAssumption DEF ReleaseNetwork, Inv, TypeInv, ControlOK, ProcOK, NoVMPcs, TypeOK,
     NetTypeOK, FirstIP
<1>1. Moved(p, l, proc[p].ip)
  BY <1>0, GotoLemma
<1>2. AllocInv'
  BY <1>0, <1>1 DEF AllocInv, Moved, Inv, OwnInv, TapOwnership, TypeInv, ControlOK,
     ProcOK, NoVMPcs
<1>3. LiveInv'
  BY <1>0, <1>1 DEF LiveInv, Moved, Booted
<1>4. LeakInv'
  BY <1>0, <1>1 DEF LeakInv, Moved
<1>5. RowInv'
  BY <1>0, <1>1 DEF RowInv, RunningRowBacked, Moved
<1>6. NothingNew
  BY <1>0, <1>1 DEF NothingNew, Known, Moved, AddressPcs, Booted
<1>7. KnownInv'
  BY <1>0, <1>6, NothingNewStep
<1>. QED  BY <1>2, <1>3, <1>4, <1>5, <1>7

LEMMA MarkRunningResources ==
    ASSUME FullInv, NEW s \in Sessions, MarkRunning(s)
    PROVE  ResInv'
<1>. USE DEF FullInv, ResInv, HoldPcs, BootPcs, LivePcs, FreePcs
<1>0. /\ s \in Procs /\ proc[s].pc = "mark" /\ proc[s].vm \in VMs
      /\ UNCHANGED <<running, machines, meta, crashes, taps, nextIP, allocated>>
      /\ UpdateVMStatus(proc[s].vm, "running", proc[s].ip)
      /\ TypeOK /\ nextIP \in Int /\ Moved(s, "track", proc[s].ip)
  BY MaxIPAssumption, GotoLemma DEF Procs, MarkRunning, At, regVars, netVars, Inv, TypeInv,
     ControlOK, ProcOK, NoVMPcs, TypeOK, NetTypeOK, FirstIP, Pcs
<1>1. /\ OtherRowsKept(proc[s].vm)
      /\ \/ status' = status /\ rowIP' = rowIP
         \/ rowIP'[proc[s].vm] = proc[s].ip
  BY <1>0 DEF UpdateVMStatus, OtherRowsKept, TypeOK
<1>2. AllocInv'
  BY <1>0 DEF AllocInv, Moved
<1>3. LiveInv'
  BY <1>0 DEF LiveInv, Moved, Booted
<1>4. LeakInv'
  BY <1>0 DEF LeakInv, Moved
<1>5. RowInv'
  BY <1>0, <1>1 DEF RowInv, RunningRowBacked, Moved, OtherRowsKept, LiveInv, Booted
<1>6. NothingNew
  BY <1>0, <1>1 DEF NothingNew, Known, Moved, AddressPcs, OtherRowsKept
<1>7. KnownInv'
  BY <1>0, <1>6, NothingNewStep
<1>. QED  BY <1>2, <1>3, <1>4, <1>5, <1>7

LEMMA TrackResources ==
    ASSUME FullInv, NEW s \in Sessions, Track(s)
    PROVE  ResInv'
<1>. USE DEF FullInv, ResInv, HoldPcs, BootPcs, LivePcs, FreePcs
<1>0. /\ s \in Procs /\ proc[s].pc = "track" /\ proc[s].vm \in VMs
      /\ UNCHANGED <<status, rowIP, machines, meta, crashes, taps, nextIP, allocated>>
      /\ running' = [running EXCEPT ![proc[s].vm] = proc[s].ip]
      /\ running \in [VMs -> MaybeIP] /\ proc[s].ip \in IPs
      /\ TypeOK /\ nextIP \in Int /\ Moved(s, "readmeta", proc[s].ip)
  BY MaxIPAssumption, GotoLemma DEF Procs, Track, At, rowVars, regVars, netVars, Inv,
     TypeInv, ControlOK, ProcOK, NoVMPcs, AddressPcs, TypeOK, NetTypeOK, FirstIP, Pcs
<1>1. proc[s].ip # NoIP
  BY <1>0 DEF IPs, FirstIP, NoIP
<1>2. AllocInv'
  BY <1>0 DEF AllocInv, Moved
<1>3. LiveInv'
  BY <1>0 DEF LiveInv, Moved, Booted
<1>4. LeakInv'
  BY <1>0, <1>1 DEF LeakInv, Moved, Inv, TypeInv, TypeOK, NetTypeOK
<1>5. RowInv'
  BY <1>0 DEF RowInv, RunningRowBacked, Moved
<1>6. NothingNew
  BY <1>0 DEF NothingNew, Known, Moved, AddressPcs
<1>7. KnownInv'
  BY <1>0, <1>6, NothingNewStep
<1>. QED  BY <1>2, <1>3, <1>4, <1>5, <1>7

LEMMA TakeRunningResources ==
    ASSUME FullInv, NEW p \in Procs, TakeRunning(p)
    PROVE  ResInv'
<1>. USE DEF FullInv, ResInv, HoldPcs, BootPcs, LivePcs, FreePcs
<1>0. /\ proc[p].pc = "take" /\ proc[p].vm \in VMs
      /\ UNCHANGED <<status, rowIP, machines, meta, crashes, taps, nextIP, allocated>>
      /\ running \in [VMs -> MaybeIP]
      /\ TypeOK /\ nextIP \in Int
  BY MaxIPAssumption DEF TakeRunning, At, rowVars, regVars, netVars, Inv,
     TypeInv, ControlOK, ProcOK, NoVMPcs, TypeOK, NetTypeOK, FirstIP
<1>1. CASE running[proc[p].vm] = NoIP
  <2>1. AfterStop(proc[p].cmd) \in {"idle", "stat", "disks", "next"}
    BY DEF AfterStop
  <2>2. PICK l \in {"idle", "stat", "disks", "next"} : Goto(p, l) /\ UNCHANGED running
    BY <1>1, <2>1 DEF TakeRunning
  <2>3. Moved(p, l, proc[p].ip)
    BY <1>0, <2>2, GotoLemma DEF Pcs
  <2>4. Harmless(p)
    BY <1>0, <2>2, <2>3 DEF Harmless, Quiet, hostVars, Moved, AddressPcs
  <2>. QED  BY <2>4, HarmlessResources
<1>2. CASE running[proc[p].vm] # NoIP
  <2>1. running[proc[p].vm] \in IPs
    BY <1>0, <1>2 DEF MaybeIP
  <2>2. /\ Moved(p, "stopvm", running[proc[p].vm])
        /\ running' = [running EXCEPT ![proc[p].vm] = NoIP]
    BY <1>0, <1>2, <2>1, GotoWithIPLemma DEF TakeRunning, Pcs
  <2>3. AllocInv'
    BY <1>0, <1>2, <2>2 DEF AllocInv, Moved
  <2>4. LiveInv'
    BY <1>0, <1>2, <2>2 DEF LiveInv, Moved, Booted
  <2>5. LeakInv'
    BY <1>0, <1>2, <2>2 DEF LeakInv, Moved, TypeOK, NetTypeOK
  <2>6. RowInv'
    BY <1>0, <2>2 DEF RowInv, RunningRowBacked, Moved
  <2>7. NothingNew
    <3>. SUFFICES ASSUME NEW i \in IPs, NEW v \in VMs, Known(i, v)' PROVE Known(i, v)
      BY DEF NothingNew
    <3>1. i # NoIP
      BY DEF IPs, FirstIP, NoIP
    <3>. QED  BY <1>0, <2>2, <3>1 DEF Known, Moved, AddressPcs
  <2>8. KnownInv'
    BY <1>0, <2>7, NothingNewStep
  <2>. QED  BY <2>3, <2>4, <2>5, <2>6, <2>8
<1>. QED  BY <1>1, <1>2

LEMMA StopVMResources ==
    ASSUME FullInv, NEW p \in Procs, StopVM(p)
    PROVE  ResInv'
<1>. USE DEF FullInv, ResInv, HoldPcs, BootPcs, LivePcs, FreePcs
<1>0. /\ proc[p].pc = "stopvm" /\ proc[p].vm \in VMs
      /\ UNCHANGED <<status, rowIP, running, meta, crashes, taps, nextIP, allocated>>
      /\ machines' = machines \ {Booted(p)}
      /\ TypeOK /\ nextIP \in Int /\ Moved(p, "release", proc[p].ip)
  BY MaxIPAssumption, GotoLemma DEF StopVM, At, rowVars, regVars, netVars, Inv,
     TypeInv, ControlOK, ProcOK, NoVMPcs, TypeOK, NetTypeOK, FirstIP, Pcs
<1>1. /\ Booted(p).vm = proc[p].vm /\ Booted(p).ip = proc[p].ip
      /\ running[proc[p].vm] = NoIP
      /\ \A q \in Procs : proc[q].pc \in LivePcs /\ q # p => proc[q].vm # proc[p].vm
  BY <1>0 DEF Booted, Inv, OwnInv, TapOwnership
<1>2. AllocInv'
  BY <1>0 DEF AllocInv, Moved
<1>3. LiveInv'
  BY <1>0, <1>1 DEF LiveInv, Moved, Booted
<1>4. LeakInv'
  BY <1>0 DEF LeakInv, Moved
<1>5. RowInv'
  BY <1>0, <1>1 DEF RowInv, RunningRowBacked, Moved, Booted
<1>6. NothingNew
  BY <1>0 DEF NothingNew, Known, Moved, AddressPcs
<1>7. KnownInv'
  BY <1>0, <1>6, NothingNewStep
<1>. QED  BY <1>2, <1>3, <1>4, <1>5, <1>7

(* Without the fault the 30 s of ShutdownAll do not run out. *)
DeadlineInv == "expire" \notin Faults => deadline = "ahead"

LEMMA MarkStoppedResources ==
    ASSUME FullInv, DeadlineInv, NEW p \in Procs, MarkStopped(p)
    PROVE  ResInv'
<1>. USE DEF FullInv, ResInv, HoldPcs, BootPcs, LivePcs, FreePcs
<1>0. /\ proc[p].pc = "markstopped" /\ proc[p].vm \in VMs
      /\ UNCHANGED <<running, machines, meta, crashes, taps, nextIP, allocated>>
      /\ TypeOK /\ nextIP \in Int
  BY MaxIPAssumption DEF MarkStopped, At, regVars, netVars, Inv,
     TypeInv, ControlOK, ProcOK, NoVMPcs, TypeOK, NetTypeOK, FirstIP
<1>1. AfterStop(proc[p].cmd) \in {"idle", "stat", "disks", "next"}
  BY DEF AfterStop
<1>2. PICK l \in {"idle", "stat", "disks", "next"} : Goto(p, l)
  BY <1>1 DEF MarkStopped
<1>3. Moved(p, l, proc[p].ip)
  BY <1>0, <1>2, GotoLemma DEF Pcs
<1>4. /\ OtherRowsKept(proc[p].vm)
      /\ rowIP'[proc[p].vm] \in {rowIP[proc[p].vm], NoIP}
      /\ "expire" \notin Faults => status'[proc[p].vm] # "running"
  BY <1>0 DEF MarkStopped, UpdateVMStatus, OtherRowsKept, rowVars, Rows, TypeOK, DeadlineInv
<1>5. AllocInv' /\ LiveInv' /\ LeakInv'
  BY <1>0, <1>3 DEF AllocInv, LiveInv, LeakInv, Moved, Booted
<1>6. RowInv'
  BY <1>0, <1>3, <1>4 DEF RowInv, RunningRowBacked, Moved, OtherRowsKept
<1>7. NothingNew
  <2>. SUFFICES ASSUME NEW i \in IPs, NEW v \in VMs, Known(i, v)' PROVE Known(i, v)
    BY DEF NothingNew
  <2>1. i # NoIP
    BY DEF IPs, FirstIP, NoIP
  <2>. QED  BY <1>0, <1>3, <1>4, <2>1 DEF Known, Moved, AddressPcs, OtherRowsKept
<1>8. KnownInv'
  BY <1>0, <1>7, NothingNewStep
<1>. QED  BY <1>5, <1>6, <1>8

LEMMA ShutdownHarmless ==
    ASSUME Inv, ShutdownAll \/ ShutdownNext
    PROVE  Harmless(Main)
<1>0. /\ Main \in Procs /\ proc \in [Procs -> Proc] /\ todo \subseteq VMs
      /\ UNCHANGED <<status, rowIP, running, machines, meta, crashes, taps, nextIP, allocated>>
      /\ proc[Main].pc \in {"idle", "next"}
  BY DEF Procs, Inv, TypeInv, TypeOK, ShutdownAll, ShutdownNext, rowVars, regVars, netVars, At
<1>1. /\ \A q \in Procs : q # Main => proc'[q] = proc[q]
      /\ proc'[Main].pc \in {"next", "take", "down"}
  <2>1. CASE ShutdownAll
    BY <1>0, <2>1 DEF ShutdownAll, Idle
  <2>2. ASSUME NEW v \in VMs,
               proc' = [proc EXCEPT ![Main] = [@ EXCEPT !.pc = "take", !.vm = v]]
        PROVE  /\ \A q \in Procs : q # Main => proc'[q] = proc[q]
               /\ proc'[Main].pc = "take"
    BY <1>0, <2>2 DEF Proc
  <2>3. CASE Goto(Main, "down")
    BY <1>0, <2>3, GotoLemma DEF Moved, Pcs, Inv, TypeInv
  <2>. QED  BY <1>0, <2>1, <2>2, <2>3 DEF ShutdownNext
<1>. QED
  BY <1>0, <1>1 DEF Harmless, Quiet, hostVars, AddressPcs, HoldPcs, BootPcs, LivePcs, FreePcs

LEMMA GuestExitsResources ==
    ASSUME FullInv, GuestExits
    PROVE  ResInv'
<1>. USE DEF FullInv, ResInv
<1>0. /\ "exit" \in Faults /\ machines' \subseteq machines /\ nextIP \in Int
      /\ UNCHANGED <<proc, status, rowIP, running, meta, crashes, taps, nextIP, allocated>>
  BY MaxIPAssumption DEF GuestExits, May, rowVars, regVars, netVars, Inv, TypeInv, TypeOK,
     NetTypeOK, FirstIP
<1>1. AllocInv' /\ LiveInv' /\ LeakInv' /\ RowInv'
  BY <1>0 DEF AllocInv, LiveInv, LeakInv, RowInv
<1>2. NothingNew
  BY <1>0 DEF NothingNew, Known
<1>3. KnownInv'
  BY <1>0, <1>2, NothingNewStep
<1>. QED  BY <1>1, <1>3

LEMMA RestartResources ==
    ASSUME FullInv, Crash \/ HostReboots
    PROVE  ResInv'
<1>1. /\ \A p \in Procs : proc'[p].pc = "idle"
      /\ \A v \in VMs : running'[v] = NoIP
      /\ crashes' # 0
  BY MaxCrashesAssumption DEF Crash, HostReboots, ServerRestarts, Idle, FullInv, Inv,
     TypeInv, TypeOK
<1>2. "idle" \notin HoldPcs
  BY DEF HoldPcs, BootPcs, LivePcs, FreePcs
<1>. QED
  BY <1>1, <1>2 DEF ResInv, AllocInv, LiveInv, LeakInv, RowInv, KnownInv, HoldPcs

LEMMA StutterResources ==
    ASSUME FullInv, UNCHANGED <<proc, rowVars, running, machines, regVars, crashes, netVars>>
    PROVE  ResInv'
BY DEF FullInv, ResInv, AllocInv, LiveInv, LeakInv, RowInv, RunningRowBacked, KnownInv, Known,
   Booted, rowVars, regVars, netVars

LEMMA ResourcesStep ==
    ASSUME FullInv, DeadlineInv, [Next]_vars
    PROVE  ResInv'
<1>0. Sessions \subseteq Procs /\ Main \in Procs /\ Inv
  BY DEF Procs, FullInv
<1>1. ASSUME NEW s \in Sessions, QuietAction(s) PROVE ResInv'
  BY <1>0, <1>1, HarmlessActions, HarmlessResources
<1>2. ASSUME NEW s \in Sessions, UndoNetwork(s) PROVE ResInv'
  BY <1>0, <1>2, ReleaseResources DEF UndoNetwork, At, Pcs
<1>3. ASSUME NEW p \in Procs, ReleaseNet(p) PROVE ResInv'
  BY <1>3, ReleaseResources DEF ReleaseNet, At, Pcs
<1>4. CASE ShutdownAll \/ ShutdownNext
  BY <1>0, <1>4, ShutdownHarmless, HarmlessResources
<1>5. CASE ShutdownExpires
  BY <1>5, StutterResources DEF ShutdownExpires
<1>6. CASE UNCHANGED vars
  BY <1>6, StutterResources DEF vars
<1>7. ASSUME NEW s \in Sessions, CmdRefused(s) PROVE ResInv'
  BY <1>6, <1>7 DEF CmdRefused
<1>. QED
  BY <1>0, <1>1, <1>2, <1>3, <1>4, <1>5, <1>6, <1>7, AllocateNetResources,
     StartVMResources, MarkRunningResources, TrackResources, TakeRunningResources,
     StopVMResources, MarkStoppedResources, GuestExitsResources, RestartResources
  DEF Next, Command, SessionStep, StopStep, StartStep, RegisterStep, RowStep, MainStep,
      QuietAction

(* What every step but ShutdownExpires and a restart leaves alone, and     *)
(* what none does: bring a row back.                                       *)
RowsStayAway == \A v \in VMs : v <= lastID /\ status[v] = "absent" => status'[v] = "absent"

LEMMA RowsAndDeadline ==
    ASSUME TypeOK, [Next]_vars
    PROVE  /\ RowsStayAway
           /\ deadline' \in {deadline, "ahead"} \/ "expire" \in Faults
<1>. DEFINE Goal == /\ RowsStayAway
                    /\ deadline' \in {deadline, "ahead"} \/ "expire" \in Faults
<1>. USE DEF mainVars
<1>1. ASSUME UNCHANGED rowVars, deadline' \in {deadline, "ahead"} \/ "expire" \in Faults
      PROVE  Goal
  BY <1>1 DEF RowsStayAway, rowVars
<1>2. ASSUME NEW v \in VMs, NEW st, NEW i, UpdateVMStatus(v, st, i), UNCHANGED mainVars
      PROVE  Goal
  BY <1>2 DEF RowsStayAway, UpdateVMStatus, Rows, TypeOK
<1>3. ASSUME NEW v, DeleteVM(v), UNCHANGED mainVars PROVE Goal
  BY <1>3 DEF RowsStayAway, DeleteVM, TypeOK
<1>4. ASSUME NEW s \in Sessions, CreateVM(s) PROVE Goal
  <2>1. PICK v \in VMs : v > lastID /\ status' = [status EXCEPT ![v] = "stopped"]
    BY <1>4 DEF CreateVM
  <2>2. v \in Nat /\ lastID \in Nat
    BY VMsAssumption DEF TypeOK
  <2>3. RowsStayAway
    BY <2>1, <2>2, VMsAssumption DEF RowsStayAway, TypeOK
  <2>. QED  BY <1>4, <2>3 DEF CreateVM
<1>5. ASSUME NEW s, UpdateVMStatus(proc[s].vm, "creating", NoIP), UNCHANGED mainVars
      PROVE  Goal
  BY <1>5 DEF RowsStayAway, UpdateVMStatus, Rows, TypeOK
<1>6. ASSUME NEW s \in Sessions, Command(s) PROVE Goal
  BY <1>1, <1>6 DEF Command, CmdNew, CmdCp, CmdStart, CmdStop, CmdRestart, CmdRm, Begin,
     Confirm, CmdRefused, vars
<1>7. ASSUME NEW s, StopStep(s) PROVE Goal
  <2>1. CASE TakeRunning(s) \/ StopVM(s) \/ ReleaseNet(s)
    BY <1>1, <2>1 DEF TakeRunning, StopVM, ReleaseNet
  <2>2. CASE MarkStopped(s)
    BY <2>2 DEF MarkStopped, UpdateVMStatus, Rows, TypeOK, RowsStayAway, rowVars
  <2>. QED  BY <1>7, <2>1, <2>2 DEF StopStep
<1>8. ASSUME NEW s, StartStep(s) PROVE Goal
  <2>1. CASE MarkCreating(s) \/ MarkError(s) \/ MarkRunning(s)
    BY <2>1 DEF MarkCreating, MarkError, MarkRunning, UpdateVMStatus, Rows, TypeOK, RowsStayAway
  <2>2. CASE \/ EnsureRootfs(s) \/ StatRootfs(s) \/ SeedAuthorizedKeys(s)
             \/ CreateDataDisk(s) \/ AllocateNet(s) \/ StartVM(s) \/ UndoNetwork(s) \/ Track(s)
    BY <1>1, <2>2 DEF EnsureRootfs, StatRootfs, SeedAuthorizedKeys, CreateDataDisk,
       AllocateNet, StartVM, UndoNetwork, Track
  <2>. QED  BY <1>8, <2>1, <2>2 DEF StartStep
<1>9. ASSUME NEW s, RegisterStep(s) PROVE Goal
  BY <1>1, <1>9 DEF RegisterStep, ReadForMeta, RegisterVM, ReadForRoute, AddRoute,
     ReadForUnmeta, UnregisterVM, RemoveRoute
<1>10. ASSUME NEW s \in Sessions, RowStep(s) PROVE Goal
  BY <1>1, <1>3, <1>4, <1>10 DEF RowStep, CreateVMFails, IsRunning, RemoveDisks, DeleteRow,
     CloneRootfs, CloneData
<1>11. CASE ShutdownAll \/ ShutdownNext \/ ShutdownExpires \/ GuestExits
  BY <1>1, <1>11 DEF ShutdownAll, ShutdownNext, ShutdownExpires, GuestExits, May
<1>12. CASE Crash \/ HostReboots
  BY <1>1, <1>12 DEF Crash, HostReboots, ServerRestarts
<1>13. CASE UNCHANGED vars
  BY <1>1, <1>13 DEF vars
<1>. QED
  BY <1>6, <1>7, <1>8, <1>9, <1>10, <1>11, <1>12, <1>13 DEF Next, SessionStep, MainStep

LEMMA FullInductive == Spec => [](FullInv /\ DeadlineInv)
<1>1. Init => FullInv /\ DeadlineInv
  BY TypeInitLemma, InitOwnership, ResourcesInit DEF FullInv, Inv, DeadlineInv, Init
<1>2. FullInv /\ DeadlineInv /\ [Next]_vars => FullInv' /\ DeadlineInv'
  <2>. SUFFICES ASSUME FullInv, DeadlineInv, [Next]_vars PROVE FullInv' /\ DeadlineInv'
    OBVIOUS
  <2>1. Inv'
    BY TypeStep, OwnershipStep DEF FullInv, Inv
  <2>2. ResInv'
    BY ResourcesStep
  <2>3. DeadlineInv'
    BY RowsAndDeadline DEF DeadlineInv, FullInv, Inv, TypeInv
  <2>. QED  BY <2>1, <2>2, <2>3 DEF FullInv
<1>. QED  BY <1>1, <1>2, PTL DEF Spec

(* nextIP stays above every address of this server lifetime, and an        *)
(* address on its way to a boot is nobody else's.                          *)
THEOREM AddressesAhead == Spec => []AddressOwnership
<1>1. Inv => AddressOwnership
  BY DEF Inv, OwnInv
<1>. QED  BY <1>1, InvInductive, PTL

(* A row that rm deleted never comes back, however many starts of the VM   *)
(* are still writing to it.                                                *)
THEOREM DeletedStayDeleted == Spec => DeletedForGood
<1>1. TypeInv /\ [Next]_vars =>
        [\A v \in VMs : v <= lastID /\ status[v] = "absent" => status'[v] = "absent"]_vars
  BY RowsAndDeadline DEF TypeInv, RowsStayAway
<1>. QED  BY <1>1, TypeInitLemma, TypeStep, PTL DEF Spec, DeletedForGood

(* Whatever else fails or crashes, as long as no guest exits by itself a   *)
(* tracked VM has its process, its tap and its address.                    *)
THEOREM TrackedVMsAreUp ==
    ASSUME "exit" \notin Faults
    PROVE  Spec => []TrackedIsUp
<1>1. FullInv => TrackedIsUp
  BY DEF FullInv, ResInv, LiveInv, AllocInv, Inv, OwnInv, TapOwnership, TrackedIsUp
<1>. QED  BY <1>1, FullInductive, PTL

(* Until the server first dies, and while "ip link del" works and guests   *)
(* do not exit by themselves, an idle server holds exactly the taps,       *)
(* addresses and processes of the tracked VMs: no error path of any        *)
(* command, in any interleaving, leaks one.                                *)
THEOREM NothingLeaks ==
    ASSUME "exit" \notin Faults, "tapdel" \notin Faults
    PROVE  Spec => [](crashes = 0 => QuiescentResources)
<1>1. FullInv => (crashes = 0 => QuiescentResources)
  <2>. SUFFICES ASSUME FullInv, crashes = 0, AllIdle PROVE QuiescentResources
    BY DEF QuiescentResources
  <2>0. /\ \A p \in Procs : proc[p].pc \notin HoldPcs
        /\ taps \subseteq VMs /\ machines \subseteq Machine
        /\ allocated \in [VMs -> MaybeIP] /\ running \in [VMs -> MaybeIP]
    BY DEF AllIdle, HoldPcs, BootPcs, LivePcs, FreePcs, FullInv, Inv, TypeInv, TypeOK, NetTypeOK
  <2>1. taps = {v \in VMs : running[v] # NoIP}
    BY <2>0 DEF FullInv, ResInv, LeakInv, Inv, OwnInv, TapOwnership
  <2>2. \A v \in VMs : allocated[v] = running[v]
    BY <2>0, <2>1 DEF FullInv, ResInv, LeakInv, AllocInv
  <2>3. allocated = running
    BY <2>0, <2>2
  <2>4. \A v \in taps : [vm |-> v, ip |-> running[v], epoch |-> crashes] \in machines
    BY <2>1 DEF FullInv, ResInv, LiveInv
  <2>5. \A m \in machines : /\ m.vm \in taps
                            /\ m = [vm |-> m.vm, ip |-> running[m.vm], epoch |-> crashes]
    BY <2>0, <2>1 DEF FullInv, Inv, OwnInv, TapOwnership, Machine
  <2>6. machines = {[vm |-> v, ip |-> running[v], epoch |-> crashes] : v \in taps}
    BY <2>4, <2>5
  <2>. QED  BY <2>1, <2>3, <2>6 DEF QuiescentResources
<1>. QED  BY <1>1, FullInductive, PTL

(* Until the server first dies, a row that says running has its guest, or  *)
(* the Stop of exactly that guest is about to rewrite it; three faults     *)
(* would break it: a guest that exits, the deadline of ShutdownAll and a   *)
(* crash.                                                                  *)
THEOREM RunningRowsBacked ==
    ASSUME "exit" \notin Faults, "expire" \notin Faults
    PROVE  Spec => [](crashes = 0 => RunningRowBacked)
<1>1. FullInv => (crashes = 0 => RunningRowBacked)
  BY DEF FullInv, ResInv, RowInv
<1>. QED  BY <1>1, FullInductive, PTL

(* Until the server first dies, no guest can be served the metadata of     *)
(* another, whatever fails and in whatever order registrations and their   *)
(* removals land: an address belongs to one VM as long as the counter      *)
(* only grows.                                                             *)
THEOREM MetadataIsOwn == Spec => [](crashes = 0 => MetadataOwn)
<1>1. FullInv => (crashes = 0 => MetadataOwn)
  <2>. SUFFICES ASSUME FullInv, crashes = 0, NEW m \in machines, meta[m.ip] # NoVM
                PROVE  meta[m.ip] = m.vm
    BY DEF MetadataOwn
  <2>1. m.ip \in IPs /\ m.vm \in VMs /\ meta[m.ip] \in VMs
    BY DEF FullInv, Inv, TypeInv, TypeOK, Machine
  <2>2. Known(m.ip, m.vm) /\ Known(m.ip, meta[m.ip])
    BY DEF Known
  <2>. QED  BY <2>1, <2>2 DEF FullInv, ResInv, KnownInv
<1>. QED  BY <1>1, FullInductive, PTL

-----------------------------------------------------------------------------
(* The quota, with one session at a time: between the count of cmdNew or   *)
(* cmdCp and its insert there is room for the row.                         *)

QuotaInv(s) ==
    /\ IsFiniteSet(Rows)
    /\ WithinQuota
    /\ proc[s].pc = "insert" => UnderQuota

(* What a step does to the rows: a command that goes on to insert has just *)
(* found room, and nothing but the insert adds a row.                      *)
FewerRows(s) ==
    /\ Rows' \subseteq Rows
    /\ proc'[s].pc = "insert" => UnderQuota \/ proc[s].pc = "insert"

LEMMA UpdateKeepsRows ==
    ASSUME TypeOK, NEW v, NEW st \in Statuses \ {"absent"}, NEW i, UpdateVMStatus(v, st, i)
    PROVE  Rows' = Rows
BY DEF UpdateVMStatus, Rows, TypeOK, Statuses

LEMMA SessionRows ==
    ASSUME TypeInv, NEW s \in Sessions, Command(s) \/ SessionStep(s)
    PROVE  CreateVM(s) \/ FewerRows(s)
<1>. USE DEF TypeInv
<1>0. s \in Procs /\ proc \in [Procs -> Proc] /\ status \in [VMs -> Statuses]
  BY DEF Procs, TypeOK
<1>s. {"creating", "running", "stopped", "error"} \subseteq Statuses \ {"absent"}
  BY DEF Statuses
<1>1. ASSUME Rows' \subseteq Rows, NEW l \in Pcs \ {"insert"}, Goto(s, l)
      PROVE  FewerRows(s)
  BY <1>0, <1>1, GotoLemma DEF FewerRows, Moved
<1>2. ASSUME NEW l \in Pcs \ {"insert"}, NEW i, GotoWithIP(s, l, i), UNCHANGED rowVars
      PROVE  FewerRows(s)
  BY <1>0, <1>2 DEF FewerRows, GotoWithIP, Rows, rowVars, Proc
<1>3. UNCHANGED rowVars => Rows' \subseteq Rows
  BY DEF Rows, rowVars
<1>4. /\ AfterUnregister(s) \in {"isrunning", "stat", "take"}
      /\ AfterStop(proc[s].cmd) \in {"stat", "disks", "next", "idle"}
  BY DEF AfterUnregister, AfterStop
<1>p. Pcs \ {"insert"} = HoldPcs \cup
       {"idle", "creating", "image", "seed", "data", "net", "markerr",
        "readmeta", "setmeta", "readroute", "addroute", "confirm", "readunmeta",
        "unmeta", "unroute", "isrunning", "take", "markstopped", "stat", "disks",
        "delrow", "clone", "clonedata", "next", "down"}
  BY DEF Pcs, HoldPcs, BootPcs, LivePcs, FreePcs
<1>h. HoldPcs = {"boot", "undo", "mark", "track", "stopvm", "release"}
  BY DEF HoldPcs, BootPcs, LivePcs, FreePcs
<1>5. CASE Command(s)
  <2>1. ASSUME NEW c, NEW v, NEW l \in {"insert", "stat", "readunmeta", "confirm"}, NEW w,
               Begin(s, c, v, l, w), l = "insert" => UnderQuota
        PROVE  FewerRows(s)
    <3>1. proc'[s].pc = l
      BY <1>0, <2>1 DEF Begin, Idle
    <3>. QED  BY <1>3, <2>1, <3>1 DEF FewerRows, Begin
  <2>2. CASE Confirm(s)
    BY <1>1, <1>3, <1>p, <2>2 DEF Confirm
  <2>3. CASE CmdRefused(s)
    BY <1>3, <2>3 DEF CmdRefused, vars, FewerRows, rowVars
  <2>4. CASE CmdNew(s) \/ CmdCp(s) \/ CmdStart(s)
    BY <2>1, <2>4 DEF CmdNew, CmdCp, CmdStart
  <2>5. CASE CmdStop(s) \/ CmdRestart(s) \/ CmdRm(s)
    BY <2>1, <2>5 DEF CmdStop, CmdRestart, CmdRm
  <2>. QED  BY <1>5, <2>2, <2>3, <2>4, <2>5 DEF Command
<1>6. CASE StopStep(s)
  <2>1. CASE TakeRunning(s)
    BY <1>1, <1>2, <1>3, <1>4, <1>p, <1>h, <2>1 DEF TakeRunning
  <2>2. CASE StopVM(s) \/ ReleaseNet(s)
    BY <1>1, <1>3, <1>p, <1>h, <2>2 DEF StopVM, ReleaseNet
  <2>3. CASE MarkStopped(s)
    <3>1. Rows' \subseteq Rows
      BY <1>3, <1>s, <2>3, UpdateKeepsRows DEF MarkStopped
    <3>. QED  BY <1>1, <1>4, <1>p, <2>3, <3>1 DEF MarkStopped
  <2>. QED  BY <1>6, <2>1, <2>2, <2>3 DEF StopStep
<1>7. CASE StartStep(s)
  <2>1. CASE MarkCreating(s) \/ MarkError(s) \/ MarkRunning(s)
    <3>1. Rows' \subseteq Rows
      BY <1>s, <2>1, UpdateKeepsRows DEF MarkCreating, MarkError, MarkRunning
    <3>. QED  BY <1>1, <1>p, <1>h, <2>1, <3>1 DEF MarkCreating, MarkError, MarkRunning
  <2>2. CASE EnsureRootfs(s) \/ StatRootfs(s) \/ SeedAuthorizedKeys(s) \/ CreateDataDisk(s)
    BY <1>1, <1>3, <1>p, <2>2 DEF EnsureRootfs, StatRootfs, SeedAuthorizedKeys, CreateDataDisk
  <2>3. CASE AllocateNet(s)
    BY <1>1, <1>2, <1>3, <1>p, <1>h, <2>3 DEF AllocateNet
  <2>4. CASE StartVM(s) \/ UndoNetwork(s) \/ Track(s)
    BY <1>1, <1>3, <1>p, <1>h, <2>4 DEF StartVM, UndoNetwork, Track
  <2>. QED  BY <1>7, <2>1, <2>2, <2>3, <2>4 DEF StartStep
<1>8. CASE RegisterStep(s)
  <2>1. CASE ReadForMeta(s) \/ ReadForRoute(s) \/ ReadForUnmeta(s)
    BY <1>1, <1>2, <1>3, <1>4, <1>p, <2>1 DEF ReadForMeta, ReadForRoute, ReadForUnmeta
  <2>2. CASE RegisterVM(s) \/ AddRoute(s) \/ UnregisterVM(s) \/ RemoveRoute(s)
    BY <1>1, <1>3, <1>4, <1>p, <2>2 DEF RegisterVM, AddRoute, UnregisterVM, RemoveRoute
  <2>. QED  BY <1>8, <2>1, <2>2 DEF RegisterStep
<1>9. CASE RowStep(s)
  <2>1. CASE DeleteRow(s)
    <3>1. Rows' \subseteq Rows
      BY <1>0, <2>1 DEF DeleteRow, DeleteVM, Rows
    <3>. QED  BY <1>1, <1>p, <2>1, <3>1 DEF DeleteRow
  <2>2. CASE CreateVMFails(s) \/ IsRunning(s) \/ RemoveDisks(s)
    BY <1>1, <1>3, <1>p, <2>2 DEF CreateVMFails, IsRunning, RemoveDisks
  <2>3. CASE CloneRootfs(s) \/ CloneData(s)
    BY <1>1, <1>3, <1>p, <2>3 DEF CloneRootfs, CloneData
  <2>. QED  BY <1>9, <2>1, <2>2, <2>3 DEF RowStep
<1>. QED  BY <1>5, <1>6, <1>7, <1>8, <1>9 DEF SessionStep

LEMMA OtherRows ==
    ASSUME TypeInv, NEW s \in Sessions,
           \/ ShutdownAll \/ MainStep \/ ShutdownExpires
           \/ GuestExits \/ Crash \/ HostReboots \/ UNCHANGED vars
    PROVE  FewerRows(s)
<1>. USE DEF TypeInv
<1>0. /\ s \in Procs /\ Main \in Procs /\ s # Main /\ proc \in [Procs -> Proc]
      /\ {"stopped"} \subseteq Statuses \ {"absent"}
  BY SessionsAssumption DEF Procs, TypeOK, Statuses
<1>3. UNCHANGED rowVars => Rows' \subseteq Rows
  BY DEF Rows, rowVars
<1>1. CASE Crash \/ HostReboots
  <2>1. proc'[s].pc = "idle" /\ UNCHANGED rowVars
    BY <1>0, <1>1 DEF Crash, HostReboots, ServerRestarts, Idle
  <2>. QED  BY <1>3, <2>1 DEF FewerRows
<1>2. CASE ShutdownExpires \/ GuestExits \/ UNCHANGED vars
  BY <1>2, <1>3 DEF ShutdownExpires, GuestExits, vars, rowVars, FewerRows
<1>4. CASE ShutdownAll \/ ShutdownNext
  BY <1>0, <1>3, <1>4 DEF ShutdownAll, ShutdownNext, Goto, FewerRows
<1>5. CASE StopStep(Main)
  <2>1. proc'[s] = proc[s]
    BY <1>0, <1>5 DEF StopStep, TakeRunning, StopVM, ReleaseNet, MarkStopped, Goto, GotoWithIP
  <2>2. Rows' \subseteq Rows
    <3>1. CASE TakeRunning(Main) \/ StopVM(Main) \/ ReleaseNet(Main)
      BY <1>3, <3>1 DEF TakeRunning, StopVM, ReleaseNet
    <3>2. CASE MarkStopped(Main)
      BY <1>0, <1>3, <3>2, UpdateKeepsRows DEF MarkStopped
    <3>. QED  BY <1>5, <3>1, <3>2 DEF StopStep
  <2>. QED  BY <2>1, <2>2 DEF FewerRows
<1>. QED  BY <1>1, <1>2, <1>4, <1>5 DEF MainStep

LEMMA QuotaStep ==
    ASSUME TypeInv, NEW s, Sessions = {s}, QuotaInv(s), [Next]_vars
    PROVE  QuotaInv(s)'
<1>. PICK n : n = Cardinality(Rows)
  OBVIOUS
<1>0. /\ n \in Nat /\ IsFiniteSet(Rows) /\ VMLimit \in Int
      /\ VMLimit >= 0 => n <= VMLimit
      /\ proc[s].pc = "insert" /\ VMLimit >= 0 => n < VMLimit
  BY VMLimitAssumption, FS_CardinalityType DEF QuotaInv, WithinQuota, UnderQuota
<1>1. CASE FewerRows(s)
  <2>1. /\ IsFiniteSet(Rows') /\ Cardinality(Rows') \in Nat /\ Cardinality(Rows') <= n
    BY <1>0, <1>1, FS_Subset, FS_CardinalityType DEF FewerRows
  <2>2. proc'[s].pc = "insert" => (VMLimit >= 0 => n < VMLimit)
    BY <1>0, <1>1 DEF FewerRows, UnderQuota
  <2>. QED  BY <1>0, <2>1, <2>2 DEF QuotaInv, WithinQuota, UnderQuota
<1>2. CASE CreateVM(s)
  <2>1. PICK v \in VMs : status' = [status EXCEPT ![v] = "stopped"] /\ proc[s].pc = "insert"
    BY <1>2 DEF CreateVM, At
  <2>2. Rows' = Rows \cup {v}
    BY <2>1 DEF Rows, TypeInv, TypeOK, Statuses
  <2>3. IsFiniteSet(Rows') /\ Cardinality(Rows') \in Nat /\ Cardinality(Rows') <= n + 1
    <3>1. IsFiniteSet(Rows') /\ (Cardinality(Rows') = n \/ Cardinality(Rows') = n + 1)
      BY <1>0, <2>2, FS_AddElement
    <3>. QED  BY <1>0, <3>1
  <2>4. proc'[s].pc # "insert"
    BY <1>2 DEF CreateVM, TypeInv, TypeOK, Procs, Proc
  <2>. QED  BY <1>0, <2>1, <2>3, <2>4 DEF QuotaInv, WithinQuota, UnderQuota
<1>. QED  BY <1>1, <1>2, SessionRows, OtherRows DEF Next

(* With one session no user has more rows than the trust level allows,     *)
(* over every failure, crash and reboot: cmdNew and cmdCp count before     *)
(* they insert.  Two sessions may both count first (the run quota_race).   *)
THEOREM OneSessionKeepsQuota ==
    ASSUME NEW s, Sessions = {s}
    PROVE  Spec => []WithinQuota
<1>1. Init => QuotaInv(s)
  <2>. SUFFICES ASSUME Init PROVE QuotaInv(s)
    OBVIOUS
  <2>1. Rows = {} /\ proc[s].pc = "idle"
    BY DEF Init, Rows, Procs, Idle
  <2>2. IsFiniteSet({}) /\ Cardinality({}) = 0
    BY FS_EmptySet
  <2>. QED  BY <2>1, <2>2, VMLimitAssumption DEF QuotaInv, WithinQuota
<1>2. TypeInv /\ QuotaInv(s) /\ [Next]_vars => QuotaInv(s)'
  BY QuotaStep
<1>3. QuotaInv(s) => WithinQuota
  BY DEF QuotaInv
<1>4. Init => TypeInv
  BY TypeInitLemma
<1>5. TypeInv /\ [Next]_vars => TypeInv'
  BY TypeStep
<1>. QED  BY <1>1, <1>2, <1>3, <1>4, <1>5, PTL DEF Spec

-----------------------------------------------------------------------------
(* One session at a time.  The other VMs agree in every part of the        *)
(* system; what the VM of the command under way still lacks, or still has, *)
(* follows from how far the command is.                                    *)

RowAgrees(v) ==
    /\ status[v] = "running" <=> running[v] # NoIP
    /\ rowIP[v] = running[v]
    /\ running[v] # NoIP => v \in rootfs /\ v \in data

MetaAgrees(v) == \A i \in IPs : meta[i] = v <=> running[v] = i
NoMeta(v) == \A i \in IPs : meta[i] # v
Agrees(v) == RowAgrees(v) /\ routes[v] = running[v] /\ MetaAgrees(v)

(* Neither routes nor metadata; and no guest either. *)
Hidden(v) == routes[v] = NoIP /\ NoMeta(v)
Off(v) == RowAgrees(v) /\ running[v] = NoIP /\ Hidden(v)

OffPcs == {"stat", "seed", "creating", "image", "data", "net", "boot", "undo", "markerr",
           "disks", "delrow", "clone", "clonedata"}

(* The VM of a command by the place where the command is, on the way to    *)
(* its start                                                               *)
StartingOK(r, v) ==
    /\ r.pc \in OffPcs => Off(v)
    /\ r.pc = "mark" => Off(v) /\ v \in rootfs /\ v \in data
    /\ r.pc = "track" => /\ running[v] = NoIP /\ Hidden(v) /\ v \in rootfs /\ v \in data
                         /\ status[v] = "running" /\ rowIP[v] = r.ip
    /\ r.pc \in {"readmeta", "setmeta"} => RowAgrees(v) /\ running[v] # NoIP /\ Hidden(v)
    /\ r.pc \in {"readroute", "addroute"} => RowAgrees(v) /\ running[v] # NoIP /\ MetaAgrees(v)
    /\ r.pc \in {"setmeta", "addroute"} => r.ip = running[v]

(* or to its stop.                                                         *)
StoppingOK(r, v) ==
    /\ r.pc = "confirm" => Agrees(v)
    /\ r.pc \in {"readunmeta", "unmeta"} =>
          RowAgrees(v) /\ MetaAgrees(v) /\ (r.cmd = "rm" => routes[v] = NoIP)
    /\ r.pc = "unmeta" => r.ip = running[v]
    /\ r.pc = "unroute" => RowAgrees(v) /\ IF r.cmd = "rm" THEN MetaAgrees(v) ELSE NoMeta(v)
    /\ r.pc \in {"readunmeta", "unmeta", "unroute"} /\ r.cmd # "rm" =>
          r.was = status[v] /\ (r.cmd = "stop" => r.was = "running")
    /\ r.pc = "isrunning" => RowAgrees(v) /\ Hidden(v)
    /\ r.pc = "take" => RowAgrees(v) /\ Hidden(v) /\ running[v] # NoIP
    /\ r.pc \in {"stopvm", "release", "markstopped"} => running[v] = NoIP /\ Hidden(v)

AtWork(r, v) == status[v] # "absent" /\ StartingOK(r, v) /\ StoppingOK(r, v)

(* A process belongs to a tracked VM, or to the one being started or       *)
(* stopped.                                                                *)
NoStrays(s) ==
    \A m \in machines : running[m.vm] # NoIP \/ (proc[s].pc \in LivePcs /\ proc[s].vm = m.vm)

Placed(r) ==
    /\ r.cmd # "shutdown" /\ r.pc \notin {"next", "down"}
    /\ r.vm \in VMs <=> r.pc \notin {"idle", "insert"}

SeqInv(s) ==
    /\ proc[Main].pc = "idle"
    /\ Placed(proc[s])
    /\ \A w \in VMs : w # proc[s].vm => Agrees(w)
    /\ proc[s].vm \in VMs => AtWork(proc[s], proc[s].vm)
    /\ \A w \in VMs : w > lastID => status[w] = "absent"
    /\ NoStrays(s)

OneAtATime(s) == crashes = 0 => SeqInv(s)

(* The other VMs stay as they are. *)
Untouched(v) ==
    \A w \in VMs \ {v} :
        /\ status'[w] = status[w] /\ rowIP'[w] = rowIP[w]
        /\ running'[w] = running[w] /\ routes'[w] = routes[w]
        /\ w \in rootfs => w \in rootfs'
        /\ w \in data => w \in data'
        /\ \A i \in IPs : meta'[i] = w <=> meta[i] = w

(* The session goes on with its VM, or its command ends.                   *)
LEMMA SeqMoves ==
    ASSUME NEW s \in Sessions, SeqInv(s), NEW v \in VMs, proc[s].vm = v, Untouched(v),
           lastID' = lastID, proc'[Main] = proc[Main],
           Placed(proc'[s]),
           \/ proc'[s].vm = v /\ AtWork(proc[s], v)'
           \/ proc'[s].vm = NoVM /\ Agrees(v)' /\ proc'[s].pc \in {"idle", "insert"},
           NoStrays(s)'
    PROVE  SeqInv(s)'
<1>0. NoVM \notin VMs
  BY VMsAssumption DEF NoVM
<1>1. ASSUME NEW w \in VMs, w # v PROVE Agrees(w)'
  <2>1. Agrees(w)
    BY <1>1 DEF SeqInv
  <2>. QED  BY <1>1, <2>1 DEF Untouched, Agrees, RowAgrees, MetaAgrees
<1>2. ASSUME NEW w \in VMs, w > lastID PROVE status'[w] = "absent"
  <2>1. status[w] = "absent" /\ status[v] # "absent"
    BY <1>2 DEF SeqInv, AtWork
  <2>. QED  BY <1>2, <2>1 DEF Untouched
<1>3. \A w \in VMs : w # proc'[s].vm => Agrees(w)'
  BY <1>0, <1>1
<1>4. proc'[s].vm \in VMs => AtWork(proc[s], proc[s].vm)'
  BY <1>0
<1>. QED  BY <1>2, <1>3, <1>4 DEF SeqInv

(* Where a step leaves its goroutine. *)
LEMMA Goes ==
    ASSUME TypeOK, NEW p \in Procs, NEW l \in Pcs \ {"idle"}, Goto(p, l)
    PROVE  /\ proc'[p].pc = l /\ proc'[p].vm = proc[p].vm /\ proc'[p].cmd = proc[p].cmd
           /\ proc'[p].ip = proc[p].ip /\ proc'[p].was = proc[p].was
           /\ \A q \in Procs : q # p => proc'[q] = proc[q]
BY DEF TypeOK, Goto, Proc

LEMMA Ends ==
    ASSUME TypeOK, NEW p \in Procs, Goto(p, "idle")
    PROVE  /\ proc'[p].pc = "idle" /\ proc'[p].vm = NoVM /\ proc'[p].cmd = "none"
           /\ \A q \in Procs : q # p => proc'[q] = proc[q]
BY DEF TypeOK, Goto, Idle

LEMMA GoesWithIP ==
    ASSUME TypeOK, NEW p \in Procs, NEW l \in Pcs, NEW i, GotoWithIP(p, l, i)
    PROVE  /\ proc'[p].pc = l /\ proc'[p].vm = proc[p].vm /\ proc'[p].cmd = proc[p].cmd
           /\ proc'[p].ip = i /\ proc'[p].was = proc[p].was
           /\ \A q \in Procs : q # p => proc'[q] = proc[q]
BY DEF TypeOK, GotoWithIP, Proc

(* A goroutine whose VM is off, before and after the step. *)
LEMMA OffMoves ==
    ASSUME TypeInv, NEW s \in Sessions, SeqInv(s), proc[s].pc \in OffPcs \cup {"markstopped"},
           NEW l \in OffPcs \cup {"idle"}, Goto(s, l),
           NEW v \in VMs, proc[s].vm = v,
           UNCHANGED <<running, machines, meta, routes, lastID>>,
           \A w \in VMs \ {v} : /\ status'[w] = status[w] /\ rowIP'[w] = rowIP[w]
                                /\ w \in rootfs => w \in rootfs'
                                /\ w \in data => w \in data',
           status'[v] # "running", rowIP'[v] = NoIP,
           status'[v] = "absent" => l = "idle"
    PROVE  SeqInv(s)'
<1>0. /\ s \in Procs /\ Main \in Procs /\ s # Main /\ TypeOK /\ NoVM \notin VMs
      /\ l \in Pcs
  BY SessionsAssumption, VMsAssumption DEF Procs, TypeInv, NoVM, OffPcs, Pcs, HoldPcs, BootPcs
<1>1. running[v] = NoIP /\ Hidden(v) /\ Placed(proc[s]) /\ NoStrays(s)
  BY DEF SeqInv, AtWork, StartingOK, StoppingOK, Off
<1>2. Off(v)'
  BY <1>1 DEF Off, RowAgrees, Hidden, NoMeta
<1>3. Untouched(v)
  BY DEF Untouched
<1>4. NoStrays(s)'
  BY <1>1 DEF NoStrays, LivePcs, OffPcs
<1>5. CASE l = "idle"
  <2>1. proc'[s].vm = NoVM /\ proc'[s].pc = "idle" /\ proc'[s].cmd = "none" /\ proc'[Main] = proc[Main]
    BY <1>0, <1>5, Ends
  <2>2. Agrees(v)'
    <3>1. NoIP \notin IPs
      BY DEF NoIP, IPs, FirstIP
    <3>. QED  BY <1>2, <3>1 DEF Off, Hidden, Agrees, NoMeta, MetaAgrees
  <2>3. Placed(proc'[s])
    BY <1>0, <2>1 DEF Placed
  <2>. QED  BY <1>3, <1>4, <2>1, <2>2, <2>3, SeqMoves
<1>6. CASE l # "idle"
  <2>1. /\ proc'[s].vm = v /\ proc'[s].pc = l /\ proc'[s].cmd = proc[s].cmd
        /\ proc'[Main] = proc[Main]
    BY <1>0, <1>6, Goes
  <2>2. AtWork(proc[s], v)'
    <3>1. l \in OffPcs /\ status'[v] # "absent"
      BY <1>6
    <3>. QED  BY <1>2, <2>1, <3>1 DEF AtWork, StartingOK, StoppingOK, OffPcs
  <2>3. Placed(proc'[s])
    BY <1>1, <1>6, <2>1 DEF Placed, OffPcs
  <2>. QED  BY <1>3, <1>4, <2>1, <2>2, <2>3, SeqMoves
<1>. QED  BY <1>5, <1>6

LEMMA SeqFacts ==
    ASSUME TypeInv, NEW s \in Sessions, SeqInv(s), proc[s].pc \notin {"idle", "insert"}
    PROVE  /\ s \in Procs /\ Main \in Procs /\ s # Main /\ TypeOK /\ NoVM \notin VMs
           /\ proc[s].vm \in VMs /\ AtWork(proc[s], proc[s].vm) /\ Placed(proc[s]) /\ NoStrays(s)
           /\ status \in [VMs -> Statuses] /\ rowIP \in [VMs -> MaybeIP]
           /\ running \in [VMs -> MaybeIP] /\ meta \in [IPs -> VMs \cup {NoVM}]
           /\ routes \in [VMs -> MaybeIP] /\ NoIP \notin IPs
           /\ proc[s].pc \in AddressPcs => proc[s].ip \in IPs
BY SessionsAssumption, VMsAssumption
DEF Procs, TypeInv, TypeOK, ControlOK, ProcOK, NoVM, SeqInv, Placed, NoIP, IPs, FirstIP

(* A step that changes nothing of the other VMs but moves on. *)
LEMMA SeqGoes ==
    ASSUME TypeInv, NEW s \in Sessions, SeqInv(s), NEW v \in VMs, proc[s].vm = v,
           proc[s].pc \notin {"idle", "insert"}, Untouched(v), lastID' = lastID,
           proc'[s].vm = v, proc'[s].cmd = proc[s].cmd, proc'[Main] = proc[Main],
           NEW l \in Pcs \ {"idle", "insert", "next", "down"}, proc'[s].pc = l,
           status'[v] # "absent", StartingOK(proc[s], v)', StoppingOK(proc[s], v)',
           machines' \subseteq machines,
           \A m \in machines' : m.vm = v => l \in LivePcs \/ running'[v] # NoIP
    PROVE  SeqInv(s)'
<1>1. Placed(proc'[s])
  BY DEF SeqInv, Placed
<1>2. AtWork(proc[s], v)'
  BY DEF AtWork
<1>3. NoStrays(s)'
  <2>. SUFFICES ASSUME NEW m \in machines'
                PROVE  running'[m.vm] # NoIP \/ (l \in LivePcs /\ m.vm = v)
    BY DEF NoStrays
  <2>1. m.vm \in VMs
    BY DEF TypeInv, TypeOK, Machine
  <2>2. CASE m.vm # v
    BY <2>1, <2>2 DEF SeqInv, NoStrays, Untouched
  <2>. QED  BY <2>2
<1>. QED  BY <1>1, <1>2, <1>3, SeqMoves

LEMMA SeqStart ==
    ASSUME TypeInv, NEW s \in Sessions, SeqInv(s), StartStep(s)
    PROVE  SeqInv(s)'
<1>. PICK v : v = proc[s].vm
  OBVIOUS
<1>p. proc[s].pc \in OffPcs \cup {"mark", "track"}
  BY DEF StartStep, MarkCreating, EnsureRootfs, StatRootfs, SeedAuthorizedKeys, CreateDataDisk,
     AllocateNet, StartVM, UndoNetwork, MarkError, MarkRunning, Track, At, OffPcs
<1>0. /\ s \in Procs /\ Main \in Procs /\ s # Main /\ TypeOK
      /\ v \in VMs /\ AtWork(proc[s], v) /\ NoStrays(s)
      /\ status \in [VMs -> Statuses] /\ rowIP \in [VMs -> MaybeIP]
      /\ running \in [VMs -> MaybeIP] /\ NoIP \notin IPs
      /\ proc[s].pc \in AddressPcs => proc[s].ip \in IPs
  BY <1>p, SeqFacts DEF OffPcs
<1>1. ASSUME proc[s].pc \in OffPcs PROVE Off(v) /\ status[v] \notin {"absent", "running"} /\ rowIP[v] = NoIP
  BY <1>0, <1>1 DEF AtWork, StartingOK, Off, RowAgrees
<1>2. ASSUME proc[s].pc \in OffPcs, NEW l \in OffPcs \cup {"idle"}, Goto(s, l),
             UNCHANGED <<rowVars, running, machines, regVars>>,
             \A w \in VMs \ {v} : (w \in rootfs => w \in rootfs') /\ (w \in data => w \in data')
      PROVE  SeqInv(s)'
  BY <1>0, <1>1, <1>2, OffMoves DEF rowVars, regVars
<1>3. ASSUME proc[s].pc \in OffPcs, NEW l \in OffPcs \cup {"idle"}, Goto(s, l),
             NEW st \in {"creating", "error"}, UpdateVMStatus(v, st, NoIP),
             UNCHANGED <<diskVars, running, machines, regVars>>
      PROVE  SeqInv(s)'
  <2>1. /\ status' = [status EXCEPT ![v] = st] /\ rowIP' = [rowIP EXCEPT ![v] = NoIP]
        /\ lastID' = lastID
    BY <1>0, <1>1, <1>3 DEF UpdateVMStatus, Rows
  <2>2. /\ status'[v] = st /\ rowIP'[v] = NoIP
        /\ \A w \in VMs \ {v} : status'[w] = status[w] /\ rowIP'[w] = rowIP[w]
    BY <1>0, <2>1
  <2>. QED  BY <1>0, <1>3, <2>1, <2>2, OffMoves DEF diskVars, regVars
<1>4. CASE MarkCreating(s) \/ MarkError(s)
  BY <1>3, <1>4 DEF MarkCreating, MarkError, At, OffPcs
<1>5. CASE EnsureRootfs(s) \/ StatRootfs(s)
  BY <1>2, <1>5 DEF EnsureRootfs, StatRootfs, At, OffPcs, diskVars
<1>6. CASE SeedAuthorizedKeys(s) \/ CreateDataDisk(s)
  BY <1>2, <1>6 DEF SeedAuthorizedKeys, CreateDataDisk, At, OffPcs, diskVars
<1>7. CASE UndoNetwork(s)
  BY <1>2, <1>7 DEF UndoNetwork, At, OffPcs, diskVars
<1>8. CASE AllocateNet(s)
  <2>1. CASE Goto(s, "markerr")
    BY <1>2, <1>8, <2>1 DEF AllocateNet, At, OffPcs, diskVars
  <2>2. CASE GotoWithIP(s, "boot", nextIP)
    <3>0. /\ UNCHANGED <<status, rowIP, lastID, rootfs, data, running, machines, meta, routes>>
          /\ proc[s].pc = "net"
      BY <1>8 DEF AllocateNet, rowVars, diskVars, regVars, At
    <3>1. /\ proc'[s].pc = "boot" /\ proc'[s].vm = v /\ proc'[s].cmd = proc[s].cmd
          /\ proc'[Main] = proc[Main] /\ "boot" \in Pcs
      BY <1>0, <2>2, GoesWithIP DEF Pcs, HoldPcs, BootPcs
    <3>2. Untouched(v)
      BY <3>0 DEF Untouched
    <3>3. StartingOK(proc[s], v)' /\ StoppingOK(proc[s], v)' /\ status'[v] # "absent"
      BY <1>1, <3>0, <3>1 DEF StartingOK, StoppingOK, OffPcs, Off, RowAgrees, Hidden, NoMeta
    <3>4. \A m \in machines' : m.vm # v
      BY <1>0, <1>1, <3>0 DEF NoStrays, Off, LivePcs, OffPcs
    <3>. QED  BY <1>0, <3>0, <3>1, <3>2, <3>3, <3>4, SeqGoes
  <2>. QED  BY <1>8, <2>1, <2>2 DEF AllocateNet
<1>9. CASE StartVM(s)
  <2>1. CASE Goto(s, "undo") /\ UNCHANGED machines
    BY <1>2, <1>9, <2>1 DEF StartVM, At, OffPcs, diskVars
  <2>2. CASE /\ v \in rootfs /\ v \in data /\ machines' = machines \cup {Booted(s)} /\ Goto(s, "mark")
    <3>0. /\ UNCHANGED <<status, rowIP, lastID, rootfs, data, running, meta, routes>>
          /\ proc[s].pc = "boot"
      BY <1>9 DEF StartVM, rowVars, diskVars, regVars, At
    <3>1. /\ proc'[s].pc = "mark" /\ proc'[s].vm = v /\ proc'[s].cmd = proc[s].cmd
          /\ proc'[Main] = proc[Main]
      BY <1>0, <2>2, Goes DEF Pcs, HoldPcs, LivePcs
    <3>2. Untouched(v)
      BY <3>0 DEF Untouched
    <3>3. AtWork(proc[s], v)'
      BY <1>1, <2>2, <3>0, <3>1 DEF AtWork, StartingOK, StoppingOK, OffPcs, Off, RowAgrees,
         Hidden, NoMeta
    <3>4. NoStrays(s)'
      BY <1>0, <2>2, <3>0, <3>1 DEF NoStrays, LivePcs, Booted
    <3>5. Placed(proc'[s])
      BY <1>0, <3>0, <3>1 DEF SeqInv, Placed
    <3>. QED  BY <1>0, <3>0, <3>1, <3>2, <3>3, <3>4, <3>5, SeqMoves
  <2>. QED  BY <1>9, <2>1, <2>2 DEF StartVM
<1>10. CASE MarkRunning(s)
  <2>0. /\ UNCHANGED <<lastID, rootfs, data, running, machines, meta, routes>>
        /\ proc[s].pc = "mark" /\ Goto(s, "track") /\ Off(v) /\ v \in rootfs /\ v \in data
    BY <1>0, <1>10 DEF MarkRunning, diskVars, regVars, At, UpdateVMStatus, AtWork, StartingOK
  <2>1. /\ proc'[s].pc = "track" /\ proc'[s].vm = v /\ proc'[s].cmd = proc[s].cmd
        /\ proc'[s].ip = proc[s].ip /\ proc'[Main] = proc[Main] /\ "track" \in Pcs
    BY <1>0, <2>0, Goes DEF Pcs, HoldPcs, LivePcs
  <2>2. /\ status' = [status EXCEPT ![v] = "running"] /\ rowIP' = [rowIP EXCEPT ![v] = proc[s].ip]
    BY <1>0, <1>10 DEF MarkRunning, UpdateVMStatus, Rows, AtWork
  <2>3. /\ status'[v] = "running" /\ rowIP'[v] = proc[s].ip
        /\ \A w \in VMs \ {v} : status'[w] = status[w] /\ rowIP'[w] = rowIP[w]
    BY <1>0, <2>2
  <2>4. Untouched(v)
    BY <2>0, <2>3 DEF Untouched
  <2>5. StartingOK(proc[s], v)' /\ StoppingOK(proc[s], v)'
    BY <2>0, <2>1, <2>3 DEF StartingOK, StoppingOK, OffPcs, Off, Hidden, NoMeta
  <2>6. "track" \in LivePcs
    BY DEF LivePcs
  <2>. QED  BY <1>0, <2>0, <2>1, <2>3, <2>4, <2>5, <2>6, SeqGoes
<1>11. CASE Track(s)
  <2>0. /\ UNCHANGED <<status, rowIP, lastID, rootfs, data, machines, meta, routes>>
        /\ proc[s].pc = "track" /\ Goto(s, "readmeta") /\ Hidden(v) /\ v \in rootfs /\ v \in data
        /\ status[v] = "running" /\ rowIP[v] = proc[s].ip
        /\ running' = [running EXCEPT ![v] = proc[s].ip]
    BY <1>0, <1>11 DEF Track, rowVars, diskVars, regVars, At, AtWork, StartingOK
  <2>1. /\ proc'[s].pc = "readmeta" /\ proc'[s].vm = v /\ proc'[s].cmd = proc[s].cmd
        /\ proc'[Main] = proc[Main] /\ "readmeta" \in Pcs
    BY <1>0, <2>0, Goes DEF Pcs
  <2>2. /\ running'[v] = proc[s].ip /\ proc[s].ip # NoIP
        /\ \A w \in VMs \ {v} : running'[w] = running[w]
    BY <1>0, <2>0 DEF AddressPcs
  <2>4. Untouched(v)
    BY <2>0, <2>2 DEF Untouched
  <2>5. StartingOK(proc[s], v)' /\ StoppingOK(proc[s], v)'
    BY <2>0, <2>1, <2>2 DEF StartingOK, StoppingOK, OffPcs, RowAgrees, Hidden, NoMeta
  <2>. QED  BY <1>0, <2>0, <2>1, <2>2, <2>4, <2>5, SeqGoes
<1>. QED  BY <1>4, <1>5, <1>6, <1>7, <1>8, <1>9, <1>10, <1>11 DEF StartStep

(* No two tracked VMs have one address. *)
Distinct == \A v, w \in VMs : running[v] = running[w] /\ running[v] # NoIP => v = w

LEMMA SeqRegister ==
    ASSUME TypeInv, Distinct, "caddy" \notin Faults, NEW s \in Sessions, SeqInv(s), RegisterStep(s)
    PROVE  SeqInv(s)'
<1>. PICK v : v = proc[s].vm
  OBVIOUS
<1>p. proc[s].pc \in {"readmeta", "setmeta", "readroute", "addroute", "readunmeta", "unmeta", "unroute"}
  BY DEF RegisterStep, ReadForMeta, RegisterVM, ReadForRoute, AddRoute, ReadForUnmeta,
     UnregisterVM, RemoveRoute, At
<1>0. /\ s \in Procs /\ Main \in Procs /\ s # Main /\ TypeOK /\ NoVM \notin VMs
      /\ v \in VMs /\ AtWork(proc[s], v) /\ Placed(proc[s]) /\ NoStrays(s)
      /\ running \in [VMs -> MaybeIP] /\ meta \in [IPs -> VMs \cup {NoVM}]
      /\ routes \in [VMs -> MaybeIP] /\ NoIP \notin IPs
      /\ proc[s].pc \in AddressPcs => proc[s].ip \in IPs
  BY <1>p, SeqFacts
<1>s. UNCHANGED <<status, rowIP, lastID, rootfs, data, running, machines>>
  BY DEF RegisterStep, ReadForMeta, RegisterVM, ReadForRoute, AddRoute, ReadForUnmeta,
     UnregisterVM, RemoveRoute, rowVars, diskVars
<1>r. RowAgrees(v)' /\ RowAgrees(v) /\ status[v] # "absent"
  BY <1>0, <1>s, <1>p DEF AtWork, StartingOK, StoppingOK, RowAgrees
<1>c. proc[s].pc \in {"readunmeta", "unmeta", "unroute"} => proc[s].cmd \in {"stop", "restart", "rm"}
  BY <1>0 DEF TypeInv, ControlOK, ProcOK, UnregisterPcs
<1>1. ASSUME NEW l \in Pcs \ {"idle", "insert", "next", "down"}, proc'[s].pc = l, proc'[s].vm = v,
             proc'[s].cmd = proc[s].cmd, proc'[Main] = proc[Main], Untouched(v),
             StartingOK(proc[s], v)', StoppingOK(proc[s], v)'
      PROVE  SeqInv(s)'
  <2>1. \A m \in machines' : m.vm = v => running'[v] # NoIP
    BY <1>0, <1>p, <1>s DEF NoStrays, LivePcs
  <2>2. proc[s].pc \notin {"idle", "insert"} /\ status'[v] # "absent" /\ machines' \subseteq machines
    BY <1>p, <1>r, <1>s
  <2>. QED  BY <1>0, <1>1, <1>s, <2>1, <2>2, SeqGoes
<1>2. UNCHANGED <<meta, routes>> => Untouched(v)
  BY <1>s DEF Untouched
<1>3. CASE ReadForMeta(s)
  <2>0. /\ proc[s].pc = "readmeta" /\ UNCHANGED <<meta, routes>> /\ running[v] # NoIP
        /\ Hidden(v) /\ rowIP[v] = running[v]
    BY <1>0, <1>3, <1>r DEF ReadForMeta, At, regVars, AtWork, StartingOK, RowAgrees
  <2>1. GotoWithIP(s, "setmeta", running[v]) /\ "setmeta" \in Pcs
    BY <1>3, <2>0 DEF ReadForMeta, Pcs
  <2>2. /\ proc'[s].pc = "setmeta" /\ proc'[s].vm = v /\ proc'[s].cmd = proc[s].cmd
        /\ proc'[s].ip = running[v] /\ proc'[Main] = proc[Main]
    BY <1>0, <2>1, GoesWithIP
  <2>3. StartingOK(proc[s], v)' /\ StoppingOK(proc[s], v)'
    BY <1>r, <1>s, <2>0, <2>2 DEF StartingOK, StoppingOK, OffPcs, Hidden, NoMeta
  <2>. QED  BY <1>1, <1>2, <2>0, <2>1, <2>2, <2>3
<1>4. CASE RegisterVM(s)
  <2>0. /\ proc[s].pc = "setmeta" /\ routes' = routes /\ running[v] = proc[s].ip
        /\ Hidden(v) /\ proc[s].ip \in IPs /\ Goto(s, "readroute")
        /\ meta' = [meta EXCEPT ![proc[s].ip] = v]
    BY <1>0, <1>4 DEF RegisterVM, At, AtWork, StartingOK, AddressPcs
  <2>1. /\ proc'[s].pc = "readroute" /\ proc'[s].vm = v /\ proc'[s].cmd = proc[s].cmd
        /\ proc'[Main] = proc[Main] /\ "readroute" \in Pcs
    BY <1>0, <2>0, Goes DEF Pcs
  <2>2. \A i \in IPs : meta'[i] = IF i = proc[s].ip THEN v ELSE meta[i]
    BY <1>0, <2>0
  <2>3. MetaAgrees(v)'
    BY <1>s, <2>0, <2>2 DEF MetaAgrees, Hidden, NoMeta
  <2>4. ASSUME NEW w \in VMs \ {v} PROVE meta[proc[s].ip] # w
    <3>1. Agrees(w) /\ running[w] # proc[s].ip
      BY <1>0, <2>0, <2>4 DEF SeqInv, Distinct
    <3>. QED  BY <2>0, <3>1 DEF Agrees, MetaAgrees
  <2>5. Untouched(v)
    BY <1>s, <2>0, <2>2, <2>4 DEF Untouched
  <2>6. StartingOK(proc[s], v)' /\ StoppingOK(proc[s], v)'
    <3>1. running'[v] # NoIP
      BY <1>0, <1>s, <2>0
    <3>. QED  BY <1>r, <2>1, <2>3, <3>1 DEF StartingOK, StoppingOK, OffPcs
  <2>. QED  BY <1>1, <2>1, <2>5, <2>6
<1>5. CASE ReadForRoute(s)
  <2>0. /\ proc[s].pc = "readroute" /\ UNCHANGED <<meta, routes>> /\ running[v] # NoIP
        /\ MetaAgrees(v) /\ rowIP[v] = running[v]
    BY <1>0, <1>5, <1>r DEF ReadForRoute, At, regVars, AtWork, StartingOK, RowAgrees
  <2>1. GotoWithIP(s, "addroute", running[v]) /\ "addroute" \in Pcs
    BY <1>5, <2>0 DEF ReadForRoute, Pcs
  <2>2. /\ proc'[s].pc = "addroute" /\ proc'[s].vm = v /\ proc'[s].cmd = proc[s].cmd
        /\ proc'[s].ip = running[v] /\ proc'[Main] = proc[Main]
    BY <1>0, <2>1, GoesWithIP
  <2>3. StartingOK(proc[s], v)' /\ StoppingOK(proc[s], v)'
    BY <1>r, <1>s, <2>0, <2>2 DEF StartingOK, StoppingOK, OffPcs, MetaAgrees
  <2>. QED  BY <1>1, <1>2, <2>0, <2>1, <2>2, <2>3
<1>6. CASE AddRoute(s)
  <2>0. /\ proc[s].pc = "addroute" /\ meta' = meta /\ running[v] = proc[s].ip /\ MetaAgrees(v)
        /\ running[v] # NoIP
        /\ routes' = [routes EXCEPT ![v] = proc[s].ip] /\ Goto(s, "idle")
    BY <1>0, <1>6 DEF AddRoute, At, AtWork, StartingOK, May
  <2>1. /\ proc'[s].pc = "idle" /\ proc'[s].vm = NoVM /\ proc'[s].cmd = "none"
        /\ proc'[Main] = proc[Main]
    BY <1>0, <2>0, Ends
  <2>2. routes'[v] = running'[v] /\ \A w \in VMs \ {v} : routes'[w] = routes[w]
    BY <1>0, <1>s, <2>0
  <2>3. Untouched(v)
    BY <1>s, <2>0, <2>2 DEF Untouched
  <2>4. Agrees(v)'
    BY <1>r, <1>s, <2>0, <2>2 DEF Agrees, MetaAgrees
  <2>5. NoStrays(s)'
    <3>1. \A m \in machines : running[m.vm] # NoIP
      BY <1>0, <2>0 DEF NoStrays
    <3>. QED  BY <1>s, <3>1 DEF NoStrays
  <2>6. Placed(proc'[s])
    BY <1>0, <2>1 DEF Placed
  <2>. QED  BY <1>0, <1>s, <2>1, <2>3, <2>4, <2>5, <2>6, SeqMoves
<1>7. CASE ReadForUnmeta(s)
  <2>0. /\ proc[s].pc = "readunmeta" /\ UNCHANGED <<meta, routes>>
        /\ MetaAgrees(v) /\ rowIP[v] = running[v]
        /\ proc[s].cmd = "rm" => routes[v] = NoIP
        /\ proc[s].cmd # "rm" =>
              proc[s].was = status[v] /\ (proc[s].cmd = "stop" => proc[s].was = "running")
    BY <1>0, <1>7, <1>r DEF ReadForUnmeta, At, regVars, AtWork, StoppingOK, RowAgrees
  <2>1. CASE rowIP[v] # NoIP
    <3>1. GotoWithIP(s, "unmeta", running[v]) /\ "unmeta" \in Pcs
      BY <1>7, <2>0, <2>1 DEF ReadForUnmeta, Pcs
    <3>2. /\ proc'[s].pc = "unmeta" /\ proc'[s].vm = v /\ proc'[s].cmd = proc[s].cmd
          /\ proc'[s].ip = running[v] /\ proc'[s].was = proc[s].was /\ proc'[Main] = proc[Main]
      BY <1>0, <3>1, GoesWithIP
    <3>3. StartingOK(proc[s], v)' /\ StoppingOK(proc[s], v)'
      BY <1>r, <1>s, <2>0, <3>2 DEF StartingOK, StoppingOK, OffPcs, MetaAgrees
    <3>. QED  BY <1>1, <1>2, <2>0, <3>1, <3>2, <3>3
  <2>2. CASE rowIP[v] = NoIP /\ proc[s].cmd # "rm"
    <3>1. Goto(s, "unroute") /\ "unroute" \in Pcs
      BY <1>7, <2>2 DEF ReadForUnmeta, Pcs
    <3>2. /\ proc'[s].pc = "unroute" /\ proc'[s].vm = v /\ proc'[s].cmd = proc[s].cmd
          /\ proc'[s].was = proc[s].was /\ proc'[Main] = proc[Main]
      BY <1>0, <3>1, Goes
    <3>3. NoMeta(v)'
      BY <1>0, <2>0, <2>2 DEF NoMeta, MetaAgrees
    <3>4. StartingOK(proc[s], v)' /\ StoppingOK(proc[s], v)'
      BY <1>r, <1>s, <2>0, <2>2, <3>2, <3>3 DEF StartingOK, StoppingOK, OffPcs
    <3>. QED  BY <1>1, <1>2, <2>0, <3>1, <3>2, <3>4
  <2>3. CASE rowIP[v] = NoIP /\ proc[s].cmd = "rm"
    <3>1. Goto(s, "isrunning") /\ "isrunning" \in Pcs
      BY <1>7, <2>3 DEF ReadForUnmeta, AfterUnregister, Pcs
    <3>2. /\ proc'[s].pc = "isrunning" /\ proc'[s].vm = v /\ proc'[s].cmd = proc[s].cmd
          /\ proc'[s].was = proc[s].was /\ proc'[Main] = proc[Main]
      BY <1>0, <3>1, Goes
    <3>3. NoMeta(v)'
      BY <1>0, <2>0, <2>3 DEF NoMeta, MetaAgrees
    <3>4. StartingOK(proc[s], v)' /\ StoppingOK(proc[s], v)'
      BY <1>r, <1>s, <2>0, <2>3, <3>2, <3>3 DEF StartingOK, StoppingOK, OffPcs, Hidden
    <3>. QED  BY <1>1, <1>2, <2>0, <3>1, <3>2, <3>4
  <2>. QED  BY <2>1, <2>2, <2>3
<1>8. CASE UnregisterVM(s)
  <2>0. /\ proc[s].pc = "unmeta" /\ routes' = routes
        /\ MetaAgrees(v) /\ proc[s].ip = running[v] /\ proc[s].ip \in IPs
        /\ proc[s].cmd = "rm" => routes[v] = NoIP
        /\ proc[s].cmd # "rm" =>
              proc[s].was = status[v] /\ (proc[s].cmd = "stop" => proc[s].was = "running")
        /\ meta' = [meta EXCEPT ![proc[s].ip] = NoVM]
    BY <1>0, <1>8 DEF UnregisterVM, At, AtWork, StoppingOK, AddressPcs
  <2>1. \A i \in IPs : meta'[i] = IF i = proc[s].ip THEN NoVM ELSE meta[i]
    BY <1>0, <2>0
  <2>2. NoMeta(v)' /\ meta[proc[s].ip] = v
    BY <1>0, <2>0, <2>1 DEF NoMeta, MetaAgrees
  <2>3. Untouched(v)
    BY <1>0, <1>s, <2>0, <2>1, <2>2 DEF Untouched
  <2>4. CASE proc[s].cmd # "rm"
    <3>1. Goto(s, "unroute") /\ "unroute" \in Pcs
      BY <1>8, <2>4 DEF UnregisterVM, Pcs
    <3>2. /\ proc'[s].pc = "unroute" /\ proc'[s].vm = v /\ proc'[s].cmd = proc[s].cmd
          /\ proc'[s].was = proc[s].was /\ proc'[Main] = proc[Main]
      BY <1>0, <3>1, Goes
    <3>4. StartingOK(proc[s], v)' /\ StoppingOK(proc[s], v)'
      BY <1>r, <1>s, <2>0, <2>2, <2>4, <3>2 DEF StartingOK, StoppingOK, OffPcs
    <3>. QED  BY <1>1, <2>3, <3>1, <3>2, <3>4
  <2>5. CASE proc[s].cmd = "rm"
    <3>1. Goto(s, "isrunning") /\ "isrunning" \in Pcs
      BY <1>8, <2>5 DEF UnregisterVM, AfterUnregister, Pcs
    <3>2. /\ proc'[s].pc = "isrunning" /\ proc'[s].vm = v /\ proc'[s].cmd = proc[s].cmd
          /\ proc'[s].was = proc[s].was /\ proc'[Main] = proc[Main]
      BY <1>0, <3>1, Goes
    <3>4. StartingOK(proc[s], v)' /\ StoppingOK(proc[s], v)'
      BY <1>r, <1>s, <2>0, <2>2, <2>5, <3>2 DEF StartingOK, StoppingOK, OffPcs, Hidden
    <3>. QED  BY <1>1, <2>3, <3>1, <3>2, <3>4
  <2>. QED  BY <2>4, <2>5
<1>9. CASE RemoveRoute(s)
  <2>0. /\ proc[s].pc = "unroute" /\ meta' = meta
        /\ IF proc[s].cmd = "rm" THEN MetaAgrees(v) ELSE NoMeta(v)
        /\ proc[s].cmd # "rm" =>
              proc[s].was = status[v] /\ (proc[s].cmd = "stop" => proc[s].was = "running")
        /\ routes' = [routes EXCEPT ![v] = NoIP]
        /\ proc[s].cmd \in {"stop", "restart", "rm"}
    BY <1>0, <1>9, <1>c DEF RemoveRoute, At, AtWork, StoppingOK, May
  <2>1. routes'[v] = NoIP /\ \A w \in VMs \ {v} : routes'[w] = routes[w]
    BY <1>0, <2>0
  <2>2. Untouched(v)
    BY <1>s, <2>0, <2>1 DEF Untouched
  <2>3. CASE proc[s].cmd = "rm"
    <3>1. Goto(s, "readunmeta") /\ "readunmeta" \in Pcs
      BY <1>9, <2>3 DEF RemoveRoute, Pcs
    <3>2. /\ proc'[s].pc = "readunmeta" /\ proc'[s].vm = v /\ proc'[s].cmd = proc[s].cmd
          /\ proc'[Main] = proc[Main]
      BY <1>0, <3>1, Goes
    <3>3. MetaAgrees(v)'
      BY <1>s, <2>0, <2>3 DEF MetaAgrees
    <3>4. StartingOK(proc[s], v)' /\ StoppingOK(proc[s], v)'
      BY <1>r, <2>1, <2>3, <3>2, <3>3 DEF StartingOK, StoppingOK, OffPcs
    <3>. QED  BY <1>1, <2>2, <3>1, <3>2, <3>4
  <2>4. CASE proc[s].cmd # "rm" /\ proc[s].was = "running"
    <3>1. Goto(s, "take") /\ "take" \in Pcs
      BY <1>9, <2>4 DEF RemoveRoute, AfterUnregister, Pcs
    <3>2. /\ proc'[s].pc = "take" /\ proc'[s].vm = v /\ proc'[s].cmd = proc[s].cmd
          /\ proc'[Main] = proc[Main]
      BY <1>0, <3>1, Goes
    <3>3. Hidden(v)' /\ running'[v] # NoIP
      BY <1>r, <1>s, <2>0, <2>1, <2>4 DEF Hidden, NoMeta, RowAgrees
    <3>4. StartingOK(proc[s], v)' /\ StoppingOK(proc[s], v)'
      BY <1>r, <3>2, <3>3 DEF StartingOK, StoppingOK, OffPcs
    <3>. QED  BY <1>1, <2>2, <3>1, <3>2, <3>4
  <2>5. CASE proc[s].cmd = "restart" /\ proc[s].was # "running"
    <3>1. Goto(s, "stat") /\ "stat" \in Pcs
      BY <1>9, <2>5 DEF RemoveRoute, AfterUnregister, Pcs
    <3>2. /\ proc'[s].pc = "stat" /\ proc'[s].vm = v /\ proc'[s].cmd = proc[s].cmd
          /\ proc'[Main] = proc[Main]
      BY <1>0, <3>1, Goes
    <3>3. Off(v)'
      BY <1>r, <1>s, <2>0, <2>1, <2>5 DEF Off, Hidden, NoMeta, RowAgrees
    <3>4. StartingOK(proc[s], v)' /\ StoppingOK(proc[s], v)'
      BY <3>2, <3>3 DEF StartingOK, StoppingOK, OffPcs
    <3>. QED  BY <1>1, <2>2, <3>1, <3>2, <3>4
  <2>. QED  BY <2>0, <2>3, <2>4, <2>5
<1>. QED  BY <1>3, <1>4, <1>5, <1>6, <1>7, <1>8, <1>9 DEF RegisterStep

LEMMA SeqStop ==
    ASSUME Inv, NEW s \in Sessions, SeqInv(s), StopStep(s)
    PROVE  SeqInv(s)'
<1>. PICK v : v = proc[s].vm
  OBVIOUS
<1>p. proc[s].pc \in {"take", "stopvm", "release", "markstopped"}
  BY DEF StopStep, TakeRunning, StopVM, ReleaseNet, MarkStopped, At
<1>0. /\ s \in Procs /\ Main \in Procs /\ s # Main /\ TypeOK /\ TypeInv
      /\ v \in VMs /\ AtWork(proc[s], v) /\ Placed(proc[s]) /\ NoStrays(s)
      /\ status \in [VMs -> Statuses] /\ rowIP \in [VMs -> MaybeIP]
      /\ running \in [VMs -> MaybeIP]
  BY <1>p, SeqFacts DEF Inv
<1>1. UNCHANGED <<lastID, rootfs, data, meta, routes>>
  BY <1>0 DEF StopStep, TakeRunning, StopVM, ReleaseNet, MarkStopped, rowVars, diskVars, regVars,
     UpdateVMStatus
<1>h. Hidden(v) /\ Hidden(v)' /\ status[v] # "absent"
  BY <1>0, <1>1, <1>p DEF AtWork, StoppingOK, Hidden, NoMeta
<1>2. ASSUME NEW l \in {"stopvm", "release", "markstopped"}, proc'[s].pc = l, proc'[s].vm = v,
             proc'[s].cmd = proc[s].cmd, proc'[Main] = proc[Main],
             UNCHANGED <<status, rowIP>>, running'[v] = NoIP,
             \A w \in VMs \ {v} : running'[w] = running[w],
             machines' \subseteq machines, l = "stopvm" \/ \A m \in machines' : m.vm # v
      PROVE  SeqInv(s)'
  <2>1. Untouched(v)
    BY <1>1, <1>2 DEF Untouched
  <2>2. StartingOK(proc[s], v)' /\ StoppingOK(proc[s], v)'
    BY <1>h, <1>2 DEF StartingOK, StoppingOK, OffPcs
  <2>3. /\ l \in Pcs \ {"idle", "insert", "next", "down"}
        /\ \A m \in machines' : m.vm = v => l \in LivePcs
    BY <1>2 DEF Pcs, HoldPcs, LivePcs, FreePcs
  <2>4. proc[s].pc \notin {"idle", "insert"} /\ status'[v] # "absent" /\ lastID' = lastID
    BY <1>p, <1>h, <1>1, <1>2
  <2>. QED  BY <1>0, <1>2, <2>1, <2>2, <2>3, <2>4, SeqGoes
<1>3. CASE TakeRunning(s)
  <2>0. running[v] # NoIP
    BY <1>0, <1>3 DEF TakeRunning, At, AtWork, StoppingOK
  <2>1. /\ running' = [running EXCEPT ![v] = NoIP] /\ UNCHANGED <<status, rowIP, machines>>
        /\ GotoWithIP(s, "stopvm", running[v]) /\ "stopvm" \in Pcs
    BY <1>3, <2>0 DEF TakeRunning, rowVars, Pcs, HoldPcs, LivePcs
  <2>2. /\ proc'[s].pc = "stopvm" /\ proc'[s].vm = v /\ proc'[s].cmd = proc[s].cmd
        /\ proc'[Main] = proc[Main]
    BY <1>0, <2>1, GoesWithIP
  <2>3. running'[v] = NoIP /\ \A w \in VMs \ {v} : running'[w] = running[w]
    BY <1>0, <2>1
  <2>. QED  BY <1>2, <2>1, <2>2, <2>3
<1>4. CASE StopVM(s)
  <2>0. proc[s].pc = "stopvm" /\ running[v] = NoIP
    BY <1>0, <1>4 DEF StopVM, At, AtWork, StoppingOK
  <2>1. /\ machines' = machines \ {Booted(s)} /\ UNCHANGED <<status, rowIP, running>>
        /\ Goto(s, "release") /\ "release" \in Pcs
    BY <1>4 DEF StopVM, rowVars, Pcs, HoldPcs, FreePcs
  <2>2. /\ proc'[s].pc = "release" /\ proc'[s].vm = v /\ proc'[s].cmd = proc[s].cmd
        /\ proc'[Main] = proc[Main]
    BY <1>0, <2>1, Goes
  <2>3. \A m \in machines' : m.vm # v
    BY <1>0, <2>0, <2>1 DEF Inv, OwnInv, TapOwnership, LivePcs
  <2>. QED  BY <1>2, <2>0, <2>1, <2>2, <2>3
<1>5. CASE ReleaseNet(s)
  <2>0. proc[s].pc = "release" /\ running[v] = NoIP
    BY <1>0, <1>5 DEF ReleaseNet, At, AtWork, StoppingOK
  <2>1. /\ UNCHANGED <<status, rowIP, running, machines>>
        /\ Goto(s, "markstopped") /\ "markstopped" \in Pcs
    BY <1>5 DEF ReleaseNet, rowVars, Pcs
  <2>2. /\ proc'[s].pc = "markstopped" /\ proc'[s].vm = v /\ proc'[s].cmd = proc[s].cmd
        /\ proc'[Main] = proc[Main]
    BY <1>0, <2>1, Goes
  <2>3. \A m \in machines' : m.vm # v
    BY <1>0, <2>0, <2>1 DEF NoStrays, LivePcs
  <2>. QED  BY <1>2, <2>0, <2>1, <2>2, <2>3
<1>6. CASE MarkStopped(s)
  <2>0. proc[s].pc = "markstopped" /\ UNCHANGED <<running, machines>>
    BY <1>6 DEF MarkStopped, At
  <2>1. /\ status' = [status EXCEPT ![v] = "stopped"] /\ rowIP' = [rowIP EXCEPT ![v] = NoIP]
    BY <1>0, <1>6, <1>h DEF MarkStopped, UpdateVMStatus, Rows
  <2>2. /\ status'[v] = "stopped" /\ rowIP'[v] = NoIP
        /\ \A w \in VMs \ {v} : status'[w] = status[w] /\ rowIP'[w] = rowIP[w]
    BY <1>0, <2>1
  <2>3. PICK l \in OffPcs \cup {"idle"} : Goto(s, l)
    <3>1. proc[s].cmd # "shutdown"
      BY <1>0 DEF Placed
    <3>2. AfterStop(proc[s].cmd) \in OffPcs \cup {"idle"}
      BY <3>1 DEF AfterStop, OffPcs
    <3>. QED  BY <1>6, <3>2 DEF MarkStopped
  <2>4. /\ proc[s].pc \in OffPcs \cup {"markstopped"}
        /\ UNCHANGED <<running, machines, meta, routes, lastID>>
        /\ \A w \in VMs \ {v} : (w \in rootfs => w \in rootfs') /\ (w \in data => w \in data')
    BY <1>1, <2>0
  <2>. QED  BY <1>0, <2>2, <2>3, <2>4, OffMoves
<1>. QED  BY <1>3, <1>4, <1>5, <1>6 DEF StopStep

LEMMA SeqRows ==
    ASSUME TypeInv, NEW s \in Sessions, SeqInv(s), RowStep(s)
    PROVE  SeqInv(s)'
<1>0. /\ s \in Procs /\ Main \in Procs /\ s # Main /\ TypeOK /\ NoVM \notin VMs /\ NoIP \notin IPs
      /\ status \in [VMs -> Statuses] /\ rowIP \in [VMs -> MaybeIP]
      /\ proc[s] \in Proc
  BY SessionsAssumption, VMsAssumption DEF TypeInv, TypeOK, Procs, NoVM, NoIP, IPs, FirstIP
<1>1. CASE CreateVM(s)
  <2>1. PICK v \in VMs : /\ v > lastID /\ lastID' = v /\ status' = [status EXCEPT ![v] = "stopped"]
                         /\ proc' = [proc EXCEPT ![s].vm = v,
                               ![s].pc = IF proc[s].cmd = "new" THEN "creating" ELSE "clone"]
    BY <1>1 DEF CreateVM
  <2>2. /\ proc[s].pc = "insert" /\ proc[s].vm \notin VMs /\ Placed(proc[s])
        /\ UNCHANGED <<rowIP, rootfs, data, running, machines, meta, routes>>
    BY <1>1 DEF CreateVM, At, SeqInv, Placed, diskVars, regVars
  <2>3. /\ proc'[s].vm = v /\ proc'[s].cmd = proc[s].cmd /\ proc'[Main] = proc[Main]
        /\ proc'[s].pc \in {"creating", "clone"}
    BY <1>0, <2>1 DEF TypeOK, Proc
  <2>4. status'[v] = "stopped" /\ \A w \in VMs \ {v} : status'[w] = status[w]
    BY <1>0, <2>1
  <2>5. \A w \in VMs : Agrees(w)
    BY <2>2 DEF SeqInv
  <2>6. \A w \in VMs \ {v} : Agrees(w)'
    BY <2>2, <2>4, <2>5 DEF Agrees, RowAgrees, MetaAgrees
  <2>7. status[v] = "absent"
    BY <2>1 DEF SeqInv
  <2>8. Off(v)'
    <3>1. running[v] = NoIP /\ rowIP[v] = NoIP /\ routes[v] = NoIP /\ NoMeta(v)
      BY <1>0, <2>5, <2>7 DEF Agrees, RowAgrees, MetaAgrees, NoMeta
    <3>. QED  BY <2>2, <2>4, <3>1 DEF Off, RowAgrees, Hidden, NoMeta
  <2>9. AtWork(proc[s], v)'
    BY <2>3, <2>4, <2>8 DEF AtWork, StartingOK, StoppingOK, OffPcs
  <2>10. \A w \in VMs : w > lastID' => status'[w] = "absent"
    <3>1. lastID \in Int /\ VMs \subseteq Int
      BY <1>0, VMsAssumption DEF TypeOK
    <3>. QED  BY <2>1, <2>4, <3>1 DEF SeqInv
  <2>11. NoStrays(s)'
    BY <2>2 DEF SeqInv, NoStrays, LivePcs
  <2>12. Placed(proc'[s]) /\ proc'[Main].pc = "idle"
    BY <2>2, <2>3 DEF Placed, SeqInv
  <2>. QED  BY <2>3, <2>6, <2>9, <2>10, <2>11, <2>12 DEF SeqInv
<1>2. CASE CreateVMFails(s)
  <2>1. /\ proc[s].pc = "insert" /\ proc[s].vm \notin VMs /\ Goto(s, "idle")
        /\ UNCHANGED <<status, rowIP, lastID, rootfs, data, running, machines, meta, routes>>
    BY <1>2 DEF CreateVMFails, At, SeqInv, Placed, rowVars, diskVars, regVars
  <2>2. /\ proc'[s].pc = "idle" /\ proc'[s].vm = NoVM /\ proc'[s].cmd = "none"
        /\ proc'[Main] = proc[Main]
    BY <1>0, <2>1, Ends
  <2>3. \A w \in VMs : Agrees(w)'
    <3>1. \A w \in VMs : Agrees(w)
      BY <2>1 DEF SeqInv
    <3>. QED  BY <2>1, <3>1 DEF Agrees, RowAgrees, MetaAgrees
  <2>4. NoStrays(s)'
    BY <2>1 DEF SeqInv, NoStrays, LivePcs
  <2>5. Placed(proc'[s])
    BY <1>0, <2>2 DEF Placed
  <2>6. proc'[Main].pc = "idle" /\ proc'[s].vm \notin VMs
        /\ \A w \in VMs : w > lastID' => status'[w] = "absent"
    BY <1>0, <2>1, <2>2 DEF SeqInv
  <2>. QED  BY <2>3, <2>4, <2>5, <2>6 DEF SeqInv
<1>v. PICK v : v = proc[s].vm
  OBVIOUS
<1>3. CASE IsRunning(s)
  <2>p. proc[s].pc = "isrunning"
    BY <1>3 DEF IsRunning, At
  <2>0. /\ v \in VMs /\ AtWork(proc[s], v) /\ NoStrays(s)
        /\ UNCHANGED <<status, rowIP, lastID, rootfs, data, running, machines, meta, routes>>
        /\ RowAgrees(v) /\ Hidden(v) /\ status[v] # "absent"
    BY <1>3, <1>v, <2>p, SeqFacts DEF IsRunning, rowVars, diskVars, regVars, AtWork, StoppingOK
  <2>1. PICK l \in {"take", "disks"} :
          Goto(s, l) /\ (l = "take" <=> running[v] # NoIP)
    BY <1>3, <1>v DEF IsRunning
  <2>2. l \in Pcs \ {"idle", "insert", "next", "down"}
    BY DEF Pcs
  <2>3. /\ proc'[s].pc = l /\ proc'[s].vm = v /\ proc'[s].cmd = proc[s].cmd
        /\ proc'[Main] = proc[Main]
    BY <1>0, <1>v, <2>1, <2>2, Goes
  <2>4. RowAgrees(v)' /\ Hidden(v)' /\ (running'[v] # NoIP <=> l = "take")
    BY <2>0, <2>1 DEF RowAgrees, Hidden, NoMeta
  <2>5. StartingOK(proc[s], v)' /\ StoppingOK(proc[s], v)'
    BY <2>3, <2>4 DEF StartingOK, StoppingOK, OffPcs, Off
  <2>6. Untouched(v)
    BY <2>0 DEF Untouched
  <2>7. \A m \in machines' : m.vm = v => running'[v] # NoIP
    BY <2>0, <2>p DEF NoStrays, LivePcs
  <2>8. proc[s].pc \notin {"idle", "insert"} /\ status'[v] # "absent" /\ machines' \subseteq machines
    BY <2>0, <2>p
  <2>. QED  BY <1>v, <2>0, <2>2, <2>3, <2>5, <2>6, <2>7, <2>8, SeqGoes
<1>4. CASE RemoveDisks(s) \/ DeleteRow(s) \/ CloneRootfs(s) \/ CloneData(s)
  <2>p. proc[s].pc \in {"disks", "delrow", "clone", "clonedata"}
    BY <1>4 DEF RemoveDisks, DeleteRow, CloneRootfs, CloneData, At
  <2>0. /\ v \in VMs /\ AtWork(proc[s], v) /\ NoStrays(s) /\ Off(v) /\ status[v] # "absent"
        /\ UNCHANGED <<lastID, running, machines, meta, routes>> /\ proc[s].pc \in OffPcs
        /\ status[v] # "running" /\ rowIP[v] = NoIP
    BY <1>4, <1>v, <2>p, SeqFacts DEF RemoveDisks, DeleteRow, CloneRootfs, CloneData,
       rowVars, regVars, AtWork, StartingOK, OffPcs, DeleteVM, Off, RowAgrees
  <2>1. ASSUME NEW l \in OffPcs, Goto(s, l), UNCHANGED <<status, rowIP>>,
               \A w \in VMs \ {v} : (w \in rootfs => w \in rootfs') /\ (w \in data => w \in data')
        PROVE  SeqInv(s)'
    BY <1>v, <2>0, <2>1, OffMoves
  <2>2. CASE RemoveDisks(s)
    <3>1. "delrow" \in OffPcs
      BY DEF OffPcs
    <3>. QED  BY <1>v, <2>1, <2>2, <3>1 DEF RemoveDisks, rowVars
  <2>3. CASE DeleteRow(s)
    <3>1. /\ status' = [status EXCEPT ![v] = "absent"] /\ rowIP' = [rowIP EXCEPT ![v] = NoIP]
          /\ UNCHANGED <<rootfs, data>> /\ Goto(s, "idle")
      BY <1>v, <2>3 DEF DeleteRow, DeleteVM, diskVars
    <3>2. /\ status'[v] = "absent" /\ rowIP'[v] = NoIP
          /\ \A w \in VMs \ {v} : status'[w] = status[w] /\ rowIP'[w] = rowIP[w]
      BY <1>0, <2>0, <3>1
    <3>. QED  BY <1>v, <2>0, <3>1, <3>2, OffMoves
  <2>4. CASE CloneRootfs(s)
    <3>1. {"clonedata", "delrow"} \subseteq OffPcs
      BY DEF OffPcs
    <3>. QED  BY <1>v, <2>1, <2>4, <3>1 DEF CloneRootfs, rowVars
  <2>5. CASE CloneData(s) /\ Goto(s, "delrow")
    <3>1. "delrow" \in OffPcs
      BY DEF OffPcs
    <3>. QED  BY <1>v, <2>1, <2>5, <3>1 DEF CloneData, rowVars
  <2>6. CASE CloneData(s) /\ Goto(s, "markstopped")
    <3>1. /\ UNCHANGED <<status, rowIP>>
          /\ \A w \in VMs \ {v} : (w \in rootfs => w \in rootfs') /\ (w \in data => w \in data')
      BY <1>v, <2>6 DEF CloneData, rowVars
    <3>2. /\ proc'[s].pc = "markstopped" /\ proc'[s].vm = v /\ proc'[s].cmd = proc[s].cmd
          /\ proc'[Main] = proc[Main] /\ "markstopped" \in Pcs
      BY <1>0, <1>v, <2>6, Goes DEF Pcs
    <3>3. Untouched(v)
      BY <2>0, <3>1 DEF Untouched
    <3>4. StartingOK(proc[s], v)' /\ StoppingOK(proc[s], v)' /\ status'[v] # "absent"
      BY <2>0, <3>1, <3>2 DEF StartingOK, StoppingOK, OffPcs, Off, Hidden, NoMeta
    <3>5. \A m \in machines' : m.vm # v
      BY <2>0, <2>p DEF NoStrays, LivePcs, Off
    <3>6. proc[s].pc \notin {"idle", "insert"} /\ machines' \subseteq machines /\ lastID' = lastID
      BY <2>0, <2>p
    <3>. QED  BY <1>v, <2>0, <3>2, <3>3, <3>4, <3>5, <3>6, SeqGoes
  <2>. QED  BY <1>4, <2>2, <2>3, <2>4, <2>5, <2>6 DEF CloneData
<1>. QED  BY <1>1, <1>2, <1>3, <1>4 DEF RowStep

LEMMA SeqStutters ==
    ASSUME NEW s, SeqInv(s), machines' \subseteq machines,
           UNCHANGED <<proc, status, rowIP, lastID, rootfs, data, running, meta, routes>>
    PROVE  SeqInv(s)'
<1>1. \A w \in VMs : Agrees(w) => Agrees(w)'
  BY DEF Agrees, RowAgrees, MetaAgrees
<1>2. \A w \in VMs : AtWork(proc[s], w) => AtWork(proc[s], w)'
  BY DEF AtWork, StartingOK, StoppingOK, Off, Hidden, NoMeta, Agrees, RowAgrees, MetaAgrees
<1>3. NoStrays(s)' /\ Placed(proc[s])'
  BY DEF SeqInv, NoStrays, Placed
<1>. QED  BY <1>1, <1>2, <1>3 DEF SeqInv

(* Only a restart counts as a crash. *)
LEMMA CrashesCount ==
    ASSUME Next, ~Crash, ~HostReboots
    PROVE  crashes' = crashes
<1>1. ASSUME NEW s, Command(s) PROVE crashes' = crashes
  BY <1>1 DEF Command, CmdNew, CmdCp, CmdStart, CmdStop, CmdRestart, CmdRm, Begin, Confirm,
     CmdRefused, vars
<1>2. ASSUME NEW s, StopStep(s) PROVE crashes' = crashes
  BY <1>2 DEF StopStep, TakeRunning, StopVM, ReleaseNet, MarkStopped
<1>3. ASSUME NEW s, StartStep(s) PROVE crashes' = crashes
  BY <1>3 DEF StartStep, MarkCreating, EnsureRootfs, StatRootfs, SeedAuthorizedKeys,
     CreateDataDisk, AllocateNet, StartVM, UndoNetwork, MarkError, MarkRunning, Track
<1>4. ASSUME NEW s, RegisterStep(s) PROVE crashes' = crashes
  BY <1>4 DEF RegisterStep, ReadForMeta, RegisterVM, ReadForRoute, AddRoute, ReadForUnmeta,
     UnregisterVM, RemoveRoute
<1>5. ASSUME NEW s, RowStep(s) PROVE crashes' = crashes
  BY <1>5 DEF RowStep, CreateVM, CreateVMFails, IsRunning, RemoveDisks, DeleteRow, CloneRootfs,
     CloneData
<1>6. CASE ShutdownAll \/ ShutdownNext \/ ShutdownExpires \/ GuestExits
  BY <1>6 DEF ShutdownAll, ShutdownNext, ShutdownExpires, GuestExits
<1>. QED  BY <1>1, <1>2, <1>3, <1>4, <1>5, <1>6 DEF Next, SessionStep, MainStep

LEMMA SeqCommand ==
    ASSUME TypeInv, NEW s \in Sessions, SeqInv(s), Command(s)
    PROVE  SeqInv(s)'
<1>0. /\ s \in Procs /\ Main \in Procs /\ s # Main /\ TypeOK /\ NoVM \notin VMs
      /\ proc \in [Procs -> Proc]
  BY SessionsAssumption, VMsAssumption DEF TypeInv, TypeOK, Procs, NoVM
<1>1. ASSUME UNCHANGED <<status, rowIP, lastID, rootfs, data, running, machines, meta, routes>>
      PROVE  \A w \in VMs : Agrees(w) => Agrees(w)'
  BY <1>1 DEF Agrees, RowAgrees, MetaAgrees
<1>2. ASSUME NEW c \in {"new", "start", "stop", "restart", "cp", "rm"}, NEW v, NEW l, NEW u,
             Begin(s, c, v, l, u),
             \/ v = NoVM /\ l = "insert"
             \/ v \in Rows /\ l = "stat" /\ status[v] # "running"
             \/ v \in Rows /\ l = "readunmeta" /\ c = "stop" /\ status[v] = "running"
             \/ v \in Rows /\ l = "readunmeta" /\ c = "restart"
             \/ v \in Rows /\ l = "confirm"
      PROVE  SeqInv(s)'
  <2>1. /\ UNCHANGED <<status, rowIP, lastID, rootfs, data, running, machines, meta, routes>>
        /\ proc[s].pc = "idle"
    BY <1>2 DEF Begin, At, rowVars, diskVars, regVars
  <2>2. /\ proc'[s].pc = l /\ proc'[s].vm = v /\ proc'[s].cmd = c /\ proc'[Main] = proc[Main]
        /\ v # NoVM => proc'[s].was = status[v]
    BY <1>0, <1>2 DEF Begin, Idle
  <2>3. /\ \A w \in VMs : Agrees(w) /\ Agrees(w)'
        /\ \A m \in machines : running[m.vm] # NoIP
    BY <1>1, <2>1 DEF SeqInv, Placed, NoStrays, LivePcs
  <2>4. NoStrays(s)'
    BY <2>1, <2>3 DEF NoStrays
  <2>5. Placed(proc'[s])
    BY <1>0, <1>2, <2>2 DEF Placed, Rows
  <2>6. ASSUME v \in VMs PROVE AtWork(proc[s], v)'
    <3>0. /\ status'[v] # "absent" /\ v # NoVM /\ Agrees(v)' /\ status'[v] = status[v]
      BY <1>0, <1>2, <2>1, <2>3, <2>6 DEF Rows
    <3>1. CASE l = "stat" /\ status[v] # "running"
      <4>1. Off(v)'
        <5>1. NoIP \notin IPs
          BY DEF NoIP, IPs, FirstIP
        <5>2. running'[v] = NoIP
          BY <3>0, <3>1 DEF Agrees, RowAgrees
        <5>. QED  BY <3>0, <5>1, <5>2 DEF Off, Agrees, Hidden, NoMeta, MetaAgrees
      <4>. QED  BY <2>2, <3>0, <3>1, <4>1 DEF AtWork, StartingOK, StoppingOK, OffPcs
    <3>2. CASE l = "readunmeta" /\ (c = "restart" \/ (c = "stop" /\ status[v] = "running"))
      BY <2>2, <3>0, <3>2 DEF AtWork, StartingOK, StoppingOK, OffPcs, Agrees
    <3>3. CASE l = "confirm"
      BY <2>2, <3>0, <3>3 DEF AtWork, StartingOK, StoppingOK, OffPcs
    <3>. QED  BY <1>0, <1>2, <2>6, <3>1, <3>2, <3>3
  <2>7. proc'[Main].pc = "idle" /\ \A w \in VMs : w > lastID' => status'[w] = "absent"
    BY <2>1, <2>2 DEF SeqInv
  <2>. QED  BY <2>2, <2>3, <2>4, <2>5, <2>6, <2>7 DEF SeqInv
<1>3. CASE CmdNew(s) \/ CmdCp(s)
  BY <1>2, <1>3 DEF CmdNew, CmdCp
<1>4. CASE CmdStart(s) \/ CmdStop(s)
  BY <1>2, <1>4 DEF CmdStart, CmdStop
<1>5. CASE CmdRestart(s) \/ CmdRm(s)
  BY <1>2, <1>5 DEF CmdRestart, CmdRm
<1>6. CASE Confirm(s)
  <2>v. PICK v : v = proc[s].vm
    OBVIOUS
  <2>p. proc[s].pc = "confirm" /\ proc[s].cmd = "rm"
    BY <1>0, <1>6 DEF Confirm, At, TypeInv, ControlOK, ProcOK
  <2>0. /\ v \in VMs /\ Agrees(v) /\ NoStrays(s) /\ status[v] # "absent" /\ Placed(proc[s])
        /\ UNCHANGED <<status, rowIP, lastID, rootfs, data, running, machines, meta, routes>>
    BY <1>6, <2>p, <2>v, SeqFacts DEF Confirm, rowVars, diskVars, regVars, AtWork, StoppingOK
  <2>1. Untouched(v) /\ Agrees(v)'
    BY <1>1, <2>0 DEF Untouched
  <2>2. \A m \in machines : running[m.vm] # NoIP
    BY <2>0, <2>p DEF NoStrays, LivePcs
  <2>3. NoStrays(s)'
    BY <2>0, <2>2 DEF NoStrays
  <2>4. CASE Goto(s, "idle")
    <3>1. /\ proc'[s].pc = "idle" /\ proc'[s].vm = NoVM /\ proc'[s].cmd = "none"
          /\ proc'[Main] = proc[Main]
      BY <1>0, <2>4, Ends
    <3>2. Placed(proc'[s])
      BY <1>0, <3>1 DEF Placed
    <3>. QED  BY <2>v, <2>0, <2>1, <2>3, <3>1, <3>2, SeqMoves
  <2>5. CASE Goto(s, "unroute")
    <3>1. /\ proc'[s].pc = "unroute" /\ proc'[s].vm = v /\ proc'[s].cmd = "rm"
          /\ proc'[Main] = proc[Main]
      BY <1>0, <2>5, <2>p, <2>v, Goes DEF Pcs
    <3>2. Placed(proc'[s])
      BY <2>0, <3>1 DEF Placed
    <3>3. AtWork(proc[s], v)'
      BY <2>0, <2>1, <3>1 DEF AtWork, StartingOK, StoppingOK, OffPcs, Agrees
    <3>. QED  BY <2>v, <2>0, <2>1, <2>3, <3>1, <3>2, <3>3, SeqMoves
  <2>. QED  BY <1>6, <2>4, <2>5 DEF Confirm
<1>7. CASE CmdRefused(s)
  <2>1. /\ UNCHANGED <<proc, status, rowIP, lastID, rootfs, data, running, meta, routes>>
        /\ machines' \subseteq machines
    BY <1>7 DEF CmdRefused, vars, rowVars, diskVars, regVars
  <2>. QED  BY <2>1, SeqStutters
<1>. QED  BY <1>3, <1>4, <1>5, <1>6, <1>7 DEF Command

LEMMA SeqStep ==
    ASSUME FullInv, NEW s, Sessions = {s}, "shutdown" \notin Commands, "caddy" \notin Faults,
           OneAtATime(s), [Next]_vars
    PROVE  OneAtATime(s)'
<1>. SUFFICES ASSUME crashes' = 0 PROVE SeqInv(s)'
  BY DEF OneAtATime
<1>0. Inv /\ TypeInv /\ s \in Sessions /\ crashes \in Nat
  BY MaxCrashesAssumption DEF FullInv, Inv, TypeInv, TypeOK
<1>1. CASE Crash \/ HostReboots
  BY <1>0, <1>1 DEF Crash, HostReboots, ServerRestarts
<1>2. CASE ~(Crash \/ HostReboots)
  <2>0. crashes = 0
    <3>1. CASE UNCHANGED vars
      BY <3>1 DEF vars
    <3>2. CASE Next
      BY <1>2, <3>2, CrashesCount
    <3>. QED  BY <3>1, <3>2
  <2>1. SeqInv(s) /\ proc[Main].pc = "idle"
    BY <2>0 DEF OneAtATime, SeqInv
  <2>2. Distinct
    <3>. SUFFICES ASSUME NEW v \in VMs, NEW w \in VMs, running[v] = running[w], running[v] # NoIP
                  PROVE  v = w
      BY DEF Distinct
    <3>1. running[v] \in IPs
      BY <1>0 DEF TypeInv, TypeOK, MaybeIP
    <3>. QED  BY <2>0, <3>1 DEF FullInv, ResInv, KnownInv, Known
  <2>3. ~ShutdownAll /\ ~MainStep /\ ~ShutdownExpires
    BY <2>1 DEF ShutdownAll, MainStep, StopStep, TakeRunning, StopVM, ReleaseNet, MarkStopped,
       ShutdownNext, ShutdownExpires, At
  <2>4. CASE GuestExits \/ UNCHANGED vars
    <3>1. /\ UNCHANGED <<proc, status, rowIP, lastID, rootfs, data, running, meta, routes>>
          /\ machines' \subseteq machines
      BY <2>4 DEF GuestExits, vars, rowVars, diskVars, regVars
    <3>. QED  BY <2>1, <3>1, SeqStutters
  <2>. QED
    BY <1>0, <1>2, <2>1, <2>2, <2>3, <2>4, SeqCommand, SeqStart, SeqStop, SeqRegister, SeqRows
    DEF Next, SessionStep
<1>. QED  BY <1>1, <1>2

LEMMA SeqInductive ==
    ASSUME NEW s, Sessions = {s}, "shutdown" \notin Commands, "caddy" \notin Faults
    PROVE  Spec => [](FullInv /\ OneAtATime(s))
<1>1. Init => OneAtATime(s)
  <2>. SUFFICES ASSUME Init PROVE SeqInv(s)
    BY DEF OneAtATime
  <2>1. /\ proc[s] = Idle /\ proc[Main] = Idle /\ machines = {}
        /\ \A v \in VMs : /\ status[v] = "absent" /\ rowIP[v] = NoIP /\ running[v] = NoIP
                          /\ routes[v] = NoIP
        /\ \A i \in IPs : meta[i] = NoVM
        /\ NoVM \notin VMs /\ NoIP \notin IPs
    BY VMsAssumption DEF Init, Procs, NoVM, NoIP, IPs, FirstIP
  <2>2. \A w \in VMs : Agrees(w)
    BY <2>1 DEF Agrees, RowAgrees, MetaAgrees
  <2>3. Placed(Idle) /\ Idle.vm = NoVM /\ Idle.pc = "idle"
    BY <2>1 DEF Placed, Idle
  <2>. QED  BY <2>1, <2>2, <2>3 DEF SeqInv, NoStrays
<1>2. FullInv /\ OneAtATime(s) /\ [Next]_vars => OneAtATime(s)'
  BY SeqStep
<1>. QED  BY <1>1, <1>2, FullInductive, PTL DEF Spec

(* With one session at a time, and as long as Caddy answers and the server *)
(* neither shuts down nor crashes, every part of the system agrees about   *)
(* every VM between commands, whichever steps of a start, a copy or a stop *)
(* fail: the clean-up of every error path of CreateAndStart, Start, Stop,  *)
(* Destroy and cmdCp is complete.                                          *)
THEOREM PartsAgreeBetweenCommands ==
    ASSUME NEW s, Sessions = {s}, "shutdown" \notin Commands, "caddy" \notin Faults
    PROVE  Spec => [](crashes = 0 => PartsAgree)
<1>1. FullInv /\ OneAtATime(s) => (crashes = 0 => PartsAgree)
  <2>. SUFFICES ASSUME FullInv, OneAtATime(s), crashes = 0, AllIdle, NEW v \in VMs
                PROVE  Agrees(v)
    BY DEF PartsAgree, Agrees, RowAgrees, MetaAgrees
  <2>1. SeqInv(s) /\ proc[s].pc \in {"idle", "confirm", "down"}
    BY DEF OneAtATime, AllIdle, Procs
  <2>2. CASE v # proc[s].vm
    BY <2>1, <2>2 DEF SeqInv
  <2>3. CASE v = proc[s].vm
    BY <2>1, <2>3 DEF SeqInv, Placed, AtWork, StoppingOK
  <2>. QED  BY <2>2, <2>3
<1>. QED  BY <1>1, SeqInductive, PTL

(* Under the same conditions SeedAuthorizedKeys never runs debugfs on the  *)
(* image of a live guest: Start and restart reach it only with the VM off. *)
THEOREM SeedsOfflineImages ==
    ASSUME NEW s, Sessions = {s}, "shutdown" \notin Commands, "caddy" \notin Faults
    PROVE  Spec => [](crashes = 0 => SeedOffline)
<1>1. FullInv /\ OneAtATime(s) => (crashes = 0 => SeedOffline)
  <2>. SUFFICES ASSUME FullInv, OneAtATime(s), crashes = 0, NEW p \in Procs, At(p, "seed"),
                       NEW m \in machines
                PROVE  m.vm # proc[p].vm
    BY DEF SeedOffline
  <2>1. SeqInv(s) /\ p = s /\ proc[s].pc = "seed"
    BY DEF OneAtATime, SeqInv, At, Procs
  <2>2. running[proc[s].vm] = NoIP
    BY <2>1 DEF SeqInv, Placed, AtWork, StartingOK, OffPcs, Off
  <2>. QED  BY <2>1, <2>2 DEF SeqInv, NoStrays, LivePcs
<1>. QED  BY <1>1, SeqInductive, PTL

=============================================================================
