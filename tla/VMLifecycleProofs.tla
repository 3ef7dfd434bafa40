------------------------- MODULE VMLifecycleProofs -------------------------
(***************************************************************************)
(* Proofs about VMLifecycle, for every set of sessions and VMs, every      *)
(* subnet, every choice of faults and any number of crashes.               *)
(***************************************************************************)
EXTENDS VMLifecycle, TLAPS

(* The local variables a step reads are the ones its goroutine has set. *)
AddressPcs == {"boot", "undo", "mark", "track", "stopvm", "release",
               "setmeta", "addroute", "unmeta"}
NoVMPcs == {"idle", "insert", "next", "down"}
UnregisterPcs == {"readunmeta", "unmeta", "unroute"}
StopPcs == {"take", "stopvm", "release"}

ProcOK(r) ==
    /\ r.pc = "next" => r.cmd = "shutdown"
    /\ r.pc = "insert" => r.cmd \in {"new", "cp"}
    /\ r.pc \in {"clone", "clonedata"} => r.cmd = "cp"
    /\ r.pc \in {"confirm", "isrunning"} => r.cmd = "rm"
    /\ r.pc \in UnregisterPcs => r.cmd \in {"stop", "restart", "rm"}
    /\ r.pc \in StopPcs => r.cmd \in {"stop", "restart", "rm", "shutdown"}
    /\ r.pc = "markstopped" => r.cmd \in {"stop", "restart", "rm", "shutdown", "cp"}
    /\ r.pc \notin NoVMPcs => r.vm \in VMs
    /\ r.pc \in AddressPcs => r.ip \in IPs

ControlOK == \A p \in Procs : ProcOK(proc[p])

TypeInv == TypeOK /\ ControlOK

(* p has moved to l, with address i, and no other goroutine has moved. *)
Moved(p, l, i) ==
    /\ proc' \in [Procs -> Proc]
    /\ \A q \in Procs : q # p => proc'[q] = proc[q]
    /\ proc'[p].pc = l
    /\ l # "idle" => /\ proc'[p].cmd = proc[p].cmd
                     /\ proc'[p].vm = proc[p].vm
                     /\ proc'[p].ip = i

LEMMA GotoLemma ==
    ASSUME TypeOK, NEW p \in Procs, NEW l \in Pcs, Goto(p, l)
    PROVE  Moved(p, l, proc[p].ip)
<1>. USE DEF TypeOK
<1>1. Idle \in Proc /\ Idle.pc = "idle"
  BY DEF Idle, Proc, Pcs, MaybeIP, Statuses
<1>2. CASE l = "idle"
  BY <1>1, <1>2 DEF Goto, Moved
<1>3. CASE l # "idle"
  BY <1>3 DEF Goto, Moved, Proc
<1>. QED  BY <1>2, <1>3

LEMMA GotoWithIPLemma ==
    ASSUME TypeOK, NEW p \in Procs, NEW l \in Pcs, NEW i \in IPs, GotoWithIP(p, l, i)
    PROVE  Moved(p, l, i)
<1>1. proc \in [Procs -> Proc] /\ proc' = [proc EXCEPT ![p] = [proc[p] EXCEPT !.pc = l, !.ip = i]]
  BY DEF GotoWithIP, TypeOK
<1>2. PICK x : x = [proc[p] EXCEPT !.pc = l, !.ip = i]
  OBVIOUS
<1>3. x \in Proc /\ x.pc = l /\ x.ip = i /\ x.cmd = proc[p].cmd /\ x.vm = proc[p].vm
  BY <1>1, <1>2 DEF Proc, MaybeIP
<1>. QED  BY <1>1, <1>2, <1>3 DEF Moved

LEMMA IdleOK == Idle \in Proc /\ ProcOK(Idle)
BY DEF Idle, Proc, Pcs, MaybeIP, Statuses, ProcOK, NoVMPcs, UnregisterPcs, StopPcs,
       AddressPcs

LEMMA BeginLemma ==
    ASSUME TypeOK, NEW s \in Procs, NEW c \in AllCommands, NEW v \in VMs \cup {NoVM},
           NEW l \in Pcs, NEW w \in VMs \cup {NoVM}, Begin(s, c, v, l, w)
    PROVE  /\ TypeOK'
           /\ \A q \in Procs : q # s => proc'[q] = proc[q]
           /\ proc'[s].pc = l /\ proc'[s].cmd = c /\ proc'[s].vm = v
<1>1. (IF v = NoVM THEN "absent" ELSE status[v]) \in Statuses
  BY DEF TypeOK, Statuses
<1>2. /\ proc' \in [Procs -> Proc]
      /\ \A q \in Procs : q # s => proc'[q] = proc[q]
      /\ proc'[s].pc = l /\ proc'[s].cmd = c /\ proc'[s].vm = v
  BY <1>1 DEF Begin, TypeOK, Idle, Proc, MaybeIP
<1>3. TypeOK'
  BY <1>2 DEF Begin, TypeOK, mainVars, rowVars, diskVars, regVars, netVars, NetTypeOK
<1>. QED  BY <1>2, <1>3

LEMMA TypeInitLemma == Init => TypeInv
<1>. SUFFICES ASSUME Init PROVE TypeInv
  OBVIOUS
<1>1. NetTypeOK
  BY MaxIPAssumption DEF Init, NetInit, NetTypeOK, FirstIP, MaybeIP
<1>2. TypeOK
  BY <1>1, IdleOK, MaxCrashesAssumption DEF Init, TypeOK, MaybeIP, Statuses
<1>3. ControlOK
  BY IdleOK DEF Init, ControlOK
<1>. QED  BY <1>2, <1>3 DEF TypeInv

LEMMA TypeStep == TypeInv /\ [Next]_vars => TypeInv'
<1>. SUFFICES ASSUME TypeInv, [Next]_vars PROVE TypeInv'
  OBVIOUS
<1>. USE DEF TypeInv, At
<1>0. Sessions \subseteq Procs /\ Main \in Procs
  BY DEF Procs
<1>1. ASSUME NEW s \in Sessions, CmdNew(s) PROVE TypeInv'
  <2>0. Begin(s, "new", NoVM, "insert", NoVM)
    BY <1>1 DEF CmdNew, Rows
  <2>1. /\ TypeOK'
        /\ \A q \in Procs : q # s => proc'[q] = proc[q]
        /\ proc'[s].pc = "insert" /\ proc'[s].cmd = "new"
    BY <1>0, <2>0, BeginLemma DEF AllCommands, Pcs
  <2>2. ControlOK'
    BY <1>0, <2>1 DEF ControlOK, ProcOK, NoVMPcs, UnregisterPcs, StopPcs, AddressPcs
  <2>. QED  BY <2>1, <2>2
<1>2. ASSUME NEW s \in Sessions, CmdCp(s) PROVE TypeInv'
  <2>0. PICK w \in VMs : Begin(s, "cp", NoVM, "insert", w)
    BY <1>2 DEF CmdCp, Rows
  <2>1. /\ TypeOK'
        /\ \A q \in Procs : q # s => proc'[q] = proc[q]
        /\ proc'[s].pc = "insert" /\ proc'[s].cmd = "cp"
    BY <1>0, <2>0, BeginLemma DEF AllCommands, Pcs
  <2>2. ControlOK'
    BY <1>0, <2>1 DEF ControlOK, ProcOK, NoVMPcs, UnregisterPcs, StopPcs, AddressPcs
  <2>. QED  BY <2>1, <2>2
<1>3. ASSUME NEW s \in Sessions, CmdStart(s) PROVE TypeInv'
  <2>0. PICK v \in VMs : Begin(s, "start", v, "stat", NoVM)
    BY <1>3 DEF CmdStart, Rows
  <2>1. /\ TypeOK'
        /\ \A q \in Procs : q # s => proc'[q] = proc[q]
        /\ proc'[s].pc = "stat" /\ proc'[s].cmd = "start" /\ proc'[s].vm = v
    BY <1>0, <2>0, BeginLemma DEF AllCommands, Pcs
  <2>2. ControlOK'
    BY <1>0, <2>1 DEF ControlOK, ProcOK, NoVMPcs, UnregisterPcs, StopPcs, AddressPcs
  <2>. QED  BY <2>1, <2>2
<1>4. ASSUME NEW s \in Sessions, CmdStop(s) PROVE TypeInv'
  <2>0. PICK v \in VMs : Begin(s, "stop", v, "readunmeta", NoVM)
    BY <1>4 DEF CmdStop, Rows
  <2>1. /\ TypeOK'
        /\ \A q \in Procs : q # s => proc'[q] = proc[q]
        /\ proc'[s].pc = "readunmeta" /\ proc'[s].cmd = "stop" /\ proc'[s].vm = v
    BY <1>0, <2>0, BeginLemma DEF AllCommands, Pcs
  <2>2. ControlOK'
    BY <1>0, <2>1 DEF ControlOK, ProcOK, NoVMPcs, UnregisterPcs, StopPcs, AddressPcs
  <2>. QED  BY <2>1, <2>2
<1>5. ASSUME NEW s \in Sessions, CmdRestart(s) PROVE TypeInv'
  <2>0. PICK v \in VMs : Begin(s, "restart", v, "readunmeta", NoVM)
    BY <1>5 DEF CmdRestart, Rows
  <2>1. /\ TypeOK'
        /\ \A q \in Procs : q # s => proc'[q] = proc[q]
        /\ proc'[s].pc = "readunmeta" /\ proc'[s].cmd = "restart" /\ proc'[s].vm = v
    BY <1>0, <2>0, BeginLemma DEF AllCommands, Pcs
  <2>2. ControlOK'
    BY <1>0, <2>1 DEF ControlOK, ProcOK, NoVMPcs, UnregisterPcs, StopPcs, AddressPcs
  <2>. QED  BY <2>1, <2>2
<1>6. ASSUME NEW s \in Sessions, CmdRm(s) PROVE TypeInv'
  <2>0. PICK v \in VMs : Begin(s, "rm", v, "confirm", NoVM)
    BY <1>6 DEF CmdRm, Rows
  <2>1. /\ TypeOK'
        /\ \A q \in Procs : q # s => proc'[q] = proc[q]
        /\ proc'[s].pc = "confirm" /\ proc'[s].cmd = "rm" /\ proc'[s].vm = v
    BY <1>0, <2>0, BeginLemma DEF AllCommands, Pcs
  <2>2. ControlOK'
    BY <1>0, <2>1 DEF ControlOK, ProcOK, NoVMPcs, UnregisterPcs, StopPcs, AddressPcs
  <2>. QED  BY <2>1, <2>2
<1>7. ASSUME NEW s \in Sessions, Confirm(s) PROVE TypeInv'
  <2>1. PICK l \in {"unroute", "idle"} : Moved(s, l, proc[s].ip)
    BY <1>0, <1>7, GotoLemma DEF Confirm, Pcs, HoldPcs, BootPcs, LivePcs, FreePcs
  <2>2. TypeOK'
    BY <1>0, <1>7, <2>1 DEF Confirm, TypeOK, Moved, mainVars, rowVars, diskVars,
       regVars, netVars, NetTypeOK
  <2>3. ControlOK'
    BY <1>0, <1>7, <2>1 DEF Confirm, ControlOK, ProcOK, Moved, NoVMPcs,
       UnregisterPcs, StopPcs, AddressPcs
  <2>. QED  BY <2>2, <2>3
<1>8. ASSUME NEW s \in Sessions, CreateVMFails(s) PROVE TypeInv'
  <2>1. PICK l \in {"idle"} : Moved(s, l, proc[s].ip)
    BY <1>0, <1>8, GotoLemma DEF CreateVMFails, Pcs, HoldPcs, BootPcs, LivePcs, FreePcs
  <2>2. TypeOK'
    BY <1>0, <1>8, <2>1 DEF CreateVMFails, TypeOK, Moved, mainVars, rowVars,
       diskVars, regVars, netVars, NetTypeOK
  <2>3. ControlOK'
    BY <1>0, <1>8, <2>1 DEF CreateVMFails, ControlOK, ProcOK, Moved, NoVMPcs,
       UnregisterPcs, StopPcs, AddressPcs
  <2>. QED  BY <2>2, <2>3
<1>9. ASSUME NEW s \in Sessions, CreateVM(s) PROVE TypeInv'
  <2>1. proc' \in [Procs -> Proc] /\ ControlOK'
    BY <1>0, <1>9 DEF CreateVM, TypeOK, ControlOK, ProcOK, Proc, Pcs, NoVMPcs,
       UnregisterPcs, StopPcs, AddressPcs
  <2>2. TypeOK'
    BY <1>9, <2>1 DEF CreateVM, TypeOK, Statuses, mainVars, diskVars, regVars,
       netVars, NetTypeOK
  <2>. QED  BY <2>1, <2>2
<1>10. ASSUME NEW s \in Sessions, MarkCreating(s) PROVE TypeInv'
  <2>1. PICK l \in {"image", "net"} : Moved(s, l, proc[s].ip)
    BY <1>0, <1>10, GotoLemma DEF MarkCreating, Pcs, HoldPcs, BootPcs, LivePcs, FreePcs
  <2>2. TypeOK'
    BY <1>0, <1>10, <2>1 DEF MarkCreating, TypeOK, Moved, mainVars, rowVars,
       diskVars, regVars, netVars, NetTypeOK, UpdateVMStatus, Statuses, MaybeIP
  <2>3. ControlOK'
    BY <1>0, <1>10, <2>1 DEF MarkCreating, ControlOK, ProcOK, Moved, NoVMPcs,
       UnregisterPcs, StopPcs, AddressPcs
  <2>. QED  BY <2>2, <2>3
<1>11. ASSUME NEW s \in Sessions, EnsureRootfs(s) PROVE TypeInv'
  <2>1. PICK l \in {"seed", "markerr"} : Moved(s, l, proc[s].ip)
    BY <1>0, <1>11, GotoLemma DEF EnsureRootfs, Pcs, HoldPcs, BootPcs, LivePcs, FreePcs
  <2>2. TypeOK'
    BY <1>0, <1>11, <2>1 DEF EnsureRootfs, TypeOK, Moved, mainVars, rowVars,
       diskVars, regVars, netVars, NetTypeOK, ControlOK, ProcOK, NoVMPcs
  <2>3. ControlOK'
    BY <1>0, <1>11, <2>1 DEF EnsureRootfs, ControlOK, ProcOK, Moved, NoVMPcs,
       UnregisterPcs, StopPcs, AddressPcs
  <2>. QED  BY <2>2, <2>3
<1>12. ASSUME NEW s \in Sessions, StatRootfs(s) PROVE TypeInv'
  <2>1. PICK l \in {"seed", "idle"} : Moved(s, l, proc[s].ip)
    BY <1>0, <1>12, GotoLemma DEF StatRootfs, Pcs, HoldPcs, BootPcs, LivePcs, FreePcs
  <2>2. TypeOK'
    BY <1>0, <1>12, <2>1 DEF StatRootfs, TypeOK, Moved, mainVars, rowVars,
       diskVars, regVars, netVars, NetTypeOK
  <2>3. ControlOK'
    BY <1>0, <1>12, <2>1 DEF StatRootfs, ControlOK, ProcOK, Moved, NoVMPcs,
       UnregisterPcs, StopPcs, AddressPcs
  <2>. QED  BY <2>2, <2>3
<1>13. ASSUME NEW s \in Sessions, SeedAuthorizedKeys(s) PROVE TypeInv'
  <2>1. PICK l \in {"data", "creating", "markerr"} : Moved(s, l, proc[s].ip)
    BY <1>0, <1>13, GotoLemma DEF SeedAuthorizedKeys, Pcs, HoldPcs, BootPcs,
       LivePcs, FreePcs
  <2>2. TypeOK'
    BY <1>0, <1>13, <2>1 DEF SeedAuthorizedKeys, TypeOK, Moved, mainVars, rowVars,
       diskVars, regVars, netVars, NetTypeOK
  <2>3. ControlOK'
    BY <1>0, <1>13, <2>1 DEF SeedAuthorizedKeys, ControlOK, ProcOK, Moved,
       NoVMPcs, UnregisterPcs, StopPcs, AddressPcs
  <2>. QED  BY <2>2, <2>3
<1>14. ASSUME NEW s \in Sessions, CreateDataDisk(s) PROVE TypeInv'
  <2>1. PICK l \in {"net", "markerr"} : Moved(s, l, proc[s].ip)
    BY <1>0, <1>14, GotoLemma DEF CreateDataDisk, Pcs, HoldPcs, BootPcs, LivePcs,
       FreePcs
  <2>2. TypeOK'
    BY <1>0, <1>14, <2>1 DEF CreateDataDisk, TypeOK, Moved, mainVars, rowVars,
       diskVars, regVars, netVars, NetTypeOK, ControlOK, ProcOK, NoVMPcs
  <2>3. ControlOK'
    BY <1>0, <1>14, <2>1 DEF CreateDataDisk, ControlOK, ProcOK, Moved, NoVMPcs,
       UnregisterPcs, StopPcs, AddressPcs
  <2>. QED  BY <2>2, <2>3
<1>15. ASSUME NEW s \in Sessions, AllocateNet(s) PROVE TypeInv'
  <2>0. nextIP <= MaxIP => nextIP \in IPs
    BY MaxIPAssumption DEF TypeOK, NetTypeOK, IPs, FirstIP
  <2>1. \/ \E l \in {"markerr"} :
             Moved(s, l, proc[s].ip) /\ (l = "isrunning" => proc[s].cmd = "rm")
        \/ Moved(s, "boot", nextIP) /\ nextIP \in IPs
    BY <1>0, <1>15, <2>0, GotoLemma, GotoWithIPLemma DEF AllocateNet,
       AllocateNetwork, Pcs, HoldPcs, BootPcs, LivePcs, FreePcs
  <2>4. NetTypeOK'
    BY <1>0, <1>15, MaxIPAssumption DEF AllocateNet, NetTypeOK, TypeOK, ControlOK,
       ProcOK, NoVMPcs, AllocateNetwork, AllocateNetworkFails, TakeIP, FirstIP,
       MaybeIP, IPs, netVars
  <2>2. TypeOK'
    BY <1>0, <1>15, <2>1, <2>4 DEF AllocateNet, TypeOK, Moved, mainVars, rowVars,
       diskVars, regVars
  <2>3. ControlOK'
    BY <1>0, <1>15, <2>1 DEF AllocateNet, ControlOK, ProcOK, Moved, NoVMPcs,
       UnregisterPcs, StopPcs, AddressPcs, AllocateNetwork
  <2>. QED  BY <2>2, <2>3
<1>16. ASSUME NEW s \in Sessions, StartVM(s) PROVE TypeInv'
  <2>1. PICK l \in {"mark", "undo"} : Moved(s, l, proc[s].ip)
    BY <1>0, <1>16, GotoLemma DEF StartVM, Pcs, HoldPcs, BootPcs, LivePcs, FreePcs
  <2>2. TypeOK'
    BY <1>0, <1>16, <2>1 DEF StartVM, TypeOK, Moved, mainVars, rowVars, diskVars,
       regVars, netVars, NetTypeOK, Booted, Machine, ControlOK, ProcOK, NoVMPcs,
       AddressPcs
  <2>3. ControlOK'
    BY <1>0, <1>16, <2>1 DEF StartVM, ControlOK, ProcOK, Moved, NoVMPcs,
       UnregisterPcs, StopPcs, AddressPcs
  <2>. QED  BY <2>2, <2>3
<1>17. ASSUME NEW s \in Sessions, UndoNetwork(s) PROVE TypeInv'
  <2>1. PICK l \in {"markerr"} : Moved(s, l, proc[s].ip)
    BY <1>0, <1>17, GotoLemma DEF UndoNetwork, Pcs, HoldPcs, BootPcs, LivePcs, FreePcs
  <2>4. NetTypeOK'
    BY <1>0, <1>17, MaxIPAssumption DEF UndoNetwork, NetTypeOK, TypeOK, ControlOK,
       ProcOK, NoVMPcs, ReleaseNetwork, MaybeIP
  <2>2. TypeOK'
    BY <1>0, <1>17, <2>1, <2>4 DEF UndoNetwork, TypeOK, Moved, mainVars, rowVars,
       diskVars, regVars
  <2>3. ControlOK'
    BY <1>0, <1>17, <2>1 DEF UndoNetwork, ControlOK, ProcOK, Moved, NoVMPcs,
       UnregisterPcs, StopPcs, AddressPcs
  <2>. QED  BY <2>2, <2>3
<1>18. ASSUME NEW s \in Sessions, MarkError(s) PROVE TypeInv'
  <2>1. PICK l \in {"idle"} : Moved(s, l, proc[s].ip)
    BY <1>0, <1>18, GotoLemma DEF MarkError, Pcs, HoldPcs, BootPcs, LivePcs, FreePcs
  <2>2. TypeOK'
    BY <1>0, <1>18, <2>1 DEF MarkError, TypeOK, Moved, mainVars, rowVars,
       diskVars, regVars, netVars, NetTypeOK, UpdateVMStatus, Statuses, MaybeIP
  <2>3. ControlOK'
    BY <1>0, <1>18, <2>1 DEF MarkError, ControlOK, ProcOK, Moved, NoVMPcs,
       UnregisterPcs, StopPcs, AddressPcs
  <2>. QED  BY <2>2, <2>3
<1>19. ASSUME NEW s \in Sessions, MarkRunning(s) PROVE TypeInv'
  <2>1. PICK l \in {"track"} : Moved(s, l, proc[s].ip)
    BY <1>0, <1>19, GotoLemma DEF MarkRunning, Pcs, HoldPcs, BootPcs, LivePcs, FreePcs
  <2>2. TypeOK'
    BY <1>0, <1>19, <2>1 DEF MarkRunning, TypeOK, Moved, mainVars, rowVars,
       diskVars, regVars, netVars, NetTypeOK, UpdateVMStatus, Statuses, MaybeIP,
       Proc
  <2>3. ControlOK'
    BY <1>0, <1>19, <2>1 DEF MarkRunning, ControlOK, ProcOK, Moved, NoVMPcs,
       UnregisterPcs, StopPcs, AddressPcs
  <2>. QED  BY <2>2, <2>3
<1>20. ASSUME NEW s \in Sessions, Track(s) PROVE TypeInv'
  <2>1. PICK l \in {"readmeta"} : Moved(s, l, proc[s].ip)
    BY <1>0, <1>20, GotoLemma DEF Track, Pcs, HoldPcs, BootPcs, LivePcs, FreePcs
  <2>2. TypeOK'
    BY <1>0, <1>20, <2>1 DEF Track, TypeOK, Moved, mainVars, rowVars, diskVars,
       regVars, netVars, NetTypeOK, Proc
  <2>3. ControlOK'
    BY <1>0, <1>20, <2>1 DEF Track, ControlOK, ProcOK, Moved, NoVMPcs,
       UnregisterPcs, StopPcs, AddressPcs
  <2>. QED  BY <2>2, <2>3
<1>21. ASSUME NEW s \in Sessions, ReadForMeta(s) PROVE TypeInv'
  <2>0. rowIP[proc[s].vm] # NoIP => rowIP[proc[s].vm] \in IPs
    BY <1>0, <1>21 DEF ReadForMeta, TypeOK, ControlOK, ProcOK, NoVMPcs, StopPcs, MaybeIP
  <2>1. \/ \E l \in {"readroute"} :
             Moved(s, l, proc[s].ip) /\ (l = "isrunning" => proc[s].cmd = "rm")
        \/ Moved(s, "setmeta", rowIP[proc[s].vm]) /\ rowIP[proc[s].vm] \in IPs
    BY <1>0, <1>21, <2>0, GotoLemma, GotoWithIPLemma DEF ReadForMeta, Pcs,
       HoldPcs, BootPcs, LivePcs, FreePcs
  <2>2. TypeOK'
    BY <1>0, <1>21, <2>1 DEF ReadForMeta, TypeOK, Moved, mainVars, rowVars,
       diskVars, regVars, netVars, NetTypeOK
  <2>3. ControlOK'
    BY <1>0, <1>21, <2>1 DEF ReadForMeta, ControlOK, ProcOK, Moved, NoVMPcs,
       UnregisterPcs, StopPcs, AddressPcs
  <2>. QED  BY <2>2, <2>3
<1>22. ASSUME NEW s \in Sessions, RegisterVM(s) PROVE TypeInv'
  <2>1. PICK l \in {"readroute"} : Moved(s, l, proc[s].ip)
    BY <1>0, <1>22, GotoLemma DEF RegisterVM, Pcs, HoldPcs, BootPcs, LivePcs, FreePcs
  <2>2. TypeOK'
    BY <1>0, <1>22, <2>1 DEF RegisterVM, TypeOK, Moved, mainVars, rowVars,
       diskVars, regVars, netVars, NetTypeOK, ControlOK, ProcOK, NoVMPcs,
       AddressPcs
  <2>3. ControlOK'
    BY <1>0, <1>22, <2>1 DEF RegisterVM, ControlOK, ProcOK, Moved, NoVMPcs,
       UnregisterPcs, StopPcs, AddressPcs
  <2>. QED  BY <2>2, <2>3
<1>23. ASSUME NEW s \in Sessions, ReadForRoute(s) PROVE TypeInv'
  <2>0. rowIP[proc[s].vm] # NoIP => rowIP[proc[s].vm] \in IPs
    BY <1>0, <1>23 DEF ReadForRoute, TypeOK, ControlOK, ProcOK, NoVMPcs, StopPcs,
       MaybeIP
  <2>1. \/ \E l \in {"idle"} :
             Moved(s, l, proc[s].ip) /\ (l = "isrunning" => proc[s].cmd = "rm")
        \/ Moved(s, "addroute", rowIP[proc[s].vm]) /\ rowIP[proc[s].vm] \in IPs
    BY <1>0, <1>23, <2>0, GotoLemma, GotoWithIPLemma DEF ReadForRoute, Pcs,
       HoldPcs, BootPcs, LivePcs, FreePcs
  <2>2. TypeOK'
    BY <1>0, <1>23, <2>1 DEF ReadForRoute, TypeOK, Moved, mainVars, rowVars,
       diskVars, regVars, netVars, NetTypeOK
  <2>3. ControlOK'
    BY <1>0, <1>23, <2>1 DEF ReadForRoute, ControlOK, ProcOK, Moved, NoVMPcs,
       UnregisterPcs, StopPcs, AddressPcs
  <2>. QED  BY <2>2, <2>3
<1>24. ASSUME NEW s \in Sessions, AddRoute(s) PROVE TypeInv'
  <2>1. PICK l \in {"idle"} : Moved(s, l, proc[s].ip)
    BY <1>0, <1>24, GotoLemma DEF AddRoute, Pcs, HoldPcs, BootPcs, LivePcs, FreePcs
  <2>2. TypeOK'
    BY <1>0, <1>24, <2>1 DEF AddRoute, TypeOK, Moved, mainVars, rowVars, diskVars,
       regVars, netVars, NetTypeOK, Proc
  <2>3. ControlOK'
    BY <1>0, <1>24, <2>1 DEF AddRoute, ControlOK, ProcOK, Moved, NoVMPcs,
       UnregisterPcs, StopPcs, AddressPcs
  <2>. QED  BY <2>2, <2>3
<1>25. ASSUME NEW s \in Sessions, ReadForUnmeta(s) PROVE TypeInv'
  <2>0. rowIP[proc[s].vm] # NoIP => rowIP[proc[s].vm] \in IPs
    BY <1>0, <1>25 DEF ReadForUnmeta, TypeOK, ControlOK, ProcOK, NoVMPcs, StopPcs,
       MaybeIP
  <2>1. \/ \E l \in {"unroute", "isrunning"} :
             Moved(s, l, proc[s].ip) /\ (l = "isrunning" => proc[s].cmd = "rm")
        \/ Moved(s, "unmeta", rowIP[proc[s].vm]) /\ rowIP[proc[s].vm] \in IPs
    BY <1>0, <1>25, <2>0, GotoLemma, GotoWithIPLemma DEF ReadForUnmeta,
       AfterUnregister, Pcs, HoldPcs, BootPcs, LivePcs, FreePcs, ControlOK,
       ProcOK, UnregisterPcs, StopPcs
  <2>2. TypeOK'
    BY <1>0, <1>25, <2>1 DEF ReadForUnmeta, TypeOK, Moved, mainVars, rowVars,
       diskVars, regVars, netVars, NetTypeOK
  <2>3. ControlOK'
    BY <1>0, <1>25, <2>1 DEF ReadForUnmeta, ControlOK, ProcOK, Moved, NoVMPcs,
       UnregisterPcs, StopPcs, AddressPcs, AfterUnregister
  <2>. QED  BY <2>2, <2>3
<1>26. ASSUME NEW s \in Sessions, UnregisterVM(s) PROVE TypeInv'
  <2>1. PICK l \in {"unroute", "isrunning"} :
          Moved(s, l, proc[s].ip) /\ (l = "isrunning" => proc[s].cmd = "rm")
    BY <1>0, <1>26, GotoLemma DEF UnregisterVM, AfterUnregister, Pcs, HoldPcs,
       BootPcs, LivePcs, FreePcs
  <2>2. TypeOK'
    BY <1>0, <1>26, <2>1 DEF UnregisterVM, TypeOK, Moved, mainVars, rowVars,
       diskVars, regVars, netVars, NetTypeOK
  <2>3. ControlOK'
    BY <1>0, <1>26, <2>1 DEF UnregisterVM, ControlOK, ProcOK, Moved, NoVMPcs,
       UnregisterPcs, StopPcs, AddressPcs, AfterUnregister
  <2>. QED  BY <2>2, <2>3
<1>27. ASSUME NEW s \in Sessions, RemoveRoute(s) PROVE TypeInv'
  <2>1. PICK l \in {"readunmeta", "stat", "take"} : Moved(s, l, proc[s].ip)
    BY <1>0, <1>27, GotoLemma DEF RemoveRoute, AfterUnregister, Pcs, HoldPcs,
       BootPcs, LivePcs, FreePcs
  <2>2. TypeOK'
    BY <1>0, <1>27, <2>1 DEF RemoveRoute, TypeOK, Moved, mainVars, rowVars,
       diskVars, regVars, netVars, NetTypeOK, MaybeIP
  <2>3. ControlOK'
    BY <1>0, <1>27, <2>1 DEF RemoveRoute, ControlOK, ProcOK, Moved, NoVMPcs,
       UnregisterPcs, StopPcs, AddressPcs, AfterUnregister
  <2>. QED  BY <2>2, <2>3
<1>28. ASSUME NEW s \in Sessions, IsRunning(s) PROVE TypeInv'
  <2>1. PICK l \in {"take", "disks"} : Moved(s, l, proc[s].ip)
    BY <1>0, <1>28, GotoLemma DEF IsRunning, Pcs, HoldPcs, BootPcs, LivePcs, FreePcs
  <2>2. TypeOK'
    BY <1>0, <1>28, <2>1 DEF IsRunning, TypeOK, Moved, mainVars, rowVars,
       diskVars, regVars, netVars, NetTypeOK
  <2>3. ControlOK'
    BY <1>0, <1>28, <2>1 DEF IsRunning, ControlOK, ProcOK, Moved, NoVMPcs,
       UnregisterPcs, StopPcs, AddressPcs
  <2>. QED  BY <2>2, <2>3
<1>29. ASSUME NEW s \in Procs, TakeRunning(s) PROVE TypeInv'
  <2>0. running[proc[s].vm] # NoIP => running[proc[s].vm] \in IPs
    BY <1>0, <1>29 DEF TakeRunning, TypeOK, ControlOK, ProcOK, NoVMPcs, StopPcs, MaybeIP
  <2>5. /\ AfterStop(proc[s].cmd) \in {"idle", "stat", "disks", "next"}
        /\ AfterStop(proc[s].cmd) = "next" => proc[s].cmd = "shutdown"
    BY DEF AfterStop
  <2>1. \/ \E l \in {"idle", "stat", "disks", "next"} :
             Moved(s, l, proc[s].ip) /\ (l = "next" => proc[s].cmd = "shutdown")
        \/ Moved(s, "stopvm", running[proc[s].vm]) /\ running[proc[s].vm] \in IPs
    BY <1>0, <1>29, <2>0, GotoLemma, GotoWithIPLemma, <2>5 DEF TakeRunning, Pcs,
       HoldPcs, BootPcs, LivePcs, FreePcs, ControlOK, ProcOK, UnregisterPcs,
       StopPcs
  <2>2. TypeOK'
    BY <1>0, <1>29, <2>1 DEF TakeRunning, TypeOK, Moved, mainVars, rowVars,
       diskVars, regVars, netVars, NetTypeOK, MaybeIP
  <2>3. ControlOK'
    BY <1>0, <1>29, <2>1 DEF TakeRunning, ControlOK, ProcOK, Moved, NoVMPcs,
       UnregisterPcs, StopPcs, AddressPcs
  <2>. QED  BY <2>2, <2>3
<1>30. ASSUME NEW s \in Procs, StopVM(s) PROVE TypeInv'
  <2>1. PICK l \in {"release"} : Moved(s, l, proc[s].ip)
    BY <1>0, <1>30, GotoLemma DEF StopVM, Pcs, HoldPcs, BootPcs, LivePcs, FreePcs
  <2>2. TypeOK'
    BY <1>0, <1>30, <2>1 DEF StopVM, TypeOK, Moved, mainVars, rowVars, diskVars,
       regVars, netVars, NetTypeOK
  <2>3. ControlOK'
    BY <1>0, <1>30, <2>1 DEF StopVM, ControlOK, ProcOK, Moved, NoVMPcs,
       UnregisterPcs, StopPcs, AddressPcs
  <2>. QED  BY <2>2, <2>3
<1>31. ASSUME NEW s \in Procs, ReleaseNet(s) PROVE TypeInv'
  <2>1. PICK l \in {"markstopped"} : Moved(s, l, proc[s].ip)
    BY <1>0, <1>31, GotoLemma DEF ReleaseNet, Pcs, HoldPcs, BootPcs, LivePcs, FreePcs
  <2>4. NetTypeOK'
    BY <1>0, <1>31, MaxIPAssumption DEF ReleaseNet, NetTypeOK, TypeOK, ControlOK,
       ProcOK, NoVMPcs, ReleaseNetwork, MaybeIP
  <2>2. TypeOK'
    BY <1>0, <1>31, <2>1, <2>4 DEF ReleaseNet, TypeOK, Moved, mainVars, rowVars,
       diskVars, regVars
  <2>3. ControlOK'
    BY <1>0, <1>31, <2>1 DEF ReleaseNet, ControlOK, ProcOK, Moved, NoVMPcs,
       UnregisterPcs, StopPcs, AddressPcs
  <2>. QED  BY <2>2, <2>3
<1>32. ASSUME NEW s \in Procs, MarkStopped(s) PROVE TypeInv'
  <2>5. /\ AfterStop(proc[s].cmd) \in {"idle", "stat", "disks", "next"}
        /\ AfterStop(proc[s].cmd) = "next" => proc[s].cmd = "shutdown"
    BY DEF AfterStop
  <2>1. PICK l \in {"idle", "stat", "disks", "next"} :
          Moved(s, l, proc[s].ip) /\ (l = "next" => proc[s].cmd = "shutdown")
    BY <1>0, <1>32, GotoLemma, <2>5 DEF MarkStopped, Pcs, HoldPcs, BootPcs,
       LivePcs, FreePcs, ControlOK, ProcOK, UnregisterPcs, StopPcs
  <2>2. TypeOK'
    BY <1>0, <1>32, <2>1 DEF MarkStopped, TypeOK, Moved, mainVars, rowVars,
       diskVars, regVars, netVars, NetTypeOK, UpdateVMStatus, Statuses, MaybeIP
  <2>3. ControlOK'
    BY <1>0, <1>32, <2>1 DEF MarkStopped, ControlOK, ProcOK, Moved, NoVMPcs,
       UnregisterPcs, StopPcs, AddressPcs
  <2>. QED  BY <2>2, <2>3
<1>33. ASSUME NEW s \in Sessions, RemoveDisks(s) PROVE TypeInv'
  <2>1. PICK l \in {"delrow"} : Moved(s, l, proc[s].ip)
    BY <1>0, <1>33, GotoLemma DEF RemoveDisks, Pcs, HoldPcs, BootPcs, LivePcs, FreePcs
  <2>2. TypeOK'
    BY <1>0, <1>33, <2>1 DEF RemoveDisks, TypeOK, Moved, mainVars, rowVars,
       diskVars, regVars, netVars, NetTypeOK
  <2>3. ControlOK'
    BY <1>0, <1>33, <2>1 DEF RemoveDisks, ControlOK, ProcOK, Moved, NoVMPcs,
       UnregisterPcs, StopPcs, AddressPcs
  <2>. QED  BY <2>2, <2>3
<1>34. ASSUME NEW s \in Sessions, DeleteRow(s) PROVE TypeInv'
  <2>1. PICK l \in {"idle"} : Moved(s, l, proc[s].ip)
    BY <1>0, <1>34, GotoLemma DEF DeleteRow, Pcs, HoldPcs, BootPcs, LivePcs, FreePcs
  <2>2. TypeOK'
    BY <1>0, <1>34, <2>1 DEF DeleteRow, TypeOK, Moved, mainVars, rowVars,
       diskVars, regVars, netVars, NetTypeOK, DeleteVM, Statuses, MaybeIP
  <2>3. ControlOK'
    BY <1>0, <1>34, <2>1 DEF DeleteRow, ControlOK, ProcOK, Moved, NoVMPcs,
       UnregisterPcs, StopPcs, AddressPcs
  <2>. QED  BY <2>2, <2>3
<1>35. ASSUME NEW s \in Sessions, CloneRootfs(s) PROVE TypeInv'
  <2>1. PICK l \in {"clonedata", "delrow"} : Moved(s, l, proc[s].ip)
    BY <1>0, <1>35, GotoLemma DEF CloneRootfs, Pcs, HoldPcs, BootPcs, LivePcs, FreePcs
  <2>2. TypeOK'
    BY <1>0, <1>35, <2>1 DEF CloneRootfs, TypeOK, Moved, mainVars, rowVars,
       diskVars, regVars, netVars, NetTypeOK, ControlOK, ProcOK, NoVMPcs
  <2>3. ControlOK'
    BY <1>0, <1>35, <2>1 DEF CloneRootfs, ControlOK, ProcOK, Moved, NoVMPcs,
       UnregisterPcs, StopPcs, AddressPcs
  <2>. QED  BY <2>2, <2>3
<1>36. ASSUME NEW s \in Sessions, CloneData(s) PROVE TypeInv'
  <2>1. PICK l \in {"markstopped", "delrow"} : Moved(s, l, proc[s].ip)
    BY <1>0, <1>36, GotoLemma DEF CloneData, Pcs, HoldPcs, BootPcs, LivePcs, FreePcs
  <2>2. TypeOK'
    BY <1>0, <1>36, <2>1 DEF CloneData, TypeOK, Moved, mainVars, rowVars,
       diskVars, regVars, netVars, NetTypeOK, ControlOK, ProcOK, NoVMPcs
  <2>3. ControlOK'
    BY <1>0, <1>36, <2>1 DEF CloneData, ControlOK, ProcOK, Moved, NoVMPcs,
       UnregisterPcs, StopPcs, AddressPcs
  <2>. QED  BY <2>2, <2>3
<1>37. ASSUME ShutdownAll PROVE TypeInv'
  <2>1. /\ proc' \in [Procs -> Proc]
        /\ \A q \in Procs : q # Main => proc'[q] = proc[q]
        /\ proc'[Main].pc = "next" /\ proc'[Main].cmd = "shutdown"
    BY <1>0, <1>37, IdleOK DEF ShutdownAll, TypeOK, Idle, Proc, Pcs, AllCommands
  <2>2. TypeOK'
    BY <1>37, <2>1 DEF ShutdownAll, TypeOK, rowVars, diskVars, regVars, netVars,
       NetTypeOK
  <2>3. ControlOK'
    BY <1>0, <2>1 DEF ControlOK, ProcOK, NoVMPcs, UnregisterPcs, StopPcs, AddressPcs
  <2>. QED  BY <2>2, <2>3
<1>38. ASSUME ShutdownNext PROVE TypeInv'
  <2>0. proc[Main].cmd = "shutdown"
    BY <1>0, <1>38 DEF ShutdownNext, ControlOK, ProcOK
  <2>1. /\ proc' \in [Procs -> Proc]
        /\ \A q \in Procs : q # Main => proc'[q] = proc[q]
        /\ proc'[Main].pc \in {"take", "down"}
        /\ proc'[Main].pc = "take" =>
               proc'[Main].vm \in VMs /\ proc'[Main].cmd = "shutdown"
    <3>1. CASE Goto(Main, "down")
      BY <1>0, <3>1, GotoLemma DEF Moved, Pcs
    <3>2. ASSUME NEW v \in VMs,
                 proc' = [proc EXCEPT ![Main] = [@ EXCEPT !.pc = "take", !.vm = v]]
          PROVE  /\ proc' \in [Procs -> Proc]
                 /\ \A q \in Procs : q # Main => proc'[q] = proc[q]
                 /\ proc'[Main].pc = "take" /\ proc'[Main].vm = v
                 /\ proc'[Main].cmd = proc[Main].cmd
      <4>1. "take" \in Pcs
        BY DEF Pcs
      <4>2. PICK x : x = [proc[Main] EXCEPT !.pc = "take", !.vm = v]
        OBVIOUS
      <4>3. proc \in [Procs -> Proc] /\ Main \in Procs /\ proc' = [proc EXCEPT ![Main] = x]
        BY <1>0, <3>2, <4>2 DEF TypeOK, Procs
      <4>4. x \in Proc /\ x.pc = "take" /\ x.vm = v /\ x.cmd = proc[Main].cmd
        BY <4>1, <4>2, <4>3 DEF Proc
      <4>. QED  BY <4>3, <4>4
    <3>. QED  BY <1>38, <2>0, <3>1, <3>2 DEF ShutdownNext, TypeOK
  <2>2. TypeOK'
    BY <1>38, <2>1 DEF ShutdownNext, TypeOK, rowVars, diskVars, regVars, netVars,
       NetTypeOK
  <2>3. ControlOK'
    BY <1>0, <2>1 DEF ControlOK, ProcOK, NoVMPcs, UnregisterPcs, StopPcs, AddressPcs
  <2>. QED  BY <2>2, <2>3
<1>39. ASSUME ShutdownExpires PROVE TypeInv'
  BY <1>39 DEF ShutdownExpires, TypeOK, ControlOK, mainVars, rowVars, diskVars,
     regVars, netVars, NetTypeOK
<1>40. ASSUME GuestExits PROVE TypeInv'
  BY <1>40 DEF GuestExits, TypeOK, ControlOK, mainVars, rowVars, diskVars, regVars,
     netVars, NetTypeOK
<1>41. ASSUME Crash PROVE TypeInv'
  <2>1. NetTypeOK'
    BY <1>41, MaxIPAssumption DEF Crash, ServerRestarts, NetRestart, NetTypeOK,
       TypeOK, FirstIP, MaybeIP
  <2>2. TypeOK'
    BY <1>41, <2>1, IdleOK, MaxCrashesAssumption DEF Crash, ServerRestarts,
       TypeOK, rowVars, diskVars, MaybeIP
  <2>3. ControlOK'
    BY <1>41, IdleOK DEF Crash, ServerRestarts, ControlOK
  <2>. QED  BY <2>2, <2>3
<1>42. ASSUME HostReboots PROVE TypeInv'
  <2>1. NetTypeOK'
    BY <1>42, MaxIPAssumption DEF HostReboots, ServerRestarts, NetRestart,
       NetTypeOK, TypeOK, FirstIP, MaybeIP
  <2>2. TypeOK'
    BY <1>42, <2>1, IdleOK, MaxCrashesAssumption DEF HostReboots, ServerRestarts,
       TypeOK, rowVars, diskVars, MaybeIP
  <2>3. ControlOK'
    BY <1>42, IdleOK DEF HostReboots, ServerRestarts, ControlOK
  <2>. QED  BY <2>2, <2>3
<1>43. CASE UNCHANGED vars
  BY <1>43 DEF vars, TypeOK, ControlOK, mainVars, rowVars, diskVars, regVars,
     netVars, NetTypeOK
<1>44. ASSUME NEW s \in Sessions, CmdRefused(s) PROVE TypeInv'
  BY <1>44, <1>43 DEF CmdRefused
<1>. QED
  BY <1>0, <1>1, <1>2, <1>3, <1>4, <1>5, <1>6, <1>7, <1>8, <1>9, <1>10, <1>11,
     <1>12, <1>13, <1>14, <1>15, <1>16, <1>17, <1>18, <1>19, <1>20, <1>21, <1>22,
     <1>23, <1>24, <1>25, <1>26, <1>27, <1>28, <1>29, <1>30, <1>31, <1>32, <1>33,
     <1>34, <1>35, <1>36, <1>37, <1>38, <1>39, <1>40, <1>41, <1>42, <1>43, <1>44
  DEF Next, Command, SessionStep, StopStep, StartStep, RegisterStep, RowStep, MainStep

(* Every variable keeps its type: in particular no address outside the     *)
(* subnet is ever handed out, stored in a row or registered.               *)
THEOREM TypeCorrect == Spec => []TypeOK
<1>1. Init => TypeInv
  BY TypeInitLemma
<1>2. TypeInv /\ [Next]_vars => TypeInv'
  BY TypeStep
<1>3. TypeInv => TypeOK
  BY DEF TypeInv
<1>. QED  BY <1>1, <1>2, <1>3, PTL DEF Spec
=============================================================================
