---------------------------- MODULE VMLifecycle ----------------------------
(***************************************************************************)
(* The life of a microVM: the shell commands new, start, stop, restart,    *)
(* cp and rm (internal/ssh/commands.go), the manager they call             *)
(* (internal/vm/manager.go), the vms table (internal/db/queries.go), the   *)
(* metadata registry (internal/gateway/metadata.go), the proxy manager's   *)
(* route map (internal/proxy/caddy.go) and the shutdown of the server      *)
(* (cmd/ussycode/main.go).                                                 *)
(*                                                                         *)
(* Every SSH session is a goroutine, so a command is a sequence of steps:  *)
(* one step per critical section, database transaction or external         *)
(* command, and the steps of different sessions interleave.  The goroutine *)
(* of main is one more process, which runs ShutdownAll.  A crash of the    *)
(* server loses what the process kept in memory and nothing else.          *)
(*                                                                         *)
(* All modelled VMs belong to one user and a VM is named by its row id.    *)
(* SetupBridge, AddVMRules and RemoveVMRules appear here only as           *)
(* operations that may fail; what they do is the module Firewall.          *)
(***************************************************************************)
EXTENDS NetworkManager

CONSTANTS
    Sessions,     \* SSH sessions of the user
    Commands,     \* the commands this instance exercises
    VMLimit,      \* TrustLimits.VMLimit of the user, -1 for no limit
    MaxCrashes    \* bound: crashes and reboots of the server

AllCommands == {"new", "start", "stop", "restart", "cp", "rm", "shutdown"}

(* The goroutine of main. *)
Main == "main"
Procs == Sessions \cup {Main}

ASSUME SessionsAssumption == Main \notin Sessions
ASSUME CommandsAssumption == Commands \subseteq AllCommands
ASSUME VMLimitAssumption == VMLimit \in Int
ASSUME MaxCrashesAssumption == MaxCrashes \in Nat

VARIABLES
    proc,      \* what each goroutine is doing, and its local variables
    todo,      \* ShutdownAll: ids still to be stopped
    deadline,  \* ShutdownAll: whether its 30 s context is still valid
    status,    \* vms.status, "absent" when there is no row
    rowIP,     \* vms.ip_address
    lastID,    \* AUTOINCREMENT: the largest id handed out
    rootfs,    \* VMs whose rootfs image exists
    data,      \* VMs whose data disk exists
    running,   \* Manager.running: the tracked VM's guest address
    machines,  \* live Firecracker processes
    meta,      \* metadata registry: address -> VM
    routes,    \* proxy.Manager.routes: VM -> address
    crashes    \* server lifetimes so far

rowVars  == <<status, rowIP, lastID>>
diskVars == <<rootfs, data>>
mainVars == <<todo, deadline>>
regVars  == <<meta, routes>>
vars == <<proc, mainVars, rowVars, diskVars, running, machines, regVars,
          crashes, netVars>>

NoVM == 0
Statuses == {"absent", "creating", "running", "stopped", "error"}
Machine == [vm : VMs, ip : IPs, epoch : 0 .. MaxCrashes]

(* Steps of the start path that own a tap before, and while, the machine is *)
(* alive, and steps of the stop path that own it.                           *)
BootPcs  == {"boot", "undo"}
LivePcs  == {"mark", "track", "stopvm"}
FreePcs  == {"release"}
HoldPcs  == BootPcs \cup LivePcs \cup FreePcs

Pcs == HoldPcs \cup
       {"idle", "insert", "creating", "image", "seed", "data", "net", "markerr",
        "readmeta", "setmeta", "readroute", "addroute", "confirm", "readunmeta",
        "unmeta", "unroute", "isrunning", "take", "markstopped", "stat", "disks",
        "delrow", "clone", "clonedata", "next", "down"}

Proc == [pc : Pcs, cmd : AllCommands \cup {"none"}, vm : VMs \cup {NoVM},
         ip : MaybeIP, was : Statuses, src : VMs \cup {NoVM}]

Idle == [pc |-> "idle", cmd |-> "none", vm |-> NoVM, ip |-> NoIP,
         was |-> "absent", src |-> NoVM]

TypeOK ==
    /\ NetTypeOK
    /\ proc \in [Procs -> Proc]
    /\ todo \subseteq VMs
    /\ deadline \in {"ahead", "past"}
    /\ status \in [VMs -> Statuses]
    /\ rowIP \in [VMs -> MaybeIP]
    /\ lastID \in VMs \cup {0}
    /\ rootfs \subseteq VMs
    /\ data \subseteq VMs
    /\ running \in [VMs -> MaybeIP]
    /\ machines \subseteq Machine
    /\ meta \in [IPs -> VMs \cup {NoVM}]
    /\ routes \in [VMs -> MaybeIP]
    /\ crashes \in 0 .. MaxCrashes

Init ==
    /\ NetInit
    /\ proc = [p \in Procs |-> Idle]
    /\ todo = {}
    /\ deadline = "ahead"
    /\ status = [v \in VMs |-> "absent"]
    /\ rowIP = [v \in VMs |-> NoIP]
    /\ lastID = 0
    /\ rootfs = {}
    /\ data = {}
    /\ running = [v \in VMs |-> NoIP]
    /\ machines = {}
    /\ meta = [i \in IPs |-> NoVM]
    /\ routes = [v \in VMs |-> NoIP]
    /\ crashes = 0

-----------------------------------------------------------------------------
(* Control of a goroutine. *)

At(p, l) == proc[p].pc = l

Goto(p, l) ==
    proc' = [proc EXCEPT ![p] = IF l = "idle" THEN Idle ELSE [@ EXCEPT !.pc = l]]

GotoWithIP(p, l, i) == proc' = [proc EXCEPT ![p] = [@ EXCEPT !.pc = l, !.ip = i]]

May(fault) == fault \in Faults

(* The database. *)

Rows == {v \in VMs : status[v] # "absent"}

MutantUpdateVMStatus(v, s, i) ==
    /\ UNCHANGED lastID
    /\ status' = [status EXCEPT ![v] = s]
    /\ rowIP' = [rowIP EXCEPT ![v] = i]

(* UpdateVMStatus: an UPDATE of a row that is gone changes nothing. *)
UpdateVMStatus(v, s, i) ==
    /\ UNCHANGED lastID
    /\ IF v \in Rows
       THEN /\ status' = [status EXCEPT ![v] = s]
            /\ rowIP' = [rowIP EXCEPT ![v] = i]
       ELSE UNCHANGED <<status, rowIP>>

(* DeleteVM. *)
DeleteVM(v) ==
    /\ status' = [status EXCEPT ![v] = "absent"]
    /\ rowIP' = [rowIP EXCEPT ![v] = NoIP]
    /\ UNCHANGED lastID

MutantUnderQuota == VMLimit >= 0 => Cardinality(Rows) <= VMLimit

(* The quota test of cmdNew and cmdCp. *)
UnderQuota == VMLimit >= 0 => Cardinality(Rows) < VMLimit

-----------------------------------------------------------------------------
(* Commands: lookup, checks and early returns. *)

Begin(s, c, v, l, sv) ==
    /\ c \in Commands
    /\ At(s, "idle")
    /\ proc' = [proc EXCEPT ![s] = [Idle EXCEPT !.pc = l, !.cmd = c, !.vm = v,
                                    !.was = IF v = NoVM THEN "absent" ELSE status[v],
                                    !.src = sv]]
    /\ UNCHANGED <<mainVars, rowVars, diskVars, running, machines, regVars,
                   crashes, netVars>>

CmdNew(s) == UnderQuota /\ Begin(s, "new", NoVM, "insert", NoVM)

CmdCp(s) ==
    \E v \in Rows : UnderQuota /\ Begin(s, "cp", NoVM, "insert", v)

MutantCmdStart(s) ==
    \E v \in Rows : Begin(s, "start", v, "stat", NoVM)

CmdStart(s) ==
    \E v \in Rows : status[v] # "running" /\ Begin(s, "start", v, "stat", NoVM)

CmdStop(s) ==
    \E v \in Rows : status[v] = "running" /\ Begin(s, "stop", v, "readunmeta", NoVM)

CmdRestart(s) ==
    \E v \in Rows : Begin(s, "restart", v, "readunmeta", NoVM)

(* cmdRm asks for the name again, and waits as long as the user does. *)
CmdRm(s) == \E v \in Rows : Begin(s, "rm", v, "confirm", NoVM)

Confirm(s) ==
    /\ At(s, "confirm")
    /\ \/ Goto(s, "unroute")
       \/ Goto(s, "idle")
    /\ UNCHANGED <<mainVars, rowVars, diskVars, running, machines, regVars,
                   crashes, netVars>>

(* A command that an early return refuses: an unknown name, a VM that is   *)
(* already running or not running, the quota.  It changes nothing.         *)
CmdRefused(s) == At(s, "idle") /\ UNCHANGED vars

(* CreateVM: the id is fresh, and may skip ids given to other users.       *)
CreateVM(s) ==
    /\ At(s, "insert")
    /\ \E v \in VMs :
        /\ v > lastID
        /\ lastID' = v
        /\ status' = [status EXCEPT ![v] = "stopped"]
        /\ proc' = [proc EXCEPT ![s].vm = v,
                                ![s].pc = IF proc[s].cmd = "new" THEN "creating" ELSE "clone"]
    /\ UNCHANGED <<mainVars, rowIP, diskVars, running, machines, regVars,
                   crashes, netVars>>

(* CreateVM refused: the name is taken (UNIQUE(user_id, name)). *)
CreateVMFails(s) ==
    /\ At(s, "insert")
    /\ Goto(s, "idle")
    /\ UNCHANGED <<mainVars, rowVars, diskVars, running, machines, regVars,
                   crashes, netVars>>

-----------------------------------------------------------------------------
(* Manager.CreateAndStart and Manager.Start. *)

MarkCreating(s) ==
    /\ At(s, "creating")
    /\ UpdateVMStatus(proc[s].vm, "creating", NoIP)
    /\ Goto(s, IF proc[s].cmd = "new" THEN "image" ELSE "net")
    /\ UNCHANGED <<mainVars, diskVars, running, machines, regVars, crashes, netVars>>

(* EnsureRootfs and copyFile; a failed copy may leave a partial file. *)
EnsureRootfs(s) ==
    /\ At(s, "image")
    /\ \/ /\ rootfs' = rootfs \cup {proc[s].vm}
          /\ Goto(s, "seed")
       \/ /\ May("image")
          /\ rootfs' \in {rootfs, rootfs \cup {proc[s].vm}}
          /\ Goto(s, "markerr")
    /\ UNCHANGED <<mainVars, rowVars, data, running, machines, regVars, crashes, netVars>>

(* Start's test that the disk exists; its error return leaves the row alone. *)
StatRootfs(s) ==
    /\ At(s, "stat")
    /\ Goto(s, IF proc[s].vm \in rootfs THEN "seed" ELSE "idle")
    /\ UNCHANGED <<mainVars, rowVars, diskVars, running, machines, regVars,
                   crashes, netVars>>

(* SeedAuthorizedKeys: debugfs -w on the rootfs image. *)
SeedAuthorizedKeys(s) ==
    /\ At(s, "seed")
    /\ \/ /\ proc[s].vm \in rootfs
          /\ Goto(s, IF proc[s].cmd = "new" THEN "data" ELSE "creating")
       \/ /\ proc[s].vm \notin rootfs \/ May("seed")
          /\ Goto(s, "markerr")
    /\ UNCHANGED <<mainVars, rowVars, diskVars, running, machines, regVars,
                   crashes, netVars>>

(* createEmptyExt4 removes the file again when mkfs fails, not when        *)
(* Truncate does.                                                          *)
CreateDataDisk(s) ==
    /\ At(s, "data")
    /\ \/ /\ data' = data \cup {proc[s].vm}
          /\ Goto(s, "net")
       \/ /\ May("disk") /\ proc[s].vm \notin data
          /\ data' \in {data, data \cup {proc[s].vm}}
          /\ Goto(s, "markerr")
    /\ UNCHANGED <<mainVars, rowVars, rootfs, running, machines, regVars, crashes, netVars>>

(* SetupBridge, then AllocateNetwork. *)
AllocateNet(s) ==
    /\ At(s, "net")
    /\ \/ AllocateNetwork(proc[s].vm) /\ GotoWithIP(s, "boot", nextIP)
       \/ AllocateNetworkFails(proc[s].vm) /\ Goto(s, "markerr")
       \/ May("bridge") /\ UNCHANGED netVars /\ Goto(s, "markerr")
    /\ UNCHANGED <<mainVars, rowVars, diskVars, running, machines, regVars, crashes>>

Booted(s) == [vm |-> proc[s].vm, ip |-> proc[s].ip, epoch |-> crashes]

(* AddVMRules, then StartVM, which opens both disks. *)
StartVM(s) ==
    LET v == proc[s].vm IN
    /\ At(s, "boot")
    /\ \/ /\ v \in rootfs /\ v \in data
          /\ machines' = machines \cup {Booted(s)}
          /\ Goto(s, "mark")
       \/ /\ v \notin rootfs \/ v \notin data \/ May("boot") \/ May("nft")
          /\ UNCHANGED machines
          /\ Goto(s, "undo")
    /\ UNCHANGED <<mainVars, rowVars, diskVars, running, regVars, crashes, netVars>>

(* The error path after the network is allocated. *)
UndoNetwork(s) ==
    /\ At(s, "undo")
    /\ ReleaseNetwork(proc[s].vm)
    /\ Goto(s, "markerr")
    /\ UNCHANGED <<mainVars, rowVars, diskVars, running, machines, regVars, crashes>>

MutantMarkError(s) ==
    /\ At(s, "markerr")
    /\ Goto(s, "idle")
    /\ UNCHANGED <<mainVars, rowVars, diskVars, running, machines, regVars, crashes, netVars>>

MarkError(s) ==
    /\ At(s, "markerr")
    /\ UpdateVMStatus(proc[s].vm, "error", NoIP)
    /\ Goto(s, "idle")
    /\ UNCHANGED <<mainVars, diskVars, running, machines, regVars, crashes, netVars>>

MarkRunning(s) ==
    /\ At(s, "mark")
    /\ UpdateVMStatus(proc[s].vm, "running", proc[s].ip)
    /\ Goto(s, "track")
    /\ UNCHANGED <<mainVars, diskVars, running, machines, regVars, crashes, netVars>>

Track(s) ==
    /\ At(s, "track")
    /\ running' = [running EXCEPT ![proc[s].vm] = proc[s].ip]
    /\ Goto(s, "readmeta")
    /\ UNCHANGED <<mainVars, rowVars, diskVars, machines, regVars, crashes, netVars>>

-----------------------------------------------------------------------------
(* Metadata and proxy routes, keyed by the address read from the row. *)

(* The row is read, then routussy is asked over HTTP, then RegisterVM runs. *)
ReadForMeta(s) ==
    /\ At(s, "readmeta")
    /\ IF rowIP[proc[s].vm] # NoIP
       THEN GotoWithIP(s, "setmeta", rowIP[proc[s].vm])
       ELSE Goto(s, "readroute")
    /\ UNCHANGED <<mainVars, rowVars, diskVars, running, machines, regVars,
                   crashes, netVars>>

RegisterVM(s) ==
    /\ At(s, "setmeta")
    /\ meta' = [meta EXCEPT ![proc[s].ip] = proc[s].vm]
    /\ Goto(s, "readroute")
    /\ UNCHANGED <<mainVars, rowVars, diskVars, running, machines, routes, crashes, netVars>>

ReadForRoute(s) ==
    /\ At(s, "readroute")
    /\ IF rowIP[proc[s].vm] # NoIP
       THEN GotoWithIP(s, "addroute", rowIP[proc[s].vm])
       ELSE Goto(s, "idle")
    /\ UNCHANGED <<mainVars, rowVars, diskVars, running, machines, regVars,
                   crashes, netVars>>

(* AddRoute: a failure is logged and the command still succeeds. *)
AddRoute(s) ==
    /\ At(s, "addroute")
    /\ \/ routes' = [routes EXCEPT ![proc[s].vm] = proc[s].ip]
       \/ May("caddy") /\ UNCHANGED routes
    /\ Goto(s, "idle")
    /\ UNCHANGED <<mainVars, rowVars, diskVars, running, machines, meta, crashes, netVars>>

(* What follows the pair unregister and remove route, in either order. *)
AfterUnregister(s) ==
    CASE proc[s].cmd = "rm" -> "isrunning"
      [] proc[s].cmd = "restart" /\ proc[s].was # "running" -> "stat"
      [] OTHER -> "take"

ReadForUnmeta(s) ==
    /\ At(s, "readunmeta")
    /\ IF rowIP[proc[s].vm] # NoIP
       THEN GotoWithIP(s, "unmeta", rowIP[proc[s].vm])
       ELSE Goto(s, IF proc[s].cmd = "rm" THEN AfterUnregister(s) ELSE "unroute")
    /\ UNCHANGED <<mainVars, rowVars, diskVars, running, machines, regVars,
                   crashes, netVars>>

MutantUnregisterVM(s) ==
    /\ At(s, "unmeta")
    /\ Goto(s, IF proc[s].cmd = "rm" THEN AfterUnregister(s) ELSE "unroute")
    /\ UNCHANGED <<mainVars, rowVars, diskVars, running, machines, regVars, crashes, netVars>>

UnregisterVM(s) ==
    /\ At(s, "unmeta")
    /\ meta' = [meta EXCEPT ![proc[s].ip] = NoVM]
    /\ Goto(s, IF proc[s].cmd = "rm" THEN AfterUnregister(s) ELSE "unroute")
    /\ UNCHANGED <<mainVars, rowVars, diskVars, running, machines, routes, crashes, netVars>>

(* RemoveRoute: when the Caddy API cannot be reached the entry stays. *)
RemoveRoute(s) ==
    /\ At(s, "unroute")
    /\ \/ routes' = [routes EXCEPT ![proc[s].vm] = NoIP]
       \/ May("caddy") /\ UNCHANGED routes
    /\ Goto(s, IF proc[s].cmd = "rm" THEN "readunmeta" ELSE AfterUnregister(s))
    /\ UNCHANGED <<mainVars, rowVars, diskVars, running, machines, meta, crashes, netVars>>

-----------------------------------------------------------------------------
(* Manager.Stop, Manager.Destroy and Manager.ShutdownAll. *)

AfterStop(c) ==
    CASE c = "restart" -> "stat"
      [] c = "rm" -> "disks"
      [] c = "shutdown" -> "next"
      [] OTHER -> "idle"

(* Destroy's look at the running map, under the read lock. *)
IsRunning(s) ==
    /\ At(s, "isrunning")
    /\ Goto(s, IF running[proc[s].vm] # NoIP THEN "take" ELSE "disks")
    /\ UNCHANGED <<mainVars, rowVars, diskVars, running, machines, regVars,
                   crashes, netVars>>

MutantTakeRunning(p) ==
    LET v == proc[p].vm IN
    /\ At(p, "take")
    /\ IF running[v] # NoIP
       THEN GotoWithIP(p, "stopvm", running[v])
       ELSE Goto(p, IF proc[p].cmd \in {"stop", "restart"} THEN "idle"
                    ELSE AfterStop(proc[p].cmd))
    /\ UNCHANGED <<mainVars, rowVars, diskVars, running, machines, regVars, crashes, netVars>>

MutantTakeWaits(p) ==
    LET v == proc[p].vm IN
    /\ At(p, "take")
    /\ running[v] # NoIP
    /\ running' = [running EXCEPT ![v] = NoIP]
    /\ GotoWithIP(p, "stopvm", running[v])
    /\ UNCHANGED <<mainVars, rowVars, diskVars, machines, regVars, crashes, netVars>>

(* Stop takes the entry out of the map under the lock; whoever finds it    *)
(* gone gets "is not running", which Destroy and ShutdownAll only log.     *)
TakeRunning(p) ==
    LET v == proc[p].vm IN
    /\ At(p, "take")
    /\ IF running[v] # NoIP
       THEN /\ running' = [running EXCEPT ![v] = NoIP]
            /\ GotoWithIP(p, "stopvm", running[v])
       ELSE /\ UNCHANGED running
            /\ Goto(p, IF proc[p].cmd \in {"stop", "restart"} THEN "idle"
                       ELSE AfterStop(proc[p].cmd))
    /\ UNCHANGED <<mainVars, rowVars, diskVars, machines, regVars, crashes, netVars>>

MutantStopVM(p) ==
    /\ At(p, "stopvm")
    /\ Goto(p, "release")
    /\ UNCHANGED <<mainVars, rowVars, diskVars, running, machines, regVars, crashes, netVars>>

(* StopVM returns once the process has exited; then RemoveVMRules, whose   *)
(* error is ignored.                                                       *)
StopVM(p) ==
    /\ At(p, "stopvm")
    /\ machines' = machines \ {Booted(p)}
    /\ Goto(p, "release")
    /\ UNCHANGED <<mainVars, rowVars, diskVars, running, regVars, crashes, netVars>>

ReleaseNet(p) ==
    /\ At(p, "release")
    /\ ReleaseNetwork(proc[p].vm)
    /\ Goto(p, "markstopped")
    /\ UNCHANGED <<mainVars, rowVars, diskVars, running, machines, regVars, crashes>>

MutantMarkStopped(p) ==
    /\ At(p, "markstopped")
    /\ Goto(p, AfterStop(proc[p].cmd))
    /\ UNCHANGED <<mainVars, rowVars, diskVars, running, machines, regVars, crashes, netVars>>

(* Stop's last write, and the one cmdCp ends with.  ShutdownAll's context  *)
(* may have expired, and then the transaction does not begin.              *)
MarkStopped(p) ==
    /\ At(p, "markstopped")
    /\ IF p = Main /\ deadline = "past"
       THEN UNCHANGED rowVars
       ELSE UpdateVMStatus(proc[p].vm, "stopped", NoIP)
    /\ Goto(p, AfterStop(proc[p].cmd))
    /\ UNCHANGED <<mainVars, diskVars, running, machines, regVars, crashes, netVars>>

RemoveDisks(s) ==
    /\ At(s, "disks")
    /\ rootfs' = rootfs \ {proc[s].vm}
    /\ data' = data \ {proc[s].vm}
    /\ Goto(s, "delrow")
    /\ UNCHANGED <<mainVars, rowVars, running, machines, regVars, crashes, netVars>>

(* The end of Destroy, and of a cmdCp whose CloneDisks failed. *)
DeleteRow(s) ==
    /\ At(s, "delrow")
    /\ DeleteVM(proc[s].vm)
    /\ Goto(s, "idle")
    /\ UNCHANGED <<mainVars, diskVars, running, machines, regVars, crashes, netVars>>

(* CloneDisks copies what the source has; a missing file is no error. *)
CloneRootfs(s) ==
    /\ At(s, "clone")
    /\ \/ /\ rootfs' = IF proc[s].src \in rootfs THEN rootfs \cup {proc[s].vm} ELSE rootfs
          /\ Goto(s, "clonedata")
       \/ /\ May("disk") /\ proc[s].src \in rootfs
          /\ rootfs' \in {rootfs, rootfs \cup {proc[s].vm}}
          /\ Goto(s, "delrow")
    /\ UNCHANGED <<mainVars, rowVars, data, running, machines, regVars, crashes, netVars>>

CloneData(s) ==
    /\ At(s, "clonedata")
    /\ \/ /\ data' = IF proc[s].src \in data THEN data \cup {proc[s].vm} ELSE data
          /\ UNCHANGED rootfs
          /\ Goto(s, "markstopped")
       \/ /\ May("disk") /\ proc[s].src \in data
          /\ rootfs' = rootfs \ {proc[s].vm}
          /\ data' \in {data, data \cup {proc[s].vm}}
          /\ Goto(s, "delrow")
    /\ UNCHANGED <<mainVars, rowVars, running, machines, regVars, crashes, netVars>>

(* ShutdownAll: a snapshot of the ids, then Stop for each. *)
ShutdownAll ==
    /\ "shutdown" \in Commands
    /\ At(Main, "idle")
    /\ todo' = {v \in VMs : running[v] # NoIP}
    /\ proc' = [proc EXCEPT ![Main] = [Idle EXCEPT !.pc = "next", !.cmd = "shutdown"]]
    /\ UNCHANGED <<deadline, rowVars, diskVars, running, machines, regVars,
                   crashes, netVars>>

ShutdownNext ==
    /\ At(Main, "next")
    /\ \/ \E v \in todo :
            /\ todo' = todo \ {v}
            /\ proc' = [proc EXCEPT ![Main] = [@ EXCEPT !.pc = "take", !.vm = v]]
       \/ /\ todo = {}
          /\ UNCHANGED todo
          /\ Goto(Main, "down")
    /\ UNCHANGED <<deadline, rowVars, diskVars, running, machines, regVars,
                   crashes, netVars>>

(* The 30 s given to ShutdownAll run out. *)
ShutdownExpires ==
    /\ May("expire")
    /\ proc[Main].pc \notin {"idle", "down"}
    /\ deadline = "ahead"
    /\ deadline' = "past"
    /\ UNCHANGED <<proc, todo, rowVars, diskVars, running, machines, regVars,
                   crashes, netVars>>

-----------------------------------------------------------------------------
(* The environment. *)

(* A guest powers itself off or its Firecracker dies; nothing watches it.  *)
GuestExits ==
    /\ May("exit")
    /\ \E m \in machines : machines' = machines \ {m}
    /\ UNCHANGED <<proc, mainVars, rowVars, diskVars, running, regVars, crashes, netVars>>

(* The server process ends, at any point, and is started again: NewManager *)
(* starts from empty maps.  Rows, disks and taps stay; the Firecracker     *)
(* processes are killed with it or live on.                                *)
ServerRestarts(alive, kept) ==
    /\ crashes < MaxCrashes
    /\ crashes' = crashes + 1
    /\ proc' = [p \in Procs |-> Idle]
    /\ todo' = {}
    /\ deadline' = "ahead"
    /\ running' = [v \in VMs |-> NoIP]
    /\ meta' = [i \in IPs |-> NoVM]
    /\ routes' = [v \in VMs |-> NoIP]
    /\ machines' = alive
    /\ NetRestart(kept)
    /\ UNCHANGED <<rowVars, diskVars>>

Crash == \E alive \in SUBSET machines : ServerRestarts(alive, taps)

HostReboots == ServerRestarts({}, {})

-----------------------------------------------------------------------------
(* Steps a goroutine takes by itself once a command is under way. *)
StopStep(p) == TakeRunning(p) \/ StopVM(p) \/ ReleaseNet(p) \/ MarkStopped(p)

StartStep(s) ==
    \/ MarkCreating(s) \/ EnsureRootfs(s) \/ StatRootfs(s) \/ SeedAuthorizedKeys(s)
    \/ CreateDataDisk(s) \/ AllocateNet(s) \/ StartVM(s) \/ UndoNetwork(s)
    \/ MarkError(s) \/ MarkRunning(s) \/ Track(s)

RegisterStep(s) ==
    \/ ReadForMeta(s) \/ RegisterVM(s) \/ ReadForRoute(s) \/ AddRoute(s)
    \/ ReadForUnmeta(s) \/ UnregisterVM(s) \/ RemoveRoute(s)

RowStep(s) ==
    \/ CreateVM(s) \/ CreateVMFails(s) \/ IsRunning(s) \/ RemoveDisks(s)
    \/ DeleteRow(s) \/ CloneRootfs(s) \/ CloneData(s)

SessionStep(s) == StopStep(s) \/ StartStep(s) \/ RegisterStep(s) \/ RowStep(s)

MainStep == StopStep(Main) \/ ShutdownNext

Command(s) ==
    \/ CmdNew(s) \/ CmdCp(s) \/ CmdStart(s) \/ CmdStop(s) \/ CmdRestart(s)
    \/ CmdRm(s) \/ Confirm(s) \/ CmdRefused(s)

Next ==
    \/ \E s \in Sessions : Command(s) \/ SessionStep(s)
    \/ ShutdownAll \/ MainStep \/ ShutdownExpires
    \/ GuestExits
    \/ Crash
    \/ HostReboots

Spec == Init /\ [][Next]_vars

(* The Go scheduler runs every goroutine that can run, and every external  *)
(* command and transaction in a step is assumed to return.  Not so StopVM: *)
(* it asks the guest to go (Ctrl-Alt-Del), kills it only when the asking   *)
(* fails, and waits for it as long as its context lives: for ever in a     *)
(* session, 30 s in ShutdownAll.                                           *)
Fairness ==
    /\ \A s \in Sessions : WF_vars(SessionStep(s) /\ ~At(s, "stopvm"))
    /\ WF_vars(MainStep)

FairSpec == Spec /\ Fairness

-----------------------------------------------------------------------------
(* Properties of the manager under concurrent sessions. *)

AllIdle == \A p \in Procs : proc[p].pc \in {"idle", "confirm", "down"}

(* However sessions, crashes and failed clean-ups interleave, a VM never   *)
(* has two Firecracker processes on its disks: Manager has no per-VM lock, *)
(* only AllocateNetwork's exclusive tap name stands between two starts.    *)
OneMachinePerVM ==
    \A m, n \in machines : m.vm = n.vm => m = n

(* Guests booted in one server lifetime never share an address, although   *)
(* the allocation map is never consulted.                                  *)
UniqueGuestIP ==
    \A m, n \in machines : m.epoch = n.epoch /\ m.ip = n.ip => m = n

(* A tracked VM is really up: Stop always has a process to stop and a tap  *)
(* to release (no guest exits on its own here).                            *)
TrackedIsUp ==
    \A v \in VMs : running[v] # NoIP =>
        /\ [vm |-> v, ip |-> running[v], epoch |-> crashes] \in machines
        /\ v \in taps /\ allocated[v] = running[v]

(* When no command is under way nothing is leaked: the taps, the address   *)
(* allocations and the Firecracker processes are those of the tracked VMs, *)
(* whichever error paths and races led there.                              *)
QuiescentResources ==
    AllIdle =>
        /\ taps = {v \in VMs : running[v] # NoIP}
        /\ allocated = running
        /\ machines = {[vm |-> v, ip |-> running[v], epoch |-> crashes] : v \in taps}

(* A row that says running has a live guest at the address in the row, or  *)
(* the Stop of exactly that guest is on its way to rewrite it.             *)
RunningRowBacked ==
    \A v \in VMs : status[v] = "running" =>
        \/ [vm |-> v, ip |-> rowIP[v], epoch |-> crashes] \in machines
        \/ \E p \in Procs : /\ proc[p].pc \in {"release", "markstopped"}
                            /\ proc[p].vm = v /\ proc[p].ip = rowIP[v]

(* Metadata is looked up by source address: a guest can only ever be       *)
(* served its own entry (its SSH keys, environment and API key).           *)
MetadataOwn ==
    \A m \in machines : meta[m.ip] \in {NoVM, m.vm}

(* A row that rm deleted never comes back, although the goroutine of a     *)
(* concurrent start keeps writing to it.                                   *)
DeletedForGood ==
    [][\A v \in VMs : v <= lastID /\ status[v] = "absent" => status'[v] = "absent"]_vars

(* A command whose guests obey when it stops them returns, once the user   *)
(* has answered a prompt, whatever the other sessions do: Stop holds no    *)
(* lock while it waits, so a guest that ignores Ctrl-Alt-Del blocks only   *)
(* the session that asked it to stop.                                      *)
CommandsReturn ==
    \A s \in Sessions :
        (proc[s].pc = "stopvm" ~> proc[s].pc # "stopvm")
            => (proc[s].pc \notin {"idle", "confirm"} ~> proc[s].pc = "idle")

(* "creating" is a transient status: the command that wrote it, or another *)
(* one, replaces it on every path.                                         *)
CreatingSettles ==
    \A v \in VMs : status[v] = "creating" ~> status[v] # "creating"

(* A graceful shutdown ends. *)
ShutdownReturns == proc[Main].pc = "next" ~> proc[Main].pc = "down"

-----------------------------------------------------------------------------
(* Why OneMachinePerVM and UniqueGuestIP hold: the inductive invariants. *)

(* The tap device is the lock of the VM.  At most one goroutine is between *)
(* AllocateNetwork and Track or between Stop's delete and ReleaseNetwork   *)
(* for a VM, only while the VM is not tracked, and always with the tap in  *)
(* place; a process exists only over a tap, and is the one its holder or   *)
(* the running map knows, or a stray of an earlier server lifetime.        *)
TapOwnership ==
    /\ \A p, q \in Procs :
          /\ proc[p].pc \in HoldPcs /\ proc[q].pc \in HoldPcs
          /\ proc[p].vm = proc[q].vm
          => p = q
    /\ \A p \in Procs : proc[p].pc \in HoldPcs =>
          proc[p].vm \in taps /\ running[proc[p].vm] = NoIP
    /\ \A v \in VMs : running[v] # NoIP => v \in taps
    /\ \A m \in machines : m.vm \in taps
    /\ \A p \in Procs : proc[p].pc \in BootPcs \cup FreePcs =>
          \A m \in machines : m.vm # proc[p].vm
    /\ \A p \in Procs : proc[p].pc \in LivePcs =>
          \A m \in machines : m.vm = proc[p].vm => m = Booted(p)
    /\ \A m \in machines : running[m.vm] # NoIP =>
          m.ip = running[m.vm] /\ m.epoch = crashes

(* nextIP is above every address of this lifetime, and an address that is  *)
(* about to boot is nobody else's.                                         *)
AddressOwnership ==
    /\ \A m \in machines : m.epoch <= crashes
    /\ \A m \in machines : m.epoch = crashes => m.ip < nextIP
    /\ \A p \in Procs : proc[p].pc = "boot" =>
          /\ proc[p].ip < nextIP
          /\ \A m \in machines : m.epoch = crashes => m.ip # proc[p].ip
    /\ \A p, q \in Procs :
          /\ proc[p].pc = "boot" /\ proc[q].pc = "boot"
          /\ proc[p].ip = proc[q].ip
          => p = q

-----------------------------------------------------------------------------
(* The manager implements VMPower. *)

HeldAt(v, pcs) == \E p \in Procs : proc[p].pc \in pcs /\ proc[p].vm = v

StartHoldPcs == {"boot", "undo", "mark", "track"}
StopHoldPcs == {"stopvm", "release"}

PowerOf(v) ==
    IF running[v] # NoIP THEN "on"
    ELSE IF HeldAt(v, StartHoldPcs) THEN "starting"
    ELSE IF HeldAt(v, StopHoldPcs) THEN "stopping"
    ELSE IF v \in taps THEN "lost"
    ELSE "off"

Power == INSTANCE VMPower WITH power <- [v \in VMs |-> PowerOf(v)]

(* Every step of the sessions, of shutdown and of the failures is one of   *)
(* the moves VMPower allows, or none: no interleaving skips a stop, starts *)
(* a VM that is not off or revives what a dead server left behind.         *)
ImplementsPower == Power!PowerSpec

-----------------------------------------------------------------------------
(* Properties of one session at a time. *)

(* With one session every part of the system agrees about every VM between *)
(* commands: row, running map, registry and route map, and a VM that runs  *)
(* has its disks.  All error paths of start and new are included.          *)
PartsAgree ==
    AllIdle => \A v \in VMs :
        /\ status[v] = "running" <=> running[v] # NoIP
        /\ rowIP[v] = running[v]
        /\ routes[v] = running[v]
        /\ \A i \in IPs : meta[i] = v <=> running[v] = i
        /\ running[v] # NoIP => v \in rootfs /\ v \in data

(* The user's rows never exceed the limit of the trust level. *)
WithinQuota == VMLimit >= 0 => Cardinality(Rows) <= VMLimit

(* debugfs never writes to the image of a live guest: Start boots a        *)
(* stopped VM.                                                             *)
SeedOffline ==
    \A p \in Procs : At(p, "seed") => \A m \in machines : m.vm # proc[p].vm

-----------------------------------------------------------------------------
(* What the documentation says of the states. *)

(* A row that says stopped consumes nothing, once nobody works on the VM.  *)
StoppedConsumesNothing ==
    AllIdle => \A v \in VMs : status[v] = "stopped" => v \notin taps

(* A destroyed VM has no disk, no network, no process and no route.        *)
DestroyedIsClean ==
    AllIdle => \A v \in VMs : v <= lastID /\ status[v] = "absent" =>
        v \notin taps /\ v \notin rootfs /\ routes[v] = NoIP
=============================================================================
