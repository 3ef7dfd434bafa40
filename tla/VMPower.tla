------------------------------ MODULE VMPower ------------------------------
(***************************************************************************)
(* What internal/vm/manager.go promises of one VM, without sessions, rows, *)
(* disks or addresses: a VM is started only when it is off, is up only     *)
(* after a start, goes down only through a stop, and what a dead server    *)
(* leaves behind stays lost, since nothing reconciles the host with the    *)
(* new process, until the host reboots.                                    *)
(***************************************************************************)
CONSTANT VMs

VARIABLE power

States == {"off", "starting", "on", "stopping", "lost"}

PowerTypeOK == power \in [VMs -> States]

PowerInit == power = [v \in VMs |-> "off"]

Move(v, from, to) ==
    /\ power[v] \in from
    /\ power' = [power EXCEPT ![v] = to]

BeginStart(v)  == Move(v, {"off"}, "starting")
StartDone(v)   == Move(v, {"starting"}, "on")
BeginStop(v)   == Move(v, {"on"}, "stopping")
(* A start that failed, or a stop. *)
Released(v)    == Move(v, {"starting", "stopping"}, "off")
(* A tap that could not be deleted again. *)
TapLeaked(v)   == Move(v, {"off", "starting", "stopping"}, "lost")

ServerDies ==
    power' = [v \in VMs |-> IF power[v] = "off" THEN "off" ELSE "lost"]

HostDies == power' = [v \in VMs |-> "off"]

PowerNext ==
    \/ \E v \in VMs : \/ BeginStart(v) \/ StartDone(v) \/ BeginStop(v)
                      \/ Released(v) \/ TapLeaked(v)
    \/ ServerDies
    \/ HostDies

PowerSpec == PowerInit /\ [][PowerNext]_power
=============================================================================
