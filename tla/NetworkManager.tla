--------------------------- MODULE NetworkManager ---------------------------
(***************************************************************************)
(* Tap devices and guest addresses: internal/vm/network.go.                *)
(*                                                                         *)
(* Addresses are the host parts of the bridge subnet.  The gateway takes   *)
(* the first one, so the first guest gets 2; MaxIP is the last address     *)
(* that subnet.Contains accepts (the code does not set the broadcast       *)
(* address aside).  A tap device is named after the VM's id and belongs to *)
(* the kernel: it outlives the server process.  The firewall half of       *)
(* SetupBridge is the module Firewall.                                     *)
(***************************************************************************)
EXTENDS Integers, FiniteSets

CONSTANTS
    VMs,      \* row ids of the VMs, positive integers
    MaxIP,    \* last host address inside the subnet
    Faults    \* the external operations that may fail (see FaultKinds)

FaultKinds == {"image", "seed", "disk", "bridge", "tap", "tapdel", "nft",
               "boot", "caddy", "exit", "expire"}

ASSUME VMsAssumption == VMs \subseteq Nat \ {0}
ASSUME MaxIPAssumption == MaxIP \in Nat /\ MaxIP >= 2
ASSUME FaultsAssumption == Faults \subseteq FaultKinds

VARIABLES
    taps,       \* tap devices that exist on the host, by VM id
    nextIP,     \* NetworkManager.nextIP
    allocated   \* NetworkManager.allocated

netVars == <<taps, nextIP, allocated>>

FirstIP == 2
IPs == FirstIP .. MaxIP
NoIP == 0
MaybeIP == IPs \cup {NoIP}

NetTypeOK ==
    /\ taps \subseteq VMs
    /\ nextIP \in FirstIP .. (MaxIP + 1)
    /\ allocated \in [VMs -> MaybeIP]

(* NewNetworkManager: nothing is read back from the host. *)
NetInit ==
    /\ taps = {}
    /\ nextIP = FirstIP
    /\ allocated = [v \in VMs |-> NoIP]

MutantTakeIP == nextIP' = nextIP

(* nm.nextIP++ comes before every check, so a failed allocation uses up an *)
(* address too.  Past the subnet the counter only keeps failing, so it is  *)
(* held at MaxIP + 1.                                                      *)
TakeIP == nextIP' = IF nextIP <= MaxIP THEN nextIP + 1 ELSE nextIP

MutantTapFree(v) == TRUE

(* "ip tuntap add" refuses a name that exists. *)
TapFree(v) == v \notin taps

MutantAllocateNetwork(v) ==
    /\ TapFree(v)
    /\ TakeIP
    /\ taps' = taps \cup {v}
    /\ allocated' = [allocated EXCEPT ![v] = nextIP]

(* AllocateNetwork, the path that returns a NetworkConfig with the address *)
(* nextIP.                                                                 *)
AllocateNetwork(v) ==
    /\ nextIP <= MaxIP
    /\ TapFree(v)
    /\ TakeIP
    /\ taps' = taps \cup {v}
    /\ allocated' = [allocated EXCEPT ![v] = nextIP]

(* AllocateNetwork, the error returns: subnet exhausted, tap not created,  *)
(* or tap created and then not attached or not brought up.  In the last    *)
(* case the code deletes the tap and ignores whether that worked.          *)
AllocateNetworkFails(v) ==
    /\ TakeIP
    /\ UNCHANGED allocated
    /\ \/ /\ \/ nextIP > MaxIP
             \/ ~TapFree(v)
             \/ "tap" \in Faults
          /\ UNCHANGED taps
       \/ /\ nextIP <= MaxIP /\ TapFree(v)
          /\ {"tap", "tapdel"} \subseteq Faults
          /\ taps' = taps \cup {v}

MutantReleaseNetwork(v) ==
    /\ allocated' = [allocated EXCEPT ![v] = NoIP]
    /\ UNCHANGED <<taps, nextIP>>

(* ReleaseNetwork: a failed "ip link del" is only logged. *)
ReleaseNetwork(v) ==
    /\ taps' \in {taps \ {v}} \cup (IF "tapdel" \in Faults THEN {taps} ELSE {})
    /\ allocated' = [allocated EXCEPT ![v] = NoIP]
    /\ UNCHANGED nextIP

(* A new server process: fresh counters over the taps it finds. *)
NetRestart(kept) ==
    /\ taps' = kept
    /\ nextIP' = FirstIP
    /\ allocated' = [v \in VMs |-> NoIP]
=============================================================================
