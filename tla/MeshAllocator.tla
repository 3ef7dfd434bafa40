---------------------------- MODULE MeshAllocator ----------------------------
(***************************************************************************)
(* The allocator of mesh subnets: internal/mesh/allocator.go.              *)
(*                                                                         *)
(* A subnet is its first address.  Addresses are words of the machine:     *)
(* the conversions between an index and a subnet wrap at Word.  Every      *)
(* method holds the lock, so a method is one step.  The caller persists    *)
(* what ExportAllocations returns and gives it back to a new allocator     *)
(* when the control plane restarts; nothing makes it export after every    *)
(* change, so the export it gives back may be old.                         *)
(***************************************************************************)
EXTENDS Integers, FiniteSets

CONSTANTS
    MeshNodes,   \* node ids
    Word,        \* number of machine addresses (2^32)
    BaseIP,      \* first address of baseNet
    SubnetSize,  \* 2^(32 - subnetBits)
    SubnetDiff   \* subnetBits minus the bits of baseNet

ASSUME MeshAssumption ==
    /\ {Word, SubnetSize, 2^SubnetDiff} \subseteq Nat \ {0}
    /\ {BaseIP, SubnetDiff} \subseteq Nat
    /\ "none" \notin MeshNodes
    /\ BaseIP + SubnetSize * 2^SubnetDiff <= Word

VARIABLES
    allocated,   \* subnet of a node, or NoSubnet
    used,        \* node of an index, or NoOwner
    exported,    \* the records last exported
    holds,       \* the subnet a node was given and still uses (external)
    stale        \* history: a restart gave back less or other than the table

meshVars == <<allocated, used, exported, holds, stale>>

MaxSubnetIndex == 2^SubnetDiff
Indexes == 0..(MaxSubnetIndex - 1)
NoSubnet == -1
NoOwner == "none"

SubnetForIndex(i) == (BaseIP + i * SubnetSize) % Word
IndexForSubnet(s) == ((s - BaseIP) % Word) \div SubnetSize

Subnets == {SubnetForIndex(i) : i \in Indexes}

Table == {<<n, allocated[n]>> : n \in {m \in MeshNodes : allocated[m] # NoSubnet}}

MeshInit ==
    /\ allocated = [n \in MeshNodes |-> NoSubnet]
    /\ used = [i \in Indexes |-> NoOwner]
    /\ exported = {}
    /\ holds = [n \in MeshNodes |-> NoSubnet]
    /\ stale = FALSE

-----------------------------------------------------------------------------
Free == {i \in Indexes : used[i] = NoOwner}

MutantAllocate(n) ==
    /\ \E i \in Free :
          /\ \A j \in Free : i <= j
          /\ used' = [used EXCEPT ![i] = n]
          /\ allocated' = [allocated EXCEPT ![n] = SubnetForIndex(i)]
          /\ holds' = [holds EXCEPT ![n] = SubnetForIndex(i)]
    /\ UNCHANGED <<exported, stale>>

(* The subnet the node has, or the first free one, or an error.            *)
Allocate(n) ==
    /\ \/ /\ allocated[n] # NoSubnet
          /\ holds' = [holds EXCEPT ![n] = allocated[n]]
          /\ UNCHANGED <<allocated, used>>
       \/ /\ allocated[n] = NoSubnet
          /\ \E i \in Free :
                /\ \A j \in Free : i <= j
                /\ used' = [used EXCEPT ![i] = n]
                /\ allocated' = [allocated EXCEPT ![n] = SubnetForIndex(i)]
                /\ holds' = [holds EXCEPT ![n] = SubnetForIndex(i)]
       \/ /\ allocated[n] = NoSubnet
          /\ Free = {}
          /\ UNCHANGED <<allocated, used, holds>>
    /\ UNCHANGED <<exported, stale>>

(* The node is gone, so it no longer uses what it was given.  The loop     *)
(* over used stops at the first index it finds.                            *)
Release(n) ==
    /\ allocated[n] # NoSubnet
    /\ \E i \in Indexes :
          /\ used[i] = n
          /\ used' = [used EXCEPT ![i] = NoOwner]
    /\ allocated' = [allocated EXCEPT ![n] = NoSubnet]
    /\ holds' = [holds EXCEPT ![n] = NoSubnet]
    /\ UNCHANGED <<exported, stale>>

ExportAllocations ==
    /\ exported' = Table
    /\ UNCHANGED <<allocated, used, holds, stale>>

Recorded(kept, n) == {r[2] : r \in {q \in kept : q[1] = n}}
Owners(kept, i) == {r[1] : r \in {q \in kept : IndexForSubnet(q[2]) = i}}

MutantImportAllocations(kept) ==
    /\ allocated' = [n \in MeshNodes |-> IF Recorded(kept, n) = {} THEN NoSubnet
                                         ELSE CHOOSE s \in Recorded(kept, n) : TRUE]
    /\ used' = [i \in Indexes |-> NoOwner]
    /\ stale' = (stale \/ kept # Table)
    /\ UNCHANGED <<exported, holds>>

(* The process restarts and imports into a new allocator, as the comment   *)
(* of ImportAllocations says.  A record that cannot be parsed ends the     *)
(* import with an error; kept are the records before it, in any order.     *)
ImportAllocations(kept) ==
    /\ allocated' = [n \in MeshNodes |-> IF Recorded(kept, n) = {} THEN NoSubnet
                                         ELSE CHOOSE s \in Recorded(kept, n) : TRUE]
    /\ used' = [i \in Indexes |-> IF Owners(kept, i) = {} THEN NoOwner
                                  ELSE CHOOSE n \in Owners(kept, i) : TRUE]
    /\ stale' = (stale \/ kept # Table)
    /\ UNCHANGED <<exported, holds>>

MeshNext ==
    \/ ExportAllocations
    \/ \E kept \in SUBSET exported : ImportAllocations(kept)
    \/ \E n \in MeshNodes : Allocate(n) \/ Release(n)

MeshSpec == MeshInit /\ [][MeshNext]_meshVars

-----------------------------------------------------------------------------
(* The two maps of the allocator are inverse to each other, also after an  *)
(* import, so that FreeCount and AllocatedCount (which count used) are     *)
(* right and a released subnet can be given out again.                     *)
MapsAgree ==
    /\ used \in [Indexes -> MeshNodes \cup {NoOwner}]
    /\ \A n \in MeshNodes, i \in Indexes :
          used[i] = n <=> allocated[n] = SubnetForIndex(i)
    /\ \A n \in MeshNodes : allocated[n] \in Subnets \cup {NoSubnet}

(* No two nodes use the same addresses, over releases and restarts, as     *)
(* long as every restart was given all of an up-to-date export.            *)
HeldOnce ==
    stale \/ \A m, n \in MeshNodes :
                holds[m] = holds[n] /\ holds[m] # NoSubnet => m = n

(* The tables are consistent and no address is in two hands.               *)
SubnetsSound == MapsAgree /\ HeldOnce

Leases == INSTANCE SubnetLeases
          WITH lease <- allocated, saved <- exported, LeaseNodes <- MeshNodes,
               LeaseSubnets <- Subnets, NoLease <- NoSubnet

(* The allocator implements the promise of SubnetLeases: every step of it  *)
(* leases a free subnet to a node without one, drops one, saves the table, *)
(* reloads from what was saved or leaves the table alone.                  *)
ImplementsLeases == Leases!LeaseSpec

=============================================================================
