---------------------------- MODULE SubnetLeases ----------------------------
(***************************************************************************)
(* What the mesh allocator promises: a node has at most one subnet, a node *)
(* that asks gets one no other node has, a node that asks again keeps it,  *)
(* and only a release or a reload of the saved table takes it away.        *)
(***************************************************************************)
CONSTANTS LeaseNodes, LeaseSubnets, NoLease

VARIABLES
    lease,   \* the subnet of a node, or NoLease
    saved    \* the leases at some earlier time, as a set of pairs

Pairs == {<<n, lease[n]>> : n \in {m \in LeaseNodes : lease[m] # NoLease}}

LeaseInit ==
    /\ lease = [n \in LeaseNodes |-> NoLease]
    /\ saved = {}

Grant(n) ==
    /\ lease[n] = NoLease
    /\ \E s \in LeaseSubnets :
          /\ \A m \in LeaseNodes : lease[m] # s
          /\ lease' = [lease EXCEPT ![n] = s]
    /\ UNCHANGED saved

Drop(n) ==
    /\ lease' = [lease EXCEPT ![n] = NoLease]
    /\ UNCHANGED saved

Save ==
    /\ saved' = Pairs
    /\ UNCHANGED lease

(* A reload may fail after some of the saved leases. *)
Reload ==
    /\ \E kept \in SUBSET saved : \A n \in LeaseNodes :
          \/ <<n, lease'[n]>> \in kept
          \/ lease'[n] = NoLease /\ \A r \in kept : r[1] # n
    /\ DOMAIN lease' = LeaseNodes
    /\ UNCHANGED saved

LeaseNext == Save \/ Reload \/ \E n \in LeaseNodes : Grant(n) \/ Drop(n)

LeaseSpec == LeaseInit /\ [][LeaseNext]_<<lease, saved>>

=============================================================================
