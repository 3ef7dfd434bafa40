------------------------------ MODULE MCRoutes ------------------------------
(* CaddyRoutes for TLC, in two parts: the names of VMs, which two sessions *)
(* work on while nobody has a custom domain; and custom domains, which two *)
(* sessions work on while a third works on one VM after the other.         *)
EXTENDS CaddyRoutes, TLC

CONSTANTS
    MaxRoutes,   \* bound: routes in Caddy
    MaxTroubles  \* bound: failed calls and restarts together

VARIABLE part

Alike == Permutations(Sites) \cup Permutations(SiteNames) \cup Permutations(IPs)
         \cup Permutations(Owners) \cup Permutations(Shells)
         \cup Permutations(Verifiers) \cup Permutations(Tokens)

(* With domains: one user, one name, one address, one command on a VM.     *)
Hosts == {caddy[i].host : i \in DOMAIN caddy}
Dials == {caddy[i].up : i \in DOMAIN caddy}
NamesInUse == {siteName[s] : s \in Sites} \cup {job[c].to : c \in Shells} \cup Hosts \cup muddled
IPsInUse == {siteIP[s] : s \in Sites} \cup Dials

Small ==
    /\ Len(caddy) <= MaxRoutes
    /\ caddyFaults + reloads <= MaxTroubles
    /\ part = "domains" =>
          /\ AtMostOne({siteOwner[s] : s \in Sites})
          /\ AtMostOne(NamesInUse \cap SiteNames)
          /\ AtMostOne(IPsInUse \cap IPs)
          /\ AtMostOne({c \in Shells : Busy(c)})

(* muddled and proven only grow: once every name is muddled, or every      *)
(* domain is muddled and proven, nothing can be wrong with it any more.    *)
Open ==
    IF part = "names" THEN ~(SiteNames \subseteq muddled)
    ELSE \E d \in Domains : d \notin muddled \/ \A k \in Tokens : <<d, k>> \notin proven

RoutesInit ==
    /\ CaddyInit
    /\ part \in {"names", "domains"}
    /\ part = "domains" => caddy = <<>>
    /\ Small

RoutesNext ==
    /\ Open
    /\ \/ part = "names" /\ RouteNext
       \/ part = "domains" /\ CaddyNext
    /\ UNCHANGED part
    /\ Small'

RoutesSpec == RoutesInit /\ [][RoutesNext]_<<caddyVars, part>>
=============================================================================
