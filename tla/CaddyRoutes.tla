---------------------------- MODULE CaddyRoutes ----------------------------
(***************************************************************************)
(* What Caddy serves: the route manager of internal/proxy/caddy.go, the    *)
(* commands of the shell that add and remove routes, and the table         *)
(* custom_domains.                                                         *)
(*                                                                         *)
(* The manager calls Caddy under its lock, so a call is one step; a call   *)
(* may be refused, may not reach Caddy, or may be carried out although its *)
(* answer is lost.  A command is a session between its queries, its call   *)
(* of the VM manager and its calls of Caddy.  Booting and stopping a guest *)
(* are one step each: VMLifecycle has what is inside them.  The name of a  *)
(* VM is unique for its user only, and is all that Caddy knows of it.      *)
(***************************************************************************)
EXTENDS Integers, Sequences, SequencesExt

CONSTANTS
    Sites,          \* VMs, by row id
    Owners,         \* users
    SiteNames,      \* names a VM may have
    IPs,            \* addresses
    Domains,        \* custom domains
    Tokens,         \* verification tokens, each made once
    Shells,         \* sessions with a command on a VM
    Verifiers,      \* sessions with a cname command
    MaxCaddyFaults, \* bound: calls to Caddy that fail
    MaxReloads      \* bound: restarts of the server

ASSUME CaddyAssumption ==
    /\ MaxCaddyFaults \in Nat /\ MaxReloads \in Nat
    /\ "none" \notin SiteNames \cup IPs \cup Tokens \cup Sites \cup Domains
    /\ "any" \notin SiteNames \cup Domains
    /\ {"fresh", "gone"} \cap SiteNames = {}
    /\ SiteNames \cap Domains = {}    \* the server's own domain is no custom one

VARIABLES
    siteOwner,  \* vms.user_id
    siteName,   \* vms.name; "fresh" before the insert, "gone" after the delete
    siteIP,     \* vms.ip_address while the row says running, or "none"
    up,         \* VMs in the VM manager's map
    job,        \* a command on a VM under way
    routes,     \* Manager.routes: name -> address
    caddy,      \* routes of Caddy's srv0, in order of matching
    domain,     \* custom_domains
    txt,        \* TXT records of _ussycode-verify.<domain>
    made,       \* tokens made so far
    verifier,   \* a cname-verify or cname-rm under way
    caddyFaults, reloads,
    proven,     \* history: tokens found in the DNS, with their domain
    muddled     \* history: names and domains that something below may have
                \* left wrong: a failed call, a restart, two commands at one
                \* time, two VMs of one name, a VM deleted with its domain

caddyVars == <<siteOwner, siteName, siteIP, up, job, routes, caddy, domain, txt, made,
               verifier, caddyFaults, reloads, proven, muddled>>
siteVars == <<siteOwner, siteName, siteIP, up>>
proxyVars == <<routes, caddy, caddyFaults>>
cnameVars == <<domain, txt, made, verifier, proven>>

BaseRoute == [host |-> "any", up |-> "404"]
NoDomain == [site |-> "none", token |-> "none", verified |-> FALSE]
AtPrompt == [pc |-> "prompt", cmd |-> "none", site |-> "none", from |-> "none",
          to |-> "none", run |-> FALSE, addr |-> "none"]
NoVerifier == [pc |-> "prompt", site |-> "none", domain |-> "none", token |-> "none",
               name |-> "none", flag |-> FALSE]

(* EnsureBaseConfig has loaded the base configuration, or left Caddy's.    *)
CaddyInit ==
    /\ siteOwner \in [Sites -> Owners]
    /\ siteName = [s \in Sites |-> "fresh"]
    /\ siteIP = [s \in Sites |-> "none"]
    /\ up = {}
    /\ job = [c \in Shells |-> AtPrompt]
    /\ routes = [n \in SiteNames |-> "none"]
    /\ caddy \in {<<>>, <<BaseRoute>>}
    /\ domain = [d \in Domains |-> NoDomain]
    /\ txt = [d \in Domains |-> {}]
    /\ made = {}
    /\ verifier = [c \in Verifiers |-> NoVerifier]
    /\ caddyFaults = 0 /\ reloads = 0
    /\ proven = {} /\ muddled = {}

HasRow(s) == siteName[s] \in SiteNames
Dialled(q, h) == {i \in DOMAIN q : q[i].host = h}

(* UNIQUE(user_id, name): a name the user of s has for none of its VMs.    *)
Free(s, n) == \A t \in Sites : siteOwner[t] = siteOwner[s] => siteName[t] # n

(* DELETE /id/x takes away one route: ids are those of the last one made.  *)
Without(q, h) ==
    IF Dialled(q, h) = {} THEN q ELSE RemoveAt(q, Max(Dialled(q, h)))

(* A call changes Caddy unless it is refused or does not arrive, and is    *)
(* answered unless the answer is lost.  Failures are counted and noted.    *)
Outcomes == {"ok", "refused", "unreached", "lost"}
Applied(o) == o \in {"ok", "lost"}
Note(o, names) ==
    /\ o # "ok" => caddyFaults < MaxCaddyFaults
    /\ caddyFaults' = IF o = "ok" THEN caddyFaults ELSE caddyFaults + 1
    /\ muddled' = IF o = "ok" THEN muddled ELSE muddled \cup names

AddRoute(q, n, a, o) == IF Applied(o) THEN Append(q, [host |-> n, up |-> a]) ELSE q
RemoveRoute(q, n, o) == IF Applied(o) THEN Without(q, n) ELSE q
RoutesAdded(m, n, a, o) == IF o = "ok" THEN [m EXCEPT ![n] = a] ELSE m

(* A refused removal still drops the entry: only an error of the client    *)
(* returns early.                                                          *)
RoutesRemoved(m, n, o) == IF o \in {"ok", "refused"} THEN [m EXCEPT ![n] = "none"] ELSE m

-----------------------------------------------------------------------------
(* A command begins by looking its VM up by user and name; what it keeps   *)
(* is the id, the name as typed and whether the row said running.          *)

Busy(c) == job[c].pc # "prompt"
NamesOf(c) == {job[c].from, job[c].to} \ {"none"}
Rivals(s, N) == {e \in Shells : Busy(e) /\ (job[e].site = s \/ NamesOf(e) \cap N # {})}

Begin(c, s, cmd, l, from, to) ==
    /\ ~Busy(c)
    /\ job' = [job EXCEPT ![c] = [pc |-> l, cmd |-> cmd, site |-> s, from |-> from, to |-> to,
                                  run |-> siteIP[s] # "none", addr |-> "none"]]
    /\ LET N == {from, to}
           wrong == \/ Rivals(s, N) # {}
                    \/ \E t \in Sites \ {s} : siteName[t] \in N
                    \/ siteIP[s] # "none" /\ s \notin up
       IN muddled' = IF wrong THEN muddled \cup N \cup UNION {NamesOf(e) : e \in Rivals(s, N)}
                     ELSE muddled
    /\ UNCHANGED <<siteVars, proxyVars, cnameVars, reloads>>

(* The id is the insert's choice, so no two commands have one fresh id.    *)
CmdNew(c, s, n) ==
    /\ siteName[s] = "fresh" /\ \A e \in Shells : job[e].site # s
    /\ Free(s, n)
    /\ Begin(c, s, "new", "create", n, n)

CmdStart(c, s) ==
    /\ HasRow(s) /\ siteIP[s] = "none"
    /\ Begin(c, s, "start", "boot", siteName[s], siteName[s])

CmdStop(c, s) ==
    /\ HasRow(s) /\ siteIP[s] # "none"
    /\ Begin(c, s, "stop", "drop", siteName[s], siteName[s])

CmdRestart(c, s) == HasRow(s) /\ Begin(c, s, "restart", "drop", siteName[s], siteName[s])

CmdRm(c, s) == HasRow(s) /\ Begin(c, s, "rm", "drop", siteName[s], siteName[s])

CmdRename(c, s, n) ==
    /\ HasRow(s) /\ Free(s, n)
    /\ Begin(c, s, "rename", "rename", siteName[s], n)

Go(c, l) == job' = [job EXCEPT ![c].pc = l]
End(c) == job' = [job EXCEPT ![c] = AtPrompt]

(* INSERT: the constraint decides, not the look before it.                 *)
NewRow(c) ==
    /\ job[c].pc = "create"
    /\ IF Free(job[c].site, job[c].to)
       THEN Go(c, "boot") /\ siteName' = [siteName EXCEPT ![job[c].site] = job[c].to]
       ELSE End(c) /\ UNCHANGED siteName
    /\ UNCHANGED <<siteOwner, siteIP, up, proxyVars, cnameVars, reloads, muddled>>

MutantRenameRow(c) ==
    /\ job[c].pc = "rename"
    /\ LET s == job[c].site n == job[c].to IN
          /\ siteName' = IF HasRow(s) /\ Free(s, n) THEN [siteName EXCEPT ![s] = n] ELSE siteName
          /\ IF job[c].run /\ (Free(s, n) \/ ~HasRow(s)) THEN Go(c, "find") ELSE End(c)
    /\ UNCHANGED <<siteOwner, siteIP, up, proxyVars, cnameVars, reloads, muddled>>

(* UPDATE: of no row, if it was deleted meanwhile; refused, if the name    *)
(* was taken.  Routes move if the row said running when it was looked up.  *)
RenameRow(c) ==
    /\ job[c].pc = "rename"
    /\ LET s == job[c].site n == job[c].to IN
          /\ siteName' = IF HasRow(s) /\ Free(s, n) THEN [siteName EXCEPT ![s] = n] ELSE siteName
          /\ IF job[c].run /\ (Free(s, n) \/ ~HasRow(s)) THEN Go(c, "drop") ELSE End(c)
    /\ UNCHANGED <<siteOwner, siteIP, up, proxyVars, cnameVars, reloads, muddled>>

(* removeProxyRoute, by the name the command began with. *)
AfterDrop(k) ==
    CASE k.cmd = "stop" -> "halt"
      [] k.cmd = "restart" -> IF k.run THEN "halt" ELSE "boot"
      [] k.cmd = "rm" -> "delete"
      [] OTHER -> "find"

DropRoute(c, o) ==
    /\ job[c].pc = "drop"
    /\ caddy' = RemoveRoute(caddy, job[c].from, o)
    /\ routes' = RoutesRemoved(routes, job[c].from, o)
    /\ Note(o, {job[c].from})
    /\ Go(c, AfterDrop(job[c]))
    /\ UNCHANGED <<siteVars, cnameVars, reloads>>

(* VM.Stop: an error, and the end of the command, for a VM not in the map. *)
HaltVM(c) ==
    /\ job[c].pc = "halt"
    /\ LET s == job[c].site IN
          IF s \in up
          THEN /\ siteIP' = [siteIP EXCEPT ![s] = "none"] /\ up' = up \ {s}
               /\ IF job[c].cmd = "stop" THEN End(c) ELSE Go(c, "boot")
          ELSE End(c) /\ UNCHANGED <<siteIP, up>>
    /\ UNCHANGED <<siteOwner, siteName, proxyVars, cnameVars, reloads, muddled>>

(* VM.Start: the tap of a VM in the map excludes a second guest.  A failed *)
(* start leaves the row in error.                                          *)
BootVM(c, a) ==
    /\ job[c].pc = "boot"
    /\ LET s == job[c].site IN
          /\ s \notin up /\ \A t \in up : siteIP[t] # a
          /\ siteIP' = IF HasRow(s) THEN [siteIP EXCEPT ![s] = a] ELSE siteIP
          /\ up' = up \cup {s}
    /\ Go(c, "find")
    /\ UNCHANGED <<siteOwner, siteName, proxyVars, cnameVars, reloads, muddled>>

BootFails(c) ==
    /\ job[c].pc = "boot"
    /\ siteIP' = [siteIP EXCEPT ![job[c].site] = "none"]
    /\ End(c)
    /\ UNCHANGED <<siteOwner, siteName, up, proxyVars, cnameVars, reloads, muddled>>

(* addProxyRoute: the address from the row, then the call.                 *)
FindAddress(c) ==
    /\ job[c].pc = "find"
    /\ LET a == siteIP[job[c].site] IN
          IF a = "none" THEN End(c)
          ELSE job' = [job EXCEPT ![c].pc = "add", ![c].addr = a]
    /\ UNCHANGED <<siteVars, proxyVars, cnameVars, reloads, muddled>>

AddVMRoute(c, o) ==
    /\ job[c].pc = "add"
    /\ caddy' = AddRoute(caddy, job[c].to, job[c].addr, o)
    /\ routes' = RoutesAdded(routes, job[c].to, job[c].addr, o)
    /\ Note(o, {job[c].to})
    /\ End(c)
    /\ UNCHANGED <<siteVars, cnameVars, reloads>>

(* Destroy: the rows of custom_domains go with the VM's, ON DELETE CASCADE. *)
(* Their routes do not.                                                    *)
DestroyVM(c) ==
    /\ job[c].pc = "delete"
    /\ LET s == job[c].site
           theirs == {d \in Domains : domain[d].site = s}
       IN /\ siteName' = [siteName EXCEPT ![s] = "gone"]
          /\ siteIP' = [siteIP EXCEPT ![s] = "none"] /\ up' = up \ {s}
          /\ domain' = [d \in Domains |-> IF d \in theirs THEN NoDomain ELSE domain[d]]
          /\ muddled' = muddled \cup {d \in theirs : \/ domain[d].verified
                                                     \/ \E e \in Verifiers : verifier[e].domain = d}
    /\ End(c)
    /\ UNCHANGED <<siteOwner, proxyVars, txt, made, verifier, proven, reloads>>

-----------------------------------------------------------------------------
(* share cname: the token goes to the user, who may put it into the DNS.   *)
CreateCustomDomain(d, s, k) ==
    /\ domain[d] = NoDomain /\ k \notin made /\ HasRow(s)
    /\ domain' = [domain EXCEPT ![d] = [site |-> s, token |-> k, verified |-> FALSE]]
    /\ made' = made \cup {k}
    /\ UNCHANGED <<siteVars, job, routes, caddy, txt, verifier, caddyFaults, reloads, proven, muddled>>

PublishTXT(d, k) ==
    /\ k \in made
    /\ txt' = [txt EXCEPT ![d] = @ \cup {k}]
    /\ UNCHANGED <<siteVars, job, routes, caddy, domain, made, verifier, caddyFaults, reloads, proven, muddled>>

(* A command begins by reading the domain's row.  flag is what the command *)
(* remembers of it: whether the VM runs, or whether the row is verified.   *)
BeginCname(c, d, l, flag) ==
    /\ verifier[c].pc = "prompt"
    /\ domain[d] # NoDomain
    /\ verifier' = [verifier EXCEPT ![c] =
                      [pc |-> l, site |-> domain[d].site, domain |-> d, token |-> domain[d].token,
                       name |-> siteName[domain[d].site], flag |-> flag]]
    /\ muddled' = IF \E e \in Verifiers : verifier[e].domain = d THEN muddled \cup {d} ELSE muddled
    /\ UNCHANGED <<siteVars, job, routes, caddy, domain, txt, made, caddyFaults, reloads, proven>>

BeginCnameVerify(c, d) ==
    /\ ~domain[d].verified
    /\ BeginCname(c, d, "dns", domain[d] # NoDomain /\ siteIP[domain[d].site] # "none")

BeginCnameRm(c, d) == BeginCname(c, d, IF domain[d].verified THEN "unroute" ELSE "delete", FALSE)

MutantLookupTXT(c) ==
    /\ verifier[c].pc = "dns"
    /\ LET d == verifier[c].domain k == verifier[c].token
           found == txt[d] # {}
       IN /\ verifier' = [verifier EXCEPT ![c] = IF found THEN [@ EXCEPT !.pc = "mark"] ELSE NoVerifier]
          /\ proven' = IF k \in txt[d] THEN proven \cup {<<d, k>>} ELSE proven
    /\ UNCHANGED <<siteVars, job, routes, caddy, domain, txt, made, caddyFaults, reloads, muddled>>

LookupTXT(c) ==
    /\ verifier[c].pc = "dns"
    /\ LET d == verifier[c].domain k == verifier[c].token
           found == k \in txt[d]
       IN /\ verifier' = [verifier EXCEPT ![c] = IF found THEN [@ EXCEPT !.pc = "mark"] ELSE NoVerifier]
          /\ proven' = IF found THEN proven \cup {<<d, k>>} ELSE proven
    /\ UNCHANGED <<siteVars, job, routes, caddy, domain, txt, made, caddyFaults, reloads, muddled>>

(* UPDATE ... WHERE domain = ?: whichever row has the domain by now.       *)
VerifyCustomDomain(c) ==
    /\ verifier[c].pc = "mark"
    /\ LET d == verifier[c].domain IN
          domain' = IF domain[d] = NoDomain THEN domain
                    ELSE [domain EXCEPT ![d].verified = TRUE]
    /\ verifier' = [verifier EXCEPT ![c] = IF verifier[c].flag THEN [@ EXCEPT !.pc = "route"]
                                           ELSE NoVerifier]
    /\ UNCHANGED <<siteVars, job, routes, caddy, txt, made, caddyFaults, reloads, proven, muddled>>

(* The address is looked up by the VM's name as it was typed.              *)
AddCustomDomain(c, o) ==
    /\ verifier[c].pc = "route"
    /\ LET d == verifier[c].domain n == verifier[c].name IN
          IF routes[n] = "none"
          THEN o = "ok" /\ UNCHANGED <<caddy, caddyFaults, muddled>>
          ELSE caddy' = AddRoute(caddy, d, routes[n], o) /\ Note(o, {d})
    /\ verifier' = [verifier EXCEPT ![c] = NoVerifier]
    /\ UNCHANGED <<siteVars, job, routes, domain, txt, made, reloads, proven>>

RemoveCustomDomain(c, o) ==
    /\ verifier[c].pc = "unroute"
    /\ caddy' = RemoveRoute(caddy, verifier[c].domain, o)
    /\ Note(o, {verifier[c].domain})
    /\ verifier' = [verifier EXCEPT ![c].pc = "delete"]
    /\ UNCHANGED <<siteVars, job, routes, domain, txt, made, reloads, proven>>

DeleteCustomDomain(c) ==
    /\ verifier[c].pc = "delete"
    /\ domain' = [domain EXCEPT ![verifier[c].domain] = NoDomain]
    /\ verifier' = [verifier EXCEPT ![c] = NoVerifier]
    /\ UNCHANGED <<siteVars, job, routes, caddy, txt, made, caddyFaults, reloads, proven, muddled>>

-----------------------------------------------------------------------------
(* The server starts again: the maps are empty, Caddy keeps its routes     *)
(* unless EnsureBaseConfig replaces its whole configuration.  Rows stay;   *)
(* a shutdown that had time has stopped the guests of some, or all.        *)
ReloadServer(load, stopped) ==
    /\ reloads < MaxReloads
    /\ reloads' = reloads + 1
    /\ stopped \subseteq up
    /\ siteIP' = [s \in Sites |-> IF s \in stopped THEN "none" ELSE siteIP[s]]
    /\ up' = {}
    /\ routes' = [n \in SiteNames |-> "none"]
    /\ caddy' = IF load THEN <<BaseRoute>> ELSE caddy
    /\ job' = [c \in Shells |-> AtPrompt]
    /\ verifier' = [c \in Verifiers |-> NoVerifier]
    /\ muddled' = muddled \cup {siteName[s] : s \in {t \in Sites : siteIP[t] # "none"}}
                          \cup {caddy[i].host : i \in DOMAIN caddy}
                          \cup {verifier[c].domain : c \in Verifiers}
                          \cup UNION {NamesOf(c) : c \in Shells}
    /\ UNCHANGED <<siteOwner, siteName, domain, txt, made, caddyFaults, proven>>

BeginNext ==
    \E c \in Shells, s \in Sites :
        \/ CmdStart(c, s) \/ CmdStop(c, s) \/ CmdRestart(c, s) \/ CmdRm(c, s)
        \/ \E n \in SiteNames : CmdNew(c, s, n) \/ CmdRename(c, s, n)

ShellStep(c) ==
    \/ NewRow(c) \/ RenameRow(c) \/ HaltVM(c) \/ BootFails(c) \/ FindAddress(c) \/ DestroyVM(c)
    \/ \E a \in IPs : BootVM(c, a)
    \/ \E o \in Outcomes : DropRoute(c, o) \/ AddVMRoute(c, o)

SiteNext == BeginNext \/ \E c \in Shells : ShellStep(c)

CnameNext ==
    \/ \E d \in Domains, k \in Tokens :
          PublishTXT(d, k) \/ \E s \in Sites : CreateCustomDomain(d, s, k)
    \/ \E c \in Verifiers :
          \/ \E d \in Domains : BeginCnameVerify(c, d) \/ BeginCnameRm(c, d)
          \/ LookupTXT(c) \/ VerifyCustomDomain(c) \/ DeleteCustomDomain(c)
          \/ \E o \in Outcomes : AddCustomDomain(c, o) \/ RemoveCustomDomain(c, o)

RouteNext ==
    \/ SiteNext
    \/ \E load \in BOOLEAN, stopped \in SUBSET up : ReloadServer(load, stopped)

CaddyNext == RouteNext \/ CnameNext

CaddySpec == CaddyInit /\ [][CaddyNext]_caddyVars

-----------------------------------------------------------------------------
AtMostOne(S) == \A i, j \in S : i = j
DialsOf(h) == {caddy[i].up : i \in Dialled(caddy, h)}
UpUnder(n) == {siteIP[s] : s \in {t \in Sites : siteName[t] = n}} \ {"none"}
Touched(n) == \E c \in Shells : n \in NamesOf(c)

(* For every name that none of the causes of muddled was met for: Caddy    *)
(* has at most one route for it, and when no command on it is under way    *)
(* this dials the machine of the running VM that has the name now, and     *)
(* nothing else, and the manager's map says the same: after any creations, *)
(* starts, stops, renames to and fro and deletions, with commands on other *)
(* names between any two of their steps.                                   *)
RoutesFollowVMs ==
    \A n \in SiteNames \ muddled :
        /\ AtMostOne(Dialled(caddy, n))
        /\ ~Touched(n) => DialsOf(n) = UpUnder(n) /\ {routes[n]} \ {"none"} = UpUnder(n)

(* Whatever overlaps or fails, a domain is verified, and Caddy has a route *)
(* for it, only after a token made for it was found in the DNS.  And for   *)
(* every domain whose commands never overlapped and never failed, and      *)
(* whose VM was not deleted under it: that token was the row's own, Caddy  *)
(* has at most one route for it, and none unless it is verified.           *)
DomainsProven ==
    /\ \A d \in Domains : domain[d].verified \/ Dialled(caddy, d) # {} =>
          \E k \in Tokens : <<d, k>> \in proven
    /\ \A d \in Domains \ muddled :
          /\ domain[d].verified => <<d, domain[d].token>> \in proven
          /\ AtMostOne(Dialled(caddy, d))
          /\ ~domain[d].verified => Dialled(caddy, d) = {}

-----------------------------------------------------------------------------
(* What the documentation says, and the code does not keep. *)

Quiet == (\A c \in Shells : ~Busy(c)) /\ \A c \in Verifiers : verifier[c].pc = "prompt"

(* README: "automatically proxies each VM's port 8080 to its public        *)
(* subdomain": a VM that runs is what its name leads to.  Two users may    *)
(* each have a VM of one name.                                             *)
EachVMHasItsSubdomain ==
    Quiet => \A s \in Sites : siteIP[s] # "none" => DialsOf(siteName[s]) = {siteIP[s]}

(* architecture.md: a destroyed VM has "all resources (disk, network,      *)
(* Caddy route) cleaned up": no route is left for a domain without a row.  *)
DestroyedIsUnrouted ==
    Quiet => \A d \in Domains : domain[d] = NoDomain => Dialled(caddy, d) = {}

(* self-hosting.md: "verifies ownership via a TXT record": a domain that   *)
(* is verified has had its own token in the DNS.                           *)
OwnershipVerified ==
    \A d \in Domains : domain[d].verified => <<d, domain[d].token>> \in proven

=============================================================================
