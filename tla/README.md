# A TLA+ verification project for ussycode

ussycode is a server that gives its users Firecracker microVMs over SSH.  Every
SSH session is a goroutine that runs shell commands (`new`, `start`, `stop`,
`restart`, `cp`, `rm`, ...) against a VM manager, an SQLite database, a metadata
service, a Caddy reverse proxy and the host's network devices.  The server holds
most of its state twice or three times over (a row, an entry of a map, a device
of the kernel, a process) and nothing but the order of steps keeps the copies
together.  That order, under concurrent sessions, failing steps and crashes, is
what this project models.

## Inventory

| Component | State | Operations | Hard parts | Correct means |
|---|---|---|---|---|
| VM manager, `internal/vm/manager.go` | `running` map under a mutex | CreateAndStart, Start, Stop, Destroy, ShutdownAll, CloneDisks | no lock per VM; each operation is many steps | one process per VM, nothing leaked, rows tell the truth |
| Network manager, `internal/vm/network.go` | address counter, allocation map, tap devices of the kernel | AllocateNetwork, ReleaseNetwork, SetupBridge | counter never goes back; taps outlive the server | no address twice, exhaustion fails cleanly |
| Firewall, `internal/vm/nftables.go` | rules of the nft table | SetupNAT, AddVMRules, RemoveVMRules | SetupNAT reloads the whole table on every start; handles go stale | a VM's rules live as long as its guest |
| Firecracker backend, `internal/vm/firecracker.go` | processes | StartVM, StopVM | a guest may exit, or ignore the shutdown | stop ends the process |
| Image cache, `internal/vm/image.go` | ext4 images, docker tarballs | EnsureRootfs | crash in the middle of a build, a partial tarball | what is cached is complete |
| Shell commands, `internal/ssh/commands.go`, `shell.go` | locals of a goroutine | about 30 commands | check in one transaction, use in another | quota, last key, unique domains |
| Database, `internal/db` | SQLite tables | one transaction per query; writers serialised by a mutex | upserts, missing UNIQUE constraints | constraints hold over sequences of queries |
| Metadata service, `internal/gateway/metadata.go` | map from address to VM | RegisterVM, UnregisterVM, lookups by source address | addresses come back after a restart | a guest sees its own entry |
| Proxy manager, `internal/proxy/caddy.go` | map of routes, list of routes in Caddy | AddRoute, RemoveRoute, custom domains | map and Caddy drift apart; a name is unique per user only | routes follow the VM |
| Auth proxy, `internal/proxy/auth.go` | none (reads shares) | decide | order of the checks | only owner, shares, links and public VMs |
| LLM gateway, `internal/gateway/llm.go` | providers with one reverse proxy each, token buckets | Proxy, SetUserKey | the Director of the shared proxy is replaced per request | a request carries its own user's key |
| Mail, `internal/gateway/email*.go` | connection count, counters per VM, maildirs | SMTP session, send | limits under concurrent connections | limits hold, quota of a maildir holds |
| API, `internal/api` | token buckets | exec, authenticate | clean-up loop against requests | rate holds, revoked tokens are refused |
| Accounts, `internal/ssh/gateway.go`, `register.go`, `browser.go` | users, keys, tokens | registration, keys, magic links | user and key in two transactions | a key names one user, nobody is locked out |
| Admin panel, `internal/admin` | session store | login, logout, trust levels | expiry | one-time links, expired sessions refused |
| Arena, `internal/ssh/arena.go` | matches, participants, ratings | create, join, rate | count, insert and start in three transactions | a full match starts, none is over-full |
| Control plane, `internal/controlplane/nodemanager.go` | nodes, pending commands | RegisterNode, RemoveNode, ProcessHeartbeat, EnqueueCommand, CheckTimeouts | lost heartbeat answers, callbacks under the lock | a command is delivered once, a dead node is found |
| Scheduler, `internal/scheduler/scheduler.go` | nodes | Schedule, DrainNode | boundary values of the filters | the best fitting node |
| Mesh allocator, `internal/mesh/allocator.go` | subnets, used indexes | Allocate, Release, Export, Import | import of what is already there | disjoint subnets, the count is right |
| Node agent, `internal/agent` | state file, heartbeat stream | Join, Start, heartbeat loop | receiver and sender of one stream | reconnects, stops when told |
| WireGuard stub, ZFS, PKI, `internal/auth`, tutorial, configuration, telemetry | little or none | | sequential, unused, or wrappers of libraries | not modelled |

How they interact: a command looks a VM up in the database, calls the manager,
which calls the network manager, the firewall and the Firecracker backend and
writes the row's status along the way; afterwards the command reads the row again
and updates the metadata service and the proxy.  `main` stops all VMs on a
signal while the sessions are still alive.

`PROJECT.json` lists the hazards of this code, each at its line, with the
properties aimed at it.

## Modules

| Module | Models |
|---|---|
| `NetworkManager` | tap devices and guest addresses |
| `VMLifecycle` | the VM commands, the manager, the `vms` table, registry, route map, shutdown, crashes; extends `NetworkManager` |
| `VMPower` | abstract specification: what the manager promises of one VM |
| `MCVMLifecycle` | instances for TLC, one `.cfg` per question |
| `Firewall` | the rules of the nft table, one nft command per step |
| `ImageCache` | EnsureRootfs and the copy a VM gets |
| `Accounts` | authentication by key, registration, the `ssh-key` commands |
| `AdminPanel` | magic links, sessions of the panel, trust levels |
| `ApiExec` | `POST /exec`: tokens, revocation, the rate limiter and its clean-up |
| `Arena` | creating, joining and starting matches |
| `LLMGateway` | requests of guests to LLM providers, the `llm-key` commands |
| `Mail` | the SMTP server and its Maildirs, the sender |
| `WebAccess` | the share commands and the auth proxy |
| `CaddyRoutes` | the proxy manager and what Caddy serves; the commands that add and remove routes, custom domains |
| `MCRoutes` | `CaddyRoutes` for TLC: names, and custom domains |
| `MCPlatform` | the modules from `Firewall` to `WebAccess`, as parts of one instance |
| `NodeManager` | the control plane's table of nodes |
| `NodeAgent` | join, Start and the heartbeat loop of the agent; extends `NodeManager`, composing the two |
| `MeshAllocator` | the allocator of mesh subnets |
| `SubnetLeases` | abstract specification: what the allocator promises |
| `Scheduler` | filter, scores, PlaceVM, DrainNode |
| `MCCluster` | `NodeAgent`, `MeshAllocator` and `Scheduler` as parts of one instance |
| `VMLifecycleProofs` | the type invariant of `VMLifecycle` |
| `VMOwnershipProofs` | the tap is the VM's lock, and what follows |
| `VMPowerProofs` | `VMLifecycle` implements `VMPower` |
| `VMResourceProofs` | leaks, rows, tracked guests, metadata; the quota and the agreement of all parts with one session at a time |
| `ClusterProofs` | `NodeManager` with `NodeAgent`; `MeshAllocator`, which implements `SubnetLeases`; `Scheduler` |
| `AccessProofs` | `AdminPanel`, `WebAccess`, `Accounts`, `ApiExec`, `CaddyRoutes` |
| `PlatformProofs` | `Firewall`, `ImageCache`, `LLMGateway`, `Mail`, `Arena` |
| `NaturalsLemmas` | least and greatest elements, products and quotients of natural numbers |

`MCPlatform` and `MCCluster` run modules that share no variable.  A variable
`part`, chosen at the start, says which one moves; the others stay in one initial
state, so the state space is the sum of the parts' and not their product, and a
property of one part is checked over all behaviours of that part.

### VMLifecycle and the code

`proc[p]` is a goroutine: its program counter and the locals that live across
steps (the VM it works on, the address it was given or has read, the status its
lookup returned, the source of a copy).  A step is one critical section, one
transaction or one external command, since anything may happen between two of
those: `TakeRunning` is the locked part of `Manager.Stop`, `StopVM` the call of
the backend, `ReleaseNet` the release of the tap, `MarkStopped` the last write.
The error returns of a step are disjuncts of its action; the clean-up they run is
part of the path (`UndoNetwork`, `MarkError`).

| Variable | In the code |
|---|---|
| `status`, `rowIP`, `lastID` | `vms.status`, `vms.ip_address`, AUTOINCREMENT |
| `rootfs`, `data` | the two disk files of a VM |
| `running` | `Manager.running` |
| `taps`, `nextIP`, `allocated` | devices of the kernel, `NetworkManager.nextIP`, `.allocated` |
| `machines` | Firecracker processes, with the server lifetime (`epoch`) they were started in |
| `meta`, `routes` | `gateway.Server.vms`, `proxy.Manager.routes` |
| `todo`, `deadline` | the loop and the 30 s context of ShutdownAll |

`Faults` names the external operations that may fail in an instance (`boot`,
`tap`, `tapdel`, `image`, ...), so that a property may state under which failures
it holds.  `Crash` ends the server anywhere: maps and counters are lost, rows,
disks and taps stay, each process may survive.  `HostReboots` loses taps and
processes too.

Abstractions: all VMs belong to one user; a VM is its row id (names are unique
per user and ids are never used again); the content of disks, images and
messages is left out; a tap name is injective in the id (true below 10^8, where
`AllocateNetwork` truncates).  Database errors are not modelled, with one
exception: the context of ShutdownAll may have expired.  `SetupBridge`,
`AddVMRules` and `RemoveVMRules` are steps that may fail; what they do to the
rules is `Firewall`.  A data disk that cannot be made may leave its file behind
(createEmptyExt4 removes it after a failed mkfs only).

### Firewall and the code

`chain` is the forward chain, a rule being its handle and the VM its comment
names; `table` and `handle` are nft's own state (external: handles start again
when a table is deleted).  `proc` is a session inside SetupNAT, AddVMRules or
RemoveVMRules, `handles` what parseNftHandles returned and is not yet deleted.
`guest` abstracts `VMLifecycle` to what the proofs below show of it: one start or
stop of a VM at a time, with the tap as the lock.  `marred` is a history
variable, the VMs for which something failed since the last reload.

### The other parts of the server

In all of them a step is one query, one critical section, one file operation or
one command to another program; a goroutine is a record with its program counter
and the locals that live across steps.  History variables are named as such where
they are declared; no guard reads one.

* **ImageCache.**  `build[b]` is a call of EnsureRootfs, under the one lock from
  start to end; `tars`, `tmps` and `ext4s` are files, each absent, partial or all
  of one image; `docker` and `registry` are what the references name (external).
  A crash leaves the files as they are.  `disks` is the copy CreateAndStart takes.
* **Accounts.**  `users`, `owner` are the tables; `conn[c]` a connection.  Registration
  is three transactions (handle free, create, add the key), removing a key is
  three (owned, count, delete).  The allow list and the routussy lookup are the
  two ways past publicKeyHandler.  `excused` records the accounts for which the
  known windows (below) were hit.
* **AdminPanel.**  `magic`, `trust` are rows, `sess` the session map, `clock` the
  time.  Redeeming a link is one transaction; the session is made afterwards
  from what it read.  A restart empties `sess`.  `CleanExpiredMagicTokens` and
  trust changes by hand stand for what an operator does in the database: the
  function has no caller in the program.
* **ApiExec.**  `req[r]` is a request between its checks, in the order of
  handler.go.  A stateless token (usy0) has a first and a last moment; of a short
  one (usy1) only the last is looked at, and 0 stands for none: `Begun` and
  `Unexpired` say it as the two functions do.  A bucket counts units; the map names one of two slots per
  fingerprint, because a request may hold a bucket that cleanupLoop has dropped.
* **Arena.**  `joined` and `status` are the two tables, `term[t]` a join with the
  count it read.
* **LLMGateway.**  `director[p]` is the field of the provider's one ReverseProxy.
  A key is a record of whose it is; `stored` holds what was encrypted and under
  which secret, so a changed secret makes decryption fail.  Each request records
  the keys its user had while it was under way (`may`).
* **Mail.**  `mailer[c]` is an SMTP connection with its envelope, `newDir` and
  `tmpDir` the files of a VM; a message is its file's number, its recipients and
  whether it is whole.  `sender[s]` is a send request; the hourly counters start
  again at the hour.
* **WebAccess.**  `visit[b]` is a request of the auth proxy between its reads,
  against share commands that are one step each.  VMByName takes any of the rows
  that have the name.
* **CaddyRoutes.**  `caddy` is the list Caddy serves, `routes` the manager's map;
  each call is done, refused, lost, or done with its answer lost.  `job[c]` is a
  `new`, `start`, `stop`, `restart`, `rm` or `rename` between its lookup, its
  writes, its call of the VM manager and its calls of Caddy, with the name and
  the status it read at first; `verifier[c]` a `share cname` command likewise.
  A name is unique among the VMs of one user, and is all that the routes know
  of a VM.  Deleting a VM deletes the rows of its domains, and not their routes.
  `muddled` are the names and domains for which one of these happened: a call
  failed, the server restarted, two commands were under way at one time, two VMs
  had or asked for the name, a VM was deleted under its verified domain.

### The cluster

`NodeManager` has one step per method, since every method holds the lock, and one
step per callback of CheckTimeouts.  The age of a last heartbeat is counted up to
one past the last threshold (`MaxAge`): all later ages are treated alike.

`NodeAgent` has what the program runs, and what is written for it to run.  `Start`,
which `ussyverse-agent run` calls, waits for its context and does nothing else;
heartbeatLoop is called by nothing, and no code sets the agent's client.  The
constants say which of these an instance has: `Calls`, Start or heartbeatLoop or
both, and `Clients`, whether there is a client; without one the loop only logs
(`Standalone`).  With one it is the loop as written: sender, one receiver per stream,
backoff, cancellation, and a stream that breaks at any point, after which requests
already sent may still be processed and their answers lost.  The transport is
external (nothing in the repository serves it yet).  What is checked of the
loop, `HandledInOrder` and `Delivered`, is thus about code that waits to be
called; `AgentStart.cfg` below is about the program as it is.

`MeshAllocator` keeps the width of the address arithmetic (`Word`), and
restarts from an export that may be old, of which an import that meets a subnet it cannot
parse has taken any part.  An import into an allocator already in use is left out: nothing
in the repository does it, and the code's comment has it run on startup.  `Scheduler` states the scores exactly
as multiples of 1/`Scale`; placements overlap and reserve nothing.

## Runs

| Run | Instance | Shows |
|---|---|---|
| `sequential` | 1 session, 3 ids, quota 2, all commands, all start failures | between commands row, map, registry, routes and disks agree; quota; no image edited under a live guest |
| `concurrent` | 2 sessions, 2 VMs, 2 addresses, boot failures | no leak at rest, addresses unique, metadata own, running rows backed, deleted rows stay deleted |
| `crash` | 2 sessions, 1 VM, 2 crashes or reboots, guests that exit, taps that stay | one process per VM, the tap is the lock, every step is a move of `VMPower` |
| `liveness` | 2 sessions and main, 1 VM, fairness | commands return unless their own guest refuses to stop, `creating` is transient, shutdown ends |
| `platform` | see below | each part of the server keeps its promise |
| `routes` | names: 2 VMs of 1 or 2 users, 2 names, 2 sessions; domains: 1 domain, 2 tokens, 2 sessions, a third that works on the VMs; 1 failed call or restart | `RoutesFollowVMs`: a name that is not muddled leads to the VM that runs under it, by one route; `DomainsProven`: what is verified or served had a token of its own in the DNS, and if not muddled the token of its row, and one route at most |
| `cluster` | 1 node with agent and joins, 3 nodes over 2 subnets, 2 requests over 2 nodes | heartbeats, subnets, placements |
| `nat_reload` | 1 session, 2 VMs | finding: the reload of a second start drops the rules of a guest that is up |
| `llm_key` | 2 users, 2 requests at one provider | finding: overlapping requests swap keys |
| `admin_demoted` | 2 people, 1 link | finding: a demoted user keeps the panel |
| `routes_same_name` | 2 users, 1 name, 1 session, no failure | finding: two VMs of one name, and Caddy serves the first |
| `routes_destroyed` | 1 VM, 1 domain, no failure | finding: the route of a domain outlives the VM and the domain's row |

What `platform` shows of each part:

| Part | Instance | Property |
|---|---|---|
| firewall | 2 sessions, VMs 1 and 10 (the comment of one is part of the other's), nft and boots may fail | `NoStrayRules`: rules outlive a guest only after a failure; `BaseRulesInPlace`: stale handles never remove the base rules |
| images | 2 calls, 2 references, 2 candidates, a push, a crash | `DisksAreWhole`: a VM gets all of an image its reference named |
| accounts | 2 connections, 2 keys, 2 handles, a restart | `NobodyLockedOut`: outside three named windows every account has a key |
| admin | 2 people, 2 browsers, 1 link, a restart | `RedeemedOnce`; `AuthorityExpires`: authority outlives a trust level by at most a session |
| api | 2 requests, a token of each kind, 4 ticks | `RunsOnlyGoodTokens`; `NoExtraRequests`: dropping idle buckets hands out nothing extra, but for a bucket that came into use while being dropped |
| arena | 3 sessions, 1 match of 2, or of 4 cut to the scenario's 3, a crash | `StartsWhenFull`: a running match is full; without overlap or crash a full one starts |
| llm | 2 requests, 2 users, a key provider and a self-hosted one, secret set, unset or changed | `KeysKept`: no key reaches another provider; alone, a request carries its own user's current key |
| smtp, relay | 2 connections and 2 sends, 2 VMs, an hour's end, a crash | `MailIsWholeAndOwn`; `MailLimitsHold`: limits are exceeded only by what was admitted before |
| web | 1 visitor, 2 VMs of 2 users that may share a name, 1 link | `GrantsJustified`: a grant was justified at some moment of the request |

`cluster` checks `DeadOnce` (at most one callback per death), `HandledInOrder`, `Delivered`,
`SilentDies` and `CancelReturns` of the node manager and agent, `SubnetsSound` and
the refinement `ImplementsLeases` of the allocator, and `PlacedWell` of the
scheduler: the node fits what was read, and no candidate is better in every respect,
which is stated without the score.

Several properties say what holds outside a window that the code leaves open, and
name the window in their history variable (`excused`, `raced`, `swept`, `stale`,
`muddled`).  The windows are races, failures and crashes that the hazards of `PROJECT.json`
list; the properties show that nothing else goes wrong.  Where a line of the
repository promises what a window breaks, there is a property that states the line:
a finding, or one of the configurations in the next table.  The rate limiter is not among
them: that it is "safe for concurrent use" (ratelimit.go:10) is said of its
locking, which holds; a bucket dropped as it is fetched admits a request more.

The five findings check one property each, which the documentation or a comment
states and the code does not keep; `PROJECT.json` quotes the lines.  Further ones, which
are not among the runs but can be reproduced with the configurations kept here (TLC
finds the property violated in a few steps):

| Configuration | Property | What is said, and what happens |
|---|---|---|
| `MCVMLifecycle`, `MCVMStopped.cfg` | `StoppedConsumesNothing` | docs/architecture.md:227 "no resources consumed"; a stop whose last write is late writes over another session's start |
| `MCVMLifecycle`, `MCVMDestroyed.cfg` | `DestroyedIsClean` | docs/architecture.md:228 "All resources (disk, network, Caddy route) cleaned up"; rm of a VM whose start is under way leaves tap, process and route |
| `MCVMLifecycle`, `MCVMQuota.cfg` | `WithinQuota` | commands.go:206 "Enforce VM quota"; two sessions both count before either inserts |
| `MCVMLifecycle`, `MCVMMetadata.cfg` | `MetadataOwn` | metadata.go:103 "the calling VM's metadata"; after a crash the addresses of guests that survived are handed out again |
| `Accounts`, `AccountsLastKey.cfg` | `LastKeyStays` | commands.go:1011 "can't remove your last SSH key"; two sessions each remove one of two |
| `Arena`, `ArenaFull.cfg` | `AutoStartWhenFull` | arena.go:269 "Auto-start when full"; two joins read one count, and neither starts the match they fill |
| `CaddyRoutes`, `DomainStale.cfg` | `OwnershipVerified` | docs/self-hosting.md:317 "verifies ownership via a TXT record"; the row was deleted and added again while the DNS was asked, and its token was never there |
| `NodeAgent`, `AgentStart.cfg` | `StartHandlesCommands` | agent.go:131 "heartbeat + command processing", main.go:66 "heartbeat + command loop"; Start only waits (agent.go:145 says "for now") |

Bounds.  Two sessions are enough for every race the manager can have on one VM:
its shared state is read and written in steps of one process, and a third
session adds a third copy of the same steps (the proofs below hold for any
number).  Two VMs and two addresses reach exhaustion and the exchange of
addresses between VMs.  Three ids with a quota of two let a row be deleted and
another be created.  In `platform`, two sessions of a part are enough to put
any step of one between any two of the other; the arena has three, because a
match for two needs a third to be over-full.  One crash is enough where only
files or rows survive it, since a second one meets the same kinds of leftovers.
Limits (`MaxUnread`, `OutRate`, `Capacity`, `Burst`) are one, the smallest value
at which they bind.  In `routes`, two users and two VMs are
enough to meet under a name and two names to exchange; three routes are one more than two VMs
need.  Nothing is looked for beyond a state in which everything is muddled.  In `cluster`, three nodes over two subnets exhaust the
allocator, with a base at the end of the word so that wrapping would show; one
node is enough because no method of the manager relates two nodes; one unanswered request,
one late one and one fault at a time already put any two of its steps in either order.
Two crashes let a process survive one lifetime and meet the
next one.  Deadlock is checked in the VM runs: an idle session can always be refused a
command (`CmdRefused`).  It is not in `platform`, `routes`, `cluster` and `llm_key`, where tokens,
rows, requests and placements are used up.

Fairness is weak fairness of each session's own steps and of main's: the Go
scheduler runs a goroutine that can run, and external commands and transactions
are taken to return.  Commands are not fair, nor is the user's answer to a
prompt.  Nor is `StopVM` in a session: it sends Ctrl-Alt-Del and waits on a context
without limit, and a guest may ignore it.  `CommandsReturn` therefore says of each
session: if its stops return, its commands do, whatever the guests of other sessions
do.  It shows that a guest which does not stop blocks the session that stops it
and no other.  In main the wait is bounded by the 30 s context, so its steps are fair.

In `cluster`, the clock ticks and the checker's ticker fires, goroutines of the
agent and handlers of the control plane that can run do, and a request on an
unbroken stream is served.  Joins, starts, commands, cancellation and faults are not fair.

## Proofs

The theorems hold for every set of sessions, VMs, keys, nodes and so on, for every
limit and subnet size, and for every number of crashes and failures, under the
`ASSUME`s of the modules: ids are positive, limits are natural numbers, sentinels
such as `"none"` are no names, the timeouts of the node manager are ordered, the
idle limit of the rate limiter fills a bucket, the subnets lie inside the word,
connections and senders of mail are finite sets, names of VMs and custom domains
differ, and for the scheduler: requests are finitely many and take memory, no node starts over-full,
`Scale` is a common denominator of the scores.  TLC evaluates all of them on
the instances.  Where a theorem needs more, its statement says so.

Each proof has an inductive invariant, an initial lemma, one case per action and
lemmas for the kinds of step that many actions share ("one session moves to y,
nothing else changes").  What the invariants add to the properties, and why:

| Theorem | Property | Inductive invariant |
|---|---|---|
| `TypeCorrect` | `TypeOK` | `TypeInv` adds `ControlOK`: a goroutine past the insert has a VM, one past `AllocateNetwork` an address; without it a step may store a sentinel |
| `TapIsTheLock`, `NeverTwoMachines`, `GuestAddressesUnique` | `TapOwnership`, `OneMachinePerVM`, `UniqueGuestIP` | `OwnInv`: at most one goroutine is between `AllocateNetwork` and `Track`, or between Stop's delete and `ReleaseNetwork`, only while the VM is not tracked, always with the tap in place; a process exists only over a tap; the same for addresses |
| `AddressesAhead` | `AddressOwnership` | the same |
| `ManagerImplementsPower` | `ImplementsPower` | the same, with the address map: every step of the manager is a move of `VMPower` or leaves its state alone |
| `TrackedVMsAreUp`, if guests do not exit | `TrackedIsUp` | `LiveInv`: a goroutine past the boot has its process too |
| `NothingLeaks`, if guests do not exit and taps can be deleted, until the first crash | `QuiescentResources` | `AllocInv`, `LeakInv`: each tap, address and process is tracked or in the hands of a goroutine that will release it |
| `RunningRowsBacked`, if guests do not exit and the shutdown has time, until the first crash | `RunningRowBacked` | the property (`RowInv`) with the invariants above, which say that a tracked VM and a goroutine past the boot have their process; `DeadlineInv`: the last write of a stop is not lost |
| `MetadataIsOwn`, until the first crash | `MetadataOwn` | `KnownInv`: an address that a process, a row, the map, the registry or a local of a goroutine connects with a VM is below the counter and connected with no other VM |
| `OneSessionKeepsQuota`, with one session | `WithinQuota` | `QuotaInv`: the set of rows is finite, and between the count and the insert of `new` there is room for one more; over crashes, reboots and shutdowns |
| `PartsAgreeBetweenCommands`, `SeedsOfflineImages`, with one session, no shutdown and a Caddy that answers, until the first crash | `PartsAgree`, `SeedOffline` | `OneAtATime`: all VMs agree but the one of the command under way, whose row, map entry, metadata and route are what the point the command has reached says; a process nobody tracks exists only where a start holds it |
| `DeletedStayDeleted` | `DeletedForGood` (action) | an id handed out is at most `lastID`, and no write recreates a row |
| `SubnetsStaySound` | `SubnetsSound` | `MeshInv`: index and subnet determine each other over all nodes, in the maps and in the export |
| `AllocatorImplementsLeases` | `ImplementsLeases` | the same |
| `DeathsReportedOnce`, at most one callback per death | `DeadOnce` | `NmInv`: state, `due` and the count of callbacks agree at every point of CheckTimeouts |
| `CommandsInOrder`, of the loop as written | `HandledInOrder` | `PipeOK`: handled commands, those in the receiver's hand, in responses and pending are one increasing sequence; `ReceiverOK`: the receiver of a broken stream has ended before the next starts |
| `PlacementsAreGood` | `PlacedWell` | `SchedInv`: a node is its facts and the VMs started on it, so its scores are exact quotients; what a placement read stays as it was read, and its choice is among the best of it; until two placements overlap, what was read still holds |
| `MagicLinksWorkOnce`, `PanelAuthorityEnds` | `RedeemedOnce`, `AuthorityExpires` | `PanelInv`: who is between redeeming and making the session, and by when each session ends |
| `PagesGrantedWithReason` | `GrantsJustified` | `VisitInv`: a VM the visitor is entitled to while its visit is under way is among those recorded for the visit |
| `AccountsKeepAKey` | `NobodyLockedOut` | `AcctInv`: who is between two transactions, and that its account has a key to spare |
| `OnlyGoodTokensRun` | `RunsOnlyGoodTokens` | `ReqInv`: past a check, its outcome |
| `CleanupGivesNothing` | `NoExtraRequests` | `LimitInv`: counting what would have been filled up by now, a bucket holds no more than the one that was never dropped, and a key without a bucket has a full one; until a request is caught with a dropped bucket |
| `NamesLeadToTheirVM`, `ServedDomainsAreProven` | `RoutesFollowVMs`, `DomainsProven` | `CaddyInv`. `NamesInv`: for a name that is not muddled, at most one command is about it, on the one VM that has it, and row, map and Caddy are what the step that command has reached says; a row of such a VM has an address only while the VM manager has the VM in its map. `DomainsInv`: how far the only `share cname` command on a domain has come, and what its row and route are at that point; and, muddled or not, what is marked or routed was found in the DNS. Removing and inserting the routes of one host leaves those of every other |
| `RulesLeaveWithTheirVM`, `BaseRulesStay` | `NoStrayRules`, `BaseRulesInPlace` | `FwInv`: one session per VM that starts or stops; a stop holds all handles of its VM; handles of VM rules lie above those of the base rules, over reloads too |
| `CacheServesWholeImages` | `DisksAreWhole` | `ImageInv`: the lock has one holder, and how much of its files is written at each step |
| `KeysGoHome` | `KeysKept` | `LlmInv`: a director holds a key of its provider, and of its request when that one is alone |
| `MailArrivesWhole`, `MailKeepsLimits` | `MailIsWholeAndOwn`, `MailLimitsHold` | `InInv`, `OutInv`: files and deliveries together, sent and admitted together, are within the limit and the number of sessions |
| `MatchesStartWhenFull` | `StartsWhenFull` | `ArenaInv`: what each join has counted against what is there |

The hypotheses of the conditional theorems are what the code needs: a guest that
exits, a tap that cannot be deleted, a failed call of Caddy, a shutdown out of
time and a crash each leave something behind, and two sessions of one user race
(`crash` and the configurations above show it).  The runs that check
the same properties leave out the same faults.

With these, every safety invariant, the action property and both refinements that the
passing runs check are theorems.  `NaturalsLemmas` derives that a set of naturals has a
least element from the well-foundedness theorems of the library; it is what `PlacementsAreGood`
needs to know that a best score exists and that an exact quotient is the number it should be.

Only model-checked:

* Liveness (`liveness`, and `Delivered`, `SilentDies`, `CancelReturns` of `cluster`): the prover
  handles neither fairness nor `ENABLED`.
* The findings, which are counterexamples.

## Observations

Met while modelling, stated here because no property is about them:

* `CheckTimeouts` defers its callbacks "outside the lock" after deferring the
  unlock, so they run first, under the lock.  The model has them there; no code of
  the repository passes a callback that would block.
* `CleanExpiredMagicTokens` deletes every token that is used or expired, where its
  comment speaks of an hour; it has no caller, and neither have `RevokeAPIToken`,
  `UpdateELOAfterMatch`, `CleanCache`, `CleanupNAT` and `UpdateRoute`.
* A message to several VMs is delivered to the first recipient only.
* The route of a custom domain keeps the address the VM had at verification.
* A partial docker tarball is never deleted; later calls go to the registry.

## Plan

1. `VMLifecycle`: the agreement of the parts after a crash, stated for what a restart
   of the server really restores, with the invariant it needs.
2. `ApiExec` and `LLMGateway`: bounds for the windows the properties now exclude.

## Not modelled

The guest, the Firecracker SDK, Caddy, nft, SQLite, the relay, the providers and
the transport of the cluster are the environment, modelled as the code uses them.
The WireGuard stub, the ZFS backend and `internal/auth` are called by nothing;
PKI is checks over a signature library without state between calls; tutorial,
community, configuration and telemetry have no protocol.  Of modelled
components, the commands and pages that only print or read are left out, and so
are tags, migrations, the wiring in `main`, and the functions without a caller
named above.  Failures of the database are left out except where a module says otherwise.
