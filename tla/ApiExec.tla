------------------------------- MODULE ApiExec -------------------------------
(***************************************************************************)
(* POST /exec: internal/api/handler.go and ratelimit.go.                   *)
(*                                                                         *)
(* A token of kind usy0 names a handle and is signed by a key of that      *)
(* account; one of kind usy1 is a row of api_tokens.  Tokens are revoked,  *)
(* keys added and removed while requests are between their steps.          *)
(*                                                                         *)
(* A bucket counts in units: a request costs Cost of them, a tick brings   *)
(* Refill.  The map and the buckets have different locks: a request may    *)
(* hold a bucket that cleanupLoop has dropped from the map, so a           *)
(* fingerprint has two slots for buckets and the map names one, or none.   *)
(***************************************************************************)
EXTENDS Integers, FiniteSets

CONSTANTS
    ApiTokens,   \* tokens: [kind, user, key, nbf, exp, cmds]
    ApiKeys,     \* keys, also their fingerprints
    ApiCmds,     \* command names
    Reqs,        \* requests under way at one time
    Cost, Refill, Burst,
    IdleLimit,   \* 2 * cleanup, in ticks
    MaxNow       \* bound: the clock

ASSUME ApiAssumption ==
    /\ {Cost, Refill, Burst} \subseteq Nat \ {0}
    /\ {IdleLimit, MaxNow} \subseteq Nat
    /\ IdleLimit * Refill >= Burst * Cost
    /\ \A t \in ApiTokens : t.key \in ApiKeys /\ t.exp \in Nat /\ t.nbf \in Nat
    /\ "none" \notin ApiKeys

VARIABLES
    now,
    revoked,    \* usy1 tokens revoked or deleted
    signing,    \* keys of an account
    req,        \* a request: step, token, command, fingerprint, slot
    bucket,     \* buckets by fingerprint and slot: units, last time
    slotOf,     \* what the map holds for a fingerprint: a slot, or NoSlot
    sweep,      \* a bucket cleanupLoop found idle and is about to delete
    ideal,      \* history: a bucket that was there from the start
    swept       \* history: cleanupLoop dropped a bucket in use

apiVars == <<now, revoked, signing, req, bucket, slotOf, sweep, ideal, swept>>

ApiUsers == {t.user : t \in ApiTokens}
Full == [units |-> Burst * Cost, last |-> 0]
NoSlot == 2
Idle == [pc |-> "idle"]
NoKey == "none"

ApiInit ==
    /\ now = 0
    /\ revoked = {}
    /\ signing = [u \in ApiUsers |-> {t.key : t \in {s \in ApiTokens : s.user = u}}]
    /\ req = [r \in Reqs |-> Idle]
    /\ bucket = [k \in ApiKeys |-> [i \in {0, 1} |-> Full]]
    /\ slotOf = [k \in ApiKeys |-> NoSlot]
    /\ sweep = NoKey
    /\ ideal = [k \in ApiKeys |-> Full]
    /\ swept = FALSE

(* A stored token without an expiry (exp 0, or permissions that are empty  *)
(* or cannot be parsed) never expires; a signed one always does.           *)
Unexpired(t) == now <= t.exp \/ (t.kind = "usy1" /\ t.exp = 0)

(* authenticateShortToken does not look at nbf. *)
Begun(t) == t.kind = "usy0" => now >= t.nbf

(* What can take a token away from its owner has not done so. *)
Good(t) ==
    /\ t.kind = "usy1" => t \notin revoked
    /\ t.kind = "usy0" => t.key \in signing[t.user]
    /\ Unexpired(t)

Reply(r) == req' = [req EXCEPT ![r] = Idle]
Rest == <<now, revoked, signing, bucket, slotOf, sweep, ideal, swept>>

-----------------------------------------------------------------------------
(* handleExec. *)

Arrive(r, t, cmd) ==
    /\ req[r] = Idle
    /\ req' = [req EXCEPT ![r] = [pc |-> "auth", token |-> t, cmd |-> cmd, key |-> NoKey,
                                  slot |-> NoSlot, good |-> Good(t)]]
    /\ UNCHANGED Rest

AuthenticateStateless(r) ==
    LET t == req[r].token IN
    /\ req[r].pc = "auth"
    /\ t.kind = "usy0"
    /\ IF Begun(t) /\ Unexpired(t) /\ t.key \in signing[t.user]
       THEN req' = [req EXCEPT ![r].pc = "limit", ![r].key = t.key]
       ELSE Reply(r)
    /\ UNCHANGED Rest

MutantAuthenticateShortToken(r) ==
    LET t == req[r].token IN
    /\ req[r].pc = "auth"
    /\ t.kind = "usy1"
    /\ IF Unexpired(t)
       THEN req' = [req EXCEPT ![r].pc = "finger"]
       ELSE Reply(r)
    /\ UNCHANGED Rest

(* The row, its revoked flag and its expiry.  That last_used is touched on *)
(* the side is read by nothing and left out.                               *)
AuthenticateShortToken(r) ==
    LET t == req[r].token IN
    /\ req[r].pc = "auth"
    /\ t.kind = "usy1"
    /\ IF t \notin revoked /\ Unexpired(t)
       THEN req' = [req EXCEPT ![r].pc = "finger"]
       ELSE Reply(r)
    /\ UNCHANGED Rest

(* One of the account's keys stands for it; without any there is no limit. *)
FingerprintByUser(r) ==
    LET own == signing[req[r].token.user] IN
    /\ req[r].pc = "finger"
    /\ IF own = {}
       THEN req' = [req EXCEPT ![r].pc = "check"]
       ELSE \E k \in own : req' = [req EXCEPT ![r].pc = "limit", ![r].key = k]
    /\ UNCHANGED Rest

(* getBucket, from Allow and, for a request that was refused, once more     *)
(* from RetryAfter.                                                        *)
GetBucket(r) ==
    LET k == req[r].key
        new == IF \E s \in Reqs : req[s].pc = "allow" /\ req[s].key = k /\ req[s].slot = 0
               THEN 1 ELSE 0
        i == IF slotOf[k] = NoSlot THEN new ELSE slotOf[k]
    IN /\ req[r].pc \in {"limit", "retry"}
       /\ IF req[r].pc = "retry" THEN Reply(r)
          ELSE req' = [req EXCEPT ![r].pc = "allow", ![r].slot = i]
       /\ slotOf' = [slotOf EXCEPT ![k] = i]
       /\ bucket' = IF slotOf[k] = NoSlot
                    THEN [bucket EXCEPT ![k][i] = [Full EXCEPT !.last = now]] ELSE bucket
       /\ UNCHANGED <<now, revoked, signing, sweep, ideal, swept>>

MutantFilled(b) == [units |-> b.units + (now - b.last) * Refill, last |-> now]

(* A bucket after the time since it was last used is added. *)
Filled(b) ==
    LET more == b.units + (now - b.last) * Refill
    IN [units |-> IF more > Burst * Cost THEN Burst * Cost ELSE more, last |-> now]

IdealFilled(b) ==
    LET more == b.units + (now - b.last) * Refill
    IN [units |-> IF more > Burst * Cost THEN Burst * Cost ELSE more, last |-> now]

Allow(r) ==
    LET k == req[r].key
        i == req[r].slot
        b == Filled(bucket[k][i])
        ok == b.units >= Cost
        spent == IF ok THEN Cost ELSE 0
    IN /\ req[r].pc = "allow"
       /\ bucket' = [bucket EXCEPT ![k][i] = [b EXCEPT !.units = @ - spent]]
       /\ ideal' = [ideal EXCEPT ![k] = [IdealFilled(ideal[k]) EXCEPT !.units = @ - spent]]
       /\ req' = [req EXCEPT ![r].pc = IF ok THEN "check" ELSE "retry", ![r].slot = NoSlot]
       /\ UNCHANGED <<now, revoked, signing, slotOf, sweep, swept>>

(* readCommand refuses a body that is too large, empty or not understood.  *)
ReadCommandFails(r) ==
    /\ req[r].pc = "check"
    /\ Reply(r)
    /\ UNCHANGED Rest

(* The token's list of commands, when it has one. *)
CheckCommand(r) ==
    /\ req[r].pc = "check"
    /\ IF req[r].token.cmds = {} \/ req[r].cmd \in req[r].token.cmds
       THEN req' = [req EXCEPT ![r].pc = "execute"] ELSE Reply(r)
    /\ UNCHANGED Rest

Execute(r) ==
    /\ req[r].pc = "execute"
    /\ Reply(r)
    /\ UNCHANGED Rest

-----------------------------------------------------------------------------
(* cleanupLoop: reads a bucket's last use under its lock, then deletes the *)
(* map entry without it.                                                   *)

FindIdle(k) ==
    /\ sweep = NoKey
    /\ slotOf[k] # NoSlot
    /\ now - bucket[k][slotOf[k]].last > IdleLimit
    /\ sweep' = k
    /\ UNCHANGED <<now, revoked, signing, req, bucket, slotOf, ideal, swept>>

DeleteBucket ==
    /\ sweep # NoKey
    /\ slotOf' = [slotOf EXCEPT ![sweep] = NoSlot]
    /\ swept' = (swept \/ now - bucket[sweep][slotOf[sweep]].last <= IdleLimit
                       \/ \E r \in Reqs : req[r].pc = "allow" /\ req[r].key = sweep)
    /\ sweep' = NoKey
    /\ UNCHANGED <<now, revoked, signing, req, bucket, ideal>>

(* The account's owner meanwhile. *)

(* The query has no caller in the server; the flag may be set by hand.     *)
RevokeAPIToken(t) ==
    /\ t.kind = "usy1" /\ t \notin revoked
    /\ revoked' = revoked \cup {t}
    /\ UNCHANGED <<now, signing, req, bucket, slotOf, sweep, ideal, swept>>

ChangeKeys(u, k) ==
    /\ signing' = [signing EXCEPT ![u] = IF k \in @ THEN @ \ {k} ELSE @ \cup {k}]
    /\ req' = [r \in Reqs |->
                 IF req[r] # Idle /\ req[r].token.user = u /\ req[r].token.key = k
                    /\ k \notin signing[u]
                 THEN [req[r] EXCEPT !.good = TRUE] ELSE req[r]]
    /\ UNCHANGED <<now, revoked, bucket, slotOf, sweep, ideal, swept>>

PassTick ==
    /\ now < MaxNow
    /\ now' = now + 1
    /\ UNCHANGED <<revoked, signing, req, bucket, slotOf, sweep, ideal, swept>>

ApiNext ==
    \/ PassTick \/ DeleteBucket
    \/ \E k \in ApiKeys : FindIdle(k)
    \/ \E t \in ApiTokens : RevokeAPIToken(t) \/ ChangeKeys(t.user, t.key)
    \/ \E r \in Reqs :
          \/ \E t \in ApiTokens, c \in ApiCmds : Arrive(r, t, c)
          \/ req[r] # Idle /\
                \/ AuthenticateStateless(r) \/ AuthenticateShortToken(r)
                \/ FingerprintByUser(r) \/ GetBucket(r) \/ Allow(r)
                \/ ReadCommandFails(r) \/ CheckCommand(r) \/ Execute(r)

ApiSpec == ApiInit /\ [][ApiNext]_apiVars

-----------------------------------------------------------------------------
(* A command runs only for a token that was good when its request came, or *)
(* became good while it was being served, only if the token lists it, and  *)
(* for a signed token only once it is valid: once a token is revoked,      *)
(* expired or its key removed, no request that comes later gets through,   *)
(* whatever is in flight.                                                  *)
RunsOnlyGoodTokens ==
    \A r \in Reqs : req[r].pc = "execute" =>
        /\ req[r].good /\ Begun(req[r].token)
        /\ req[r].token.cmds = {} \/ req[r].cmd \in req[r].token.cmds

(* Over its whole life a fingerprint is given no more than one bucket that *)
(* was never dropped would give: the cleanup of idle buckets hands out     *)
(* nothing extra, unless it drops one that has come into use since it      *)
(* looked.                                                                 *)
NoExtraRequests == swept \/ \A k \in ApiKeys : ideal[k].units >= 0

=============================================================================
