----------------------------- MODULE AdminPanel -----------------------------
(***************************************************************************)
(* Magic links, admin sessions and trust levels: internal/admin/admin.go,  *)
(* cmdBrowser, cmdAdmin and the queries they use.                          *)
(*                                                                         *)
(* A magic token is redeemed in one write transaction, which also reads    *)
(* the user; the session is created afterwards, from what was read.  A     *)
(* session lives in memory for sessionTTL and is never checked against the *)
(* user's trust level again; nor is the level an SSH shell read when it    *)
(* connected.  Time is a bounded clock.                                    *)
(***************************************************************************)
EXTENDS Integers, FiniteSets

CONSTANTS
    People,       \* accounts
    MagicTokens,  \* magic tokens, each generated once
    Browsers,     \* browsers with a session cookie or a redemption under way
    MagicTTL,     \* 5 minutes
    SessionTTL,   \* 24 hours
    MaxTime       \* bound: the clock

ASSUME AdminAssumption ==
    /\ {MagicTTL, SessionTTL, MaxTime} \subseteq Nat
    /\ "none" \notin People \cup MagicTokens

VARIABLES
    clock,
    trust,      \* trust level by account
    shell,      \* level the account's open shell holds, or "none"
    magic,      \* row of a token: absent, fresh or used, its user and expiry
    tab,        \* a browser: redemption under way or session cookie
    sess,       \* the session behind the browser's cookie, or NoSession
    lostAt,     \* history: when an account last ceased to be privileged
    redeemed    \* history: redemptions by token

adminVars == <<clock, trust, shell, magic, tab, sess, lostAt, redeemed>>

(* "citizen" differs from "newbie" in quotas only.                         *)
Levels == {"newbie", "operator", "admin"}
Privileged == {"operator", "admin"}
NoMagic == [state |-> "absent", user |-> "none", expires |-> 0]
NoTab == [pc |-> "idle", user |-> "none"]
NoSession == [user |-> "none", expires |-> 0]

(* One account is admin at the start, by hand as the docs say.             *)
AdminInit ==
    /\ clock = 0
    /\ \E root \in People : trust = [p \in People |-> IF p = root THEN "admin" ELSE "newbie"]
    /\ shell = [p \in People |-> "none"]
    /\ magic = [t \in MagicTokens |-> NoMagic]
    /\ tab = [b \in Browsers |-> NoTab]
    /\ sess = [b \in Browsers |-> NoSession]
    /\ lostAt = [p \in People |-> 0]
    /\ redeemed = [t \in MagicTokens |-> 0]

-----------------------------------------------------------------------------
(* The shell: connecting reads the level, "browser" makes a token.         *)

OpenShell(p) ==
    /\ shell[p] = "none"
    /\ shell' = [shell EXCEPT ![p] = trust[p]]
    /\ UNCHANGED <<clock, trust, magic, tab, sess, lostAt, redeemed>>

CloseShell(p) ==
    /\ shell[p] # "none"
    /\ shell' = [shell EXCEPT ![p] = "none"]
    /\ UNCHANGED <<clock, trust, magic, tab, sess, lostAt, redeemed>>

CmdBrowser(p, t) ==
    /\ shell[p] # "none"
    /\ magic[t].state = "absent" /\ redeemed[t] = 0
    /\ magic' = [magic EXCEPT ![t] = [state |-> "fresh", user |-> p,
                                      expires |-> clock + MagicTTL]]
    /\ UNCHANGED <<clock, trust, shell, tab, sess, lostAt, redeemed>>

SetTrust(p, level) ==
    /\ trust' = [trust EXCEPT ![p] = level]
    /\ lostAt' = IF trust[p] \in Privileged /\ level \notin Privileged
                 THEN [lostAt EXCEPT ![p] = clock] ELSE lostAt

(* cmdAdmin asks the level the shell holds, and "admin", not "operator".   *)
CmdAdminSetTrust(by, p, level) ==
    /\ shell[by] = "admin"
    /\ SetTrust(p, level)
    /\ UNCHANGED <<clock, shell, magic, tab, sess, redeemed>>

-----------------------------------------------------------------------------
(* The browser. *)

MutantValidateMagicToken(b, t) ==
    /\ tab[b].pc = "idle"
    /\ magic[t].state # "absent"
    /\ clock <= magic[t].expires
    /\ magic' = [magic EXCEPT ![t].state = "used"]
    /\ redeemed' = [redeemed EXCEPT ![t] = @ + 1]
    /\ tab' = [tab EXCEPT ![b] = IF trust[magic[t].user] \in Privileged
                                 THEN [pc |-> "login", user |-> magic[t].user] ELSE NoTab]
    /\ UNCHANGED <<clock, trust, shell, sess, lostAt>>

(* One transaction; the trust level is judged on the row it read.  A       *)
(* token that is unknown, used or expired changes nothing.                 *)
ValidateMagicToken(b, t) ==
    /\ tab[b].pc = "idle"
    /\ magic[t].state = "fresh"
    /\ clock <= magic[t].expires
    /\ magic' = [magic EXCEPT ![t].state = "used"]
    /\ redeemed' = [redeemed EXCEPT ![t] = @ + 1]
    /\ tab' = [tab EXCEPT ![b] = IF trust[magic[t].user] \in Privileged
                                 THEN [pc |-> "login", user |-> magic[t].user] ELSE NoTab]
    /\ UNCHANGED <<clock, trust, shell, sess, lostAt>>

CreateSession(b) ==
    /\ tab[b].pc = "login"
    /\ sess' = [sess EXCEPT ![b] = [user |-> tab[b].user, expires |-> clock + SessionTTL]]
    /\ tab' = [tab EXCEPT ![b] = NoTab]
    /\ UNCHANGED <<clock, trust, shell, magic, lostAt, redeemed>>

MutantGet(b) == sess[b]

(* sessionStore.Get: an expired session does not count, cleaned or not.    *)
Get(b) == IF clock > sess[b].expires THEN NoSession ELSE sess[b]

RequireAuth(b) == Get(b) # NoSession

HandleSetTrustLevel(b, p, level) ==
    /\ RequireAuth(b)
    /\ SetTrust(p, level)
    /\ UNCHANGED <<clock, shell, magic, tab, sess, redeemed>>

HandleLogout(b) ==
    /\ sess[b].user # "none"
    /\ sess' = [sess EXCEPT ![b] = NoSession]
    /\ UNCHANGED <<clock, trust, shell, magic, tab, lostAt, redeemed>>

-----------------------------------------------------------------------------
CleanExpired ==
    /\ sess' = [b \in Browsers |-> IF clock > sess[b].expires THEN NoSession ELSE sess[b]]
    /\ UNCHANGED <<clock, trust, shell, magic, tab, lostAt, redeemed>>

(* A query that no code of the server calls yet.                           *)
CleanExpiredMagicTokens ==
    /\ magic' = [t \in MagicTokens |->
                   IF magic[t].state = "used" \/ magic[t].expires < clock
                   THEN NoMagic ELSE magic[t]]
    /\ UNCHANGED <<clock, trust, shell, tab, sess, lostAt, redeemed>>

(* A tick is long beside the two steps of a redemption.                    *)
PassTime ==
    /\ clock < MaxTime
    /\ \A b \in Browsers : tab[b].pc = "idle"
    /\ clock' = clock + 1
    /\ UNCHANGED <<trust, shell, magic, tab, sess, lostAt, redeemed>>

(* Sessions are only in memory; tokens and levels are in the database.     *)
RestartPanel ==
    /\ shell' = [p \in People |-> "none"]
    /\ tab' = [b \in Browsers |-> NoTab]
    /\ sess' = [b \in Browsers |-> NoSession]
    /\ UNCHANGED <<clock, trust, magic, lostAt, redeemed>>

AdminNext ==
    \/ CleanExpired \/ CleanExpiredMagicTokens \/ PassTime \/ RestartPanel
    \/ \E p \in People :
          \/ OpenShell(p) \/ CloseShell(p)
          \/ \E t \in MagicTokens : CmdBrowser(p, t)
          \/ \E by \in People, l \in Levels : CmdAdminSetTrust(by, p, l)
          \/ \E b \in Browsers, l \in Levels : HandleSetTrustLevel(b, p, l)
    \/ \E b \in Browsers :
          \/ \E t \in MagicTokens : ValidateMagicToken(b, t)
          \/ CreateSession(b) \/ HandleLogout(b)

AdminSpec == AdminInit /\ [][AdminNext]_adminVars

-----------------------------------------------------------------------------
(* "This link ... can only be used once": however redemptions, restarts    *)
(* and the cleanup of tokens interleave.                                   *)
RedeemedOnce == \A t \in MagicTokens : redeemed[t] <= 1

(* Authority over the panel outlives the trust level it came from by no    *)
(* more than the session's lifetime, although no request checks the level  *)
(* again and it may change between a redemption and the session it makes:  *)
(* whoever holds a session that requireAuth accepts is privileged now, or  *)
(* was less than sessionTTL ago.  It is the bound that is left of what the *)
(* package promises, OnlyPrivilegedAccess below.                           *)
AuthorityExpires ==
    \A b \in Browsers :
        RequireAuth(b) => LET u == sess[b].user IN
            trust[u] \in Privileged \/ clock <= lostAt[u] + SessionTTL

(* "only users with trust_level 'operator' or 'admin' can access the       *)
(* panel": requireAuth accepts nobody else.  It accepts the session of a   *)
(* user who was demoted, who can then set trust levels, their own too.     *)
OnlyPrivilegedAccess ==
    \A b \in Browsers : RequireAuth(b) => trust[sess[b].user] \in Privileged

=============================================================================
