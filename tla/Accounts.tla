------------------------------ MODULE Accounts ------------------------------
(***************************************************************************)
(* Who a connection is: internal/ssh/gateway.go, register.go and the       *)
(* ssh-key commands.                                                       *)
(*                                                                         *)
(* An account is its handle (UNIQUE in users); a key belongs to at most    *)
(* one account (UNIQUE fingerprint in ssh_keys).  Every query is a         *)
(* transaction of its own, and between two queries of a session anything   *)
(* may happen: registration is three of them, removing a key is three.     *)
(* Nothing ever deletes an account.                                        *)
(***************************************************************************)
EXTENDS Integers, FiniteSets

CONSTANTS
    Handles,      \* handles, valid ones
    Keys,         \* public keys
    Conns,        \* connections at one time
    Authorized,   \* keys Routussy knows
    Routussy,     \* whether RoutussyURL is set
    MaxAttempts,  \* handles a registration may try (5)
    MaxRestarts   \* bound: crashes of the server

ASSUME AccountsAssumption ==
    /\ Authorized \subseteq Keys
    /\ Routussy \in BOOLEAN
    /\ MaxAttempts \in Nat \ {0} /\ MaxRestarts \in Nat
    /\ {"none", "malformed"} \cap (Handles \cup Keys) = {}

VARIABLES
    users,      \* handles taken
    owner,      \* account of a key, or "none"
    conn,       \* a connection: step, key, account, handle or key at hand
    restarts,
    excused     \* history: handles that a crash or overlapping commands
                \* may have left without a key

acctVars == <<users, owner, conn, restarts, excused>>

NoConn == [pc |-> "closed", key |-> "none", user |-> "none", arg |-> "none", tries |-> 0]

AcctInit ==
    /\ users = {}
    /\ owner = [k \in Keys |-> "none"]
    /\ conn = [c \in Conns |-> NoConn]
    /\ restarts = 0
    /\ excused = {}

InState(c, l) == conn[c].pc = l
Step(c, l) == conn' = [conn EXCEPT ![c].pc = l]
StepArg(c, l, a) == conn' = [conn EXCEPT ![c].pc = l, ![c].arg = a]
Close(c) == conn' = [conn EXCEPT ![c] = NoConn]
KeysOf(u) == {k \in Keys : owner[k] = u}

-----------------------------------------------------------------------------
(* publicKeyHandler.  A failed lookup in Routussy counts as a yes, so an   *)
(* unknown key outside the tailnet may be let in whatever Routussy knows.  *)
Connect(c, k, tailscale, lookup) ==
    /\ InState(c, "closed")
    /\ \/ owner[k] # "none"
       \/ ~Routussy \/ tailscale
       \/ lookup = "failed" \/ k \in Authorized
    /\ conn' = [conn EXCEPT ![c] =
                  [NoConn EXCEPT !.pc = IF owner[k] = "none" THEN "ask" ELSE "shell",
                                 !.key = k, !.user = owner[k]]]
    /\ UNCHANGED <<users, owner, restarts, excused>>

(* handleRegistration.  A handle that is empty or malformed costs an       *)
(* attempt as a taken one does.                                            *)
HandleExists(c, h) ==
    /\ InState(c, "ask")
    /\ IF h \in users \cup {"malformed"}
       THEN IF conn[c].tries + 1 = MaxAttempts THEN Close(c)
            ELSE conn' = [conn EXCEPT ![c].tries = @ + 1]
       ELSE StepArg(c, "create", h)
    /\ UNCHANGED <<users, owner, restarts, excused>>

CreateUser(c) ==
    /\ InState(c, "create")
    /\ IF conn[c].arg \in users
       THEN Close(c) /\ UNCHANGED users
       ELSE Step(c, "addkey") /\ users' = users \cup {conn[c].arg}
    /\ UNCHANGED <<owner, restarts, excused>>

(* The key may have been taken since publicKeyHandler looked it up.        *)
RegisterKey(c) ==
    /\ InState(c, "addkey")
    /\ IF owner[conn[c].key] = "none"
       THEN /\ owner' = [owner EXCEPT ![conn[c].key] = conn[c].arg]
            /\ conn' = [conn EXCEPT ![c] = [@ EXCEPT !.pc = "shell", !.user = conn[c].arg,
                                                     !.arg = "none", !.tries = 0]]
            /\ UNCHANGED excused
       ELSE /\ Close(c)
            /\ excused' = excused \cup {conn[c].arg}
            /\ UNCHANGED owner
    /\ UNCHANGED <<users, restarts>>

-----------------------------------------------------------------------------
(* ssh-key add and remove, from a shell. *)

BeginAdd(c, k) ==
    /\ InState(c, "shell")
    /\ owner[k] # conn[c].user
    /\ StepArg(c, "insert", k)
    /\ UNCHANGED <<users, owner, restarts, excused>>

AddSSHKey(c) ==
    /\ InState(c, "insert")
    /\ owner' = [owner EXCEPT ![conn[c].arg] = IF @ = "none" THEN conn[c].user ELSE @]
    /\ StepArg(c, "shell", "none")
    /\ UNCHANGED <<users, restarts, excused>>

(* Removals of the same account under way besides c's.                     *)
Removing(c) ==
    {d \in Conns \ {c} : /\ conn[d].user = conn[c].user
                         /\ conn[d].pc \in {"count", "delete"}}

BeginRemove(c, k) ==
    /\ InState(c, "shell")
    /\ owner[k] = conn[c].user
    /\ StepArg(c, "count", k)
    /\ excused' = IF Removing(c) = {} THEN excused ELSE excused \cup {conn[c].user}
    /\ UNCHANGED <<users, owner, restarts>>

MutantCountKeys(c) ==
    /\ InState(c, "count")
    /\ IF KeysOf(conn[c].user) = {} THEN StepArg(c, "shell", "none") ELSE Step(c, "delete")
    /\ UNCHANGED <<users, owner, restarts, excused>>

CountKeys(c) ==
    /\ InState(c, "count")
    /\ IF Cardinality(KeysOf(conn[c].user)) <= 1
       THEN StepArg(c, "shell", "none") ELSE Step(c, "delete")
    /\ UNCHANGED <<users, owner, restarts, excused>>

(* The delete is by row id: a removal that finds its row gone deletes      *)
(* nothing, even if the same key has been added again.                     *)
DeleteSSHKey(c) ==
    /\ InState(c, "delete")
    /\ LET k == conn[c].arg IN
          /\ owner' = [l \in Keys |-> IF l = k THEN "none" ELSE owner[l]]
          /\ conn' = [d \in Conns |->
                        IF d = c THEN [conn[c] EXCEPT !.pc = "shell", !.arg = "none"]
                        ELSE IF conn[d].pc \in {"count", "delete"} /\ conn[d].arg = k
                        THEN [conn[d] EXCEPT !.arg = "none"] ELSE conn[d]]
    /\ UNCHANGED <<users, restarts, excused>>

Disconnect(c) ==
    /\ conn[c].pc \in {"ask", "shell"}
    /\ Close(c)
    /\ UNCHANGED <<users, owner, restarts, excused>>

(* The server dies and comes back: the tables stay, connections do not.    *)
Restart ==
    /\ restarts < MaxRestarts
    /\ restarts' = restarts + 1
    /\ conn' = [c \in Conns |-> NoConn]
    /\ excused' = excused \cup {conn[c].arg : c \in {d \in Conns : InState(d, "addkey")}}
    /\ UNCHANGED <<users, owner>>

AcctNext ==
    \/ Restart
    \/ \E c \in Conns :
          \/ \E k \in Keys, t \in BOOLEAN, l \in {"answered", "failed"} : Connect(c, k, t, l)
          \/ \E h \in Handles \cup {"malformed"} : HandleExists(c, h)
          \/ CreateUser(c) \/ RegisterKey(c)
          \/ \E k \in Keys : BeginAdd(c, k) \/ BeginRemove(c, k)
          \/ AddSSHKey(c) \/ CountKeys(c) \/ DeleteSSHKey(c) \/ Disconnect(c)

AcctSpec == AcctInit /\ [][AcctNext]_acctVars

-----------------------------------------------------------------------------
(* No account is locked out: a taken handle has a key, or a registration   *)
(* is about to give it one, unless the server died between the two inserts *)
(* of a registration, two registrations raced for one key, or two sessions *)
(* of the account were removing keys at the same time.                     *)
NobodyLockedOut ==
    \A u \in users \ excused :
        \/ KeysOf(u) # {}
        \/ \E c \in Conns : InState(c, "addkey") /\ conn[c].arg = u

(* "can't remove your last SSH key (you'd be locked out)": an account that *)
(* has a key keeps one.  Two sessions that each count two keys remove both.*)
LastKeyStays ==
    [][\A u \in users : KeysOf(u) # {} => \E k \in Keys : owner'[k] = u]_acctVars

=============================================================================
