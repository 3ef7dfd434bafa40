----------------------------- MODULE WebAccess -----------------------------
(***************************************************************************)
(* Who may open a VM's web page: the share commands of the shell and the   *)
(* forward_auth endpoint of internal/proxy/auth.go.                        *)
(*                                                                         *)
(* A command turns the VM's name into a row id first and writes by id; a   *)
(* row that is gone by then makes the write fail or match nothing, so a    *)
(* command is one step.  A visit is several: it looks the VM up by name,   *)
(* then reads the shares in transactions of their own.  Two users may have *)
(* a VM of one name, and the lookup takes either.  Link tokens are random  *)
(* and never used twice.                                                   *)
(***************************************************************************)
EXTENDS Integers

CONSTANTS
    WebVMs,     \* ids of VM rows, never used twice
    WebNames,   \* VM names
    WebUsers,   \* users
    Links,      \* link tokens
    Visitors    \* browsers or API clients, one request at a time each

ASSUME WebAssumption ==
    /\ WebVMs \subseteq Nat \ {0}
    /\ {"none", "unknown"} \cap (WebUsers \cup Links \cup WebNames) = {}

VARIABLES
    row,      \* vms: owner and name
    share,    \* shares: users, link tokens and the public flag of a VM
    spent,    \* link tokens made so far
    cookie,   \* cookies ussy_share_<id> of a visitor
    visit     \* a request

webVars == <<row, share, spent, cookie, visit>>

NoVM == [owner |-> "none", name |-> "none"]
Private == [users |-> {}, links |-> {}, public |-> FALSE]
Away == [pc |-> "away", vm |-> 0, user |-> "none", link |-> "none", may |-> {}]

WebInit ==
    /\ row = [v \in WebVMs |-> NoVM]
    /\ share = [v \in WebVMs |-> Private]
    /\ spent = {}
    /\ cookie = [b \in Visitors |-> [v \in WebVMs |-> "none"]]
    /\ visit = [b \in Visitors |-> Away]

Rows == {v \in WebVMs : row[v] # NoVM}
Exists(v) == row[v].name # "none"

(* What the shares say of a visitor with this identity and these links.    *)
Entitled(s, v, user, links) ==
    \/ s[v].public
    \/ user # "none" /\ (user = row[v].owner \/ user \in s[v].users)
    \/ links \cap s[v].links # {}

Held(b, v) == {cookie[b][v], visit[b].link}

(* Sharing changes; a visit under way may be answered by either state.     *)
Shared(s) ==
    /\ share' = s
    /\ visit' = [b \in Visitors |->
                   IF visit[b].pc \in {"away", "granted"} THEN visit[b]
                   ELSE [visit[b] EXCEPT !.may = @ \cup
                           {v \in Rows : Entitled(s, v, visit[b].user, Held(b, v))}]]

-----------------------------------------------------------------------------
CreateVM(v, u, n) ==
    /\ \A w \in WebVMs : w >= v => row[w] = NoVM
    /\ \A w \in Rows : row[w] # [owner |-> u, name |-> n]
    /\ row' = [row EXCEPT ![v] = [owner |-> u, name |-> n]]
    /\ UNCHANGED <<share, spent, cookie, visit>>

RenameVM(v, n) ==
    /\ Exists(v)
    /\ \A w \in Rows : row[w] # [row[v] EXCEPT !.name = n]
    /\ row' = [row EXCEPT ![v].name = n]
    /\ UNCHANGED <<share, spent, cookie, visit>>

(* The shares go with the row (ON DELETE CASCADE).  The row keeps its      *)
(* owner here, so that the id is not used again.                           *)
DeleteVM(v) ==
    /\ Exists(v)
    /\ row' = [row EXCEPT ![v].name = "none"]
    /\ Shared([share EXCEPT ![v] = Private])
    /\ UNCHANGED <<spent, cookie>>

ShareVMWithUser(v, u) ==
    /\ Exists(v) /\ u # row[v].owner
    /\ Shared([share EXCEPT ![v].users = @ \cup {u}])
    /\ UNCHANGED <<row, spent, cookie>>

RemoveShareByVMAndUser(v, u) ==
    /\ Exists(v)
    /\ Shared([share EXCEPT ![v].users = @ \ {u}])
    /\ UNCHANGED <<row, spent, cookie>>

ShareVMWithLink(v, l) ==
    /\ Exists(v) /\ l \notin spent
    /\ spent' = spent \cup {l}
    /\ Shared([share EXCEPT ![v].links = @ \cup {l}])
    /\ UNCHANGED <<row, cookie>>

RemoveShareLink(v, l) ==
    /\ Exists(v)
    /\ Shared([share EXCEPT ![v].links = @ \ {l}])
    /\ UNCHANGED <<row, spent, cookie>>

SetVMPublic(v, public) ==
    /\ Exists(v)
    /\ Shared([share EXCEPT ![v].public = public])
    /\ UNCHANGED <<row, spent, cookie>>

-----------------------------------------------------------------------------
(* AuthProxy.Handler.  user is whom the bearer token stands for: "none"    *)
(* without one, "unknown" for a token that is expired or nobody's.         *)

Answer(b, l) == visit' = [visit EXCEPT ![b] = IF l = "granted" THEN [@ EXCEPT !.pc = l] ELSE Away]

VMByName(b, n, v, user, l) ==
    /\ visit[b].pc \in {"away", "granted"}
    /\ Exists(v) /\ row[v].name = n
    /\ visit' = [visit EXCEPT ![b] =
                   [pc |-> IF l # "none" THEN "redeem" ELSE "public",
                    vm |-> v, user |-> user, link |-> l,
                    may |-> {w \in Rows : Entitled(share, w, user, {cookie[b][w], l})}]]
    /\ UNCHANGED <<row, share, spent, cookie>>

(* The answer is a cookie and a redirect: the page itself takes another    *)
(* visit.                                                                  *)
RedeemLink(b) ==
    /\ visit[b].pc = "redeem"
    /\ LET v == visit[b].vm l == visit[b].link IN
          cookie' = IF l \in share[v].links THEN [cookie EXCEPT ![b][v] = l] ELSE cookie
    /\ Answer(b, "redirected")
    /\ UNCHANGED <<row, share, spent>>

IsVMPublic(b) ==
    /\ visit[b].pc = "public"
    /\ IF share[visit[b].vm].public THEN Answer(b, "granted")
       ELSE visit' = [visit EXCEPT ![b].pc = IF visit[b].user # "none" THEN "bearer" ELSE "cookie"]
    /\ UNCHANGED <<row, share, spent, cookie>>

HasShareAccess(b) ==
    /\ visit[b].pc = "bearer"
    /\ LET v == visit[b].vm u == visit[b].user IN
          Answer(b, IF u = row[v].owner \/ u \in share[v].users THEN "granted" ELSE "forbidden")
    /\ UNCHANGED <<row, share, spent, cookie>>

MutantCheckCookie(b) ==
    /\ visit[b].pc = "cookie"
    /\ Answer(b, IF cookie[b][visit[b].vm] # "none" THEN "granted" ELSE "unauthorized")
    /\ UNCHANGED <<row, share, spent, cookie>>

(* The cookie holds the link's token, and the token is looked up again.    *)
CheckCookie(b) ==
    /\ visit[b].pc = "cookie"
    /\ LET v == visit[b].vm IN
          Answer(b, IF cookie[b][v] \in share[v].links THEN "granted" ELSE "unauthorized")
    /\ UNCHANGED <<row, share, spent, cookie>>

WebNext ==
    \/ \E v \in WebVMs :
          \/ DeleteVM(v)
          \/ \E n \in WebNames : RenameVM(v, n) \/ \E u \in WebUsers : CreateVM(v, u, n)
          \/ \E u \in WebUsers : ShareVMWithUser(v, u) \/ RemoveShareByVMAndUser(v, u)
          \/ \E l \in Links : ShareVMWithLink(v, l) \/ RemoveShareLink(v, l)
          \/ \E public \in BOOLEAN : SetVMPublic(v, public)
    \/ \E b \in Visitors :
          \/ \E v \in WebVMs, n \in WebNames, u \in WebUsers \cup {"none", "unknown"}, l \in Links \cup {"none"} :
                VMByName(b, n, v, u, l)
          \/ RedeemLink(b) \/ IsVMPublic(b) \/ HasShareAccess(b) \/ CheckCookie(b)

WebSpec == WebInit /\ [][WebNext]_webVars

-----------------------------------------------------------------------------
(* A page is shown only to a visitor who was entitled to that VM at some   *)
(* moment of the request: through the public flag, as its owner, by a      *)
(* share, or by a link.  A link, share or flag that was withdrawn before   *)
(* the request opens nothing, redeemed cookies included.                   *)
GrantsJustified ==
    \A b \in Visitors : visit[b].pc = "granted" => visit[b].vm \in visit[b].may

=============================================================================
