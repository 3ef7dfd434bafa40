---------------------------- MODULE AccessProofs ----------------------------
(***************************************************************************)
(* Who gets in, for every number of accounts, keys, browsers, tokens and   *)
(* requests: the admin panel, visits to a VM's page, the commands of the   *)
(* API, accounts and their keys, custom domains.                           *)
(***************************************************************************)
EXTENDS AdminPanel, WebAccess, ApiExec, Accounts, CaddyRoutes, FiniteSetTheorems,
        SequenceTheorems, NaturalsLemmas

-----------------------------------------------------------------------------
(* The admin panel. *)

Somebody == People \cup {"none"}

PanelTypes ==
    /\ clock \in Nat
    /\ trust \in [People -> Levels]
    /\ magic \in [MagicTokens -> [state : {"absent", "fresh", "used"}, user : Somebody,
                                  expires : Nat]]
    /\ tab \in [Browsers -> [pc : {"idle", "login"}, user : Somebody]]
    /\ sess \in [Browsers -> [user : Somebody, expires : Nat]]
    /\ lostAt \in [People -> Nat]
    /\ redeemed \in [MagicTokens -> Nat]

(* A token that can be redeemed has never been. *)
TokenInv ==
    \A t \in MagicTokens :
        /\ redeemed[t] <= 1
        /\ magic[t].state = "fresh" => redeemed[t] = 0 /\ magic[t].user \in People

(* A login under way was judged in this very tick; a session ends before   *)
(* the level it came from has been gone for the lifetime of a session.     *)
AuthorityInv ==
    /\ \A p \in People : lostAt[p] <= clock
    /\ \A b \in Browsers :
          /\ tab[b].pc = "login" =>
                /\ tab[b].user \in People
                /\ trust[tab[b].user] \in Privileged \/ lostAt[tab[b].user] = clock
          /\ sess[b] # NoSession =>
                /\ sess[b].user \in People
                /\ sess[b].expires <= clock + SessionTTL
                /\ \/ trust[sess[b].user] \in Privileged
                   \/ sess[b].expires <= lostAt[sess[b].user] + SessionTTL

PanelInv == PanelTypes /\ TokenInv /\ AuthorityInv

LEMMA PanelInitInv == AdminInit => PanelInv
<1>. SUFFICES ASSUME AdminInit PROVE PanelInv
  OBVIOUS
<1>1. PanelTypes
  BY DEF AdminInit, PanelTypes, NoMagic, NoTab, NoSession, Levels, Somebody
<1>2. TokenInv
  BY DEF AdminInit, TokenInv, NoMagic
<1>3. AuthorityInv
  BY DEF AdminInit, AuthorityInv, NoTab
<1>. QED  BY <1>1, <1>2, <1>3 DEF PanelInv

(* The level of an account changes. *)
LEMMA SetTrustInv ==
    ASSUME PanelInv, NEW p \in People, NEW l \in Levels, SetTrust(p, l),
           UNCHANGED <<clock, magic, tab, sess, redeemed>>
    PROVE  PanelInv'
<1>. USE DEF PanelInv
<1>1. clock \in Nat /\ SessionTTL \in Nat /\ trust \in [People -> Levels] /\ lostAt \in [People -> Nat]
  BY AdminAssumption DEF PanelTypes
<1>2. ASSUME NEW q \in People
      PROVE  /\ lostAt'[q] \in Nat /\ lostAt'[q] <= clock /\ lostAt[q] <= lostAt'[q]
             /\ trust[q] \in Privileged => trust'[q] \in Privileged \/ lostAt'[q] = clock
             /\ trust[q] \notin Privileged => lostAt'[q] = lostAt[q]
  BY <1>1 DEF SetTrust, AuthorityInv
<1>3. PanelTypes'
  BY <1>1, <1>2 DEF PanelTypes, SetTrust
<1>4. TokenInv'
  BY DEF TokenInv
<1>5. AuthorityInv'
  <2>1. \A q \in People : lostAt'[q] <= clock'
    BY <1>2
  <2>2. ASSUME NEW b \in Browsers, tab[b].pc = "login"
        PROVE  /\ tab[b].user \in People
               /\ trust'[tab[b].user] \in Privileged \/ lostAt'[tab[b].user] = clock
    BY <1>2, <2>2 DEF AuthorityInv
  <2>3. ASSUME NEW b \in Browsers, sess[b] # NoSession
        PROVE  /\ sess[b].user \in People
               /\ sess[b].expires <= clock + SessionTTL
               /\ \/ trust'[sess[b].user] \in Privileged
                  \/ sess[b].expires <= lostAt'[sess[b].user] + SessionTTL
    BY <1>2, <2>3 DEF AuthorityInv
  <2>. QED  BY <2>1, <2>2, <2>3 DEF AuthorityInv
<1>. QED  BY <1>3, <1>4, <1>5

LEMMA PanelNextInv == PanelInv /\ [AdminNext]_adminVars => PanelInv'
<1>. SUFFICES ASSUME PanelInv, [AdminNext]_adminVars PROVE PanelInv'
  OBVIOUS
<1>. USE DEF PanelInv
<1>0. SessionTTL \in Nat /\ MagicTTL \in Nat /\ "none" \notin People
  BY AdminAssumption
<1>1. CASE UNCHANGED <<clock, trust, magic, tab, sess, lostAt, redeemed>>
  BY <1>1 DEF PanelTypes, TokenInv, AuthorityInv
<1>2. ASSUME NEW p \in People, NEW t \in MagicTokens, CmdBrowser(p, t) PROVE PanelInv'
  <2>. PICK m : m = [state |-> "fresh", user |-> p, expires |-> clock + MagicTTL]
    OBVIOUS
  <2>1. /\ magic' = [magic EXCEPT ![t] = m] /\ redeemed[t] = 0
        /\ UNCHANGED <<clock, trust, shell, tab, sess, lostAt, redeemed>>
    BY <1>2 DEF CmdBrowser
  <2>2. /\ m \in [state : {"absent", "fresh", "used"}, user : Somebody, expires : Nat]
        /\ m.user = p
    BY <1>0 DEF PanelTypes, Somebody
  <2>3. PanelTypes'
    BY <2>1, <2>2 DEF PanelTypes
  <2>4. TokenInv'
    BY <2>1, <2>2 DEF PanelTypes, TokenInv
  <2>5. AuthorityInv'
    BY <2>1 DEF AuthorityInv
  <2>. QED  BY <2>3, <2>4, <2>5
<1>3. ASSUME NEW b \in Browsers, NEW t \in MagicTokens, ValidateMagicToken(b, t) PROVE PanelInv'
  <2>. PICK m : m = [magic[t] EXCEPT !.state = "used"]
    OBVIOUS
  <2>. PICK n : n = IF trust[magic[t].user] \in Privileged
                    THEN [pc |-> "login", user |-> magic[t].user] ELSE NoTab
    OBVIOUS
  <2>1. /\ magic' = [magic EXCEPT ![t] = m] /\ magic[t].state = "fresh"
        /\ tab' = [tab EXCEPT ![b] = n] /\ redeemed' = [redeemed EXCEPT ![t] = redeemed[t] + 1]
        /\ UNCHANGED <<clock, trust, shell, sess, lostAt>>
    BY <1>3 DEF ValidateMagicToken
  <2>2. /\ m \in [state : {"absent", "fresh", "used"}, user : Somebody, expires : Nat]
        /\ m.state = "used"
    BY DEF PanelTypes
  <2>3. magic[t].user \in People /\ redeemed[t] = 0
    BY <2>1 DEF TokenInv
  <2>4. /\ n \in [pc : {"idle", "login"}, user : Somebody]
        /\ n.pc = "login" => n.user \in People /\ trust[n.user] \in Privileged
    BY <2>3 DEF Somebody, NoTab
  <2>5. PanelTypes'
    <3>1. redeemed' \in [MagicTokens -> Nat]
      BY <2>1, <2>3 DEF PanelTypes
    <3>. QED  BY <2>1, <2>2, <2>4, <3>1 DEF PanelTypes
  <2>6. TokenInv'
    BY <2>1, <2>2, <2>3 DEF PanelTypes, TokenInv
  <2>7. AuthorityInv'
    <3>1. \A a \in Browsers : tab'[a] = IF a = b THEN n ELSE tab[a]
      BY <2>1 DEF PanelTypes
    <3>. QED  BY <2>1, <2>4, <3>1 DEF AuthorityInv
  <2>. QED  BY <2>5, <2>6, <2>7
<1>4. ASSUME NEW b \in Browsers, CreateSession(b) PROVE PanelInv'
  <2>. PICK n : n = [user |-> tab[b].user, expires |-> clock + SessionTTL]
    OBVIOUS
  <2>1. /\ tab' = [tab EXCEPT ![b] = NoTab] /\ sess' = [sess EXCEPT ![b] = n]
        /\ tab[b].pc = "login" /\ UNCHANGED <<clock, trust, magic, lostAt, redeemed>>
    BY <1>4 DEF CreateSession
  <2>2. /\ tab[b].user \in People /\ clock \in Nat
        /\ trust[tab[b].user] \in Privileged \/ lostAt[tab[b].user] = clock
    BY <2>1 DEF AuthorityInv, PanelTypes
  <2>3. /\ n \in [user : Somebody, expires : Nat] /\ n.user = tab[b].user
        /\ n.expires = clock + SessionTTL
    BY <1>0, <2>2 DEF Somebody
  <2>4. NoTab \in [pc : {"idle", "login"}, user : Somebody] /\ NoTab.pc = "idle"
    BY DEF NoTab, Somebody
  <2>5. PanelTypes'
    BY <2>1, <2>3, <2>4 DEF PanelTypes
  <2>6. TokenInv'
    BY <2>1 DEF TokenInv
  <2>7. AuthorityInv'
    <3>1. \A a \in Browsers : /\ tab'[a] = IF a = b THEN NoTab ELSE tab[a]
                              /\ sess'[a] = IF a = b THEN n ELSE sess[a]
      BY <2>1 DEF PanelTypes
    <3>2. ASSUME NEW a \in Browsers, sess'[a] # NoSession
          PROVE  /\ sess'[a].user \in People
                 /\ sess'[a].expires <= clock + SessionTTL
                 /\ \/ trust[sess'[a].user] \in Privileged
                    \/ sess'[a].expires <= lostAt[sess'[a].user] + SessionTTL
      <4>1. CASE a = b
        BY <1>0, <2>2, <2>3, <3>1, <4>1
      <4>2. CASE a # b
        BY <3>1, <3>2, <4>2 DEF AuthorityInv
      <4>. QED  BY <4>1, <4>2
    <3>. QED  BY <2>1, <2>4, <3>1, <3>2 DEF AuthorityInv
  <2>. QED  BY <2>5, <2>6, <2>7
<1>5. ASSUME NEW p \in People, NEW l \in Levels,
             \/ \E by \in People : CmdAdminSetTrust(by, p, l)
             \/ \E b \in Browsers : HandleSetTrustLevel(b, p, l)
      PROVE  PanelInv'
  BY <1>5, SetTrustInv DEF CmdAdminSetTrust, HandleSetTrustLevel
<1>6. ASSUME \A b \in Browsers : sess'[b] \in {sess[b], NoSession} /\ tab'[b] \in {tab[b], NoTab},
             sess' = [b \in Browsers |-> sess'[b]], tab' = [b \in Browsers |-> tab'[b]],
             UNCHANGED <<clock, trust, magic, lostAt, redeemed>>
      PROVE  PanelInv'
  <2>1. /\ NoSession \in [user : Somebody, expires : Nat]
        /\ NoTab \in [pc : {"idle", "login"}, user : Somebody] /\ NoTab.pc = "idle"
    BY DEF NoSession, NoTab, Somebody
  <2>2. PanelTypes'
    BY <1>6, <2>1 DEF PanelTypes
  <2>3. TokenInv'
    BY <1>6 DEF TokenInv
  <2>4. AuthorityInv'
    BY <1>6, <2>1 DEF AuthorityInv
  <2>. QED  BY <2>2, <2>3, <2>4
<1>7. CASE CleanExpired \/ RestartPanel \/ \E b \in Browsers : HandleLogout(b)
  BY <1>6, <1>7 DEF CleanExpired, RestartPanel, HandleLogout, PanelTypes
<1>8. CASE CleanExpiredMagicTokens
  <2>1. /\ \A t \in MagicTokens : magic'[t] \in {magic[t], NoMagic}
        /\ magic' = [t \in MagicTokens |-> magic'[t]]
        /\ UNCHANGED <<clock, trust, tab, sess, lostAt, redeemed>>
    BY <1>8 DEF CleanExpiredMagicTokens
  <2>2. /\ NoMagic \in [state : {"absent", "fresh", "used"}, user : Somebody, expires : Nat]
        /\ NoMagic.state = "absent"
    BY DEF NoMagic, Somebody
  <2>3. PanelTypes'
    BY <2>1, <2>2 DEF PanelTypes
  <2>4. TokenInv'
    BY <2>1, <2>2 DEF TokenInv
  <2>5. AuthorityInv'
    BY <2>1 DEF AuthorityInv
  <2>. QED  BY <2>3, <2>4, <2>5
<1>9. CASE PassTime
  <2>1. /\ clock' = clock + 1 /\ clock \in Nat /\ \A b \in Browsers : tab[b].pc = "idle"
        /\ UNCHANGED <<trust, magic, tab, sess, lostAt, redeemed>>
    BY <1>9 DEF PassTime, PanelTypes
  <2>2. PanelTypes'
    BY <2>1 DEF PanelTypes
  <2>3. TokenInv'
    BY <2>1 DEF TokenInv
  <2>4. \A p \in People : lostAt[p] \in Nat
    BY DEF PanelTypes
  <2>5. \A b \in Browsers : sess[b].expires \in Nat
    BY DEF PanelTypes
  <2>6. AuthorityInv'
    BY <1>0, <2>1, <2>4, <2>5 DEF AuthorityInv
  <2>. QED  BY <2>2, <2>3, <2>6
<1>. QED  BY <1>1, <1>2, <1>3, <1>4, <1>5, <1>7, <1>8, <1>9
          DEF AdminNext, adminVars, OpenShell, CloseShell

LEMMA PanelInvariant == AdminSpec => []PanelInv
BY PanelInitInv, PanelNextInv, PTL DEF AdminSpec

(* A magic link is redeemed at most once, for every number of browsers     *)
(* that have it and however ValidateMagicToken, restarts and the cleanup   *)
(* of tokens interleave.                                                   *)
THEOREM MagicLinksWorkOnce == AdminSpec => []RedeemedOnce
<1>1. PanelInv => RedeemedOnce
  BY DEF PanelInv, TokenInv, RedeemedOnce
<1>. QED  BY <1>1, PanelInvariant, PTL

(* requireAuth lets nobody in more than sessionTTL after the level behind  *)
(* the session was taken away, for every lifetime of sessions and any      *)
(* number of accounts and browsers.                                        *)
THEOREM PanelAuthorityEnds == AdminSpec => []AuthorityExpires
<1>1. PanelInv => AuthorityExpires
  <2>. SUFFICES ASSUME PanelInv, NEW b \in Browsers, RequireAuth(b)
                PROVE  \/ trust[sess[b].user] \in Privileged
                       \/ clock <= lostAt[sess[b].user] + SessionTTL
    BY DEF AuthorityExpires
  <2>1. ~(clock > sess[b].expires) /\ sess[b] # NoSession
    BY DEF RequireAuth, Get
  <2>2. clock \in Nat /\ sess[b].expires \in Nat /\ SessionTTL \in Nat
    BY AdminAssumption DEF PanelInv, PanelTypes
  <2>3. /\ sess[b].user \in People
        /\ \/ trust[sess[b].user] \in Privileged
           \/ sess[b].expires <= lostAt[sess[b].user] + SessionTTL
    BY <2>1 DEF PanelInv, AuthorityInv
  <2>4. lostAt[sess[b].user] \in Nat
    BY <2>3 DEF PanelInv, PanelTypes
  <2>. QED  BY <2>1, <2>2, <2>3, <2>4
<1>. QED  BY <1>1, PanelInvariant, PTL

-----------------------------------------------------------------------------
(* Visits to a VM's page. *)

UnderWay == {"redeem", "public", "bearer", "cookie"}

RowRecord == [owner : WebUsers \cup {"none"}, name : WebNames \cup {"none"}]

VisitRecord == [pc : UnderWay \cup {"away", "granted"}, vm : WebVMs \cup {0},
                user : WebUsers \cup {"none", "unknown"},
                link : Links \cup {"none"}, may : SUBSET WebVMs]

VisitTypes ==
    /\ row \in [WebVMs -> RowRecord]
    /\ cookie \in [Visitors -> [WebVMs -> Links \cup {"none"}]]
    /\ visit \in [Visitors -> VisitRecord]

(* Whatever a visit under way would be granted now is among what it may be *)
(* granted; that set never shrinks, so a grant stays justified.            *)
VisitOK(b) ==
    /\ visit[b].pc \in UnderWay =>
          /\ visit[b].vm \in Rows
          /\ Entitled(share, visit[b].vm, visit[b].user, Held(b, visit[b].vm))
                => visit[b].vm \in visit[b].may
          /\ visit[b].pc = "bearer" => visit[b].user # "none"
    /\ visit[b].pc = "granted" => visit[b].vm \in visit[b].may

RowsOwned == \A v \in WebVMs : row[v] = NoVM \/ row[v].owner \in WebUsers

VisitInv == VisitTypes /\ RowsOwned /\ \A b \in Visitors : VisitOK(b)

LEMMA VisitInitInv == WebInit => VisitInv
<1>. SUFFICES ASSUME WebInit PROVE VisitInv
  OBVIOUS
<1>1. NoVM \in RowRecord
  BY DEF NoVM, RowRecord
<1>2. Away \in VisitRecord /\ Away.pc = "away"
  BY DEF Away, VisitRecord
<1>3. VisitTypes
  BY <1>1, <1>2 DEF WebInit, VisitTypes
<1>. QED  BY <1>2, <1>3 DEF WebInit, VisitInv, RowsOwned, VisitOK, UnderWay

(* A row that is there keeps its owner, whatever happens to its name. *)
RowsKept ==
    /\ row' \in [WebVMs -> RowRecord]
    /\ \A w \in WebVMs : row[w] # NoVM => row'[w] # NoVM /\ row'[w].owner = row[w].owner

LEMMA KeptByRename ==
    ASSUME VisitInv, NEW v \in WebVMs, Exists(v), NEW n \in WebNames \cup {"none"},
           row' = [row EXCEPT ![v].name = n]
    PROVE  RowsKept /\ RowsOwned'
<1>. PICK r : r = [row[v] EXCEPT !.name = n]
  OBVIOUS
<1>1. row \in [WebVMs -> RowRecord] /\ row[v] \in RowRecord /\ row' = [row EXCEPT ![v] = r]
  BY DEF VisitInv, VisitTypes
<1>2. row[v] # NoVM
  BY DEF Exists, NoVM
<1>3. row[v].owner \in WebUsers /\ "none" \notin WebUsers
  BY <1>2, WebAssumption DEF VisitInv, RowsOwned
<1>4. r \in RowRecord /\ r.owner = row[v].owner
  BY <1>1 DEF RowRecord
<1>5. r # NoVM
  BY <1>3, <1>4 DEF NoVM
<1>. QED  BY <1>1, <1>3, <1>4, <1>5 DEF RowsKept, RowsOwned, VisitInv

LEMMA KeptByCreate ==
    ASSUME VisitInv, NEW v \in WebVMs, NEW u \in WebUsers, NEW n \in WebNames, CreateVM(v, u, n)
    PROVE  RowsKept /\ RowsOwned'
<1>. PICK r : r = [owner |-> u, name |-> n]
  OBVIOUS
<1>1. row \in [WebVMs -> RowRecord] /\ row' = [row EXCEPT ![v] = r] /\ row[v] = NoVM
  BY WebAssumption DEF VisitInv, VisitTypes, CreateVM
<1>2. r \in RowRecord /\ r.owner = u
  BY DEF RowRecord
<1>. QED  BY <1>1, <1>2 DEF RowsKept, RowsOwned, VisitInv

LEMMA SameRows ==
    ASSUME VisitInv, UNCHANGED row
    PROVE  RowsKept /\ RowsOwned'
BY DEF VisitInv, VisitTypes, RowsKept, RowsOwned

(* Sharing changes, and with it what every visit under way may be granted. *)
LEMMA SharedInv ==
    ASSUME VisitInv, RowsKept, RowsOwned', NEW s, Shared(s), UNCHANGED cookie
    PROVE  VisitInv'
<1>0. cookie' = cookie /\ share' = s
  BY DEF Shared
<1>1. ASSUME NEW b \in Visitors
      PROVE  /\ visit'[b] \in VisitRecord /\ VisitOK(b)'
  <2>0. visit[b] \in VisitRecord /\ VisitOK(b)
    BY DEF VisitInv, VisitTypes
  <2>1. CASE visit[b].pc \in {"away", "granted"}
    <3>1. visit'[b] = visit[b]
      BY <2>1 DEF Shared
    <3>. QED  BY <2>0, <2>1, <3>1 DEF VisitOK, UnderWay
  <2>2. CASE visit[b].pc \notin {"away", "granted"}
    <3>. PICK m : m = visit[b].may \cup {v \in Rows : Entitled(s, v, visit[b].user, Held(b, v))}
      OBVIOUS
    <3>1. visit'[b] = [visit[b] EXCEPT !.may = m]
      BY <2>2 DEF Shared
    <3>2. m \in SUBSET WebVMs
      BY <2>0 DEF VisitRecord, Rows
    <3>3. /\ visit'[b] \in VisitRecord /\ visit'[b].pc = visit[b].pc
          /\ visit'[b].vm = visit[b].vm /\ visit'[b].user = visit[b].user
          /\ visit'[b].link = visit[b].link /\ visit'[b].may = m
      BY <2>0, <3>1, <3>2 DEF VisitRecord
    <3>. PICK v : v = visit[b].vm
      OBVIOUS
    <3>4. visit[b].pc \in UnderWay /\ v \in Rows /\ (visit[b].pc = "bearer" => visit[b].user # "none")
      BY <2>0, <2>2 DEF VisitOK, VisitRecord
    <3>5. v \in Rows' /\ row'[v].owner = row[v].owner
      BY <3>4 DEF Rows, RowsKept
    <3>6. Held(b, v)' = Held(b, v)
      BY <1>0, <3>3 DEF Held
    <3>7. Entitled(share, v, visit[b].user, Held(b, v))' => Entitled(s, v, visit[b].user, Held(b, v))
      BY <1>0, <3>3, <3>5, <3>6 DEF Entitled
    <3>. QED  BY <3>3, <3>4, <3>5, <3>7 DEF VisitOK, UnderWay
  <2>. QED  BY <2>1, <2>2
<1>2. visit' \in [Visitors -> VisitRecord]
  BY <1>1 DEF Shared
<1>. QED  BY <1>0, <1>1, <1>2 DEF VisitInv, VisitTypes, RowsKept

(* A visit goes on, or a row comes or is renamed. *)
LEMMA VisitStepInv ==
    ASSUME VisitInv, RowsKept, RowsOwned', UNCHANGED share,
           cookie' \in [Visitors -> [WebVMs -> Links \cup {"none"}]],
           visit' \in [Visitors -> VisitRecord],
           \A b \in Visitors :
              \/ visit'[b] = visit[b] /\ cookie'[b] = cookie[b]
              \/ VisitOK(b)'
    PROVE  VisitInv'
<1>1. ASSUME NEW b \in Visitors, visit'[b] = visit[b], cookie'[b] = cookie[b]
      PROVE  VisitOK(b)'
  <2>. PICK v : v = visit[b].vm
    OBVIOUS
  <2>1. v \in Rows => v \in WebVMs /\ v \in Rows' /\ row'[v].owner = row[v].owner
    BY DEF Rows, RowsKept
  <2>2. v \in Rows =>
          (Entitled(share, v, visit[b].user, Held(b, v))' <=> Entitled(share, v, visit[b].user, Held(b, v)))
    BY <1>1, <2>1 DEF Entitled, Held
  <2>. QED  BY <1>1, <2>1, <2>2 DEF VisitInv, VisitOK
<1>. QED  BY <1>1 DEF VisitInv, VisitTypes, RowsKept

LEMMA AnswerInv ==
    ASSUME VisitInv, NEW b \in Visitors, NEW l, Answer(b, l), UNCHANGED <<row, share>>,
           cookie' \in [Visitors -> [WebVMs -> Links \cup {"none"}]],
           \A a \in Visitors : a # b => cookie'[a] = cookie[a],
           l = "granted" => visit[b].vm \in visit[b].may
    PROVE  VisitInv'
<1>1. Away \in VisitRecord /\ Away.pc = "away"
  BY DEF Away, VisitRecord
<1>. PICK x : x = [visit[b] EXCEPT !.pc = "granted"]
  OBVIOUS
<1>2. visit \in [Visitors -> VisitRecord] /\ visit[b] \in VisitRecord
  BY DEF VisitInv, VisitTypes
<1>3. x \in VisitRecord /\ x.pc = "granted" /\ x.vm = visit[b].vm /\ x.may = visit[b].may
  BY <1>2 DEF VisitRecord
<1>4. visit' = [visit EXCEPT ![b] = IF l = "granted" THEN x ELSE Away]
  BY DEF Answer
<1>5. visit' \in [Visitors -> VisitRecord] /\ \A a \in Visitors : a # b => visit'[a] = visit[a]
  BY <1>1, <1>2, <1>3, <1>4
<1>6. VisitOK(b)'
  <2>1. visit'[b] = IF l = "granted" THEN x ELSE Away
    BY <1>2, <1>4
  <2>. QED  BY <1>1, <1>3, <2>1 DEF VisitOK, UnderWay
<1>. QED  BY <1>5, <1>6, SameRows, VisitStepInv

LEMMA VisitNextInv == VisitInv /\ [WebNext]_webVars => VisitInv'
<1>. SUFFICES ASSUME VisitInv, [WebNext]_webVars PROVE VisitInv'
  OBVIOUS
<1>0. /\ visit \in [Visitors -> VisitRecord]
      /\ cookie \in [Visitors -> [WebVMs -> Links \cup {"none"}]]
  BY DEF VisitInv, VisitTypes
<1>1. CASE UNCHANGED webVars
  BY <1>0, <1>1, SameRows, VisitStepInv DEF webVars
<1>2. ASSUME NEW v \in WebVMs, DeleteVM(v) PROVE VisitInv'
  BY <1>2, KeptByRename, SharedInv DEF DeleteVM
<1>3. ASSUME NEW v \in WebVMs, NEW n \in WebNames,
             RenameVM(v, n) \/ \E u \in WebUsers : CreateVM(v, u, n)
      PROVE  VisitInv'
  <2>1. RowsKept /\ RowsOwned'
    BY <1>3, KeptByRename, KeptByCreate DEF RenameVM
  <2>2. UNCHANGED <<share, spent, cookie, visit>>
    BY <1>3 DEF RenameVM, CreateVM
  <2>. QED  BY <1>0, <2>1, <2>2, VisitStepInv
<1>4. ASSUME NEW v \in WebVMs,
             \/ \E u \in WebUsers : ShareVMWithUser(v, u) \/ RemoveShareByVMAndUser(v, u)
             \/ \E l \in Links : ShareVMWithLink(v, l) \/ RemoveShareLink(v, l)
             \/ \E public \in BOOLEAN : SetVMPublic(v, public)
      PROVE  VisitInv'
  <2>1. PICK s : Shared(s) /\ UNCHANGED row /\ UNCHANGED cookie
    BY <1>4 DEF ShareVMWithUser, RemoveShareByVMAndUser, ShareVMWithLink, RemoveShareLink, SetVMPublic
  <2>. QED  BY <2>1, SameRows, SharedInv
<1>5. ASSUME NEW b \in Visitors, NEW v \in WebVMs, NEW n \in WebNames,
             NEW u \in WebUsers \cup {"none", "unknown"}, NEW l \in Links \cup {"none"},
             VMByName(b, n, v, u, l)
      PROVE  VisitInv'
  <2>. PICK m : m = {w \in Rows : Entitled(share, w, u, {cookie[b][w], l})}
    OBVIOUS
  <2>. PICK x : x = [pc |-> IF l # "none" THEN "redeem" ELSE "public",
                     vm |-> v, user |-> u, link |-> l, may |-> m]
    OBVIOUS
  <2>1. visit' = [visit EXCEPT ![b] = x] /\ UNCHANGED <<row, share, cookie>> /\ Exists(v)
    BY <1>5 DEF VMByName
  <2>2. m \in SUBSET WebVMs
    BY DEF Rows
  <2>3. /\ x \in VisitRecord /\ x.pc \in {"redeem", "public"} /\ x.vm = v /\ x.user = u
        /\ x.link = l /\ x.may = m
    BY <2>2 DEF VisitRecord, UnderWay
  <2>4. v \in Rows
    BY <2>1 DEF Exists, Rows, NoVM
  <2>5. visit'[b] = x /\ \A a \in Visitors : a # b => visit'[a] = visit[a]
    BY <1>0, <2>1
  <2>6. VisitOK(b)'
    BY <2>1, <2>3, <2>4, <2>5 DEF VisitOK, Held, Entitled, Rows, UnderWay
  <2>. QED  BY <1>0, <2>1, <2>3, <2>5, <2>6, SameRows, VisitStepInv
<1>6. ASSUME NEW b \in Visitors, RedeemLink(b) PROVE VisitInv'
  <2>1. /\ Answer(b, "redirected") /\ UNCHANGED <<row, share>>
        /\ visit[b].vm \in WebVMs /\ visit[b].link \in Links \cup {"none"}
    BY <1>0, <1>6 DEF RedeemLink, VisitInv, VisitOK, Rows, UnderWay, VisitRecord
  <2>2. /\ cookie' \in [Visitors -> [WebVMs -> Links \cup {"none"}]]
        /\ \A a \in Visitors : a # b => cookie'[a] = cookie[a]
    BY <1>0, <1>6, <2>1 DEF RedeemLink
  <2>. QED  BY <2>1, <2>2, AnswerInv
<1>7. ASSUME NEW b \in Visitors, IsVMPublic(b) \/ HasShareAccess(b) \/ CheckCookie(b)
      PROVE  VisitInv'
  <2>0. UNCHANGED <<row, share, cookie>> /\ cookie' \in [Visitors -> [WebVMs -> Links \cup {"none"}]]
    BY <1>0, <1>7 DEF IsVMPublic, HasShareAccess, CheckCookie
  <2>. PICK v : v = visit[b].vm
    OBVIOUS
  <2>1. /\ visit[b].pc \in UnderWay /\ v \in Rows
        /\ Entitled(share, v, visit[b].user, Held(b, v)) => v \in visit[b].may
        /\ visit[b].pc = "bearer" => visit[b].user # "none"
    BY <1>7 DEF IsVMPublic, HasShareAccess, CheckCookie, VisitInv, VisitOK, UnderWay
  <2>2. CASE IsVMPublic(b) /\ share[v].public
    <3>1. Answer(b, "granted") /\ v \in visit[b].may
      BY <2>1, <2>2 DEF IsVMPublic, Entitled
    <3>. QED  BY <2>0, <3>1, AnswerInv
  <2>3. CASE IsVMPublic(b) /\ ~share[v].public
    <3>. PICK l : l = IF visit[b].user # "none" THEN "bearer" ELSE "cookie"
      OBVIOUS
    <3>. PICK x : x = [visit[b] EXCEPT !.pc = l]
      OBVIOUS
    <3>1. visit' = [visit EXCEPT ![b] = x]
      BY <2>3 DEF IsVMPublic
    <3>2. visit[b] \in VisitRecord /\ l \in UnderWay
      BY <1>0 DEF UnderWay
    <3>3. /\ x \in VisitRecord /\ x.pc = l /\ x.vm = v /\ x.user = visit[b].user
          /\ x.link = visit[b].link /\ x.may = visit[b].may
      BY <3>2 DEF VisitRecord
    <3>4. visit'[b] = x /\ \A a \in Visitors : a # b => visit'[a] = visit[a]
      BY <1>0, <3>1
    <3>5. Rows' = Rows /\ Held(b, v)' = Held(b, v)
      BY <2>0, <3>3, <3>4 DEF Rows, Held
    <3>6. VisitOK(b)'
      BY <2>0, <2>1, <3>3, <3>4, <3>5 DEF VisitOK, Entitled, UnderWay
    <3>. QED  BY <1>0, <2>0, <3>1, <3>3, <3>4, <3>6, SameRows, VisitStepInv
  <2>4. CASE HasShareAccess(b)
    <3>1. PICK l : /\ Answer(b, l)
                   /\ l = "granted" => visit[b].user = row[v].owner \/ visit[b].user \in share[v].users
      BY <2>4 DEF HasShareAccess
    <3>2. l = "granted" => v \in visit[b].may
      BY <2>1, <2>4, <3>1 DEF Entitled, HasShareAccess
    <3>. QED  BY <2>0, <3>1, <3>2, AnswerInv
  <2>5. CASE CheckCookie(b)
    <3>1. PICK l : Answer(b, l) /\ (l = "granted" => cookie[b][v] \in share[v].links)
      BY <2>5 DEF CheckCookie
    <3>2. l = "granted" => v \in visit[b].may
      BY <2>1, <3>1 DEF Entitled, Held
    <3>. QED  BY <2>0, <3>1, <3>2, AnswerInv
  <2>. QED  BY <1>7, <2>2, <2>3, <2>4, <2>5
<1>. QED  BY <1>1, <1>2, <1>3, <1>4, <1>5, <1>6, <1>7 DEF WebNext

(* The forward_auth endpoint grants a page only to a visitor who was       *)
(* entitled to it at some moment of the request, for every number of VMs,  *)
(* users, links and concurrent visits.                                     *)
THEOREM PagesGrantedWithReason == WebSpec => []GrantsJustified
<1>1. VisitInv => GrantsJustified
  BY DEF VisitInv, VisitOK, GrantsJustified
<1>. QED  BY <1>1, VisitInitInv, VisitNextInv, PTL DEF WebSpec

-----------------------------------------------------------------------------
(* Accounts and their keys. *)

ConnRecord == [pc : {"closed", "ask", "create", "addkey", "shell", "insert", "count", "delete"},
               key : Keys \cup {"none"}, user : Handles \cup {"none"},
               arg : Handles \cup Keys \cup {"none"}, tries : Nat]

(* What a connection has at hand; a key it is removing is still its        *)
(* account's, unless somebody else has removed it (arg is then "none").    *)
ConnOK(x, o) ==
    /\ x \in ConnRecord
    /\ x.pc \in {"ask", "create", "addkey"} => x.key \in Keys
    /\ x.pc \in {"create", "addkey"} => x.arg \in Handles
    /\ x.pc \in {"shell", "insert", "count", "delete"} => x.user \in Handles
    /\ x.pc = "insert" => x.arg \in Keys
    /\ x.pc \in {"count", "delete"} => x.arg = "none" \/ (x.arg \in Keys /\ o[x.arg] = x.user)

(* A removal that has counted leaves the account another key. *)
Spares(x, o, e) ==
    x.pc = "delete" /\ x.user \notin e => \E k \in Keys : o[k] = x.user /\ k # x.arg

RemovesAlone ==
    \A c, d \in Conns :
        /\ conn[c].pc \in {"count", "delete"} /\ conn[d].pc \in {"count", "delete"}
        /\ conn[c].user = conn[d].user /\ conn[c].user \notin excused
        => c = d

AcctInv ==
    /\ users \subseteq Handles
    /\ owner \in [Keys -> Handles \cup {"none"}]
    /\ conn \in [Conns -> ConnRecord]
    /\ \A c \in Conns : ConnOK(conn[c], owner) /\ Spares(conn[c], owner, excused)
    /\ RemovesAlone
    /\ NobodyLockedOut

LEMMA AcctInitInv == AcctInit => AcctInv
<1>. SUFFICES ASSUME AcctInit PROVE AcctInv
  OBVIOUS
<1>1. NoConn \in ConnRecord /\ NoConn.pc = "closed"
  BY DEF NoConn, ConnRecord
<1>2. conn \in [Conns -> ConnRecord] /\ \A c \in Conns : conn[c] = NoConn
  BY <1>1 DEF AcctInit
<1>3. \A c \in Conns : ConnOK(conn[c], owner) /\ Spares(conn[c], owner, excused)
  BY <1>1, <1>2 DEF ConnOK, Spares
<1>4. RemovesAlone
  BY <1>1, <1>2 DEF RemovesAlone
<1>. QED  BY <1>2, <1>3, <1>4 DEF AcctInit, AcctInv, NobodyLockedOut

(* One connection makes a step that takes no key from anybody. *)
LEMMA ConnStepInv ==
    ASSUME AcctInv, NEW c \in Conns, NEW x, conn' = [conn EXCEPT ![c] = x],
           owner' \in [Keys -> Handles \cup {"none"}],
           \A k \in Keys : owner[k] # "none" => owner'[k] = owner[k],
           excused \subseteq excused',
           ConnOK(x, owner'), Spares(x, owner', excused'),
           x.pc \in {"count", "delete"} =>
              /\ x.user = conn[c].user
              /\ \/ conn[c].pc \in {"count", "delete"}
                 \/ Removing(c) = {} \/ conn[c].user \in excused',
           conn[c].pc = "addkey" =>
              conn[c].arg \in excused' \/ \E k \in Keys : owner'[k] = conn[c].arg,
           \/ UNCHANGED users
           \/ users' = users \cup {x.arg} /\ x.pc = "addkey"
    PROVE  AcctInv'
<1>. USE DEF AcctInv
<1>0. "none" \notin Handles /\ "none" \notin Keys
  BY AccountsAssumption
<1>1. /\ x \in ConnRecord /\ conn' \in [Conns -> ConnRecord] /\ conn'[c] = x
      /\ \A d \in Conns : d # c => conn'[d] = conn[d]
  BY DEF ConnOK
<1>2. users' \subseteq Handles
  BY DEF ConnOK
<1>3. ASSUME NEW d \in Conns
      PROVE  ConnOK(conn'[d], owner') /\ Spares(conn'[d], owner', excused')
  <2>1. CASE d = c
    BY <1>1, <2>1
  <2>2. CASE d # c
    <3>. PICK y : y = conn[d]
      OBVIOUS
    <3>1. conn'[d] = y /\ ConnOK(y, owner) /\ Spares(y, owner, excused)
      BY <1>1, <2>2
    <3>2. y.pc \in {"count", "delete"} => y.user \in Handles
      BY <3>1 DEF ConnOK
    <3>3. ConnOK(y, owner')
      BY <1>0, <3>1 DEF ConnOK
    <3>4. Spares(y, owner', excused')
      BY <1>0, <3>1, <3>2 DEF Spares
    <3>. QED  BY <3>1, <3>3, <3>4
  <2>. QED  BY <2>1, <2>2
<1>4. RemovesAlone'
  <2>1. ASSUME NEW d \in Conns, d # c, conn[d].pc \in {"count", "delete"}, x.pc \in {"count", "delete"},
               conn[d].user = x.user, x.user \notin excused'
        PROVE  FALSE
    <3>1. conn[c].pc \in {"count", "delete"} \/ Removing(c) = {}
      BY <2>1
    <3>2. CASE conn[c].pc \in {"count", "delete"}
      BY <2>1, <3>2 DEF RemovesAlone
    <3>3. CASE Removing(c) = {}
      BY <2>1, <3>3 DEF Removing
    <3>. QED  BY <3>1, <3>2, <3>3
  <2>2. ASSUME NEW a \in Conns, NEW b \in Conns,
               conn'[a].pc \in {"count", "delete"}, conn'[b].pc \in {"count", "delete"},
               conn'[a].user = conn'[b].user, conn'[a].user \notin excused'
        PROVE  a = b
    <3>1. CASE a = c
      BY <1>1, <2>1, <2>2, <3>1
    <3>2. CASE b = c
      BY <1>1, <2>1, <2>2, <3>2
    <3>3. CASE a # c /\ b # c
      BY <1>1, <2>2, <3>3 DEF RemovesAlone
    <3>. QED  BY <3>1, <3>2, <3>3
  <2>. QED  BY <2>2 DEF RemovesAlone
<1>5. NobodyLockedOut'
  <2>. SUFFICES ASSUME NEW u \in users', u \notin excused'
                PROVE  \/ \E k \in Keys : owner'[k] = u
                       \/ \E d \in Conns : conn'[d].pc = "addkey" /\ conn'[d].arg = u
    BY DEF NobodyLockedOut, KeysOf, InState
  <2>1. CASE u \notin users
    BY <1>1, <2>1
  <2>2. CASE u \in users
    <3>1. u # "none"
      BY <1>0, <2>2
    <3>2. \/ \E k \in Keys : owner[k] = u
          \/ \E d \in Conns : conn[d].pc = "addkey" /\ conn[d].arg = u
      BY <2>2 DEF NobodyLockedOut, KeysOf, InState
    <3>. QED  BY <1>1, <3>1, <3>2
  <2>. QED  BY <2>1, <2>2
<1>. QED  BY <1>1, <1>2, <1>3, <1>4, <1>5

(* The steps of a connection. *)
LEMMA ConnActionsInv ==
    ASSUME AcctInv, NEW c \in Conns,
           \/ \E k \in Keys, t \in BOOLEAN, l \in {"answered", "failed"} : Connect(c, k, t, l)
           \/ \E h \in Handles \cup {"malformed"} : HandleExists(c, h)
           \/ CreateUser(c) \/ RegisterKey(c)
           \/ \E k \in Keys : BeginAdd(c, k) \/ BeginRemove(c, k)
           \/ AddSSHKey(c) \/ CountKeys(c) \/ Disconnect(c)
    PROVE  AcctInv'
<1>. PICK y : y = conn[c]
  OBVIOUS
<1>0. /\ "none" \notin Handles /\ "none" \notin Keys
      /\ owner \in [Keys -> Handles \cup {"none"}] /\ conn \in [Conns -> ConnRecord]
      /\ y \in ConnRecord /\ ConnOK(y, owner) /\ Spares(y, owner, excused)
  BY AccountsAssumption DEF AcctInv
<1>n. /\ NoConn \in ConnRecord /\ NoConn.pc = "closed"
  BY DEF NoConn, ConnRecord
<1>c. ASSUME Close(c), UNCHANGED <<owner, users>>, excused \subseteq excused',
             y.pc = "addkey" => y.arg \in excused'
      PROVE  AcctInv'
  <2>1. ConnOK(NoConn, owner') /\ Spares(NoConn, owner', excused')
    BY <1>n DEF ConnOK, Spares
  <2>. QED  BY <1>0, <1>c, <1>n, <2>1, ConnStepInv DEF Close
<1>1. ASSUME NEW k \in Keys, NEW t \in BOOLEAN, NEW l \in {"answered", "failed"}, Connect(c, k, t, l)
      PROVE  AcctInv'
  <2>. PICK x : x = [NoConn EXCEPT !.pc = IF owner[k] = "none" THEN "ask" ELSE "shell",
                                   !.key = k, !.user = owner[k]]
    OBVIOUS
  <2>1. /\ conn' = [conn EXCEPT ![c] = x] /\ y.pc = "closed"
        /\ UNCHANGED <<users, owner, excused>>
    BY <1>1 DEF Connect, InState
  <2>2. /\ x \in ConnRecord /\ x.pc = (IF owner[k] = "none" THEN "ask" ELSE "shell")
        /\ x.key = k /\ x.user = owner[k]
    <3>1. owner[k] \in Handles \cup {"none"}
      BY <1>0
    <3>2. CASE owner[k] = "none"
      BY <1>n, <3>1, <3>2 DEF ConnRecord
    <3>3. CASE owner[k] # "none"
      BY <1>n, <3>1, <3>3 DEF ConnRecord
    <3>. QED  BY <3>2, <3>3
  <2>3. ConnOK(x, owner') /\ Spares(x, owner', excused')
    BY <1>0, <2>1, <2>2 DEF ConnOK, Spares
  <2>4. x.pc \notin {"count", "delete"} /\ conn[c].pc # "addkey"
    BY <2>1, <2>2
  <2>. QED  BY <1>0, <2>1, <2>3, <2>4, ConnStepInv
<1>2. ASSUME NEW h \in Handles \cup {"malformed"}, HandleExists(c, h) PROVE AcctInv'
  <2>0. y.pc = "ask" /\ y.key \in Keys /\ UNCHANGED <<users, owner, excused>>
    BY <1>0, <1>2 DEF HandleExists, InState, ConnOK
  <2>1. CASE Close(c)
    BY <1>c, <2>0, <2>1
  <2>2. CASE conn' = [conn EXCEPT ![c] = [y EXCEPT !.tries = y.tries + 1]]
    <3>. PICK x : x = [y EXCEPT !.tries = y.tries + 1]
      OBVIOUS
    <3>1. x \in ConnRecord /\ x.pc = "ask" /\ x.key = y.key
      BY <1>0, <2>0 DEF ConnRecord
    <3>2. ConnOK(x, owner') /\ Spares(x, owner', excused')
      BY <2>0, <3>1 DEF ConnOK, Spares
    <3>. QED  BY <1>0, <2>0, <2>2, <3>1, <3>2, ConnStepInv
  <2>3. CASE h \notin users \cup {"malformed"} /\ StepArg(c, "create", h)
    <3>. PICK x : x = [y EXCEPT !.pc = "create", !.arg = h]
      OBVIOUS
    <3>1. x \in ConnRecord /\ x.pc = "create" /\ x.key = y.key /\ x.arg = h /\ h \in Handles
      BY <1>0, <2>3 DEF ConnRecord
    <3>2. conn' = [conn EXCEPT ![c] = x]
      BY <1>0, <2>3 DEF StepArg
    <3>3. ConnOK(x, owner') /\ Spares(x, owner', excused')
      BY <2>0, <3>1 DEF ConnOK, Spares
    <3>. QED  BY <1>0, <2>0, <3>1, <3>2, <3>3, ConnStepInv
  <2>. QED  BY <1>2, <2>1, <2>2, <2>3 DEF HandleExists
<1>3. CASE CreateUser(c)
  <2>0. y.pc = "create" /\ y.key \in Keys /\ y.arg \in Handles /\ UNCHANGED <<owner, excused>>
    BY <1>0, <1>3 DEF CreateUser, InState, ConnOK
  <2>1. CASE Close(c) /\ UNCHANGED users
    BY <1>c, <2>0, <2>1
  <2>2. CASE Step(c, "addkey") /\ users' = users \cup {y.arg}
    <3>. PICK x : x = [y EXCEPT !.pc = "addkey"]
      OBVIOUS
    <3>1. x \in ConnRecord /\ x.pc = "addkey" /\ x.key = y.key /\ x.arg = y.arg
      BY <1>0 DEF ConnRecord
    <3>2. conn' = [conn EXCEPT ![c] = x]
      BY <2>2 DEF Step
    <3>3. ConnOK(x, owner') /\ Spares(x, owner', excused')
      BY <2>0, <3>1 DEF ConnOK, Spares
    <3>. QED  BY <1>0, <2>0, <2>2, <3>1, <3>2, <3>3, ConnStepInv
  <2>. QED  BY <1>3, <2>1, <2>2 DEF CreateUser
<1>4. CASE RegisterKey(c)
  <2>0. y.pc = "addkey" /\ y.key \in Keys /\ y.arg \in Handles /\ UNCHANGED users
    BY <1>0, <1>4 DEF RegisterKey, InState, ConnOK
  <2>1. CASE owner[y.key] # "none"
    <3>1. Close(c) /\ excused' = excused \cup {y.arg} /\ UNCHANGED owner
      BY <1>4, <2>1 DEF RegisterKey
    <3>. QED  BY <1>c, <2>0, <3>1
  <2>2. CASE owner[y.key] = "none"
    <3>. PICK x : x = [y EXCEPT !.pc = "shell", !.user = y.arg, !.arg = "none", !.tries = 0]
      OBVIOUS
    <3>1. /\ conn' = [conn EXCEPT ![c] = x] /\ owner' = [owner EXCEPT ![y.key] = y.arg]
          /\ UNCHANGED excused
      BY <1>4, <2>2 DEF RegisterKey
    <3>2. x \in ConnRecord /\ x.pc = "shell" /\ x.user = y.arg
      BY <1>0, <2>0 DEF ConnRecord
    <3>3. ConnOK(x, owner') /\ Spares(x, owner', excused')
      BY <2>0, <3>2 DEF ConnOK, Spares
    <3>4. /\ owner' \in [Keys -> Handles \cup {"none"}] /\ owner'[y.key] = y.arg
          /\ \A k \in Keys : owner[k] # "none" => owner'[k] = owner[k]
      BY <1>0, <2>0, <2>2, <3>1
    <3>. QED  BY <2>0, <3>1, <3>2, <3>3, <3>4, ConnStepInv
  <2>. QED  BY <2>1, <2>2
<1>5. ASSUME NEW k \in Keys, BeginAdd(c, k) PROVE AcctInv'
  <2>. PICK x : x = [y EXCEPT !.pc = "insert", !.arg = k]
    OBVIOUS
  <2>1. /\ conn' = [conn EXCEPT ![c] = x] /\ y.pc = "shell" /\ y.user \in Handles
        /\ UNCHANGED <<users, owner, excused>>
    BY <1>0, <1>5 DEF BeginAdd, StepArg, InState, ConnOK
  <2>2. x \in ConnRecord /\ x.pc = "insert" /\ x.arg = k /\ x.user = y.user
    BY <1>0 DEF ConnRecord
  <2>3. ConnOK(x, owner') /\ Spares(x, owner', excused')
    BY <2>1, <2>2 DEF ConnOK, Spares
  <2>. QED  BY <1>0, <2>1, <2>2, <2>3, ConnStepInv
<1>6. ASSUME NEW k \in Keys, BeginRemove(c, k) PROVE AcctInv'
  <2>. PICK x : x = [y EXCEPT !.pc = "count", !.arg = k]
    OBVIOUS
  <2>1. /\ conn' = [conn EXCEPT ![c] = x] /\ y.pc = "shell" /\ y.user \in Handles
        /\ owner[k] = y.user /\ UNCHANGED <<users, owner>>
        /\ excused' = IF Removing(c) = {} THEN excused ELSE excused \cup {y.user}
    BY <1>0, <1>6 DEF BeginRemove, StepArg, InState, ConnOK
  <2>2. x \in ConnRecord /\ x.pc = "count" /\ x.arg = k /\ x.user = y.user
    BY <1>0 DEF ConnRecord
  <2>3. ConnOK(x, owner') /\ Spares(x, owner', excused')
    BY <2>1, <2>2 DEF ConnOK, Spares
  <2>4. Removing(c) = {} \/ conn[c].user \in excused'
    BY <2>1
  <2>. QED  BY <1>0, <2>1, <2>2, <2>3, <2>4, ConnStepInv
<1>7. CASE AddSSHKey(c)
  <2>. PICK x : x = [y EXCEPT !.pc = "shell", !.arg = "none"]
    OBVIOUS
  <2>1. /\ conn' = [conn EXCEPT ![c] = x] /\ y.pc = "insert" /\ y.user \in Handles /\ y.arg \in Keys
        /\ owner' = [owner EXCEPT ![y.arg] = IF owner[y.arg] = "none" THEN y.user ELSE owner[y.arg]]
        /\ UNCHANGED <<users, excused>>
    BY <1>0, <1>7 DEF AddSSHKey, StepArg, InState, ConnOK
  <2>2. x \in ConnRecord /\ x.pc = "shell" /\ x.user = y.user
    BY <1>0 DEF ConnRecord
  <2>3. ConnOK(x, owner') /\ Spares(x, owner', excused')
    BY <2>1, <2>2 DEF ConnOK, Spares
  <2>4. /\ owner' \in [Keys -> Handles \cup {"none"}]
        /\ \A k \in Keys : owner[k] # "none" => owner'[k] = owner[k]
    BY <1>0, <2>1
  <2>. QED  BY <2>1, <2>2, <2>3, <2>4, ConnStepInv
<1>8. CASE CountKeys(c)
  <2>0. /\ y.pc = "count" /\ y.user \in Handles /\ UNCHANGED <<users, owner, excused>>
        /\ y.arg = "none" \/ (y.arg \in Keys /\ owner[y.arg] = y.user)
    BY <1>0, <1>8 DEF CountKeys, InState, ConnOK
  <2>1. CASE Cardinality(KeysOf(y.user)) <= 1
    <3>. PICK x : x = [y EXCEPT !.pc = "shell", !.arg = "none"]
      OBVIOUS
    <3>1. conn' = [conn EXCEPT ![c] = x]
      BY <1>8, <2>1 DEF CountKeys, StepArg
    <3>2. x \in ConnRecord /\ x.pc = "shell" /\ x.user = y.user
      BY <1>0 DEF ConnRecord
    <3>3. ConnOK(x, owner') /\ Spares(x, owner', excused')
      BY <2>0, <3>2 DEF ConnOK, Spares
    <3>. QED  BY <1>0, <2>0, <3>1, <3>2, <3>3, ConnStepInv
  <2>2. CASE ~(Cardinality(KeysOf(y.user)) <= 1)
    <3>. PICK x : x = [y EXCEPT !.pc = "delete"]
      OBVIOUS
    <3>1. conn' = [conn EXCEPT ![c] = x]
      BY <1>8, <2>2 DEF CountKeys, Step
    <3>2. x \in ConnRecord /\ x.pc = "delete" /\ x.user = y.user /\ x.arg = y.arg
      BY <1>0 DEF ConnRecord
    <3>3. \E k \in Keys : owner[k] = y.user /\ k # y.arg
      <4>. SUFFICES ASSUME \A k \in Keys : owner[k] = y.user => k = y.arg PROVE FALSE
        OBVIOUS
      <4>1. KeysOf(y.user) = {} \/ KeysOf(y.user) = {y.arg}
        BY DEF KeysOf
      <4>2. Cardinality({}) = 0 /\ Cardinality({y.arg}) = 1
        BY FS_EmptySet, FS_Singleton
      <4>. QED  BY <2>2, <4>1, <4>2
    <3>4. ConnOK(x, owner') /\ Spares(x, owner', excused')
      BY <2>0, <3>2, <3>3 DEF ConnOK, Spares
    <3>. QED  BY <1>0, <2>0, <3>1, <3>2, <3>4, ConnStepInv
  <2>. QED  BY <2>1, <2>2
<1>9. CASE Disconnect(c)
  BY <1>c, <1>9 DEF Disconnect
<1>. QED  BY <1>1, <1>2, <1>3, <1>4, <1>5, <1>6, <1>7, <1>8, <1>9

(* The key goes, and no other removal will take one in its name. *)
LEMMA DeleteKeyInv ==
    ASSUME AcctInv, NEW c \in Conns, DeleteSSHKey(c)
    PROVE  AcctInv'
<1>. USE DEF AcctInv
<1>. PICK k : k = conn[c].arg
  OBVIOUS
<1>0. /\ "none" \notin Handles /\ "none" \notin Keys
      /\ conn[c].pc = "delete" /\ conn[c].user \in Handles
      /\ k = "none" \/ (k \in Keys /\ owner[k] = conn[c].user)
      /\ UNCHANGED <<users, excused>>
  BY AccountsAssumption DEF DeleteSSHKey, InState, ConnOK
<1>1. /\ owner' \in [Keys -> Handles \cup {"none"}]
      /\ \A l \in Keys : owner'[l] = IF l = k THEN "none" ELSE owner[l]
  BY DEF DeleteSSHKey
<1>2. ASSUME NEW d \in Conns
      PROVE  /\ conn'[d] \in ConnRecord /\ conn'[d].user = conn[d].user /\ conn'[d].key = conn[d].key
             /\ IF d = c THEN conn'[d].pc = "shell" ELSE conn'[d].pc = conn[d].pc
             /\ d # c => conn'[d].arg = IF conn[d].pc \in {"count", "delete"} /\ conn[d].arg = k
                                        THEN "none" ELSE conn[d].arg
  <2>. PICK y : y = conn[d]
    OBVIOUS
  <2>0. y \in ConnRecord
    OBVIOUS
  <2>1. CASE d = c
    <3>1. conn'[d] = [y EXCEPT !.pc = "shell", !.arg = "none"]
      BY <2>1 DEF DeleteSSHKey
    <3>. QED  BY <2>0, <2>1, <3>1 DEF ConnRecord
  <2>2. CASE d # c /\ conn[d].pc \in {"count", "delete"} /\ conn[d].arg = k
    <3>1. conn'[d] = [y EXCEPT !.arg = "none"]
      BY <2>2 DEF DeleteSSHKey
    <3>. QED  BY <2>0, <2>2, <3>1 DEF ConnRecord
  <2>3. CASE d # c /\ ~(conn[d].pc \in {"count", "delete"} /\ conn[d].arg = k)
    <3>1. conn'[d] = y
      BY <2>3 DEF DeleteSSHKey
    <3>. QED  BY <2>0, <2>3, <3>1
  <2>. QED  BY <2>1, <2>2, <2>3
<1>3. conn' \in [Conns -> ConnRecord]
  BY <1>2 DEF DeleteSSHKey
<1>4. RemovesAlone'
  BY <1>0, <1>2 DEF RemovesAlone
<1>5. ASSUME NEW d \in Conns PROVE ConnOK(conn'[d], owner')
  <2>1. ConnOK(conn[d], owner)
    OBVIOUS
  <2>. QED  BY <1>0, <1>1, <1>2, <2>1 DEF ConnOK
<1>6. ASSUME NEW d \in Conns PROVE Spares(conn'[d], owner', excused')
  <2>. SUFFICES ASSUME conn'[d].pc = "delete", conn'[d].user \notin excused'
                PROVE  \E l \in Keys : owner'[l] = conn'[d].user /\ l # conn'[d].arg
    BY DEF Spares
  <2>1. d # c /\ conn[d].pc = "delete" /\ conn[d].user \notin excused /\ conn[d].user \in Handles
    BY <1>0, <1>2 DEF ConnOK
  <2>2. conn[d].user # conn[c].user
    BY <1>0, <2>1 DEF RemovesAlone
  <2>3. PICK l \in Keys : owner[l] = conn[d].user /\ l # conn[d].arg
    BY <2>1 DEF Spares
  <2>4. l # k
    BY <1>0, <2>2, <2>3
  <2>. QED  BY <1>0, <1>1, <1>2, <2>1, <2>3, <2>4
<1>7. NobodyLockedOut'
  <2>. SUFFICES ASSUME NEW u \in users, u \notin excused
                PROVE  \/ \E l \in Keys : owner'[l] = u
                       \/ \E d \in Conns : conn'[d].pc = "addkey" /\ conn'[d].arg = u
    BY <1>0 DEF NobodyLockedOut, KeysOf, InState
  <2>1. CASE u = conn[c].user
    <3>1. PICK l \in Keys : owner[l] = u /\ l # k
      BY <1>0, <2>1 DEF Spares
    <3>. QED  BY <1>1, <3>1
  <2>2. CASE u # conn[c].user
    <3>1. \/ \E l \in Keys : owner[l] = u
          \/ \E d \in Conns : conn[d].pc = "addkey" /\ conn[d].arg = u
      BY DEF NobodyLockedOut, KeysOf, InState
    <3>. QED  BY <1>0, <1>1, <1>2, <2>2, <3>1
  <2>. QED  BY <2>1, <2>2
<1>. QED  BY <1>0, <1>1, <1>3, <1>4, <1>5, <1>6, <1>7

LEMMA RestartInv ==
    ASSUME AcctInv, Restart
    PROVE  AcctInv'
<1>. USE DEF AcctInv
<1>1. NoConn \in ConnRecord /\ NoConn.pc = "closed"
  BY DEF NoConn, ConnRecord
<1>2. conn' \in [Conns -> ConnRecord] /\ \A c \in Conns : conn'[c] = NoConn
  BY <1>1 DEF Restart
<1>3. \A c \in Conns : ConnOK(conn'[c], owner') /\ Spares(conn'[c], owner', excused')
  BY <1>1, <1>2 DEF ConnOK, Spares
<1>4. RemovesAlone'
  BY <1>1, <1>2 DEF RemovesAlone
<1>5. NobodyLockedOut'
  BY DEF Restart, NobodyLockedOut, KeysOf, InState
<1>. QED  BY <1>2, <1>3, <1>4, <1>5 DEF Restart

LEMMA AcctNextInv == AcctInv /\ [AcctNext]_acctVars => AcctInv'
<1>. SUFFICES ASSUME AcctInv, [AcctNext]_acctVars PROVE AcctInv'
  OBVIOUS
<1>1. CASE UNCHANGED acctVars
  BY <1>1 DEF acctVars, AcctInv, RemovesAlone, NobodyLockedOut, KeysOf, InState
<1>2. CASE AcctNext
  BY <1>2, ConnActionsInv, DeleteKeyInv, RestartInv DEF AcctNext
<1>. QED  BY <1>1, <1>2

(* No account loses its last key, or never gets one, but by a crash within *)
(* its registration, a race for its key or overlapping removals: for every *)
(* number of accounts, keys and connections.                               *)
THEOREM AccountsKeepAKey == AcctSpec => []NobodyLockedOut
<1>1. AcctInv => NobodyLockedOut
  BY DEF AcctInv
<1>. QED  BY <1>1, AcctInitInv, AcctNextInv, PTL DEF AcctSpec

-----------------------------------------------------------------------------
(* Commands of the API: tokens. *)

Authorised == {"finger", "limit", "allow", "retry", "check", "execute"}

ReqRecord == [pc : Authorised \cup {"auth"}, token : ApiTokens, cmd : ApiCmds,
              key : ApiKeys \cup {NoKey}, slot : {0, 1, NoSlot}, good : BOOLEAN]

(* A request that has not been judged yet is marked good at the latest     *)
(* when its token becomes good; one that has been judged is marked.        *)
ReqOK(x) ==
    /\ x \in ReqRecord
    /\ x.pc = "auth" /\ Good(x.token) => x.good = TRUE
    /\ x.pc \in Authorised => x.good = TRUE /\ Begun(x.token)
    /\ x.pc \in {"limit", "allow", "retry"} => x.key \in ApiKeys
    /\ x.pc = "execute" => x.token.cmds = {} \/ x.cmd \in x.token.cmds

ReqInv ==
    /\ now \in Int
    /\ signing \in [ApiUsers -> SUBSET ApiKeys]
    /\ slotOf \in [ApiKeys -> {0, 1, NoSlot}]
    /\ req = [r \in Reqs |-> req[r]]
    /\ \A r \in Reqs : req[r] = Idle \/ ReqOK(req[r])

LEMMA ReqInitInv == ApiInit => ReqInv
<1>. SUFFICES ASSUME ApiInit PROVE ReqInv
  OBVIOUS
<1>1. signing \in [ApiUsers -> SUBSET ApiKeys]
  BY ApiAssumption DEF ApiInit
<1>. QED  BY <1>1 DEF ApiInit, ReqInv

(* One request moves on; tokens, keys and time stay. *)
LEMMA ReqMoves ==
    ASSUME ReqInv, NEW r \in Reqs, NEW x, x = Idle \/ ReqOK(x),
           req' = [req EXCEPT ![r] = x], UNCHANGED <<now, revoked, signing>>,
           slotOf' \in [ApiKeys -> {0, 1, NoSlot}]
    PROVE  ReqInv'
<1>1. \A y : ReqOK(y)' <=> ReqOK(y)
  BY DEF ReqOK, Good, Unexpired, Begun
<1>2. \A q \in Reqs : req'[q] = IF q = r THEN x ELSE req[q]
  BY DEF ReqInv
<1>3. req' = [q \in Reqs |-> req'[q]]
  BY DEF ReqInv
<1>. QED  BY <1>1, <1>2, <1>3 DEF ReqInv, Idle

(* Other requests wait; a token may cease to be good. *)
LEMMA ReqsWait ==
    ASSUME ReqInv, UNCHANGED req, now' \in Int, signing' \in [ApiUsers -> SUBSET ApiKeys],
           \A t \in ApiTokens : (Good(t)' => Good(t)) /\ (Begun(t) => Begun(t)'),
           slotOf' \in [ApiKeys -> {0, 1, NoSlot}]
    PROVE  ReqInv'
<1>1. \A r \in Reqs : ReqOK(req[r]) => ReqOK(req[r])'
  BY DEF ReqOK, ReqRecord
<1>. QED  BY <1>1 DEF ReqInv, Idle

LEMMA ReqNextInv == ReqInv /\ [ApiNext]_apiVars => ReqInv'
<1>. SUFFICES ASSUME ReqInv, [ApiNext]_apiVars PROVE ReqInv'
  OBVIOUS
<1>0. NoSlot = 2 /\ NoKey = "none" /\ slotOf \in [ApiKeys -> {0, 1, NoSlot}]
  BY DEF NoSlot, NoKey, ReqInv
<1>1. CASE UNCHANGED <<now, revoked, signing, req>> /\ slotOf' \in [ApiKeys -> {0, 1, NoSlot}]
  <2>1. \A t \in ApiTokens : (Good(t)' => Good(t)) /\ (Begun(t) => Begun(t)')
    BY <1>1 DEF Good, Unexpired, Begun
  <2>. QED  BY <1>1, <2>1, ReqsWait DEF ReqInv
<1>2. CASE PassTick
  <2>1. now' = now + 1 /\ UNCHANGED <<revoked, signing, req, slotOf>> /\ now \in Int
    BY <1>2 DEF PassTick, ReqInv
  <2>2. ASSUME NEW t \in ApiTokens PROVE (Good(t)' => Good(t)) /\ (Begun(t) => Begun(t)')
    <3>1. (now + 1 <= t.exp => now <= t.exp) /\ (now >= t.nbf => now + 1 >= t.nbf)
      BY <2>1, ApiAssumption
    <3>. QED  BY <2>1, <3>1 DEF Good, Unexpired, Begun
  <2>. QED  BY <2>1, <2>2, ReqsWait DEF ReqInv
<1>3. ASSUME NEW t \in ApiTokens, RevokeAPIToken(t) PROVE ReqInv'
  <2>1. revoked' = revoked \cup {t} /\ UNCHANGED <<now, signing, req, slotOf>>
    BY <1>3 DEF RevokeAPIToken
  <2>2. \A u \in ApiTokens : (Good(u)' => Good(u)) /\ (Begun(u) => Begun(u)')
    BY <2>1 DEF Good, Unexpired, Begun
  <2>. QED  BY <2>1, <2>2, ReqsWait DEF ReqInv
<1>4. ASSUME NEW t \in ApiTokens, ChangeKeys(t.user, t.key) PROVE ReqInv'
  <2>. PICK u : u = t.user
    OBVIOUS
  <2>. PICK k : k = t.key
    OBVIOUS
  <2>1. /\ signing' = [signing EXCEPT ![u] = IF k \in signing[u] THEN signing[u] \ {k}
                                             ELSE signing[u] \cup {k}]
        /\ k \in ApiKeys /\ u \in ApiUsers /\ UNCHANGED <<now, revoked, slotOf>>
        /\ req' = [r \in Reqs |-> req'[r]]
    BY <1>4, ApiAssumption DEF ChangeKeys, ApiUsers
  <2>2. signing' \in [ApiUsers -> SUBSET ApiKeys]
    BY <2>1 DEF ReqInv
  <2>3. ASSUME NEW r \in Reqs PROVE req'[r] = Idle \/ ReqOK(req[r])'
    <3>. PICK x : x = req[r]
      OBVIOUS
    <3>1. CASE x = Idle
      <4>1. req'[r] = Idle
        BY <1>4, <3>1 DEF ChangeKeys
      <4>. QED  BY <4>1
    <3>2. CASE x # Idle /\ x.token.user = u /\ x.token.key = k /\ k \notin signing[u]
      <4>0. x \in ReqRecord /\ ReqOK(x)
        BY <3>2 DEF ReqInv, ReqOK
      <4>1. req'[r] = [x EXCEPT !.good = TRUE]
        BY <1>4, <3>2 DEF ChangeKeys
      <4>. PICK z : z = req'[r]
        OBVIOUS
      <4>2. /\ z \in ReqRecord /\ z.good = TRUE /\ z.pc = x.pc /\ z.key = x.key
            /\ z.token = x.token /\ z.cmd = x.cmd
        BY <4>0, <4>1 DEF ReqRecord
      <4>3. Begun(x.token)' <=> Begun(x.token)
        BY <2>1 DEF Begun
      <4>. QED  BY <4>0, <4>2, <4>3 DEF ReqOK
    <3>3. CASE x # Idle /\ ~(x.token.user = u /\ x.token.key = k /\ k \notin signing[u])
      <4>0. x \in ReqRecord /\ ReqOK(x)
        BY <3>3 DEF ReqInv, ReqOK
      <4>1. req'[r] = x
        BY <1>4, <3>3 DEF ChangeKeys
      <4>2. x.token \in ApiTokens /\ x.token.user \in ApiUsers
        BY <4>0 DEF ReqRecord, ApiUsers
      <4>3. x.token.key \in signing'[x.token.user] => x.token.key \in signing[x.token.user]
        BY <2>1, <3>3, <4>2 DEF ReqInv
      <4>4. (Good(x.token)' => Good(x.token)) /\ (Begun(x.token) => Begun(x.token)')
        BY <2>1, <4>3 DEF Good, Unexpired, Begun
      <4>. QED  BY <4>0, <4>1, <4>4 DEF ReqOK
    <3>. QED  BY <3>1, <3>2, <3>3
  <2>. QED  BY <2>1, <2>2, <2>3 DEF ReqInv, Idle
<1>5. ASSUME NEW r \in Reqs, NEW t \in ApiTokens, NEW c \in ApiCmds, Arrive(r, t, c) PROVE ReqInv'
  <2>. PICK x : x = [pc |-> "auth", token |-> t, cmd |-> c, key |-> NoKey,
                     slot |-> NoSlot, good |-> Good(t)]
    OBVIOUS
  <2>1. req' = [req EXCEPT ![r] = x] /\ UNCHANGED <<now, revoked, signing, slotOf>>
    BY <1>5 DEF Arrive, Rest
  <2>2. x \in ReqRecord /\ x.pc = "auth" /\ x.token = t /\ (Good(t) => x.good = TRUE)
    <3>1. Good(t) \in BOOLEAN
      BY DEF Good, Unexpired
    <3>. QED  BY <3>1 DEF ReqRecord
  <2>3. ReqOK(x)
    BY <2>2 DEF ReqOK, Authorised
  <2>. QED  BY <1>0, <2>1, <2>3, ReqMoves
<1>6. ASSUME NEW r \in Reqs, req[r] # Idle, Reply(r), UNCHANGED <<now, revoked, signing>>,
             slotOf' \in [ApiKeys -> {0, 1, NoSlot}]
      PROVE  ReqInv'
  BY <1>6, ReqMoves DEF Reply
<1>7. ASSUME NEW r \in Reqs, req[r] # Idle, UNCHANGED <<now, revoked, signing>>,
             slotOf' \in [ApiKeys -> {0, 1, NoSlot}],
             NEW l \in Authorised, NEW k \in ApiKeys \cup {NoKey}, NEW i \in {0, 1, NoSlot},
             req' = [req EXCEPT ![r] = [req[r] EXCEPT !.pc = l, !.key = k, !.slot = i]],
             req[r].pc \in Authorised \/ (Good(req[r].token) /\ Begun(req[r].token)),
             l \in {"limit", "allow", "retry"} => k \in ApiKeys,
             l = "execute" => req[r].token.cmds = {} \/ req[r].cmd \in req[r].token.cmds
      PROVE  ReqInv'
  <2>. PICK y : y = req[r]
    OBVIOUS
  <2>. PICK x : x = [y EXCEPT !.pc = l, !.key = k, !.slot = i]
    OBVIOUS
  <2>0. y \in ReqRecord /\ ReqOK(y)
    BY <1>7 DEF ReqInv, ReqOK
  <2>1. /\ x \in ReqRecord /\ x.pc = l /\ x.key = k /\ x.token = y.token /\ x.cmd = y.cmd
        /\ x.good = y.good
    BY <2>0 DEF ReqRecord
  <2>2. y.good = TRUE /\ Begun(y.token)
    BY <1>7, <2>0 DEF ReqOK, ReqRecord
  <2>3. ReqOK(x)
    BY <1>7, <2>1, <2>2 DEF ReqOK, Authorised
  <2>. QED  BY <1>7, <2>3, ReqMoves
<1>8. ASSUME NEW r \in Reqs, req[r] # Idle,
             \/ AuthenticateStateless(r) \/ AuthenticateShortToken(r)
             \/ FingerprintByUser(r) \/ GetBucket(r) \/ Allow(r)
             \/ ReadCommandFails(r) \/ CheckCommand(r) \/ Execute(r)
      PROVE  ReqInv'
  <2>. PICK y : y = req[r]
    OBVIOUS
  <2>0. y \in ReqRecord /\ ReqOK(y)
    BY <1>8 DEF ReqInv, ReqOK
  <2>1. /\ y.key \in ApiKeys \cup {NoKey} /\ y.slot \in {0, 1, NoSlot} /\ y.token \in ApiTokens
        /\ y.token.user \in ApiUsers /\ y.token.key \in ApiKeys
    BY <2>0, ApiAssumption DEF ReqRecord, ApiUsers
  <2>2. /\ UNCHANGED <<now, revoked, signing>> /\ slotOf' \in [ApiKeys -> {0, 1, NoSlot}]
        /\ GetBucket(r) => slotOf'[y.key] \in {0, 1, NoSlot}
    <3>1. CASE GetBucket(r)
      <4>1. PICK i \in {0, 1, NoSlot} : slotOf' = [slotOf EXCEPT ![y.key] = i]
        <5>1. y.key \in ApiKeys
          BY <2>0, <3>1 DEF GetBucket, ReqOK
        <5>2. slotOf[y.key] \in {0, 1, NoSlot}
          BY <1>0, <5>1
        <5>. QED  BY <3>1, <5>2 DEF GetBucket
      <4>2. y.key \in ApiKeys
        BY <2>0, <3>1 DEF GetBucket, ReqOK
      <4>. QED  BY <1>0, <3>1, <4>1, <4>2 DEF GetBucket
    <3>2. CASE ~GetBucket(r)
      BY <1>0, <1>8, <3>2 DEF AuthenticateStateless, AuthenticateShortToken, FingerprintByUser,
                Allow, ReadCommandFails, CheckCommand, Execute, Rest
    <3>. QED  BY <3>1, <3>2
  <2>3. CASE Reply(r)
    BY <1>6, <1>8, <2>2, <2>3
  <2>4. CASE ~Reply(r)
    <3>1. PICK l \in Authorised, k \in ApiKeys \cup {NoKey}, i \in {0, 1, NoSlot} :
            /\ req' = [req EXCEPT ![r] = [y EXCEPT !.pc = l, !.key = k, !.slot = i]]
            /\ y.pc \in Authorised \/ (Good(y.token) /\ Begun(y.token))
            /\ l \in {"limit", "allow", "retry"} => k \in ApiKeys
            /\ l = "execute" => y.token.cmds = {} \/ y.cmd \in y.token.cmds
      <4>1. CASE AuthenticateStateless(r)
        <5>1. /\ req' = [req EXCEPT ![r] = [y EXCEPT !.pc = "limit", !.key = y.token.key,
                                                     !.slot = y.slot]]
          <6>1. y \in ReqRecord
            BY <2>0
          <6>2. [y EXCEPT !.pc = "limit", !.key = y.token.key]
                    = [y EXCEPT !.pc = "limit", !.key = y.token.key, !.slot = y.slot]
            BY <6>1 DEF ReqRecord
          <6>. QED  BY <2>4, <4>1, <6>2 DEF AuthenticateStateless
        <5>2. Good(y.token) /\ Begun(y.token)
          BY <2>4, <4>1 DEF AuthenticateStateless, Good
        <5>. QED  BY <2>1, <5>1, <5>2 DEF Authorised
      <4>2. CASE AuthenticateShortToken(r)
        <5>1. req' = [req EXCEPT ![r] = [y EXCEPT !.pc = "finger", !.key = y.key, !.slot = y.slot]]
          BY <2>0, <2>4, <4>2 DEF AuthenticateShortToken, ReqInv, ReqRecord
        <5>2. Good(y.token) /\ Begun(y.token)
          BY <2>4, <4>2 DEF AuthenticateShortToken, Good, Begun
        <5>. QED  BY <2>1, <5>1, <5>2 DEF Authorised
      <4>3. CASE FingerprintByUser(r)
        <5>0. y.pc = "finger"
          BY <4>3 DEF FingerprintByUser
        <5>1. CASE signing[y.token.user] = {}
          <6>1. req' = [req EXCEPT ![r] = [y EXCEPT !.pc = "check", !.key = y.key, !.slot = y.slot]]
            BY <2>0, <4>3, <5>1 DEF FingerprintByUser, ReqInv, ReqRecord
          <6>. QED  BY <2>1, <5>0, <6>1 DEF Authorised
        <5>2. CASE signing[y.token.user] # {}
          <6>1. PICK k \in signing[y.token.user] :
                  req' = [req EXCEPT ![r].pc = "limit", ![r].key = k]
            BY <4>3, <5>2 DEF FingerprintByUser
          <6>2. k \in ApiKeys
            BY <2>1, <6>1 DEF ReqInv
          <6>3. req' = [req EXCEPT ![r] = [y EXCEPT !.pc = "limit", !.key = k, !.slot = y.slot]]
            BY <2>0, <6>1 DEF ReqInv, ReqRecord
          <6>. QED  BY <2>1, <5>0, <6>2, <6>3 DEF Authorised
        <5>. QED  BY <5>1, <5>2
      <4>4. CASE GetBucket(r)
        <5>1. y.pc = "limit" /\ y.key \in ApiKeys
          BY <2>0, <2>4, <4>4 DEF GetBucket, ReqOK
        <5>2. req' = [req EXCEPT ![r].pc = "allow", ![r].slot = slotOf'[y.key]]
          BY <1>0, <2>4, <4>4, <5>1 DEF GetBucket
        <5>3. PICK i : i = slotOf'[y.key]
          OBVIOUS
        <5>4. req' = [req EXCEPT ![r] = [y EXCEPT !.pc = "allow", !.key = y.key, !.slot = i]]
          BY <2>0, <5>2, <5>3 DEF ReqInv, ReqRecord
        <5>. QED  BY <2>2, <4>4, <5>1, <5>3, <5>4 DEF Authorised
      <4>5. CASE Allow(r)
        <5>1. PICK l \in {"check", "retry"} : req' = [req EXCEPT ![r].pc = l, ![r].slot = NoSlot]
          BY <4>5 DEF Allow
        <5>2. y.pc = "allow" /\ y.key \in ApiKeys
          BY <2>0, <4>5 DEF Allow, ReqOK
        <5>3. req' = [req EXCEPT ![r] = [y EXCEPT !.pc = l, !.key = y.key, !.slot = NoSlot]]
          BY <2>0, <5>1 DEF ReqInv, ReqRecord
        <5>. QED  BY <5>2, <5>3 DEF Authorised
      <4>6. CASE CheckCommand(r)
        <5>1. /\ y.pc = "check" /\ req' = [req EXCEPT ![r].pc = "execute"]
              /\ y.token.cmds = {} \/ y.cmd \in y.token.cmds
          BY <2>4, <4>6 DEF CheckCommand
        <5>2. req' = [req EXCEPT ![r] = [y EXCEPT !.pc = "execute", !.key = y.key, !.slot = y.slot]]
          BY <2>0, <5>1 DEF ReqInv, ReqRecord
        <5>. QED  BY <2>1, <5>1, <5>2 DEF Authorised
      <4>. QED  BY <1>8, <2>4, <4>1, <4>2, <4>3, <4>4, <4>5, <4>6 DEF ReadCommandFails, Execute
    <3>. QED  BY <1>7, <1>8, <2>2, <3>1
  <2>. QED  BY <2>3, <2>4
<1>9. CASE UNCHANGED apiVars \/ DeleteBucket \/ \E k \in ApiKeys : FindIdle(k)
  BY <1>0, <1>1, <1>9 DEF apiVars, FindIdle, DeleteBucket
<1>. QED  BY <1>2, <1>3, <1>4, <1>5, <1>8, <1>9 DEF ApiNext

(* POST /exec runs a command only for a token that was good when its       *)
(* request came or became good since, that is valid already and lists the  *)
(* command: for every set of tokens and keys and any number of requests.   *)
THEOREM OnlyGoodTokensRun == ApiSpec => []RunsOnlyGoodTokens
<1>1. ReqInv => RunsOnlyGoodTokens
  BY DEF ReqInv, ReqOK, RunsOnlyGoodTokens, Authorised, Idle
<1>. QED  BY <1>1, ReqInitInv, ReqNextInv, PTL DEF ApiSpec

-----------------------------------------------------------------------------
(* Commands of the API: the rate limit.  Of a bucket only what it holds    *)
(* once refilled matters: a tick adds Refill to that, up to the capacity.  *)

Room == Burst * Cost

Bucket == [units : Int, last : Nat]

LEMMA Products ==
    ASSUME NEW a \in Nat, NEW b \in Nat, NEW c \in Nat
    PROVE  /\ a * c \in Nat /\ 0 * c = 0
           /\ (a + 1) * c = a * c + c
           /\ a <= b => a * c <= b * c
OBVIOUS

LEMMA RoomFacts ==
    /\ Room \in Nat /\ Cost \in Nat \ {0} /\ Refill \in Nat \ {0} /\ IdleLimit \in Nat
    /\ Room >= Cost /\ IdleLimit * Refill >= Room
<1>1. Cost \in Nat \ {0} /\ Refill \in Nat \ {0} /\ Burst \in Nat \ {0} /\ IdleLimit \in Nat
  BY ApiAssumption
<1>2. Burst * Cost \in Nat /\ 1 * Cost = Cost /\ 1 * Cost <= Burst * Cost
  BY <1>1, Products
<1>. QED  BY <1>1, <1>2, ApiAssumption DEF Room

(* A bucket holds Holds(b) now. *)
Holds(b) == Filled(b).units

LEMMA FilledFacts ==
    ASSUME now \in Nat, NEW b \in Bucket, b.last <= now, b.units <= Room
    PROVE  /\ Filled(b) \in Bucket /\ Filled(b).last = now /\ IdealFilled(b) = Filled(b)
           /\ Holds(b) \in Int /\ Holds(b) <= Room /\ Holds(b) >= b.units
           /\ b.last = now => Holds(b) = b.units
           /\ b.units >= 0 /\ now - b.last > IdleLimit => Holds(b) = Room
<1>. PICK u : u = b.units
  OBVIOUS
<1>. PICK g : g = (now - b.last) * Refill
  OBVIOUS
<1>0. u \in Int /\ b.last \in Nat /\ now - b.last \in Nat
  BY DEF Bucket
<1>1. g \in Nat /\ (b.last = now => g = 0) /\ (now - b.last > IdleLimit => g >= Room)
  <2>1. g \in Nat /\ (now - b.last = 0 => g = 0)
    BY <1>0, RoomFacts, Products
  <2>2. now - b.last > IdleLimit => IdleLimit * Refill <= g
    BY <1>0, RoomFacts, Products
  <2>. QED  BY <1>0, <2>1, <2>2, RoomFacts
<1>2. /\ Filled(b) = [units |-> IF u + g > Room THEN Room ELSE u + g, last |-> now]
      /\ IdealFilled(b) = Filled(b)
  BY DEF Filled, IdealFilled, Room
<1>. QED  BY <1>0, <1>1, <1>2, RoomFacts DEF Holds, Bucket

LEMMA FilledTick ==
    ASSUME now \in Nat, now' = now + 1, NEW b \in Bucket, b.last <= now, b.units <= Room
    PROVE  Holds(b)' = IF Holds(b) + Refill > Room THEN Room ELSE Holds(b) + Refill
<1>. PICK u : u = b.units
  OBVIOUS
<1>. PICK g : g = (now - b.last) * Refill
  OBVIOUS
<1>0. u \in Int /\ b.last \in Nat /\ now - b.last \in Nat /\ now' - b.last = (now - b.last) + 1
  BY DEF Bucket
<1>1. g \in Nat /\ (now' - b.last) * Refill = g + Refill
  BY <1>0, RoomFacts, Products
<1>2. Holds(b) = IF u + g > Room THEN Room ELSE u + g
  BY DEF Holds, Filled, Room
<1>3. Holds(b)' = IF u + (now' - b.last) * Refill > Room THEN Room ELSE u + (now' - b.last) * Refill
  BY DEF Holds, Filled, Room
<1>. QED  BY <1>0, <1>1, <1>2, <1>3, RoomFacts

BucketOK(b) == b \in Bucket /\ b.last <= now /\ b.units <= Room

BucketTypes ==
    /\ now \in Nat
    /\ bucket \in [ApiKeys -> [{0, 1} -> Bucket]]
    /\ ideal \in [ApiKeys -> Bucket]
    /\ \A k \in ApiKeys :
          /\ BucketOK(ideal[k])
          /\ \A i \in {0, 1} : BucketOK(bucket[k][i]) /\ bucket[k][i].units >= 0
    /\ sweep # NoKey => sweep \in ApiKeys /\ slotOf[sweep] # NoSlot
    /\ \A r \in Reqs : req[r].pc = "allow" => req[r].slot \in {0, 1}

(* While no bucket in use was dropped: the bucket of the map holds no more *)
(* than the ideal one, which is full when the map has none; requests at    *)
(* Allow hold the bucket of the map.                                       *)
LimitOK(k) ==
    /\ ideal[k].units >= 0
    /\ IF slotOf[k] = NoSlot THEN Holds(ideal[k]) = Room
       ELSE Holds(bucket[k][slotOf[k]]) <= Holds(ideal[k])
    /\ \A r \in Reqs : req[r].pc = "allow" /\ req[r].key = k =>
          req[r].slot = slotOf[k] /\ slotOf[k] # NoSlot

LimitInv == BucketTypes /\ (swept \/ \A k \in ApiKeys : LimitOK(k))

LEMMA LimitInitInv == ApiInit => LimitInv
<1>. SUFFICES ASSUME ApiInit PROVE LimitInv
  OBVIOUS
<1>1. Full \in Bucket /\ Full.units = Room /\ Full.last = 0 /\ now = 0 /\ Room \in Nat
  BY RoomFacts DEF Full, Bucket, Room, ApiInit
<1>2. /\ ideal = [k \in ApiKeys |-> Full] /\ bucket = [k \in ApiKeys |-> [i \in {0, 1} |-> Full]]
      /\ slotOf = [k \in ApiKeys |-> NoSlot] /\ sweep = NoKey
      /\ \A r \in Reqs : req[r].pc = "idle"
  BY DEF ApiInit, Idle
<1>3. BucketTypes
  BY <1>1, <1>2 DEF BucketTypes, BucketOK
<1>4. Holds(Full) = Room
  BY <1>1, FilledFacts
<1>5. \A k \in ApiKeys : LimitOK(k)
  BY <1>1, <1>2, <1>4 DEF LimitOK
<1>. QED  BY <1>3, <1>5 DEF LimitInv

(* Requests move on and keep the buckets they hold. *)
LEMMA LimitKept ==
    ASSUME LimitInv, UNCHANGED <<now, bucket, slotOf, ideal, swept>>,
           sweep' # NoKey => sweep' \in ApiKeys /\ slotOf[sweep'] # NoSlot,
           \A r \in Reqs : req'[r].pc = "allow" =>
              req[r].pc = "allow" /\ req'[r].key = req[r].key /\ req'[r].slot = req[r].slot
    PROVE  LimitInv'
<1>1. BucketTypes'
  BY DEF LimitInv, BucketTypes, BucketOK
<1>2. ASSUME NEW k \in ApiKeys, LimitOK(k) PROVE LimitOK(k)'
  BY <1>2 DEF LimitOK, Holds, Filled
<1>. QED  BY <1>1, <1>2 DEF LimitInv

LEMMA TickLimit ==
    ASSUME ReqInv, LimitInv, PassTick
    PROVE  LimitInv'
<1>0. /\ now \in Nat /\ now' = now + 1
      /\ UNCHANGED <<req, bucket, slotOf, sweep, ideal, swept>>
  BY DEF LimitInv, BucketTypes, PassTick
<1>1. ASSUME NEW b, BucketOK(b)
      PROVE  /\ BucketOK(b)' /\ Holds(b) \in Int /\ Holds(b) <= Room
             /\ Holds(b)' = IF Holds(b) + Refill > Room THEN Room ELSE Holds(b) + Refill
  <2>1. b \in Bucket /\ b.last <= now /\ b.units <= Room /\ b.last \in Nat
    BY <1>1 DEF BucketOK, Bucket
  <2>2. Holds(b) \in Int /\ Holds(b) <= Room
    BY <1>0, <2>1, FilledFacts
  <2>3. b.last <= now'
    BY <1>0, <2>1
  <2>. QED  BY <1>0, <2>1, <2>2, <2>3, FilledTick DEF BucketOK
<1>2. BucketTypes'
  BY <1>0, <1>1 DEF LimitInv, BucketTypes
<1>3. ASSUME NEW k \in ApiKeys, LimitOK(k) PROVE LimitOK(k)'
  <2>1. BucketOK(ideal[k])
    BY DEF LimitInv, BucketTypes
  <2>2. CASE slotOf[k] = NoSlot
    BY <1>0, <1>1, <1>3, <2>1, <2>2, RoomFacts DEF LimitOK
  <2>3. CASE slotOf[k] # NoSlot
    <3>. PICK b : b = bucket[k][slotOf[k]]
      OBVIOUS
    <3>. PICK d : d = ideal[k]
      OBVIOUS
    <3>1. BucketOK(b)
      BY <2>3 DEF ReqInv, LimitInv, BucketTypes
    <3>2. Holds(b) <= Holds(d)
      BY <1>3, <2>3 DEF LimitOK
    <3>3. Holds(b)' <= Holds(d)'
      BY <1>1, <2>1, <3>1, <3>2, RoomFacts
    <3>4. b = bucket'[k][slotOf'[k]] /\ d = ideal'[k]
      BY <1>0
    <3>5. (Holds(bucket[k][slotOf[k]]) <= Holds(ideal[k]))'
      BY <3>3, <3>4 DEF Holds
    <3>. QED  BY <1>0, <1>3, <2>3, <3>5 DEF LimitOK
  <2>. QED  BY <2>2, <2>3
<1>. QED  BY <1>0, <1>2, <1>3 DEF LimitInv

LEMMA GetBucketLimit ==
    ASSUME ReqInv, LimitInv, NEW r \in Reqs, req[r] # Idle, GetBucket(r)
    PROVE  LimitInv'
<1>. PICK k : k = req[r].key
  OBVIOUS
<1>0. /\ k \in ApiKeys /\ now \in Nat /\ slotOf \in [ApiKeys -> {0, 1, NoSlot}] /\ NoSlot = 2
      /\ bucket \in [ApiKeys -> [{0, 1} -> Bucket]]
      /\ UNCHANGED <<now, sweep, ideal, swept>>
  BY DEF GetBucket, ReqInv, ReqOK, LimitInv, BucketTypes, NoSlot
<1>1. PICK i \in {0, 1} :
        /\ slotOf[k] # NoSlot => i = slotOf[k]
        /\ slotOf' = [slotOf EXCEPT ![k] = i]
        /\ bucket' = IF slotOf[k] = NoSlot
                     THEN [bucket EXCEPT ![k][i] = [Full EXCEPT !.last = now]] ELSE bucket
        /\ \/ Reply(r)
           \/ req' = [req EXCEPT ![r].pc = "allow", ![r].slot = i]
  BY <1>0 DEF GetBucket
<1>. PICK f : f = [Full EXCEPT !.last = now]
  OBVIOUS
<1>2. f \in Bucket /\ f.units = Room /\ f.last = now
  <2>1. Full \in Bucket /\ Full.units = Room
    BY RoomFacts DEF Full, Bucket, Room
  <2>. QED  BY <1>0, <2>1 DEF Bucket
<1>3. Holds(f) = Room /\ BucketOK(f) /\ f.units >= 0
  <2>1. f.last <= now /\ f.units <= Room /\ f.units >= 0
    BY <1>0, <1>2, RoomFacts
  <2>2. Holds(f) = f.units
    BY <1>0, <1>2, <2>1, FilledFacts
  <2>. QED  BY <1>2, <2>1, <2>2 DEF BucketOK
<1>4. /\ bucket' \in [ApiKeys -> [{0, 1} -> Bucket]]
      /\ \A m \in ApiKeys, j \in {0, 1} :
            bucket'[m][j] = IF slotOf[k] = NoSlot /\ m = k /\ j = i THEN f ELSE bucket[m][j]
      /\ slotOf'[k] = i /\ \A m \in ApiKeys : m # k => slotOf'[m] = slotOf[m]
  BY <1>0, <1>1, <1>2
<1>5. \A b : BucketOK(b)' <=> BucketOK(b)
  BY <1>0 DEF BucketOK
<1>7. ASSUME NEW q \in Reqs, req'[q].pc = "allow"
      PROVE  \/ q = r /\ req'[q].key = k /\ req'[q].slot = i
             \/ req'[q] = req[q]
  <2>1. CASE q = r
    <3>1. req'[r] = [req[r] EXCEPT !.pc = "allow", !.slot = i]
      BY <1>1, <1>7, <2>1 DEF ReqInv, Reply, Idle
    <3>2. req[r] \in ReqRecord
      BY DEF ReqInv, ReqOK
    <3>. QED  BY <2>1, <3>1, <3>2 DEF ReqRecord
  <2>2. CASE q # r
    BY <1>1, <2>2 DEF ReqInv, Reply
  <2>. QED  BY <2>1, <2>2
<1>6. BucketTypes'
  <2>1. \A q \in Reqs : req'[q].pc = "allow" => req'[q].slot \in {0, 1}
    BY <1>1, <1>7 DEF LimitInv, BucketTypes
  <2>2. sweep' # NoKey => sweep' \in ApiKeys /\ slotOf'[sweep'] # NoSlot
    BY <1>0, <1>1, <1>4 DEF LimitInv, BucketTypes
  <2>3. ideal' \in [ApiKeys -> Bucket] /\ \A m \in ApiKeys : BucketOK(ideal[m])'
    BY <1>0, <1>5 DEF LimitInv, BucketTypes
  <2>4. ASSUME NEW m \in ApiKeys, NEW j \in {0, 1}
        PROVE  BucketOK(bucket[m][j])' /\ bucket'[m][j].units >= 0
    BY <1>3, <1>4, <1>5 DEF LimitInv, BucketTypes
  <2>5. now' \in Nat /\ bucket' \in [ApiKeys -> [{0, 1} -> Bucket]]
    BY <1>0, <1>4
  <2>. QED  BY <2>1, <2>2, <2>3, <2>4, <2>5 DEF BucketTypes
<1>8. ASSUME NEW m \in ApiKeys, LimitOK(m), \A q \in ApiKeys : LimitOK(q) PROVE LimitOK(m)'
  <2>1. \A b : Holds(b)' = Holds(b)
    BY <1>0 DEF Holds, Filled
  <2>2. IF slotOf'[m] = NoSlot THEN Holds(ideal[m]) = Room
        ELSE Holds(bucket'[m][slotOf'[m]]) <= Holds(ideal[m])
    <3>1. CASE m # k
      BY <1>0, <1>4, <1>8, <3>1 DEF LimitOK
    <3>2. CASE m = k /\ slotOf[k] = NoSlot
      <4>1. bucket'[m][slotOf'[m]] = f /\ slotOf'[m] # NoSlot
        BY <1>0, <1>1, <1>4, <3>2
      <4>2. Holds(ideal[m]) = Room
        BY <1>8, <3>2 DEF LimitOK
      <4>3. Holds(f) <= Holds(ideal[m])
        BY <1>3, <4>2, RoomFacts
      <4>. QED  BY <4>1, <4>3
    <3>3. CASE m = k /\ slotOf[k] # NoSlot
      BY <1>0, <1>1, <1>4, <1>8, <3>3 DEF LimitOK
    <3>. QED  BY <3>1, <3>2, <3>3
  <2>3. (IF slotOf[m] = NoSlot THEN Holds(ideal[m]) = Room
         ELSE Holds(bucket[m][slotOf[m]]) <= Holds(ideal[m]))'
    BY <1>0, <2>1, <2>2 DEF Holds
  <2>4. \A q \in Reqs : req'[q].pc = "allow" /\ req'[q].key = m =>
           req'[q].slot = slotOf'[m] /\ slotOf'[m] # NoSlot
    BY <1>0, <1>1, <1>4, <1>7, <1>8 DEF LimitOK
  <2>5. ideal'[m].units >= 0
    BY <1>0, <1>8 DEF LimitOK
  <2>. QED  BY <2>3, <2>4, <2>5 DEF LimitOK
<1>. QED  BY <1>0, <1>6, <1>8 DEF LimitInv

LEMMA AllowLimit ==
    ASSUME ReqInv, LimitInv, NEW r \in Reqs, req[r] # Idle, Allow(r)
    PROVE  LimitInv'
<1>. PICK k : k = req[r].key
  OBVIOUS
<1>. PICK i : i = req[r].slot
  OBVIOUS
<1>b. PICK b : b = Filled(bucket[k][i])
  OBVIOUS
<1>d. PICK d : d = Filled(ideal[k])
  OBVIOUS
<1>w. PICK w : w = IF b.units >= Cost THEN Cost ELSE 0
  OBVIOUS
<1>b1. PICK b1 : b1 = [b EXCEPT !.units = b.units - w]
  OBVIOUS
<1>d1. PICK d1 : d1 = [d EXCEPT !.units = d.units - w]
  OBVIOUS
<1>0. /\ k \in ApiKeys /\ now \in Nat /\ slotOf \in [ApiKeys -> {0, 1, NoSlot}] /\ NoSlot = 2
      /\ bucket \in [ApiKeys -> [{0, 1} -> Bucket]] /\ ideal \in [ApiKeys -> Bucket]
      /\ req[r].pc = "allow" /\ UNCHANGED <<now, slotOf, sweep, swept>>
      /\ i \in {0, 1}
  BY DEF Allow, ReqInv, ReqOK, LimitInv, BucketTypes, NoSlot
<1>1. BucketOK(ideal[k]) /\ IdealFilled(ideal[k]) = d
  <2>1. BucketOK(ideal[k])
    BY <1>0 DEF LimitInv, BucketTypes
  <2>. QED  BY <1>0, <1>d, <2>1, FilledFacts DEF BucketOK
<1>2. /\ bucket' = [bucket EXCEPT ![k][i] = b1] /\ ideal' = [ideal EXCEPT ![k] = d1]
      /\ \A q \in Reqs : req'[q].pc = "allow" => q # r /\ req'[q] = req[q]
  <2>1. bucket' = [bucket EXCEPT ![k][i] = b1] /\ ideal' = [ideal EXCEPT ![k] = d1]
    <3>1. /\ bucket' = [bucket EXCEPT ![k][i] = [b EXCEPT !.units = b.units - w]]
          /\ ideal' = [ideal EXCEPT ![k] = [IdealFilled(ideal[k]) EXCEPT
                                              !.units = IdealFilled(ideal[k]).units - w]]
      BY <1>b, <1>w DEF Allow
    <3>. QED  BY <1>1, <1>b1, <1>d1, <3>1
  <2>2. PICK l \in {"check", "retry"} : req' = [req EXCEPT ![r].pc = l, ![r].slot = NoSlot]
    BY DEF Allow
  <2>3. req[r] \in ReqRecord
    BY DEF ReqInv, ReqOK
  <2>4. req'[r].pc = l
    BY <2>2, <2>3 DEF ReqInv, ReqRecord
  <2>. QED  BY <2>1, <2>2, <2>4 DEF ReqInv
<1>3. /\ d \in Bucket /\ d.last = now /\ d.units <= Room /\ d.units = Holds(ideal[k])
      /\ d.units >= ideal[k].units /\ w \in {0, Cost}
  BY <1>0, <1>1, <1>d, <1>w, FilledFacts DEF BucketOK, Holds
<1>4. d1 \in Bucket /\ d1.last = now /\ d1.units = d.units - w /\ BucketOK(d1)
  BY <1>0, <1>3, <1>d1, RoomFacts DEF Bucket, BucketOK
<1>5. /\ b \in Bucket /\ b.last = now /\ b.units = Holds(bucket[k][i])
      /\ BucketOK(b1) /\ b1.units = b.units - w /\ b1.units >= 0 /\ b1.last = now
      /\ b.units \in Int
  <2>1. BucketOK(bucket[k][i]) /\ bucket[k][i].units >= 0
    BY <1>0 DEF LimitInv, BucketTypes
  <2>2. /\ b \in Bucket /\ b.last = now /\ b.units = Holds(bucket[k][i]) /\ b.units <= Room
        /\ b.units >= bucket[k][i].units /\ bucket[k][i].units \in Int /\ b.units \in Int
    BY <1>0, <1>b, <2>1, FilledFacts DEF BucketOK, Holds, Bucket
  <2>3. b1 \in Bucket /\ b1.units = b.units - w /\ b1.last = now
    BY <1>3, <1>b1, <2>2, RoomFacts DEF Bucket
  <2>4. b1.units >= 0 /\ b1.units <= Room /\ b1.last <= now
    <3>1. b.units \in Int /\ b.units <= Room /\ b.units >= 0
      BY <2>1, <2>2
    <3>2. now <= now
      BY <1>0
    <3>3. CASE b.units >= Cost
      BY <1>w, <2>3, <3>1, <3>2, <3>3, RoomFacts
    <3>4. CASE ~(b.units >= Cost)
      BY <1>w, <2>3, <3>1, <3>2, <3>4, RoomFacts
    <3>. QED  BY <3>3, <3>4
  <2>. QED  BY <2>2, <2>3, <2>4 DEF BucketOK
<1>6. /\ bucket' \in [ApiKeys -> [{0, 1} -> Bucket]] /\ ideal' \in [ApiKeys -> Bucket]
      /\ \A m \in ApiKeys, j \in {0, 1} :
            bucket'[m][j] = IF m = k /\ j = i THEN b1 ELSE bucket[m][j]
      /\ \A m \in ApiKeys : ideal'[m] = IF m = k THEN d1 ELSE ideal[m]
  <2>1. b1 \in Bucket /\ d1 \in Bucket
    BY <1>4, <1>5 DEF BucketOK
  <2>. QED  BY <1>0, <1>2, <2>1
<1>7. \A c : BucketOK(c)' <=> BucketOK(c)
  BY <1>0 DEF BucketOK
<1>8. BucketTypes'
  <2>1. \A q \in Reqs : req'[q].pc = "allow" => req'[q].slot \in {0, 1}
    BY <1>2 DEF LimitInv, BucketTypes
  <2>2. ASSUME NEW m \in ApiKeys
        PROVE  /\ BucketOK(ideal'[m])
               /\ \A j \in {0, 1} : BucketOK(bucket'[m][j]) /\ bucket'[m][j].units >= 0
    <3>1. /\ BucketOK(ideal[m])
          /\ \A j \in {0, 1} : BucketOK(bucket[m][j]) /\ bucket[m][j].units >= 0
      BY DEF LimitInv, BucketTypes
    <3>. QED  BY <1>4, <1>5, <1>6, <3>1
  <2>3. (\A m \in ApiKeys :
          /\ BucketOK(ideal[m])
          /\ \A j \in {0, 1} : BucketOK(bucket[m][j]) /\ bucket[m][j].units >= 0)'
    BY <1>7, <2>2
  <2>. QED  BY <1>0, <1>6, <2>1, <2>3 DEF LimitInv, BucketTypes
<1>9. ASSUME NEW m \in ApiKeys, \A q \in ApiKeys : LimitOK(q) PROVE LimitOK(m)'
  <2>0. LimitOK(m) /\ slotOf[k] = i
    BY <1>0, <1>9 DEF LimitOK
  <2>1. \A c : Holds(c)' = Holds(c)
    BY <1>0 DEF Holds, Filled
  <2>2. CASE m # k
    <3>1. /\ ideal'[m] = ideal[m] /\ slotOf'[m] = slotOf[m]
          /\ slotOf[m] # NoSlot => bucket'[m][slotOf[m]] = bucket[m][slotOf[m]]
      <4>1. slotOf[m] # NoSlot => slotOf[m] \in {0, 1}
        BY <1>0
      <4>. QED  BY <1>0, <1>6, <2>2, <4>1
    <3>. QED  BY <1>2, <2>0, <2>1, <3>1 DEF LimitOK
  <2>3. CASE m = k
    <3>0. d.units \in Int /\ ideal[k].units \in Int /\ w \in Int
      BY <1>0, <1>3, RoomFacts DEF Bucket
    <3>1. b.units <= d.units /\ ideal[k].units >= 0
      BY <1>0, <1>3, <1>5, <2>0, <2>3 DEF LimitOK
    <3>2. Holds(b1) = b.units - w /\ Holds(d1) = d.units - w
      BY <1>0, <1>4, <1>5, FilledFacts DEF BucketOK
    <3>3. Holds(b1) <= Holds(d1)
      BY <1>5, <3>0, <3>1, <3>2
    <3>7. d1.units >= 0
      <4>1. d.units >= 0 /\ d1.units = d.units - w
        BY <1>3, <1>4, <3>0, <3>1
      <4>2. CASE b.units >= Cost
        BY <1>5, <1>w, <3>0, <3>1, <4>1, <4>2, RoomFacts
      <4>3. CASE ~(b.units >= Cost)
        BY <1>w, <3>0, <4>1, <4>3
      <4>. QED  BY <4>2, <4>3
    <3>4. bucket'[m][slotOf'[m]] = b1 /\ ideal'[m] = d1 /\ slotOf'[m] # NoSlot
      BY <1>0, <1>6, <2>0, <2>3
    <3>5. \A q \in Reqs : req'[q].pc = "allow" /\ req'[q].key = m =>
             req'[q].slot = slotOf'[m] /\ slotOf'[m] # NoSlot
      BY <1>0, <1>2, <2>0, <3>4 DEF LimitOK
    <3>6. (Holds(bucket[m][slotOf[m]]) <= Holds(ideal[m]))'
      BY <2>1, <3>3, <3>4 DEF Holds
    <3>. QED  BY <3>4, <3>5, <3>6, <3>7 DEF LimitOK
  <2>. QED  BY <2>2, <2>3
<1>. QED  BY <1>0, <1>8, <1>9 DEF LimitInv

LEMMA DeleteLimit ==
    ASSUME ReqInv, LimitInv, DeleteBucket
    PROVE  LimitInv'
<1>0. /\ sweep \in ApiKeys /\ slotOf[sweep] # NoSlot /\ sweep' = NoKey
      /\ slotOf \in [ApiKeys -> {0, 1, NoSlot}] /\ slotOf' = [slotOf EXCEPT ![sweep] = NoSlot]
      /\ UNCHANGED <<now, req, bucket, ideal>> /\ now \in Nat
  BY DEF DeleteBucket, LimitInv, BucketTypes, ReqInv
<1>1. BucketTypes'
  BY <1>0 DEF LimitInv, BucketTypes, BucketOK
<1>2. ASSUME ~swept', NEW k \in ApiKeys PROVE LimitOK(k)'
  <2>0. LimitOK(k) /\ LimitOK(sweep)
    BY <1>0, <1>2 DEF LimitInv, DeleteBucket
  <2>1. /\ now - bucket[sweep][slotOf[sweep]].last > IdleLimit
        /\ \A r \in Reqs : ~(req[r].pc = "allow" /\ req[r].key = sweep)
    <3>1. BucketOK(bucket[sweep][slotOf[sweep]])
      BY <1>0 DEF LimitInv, BucketTypes
    <3>2. bucket[sweep][slotOf[sweep]].last \in Nat
      BY <3>1 DEF BucketOK, Bucket
    <3>3. swept' <=> (swept \/ now - bucket[sweep][slotOf[sweep]].last <= IdleLimit
                             \/ \E r \in Reqs : req[r].pc = "allow" /\ req[r].key = sweep)
      BY DEF DeleteBucket
    <3>. QED  BY <1>0, <1>2, <3>2, <3>3, RoomFacts
  <2>2. \A b : Holds(b)' = Holds(b)
    BY <1>0 DEF Holds, Filled
  <2>3. CASE k # sweep
    BY <1>0, <2>0, <2>2, <2>3 DEF LimitOK
  <2>4. CASE k = sweep
    <3>. PICK b : b = bucket[k][slotOf[k]]
      OBVIOUS
    <3>1. BucketOK(b) /\ b.units >= 0 /\ BucketOK(ideal[k])
      BY <1>0, <2>4 DEF LimitInv, BucketTypes
    <3>2. Holds(b) = Room
      BY <1>0, <2>1, <2>4, <3>1, FilledFacts DEF BucketOK
    <3>3. Holds(b) <= Holds(ideal[k])
      BY <1>0, <2>0, <2>4 DEF LimitOK
    <3>4. Holds(ideal[k]) \in Int /\ Holds(ideal[k]) <= Room
      BY <1>0, <3>1, FilledFacts DEF BucketOK
    <3>5. Holds(ideal[k]) = Room
      <4>. PICK h : h = Holds(ideal[k])
        OBVIOUS
      <4>1. h \in Int /\ h <= Room /\ Room <= h
        BY <3>2, <3>3, <3>4
      <4>. QED  BY <4>1, RoomFacts
    <3>. QED  BY <1>0, <2>0, <2>1, <2>2, <2>4, <3>5 DEF LimitOK
  <2>. QED  BY <2>3, <2>4
<1>. QED  BY <1>1, <1>2 DEF LimitInv

LEMMA LimitNextInv == ReqInv /\ LimitInv /\ [ApiNext]_apiVars => LimitInv'
<1>. SUFFICES ASSUME ReqInv, LimitInv, [ApiNext]_apiVars PROVE LimitInv'
  OBVIOUS
<1>0. (sweep # NoKey => sweep \in ApiKeys /\ slotOf[sweep] # NoSlot) /\ Idle.pc = "idle"
  BY DEF LimitInv, BucketTypes, Idle
<1>1. CASE UNCHANGED apiVars
  BY <1>0, <1>1, LimitKept DEF apiVars
<1>2. ASSUME NEW k \in ApiKeys, FindIdle(k) PROVE LimitInv'
  BY <1>2, LimitKept DEF FindIdle
<1>3. ASSUME NEW t \in ApiTokens, RevokeAPIToken(t) PROVE LimitInv'
  BY <1>0, <1>3, LimitKept DEF RevokeAPIToken
<1>4. ASSUME NEW t \in ApiTokens, ChangeKeys(t.user, t.key) PROVE LimitInv'
  <2>1. ASSUME NEW r \in Reqs
        PROVE  req'[r].pc = req[r].pc /\ (req[r].pc = "allow" =>
                 req'[r].key = req[r].key /\ req'[r].slot = req[r].slot)
    <3>1. CASE req'[r] = req[r]
      BY <3>1
    <3>2. CASE req'[r] # req[r]
      <4>1. req[r] # Idle /\ req'[r] = [req[r] EXCEPT !.good = TRUE]
        BY <1>4, <3>2 DEF ChangeKeys
      <4>2. req[r] \in ReqRecord
        BY <4>1 DEF ReqInv, ReqOK
      <4>. QED  BY <4>1, <4>2 DEF ReqRecord
    <3>. QED  BY <3>1, <3>2
  <2>. QED  BY <1>0, <1>4, <2>1, LimitKept DEF ChangeKeys
<1>5. ASSUME NEW r \in Reqs, NEW x, req' = [req EXCEPT ![r] = x], x.pc # "allow",
             UNCHANGED <<now, bucket, slotOf, sweep, ideal, swept>>
      PROVE  LimitInv'
  <2>1. \A q \in Reqs : req'[q] = IF q = r THEN x ELSE req[q]
    BY <1>5 DEF ReqInv
  <2>. QED  BY <1>0, <1>5, <2>1, LimitKept
<1>6. ASSUME NEW r \in Reqs, NEW t \in ApiTokens, NEW c \in ApiCmds, Arrive(r, t, c)
      PROVE  LimitInv'
  <2>. PICK x : x = [pc |-> "auth", token |-> t, cmd |-> c, key |-> NoKey,
                     slot |-> NoSlot, good |-> Good(t)]
    OBVIOUS
  <2>1. req' = [req EXCEPT ![r] = x] /\ UNCHANGED <<now, bucket, slotOf, sweep, ideal, swept>>
    BY <1>6 DEF Arrive, Rest
  <2>2. x.pc # "allow"
    OBVIOUS
  <2>. QED  BY <1>5, <2>1, <2>2
<1>7. ASSUME NEW r \in Reqs, req[r] # Idle,
             \/ AuthenticateStateless(r) \/ AuthenticateShortToken(r) \/ FingerprintByUser(r)
             \/ ReadCommandFails(r) \/ CheckCommand(r) \/ Execute(r)
      PROVE  LimitInv'
  <2>0. req[r] \in ReqRecord
    BY <1>7 DEF ReqInv, ReqOK
  <2>1. UNCHANGED <<now, bucket, slotOf, sweep, ideal, swept>>
    BY <1>7 DEF AuthenticateStateless, AuthenticateShortToken, FingerprintByUser,
                ReadCommandFails, CheckCommand, Execute, Rest
  <2>2. CASE Reply(r)
    BY <1>0, <1>5, <2>1, <2>2 DEF Reply
  <2>3. CASE ~Reply(r)
    <3>1. PICK l \in {"limit", "finger", "check", "execute"} : \E k :
            \/ req' = [req EXCEPT ![r].pc = l]
            \/ req' = [req EXCEPT ![r].pc = l, ![r].key = k]
      BY <1>7, <2>3 DEF AuthenticateStateless, AuthenticateShortToken, FingerprintByUser,
                ReadCommandFails, CheckCommand, Execute
    <3>k. PICK k : \/ req' = [req EXCEPT ![r].pc = l]
                   \/ req' = [req EXCEPT ![r].pc = l, ![r].key = k]
      BY <3>1
    <3>2. PICK x : req' = [req EXCEPT ![r] = x] /\ x.pc = l
      <4>. PICK y : y = [req[r] EXCEPT !.pc = l]
        OBVIOUS
      <4>. PICK z : z = [req[r] EXCEPT !.pc = l, !.key = k]
        OBVIOUS
      <4>1. y.pc = l /\ z.pc = l
        BY <2>0 DEF ReqRecord
      <4>2. req' = [req EXCEPT ![r] = y] \/ req' = [req EXCEPT ![r] = z]
        BY <3>k
      <4>. QED  BY <4>1, <4>2
    <3>. QED  BY <1>5, <2>1, <3>1, <3>2
  <2>. QED  BY <2>2, <2>3
<1>. QED  BY <1>1, <1>2, <1>3, <1>4, <1>6, <1>7, TickLimit, GetBucketLimit, AllowLimit, DeleteLimit
          DEF ApiNext

(* The rate limit's cleanup hands out nothing: a fingerprint never gets    *)
(* more than one bucket that was never dropped would have given it, unless *)
(* cleanupLoop dropped a bucket in use; for every rate, burst and idle     *)
(* time that fills a bucket, and any number of requests and keys.          *)
THEOREM CleanupGivesNothing == ApiSpec => []NoExtraRequests
<1>1. LimitInv => NoExtraRequests
  BY DEF LimitInv, LimitOK, NoExtraRequests
<1>. QED  BY <1>1, ReqInitInv, ReqNextInv, LimitInitInv, LimitNextInv, PTL DEF ApiSpec

-----------------------------------------------------------------------------
(* The routes of Caddy: what appending and removing one changes. *)

Route == [host : SiteNames \cup Domains \cup {"any"}, up : IPs \cup {"404"}]

Dials(q, h) == {q[i].up : i \in Dialled(q, h)}

LEMMA AppendedRoute ==
    ASSUME NEW q \in Seq(Route), NEW n, NEW a, [host |-> n, up |-> a] \in Route,
           NEW w, w = Append(q, [host |-> n, up |-> a])
    PROVE  /\ w \in Seq(Route)
           /\ \A h : h # n => Dials(w, h) = Dials(q, h)
                              /\ (AtMostOne(Dialled(q, h)) => AtMostOne(Dialled(w, h)))
           /\ Dialled(q, n) = {} => Dials(w, n) = {a} /\ AtMostOne(Dialled(w, n))
<1>1. /\ w \in Seq(Route) /\ Len(q) \in Nat /\ DOMAIN q = 1..Len(q) /\ DOMAIN w = 1..(Len(q) + 1)
      /\ w[Len(q) + 1] = [host |-> n, up |-> a]
      /\ \A i \in 1..Len(q) : w[i] = q[i]
  OBVIOUS
<1>2. w[Len(q) + 1].host = n /\ w[Len(q) + 1].up = a /\ Len(q) + 1 \in DOMAIN w
  BY <1>1
<1>3. DOMAIN w = DOMAIN q \cup {Len(q) + 1} /\ \A i \in DOMAIN q : w[i] = q[i]
  BY <1>1
<1>4. ASSUME NEW h, h # n PROVE Dialled(w, h) = Dialled(q, h)
  BY <1>2, <1>3, <1>4 DEF Dialled
<1>5. ASSUME NEW h, h # n
      PROVE  Dials(w, h) = Dials(q, h) /\ (AtMostOne(Dialled(q, h)) => AtMostOne(Dialled(w, h)))
  <2>1. \A i \in Dialled(q, h) : w[i] = q[i]
    BY <1>3 DEF Dialled
  <2>. QED  BY <1>4, <1>5, <2>1 DEF Dials
<1>6. ASSUME Dialled(q, n) = {} PROVE Dials(w, n) = {a} /\ AtMostOne(Dialled(w, n))
  <2>1. Dialled(w, n) = {Len(q) + 1}
    BY <1>2, <1>3, <1>6 DEF Dialled
  <2>. QED  BY <1>2, <2>1 DEF Dials, AtMostOne
<1>. QED  BY <1>1, <1>5, <1>6

LEMMA RemovedRoute ==
    ASSUME NEW q \in Seq(Route), NEW n, NEW w, w = Without(q, n)
    PROVE  /\ w \in Seq(Route)
           /\ \A h : h # n => Dials(w, h) = Dials(q, h)
                              /\ (AtMostOne(Dialled(q, h)) => AtMostOne(Dialled(w, h)))
           /\ AtMostOne(Dialled(q, n)) => Dials(w, n) = {} /\ Dialled(w, n) = {}
<1>1. CASE Dialled(q, n) = {}
  <2>1. w = q
    BY <1>1 DEF Without
  <2>. QED  BY <1>1, <2>1 DEF Dials
<1>2. CASE Dialled(q, n) # {}
  <2>0. Len(q) \in Nat /\ DOMAIN q = 1..Len(q)
    OBVIOUS
  <2>. DEFINE k == Max(Dialled(q, n))
  <2>1. k \in Dialled(q, n)
    <3>. DEFINE T == Dialled(q, n)
    <3>1. T \in SUBSET Nat /\ T # {} /\ \A y \in T : y <= Len(q)
      BY <1>2, <2>0 DEF Dialled
    <3>. HIDE DEF T
    <3>2. \E x \in T : \A y \in T : x >= y
      BY <2>0, <3>1, GreatestNatural
    <3>3. Max(T) \in T
      BY <3>2 DEF Max
    <3>. QED  BY <3>3 DEF T
  <2>2. w = SubSeq(q, 1, k - 1) \o SubSeq(q, k + 1, Len(q))
    BY <1>2 DEF Without, RemoveAt
  <2>. HIDE DEF k
  <2>3. k \in 1..Len(q) /\ q[k].host = n
    BY <2>0, <2>1 DEF Dialled
  <2>4. /\ w \in Seq(Route) /\ Len(w) = Len(q) - 1
        /\ \A i \in 1..(k - 1) : w[i] = q[i]
        /\ \A i \in k..(Len(q) - 1) : w[i] = q[i + 1]
    <3>. DEFINE a == SubSeq(q, 1, k - 1)
                b == SubSeq(q, k + 1, Len(q))
    <3>1. a \in Seq(Route) /\ Len(a) = k - 1 /\ \A i \in 1..(k - 1) : a[i] = q[i]
      BY <2>0, <2>3
    <3>2. b \in Seq(Route) /\ Len(b) = Len(q) - k /\ \A i \in 1..(Len(q) - k) : b[i] = q[k + i]
      <4>1. k + 1 \in Int /\ Len(q) \in Int /\ \A i \in (k + 1)..Len(q) : q[i] \in Route
        BY <2>0, <2>3
      <4>2. /\ b \in Seq(Route) /\ Len(b) = IF k + 1 <= Len(q) THEN Len(q) - (k + 1) + 1 ELSE 0
            /\ \A i \in 1..(Len(q) - (k + 1) + 1) : b[i] = q[(k + 1) + i - 1]
        BY <4>1, SubSeqProperties
      <4>3. ASSUME NEW i \in 1..(Len(q) - k) PROVE b[i] = q[k + i]
        <5>1. i \in 1..(Len(q) - (k + 1) + 1) /\ (k + 1) + i - 1 = k + i
          BY <2>0, <2>3
        <5>. QED  BY <4>2, <5>1
      <4>4. b \in Seq(Route) /\ Len(b) = Len(q) - k
        <5>1. Len(b) = IF k + 1 <= Len(q) THEN Len(q) - (k + 1) + 1 ELSE 0
          BY <4>2
        <5>. HIDE DEF b
        <5>2. Len(b) = Len(q) - k
          <6>1. k \in Int /\ Len(q) \in Int /\ k <= Len(q)
            BY <2>0, <2>3
          <6>2. CASE k < Len(q)
            BY <5>1, <6>1, <6>2
          <6>3. CASE k = Len(q)
            BY <5>1, <6>1, <6>3
          <6>. QED  BY <6>1, <6>2, <6>3
        <5>. QED  BY <4>2, <5>2
      <4>. QED  BY <4>3, <4>4
    <3>. HIDE DEF a, b
    <3>3. w = a \o b
      BY <2>2 DEF a, b
    <3>4. w \in Seq(Route) /\ Len(w) = Len(q) - 1
      <4>1. w \in Seq(Route) /\ Len(w) = Len(a) + Len(b)
        BY <3>1, <3>2, <3>3, ConcatProperties
      <4>. QED  BY <2>0, <2>3, <3>1, <3>2, <4>1
    <3>5. \A i \in 1..(k - 1) : w[i] = q[i]
      BY <2>0, <2>3, <3>1, <3>2, <3>3
    <3>6. \A i \in k..(Len(q) - 1) : w[i] = q[i + 1]
      <4>. SUFFICES ASSUME NEW i \in k..(Len(q) - 1) PROVE w[i] = q[i + 1]
        OBVIOUS
      <4>1. w[i] = b[i - (k - 1)]
        BY <2>0, <2>3, <3>1, <3>2, <3>3
      <4>2. i - (k - 1) \in 1..(Len(q) - k) /\ k + (i - (k - 1)) = i + 1
        BY <2>0, <2>3
      <4>. QED  BY <3>2, <4>1, <4>2
    <3>. QED  BY <3>4, <3>5, <3>6
  (* Each route but the k-th has its place in w, and each of w in q. *)
  <2>. DEFINE Old(i) == IF i < k THEN i ELSE i + 1
              New(j) == IF j < k THEN j ELSE j - 1
  <2>5. DOMAIN w = 1..(Len(q) - 1)
    BY <2>4
  <2>6. \A i \in DOMAIN w : Old(i) \in DOMAIN q \ {k} /\ w[i] = q[Old(i)]
    BY <2>0, <2>3, <2>4, <2>5
  <2>7. \A j \in DOMAIN q \ {k} : New(j) \in DOMAIN w /\ w[New(j)] = q[j]
    BY <2>0, <2>3, <2>4, <2>5
  <2>8. \A i, j \in DOMAIN w : Old(i) = Old(j) => i = j
    BY <2>3, <2>5
  <2>. HIDE DEF Old, New
  <2>9. ASSUME NEW h
        PROVE  /\ \A i \in Dialled(w, h) : Old(i) \in Dialled(q, h) \ {k} /\ w[i].up = q[Old(i)].up
               /\ \A j \in Dialled(q, h) \ {k} : New(j) \in Dialled(w, h) /\ w[New(j)].up = q[j].up
               /\ AtMostOne(Dialled(q, h)) => AtMostOne(Dialled(w, h))
    <3>1. \A i \in Dialled(w, h) : Old(i) \in Dialled(q, h) \ {k} /\ w[i].up = q[Old(i)].up
      BY <2>6 DEF Dialled
    <3>2. \A j \in Dialled(q, h) \ {k} : New(j) \in Dialled(w, h) /\ w[New(j)].up = q[j].up
      BY <2>7 DEF Dialled
    <3>3. \A i, j \in Dialled(w, h) : Old(i) = Old(j) => i = j
      BY <2>8 DEF Dialled
    <3>. QED  BY <3>1, <3>2, <3>3 DEF AtMostOne
  <2>10. ASSUME NEW h, h # n
         PROVE  Dials(w, h) = Dials(q, h) /\ (AtMostOne(Dialled(q, h)) => AtMostOne(Dialled(w, h)))
    <3>1. k \notin Dialled(q, h)
      BY <2>3, <2>10 DEF Dialled
    <3>2. Dials(w, h) = Dials(q, h)
      BY <2>9, <3>1 DEF Dials
    <3>. QED  BY <2>9, <3>2
  <2>11. ASSUME AtMostOne(Dialled(q, n)) PROVE Dials(w, n) = {} /\ Dialled(w, n) = {}
    <3>1. Dialled(q, n) \ {k} = {}
      BY <2>1, <2>11 DEF AtMostOne
    <3>2. Dialled(w, n) = {}
      BY <2>9, <3>1
    <3>. QED  BY <3>2 DEF Dials
  <2>. QED  BY <2>4, <2>10, <2>11
<1>. QED  BY <1>1, <1>2

-----------------------------------------------------------------------------
(* The routes of Caddy: the invariant. *)

ShellPcs == {"prompt", "create", "rename", "drop", "halt", "boot", "find", "add", "delete"}

ShellCommand ==
    [pc : ShellPcs, cmd : {"none", "new", "start", "stop", "restart", "rm", "rename"},
     site : Sites \cup {"none"}, from : SiteNames \cup {"none"}, to : SiteNames \cup {"none"},
     run : BOOLEAN, addr : IPs \cup {"none"}]

CnamePcs == {"prompt", "dns", "mark", "route", "unroute", "delete"}

CnameCommand ==
    [pc : CnamePcs, site : Sites \cup {"none"}, domain : Domains \cup {"none"},
     token : Tokens \cup {"none"}, name : SiteNames \cup {"none"}, flag : BOOLEAN]

DomainRow == [site : Sites \cup {"none"}, token : Tokens \cup {"none"}, verified : BOOLEAN]

CaddyTypes ==
    /\ siteName \in [Sites -> SiteNames \cup {"fresh", "gone"}]
    /\ siteIP \in [Sites -> IPs \cup {"none"}]
    /\ up \in SUBSET Sites
    /\ job \in [Shells -> ShellCommand]
    /\ routes \in [SiteNames -> IPs \cup {"none"}]
    /\ caddy \in Seq(Route)
    /\ domain \in [Domains -> DomainRow]
    /\ verifier \in [Verifiers -> CnameCommand]

(* A row of a domain has a VM, a command has a domain. *)
WhoInv ==
    /\ \A d \in Domains : domain[d] # NoDomain =>
          domain[d].site \in Sites /\ HasRow(domain[d].site) /\ domain[d].token \in Tokens
    /\ \A c \in Verifiers :
          /\ verifier[c].pc = "prompt" => verifier[c].domain = "none"
          /\ verifier[c].pc # "prompt" => /\ verifier[c].domain \in Domains
                                          /\ verifier[c].name \in SiteNames
                                          /\ verifier[c].token \in Tokens

-----------------------------------------------------------------------------
(* Commands on VMs: which steps each has, *)
StepsOf(k) ==
    /\ k.pc = "prompt" => k = AtPrompt
    /\ k.pc # "prompt" =>
          /\ k.site \in Sites /\ k.from \in SiteNames /\ k.to \in SiteNames
          /\ k.cmd = "rename" <=> k.from # k.to
          /\ k.cmd = "rename" => k.pc \in {"rename", "drop", "find", "add"}
          /\ k.pc = "rename" => k.cmd = "rename"
          /\ k.pc = "drop" => k.cmd \in {"stop", "restart", "rm", "rename"}
          /\ k.pc = "halt" => k.cmd \in {"stop", "restart"}
          /\ k.pc = "add" => k.addr # "none"

StepsInv == \A c \in Shells : StepsOf(job[c])

(* two that share a VM or a name have muddled all their names, and a VM    *)
(* has a name of the command on it, or a muddled one.                      *)
ApartInv ==
    /\ \A b, c \in Shells :
          /\ b # c /\ Busy(b) /\ Busy(c)
          /\ job[b].site = job[c].site \/ NamesOf(b) \cap NamesOf(c) # {}
          => NamesOf(b) \cup NamesOf(c) \subseteq muddled
    /\ \A c \in Shells : Busy(c) => siteName[job[c].site] \in NamesOf(c) \cup muddled \cup {"fresh", "gone"}

(* A row that says running has its guest; no row, no address. *)
UpInv ==
    \A s \in Sites : siteIP[s] # "none" =>
        HasRow(s) /\ (siteName[s] \notin muddled => s \in up)

(* The VM of a command that has a name to itself. *)
Own(c) == Busy(c) /\ ~(NamesOf(c) \subseteq muddled)

SiteInv(c) ==
    LET k == job[c] s == job[c].site IN
    /\ \A t \in Sites : siteName[t] \in NamesOf(c) => t = s
    /\ siteName[s] = CASE k.pc = "create" -> "fresh"
                       [] k.pc = "rename" -> k.from
                       [] OTHER -> k.to
    /\ k.pc = "boot" => siteIP[s] = "none"
    /\ k.pc \in {"halt", "find", "add"} => siteIP[s] # "none"
    /\ k.pc = "add" => k.addr = siteIP[s]
    /\ k.pc \in {"rename", "drop"} => (k.run <=> siteIP[s] # "none")
    /\ k.pc = "drop" /\ k.cmd \in {"stop", "rename"} => k.run
    /\ siteIP[s] # "none" => s \in up

(* The routes of a name: as at rest, or as far as its command is. *)
Clear(n) == Dialled(caddy, n) = {} /\ routes[n] = "none"
Fits(n) ==
    AtMostOne(Dialled(caddy, n)) /\ DialsOf(n) = UpUnder(n) /\ {routes[n]} \ {"none"} = UpUnder(n)

RouteInv(c, n) ==
    IF n = job[c].from /\ job[c].pc \in {"rename", "drop"}
    THEN /\ AtMostOne(Dialled(caddy, n))
         /\ job[c].pc = "rename" \/ job[c].cmd # "rename" => Fits(n)
    ELSE Clear(n)

NameInv(n) ==
    /\ ~Touched(n) => Fits(n)
    /\ \A c \in Shells : n \in NamesOf(c) => RouteInv(c, n)

NamesInv ==
    /\ StepsInv /\ ApartInv /\ UpInv
    /\ \A c \in Shells : Own(c) => SiteInv(c)
    /\ \A n \in SiteNames \ muddled : NameInv(n)

(* How far a cname command on d is, when it is the only one. *)
CnameInv(c, d) ==
    /\ domain[d] # NoDomain /\ verifier[c].token = domain[d].token
    /\ verifier[c].pc \in {"dns", "mark"} => ~domain[d].verified
    /\ verifier[c].pc = "mark" => <<d, domain[d].token>> \in proven
    /\ verifier[c].pc \in {"route", "unroute"} => domain[d].verified
    /\ verifier[c].pc \in {"route", "delete"} => Dialled(caddy, d) = {}

DomainInv(d) ==
    /\ domain[d].verified => <<d, domain[d].token>> \in proven
    /\ AtMostOne(Dialled(caddy, d))
    /\ ~domain[d].verified => Dialled(caddy, d) = {}
    /\ \A b, c \in Verifiers : verifier[b].domain = d /\ verifier[c].domain = d => b = c
    /\ \A c \in Verifiers : verifier[c].domain = d => CnameInv(c, d)

(* Some token of a domain was found in the DNS. *)
Found(d) == \E k \in Tokens : <<d, k>> \in proven
FoundInv ==
    /\ \A d \in Domains : domain[d].verified \/ Dialled(caddy, d) # {} => Found(d)
    /\ \A c \in Verifiers : verifier[c].pc \in {"mark", "route"} => Found(verifier[c].domain)

DomainsInv == FoundInv /\ \A d \in Domains \ muddled : DomainInv(d)

CaddyInv == CaddyTypes /\ WhoInv /\ NamesInv /\ DomainsInv

LEMMA DialsNothing == ASSUME NEW q, NEW h PROVE Dials(q, h) = {} <=> Dialled(q, h) = {}
BY DEF Dials

(* The routes of other hosts stay as they are. *)
Keeps(q, w, H) ==
    \A h \in H : /\ Dials(w, h) = Dials(q, h)
                 /\ AtMostOne(Dialled(q, h)) => AtMostOne(Dialled(w, h))

LEMMA AddedRoute ==
    ASSUME NEW q \in Seq(Route), NEW n, NEW a, [host |-> n, up |-> a] \in Route, NEW o \in Outcomes,
           NEW w, w = AddRoute(q, n, a, o), NEW H
    PROVE  /\ w \in Seq(Route)
           /\ n \notin H => Keeps(q, w, H)
           /\ o = "ok" /\ Dialled(q, n) = {} => Dials(w, n) = {a} /\ AtMostOne(Dialled(w, n))
<1>1. CASE Applied(o)
  <2>1. w = Append(q, [host |-> n, up |-> a])
    BY <1>1 DEF AddRoute
  <2>. QED  BY <2>1, AppendedRoute DEF Keeps
<1>2. CASE ~Applied(o)
  BY <1>2 DEF AddRoute, Applied, Keeps
<1>. QED  BY <1>1, <1>2

LEMMA TakenRoute ==
    ASSUME NEW q \in Seq(Route), NEW n, NEW o \in Outcomes, NEW w, w = RemoveRoute(q, n, o), NEW H
    PROVE  /\ w \in Seq(Route)
           /\ n \notin H => Keeps(q, w, H)
           /\ o = "ok" /\ AtMostOne(Dialled(q, n)) => Dials(w, n) = {} /\ Dialled(w, n) = {}
<1>1. CASE Applied(o)
  <2>1. w = Without(q, n)
    BY <1>1 DEF RemoveRoute
  <2>. QED  BY <2>1, RemovedRoute DEF Keeps
<1>2. CASE ~Applied(o)
  BY <1>2 DEF RemoveRoute, Applied, Keeps
<1>. QED  BY <1>1, <1>2

LEMMA Noted ==
    ASSUME NEW o \in Outcomes, NEW names, Note(o, names)
    PROVE  muddled \subseteq muddled' /\ (o # "ok" => names \subseteq muddled')
BY DEF Note

-----------------------------------------------------------------------------
(* The routes of a name are as they were, when its VMs are. *)
LEMMA FitsKept ==
    ASSUME NEW n, NEW H, n \in H, Keeps(caddy, caddy', H), routes'[n] = routes[n]
    PROVE  /\ UpUnder(n)' = UpUnder(n) /\ Fits(n) => Fits(n)'
           /\ Clear(n) => Clear(n)'
           /\ AtMostOne(Dialled(caddy, n)) => AtMostOne(Dialled(caddy, n))'
<1>1. Dials(caddy', n) = Dials(caddy, n)
      /\ (AtMostOne(Dialled(caddy, n)) => AtMostOne(Dialled(caddy', n)))
  BY DEF Keeps
<1>2. DialsOf(n) = Dials(caddy, n) /\ DialsOf(n)' = Dials(caddy', n)
  BY DEF DialsOf, Dials
<1>3. /\ Dials(caddy, n) = {} <=> Dialled(caddy, n) = {}
      /\ Dials(caddy', n) = {} <=> Dialled(caddy', n) = {}
  BY DialsNothing
<1>. QED  BY <1>1, <1>2, <1>3 DEF Fits, Clear

(* A name that is clear, and that no running VM has, is as at rest. *)
LEMMA ClearFits ==
    ASSUME NEW n
    PROVE  /\ Clear(n) /\ UpUnder(n) = {} => Fits(n)
           /\ UpUnder(n) = {} /\ Fits(n) => Clear(n)
<1>1. DialsOf(n) = Dials(caddy, n) /\ (Dials(caddy, n) = {} <=> Dialled(caddy, n) = {})
  BY DialsNothing DEF DialsOf, Dials
<1>. QED  BY <1>1 DEF Clear, Fits, AtMostOne

(* A step of the command c changes its own VM, its own names, nothing else. *)
Confined(c) ==
    /\ \A e \in Shells : e # c => job'[e] = job[e]
    /\ \/ job'[c] = AtPrompt
       \/ /\ job'[c].pc # "prompt" /\ job'[c].site = job[c].site
          /\ job'[c].from = job[c].from /\ job'[c].to = job[c].to
    /\ \A t \in Sites : t # job[c].site =>
          siteName'[t] = siteName[t] /\ siteIP'[t] = siteIP[t] /\ (t \in up' <=> t \in up)
    /\ siteName'[job[c].site] \in {siteName[job[c].site], "gone"} \cup NamesOf(c)
    /\ muddled \subseteq muddled'
    /\ Keeps(caddy, caddy', SiteNames \ NamesOf(c))
    /\ \A n \in SiteNames \ NamesOf(c) : routes'[n] = routes[n]

LEMMA CommandStep ==
    ASSUME CaddyTypes, NamesInv, NEW c \in Shells, Busy(c), Confined(c), NEW s, s = job[c].site,
           StepsOf(job'[c]),
           siteIP'[s] # "none" => siteName'[s] \in SiteNames /\ (siteName'[s] \notin muddled' => s \in up'),
           Own(c)' => SiteInv(c)',
           \A n \in NamesOf(c) \ muddled' : /\ Busy(c)' => RouteInv(c, n)'
                                            /\ ~Busy(c)' => Fits(n)'
    PROVE  NamesInv'
<1>0. /\ StepsInv /\ ApartInv /\ UpInv /\ \A e \in Shells : Own(e) => SiteInv(e)
      /\ \A n \in SiteNames \ muddled : NameInv(n)
      /\ s \in Sites /\ NamesOf(c) \subseteq SiteNames
      /\ "none" \notin SiteNames /\ "fresh" \notin SiteNames /\ "gone" \notin SiteNames
      /\ muddled \subseteq muddled'
  BY CaddyAssumption DEF NamesInv, StepsInv, StepsOf, Busy, NamesOf, Confined
<1>1. /\ \A e \in Shells : e # c => /\ job'[e] = job[e] /\ NamesOf(e)' = NamesOf(e)
                                    /\ Busy(e)' = Busy(e)
      /\ Busy(c)' => NamesOf(c)' = NamesOf(c) /\ job'[c].site = s
      /\ ~Busy(c)' => NamesOf(c)' = {}
  BY <1>0 DEF Confined, NamesOf, Busy, AtPrompt
<1>2. StepsInv'
  BY <1>0, <1>1 DEF StepsInv
<1>3. ApartInv'
  <2>1. \A a, b \in Shells :
          /\ a # b /\ Busy(a)' /\ Busy(b)'
          /\ job'[a].site = job'[b].site \/ NamesOf(a)' \cap NamesOf(b)' # {}
          => NamesOf(a)' \cup NamesOf(b)' \subseteq muddled'
    BY <1>0, <1>1 DEF ApartInv
  <2>2. ASSUME NEW e \in Shells, Busy(e)'
        PROVE  siteName'[job'[e].site] \in NamesOf(e)' \cup muddled' \cup {"fresh", "gone"}
    <3>1. Busy(e) /\ job'[e].site = job[e].site /\ NamesOf(e)' = NamesOf(e) /\ job[e].site \in Sites
          /\ siteName[job[e].site] \in NamesOf(e) \cup muddled \cup {"fresh", "gone"}
      BY <1>0, <1>1, <2>2 DEF ApartInv, StepsInv, StepsOf, Busy
    <3>2. CASE job[e].site # s
      BY <1>0, <3>1, <3>2 DEF Confined
    <3>3. CASE job[e].site = s /\ e # c
      BY <1>0, <3>1, <3>3 DEF Confined, ApartInv
    <3>4. CASE e = c
      BY <1>0, <3>1, <3>4 DEF Confined
    <3>. QED  BY <3>2, <3>3, <3>4
  <2>. QED  BY <2>1, <2>2 DEF ApartInv
<1>4. UpInv'
  <2>. SUFFICES ASSUME NEW t \in Sites, siteIP'[t] # "none"
                PROVE  siteName'[t] \in SiteNames /\ (siteName'[t] \notin muddled' => t \in up')
    BY DEF UpInv, HasRow
  <2>1. CASE t = s
    BY <2>1
  <2>2. CASE t # s
    BY <1>0, <2>2 DEF UpInv, Confined, HasRow
  <2>. QED  BY <2>1, <2>2
<1>5. ASSUME NEW e \in Shells, Own(e)' PROVE SiteInv(e)'
  <2>1. CASE e = c
    BY <1>5, <2>1
  <2>2. CASE e # c
    <3>1. Own(e) /\ SiteInv(e) /\ Busy(e) /\ job[e].site \in Sites
      BY <1>0, <1>1, <1>5, <2>2 DEF Own, StepsInv, StepsOf, Busy
    <3>2. job[e].site # s /\ NamesOf(e) \cap NamesOf(c) = {} /\ "gone" \notin NamesOf(e)
      BY <1>0, <2>2, <3>1 DEF ApartInv, Own, StepsInv, StepsOf, NamesOf, Busy
    <3>3. /\ siteName'[job[e].site] = siteName[job[e].site]
          /\ siteIP'[job[e].site] = siteIP[job[e].site]
          /\ job[e].site \in up' <=> job[e].site \in up
      BY <1>0, <3>1, <3>2 DEF Confined
    <3>4. \A t \in Sites : siteName'[t] \in NamesOf(e)' => t = job'[e].site
      <4>. SUFFICES ASSUME NEW t \in Sites, siteName'[t] \in NamesOf(e) PROVE siteName[t] \in NamesOf(e)
        BY <1>1, <2>2, <3>1 DEF SiteInv
      <4>. QED  BY <3>2 DEF Confined
    <3>. QED  BY <1>1, <2>2, <3>1, <3>3, <3>4 DEF SiteInv
  <2>. QED  BY <2>1, <2>2
<1>6. ASSUME NEW n \in SiteNames, n \notin muddled' PROVE NameInv(n)'
  <2>0. NameInv(n) /\ n \notin muddled
    BY <1>0, <1>6
  <2>1. CASE n \in NamesOf(c)
    <3>1. \A e \in Shells : e # c => n \notin NamesOf(e)
      BY <1>0, <2>0, <2>1 DEF ApartInv, StepsInv, StepsOf, NamesOf, Busy, AtPrompt
    <3>2. \A e \in Shells : n \in NamesOf(e)' => e = c /\ Busy(c)'
      BY <1>1, <3>1
    <3>3. Busy(c)' => Touched(n)'
      BY <1>1, <2>1 DEF Touched
    <3>. QED  BY <1>6, <2>1, <3>2, <3>3 DEF NameInv, Touched
  <2>2. CASE n \notin NamesOf(c)
    <3>1. \A e \in Shells : n \in NamesOf(e)' <=> n \in NamesOf(e)
      BY <1>1, <2>2
    <3>2. \A t \in Sites : /\ siteName'[t] = n <=> siteName[t] = n
                           /\ siteName[t] = n => siteIP'[t] = siteIP[t]
      <4>. SUFFICES ASSUME NEW t \in Sites PROVE /\ siteName'[t] = n <=> siteName[t] = n
                                                 /\ siteName[t] = n => siteIP'[t] = siteIP[t]
        OBVIOUS
      <4>1. CASE t # s
        BY <4>1 DEF Confined
      <4>2. CASE t = s
        <5>1. siteName[s] # n
          BY <1>0, <2>0, <2>2 DEF ApartInv
        <5>2. siteName'[s] # n
          BY <1>0, <2>2, <5>1 DEF Confined
        <5>. QED  BY <4>2, <5>1, <5>2
      <4>. QED  BY <4>1, <4>2
    <3>3. UpUnder(n)' = UpUnder(n)
      BY <3>2 DEF UpUnder
    <3>4. Keeps(caddy, caddy', SiteNames \ NamesOf(c)) /\ routes'[n] = routes[n]
      BY <2>2 DEF Confined
    <3>5. /\ Fits(n) => Fits(n)'
          /\ Clear(n) => Clear(n)'
          /\ AtMostOne(Dialled(caddy, n)) => AtMostOne(Dialled(caddy, n))'
      BY <2>2, <3>3, <3>4, FitsKept
    <3>6. ASSUME NEW e \in Shells, n \in NamesOf(e)' PROVE RouteInv(e, n)'
      <4>1. e # c /\ job'[e] = job[e] /\ RouteInv(e, n)
        BY <1>1, <2>0, <2>2, <3>1, <3>6 DEF NameInv
      <4>. QED  BY <3>5, <4>1 DEF RouteInv
    <3>7. ~Touched(n)' => Fits(n)'
      BY <2>0, <3>1, <3>5 DEF NameInv, Touched
    <3>. QED  BY <3>6, <3>7 DEF NameInv
  <2>. QED  BY <2>1, <2>2
<1>. QED  BY <1>2, <1>3, <1>4, <1>5, <1>6 DEF NamesInv

(* What VMs do leaves the domains alone, *)
LEMMA DomainsKept ==
    ASSUME DomainsInv, UNCHANGED <<domain, verifier, proven>>, muddled \subseteq muddled',
           Keeps(caddy, caddy', Domains)
    PROVE  DomainsInv'
<1>1. ASSUME NEW d \in Domains
      PROVE  /\ AtMostOne(Dialled(caddy, d)) => AtMostOne(Dialled(caddy, d)')
             /\ Dialled(caddy, d) = {} => Dialled(caddy, d)' = {}
  <2>1. Dials(caddy', d) = Dials(caddy, d)
    BY DEF Keeps
  <2>2. Dials(caddy', d) = {} <=> Dialled(caddy', d) = {}
    BY DialsNothing
  <2>. QED  BY <2>1, <2>2, DialsNothing DEF Keeps
<1>2. FoundInv'
  BY <1>1 DEF DomainsInv, FoundInv, Found
<1>3. ASSUME NEW d \in Domains, d \notin muddled' PROVE DomainInv(d)'
  <2>1. DomainInv(d)
    BY <1>3 DEF DomainsInv
  <2>. QED  BY <1>1, <2>1 DEF DomainInv, CnameInv
<1>. QED  BY <1>2, <1>3 DEF DomainsInv

(* as long as no row is deleted. *)
LEMMA ShellDone ==
    ASSUME CaddyInv, CaddyTypes', NamesInv', UNCHANGED <<domain, verifier, proven>>,
           muddled \subseteq muddled', Keeps(caddy, caddy', Domains),
           \A t \in Sites : siteName[t] \in SiteNames => siteName'[t] \in SiteNames
    PROVE  CaddyInv'
<1>1. DomainsInv'
  BY DomainsKept DEF CaddyInv
<1>2. WhoInv'
  BY DEF CaddyInv, WhoInv, HasRow
<1>. QED  BY <1>1, <1>2 DEF CaddyInv

LEMMA ShellMoves ==
    ASSUME CaddyTypes, NEW c \in Shells, NEW l \in ShellPcs, Go(c, l)
    PROVE  /\ job' \in [Shells -> ShellCommand]
           /\ \A e \in Shells : e # c => job'[e] = job[e]
           /\ job'[c].pc = l /\ job'[c].cmd = job[c].cmd /\ job'[c].site = job[c].site
           /\ job'[c].from = job[c].from /\ job'[c].to = job[c].to
           /\ job'[c].run = job[c].run /\ job'[c].addr = job[c].addr
<1>. DEFINE v == [job[c] EXCEPT !.pc = l]
<1>1. job[c] \in ShellCommand /\ job' = [job EXCEPT ![c] = v]
      /\ job \in [Shells -> ShellCommand]
  BY DEF CaddyTypes, Go
<1>2. /\ v \in ShellCommand /\ v.pc = l /\ v.cmd = job[c].cmd /\ v.site = job[c].site
      /\ v.from = job[c].from /\ v.to = job[c].to /\ v.run = job[c].run
      /\ v.addr = job[c].addr
  BY <1>1 DEF ShellCommand
<1>. HIDE DEF v
<1>. QED  BY <1>1, <1>2

LEMMA ShellEnds ==
    ASSUME CaddyTypes, NEW c \in Shells, End(c)
    PROVE  /\ job' \in [Shells -> ShellCommand] /\ job'[c] = AtPrompt
           /\ \A e \in Shells : e # c => job'[e] = job[e]
           /\ StepsOf(job'[c]) /\ ~Busy(c)' /\ ~Own(c)'
<1>1. AtPrompt \in ShellCommand
  BY DEF AtPrompt, ShellCommand, ShellPcs
<1>2. /\ job' \in [Shells -> ShellCommand] /\ job'[c] = AtPrompt
      /\ \A e \in Shells : e # c => job'[e] = job[e]
  BY <1>1 DEF CaddyTypes, End
<1>. QED  BY <1>2 DEF StepsOf, AtPrompt, Busy, Own

(* What is known of the command that moves. *)
LEMMA CommandOf ==
    ASSUME CaddyInv, NEW c \in Shells, Busy(c)
    PROVE  /\ CaddyTypes /\ NamesInv /\ StepsOf(job[c])
           /\ job[c].site \in Sites /\ job[c].from \in SiteNames /\ job[c].to \in SiteNames
           /\ NamesOf(c) = {job[c].from, job[c].to}
           /\ ~Own(c) => NamesOf(c) \subseteq muddled
           /\ Own(c) => SiteInv(c)
           /\ \A n \in NamesOf(c) \ muddled : RouteInv(c, n) /\ Own(c)
           /\ \A t \in Sites : siteIP[t] # "none" =>
                  siteName[t] \in SiteNames /\ (siteName[t] \notin muddled => t \in up)
           /\ \A n \in SiteNames : n \notin Domains /\ n \notin {"none", "fresh", "gone"}
<1>1. CaddyTypes /\ NamesInv /\ StepsInv /\ UpInv /\ StepsOf(job[c])
  BY DEF CaddyInv, NamesInv, StepsInv
<1>2. job[c].site \in Sites /\ job[c].from \in SiteNames /\ job[c].to \in SiteNames
  BY <1>1 DEF StepsOf, Busy
<1>3. \A n \in SiteNames : n \notin Domains /\ n \notin {"none", "fresh", "gone"}
  BY CaddyAssumption
<1>4. NamesOf(c) = {job[c].from, job[c].to}
  BY <1>2, <1>3 DEF NamesOf
<1>5. \A n \in NamesOf(c) \ muddled : RouteInv(c, n) /\ Own(c)
  BY <1>1, <1>2, <1>4 DEF NamesInv, NameInv, Own
<1>6. (~Own(c) => NamesOf(c) \subseteq muddled) /\ (Own(c) => SiteInv(c))
  BY <1>1 DEF Own, NamesInv
<1>7. \A t \in Sites : siteIP[t] # "none" =>
          siteName[t] \in SiteNames /\ (siteName[t] \notin muddled => t \in up)
  BY <1>1 DEF UpInv, HasRow
<1>. QED  BY <1>1, <1>2, <1>3, <1>4, <1>5, <1>6, <1>7

(* A step that moves no route and muddles nothing. *)
LEMMA Unrouted ==
    ASSUME UNCHANGED <<routes, caddy, muddled>>
    PROVE  /\ \A H : Keeps(caddy, caddy', H)
           /\ muddled \subseteq muddled'
           /\ \A n : /\ Clear(n) => Clear(n)'
                     /\ AtMostOne(Dialled(caddy, n)) => AtMostOne(Dialled(caddy', n))
           /\ \A n : UpUnder(n)' = UpUnder(n) /\ Fits(n) => Fits(n)'
BY DEF Keeps, Clear, Fits, DialsOf

LEMMA NewRowStep == ASSUME CaddyInv, NEW c \in Shells, NewRow(c) PROVE CaddyInv'
<1>s. PICK s, n : s = job[c].site /\ n = job[c].to
  OBVIOUS
<1>0. /\ job[c].pc = "create" /\ Busy(c)
      /\ UNCHANGED <<siteIP, up, routes, caddy, domain, verifier, proven, muddled>>
      /\ \/ Free(s, n) /\ Go(c, "boot") /\ siteName' = [siteName EXCEPT ![s] = n]
         \/ ~Free(s, n) /\ End(c) /\ siteName' = siteName
  BY <1>s DEF NewRow, Busy, proxyVars, cnameVars
<1>1. /\ CaddyTypes /\ NamesInv /\ StepsOf(job[c]) /\ s \in Sites /\ n \in SiteNames
      /\ NamesOf(c) = {job[c].from, n} /\ job[c].from = n
      /\ ~Own(c) => NamesOf(c) \subseteq muddled
      /\ Own(c) => SiteInv(c)
      /\ \A h \in NamesOf(c) \ muddled : RouteInv(c, h) /\ Own(c)
      /\ \A t \in Sites : siteIP[t] # "none" =>
             siteName[t] \in SiteNames /\ (siteName[t] \notin muddled => t \in up)
      /\ \A h \in SiteNames : h \notin Domains /\ h \notin {"none", "fresh", "gone"}
  BY <1>s, <1>0, CommandOf DEF StepsOf
<1>2. Own(c) => siteName[s] = "fresh" /\ siteIP[s] = "none" /\ Free(s, n)
  <2>1. Own(c) => siteName[s] = "fresh" /\ \A t \in Sites : siteName[t] \in NamesOf(c) => t = s
    BY <1>s, <1>0, <1>1 DEF SiteInv
  <2>. QED  BY <1>1, <2>1 DEF Free
<1>3. \A h : h \in NamesOf(c) \ muddled => Clear(h)
  BY <1>0, <1>1 DEF RouteInv
<1>4. CASE Free(s, n)
  <2>0. Go(c, "boot") /\ siteName' = [siteName EXCEPT ![s] = n] /\ "boot" \in ShellPcs
    BY <1>0, <1>4 DEF ShellPcs
  <2>1. /\ job' \in [Shells -> ShellCommand]
        /\ \A e \in Shells : e # c => job'[e] = job[e]
        /\ job'[c].pc = "boot" /\ job'[c].cmd = job[c].cmd /\ job'[c].site = s
        /\ job'[c].from = job[c].from /\ job'[c].to = n
    BY <1>s, <1>1, <2>0, ShellMoves
  <2>2. siteName'[s] = n /\ (\A t \in Sites : t # s => siteName'[t] = siteName[t]) /\ CaddyTypes'
    BY <1>0, <1>1, <2>0, <2>1 DEF CaddyTypes
  <2>3. Confined(c)
    BY <1>s, <1>0, <1>1, <2>1, <2>2, Unrouted DEF Confined
  <2>4. StepsOf(job'[c])
    BY <1>s, <1>0, <1>1, <2>1 DEF StepsOf
  <2>5. siteIP'[s] # "none" => siteName'[s] \in SiteNames /\ (siteName'[s] \notin muddled' => s \in up')
    BY <1>0, <1>1, <1>2, <2>2
  <2>6. Own(c)' => SiteInv(c)'
    <3>. SUFFICES ASSUME Own(c)' PROVE SiteInv(c)'
      OBVIOUS
    <3>1. NamesOf(c)' = NamesOf(c)
      BY <1>s, <2>1 DEF NamesOf
    <3>2. Own(c) /\ SiteInv(c)
      BY <1>0, <1>1, <3>1 DEF Own
    <3>3. \A t \in Sites : siteName'[t] \in NamesOf(c)' => t = s
      BY <1>s, <2>2, <3>1, <3>2 DEF SiteInv
    <3>. QED  BY <1>0, <1>2, <2>1, <2>2, <3>2, <3>3 DEF SiteInv
  <2>7. ASSUME NEW h \in NamesOf(c) \ muddled' PROVE (Busy(c)' => RouteInv(c, h)') /\ (~Busy(c)' => Fits(h)')
    <3>1. Clear(h)' /\ Busy(c)'
      BY <1>0, <1>3, <2>1, Unrouted DEF Busy
    <3>. QED  BY <2>1, <3>1 DEF RouteInv
  <2>8. NamesInv'
    BY <1>s, <1>0, <1>1, <2>3, <2>4, <2>5, <2>6, <2>7, CommandStep
  <2>. QED  BY <1>0, <1>1, <2>2, <2>8, Unrouted, ShellDone
<1>5. CASE ~Free(s, n)
  <2>1. /\ job' \in [Shells -> ShellCommand] /\ job'[c] = AtPrompt /\ siteName' = siteName
        /\ \A e \in Shells : e # c => job'[e] = job[e]
        /\ StepsOf(job'[c]) /\ ~Own(c)'
    BY <1>0, <1>1, <1>5, ShellEnds
  <2>2. CaddyTypes' /\ Confined(c)
    BY <1>s, <1>0, <1>1, <2>1, Unrouted DEF CaddyTypes, Confined
  <2>3. NamesOf(c) \subseteq muddled'
    BY <1>0, <1>1, <1>2, <1>5
  <2>4. NamesInv'
    BY <1>s, <1>0, <1>1, <2>1, <2>2, <2>3, CommandStep
  <2>. QED  BY <1>0, <1>1, <2>1, <2>2, <2>4, Unrouted, ShellDone
<1>. QED  BY <1>4, <1>5

LEMMA RenameRowStep == ASSUME CaddyInv, NEW c \in Shells, RenameRow(c) PROVE CaddyInv'
<1>s. PICK s, n, x : s = job[c].site /\ n = job[c].to /\ x = job[c].from
  OBVIOUS
<1>0. /\ job[c].pc = "rename" /\ Busy(c)
      /\ UNCHANGED <<siteIP, up, routes, caddy, domain, verifier, proven, muddled>>
      /\ siteName' = IF HasRow(s) /\ Free(s, n) THEN [siteName EXCEPT ![s] = n] ELSE siteName
      /\ IF job[c].run /\ (Free(s, n) \/ ~HasRow(s)) THEN Go(c, "drop") ELSE End(c)
  BY <1>s DEF RenameRow, Busy, proxyVars, cnameVars
<1>1. /\ CaddyTypes /\ NamesInv /\ StepsOf(job[c]) /\ s \in Sites /\ n \in SiteNames
      /\ x \in SiteNames /\ NamesOf(c) = {x, n} /\ x # n /\ job[c].cmd = "rename"
      /\ ~Own(c) => NamesOf(c) \subseteq muddled
      /\ Own(c) => SiteInv(c)
      /\ \A h \in NamesOf(c) \ muddled : RouteInv(c, h) /\ Own(c)
      /\ \A t \in Sites : siteIP[t] # "none" =>
             siteName[t] \in SiteNames /\ (siteName[t] \notin muddled => t \in up)
      /\ \A h \in SiteNames : h \notin Domains /\ h \notin {"none", "fresh", "gone"}
  BY <1>s, <1>0, CommandOf DEF StepsOf
<1>2. Own(c) => /\ siteName[s] = x /\ Free(s, n) /\ HasRow(s)
                /\ \A t \in Sites : siteName[t] \in {x, n} => t = s
                /\ job[c].run <=> siteIP[s] # "none"
                /\ siteIP[s] # "none" => s \in up
  <2>1. Own(c) => /\ siteName[s] = x /\ \A t \in Sites : siteName[t] \in {x, n} => t = s
                  /\ job[c].run <=> siteIP[s] # "none"
                  /\ siteIP[s] # "none" => s \in up
    BY <1>s, <1>0, <1>1 DEF SiteInv
  <2>. QED  BY <1>1, <2>1 DEF Free, HasRow
<1>3. /\ x \notin muddled => Fits(x) /\ AtMostOne(Dialled(caddy, x))
      /\ n \notin muddled => Clear(n)
  BY <1>s, <1>0, <1>1 DEF RouteInv
<1>4. /\ siteName'[s] \in {siteName[s], n} /\ (Own(c) => siteName'[s] = n)
      /\ \A t \in Sites : t # s => siteName'[t] = siteName[t]
      /\ siteName' \in [Sites -> SiteNames \cup {"fresh", "gone"}]
      /\ siteName[s] \in SiteNames => siteName'[s] \in SiteNames
  BY <1>0, <1>1, <1>2 DEF CaddyTypes
<1>5. siteIP'[s] # "none" => siteName'[s] \in SiteNames /\ (siteName'[s] \notin muddled' => s \in up')
  BY <1>0, <1>1, <1>2, <1>4
<1>6. CASE Go(c, "drop") /\ job[c].run
  <2>1. /\ job' \in [Shells -> ShellCommand]
        /\ \A e \in Shells : e # c => job'[e] = job[e]
        /\ job'[c].pc = "drop" /\ job'[c].cmd = "rename" /\ job'[c].site = s
        /\ job'[c].from = x /\ job'[c].to = n /\ job'[c].run
    <3>1. "drop" \in ShellPcs
      BY DEF ShellPcs
    <3>. QED  BY <1>s, <1>1, <1>6, <3>1, ShellMoves
  <2>2. CaddyTypes'
    BY <1>0, <1>1, <1>4, <2>1 DEF CaddyTypes
  <2>3. Confined(c)
    BY <1>s, <1>0, <1>1, <1>4, <2>1, Unrouted DEF Confined
  <2>4. StepsOf(job'[c])
    BY <1>1, <2>1 DEF StepsOf
  <2>6. Own(c)' => SiteInv(c)'
    <3>. SUFFICES ASSUME Own(c)' PROVE SiteInv(c)'
      OBVIOUS
    <3>1. NamesOf(c)' = {x, n}
      BY <1>1, <2>1 DEF NamesOf
    <3>2. Own(c)
      BY <1>0, <1>1, <3>1 DEF Own
    <3>3. \A t \in Sites : siteName'[t] \in NamesOf(c)' => t = s
      BY <1>2, <1>4, <3>1, <3>2
    <3>. QED  BY <1>0, <1>2, <1>4, <1>6, <2>1, <3>2, <3>3 DEF SiteInv
  <2>7. ASSUME NEW h \in NamesOf(c) \ muddled' PROVE (Busy(c)' => RouteInv(c, h)') /\ (~Busy(c)' => Fits(h)')
    <3>1. Busy(c)' /\ (h = n => Clear(h)') /\ (h = x => AtMostOne(Dialled(caddy', h)))
      BY <1>0, <1>3, <2>1, Unrouted DEF Busy
    <3>. QED  BY <1>1, <2>1, <3>1 DEF RouteInv
  <2>8. NamesInv'
    BY <1>s, <1>0, <1>1, <1>5, <2>3, <2>4, <2>6, <2>7, CommandStep
  <2>. QED  BY <1>0, <1>1, <1>4, <2>2, <2>8, Unrouted, ShellDone
<1>7. CASE End(c) /\ (Own(c) => ~job[c].run)
  <2>1. /\ job' \in [Shells -> ShellCommand] /\ job'[c] = AtPrompt
        /\ \A e \in Shells : e # c => job'[e] = job[e]
        /\ StepsOf(job'[c]) /\ ~Own(c)' /\ ~Busy(c)'
    BY <1>1, <1>7, ShellEnds
  <2>2. CaddyTypes' /\ Confined(c)
    BY <1>s, <1>0, <1>1, <1>4, <2>1, Unrouted DEF CaddyTypes, Confined
  <2>3. ASSUME NEW h \in NamesOf(c), h \notin muddled' PROVE Fits(h)'
    <3>1. Own(c) /\ siteIP[s] = "none" /\ h \in {x, n}
      BY <1>0, <1>1, <1>2, <1>7, <2>3
    <3>2. UpUnder(h) = {} /\ UpUnder(h)' = {}
      BY <1>0, <1>2, <1>4, <3>1 DEF UpUnder
    <3>3. Clear(h)
      BY <1>0, <1>3, <2>3, <3>1, <3>2, ClearFits
    <3>4. Fits(h)
      BY <3>2, <3>3, ClearFits
    <3>. QED  BY <1>0, <3>2, <3>4, Unrouted
  <2>4. NamesInv'
    BY <1>s, <1>0, <1>1, <1>5, <2>1, <2>2, <2>3, CommandStep
  <2>. QED  BY <1>0, <1>1, <1>4, <2>2, <2>4, Unrouted, ShellDone
<1>. QED  BY <1>0, <1>2, <1>6, <1>7

LEMMA DropRouteStep ==
    ASSUME CaddyInv, NEW c \in Shells, NEW o \in Outcomes, DropRoute(c, o)
    PROVE  CaddyInv'
<1>s. PICK s, n, x, l : s = job[c].site /\ n = job[c].to /\ x = job[c].from /\ l = AfterDrop(job[c])
  OBVIOUS
<1>0. /\ job[c].pc = "drop" /\ Busy(c)
      /\ UNCHANGED <<siteName, siteIP, up, domain, verifier, proven>>
      /\ caddy' = RemoveRoute(caddy, x, o) /\ routes' = RoutesRemoved(routes, x, o)
      /\ Note(o, {x}) /\ Go(c, l)
  BY <1>s DEF DropRoute, Busy, siteVars, cnameVars
<1>1. /\ CaddyTypes /\ NamesInv /\ StepsOf(job[c]) /\ s \in Sites /\ n \in SiteNames
      /\ x \in SiteNames /\ NamesOf(c) = {x, n}
      /\ ~Own(c) => NamesOf(c) \subseteq muddled
      /\ Own(c) => SiteInv(c)
      /\ \A h \in NamesOf(c) \ muddled : RouteInv(c, h) /\ Own(c)
      /\ \A t \in Sites : siteIP[t] # "none" =>
             siteName[t] \in SiteNames /\ (siteName[t] \notin muddled => t \in up)
      /\ \A h \in SiteNames : h \notin Domains /\ h \notin {"none", "fresh", "gone"}
  BY <1>s, <1>0, CommandOf DEF StepsOf
<1>2. /\ job[c].cmd \in {"stop", "restart", "rm", "rename"} /\ (job[c].cmd = "rename" <=> x # n)
      /\ job[c].cmd = "stop" => l = "halt"
      /\ job[c].cmd = "restart" => l = IF job[c].run THEN "halt" ELSE "boot"
      /\ job[c].cmd = "rm" => l = "delete"
      /\ job[c].cmd = "rename" => l = "find"
      /\ l \in {"halt", "boot", "delete", "find"}
  BY <1>s, <1>0, <1>1 DEF StepsOf, AfterDrop
<1>3. /\ caddy' \in Seq(Route) /\ Keeps(caddy, caddy', Domains)
      /\ Keeps(caddy, caddy', SiteNames \ {x})
      /\ o = "ok" /\ AtMostOne(Dialled(caddy, x)) => Dialled(caddy', x) = {}
  <2>1. x \notin Domains /\ caddy \in Seq(Route)
    BY <1>1 DEF CaddyTypes
  <2>. QED  BY <1>0, <2>1, TakenRoute
<1>4. /\ routes' \in [SiteNames -> IPs \cup {"none"}] /\ (o = "ok" => routes'[x] = "none")
      /\ \A h \in SiteNames : h # x => routes'[h] = routes[h]
  BY <1>0, <1>1 DEF RoutesRemoved, CaddyTypes
<1>5. muddled \subseteq muddled' /\ (o # "ok" => x \in muddled')
  BY <1>0, Noted
<1>6. /\ job' \in [Shells -> ShellCommand]
      /\ \A e \in Shells : e # c => job'[e] = job[e]
      /\ job'[c].pc = l /\ job'[c].cmd = job[c].cmd /\ job'[c].site = s
      /\ job'[c].from = x /\ job'[c].to = n /\ job'[c].run = job[c].run
  <2>1. l \in ShellPcs
    BY <1>2 DEF ShellPcs
  <2>. QED  BY <1>s, <1>0, <1>1, <2>1, ShellMoves
<1>7. CaddyTypes'
  BY <1>0, <1>1, <1>3, <1>4, <1>6 DEF CaddyTypes
<1>8. Confined(c)
  <2>1. /\ Keeps(caddy, caddy', SiteNames \ NamesOf(c))
        /\ \A h \in SiteNames \ NamesOf(c) : routes'[h] = routes[h]
    BY <1>1, <1>3, <1>4 DEF Keeps
  <2>. QED  BY <1>s, <1>0, <1>1, <1>2, <1>5, <1>6, <2>1 DEF Confined
<1>9. StepsOf(job'[c])
  BY <1>1, <1>2, <1>6 DEF StepsOf
<1>10. siteIP'[s] # "none" => siteName'[s] \in SiteNames /\ (siteName'[s] \notin muddled' => s \in up')
  BY <1>0, <1>1, <1>5
<1>11. Own(c)' => SiteInv(c)'
  <2>. SUFFICES ASSUME Own(c)' PROVE SiteInv(c)'
    OBVIOUS
  <2>1. NamesOf(c)' = NamesOf(c)
    BY <1>s, <1>6 DEF NamesOf
  <2>2. Own(c) /\ SiteInv(c)
    BY <1>0, <1>1, <1>5, <2>1 DEF Own
  <2>3. /\ siteName[s] = n /\ (job[c].run <=> siteIP[s] # "none")
        /\ job[c].cmd \in {"stop", "rename"} => job[c].run
        /\ siteIP[s] # "none" => s \in up
        /\ \A t \in Sites : siteName[t] \in NamesOf(c) => t = s
    BY <1>s, <1>0, <2>2 DEF SiteInv
  <2>. QED  BY <1>0, <1>2, <1>6, <2>1, <2>3 DEF SiteInv
<1>12. ASSUME NEW h \in NamesOf(c) \ muddled' PROVE (Busy(c)' => RouteInv(c, h)') /\ (~Busy(c)' => Fits(h)')
  <2>0. RouteInv(c, h) /\ h \notin muddled /\ h \in {x, n}
    BY <1>1, <1>5
  <2>1. CASE h = x
    <3>1. AtMostOne(Dialled(caddy, x)) /\ o = "ok"
      BY <1>s, <1>0, <1>5, <2>0, <2>1 DEF RouteInv
    <3>2. Clear(h)'
      BY <1>3, <1>4, <2>1, <3>1 DEF Clear
    <3>. QED  BY <1>2, <1>6, <3>2 DEF RouteInv, Busy
  <2>2. CASE h # x
    <3>1. Clear(h)
      BY <1>s, <2>0, <2>2 DEF RouteInv
    <3>2. h \in SiteNames \ {x} /\ routes'[h] = routes[h]
      BY <1>1, <1>4, <2>0, <2>2
    <3>3. Clear(h)'
      BY <1>3, <3>1, <3>2, FitsKept
    <3>. QED  BY <1>2, <1>6, <3>3 DEF RouteInv, Busy
  <2>. QED  BY <2>1, <2>2
<1>13. NamesInv'
  BY <1>s, <1>0, <1>1, <1>8, <1>9, <1>10, <1>11, <1>12, CommandStep
<1>. QED  BY <1>0, <1>3, <1>5, <1>7, <1>13, ShellDone

(* A command that ends: its names are clear, and no running VM has them. *)
LEMMA ClearEnds ==
    ASSUME NEW h, Clear(h), UNCHANGED <<routes, caddy>>,
           \A t \in Sites : siteName'[t] = h => siteIP'[t] = "none"
    PROVE  Fits(h)'
<1>1. UpUnder(h)' = {}
  BY DEF UpUnder
<1>2. Dialled(caddy', h) = {} /\ routes'[h] = "none"
  BY DEF Clear
<1>. QED  BY <1>1, <1>2 DEF Fits, DialsOf, AtMostOne

LEMMA HaltVMStep == ASSUME CaddyInv, NEW c \in Shells, HaltVM(c) PROVE CaddyInv'
<1>s. PICK s, n : s = job[c].site /\ n = job[c].to
  OBVIOUS
<1>0. /\ job[c].pc = "halt" /\ Busy(c)
      /\ UNCHANGED <<siteName, routes, caddy, domain, verifier, proven, muddled>>
      /\ \/ /\ s \in up /\ siteIP' = [siteIP EXCEPT ![s] = "none"] /\ up' = up \ {s}
            /\ IF job[c].cmd = "stop" THEN End(c) ELSE Go(c, "boot")
         \/ s \notin up /\ End(c) /\ UNCHANGED <<siteIP, up>>
  BY <1>s DEF HaltVM, Busy, proxyVars, cnameVars
<1>1. /\ CaddyTypes /\ NamesInv /\ StepsOf(job[c]) /\ s \in Sites /\ n \in SiteNames
      /\ NamesOf(c) = {n} /\ job[c].from = n /\ job[c].cmd # "rename"
      /\ ~Own(c) => NamesOf(c) \subseteq muddled
      /\ Own(c) => SiteInv(c)
      /\ \A h \in NamesOf(c) \ muddled : RouteInv(c, h) /\ Own(c)
      /\ \A t \in Sites : siteIP[t] # "none" =>
             siteName[t] \in SiteNames /\ (siteName[t] \notin muddled => t \in up)
      /\ \A h \in SiteNames : h \notin Domains /\ h \notin {"none", "fresh", "gone"}
  BY <1>s, <1>0, CommandOf DEF StepsOf
<1>2. /\ Own(c) => siteName[s] = n /\ s \in up /\ \A t \in Sites : siteName[t] \in NamesOf(c) => t = s
      /\ \A h \in NamesOf(c) \ muddled : Clear(h)
  BY <1>s, <1>0, <1>1 DEF SiteInv, RouteInv
<1>3. /\ \A t \in Sites : t # s => siteIP'[t] = siteIP[t] /\ (t \in up' <=> t \in up)
      /\ siteIP' \in [Sites -> IPs \cup {"none"}] /\ up' \in SUBSET Sites
      /\ s \in up => siteIP'[s] = "none"
      /\ siteIP'[s] # "none" => siteName'[s] \in SiteNames /\ (siteName'[s] \notin muddled' => s \in up')
  BY <1>0, <1>1 DEF CaddyTypes
<1>4. CASE End(c)
  <2>1. /\ job' \in [Shells -> ShellCommand] /\ job'[c] = AtPrompt
        /\ \A e \in Shells : e # c => job'[e] = job[e]
        /\ StepsOf(job'[c]) /\ ~Own(c)' /\ ~Busy(c)'
    BY <1>1, <1>4, ShellEnds
  <2>2. CaddyTypes' /\ Confined(c)
    BY <1>s, <1>0, <1>1, <1>3, <2>1, Unrouted DEF CaddyTypes, Confined
  <2>3. ASSUME NEW h \in NamesOf(c), h \notin muddled' PROVE Fits(h)'
    <3>1. Own(c) /\ Clear(h) /\ s \in up /\ \A t \in Sites : siteName'[t] = h => siteIP'[t] = "none"
      BY <1>0, <1>1, <1>2, <1>3, <2>3
    <3>. QED  BY <1>0, <3>1, ClearEnds
  <2>4. NamesInv'
    BY <1>s, <1>0, <1>1, <1>3, <2>1, <2>2, <2>3, CommandStep
  <2>. QED  BY <1>0, <1>1, <2>2, <2>4, Unrouted, ShellDone
<1>5. CASE Go(c, "boot") /\ s \in up
  <2>1. /\ job' \in [Shells -> ShellCommand]
        /\ \A e \in Shells : e # c => job'[e] = job[e]
        /\ job'[c].pc = "boot" /\ job'[c].cmd = job[c].cmd /\ job'[c].site = s
        /\ job'[c].from = n /\ job'[c].to = n
    <3>1. "boot" \in ShellPcs
      BY DEF ShellPcs
    <3>. QED  BY <1>s, <1>1, <1>5, <3>1, ShellMoves
  <2>2. CaddyTypes'
    BY <1>0, <1>1, <1>3, <2>1 DEF CaddyTypes
  <2>3. Confined(c)
    BY <1>s, <1>0, <1>1, <1>3, <2>1, Unrouted DEF Confined
  <2>4. StepsOf(job'[c])
    BY <1>1, <2>1 DEF StepsOf
  <2>5. Own(c)' => SiteInv(c)'
    <3>. SUFFICES ASSUME Own(c)' PROVE SiteInv(c)'
      OBVIOUS
    <3>1. NamesOf(c)' = NamesOf(c)
      BY <1>s, <1>1, <2>1 DEF NamesOf
    <3>2. Own(c)
      BY <1>0, <1>1, <3>1 DEF Own
    <3>. QED  BY <1>0, <1>2, <1>3, <1>5, <2>1, <3>1, <3>2 DEF SiteInv
  <2>6. ASSUME NEW h \in NamesOf(c) \ muddled' PROVE (Busy(c)' => RouteInv(c, h)') /\ (~Busy(c)' => Fits(h)')
    <3>1. Clear(h)' /\ Busy(c)'
      BY <1>0, <1>2, <2>1, Unrouted DEF Busy
    <3>. QED  BY <2>1, <3>1 DEF RouteInv
  <2>7. NamesInv'
    BY <1>s, <1>0, <1>1, <1>3, <2>3, <2>4, <2>5, <2>6, CommandStep
  <2>. QED  BY <1>0, <1>1, <2>2, <2>7, Unrouted, ShellDone
<1>. QED  BY <1>0, <1>4, <1>5

LEMMA BootVMStep == ASSUME CaddyInv, NEW c \in Shells, NEW a \in IPs, BootVM(c, a) PROVE CaddyInv'
<1>s. PICK s, n : s = job[c].site /\ n = job[c].to
  OBVIOUS
<1>0. /\ job[c].pc = "boot" /\ Busy(c)
      /\ UNCHANGED <<siteName, routes, caddy, domain, verifier, proven, muddled>>
      /\ siteIP' = IF HasRow(s) THEN [siteIP EXCEPT ![s] = a] ELSE siteIP
      /\ up' = up \cup {s} /\ Go(c, "find") /\ a # "none"
  BY <1>s, CaddyAssumption DEF BootVM, Busy, proxyVars, cnameVars
<1>1. /\ CaddyTypes /\ NamesInv /\ StepsOf(job[c]) /\ s \in Sites /\ n \in SiteNames
      /\ NamesOf(c) = {n} /\ job[c].from = n /\ job[c].cmd # "rename"
      /\ ~Own(c) => NamesOf(c) \subseteq muddled
      /\ Own(c) => SiteInv(c)
      /\ \A h \in NamesOf(c) \ muddled : RouteInv(c, h) /\ Own(c)
      /\ \A t \in Sites : siteIP[t] # "none" =>
             siteName[t] \in SiteNames /\ (siteName[t] \notin muddled => t \in up)
      /\ \A h \in SiteNames : h \notin Domains /\ h \notin {"none", "fresh", "gone"}
  BY <1>s, <1>0, CommandOf DEF StepsOf
<1>2. /\ Own(c) => siteName[s] = n /\ HasRow(s) /\ \A t \in Sites : siteName[t] \in NamesOf(c) => t = s
      /\ \A h \in NamesOf(c) \ muddled : Clear(h)
  BY <1>s, <1>0, <1>1 DEF SiteInv, RouteInv, HasRow
<1>3. /\ \A t \in Sites : t # s => siteIP'[t] = siteIP[t] /\ (t \in up' <=> t \in up)
      /\ siteIP' \in [Sites -> IPs \cup {"none"}] /\ up' \in SUBSET Sites /\ s \in up'
      /\ HasRow(s) => siteIP'[s] = a
      /\ siteIP'[s] # "none" => siteName'[s] \in SiteNames /\ (siteName'[s] \notin muddled' => s \in up')
  BY <1>0, <1>1 DEF CaddyTypes, HasRow
<1>4. /\ job' \in [Shells -> ShellCommand]
      /\ \A e \in Shells : e # c => job'[e] = job[e]
      /\ job'[c].pc = "find" /\ job'[c].cmd = job[c].cmd /\ job'[c].site = s
      /\ job'[c].from = n /\ job'[c].to = n
  <2>1. "find" \in ShellPcs
    BY DEF ShellPcs
  <2>. QED  BY <1>s, <1>0, <1>1, <2>1, ShellMoves
<1>5. CaddyTypes'
  BY <1>0, <1>1, <1>3, <1>4 DEF CaddyTypes
<1>6. Confined(c)
  BY <1>s, <1>0, <1>1, <1>3, <1>4, Unrouted DEF Confined
<1>7. StepsOf(job'[c])
  BY <1>1, <1>4 DEF StepsOf
<1>8. Own(c)' => SiteInv(c)'
  <2>. SUFFICES ASSUME Own(c)' PROVE SiteInv(c)'
    OBVIOUS
  <2>1. NamesOf(c)' = NamesOf(c)
    BY <1>s, <1>1, <1>4 DEF NamesOf
  <2>2. Own(c)
    BY <1>0, <1>1, <2>1 DEF Own
  <2>. QED  BY <1>0, <1>2, <1>3, <1>4, <2>1, <2>2 DEF SiteInv
<1>9. ASSUME NEW h \in NamesOf(c) \ muddled' PROVE (Busy(c)' => RouteInv(c, h)') /\ (~Busy(c)' => Fits(h)')
  <2>1. Clear(h)' /\ Busy(c)'
    BY <1>0, <1>2, <1>4, Unrouted DEF Busy
  <2>. QED  BY <1>4, <2>1 DEF RouteInv
<1>10. NamesInv'
  BY <1>s, <1>0, <1>1, <1>3, <1>6, <1>7, <1>8, <1>9, CommandStep
<1>. QED  BY <1>0, <1>1, <1>5, <1>10, Unrouted, ShellDone

LEMMA BootFailsStep == ASSUME CaddyInv, NEW c \in Shells, BootFails(c) PROVE CaddyInv'
<1>s. PICK s, n : s = job[c].site /\ n = job[c].to
  OBVIOUS
<1>0. /\ job[c].pc = "boot" /\ Busy(c) /\ End(c)
      /\ UNCHANGED <<siteName, up, routes, caddy, domain, verifier, proven, muddled>>
      /\ siteIP' = [siteIP EXCEPT ![s] = "none"]
  BY <1>s DEF BootFails, Busy, proxyVars, cnameVars
<1>1. /\ CaddyTypes /\ NamesInv /\ StepsOf(job[c]) /\ s \in Sites /\ n \in SiteNames
      /\ NamesOf(c) = {n} /\ job[c].from = n
      /\ Own(c) => SiteInv(c)
      /\ \A h \in NamesOf(c) \ muddled : RouteInv(c, h) /\ Own(c)
  BY <1>s, <1>0, CommandOf DEF StepsOf
<1>2. /\ Own(c) => \A t \in Sites : siteName[t] \in NamesOf(c) => t = s
      /\ \A h \in NamesOf(c) \ muddled : Clear(h)
  BY <1>s, <1>0, <1>1 DEF SiteInv, RouteInv
<1>3. /\ \A t \in Sites : t # s => siteIP'[t] = siteIP[t]
      /\ siteIP' \in [Sites -> IPs \cup {"none"}] /\ siteIP'[s] = "none"
  BY <1>0, <1>1 DEF CaddyTypes
<1>4. /\ job' \in [Shells -> ShellCommand] /\ job'[c] = AtPrompt
      /\ \A e \in Shells : e # c => job'[e] = job[e]
      /\ StepsOf(job'[c]) /\ ~Own(c)' /\ ~Busy(c)'
  BY <1>0, <1>1, ShellEnds
<1>5. CaddyTypes' /\ Confined(c)
  BY <1>s, <1>0, <1>1, <1>3, <1>4, Unrouted DEF CaddyTypes, Confined
<1>6. ASSUME NEW h \in NamesOf(c), h \notin muddled' PROVE Fits(h)'
  <2>1. Clear(h) /\ \A t \in Sites : siteName'[t] = h => siteIP'[t] = "none"
    BY <1>0, <1>1, <1>2, <1>3, <1>6
  <2>. QED  BY <1>0, <2>1, ClearEnds
<1>7. NamesInv'
  BY <1>s, <1>0, <1>1, <1>3, <1>4, <1>5, <1>6, CommandStep
<1>. QED  BY <1>0, <1>1, <1>5, <1>7, Unrouted, ShellDone

LEMMA FindAddressStep == ASSUME CaddyInv, NEW c \in Shells, FindAddress(c) PROVE CaddyInv'
<1>s. PICK s, n, x, a : s = job[c].site /\ n = job[c].to /\ x = job[c].from /\ a = siteIP[s]
  OBVIOUS
<1>0. /\ job[c].pc = "find" /\ Busy(c)
      /\ UNCHANGED <<siteName, siteIP, up, routes, caddy, domain, verifier, proven, muddled>>
      /\ IF a = "none" THEN End(c) ELSE job' = [job EXCEPT ![c].pc = "add", ![c].addr = a]
  BY <1>s DEF FindAddress, Busy, siteVars, proxyVars, cnameVars
<1>1. /\ CaddyTypes /\ NamesInv /\ StepsOf(job[c]) /\ s \in Sites /\ n \in SiteNames /\ x \in SiteNames
      /\ NamesOf(c) = {x, n} /\ (job[c].cmd = "rename" <=> x # n)
      /\ Own(c) => SiteInv(c)
      /\ \A h \in NamesOf(c) \ muddled : RouteInv(c, h) /\ Own(c)
      /\ \A t \in Sites : siteIP[t] # "none" =>
             siteName[t] \in SiteNames /\ (siteName[t] \notin muddled => t \in up)
  BY <1>s, <1>0, CommandOf DEF StepsOf
<1>2. /\ Own(c) => /\ a # "none" /\ siteName[s] = n /\ s \in up
                   /\ \A t \in Sites : siteName[t] \in NamesOf(c) => t = s
      /\ \A h \in NamesOf(c) \ muddled : Clear(h)
  BY <1>s, <1>0, <1>1 DEF SiteInv, RouteInv
<1>3. CASE a = "none"
  <2>1. /\ job' \in [Shells -> ShellCommand] /\ job'[c] = AtPrompt
        /\ \A e \in Shells : e # c => job'[e] = job[e]
        /\ StepsOf(job'[c]) /\ ~Own(c)' /\ ~Busy(c)'
    BY <1>0, <1>1, <1>3, ShellEnds
  <2>2. CaddyTypes' /\ Confined(c)
    BY <1>s, <1>0, <1>1, <2>1, Unrouted DEF CaddyTypes, Confined
  <2>3. NamesOf(c) \subseteq muddled'
    BY <1>0, <1>1, <1>2, <1>3
  <2>4. NamesInv'
    BY <1>s, <1>0, <1>1, <2>1, <2>2, <2>3, CommandStep
  <2>. QED  BY <1>0, <1>1, <2>2, <2>4, Unrouted, ShellDone
<1>4. CASE a # "none"
  <2>1. /\ job' \in [Shells -> ShellCommand]
        /\ \A e \in Shells : e # c => job'[e] = job[e]
        /\ job'[c].pc = "add" /\ job'[c].cmd = job[c].cmd /\ job'[c].site = s
        /\ job'[c].from = x /\ job'[c].to = n /\ job'[c].addr = a
    <3>. DEFINE v == [job[c] EXCEPT !.pc = "add", !.addr = a]
    <3>1. job[c] \in ShellCommand /\ job \in [Shells -> ShellCommand] /\ a \in IPs \cup {"none"}
      BY <1>s, <1>1 DEF CaddyTypes
    <3>2. job' = [job EXCEPT ![c] = v]
      BY <1>0, <1>4, <3>1
    <3>3. /\ v \in ShellCommand /\ v.pc = "add" /\ v.cmd = job[c].cmd /\ v.site = s
          /\ v.from = x /\ v.to = n /\ v.addr = a
      BY <1>s, <3>1 DEF ShellCommand, ShellPcs
    <3>. HIDE DEF v
    <3>. QED  BY <3>1, <3>2, <3>3
  <2>2. CaddyTypes'
    BY <1>0, <1>1, <2>1 DEF CaddyTypes
  <2>3. Confined(c)
    BY <1>s, <1>0, <1>1, <2>1, Unrouted DEF Confined
  <2>4. StepsOf(job'[c])
    BY <1>1, <1>4, <2>1 DEF StepsOf
  <2>5. Own(c)' => SiteInv(c)'
    <3>. SUFFICES ASSUME Own(c)' PROVE SiteInv(c)'
      OBVIOUS
    <3>1. NamesOf(c)' = NamesOf(c)
      BY <1>s, <1>1, <2>1 DEF NamesOf
    <3>2. Own(c)
      BY <1>0, <1>1, <3>1 DEF Own
    <3>. QED  BY <1>s, <1>0, <1>2, <2>1, <3>1, <3>2 DEF SiteInv
  <2>6. ASSUME NEW h \in NamesOf(c) \ muddled' PROVE (Busy(c)' => RouteInv(c, h)') /\ (~Busy(c)' => Fits(h)')
    <3>1. Clear(h)' /\ Busy(c)'
      BY <1>0, <1>2, <2>1, Unrouted DEF Busy
    <3>. QED  BY <2>1, <3>1 DEF RouteInv
  <2>7. NamesInv'
    BY <1>s, <1>0, <1>1, <2>3, <2>4, <2>5, <2>6, CommandStep
  <2>. QED  BY <1>0, <1>1, <2>2, <2>7, Unrouted, ShellDone
<1>. QED  BY <1>3, <1>4

LEMMA AddVMRouteStep ==
    ASSUME CaddyInv, NEW c \in Shells, NEW o \in Outcomes, AddVMRoute(c, o)
    PROVE  CaddyInv'
<1>s. PICK s, n, x, a : s = job[c].site /\ n = job[c].to /\ x = job[c].from /\ a = job[c].addr
  OBVIOUS
<1>0. /\ job[c].pc = "add" /\ Busy(c) /\ End(c)
      /\ UNCHANGED <<siteName, siteIP, up, domain, verifier, proven>>
      /\ caddy' = AddRoute(caddy, n, a, o) /\ routes' = RoutesAdded(routes, n, a, o)
      /\ Note(o, {n})
  BY <1>s DEF AddVMRoute, Busy, siteVars, cnameVars
<1>1. /\ CaddyTypes /\ NamesInv /\ StepsOf(job[c]) /\ s \in Sites /\ n \in SiteNames /\ x \in SiteNames
      /\ NamesOf(c) = {x, n}
      /\ Own(c) => SiteInv(c)
      /\ \A h \in NamesOf(c) \ muddled : RouteInv(c, h) /\ Own(c)
      /\ \A t \in Sites : siteIP[t] # "none" =>
             siteName[t] \in SiteNames /\ (siteName[t] \notin muddled => t \in up)
      /\ \A h \in SiteNames : h \notin Domains /\ h \notin {"none", "fresh", "gone"}
  BY <1>s, <1>0, CommandOf DEF StepsOf
<1>2. /\ Own(c) => /\ siteName[s] = n /\ a = siteIP[s] /\ a # "none"
                   /\ \A t \in Sites : siteName[t] \in {x, n} => t = s
      /\ \A h \in NamesOf(c) \ muddled : Clear(h)
  BY <1>s, <1>0, <1>1 DEF SiteInv, RouteInv
<1>a. a \in IPs
  BY <1>s, <1>0, <1>1 DEF StepsOf, CaddyTypes, ShellCommand
<1>3. /\ caddy' \in Seq(Route) /\ Keeps(caddy, caddy', Domains)
      /\ Keeps(caddy, caddy', SiteNames \ {n})
      /\ o = "ok" /\ Dialled(caddy, n) = {} => Dials(caddy', n) = {a} /\ AtMostOne(Dialled(caddy', n))
  <2>1. [host |-> n, up |-> a] \in Route /\ n \notin Domains /\ caddy \in Seq(Route)
    BY <1>a, <1>1 DEF Route, CaddyTypes
  <2>. QED  BY <1>0, <2>1, AddedRoute
<1>4. /\ routes' \in [SiteNames -> IPs \cup {"none"}] /\ (o = "ok" => routes'[n] = a)
      /\ \A h \in SiteNames : h # n => routes'[h] = routes[h]
  BY <1>a, <1>0, <1>1 DEF RoutesAdded, CaddyTypes
<1>5. muddled \subseteq muddled' /\ (o # "ok" => n \in muddled')
  BY <1>0, Noted
<1>6. /\ job' \in [Shells -> ShellCommand] /\ job'[c] = AtPrompt
      /\ \A e \in Shells : e # c => job'[e] = job[e]
      /\ StepsOf(job'[c]) /\ ~Own(c)' /\ ~Busy(c)'
  BY <1>0, <1>1, ShellEnds
<1>7. CaddyTypes'
  BY <1>0, <1>1, <1>3, <1>4, <1>6 DEF CaddyTypes
<1>8. Confined(c)
  <2>1. /\ Keeps(caddy, caddy', SiteNames \ NamesOf(c))
        /\ \A h \in SiteNames \ NamesOf(c) : routes'[h] = routes[h]
    BY <1>1, <1>3, <1>4 DEF Keeps
  <2>. QED  BY <1>s, <1>0, <1>1, <1>5, <1>6, <2>1 DEF Confined
<1>9. siteIP'[s] # "none" => siteName'[s] \in SiteNames /\ (siteName'[s] \notin muddled' => s \in up')
  BY <1>0, <1>1, <1>5
<1>10. ASSUME NEW h \in NamesOf(c), h \notin muddled' PROVE Fits(h)'
  <2>0. Own(c) /\ Clear(h) /\ h \in {x, n} /\ h \in SiteNames
    BY <1>1, <1>2, <1>5, <1>10
  <2>1. CASE h = n
    <3>1. UpUnder(h)' = {a}
      <4>1. \A t \in Sites : siteName'[t] = h <=> t = s
        BY <1>0, <1>2, <2>0, <2>1
      <4>. QED  BY <1>0, <1>1, <1>2, <2>0, <4>1 DEF UpUnder
    <3>2. o = "ok" /\ Dialled(caddy, n) = {}
      BY <1>5, <1>10, <2>0, <2>1 DEF Clear
    <3>3. Dials(caddy', h) = {a} /\ AtMostOne(Dialled(caddy', h)) /\ routes'[h] = a
      BY <1>3, <1>4, <2>1, <3>2
    <3>. QED  BY <1>2, <2>0, <3>1, <3>3 DEF Fits, DialsOf, Dials
  <2>2. CASE h # n
    <3>1. UpUnder(h) = {} /\ UpUnder(h)' = UpUnder(h)
      BY <1>0, <1>2, <2>0, <2>2 DEF UpUnder
    <3>2. Fits(h) /\ routes'[h] = routes[h] /\ h \in SiteNames \ {n}
      BY <1>4, <2>0, <2>2, <3>1, ClearFits
    <3>. QED  BY <1>3, <3>1, <3>2, FitsKept
  <2>. QED  BY <2>1, <2>2
<1>11. NamesInv'
  BY <1>s, <1>0, <1>1, <1>6, <1>8, <1>9, <1>10, CommandStep
<1>. QED  BY <1>0, <1>3, <1>5, <1>7, <1>11, ShellDone

(* The rows of the VM's domains go with its own. *)
LEMMA DestroyVMStep == ASSUME CaddyInv, NEW c \in Shells, DestroyVM(c) PROVE CaddyInv'
<1>s. PICK s, D : /\ s = job[c].site /\ D = {d \in Domains : domain[d].site = s}
  OBVIOUS
<1>0. /\ job[c].pc = "delete" /\ Busy(c) /\ End(c)
      /\ siteName' = [siteName EXCEPT ![s] = "gone"] /\ siteIP' = [siteIP EXCEPT ![s] = "none"]
      /\ up' = up \ {s}
      /\ domain' = [d \in Domains |-> IF d \in D THEN NoDomain ELSE domain[d]]
      /\ muddled' = muddled \cup {d \in D : \/ domain[d].verified
                                            \/ \E e \in Verifiers : verifier[e].domain = d}
      /\ UNCHANGED <<routes, caddy, verifier, proven>>
  BY <1>s DEF DestroyVM, Busy, proxyVars
<1>1. /\ CaddyTypes /\ NamesInv /\ StepsOf(job[c]) /\ s \in Sites
      /\ NamesOf(c) \subseteq SiteNames
      /\ Own(c) => SiteInv(c)
      /\ \A h \in NamesOf(c) \ muddled : RouteInv(c, h) /\ Own(c)
      /\ \A h \in SiteNames : h \notin Domains /\ h \notin {"none", "fresh", "gone"}
  BY <1>s, <1>0, CommandOf
<1>2. /\ Own(c) => \A t \in Sites : siteName[t] \in NamesOf(c) => t = s
      /\ \A h \in NamesOf(c) \ muddled : Clear(h)
  BY <1>s, <1>0, <1>1 DEF SiteInv, RouteInv
<1>3. /\ \A t \in Sites : t # s =>
            siteName'[t] = siteName[t] /\ siteIP'[t] = siteIP[t] /\ (t \in up' <=> t \in up)
      /\ siteName'[s] = "gone" /\ siteIP'[s] = "none" /\ up' \in SUBSET Sites
      /\ siteName' \in [Sites -> SiteNames \cup {"fresh", "gone"}]
      /\ siteIP' \in [Sites -> IPs \cup {"none"}]
  BY <1>0, <1>1 DEF CaddyTypes
<1>4. domain' \in [Domains -> DomainRow]
  <2>1. NoDomain \in DomainRow
    BY DEF NoDomain, DomainRow
  <2>. QED  BY <1>0, <1>1, <2>1 DEF CaddyTypes
<1>5. /\ job' \in [Shells -> ShellCommand] /\ job'[c] = AtPrompt
      /\ \A e \in Shells : e # c => job'[e] = job[e]
      /\ StepsOf(job'[c]) /\ ~Own(c)' /\ ~Busy(c)'
  BY <1>0, <1>1, ShellEnds
<1>6. CaddyTypes'
  BY <1>0, <1>1, <1>3, <1>4, <1>5 DEF CaddyTypes
<1>7. Confined(c)
  <2>1. \A H : Keeps(caddy, caddy', H)
    BY <1>0 DEF Keeps
  <2>. QED  BY <1>s, <1>0, <1>1, <1>3, <1>5, <2>1 DEF Confined
<1>8. ASSUME NEW h \in NamesOf(c), h \notin muddled' PROVE Fits(h)'
  <2>1. Clear(h) /\ \A t \in Sites : siteName'[t] = h => siteIP'[t] = "none"
    BY <1>0, <1>1, <1>2, <1>3, <1>8
  <2>. QED  BY <1>0, <2>1, ClearEnds
<1>9. NamesInv'
  BY <1>s, <1>0, <1>1, <1>3, <1>5, <1>7, <1>8, CommandStep
<1>10. WhoInv'
  <2>1. ASSUME NEW d \in Domains, domain'[d] # NoDomain
        PROVE  /\ domain'[d].site \in Sites /\ siteName'[domain'[d].site] \in SiteNames
               /\ domain'[d].token \in Tokens
    <3>1. d \notin D /\ domain'[d] = domain[d] /\ domain[d].site # s
      BY <1>s, <1>0, <2>1
    <3>. QED  BY <1>3, <2>1, <3>1 DEF CaddyInv, WhoInv, HasRow
  <2>. QED  BY <1>0, <2>1 DEF CaddyInv, WhoInv, HasRow
<1>11. DomainsInv'
  <2>0. DomainsInv /\ ~NoDomain.verified
    BY DEF CaddyInv, NoDomain
  <2>1. \A d \in Domains : domain'[d] = IF d \in D THEN NoDomain ELSE domain[d]
    BY <1>0
  <2>2. FoundInv'
    BY <1>0, <2>0, <2>1 DEF DomainsInv, FoundInv, Found
  <2>3. ASSUME NEW d \in Domains, d \notin muddled' PROVE DomainInv(d)'
    <3>0. DomainInv(d)
      BY <1>0, <2>0, <2>3 DEF DomainsInv
    <3>1. CASE d \in D
      <4>1. ~domain[d].verified /\ \A e \in Verifiers : verifier[e].domain # d
        BY <1>0, <2>3, <3>1
      <4>. QED  BY <1>0, <2>0, <2>1, <3>0, <3>1, <4>1 DEF DomainInv
    <3>2. CASE d \notin D
      BY <1>0, <2>1, <3>0, <3>2 DEF DomainInv, CnameInv
    <3>. QED  BY <3>1, <3>2
  <2>. QED  BY <2>2, <2>3 DEF DomainsInv
<1>. QED  BY <1>6, <1>9, <1>10, <1>11 DEF CaddyInv

(* A command begins, alone with its VM and its names, or muddling them.    *)
LEMMA ShellBegins ==
    ASSUME CaddyInv, NEW c \in Shells, NEW s \in Sites, NEW from \in SiteNames, NEW to \in SiteNames,
           NEW cmd \in {"new", "start", "stop", "restart", "rm", "rename"},
           NEW l \in {"create", "boot", "drop", "rename"}, Begin(c, s, cmd, l, from, to),
           cmd = "rename" <=> from # to, cmd = "rename" <=> l = "rename",
           l = "drop" => cmd \in {"stop", "restart", "rm"},
           siteName[s] = IF l = "create" THEN "fresh" ELSE from,
           l = "boot" => siteIP[s] = "none", cmd = "stop" => siteIP[s] # "none"
    PROVE  CaddyInv'
<1>. DEFINE N == {from, to}
            R == Rivals(s, N)
            new == [pc |-> l, cmd |-> cmd, site |-> s, from |-> from, to |-> to,
                    run |-> siteIP[s] # "none", addr |-> "none"]
<1>0. /\ CaddyTypes /\ NamesInv /\ StepsInv /\ ApartInv /\ UpInv /\ ~Busy(c)
      /\ \A e \in Shells : Own(e) => SiteInv(e)
      /\ \A n \in SiteNames \ muddled : NameInv(n)
      /\ job' = [job EXCEPT ![c] = new]
      /\ muddled' = IF \/ R # {} \/ \E t \in Sites \ {s} : siteName[t] \in N
                       \/ siteIP[s] # "none" /\ s \notin up
                    THEN muddled \cup N \cup UNION {NamesOf(e) : e \in R} ELSE muddled
      /\ UNCHANGED <<siteName, siteIP, up, routes, caddy, domain, verifier, proven>>
      /\ \A h \in SiteNames : h \notin {"none", "fresh", "gone"}
  BY CaddyAssumption DEF CaddyInv, NamesInv, Begin, siteVars, proxyVars, cnameVars
<1>1. /\ job' \in [Shells -> ShellCommand] /\ \A e \in Shells : e # c => job'[e] = job[e]
      /\ job'[c].pc = l /\ job'[c].cmd = cmd /\ job'[c].site = s /\ job'[c].from = from
      /\ job'[c].to = to /\ (job'[c].run <=> siteIP[s] # "none")
  <2>1. new \in ShellCommand
    BY DEF ShellCommand, ShellPcs
  <2>. QED  BY <1>0, <2>1 DEF CaddyTypes
<1>2. /\ \A e \in Shells : e # c => NamesOf(e)' = NamesOf(e) /\ Busy(e)' = Busy(e)
      /\ Busy(c)' /\ NamesOf(c)' = N
  BY <1>0, <1>1 DEF NamesOf, Busy
<1>3. /\ muddled \subseteq muddled'
      /\ \A e \in Shells : Busy(e) /\ (job[e].site = s \/ NamesOf(e) \cap N # {})
                           => N \cup NamesOf(e) \subseteq muddled'
  <2>1. \A e \in Shells : Busy(e) /\ (job[e].site = s \/ NamesOf(e) \cap N # {}) => e \in R
    BY DEF Rivals
  <2>. HIDE DEF R, N
  <2>. QED  BY <1>0, <2>1
<1>4. N \subseteq muddled'
      \/ /\ \A t \in Sites : siteName[t] \in N => t = s
         /\ siteIP[s] # "none" => s \in up
         /\ \A e \in Shells : Busy(e) => job[e].site # s /\ NamesOf(e) \cap N = {}
  <2>. HIDE DEF R
  <2>. QED  BY <1>0, <1>3
<1>. HIDE DEF N, R, new
<1>5. CaddyTypes'
  BY <1>0, <1>1 DEF CaddyTypes
<1>6. StepsInv'
  <2>1. StepsOf(job'[c])
    BY <1>1 DEF StepsOf
  <2>. QED  BY <1>0, <1>1, <2>1 DEF StepsInv
<1>7. ApartInv'
  <2>1. ASSUME NEW a \in Shells, NEW b \in Shells, a # b, Busy(a)', Busy(b)',
               job'[a].site = job'[b].site \/ NamesOf(a)' \cap NamesOf(b)' # {}
        PROVE  NamesOf(a)' \cup NamesOf(b)' \subseteq muddled'
    <3>1. CASE a # c /\ b # c
      BY <1>0, <1>1, <1>2, <1>3, <2>1, <3>1 DEF ApartInv
    <3>2. CASE a = c
      BY <1>1, <1>2, <1>3, <2>1, <3>2
    <3>3. CASE b = c
      BY <1>1, <1>2, <1>3, <2>1, <3>3
    <3>. QED  BY <3>1, <3>2, <3>3
  <2>2. ASSUME NEW e \in Shells, Busy(e)'
        PROVE  siteName'[job'[e].site] \in NamesOf(e)' \cup muddled' \cup {"fresh", "gone"}
    <3>1. CASE e = c
      BY <1>0, <1>1, <1>2, <3>1 DEF N
    <3>2. CASE e # c
      BY <1>0, <1>1, <1>2, <1>3, <2>2, <3>2 DEF ApartInv
    <3>. QED  BY <3>1, <3>2
  <2>. QED  BY <2>1, <2>2 DEF ApartInv
<1>8. UpInv'
  BY <1>0, <1>3 DEF UpInv, HasRow
<1>9. ASSUME NEW e \in Shells, Own(e)' PROVE SiteInv(e)'
  <2>1. CASE e = c
    <3>1. /\ \A t \in Sites : siteName[t] \in N => t = s
          /\ siteIP[s] # "none" => s \in up
      BY <1>2, <1>4, <1>9, <2>1 DEF Own
    <3>. QED  BY <1>0, <1>1, <1>2, <2>1, <3>1 DEF SiteInv
  <2>2. CASE e # c
    <3>1. SiteInv(e) /\ job'[e] = job[e] /\ NamesOf(e)' = NamesOf(e)
      BY <1>0, <1>1, <1>2, <1>3, <1>9, <2>2 DEF Own
    <3>. QED  BY <1>0, <3>1 DEF SiteInv
  <2>. QED  BY <2>1, <2>2
<1>10. ASSUME NEW n \in SiteNames, n \notin muddled' PROVE NameInv(n)'
  <2>0. NameInv(n) /\ n \notin muddled
    BY <1>0, <1>3, <1>10
  <2>k. /\ (Fits(n) <=> Fits(n)') /\ (Clear(n) <=> Clear(n)')
        /\ (AtMostOne(Dialled(caddy, n)) <=> AtMostOne(Dialled(caddy, n))')
    BY <1>0 DEF Fits, Clear, DialsOf, UpUnder
  <2>1. CASE n \in N
    <3>1. /\ \A t \in Sites : siteName[t] \in N => t = s
          /\ \A e \in Shells : Busy(e) => n \notin NamesOf(e)
      BY <1>4, <1>10, <2>1
    <3>2. \A e \in Shells : n \notin NamesOf(e)
      BY <1>0, <3>1 DEF StepsInv, StepsOf, Busy, NamesOf, AtPrompt
    <3>3. Fits(n) /\ AtMostOne(Dialled(caddy, n))
      BY <2>0, <3>2 DEF NameInv, Touched, Fits
    <3>4. (n = from /\ l \in {"drop", "rename"}) \/ Clear(n)
      <4>1. CASE n = from /\ l \in {"drop", "rename"}
        BY <4>1
      <4>2. CASE l = "create" \/ n # from
        <5>1. \A t \in Sites : siteName[t] # n
          BY <1>0, <2>1, <3>1, <4>2 DEF N
        <5>2. UpUnder(n) = {}
          BY <5>1 DEF UpUnder
        <5>. QED  BY <3>3, <5>2, ClearFits
      <4>3. CASE l = "boot"
        <5>1. UpUnder(n) = {}
          BY <2>1, <3>1, <4>3 DEF UpUnder
        <5>. QED  BY <3>3, <5>1, ClearFits
      <4>. QED  BY <4>1, <4>2, <4>3
    <3>5. RouteInv(c, n)'
      BY <1>1, <2>k, <3>3, <3>4 DEF RouteInv
    <3>6. \A e \in Shells : n \in NamesOf(e)' => e = c
      BY <1>2, <3>2
    <3>. QED  BY <1>2, <2>1, <3>5, <3>6 DEF NameInv, Touched
  <2>2. CASE n \notin N
    <3>1. \A e \in Shells : n \in NamesOf(e)' => n \in NamesOf(e) /\ e # c
      BY <1>2, <2>2
    <3>2. \A e \in Shells : n \in NamesOf(e) => n \in NamesOf(e)'
      BY <1>0, <1>2 DEF StepsInv, StepsOf, Busy, NamesOf, AtPrompt
    <3>3. \A e \in Shells : n \in NamesOf(e)' => RouteInv(e, n)'
      BY <1>1, <2>0, <2>k, <3>1 DEF NameInv, RouteInv
    <3>. QED  BY <2>0, <2>k, <3>2, <3>3 DEF NameInv, Touched
  <2>. QED  BY <2>1, <2>2
<1>11. NamesInv'
  BY <1>6, <1>7, <1>8, <1>9, <1>10 DEF NamesInv
<1>12. Keeps(caddy, caddy', Domains)
  BY <1>0 DEF Keeps
<1>. QED  BY <1>0, <1>3, <1>5, <1>11, <1>12, ShellDone

LEMMA BeginsStep == ASSUME CaddyInv, BeginNext PROVE CaddyInv'
<1>1. PICK c \in Shells, s \in Sites :
        \/ CmdStart(c, s) \/ CmdStop(c, s) \/ CmdRestart(c, s) \/ CmdRm(c, s)
        \/ \E n \in SiteNames : CmdNew(c, s, n) \/ CmdRename(c, s, n)
  BY DEF BeginNext
<1>2. CASE CmdStart(c, s)
  BY <1>2, ShellBegins DEF CmdStart, HasRow
<1>3. CASE CmdStop(c, s)
  BY <1>3, ShellBegins DEF CmdStop, HasRow
<1>4. CASE CmdRestart(c, s)
  BY <1>4, ShellBegins DEF CmdRestart, HasRow
<1>5. CASE CmdRm(c, s)
  BY <1>5, ShellBegins DEF CmdRm, HasRow
<1>6. ASSUME NEW n \in SiteNames, CmdNew(c, s, n) PROVE CaddyInv'
  BY <1>6, ShellBegins DEF CmdNew
<1>7. ASSUME NEW n \in SiteNames, CmdRename(c, s, n) PROVE CaddyInv'
  <2>1. siteName[s] \in SiteNames /\ siteName[s] # n /\ Begin(c, s, "rename", "rename", siteName[s], n)
    BY <1>7 DEF CmdRename, HasRow, Free
  <2>. QED  BY <2>1, ShellBegins
<1>. QED  BY <1>1, <1>2, <1>3, <1>4, <1>5, <1>6, <1>7

(* What cname commands do leaves the names of VMs alone. *)
LEMMA NamesKept ==
    ASSUME NamesInv, UNCHANGED <<siteName, siteIP, up, job, routes>>, muddled \subseteq muddled',
           Keeps(caddy, caddy', SiteNames)
    PROVE  NamesInv'
<1>1. \A e \in Shells : NamesOf(e)' = NamesOf(e) /\ Busy(e)' = Busy(e) /\ (Own(e)' => Own(e))
  BY DEF NamesOf, Busy, Own
<1>2. StepsInv' /\ ApartInv' /\ UpInv'
  BY <1>1 DEF NamesInv, StepsInv, ApartInv, UpInv, HasRow
<1>3. \A e \in Shells : Own(e)' => SiteInv(e)'
  BY <1>1 DEF NamesInv, SiteInv
<1>4. ASSUME NEW n \in SiteNames, n \notin muddled' PROVE NameInv(n)'
  <2>1. NameInv(n) /\ UpUnder(n)' = UpUnder(n) /\ (Touched(n)' <=> Touched(n))
    BY <1>1, <1>4 DEF NamesInv, UpUnder, Touched
  <2>2. /\ Fits(n) => Fits(n)'
        /\ Clear(n) => Clear(n)'
        /\ AtMostOne(Dialled(caddy, n)) => AtMostOne(Dialled(caddy, n))'
    BY <2>1, FitsKept
  <2>3. \A e \in Shells : RouteInv(e, n) => RouteInv(e, n)'
    BY <2>2 DEF RouteInv
  <2>. QED  BY <1>1, <2>1, <2>2, <2>3 DEF NameInv
<1>. QED  BY <1>2, <1>3, <1>4 DEF NamesInv

(* Steps of the cname commands that change no route. *)
LEMMA CnameQuiet ==
    ASSUME CaddyInv, UNCHANGED <<siteName, siteIP, up, job, routes, caddy>>,
           muddled \subseteq muddled', CaddyTypes', WhoInv', DomainsInv'
    PROVE  CaddyInv'
<1>1. Keeps(caddy, caddy', SiteNames)
  BY DEF Keeps
<1>. QED  BY <1>1, NamesKept DEF CaddyInv

(* The other domains, when one command or one row changes. *)
LEMMA OtherDomains ==
    ASSUME DomainsInv, muddled \subseteq muddled', proven \subseteq proven',
           NEW d, Keeps(caddy, caddy', Domains \ {d}),
           \A e \in Domains : e # d => domain'[e] = domain[e],
           \A c \in Verifiers : \/ verifier'[c] = verifier[c]
                                \/ verifier'[c].domain \in {d, "none"}
    PROVE  \A e \in Domains \ muddled' : e # d => DomainInv(e)'
<1>. SUFFICES ASSUME NEW e \in Domains, e \notin muddled', e # d PROVE DomainInv(e)'
  OBVIOUS
<1>1. DomainInv(e) /\ domain'[e] = domain[e] /\ e # "none"
  BY CaddyAssumption DEF DomainsInv
<1>2. /\ AtMostOne(Dialled(caddy, e)) => AtMostOne(Dialled(caddy', e))
      /\ Dialled(caddy, e) = {} => Dialled(caddy', e) = {}
  <2>1. Dials(caddy', e) = Dials(caddy, e)
    BY DEF Keeps
  <2>2. Dials(caddy', e) = {} <=> Dialled(caddy', e) = {}
    BY DialsNothing
  <2>. QED  BY <2>1, <2>2, DialsNothing DEF Keeps
<1>3. \A c \in Verifiers : verifier'[c].domain = e => verifier'[c] = verifier[c]
  BY <1>1
<1>4. \A c \in Verifiers : verifier'[c].domain = e => CnameInv(c, e)'
  <2>. SUFFICES ASSUME NEW c \in Verifiers, verifier'[c].domain = e PROVE CnameInv(c, e)'
    OBVIOUS
  <2>1. verifier'[c] = verifier[c] /\ CnameInv(c, e)
    BY <1>1, <1>3 DEF DomainInv
  <2>. QED  BY <1>1, <1>2, <2>1 DEF CnameInv, NoDomain
<1>. QED  BY <1>1, <1>2, <1>3, <1>4 DEF DomainInv

LEMMA FoundKept ==
    ASSUME DomainsInv, proven \subseteq proven', NEW d \in Domains,
           Keeps(caddy, caddy', Domains \ {d}),
           \A e \in Domains : e # d => domain'[e] = domain[e],
           domain'[d].verified \/ Dialled(caddy', d) # {} => Found(d)',
           \A c \in Verifiers : \/ verifier'[c] = verifier[c]
                                \/ verifier'[c].pc \in {"mark", "route"} =>
                                      verifier'[c].domain = d /\ Found(d)'
    PROVE  FoundInv'
<1>0. FoundInv /\ \A e : Found(e) => Found(e)'
  BY DEF DomainsInv, Found
<1>1. ASSUME NEW e \in Domains, domain'[e].verified \/ Dialled(caddy', e) # {} PROVE Found(e)'
  <2>1. CASE e = d
    BY <1>1, <2>1
  <2>2. CASE e # d
    <3>1. Dials(caddy', e) = Dials(caddy, e)
      BY <2>2 DEF Keeps
    <3>2. Dialled(caddy', e) # {} => Dialled(caddy, e) # {}
      <4>1. Dials(caddy', e) = {} <=> Dialled(caddy', e) = {}
        BY DialsNothing
      <4>. QED  BY <3>1, <4>1, DialsNothing
    <3>. QED  BY <1>0, <1>1, <2>2, <3>2 DEF FoundInv
  <2>. QED  BY <2>1, <2>2
<1>2. ASSUME NEW c \in Verifiers, verifier'[c].pc \in {"mark", "route"} PROVE Found(verifier[c].domain)'
  <2>1. CASE verifier'[c] = verifier[c]
    BY <1>0, <1>2, <2>1 DEF FoundInv, Found
  <2>2. CASE verifier'[c] # verifier[c]
    BY <1>2, <2>2
  <2>. QED  BY <2>1, <2>2
<1>. QED  BY <1>1, <1>2 DEF FoundInv

LEMMA CommandMoves ==
    ASSUME CaddyTypes, NEW c \in Verifiers, NEW l \in CnamePcs,
           verifier' = [verifier EXCEPT ![c].pc = l]
    PROVE  /\ verifier' \in [Verifiers -> CnameCommand]
           /\ \A e \in Verifiers : e # c => verifier'[e] = verifier[e]
           /\ verifier'[c].pc = l /\ verifier'[c].domain = verifier[c].domain
           /\ verifier'[c].token = verifier[c].token /\ verifier'[c].name = verifier[c].name
<1>. DEFINE v == [verifier[c] EXCEPT !.pc = l]
<1>1. verifier[c] \in CnameCommand /\ verifier' = [verifier EXCEPT ![c] = v]
      /\ verifier \in [Verifiers -> CnameCommand]
  BY DEF CaddyTypes
<1>2. /\ v \in CnameCommand /\ v.pc = l /\ v.domain = verifier[c].domain
      /\ v.token = verifier[c].token /\ v.name = verifier[c].name
  BY <1>1 DEF CnameCommand
<1>. HIDE DEF v
<1>. QED  BY <1>1, <1>2

LEMMA CommandEnds ==
    ASSUME CaddyTypes, NEW c \in Verifiers, verifier' = [verifier EXCEPT ![c] = NoVerifier]
    PROVE  /\ verifier' \in [Verifiers -> CnameCommand] /\ verifier'[c] = NoVerifier
           /\ \A e \in Verifiers : e # c => verifier'[e] = verifier[e]
<1>1. NoVerifier \in CnameCommand
  BY DEF NoVerifier, CnameCommand, CnamePcs
<1>. QED  BY <1>1 DEF CaddyTypes

LEMMA CreateDomainStep ==
    ASSUME CaddyInv, NEW d \in Domains, NEW s \in Sites, NEW k \in Tokens,
           CreateCustomDomain(d, s, k)
    PROVE  CaddyInv'
<1>. DEFINE fresh == [site |-> s, token |-> k, verified |-> FALSE]
<1>0. /\ CaddyTypes /\ WhoInv /\ DomainsInv /\ domain[d] = NoDomain
      /\ domain' = [domain EXCEPT ![d] = fresh] /\ HasRow(s)
      /\ UNCHANGED <<siteName, siteIP, up, job, routes, caddy, verifier, proven, muddled>>
  BY DEF CaddyInv, CreateCustomDomain, siteVars
<1>1. /\ domain'[d] = fresh /\ \A e \in Domains : e # d => domain'[e] = domain[e]
      /\ CaddyTypes' /\ WhoInv'
  <2>1. fresh \in DomainRow
    BY DEF DomainRow
  <2>. QED  BY <1>0, <2>1 DEF CaddyTypes, WhoInv, HasRow
<1>2. ASSUME d \notin muddled PROVE DomainInv(d)'
  <2>1. DomainInv(d)
    BY <1>0, <1>2 DEF DomainsInv
  <2>2. \A c \in Verifiers : verifier[c].domain # d
    BY <1>0, <2>1 DEF DomainInv, CnameInv
  <2>3. Dialled(caddy, d) = {}
    BY <1>0, <2>1 DEF DomainInv, NoDomain
  <2>. QED  BY <1>0, <1>1, <2>2, <2>3 DEF DomainInv, AtMostOne
<1>3. DomainsInv'
  <2>1. Keeps(caddy, caddy', Domains \ {d})
    BY <1>0 DEF Keeps
  <2>2. \A e \in Domains \ muddled' : e # d => DomainInv(e)'
    BY <1>0, <1>1, <2>1, OtherDomains
  <2>3. FoundInv'
    <3>1. domain'[d].verified \/ Dialled(caddy', d) # {} => Found(d)'
      BY <1>0, <1>1 DEF DomainsInv, FoundInv, Found
    <3>. QED  BY <1>0, <1>1, <2>1, <3>1, FoundKept
  <2>. QED  BY <1>0, <1>2, <2>2, <2>3 DEF DomainsInv
<1>. QED  BY <1>0, <1>1, <1>3, CnameQuiet

LEMMA CaddyStutters ==
    ASSUME CaddyInv, UNCHANGED <<siteName, siteIP, up, job, routes, caddy, domain, verifier,
                                 proven, muddled>>
    PROVE  CaddyInv'
<1>1. CaddyTypes' /\ WhoInv'
  BY DEF CaddyInv, CaddyTypes, WhoInv, HasRow
<1>2. Keeps(caddy, caddy', Domains)
  BY DEF Keeps
<1>3. DomainsInv'
  BY <1>2, DomainsKept DEF CaddyInv
<1>. QED  BY <1>1, <1>3, CnameQuiet

LEMMA BeginStep ==
    ASSUME CaddyInv, NEW c \in Verifiers, NEW d \in Domains,
           BeginCnameVerify(c, d) \/ BeginCnameRm(c, d)
    PROVE  CaddyInv'
<1>1. PICK l, f : /\ BeginCname(c, d, l, f) /\ f \in BOOLEAN
                  /\ \/ l = "dns" /\ ~domain[d].verified
                     \/ l = "unroute" /\ domain[d].verified
                     \/ l = "delete" /\ ~domain[d].verified
  <2>1. CASE BeginCnameVerify(c, d)
    BY <2>1 DEF BeginCnameVerify
  <2>2. CASE BeginCnameRm(c, d)
    BY <2>2 DEF BeginCnameRm
  <2>. QED  BY <2>1, <2>2
<1>. DEFINE new == [pc |-> l, site |-> domain[d].site, domain |-> d, token |-> domain[d].token,
                    name |-> siteName[domain[d].site], flag |-> f]
<1>0. /\ CaddyTypes /\ WhoInv /\ DomainsInv /\ verifier[c].pc = "prompt" /\ domain[d] # NoDomain
      /\ verifier' = [verifier EXCEPT ![c] = new]
      /\ muddled' = IF \E e \in Verifiers : verifier[e].domain = d THEN muddled \cup {d} ELSE muddled
      /\ UNCHANGED <<siteName, siteIP, up, job, routes, caddy, domain, proven>>
  BY <1>1 DEF CaddyInv, BeginCname, siteVars
<1>2. /\ verifier'[c] = new /\ \A e \in Verifiers : e # c => verifier'[e] = verifier[e]
      /\ CaddyTypes' /\ WhoInv'
  <2>1. domain[d].site \in Sites /\ siteName[domain[d].site] \in SiteNames
        /\ domain[d].token \in Tokens
    BY <1>0 DEF WhoInv, HasRow
  <2>2. new \in CnameCommand
    BY <1>1, <2>1 DEF CnameCommand, CnamePcs
  <2>3. new.pc # "prompt" /\ new.domain = d /\ new.name \in SiteNames /\ new.token \in Tokens
    BY <1>1, <2>1
  <2>. HIDE DEF new
  <2>4. verifier'[c] = new /\ \A e \in Verifiers : e # c => verifier'[e] = verifier[e]
    BY <1>0 DEF CaddyTypes
  <2>5. CaddyTypes'
    BY <1>0, <2>2 DEF CaddyTypes
  <2>6. WhoInv'
    BY <1>0, <2>3, <2>4 DEF WhoInv, HasRow
  <2>. QED  BY <2>4, <2>5, <2>6
<1>3. ASSUME d \notin muddled' PROVE DomainInv(d)'
  <2>1. DomainInv(d) /\ \A e \in Verifiers : verifier[e].domain # d
    BY <1>0, <1>3 DEF DomainsInv
  <2>2. CnameInv(c, d)'
    BY <1>0, <1>1, <1>2, <2>1 DEF CnameInv, DomainInv
  <2>. QED  BY <1>0, <1>2, <2>1, <2>2 DEF DomainInv
<1>4. DomainsInv'
  <2>1. Keeps(caddy, caddy', Domains \ {d}) /\ muddled \subseteq muddled'
    BY <1>0 DEF Keeps
  <2>2. \A e \in Verifiers : verifier'[e] = verifier[e] \/ verifier'[e].domain \in {d, "none"}
    BY <1>2
  <2>3. \A e \in Domains \ muddled' : e # d => DomainInv(e)'
    BY <1>0, <2>1, <2>2, OtherDomains
  <2>4. FoundInv'
    <3>1. domain'[d].verified \/ Dialled(caddy', d) # {} => Found(d)'
      BY <1>0 DEF DomainsInv, FoundInv, Found
    <3>2. \A e \in Verifiers : verifier'[e] = verifier[e] \/ verifier'[e].pc \notin {"mark", "route"}
      BY <1>1, <1>2
    <3>. QED  BY <1>0, <2>1, <3>1, <3>2, FoundKept
  <2>. QED  BY <1>3, <2>3, <2>4 DEF DomainsInv
<1>. QED  BY <1>0, <1>2, <1>4, CnameQuiet

(* A command moves on or ends, its domain's row and route as they were.    *)
LEMMA LookupStep ==
    ASSUME CaddyInv, NEW c \in Verifiers, LookupTXT(c)
    PROVE  CaddyInv'
<1>d. PICK d, k : d = verifier[c].domain /\ k = verifier[c].token
  OBVIOUS
<1>0. /\ CaddyTypes /\ WhoInv /\ DomainsInv /\ verifier[c].pc = "dns" /\ d \in Domains
      /\ UNCHANGED <<siteName, siteIP, up, job, routes, caddy, domain, muddled>>
  BY <1>d DEF CaddyInv, LookupTXT, siteVars, WhoInv
<1>1. \/ /\ verifier' = [verifier EXCEPT ![c].pc = "mark"] /\ proven' = proven \cup {<<d, k>>}
      \/ verifier' = [verifier EXCEPT ![c] = NoVerifier] /\ proven' = proven
  BY <1>0, <1>d DEF LookupTXT, CaddyTypes
<1>2. /\ \A e \in Verifiers : e # c => verifier'[e] = verifier[e]
      /\ \/ /\ verifier'[c].pc = "mark" /\ verifier'[c].domain = d /\ verifier'[c].token = k
            /\ verifier'[c].name = verifier[c].name /\ <<d, k>> \in proven'
         \/ verifier'[c] = NoVerifier
      /\ proven \subseteq proven' /\ CaddyTypes'
  <2>1. CASE /\ verifier' = [verifier EXCEPT ![c].pc = "mark"] /\ proven' = proven \cup {<<d, k>>}
    <3>1. "mark" \in CnamePcs
      BY DEF CnamePcs
    <3>. QED  BY <1>0, <1>d, <2>1, <3>1, CommandMoves DEF CaddyTypes
  <2>2. CASE verifier' = [verifier EXCEPT ![c] = NoVerifier] /\ proven' = proven
    BY <1>0, <2>2, CommandEnds DEF CaddyTypes
  <2>. QED  BY <1>1, <2>1, <2>2
<1>3. WhoInv'
  BY <1>0, <1>d, <1>2 DEF WhoInv, NoVerifier, HasRow
<1>4. ASSUME d \notin muddled PROVE DomainInv(d)'
  <2>1. DomainInv(d) /\ CnameInv(c, d) /\ \A e \in Verifiers : verifier[e].domain = d => e = c
    BY <1>0, <1>d, <1>4 DEF DomainsInv, DomainInv
  <2>2. \A e \in Verifiers : verifier'[e].domain = d => e = c /\ verifier'[c].pc = "mark"
    BY <1>0, <1>2, <2>1, CaddyAssumption DEF NoVerifier
  <2>3. ASSUME verifier'[c].domain = d PROVE CnameInv(c, d)'
    <3>1. /\ verifier'[c].pc = "mark" /\ verifier'[c].token = k /\ <<d, k>> \in proven'
      BY <1>2, <2>2, <2>3 DEF NoVerifier
    <3>2. domain[d] # NoDomain /\ k = domain[d].token /\ ~domain[d].verified
      BY <1>0, <1>d, <2>1 DEF CnameInv
    <3>. QED  BY <1>0, <3>1, <3>2 DEF CnameInv
  <2>. QED  BY <1>0, <1>2, <2>1, <2>2, <2>3 DEF DomainInv
<1>5. DomainsInv'
  <2>1. Keeps(caddy, caddy', Domains \ {d})
    BY <1>0 DEF Keeps
  <2>2. \A e \in Verifiers : verifier'[e] = verifier[e] \/ verifier'[e].domain \in {d, "none"}
    BY <1>2 DEF NoVerifier
  <2>3. \A e \in Domains \ muddled' : e # d => DomainInv(e)'
    BY <1>0, <1>2, <2>1, <2>2, OtherDomains
  <2>4. FoundInv'
    <3>1. domain'[d].verified \/ Dialled(caddy', d) # {} => Found(d)'
      BY <1>0, <1>2 DEF DomainsInv, FoundInv, Found
    <3>2. verifier'[c].pc \in {"mark", "route"} => verifier'[c].domain = d /\ Found(d)'
      <4>1. k \in Tokens
        BY <1>0, <1>d DEF WhoInv
      <4>. QED  BY <1>2, <4>1 DEF NoVerifier, Found
    <3>. QED  BY <1>0, <1>2, <2>1, <3>1, <3>2, FoundKept
  <2>. QED  BY <1>0, <1>4, <2>3, <2>4 DEF DomainsInv
<1>. QED  BY <1>0, <1>2, <1>3, <1>5, CnameQuiet

LEMMA VerifyStep ==
    ASSUME CaddyInv, NEW c \in Verifiers, VerifyCustomDomain(c)
    PROVE  CaddyInv'
<1>d. PICK d : d = verifier[c].domain
  OBVIOUS
<1>0. /\ CaddyTypes /\ WhoInv /\ DomainsInv /\ verifier[c].pc = "mark" /\ d \in Domains
      /\ UNCHANGED <<siteName, siteIP, up, job, routes, caddy, muddled, proven>>
  BY <1>d DEF CaddyInv, VerifyCustomDomain, siteVars, WhoInv
<1>1. /\ \A e \in Verifiers : e # c => verifier'[e] = verifier[e]
      /\ \/ /\ verifier'[c].pc = "route" /\ verifier'[c].domain = d
            /\ verifier'[c].token = verifier[c].token /\ verifier'[c].name = verifier[c].name
         \/ verifier'[c] = NoVerifier
      /\ verifier' \in [Verifiers -> CnameCommand]
  <2>1. CASE verifier[c].flag
    <3>1. verifier' = [verifier EXCEPT ![c].pc = "route"]
      BY <1>0, <2>1 DEF VerifyCustomDomain, CaddyTypes
    <3>2. "route" \in CnamePcs
      BY DEF CnamePcs
    <3>. QED  BY <1>0, <1>d, <3>1, <3>2, CommandMoves
  <2>2. CASE ~verifier[c].flag
    <3>1. verifier' = [verifier EXCEPT ![c] = NoVerifier]
      BY <1>0, <2>2 DEF VerifyCustomDomain, CaddyTypes
    <3>. QED  BY <1>0, <3>1, CommandEnds
  <2>. QED  BY <2>1, <2>2
<1>2. /\ \A e \in Domains : e # d => domain'[e] = domain[e]
      /\ domain[d] = NoDomain => domain' = domain
      /\ domain[d] # NoDomain => /\ domain'[d].verified /\ domain'[d].token = domain[d].token
                                 /\ domain'[d].site = domain[d].site
      /\ domain' \in [Domains -> DomainRow]
  <2>1. CASE domain[d] = NoDomain
    BY <1>0, <1>d, <2>1 DEF VerifyCustomDomain, CaddyTypes
  <2>2. CASE domain[d] # NoDomain
    <3>1. domain' = [domain EXCEPT ![d].verified = TRUE]
      BY <1>0, <1>d, <2>2 DEF VerifyCustomDomain
    <3>. DEFINE v == [domain[d] EXCEPT !.verified = TRUE]
    <3>2. /\ domain[d] \in DomainRow /\ domain' = [domain EXCEPT ![d] = v]
          /\ domain \in [Domains -> DomainRow]
      BY <1>0, <3>1 DEF CaddyTypes
    <3>3. v \in DomainRow /\ v.verified /\ v.token = domain[d].token /\ v.site = domain[d].site
      BY <3>2 DEF DomainRow
    <3>. HIDE DEF v
    <3>. QED  BY <1>0, <2>2, <3>2, <3>3
  <2>. QED  BY <2>1, <2>2
<1>3. CaddyTypes'
  BY <1>0, <1>1, <1>2 DEF CaddyTypes
<1>4. WhoInv'
  <2>1. ASSUME NEW e \in Domains, domain'[e] # NoDomain
        PROVE  domain'[e].site \in Sites /\ HasRow(domain[e].site) /\ domain'[e].site = domain[e].site
               /\ domain'[e].token \in Tokens
    <3>1. domain[e] # NoDomain /\ domain'[e].site = domain[e].site /\ domain'[e].token = domain[e].token
      BY <1>0, <1>2, <2>1
    <3>. QED  BY <1>0, <3>1 DEF WhoInv
  <2>. QED  BY <1>0, <1>d, <1>1, <2>1 DEF WhoInv, NoVerifier, HasRow
<1>5. ASSUME d \notin muddled PROVE DomainInv(d)'
  <2>1. DomainInv(d) /\ CnameInv(c, d) /\ \A e \in Verifiers : verifier[e].domain = d => e = c
    BY <1>0, <1>d, <1>5 DEF DomainsInv, DomainInv
  <2>2. /\ \A e \in Verifiers : verifier'[e].domain = d => e = c /\ verifier'[c].pc = "route"
                                                          /\ verifier'[c].token = verifier[c].token
    BY <1>0, <1>1, <2>1, CaddyAssumption DEF NoVerifier
  <2>3. /\ domain'[d].verified /\ domain'[d].token = domain[d].token /\ Dialled(caddy, d) = {}
        /\ <<d, domain[d].token>> \in proven /\ verifier[c].token = domain[d].token
        /\ domain'[d] # NoDomain
    BY <1>0, <1>2, <2>1 DEF DomainInv, CnameInv, NoDomain
  <2>4. ASSUME verifier'[c].domain = d PROVE CnameInv(c, d)'
    BY <1>0, <2>2, <2>3, <2>4 DEF CnameInv
  <2>. QED  BY <1>0, <2>1, <2>2, <2>3, <2>4 DEF DomainInv, AtMostOne
<1>6. DomainsInv'
  <2>1. Keeps(caddy, caddy', Domains \ {d})
    BY <1>0 DEF Keeps
  <2>2. \A e \in Verifiers : verifier'[e] = verifier[e] \/ verifier'[e].domain \in {d, "none"}
    BY <1>1 DEF NoVerifier
  <2>3. \A e \in Domains \ muddled' : e # d => DomainInv(e)'
    BY <1>0, <1>2, <2>1, <2>2, OtherDomains
  <2>4. FoundInv'
    <3>1. Found(d)'
      BY <1>0, <1>d DEF DomainsInv, FoundInv, Found
    <3>2. verifier'[c].pc \in {"mark", "route"} => verifier'[c].domain = d
      BY <1>1 DEF NoVerifier
    <3>. QED  BY <1>0, <1>1, <1>2, <2>1, <3>1, <3>2, FoundKept
  <2>. QED  BY <1>0, <1>5, <2>3, <2>4 DEF DomainsInv
<1>. QED  BY <1>0, <1>3, <1>4, <1>6, CnameQuiet

LEMMA DeleteStep ==
    ASSUME CaddyInv, NEW c \in Verifiers, DeleteCustomDomain(c)
    PROVE  CaddyInv'
<1>d. PICK d : d = verifier[c].domain
  OBVIOUS
<1>0. /\ CaddyTypes /\ WhoInv /\ DomainsInv /\ verifier[c].pc = "delete" /\ d \in Domains
      /\ domain' = [domain EXCEPT ![d] = NoDomain]
      /\ verifier' = [verifier EXCEPT ![c] = NoVerifier]
      /\ UNCHANGED <<siteName, siteIP, up, job, routes, caddy, muddled, proven>>
  BY <1>d DEF CaddyInv, DeleteCustomDomain, siteVars, WhoInv
<1>1. /\ \A e \in Verifiers : e # c => verifier'[e] = verifier[e]
      /\ \A e \in Domains : e # d => domain'[e] = domain[e]
      /\ verifier'[c] = NoVerifier /\ domain'[d] = NoDomain /\ CaddyTypes'
  <2>1. NoDomain \in DomainRow
    BY DEF NoDomain, DomainRow
  <2>. QED  BY <1>0, <2>1, CommandEnds DEF CaddyTypes
<1>2. WhoInv'
  BY <1>0, <1>1 DEF WhoInv, NoVerifier, HasRow
<1>3. ASSUME d \notin muddled PROVE DomainInv(d)'
  <2>1. DomainInv(d) /\ CnameInv(c, d) /\ \A e \in Verifiers : verifier[e].domain = d => e = c
    BY <1>0, <1>d, <1>3 DEF DomainsInv, DomainInv
  <2>2. \A e \in Verifiers : verifier'[e].domain # d
    BY <1>0, <1>1, <2>1, CaddyAssumption DEF NoVerifier
  <2>3. Dialled(caddy, d) = {} /\ ~NoDomain.verified
    BY <1>0, <2>1 DEF CnameInv, NoDomain
  <2>. QED  BY <1>0, <1>1, <2>2, <2>3 DEF DomainInv, AtMostOne
<1>4. DomainsInv'
  <2>1. Keeps(caddy, caddy', Domains \ {d})
    BY <1>0 DEF Keeps
  <2>2. \A e \in Verifiers : verifier'[e] = verifier[e] \/ verifier'[e].domain \in {d, "none"}
    BY <1>1 DEF NoVerifier
  <2>3. \A e \in Domains \ muddled' : e # d => DomainInv(e)'
    BY <1>0, <1>1, <2>1, <2>2, OtherDomains
  <2>4. FoundInv'
    <3>1. domain'[d].verified \/ Dialled(caddy', d) # {} => Found(d)'
      BY <1>0, <1>1 DEF DomainsInv, FoundInv, Found, NoDomain
    <3>2. verifier'[c].pc \notin {"mark", "route"}
      BY <1>1 DEF NoVerifier
    <3>. QED  BY <1>0, <1>1, <2>1, <3>1, <3>2, FoundKept
  <2>. QED  BY <1>0, <1>3, <2>3, <2>4 DEF DomainsInv
<1>. QED  BY <1>0, <1>1, <1>2, <1>4, CnameQuiet

LEMMA AddDomainStep ==
    ASSUME CaddyInv, NEW c \in Verifiers, NEW o \in Outcomes, AddCustomDomain(c, o)
    PROVE  CaddyInv'
<1>d. PICK d, a : d = verifier[c].domain /\ a = routes[verifier[c].name]
  OBVIOUS
<1>0. /\ CaddyTypes /\ WhoInv /\ DomainsInv /\ NamesInv /\ verifier[c].pc = "route"
      /\ d \in Domains /\ d \notin SiteNames /\ a \in IPs \cup {"none"} /\ caddy \in Seq(Route)
      /\ verifier' = [verifier EXCEPT ![c] = NoVerifier]
      /\ UNCHANGED <<siteName, siteIP, up, job, routes, domain, proven>>
  BY <1>d, CaddyAssumption DEF CaddyInv, AddCustomDomain, siteVars, WhoInv, CaddyTypes
<1>1. /\ caddy' \in Seq(Route) /\ Keeps(caddy, caddy', SiteNames)
      /\ Keeps(caddy, caddy', Domains \ {d}) /\ muddled \subseteq muddled'
      /\ d \notin muddled' /\ Dialled(caddy, d) = {} => AtMostOne(Dialled(caddy', d))
  <2>1. CASE a = "none"
    <3>1. UNCHANGED <<caddy, muddled>>
      BY <1>d, <2>1 DEF AddCustomDomain
    <3>. QED  BY <1>0, <3>1 DEF Keeps, AtMostOne
  <2>2. CASE a # "none"
    <3>1. caddy' = AddRoute(caddy, d, a, o) /\ Note(o, {d}) /\ [host |-> d, up |-> a] \in Route
      BY <1>0, <1>d, <2>2 DEF AddCustomDomain, Route
    <3>2. /\ caddy' \in Seq(Route) /\ Keeps(caddy, caddy', SiteNames)
          /\ Keeps(caddy, caddy', Domains \ {d})
          /\ o = "ok" /\ Dialled(caddy, d) = {} => AtMostOne(Dialled(caddy', d))
      BY <1>0, <3>1, AddedRoute
    <3>. QED  BY <3>1, <3>2, Noted
  <2>. QED  BY <2>1, <2>2
<1>2. /\ \A e \in Verifiers : e # c => verifier'[e] = verifier[e]
      /\ verifier'[c] = NoVerifier /\ CaddyTypes'
  BY <1>0, <1>1, CommandEnds DEF CaddyTypes
<1>3. WhoInv'
  BY <1>0, <1>2 DEF WhoInv, NoVerifier, HasRow
<1>4. ASSUME d \notin muddled' PROVE DomainInv(d)'
  <2>1. DomainInv(d) /\ CnameInv(c, d) /\ \A e \in Verifiers : verifier[e].domain = d => e = c
    BY <1>0, <1>d, <1>1, <1>4 DEF DomainsInv, DomainInv
  <2>2. \A e \in Verifiers : verifier'[e].domain # d
    BY <1>0, <1>2, <2>1, CaddyAssumption DEF NoVerifier
  <2>3. domain[d].verified /\ AtMostOne(Dialled(caddy', d))
    BY <1>0, <1>1, <1>4, <2>1 DEF CnameInv
  <2>. QED  BY <1>0, <2>1, <2>2, <2>3 DEF DomainInv
<1>5. DomainsInv'
  <2>1. \A e \in Verifiers : verifier'[e] = verifier[e] \/ verifier'[e].domain \in {d, "none"}
    BY <1>2 DEF NoVerifier
  <2>2. \A e \in Domains \ muddled' : e # d => DomainInv(e)'
    BY <1>0, <1>1, <2>1, OtherDomains
  <2>3. FoundInv'
    <3>1. Found(d)'
      BY <1>0, <1>d DEF DomainsInv, FoundInv, Found
    <3>2. verifier'[c].pc \notin {"mark", "route"}
      BY <1>2 DEF NoVerifier
    <3>. QED  BY <1>0, <1>1, <1>2, <3>1, <3>2, FoundKept
  <2>. QED  BY <1>4, <2>2, <2>3 DEF DomainsInv
<1>6. NamesInv'
  BY <1>0, <1>1, NamesKept
<1>. QED  BY <1>2, <1>3, <1>5, <1>6 DEF CaddyInv

(* Nothing to take away, nothing taken. *)
LEMMA EmptyStays ==
    ASSUME NEW q, NEW n, NEW o, Dialled(q, n) = {}
    PROVE  Dialled(RemoveRoute(q, n, o), n) = {}
BY DEF RemoveRoute, Without

LEMMA RemoveDomainStep ==
    ASSUME CaddyInv, NEW c \in Verifiers, NEW o \in Outcomes, RemoveCustomDomain(c, o)
    PROVE  CaddyInv'
<1>d. PICK d : d = verifier[c].domain
  OBVIOUS
<1>0. /\ CaddyTypes /\ WhoInv /\ DomainsInv /\ NamesInv /\ verifier[c].pc = "unroute"
      /\ d \in Domains /\ d \notin SiteNames /\ caddy \in Seq(Route)
      /\ verifier' = [verifier EXCEPT ![c].pc = "delete"]
      /\ caddy' = RemoveRoute(caddy, d, o) /\ Note(o, {d})
      /\ UNCHANGED <<siteName, siteIP, up, job, routes, domain, proven>>
  BY <1>d, CaddyAssumption DEF CaddyInv, RemoveCustomDomain, siteVars, WhoInv, CaddyTypes
<1>1. /\ caddy' \in Seq(Route) /\ Keeps(caddy, caddy', SiteNames)
      /\ Keeps(caddy, caddy', Domains \ {d}) /\ muddled \subseteq muddled'
      /\ d \notin muddled' /\ AtMostOne(Dialled(caddy, d)) => Dialled(caddy', d) = {}
  <2>1. /\ caddy' \in Seq(Route) /\ Keeps(caddy, caddy', SiteNames)
        /\ Keeps(caddy, caddy', Domains \ {d})
        /\ o = "ok" /\ AtMostOne(Dialled(caddy, d)) => Dialled(caddy', d) = {}
    BY <1>0, TakenRoute
  <2>. QED  BY <1>0, <2>1, Noted
<1>2. /\ \A e \in Verifiers : e # c => verifier'[e] = verifier[e]
      /\ verifier'[c].pc = "delete" /\ verifier'[c].domain = d
      /\ verifier'[c].token = verifier[c].token /\ verifier'[c].name = verifier[c].name
      /\ CaddyTypes'
  <2>1. "delete" \in CnamePcs
    BY DEF CnamePcs
  <2>. QED  BY <1>0, <1>d, <1>1, <2>1, CommandMoves DEF CaddyTypes
<1>3. WhoInv'
  BY <1>0, <1>d, <1>2 DEF WhoInv, HasRow
<1>4. ASSUME d \notin muddled' PROVE DomainInv(d)'
  <2>1. DomainInv(d) /\ CnameInv(c, d) /\ \A e \in Verifiers : verifier[e].domain = d => e = c
    BY <1>0, <1>d, <1>1, <1>4 DEF DomainsInv, DomainInv
  <2>2. \A e \in Verifiers : verifier'[e].domain = d => e = c
    BY <1>2, <2>1
  <2>3. domain[d].verified /\ Dialled(caddy', d) = {}
    BY <1>0, <1>1, <1>4, <2>1 DEF CnameInv, DomainInv
  <2>4. CnameInv(c, d)'
    BY <1>0, <1>2, <2>1, <2>3 DEF CnameInv
  <2>. QED  BY <1>0, <2>1, <2>2, <2>3, <2>4 DEF DomainInv, AtMostOne
<1>5. DomainsInv'
  <2>1. \A e \in Verifiers : verifier'[e] = verifier[e] \/ verifier'[e].domain \in {d, "none"}
    BY <1>2
  <2>2. \A e \in Domains \ muddled' : e # d => DomainInv(e)'
    BY <1>0, <1>1, <2>1, OtherDomains
  <2>3. FoundInv'
    <3>1. domain'[d].verified \/ Dialled(caddy', d) # {} => Found(d)'
      <4>1. Dialled(caddy', d) # {} => Dialled(caddy, d) # {}
        BY <1>0, EmptyStays
      <4>. QED  BY <1>0, <4>1 DEF DomainsInv, FoundInv, Found
    <3>2. verifier'[c].pc \notin {"mark", "route"}
      BY <1>2
    <3>. QED  BY <1>0, <1>1, <1>2, <3>1, <3>2, FoundKept
  <2>. QED  BY <1>4, <2>2, <2>3 DEF DomainsInv
<1>6. NamesInv'
  BY <1>0, <1>1, NamesKept
<1>. QED  BY <1>2, <1>3, <1>5, <1>6 DEF CaddyInv

(* A restart: what it may leave wrong is named, and the rest has no route. *)
LEMMA ReloadStep ==
    ASSUME CaddyInv, NEW load \in BOOLEAN, NEW stopped \in SUBSET up, ReloadServer(load, stopped)
    PROVE  CaddyInv'
<1>0. /\ CaddyTypes /\ WhoInv /\ DomainsInv /\ NamesInv
      /\ siteIP' = [s \in Sites |-> IF s \in stopped THEN "none" ELSE siteIP[s]] /\ up' = {}
      /\ routes' = [n \in SiteNames |-> "none"]
      /\ caddy' = IF load THEN <<BaseRoute>> ELSE caddy
      /\ job' = [c \in Shells |-> AtPrompt]
      /\ verifier' = [c \in Verifiers |-> NoVerifier]
      /\ muddled' = muddled \cup {siteName[s] : s \in {t \in Sites : siteIP[t] # "none"}}
                            \cup {caddy[i].host : i \in DOMAIN caddy}
                            \cup {verifier[c].domain : c \in Verifiers}
                            \cup UNION {NamesOf(c) : c \in Shells}
      /\ UNCHANGED <<siteName, domain, proven>>
  BY DEF CaddyInv, ReloadServer
<1>1. caddy' \in Seq(Route)
  <2>1. BaseRoute \in Route
    BY DEF BaseRoute, Route
  <2>2. <<BaseRoute>> \in Seq(Route)
    BY <2>1
  <2>. QED  BY <1>0, <2>2 DEF CaddyTypes
<1>2. CaddyTypes'
  <2>1. NoVerifier \in CnameCommand /\ AtPrompt \in ShellCommand
    BY DEF NoVerifier, CnameCommand, CnamePcs, AtPrompt, ShellCommand, ShellPcs
  <2>. QED  BY <1>0, <1>1, <2>1 DEF CaddyTypes
<1>3. WhoInv'
  BY <1>0 DEF WhoInv, NoVerifier, HasRow
<1>4. ASSUME NEW h \in SiteNames \cup Domains
      PROVE  /\ h \notin muddled' => Dialled(caddy', h) = {}
             /\ Dialled(caddy, h) = {} => Dialled(caddy', h) = {}
  <2>1. CASE load
    <3>1. caddy' = <<BaseRoute>> /\ BaseRoute.host = "any" /\ h # "any"
      BY <1>0, <2>1, CaddyAssumption DEF BaseRoute
    <3>2. \A i \in DOMAIN caddy' : caddy'[i] = BaseRoute
      BY <3>1
    <3>. QED  BY <3>1, <3>2 DEF Dialled
  <2>2. CASE ~load
    <3>1. h \notin muddled' => \A i \in DOMAIN caddy : caddy[i].host # h
      BY <1>0
    <3>. QED  BY <1>0, <2>2, <3>1 DEF Dialled
  <2>. QED  BY <2>1, <2>2
<1>5. \A c \in Shells : ~Busy(c)' /\ ~Own(c)' /\ NamesOf(c)' = {} /\ StepsOf(job'[c])
  BY <1>0 DEF Busy, Own, NamesOf, AtPrompt, StepsOf
<1>6. NamesInv'
  <2>1. StepsInv' /\ ApartInv'
    BY <1>5 DEF StepsInv, ApartInv
  <2>2. UpInv'
    <3>. SUFFICES ASSUME NEW s \in Sites, siteIP'[s] # "none"
                  PROVE  siteName[s] \in SiteNames /\ siteName[s] \in muddled'
      BY <1>0 DEF UpInv, HasRow
    <3>1. siteIP[s] # "none"
      BY <1>0
    <3>. QED  BY <1>0, <3>1 DEF NamesInv, UpInv, HasRow
  <2>3. ASSUME NEW n \in SiteNames, n \notin muddled' PROVE NameInv(n)'
    <3>1. \A s \in Sites : siteName[s] = n => siteIP[s] = "none"
      BY <1>0, <2>3
    <3>2. UpUnder(n)' = {}
      BY <1>0, <3>1 DEF UpUnder
    <3>3. Dialled(caddy', n) = {} /\ routes'[n] = "none"
      BY <1>0, <1>4, <2>3
    <3>4. Fits(n)'
      BY <3>2, <3>3 DEF Fits, DialsOf, AtMostOne
    <3>. QED  BY <1>5, <3>4 DEF NameInv
  <2>. QED  BY <1>5, <2>1, <2>2, <2>3 DEF NamesInv
<1>7. DomainsInv'
  <2>1. FoundInv'
    BY <1>0, <1>4 DEF DomainsInv, FoundInv, Found, NoVerifier
  <2>2. ASSUME NEW d \in Domains, d \notin muddled' PROVE DomainInv(d)'
    <3>1. DomainInv(d)
      BY <1>0, <2>2 DEF DomainsInv
    <3>2. \A c \in Verifiers : verifier'[c].domain # d
      BY <1>0, CaddyAssumption DEF NoVerifier
    <3>3. Dialled(caddy', d) = {}
      BY <1>4, <2>2
    <3>. QED  BY <1>0, <3>1, <3>2, <3>3 DEF DomainInv, AtMostOne
  <2>. QED  BY <2>1, <2>2 DEF DomainsInv
<1>. QED  BY <1>2, <1>3, <1>6, <1>7 DEF CaddyInv

LEMMA CaddyInitial == ASSUME CaddyInit PROVE CaddyInv
<1>1. CaddyTypes /\ WhoInv
  <2>1. /\ BaseRoute \in Route /\ NoVerifier \in CnameCommand /\ NoDomain \in DomainRow
        /\ AtPrompt \in ShellCommand
    BY DEF BaseRoute, Route, NoVerifier, CnameCommand, CnamePcs, NoDomain, DomainRow,
           AtPrompt, ShellCommand, ShellPcs
  <2>2. caddy \in Seq(Route)
    <3>1. caddy = <<>> \/ caddy = <<BaseRoute>>
      BY DEF CaddyInit
    <3>2. <<>> \in Seq(Route) /\ <<BaseRoute>> \in Seq(Route)
      BY <2>1
    <3>. QED  BY <3>1, <3>2
  <2>3. CaddyTypes
    BY <2>1, <2>2 DEF CaddyInit, CaddyTypes
  <2>. QED  BY <2>3 DEF CaddyInit, WhoInv, NoVerifier
<1>2. ASSUME NEW h \in SiteNames \cup Domains PROVE Dialled(caddy, h) = {}
  <2>1. \A i \in DOMAIN caddy : caddy[i] = BaseRoute
    BY DEF CaddyInit
  <2>2. BaseRoute.host # h
    BY CaddyAssumption DEF BaseRoute
  <2>. QED  BY <2>1, <2>2 DEF Dialled
<1>3. NamesInv
  <2>1. \A c \in Shells : ~Busy(c) /\ ~Own(c) /\ NamesOf(c) = {} /\ StepsOf(job[c])
    BY DEF CaddyInit, Busy, Own, NamesOf, AtPrompt, StepsOf
  <2>2. ASSUME NEW n \in SiteNames PROVE NameInv(n)
    <3>1. UpUnder(n) = {} /\ Clear(n)
      BY <1>2 DEF CaddyInit, UpUnder, Clear
    <3>2. Fits(n)
      BY <3>1, ClearFits
    <3>. QED  BY <2>1, <3>2 DEF NameInv
  <2>3. UpInv
    BY DEF CaddyInit, UpInv
  <2>. QED  BY <2>1, <2>2, <2>3 DEF NamesInv, StepsInv, ApartInv
<1>4. DomainsInv
  <2>1. /\ \A d \in Domains : ~domain[d].verified /\ \A c \in Verifiers : verifier[c].domain # d
        /\ \A c \in Verifiers : verifier[c].pc = "prompt"
    BY CaddyAssumption DEF CaddyInit, NoDomain, NoVerifier
  <2>. QED  BY <1>2, <2>1 DEF DomainsInv, DomainInv, FoundInv, AtMostOne
<1>. QED  BY <1>1, <1>3, <1>4 DEF CaddyInv

LEMMA CaddyStep == ASSUME CaddyInv, [CaddyNext]_caddyVars PROVE CaddyInv'
<1>1. CASE RouteNext
  <2>1. ASSUME NEW c \in Shells, ShellStep(c) PROVE CaddyInv'
    BY <2>1, NewRowStep, RenameRowStep, DropRouteStep, HaltVMStep, BootVMStep, BootFailsStep,
       FindAddressStep, AddVMRouteStep, DestroyVMStep
    DEF ShellStep
  <2>. QED  BY <1>1, <2>1, BeginsStep, ReloadStep DEF RouteNext, SiteNext
<1>2. CASE CnameNext
  <2>0. ASSUME NEW d \in Domains, NEW k \in Tokens, PublishTXT(d, k) PROVE CaddyInv'
    BY <2>0, CaddyStutters DEF PublishTXT, siteVars
  <2>. QED
    BY <1>2, <2>0, CreateDomainStep, BeginStep, LookupStep, VerifyStep, DeleteStep,
       AddDomainStep, RemoveDomainStep
    DEF CnameNext
<1>3. CASE UNCHANGED caddyVars
  BY <1>3, CaddyStutters DEF caddyVars
<1>. QED  BY <1>1, <1>2, <1>3 DEF CaddyNext

LEMMA CaddyInductive == CaddySpec => []CaddyInv
<1>1. CaddyInit => CaddyInv
  BY CaddyInitial
<1>2. CaddyInv /\ [CaddyNext]_caddyVars => CaddyInv'
  BY CaddyStep
<1>. QED  BY <1>1, <1>2, PTL DEF CaddySpec

(* new, start, stop, restart, rename and rm, in any number of sessions     *)
(* and for any VMs, owners, names and addresses: a name that was not       *)
(* muddled has at most one route, and at rest this leads to the VM that    *)
(* runs under the name, in Caddy and in the manager's map, whatever        *)
(* happens to other names between two steps of a command.                  *)
THEOREM NamesLeadToTheirVM == CaddySpec => []RoutesFollowVMs
<1>1. ASSUME CaddyInv PROVE RoutesFollowVMs
  <2>. SUFFICES ASSUME NEW n \in SiteNames, n \notin muddled
                PROVE  /\ AtMostOne(Dialled(caddy, n))
                       /\ ~Touched(n) => DialsOf(n) = UpUnder(n) /\ {routes[n]} \ {"none"} = UpUnder(n)
    BY DEF RoutesFollowVMs
  <2>1. NameInv(n)
    BY <1>1 DEF CaddyInv, NamesInv
  <2>2. CASE ~Touched(n)
    BY <2>1, <2>2 DEF NameInv, Fits
  <2>3. CASE Touched(n)
    BY <2>1, <2>3 DEF NameInv, Touched, RouteInv, Clear, AtMostOne
  <2>. QED  BY <2>2, <2>3
<1>. QED  BY <1>1, CaddyInductive, PTL

(* cname, cname-verify, cname-rm and rm of the VM, for any domains, tokens *)
(* and sessions: no domain is verified or served before a token made for   *)
(* it was in the DNS; and one whose commands neither overlap nor fail, and *)
(* whose VM is not deleted under it, is verified by its own token only,    *)
(* and served by one route, while verified.                                *)
THEOREM ServedDomainsAreProven == CaddySpec => []DomainsProven
<1>1. CaddyInv => DomainsProven
  BY DEF CaddyInv, DomainsInv, DomainInv, FoundInv, Found, DomainsProven
<1>. QED  BY <1>1, CaddyInductive, PTL

=============================================================================
