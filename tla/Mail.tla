-------------------------------- MODULE Mail --------------------------------
(***************************************************************************)
(* Mail to and from VMs: the SMTP server of internal/gateway/email.go and  *)
(* the sender of email_send.go.  SMTP connections and send requests run on *)
(* goroutines of their own; only the two hourly counters are locked, the   *)
(* Maildirs are shared files.  An address is the VM it names, and a        *)
(* message is known by the number of its file.                             *)
(***************************************************************************)
EXTENDS Integers, FiniteSets

CONSTANTS
    MailVMs,      \* VMs, by name
    Mailers,      \* SMTP connections at one time
    Senders,      \* send requests at one time
    Addresses,    \* addresses an owner may have registered
    InRate,       \* RatePerHourPerVM of the SMTP server
    OutRate,      \* RatePerHourPerVM of the sender
    MaxUnread,    \* files in Maildir/new that stop delivery
    MaxMails,     \* bound: files written
    MaxHour,      \* bound: hours
    MaxMailCrash  \* bound: crashes of the server

ASSUME MailAssumption ==
    /\ InRate \in Nat \ {0} /\ OutRate \in Nat \ {0} /\ MaxUnread \in Nat \ {0}
    /\ MaxMails \in Nat /\ MaxHour \in Nat /\ MaxMailCrash \in Nat
    /\ "none" \notin MailVMs \cup Addresses
    /\ IsFiniteSet(Mailers) /\ IsFiniteSet(Senders)

VARIABLES
    mailer,       \* smtpSession, and where its delivery stands
    tmpDir,       \* Maildir/tmp of a VM: files, whole or torn
    newDir,       \* Maildir/new of a VM
    inCount,      \* SMTPServer.vmRates
    outCount,     \* EmailSender.vmRates
    sender,       \* a send request
    address,      \* users.email of the VM's owner
    relayed,      \* history: mails of a VM given to the relay this hour
    mails, hour, mailCrashes

inVars == <<mailer, tmpDir, newDir, inCount, mails>>
outVars == <<outCount, sender, address, relayed>>
mailVars == <<inVars, outVars, hour, mailCrashes>>

Greeted == [pc |-> "command", from |-> FALSE, rcpt |-> {}, vm |-> "none", file |-> 0]
NoMailer == [Greeted EXCEPT !.pc = "closed"]
NoSender == [pc |-> "idle", vm |-> "none", to |-> "none"]
Unused == [count |-> 0, hour |-> -1]

MailInit ==
    /\ mailer = [c \in Mailers |-> NoMailer]
    /\ tmpDir = [v \in MailVMs |-> {}]
    /\ newDir = [v \in MailVMs |-> {}]
    /\ inCount = [v \in MailVMs |-> Unused]
    /\ outCount = [v \in MailVMs |-> Unused]
    /\ sender = [s \in Senders |-> NoSender]
    /\ address = [v \in MailVMs |-> "none"]
    /\ relayed = [v \in MailVMs |-> 0]
    /\ mails = 0 /\ hour = 0 /\ mailCrashes = 0

Takes(c, l) == mailer[c].pc = l
Mailer(c, l) ==
    mailer' = [mailer EXCEPT ![c].pc = l, ![c].file = IF l = "command" THEN 0 ELSE @]

MutantAllowed(bucket, limit) == bucket.hour # hour \/ bucket.count <= limit

(* One more in this hour: checkVMRate and checkSendRate are the same code. *)
Allowed(bucket, limit) == bucket.hour # hour \/ bucket.count < limit
Counted(bucket, limit) ==
    IF bucket.hour # hour THEN [count |-> 1, hour |-> hour]
    ELSE IF bucket.count < limit THEN [bucket EXCEPT !.count = @ + 1] ELSE bucket

-----------------------------------------------------------------------------
(* The SMTP dialogue.  HELO, EHLO and NOOP change nothing that is read.    *)

HandleConn(c) ==
    /\ Takes(c, "closed")
    /\ mailer' = [mailer EXCEPT ![c] = Greeted]
    /\ UNCHANGED <<tmpDir, newDir, inCount, mails>>

MutantHandleMAIL(c, null) ==
    /\ Takes(c, "command")
    /\ mailer' = [mailer EXCEPT ![c].from = ~null, ![c].rcpt = {}]
    /\ UNCHANGED <<tmpDir, newDir, inCount, mails>>

(* An empty sender ("<>", a bounce) counts as no MAIL command at all.      *)
HandleMAIL(c, null) ==
    /\ Takes(c, "command")
    /\ mailer' = [mailer EXCEPT ![c] = [Greeted EXCEPT !.from = ~null]]
    /\ UNCHANGED <<tmpDir, newDir, inCount, mails>>

(* Every recipient of the domain is accepted; the first one's VM gets the  *)
(* message.                                                                *)
HandleRCPT(c, v) ==
    /\ Takes(c, "command")
    /\ mailer[c].from
    /\ mailer' = [mailer EXCEPT ![c].vm = IF @ = "none" THEN v ELSE @,
                                ![c].rcpt = @ \cup {v}]
    /\ UNCHANGED <<tmpDir, newDir, inCount, mails>>

(* handleDATA, up to deliverToMaildir's rate check.  The session keeps its *)
(* envelope afterwards, whatever becomes of the delivery.                  *)
HandleDATA(c) ==
    /\ Takes(c, "command")
    /\ mailer[c].rcpt # {}
    /\ LET v == mailer[c].vm IN
          /\ inCount' = [inCount EXCEPT ![v] = Counted(@, InRate)]
          /\ IF Allowed(inCount[v], InRate) THEN Mailer(c, "unread") ELSE UNCHANGED mailer
    /\ UNCHANGED <<tmpDir, newDir, mails>>

HandleRSET(c) ==
    /\ Takes(c, "command")
    /\ mailer' = [mailer EXCEPT ![c] = Greeted]
    /\ UNCHANGED <<tmpDir, newDir, inCount, mails>>

(* QUIT, the deadline, or a connection that ends in the middle of a body.  *)
CloseMail(c) ==
    /\ Takes(c, "command")
    /\ mailer' = [mailer EXCEPT ![c] = NoMailer]
    /\ UNCHANGED <<tmpDir, newDir, inCount, mails>>

-----------------------------------------------------------------------------
(* deliverToMaildir after the rate check. *)

(* Counting may fail, and so may making the directories.                   *)
CountUnread(c, ok) ==
    /\ Takes(c, "unread")
    /\ Mailer(c, IF ok /\ Cardinality(newDir[mailer[c].vm]) < MaxUnread
                 THEN "create" ELSE "command")
    /\ UNCHANGED <<tmpDir, newDir, inCount, mails>>

File(c, whole) == [id |-> mailer[c].file, rcpt |-> mailer[c].rcpt, whole |-> whole]

CreateTmp(c) ==
    /\ Takes(c, "create")
    /\ mails < MaxMails
    /\ mails' = mails + 1
    /\ mailer' = [mailer EXCEPT ![c].pc = "write", ![c].file = mails + 1]
    /\ tmpDir' = [tmpDir EXCEPT ![mailer[c].vm] =
                    @ \cup {[id |-> mails + 1, rcpt |-> mailer[c].rcpt, whole |-> FALSE]}]
    /\ UNCHANGED <<newDir, inCount>>

(* A write that fails leaves its torn file in tmp.                         *)
WriteTmp(c, ok) ==
    /\ Takes(c, "write")
    /\ tmpDir' = [tmpDir EXCEPT ![mailer[c].vm] =
                    IF ok THEN (@ \ {File(c, FALSE)}) \cup {File(c, TRUE)} ELSE @]
    /\ Mailer(c, IF ok THEN "rename" ELSE "command")
    /\ UNCHANGED <<newDir, inCount, mails>>

(* A rename that fails removes the file from tmp.                          *)
Rename(c, ok) ==
    /\ Takes(c, "rename")
    /\ tmpDir' = [tmpDir EXCEPT ![mailer[c].vm] = @ \ {File(c, TRUE)}]
    /\ newDir' = [newDir EXCEPT ![mailer[c].vm] = IF ok THEN @ \cup {File(c, TRUE)} ELSE @]
    /\ Mailer(c, "command")
    /\ UNCHANGED <<inCount, mails>>

(* The guest moves a message out of new. *)
ReadMail(v) ==
    /\ \E f \in newDir[v] : newDir' = [newDir EXCEPT ![v] = @ \ {f}]
    /\ UNCHANGED <<mailer, tmpDir, inCount, mails>>

-----------------------------------------------------------------------------
(* HandleEmailSend: the recipient is compared with the owner's address,    *)
(* then the counter is taken, then the relay is called.                    *)

(* The query has no caller in the server; an address is set by hand.   *)
SetUserEmail(v, a) ==
    /\ address' = [address EXCEPT ![v] = a]
    /\ UNCHANGED <<outCount, sender, relayed>>

HandleEmailSend(s, v, to) ==
    /\ sender[s].pc = "idle"
    /\ address[v] = to
    /\ sender' = [sender EXCEPT ![s] = [pc |-> "rate", vm |-> v, to |-> to]]
    /\ UNCHANGED <<outCount, address, relayed>>

CheckSendRate(s) ==
    /\ sender[s].pc = "rate"
    /\ LET v == sender[s].vm IN
          /\ outCount' = [outCount EXCEPT ![v] = Counted(@, OutRate)]
          /\ sender' = [sender EXCEPT ![s] = IF Allowed(outCount[v], OutRate)
                                             THEN [@ EXCEPT !.pc = "send"] ELSE NoSender]
    /\ UNCHANGED <<address, relayed>>

(* A relay that refuses has used up the count all the same.                *)
SendMail(s, ok) ==
    /\ sender[s].pc = "send"
    /\ relayed' = [relayed EXCEPT ![sender[s].vm] = IF ok THEN @ + 1 ELSE @]
    /\ sender' = [sender EXCEPT ![s] = NoSender]
    /\ UNCHANGED <<outCount, address>>

-----------------------------------------------------------------------------
NextHour ==
    /\ hour < MaxHour
    /\ hour' = hour + 1
    /\ relayed' = [v \in MailVMs |-> 0]
    /\ UNCHANGED <<inVars, outCount, sender, address, mailCrashes>>

CrashMail ==
    /\ mailCrashes < MaxMailCrash
    /\ mailCrashes' = mailCrashes + 1
    /\ mailer' = [c \in Mailers |-> NoMailer]
    /\ sender' = [s \in Senders |-> NoSender]
    /\ inCount' = [v \in MailVMs |-> Unused]
    /\ outCount' = [v \in MailVMs |-> Unused]
    /\ relayed' = [v \in MailVMs |-> 0]
    /\ UNCHANGED <<tmpDir, newDir, address, mails, hour>>

Inbound ==
    \/ \E c \in Mailers :
          \/ HandleConn(c) \/ HandleDATA(c) \/ HandleRSET(c) \/ CloseMail(c)
          \/ \E null \in BOOLEAN : HandleMAIL(c, null)
          \/ \E v \in MailVMs : HandleRCPT(c, v)
          \/ CreateTmp(c)
          \/ \E ok \in BOOLEAN : CountUnread(c, ok) \/ WriteTmp(c, ok) \/ Rename(c, ok)
    \/ \E v \in MailVMs : ReadMail(v)

Outbound ==
    \/ \E v \in MailVMs, a \in Addresses :
          SetUserEmail(v, a) \/ \E s \in Senders : HandleEmailSend(s, v, a)
    \/ \E s \in Senders : CheckSendRate(s) \/ \E ok \in BOOLEAN : SendMail(s, ok)

Ambient == NextHour \/ CrashMail

InboundNext == Inbound /\ UNCHANGED <<outVars, hour, mailCrashes>>
OutboundNext == Outbound /\ UNCHANGED <<inVars, hour, mailCrashes>>

MailNext == InboundNext \/ OutboundNext \/ Ambient

MailSpec == MailInit /\ [][MailNext]_mailVars

-----------------------------------------------------------------------------
(* What a guest finds in Maildir/new is a whole message, and one that was  *)
(* addressed to it, however many messages the same connection sent to      *)
(* others before, however deliveries interleave and wherever a crash or a  *)
(* failed write struck.                                                    *)
MailIsWholeAndOwn ==
    \A v \in MailVMs : \A f \in newDir[v] : f.whole /\ v \in f.rcpt

(* Maildir/new outgrows MaxUnread only by the deliveries that had counted  *)
(* it before it was full.                                                  *)
MailboxBounded ==
    \A v \in MailVMs :
        Cardinality(newDir[v]) + Cardinality({c \in Mailers :
            mailer[c].vm = v /\ mailer[c].pc \in {"create", "write", "rename"}})
        <= MaxUnread + Cardinality(Mailers) - 1

(* In one hour and one life of the server, a VM's mails to the relay       *)
(* exceed the limit only by those that were admitted in the hour before.   *)
RelayBounded ==
    \A v \in MailVMs : relayed[v] <= OutRate + Cardinality(Senders)

(* Both limits hold under concurrent deliveries and sends.                 *)
MailLimitsHold == MailboxBounded /\ RelayBounded

=============================================================================
