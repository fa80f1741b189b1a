----------------------------- MODULE MailDelivery -----------------------------
(***************************************************************************)
(* Login links and digests from the tracking database to SES.              *)
(*                                                                         *)
(*   TrackingAuthRepository  queues login links, verifies them, stores the *)
(*                           settings and takes opt-outs                   *)
(*   TrackingDigests         queues one digest per user from the published *)
(*                           versions it has not been told of              *)
(*   MySqlMailOutbox         claims queued mail, sends it and records what *)
(*                           became of it; nothing is ever sent twice      *)
(*                                                                         *)
(* Every transaction locks the user's row first.  A transaction of the web *)
(* application is one step, taken while that row is free; a digest build   *)
(* and a delivery hold the row over several.  Calls fail, with or without  *)
(* their effect, and a worker may die anywhere.                            *)
(***************************************************************************)
EXTENDS Integers, FiniteSets

CONSTANTS User, Version, Worker, Builder,
          Subscriber,  \* users with a weekly digest from the start
          MaxMails,    \* bound on mails
          Limit,       \* limit of a worker's batch
          MaxChanges,  \* bound on changes of a user's settings
          MaxFaults,   \* bound on failed calls and crashes
          Severed,     \* may a database connection die during the call to SES
          None         \* nobody holds the row

ASSUME MailAssumption ==
    /\ MaxMails \in Nat /\ Limit \in Nat \ {0} /\ MaxChanges \in Nat /\ MaxFaults \in Nat
    /\ Severed \in BOOLEAN /\ Subscriber \subseteq User
    /\ Worker \cap Builder = {}
    /\ None \notin Worker \cup Builder

Mail == 1..MaxMails
Frequency == {"daily", "weekly"}

VARIABLES
    user,      \* tracking_user: enabled, verified, frequency
    version,   \* tracking_event_version against the digest window
    told,      \* tracking_digest_item: the versions queued for a user
    letter,    \* tracking_mail_outbox: recipient, kind or frequency, versions
    status,    \* tracking_mail_outbox.status, "none" before the row exists
    token,     \* tracking_login_token of a login mail
    lock,      \* who holds the row of a user
    pc, batch, current,           \* a worker: where it is, its batch, its mail
    send,      \* does the worker's run deliver, or only preview
    building,  \* a digest build: where it is, its users, its user, its versions
    attempts,  \* requests made to SES for a mail
    accepted,  \* mails SES accepted
    changes,   \* changes of settings so far
    faults     \* failed calls and crashes so far

webVars == <<user, version, token, changes>>
mailVars == <<told, letter, status>>
sesVars == <<attempts, accepted>>
workerVars == <<pc, batch, current, send>>
vars == <<webVars, mailVars, sesVars, workerVars, lock, building, faults>>

Mails == {"login"} \cup Frequency
Letter == [user : User, kind : Mails, items : SUBSET Version]
Settings == [enabled : BOOLEAN, verified : BOOLEAN, frequency : Frequency \cup {"off"}]
Build == [step : {"idle", "list", "spool"}, frequency : Frequency, users : SUBSET User,
          user : User \cup {None}, found : SUBSET Version]

TypeOK ==
    /\ user \in [User -> Settings]
    /\ version \in [Version -> {"draft", "recent", "old"}]
    /\ told \in [User -> SUBSET Version]
    /\ letter \in [Mail -> Letter \cup {None}]
    /\ status \in [Mail -> {"none", "queued", "sending", "sent", "uncertain", "cancelled"}]
    /\ \A m \in Mail : status[m] # "none" => letter[m] \in Letter
    /\ token \in [Mail -> {"valid", "used", "expired"}]
    /\ lock \in [User -> Worker \cup Builder \cup {None}]
    /\ pc \in [Worker -> {"idle", "next", "claimed", "calling", "answered", "severed", "unsure"}]
    /\ batch \in [Worker -> SUBSET Mail]
    /\ current \in [Worker -> Mail \cup {0}]
    /\ send \in [Worker -> BOOLEAN]
    /\ building \in [Builder -> Build]
    /\ attempts \in [Mail -> Nat]
    /\ accepted \subseteq Mail
    /\ changes \in Nat
    /\ faults \in Nat

NoBuild == [step |-> "idle", frequency |-> "weekly", users |-> {}, user |-> None, found |-> {}]

Init ==
    /\ user = [u \in User |-> [enabled |-> u \in Subscriber, verified |-> u \in Subscriber,
                               frequency |-> "weekly"]]
    /\ version = [v \in Version |-> "draft"]
    /\ told = [u \in User |-> {}]
    /\ letter = [m \in Mail |-> None]
    /\ status = [m \in Mail |-> "none"]
    /\ token = [m \in Mail |-> "valid"]
    /\ lock = [u \in User |-> None]
    /\ pc = [w \in Worker |-> "idle"]
    /\ batch = [w \in Worker |-> {}]
    /\ current = [w \in Worker |-> 0]
    /\ send = [w \in Worker |-> FALSE]
    /\ building = [b \in Builder |-> NoBuild]
    /\ attempts = [m \in Mail |-> 0]
    /\ accepted = {}
    /\ changes = 0
    /\ faults = 0

Queued == {m \in Mail : status[m] = "queued"}
Digest(m) == letter[m].kind \in Frequency
Free(u) == lock[u] = None
Fault == faults < MaxFaults /\ faults' = faults + 1
Change == changes < MaxChanges /\ changes' = changes + 1

-----------------------------------------------------------------------------
(* The web application: each transaction locks the user's row to its end.  *)

(* The bound on mails: a digest under way keeps a row for itself. *)
Room ==
    Cardinality({m \in Mail : status[m] = "none"})
        > Cardinality({b \in Builder : building[b].found # {}})

(* The row of a new mail; created_at orders the mails. *)
Queue(m, u, kind, items) ==
    /\ status[m] = "none" /\ \A n \in Mail : n < m => status[n] # "none"
    /\ letter' = [letter EXCEPT ![m] = [user |-> u, kind |-> kind, items |-> items]]
    /\ status' = [status EXCEPT ![m] = "queued"]

(* A login link; a limit per address and client may refuse it. *)
RequestLink(u) ==
    /\ Room
    /\ Free(u)
    /\ \E m \in Mail : Queue(m, u, "login", {})
    /\ UNCHANGED <<told, webVars, sesVars, workerVars, lock, building, faults>>

(* Fifteen minutes pass. *)
Expire(m) ==
    /\ status[m] # "none" /\ ~Digest(m)
    /\ token[m] = "valid"
    /\ token' = [token EXCEPT ![m] = "expired"]
    /\ UNCHANGED <<user, version, changes, mailVars, sesVars, workerVars, lock, building, faults>>

(* The link is opened: the first one turns mail on. *)
Verify(m) ==
    LET u == letter[m].user IN
    /\ m \in accepted /\ ~Digest(m)
    /\ token[m] = "valid"
    /\ Free(u)
    /\ token' = [token EXCEPT ![m] = "used"]
    /\ user' = [user EXCEPT ![u] = [enabled |-> ~@.verified \/ @.enabled, verified |-> TRUE,
                                    frequency |-> @.frequency]]
    /\ UNCHANGED <<version, changes, mailVars, sesVars, workerVars, lock, building, faults>>

(* The settings page: queued digests stay, to be checked when they are sent. *)
ReplaceFollows(u, frequency) ==
    /\ Change
    /\ user[u].verified
    /\ Free(u)
    /\ user' = [user EXCEPT ![u] = [enabled |-> frequency # "off", verified |-> @.verified,
                                    frequency |-> frequency]]
    /\ UNCHANGED <<version, token, mailVars, sesVars, workerVars, lock, building, faults>>

(* The link in a digest: mail is off, and queued digests are cancelled.    *)
(* A subscriber from the start holds an earlier digest.                    *)
Unsubscribe(u) ==
    /\ Change
    /\ u \in Subscriber \/ \E m \in accepted : letter[m].user = u /\ Digest(m)
    /\ Free(u)
    /\ user' = [user EXCEPT ![u] = [enabled |-> FALSE, verified |-> @.verified,
                                    frequency |-> "off"]]
    /\ status' = [m \in Mail |-> IF m \in Queued /\ letter[m].user = u /\ Digest(m)
                                 THEN "cancelled" ELSE status[m]]
    /\ UNCHANGED <<version, token, told, letter, sesVars, workerVars, lock, building, faults>>

(* A version is published, and later leaves the window of the digests. *)
Publish(v) ==
    /\ version[v] \in {"draft", "recent"}
    /\ version' = [version EXCEPT ![v] = IF @ = "draft" THEN "recent" ELSE "old"]
    /\ UNCHANGED <<user, token, changes, mailVars, sesVars, workerVars, lock, building, faults>>

-----------------------------------------------------------------------------
(* A digest build.                                                         *)

Subscribed(u, frequency) ==
    user[u].enabled /\ user[u].verified /\ user[u].frequency = frequency

StartBuild(b, frequency) ==
    /\ building[b].step = "idle"
    /\ \E u \in User : Subscribed(u, frequency)
    /\ building' = [building EXCEPT ![b] =
           [step |-> "list", frequency |-> frequency,
            users |-> {u \in User : Subscribed(u, frequency)}, user |-> None, found |-> {}]]
    /\ UNCHANGED <<webVars, mailVars, sesVars, workerVars, lock, faults>>

(* On to the next of the users, to the end of the build after the last one. *)
NextUser(b, users) ==
    building' = [building EXCEPT ![b] =
        IF users = {} THEN NoBuild
        ELSE [step |-> "list", frequency |-> @.frequency, users |-> users,
              user |-> None, found |-> {}]]

(* The versions a digest may list; which of them the user follows is open. *)
Untold(u) == {v \in Version : Room /\ version[v] = "recent"} \ told[u]

(* Mutant: the row is read without FOR UPDATE. *)
LockRecipientUnlocked(b, u) ==
    /\ building[b].step = "list" /\ u \in building[b].users
    /\ Free(u)
    /\ \E found \in SUBSET Untold(u) :
           building' = [building EXCEPT ![b] =
               [step |-> IF Subscribed(u, building[b].frequency) THEN "spool" ELSE "list",
                frequency |-> @.frequency, users |-> @.users \ {u},
                user |-> u, found |-> found]]
    /\ UNCHANGED <<webVars, mailVars, sesVars, workerVars, lock, faults>>

(* buildFor: the listed user is checked again, under its lock. *)
LockRecipient(b, u) ==
    /\ building[b].step = "list" /\ u \in building[b].users
    /\ Free(u)
    /\ IF Subscribed(u, building[b].frequency)
       THEN \E found \in SUBSET Untold(u) :
                /\ lock' = [lock EXCEPT ![u] = b]
                /\ building' = [building EXCEPT ![b] =
                       [step |-> "spool", frequency |-> @.frequency, users |-> @.users \ {u},
                        user |-> u, found |-> found]]
       ELSE NextUser(b, building[b].users \ {u}) /\ UNCHANGED lock
    /\ UNCHANGED <<webVars, mailVars, sesVars, workerVars, faults>>

(* dedupe_key: a digest of the same versions. *)
SameDigest(m, u, found) ==
    status[m] # "none" /\ letter[m].user = u /\ Digest(m) /\ letter[m].items = found

(* One transaction: the digest, and the versions it told the user of. *)
Spool(b) ==
    LET u == building[b].user
        found == building[b].found
    IN
    /\ building[b].step = "spool"
    /\ \/ (found = {} \/ \E m \in Mail : SameDigest(m, u, found)) /\ UNCHANGED <<letter, status>>
       \/ /\ found # {} /\ \A m \in Mail : ~SameDigest(m, u, found)
          /\ \E m \in Mail : Queue(m, u, building[b].frequency, found)
    /\ told' = [told EXCEPT ![u] = @ \cup found]
    /\ lock' = [lock EXCEPT ![u] = None]
    /\ NextUser(b, building[b].users)
    /\ UNCHANGED <<webVars, sesVars, workerVars, faults>>

(* The request fails: its transaction rolls back, the users left get nothing. *)
BuildFails(b) ==
    /\ Fault
    /\ building[b].step # "idle"
    /\ lock' = [u \in User |-> IF lock[u] = b THEN None ELSE lock[u]]
    /\ building' = [building EXCEPT ![b] = NoBuild]
    /\ UNCHANGED <<webVars, mailVars, sesVars, workerVars>>

-----------------------------------------------------------------------------
(* A worker.                                                               *)

(* _eligible: the settings, or the login token, as they are now. *)
Eligible(m) ==
    IF Digest(m) THEN Subscribed(letter[m].user, letter[m].kind) ELSE token[m] = "valid"

Step(w, step) == pc' = [pc EXCEPT ![w] = step]
Release(w) == lock' = [u \in User |-> IF lock[u] = w THEN None ELSE lock[u]]
Mark(w, state) == status' = [status EXCEPT ![current[w]] = state]

(* On to the next mail of the batch, to the end of the run after the last. *)
NextMail(w, rest) ==
    /\ batch' = [batch EXCEPT ![w] = rest]
    /\ current' = [current EXCEPT ![w] = 0]
    /\ send' = [send EXCEPT ![w] = @ /\ rest # {}]
    /\ Step(w, IF rest = {} THEN "idle" ELSE "next")

EndRun(w) == NextMail(w, {})

(* Mutant: a mail left in sending is read again, and fills the batch. *)
PendingUnsettled == {m \in Mail : status[m] \in {"queued", "sending"}}

Pending == Queued

(* pending: the oldest mails, a snapshot that other workers may share. *)
ReadPending(w) ==
    /\ pc[w] = "idle" /\ Pending # {}
    /\ \E deliver \in BOOLEAN : send' = [send EXCEPT ![w] = deliver]
    /\ batch' = [batch EXCEPT ![w] =
           {m \in Pending : Cardinality({n \in Pending : n < m}) < Limit}]
    /\ Step(w, "next")
    /\ UNCHANGED <<webVars, mailVars, sesVars, current, lock, building, faults>>

(* Mails are taken in the order of their creation. *)
Oldest(w, m) == (\A n \in batch[w] : m <= n) /\ Free(letter[m].user)

Claims(w, m) == status[m] = "queued" /\ Eligible(m) /\ send[w]

(* _prepare: a preview leaves an eligible mail queued, a delivery claims it. *)
Settle(w, m) ==
    IF Claims(w, m) THEN status' = [status EXCEPT ![m] = "sending"]
    ELSE IF status[m] = "queued" /\ ~Eligible(m)
         THEN status' = [status EXCEPT ![m] = "cancelled"]
         ELSE UNCHANGED status

Prepare(w) ==
    /\ pc[w] = "next"
    /\ \E m \in batch[w] :
           /\ Oldest(w, m)
           /\ Settle(w, m)
           /\ IF Claims(w, m)
              THEN /\ batch' = [batch EXCEPT ![w] = @ \ {m}]
                   /\ current' = [current EXCEPT ![w] = m]
                   /\ Step(w, "claimed")
                   /\ UNCHANGED send
              ELSE NextMail(w, batch[w] \ {m})
    /\ UNCHANGED <<webVars, told, letter, sesVars, lock, building, faults>>

(* A mail that cannot be composed is cancelled. *)
ComposeRefuses(w) ==
    /\ Fault
    /\ pc[w] = "next"
    /\ \E m \in batch[w] :
           /\ Oldest(w, m)
           /\ status[m] = "queued" /\ Eligible(m)
           /\ status' = [status EXCEPT ![m] = "cancelled"]
           /\ NextMail(w, batch[w] \ {m})
    /\ UNCHANGED <<webVars, told, letter, sesVars, lock, building>>

(* An error in _prepare ends the run; its commit may have taken effect. *)
PrepareRaises(w) ==
    /\ Fault
    /\ pc[w] = "next"
    /\ \E m \in batch[w] : Oldest(w, m) /\ (Settle(w, m) \/ UNCHANGED status)
    /\ EndRun(w)
    /\ UNCHANGED <<webVars, told, letter, sesVars, lock, building>>

(* Mutant: the settings are not read again under the lock. *)
RecheckUnchecked(w) ==
    /\ pc[w] = "claimed" /\ Free(letter[current[w]].user)
    /\ lock' = [lock EXCEPT ![letter[current[w]].user] = w]
    /\ Step(w, "calling")
    /\ UNCHANGED <<webVars, mailVars, sesVars, batch, current, send, building, faults>>

(* _deliver: the row is locked and the mail checked once more. *)
Recheck(w) ==
    LET m == current[w] IN
    /\ pc[w] = "claimed" /\ Free(letter[m].user)
    /\ IF status[m] = "sending" /\ Eligible(m)
       THEN /\ lock' = [lock EXCEPT ![letter[m].user] = w]
            /\ Step(w, "calling")
            /\ UNCHANGED <<status, batch, current, send>>
       ELSE /\ IF status[m] = "sending" THEN Mark(w, "cancelled") ELSE UNCHANGED status
            /\ NextMail(w, batch[w])
            /\ UNCHANGED lock
    /\ UNCHANGED <<webVars, told, letter, sesVars, building, faults>>

(* One request to SES, which accepts the mail. *)
Ask(w) == attempts' = [attempts EXCEPT ![current[w]] = @ + 1]

CallSes(w) ==
    /\ pc[w] = "calling"
    /\ Ask(w)
    /\ accepted' = accepted \cup {current[w]}
    /\ Step(w, "answered")
    /\ UNCHANGED <<webVars, mailVars, batch, current, send, lock, building, faults>>

MarkSent(w) ==
    /\ pc[w] = "answered"
    /\ Mark(w, "sent")
    /\ Release(w)
    /\ NextMail(w, batch[w])
    /\ UNCHANGED <<webVars, told, letter, sesVars, building, faults>>

(* Any error of _deliver leads to the second transaction, with the mail    *)
(* accepted or not, and with what the first one committed or nothing.      *)
DeliverRaises(w) ==
    /\ Fault
    /\ \/ /\ pc[w] = "claimed"
          /\ UNCHANGED <<status, sesVars>>
       \/ /\ pc[w] = "claimed" /\ Free(letter[current[w]].user)
          /\ status[current[w]] = "sending" /\ ~Eligible(current[w])
          /\ Mark(w, "cancelled")
          /\ UNCHANGED sesVars
       \/ /\ pc[w] = "calling"
          /\ Ask(w)
          /\ accepted' \in {accepted, accepted \cup {current[w]}}
          /\ UNCHANGED status
       \/ /\ pc[w] = "answered"
          /\ UNCHANGED status \/ Mark(w, "sent")
          /\ UNCHANGED sesVars
    /\ Release(w)
    /\ Step(w, "unsure")
    /\ UNCHANGED <<webVars, told, letter, batch, current, send, building>>

(* Mutant: a mail whose outcome is unknown is queued again. *)
MarkUncertainRequeue(w) ==
    /\ pc[w] = "unsure" /\ Free(letter[current[w]].user)
    /\ IF status[current[w]] = "sending" THEN Mark(w, "queued") ELSE UNCHANGED status
    /\ NextMail(w, batch[w])
    /\ UNCHANGED <<webVars, told, letter, sesVars, lock, building, faults>>

MarkUncertain(w) ==
    /\ pc[w] = "unsure" /\ Free(letter[current[w]].user)
    /\ IF status[current[w]] = "sending" THEN Mark(w, "uncertain") ELSE UNCHANGED status
    /\ NextMail(w, batch[w])
    /\ UNCHANGED <<webVars, told, letter, sesVars, lock, building, faults>>

(* Marking fails in the same outage: the mail stays as it is, and the      *)
(* batch goes on.                                                          *)
MarkUncertainRaises(w) ==
    /\ pc[w] = "unsure"
    /\ NextMail(w, batch[w])
    /\ UNCHANGED <<webVars, mailVars, sesVars, lock, building, faults>>

(* The database drops the connection during the call, and the lock with it. *)
Sever(w) ==
    /\ Severed /\ Fault
    /\ pc[w] = "calling"
    /\ Release(w)
    /\ Step(w, "severed")
    /\ UNCHANGED <<webVars, mailVars, sesVars, batch, current, send, building>>

(* The call goes out all the same; the run ends with the dead connection. *)
CallSesSevered(w) ==
    /\ pc[w] = "severed"
    /\ Ask(w)
    /\ accepted' = accepted \cup {current[w]}
    /\ EndRun(w)
    /\ UNCHANGED <<webVars, mailVars, lock, building, faults>>

(* The worker dies, and its transaction rolls back. *)
Crash(w) ==
    /\ Fault
    /\ pc[w] # "idle"
    /\ Release(w)
    /\ EndRun(w)
    /\ UNCHANGED <<webVars, mailVars, sesVars, building>>

-----------------------------------------------------------------------------
Web ==
    \/ \E u \in User : RequestLink(u)
    \/ \E m \in Mail : Expire(m)
    \/ \E m \in Mail : Verify(m)
    \/ \E u \in User, frequency \in Frequency \cup {"off"} : ReplaceFollows(u, frequency)
    \/ \E u \in User : Unsubscribe(u)
    \/ \E v \in Version : Publish(v)

BuildStep(b) ==
    \/ \E u \in User : LockRecipient(b, u)
    \/ Spool(b)

WorkerStep(w) ==
    \/ Prepare(w)
    \/ Recheck(w)
    \/ CallSes(w)
    \/ MarkSent(w)
    \/ MarkUncertain(w)
    \/ CallSesSevered(w)

Interruption(w) ==
    \/ ComposeRefuses(w)
    \/ PrepareRaises(w)
    \/ DeliverRaises(w)
    \/ MarkUncertainRaises(w)
    \/ Sever(w)
    \/ Crash(w)

Next ==
    \/ Web
    \/ \E b \in Builder, frequency \in Frequency : StartBuild(b, frequency)
    \/ \E b \in Builder : BuildStep(b) \/ BuildFails(b)
    \/ \E w \in Worker : ReadPending(w) \/ WorkerStep(w) \/ Interruption(w)

Spec == Init /\ [][Next]_vars

(* The timer starts a delivery again and again, and one of these finds the *)
(* machine's worker lock free.  Runs and builds go on: a row lock is given *)
(* to whoever waits for it, in turn.                                       *)
Fairness ==
    /\ \A b \in Builder : SF_vars(BuildStep(b))
    /\ \A w \in Worker : SF_vars(WorkerStep(w)) /\ SF_vars(ReadPending(w) /\ send'[w])

FairSpec == Spec /\ Fairness

-----------------------------------------------------------------------------
(* Nothing is asked of SES twice, whatever fails and however many workers  *)
(* share the queue; a sent mail was accepted, and a mail that is queued or *)
(* cancelled was never asked for.                                          *)
NeverResent ==
    \A m \in Mail :
        /\ attempts[m] <= 1
        /\ status[m] \in {"none", "queued", "cancelled"} => attempts[m] = 0
        /\ status[m] = "sent" => m \in accepted

Carries(m, u, v) ==
    /\ status[m] # "none"
    /\ letter[m].kind \in Frequency /\ letter[m].user = u /\ v \in letter[m].items

(* No version is sent to a user in two digests, however builds overlap.    *)
NoVersionTwice ==
    \A u \in User, v \in Version, m, n \in Mail :
        Carries(m, u, v) /\ Carries(n, u, v) => m = n

(* The versions a user counts as told of are those of the user's digests:  *)
(* none is put aside without a mail, none mailed without being put aside.  *)
ToldIsCarried ==
    \A u \in User, v \in Version : v \in told[u] <=> \E m \in Mail : Carries(m, u, v)

(* A digest goes out only to someone who wants it at that moment, as       *)
(* often as the digest says: an opt-out that is committed is final, except *)
(* for a call that was under way when its connection, and so its lock on   *)
(* the recipient, was lost.                                                *)
OptOutHonoured ==
    [][\A m \in Mail : attempts'[m] # attempts[m] /\ Digest(m)
           => \/ Subscribed(letter[m].user, letter[m].kind)
              \/ \E w \in Worker : pc[w] = "severed" /\ current[w] = m]_vars

(* The inductive invariant behind them.  A mail that a worker works on is  *)
(* its alone and settled by nobody else; the row it locked is its own and  *)
(* the recipient still wants the digest; a build holds the row of the user *)
(* whose digest it writes.                                                 *)
Working(w) == pc[w] \in {"claimed", "calling", "answered", "severed", "unsure"}

ClaimsApart ==
    \A w, x \in Worker : Working(w) /\ Working(x) /\ current[w] = current[x] => w = x

ClaimedMail ==
    \A w \in Worker :
        /\ \A m \in batch[w] : status[m] # "none"
        /\ Working(w) => current[w] \in Mail /\ status[current[w]] \notin {"none", "queued"}
        /\ pc[w] \in {"claimed", "calling", "severed"} =>
               status[current[w]] = "sending" /\ attempts[current[w]] = 0
        /\ pc[w] = "answered" => status[current[w]] = "sending" /\ current[w] \in accepted
        /\ pc[w] = "severed" => Severed

RowHeld ==
    \A w \in Worker : pc[w] \in {"calling", "answered"} =>
        /\ lock[letter[current[w]].user] = w
        /\ pc[w] = "calling" /\ letter[current[w]].kind \in Frequency =>
               Subscribed(letter[current[w]].user, letter[current[w]].kind)

SpoolHeld ==
    \A b \in Builder : building[b].step = "spool" =>
        /\ building[b].user \in User /\ lock[building[b].user] = b
        /\ building[b].found \cap told[building[b].user] = {}

IInv ==
    /\ TypeOK
    /\ NeverResent
    /\ NoVersionTwice
    /\ ToldIsCarried
    /\ ClaimsApart
    /\ ClaimedMail
    /\ RowHeld
    /\ SpoolHeld

(* Every queued mail is claimed or cancelled in the end.                   *)
QueueDrains == \A m \in Mail : status[m] = "queued" ~> status[m] # "queued"
=============================================================================
