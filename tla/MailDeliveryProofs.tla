-------------------------- MODULE MailDeliveryProofs --------------------------
(* Proofs about MailDelivery, for any users, versions, workers and builds.  *)
EXTENDS MailDelivery, TLAPS

(* The initial state is well typed. *)
LEMMA TypeInit == Init => TypeOK
  BY MailAssumption DEF Init, TypeOK, Settings, Letter, Frequency, Build, NoBuild, Mail

(* Creating a mail keeps letter and status well typed. *)
LEMMA QueueType ==
    ASSUME TypeOK, NEW m \in Mail, NEW u \in User, NEW kind \in Mails,
           NEW items \in SUBSET Version, Queue(m, u, kind, items)
    PROVE  /\ letter' \in [Mail -> Letter \cup {None}]
           /\ status' \in [Mail -> {"none", "queued", "sending", "sent", "uncertain", "cancelled"}]
           /\ \A n \in Mail : status'[n] # "none" => letter'[n] \in Letter
  <1>1. [user |-> u, kind |-> kind, items |-> items] \in Letter
    BY DEF Letter
  <1>. QED  BY <1>1 DEF TypeOK, Queue

(* What the web application does keeps the state well typed. *)
LEMMA TypeWeb == TypeOK /\ Web => TypeOK'
  <1>. SUFFICES ASSUME TypeOK, Web PROVE TypeOK'
    OBVIOUS
  <1>. USE DEF webVars, mailVars, sesVars, workerVars
  <1>1. ASSUME NEW u \in User, RequestLink(u) PROVE TypeOK'
    <2>1. PICK m \in Mail : Queue(m, u, "login", {})
      BY <1>1 DEF RequestLink
    <2>2. /\ letter' \in [Mail -> Letter \cup {None}]
          /\ status' \in [Mail -> {"none", "queued", "sending", "sent", "uncertain", "cancelled"}]
          /\ \A n \in Mail : status'[n] # "none" => letter'[n] \in Letter
      BY <2>1, QueueType DEF Mails
    <2>. QED  BY <1>1, <2>2 DEF TypeOK, RequestLink
  <1>2. ASSUME NEW m \in Mail, Expire(m) PROVE TypeOK'
    BY <1>2 DEF TypeOK, Expire
  <1>3. ASSUME NEW m \in Mail, Verify(m) PROVE TypeOK'
    <2>1. user' \in [User -> Settings]
      BY <1>3 DEF TypeOK, Verify, Settings
    <2>. QED  BY <1>3, <2>1 DEF TypeOK, Verify
  <1>4. ASSUME NEW u \in User, NEW frequency \in Frequency \cup {"off"},
               ReplaceFollows(u, frequency)
        PROVE  TypeOK'
    <2>1. user' \in [User -> Settings]
      BY <1>4 DEF TypeOK, ReplaceFollows, Settings
    <2>. QED  BY <1>4, <2>1 DEF TypeOK, ReplaceFollows, Change
  <1>5. ASSUME NEW u \in User, Unsubscribe(u) PROVE TypeOK'
    <2>1. user' \in [User -> Settings]
      BY <1>5 DEF TypeOK, Unsubscribe, Settings
    <2>. QED  BY <1>5, <2>1 DEF TypeOK, Unsubscribe, Change, Queued
  <1>6. ASSUME NEW v \in Version, Publish(v) PROVE TypeOK'
    BY <1>6 DEF TypeOK, Publish
  <1>. QED  BY <1>1, <1>2, <1>3, <1>4, <1>5, <1>6 DEF Web

(* Going on to the next user keeps the builds well typed. *)
LEMMA NextUserType ==
    ASSUME TypeOK, NEW b \in Builder, NEW users \in SUBSET User, NextUser(b, users)
    PROVE  building' \in [Builder -> Build]
  <1>1. NoBuild \in Build
    BY MailAssumption DEF NoBuild, Build, Frequency
  <1>2. [step |-> "list", frequency |-> building[b].frequency, users |-> users,
         user |-> None, found |-> {}] \in Build
    BY DEF TypeOK, Build
  <1>. QED  BY <1>1, <1>2 DEF TypeOK, NextUser

(* A digest build keeps the state well typed. *)
LEMMA TypeBuild ==
    ASSUME TypeOK, SpoolHeld, NEW b \in Builder,
           BuildStep(b) \/ BuildFails(b) \/ \E frequency \in Frequency : StartBuild(b, frequency)
    PROVE  TypeOK'
  <1>. USE DEF webVars, mailVars, sesVars, workerVars
  <1>1. ASSUME NEW frequency \in Frequency, StartBuild(b, frequency) PROVE TypeOK'
    <2>1. building' \in [Builder -> Build]
      BY <1>1 DEF TypeOK, StartBuild, Build
    <2>. QED  BY <1>1, <2>1 DEF TypeOK, StartBuild
  <1>2. ASSUME NEW u \in User, LockRecipient(b, u) PROVE TypeOK'
    <2>1. building[b] \in Build
      BY DEF TypeOK
    <2>2. CASE Subscribed(u, building[b].frequency)
      <3>1. PICK found \in SUBSET Untold(u) :
                /\ lock' = [lock EXCEPT ![u] = b]
                /\ building' = [building EXCEPT ![b] =
                       [step |-> "spool", frequency |-> building[b].frequency,
                        users |-> building[b].users \ {u}, user |-> u, found |-> found]]
        BY <1>2, <2>2 DEF LockRecipient, TypeOK
      <3>2. [step |-> "spool", frequency |-> building[b].frequency,
             users |-> building[b].users \ {u}, user |-> u, found |-> found] \in Build
        BY <2>1 DEF Build, Untold
      <3>3. building' \in [Builder -> Build]
        BY <3>1, <3>2 DEF TypeOK
      <3>. QED  BY <1>2, <3>1, <3>3 DEF TypeOK, LockRecipient
    <2>3. CASE ~Subscribed(u, building[b].frequency)
      <3>1. building' \in [Builder -> Build]
        BY <1>2, <2>1, <2>3, NextUserType DEF LockRecipient, Build
      <3>. QED  BY <1>2, <2>3, <3>1 DEF TypeOK, LockRecipient
    <2>. QED  BY <2>2, <2>3
  <1>3. ASSUME Spool(b) PROVE TypeOK'
    <2>1. building[b] \in Build /\ building[b].user \in User
      BY <1>3 DEF TypeOK, SpoolHeld, Spool
    <2>2. building' \in [Builder -> Build]
      BY <1>3, <2>1, NextUserType DEF Spool, Build
    <2>3. told' \in [User -> SUBSET Version] /\ lock' \in [User -> Worker \cup Builder \cup {None}]
      BY <1>3, <2>1 DEF Spool, TypeOK, Build
    <2>4. /\ letter' \in [Mail -> Letter \cup {None}]
          /\ status' \in [Mail -> {"none", "queued", "sending", "sent", "uncertain", "cancelled"}]
          /\ \A n \in Mail : status'[n] # "none" => letter'[n] \in Letter
      <3>1. CASE UNCHANGED <<letter, status>>
        BY <3>1 DEF TypeOK
      <3>2. CASE \E m \in Mail : Queue(m, building[b].user, building[b].frequency, building[b].found)
        BY <1>3, <2>1, <3>2, QueueType DEF Mails, Build
      <3>. QED  BY <1>3, <3>1, <3>2 DEF Spool
    <2>. QED  BY <1>3, <2>2, <2>3, <2>4 DEF TypeOK, Spool
  <1>4. ASSUME BuildFails(b) PROVE TypeOK'
    BY <1>4, MailAssumption DEF TypeOK, BuildFails, Fault, NoBuild, Build, Frequency
  <1>. QED  BY <1>1, <1>2, <1>3, <1>4 DEF BuildStep

(* Going on to the next mail keeps a worker's variables well typed. *)
LEMMA NextMailType ==
    ASSUME TypeOK, NEW w \in Worker, NEW rest \in SUBSET Mail, NextMail(w, rest)
    PROVE  /\ pc' \in [Worker -> {"idle", "next", "claimed", "calling", "answered", "severed", "unsure"}]
           /\ batch' \in [Worker -> SUBSET Mail]
           /\ current' \in [Worker -> Mail \cup {0}]
           /\ send' \in [Worker -> BOOLEAN]
  <1>1. send' \in [Worker -> BOOLEAN]
    BY DEF TypeOK, NextMail
  <1>. QED  BY <1>1 DEF TypeOK, NextMail, Step

(* Releasing a row, marking a mail and asking SES keep their variables     *)
(* well typed.                                                             *)
LEMMA ReleaseType ==
    ASSUME TypeOK, NEW w \in Worker, Release(w)
    PROVE  lock' \in [User -> Worker \cup Builder \cup {None}]
  BY DEF TypeOK, Release

LEMMA MarkType ==
    ASSUME TypeOK, NEW w \in Worker, current[w] \in Mail, status[current[w]] # "none",
           NEW state \in {"sent", "uncertain", "cancelled"}, Mark(w, state)
    PROVE  /\ status' \in [Mail -> {"none", "queued", "sending", "sent", "uncertain", "cancelled"}]
           /\ \A n \in Mail : status'[n] # "none" => letter[n] \in Letter
  BY DEF TypeOK, Mark

LEMMA AskType ==
    ASSUME TypeOK, NEW w \in Worker, current[w] \in Mail, Ask(w)
    PROVE  attempts' \in [Mail -> Nat]
  BY DEF TypeOK, Ask

(* Settling a mail keeps its status well typed. *)
LEMMA SettleType ==
    ASSUME TypeOK, NEW w \in Worker, NEW m \in Mail, Settle(w, m)
    PROVE  /\ status' \in [Mail -> {"none", "queued", "sending", "sent", "uncertain", "cancelled"}]
           /\ \A n \in Mail : status'[n] # "none" => letter[n] \in Letter
  BY DEF TypeOK, Settle, Claims

(* A worker keeps the state well typed. *)
LEMMA TypeWorker ==
    ASSUME TypeOK, ClaimedMail, NEW w \in Worker, ReadPending(w) \/ WorkerStep(w)
    PROVE  TypeOK'
  <1>. USE DEF webVars, mailVars, sesVars, workerVars
  <1>0. Working(w) => current[w] \in Mail /\ status[current[w]] # "none"
    BY DEF ClaimedMail
  <1>1. ASSUME ReadPending(w) PROVE TypeOK'
    BY <1>1 DEF TypeOK, ReadPending, Step, Pending, Queued
  <1>2. ASSUME Prepare(w) PROVE TypeOK'
    <2>1. PICK m \in batch[w] :
              /\ Settle(w, m)
              /\ \/ /\ batch' = [batch EXCEPT ![w] = @ \ {m}]
                    /\ current' = [current EXCEPT ![w] = m]
                    /\ Step(w, "claimed")
                    /\ UNCHANGED send
                 \/ NextMail(w, batch[w] \ {m})
      BY <1>2 DEF Prepare
    <2>2. m \in Mail /\ batch[w] \ {m} \in SUBSET Mail
      BY DEF TypeOK
    <2>3. /\ status' \in [Mail -> {"none", "queued", "sending", "sent", "uncertain", "cancelled"}]
          /\ \A n \in Mail : status'[n] # "none" => letter[n] \in Letter
      BY <2>1, <2>2, SettleType
    <2>4. /\ batch' \in [Worker -> SUBSET Mail]
          /\ current' \in [Worker -> Mail \cup {0}]
          /\ pc' \in [Worker -> {"idle", "next", "claimed", "calling", "answered", "severed", "unsure"}]
          /\ send' \in [Worker -> BOOLEAN]
      <3>1. CASE NextMail(w, batch[w] \ {m})
        BY <2>2, <3>1, NextMailType
      <3>. QED  BY <2>1, <2>2, <3>1 DEF TypeOK, Step
    <2>. QED  BY <1>2, <2>3, <2>4 DEF TypeOK, Prepare
  <1>4. ASSUME Recheck(w) PROVE TypeOK'
    <2>1. /\ status' \in [Mail -> {"none", "queued", "sending", "sent", "uncertain", "cancelled"}]
          /\ \A n \in Mail : status'[n] # "none" => letter[n] \in Letter
      BY <1>0, <1>4, MarkType DEF TypeOK, Recheck, Working
    <2>2. batch[w] \in SUBSET Mail
      BY DEF TypeOK
    <2>3. CASE NextMail(w, batch[w])
      BY <1>4, <2>1, <2>2, <2>3, NextMailType DEF TypeOK, Recheck
    <2>4. CASE ~NextMail(w, batch[w])
      BY <1>4, <2>1, <2>4 DEF TypeOK, Recheck, Step
    <2>. QED  BY <2>3, <2>4
  <1>5. ASSUME CallSes(w) PROVE TypeOK'
    BY <1>0, <1>5, AskType DEF TypeOK, CallSes, Step, Working
  <1>6. ASSUME MarkSent(w) PROVE TypeOK'
    <2>1. /\ status' \in [Mail -> {"none", "queued", "sending", "sent", "uncertain", "cancelled"}]
          /\ \A n \in Mail : status'[n] # "none" => letter[n] \in Letter
      BY <1>0, <1>6, MarkType DEF MarkSent, Working
    <2>2. batch[w] \in SUBSET Mail
      BY DEF TypeOK
    <2>. QED  BY <1>6, <2>1, <2>2, ReleaseType, NextMailType DEF TypeOK, MarkSent
  <1>7. ASSUME MarkUncertain(w) PROVE TypeOK'
    <2>1. /\ status' \in [Mail -> {"none", "queued", "sending", "sent", "uncertain", "cancelled"}]
          /\ \A n \in Mail : status'[n] # "none" => letter[n] \in Letter
      BY <1>0, <1>7, MarkType DEF TypeOK, MarkUncertain, Working
    <2>2. batch[w] \in SUBSET Mail
      BY DEF TypeOK
    <2>. QED  BY <1>7, <2>1, <2>2, NextMailType DEF TypeOK, MarkUncertain
  <1>8. ASSUME CallSesSevered(w) PROVE TypeOK'
    BY <1>0, <1>8, AskType, NextMailType DEF TypeOK, CallSesSevered, EndRun, Working
  <1>. QED  BY <1>1, <1>2, <1>4, <1>5, <1>6, <1>7, <1>8 DEF WorkerStep

(* What may happen to a worker keeps the state well typed. *)
LEMMA TypeInterruption ==
    ASSUME TypeOK, ClaimedMail, NEW w \in Worker, Interruption(w)
    PROVE  TypeOK'
  <1>. USE DEF webVars, mailVars, sesVars, workerVars
  <1>0. Working(w) => current[w] \in Mail /\ status[current[w]] # "none"
    BY DEF ClaimedMail
  <1>1. ASSUME ComposeRefuses(w) PROVE TypeOK'
    <2>1. PICK m \in batch[w] :
              /\ status' = [status EXCEPT ![m] = "cancelled"]
              /\ NextMail(w, batch[w] \ {m})
              /\ status[m] = "queued"
      BY <1>1 DEF ComposeRefuses
    <2>2. m \in Mail /\ batch[w] \ {m} \in SUBSET Mail
      BY DEF TypeOK
    <2>. QED  BY <1>1, <2>1, <2>2, NextMailType DEF TypeOK, ComposeRefuses, Fault
  <1>2. ASSUME PrepareRaises(w) PROVE TypeOK'
    <2>1. /\ status' \in [Mail -> {"none", "queued", "sending", "sent", "uncertain", "cancelled"}]
          /\ \A n \in Mail : status'[n] # "none" => letter[n] \in Letter
      BY <1>2, SettleType DEF TypeOK, PrepareRaises
    <2>. QED  BY <1>2, <2>1, NextMailType DEF TypeOK, PrepareRaises, EndRun, Fault
  <1>3. ASSUME DeliverRaises(w) PROVE TypeOK'
    <2>1. /\ status' \in [Mail -> {"none", "queued", "sending", "sent", "uncertain", "cancelled"}]
          /\ \A n \in Mail : status'[n] # "none" => letter[n] \in Letter
      BY <1>0, <1>3, MarkType DEF TypeOK, DeliverRaises, Working
    <2>2. attempts' \in [Mail -> Nat] /\ accepted' \subseteq Mail
      BY <1>0, <1>3, AskType DEF TypeOK, DeliverRaises, Working
    <2>. QED  BY <1>3, <2>1, <2>2, ReleaseType DEF TypeOK, DeliverRaises, Step, Fault
  <1>4. ASSUME MarkUncertainRaises(w) PROVE TypeOK'
    <2>1. batch[w] \in SUBSET Mail
      BY DEF TypeOK
    <2>. QED  BY <1>4, <2>1, NextMailType DEF TypeOK, MarkUncertainRaises, Fault
  <1>5. ASSUME Sever(w) PROVE TypeOK'
    BY <1>5, ReleaseType DEF TypeOK, Sever, Step, Fault
  <1>6. ASSUME Crash(w) PROVE TypeOK'
    BY <1>6, ReleaseType, NextMailType DEF TypeOK, Crash, EndRun, Fault
  <1>. QED  BY <1>1, <1>2, <1>3, <1>4, <1>5, <1>6 DEF Interruption

-----------------------------------------------------------------------------
(* Frames: what a step of the others leaves intact. *)

(* A step that changes no worker, no row a worker has locked and no mail   *)
(* but those that wait, leaves what is known of the workers intact.        *)
LEMMA WorkersUndisturbed ==
    ASSUME IInv, TypeOK',
           UNCHANGED <<pc, batch, current, attempts, accepted>>,
           \A u \in User : lock[u] \in Worker => lock'[u] = lock[u] /\ user'[u] = user[u],
           \A m \in Mail : status[m] # "none" => letter'[m] = letter[m],
           \A m \in Mail : \/ status'[m] = status[m]
                           \/ /\ status[m] \in {"none", "queued"}
                              /\ status'[m] \in {"queued", "cancelled"}
    PROVE  NeverResent' /\ ClaimsApart' /\ ClaimedMail' /\ RowHeld'
  <1>1. NeverResent'
    BY DEF IInv, NeverResent
  <1>2. ClaimsApart'
    BY DEF IInv, ClaimsApart, Working
  <1>3. ClaimedMail'
    <2>1. ASSUME NEW w \in Worker, NEW m \in batch[w] PROVE status'[m] # "none"
      BY DEF IInv, TypeOK, ClaimedMail
    <2>2. ASSUME NEW w \in Worker, Working(w)
          PROVE  current[w] \in Mail /\ status'[current[w]] = status[current[w]]
      BY <2>2 DEF IInv, ClaimedMail
    <2>. QED  BY <2>1, <2>2 DEF IInv, ClaimedMail, Working
  <1>4. RowHeld'
    <2>. SUFFICES ASSUME NEW w \in Worker, pc[w] \in {"calling", "answered"}
                  PROVE  (/\ lock[letter[current[w]].user] = w
                          /\ pc[w] = "calling" /\ letter[current[w]].kind \in Frequency =>
                                 Subscribed(letter[current[w]].user, letter[current[w]].kind))'
      BY DEF RowHeld
    <2>1. current[w] \in Mail /\ status[current[w]] = "sending"
      BY DEF IInv, ClaimedMail, Working
    <2>2. letter'[current[w]] = letter[current[w]] /\ letter[current[w]].user \in User
      BY <2>1 DEF IInv, TypeOK, Letter
    <2>3. lock[letter[current[w]].user] = w
      BY DEF IInv, RowHeld
    <2>4. /\ lock'[letter[current[w]].user] = w
          /\ user'[letter[current[w]].user] = user[letter[current[w]].user]
      BY <2>2, <2>3
    <2>. QED  BY <2>2, <2>4 DEF IInv, RowHeld, Subscribed
  <1>. QED  BY <1>1, <1>2, <1>3, <1>4

(* A step that creates no mail and tells nobody of a version leaves the    *)
(* digests intact.                                                         *)
LEMMA DigestsUndisturbed ==
    ASSUME IInv, TypeOK', UNCHANGED <<told, letter>>,
           \A m \in Mail : status'[m] = "none" <=> status[m] = "none"
    PROVE  NoVersionTwice' /\ ToldIsCarried'
  <1>1. \A m \in Mail, u \in User, v \in Version : Carries(m, u, v)' <=> Carries(m, u, v)
    BY DEF Carries
  <1>. QED  BY <1>1 DEF IInv, NoVersionTwice, ToldIsCarried

(* A step that leaves the builds and the rows they have locked alone.      *)
LEMMA BuildsUndisturbed ==
    ASSUME IInv, UNCHANGED <<told, building>>,
           \A u \in User : lock[u] \in Builder => lock'[u] = lock[u]
    PROVE  SpoolHeld'
  BY DEF IInv, SpoolHeld

(* The web application. *)
LEMMA InvWeb == IInv /\ Web => IInv'
  <1>. SUFFICES ASSUME IInv, Web PROVE IInv'
    OBVIOUS
  <1>. USE DEF webVars, mailVars, sesVars, workerVars
  <1>0. TypeOK' /\ TypeOK
    BY TypeWeb DEF IInv
  <1>1. ASSUME NEW u \in User, RequestLink(u) PROVE IInv'
    <2>1. PICK m \in Mail : Queue(m, u, "login", {})
      BY <1>1 DEF RequestLink
    <2>2. /\ status[m] = "none" /\ status'[m] = "queued"
          /\ \A n \in Mail \ {m} : status'[n] = status[n] /\ letter'[n] = letter[n]
          /\ letter'[m].kind = "login"
      BY <1>0, <2>1 DEF Queue, TypeOK
    <2>3. NeverResent' /\ ClaimsApart' /\ ClaimedMail' /\ RowHeld'
      BY <1>0, <1>1, <2>2, WorkersUndisturbed DEF RequestLink
    <2>4. \A n \in Mail, x \in User, v \in Version : Carries(n, x, v)' <=> Carries(n, x, v)
      BY <2>2 DEF Carries, Frequency
    <2>5. NoVersionTwice' /\ ToldIsCarried'
      BY <1>1, <2>4 DEF IInv, NoVersionTwice, ToldIsCarried, RequestLink
    <2>6. SpoolHeld'
      BY <1>1, BuildsUndisturbed DEF RequestLink
    <2>. QED  BY <1>0, <2>3, <2>5, <2>6 DEF IInv
  <1>2. ASSUME UNCHANGED <<pc, batch, current, attempts, accepted, lock, letter, told, building>>,
               \A u \in User : lock[u] \in Worker => user'[u] = user[u],
               \A m \in Mail : \/ status'[m] = status[m]
                               \/ status[m] = "queued" /\ status'[m] = "cancelled"
        PROVE  IInv'
    <2>1. NeverResent' /\ ClaimsApart' /\ ClaimedMail' /\ RowHeld'
      BY <1>0, <1>2, WorkersUndisturbed
    <2>2. NoVersionTwice' /\ ToldIsCarried'
      BY <1>0, <1>2, DigestsUndisturbed
    <2>3. SpoolHeld'
      BY <1>2, BuildsUndisturbed
    <2>. QED  BY <1>0, <2>1, <2>2, <2>3 DEF IInv
  <1>3. None \notin Worker
    BY MailAssumption
  <1>4. ASSUME NEW m \in Mail, Expire(m) PROVE IInv'
    BY <1>2, <1>4 DEF Expire
  <1>5. ASSUME NEW m \in Mail, Verify(m) PROVE IInv'
    BY <1>0, <1>2, <1>3, <1>5 DEF Verify, Free, TypeOK
  <1>6. ASSUME NEW u \in User, NEW frequency \in Frequency \cup {"off"},
               ReplaceFollows(u, frequency)
        PROVE  IInv'
    BY <1>0, <1>2, <1>3, <1>6 DEF ReplaceFollows, Free, TypeOK
  <1>7. ASSUME NEW u \in User, Unsubscribe(u) PROVE IInv'
    <2>1. \A x \in User : lock[x] \in Worker => user'[x] = user[x]
      BY <1>0, <1>3, <1>7 DEF Unsubscribe, Free, TypeOK
    <2>2. \A m \in Mail : \/ status'[m] = status[m]
                          \/ status[m] = "queued" /\ status'[m] = "cancelled"
      BY <1>7 DEF Unsubscribe, Queued
    <2>. QED  BY <1>2, <1>7, <2>1, <2>2 DEF Unsubscribe
  <1>8. ASSUME NEW v \in Version, Publish(v) PROVE IInv'
    BY <1>2, <1>8 DEF Publish
  <1>. QED  BY <1>1, <1>4, <1>5, <1>6, <1>7, <1>8 DEF Web

(* A digest build. *)
LEMMA InvBuild ==
    ASSUME IInv, NEW b \in Builder,
           BuildStep(b) \/ BuildFails(b) \/ \E frequency \in Frequency : StartBuild(b, frequency)
    PROVE  IInv'
  <1>. USE DEF webVars, mailVars, sesVars, workerVars
  <1>0. TypeOK' /\ TypeOK
    BY TypeBuild DEF IInv
  <1>00. None \notin Worker \cup Builder /\ Worker \cap Builder = {}
    BY MailAssumption
  <1>1. ASSUME UNCHANGED <<user, letter, status, told, pc, batch, current, attempts, accepted>>,
               \A u \in User : lock[u] \in Worker => lock'[u] = lock[u]
        PROVE  NeverResent' /\ ClaimsApart' /\ ClaimedMail' /\ RowHeld'
               /\ NoVersionTwice' /\ ToldIsCarried'
    BY <1>0, <1>1, WorkersUndisturbed, DigestsUndisturbed
  <1>2. ASSUME NEW frequency \in Frequency, StartBuild(b, frequency) PROVE IInv'
    <2>1. SpoolHeld'
      BY <1>0, <1>2 DEF IInv, SpoolHeld, StartBuild, TypeOK
    <2>. QED  BY <1>0, <1>1, <1>2, <2>1 DEF StartBuild, IInv
  <1>3. ASSUME NEW u \in User, LockRecipient(b, u) PROVE IInv'
    <2>1. CASE Subscribed(u, building[b].frequency)
      <3>1. PICK found \in SUBSET Untold(u) :
                /\ lock' = [lock EXCEPT ![u] = b]
                /\ building' = [building EXCEPT ![b] =
                       [step |-> "spool", frequency |-> building[b].frequency,
                        users |-> building[b].users \ {u}, user |-> u, found |-> found]]
        BY <1>3, <2>1 DEF LockRecipient, TypeOK
      <3>2. lock[u] = None /\ found \cap told[u] = {}
        BY <1>3 DEF LockRecipient, Free, Untold
      <3>3. \A x \in User : lock[x] \in Worker => lock'[x] = lock[x]
        BY <1>0, <1>00, <3>1, <3>2 DEF TypeOK
      <3>4. ASSUME NEW c \in Builder, building'[c].step = "spool"
            PROVE  /\ building'[c].user \in User /\ lock'[building'[c].user] = c
                   /\ building'[c].found \cap told'[building'[c].user] = {}
        <4>1. CASE c = b
          BY <1>0, <1>3, <3>1, <3>2, <4>1 DEF TypeOK, LockRecipient
        <4>2. CASE c # b
          <5>1. building'[c] = building[c]
            BY <1>0, <3>1, <4>2 DEF TypeOK
          <5>2. building[c].user \in User /\ lock[building[c].user] = c
            BY <3>4, <5>1 DEF IInv, SpoolHeld
          <5>3. lock'[building[c].user] = c
            BY <1>0, <1>00, <3>1, <3>2, <5>2 DEF TypeOK
          <5>. QED  BY <1>3, <3>4, <5>1, <5>2, <5>3 DEF IInv, SpoolHeld, LockRecipient
        <4>. QED  BY <4>1, <4>2
      <3>5. SpoolHeld'
        BY <3>4 DEF SpoolHeld
      <3>. QED  BY <1>0, <1>1, <1>3, <3>3, <3>5 DEF LockRecipient, IInv
    <2>2. CASE ~Subscribed(u, building[b].frequency)
      <3>1. SpoolHeld'
        BY <1>0, <1>3, <2>2 DEF IInv, SpoolHeld, LockRecipient, NextUser, NoBuild, TypeOK
      <3>. QED  BY <1>0, <1>1, <1>3, <2>2, <3>1 DEF LockRecipient, IInv
    <2>. QED  BY <2>1, <2>2
  <1>4. ASSUME Spool(b) PROVE IInv'
    <2>. DEFINE u == building[b].user
                found == building[b].found
    <2>1. /\ building[b] \in Build /\ u \in User /\ lock[u] = b
          /\ found \cap told[u] = {} /\ found \subseteq Version
      BY <1>0, <1>4 DEF IInv, TypeOK, SpoolHeld, Spool, Build
    <2>2. /\ told'[u] = told[u] \cup found
          /\ \A x \in User \ {u} : told'[x] = told[x] /\ lock'[x] = lock[x]
          /\ building'[b].step # "spool"
          /\ \A c \in Builder \ {b} : building'[c] = building[c]
      BY <1>0, <1>4, <2>1 DEF Spool, NextUser, NoBuild, TypeOK
    <2>3. \A x \in User : lock[x] \in Worker => lock'[x] = lock[x]
      BY <1>00, <2>1, <2>2
    <2>4. SpoolHeld'
      BY <2>1, <2>2 DEF IInv, SpoolHeld
    <2>5. CASE /\ UNCHANGED <<letter, status>>
               /\ found = {} \/ \E m \in Mail : SameDigest(m, u, found)
      <3>1. \A m \in Mail, x \in User, v \in Version : Carries(m, x, v)' <=> Carries(m, x, v)
        BY <2>5 DEF Carries
      <3>2. \A v \in found : \E m \in Mail : Carries(m, u, v)
        BY <2>5 DEF SameDigest, Digest, Carries
      <3>3. NoVersionTwice'
        BY <3>1 DEF IInv, NoVersionTwice
      <3>4. ToldIsCarried'
        BY <2>1, <2>2, <3>1, <3>2 DEF IInv, ToldIsCarried
      <3>5. NeverResent' /\ ClaimsApart' /\ ClaimedMail' /\ RowHeld'
        BY <1>0, <1>4, <2>3, <2>5, WorkersUndisturbed DEF Spool
      <3>. QED  BY <1>0, <2>4, <3>3, <3>4, <3>5 DEF IInv
    <2>6. CASE \E m \in Mail : Queue(m, u, building[b].frequency, found)
      <3>1. PICK m \in Mail : Queue(m, u, building[b].frequency, found)
        BY <2>6
      <3>2. /\ status[m] = "none" /\ status'[m] = "queued"
            /\ \A n \in Mail \ {m} : status'[n] = status[n] /\ letter'[n] = letter[n]
            /\ letter'[m] = [user |-> u, kind |-> building[b].frequency, items |-> found]
        BY <1>0, <3>1 DEF Queue, TypeOK
      <3>3. NeverResent' /\ ClaimsApart' /\ ClaimedMail' /\ RowHeld'
        BY <1>0, <1>4, <2>3, <3>2, WorkersUndisturbed DEF Spool
      <3>4. building[b].frequency \in Frequency
        BY <2>1 DEF Build
      <3>5. /\ \A x \in User, v \in Version : ~Carries(m, x, v)
            /\ \A x \in User, v \in Version : Carries(m, x, v)' <=> x = u /\ v \in found
            /\ \A n \in Mail \ {m}, x \in User, v \in Version :
                   Carries(n, x, v)' <=> Carries(n, x, v)
        BY <3>2, <3>4 DEF Carries
      <3>6. \A n \in Mail, v \in found : ~Carries(n, u, v)
        BY <2>1 DEF IInv, ToldIsCarried
      <3>7. NoVersionTwice'
        BY <2>1, <3>5, <3>6 DEF IInv, NoVersionTwice
      <3>8. ToldIsCarried'
        BY <2>1, <2>2, <3>5 DEF IInv, ToldIsCarried
      <3>. QED  BY <1>0, <2>4, <3>3, <3>7, <3>8 DEF IInv
    <2>. QED  BY <1>4, <2>5, <2>6 DEF Spool
  <1>6. ASSUME BuildFails(b) PROVE IInv'
    <2>1. \A u \in User : lock[u] \in Worker => lock'[u] = lock[u]
      BY <1>00, <1>6 DEF BuildFails
    <2>2. SpoolHeld'
      BY <1>0, <1>6 DEF IInv, SpoolHeld, BuildFails, NoBuild, TypeOK
    <2>. QED  BY <1>0, <1>1, <1>6, <2>1, <2>2 DEF BuildFails, IInv
  <1>. QED  BY <1>2, <1>3, <1>4, <1>6 DEF BuildStep

(* A step of worker w that creates no mail leaves the digests and the      *)
(* builds intact.                                                          *)
LEMMA WorkerFrame ==
    ASSUME IInv, TypeOK', NEW w \in Worker, UNCHANGED <<told, letter, building>>,
           \A m \in Mail : status'[m] = "none" <=> status[m] = "none",
           \/ UNCHANGED lock
           \/ Release(w)
           \/ \E u \in User : Free(u) /\ lock' = [lock EXCEPT ![u] = w]
    PROVE  NoVersionTwice' /\ ToldIsCarried' /\ SpoolHeld'
  <1>1. None \notin Builder /\ w \notin Builder
    BY MailAssumption
  <1>2. \A u \in User : lock[u] \in Builder => lock'[u] = lock[u]
    BY <1>1 DEF Release, Free, IInv, TypeOK
  <1>. QED  BY <1>2, DigestsUndisturbed, BuildsUndisturbed

(* What is known of the other workers outlives a step of worker w that     *)
(* leaves their mails and rows alone.                                      *)
LEMMA OthersUndisturbed ==
    ASSUME IInv, TypeOK', NEW w \in Worker, UNCHANGED <<user, letter>>,
           \A x \in Worker \ {w} : pc'[x] = pc[x] /\ batch'[x] = batch[x] /\ current'[x] = current[x],
           \A m \in Mail : status'[m] = "none" <=> status[m] = "none",
           \A m \in Mail :
               \/ status'[m] = status[m] /\ attempts'[m] = attempts[m]
               \/ status[m] = "queued" /\ status'[m] # "queued"
               \/ Working(w) /\ m = current[w] /\ status'[m] # "queued",
           accepted \subseteq accepted',
           \A u \in User : lock[u] \in Worker \ {w} => lock'[u] = lock[u],
           NEW x \in Worker \ {w}
    PROVE  /\ \A m \in batch'[x] : status'[m] # "none"
           /\ Working(x)' =>
                  /\ Working(x)
                  /\ current'[x] = current[x] /\ current[x] \in Mail
                  /\ status'[current[x]] = status[current[x]]
                  /\ attempts'[current[x]] = attempts[current[x]]
                  /\ (Working(w) => current[x] # current[w])
           /\ pc[x] \in {"calling", "answered"} => lock'[letter[current[x]].user] = x
  <1>1. \A m \in batch'[x] : status'[m] # "none"
    BY DEF IInv, TypeOK, ClaimedMail
  <1>2. ASSUME Working(x)
        PROVE  /\ current[x] \in Mail
               /\ status[current[x]] \notin {"none", "queued"}
               /\ (Working(w) => current[x] # current[w])
    BY <1>2 DEF IInv, ClaimedMail, ClaimsApart
  <1>3. Working(x)' => Working(x)
    BY DEF Working
  <1>4. ASSUME pc[x] \in {"calling", "answered"} PROVE lock'[letter[current[x]].user] = x
    <2>1. Working(x)
      BY <1>4 DEF Working
    <2>2. letter[current[x]].user \in User
      BY <1>2, <2>1 DEF IInv, TypeOK, Letter
    <2>. QED  BY <1>4, <2>2 DEF IInv, RowHeld
  <1>. QED  BY <1>1, <1>2, <1>3, <1>4

(* A step of worker w keeps the invariant when it treats every mail well,  *)
(* leaves the mails and rows of the others alone, and its own mail and row *)
(* are as they should be afterwards.                                       *)
LEMMA WorkerKeeps ==
    ASSUME IInv, TypeOK', NEW w \in Worker, UNCHANGED <<user, letter, told, building>>,
           \A x \in Worker \ {w} : pc'[x] = pc[x] /\ batch'[x] = batch[x] /\ current'[x] = current[x],
           \A m \in Mail :
               \/ status'[m] = status[m] /\ attempts'[m] = attempts[m]
               \/ /\ status[m] = "queued" /\ status'[m] \in {"sending", "cancelled"}
                  /\ attempts'[m] = attempts[m]
               \/ /\ Working(w) /\ m = current[w] /\ attempts'[m] \in 0..1
                  /\ \/ status'[m] \in {"sending", "uncertain"}
                     \/ status'[m] = "cancelled" /\ attempts'[m] = 0
                     \/ status'[m] = "sent" /\ m \in accepted,
           accepted \subseteq accepted',
           \/ UNCHANGED lock
           \/ Release(w)
           \/ \E u \in User : Free(u) /\ lock' = [lock EXCEPT ![u] = w],
           \A m \in batch'[w] : status'[m] # "none",
           Working(w)' =>
               /\ current'[w] \in Mail /\ status'[current'[w]] \notin {"none", "queued"}
               /\ \/ Working(w) /\ current'[w] = current[w]
                  \/ status[current'[w]] = "queued",
           pc'[w] \in {"claimed", "calling", "severed"} =>
               status'[current'[w]] = "sending" /\ attempts'[current'[w]] = 0,
           pc'[w] = "answered" => status'[current'[w]] = "sending" /\ current'[w] \in accepted',
           pc'[w] = "severed" => Severed,
           pc'[w] \in {"calling", "answered"} => lock'[letter[current'[w]].user] = w,
           pc'[w] = "calling" /\ letter[current'[w]].kind \in Frequency =>
               Subscribed(letter[current'[w]].user, letter[current'[w]].kind)
    PROVE  IInv'
  <1>1. \A m \in Mail : status'[m] = "none" <=> status[m] = "none"
    BY DEF IInv, ClaimedMail
  <1>2. NoVersionTwice' /\ ToldIsCarried' /\ SpoolHeld'
    BY <1>1, WorkerFrame
  <1>3. NeverResent'
    BY DEF IInv, TypeOK, NeverResent
  <1>4. \A u \in User : lock[u] \in Worker \ {w} => lock'[u] = lock[u]
    BY MailAssumption DEF Release, Free, IInv, TypeOK
  <1>5. \A m \in Mail :
            \/ status'[m] = status[m] /\ attempts'[m] = attempts[m]
            \/ status[m] = "queued" /\ status'[m] # "queued"
            \/ Working(w) /\ m = current[w] /\ status'[m] # "queued"
    OBVIOUS
  <1>6. ASSUME NEW x \in Worker \ {w}
        PROVE  /\ \A m \in batch'[x] : status'[m] # "none"
               /\ Working(x)' =>
                      /\ Working(x)
                      /\ current'[x] = current[x] /\ current[x] \in Mail
                      /\ status'[current[x]] = status[current[x]]
                      /\ attempts'[current[x]] = attempts[current[x]]
                      /\ (Working(w) => current[x] # current[w])
               /\ pc[x] \in {"calling", "answered"} => lock'[letter[current[x]].user] = x
    BY <1>1, <1>4, <1>5, OthersUndisturbed
  <1>7. ClaimsApart'
    <2>1. ASSUME NEW x \in Worker \ {w}, Working(x)', Working(w)'
          PROVE  current'[x] # current'[w]
      <3>1. status[current[x]] # "queued"
        BY <1>6, <2>1 DEF IInv, ClaimedMail
      <3>. QED  BY <1>6, <2>1, <3>1
    <2>2. ASSUME NEW x \in Worker \ {w}, NEW y \in Worker \ {w}, Working(x)', Working(y)',
                 current'[x] = current'[y]
          PROVE  x = y
      BY <1>6, <2>2 DEF IInv, ClaimsApart
    <2>. QED  BY <2>1, <2>2 DEF ClaimsApart
  <1>8. ClaimedMail'
    <2>1. ASSUME NEW x \in Worker \ {w}
          PROVE  (/\ \A m \in batch[x] : status[m] # "none"
                  /\ Working(x) => current[x] \in Mail /\ status[current[x]] \notin {"none", "queued"}
                  /\ pc[x] \in {"claimed", "calling", "severed"} =>
                         status[current[x]] = "sending" /\ attempts[current[x]] = 0
                  /\ pc[x] = "answered" => status[current[x]] = "sending" /\ current[x] \in accepted
                  /\ pc[x] = "severed" => Severed)'
      BY <1>6 DEF IInv, ClaimedMail, Working
    <2>2. (/\ \A m \in batch[w] : status[m] # "none"
           /\ Working(w) => current[w] \in Mail /\ status[current[w]] \notin {"none", "queued"}
           /\ pc[w] \in {"claimed", "calling", "severed"} =>
                  status[current[w]] = "sending" /\ attempts[current[w]] = 0
           /\ pc[w] = "answered" => status[current[w]] = "sending" /\ current[w] \in accepted
           /\ pc[w] = "severed" => Severed)'
      OBVIOUS
    <2>. QED  BY <2>1, <2>2 DEF ClaimedMail
  <1>9. RowHeld'
    <2>1. ASSUME NEW x \in Worker \ {w}, pc'[x] \in {"calling", "answered"}
          PROVE  /\ lock'[letter'[current'[x]].user] = x
                 /\ pc'[x] = "calling" /\ letter'[current'[x]].kind \in Frequency =>
                        Subscribed(letter[current[x]].user, letter[current[x]].kind)
      BY <1>6, <2>1 DEF IInv, RowHeld, Working
    <2>2. ASSUME NEW x \in Worker \ {w} PROVE current'[x] = current[x]
      OBVIOUS
    <2>. QED  BY <2>1, <2>2 DEF RowHeld, Subscribed
  <1>. QED  BY <1>2, <1>3, <1>7, <1>8, <1>9 DEF IInv

(* After NextMail the worker holds no mail. *)
LEMMA NextMailIdle ==
    ASSUME TypeOK, NEW w \in Worker, NEW rest, NextMail(w, rest)
    PROVE  /\ pc'[w] \in {"idle", "next"} /\ batch'[w] = rest
           /\ \A x \in Worker \ {w} :
                  pc'[x] = pc[x] /\ batch'[x] = batch[x] /\ current'[x] = current[x]
  BY DEF TypeOK, NextMail, Step

(* A worker. *)
LEMMA InvWorker ==
    ASSUME IInv, NEW w \in Worker, ReadPending(w) \/ WorkerStep(w)
    PROVE  IInv'
  <1>. USE DEF webVars, mailVars, sesVars, workerVars
  <1>0. TypeOK' /\ TypeOK
    BY TypeWorker DEF IInv
  <1>1. ASSUME ReadPending(w) PROVE IInv'
    BY <1>0, <1>1, WorkerKeeps DEF ReadPending, Step, Pending, Queued, Working, TypeOK
  <1>2. ASSUME Prepare(w) PROVE IInv'
    <2>1. PICK m \in batch[w] :
              /\ Settle(w, m)
              /\ IF Claims(w, m)
                 THEN /\ batch' = [batch EXCEPT ![w] = @ \ {m}]
                      /\ current' = [current EXCEPT ![w] = m]
                      /\ Step(w, "claimed")
                 ELSE NextMail(w, batch[w] \ {m})
      BY <1>2 DEF Prepare
    <2>2. m \in Mail /\ UNCHANGED <<user, letter, told, building, attempts, accepted, lock>>
      BY <1>0, <1>2 DEF TypeOK, Prepare
    <2>3. /\ \A x \in Worker \ {w} : pc'[x] = pc[x] /\ batch'[x] = batch[x] /\ current'[x] = current[x]
          /\ batch'[w] = batch[w] \ {m}
      BY <1>0, <2>1 DEF TypeOK, Step, NextMail
    <2>4. \A n \in Mail :
              \/ status'[n] = status[n]
              \/ status[n] = "queued" /\ status'[n] \in {"sending", "cancelled"}
      BY <1>0, <2>1, <2>2 DEF Settle, Claims, TypeOK
    <2>5. \A n \in batch'[w] : status'[n] # "none"
      <3>1. batch'[w] \subseteq batch[w] /\ batch[w] \subseteq Mail
        BY <1>0, <2>3 DEF TypeOK
      <3>2. \A n \in batch[w] : status[n] # "none"
        BY DEF IInv, ClaimedMail
      <3>. QED  BY <2>4, <3>1, <3>2
    <2>6. CASE Claims(w, m)
      <3>1. /\ pc'[w] = "claimed" /\ current'[w] = m
            /\ status[m] = "queued" /\ status'[m] = "sending"
        BY <1>0, <2>1, <2>2, <2>6 DEF Claims, Settle, Step, TypeOK
      <3>2. attempts'[m] = 0
        BY <2>2, <3>1 DEF IInv, NeverResent
      <3>. QED  BY <1>0, <2>2, <2>3, <2>4, <2>5, <3>1, <3>2, WorkerKeeps DEF Working
    <2>7. CASE ~Claims(w, m)
      <3>1. pc'[w] \in {"idle", "next"}
        BY <1>0, <2>1, <2>7 DEF NextMail, Step, TypeOK
      <3>. QED  BY <1>0, <2>2, <2>3, <2>4, <2>5, <3>1, WorkerKeeps DEF Working
    <2>. QED  BY <2>6, <2>7
  <1>4. ASSUME Recheck(w) PROVE IInv'
    <2>. DEFINE m == current[w]
    <2>1. /\ m \in Mail /\ status[m] = "sending" /\ attempts[m] = 0 /\ Working(w)
          /\ letter[m] \in Letter
      BY <1>0, <1>4 DEF IInv, ClaimedMail, Recheck, Working, TypeOK
    <2>2. UNCHANGED <<user, letter, told, building, attempts, accepted>>
      BY <1>4 DEF Recheck
    <2>3. CASE Eligible(m)
      <3>1. /\ lock' = [lock EXCEPT ![letter[m].user] = w] /\ Free(letter[m].user)
            /\ pc'[w] = "calling" /\ UNCHANGED <<status, batch, current>>
            /\ \A x \in Worker \ {w} : pc'[x] = pc[x]
        BY <1>0, <1>4, <2>1, <2>3 DEF Recheck, Step, TypeOK
      <3>2. letter[m].user \in User /\ lock'[letter[m].user] = w
        BY <1>0, <2>1, <3>1 DEF TypeOK, Letter
      <3>3. letter[m].kind \in Frequency => Subscribed(letter[m].user, letter[m].kind)
        BY <2>3 DEF Eligible, Digest
      <3>. QED  BY <1>0, <2>1, <2>2, <3>1, <3>2, <3>3, WorkerKeeps DEF IInv, ClaimedMail, Working
    <2>4. CASE ~Eligible(m)
      <3>0. /\ UNCHANGED lock /\ NextMail(w, batch[w])
            /\ status' = [status EXCEPT ![m] = "cancelled"]
        BY <1>4, <2>1, <2>4 DEF Recheck, Mark
      <3>1. /\ pc'[w] \in {"idle", "next"} /\ batch'[w] = batch[w]
            /\ \A x \in Worker \ {w} :
                   pc'[x] = pc[x] /\ batch'[x] = batch[x] /\ current'[x] = current[x]
        BY <1>0, <3>0, NextMailIdle
      <3>2. status'[m] = "cancelled" /\ \A n \in Mail \ {m} : status'[n] = status[n]
        BY <1>0, <2>1, <3>0 DEF TypeOK
      <3>3. \A n \in batch'[w] : status'[n] # "none"
        BY <1>0, <3>1, <3>2 DEF IInv, ClaimedMail, TypeOK
      <3>. QED  BY <1>0, <2>1, <2>2, <3>0, <3>1, <3>2, <3>3, WorkerKeeps DEF Working
    <2>. QED  BY <2>3, <2>4
  <1>5. ASSUME CallSes(w) PROVE IInv'
    <2>. DEFINE m == current[w]
    <2>1. /\ m \in Mail /\ status[m] = "sending" /\ attempts[m] = 0 /\ Working(w)
          /\ lock[letter[m].user] = w
      BY <1>0, <1>5 DEF IInv, ClaimedMail, RowHeld, CallSes, Working, TypeOK
    <2>2. /\ UNCHANGED <<user, letter, told, building, status, batch, current, lock>>
          /\ \A x \in Worker \ {w} : pc'[x] = pc[x]
          /\ pc'[w] = "answered"
          /\ accepted' = accepted \cup {m}
      BY <1>0, <1>5 DEF CallSes, Step, TypeOK
    <2>3. attempts'[m] = 1 /\ \A n \in Mail \ {m} : attempts'[n] = attempts[n]
      BY <1>0, <1>5, <2>1 DEF CallSes, Ask, TypeOK
    <2>. QED  BY <1>0, <2>1, <2>2, <2>3, WorkerKeeps DEF IInv, ClaimedMail, Working
  <1>6. ASSUME MarkSent(w) PROVE IInv'
    <2>. DEFINE m == current[w]
    <2>1. m \in Mail /\ status[m] = "sending" /\ m \in accepted /\ Working(w) /\ attempts[m] \in 0..1
      <3>1. m \in Mail /\ status[m] = "sending" /\ m \in accepted /\ Working(w)
        BY <1>6 DEF IInv, ClaimedMail, MarkSent, Working
      <3>2. attempts[m] \in Nat /\ attempts[m] <= 1
        BY <1>0, <3>1 DEF IInv, NeverResent, TypeOK
      <3>. QED  BY <3>1, <3>2
    <2>2. /\ UNCHANGED <<user, letter, told, building, attempts, accepted>>
          /\ NextMail(w, batch[w]) /\ Release(w)
      BY <1>6 DEF MarkSent
    <2>5. /\ pc'[w] \in {"idle", "next"} /\ batch'[w] = batch[w]
          /\ \A x \in Worker \ {w} :
                 pc'[x] = pc[x] /\ batch'[x] = batch[x] /\ current'[x] = current[x]
      BY <1>0, <2>2, NextMailIdle
    <2>3. status'[m] = "sent" /\ \A n \in Mail \ {m} : status'[n] = status[n]
      BY <1>0, <1>6, <2>1 DEF MarkSent, Mark, TypeOK
    <2>4. \A n \in batch'[w] : status'[n] # "none"
      BY <1>0, <2>3, <2>5 DEF IInv, ClaimedMail, TypeOK
    <2>. QED  BY <1>0, <2>1, <2>2, <2>3, <2>4, <2>5, WorkerKeeps DEF Working
  <1>7. ASSUME MarkUncertain(w) PROVE IInv'
    <2>. DEFINE m == current[w]
    <2>1. m \in Mail /\ Working(w) /\ attempts[m] \in 0..1
      <3>1. m \in Mail /\ Working(w)
        BY <1>7 DEF IInv, ClaimedMail, MarkUncertain, Working
      <3>2. attempts[m] \in Nat /\ attempts[m] <= 1
        BY <1>0, <3>1 DEF IInv, NeverResent, TypeOK
      <3>. QED  BY <3>1, <3>2
    <2>2. /\ UNCHANGED <<user, letter, told, building, attempts, accepted, lock>>
          /\ NextMail(w, batch[w])
      BY <1>7 DEF MarkUncertain
    <2>5. /\ pc'[w] \in {"idle", "next"} /\ batch'[w] = batch[w]
          /\ \A x \in Worker \ {w} :
                 pc'[x] = pc[x] /\ batch'[x] = batch[x] /\ current'[x] = current[x]
      BY <1>0, <2>2, NextMailIdle
    <2>3. /\ status'[m] = status[m] \/ status'[m] = "uncertain"
          /\ \A n \in Mail \ {m} : status'[n] = status[n]
      BY <1>0, <1>7, <2>1 DEF MarkUncertain, Mark, TypeOK
    <2>4. \A n \in batch'[w] : status'[n] # "none"
      BY <1>0, <2>3, <2>5 DEF IInv, ClaimedMail, TypeOK
    <2>. QED  BY <1>0, <2>1, <2>2, <2>3, <2>4, <2>5, WorkerKeeps DEF Working
  <1>8. ASSUME CallSesSevered(w) PROVE IInv'
    <2>. DEFINE m == current[w]
    <2>1. m \in Mail /\ status[m] = "sending" /\ attempts[m] = 0 /\ Working(w)
      BY <1>0, <1>8 DEF IInv, ClaimedMail, CallSesSevered, Working, TypeOK
    <2>2. /\ UNCHANGED <<user, letter, told, building, status, lock>>
          /\ \A x \in Worker \ {w} : pc'[x] = pc[x] /\ batch'[x] = batch[x] /\ current'[x] = current[x]
          /\ pc'[w] = "idle" /\ batch'[w] = {}
          /\ accepted' = accepted \cup {m}
      BY <1>0, <1>8 DEF CallSesSevered, EndRun, NextMail, Step, TypeOK
    <2>3. attempts'[m] = 1 /\ \A n \in Mail \ {m} : attempts'[n] = attempts[n]
      BY <1>0, <1>8, <2>1 DEF CallSesSevered, Ask, TypeOK
    <2>. QED  BY <1>0, <2>1, <2>2, <2>3, WorkerKeeps DEF Working
  <1>. QED  BY <1>1, <1>2, <1>4, <1>5, <1>6, <1>7, <1>8 DEF WorkerStep

(* What may happen to a worker. *)
LEMMA InvInterruption ==
    ASSUME IInv, NEW w \in Worker, Interruption(w)
    PROVE  IInv'
  <1>. USE DEF webVars, mailVars, sesVars, workerVars
  <1>0. TypeOK' /\ TypeOK
    BY TypeInterruption DEF IInv
  <1>1. ASSUME ComposeRefuses(w) PROVE IInv'
    <2>1. PICK m \in batch[w] :
              /\ status[m] = "queued"
              /\ status' = [status EXCEPT ![m] = "cancelled"]
              /\ NextMail(w, batch[w] \ {m})
      BY <1>1 DEF ComposeRefuses
    <2>2. /\ UNCHANGED <<user, letter, told, building, attempts, accepted, lock>>
          /\ \A x \in Worker \ {w} :
                 pc'[x] = pc[x] /\ batch'[x] = batch[x] /\ current'[x] = current[x]
          /\ pc'[w] \in {"idle", "next"}
          /\ batch'[w] \subseteq batch[w] /\ batch[w] \subseteq Mail
      BY <1>0, <1>1, <2>1, NextMailIdle DEF TypeOK, ComposeRefuses
    <2>3. status'[m] = "cancelled" /\ \A n \in Mail \ {m} : status'[n] = status[n]
      BY <1>0, <2>1, <2>2 DEF TypeOK
    <2>4. \A n \in batch[w] : status[n] # "none"
      BY DEF IInv, ClaimedMail
    <2>5. \A n \in batch'[w] : status'[n] # "none"
      BY <2>2, <2>3, <2>4
    <2>. QED  BY <1>0, <2>1, <2>2, <2>3, <2>5, WorkerKeeps DEF Working
  <1>2. ASSUME PrepareRaises(w) PROVE IInv'
    <2>1. PICK m \in batch[w] : Settle(w, m) \/ UNCHANGED status
      BY <1>2 DEF PrepareRaises
    <2>2. /\ UNCHANGED <<user, letter, told, building, attempts, accepted, lock>>
          /\ \A x \in Worker \ {w} : pc'[x] = pc[x] /\ batch'[x] = batch[x] /\ current'[x] = current[x]
          /\ pc'[w] = "idle" /\ batch'[w] = {} /\ m \in Mail
      BY <1>0, <1>2 DEF TypeOK, PrepareRaises, EndRun, NextMail, Step
    <2>3. \A n \in Mail :
              \/ status'[n] = status[n]
              \/ status[n] = "queued" /\ status'[n] \in {"sending", "cancelled"}
      BY <1>0, <2>1, <2>2 DEF Settle, Claims, TypeOK
    <2>. QED  BY <1>0, <2>2, <2>3, WorkerKeeps DEF Working
  <1>3. ASSUME DeliverRaises(w) PROVE IInv'
    <2>. DEFINE m == current[w]
    <2>1. m \in Mail /\ status[m] = "sending" /\ Working(w)
      BY <1>3 DEF IInv, ClaimedMail, DeliverRaises, Working
    <2>2. /\ UNCHANGED <<user, letter, told, building, batch, current>>
          /\ \A x \in Worker \ {w} : pc'[x] = pc[x]
          /\ pc'[w] = "unsure" /\ Release(w)
      BY <1>0, <1>3 DEF DeliverRaises, Step, TypeOK
    <2>3. attempts[m] \in 0..1 /\ (pc[w] \in {"claimed", "calling"} => attempts[m] = 0)
      <3>1. attempts[m] \in Nat /\ attempts[m] <= 1
        BY <1>0, <2>1 DEF IInv, NeverResent, TypeOK
      <3>. QED  BY <3>1 DEF IInv, ClaimedMail
    <2>4. ASSUME UNCHANGED <<status, attempts>>, accepted' = accepted PROVE IInv'
      <3>1. \A n \in batch'[w] : status'[n] # "none"
        BY <2>2, <2>4 DEF IInv, ClaimedMail
      <3>. QED  BY <1>0, <2>1, <2>2, <2>4, <3>1, WorkerKeeps DEF Working
    <2>5. ASSUME NEW state \in {"sent", "cancelled"}, Mark(w, state), UNCHANGED <<attempts, accepted>>,
                 state = "sent" => m \in accepted, state = "cancelled" => attempts[m] = 0
          PROVE  IInv'
      <3>1. status'[m] = state /\ \A n \in Mail \ {m} : status'[n] = status[n]
        BY <1>0, <2>1, <2>5 DEF Mark, TypeOK
      <3>2. \A n \in batch'[w] : status'[n] # "none"
        BY <1>0, <2>2, <3>1 DEF IInv, ClaimedMail, TypeOK
      <3>. QED  BY <1>0, <2>1, <2>2, <2>3, <2>5, <3>1, <3>2, WorkerKeeps DEF Working
    <2>6. CASE pc[w] = "claimed"
      BY <1>3, <2>3, <2>4, <2>5, <2>6 DEF DeliverRaises
    <2>7. CASE pc[w] = "calling"
      <3>1. UNCHANGED status /\ accepted \subseteq accepted'
        BY <1>3, <2>7 DEF DeliverRaises
      <3>2. attempts'[m] = 1 /\ \A n \in Mail \ {m} : attempts'[n] = attempts[n]
        BY <1>0, <1>3, <2>1, <2>3, <2>7 DEF DeliverRaises, Ask, TypeOK
      <3>3. \A n \in batch'[w] : status'[n] # "none"
        BY <2>2, <3>1 DEF IInv, ClaimedMail
      <3>. QED  BY <1>0, <2>1, <2>2, <3>1, <3>2, <3>3, WorkerKeeps DEF Working
    <2>8. CASE pc[w] = "answered"
      <3>1. m \in accepted
        BY <2>8 DEF IInv, ClaimedMail
      <3>. QED  BY <1>3, <2>4, <2>5, <2>8, <3>1 DEF DeliverRaises
    <2>. QED  BY <1>3, <2>6, <2>7, <2>8 DEF DeliverRaises
  <1>4. ASSUME MarkUncertainRaises(w) PROVE IInv'
    <2>1. /\ UNCHANGED <<user, letter, told, building, status, attempts, accepted, lock>>
          /\ \A x \in Worker \ {w} :
                 pc'[x] = pc[x] /\ batch'[x] = batch[x] /\ current'[x] = current[x]
          /\ pc'[w] \in {"idle", "next"} /\ batch'[w] = batch[w]
      BY <1>0, <1>4, NextMailIdle DEF MarkUncertainRaises
    <2>2. \A n \in batch'[w] : status'[n] # "none"
      BY <2>1 DEF IInv, ClaimedMail
    <2>. QED  BY <1>0, <2>1, <2>2, WorkerKeeps DEF Working
  <1>5. ASSUME Sever(w) PROVE IInv'
    <2>. DEFINE m == current[w]
    <2>1. m \in Mail /\ status[m] = "sending" /\ attempts[m] = 0 /\ Working(w)
      BY <1>5 DEF IInv, ClaimedMail, Sever, Working
    <2>2. /\ UNCHANGED <<user, letter, told, building, status, attempts, accepted, batch, current>>
          /\ \A x \in Worker \ {w} : pc'[x] = pc[x]
          /\ pc'[w] = "severed" /\ Release(w) /\ Severed
      BY <1>0, <1>5 DEF Sever, Step, TypeOK
    <2>3. \A n \in batch'[w] : status'[n] # "none"
      BY <2>2 DEF IInv, ClaimedMail
    <2>. QED  BY <1>0, <2>1, <2>2, <2>3, WorkerKeeps DEF Working
  <1>6. ASSUME Crash(w) PROVE IInv'
    <2>1. /\ UNCHANGED <<user, letter, told, building, status, attempts, accepted>>
          /\ \A x \in Worker \ {w} : pc'[x] = pc[x] /\ batch'[x] = batch[x] /\ current'[x] = current[x]
          /\ pc'[w] = "idle" /\ batch'[w] = {} /\ Release(w)
      BY <1>0, <1>6 DEF Crash, EndRun, NextMail, Step, TypeOK
    <2>. QED  BY <1>0, <2>1, WorkerKeeps DEF Working
  <1>. QED  BY <1>1, <1>2, <1>3, <1>4, <1>5, <1>6 DEF Interruption

-----------------------------------------------------------------------------
(* The initial state, and every step, satisfy the invariant. *)
LEMMA InvInit == Init => IInv
  <1>. SUFFICES ASSUME Init PROVE IInv
    OBVIOUS
  <1>1. TypeOK
    BY TypeInit
  <1>2. NeverResent
    BY DEF Init, NeverResent
  <1>3. NoVersionTwice /\ ToldIsCarried
    BY DEF Init, NoVersionTwice, ToldIsCarried, Carries
  <1>4. ClaimsApart /\ ClaimedMail /\ RowHeld
    BY DEF Init, ClaimsApart, ClaimedMail, RowHeld, Working
  <1>5. SpoolHeld
    BY DEF Init, SpoolHeld, NoBuild
  <1>. QED  BY <1>1, <1>2, <1>3, <1>4, <1>5 DEF IInv

LEMMA InvNext == IInv /\ [Next]_vars => IInv'
  <1>. SUFFICES ASSUME IInv, [Next]_vars PROVE IInv'
    OBVIOUS
  <1>1. CASE Web
    BY <1>1, InvWeb
  <1>2. ASSUME NEW b \in Builder,
               \/ BuildStep(b) \/ BuildFails(b)
               \/ \E frequency \in Frequency : StartBuild(b, frequency)
        PROVE  IInv'
    BY <1>2, InvBuild
  <1>3. ASSUME NEW w \in Worker, ReadPending(w) \/ WorkerStep(w) PROVE IInv'
    BY <1>3, InvWorker
  <1>4. ASSUME NEW w \in Worker, Interruption(w) PROVE IInv'
    BY <1>4, InvInterruption
  <1>5. CASE UNCHANGED vars
    <2>. USE <1>5 DEF vars, webVars, mailVars, sesVars, workerVars
    <2>1. TypeOK'
      BY DEF IInv, TypeOK
    <2>2. NeverResent' /\ ClaimsApart' /\ ClaimedMail' /\ RowHeld'
      BY <2>1, WorkersUndisturbed
    <2>3. NoVersionTwice' /\ ToldIsCarried' /\ SpoolHeld'
      BY <2>1, DigestsUndisturbed, BuildsUndisturbed
    <2>. QED  BY <2>1, <2>2, <2>3 DEF IInv
  <1>. QED  BY <1>1, <1>2, <1>3, <1>4, <1>5 DEF Next

(* Every reachable state of the mail service satisfies the invariant: the  *)
(* mails, rows and digests of workers and builds stay apart.               *)
THEOREM InvariantHolds == Spec => []IInv
  BY InvInit, InvNext, PTL DEF Spec

(* Every reachable state is well typed.                                    *)
THEOREM TypeCorrect == Spec => []TypeOK
  <1>1. IInv => TypeOK
    BY DEF IInv
  <1>. QED  BY <1>1, InvariantHolds, PTL

(* No mail is asked of SES twice, however many workers share the queue and *)
(* wherever they fail.                                                     *)
THEOREM AtMostOneRequest == Spec => []NeverResent
  <1>1. IInv => NeverResent
    BY DEF IInv
  <1>. QED  BY <1>1, InvariantHolds, PTL

(* No version reaches a user in two digests, however builds overlap.       *)
THEOREM VersionsOnce == Spec => []NoVersionTwice
  <1>1. IInv => NoVersionTwice
    BY DEF IInv
  <1>. QED  BY <1>1, InvariantHolds, PTL

(* The versions put aside as told are those of the user's digests.         *)
THEOREM ToldVersionsAreMailed == Spec => []ToldIsCarried
  <1>1. IInv => ToldIsCarried
    BY DEF IInv
  <1>. QED  BY <1>1, InvariantHolds, PTL

(* A digest goes out only to someone who is subscribed at that moment, or  *)
(* with a call that lost its connection while it was under way.            *)
THEOREM OptOutIsFinal == Spec => OptOutHonoured
  <1>. DEFINE Asked == \A m \in Mail : attempts'[m] # attempts[m] /\ Digest(m)
                         => \/ Subscribed(letter[m].user, letter[m].kind)
                            \/ \E w \in Worker : pc[w] = "severed" /\ current[w] = m
  <1>1. IInv /\ [Next]_vars => [Asked]_vars
    <2>. SUFFICES ASSUME IInv, Next PROVE Asked
      OBVIOUS
    <2>. USE DEF webVars, mailVars, sesVars, workerVars
    <2>1. ASSUME UNCHANGED attempts PROVE Asked
      BY <2>1
    <2>2. ASSUME NEW w \in Worker, pc[w] = "calling", Ask(w) PROVE Asked
      <3>1. \A m \in Mail : attempts'[m] # attempts[m] => m = current[w]
        BY <2>2 DEF IInv, TypeOK, Ask
      <3>. QED  BY <2>2, <3>1 DEF IInv, RowHeld, Digest
    <2>3. CASE Web
      BY <2>1, <2>3 DEF Web, RequestLink, Expire, Verify, ReplaceFollows, Unsubscribe, Publish
    <2>4. ASSUME NEW b \in Builder,
                 \/ BuildStep(b) \/ BuildFails(b)
                 \/ \E frequency \in Frequency : StartBuild(b, frequency)
          PROVE  Asked
      BY <2>1, <2>4 DEF BuildStep, BuildFails, StartBuild, LockRecipient, Spool
    <2>5. ASSUME NEW w \in Worker, ReadPending(w) \/ WorkerStep(w) PROVE Asked
      <3>1. CASE CallSes(w)
        BY <2>2, <3>1 DEF CallSes
      <3>2. CASE CallSesSevered(w)
        <4>1. pc[w] = "severed" /\ \A m \in Mail : attempts'[m] # attempts[m] => m = current[w]
          BY <3>2 DEF CallSesSevered, Ask, IInv, TypeOK
        <4>. QED  BY <4>1
      <3>. QED  BY <2>1, <2>5, <3>1, <3>2
             DEF WorkerStep, ReadPending, Prepare, Recheck, MarkSent, MarkUncertain
    <2>6. ASSUME NEW w \in Worker, Interruption(w) PROVE Asked
      <3>1. CASE DeliverRaises(w)
        BY <2>1, <2>2, <3>1 DEF DeliverRaises
      <3>. QED  BY <2>1, <2>6, <3>1
             DEF Interruption, ComposeRefuses, PrepareRaises, MarkUncertainRaises, Sever, Crash
    <2>. QED  BY <2>3, <2>4, <2>5, <2>6 DEF Next
  <1>. QED  BY <1>1, InvariantHolds, PTL DEF Spec, OptOutHonoured

=============================================================================
