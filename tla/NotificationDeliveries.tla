------------------------ MODULE NotificationDeliveries ------------------------
(***************************************************************************)
(* The deliveries of notifications by e-mail: their creation under the     *)
(* channel's configuration, claims under a lease, the mail relay's answer, *)
(* retries, dead letters, the orders of administrators, the deletion of    *)
(* the recipient's account                                                 *)
(* (notifications/prismaNotificationDeliveryRepository.js and              *)
(* notificationDeliveryWorker.js).                                         *)
(*                                                                         *)
(* Every handler is a serializable transaction, repeated on a conflict,    *)
(* hence one step; the mail is sent between two of them. A lease has no    *)
(* clock: it runs out once nobody holds the claim, and under its holder as *)
(* a fault. The in_app delivery of a notification is sent when it is made  *)
(* and is left out.                                                        *)
(***************************************************************************)
EXTENDS Integers, Sequences, FiniteSets, SequencesExt

CONSTANTS
    Mailers,      \* worker processes
    Mails,        \* notifications, each with one delivery by e-mail
    Answers,      \* what sending a mail may come to
    MailAttempts, \* largest maximum of attempts of the channel
    MailFaults,   \* bound: crashes, and leases outrun under their holder
    MailOrders,   \* bound: orders of administrators
    MailClaims    \* bound: claims of one delivery

ASSUME MailAssumption ==
    /\ MailAttempts \in Nat
    /\ MailFaults \in Nat
    /\ MailOrders \in Nat
    \* so that only sends that throw bring a delivery to the bound
    /\ MailClaims \in Nat /\ MailClaims > MailAttempts + MailFaults + MailOrders

VARIABLES
    channel,      \* notification_channel_config_revisions; the last one is in force
    mail,         \* notification_deliveries
    mailAttempt,  \* notification_delivery_attempts, by delivery and attempt number
    accepted,     \* history: the attempts whose mail the relay has accepted
    mailer,       \* what each worker process holds
    mailFaults,
    mailOrders

mailVars == <<channel, mail, mailAttempt, accepted, mailer, mailFaults, mailOrders>>

MailDue == {"queued", "retry_scheduled"}
MailFinal == {"sent", "suppressed", "cancelled", "gone"}

\* Each claim after the maximum is due to a fault, to an order or to a send that throws
Tries == 1..MailClaims

\* token is the number of the attempt whose lease token the row carries, 0 for none
MailRow == [status: MailDue \cup MailFinal \cup {"none", "processing", "dead_lettered"},
            count: {0} \cup Tries, max: 0..MailAttempts, token: {0} \cup Tries,
            lapsed: BOOLEAN]

NoMail == [status |-> "none", count |-> 0, max |-> 0, token |-> 0, lapsed |-> FALSE]

Revision == [enabled: BOOLEAN, max: 1..MailAttempts]

\* A worker first claims, then sends what it has claimed in that order; answer is what the
\* relay has said to the first claim, "" before it is asked
MailRound == [sending: BOOLEAN, claims: Seq(Mails \X Tries), answer: {""} \cup Answers]
NoRound == [sending |-> FALSE, claims |-> <<>>, answer |-> ""]

MailAttemptStatuses == {"none", "processing", "sent", "failed", "timed_out"}

MailTypeOK ==
    /\ channel \in Seq(Revision) /\ channel # <<>>
    /\ mail \in [Mails -> MailRow]
    /\ mailAttempt \in [Mails -> [Tries -> MailAttemptStatuses]]
    /\ accepted \subseteq Mails \X Tries
    /\ mailer \in [Mailers -> MailRound]
    /\ mailFaults \in 0..MailFaults
    /\ mailOrders \in 0..MailOrders

MailInit ==
    /\ channel \in {<<[enabled |-> TRUE, max |-> m]>> : m \in 1..MailAttempts}
    /\ mail = [d \in Mails |-> NoMail]
    /\ mailAttempt = [d \in Mails |-> [n \in Tries |-> "none"]]
    /\ accepted = {}
    /\ mailer = [w \in Mailers |-> NoRound]
    /\ mailFaults = 0
    /\ mailOrders = 0

Order == mailOrders < MailOrders /\ mailOrders' = mailOrders + 1
Fault == mailFaults < MailFaults /\ mailFaults' = mailFaults + 1

-----------------------------------------------------------------------------
(* Notifications, administrators, account deletion *)

\* createForNotification: queued under the configuration in force, or suppressed, which
\* it also is when the recipient has no address
CreateForNotification(d) ==
    /\ mail[d].status = "none"
    /\ \E status \in IF Last(channel).enabled THEN {"queued", "suppressed"} ELSE {"suppressed"} :
        mail' = [mail EXCEPT ![d] = [@ EXCEPT !.status = status, !.max = Last(channel).max]]
    /\ UNCHANGED <<channel, mailAttempt, accepted, mailer, mailFaults, mailOrders>>

UpdateChannelConfig ==
    /\ Order
    /\ \E revision \in Revision : channel' = Append(channel, revision)
    /\ UNCHANGED <<mail, mailAttempt, accepted, mailer, mailFaults>>

RollbackChannelConfig ==
    /\ Order
    /\ \E n \in DOMAIN channel : channel' = Append(channel, channel[n])
    /\ UNCHANGED <<mail, mailAttempt, accepted, mailer, mailFaults>>

\* retry leaves the count and the maximum as they are
RetryMail(d) ==
    /\ mail[d].status = "dead_lettered"
    /\ Order
    /\ mail' = [mail EXCEPT ![d].status = "retry_scheduled"]
    /\ UNCHANGED <<channel, mailAttempt, accepted, mailer, mailFaults>>

CancelMail(d) ==
    /\ mail[d].status \in MailDue
    /\ Order
    /\ mail' = [mail EXCEPT ![d].status = "cancelled"]
    /\ UNCHANGED <<channel, mailAttempt, accepted, mailer, mailFaults>>

\* The recipient's account is deleted: the notification goes, with delivery and attempts
EraseMail(d) ==
    /\ mail[d].status \notin {"none", "gone"}
    /\ Order
    /\ mail' = [mail EXCEPT ![d] = [NoMail EXCEPT !.status = "gone"]]
    /\ mailAttempt' = [mailAttempt EXCEPT ![d] = [n \in Tries |-> "none"]]
    /\ UNCHANGED <<channel, accepted, mailer, mailFaults>>

-----------------------------------------------------------------------------
(* The worker *)

\* Faulty variant: what is being processed is never taken over
ClaimableWhenDue(d) == mail[d].status \in MailDue

Claimable(d) == mail[d].status \in MailDue \/ (mail[d].status = "processing" /\ mail[d].lapsed)

\* Faulty variant: the attempt whose lease has run out stays open
AfterClaimOnly(d) == [mailAttempt EXCEPT ![d] = [n \in Tries |->
    IF n = mail[d].count + 1 THEN "processing" ELSE @[n]]]

\* The attempts after a claim: the one whose lease has run out is closed, a new one opened
AfterClaim(d) == [mailAttempt EXCEPT ![d] = [n \in Tries |->
    IF n = mail[d].count + 1 THEN "processing"
    ELSE IF n = mail[d].token /\ @[n] = "processing" THEN "timed_out" ELSE @[n]]]

\* One round of the loop in claim
ClaimMail(w, d) ==
    /\ ~mailer[w].sending
    /\ Claimable(d)
    /\ LET n == mail[d].count + 1
       IN  /\ n \in Tries
           /\ mail' = [mail EXCEPT ![d] = [@ EXCEPT !.status = "processing", !.count = n,
                                                    !.token = n, !.lapsed = FALSE]]
           /\ mailAttempt' = AfterClaim(d)
           /\ mailer' = [mailer EXCEPT ![w].claims = Append(@, <<d, n>>)]
    /\ UNCHANGED <<channel, accepted, mailFaults, mailOrders>>

\* The loop ends when nothing is due, a candidate was lost, or the limit is reached
EndClaims(w) ==
    /\ ~mailer[w].sending
    /\ mailer[w].claims # <<>>
    /\ mailer' = [mailer EXCEPT ![w].sending = TRUE]
    /\ UNCHANGED <<channel, mail, mailAttempt, accepted, mailFaults, mailOrders>>

\* emailClient.send with an answer. The relay may accept a mail whose answer is lost.
Send(w) ==
    /\ mailer[w].sending
    /\ mailer[w].answer = ""
    /\ \E answer \in Answers \ {"throws"} :
        /\ mailer' = [mailer EXCEPT ![w].answer = answer]
        /\ \/ answer = "sent" /\ accepted' = accepted \cup {Head(mailer[w].claims)}
           \/ answer = "retryable_failure" /\ accepted' = accepted \cup {Head(mailer[w].claims)}
           \/ answer # "sent" /\ UNCHANGED accepted
    /\ UNCHANGED <<channel, mail, mailAttempt, mailFaults, mailOrders>>

\* emailClient.send throws before it asks the relay: nothing catches it in the worker, so
\* the rest of the claims is dropped with it.  Nothing limits how often: the client that the
\* worker makes itself expects another form of claim, and throws on each that it may send.
SendThrows(w) ==
    /\ mailer[w].sending
    /\ mailer[w].answer = ""
    /\ "throws" \in Answers
    /\ mailer' = [mailer EXCEPT ![w] = NoRound]
    /\ UNCHANGED <<channel, mail, mailAttempt, accepted, mailFaults, mailOrders>>

\* Faulty variant: the token is not compared
HasLeaseAny(c) == mail[c[1]].status = "processing"

\* complete finds the row under the token of its claim
HasLease(c) == mail[c[1]].status = "processing" /\ mail[c[1]].token = c[2]

\* Faulty variant: the attempt's outcome is written to the delivery
CompletedAsAttempt(d, answer) == IF answer = "sent" THEN "sent" ELSE "failed"

\* The status that complete gives: with attempts left a retryable failure is tried again
Completed(d, answer) ==
    IF answer = "sent" THEN "sent"
    ELSE IF answer = "retryable_failure" /\ mail[d].count < mail[d].max THEN "retry_scheduled"
    ELSE "dead_lettered"

Rest(w) == IF Len(mailer[w].claims) = 1 THEN NoRound
           ELSE [mailer[w] EXCEPT !.claims = Tail(@), !.answer = ""]

CompleteMail(w) ==
    /\ mailer[w].answer # ""
    /\ LET c == Head(mailer[w].claims)
           d == c[1]
       IN  IF HasLease(c)
           THEN /\ mail' = [mail EXCEPT ![d] = [@ EXCEPT
                        !.status = Completed(d, mailer[w].answer), !.token = 0, !.lapsed = FALSE]]
                /\ mailAttempt' = [mailAttempt EXCEPT ![d][c[2]] =
                        IF mailer[w].answer = "sent" THEN "sent" ELSE "failed"]
           ELSE UNCHANGED <<mail, mailAttempt>>
    /\ mailer' = [mailer EXCEPT ![w] = Rest(w)]
    /\ UNCHANGED <<channel, accepted, mailFaults, mailOrders>>

\* The process dies, or the database does not answer
MailerStops(w) ==
    /\ mailer[w] # NoRound
    /\ Fault
    /\ mailer' = [mailer EXCEPT ![w] = NoRound]
    /\ UNCHANGED <<channel, mail, mailAttempt, accepted, mailOrders>>

Held(d) == \E w \in Mailers : \E i \in DOMAIN mailer[w].claims :
                mailer[w].claims[i] = <<d, mail[d].token>>

MailLeaseLapses(d) ==
    /\ mail[d].status = "processing"
    /\ ~mail[d].lapsed
    /\ IF Held(d) THEN Fault ELSE UNCHANGED mailFaults
    /\ mail' = [mail EXCEPT ![d].lapsed = TRUE]
    /\ UNCHANGED <<channel, mailAttempt, accepted, mailer, mailOrders>>

-----------------------------------------------------------------------------
MailNext ==
    \/ \E d \in Mails :
        \/ CreateForNotification(d) \/ RetryMail(d) \/ CancelMail(d) \/ EraseMail(d)
        \/ MailLeaseLapses(d)
    \/ UpdateChannelConfig \/ RollbackChannelConfig
    \/ \E w \in Mailers :
        \/ \E d \in Mails : ClaimMail(w, d)
        \/ EndClaims(w) \/ Send(w) \/ SendThrows(w) \/ CompleteMail(w) \/ MailerStops(w)

MailSpec == MailInit /\ [][MailNext]_mailVars

\* The interval job claims again and again, a round goes on to its end, and a lease that
\* nobody holds runs out
MailFairness ==
    /\ \A d \in Mails :
        /\ WF_mailVars(\E w \in Mailers : ClaimMail(w, d))
        /\ WF_mailVars(MailLeaseLapses(d) /\ ~Held(d))
    /\ \A w \in Mailers :
        WF_mailVars(EndClaims(w) \/ Send(w) \/ SendThrows(w) \/ CompleteMail(w))

MailFairSpec == MailSpec /\ MailFairness

-----------------------------------------------------------------------------
(* Properties *)

\* An attempt is open exactly while its delivery is processing under its token, and it is
\* the newest: a takeover, a deletion and a late answer leave no second open attempt, nor
\* one that nobody can close.
OneOpenMailAttempt ==
    \A d \in Mails : \A n \in Tries :
        mailAttempt[d][n] = "processing" <=>
            mail[d].status = "processing" /\ mail[d].token = n /\ mail[d].count = n

\* A delivery that is recorded as sent has one attempt recorded as sent, the newest, and
\* the relay has accepted the mail of that very attempt.
SentWasAccepted ==
    \A d \in Mails : \A n \in Tries :
        mailAttempt[d][n] = "sent" <=>
            mail[d].status = "sent" /\ mail[d].count = n /\ <<d, n>> \in accepted

\* What the tables say of a mail is what happened to it.
MailRecordIsTrue == OneOpenMailAttempt /\ SentWasAccepted

\* Every delivery that is queued comes to an end, sent, dead-lettered, cancelled or gone with
\* its notification, or it is claimed again and again, to the bound of claims, which only
\* sends that throw can reach: no claim that a crash, a lapsed lease or the throw of another
\* delivery's send has dropped is left behind.
MailSettles ==
    \A d \in Mails : mail[d].status = "queued" ~>
        \/ mail[d].status \in MailFinal \cup {"dead_lettered"}
        \/ mail[d].count = MailClaims

\* docs/NOTIFICATION_DELIVERY_OPERATIONS.md: "Permanent failures and exhausted retries
\* enter `dead_lettered`". Without an administrator's order, no delivery is tried more
\* often than its maximum.
ExhaustedIsDead ==
    \A d \in Mails : mailOrders = 0 => mail[d].count <= mail[d].max
=============================================================================
