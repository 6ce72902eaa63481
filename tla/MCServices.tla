------------------------------ MODULE MCServices ------------------------------
(* Small instances of the components that share no state: webhooks, e-mail    *)
(* notifications and the search index, which work off tables of rows, and an  *)
(* account's points, its sessions, the ways to sign in to it and its end.  A  *)
(* behaviour is one of a single component, which part names from the          *)
(* beginning on.  E-mail is run twice: as "mail", one notification with       *)
(* faults and the orders of administrators, and as "mails", two notifications *)
(* without them, so that a send that throws drops the claim of another.       *)
EXTENDS WebhookDeliveries, NotificationDeliveries, SearchIndex,
        PointAccount, AccountSessions, AccountLinking, DataRights

CONSTANTS hold, release, adjust, m1

\* An escrow is taken and given back, and an administrator takes a point
MCAmount == [o \in {hold, release, adjust} |->
                IF o = hold THEN -2 ELSE IF o = release THEN 2 ELSE -1]

VARIABLE part

ServicesInit ==
    /\ part \in {"webhooks", "mail", "mails", "search", "points", "sessions", "links", "rights"}
    /\ Init /\ MailInit /\ SearchInit /\ PointInit /\ SessionInit /\ LinkInit
    /\ RightsInit
    \* a component that rests has nothing to do, so that fairness asks nothing of it
    /\ part \notin {"mail", "mails"} => channel[1].max = 1
    /\ part # "search" => source.revision = 0
    /\ part # "sessions" => \A a \in Admins : seen[a] = <<CHOOSE s \in Logins : TRUE, 0>>

Rests(p, v) == part # p /\ UNCHANGED v

ServicesNext ==
    /\ UNCHANGED part
    /\ \/ part = "webhooks" /\ Next
       \/ Rests("webhooks", vars)
    /\ \/ part = "mail" /\ MailNext /\ \A d \in Mails \ {m1} : mail'[d] = NoMail
       \/ part = "mails" /\ MailNext /\ mailFaults' = 0 /\ mailOrders' = 0
       \/ part # "mail" /\ Rests("mails", mailVars)
    /\ \/ part = "search" /\ SearchNext
       \/ Rests("search", searchVars)
    /\ \/ part = "points" /\ PointNext
       \/ Rests("points", pointVars)
    /\ \/ part = "sessions" /\ SessionNext
       \/ Rests("sessions", sessionVars)
    /\ \/ part = "links" /\ LinkNext
       \/ Rests("links", linkVars)
    /\ \/ part = "rights" /\ RightsNext
       \/ Rests("rights", rightsVars)

ServicesSpec ==
    /\ ServicesInit
    /\ [][ServicesNext]_<<part, vars, mailVars, searchVars, pointVars, sessionVars, linkVars,
                        rightsVars>>
    /\ MailFairness
    /\ SearchFairness

ServicesTypeOK ==
    TypeOK /\ MailTypeOK /\ SearchTypeOK /\ PointTypeOK /\ SessionTypeOK /\ LinkTypeOK
    /\ RightsTypeOK
=============================================================================
