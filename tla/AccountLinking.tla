---------------------------- MODULE AccountLinking ----------------------------
(***************************************************************************)
(* How people sign in: passwords, identities at external providers, the    *)
(* authorization requests that link an identity to an account or log in    *)
(* with it, unlinking, the control of the provider and the deletion of an  *)
(* account (modules/auth/routes.js, repositories/prismaRepository.js,      *)
(* auth/prismaOAuthAdminRepository.js).                                    *)
(*                                                                         *)
(* Each repository call is one transaction and one step; a callback makes  *)
(* several of them and asks the provider in between.                       *)
(***************************************************************************)
EXTENDS Integers, FiniteSets

CONSTANTS
    Users,        \* accounts that exist or may be created
    Identities,   \* verified identities at the provider, each with its e-mail address
    Flows,        \* authorization requests
    MaxControls,  \* bound: changes of the provider's control
    Unset         \* no account, no identity

ASSUME LinkAssumption ==
    /\ IsFiniteSet(Identities)
    /\ Unset \notin Users \cup Identities
    /\ MaxControls \in Nat

VARIABLES
    user,      \* users.status, "none" before the account exists
    email,     \* the identity whose address is the account's, Unset for another address
    password,  \* the accounts with an auth_accounts row of provider email
    owner,     \* the account that each identity is linked to
    provider,  \* oauth_provider_controls
    flow       \* oauth_authorization_requests and the callback that consumes each

linkVars == <<user, email, password, owner, provider, flow>>

NewFlow == [pc |-> "new", link |-> Unset, version |-> 0, identity |-> Unset]

LinkTypeOK ==
    /\ user \in [Users -> {"none", "active", "suspended", "deleted"}]
    /\ email \in [Users -> Identities \cup {Unset}]
    /\ password \subseteq Users
    /\ owner \in [Identities -> Users \cup {Unset}]
    /\ provider \in [enabled: BOOLEAN, version: 0..MaxControls]
    /\ flow \in [Flows -> [pc: {"new", "started", "consumed", "exchanged", "done"},
                           link: Users \cup {Unset}, version: 0..MaxControls,
                           identity: Identities \cup {Unset}]]

LinkInit ==
    /\ user = [u \in Users |-> "none"]
    /\ email = [u \in Users |-> Unset]
    /\ password = {}
    /\ owner = [i \in Identities |-> Unset]
    /\ provider = [enabled |-> TRUE, version |-> 0]
    /\ flow = [f \in Flows |-> NewFlow]

\* users.email is unique
Free(i) == i = Unset \/ \A u \in Users : email[u] # i

Methods(u) == Cardinality({i \in Identities : owner[i] = u}) + IF u \in password THEN 1 ELSE 0

-----------------------------------------------------------------------------
(* Accounts *)

RegisterEmailAccount(u) ==
    /\ user[u] = "none"
    /\ \E i \in Identities \cup {Unset} :
        /\ Free(i)
        /\ email' = [email EXCEPT ![u] = i]
    /\ user' = [user EXCEPT ![u] = "active"]
    /\ password' = password \cup {u}
    /\ UNCHANGED <<owner, provider, flow>>

SuspendOrRestore(u) ==
    /\ user[u] \in {"active", "suspended"}
    /\ user' = [user EXCEPT ![u] = IF @ = "active" THEN "suspended" ELSE "active"]
    /\ UNCHANGED <<email, password, owner, provider, flow>>

\* The deletion of an account removes every way to sign in, its address, and the requests
\* that were to link it, unless a callback has consumed them
EraseIdentity(u) ==
    /\ user[u] \in {"active", "suspended"}
    /\ user' = [user EXCEPT ![u] = "deleted"]
    /\ email' = [email EXCEPT ![u] = Unset]
    /\ password' = password \ {u}
    /\ owner' = [i \in Identities |-> IF owner[i] = u THEN Unset ELSE owner[i]]
    /\ flow' = [f \in Flows |-> IF flow[f].pc = "started" /\ flow[f].link = u
                                THEN [flow[f] EXCEPT !.pc = "done"] ELSE flow[f]]
    /\ UNCHANGED provider

\* Faulty variant: the methods are not counted
UnlinkAny(i) ==
    /\ owner[i] # Unset
    /\ owner' = [owner EXCEPT ![i] = Unset]
    /\ UNCHANGED <<user, email, password, provider, flow>>

\* unlinkOAuthAccount by the user, unlinkAccount by an administrator
Unlink(i) ==
    /\ owner[i] # Unset
    /\ Methods(owner[i]) > 1
    /\ owner' = [owner EXCEPT ![i] = Unset]
    /\ UNCHANGED <<user, email, password, provider, flow>>

\* setProviderControl and setProviderConfiguration, which keeps what is enabled
ChangeControl(enabled) ==
    /\ provider.version < MaxControls
    /\ provider' = [enabled |-> enabled, version |-> provider.version + 1]
    /\ UNCHANGED <<user, email, password, owner, flow>>

-----------------------------------------------------------------------------
(* Authorization requests *)

\* The start of a flow by an anonymous visitor or by a user who wants to link. The control
\* is read first, and the request is stored with its version.
StartFlow(f) ==
    /\ flow[f].pc = "new"
    /\ provider.enabled
    /\ \E u \in {v \in Users : user[v] = "active"} \cup {Unset} :
        flow' = [flow EXCEPT ![f] =
            [@ EXCEPT !.pc = "started", !.link = u, !.version = provider.version]]
    /\ UNCHANGED <<user, email, password, owner, provider>>

\* An administrator revokes the request, or it expires
RevokeFlow(f) ==
    /\ flow[f].pc = "started"
    /\ flow' = [flow EXCEPT ![f].pc = "done"]
    /\ UNCHANGED <<user, email, password, owner, provider>>

\* The callback consumes the request, once
ConsumeFlow(f) ==
    /\ flow[f].pc = "started"
    /\ flow' = [flow EXCEPT ![f].pc = "consumed"]
    /\ UNCHANGED <<user, email, password, owner, provider>>

\* It checks the control and exchanges the code for the identity
Exchange(f) ==
    /\ flow[f].pc = "consumed"
    /\ \/ /\ provider = [enabled |-> TRUE, version |-> flow[f].version]
          /\ \E i \in Identities :
                flow' = [flow EXCEPT ![f] = [@ EXCEPT !.pc = "exchanged", !.identity = i]]
       \/ flow' = [flow EXCEPT ![f].pc = "done"]
    /\ UNCHANGED <<user, email, password, owner, provider>>

\* completeOAuthLogin for a request that links: the identity is free or theirs, and the
\* account is still active
LinksTo(i, u) == owner[i] \in {Unset, u} /\ user[u] = "active"

CompleteLink(f) ==
    LET i == flow[f].identity
        u == flow[f].link
    IN  /\ flow[f].pc = "exchanged"
        /\ u # Unset
        /\ owner' = IF LinksTo(i, u) THEN [owner EXCEPT ![i] = u] ELSE owner
        /\ flow' = [flow EXCEPT ![f].pc = "done"]
        /\ UNCHANGED <<user, email, password, provider>>

\* for one that logs in: the linked account, or the account with the address, which is
\* linked if it is active, or a new account
CompleteLogin(f) ==
    LET i == flow[f].identity
    IN  /\ flow[f].pc = "exchanged"
        /\ flow[f].link = Unset
        /\ flow' = [flow EXCEPT ![f].pc = "done"]
        /\ \/ /\ owner[i] # Unset
              /\ UNCHANGED <<user, email, owner>>
           \/ /\ owner[i] = Unset
              /\ \E u \in Users :
                    /\ email[u] = i
                    /\ owner' = IF user[u] = "active" THEN [owner EXCEPT ![i] = u] ELSE owner
              /\ UNCHANGED <<user, email>>
           \/ /\ owner[i] = Unset
              /\ Free(i)
              /\ \E u \in Users :
                    /\ user[u] = "none"
                    /\ user' = [user EXCEPT ![u] = "active"]
                    /\ email' = [email EXCEPT ![u] = i]
                    /\ owner' = [owner EXCEPT ![i] = u]
        /\ UNCHANGED <<password, provider>>

-----------------------------------------------------------------------------
LinkNext ==
    \/ \E u \in Users : RegisterEmailAccount(u) \/ SuspendOrRestore(u) \/ EraseIdentity(u)
    \/ \E i \in Identities : Unlink(i)
    \/ \E enabled \in BOOLEAN : ChangeControl(enabled)
    \/ \E f \in Flows :
        \/ StartFlow(f) \/ RevokeFlow(f) \/ ConsumeFlow(f) \/ Exchange(f)
        \/ CompleteLink(f) \/ CompleteLogin(f)

LinkSpec == LinkInit /\ [][LinkNext]_linkVars

-----------------------------------------------------------------------------
(* Properties *)

\* Every account that exists keeps a way to sign in, whatever is linked and unlinked at the
\* same time, and a deleted account has none, even when a callback to link it was under way.
SignInRemains ==
    \A u \in Users :
        /\ user[u] \in {"active", "suspended"} => Methods(u) > 0
        /\ user[u] \in {"none", "deleted"} => Methods(u) = 0
=============================================================================
