--------------------------- MODULE AccountSessions ---------------------------
(***************************************************************************)
(* The sessions of one account and the chains of refresh tokens under      *)
(* them: logins, rotation, the detection of a token's reuse, logouts,      *)
(* the dispositions of administrators, suspension, restoration and         *)
(* deletion of the account (repositories/prismaRepository.js,              *)
(* auth/prismaAuthSessionAdminRepository.js,                               *)
(* users/prismaUserAdminRepository.js).                                    *)
(*                                                                         *)
(* Every handler is a serializable transaction, repeated on a conflict,    *)
(* hence one step, except a login with a password: it checks the account,  *)
(* and later creates the session in a transaction of its own.  Clients     *)
(* keep every token they were given and may present any of them again.     *)
(***************************************************************************)
EXTENDS Integers, Sequences, SequencesExt

CONSTANTS
    Logins,      \* attempts to log in, each of which makes at most one session
    Admins,      \* administrators who look at sessions
    MaxTokens,   \* bound: tokens of one session
    MaxOrders    \* bound: orders of administrators

ASSUME SessionAssumption ==
    /\ MaxTokens \in Nat \ {0}
    /\ MaxOrders \in Nat

VARIABLES
    account,   \* users.status
    login,     \* where each attempt is
    session,   \* auth_sessions, one for each login
    token,     \* refresh_tokens of each session, oldest first
    seen,      \* the session and the version that each administrator has read
    reused,    \* history: sessions of which a replaced token was presented
    orders

sessionVars == <<account, login, session, token, seen, reused, orders>>

Session == [status: {"none", "active", "revoked"}, expired: BOOLEAN,
            risk: {"normal", "suspicious", "compromised"}, version: Nat]
NoSession == [status |-> "none", expired |-> FALSE, risk |-> "normal", version |-> 1]

\* A token is revoked when it is replaced by the next one, or with its session
Token == [revoked: BOOLEAN, replaced: BOOLEAN]
FreshToken == [revoked |-> FALSE, replaced |-> FALSE]

SessionTypeOK ==
    /\ account \in {"active", "suspended", "deleted"}
    /\ login \in [Logins -> {"new", "verified", "done"}]
    /\ session \in [Logins -> Session]
    /\ token \in [Logins -> Seq(Token)]
    /\ \A s \in Logins : Len(token[s]) <= MaxTokens
    /\ seen \in [Admins -> Logins \X Nat]
    /\ reused \subseteq Logins
    /\ orders \in 0..MaxOrders

SessionInit ==
    /\ account = "active"
    /\ login = [s \in Logins |-> "new"]
    /\ session = [s \in Logins |-> NoSession]
    /\ token = [s \in Logins |-> <<>>]
    /\ seen \in [Admins -> Logins \X {0}]
    /\ reused = {}
    /\ orders = 0

Ordered == orders < MaxOrders /\ orders' = orders + 1

Exists(s) == session[s].status # "none"
Active(s) == session[s].status = "active" /\ ~session[s].expired

\* Sets of sessions are revoked with their tokens
Revoked(S) == [s \in Logins |->
    IF s \in S THEN [session[s] EXCEPT !.status = "revoked", !.version = @ + 1] ELSE session[s]]
TokensRevoked(S) == [s \in Logins |->
    IF s \in S THEN [i \in DOMAIN token[s] |-> [token[s][i] EXCEPT !.revoked = TRUE]]
    ELSE token[s]]

\* A disposition as compromised, of a reuse or of an administrator, revokes the session
Dispositioned(h, risk) ==
    [h EXCEPT !.risk = risk, !.version = @ + 1,
              !.status = IF risk = "compromised" THEN "revoked" ELSE @]

-----------------------------------------------------------------------------
(* Logins *)

\* verifyPasswordCredentials, and what the route checks before it issues the session
Verify(s) ==
    /\ login[s] = "new"
    /\ account = "active"
    /\ login' = [login EXCEPT ![s] = "verified"]
    /\ UNCHANGED <<account, session, token, seen, reused, orders>>

\* createSessionForUser
Created(s) ==
    /\ session' = [session EXCEPT ![s].status = "active"]
    /\ token' = [token EXCEPT ![s] = <<FreshToken>>]
    /\ login' = [login EXCEPT ![s] = "done"]

\* issueSession finds the user by handle, whatever the status; a deleted one has lost it
IssueSession(s) ==
    /\ login[s] = "verified"
    /\ account # "deleted"
    /\ Created(s)
    /\ UNCHANGED <<account, seen, reused, orders>>

\* completeOAuthLogin checks the account and creates the session in one transaction
OAuthLogin(s) ==
    /\ login[s] = "new"
    /\ account = "active"
    /\ Created(s)
    /\ UNCHANGED <<account, seen, reused, orders>>

-----------------------------------------------------------------------------
(* Clients *)

\* Faulty variant: a token that was replaced is still good
RotatableReplaced(s, i) == Active(s)

\* What rotateSession demands of a token; whether it is known is the caller's part
Rotatable(s, i) ==
    /\ ~token[s][i].revoked
    /\ Active(s)

Rotate(s, i) ==
    /\ Rotatable(s, i)
    /\ session[s].risk # "compromised"
    /\ account = "active"
    /\ Len(token[s]) < MaxTokens
    /\ token' = [token EXCEPT ![s] =
            Append([@ EXCEPT ![i] = [revoked |-> TRUE, replaced |-> TRUE]], FreshToken)]
    /\ UNCHANGED <<account, login, session, seen, reused, orders>>

\* Faulty variant: reuse is noted only as long as the session is active
ReuseWhileActive(s, i) ==
    /\ ~Rotatable(s, i)
    /\ token[s][i].revoked /\ token[s][i].replaced
    /\ IF Active(s)
       THEN /\ session' = [session EXCEPT ![s].risk = "compromised",
                                          ![s].status = "revoked"]
            /\ token' = TokensRevoked({s})
       ELSE UNCHANGED <<session, token>>
    /\ reused' = reused \cup {s}
    /\ UNCHANGED <<account, login, seen, orders>>

\* A token that was replaced and is presented again compromises its session, which is
\* revoked unless it was
Reuse(s, i) ==
    /\ ~Rotatable(s, i)
    /\ token[s][i].revoked /\ token[s][i].replaced
    /\ session' = IF session[s].risk = "compromised" THEN session
                  ELSE [session EXCEPT ![s] = Dispositioned(session[s], "compromised")]
    /\ token' = TokensRevoked({s})
    /\ reused' = reused \cup {s}
    /\ UNCHANGED <<account, login, seen, orders>>

\* revokeSession by any token of it, as a logout does and a login that risk restricts,
\* and revokeSessionById
RevokeSession(s) ==
    /\ session[s].status = "active"
    /\ session' = Revoked({s})
    /\ token' = TokensRevoked({s})
    /\ UNCHANGED <<account, login, seen, reused, orders>>

\* revokeAllSessions, and revokeUserSessions by an administrator
RevokeAllSessions ==
    LET S == {s \in Logins : Active(s)}
    IN  /\ S # {}
        /\ session' = Revoked(S)
        /\ token' = TokensRevoked(S)
        /\ UNCHANGED <<account, login, seen, reused, orders>>

Expire(s) ==
    /\ Active(s)
    /\ session' = [session EXCEPT ![s].expired = TRUE]
    /\ UNCHANGED <<account, login, token, seen, reused, orders>>

-----------------------------------------------------------------------------
(* Administrators *)

ReadSession(a, s) ==
    /\ Exists(s)
    /\ seen' = [seen EXCEPT ![a] = <<s, session[s].version>>]
    /\ UNCHANGED <<account, login, session, token, reused, orders>>

\* The expected version is the one that the administrator has read
Expected(a, s) == seen[a] = <<s, session[s].version>>

Dispositionable(s) == session[s].risk # "compromised"

DispositionSession(a, s, risk) ==
    /\ Ordered
    /\ Exists(s) /\ Expected(a, s)
    /\ Dispositionable(s)
    /\ session' = [session EXCEPT ![s] = Dispositioned(session[s], risk)]
    /\ token' = IF risk = "compromised" THEN TokensRevoked({s}) ELSE token
    /\ UNCHANGED <<account, login, seen, reused>>

AdminRevokeSession(a, s) ==
    /\ Ordered
    /\ Expected(a, s)
    /\ Active(s)
    /\ session' = Revoked({s})
    /\ token' = TokensRevoked({s})
    /\ UNCHANGED <<account, login, seen, reused>>

\* suspend revokes the sessions that have not expired
Suspend ==
    /\ Ordered
    /\ account = "active"
    /\ account' = "suspended"
    /\ LET S == {s \in Logins : Active(s)}
       IN  /\ session' = Revoked(S)
           /\ token' = TokensRevoked(S)
    /\ UNCHANGED <<login, seen, reused>>

Restore ==
    /\ Ordered
    /\ account = "suspended"
    /\ account' = "active"
    /\ UNCHANGED <<login, session, token, seen, reused>>

\* The deletion of the account revokes every session and deletes the tokens
EraseUser ==
    /\ Ordered
    /\ account # "deleted"
    /\ account' = "deleted"
    /\ session' = Revoked({s \in Logins : session[s].status = "active"})
    /\ token' = [s \in Logins |-> <<>>]
    /\ UNCHANGED <<login, seen, reused>>

-----------------------------------------------------------------------------
SessionNext ==
    \/ \E s \in Logins :
        \/ Verify(s) \/ IssueSession(s) \/ OAuthLogin(s)
        \/ \E i \in DOMAIN token[s] : Rotate(s, i) \/ Reuse(s, i)
        \/ RevokeSession(s) \/ Expire(s)
        \/ \E a \in Admins :
            \/ ReadSession(a, s) \/ AdminRevokeSession(a, s)
            \/ \E risk \in {"normal", "suspicious", "compromised"} : DispositionSession(a, s, risk)
    \/ RevokeAllSessions \/ Suspend \/ Restore \/ EraseUser

SessionSpec == SessionInit /\ [][SessionNext]_sessionVars

-----------------------------------------------------------------------------
(* Properties *)

\* A session has at most one refresh token that is not revoked, the newest of its chain,
\* and none once the session is revoked: neither two clients that refresh at the same time
\* nor a revocation that comes between leave a second way in.
OneLiveToken ==
    \A s \in Logins : \A i \in DOMAIN token[s] :
        ~token[s][i].revoked => i = Len(token[s]) /\ session[s].status = "active"

\* Once a token that had been replaced was presented, its session is compromised and has no
\* token left, whatever state it was in and whoever has dispositioned it meanwhile.
ReuseEndsSession ==
    \A s \in reused :
        /\ session[s].risk = "compromised" /\ session[s].status = "revoked"
        /\ \A i \in DOMAIN token[s] : token[s][i].revoked
=============================================================================
