---------------------------- MODULE ServicesProofs ----------------------------
(***************************************************************************)
(* What is proved of an account for every number of logins, tokens, users, *)
(* identities, requests and operations: its sessions, the ways to sign in  *)
(* to it, its end, and its points.  At the end, that every behaviour of    *)
(* the composition is one of each of its components, whose types hold      *)
(* throughout.                                                             *)
(***************************************************************************)
EXTENDS MCServices, QueueProofs, WellFoundedInduction

-----------------------------------------------------------------------------
(* Sessions *)

AllRevoked(t) == \A i \in DOMAIN t : t[i].revoked

\* What holds of every session: before its login is done it does not exist, a compromised
\* one is revoked, and so are its tokens, with those of a session that was reused
Good(s) ==
    /\ session[s] \in Session
    /\ token[s] \in Seq(Token)
    /\ Len(token[s]) <= MaxTokens
    /\ login[s] # "done" => session[s] = NoSession /\ token[s] = <<>>
    /\ session[s].risk = "compromised" => session[s].status = "revoked"
    /\ \A i \in DOMAIN token[s] :
            ~token[s][i].revoked => i = Len(token[s]) /\ session[s].status = "active"
    /\ s \in reused => session[s].risk = "compromised" /\ AllRevoked(token[s])

Frame ==
    /\ account \in {"active", "suspended", "deleted"}
    /\ login \in [Logins -> {"new", "verified", "done"}]
    /\ DOMAIN session = Logins /\ session = [s \in Logins |-> session[s]]
    /\ DOMAIN token = Logins /\ token = [s \in Logins |-> token[s]]
    /\ seen \in [Admins -> Logins \X Nat]
    /\ reused \subseteq Logins
    /\ orders \in 0..MaxOrders

SessionInv == Frame /\ \A s \in Logins : Good(s)

-----------------------------------------------------------------------------
(* Records and sequences *)

\* A revocation keeps the type of the record and its risk.
LEMMA RevokedRecord ==
    ASSUME NEW h \in Session
    PROVE  LET x == [h EXCEPT !.status = "revoked", !.version = @ + 1]
           IN  x \in Session /\ x.status = "revoked" /\ x.risk = h.risk
<1> DEFINE a1 == [h EXCEPT !.status = "revoked"]
           a2 == [a1 EXCEPT !.version = h.version + 1]
<1>1. a1 \in Session /\ a1.status = "revoked" /\ a1.risk = h.risk
    BY DEF Session
<1>2. a2 \in Session /\ a2.status = "revoked" /\ a2.risk = h.risk
    <2>1. h.version + 1 \in Nat
        BY DEF Session
    <2> HIDE DEF a1
    <2> QED BY <1>1, <2>1 DEF Session
<1>3. [h EXCEPT !.status = "revoked", !.version = @ + 1] = a2
    OBVIOUS
<1> HIDE DEF a2
<1> QED BY <1>2, <1>3

\* A disposition keeps the type of the record, sets its risk, and revokes it if that is
\* "compromised".
LEMMA DispositionedRecord ==
    ASSUME NEW h \in Session, NEW risk \in {"normal", "suspicious", "compromised"}
    PROVE  /\ Dispositioned(h, risk) \in Session
           /\ Dispositioned(h, risk).risk = risk
           /\ Dispositioned(h, risk).status = IF risk = "compromised" THEN "revoked" ELSE h.status
<1> DEFINE status == IF risk = "compromised" THEN "revoked" ELSE h.status
           a1 == [h EXCEPT !.risk = risk]
           a2 == [a1 EXCEPT !.version = h.version + 1]
           a3 == [a2 EXCEPT !.status = status]
<1>1. a1 \in Session /\ a1.risk = risk
    BY DEF Session
<1>2. a2 \in Session /\ a2.risk = risk
    <2>1. h.version + 1 \in Nat
        BY DEF Session
    <2> HIDE DEF a1
    <2> QED BY <1>1, <2>1 DEF Session
<1>3. a3 \in Session /\ a3.risk = risk /\ a3.status = status
    <2>1. status \in {"none", "active", "revoked"}
        BY DEF Session
    <2> HIDE DEF a2, status
    <2> QED BY <1>2, <2>1 DEF Session
<1>4. Dispositioned(h, risk) = a3
    BY DEF Dispositioned
<1> HIDE DEF a3
<1> QED BY <1>3, <1>4

\* The tokens of a session, all revoked.
LEMMA RevokedTokens ==
    ASSUME NEW t \in Seq(Token)
    PROVE  LET u == [i \in DOMAIN t |-> [t[i] EXCEPT !.revoked = TRUE]]
           IN  u \in Seq(Token) /\ Len(u) = Len(t) /\ AllRevoked(u)
<1> DEFINE u == [i \in DOMAIN t |-> [t[i] EXCEPT !.revoked = TRUE]]
<1>1. \A i \in 1..Len(t) : [t[i] EXCEPT !.revoked = TRUE] \in Token
    <2> SUFFICES ASSUME NEW i \in 1..Len(t) PROVE [t[i] EXCEPT !.revoked = TRUE] \in Token
        OBVIOUS
    <2>1. t[i] \in Token
        OBVIOUS
    <2> QED BY <2>1 DEF Token
<1>2. DOMAIN t = 1..Len(t) /\ Len(t) \in Nat
    OBVIOUS
<1>3. u \in Seq(Token) /\ Len(u) = Len(t)
    BY <1>1, <1>2
<1>4. \A i \in 1..Len(t) : [t[i] EXCEPT !.revoked = TRUE].revoked
    <2> SUFFICES ASSUME NEW i \in 1..Len(t) PROVE [t[i] EXCEPT !.revoked = TRUE].revoked
        OBVIOUS
    <2>1. t[i] \in Token
        OBVIOUS
    <2> QED BY <2>1 DEF Token
<1>5. AllRevoked(u)
    BY <1>2, <1>4 DEF AllRevoked
<1> QED BY <1>3, <1>5

\* A rotation replaces the token and appends a fresh one.
LEMMA RotatedTokens ==
    ASSUME NEW t \in Seq(Token), NEW i \in DOMAIN t
    PROVE  LET u == Append([t EXCEPT ![i] = [revoked |-> TRUE, replaced |-> TRUE]], FreshToken)
           IN  /\ u \in Seq(Token) /\ Len(u) = Len(t) + 1
               /\ u[i].revoked
               /\ \A k \in 1..Len(t) : k # i => u[k] = t[k]
<1> DEFINE v == [t EXCEPT ![i] = [revoked |-> TRUE, replaced |-> TRUE]]
<1>1. /\ v \in Seq(Token) /\ Len(v) = Len(t) /\ i \in 1..Len(t)
      /\ v[i] = [revoked |-> TRUE, replaced |-> TRUE]
      /\ \A k \in 1..Len(t) : k # i => v[k] = t[k]
    BY DEF Token
<1>2. FreshToken \in Token
    BY DEF FreshToken, Token
<1> HIDE DEF v
<1>3. /\ Append(v, FreshToken) \in Seq(Token) /\ Len(Append(v, FreshToken)) = Len(v) + 1
      /\ \A k \in 1..Len(v) : Append(v, FreshToken)[k] = v[k]
    BY <1>1, <1>2
<1> QED BY <1>1, <1>3 DEF v

\* A login that has a session or a token is done.
LEMMA DoneLogin ==
    ASSUME SessionInv, NEW s \in Logins,
           session[s].status # "none" \/ DOMAIN token[s] # {}
    PROVE  login[s] = "done"
BY DEF SessionInv, Good, NoSession

-----------------------------------------------------------------------------
(* How a step may change one session *)

\* A step that leaves a session alone.
LEMMA SameIsGood ==
    ASSUME NEW s \in Logins, Good(s), session'[s] = session[s], token'[s] = token[s],
           login'[s] = login[s] \/ (login[s] # "done" /\ login'[s] # "done"),
           s \in reused' => s \in reused
    PROVE  Good(s)'
BY DEF Good, AllRevoked

\* A step that ends a session: it is revoked, and its tokens are revoked or gone.
LEMMA EndedIsGood ==
    ASSUME NEW s \in Logins, Good(s), login[s] = "done", login'[s] = login[s],
           session'[s] \in Session, session'[s].status = "revoked",
           session[s].risk = "compromised" => session'[s].risk = "compromised",
           s \in reused' => s \in reused \/ session'[s].risk = "compromised",
           token'[s] = <<>> \/ token'[s] = [i \in DOMAIN token[s] |-> [token[s][i] EXCEPT !.revoked = TRUE]]
    PROVE  Good(s)'
<1>1. token'[s] \in Seq(Token) /\ Len(token'[s]) <= MaxTokens /\ AllRevoked(token'[s])
    <2>1. CASE token'[s] = <<>>
        BY <2>1, SessionAssumption DEF AllRevoked
    <2>2. CASE token'[s] = [i \in DOMAIN token[s] |-> [token[s][i] EXCEPT !.revoked = TRUE]]
        BY <2>2, RevokedTokens DEF Good
    <2> QED BY <2>1, <2>2
<1> QED BY <1>1 DEF Good, AllRevoked

\* A set of sessions, all of which exist, is revoked, and their tokens are revoked or gone.
LEMMA RevokedIsGood ==
    ASSUME SessionInv, NEW S \in SUBSET Logins,
           \A s \in S : session[s].status # "none",
           session' = Revoked(S), UNCHANGED <<login, reused>>,
           \/ token' = TokensRevoked(S)
           \/ token' = [s \in Logins |-> <<>>]
    PROVE  \A s \in Logins : Good(s)'
<1> SUFFICES ASSUME NEW s \in Logins PROVE Good(s)'
    OBVIOUS
<1>1. Good(s)
    BY DEF SessionInv
<1>2. CASE s \in S
    <2>1. session'[s] = [session[s] EXCEPT !.status = "revoked", !.version = @ + 1]
        BY <1>2 DEF Revoked
    <2>2. session'[s] \in Session /\ session'[s].status = "revoked"
          /\ session'[s].risk = session[s].risk
        <3>1. session[s] \in Session
            BY <1>1 DEF Good
        <3> QED BY <2>1, <3>1, RevokedRecord
    <2>3. token'[s] = <<>> \/ token'[s] = [i \in DOMAIN token[s] |-> [token[s][i] EXCEPT !.revoked = TRUE]]
        BY <1>2 DEF TokensRevoked
    <2>4. login[s] = "done"
        BY <1>2, DoneLogin
    <2> QED BY <1>1, <2>2, <2>3, <2>4, EndedIsGood
<1>3. CASE s \notin S
    <2>1. session'[s] = session[s]
        BY <1>3 DEF Revoked
    <2>2. CASE token'[s] = token[s]
        BY <1>1, <2>1, <2>2, SameIsGood
    <2>3. CASE token'[s] = <<>>
        BY <1>1, <2>1, <2>3, SessionAssumption DEF Good, AllRevoked
    <2> QED BY <1>3, <2>2, <2>3 DEF TokensRevoked
<1> QED BY <1>2, <1>3

\* One session changes and the others are left alone.
LEMMA OthersAreGood ==
    ASSUME SessionInv, NEW s \in Logins, Good(s)',
           \A r \in Logins : r # s =>
                /\ session'[r] = session[r] /\ token'[r] = token[r] /\ login'[r] = login[r]
                /\ r \in reused' => r \in reused
    PROVE  \A r \in Logins : Good(r)'
<1> SUFFICES ASSUME NEW r \in Logins, r # s PROVE Good(r)'
    OBVIOUS
<1>1. Good(r)
    BY DEF SessionInv
<1> QED BY <1>1, SameIsGood

-----------------------------------------------------------------------------
(* The steps *)

\* The creation of a session, by either kind of login.
LEMMA CreatedKeepsInv ==
    ASSUME SessionInv, NEW s \in Logins, login[s] # "done", Created(s),
           UNCHANGED <<account, seen, reused, orders>>
    PROVE  SessionInv'
<1>1. Good(s) /\ session[s] = NoSession /\ s \notin reused
    BY DEF SessionInv, Good, NoSession
<1>2. /\ session'[s] = [NoSession EXCEPT !.status = "active"]
      /\ token'[s] = <<FreshToken>> /\ login'[s] = "done"
      /\ \A r \in Logins : r # s =>
            session'[r] = session[r] /\ token'[r] = token[r] /\ login'[r] = login[r]
    BY <1>1 DEF SessionInv, Frame, Created
<1>3. session'[s] \in Session /\ session'[s].status = "active" /\ session'[s].risk = "normal"
    <2>1. NoSession \in Session /\ NoSession.risk = "normal"
        BY DEF NoSession, Session
    <2>2. [NoSession EXCEPT !.status = "active"] \in Session
          /\ [NoSession EXCEPT !.status = "active"].status = "active"
          /\ [NoSession EXCEPT !.status = "active"].risk = NoSession.risk
        BY <2>1 DEF Session
    <2> QED BY <1>2, <2>1, <2>2
<1>4. token'[s] \in Seq(Token) /\ Len(token'[s]) = 1 /\ DOMAIN token'[s] = {1}
    BY <1>2 DEF FreshToken, Token
<1>5. Good(s)'
    BY <1>1, <1>2, <1>3, <1>4, SessionAssumption DEF Good
<1>6. \A r \in Logins : Good(r)'
    BY <1>2, <1>5, OthersAreGood
<1>7. Frame'
    BY DEF SessionInv, Frame, Created
<1> QED BY <1>6, <1>7 DEF SessionInv

\* The steps of clients on a token: rotation and reuse.
LEMMA TokenKeepsInv ==
    ASSUME SessionInv, NEW s \in Logins, NEW i \in DOMAIN token[s], Rotate(s, i) \/ Reuse(s, i)
    PROVE  SessionInv'
<1>1. Good(s) /\ login[s] = "done" /\ token[s] \in Seq(Token)
    BY DoneLogin DEF SessionInv, Good
<1>2. CASE Rotate(s, i)
    <2> DEFINE u == Append([token[s] EXCEPT ![i] = [revoked |-> TRUE, replaced |-> TRUE]], FreshToken)
    <2>1. /\ token' = [token EXCEPT ![s] = u]
          /\ UNCHANGED <<account, login, session, seen, reused, orders>>
          /\ session[s].status = "active" /\ session[s].risk # "compromised"
          /\ ~token[s][i].revoked /\ Len(token[s]) < MaxTokens
        BY <1>2 DEF Rotate, Rotatable, Active
    <2>2. /\ u \in Seq(Token) /\ Len(u) = Len(token[s]) + 1 /\ u[i].revoked
          /\ \A k \in 1..Len(token[s]) : k # i => u[k] = token[s][k]
        BY <1>1, RotatedTokens
    <2> HIDE DEF u
    <2>3. token'[s] = u /\ \A r \in Logins : r # s => token'[r] = token[r]
        BY <2>1 DEF SessionInv, Frame
    <2>4. i = Len(token[s]) /\ \A k \in DOMAIN token[s] : k # i => token[s][k].revoked
        BY <1>1, <2>1 DEF Good
    <2>5. \A k \in DOMAIN u : ~u[k].revoked => k = Len(u)
        BY <1>1, <2>2, <2>4
    <2>6. Len(u) <= MaxTokens
        BY <1>1, <2>1, <2>2, SessionAssumption
    <2>7. Good(s)'
        BY <1>1, <2>1, <2>2, <2>3, <2>5, <2>6 DEF Good
    <2>8. \A r \in Logins : Good(r)'
        BY <2>1, <2>3, <2>7, OthersAreGood
    <2>9. Frame'
        BY <2>1 DEF SessionInv, Frame
    <2> QED BY <2>8, <2>9 DEF SessionInv
<1>3. CASE Reuse(s, i)
    <2> DEFINE x == IF session[s].risk = "compromised" THEN session[s]
                    ELSE Dispositioned(session[s], "compromised")
    <2>1. session' = [session EXCEPT ![s] = x] /\ token' = TokensRevoked({s})
          /\ reused' = reused \cup {s} /\ UNCHANGED <<account, login, seen, orders>>
        BY <1>3 DEF Reuse, SessionInv, Frame
    <2>2. x \in Session /\ x.risk = "compromised" /\ x.status = "revoked"
        BY <1>1, DispositionedRecord DEF Good
    <2> HIDE DEF x
    <2>3. session'[s] = x /\ token'[s] = [k \in DOMAIN token[s] |-> [token[s][k] EXCEPT !.revoked = TRUE]]
        BY <2>1 DEF SessionInv, Frame, TokensRevoked
    <2>4. \A r \in Logins : r # s => session'[r] = session[r] /\ token'[r] = token[r]
        BY <2>1 DEF SessionInv, Frame, TokensRevoked
    <2>5. Good(s)'
        BY <1>1, <2>1, <2>2, <2>3, EndedIsGood
    <2>6. \A r \in Logins : Good(r)'
        BY <2>1, <2>4, <2>5, OthersAreGood
    <2>7. Frame'
        BY <2>1 DEF SessionInv, Frame, TokensRevoked
    <2> QED BY <2>6, <2>7 DEF SessionInv
<1> QED BY <1>2, <1>3

\* The steps that revoke sessions, and those of the account that change none.
LEMMA RevocationKeepsInv ==
    ASSUME SessionInv,
           \/ \E s \in Logins : RevokeSession(s) \/ \E a \in Admins : AdminRevokeSession(a, s)
           \/ RevokeAllSessions \/ Suspend \/ Restore \/ EraseUser
    PROVE  SessionInv'
<1> DEFINE ActiveOnes == {s \in Logins : Active(s)}
           LiveOnes == {s \in Logins : session[s].status = "active"}
<1>0. orders + 1 \in Nat /\ MaxOrders \in Nat
    BY SessionAssumption DEF SessionInv, Frame
<1>1. ASSUME NEW S \in SUBSET Logins, \A s \in S : session[s].status # "none",
             session' = Revoked(S), UNCHANGED <<login, reused, seen>>,
             token' = TokensRevoked(S) \/ token' = [s \in Logins |-> <<>>],
             account' \in {"active", "suspended", "deleted"}, orders' \in 0..MaxOrders
      PROVE  SessionInv'
    <2>1. \A s \in Logins : Good(s)'
        BY <1>1, RevokedIsGood
    <2>2. Frame'
        BY <1>1 DEF SessionInv, Frame, Revoked, TokensRevoked
    <2> QED BY <2>1, <2>2 DEF SessionInv
<1>2. ASSUME NEW s \in Logins, RevokeSession(s) PROVE SessionInv'
    <2>1. {s} \in SUBSET Logins /\ \A r \in {s} : session[r].status # "none"
        BY <1>2 DEF RevokeSession
    <2> QED BY <1>1, <1>2, <2>1 DEF RevokeSession, SessionInv, Frame
<1>3. ASSUME NEW s \in Logins, NEW a \in Admins, AdminRevokeSession(a, s) PROVE SessionInv'
    <2>1. {s} \in SUBSET Logins /\ \A r \in {s} : session[r].status # "none"
        BY <1>3 DEF AdminRevokeSession, Active
    <2>2. orders' \in 0..MaxOrders
        BY <1>0, <1>3 DEF AdminRevokeSession, Ordered, SessionInv, Frame
    <2> QED BY <1>1, <1>3, <2>1, <2>2 DEF AdminRevokeSession, SessionInv, Frame
<1>4. /\ ActiveOnes \in SUBSET Logins /\ \A s \in ActiveOnes : session[s].status # "none"
      /\ LiveOnes \in SUBSET Logins /\ \A s \in LiveOnes : session[s].status # "none"
    BY DEF Active
<1>5. CASE RevokeAllSessions
    BY <1>1, <1>4, <1>5 DEF RevokeAllSessions, SessionInv, Frame
<1>6. CASE Suspend
    <2>1. orders' \in 0..MaxOrders
        BY <1>0, <1>6 DEF Suspend, Ordered, SessionInv, Frame
    <2> QED BY <1>1, <1>4, <1>6, <2>1 DEF Suspend
<1>7. CASE EraseUser
    <2>1. orders' \in 0..MaxOrders
        BY <1>0, <1>7 DEF EraseUser, Ordered, SessionInv, Frame
    <2> QED BY <1>1, <1>4, <1>7, <2>1 DEF EraseUser
<1>8. CASE Restore
    <2>1. UNCHANGED <<login, session, token, seen, reused>> /\ account' = "active"
          /\ orders' \in 0..MaxOrders
        BY <1>0, <1>8 DEF Restore, Ordered, SessionInv, Frame
    <2>2. \A s \in Logins : Good(s)'
        BY <2>1, SameIsGood DEF SessionInv
    <2> QED BY <2>1, <2>2 DEF SessionInv, Frame
<1> QED BY <1>2, <1>3, <1>5, <1>6, <1>7, <1>8

\* An administrator's disposition of a session.
LEMMA DispositionKeepsInv ==
    ASSUME SessionInv, NEW s \in Logins, NEW a \in Admins,
           NEW risk \in {"normal", "suspicious", "compromised"}, DispositionSession(a, s, risk)
    PROVE  SessionInv'
<1> DEFINE x == Dispositioned(session[s], risk)
           status == IF risk = "compromised" THEN "revoked" ELSE session[s].status
<1>0. Good(s) /\ login[s] = "done" /\ session[s] \in Session /\ session[s].risk # "compromised"
      /\ s \notin reused
    BY DoneLogin DEF SessionInv, Good, DispositionSession, Exists, Dispositionable
<1>1. /\ session' = [session EXCEPT ![s] = x]
      /\ token' = IF risk = "compromised" THEN TokensRevoked({s}) ELSE token
      /\ UNCHANGED <<account, login, seen, reused>>
    BY DEF DispositionSession
<1>2. orders' \in 0..MaxOrders
    BY SessionAssumption DEF SessionInv, Frame, DispositionSession, Ordered
<1>4. status \in {"none", "active", "revoked"} /\ (risk = "compromised" => status = "revoked")
      /\ (risk # "compromised" => status = session[s].status)
    BY <1>0 DEF Session
<1>5. x \in Session /\ x.risk = risk /\ x.status = status
    BY <1>0, DispositionedRecord
<1> HIDE DEF status, x
<1>6. session'[s] = x /\ \A r \in Logins : r # s => session'[r] = session[r] /\ token'[r] = token[r]
    BY <1>1 DEF SessionInv, Frame, TokensRevoked
<1>7. Good(s)'
    <2>1. CASE risk = "compromised"
        <3>1. token'[s] = [i \in DOMAIN token[s] |-> [token[s][i] EXCEPT !.revoked = TRUE]]
            BY <1>1, <2>1 DEF TokensRevoked
        <3> QED BY <1>0, <1>1, <1>4, <1>5, <1>6, <2>1, <3>1, EndedIsGood
    <2>2. CASE risk # "compromised"
        BY <1>0, <1>1, <1>4, <1>5, <1>6, <2>2 DEF Good
    <2> QED BY <2>1, <2>2
<1>8. \A r \in Logins : Good(r)'
    BY <1>1, <1>6, <1>7, OthersAreGood
<1>9. Frame'
    BY <1>1, <1>2 DEF SessionInv, Frame, TokensRevoked
<1> QED BY <1>8, <1>9 DEF SessionInv

\* What remains: a login's check, the expiry of a session and an administrator's reading.
LEMMA OtherStepsKeepInv ==
    ASSUME SessionInv, NEW s \in Logins,
           Verify(s) \/ Expire(s) \/ \E a \in Admins : ReadSession(a, s)
    PROVE  SessionInv'
<1>0. Good(s) /\ session[s] \in Session
    BY DEF SessionInv, Good
<1>1. CASE Verify(s)
    <2>1. \A r \in Logins : Good(r)'
        <3> SUFFICES ASSUME NEW r \in Logins PROVE Good(r)'
            OBVIOUS
        <3>1. Good(r)
            BY DEF SessionInv
        <3>2. login'[r] = login[r] \/ (login[r] # "done" /\ login'[r] # "done")
            BY <1>1 DEF Verify, SessionInv, Frame
        <3> QED BY <1>1, <3>1, <3>2, SameIsGood DEF Verify
    <2> QED BY <1>1, <2>1 DEF Verify, SessionInv, Frame
<1>2. CASE Expire(s)
    <2>1. /\ session' = [session EXCEPT ![s] = [session[s] EXCEPT !.expired = TRUE]]
          /\ UNCHANGED <<account, login, token, seen, reused, orders>>
        BY <1>2 DEF Expire
    <2>2. session'[s] = [session[s] EXCEPT !.expired = TRUE]
          /\ \A r \in Logins : r # s => session'[r] = session[r]
        BY <2>1 DEF SessionInv, Frame
    <2>3. session'[s] \in Session /\ session'[s].status = session[s].status
          /\ session'[s].risk = session[s].risk
        BY <1>0, <2>2 DEF Session
    <2>4. login[s] = "done"
        BY <1>2, DoneLogin DEF Expire, Active
    <2>5. Good(s)'
        BY <1>0, <2>1, <2>3, <2>4 DEF Good
    <2>6. \A r \in Logins : Good(r)'
        BY <2>1, <2>2, <2>5, OthersAreGood
    <2> QED BY <2>1, <2>6 DEF SessionInv, Frame
<1>3. ASSUME NEW a \in Admins, ReadSession(a, s) PROVE SessionInv'
    <2>1. \A r \in Logins : Good(r)'
        BY <1>3, SameIsGood DEF SessionInv, ReadSession
    <2>2. <<s, session[s].version>> \in Logins \X Nat
        BY <1>0 DEF Session
    <2> QED BY <1>3, <2>1, <2>2 DEF SessionInv, Frame, ReadSession
<1> QED BY <1>1, <1>2, <1>3

-----------------------------------------------------------------------------
\* The invariant holds of every state that is reached.
LEMMA SessionInvariant == SessionSpec => []SessionInv
<1>1. SessionInit => SessionInv
    <2> SUFFICES ASSUME SessionInit PROVE SessionInv
        OBVIOUS
    <2>1. NoSession \in Session /\ NoSession.risk = "normal"
        BY DEF NoSession, Session
    <2>2. \A s \in Logins : session[s] = NoSession /\ token[s] = <<>> /\ s \notin reused
        BY DEF SessionInit
    <2>3. <<>> \in Seq(Token) /\ Len(<<>>) <= MaxTokens /\ DOMAIN <<>> = {}
        BY SessionAssumption
    <2>4. \A s \in Logins : Good(s)
        BY <2>1, <2>2, <2>3 DEF Good
    <2>5. Frame
        BY SessionAssumption DEF SessionInit, Frame
    <2> QED BY <2>4, <2>5 DEF SessionInv
<1>2. SessionInv /\ [SessionNext]_sessionVars => SessionInv'
    <2> SUFFICES ASSUME SessionInv, [SessionNext]_sessionVars PROVE SessionInv'
        OBVIOUS
    <2>1. ASSUME NEW s \in Logins, IssueSession(s) \/ OAuthLogin(s) PROVE SessionInv'
        BY <2>1, CreatedKeepsInv DEF IssueSession, OAuthLogin
    <2>2. ASSUME NEW s \in Logins, Verify(s) \/ Expire(s) \/ \E a \in Admins : ReadSession(a, s)
          PROVE SessionInv'
        BY <2>2, OtherStepsKeepInv
    <2>3. ASSUME NEW s \in Logins, NEW i \in DOMAIN token[s], Rotate(s, i) \/ Reuse(s, i)
          PROVE SessionInv'
        BY <2>3, TokenKeepsInv
    <2>4. ASSUME NEW s \in Logins, NEW a \in Admins,
                 NEW risk \in {"normal", "suspicious", "compromised"}, DispositionSession(a, s, risk)
          PROVE SessionInv'
        BY <2>4, DispositionKeepsInv
    <2>5. CASE \/ \E s \in Logins : RevokeSession(s) \/ \E a \in Admins : AdminRevokeSession(a, s)
               \/ RevokeAllSessions \/ Suspend \/ Restore \/ EraseUser
        BY <2>5, RevocationKeepsInv
    <2>6. CASE UNCHANGED sessionVars
        <3>1. \A s \in Logins : Good(s)'
            BY <2>6, SameIsGood DEF sessionVars, SessionInv
        <3> QED BY <2>6, <3>1 DEF sessionVars, SessionInv, Frame
    <2> QED BY <2>1, <2>2, <2>3, <2>4, <2>5, <2>6 DEF SessionNext
<1> QED BY <1>1, <1>2, PTL DEF SessionSpec

\* The variables have their types, whatever clients and administrators do.
THEOREM SessionTypeCorrect == SessionSpec => []SessionTypeOK
<1>1. SessionInv => SessionTypeOK
    <2> SUFFICES ASSUME SessionInv PROVE SessionTypeOK
        OBVIOUS
    <2>1. session \in [Logins -> Session] /\ token \in [Logins -> Seq(Token)]
        BY DEF SessionInv, Frame, Good
    <2>2. \A s \in Logins : Len(token[s]) <= MaxTokens
        BY DEF SessionInv, Good
    <2> QED BY <2>1, <2>2 DEF SessionInv, Frame, SessionTypeOK
<1> QED BY <1>1, SessionInvariant, PTL

\* Of the tokens of a session at most the newest is live, and none of a revoked one, for any
\* number of sessions, rotations and administrators.
THEOREM SessionOneLiveToken == SessionSpec => []OneLiveToken
<1>1. SessionInv => OneLiveToken
    BY DEF SessionInv, Good, OneLiveToken
<1> QED BY <1>1, SessionInvariant, PTL

\* The presentation of a replaced token ends its session for good, whatever administrators
\* and the account's own status do meanwhile.
THEOREM SessionReuseEnds == SessionSpec => []ReuseEndsSession
<1>1. SessionInv => ReuseEndsSession
    BY DEF SessionInv, Frame, Good, AllRevoked, ReuseEndsSession
<1> QED BY <1>1, SessionInvariant, PTL

-----------------------------------------------------------------------------
(* The ways to sign in *)

\* Methods counts what these two say.
HasMethod(u) == u \in password \/ \E i \in Identities : owner[i] = u

MethodsFollow ==
    \A u \in Users :
        /\ user[u] \in {"active", "suspended"} => HasMethod(u)
        /\ user[u] \in {"none", "deleted"} => ~HasMethod(u)

\* A callback that has exchanged its code knows the identity.
ExchangedKnows == \A f \in Flows : flow[f].pc = "exchanged" => flow[f].identity \in Identities

LinkInv == LinkTypeOK /\ MethodsFollow /\ ExchangedKnows

FlowRow == [pc: {"new", "started", "consumed", "exchanged", "done"},
            link: Users \cup {Unset}, version: 0..MaxControls,
            identity: Identities \cup {Unset}]

\* How many methods there are, as far as anything depends on it.
LEMMA MethodsCount ==
    ASSUME NEW u
    PROVE  /\ Methods(u) > 0 <=> HasMethod(u)
           /\ Methods(u) = 0 <=> ~HasMethod(u)
           /\ Methods(u) > 1 => \A i \in Identities : owner[i] = u =>
                u \in password \/ \E j \in Identities \ {i} : owner[j] = u
<1> DEFINE S == {i \in Identities : owner[i] = u}
           n == Cardinality(S)
<1>1. IsFiniteSet(S)
    BY LinkAssumption, FS_Subset
<1>2. n \in Nat /\ (n = 0 <=> S = {}) /\ (n = 1 <=> \E x : S = {x})
    BY <1>1, FS_CardinalityType, FS_EmptySet, FS_Singleton
<1>3. Methods(u) = n + IF u \in password THEN 1 ELSE 0
    BY DEF Methods
<1>4. S = {} <=> ~ \E i \in Identities : owner[i] = u
    OBVIOUS
<1>5. ASSUME NEW i \in Identities, owner[i] = u, u \notin password, Methods(u) > 1
      PROVE  \E j \in Identities \ {i} : owner[j] = u
    <2>1. n # 1
        BY <1>2, <1>3, <1>5
    <2>2. i \in S /\ S # {i}
        BY <1>2, <1>5, <2>1
    <2> QED BY <2>2
<1> HIDE DEF n, S
<1> QED BY <1>2, <1>3, <1>4, <1>5 DEF HasMethod

LEMMA LinkTypeParts ==
    LinkTypeOK <=>
        /\ user \in [Users -> {"none", "active", "suspended", "deleted"}]
        /\ email \in [Users -> Identities \cup {Unset}]
        /\ password \subseteq Users
        /\ owner \in [Identities -> Users \cup {Unset}]
        /\ provider \in [enabled: BOOLEAN, version: 0..MaxControls]
        /\ flow \in [Flows -> FlowRow]
BY DEF LinkTypeOK, FlowRow

\* A request moves on.
LEMMA FlowMoves ==
    ASSUME flow \in [Flows -> FlowRow], ExchangedKnows, NEW f \in Flows, NEW row \in FlowRow,
           row.pc = "exchanged" => row.identity \in Identities,
           flow' = [flow EXCEPT ![f] = row]
    PROVE  flow' \in [Flows -> FlowRow] /\ ExchangedKnows'
BY DEF ExchangedKnows

LEMMA FlowEnds ==
    ASSUME flow \in [Flows -> FlowRow], ExchangedKnows, NEW f \in Flows,
           NEW pc \in {"consumed", "done"}, flow' = [flow EXCEPT ![f].pc = pc]
    PROVE  flow' \in [Flows -> FlowRow] /\ ExchangedKnows'
<1> DEFINE row == [flow[f] EXCEPT !.pc = pc]
<1>1. row \in FlowRow /\ row.pc = pc
    BY ONLY flow[f] \in FlowRow, pc \in {"consumed", "done"} DEF FlowRow
<1>2. flow' = [flow EXCEPT ![f] = row]
    OBVIOUS
<1> HIDE DEF row
<1> QED BY <1>1, <1>2, FlowMoves

\* The steps of accounts and of the provider's control
LEMMA AccountLinkStep ==
    ASSUME LinkInv,
           \/ \E u \in Users : RegisterEmailAccount(u) \/ SuspendOrRestore(u) \/ EraseIdentity(u)
           \/ \E i \in Identities : Unlink(i)
           \/ \E enabled \in BOOLEAN : ChangeControl(enabled)
    PROVE  LinkInv'
<1> USE LinkAssumption DEF LinkInv
<1>0. /\ user \in [Users -> {"none", "active", "suspended", "deleted"}]
      /\ email \in [Users -> Identities \cup {Unset}]
      /\ password \subseteq Users
      /\ owner \in [Identities -> Users \cup {Unset}]
      /\ provider \in [enabled: BOOLEAN, version: 0..MaxControls]
      /\ flow \in [Flows -> FlowRow]
    BY LinkTypeParts
<1>1. ASSUME NEW u \in Users, RegisterEmailAccount(u) PROVE LinkInv'
    <2>1. LinkTypeOK'
        BY <1>0, <1>1 DEF RegisterEmailAccount, LinkTypeOK, FlowRow
    <2>2. ExchangedKnows'
        BY <1>1 DEF RegisterEmailAccount, ExchangedKnows
    <2>3. MethodsFollow'
        BY <1>0, <1>1 DEF RegisterEmailAccount, MethodsFollow, HasMethod
    <2> QED BY <2>1, <2>2, <2>3
<1>2. ASSUME NEW u \in Users, SuspendOrRestore(u) PROVE LinkInv'
    <2>1. LinkTypeOK'
        BY <1>0, <1>2 DEF SuspendOrRestore, LinkTypeOK, FlowRow
    <2>2. ExchangedKnows'
        BY <1>2 DEF SuspendOrRestore, ExchangedKnows
    <2>3. MethodsFollow'
        BY <1>0, <1>2 DEF SuspendOrRestore, MethodsFollow, HasMethod
    <2> QED BY <2>1, <2>2, <2>3
<1>3. ASSUME NEW u \in Users, EraseIdentity(u) PROVE LinkInv'
    <2>1. \A f \in Flows : [flow[f] EXCEPT !.pc = "done"] \in FlowRow
                           /\ [flow[f] EXCEPT !.pc = "done"].pc = "done"
        BY <1>0 DEF FlowRow
    <2>2. flow' \in [Flows -> FlowRow]
        BY <1>0, <1>3, <2>1 DEF EraseIdentity
    <2>3. ExchangedKnows'
        BY <1>3, <2>1 DEF EraseIdentity, ExchangedKnows
    <2>4. MethodsFollow'
        BY <1>0, <1>3 DEF EraseIdentity, MethodsFollow, HasMethod
    <2>5. LinkTypeOK'
        BY <1>0, <1>3, <2>2 DEF EraseIdentity, LinkTypeOK, FlowRow
    <2> QED BY <2>3, <2>4, <2>5
<1>4. ASSUME NEW i \in Identities, Unlink(i) PROVE LinkInv'
    <2>1. LinkTypeOK'
        BY <1>0, <1>4 DEF Unlink, LinkTypeOK, FlowRow
    <2>2. ExchangedKnows'
        BY <1>4 DEF Unlink, ExchangedKnows
    <2> PICK u \in Users : u = owner[i]
        BY <1>0, <1>4 DEF Unlink
    <2>3. HasMethod(u)'
        <3>1. u \in password \/ \E j \in Identities \ {i} : owner[j] = u
            BY <1>4, MethodsCount DEF Unlink
        <3>2. password' = password /\ \A j \in Identities \ {i} : owner'[j] = owner[j]
            BY <1>0, <1>4 DEF Unlink
        <3> QED BY <3>1, <3>2 DEF HasMethod
    <2>4. \A x \in Users \ {u} : HasMethod(x)' <=> HasMethod(x)
        BY <1>0, <1>4 DEF Unlink, HasMethod
    <2>5. HasMethod(u)
        BY DEF HasMethod
    <2>6. MethodsFollow'
        BY <1>4, <2>3, <2>4, <2>5 DEF Unlink, MethodsFollow
    <2> QED BY <2>1, <2>2, <2>6
<1>5. ASSUME NEW enabled \in BOOLEAN, ChangeControl(enabled) PROVE LinkInv'
    <2>1. LinkTypeOK'
        BY <1>0, <1>5 DEF ChangeControl, LinkTypeOK, FlowRow
    <2> QED BY <1>5, <2>1 DEF ChangeControl, ExchangedKnows, MethodsFollow, HasMethod
<1> QED BY <1>1, <1>2, <1>3, <1>4, <1>5

\* The steps of authorization requests
LEMMA FlowLinkStep ==
    ASSUME LinkInv, NEW f \in Flows,
           \/ StartFlow(f) \/ RevokeFlow(f) \/ ConsumeFlow(f) \/ Exchange(f)
           \/ CompleteLink(f) \/ CompleteLogin(f)
    PROVE  LinkInv'
<1> USE LinkAssumption DEF LinkInv
<1>0. /\ user \in [Users -> {"none", "active", "suspended", "deleted"}]
      /\ email \in [Users -> Identities \cup {Unset}]
      /\ password \subseteq Users
      /\ owner \in [Identities -> Users \cup {Unset}]
      /\ provider \in [enabled: BOOLEAN, version: 0..MaxControls]
      /\ flow \in [Flows -> FlowRow] /\ flow[f] \in FlowRow
    BY LinkTypeParts
<1>1. flow' \in [Flows -> FlowRow] /\ ExchangedKnows'
    <2>1. CASE StartFlow(f)
        <3>1. PICK u \in Users \cup {Unset} : flow' = [flow EXCEPT ![f] =
                [@ EXCEPT !.pc = "started", !.link = u, !.version = provider.version]]
            BY <2>1 DEF StartFlow
        <3>2. provider.version \in 0..MaxControls
            BY <1>0
        <3> DEFINE r1 == [flow[f] EXCEPT !.pc = "started"]
                   r2 == [r1 EXCEPT !.link = u]
                   r3 == [r2 EXCEPT !.version = provider.version]
        <3>3. flow' = [flow EXCEPT ![f] = r3]
            BY <3>1
        <3>4. r1 \in FlowRow /\ r1.pc = "started"
            BY <1>0 DEF FlowRow
        <3> HIDE DEF r1
        <3>5. r2 \in FlowRow /\ r2.pc = "started"
            BY <3>4 DEF FlowRow
        <3> HIDE DEF r2
        <3>6. r3 \in FlowRow /\ r3.pc = "started"
            BY <3>2, <3>5 DEF FlowRow
        <3> HIDE DEF r3
        <3> QED BY <1>0, <3>3, <3>6, FlowMoves
    <2>2. CASE RevokeFlow(f) \/ ConsumeFlow(f)
        BY <1>0, <2>2, FlowEnds DEF RevokeFlow, ConsumeFlow
    <2>3. CASE Exchange(f)
        <3>1. CASE flow' = [flow EXCEPT ![f].pc = "done"]
            BY <1>0, <3>1, FlowEnds
        <3>2. ASSUME NEW i \in Identities,
                     flow' = [flow EXCEPT ![f] = [@ EXCEPT !.pc = "exchanged", !.identity = i]]
              PROVE  flow' \in [Flows -> FlowRow] /\ ExchangedKnows'
            <4> DEFINE r1 == [flow[f] EXCEPT !.pc = "exchanged"]
                       r2 == [r1 EXCEPT !.identity = i]
            <4>1. flow' = [flow EXCEPT ![f] = r2]
                BY <3>2
            <4>2. r1 \in FlowRow
                BY <1>0 DEF FlowRow
            <4> HIDE DEF r1
            <4>3. r2 \in FlowRow /\ r2.identity = i
                BY <4>2 DEF FlowRow
            <4> HIDE DEF r2
            <4> QED BY <1>0, <4>1, <4>3, FlowMoves
        <3> QED BY <2>3, <3>1, <3>2 DEF Exchange
    <2>4. CASE CompleteLink(f) \/ CompleteLogin(f)
        BY <1>0, <2>4, FlowEnds DEF CompleteLink, CompleteLogin
    <2> QED BY <2>1, <2>2, <2>3, <2>4
<1>2. CASE StartFlow(f) \/ RevokeFlow(f) \/ ConsumeFlow(f) \/ Exchange(f)
    <2>1. UNCHANGED <<user, email, password, owner, provider>>
        BY <1>2 DEF StartFlow, RevokeFlow, ConsumeFlow, Exchange
    <2>2. MethodsFollow'
        BY <2>1 DEF MethodsFollow, HasMethod
    <2> QED BY <1>0, <1>1, <2>1, <2>2 DEF LinkTypeOK, FlowRow
<1>3. CASE CompleteLink(f)
    <2> PICK i \in Identities, u \in Users : i = flow[f].identity /\ u = flow[f].link
        BY <1>0, <1>3 DEF CompleteLink, ExchangedKnows, FlowRow
    <2>1. UNCHANGED <<user, email, password, provider>>
        BY <1>3 DEF CompleteLink
    <2>2. \/ owner' = owner
          \/ owner' = [owner EXCEPT ![i] = u] /\ LinksTo(i, u)
        BY <1>3 DEF CompleteLink, LinksTo
    <2>3. owner' \in [Identities -> Users \cup {Unset}]
        BY <1>0, <2>1, <2>2
    <2>4. ASSUME owner' = owner PROVE MethodsFollow'
        BY <2>1, <2>4 DEF MethodsFollow, HasMethod
    <2>5. ASSUME owner' = [owner EXCEPT ![i] = u], LinksTo(i, u) PROVE MethodsFollow'
        <3>1. \A x \in Users \ {u} : HasMethod(x)' <=> HasMethod(x)
            BY <1>0, <2>1, <2>5 DEF LinksTo, HasMethod
        <3>2. HasMethod(u)' /\ user[u] = "active"
            BY <1>0, <2>1, <2>5 DEF LinksTo, HasMethod
        <3> QED BY <2>1, <3>1, <3>2 DEF MethodsFollow
    <2>6. MethodsFollow'
        BY <2>2, <2>4, <2>5
    <2> QED BY <1>0, <1>1, <2>1, <2>3, <2>6 DEF LinkTypeOK, FlowRow
<1>4. CASE CompleteLogin(f)
    <2> PICK i \in Identities : i = flow[f].identity
        BY <1>0, <1>4 DEF CompleteLogin, ExchangedKnows, FlowRow
    <2>1. UNCHANGED <<password, provider>>
        BY <1>4 DEF CompleteLogin
    <2>2. \/ UNCHANGED <<user, email, owner>>
          \/ /\ owner[i] = Unset
             /\ \E u \in Users : user[u] = "active" /\ owner' = [owner EXCEPT ![i] = u]
             /\ UNCHANGED <<user, email>>
          \/ /\ owner[i] = Unset
             /\ \E u \in Users :
                    /\ user[u] = "none"
                    /\ user' = [user EXCEPT ![u] = "active"]
                    /\ email' = [email EXCEPT ![u] = i]
                    /\ owner' = [owner EXCEPT ![i] = u]
        BY <1>4 DEF CompleteLogin
    <2>3. CASE UNCHANGED <<user, email, owner>>
        <3>1. MethodsFollow'
            BY <2>1, <2>3 DEF MethodsFollow, HasMethod
        <3> QED BY <1>0, <1>1, <2>1, <2>3, <3>1 DEF LinkTypeOK, FlowRow
    <2>4. ASSUME NEW u \in Users, owner[i] = Unset, owner' = [owner EXCEPT ![i] = u],
                 \/ user[u] = "active" /\ UNCHANGED <<user, email>>
                 \/ user' = [user EXCEPT ![u] = "active"] /\ email' = [email EXCEPT ![u] = i]
          PROVE  LinkInv'
        <3>1. \A x \in Users \ {u} : HasMethod(x)' <=> HasMethod(x)
            BY <1>0, <2>1, <2>4 DEF HasMethod
        <3>2. HasMethod(u)' /\ user'[u] = "active" /\ \A x \in Users \ {u} : user'[x] = user[x]
            BY <1>0, <2>1, <2>4 DEF HasMethod
        <3>3. MethodsFollow'
            BY <3>1, <3>2 DEF MethodsFollow
        <3>4. /\ owner' \in [Identities -> Users \cup {Unset}]
              /\ user' \in [Users -> {"none", "active", "suspended", "deleted"}]
              /\ email' \in [Users -> Identities \cup {Unset}]
            BY <1>0, <2>1, <2>4
        <3> QED BY <1>0, <1>1, <2>1, <3>3, <3>4 DEF LinkTypeOK, FlowRow
    <2> QED BY <2>2, <2>3, <2>4
<1> QED BY <1>2, <1>3, <1>4

LEMMA LinkInvariant == LinkSpec => []LinkInv
<1>1. LinkInit => LinkInv
    <2> SUFFICES ASSUME LinkInit PROVE LinkInv
        OBVIOUS
    <2>1. NewFlow \in FlowRow /\ NewFlow.pc = "new"
        BY LinkAssumption DEF NewFlow, FlowRow
    <2>2. LinkTypeOK
        BY <2>1, LinkAssumption DEF LinkInit, LinkTypeOK, FlowRow
    <2> QED BY <2>1, <2>2, LinkAssumption
            DEF LinkInit, LinkInv, MethodsFollow, HasMethod, ExchangedKnows
<1>2. LinkInv /\ [LinkNext]_linkVars => LinkInv'
    <2>1. LinkInv /\ UNCHANGED linkVars => LinkInv'
        BY DEF linkVars, LinkInv, LinkTypeOK, MethodsFollow, HasMethod, ExchangedKnows
    <2> QED BY <2>1, AccountLinkStep, FlowLinkStep DEF LinkNext
<1> QED BY <1>1, <1>2, PTL DEF LinkSpec

\* The accounts, the identities and the requests have their types.
THEOREM LinkTypeCorrect == LinkSpec => []LinkTypeOK
<1>1. LinkInv => LinkTypeOK
    BY DEF LinkInv
<1> QED BY <1>1, LinkInvariant, PTL

\* An account that exists keeps a way to sign in and a deleted one has none, for any number
\* of accounts, identities and callbacks under way.
THEOREM LinkSignInRemains == LinkSpec => []SignInRemains
<1>1. LinkInv => SignInRemains
    BY MethodsCount DEF LinkInv, MethodsFollow, SignInRemains
<1> QED BY <1>1, LinkInvariant, PTL

-----------------------------------------------------------------------------
(* The end of an account *)

Deletes(r, S) == demand[r].type = "account_deletion" /\ demand[r].status \in S

Processed == {"primary_completed", "completed"}

Open == {"identity_verified"}

\* An account is deleted exactly when a deletion was processed; an earlier deletion is past
\* and has lost its mark; a deletion that is open has lost its mark if the account has none;
\* requests are made in their order.
LiveDeletions ==
    /\ person.status = "deleted" <=> \E r \in Demands : Deletes(r, Processed)
    /\ \A q, r \in Demands : Deletes(q, Open \cup Processed) /\ Deletes(r, Open \cup Processed) /\ q < r =>
        demand[q].past /\ q \in outlived
    /\ person.status # "deleted" /\ ~person.marked =>
        \A r \in Demands : Deletes(r, Open) => r \in outlived
    /\ \A q, r \in Demands : q < r /\ demand[r].status # "none" => demand[q].status # "none"

RightsInv == RightsTypeOK /\ LiveDeletions

DemandRow == [type: {"data_export", "account_deletion"}, status: DemandStatuses, past: BOOLEAN]

PersonRow == [status: {"active", "suspended", "deleted"}, marked: BOOLEAN]

LEMMA RightsTypeParts ==
    RightsTypeOK <=>
        /\ person \in PersonRow /\ demand \in [Demands -> DemandRow]
        /\ receipts \in [Demands -> SUBSET BackupClasses] /\ marks \in 0..MaxMarks
        /\ outlived \subseteq Demands /\ wish \in {"keep", "delete"}
BY DEF RightsTypeOK, PersonRow, DemandRow

LEMMA DeletionSets ==
    /\ OpenDeletions = {r \in Demands : Deletes(r, Open)}
    /\ ProcessedDeletions = {r \in Demands : Deletes(r, Processed)}
BY DEF OpenDeletions, ProcessedDeletions, OfType, Deletes, Open, Processed

\* A step that moves one request leaves the others as they are.
LEMMA OneDemand ==
    ASSUME demand \in [Demands -> DemandRow], NEW r \in Demands, NEW row \in DemandRow,
           demand' = [demand EXCEPT ![r] = row]
    PROVE  /\ demand' \in [Demands -> DemandRow] /\ demand'[r] = row
           /\ \A x \in Demands \ {r} : demand'[x] = demand[x]
OBVIOUS

\* A step that opens and processes no deletion, makes no request and takes no mark from an
\* open deletion unnoticed, keeps the invariant.
LEMMA QuietRightsStep ==
    ASSUME LiveDeletions, person'.status = "deleted" <=> person.status = "deleted",
           outlived \subseteq outlived',
           \A x \in Demands :
               /\ Deletes(x, Open)' => Deletes(x, Open)
               /\ Deletes(x, Processed)' <=> Deletes(x, Processed)
               /\ demand[x].past => demand'[x].past
               /\ demand'[x].status = "none" <=> demand[x].status = "none",
           \/ person'.marked \/ ~person.marked
           \/ \A x \in Demands : Deletes(x, Open)' => x \in outlived'
    PROVE  LiveDeletions'
<1>1. \A x \in Demands : Deletes(x, Open \cup Processed) <=> Deletes(x, Open) \/ Deletes(x, Processed)
    BY DEF Deletes
<1>2. \A x \in Demands :
        Deletes(x, Open \cup Processed)' <=> Deletes(x, Open)' \/ Deletes(x, Processed)'
    BY DEF Deletes, Open, Processed
<1>3. \A q, r \in Demands :
        Deletes(q, Open \cup Processed)' /\ Deletes(r, Open \cup Processed)' /\ q < r =>
            demand'[q].past /\ q \in outlived'
    BY <1>1, <1>2 DEF LiveDeletions
<1>4. person'.status # "deleted" /\ ~person'.marked =>
        \A r \in Demands : Deletes(r, Open)' => r \in outlived'
    BY DEF LiveDeletions
<1>5. \A q, r \in Demands : q < r /\ demand'[r].status # "none" => demand'[q].status # "none"
    BY DEF LiveDeletions
<1> QED BY <1>3, <1>4, <1>5 DEF LiveDeletions

LEMMA RightsStep == RightsInv /\ [RightsNext]_rightsVars => RightsInv'
<1> SUFFICES ASSUME RightsInv, [RightsNext]_rightsVars PROVE RightsInv'
    OBVIOUS
<1>0. /\ person \in PersonRow /\ demand \in [Demands -> DemandRow]
      /\ receipts \in [Demands -> SUBSET BackupClasses] /\ marks \in 0..MaxMarks
      /\ outlived \subseteq Demands /\ wish \in {"keep", "delete"} /\ LiveDeletions
    BY RightsTypeParts DEF RightsInv
<1> DEFINE Kept ==
        /\ person' \in PersonRow /\ demand' \in [Demands -> DemandRow]
        /\ receipts' \in [Demands -> SUBSET BackupClasses] /\ marks' \in 0..MaxMarks
        /\ outlived' \subseteq Demands /\ wish' \in {"keep", "delete"} /\ LiveDeletions'
<1> SUFFICES Kept
    BY DEF RightsInv, RightsTypeOK, PersonRow, DemandRow
<1>1. ASSUME NEW r \in Demands, NEW type \in {"data_export", "account_deletion"},
             CreateDemand(r, type)
      PROVE  Kept
    <2> DEFINE row == [demand[r] EXCEPT !.type = type, !.status = "identity_verified"]
    <2>0. demand[r] \in DemandRow /\ "identity_verified" \in DemandStatuses
        BY <1>0 DEF DemandStatuses
    <2>1. row \in DemandRow /\ row.type = type /\ row.status = "identity_verified"
          /\ row.past = demand[r].past
        BY ONLY <2>0, type \in {"data_export", "account_deletion"}
           DEF row, DemandRow
    <2>2. demand' = [demand EXCEPT ![r] = row]
        BY <1>1 DEF CreateDemand
    <2> HIDE DEF row
    <2>3. /\ demand' \in [Demands -> DemandRow] /\ demand'[r] = row
          /\ \A x \in Demands \ {r} : demand'[x] = demand[x]
        BY <1>0, <2>1, <2>2, OneDemand
    <2>4. /\ person'.status = person.status /\ person.status = "active"
          /\ person' \in PersonRow /\ UNCHANGED outlived
          /\ demand[r].status = "none"
          /\ \A q \in Demands : q < r => demand[q].status # "none"
        BY <1>0, <1>1 DEF CreateDemand, PersonRow
    <2>5. \A x \in Demands : ~Deletes(x, Processed)
        BY <1>0, <2>4 DEF LiveDeletions
    <2>6. \A x \in Demands \ {r} :
              /\ Deletes(x, Open)' <=> Deletes(x, Open)
              /\ ~Deletes(x, Processed)'
              /\ Deletes(x, Open \cup Processed)' <=> Deletes(x, Open)
              /\ Deletes(x, Open \cup Processed) <=> Deletes(x, Open)
        BY <2>3, <2>5 DEF Deletes, Open, Processed
    <2>7. ~Deletes(r, Processed)' /\ (Deletes(r, Open \cup Processed)' => type = "account_deletion")
        BY <2>1, <2>3 DEF Deletes, Processed, Open
    <2>8. ASSUME type = "account_deletion"
          PROVE  /\ person'.marked
                 /\ \A x \in Demands : Deletes(x, Open) => demand[x].past /\ x \in outlived
        <3>1. person'.marked /\ ~person.marked
            BY <1>0, <1>1, <2>8 DEF CreateDemand, PersonRow
        <3>2. \A x \in Demands : Deletes(x, Open) => x \in outlived
            BY <1>0, <2>4, <3>1 DEF LiveDeletions
        <3>3. \A x \in Demands : Deletes(x, Open) => demand[x].past
            BY <1>1, <2>8
               DEF CreateDemand, MayDemand, RecentDemands, ActiveDemands, OfType, Deletes, Open
        <3> QED BY <3>1, <3>2, <3>3
    <2>9. ASSUME NEW x \in Demands, x > r PROVE ~Deletes(x, Open)
        BY <1>0, <2>4, <2>9, DemandAssumption DEF LiveDeletions, Deletes, Open
    <2>10. \A q, x \in Demands :
            Deletes(q, Open \cup Processed)' /\ Deletes(x, Open \cup Processed)' /\ q < x =>
                demand'[q].past /\ q \in outlived'
        <3> SUFFICES ASSUME NEW q \in Demands, NEW x \in Demands, q < x,
                            Deletes(q, Open \cup Processed)', Deletes(x, Open \cup Processed)'
                     PROVE  demand'[q].past /\ q \in outlived'
            OBVIOUS
        <3>1. q # x /\ (q = r => x > r)
            BY DemandAssumption
        <3>2. q # r
            BY <2>6, <2>9, <3>1
        <3>3. CASE x = r
            BY <2>3, <2>4, <2>6, <2>7, <2>8, <3>2, <3>3
        <3>4. CASE x # r
            <4>1. Deletes(q, Open \cup Processed) /\ Deletes(x, Open \cup Processed)
                BY <2>6, <3>2, <3>4
            <4>2. demand[q].past /\ q \in outlived
                BY <1>0, <4>1 DEF LiveDeletions
            <4> QED BY <2>3, <2>4, <3>2, <4>2
        <3> QED BY <3>3, <3>4
    <2>11. ~person'.marked => \A x \in Demands : Deletes(x, Open)' => x \in outlived'
        <3>1. ~person'.marked => type = "data_export" /\ ~person.marked
            BY <1>1, <2>8 DEF CreateDemand
        <3>2. type = "data_export" => ~Deletes(r, Open)'
            BY <2>1, <2>3 DEF Deletes
        <3> QED BY <1>0, <2>4, <2>6, <3>1, <3>2 DEF LiveDeletions
    <2>12. \A q, x \in Demands : q < x /\ demand'[x].status # "none" => demand'[q].status # "none"
        <3>1. demand'[r].status # "none"
            BY <2>1, <2>3
        <3> QED BY <1>0, <2>3, <2>4, <3>1 DEF LiveDeletions
    <2>13. LiveDeletions'
        BY <2>4, <2>5, <2>6, <2>7, <2>10, <2>11, <2>12 DEF LiveDeletions
    <2>14. UNCHANGED <<receipts, marks>> /\ wish' \in {"keep", "delete"}
        BY <1>0, <1>1 DEF CreateDemand
    <2> QED BY <1>0, <2>3, <2>4, <2>13, <2>14
<1>2. ASSUME NEW r \in Demands, CancelDemand(r) PROVE Kept
    <2> DEFINE row == [demand[r] EXCEPT !.status = "cancelled"]
    <2>0. demand[r] \in DemandRow /\ "cancelled" \in DemandStatuses
        BY <1>0 DEF DemandStatuses
    <2>1. row \in DemandRow /\ row.status = "cancelled" /\ row.past = demand[r].past
        BY ONLY <2>0 DEF row, DemandRow
    <2>2. demand' = [demand EXCEPT ![r] = row] /\ demand[r].status = "identity_verified"
        BY <1>2 DEF CancelDemand
    <2> HIDE DEF row
    <2>3. /\ demand' \in [Demands -> DemandRow] /\ demand'[r] = row
          /\ \A x \in Demands \ {r} : demand'[x] = demand[x]
        BY <1>0, <2>1, <2>2, OneDemand
    <2>4. \A x \in Demands :
              /\ Deletes(x, Open)' => Deletes(x, Open) /\ x # r
              /\ Deletes(x, Processed)' <=> Deletes(x, Processed)
              /\ demand[x].past => demand'[x].past
              /\ demand'[x].status = "none" <=> demand[x].status = "none"
        BY <2>1, <2>2, <2>3 DEF Deletes, Processed, Open
    <2>5. /\ person' \in PersonRow /\ person'.status = person.status
          /\ outlived \subseteq outlived' /\ outlived' \subseteq Demands
          /\ \/ person'.marked = person.marked
             \/ OpenDeletions \ {r} \subseteq outlived'
        <3>1. CASE demand[r].type = "account_deletion"
            BY <1>0, <1>2, <3>1, DeletionSets DEF CancelDemand, Unmarked, PersonRow
        <3>2. CASE demand[r].type # "account_deletion"
            BY <1>0, <1>2, <3>2 DEF CancelDemand
        <3> QED BY <3>1, <3>2
    <2>6. \/ person'.marked \/ ~person.marked
          \/ \A x \in Demands : Deletes(x, Open)' => x \in outlived'
        BY <2>4, <2>5, DeletionSets
    <2>7. LiveDeletions'
        BY <1>0, <2>4, <2>5, <2>6, QuietRightsStep
    <2>8. UNCHANGED <<receipts, marks>> /\ wish' \in {"keep", "delete"}
        BY <1>0, <1>2 DEF CancelDemand
    <2> QED BY <1>0, <2>3, <2>5, <2>7, <2>8
<1>3. CASE RequestDeletion \/ CancelDeletion \/ SuspendOrRestorePerson
    <2>1. /\ person'.status = "deleted" <=> person.status = "deleted"
          /\ person' \in PersonRow
          /\ outlived \subseteq outlived' /\ outlived' \subseteq Demands
          /\ \/ person'.marked \/ ~person.marked
             \/ OpenDeletions \subseteq outlived'
        <3>1. CASE RequestDeletion
            BY <1>0, <3>1 DEF RequestDeletion, PersonRow
        <3>2. CASE CancelDeletion
            BY <1>0, <3>2, DeletionSets DEF CancelDeletion, Unmarked, PersonRow
        <3>3. CASE SuspendOrRestorePerson
            BY <1>0, <3>3 DEF SuspendOrRestorePerson, PersonRow
        <3> QED BY <1>3, <3>1, <3>2, <3>3
    <2>2. UNCHANGED <<demand, receipts>> /\ marks' \in 0..MaxMarks /\ wish' \in {"keep", "delete"}
        BY <1>0, <1>3, DemandAssumption DEF RequestDeletion, CancelDeletion, SuspendOrRestorePerson
    <2>3. \A x \in Demands :
              /\ Deletes(x, Open)' <=> Deletes(x, Open)
              /\ Deletes(x, Processed)' <=> Deletes(x, Processed)
        BY <2>2 DEF Deletes, Open, Processed
    <2>4. LiveDeletions'
        BY <1>0, <2>1, <2>2, <2>3, QuietRightsStep, DeletionSets
    <2> QED BY <1>0, <2>1, <2>2, <2>4
<1>4. ASSUME NEW r \in Demands, ThirtyDaysPass(r) PROVE Kept
    <2> DEFINE row == [demand[r] EXCEPT !.past = TRUE]
    <2>1. row \in DemandRow /\ row.type = demand[r].type /\ row.status = demand[r].status
          /\ row.past
        BY ONLY <1>0, r \in Demands DEF row, DemandRow
    <2>2. demand' = [demand EXCEPT ![r] = row]
        BY <1>4 DEF ThirtyDaysPass
    <2> HIDE DEF row
    <2>3. /\ demand' \in [Demands -> DemandRow] /\ demand'[r] = row
          /\ \A x \in Demands \ {r} : demand'[x] = demand[x]
        BY <1>0, <2>1, <2>2, OneDemand
    <2>4. \A x \in Demands :
              /\ Deletes(x, Open)' <=> Deletes(x, Open)
              /\ Deletes(x, Processed)' <=> Deletes(x, Processed)
              /\ demand[x].past => demand'[x].past
              /\ demand'[x].status = "none" <=> demand[x].status = "none"
        BY <2>1, <2>3 DEF Deletes, Open, Processed
    <2>5. UNCHANGED <<person, receipts, marks, outlived, wish>>
        BY <1>4 DEF ThirtyDaysPass
    <2>6. LiveDeletions'
        BY <1>0, <2>4, <2>5, QuietRightsStep
    <2> QED BY <1>0, <2>3, <2>5, <2>6
<1>5. ASSUME NEW r \in Demands, ProcessExport(r) PROVE Kept
    <2> DEFINE row == [demand[r] EXCEPT !.status = "completed"]
    <2>0. demand[r] \in DemandRow /\ "completed" \in DemandStatuses
        BY <1>0 DEF DemandStatuses
    <2>1. row \in DemandRow /\ row.type = demand[r].type /\ row.status = "completed"
          /\ row.past = demand[r].past
        BY ONLY <2>0 DEF row, DemandRow
    <2>2. demand' = [demand EXCEPT ![r] = row] /\ demand[r].type = "data_export"
          /\ demand[r].status = "identity_verified"
        BY <1>5 DEF ProcessExport, OfType
    <2> HIDE DEF row
    <2>3. /\ demand' \in [Demands -> DemandRow] /\ demand'[r] = row
          /\ \A x \in Demands \ {r} : demand'[x] = demand[x]
        BY <1>0, <2>1, <2>2, OneDemand
    <2>4. \A x \in Demands :
              /\ Deletes(x, Open)' <=> Deletes(x, Open)
              /\ Deletes(x, Processed)' <=> Deletes(x, Processed)
              /\ demand[x].past => demand'[x].past
              /\ demand'[x].status = "none" <=> demand[x].status = "none"
        BY <2>1, <2>2, <2>3 DEF Deletes, Open, Processed
    <2>5. UNCHANGED <<person, receipts, marks, outlived, wish>>
        BY <1>5 DEF ProcessExport
    <2>6. LiveDeletions'
        BY <1>0, <2>4, <2>5, QuietRightsStep
    <2> QED BY <1>0, <2>3, <2>5, <2>6
<1>6. ASSUME NEW r \in Demands, ProcessDeletion(r) PROVE Kept
    <2> DEFINE row == [demand[r] EXCEPT !.status = "primary_completed"]
    <2>0. demand[r] \in DemandRow /\ "primary_completed" \in DemandStatuses
        BY <1>0 DEF DemandStatuses
    <2>1. row \in DemandRow /\ row.type = demand[r].type /\ row.status = "primary_completed"
          /\ row.past = demand[r].past
        BY ONLY <2>0 DEF row, DemandRow
    <2>2. demand' = [demand EXCEPT ![r] = row] /\ Deletes(r, Open)
        BY <1>6, DeletionSets DEF ProcessDeletion
    <2> HIDE DEF row
    <2>3. /\ demand' \in [Demands -> DemandRow] /\ demand'[r] = row
          /\ \A x \in Demands \ {r} : demand'[x] = demand[x]
        BY <1>0, <2>1, <2>2, OneDemand
    <2>4. /\ person' = [status |-> "deleted", marked |-> FALSE] /\ Deletes(r, Processed)'
          /\ UNCHANGED <<receipts, marks, outlived, wish>>
        BY <1>6, <2>1, <2>2, <2>3 DEF ProcessDeletion, Deletes, Processed
    <2>5. \A x \in Demands :
              /\ Deletes(x, Open \cup Processed)' <=> Deletes(x, Open \cup Processed)
              /\ demand'[x].past = demand[x].past
              /\ demand'[x].status = "none" <=> demand[x].status = "none"
        BY <2>1, <2>2, <2>3 DEF Deletes, Open, Processed
    <2>6. LiveDeletions'
        BY <1>0, <2>4, <2>5 DEF LiveDeletions
    <2>7. person' \in PersonRow
        BY <2>4 DEF PersonRow
    <2> QED BY <1>0, <2>3, <2>4, <2>6, <2>7
<1>7. ASSUME NEW r \in Demands, NEW class \in BackupClasses, RecordBackupReceipt(r, class)
      PROVE  Kept
    <2> DEFINE row == [demand[r] EXCEPT !.status = "completed"]
    <2>0. demand[r] \in DemandRow /\ "completed" \in DemandStatuses
        BY <1>0 DEF DemandStatuses
    <2>1. row \in DemandRow /\ row.type = demand[r].type /\ row.status = "completed"
          /\ row.past = demand[r].past
        BY ONLY <2>0 DEF row, DemandRow
    <2>2. demand' = [demand EXCEPT ![r] = row] \/ demand' = demand
        BY <1>7 DEF RecordBackupReceipt
    <2>3. demand[r].status = "primary_completed" /\ UNCHANGED <<person, marks, outlived, wish>>
          /\ receipts' \in [Demands -> SUBSET BackupClasses]
        BY <1>0, <1>7 DEF RecordBackupReceipt
    <2> HIDE DEF row
    <2>4. CASE demand' = [demand EXCEPT ![r] = row]
        <3>1. /\ demand' \in [Demands -> DemandRow] /\ demand'[r] = row
              /\ \A x \in Demands \ {r} : demand'[x] = demand[x]
            BY <1>0, <2>1, <2>4, OneDemand
        <3>2. \A x \in Demands :
                  /\ Deletes(x, Open)' => Deletes(x, Open)
                  /\ Deletes(x, Processed)' <=> Deletes(x, Processed)
                  /\ demand[x].past => demand'[x].past
                  /\ demand'[x].status = "none" <=> demand[x].status = "none"
            BY <2>1, <2>3, <3>1 DEF Deletes, Open, Processed
        <3>3. LiveDeletions'
            BY <1>0, <2>3, <3>2, QuietRightsStep
        <3> QED BY <1>0, <2>3, <3>1, <3>3
    <2>5. CASE demand' = demand
        <3>1. LiveDeletions'
            BY <1>0, <2>3, <2>5 DEF LiveDeletions, Deletes
        <3> QED BY <1>0, <2>3, <2>5, <3>1
    <2> QED BY <2>2, <2>4, <2>5
<1>8. CASE UNCHANGED rightsVars
    BY <1>0, <1>8 DEF rightsVars, LiveDeletions, Deletes
<1> QED BY <1>1, <1>2, <1>3, <1>4, <1>5, <1>6, <1>7, <1>8 DEF RightsNext

LEMMA RightsInvariant == RightsSpec => []RightsInv
<1>1. RightsInit => RightsInv
    BY DemandAssumption DEF RightsInit, RightsInv, RightsTypeOK, DemandStatuses, LiveDeletions,
        Deletes, Processed, Open
<1> QED BY <1>1, RightsStep, PTL DEF RightsSpec

\* The requests, the receipts and the account have their types, whoever acts on them.
THEOREM RightsTypeCorrect == RightsSpec => []RightsTypeOK
<1>1. RightsInv => RightsTypeOK
    BY DEF RightsInv
<1> QED BY <1>1, RightsInvariant, PTL

\* An account is deleted exactly when one of its deletions was processed, and of two deletions
\* that were not cancelled the earlier one is past and had lost its mark, for any number of
\* requests, however the two ways to ask for a deletion are mixed.
THEOREM RightsOneLiveDeletion == RightsSpec => []OneLiveDeletion
<1>1. RightsInv => OneLiveDeletion
    <2> SUFFICES ASSUME RightsInv PROVE OneLiveDeletion
        OBVIOUS
    <2>1. OpenDeletions \cup ProcessedDeletions = {r \in Demands : Deletes(r, Open \cup Processed)}
        BY DeletionSets DEF Deletes
    <2>2. ProcessedDeletions # {} <=> \E r \in Demands : Deletes(r, Processed)
        BY DeletionSets
    <2> QED BY <2>1, <2>2 DEF RightsInv, LiveDeletions, OneLiveDeletion
<1> QED BY <1>1, RightsInvariant, PTL

-----------------------------------------------------------------------------
(* What a set of operations moves: the sum does not depend on the order *)

AnyOf(S) == CHOOSE o \in S : TRUE

\* A number of operations that has a property has a smallest one.
LEMMA LeastNumber ==
    ASSUME NEW B \in SUBSET Nat, B # {}
    PROVE  \E n \in B : \A m \in B : ~ (m < n)
<1>1. \E n \in B : \A m \in B : ~ (<<m, n>> \in OpToRel(<, Nat))
    BY NatLessThanWellFounded, WFMin
<1> QED BY <1>1 DEF OpToRel

\* A set of operations with a property has a smallest subset with it.
LEMMA LeastSet ==
    ASSUME NEW B \in SUBSET SUBSET Operations, B # {}
    PROVE  \E S \in B : \A U \in B : U \subseteq S => U = S
<1>1. B \subseteq FiniteSubsetsOf(Operations)
    BY PointAssumption, FS_Subset DEF FiniteSubsetsOf
<1>2. \E S \in B : \A U \in B : ~ (<<U, S>> \in StrictSubsetOrdering(Operations))
    BY <1>1, FS_StrictSubsetOrderingWellFounded, WFMin
<1> QED BY <1>2 DEF StrictSubsetOrdering

Small(n) == {S \in SUBSET Operations : Cardinality(S) <= n}

\* The recursion as far as sets of n operations.
Sums(f, n) == f = [S \in Small(n) |-> IF S = {} THEN 0 ELSE Amount[AnyOf(S)] + f[S \ {AnyOf(S)}]]

LEMMA SmallerSet ==
    ASSUME NEW S \in SUBSET Operations, S # {}
    PROVE  /\ AnyOf(S) \in S /\ S \ {AnyOf(S)} \in SUBSET Operations
           /\ Cardinality(S) \in Nat
           /\ Cardinality(S \ {AnyOf(S)}) = Cardinality(S) - 1
<1>1. IsFiniteSet(S)
    BY PointAssumption, FS_Subset
<1>2. AnyOf(S) \in S
    BY DEF AnyOf
<1> QED BY <1>1, <1>2, FS_CardinalityType, FS_RemoveElement

LEMMA SumsExist == ASSUME NEW n \in Nat PROVE \E f : Sums(f, n)
<1> DEFINE B == {m \in Nat : ~ \E f : Sums(f, m)}
<1> SUFFICES ASSUME B # {} PROVE FALSE
    OBVIOUS
<1>1. PICK m \in B : \A k \in B : ~ (k < m)
    <2> HIDE DEF B
    <2>1. B \in SUBSET Nat
        BY DEF B
    <2> QED BY <2>1, LeastNumber
<1>2. CASE m = 0
    <2>1. \A S \in Small(0) : S = {}
        <3> SUFFICES ASSUME NEW S \in Small(0), S # {} PROVE FALSE
            OBVIOUS
        <3>1. IsFiniteSet(S) /\ Cardinality(S) = 0
            BY PointAssumption, FS_Subset, FS_CardinalityType DEF Small
        <3> QED BY <3>1, FS_EmptySet
    <2>2. Sums([S \in Small(0) |-> 0], 0)
        BY <2>1 DEF Sums
    <2> QED BY <1>1, <1>2, <2>2
<1>3. CASE m # 0
    <2>1. m - 1 \in Nat /\ m - 1 < m
        BY <1>1, <1>3
    <2>2. PICK f : Sums(f, m - 1)
        BY <1>1, <2>1
    <2> DEFINE Value(S, h) == IF S = {} THEN 0 ELSE Amount[AnyOf(S)] + h[S \ {AnyOf(S)}]
               g == [S \in Small(m) |-> IF S \in Small(m - 1) THEN f[S] ELSE Value(S, f)]
    <2>3. \A S \in Small(m - 1) : f[S] = Value(S, f)
        BY <2>2 DEF Sums
    <2>4. ASSUME NEW S \in Small(m) PROVE g[S] = Value(S, g)
        <3>1. g[S] = Value(S, f)
            BY <2>3
        <3>2. CASE S = {}
            BY <3>1, <3>2
        <3>3. CASE S # {}
            <4>1. S \ {AnyOf(S)} \in Small(m - 1) /\ S \ {AnyOf(S)} \in Small(m)
                BY <1>1, <3>3, SmallerSet DEF Small
            <4>2. g[S \ {AnyOf(S)}] = f[S \ {AnyOf(S)}]
                BY <4>1
            <4> HIDE DEF g
            <4> QED BY <3>1, <3>3, <4>2
        <3> QED BY <3>2, <3>3
    <2>5. g = [S \in Small(m) |-> g[S]]
        OBVIOUS
    <2> HIDE DEF g
    <2>6. Sums(g, m)
        BY <2>4, <2>5 DEF Sums
    <2> QED BY <1>1, <2>6
<1> QED BY <1>2, <1>3

LEMMA AmountOfDef ==
    ASSUME NEW S \in SUBSET Operations
    PROVE  AmountOf[S] = IF S = {} THEN 0 ELSE Amount[AnyOf(S)] + AmountOf[S \ {AnyOf(S)}]
<1>1. Cardinality(Operations) \in Nat /\ Small(Cardinality(Operations)) = SUBSET Operations
    BY PointAssumption, FS_Subset, FS_CardinalityType DEF Small
<1>2. PICK f : Sums(f, Cardinality(Operations))
    BY <1>1, SumsExist
<1> DEFINE Rec(h) == h = [T \in SUBSET Operations |->
                            IF T = {} THEN 0 ELSE Amount[AnyOf(T)] + h[T \ {AnyOf(T)}]]
<1>3. Rec(f)
    BY <1>1, <1>2 DEF Sums
<1>4. AmountOf = CHOOSE h : Rec(h)
    BY DEF AmountOf, AnyOf
<1>5. Rec(AmountOf)
    <2> HIDE DEF Rec
    <2> QED BY <1>3, <1>4
<1> QED BY <1>5

LEMMA AmountOfNone == AmountOf[{}] = 0
<1>1. {} \in SUBSET Operations
    OBVIOUS
<1>2. AmountOf[{}] = IF {} = {} THEN 0 ELSE Amount[AnyOf({})] + AmountOf[{} \ {AnyOf({})}]
    BY ONLY <1>1, AmountOfDef
<1> QED BY ONLY <1>2

LEMMA AmountOfType == \A S \in SUBSET Operations : AmountOf[S] \in Int
<1> DEFINE B == {S \in SUBSET Operations : AmountOf[S] \notin Int}
<1> SUFFICES ASSUME B # {} PROVE FALSE
    OBVIOUS
<1>1. PICK S \in B : \A U \in B : U \subseteq S => U = S
    <2> HIDE DEF B
    <2>1. B \in SUBSET SUBSET Operations
        BY DEF B
    <2> QED BY <2>1, LeastSet
<1>2. CASE S = {}
    BY <1>1, <1>2, AmountOfNone
<1>3. CASE S # {}
    <2>1. AnyOf(S) \in Operations /\ S \ {AnyOf(S)} \in SUBSET Operations /\ S \ {AnyOf(S)} # S
        BY <1>1, <1>3, SmallerSet
    <2>2. AmountOf[S \ {AnyOf(S)}] \in Int
        BY <1>1, <2>1
    <2>3. Amount[AnyOf(S)] \in Int
        BY <2>1, PointAssumption
    <2>4. S \in SUBSET Operations /\ AmountOf[S] \notin Int
        BY <1>1
    <2>5. AmountOf[S] = Amount[AnyOf(S)] + AmountOf[S \ {AnyOf(S)}]
        BY ONLY <1>3, <2>4, AmountOfDef
    <2> QED BY ONLY <2>2, <2>3, <2>4, <2>5
<1> QED BY <1>2, <1>3

\* Whichever operation is counted last.
LEMMA AmountOfAny ==
    \A S \in SUBSET Operations : \A o \in S : AmountOf[S] = Amount[o] + AmountOf[S \ {o}]
<1> DEFINE Right(S) == \A o \in S : AmountOf[S] = Amount[o] + AmountOf[S \ {o}]
           B == {S \in SUBSET Operations : ~Right(S)}
<1> SUFFICES ASSUME B # {} PROVE FALSE
    OBVIOUS
<1>1. PICK S \in B : \A U \in B : U \subseteq S => U = S
    <2> HIDE DEF B
    <2>1. B \in SUBSET SUBSET Operations
        BY DEF B
    <2> QED BY <2>1, LeastSet
<1>2. PICK o \in S : AmountOf[S] # Amount[o] + AmountOf[S \ {o}]
    BY <1>1
<1> DEFINE c == AnyOf(S)
<1>3. S \in SUBSET Operations /\ c \in S /\ AmountOf[S] = Amount[c] + AmountOf[S \ {c}]
    BY <1>1, <1>2, SmallerSet, AmountOfDef
<1> HIDE DEF c
<1>4. c # o
    BY <1>2, <1>3
<1>5. /\ AmountOf[S \ {c}] = Amount[o] + AmountOf[(S \ {c}) \ {o}]
      /\ AmountOf[S \ {o}] = Amount[c] + AmountOf[(S \ {o}) \ {c}]
    <2>1. \A U \in SUBSET S : U # S => Right(U)
        BY <1>1
    <2>2. o \in S \ {c} /\ c \in S \ {o}
        BY <1>2, <1>3, <1>4
    <2> QED BY <2>1, <2>2
<1>6. (S \ {c}) \ {o} = (S \ {o}) \ {c}
    OBVIOUS
<1>7. Amount[c] \in Int /\ Amount[o] \in Int /\ AmountOf[(S \ {o}) \ {c}] \in Int
    BY <1>2, <1>3, PointAssumption, AmountOfType
<1> DEFINE rest == AmountOf[(S \ {o}) \ {c}]
<1>8. AmountOf[S \ {c}] = Amount[o] + rest /\ AmountOf[S \ {o}] = Amount[c] + rest
    BY <1>5, <1>6
<1>9. rest \in Int
    BY <1>7
<1> HIDE DEF rest, B
<1>10. AmountOf[S] = Amount[c] + (Amount[o] + rest)
    BY ONLY <1>3, <1>8
<1>11. AmountOf[S] # Amount[o] + (Amount[c] + rest)
    BY ONLY <1>2, <1>8
<1>12. Amount[c] + (Amount[o] + rest) = Amount[o] + (Amount[c] + rest)
    BY ONLY <1>7, <1>9
<1> QED BY ONLY <1>10, <1>11, <1>12

LEMMA AmountOfOneMore ==
    ASSUME NEW S \in SUBSET Operations, NEW o \in Operations \ S
    PROVE  AmountOf[S \cup {o}] = Amount[o] + AmountOf[S]
<1>1. (S \cup {o}) \ {o} = S /\ S \cup {o} \in SUBSET Operations
    OBVIOUS
<1> QED BY <1>1, AmountOfAny
-----------------------------------------------------------------------------
(* The account *)

Issues == [status: {"none", "open", "repair_pending", "resolved"}, expected: Int, actual: Int]
Scans == [pc: {"idle", "rows", "accounts", "issues"}, expected: Int, actual: Int \cup {Absent},
          before: Issues]
Desks == [pc: {"idle", "read", "account"}, issue: Issues, balance: Int]
Rows == [operation: Operations, after: Int]

PointTypes ==
    /\ balance \in Int \cup {Absent}
    /\ opening \in Openings
    /\ ledger \in Seq(Rows)
    /\ posted \subseteq Operations
    /\ compensated \in Int \cup {Absent}
    /\ issue \in Issues
    /\ review \in {"none", "pending", "approve", "reject"}
    /\ scan \in Scans
    /\ asking \in BOOLEAN
    /\ desk \in [Reviewers -> Desks]
    /\ scans \in 0..MaxScans
    /\ drift \in Int

\* Nothing has touched an account that is not opened.
Unopened ==
    balance = Absent => posted = {} /\ drift = 0 /\ compensated = Absent /\ ledger = <<>>

\* A reviewer who is about to compensate has seen the account.
AccountSeen == \A r \in Reviewers : desk[r].pc = "account" => balance # Absent

PointInv == PointTypes /\ Unopened /\ AccountSeen /\ BalanceIsExplained

LEMMA PointTypesCheck == PointTypes => PointTypeOK
BY DEF PointTypes, PointTypeOK, Issues, Scans, Desks, Rows

LEMMA PointInitInv == PointInit => PointInv
<1> SUFFICES ASSUME PointInit PROVE PointInv
    OBVIOUS
<1> USE DEF PointInit
<1>1. NoIssue \in Issues
    BY DEF NoIssue, Issues
<1>2. NoScan \in Scans
    BY <1>1 DEF NoScan, Scans
<1>3. EmptyDesk \in Desks
    BY <1>1 DEF EmptyDesk, Desks
<1>4. ledger \in Seq(Rows)
    OBVIOUS
<1>5. PointTypes
    <2>1. desk \in [Reviewers -> Desks]
        BY <1>3
    <2>2. scans \in 0..MaxScans
        BY PointAssumption
    <2>3. posted = {} /\ posted \subseteq Operations
        OBVIOUS
    <2>4. issue \in Issues /\ scan \in Scans
        BY <1>1, <1>2
    <2>5. /\ balance \in Int \cup {Absent} /\ compensated \in Int \cup {Absent}
          /\ opening \in Openings /\ drift \in Int
        OBVIOUS
    <2>6. asking \in BOOLEAN /\ review \in {"none", "pending", "approve", "reject"}
        OBVIOUS
    <2> HIDE DEF PointInit
    <2> QED BY ONLY <1>4, <2>1, <2>2, <2>3, <2>4, <2>5, <2>6 DEF PointTypes
<1>6. AccountSeen
    BY DEF AccountSeen, EmptyDesk
<1> QED BY <1>5, <1>6 DEF PointInv, Unopened, BalanceIsExplained

LEMMA AvailableType ==
    ASSUME PointInv
    PROVE  /\ opening \in Int /\ Latest \in Int /\ Available \in Int
           /\ balance = Absent => Available = opening
<1> USE DEF PointInv, PointTypes
<1>1. opening \in Int
    BY PointAssumption
<1>2. ASSUME ledger # <<>> PROVE Last(ledger).after \in Int
    <2>1. Len(ledger) \in 1..Len(ledger) /\ Last(ledger) = ledger[Len(ledger)]
        BY <1>2 DEF Last
    <2>2. Last(ledger) \in Rows
        BY <2>1
    <2> QED BY <2>2 DEF Rows
<1>3. Latest \in Int
    BY <1>1, <1>2 DEF Latest
<1> QED BY <1>1, <1>3 DEF Available, Latest, Unopened

LEMMA PostInv ==
    ASSUME PointInv, NEW operation \in Operations, Post(operation)
    PROVE  PointInv'
<1> DEFINE amount == Amount[operation]
           row == [operation |-> operation, after |-> balance']
<1>1. amount \in Int /\ Available \in Int /\ opening \in Int
    BY PointAssumption, AvailableType
<1>2. /\ posted' = posted \cup {operation} /\ balance' = Available + amount
      /\ ledger' = Append(ledger, row) /\ operation \notin posted
      /\ UNCHANGED <<opening, compensated, issue, review, scan, asking, desk, scans, drift>>
    BY DEF Post, Fresh
<1> HIDE DEF amount
<1>3. balance' \in Int /\ balance' # Absent
    BY <1>1, <1>2, PointAssumption
<1>4. row \in Rows
    BY <1>3 DEF Rows
<1> HIDE DEF row
<1>5. PointTypes'
    <2>1. ledger' \in Seq(Rows)
        BY <1>2, <1>4 DEF PointInv, PointTypes
    <2> QED BY <1>2, <1>3, <2>1 DEF PointInv, PointTypes
<1>6. BalanceIsExplained'
    <2> DEFINE comp == IF compensated = Absent THEN 0 ELSE compensated
    <2>1. AmountOf[posted'] = amount + AmountOf[posted]
        BY <1>2, AmountOfOneMore DEF amount, PointInv, PointTypes
    <2>2. AmountOf[posted] \in Int
        BY AmountOfType DEF PointInv, PointTypes
    <2>3. comp \in Int /\ drift \in Int
        BY DEF PointInv, PointTypes
    <2>4. Available = opening + AmountOf[posted] + drift + comp
        <3>1. CASE balance = Absent
            <4>1. posted = {} /\ drift = 0 /\ compensated = Absent /\ Available = opening
                BY <3>1, AvailableType DEF PointInv, Unopened
            <4>2. AmountOf[posted] = 0 /\ comp = 0
                BY <4>1, AmountOfNone
            <4> HIDE DEF comp
            <4> QED BY ONLY <1>1, <4>1, <4>2
        <3>2. CASE balance # Absent
            BY <3>2 DEF PointInv, BalanceIsExplained, Available
        <3> QED BY <3>1, <3>2
    <2>5. balance' = opening' + AmountOf[posted'] + drift' + comp'
        <3>1. comp' = comp /\ opening' = opening /\ drift' = drift
            BY <1>2
        <3> HIDE DEF comp
        <3> QED BY <1>1, <1>2, <2>1, <2>2, <2>3, <2>4, <3>1
    <2> QED BY <2>5 DEF BalanceIsExplained
<1> QED BY <1>2, <1>3, <1>5, <1>6 DEF PointInv, Unopened, AccountSeen

LEMMA DriftInv == ASSUME PointInv, Drift PROVE PointInv'
<1>1. PICK d \in {-1, 1} : drift' = drift + d /\ balance' = balance + d
    BY DEF Drift
<1>2. /\ balance \in Int /\ drift \in Int /\ balance # Absent
      /\ UNCHANGED <<opening, ledger, posted, compensated, issue, review, scan, asking, desk, scans>>
    BY DEF Drift, PointInv, PointTypes
<1>3. balance' \in Int /\ drift' \in Int /\ balance' # Absent
    BY <1>1, <1>2, PointAssumption
<1>4. PointTypes'
    BY <1>2, <1>3 DEF PointInv, PointTypes
<1>5. BalanceIsExplained'
    <2> DEFINE comp == IF compensated = Absent THEN 0 ELSE compensated
               sum == AmountOf[posted]
    <2>1. comp \in Int /\ sum \in Int /\ opening \in Int
        BY AmountOfType, AvailableType DEF PointInv, PointTypes
    <2>2. balance = opening + sum + drift + comp
        BY <1>2 DEF PointInv, BalanceIsExplained
    <2>3. comp' = comp /\ AmountOf[posted'] = sum /\ opening' = opening
        BY <1>2
    <2>4. balance' = opening' + AmountOf[posted'] + drift' + comp'
        <3> HIDE DEF comp, sum
        <3> QED BY <1>1, <1>2, <2>1, <2>2, <2>3
    <2> QED BY <2>4 DEF BalanceIsExplained
<1> QED BY <1>2, <1>3, <1>4, <1>5 DEF PointInv, Unopened, AccountSeen

\* A step that leaves the books alone keeps the balance explained.
Books == <<balance, opening, ledger, posted, compensated, drift>>

LEMMA BooksAlone ==
    ASSUME PointInv, UNCHANGED Books
    PROVE  Unopened' /\ BalanceIsExplained'
BY DEF PointInv, Books, Unopened, BalanceIsExplained

LEMMA ScanInv ==
    ASSUME PointInv, ScanRows \/ ScanAccounts \/ ScanIssues \/ ScanWrite
    PROVE  PointInv'
<1>1. UNCHANGED Books /\ UNCHANGED <<review, asking, desk>>
    BY DEF Books, ScanRows, ScanAccounts, ScanIssues, ScanWrite
<1>2. scan \in Scans /\ issue \in Issues
    BY DEF PointInv, PointTypes
<1>3. scan' \in Scans /\ issue' \in Issues /\ scans' \in 0..MaxScans
    <2>1. CASE ScanRows
        <3> DEFINE read == [scan EXCEPT !.expected = Latest]
        <3>1. Latest \in Int
            BY AvailableType
        <3>2. read \in Scans
            BY ONLY <1>2, <3>1 DEF Scans
        <3>3. scan' = [read EXCEPT !.pc = "rows"]
            BY ONLY <2>1, <1>2 DEF ScanRows, Scans
        <3> HIDE DEF read
        <3>4. scan' \in Scans
            BY ONLY <3>2, <3>3 DEF Scans
        <3> QED BY <1>2, <2>1, <3>4, PointAssumption DEF ScanRows, PointInv, PointTypes
    <2>2. CASE ScanAccounts
        <3> DEFINE read == [scan EXCEPT !.actual = balance]
        <3>1. balance \in Int \cup {Absent}
            BY DEF PointInv, PointTypes
        <3>2. read \in Scans
            BY ONLY <1>2, <3>1 DEF Scans
        <3>3. scan' = [read EXCEPT !.pc = "accounts"]
            BY ONLY <2>2, <1>2 DEF ScanAccounts, Scans
        <3> HIDE DEF read
        <3>4. scan' \in Scans
            BY ONLY <3>2, <3>3 DEF Scans
        <3> QED BY <1>2, <2>2, <3>4 DEF ScanAccounts, PointInv, PointTypes
    <2>3. CASE ScanIssues
        <3> DEFINE read == [scan EXCEPT !.before = issue]
        <3>2. read \in Scans
            BY ONLY <1>2 DEF Scans
        <3>3. scan' = [read EXCEPT !.pc = "issues"]
            BY ONLY <2>3, <1>2 DEF ScanIssues, Scans
        <3> HIDE DEF read
        <3>4. scan' \in Scans
            BY ONLY <3>2, <3>3 DEF Scans
        <3> QED BY <1>2, <2>3, <3>4 DEF ScanIssues, PointInv, PointTypes
    <2>4. CASE ScanWrite
        <3>1. scan' \in Scans
            BY <2>4 DEF ScanWrite, NoScan, NoIssue, Scans, Issues
        <3>2. scan.expected \in Int /\ (scan.actual # Absent => scan.actual \in Int)
            BY <1>2 DEF Scans
        <3>3. issue' \in Issues
            <4>1. CASE scan.actual # scan.expected
                <5>1. issue' =
                        [status |-> IF scan.before.status = "repair_pending"
                                    THEN "repair_pending" ELSE "open",
                         expected |-> scan.expected,
                         actual |-> IF scan.actual = Absent THEN 0 ELSE scan.actual]
                    BY <2>4, <4>1 DEF ScanWrite
                <5> QED BY <3>2, <5>1 DEF Issues
            <4>2. CASE scan.actual = scan.expected
                <5>1. issue' = issue \/ issue' = [issue EXCEPT !.status = "resolved"]
                    BY <2>4, <4>2 DEF ScanWrite
                <5> QED BY ONLY <1>2, <5>1 DEF Issues
            <4> QED BY <4>1, <4>2
        <3> QED BY <2>4, <3>1, <3>3 DEF ScanWrite, PointInv, PointTypes
    <2> QED BY <2>1, <2>2, <2>3, <2>4
<1>4. PointTypes'
    BY <1>1, <1>3 DEF PointInv, PointTypes, Books
<1>5. AccountSeen'
    BY <1>1 DEF PointInv, AccountSeen, Books
<1> QED BY <1>1, <1>4, <1>5, BooksAlone DEF PointInv

LEMMA RequestInv == ASSUME PointInv, RequestRead \/ RequestRepair PROVE PointInv'
<1>1. UNCHANGED Books /\ UNCHANGED <<scan, desk, scans>>
    BY DEF Books, RequestRead, RequestRepair
<1>2. issue \in Issues
    BY DEF PointInv, PointTypes
<1>3. issue' = issue \/ issue' = [issue EXCEPT !.status = "repair_pending"]
    BY DEF RequestRead, RequestRepair
<1>4. issue' \in Issues
    BY ONLY <1>2, <1>3 DEF Issues
<1>5. asking' \in BOOLEAN /\ review' \in {"none", "pending", "approve", "reject"}
    BY DEF RequestRead, RequestRepair, PointInv, PointTypes
<1>6. PointTypes'
    BY <1>1, <1>4, <1>5 DEF PointInv, PointTypes, Books
<1>7. AccountSeen'
    BY <1>1 DEF PointInv, AccountSeen, Books
<1> QED BY <1>1, <1>6, <1>7, BooksAlone DEF PointInv

\* What one reviewer's row becomes, the others' stay.
LEMMA DeskStep ==
    ASSUME PointInv, NEW r \in Reviewers, NEW row \in Desks,
           desk' = [desk EXCEPT ![r] = row], row.pc = "account" => balance # Absent,
           balance # Absent => balance' # Absent
    PROVE  desk' \in [Reviewers -> Desks] /\ AccountSeen'
BY DEF PointInv, PointTypes, AccountSeen

LEMMA ReviewReadInv == ASSUME PointInv, NEW r \in Reviewers, ReviewRead(r) PROVE PointInv'
<1> DEFINE read == [desk[r] EXCEPT !.issue = issue]
           row == [read EXCEPT !.pc = "read"]
<1>1. desk[r] \in Desks /\ issue \in Issues
    BY DEF PointInv, PointTypes
<1>2. read \in Desks
    BY ONLY <1>1 DEF Desks
<1>3. desk' = [desk EXCEPT ![r] = row]
    <2>1. row = [desk[r] EXCEPT !.pc = "read", !.issue = issue]
        BY ONLY <1>1 DEF Desks
    <2> HIDE DEF row
    <2> QED BY <2>1 DEF ReviewRead, PointInv, PointTypes
<1> HIDE DEF read
<1>4. row \in Desks /\ row.pc = "read"
    BY ONLY <1>2 DEF Desks
<1>5. UNCHANGED Books /\ UNCHANGED <<issue, review, scan, asking, scans>>
    BY DEF ReviewRead, Books
<1> HIDE DEF row
<1>6. desk' \in [Reviewers -> Desks] /\ AccountSeen'
    <2>1. balance' = balance
        BY <1>5 DEF Books
    <2> QED BY <1>3, <1>4, <2>1, DeskStep
<1>7. PointTypes'
    BY <1>5, <1>6 DEF PointInv, PointTypes, Books
<1> QED BY <1>5, <1>6, <1>7, BooksAlone DEF PointInv

LEMMA EmptyDeskType == EmptyDesk \in Desks /\ EmptyDesk.pc = "idle"
BY DEF EmptyDesk, NoIssue, Desks, Issues

LEMMA ReviewRejectInv == ASSUME PointInv, NEW r \in Reviewers, ReviewReject(r) PROVE PointInv'
<1>1. /\ UNCHANGED Books /\ UNCHANGED <<scan, asking, scans>>
      /\ review' = "reject" /\ issue' = [issue EXCEPT !.status = "open"]
      /\ desk' = [desk EXCEPT ![r] = EmptyDesk]
    BY DEF ReviewReject, Books
<1>2. issue' \in Issues
    <2>1. issue \in Issues
        BY DEF PointInv, PointTypes
    <2> QED BY ONLY <1>1, <2>1 DEF Issues
<1>3. desk' \in [Reviewers -> Desks] /\ AccountSeen'
    <2>1. balance' = balance
        BY <1>1 DEF Books
    <2> QED BY <1>1, <2>1, EmptyDeskType, DeskStep
<1>4. PointTypes'
    BY <1>1, <1>2, <1>3 DEF PointInv, PointTypes, Books
<1> QED BY <1>1, <1>3, <1>4, BooksAlone DEF PointInv

LEMMA ReviewAccountInv == ASSUME PointInv, NEW r \in Reviewers, ReviewAccount(r) PROVE PointInv'
<1>1. UNCHANGED Books /\ UNCHANGED <<issue, review, scan, asking, scans>>
    BY DEF ReviewAccount, Books
<1>2. PICK row \in Desks : /\ desk' = [desk EXCEPT ![r] = row]
                           /\ row.pc = "account" => balance # Absent
    <2>1. CASE desk' = [desk EXCEPT ![r] = EmptyDesk]
        BY <2>1, EmptyDeskType
    <2>2. CASE desk' # [desk EXCEPT ![r] = EmptyDesk]
        <3> DEFINE checked == [desk[r] EXCEPT !.balance = balance]
                   row == [checked EXCEPT !.pc = "account"]
        <3>1. desk[r] \in Desks /\ balance # Absent /\ balance \in Int
            BY <2>2 DEF ReviewAccount, PointInv, PointTypes
        <3>2. checked \in Desks
            BY ONLY <3>1 DEF Desks
        <3>3. desk' = [desk EXCEPT ![r] = [@ EXCEPT !.pc = "account", !.balance = balance]]
            BY <2>2 DEF ReviewAccount
        <3>4. row = [desk[r] EXCEPT !.pc = "account", !.balance = balance]
            BY ONLY <3>1 DEF Desks
        <3>5. desk' = [desk EXCEPT ![r] = row]
            BY ONLY <3>3, <3>4
        <3> HIDE DEF checked
        <3>6. row \in Desks
            BY ONLY <3>2 DEF Desks
        <3> HIDE DEF row
        <3> QED BY <3>1, <3>5, <3>6
    <2> QED BY <2>1, <2>2
<1>3. desk' \in [Reviewers -> Desks] /\ AccountSeen'
    <2>1. balance' = balance
        BY <1>1 DEF Books
    <2> QED BY <1>2, <2>1, DeskStep
<1>4. PointTypes'
    BY <1>1, <1>3 DEF PointInv, PointTypes, Books
<1> QED BY <1>1, <1>3, <1>4, BooksAlone DEF PointInv

LEMMA ReviewApproveInv == ASSUME PointInv, NEW r \in Reviewers, ReviewApprove(r) PROVE PointInv'
<1> DEFINE delta == desk[r].issue.expected - desk[r].balance
<1>1. /\ UNCHANGED <<opening, ledger, posted, scan, asking, scans, drift>>
      /\ desk' = [desk EXCEPT ![r] = EmptyDesk]
    BY DEF ReviewApprove
<1>2. balance # Absent /\ balance \in Int
    BY DEF ReviewApprove, PointInv, PointTypes, AccountSeen
<1>3. delta \in Int
    <2>1. desk[r] \in Desks
        BY DEF PointInv, PointTypes
    <2>2. desk[r].issue.expected \in Int /\ desk[r].balance \in Int
        BY ONLY <2>1 DEF Desks, Issues
    <2> QED BY <2>2
<1>4. /\ issue' = issue \/ issue' = [issue EXCEPT !.status = "resolved"]
      /\ review' \in {review, "approve"}
      /\ \/ UNCHANGED <<balance, compensated>>
         \/ compensated = Absent /\ compensated' = delta /\ balance' = balance + delta
    BY Zenon DEF ReviewApprove
<1> HIDE DEF delta
<1>5. /\ balance' \in Int /\ balance' # Absent
      /\ compensated' \in Int \cup {Absent}
    BY <1>2, <1>3, <1>4, PointAssumption DEF PointInv, PointTypes
<1>6. issue' \in Issues
    <2>1. issue \in Issues
        BY DEF PointInv, PointTypes
    <2> QED BY ONLY <1>4, <2>1 DEF Issues
<1>7. desk' \in [Reviewers -> Desks] /\ AccountSeen'
    BY <1>1, <1>5, EmptyDeskType, DeskStep
<1>8. PointTypes'
    BY <1>1, <1>4, <1>5, <1>6, <1>7 DEF PointInv, PointTypes
<1>9. BalanceIsExplained'
    <2> DEFINE comp == IF compensated = Absent THEN 0 ELSE compensated
               sum == AmountOf[posted]
    <2>1. comp \in Int /\ sum \in Int /\ opening \in Int /\ drift \in Int
        BY AmountOfType, AvailableType DEF PointInv, PointTypes
    <2>2. balance = opening + sum + drift + comp
        BY <1>2 DEF PointInv, BalanceIsExplained
    <2>3. AmountOf[posted'] = sum /\ opening' = opening /\ drift' = drift
        BY <1>1
    <2>4. balance' = opening + sum + drift + comp'
        <3>1. CASE UNCHANGED <<balance, compensated>>
            BY <2>2, <3>1
        <3>2. CASE compensated = Absent /\ compensated' = delta /\ balance' = balance + delta
            <4>1. comp = 0 /\ comp' = delta
                BY <1>3, <3>2, PointAssumption
            <4> HIDE DEF comp, sum
            <4> QED BY <1>2, <1>3, <2>1, <2>2, <3>2, <4>1
        <3> QED BY <1>4, <3>1, <3>2
    <2> HIDE DEF comp, sum
    <2>5. balance' = opening' + AmountOf[posted'] + drift' + comp'
        BY ONLY <2>3, <2>4
    <2> QED BY <2>5 DEF BalanceIsExplained, comp
<1> QED BY <1>5, <1>7, <1>8, <1>9 DEF PointInv, Unopened

LEMMA PointStepInv == PointInv /\ [PointNext]_pointVars => PointInv'
<1> SUFFICES ASSUME PointInv, [PointNext]_pointVars PROVE PointInv'
    OBVIOUS
<1>1. CASE UNCHANGED pointVars
    <2>1. PointTypes'
        BY <1>1 DEF pointVars, PointInv, PointTypes
    <2>2. UNCHANGED Books /\ AccountSeen'
        BY <1>1 DEF pointVars, PointInv, AccountSeen, Books
    <2> QED BY <2>1, <2>2, BooksAlone DEF PointInv
<1>2. ASSUME NEW operation \in Operations, Post(operation) PROVE PointInv'
    BY <1>2, PostInv
<1>3. CASE Drift
    BY <1>3, DriftInv
<1>4. CASE ScanRows \/ ScanAccounts \/ ScanIssues \/ ScanWrite
    BY <1>4, ScanInv
<1>5. CASE RequestRead \/ RequestRepair
    BY <1>5, RequestInv
<1>6. ASSUME NEW r \in Reviewers,
             ReviewRead(r) \/ ReviewReject(r) \/ ReviewAccount(r) \/ ReviewApprove(r)
      PROVE  PointInv'
    BY <1>6, ReviewReadInv, ReviewRejectInv, ReviewAccountInv, ReviewApproveInv
<1> QED BY <1>1, <1>2, <1>3, <1>4, <1>5, <1>6 DEF PointNext

THEOREM PointInvariant == PointSpec => []PointInv
<1> QED BY PointInitInv, PointStepInv, PTL DEF PointSpec

\* The account, its ledger and the repair keep their types.
THEOREM PointTypeCorrect == PointSpec => []PointTypeOK
<1>1. PointInv => PointTypeOK
    BY PointTypesCheck DEF PointInv
<1> QED BY <1>1, PointInvariant, PTL

\* However calls are repeated and scans and reviewers overlap, the snapshot is the opening
\* balance plus every operation once, plus the compensation once, plus what was written
\* beside them: applyPrismaAccountingOperation, scanAccounting, reviewRepair.
THEOREM PointBalanceIsExplained == PointSpec => []BalanceIsExplained
<1>1. PointInv => BalanceIsExplained
    BY DEF PointInv
<1> QED BY <1>1, PointInvariant, PTL

-----------------------------------------------------------------------------
(* The composition *)

\* A step of the composition is a step of each of its components, or leaves it alone.
THEOREM ServicesComponents ==
    ServicesSpec =>
        Spec /\ MailSpec /\ SearchSpec /\ PointSpec /\ SessionSpec /\ LinkSpec /\ RightsSpec
<1>1. ServicesInit =>
        Init /\ MailInit /\ SearchInit /\ PointInit /\ SessionInit /\ LinkInit /\ RightsInit
    BY DEF ServicesInit
<1>2. [ServicesNext]_<<part, vars, mailVars, searchVars, pointVars, sessionVars, linkVars,
                       rightsVars>> =>
        /\ [Next]_vars /\ [MailNext]_mailVars /\ [SearchNext]_searchVars
        /\ [PointNext]_pointVars /\ [SessionNext]_sessionVars /\ [LinkNext]_linkVars
        /\ [RightsNext]_rightsVars
    BY Zenon DEF ServicesNext, Rests
<1> QED
    BY <1>1, <1>2, PTL DEF ServicesSpec, Spec, MailSpec, SearchSpec, PointSpec, SessionSpec,
                           LinkSpec, RightsSpec

\* The tables, queues, accounts and rounds of all of them keep their types.
THEOREM ServicesTypeCorrect == ServicesSpec => []ServicesTypeOK
<1>1. TypeOK /\ MailTypeOK /\ SearchTypeOK /\ PointTypeOK /\ SessionTypeOK /\ LinkTypeOK
      /\ RightsTypeOK => ServicesTypeOK
    BY DEF ServicesTypeOK
<1> QED
    BY <1>1, ServicesComponents, WebhookTypeCorrect, MailTypeCorrect, SearchTypeCorrect,
       PointTypeCorrect, SessionTypeCorrect, LinkTypeCorrect, RightsTypeCorrect, PTL
=============================================================================
