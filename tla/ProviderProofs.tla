---------------------------- MODULE ProviderProofs ----------------------------
(* Theorems of ProviderControl and ProviderRetries for any sets of dispatches   *)
(* and pollers, any threshold and any bounds.                                   *)
EXTENDS ProviderControl, ProviderRetries, TLAPS

-----------------------------------------------------------------------------
(* The retries of a provider's status reads *)

\* The row's attempts are the failures in a row, one per version at most
AttemptsCounted ==
    /\ retry.status \in {"none", "cleared"} => failures = 0
    /\ retry.status \in {"scheduled", "exhausted"} => retry.attempt = failures
    /\ failures <= retry.version /\ retry.attempt <= retry.version

\* A version stands for one state of the row
VersionTells ==
    \A p \in Pollers : poller[p].pc \in {"scheduling", "clearing"} =>
        /\ poller[p].row.version <= retry.version
        /\ poller[p].row.version = retry.version => poller[p].row = retry

RetryInv == RetryTypeOK /\ AttemptsCounted /\ VersionTells /\ RetryBudget

\* Where a poller may be, and what it has read
PollerRow == [pc: {"idle", "polling", "failed", "scheduling", "succeeded", "clearing"},
              row: RetryRow]

LEMMA NoRetryIsRow == NoRetry \in RetryRow
BY RetryAssumption DEF NoRetry, RetryRow

LEMMA InitRetryInv == RetryInit => RetryInv
<1> SUFFICES ASSUME RetryInit PROVE RetryInv
    OBVIOUS
<1>1. retry \in RetryRow /\ failures \in 0..RetryVersions
    BY NoRetryIsRow, RetryAssumption DEF RetryInit
<1>2. poller \in [Pollers -> PollerRow]
    BY NoRetryIsRow DEF RetryInit, PollerRow
<1>3. AttemptsCounted /\ VersionTells /\ RetryBudget
    BY DEF RetryInit, NoRetry, AttemptsCounted, VersionTells, RetryBudget
<1> QED BY <1>1, <1>2, <1>3 DEF RetryInit, RetryInv, RetryTypeOK, PollerRow

\* A poller goes on and the row stays as it is.
LEMMA PollerMoves ==
    ASSUME RetryInv, UNCHANGED <<retry, due, failures>>, NEW p \in Pollers,
           NEW from, NEW to \in {"idle", "polling", "failed", "scheduling", "succeeded", "clearing"},
           \/ to \notin {"scheduling", "clearing"} /\ PollerGoes(p, from, to)
           \/ PollerReads(p, from, to)
    PROVE  RetryInv'
<1> USE RetryAssumption DEF RetryInv, RetryTypeOK, PollerGoes, PollerReads
<1>1. RetryTypeOK'
    BY DEF RetryRow, NoRetry
<1>2. VersionTells'
    BY DEF VersionTells, RetryRow, NoRetry
<1>3. AttemptsCounted' /\ RetryBudget'
    BY DEF AttemptsCounted, RetryBudget
<1> QED BY <1>1, <1>2, <1>3

\* A poller writes the row, which nobody has written since it read it.
LEMMA RecordKeeps ==
    ASSUME RetryInv, NEW p \in Pollers, RecordRetry(p)
    PROVE  RetryInv'
<1> DEFINE n == AttemptAfter(poller[p].row)
<1> USE RetryAssumption DEF RetryInv, RetryTypeOK
<1>1. poller[p].row = retry /\ poller[p].pc = "scheduling"
    BY DEF RecordRetry, RowUnchanged, PollerGoes, VersionTells
<1>2. n = failures + 1 /\ n \in 1..RetryVersions /\ n <= retry.version + 1
    BY <1>1 DEF RecordRetry, AttemptAfter, AttemptsCounted, RetryRow
<1> HIDE DEF n
<1>3. PICK status \in MayBecome(n) :
        retry' = [status |-> status, attempt |-> n, version |-> retry.version + 1]
    BY DEF RecordRetry, n
<1>4. status \in {"scheduled", "exhausted"} /\ (status = "scheduled" => n < MaxReads)
    BY <1>3 DEF MayBecome
<1>5. failures' = failures + 1 /\ due' = FALSE /\ retry.version < RetryVersions
    BY DEF RecordRetry
<1>6. poller' = [poller EXCEPT ![p] = [pc |-> "idle", row |-> NoRetry]]
    BY DEF RecordRetry, PollerGoes
<1>7. RetryTypeOK'
    <2>1. retry' \in RetryRow
        BY <1>2, <1>3, <1>4, <1>5 DEF RetryRow
    <2>2. failures' \in 0..RetryVersions
        BY <1>1, <1>2, <1>5
    <2>3. poller' \in [Pollers -> PollerRow]
        BY <1>6, NoRetryIsRow DEF PollerRow
    <2> QED BY <2>1, <2>2, <2>3, <1>5 DEF PollerRow
<1>8. AttemptsCounted' /\ RetryBudget'
    BY <1>2, <1>3, <1>4, <1>5 DEF AttemptsCounted, RetryBudget, RetryRow
<1>9. VersionTells'
    BY <1>3, <1>6 DEF VersionTells, RetryRow
<1> QED BY <1>7, <1>8, <1>9

LEMMA ClearKeeps ==
    ASSUME RetryInv, NEW p \in Pollers, Clear(p)
    PROVE  RetryInv'
<1> USE RetryAssumption DEF RetryInv, RetryTypeOK
<1>1. retry' = [retry EXCEPT !.status = "cleared", !.version = @ + 1]
    BY DEF Clear
<1>2. poller' = [poller EXCEPT ![p] = [pc |-> "idle", row |-> NoRetry]]
    BY DEF Clear, PollerGoes
<1>3. failures' = 0 /\ due' = FALSE /\ retry.version < RetryVersions
    BY DEF Clear
<1>4. RetryTypeOK'
    <2>1. retry' = [status |-> "cleared", attempt |-> retry.attempt,
                    version |-> retry.version + 1]
        BY <1>1 DEF RetryRow
    <2>2. retry.version + 1 \in 0..RetryVersions /\ retry.attempt \in 0..RetryVersions
        BY <1>3 DEF RetryRow
    <2>3. retry' \in RetryRow
        BY <2>1, <2>2 DEF RetryRow
    <2>4. poller' \in [Pollers -> PollerRow]
        BY <1>2, NoRetryIsRow DEF PollerRow
    <2>5. 0 \in 0..RetryVersions
        BY RetryAssumption
    <2>6. failures' \in 0..RetryVersions /\ due' \in BOOLEAN
        BY <1>3, <2>5
    <2> QED BY <2>3, <2>4, <2>6 DEF PollerRow
<1>5. AttemptsCounted' /\ RetryBudget'
    BY <1>1, <1>3 DEF AttemptsCounted, RetryBudget, RetryRow
<1>6. VersionTells'
    BY <1>1, <1>2 DEF VersionTells, RetryRow
<1> QED BY <1>4, <1>5, <1>6

LEMMA RetryInvariant == RetrySpec => []RetryInv
<1>1. RetryInv /\ [RetryNext]_retryVars => RetryInv'
    <2> SUFFICES ASSUME RetryInv, [RetryNext]_retryVars PROVE RetryInv'
        OBVIOUS
    <2>1. CASE ComesDue
        BY <2>1 DEF ComesDue, RetryInv, RetryTypeOK, AttemptsCounted, VersionTells, RetryBudget
    <2>2. ASSUME NEW p \in Pollers, Poll(p) \/ PollAnswered(p) \/ RecordConflict(p)
                                    \/ ClearConflict(p)
          PROVE  RetryInv'
        BY <2>2, PollerMoves DEF Poll, PollAnswered, RecordConflict, ClearConflict
    <2>3. ASSUME NEW p \in Pollers, FindToSchedule(p) \/ FindToClear(p) PROVE RetryInv'
        BY <2>3, PollerMoves DEF FindToSchedule, FindToClear
    <2>4. CASE UNCHANGED retryVars
        BY <2>4 DEF retryVars, RetryInv, RetryTypeOK, AttemptsCounted, VersionTells, RetryBudget
    <2> QED BY <2>1, <2>2, <2>3, <2>4, RecordKeeps, ClearKeeps DEF RetryNext
<1> QED BY <1>1, InitRetryInv, PTL DEF RetrySpec

\* The retry row, what the pollers have read of it and the failures keep their types.
THEOREM RetryTypeCorrect == RetrySpec => []RetryTypeOK
<1>1. RetryInv => RetryTypeOK
    BY DEF RetryInv
<1> QED BY <1>1, RetryInvariant, PTL

\* A scheduled retry has counted every failure since the last success and they are fewer
\* than the policy allows, for any number of pollers.
THEOREM RetryKeepsBudget == RetrySpec => []RetryBudget
<1>1. RetryInv => RetryBudget
    BY DEF RetryInv
<1> QED BY <1>1, RetryInvariant, PTL

-----------------------------------------------------------------------------
(* The tokens of a provider's circuit *)

\* A token is the version that issued it, so that none is met before it is issued.
TokensAreIssued ==
    /\ circuit.token <= circuit.version
    /\ \A d \in Dispatches : dispatch[d].token <= circuit.version
    /\ \A t \in 1..CircuitVersions : t > circuit.version => probes[t] = 0

\* The circuit's token is unspent, and a claimed one has one holder, who has not been sent.
TokensAreSpentOnce ==
    /\ circuit.token # 0 => probes[circuit.token] = 0
    /\ \A d \in Dispatches : dispatch[d].probe = "claimed" =>
        /\ dispatch[d].token # 0 /\ dispatch[d].token # circuit.token
        /\ probes[dispatch[d].token] = 0
    /\ \A d1, d2 \in Dispatches :
        d1 # d2 /\ dispatch[d1].probe = "claimed" /\ dispatch[d2].probe = "claimed" =>
            dispatch[d1].token # dispatch[d2].token

ControlInv == ControlTypeOK /\ TokensAreIssued /\ TokensAreSpentOnce /\ OneProbe

CircuitRow == [status: {"closed", "open", "half_open"}, version: 1..CircuitVersions,
               failures: 0..Threshold, succeeded: BOOLEAN, token: 0..CircuitVersions]

Recoveries == [target: {"enable", "half_open", "closed"}, version: Nat,
               reason: BOOLEAN, ahead: BOOLEAN, stands: BOOLEAN]

SwitchRow == [enabled: BOOLEAN, version: 1..ControlVersions]

LEMMA ControlTypeParts ==
    ControlTypeOK <=>
        /\ switch \in SwitchRow /\ circuit \in CircuitRow
        /\ dispatch \in [Dispatches -> DispatchRow]
        /\ recovery \subseteq Recoveries /\ proved \in BOOLEAN
        /\ probes \in [1..CircuitVersions -> Nat]
BY DEF ControlTypeOK, SwitchRow, CircuitRow, Recoveries

LEMMA NewDispatchIsRow == NewDispatch \in DispatchRow
BY ControlAssumption DEF NewDispatch, DispatchRow

LEMMA SentIsRow == [NewDispatch EXCEPT !.pc = "sent"] \in DispatchRow
<1>1. [NewDispatch EXCEPT !.pc = "sent"] =
        [pc |-> "sent", allowed |-> "unread", circuit |-> "unread", token |-> 0,
         probe |-> "untried"]
    BY DEF NewDispatch
<1> QED BY <1>1, ControlAssumption DEF DispatchRow

LEMMA InitControlInv == ControlInit => ControlInv
<1> SUFFICES ASSUME ControlInit PROVE ControlInv
    OBVIOUS
<1>1. switch \in SwitchRow /\ circuit \in CircuitRow
    BY ControlAssumption DEF ControlInit, SwitchRow, CircuitRow
<1>2. dispatch \in [Dispatches -> DispatchRow]
    BY NewDispatchIsRow DEF ControlInit
<1>3. recovery \subseteq Recoveries /\ proved \in BOOLEAN
      /\ probes \in [1..CircuitVersions -> Nat]
    BY DEF ControlInit
<1>4. TokensAreIssued /\ TokensAreSpentOnce /\ OneProbe
    BY ControlAssumption DEF ControlInit, NewDispatch, TokensAreIssued, TokensAreSpentOnce,
        OneProbe
<1> QED BY <1>1, <1>2, <1>3, <1>4, ControlTypeParts DEF ControlInv

\* The recoveries stay recoveries when what they were requested for is over.
LEMMA OvertakenKeeps ==
    ASSUME NEW targets, recovery \subseteq Recoveries, Overtaken(targets)
    PROVE  recovery' \subseteq Recoveries
<1>1. \A q \in Recoveries : [q EXCEPT !.stands = FALSE] \in Recoveries
    BY DEF Recoveries
<1> QED BY <1>1 DEF Overtaken

\* The circuit is written: its version grows, and its token stays, goes or is the new version.
LEMMA CircuitKeeps ==
    ASSUME ControlInv, UNCHANGED probes, circuit' \in CircuitRow,
           circuit'.version >= circuit.version,
           \/ circuit'.token \in {0, circuit.token}
           \/ circuit'.token = circuit.version + 1 /\ circuit'.version > circuit.version,
           \/ UNCHANGED dispatch
           \/ \E d \in Dispatches : dispatch' = [dispatch EXCEPT ![d] = NewDispatch]
    PROVE  dispatch' \in [Dispatches -> DispatchRow] /\ TokensAreIssued'
           /\ TokensAreSpentOnce' /\ OneProbe'
<1> USE ControlAssumption, ControlTypeParts DEF ControlInv
<1>1. dispatch' \in [Dispatches -> DispatchRow]
    BY NewDispatchIsRow
<1>2. \A d \in Dispatches : dispatch'[d] \in {dispatch[d], NewDispatch}
    OBVIOUS
<1>3. circuit.version \in 1..CircuitVersions /\ circuit.token \in 0..CircuitVersions
      /\ circuit'.version \in 1..CircuitVersions /\ circuit'.token \in 0..CircuitVersions
    BY DEF CircuitRow
<1>4. \A d \in Dispatches : dispatch[d].token \in 0..CircuitVersions
    BY DEF DispatchRow
<1>5. NewDispatch.token = 0 /\ NewDispatch.probe = "untried"
    BY DEF NewDispatch
<1>6. TokensAreIssued'
    <2>1. circuit'.token <= circuit'.version
        BY <1>3 DEF TokensAreIssued
    <2>2. \A d \in Dispatches : dispatch'[d].token <= circuit'.version
        BY <1>2, <1>3, <1>4, <1>5 DEF TokensAreIssued
    <2>3. \A t \in 1..CircuitVersions : t > circuit'.version => probes[t] = 0
        BY <1>3 DEF TokensAreIssued
    <2> QED BY <2>1, <2>2, <2>3 DEF TokensAreIssued
<1>7. TokensAreSpentOnce'
    <2>1. circuit'.token # 0 => probes[circuit'.token] = 0
        BY <1>3 DEF TokensAreIssued, TokensAreSpentOnce
    <2>2. \A d \in Dispatches : dispatch'[d].probe = "claimed" => dispatch'[d] = dispatch[d]
        BY <1>2, <1>5
    <2>3. ASSUME NEW d \in Dispatches, dispatch'[d].probe = "claimed"
          PROVE  /\ dispatch'[d].token # 0 /\ dispatch'[d].token # circuit'.token
                 /\ probes[dispatch'[d].token] = 0
        BY <2>2, <2>3, <1>3, <1>4 DEF TokensAreIssued, TokensAreSpentOnce
    <2>4. \A d1, d2 \in Dispatches :
            d1 # d2 /\ dispatch'[d1].probe = "claimed" /\ dispatch'[d2].probe = "claimed" =>
                dispatch'[d1].token # dispatch'[d2].token
        BY <2>2 DEF TokensAreSpentOnce
    <2> QED BY <2>1, <2>3, <2>4 DEF TokensAreSpentOnce
<1> QED BY <1>1, <1>6, <1>7 DEF OneProbe

\* A dispatch that has read something goes on: only the holder of a token is sent by it.
LEMMA GoOnKeeps ==
    ASSUME ControlInv, UNCHANGED <<switch, circuit, recovery, proved>>,
           NEW d \in Dispatches, NEW e \in DispatchRow, GoOn(d, e),
           e.pc = "checking", e.probe = dispatch[d].probe,
           e.probe # "untried" => e.token = dispatch[d].token,
           e.token <= circuit.version
    PROVE  ControlInv'
<1> USE ControlAssumption, ControlTypeParts DEF ControlInv
<1> DEFINE n == Decided(e)
<1>1. n \in DispatchRow /\ n.token <= circuit.version
      /\ (n.probe = "claimed" => n = e)
    <2>1. NewDispatch.token <= circuit.version /\ NewDispatch.probe # "claimed"
          /\ [NewDispatch EXCEPT !.pc = "sent"].token <= circuit.version
          /\ [NewDispatch EXCEPT !.pc = "sent"].probe # "claimed"
        BY DEF NewDispatch, CircuitRow
    <2> QED BY <2>1, NewDispatchIsRow, SentIsRow DEF Decided
<1>2. n.pc = "sent" /\ e.circuit = "half_open" =>
        e.probe = "claimed" /\ n.probe = "untried"
    BY DEF Decided, Allowed, NewDispatch
<1>3. dispatch' = [dispatch EXCEPT ![d] = n]
      /\ probes' = IF n.pc = "sent" /\ e.circuit = "half_open"
                   THEN [probes EXCEPT ![e.token] = @ + 1] ELSE probes
    BY DEF GoOn
<1> HIDE DEF n
<1>4. dispatch' \in [Dispatches -> DispatchRow]
    BY <1>1, <1>3
<1>5. circuit.token \in 0..CircuitVersions /\ circuit.version \in 1..CircuitVersions
      /\ e.token \in 0..CircuitVersions
      /\ \A x \in Dispatches : dispatch[x].token \in 0..CircuitVersions
    BY DEF CircuitRow, DispatchRow
<1>6. CASE n.pc = "sent" /\ e.circuit = "half_open"
    <2>1. dispatch[d].probe = "claimed" /\ e.token = dispatch[d].token /\ n.probe = "untried"
        BY <1>2, <1>6
    <2>2. /\ e.token \in 1..CircuitVersions /\ e.token # circuit.token /\ probes[e.token] = 0
          /\ \A x \in Dispatches \ {d} :
                dispatch[x].probe = "claimed" => dispatch[x].token # e.token
        BY <2>1, <1>5 DEF TokensAreSpentOnce
    <2>3. \A t \in 1..CircuitVersions : probes'[t] = IF t = e.token THEN 1 ELSE probes[t]
        BY <1>3, <1>6, <2>2
    <2>4. TokensAreIssued'
        BY <1>1, <1>3, <1>5, <2>3 DEF TokensAreIssued
    <2>5. TokensAreSpentOnce'
        BY <1>3, <1>5, <2>1, <2>2, <2>3 DEF TokensAreSpentOnce
    <2>6. OneProbe'
        BY <2>3 DEF OneProbe
    <2>7. probes' \in [1..CircuitVersions -> Nat]
        BY <1>3, <1>6, <2>2
    <2> QED BY <1>4, <2>4, <2>5, <2>6, <2>7 DEF ControlTypeOK
<1>7. CASE ~(n.pc = "sent" /\ e.circuit = "half_open")
    <2>1. probes' = probes
        BY <1>3, <1>7
    <2>2. TokensAreIssued' /\ OneProbe'
        BY <1>1, <1>3, <2>1 DEF TokensAreIssued, OneProbe
    <2>3. n.probe = "claimed" => n.token = dispatch[d].token /\ dispatch[d].probe = "claimed"
        BY <1>1
    <2>4. TokensAreSpentOnce'
        BY <1>3, <2>1, <2>3 DEF TokensAreSpentOnce
    <2> QED BY <1>4, <2>1, <2>2, <2>4 DEF ControlTypeOK
<1> QED BY <1>6, <1>7

LEMMA ReadsKeep ==
    ASSUME ControlInv, NEW d \in Dispatches, ReadControls(d) \/ ReadCircuit(d)
    PROVE  ControlInv'
<1> USE ControlAssumption, ControlTypeParts DEF ControlInv
<1>1. dispatch[d] \in DispatchRow /\ circuit \in CircuitRow
      /\ dispatch[d].token <= circuit.version /\ circuit.token <= circuit.version
    BY DEF TokensAreIssued
<1>2. CASE ReadControls(d)
    <2>1. PICK allowed \in {"yes", "no"} : GoOn(d, [dispatch[d] EXCEPT !.allowed = allowed])
        BY <1>2 DEF ReadControls
    <2> DEFINE e == [dispatch[d] EXCEPT !.allowed = allowed]
    <2>2. /\ e \in DispatchRow /\ e.pc = "checking" /\ e.probe = dispatch[d].probe
          /\ e.token = dispatch[d].token
        BY <1>1, <1>2 DEF ReadControls, DispatchRow
    <2> QED BY <1>1, <1>2, <2>1, <2>2, GoOnKeeps DEF ReadControls
<1>3. CASE ReadCircuit(d)
    <2>1. PICK t \in IF circuit.status = "half_open" /\ dispatch[d].probe = "untried"
                      THEN {0, circuit.token} ELSE {dispatch[d].token} :
            GoOn(d, [dispatch[d] EXCEPT !.circuit = circuit.status, !.token = t])
        BY <1>3 DEF ReadCircuit
    <2>2. t \in 0..CircuitVersions /\ t <= circuit.version
          /\ (dispatch[d].probe # "untried" => t = dispatch[d].token)
        BY <1>1, <2>1 DEF CircuitRow, DispatchRow
    <2> DEFINE e1 == [dispatch[d] EXCEPT !.circuit = circuit.status]
               e == [e1 EXCEPT !.token = t]
    <2>3. e1 \in DispatchRow /\ e1.pc = dispatch[d].pc /\ e1.probe = dispatch[d].probe
        BY <1>1 DEF DispatchRow, CircuitRow
    <2> HIDE DEF e1
    <2>4. e \in DispatchRow /\ e.pc = "checking" /\ e.probe = dispatch[d].probe /\ e.token = t
        BY <2>2, <2>3, <1>3 DEF DispatchRow, ReadCircuit
    <2>5. e = [dispatch[d] EXCEPT !.circuit = circuit.status, !.token = t]
        BY <1>1 DEF DispatchRow, e1
    <2>6. GoOn(d, e) /\ UNCHANGED <<switch, circuit, recovery, proved>>
        BY <2>1, <2>5, <1>3 DEF ReadCircuit
    <2> HIDE DEF e
    <2> QED BY <2>2, <2>4, <2>6, GoOnKeeps
<1> QED BY <1>2, <1>3

LEMMA ClaimKeeps ==
    ASSUME ControlInv, NEW d \in Dispatches, ClaimProbe(d)
    PROVE  ControlInv'
<1> USE ControlAssumption, ControlTypeParts DEF ControlInv
<1>1. dispatch[d] \in DispatchRow /\ circuit \in CircuitRow
      /\ dispatch[d].token # 0 /\ dispatch[d].token <= circuit.version
    BY DEF TokensAreIssued, ClaimProbe, MayClaim
<1>2. UNCHANGED <<switch, recovery, proved, probes>>
    BY DEF ClaimProbe
<1>3. CASE Claims(d) /\ CircuitMoves /\ circuit' = ClaimedCircuit
           /\ dispatch' = [dispatch EXCEPT ![d] =
                [@ EXCEPT !.probe = "claimed", !.circuit = "unread"]]
    <2> DEFINE e1 == [dispatch[d] EXCEPT !.probe = "claimed"]
               e == [e1 EXCEPT !.circuit = "unread"]
    <2>1. e1 \in DispatchRow /\ e1.probe = "claimed" /\ e1.token = dispatch[d].token
        BY <1>1 DEF DispatchRow
    <2>2. dispatch' = [dispatch EXCEPT ![d] = e]
        BY <1>1, <1>3 DEF DispatchRow
    <2> HIDE DEF e1
    <2>3. e \in DispatchRow /\ e.probe = "claimed" /\ e.token = dispatch[d].token
        BY <2>1 DEF DispatchRow
    <2> HIDE DEF e
    <2>4. dispatch' \in [Dispatches -> DispatchRow] /\ dispatch'[d] = e
          /\ \A x \in Dispatches \ {d} : dispatch'[x] = dispatch[x]
        BY <2>2, <2>3
    <2>5. circuit' \in CircuitRow /\ circuit'.token = 0 /\ circuit'.version = circuit.version + 1
        <3> DEFINE c1 == [circuit EXCEPT !.version = circuit.version + 1]
                   c2 == [c1 EXCEPT !.token = 0]
                   c3 == [c2 EXCEPT !.succeeded = FALSE]
        <3>1. c1 \in CircuitRow /\ c1.version = circuit.version + 1
            BY <1>1, <1>3 DEF CircuitRow, CircuitMoves
        <3>2. circuit' = c3
            BY <1>1, <1>3 DEF ClaimedCircuit, CircuitRow
        <3> HIDE DEF c1
        <3>3. c2 \in CircuitRow /\ c2.version = circuit.version + 1 /\ c2.token = 0
            BY ONLY <3>1, ControlAssumption DEF c2, CircuitRow
        <3> HIDE DEF c2
        <3> QED BY <3>2, <3>3 DEF CircuitRow
    <2>6. /\ dispatch[d].token = circuit.token /\ probes[circuit.token] = 0
          /\ \A x \in Dispatches : dispatch[x].probe = "claimed" =>
                dispatch[x].token # circuit.token
        BY <1>1, <1>3 DEF Claims, TokensAreSpentOnce
    <2>7. circuit.version \in 1..CircuitVersions /\ circuit.token \in 0..CircuitVersions
          /\ \A x \in Dispatches : dispatch[x].token \in 0..CircuitVersions
        BY DEF CircuitRow, DispatchRow
    <2>8. TokensAreIssued'
        <3>1. circuit'.token <= circuit'.version
            BY <2>5, <2>7
        <3>2. ASSUME NEW x \in Dispatches PROVE dispatch'[x].token <= circuit'.version
            <4>1. dispatch[x].token <= circuit.version /\ dispatch[d].token <= circuit.version
                BY DEF TokensAreIssued
            <4>2. dispatch'[x].token \in {dispatch[x].token, dispatch[d].token}
                BY <2>3, <2>4
            <4> QED BY <2>5, <2>7, <4>1, <4>2
        <3>3. ASSUME NEW t \in 1..CircuitVersions, t > circuit'.version PROVE probes'[t] = 0
            BY <1>2, <2>5, <2>7, <3>3 DEF TokensAreIssued
        <3> QED BY <3>1, <3>2, <3>3 DEF TokensAreIssued
    <2>9. TokensAreSpentOnce'
        <3>1. circuit'.token = 0
            BY <2>5
        <3>2. ASSUME NEW x \in Dispatches, dispatch'[x].probe = "claimed"
              PROVE  dispatch'[x].token # 0 /\ probes'[dispatch'[x].token] = 0
            <4>1. CASE x = d
                BY <1>1, <1>2, <2>3, <2>4, <2>6, <4>1
            <4>2. CASE x # d
                BY <1>2, <2>4, <3>2, <4>2 DEF TokensAreSpentOnce
            <4> QED BY <4>1, <4>2
        <3>3. ASSUME NEW x1 \in Dispatches, NEW x2 \in Dispatches, x1 # x2,
                     dispatch'[x1].probe = "claimed", dispatch'[x2].probe = "claimed"
              PROVE  dispatch'[x1].token # dispatch'[x2].token
            <4>1. CASE x1 = d
                BY <2>3, <2>4, <2>6, <3>3, <4>1
            <4>2. CASE x2 = d
                BY <2>3, <2>4, <2>6, <3>3, <4>2
            <4>3. CASE x1 # d /\ x2 # d
                BY <2>4, <3>3, <4>3 DEF TokensAreSpentOnce
            <4> QED BY <4>1, <4>2, <4>3
        <3> QED BY <3>1, <3>2, <3>3 DEF TokensAreSpentOnce
    <2> QED BY <1>2, <2>4, <2>5, <2>8, <2>9
            DEF ControlTypeOK, OneProbe, CircuitRow
<1>4. CASE UNCHANGED circuit /\ dispatch' = [dispatch EXCEPT ![d] =
                [@ EXCEPT !.probe = "refused", !.circuit = "unread", !.token = 0]]
    <2> DEFINE e1 == [dispatch[d] EXCEPT !.probe = "refused"]
               e2 == [e1 EXCEPT !.circuit = "unread"]
               e == [e2 EXCEPT !.token = 0]
    <2>1. e1 \in DispatchRow /\ e1.probe = "refused"
        BY <1>1 DEF DispatchRow
    <2>2. dispatch' = [dispatch EXCEPT ![d] = e]
        BY <1>1, <1>4 DEF DispatchRow
    <2> HIDE DEF e1
    <2>3. e2 \in DispatchRow /\ e2.probe = "refused"
        BY <2>1 DEF DispatchRow
    <2> HIDE DEF e2
    <2>4. e \in DispatchRow /\ e.probe = "refused" /\ e.token = 0
        BY ONLY <2>3, ControlAssumption DEF e, DispatchRow
    <2> HIDE DEF e
    <2>5. dispatch' \in [Dispatches -> DispatchRow] /\ dispatch'[d] = e
          /\ \A x \in Dispatches \ {d} : dispatch'[x] = dispatch[x]
        BY <2>2, <2>4
    <2>6. TokensAreIssued'
        BY <1>2, <1>4, <2>4, <2>5 DEF TokensAreIssued, CircuitRow
    <2>7. TokensAreSpentOnce'
        BY <1>2, <1>4, <2>4, <2>5 DEF TokensAreSpentOnce
    <2> QED BY <1>2, <1>4, <2>5, <2>6, <2>7 DEF ControlTypeOK, OneProbe
<1> QED BY <1>3, <1>4 DEF ClaimProbe

\* A result ends its dispatch and is written to the circuit, which keeps its token.
LEMMA ResultsKeep ==
    ASSUME ControlInv, NEW d \in Dispatches,
           \/ EndUncounted(d) \/ RecordSuccess(d)
           \/ \E incident \in BOOLEAN : RecordFailure(d, incident)
    PROVE  ControlInv'
<1> USE ControlAssumption, ControlTypeParts DEF ControlInv
<1>1. UNCHANGED <<switch, probes>> /\ dispatch' = [dispatch EXCEPT ![d] = NewDispatch]
    BY DEF EndUncounted, RecordSuccess, RecordFailure
<1>2. recovery' \subseteq Recoveries
    BY OvertakenKeeps DEF EndUncounted, RecordSuccess, RecordFailure
<1>3. proved' \in BOOLEAN
    BY DEF EndUncounted, RecordSuccess, RecordFailure
<1>4. circuit' \in CircuitRow /\ circuit'.version >= circuit.version
      /\ circuit'.token = circuit.token
    <2>1. CASE UNCHANGED circuit
        BY <2>1 DEF CircuitRow
    <2> DEFINE c1 == [circuit EXCEPT !.version = circuit.version + 1]
    <2>2. CircuitMoves => c1 \in CircuitRow /\ c1.version = circuit.version + 1
                          /\ c1.token = circuit.token
        BY DEF CircuitRow, CircuitMoves
    <2>3. CASE RecordSuccess(d) /\ circuit.status # "open"
        <3> DEFINE c2 == [c1 EXCEPT !.failures =
                            IF circuit.status = "closed" THEN 0 ELSE circuit.failures]
                   c3 == [c2 EXCEPT !.succeeded = (circuit.status = "half_open")]
        <3>1. circuit' = c3 /\ CircuitMoves
            BY <2>3 DEF RecordSuccess, CircuitRow
        <3> HIDE DEF c1
        <3>2. c2 \in CircuitRow /\ c2.version = circuit.version + 1
              /\ c2.token = circuit.token
            <4>1. c1 \in CircuitRow /\ c1.version = circuit.version + 1
                  /\ c1.token = circuit.token /\ circuit \in CircuitRow
                BY <2>2, <3>1
            <4> QED BY ONLY <4>1, ControlAssumption DEF c2, CircuitRow
        <3> HIDE DEF c2
        <3>3. circuit.version + 1 >= circuit.version
            BY DEF CircuitRow
        <3> QED BY <3>1, <3>2, <3>3 DEF CircuitRow
    <2>4. ASSUME NEW incident \in BOOLEAN, RecordFailure(d, incident)
          PROVE  circuit' \in CircuitRow /\ circuit'.version >= circuit.version
                 /\ circuit'.token = circuit.token
        <3>1. PICK n \in 1..(Threshold + 1) :
                LET opens == circuit.status # "open" /\ (incident \/ n >= Threshold)
                IN  circuit' = [circuit EXCEPT
                        !.version = @ + 1,
                        !.failures = IF n > Threshold THEN Threshold ELSE n,
                        !.status = IF opens THEN "open" ELSE @,
                        !.succeeded = FALSE]
            BY <2>4 DEF RecordFailure
        <3> DEFINE opens == circuit.status # "open" /\ (incident \/ n >= Threshold)
                   k == IF n > Threshold THEN Threshold ELSE n
                   status == IF opens THEN "open" ELSE circuit.status
        <3>2. k \in 0..Threshold /\ status \in {"closed", "open", "half_open"}
            BY DEF CircuitRow
        <3>3. circuit' = [circuit EXCEPT !.version = @ + 1, !.failures = k,
                                         !.status = status, !.succeeded = FALSE]
            BY <3>1 DEF CircuitRow
        <3> HIDE DEF k, status
        <3> DEFINE c2 == [c1 EXCEPT !.failures = k]
                   c3 == [c2 EXCEPT !.status = status]
                   c4 == [c3 EXCEPT !.succeeded = FALSE]
        <3>4. circuit' = c4 /\ CircuitMoves
            BY <2>4, <3>3 DEF CircuitRow, RecordFailure
        <3> HIDE DEF c1
        <3>5. c2 \in CircuitRow /\ c2.version = circuit.version + 1
              /\ c2.token = circuit.token
            BY <2>2, <3>2, <3>4 DEF CircuitRow
        <3> HIDE DEF c2
        <3>6. c3 \in CircuitRow /\ c3.version = circuit.version + 1
              /\ c3.token = circuit.token
            BY <3>2, <3>5 DEF CircuitRow
        <3> HIDE DEF c3
        <3>7. circuit.version + 1 >= circuit.version
            BY DEF CircuitRow
        <3> QED BY <3>4, <3>6, <3>7 DEF CircuitRow
    <2> QED BY <2>1, <2>3, <2>4 DEF EndUncounted, RecordSuccess
<1>5. dispatch' \in [Dispatches -> DispatchRow] /\ TokensAreIssued'
      /\ TokensAreSpentOnce' /\ OneProbe'
    BY <1>1, <1>4, CircuitKeeps
<1> QED BY <1>1, <1>2, <1>3, <1>4, <1>5 DEF ControlTypeOK, CircuitRow, Recoveries

\* The operators write the switch, the reviews and the circuit.
LEMMA OperatorsKeep ==
    ASSUME ControlInv,
           \/ Disable
           \/ \E target \in {"enable", "half_open", "closed"} : RequestRecovery(target)
           \/ \E q \in recovery :
                ApproveEnable(q) \/ ApproveHalfOpen(q) \/ ApproveClosed(q) \/ Reject(q)
    PROVE  ControlInv'
<1> USE ControlAssumption, ControlTypeParts DEF ControlInv
<1>1. UNCHANGED <<dispatch, probes>>
    BY DEF Disable, RequestRecovery, ApproveEnable, ApproveHalfOpen, ApproveClosed, Reject
<1>2. recovery' \subseteq Recoveries
    <2>1. CASE Disable
        BY <2>1, OvertakenKeeps DEF Disable
    <2>2. ASSUME NEW target \in {"enable", "half_open", "closed"}, RequestRecovery(target)
          PROVE  recovery' \subseteq Recoveries
        <3> DEFINE stands == IF target = "closed" THEN proved ELSE TRUE
        <3>1. Version(target) \in 1..Versions(target) /\ Versions(target) \in Nat
            BY DEF Version, Versions, SwitchRow, CircuitRow
        <3>2. stands \in BOOLEAN
            BY ONLY proved \in BOOLEAN, Zenon DEF stands
        <3> HIDE DEF stands
        <3>3. PICK version \in (Version(target) - 1)..Versions(target),
                   reason \in IF target = "enable" THEN {FALSE} ELSE BOOLEAN :
                recovery' = recovery \cup
                    {[target |-> target, version |-> version, reason |-> reason,
                      ahead |-> version > Version(target), stands |-> stands]}
            BY <2>2 DEF RequestRecovery, stands
        <3>4. version \in Nat /\ reason \in BOOLEAN
            <4>1. version \in Nat
                BY ONLY <3>1, version \in (Version(target) - 1)..Versions(target)
            <4>2. reason \in BOOLEAN
                BY ONLY reason \in IF target = "enable" THEN {FALSE} ELSE BOOLEAN, Zenon
            <4> QED BY <4>1, <4>2
        <3>5. [target |-> target, version |-> version, reason |-> reason,
               ahead |-> version > Version(target), stands |-> stands] \in Recoveries
            BY <3>2, <3>4 DEF Recoveries
        <3> QED BY <3>3, <3>5
    <2> QED BY <2>1, <2>2 DEF ApproveEnable, ApproveHalfOpen, ApproveClosed, Reject
<1>3. proved' \in BOOLEAN
    <2>1. \A q \in recovery : q.reason \in BOOLEAN
        BY DEF Recoveries
    <2> QED BY <2>1
            DEF Disable, RequestRecovery, ApproveEnable, ApproveHalfOpen, ApproveClosed, Reject
<1>4. switch' \in SwitchRow
    <2>1. switch.version \in 1..ControlVersions
        BY DEF SwitchRow
    <2>2. CASE switch.version < ControlVersions
               /\ \E b \in BOOLEAN : switch' = [enabled |-> b, version |-> switch.version + 1]
        <3>1. switch.version + 1 \in 1..ControlVersions
            BY <2>1, <2>2
        <3> QED BY <2>2, <3>1 DEF SwitchRow
    <2>3. CASE UNCHANGED switch
        BY <2>3
    <2> QED BY <2>2, <2>3
            DEF Disable, RequestRecovery, ApproveEnable, ApproveHalfOpen, ApproveClosed, Reject
<1>5. /\ circuit' \in CircuitRow /\ circuit'.version >= circuit.version
      /\ \/ circuit'.token \in {0, circuit.token}
         \/ circuit'.token = circuit.version + 1 /\ circuit'.version > circuit.version
    <2>1. CASE UNCHANGED circuit
        BY <2>1 DEF CircuitRow
    <2> DEFINE c1 == [circuit EXCEPT !.version = circuit.version + 1]
    <2>2. CircuitMoves => c1 \in CircuitRow /\ c1.version = circuit.version + 1
        BY DEF CircuitRow, CircuitMoves
    <2>3. circuit.version + 1 > circuit.version /\ circuit.version \in 1..CircuitVersions
        BY DEF CircuitRow
    <2>4. ASSUME NEW q \in recovery, ApproveHalfOpen(q)
          PROVE  circuit' \in CircuitRow /\ circuit'.version = circuit.version + 1
                 /\ circuit'.token = circuit.version + 1
        <3> DEFINE c2 == [c1 EXCEPT !.status = "half_open"]
                   c3 == [c2 EXCEPT !.token = circuit.version + 1]
                   c4 == [c3 EXCEPT !.succeeded = q.reason]
        <3>1. circuit' = c4 /\ CircuitMoves /\ q.reason \in BOOLEAN
            BY <2>4 DEF CircuitRow, ApproveHalfOpen, Recoveries
        <3> HIDE DEF c1
        <3>2. c2 \in CircuitRow /\ c2.version = circuit.version + 1
            BY <2>2, <3>1 DEF CircuitRow
        <3> HIDE DEF c2
        <3>3. circuit.version + 1 \in 0..CircuitVersions
            BY <2>3, <3>1 DEF CircuitMoves
        <3>4. c3 \in CircuitRow /\ c3.version = circuit.version + 1
              /\ c3.token = circuit.version + 1
            BY <3>2, <3>3 DEF CircuitRow
        <3> HIDE DEF c3
        <3> QED BY <3>1, <3>4 DEF CircuitRow
    <2>5. ASSUME NEW q \in recovery, ApproveClosed(q)
          PROVE  circuit' \in CircuitRow /\ circuit'.version = circuit.version + 1
                 /\ circuit'.token = 0
        <3> DEFINE c2 == [c1 EXCEPT !.status = "closed"]
                   c3 == [c2 EXCEPT !.failures = 0]
                   c4 == [c3 EXCEPT !.token = 0]
                   c5 == [c4 EXCEPT !.succeeded = q.reason]
        <3>1. circuit' = c5 /\ CircuitMoves /\ q.reason \in BOOLEAN
            BY <2>5 DEF CircuitRow, ApproveClosed, Recoveries
        <3> HIDE DEF c1
        <3>2. c2 \in CircuitRow /\ c2.version = circuit.version + 1
            BY <2>2, <3>1 DEF CircuitRow
        <3> HIDE DEF c2
        <3>3. c3 \in CircuitRow /\ c3.version = circuit.version + 1
            BY ONLY <3>2, ControlAssumption DEF c3, CircuitRow
        <3> HIDE DEF c3
        <3>4. c4 \in CircuitRow /\ c4.version = circuit.version + 1 /\ c4.token = 0
            BY ONLY <3>3, ControlAssumption DEF c4, CircuitRow
        <3> HIDE DEF c4
        <3> QED BY <3>1, <3>4 DEF CircuitRow
    <2> QED BY <2>1, <2>3, <2>4, <2>5 DEF Disable, RequestRecovery, ApproveEnable, Reject
<1>6. dispatch' \in [Dispatches -> DispatchRow] /\ TokensAreIssued'
      /\ TokensAreSpentOnce' /\ OneProbe'
    BY <1>1, <1>5, CircuitKeeps
<1> QED BY <1>1, <1>2, <1>3, <1>4, <1>5, <1>6
        DEF ControlTypeOK, CircuitRow, SwitchRow, Recoveries

LEMMA ControlInvariant == ControlSpec => []ControlInv
<1>1. ControlInv /\ [ControlNext]_controlVars => ControlInv'
    <2> SUFFICES ASSUME ControlInv, [ControlNext]_controlVars PROVE ControlInv'
        OBVIOUS
    <2>1. CASE UNCHANGED controlVars
        BY <2>1 DEF controlVars, ControlInv, ControlTypeOK, TokensAreIssued,
            TokensAreSpentOnce, OneProbe
    <2> QED BY <2>1, ReadsKeep, ClaimKeeps, ResultsKeep, OperatorsKeep DEF ControlNext
<1> QED BY <1>1, InitControlInv, PTL DEF ControlSpec

\* The switch, the circuit, the dispatches and the pending recoveries keep their types.
THEOREM ControlTypeCorrect == ControlSpec => []ControlTypeOK
<1>1. ControlInv => ControlTypeOK
    BY DEF ControlInv
<1> QED BY <1>1, ControlInvariant, PTL

\* A probe's token lets one dispatch through, for any number of dispatches and of times
\* that the circuit opens and is half opened.
THEOREM ControlOneProbe == ControlSpec => []OneProbe
<1>1. ControlInv => OneProbe
    BY DEF ControlInv
<1> QED BY <1>1, ControlInvariant, PTL

-----------------------------------------------------------------------------
(* What the operators' recoveries rest on *)

\* A half open circuit that shows a success has seen one since it was half opened, or was
\* half opened to show one. A request is newer than its row only if it was made ahead of it,
\* and one that is as new and was not still stands: for a closure only if the circuit shows
\* a success.
RequestsAreDated ==
    /\ circuit.status = "half_open" /\ circuit.succeeded => proved
    /\ \A q \in recovery : ~q.ahead =>
        /\ q.version <= Version(q.target)
        /\ q.version = Version(q.target) =>
            q.stands \/ (q.target = "closed" /\ ~(circuit.status = "half_open" /\ circuit.succeeded))

LEMMA InitDated == ControlInit => RequestsAreDated
BY DEF ControlInit, RequestsAreDated

\* A step that writes a row makes every earlier request older than it.
LEMMA DatedStep == ControlInv /\ RequestsAreDated /\ [ControlNext]_controlVars => RequestsAreDated'
<1> SUFFICES ASSUME ControlInv, RequestsAreDated, [ControlNext]_controlVars
             PROVE  RequestsAreDated'
    OBVIOUS
<1>1. switch \in SwitchRow /\ circuit \in CircuitRow /\ recovery \subseteq Recoveries
    BY ControlTypeParts DEF ControlInv
<1>2. switch.version \in Nat /\ circuit.version \in Nat
    BY <1>1 DEF SwitchRow, CircuitRow
<1>3. CASE UNCHANGED <<switch, circuit, recovery, proved>>
    BY <1>3 DEF RequestsAreDated, Version
<1>4. ASSUME NEW d \in Dispatches, ClaimProbe(d) PROVE RequestsAreDated'
    <2>1. CASE UNCHANGED circuit
        BY <2>1, <1>3, <1>4 DEF ClaimProbe
    <2>2. CASE circuit' = ClaimedCircuit
        <3>1. circuit'.version = circuit.version + 1 /\ ~circuit'.succeeded
            BY <1>1, <2>2 DEF ClaimedCircuit, CircuitRow
        <3>2. UNCHANGED <<switch, recovery>>
            BY <1>4 DEF ClaimProbe
        <3> QED BY <1>1, <1>2, <3>1, <3>2 DEF RequestsAreDated, Version, Recoveries
    <2> QED BY <1>4, <2>1, <2>2 DEF ClaimProbe
<1>5. ASSUME NEW d \in Dispatches, NEW incident \in BOOLEAN, RecordFailure(d, incident)
      PROVE  RequestsAreDated'
    <2>1. circuit'.version = circuit.version + 1 /\ ~circuit'.succeeded /\ UNCHANGED switch
        BY <1>1, <1>5 DEF RecordFailure, CircuitRow
    <2>2. \A q \in recovery' : \E r \in recovery :
            /\ q.target = r.target /\ q.version = r.version /\ q.ahead = r.ahead
            /\ q.stands = r.stands \/ r.target \in {"half_open", "closed"}
        BY <1>1, <1>5 DEF RecordFailure, Overtaken, Recoveries
    <2>3. \A r \in recovery : r.version \in Nat
        BY <1>1 DEF Recoveries
    <2> QED BY <1>2, <2>1, <2>2, <2>3 DEF RequestsAreDated, Version
<1>6. ASSUME NEW d \in Dispatches, RecordSuccess(d) PROVE RequestsAreDated'
    <2>1. UNCHANGED <<switch, recovery>>
        BY <1>6 DEF RecordSuccess
    <2>2. CASE circuit.status = "open"
        BY <1>6, <2>1, <2>2 DEF RequestsAreDated, Version, RecordSuccess
    <2>3. CASE circuit.status # "open"
        <3>1. circuit'.version = circuit.version + 1 /\ circuit'.status = circuit.status
            BY <1>1, <1>6, <2>3 DEF RecordSuccess, CircuitRow
        <3>2. circuit'.status = "half_open" => proved'
            BY <1>6, <3>1 DEF RecordSuccess
        <3>3. \A r \in recovery : r.version \in Nat
            BY <1>1 DEF Recoveries
        <3> QED BY <1>2, <2>1, <3>1, <3>2, <3>3 DEF RequestsAreDated, Version
    <2> QED BY <2>2, <2>3
<1>7. CASE Disable
    <2>1. switch'.version = switch.version + 1 /\ UNCHANGED <<circuit, proved>>
        BY <1>7 DEF Disable
    <2>2. \A q \in recovery' : \E r \in recovery :
            /\ q.target = r.target /\ q.version = r.version /\ q.ahead = r.ahead
            /\ q.stands = r.stands \/ r.target = "enable"
        BY <1>1, <1>7 DEF Disable, Overtaken, Recoveries
    <2>3. \A r \in recovery : r.version \in Nat
        BY <1>1 DEF Recoveries
    <2> QED BY <1>2, <2>1, <2>2, <2>3 DEF RequestsAreDated, Version
<1>8. ASSUME NEW target \in {"enable", "half_open", "closed"}, RequestRecovery(target)
      PROVE  RequestsAreDated'
    <2> DEFINE new(version, reason) ==
            [target |-> target, version |-> version, reason |-> reason,
             ahead |-> version > Version(target),
             stands |-> IF target = "closed" THEN proved ELSE TRUE]
    <2>1. PICK version \in (Version(target) - 1)..Versions(target),
               reason \in IF target = "enable" THEN {FALSE} ELSE BOOLEAN :
            recovery' = recovery \cup {new(version, reason)}
        BY <1>8 DEF RequestRecovery
    <2>2. UNCHANGED <<switch, circuit, proved>>
        BY <1>8 DEF RequestRecovery
    <2> DEFINE q1 == new(version, reason)
    <2>3. version \in Int /\ Version(target) \in Nat
        BY <1>2, <2>1 DEF Version
    <2>4. q1.target = target /\ q1.version = version
          /\ (~q1.ahead => version <= Version(target))
          /\ (q1.stands \/ (target = "closed" /\ ~proved))
        <3>1. q1.target = target /\ q1.version = version /\ q1.ahead = (version > Version(target))
              /\ q1.stands = (IF target = "closed" THEN proved ELSE TRUE)
            OBVIOUS
        <3> HIDE DEF q1
        <3>2. ~q1.ahead => version <= Version(target)
            <4>1. ~q1.ahead => ~(version > Version(target))
                BY ONLY <3>1, Zenon
            <4>2. ~(version > Version(target)) => version <= Version(target)
                BY ONLY <2>3
            <4> QED BY ONLY <4>1, <4>2, Zenon
        <3> QED BY ONLY <3>1, <3>2
    <2> HIDE DEF new
    <2>5. \A q : Version(q)' = Version(q)
        BY <2>2 DEF Version
    <2> QED BY <2>1, <2>2, <2>4, <2>5 DEF RequestsAreDated
<1>9. ASSUME NEW q \in recovery, ApproveEnable(q) PROVE RequestsAreDated'
    <2>1. switch'.version = switch.version + 1 /\ UNCHANGED <<circuit, proved>>
          /\ recovery' \subseteq recovery
        BY <1>9 DEF ApproveEnable
    <2>2. \A r \in recovery : r.version \in Nat
        BY <1>1 DEF Recoveries
    <2> QED BY <1>2, <2>1, <2>2 DEF RequestsAreDated, Version
<1>10. ASSUME NEW q \in recovery, ApproveHalfOpen(q) \/ ApproveClosed(q) PROVE RequestsAreDated'
    <2>1. circuit'.version = circuit.version + 1
          /\ (circuit'.status = "half_open" /\ circuit'.succeeded => proved')
          /\ UNCHANGED switch /\ recovery' \subseteq recovery
        BY <1>1, <1>10 DEF ApproveHalfOpen, ApproveClosed, CircuitRow
    <2>2. \A r \in recovery : r.version \in Nat
        BY <1>1 DEF Recoveries
    <2> QED BY <1>2, <2>1, <2>2 DEF RequestsAreDated, Version
<1>11. ASSUME NEW q \in recovery, Reject(q) PROVE RequestsAreDated'
    BY <1>11 DEF RequestsAreDated, Version, Reject
<1> QED
    BY <1>3, <1>4, <1>5, <1>6, <1>7, <1>8, <1>9, <1>10, <1>11
    DEF ControlNext, ReadControls, ReadCircuit, EndUncounted, controlVars

\* No scope is enabled and no circuit recovers on a request that something has overtaken
\* and that was not made for a version to come, and none closes before it has seen a success
\* or was half opened as if it had, for any threshold and any number of requests at a time.
THEOREM ControlRecoveryIsEarned == ControlSpec => RecoveryIsEarned
<1> DEFINE A ==
        /\ ~switch.enabled /\ switch'.enabled => Earned("enable")
        /\ circuit.status = "open" /\ circuit'.status # "open" => Earned("half_open")
        /\ circuit.status # "closed" /\ circuit'.status = "closed" =>
            Earned("closed") /\ proved
<1>1. ControlInv /\ RequestsAreDated /\ [ControlNext]_controlVars => [A]_controlVars
    <2> SUFFICES ASSUME ControlInv, RequestsAreDated, ControlNext PROVE A
        OBVIOUS
    <2>1. circuit \in CircuitRow /\ switch \in SwitchRow
        BY ControlTypeParts DEF ControlInv
    <2>2. CASE UNCHANGED <<switch, circuit>>
        BY <2>2
    <2>3. ASSUME NEW d \in Dispatches,
                 \/ ClaimProbe(d) \/ RecordSuccess(d)
                 \/ \E incident \in BOOLEAN : RecordFailure(d, incident)
          PROVE  A
        <3>1. UNCHANGED switch
              /\ circuit'.status \in {circuit.status, "open"}
            BY <2>1, <2>3 DEF ClaimProbe, ClaimedCircuit, RecordSuccess, RecordFailure, CircuitRow
        <3> QED BY <3>1
    <2>4. CASE Disable
        BY <2>4 DEF Disable
    <2>5. ASSUME NEW q \in recovery, ApproveEnable(q) PROVE A
        BY <2>5 DEF ApproveEnable, Earned, RequestsAreDated, IsCurrent
    <2>6. ASSUME NEW q \in recovery, ApproveHalfOpen(q) PROVE A
        <3>1. circuit'.status = "half_open" /\ UNCHANGED switch
            BY <2>1, <2>6 DEF ApproveHalfOpen, CircuitRow
        <3> QED BY <2>6, <3>1 DEF ApproveHalfOpen, Earned, RequestsAreDated, IsCurrent
    <2>7. ASSUME NEW q \in recovery, ApproveClosed(q) PROVE A
        <3>1. circuit.status = "half_open" /\ UNCHANGED switch
            BY <2>7 DEF ApproveClosed
        <3> QED BY <2>7, <3>1 DEF ApproveClosed, Earned, RequestsAreDated, IsCurrent
    <2> QED
        BY <2>2, <2>3, <2>4, <2>5, <2>6, <2>7
        DEF ControlNext, ReadControls, ReadCircuit, EndUncounted, RequestRecovery, Reject
<1>2. ControlSpec => []RequestsAreDated
    BY InitDated, DatedStep, ControlInvariant, PTL DEF ControlSpec
<1> QED BY <1>1, <1>2, ControlInvariant, PTL DEF ControlSpec, RecoveryIsEarned
=============================================================================
