---------------------------- MODULE ProviderControl ----------------------------
(***************************************************************************)
(* What may be sent to one provider: the kill switch of a scope, the       *)
(* circuit that opens when the provider fails, the dispatches that ask     *)
(* both, and the recoveries that one operator requests and another decides *)
(* (creative/providerControlPlane.js, creativeProviderControls of          *)
(* repositories/prismaRepository.js).                                      *)
(*                                                                         *)
(* Recording a result, disabling a scope and deciding a recovery are each  *)
(* one compare-and-set of a row's version and one step; a dispatch reads   *)
(* the rows one by one.  Times are left out: a window, a cooldown or a     *)
(* probe's lease may be over or not whenever one is looked at.             *)
(***************************************************************************)
EXTENDS Integers, FiniteSets

CONSTANTS
    Dispatches,       \* requests in flight; one that ended makes way for another
    Threshold,        \* failures in a window that open the circuit
    ControlVersions,  \* bound: versions of the switch row
    CircuitVersions,  \* bound: versions of the circuit row
    MaxPending        \* bound: recoveries that wait for a decision

ASSUME ControlAssumption ==
    Threshold \in Nat \ {0} /\ ControlVersions \in Nat \ {0} /\ CircuitVersions \in Nat \ {0}

VARIABLES
    switch,    \* the kill switch of the scope: enabled, version
    circuit,   \* creative_provider_circuit_states
    dispatch,  \* where each request is, and what it has read
    recovery,  \* the pending provider-controls reviews
    proved,    \* history: a success is the last result since the circuit was half opened,
               \* or it was half opened for a reason that says so
    probes     \* history: dispatches that each token has let through

controlVars == <<switch, circuit, dispatch, recovery, proved, probes>>

DispatchRow == [pc: {"checking", "sent"}, allowed: {"unread", "yes", "no"},
                circuit: {"unread", "closed", "open", "half_open"}, token: 0..CircuitVersions,
                probe: {"untried", "claimed", "refused"}]
NewDispatch == [pc |-> "checking", allowed |-> "unread", circuit |-> "unread", token |-> 0,
                probe |-> "untried"]

ControlTypeOK ==
    /\ switch \in [enabled: BOOLEAN, version: 1..ControlVersions]
    \* the reason code matters when it says that a probe succeeded; a token is named by
    \* the version that issued it, 0 when there is none
    /\ circuit \in [status: {"closed", "open", "half_open"}, version: 1..CircuitVersions,
                    failures: 0..Threshold, succeeded: BOOLEAN, token: 0..CircuitVersions]
    /\ dispatch \in [Dispatches -> DispatchRow]
    \* reason: the operator's reason code says that a probe succeeded; ahead and stands
    \* are history: the row had not come to that version when it was named, and nothing has
    \* overtaken the request
    /\ recovery \subseteq [target: {"enable", "half_open", "closed"}, version: Nat,
                           reason: BOOLEAN, ahead: BOOLEAN, stands: BOOLEAN]
    /\ proved \in BOOLEAN
    /\ probes \in [1..CircuitVersions -> Nat]

ControlInit ==
    /\ switch = [enabled |-> TRUE, version |-> 1]
    /\ circuit = [status |-> "closed", version |-> 1, failures |-> 0,
                  succeeded |-> FALSE, token |-> 0]
    /\ dispatch = [d \in Dispatches |-> NewDispatch]
    /\ recovery = {}
    /\ proved = FALSE
    /\ probes = [t \in 1..CircuitVersions |-> 0]

CircuitMoves == circuit.version < CircuitVersions

\* What the pending recoveries to these targets were requested for no longer holds
Overtaken(targets) ==
    recovery' = {IF q.target \in targets THEN [q EXCEPT !.stands = FALSE] ELSE q : q \in recovery}

-----------------------------------------------------------------------------
(* Dispatches: assertDispatchAllowed *)

Unread(e) == "unread" \in {e.allowed, e.circuit}

MayClaim(e) ==
    e.pc = "checking" /\ ~Unread(e) /\ e.circuit = "half_open" /\ e.probe = "untried" /\ e.token # 0

\* evaluateProviderControlSnapshot
Allowed(e) ==
    /\ e.allowed = "yes"
    /\ e.circuit = "closed" \/ (e.circuit = "half_open" /\ e.probe = "claimed")

\* A request that has read all and has no probe to claim is sent or refused
Decided(e) ==
    IF Unread(e) \/ MayClaim(e) THEN e
    ELSE IF Allowed(e) THEN [NewDispatch EXCEPT !.pc = "sent"] ELSE NewDispatch

GoOn(d, e) ==
    /\ dispatch' = [dispatch EXCEPT ![d] = Decided(e)]
    /\ probes' = IF Decided(e).pc = "sent" /\ e.circuit = "half_open"
                 THEN [probes EXCEPT ![e.token] = @ + 1] ELSE probes

\* readSnapshot's reads end in any order. The cap evidence, which time, currency and amount
\* decide about, may refuse what the switch allows.
ReadControls(d) ==
    /\ dispatch[d].pc = "checking"
    /\ dispatch[d].allowed = "unread"
    /\ \E allowed \in IF switch.enabled THEN {"yes", "no"} ELSE {"no"} :
            GoOn(d, [dispatch[d] EXCEPT !.allowed = allowed])
    /\ UNCHANGED <<switch, circuit, recovery, proved>>

\* The request brings the token of the probe, an older one or none. The circuit is read
\* again after a claim.
ReadCircuit(d) ==
    /\ dispatch[d].pc = "checking"
    /\ dispatch[d].circuit = "unread"
    /\ \E t \in IF circuit.status = "half_open" /\ dispatch[d].probe = "untried"
                 THEN {0, circuit.token} ELSE {dispatch[d].token} :
            GoOn(d, [dispatch[d] EXCEPT !.circuit = circuit.status, !.token = t])
    /\ UNCHANGED <<switch, circuit, recovery, proved>>

Claims(d) == circuit.status = "half_open" /\ circuit.token = dispatch[d].token

\* Faulty variant: the claimed token stays good until its lease ends
ClaimedCircuitKeepsToken ==
    [circuit EXCEPT !.version = @ + 1, !.succeeded = FALSE]

\* What a claim leaves of the circuit
ClaimedCircuit ==
    [circuit EXCEPT !.version = @ + 1, !.token = 0, !.succeeded = FALSE]

\* The token is spent here, also by a request that the controls have refused; it is too
\* late for it when it was claimed or replaced, or when its lease is over
ClaimProbe(d) ==
    /\ MayClaim(dispatch[d])
    /\ \/ /\ Claims(d)
          /\ CircuitMoves
          /\ circuit' = ClaimedCircuit
          /\ dispatch' = [dispatch EXCEPT ![d] =
                [@ EXCEPT !.probe = "claimed", !.circuit = "unread"]]
       \/ /\ dispatch' = [dispatch EXCEPT ![d] =
                [@ EXCEPT !.probe = "refused", !.circuit = "unread", !.token = 0]]
          /\ UNCHANGED circuit
    /\ UNCHANGED <<switch, recovery, proved, probes>>

-----------------------------------------------------------------------------
(* Results: recordCircuitEvent *)

\* The request ends and its result does not reach the circuit: the budget refuses it, the
\* process dies, five updates meet a conflict, the failure is not one that counts, or the
\* event of its generation is there already
EndUncounted(d) ==
    /\ dispatch[d].pc = "sent"
    /\ dispatch' = [dispatch EXCEPT ![d] = NewDispatch]
    /\ UNCHANGED <<switch, circuit, recovery, proved, probes>>

\* The count starts over with the failure that finds its window ended
CountedTo(n) == n \in {1, circuit.failures + 1}

\* A circuit that is open counts on; a half open one opens by the same count.
RecordFailure(d, incident) ==
    /\ dispatch[d].pc = "sent"
    /\ CircuitMoves
    /\ \E n \in 1..(Threshold + 1) :
        LET opens == circuit.status # "open" /\ (incident \/ n >= Threshold)
        IN  /\ CountedTo(n)
            /\ circuit' = [circuit EXCEPT
                    !.version = @ + 1,
                    !.failures = IF n > Threshold THEN Threshold ELSE n,
                    !.status = IF opens THEN "open" ELSE @,
                    !.succeeded = FALSE]
    /\ dispatch' = [dispatch EXCEPT ![d] = NewDispatch]
    /\ proved' = FALSE
    /\ Overtaken({"half_open", "closed"})
    /\ UNCHANGED <<switch, probes>>

\* Whichever dispatch succeeds while the circuit is half open, the probe or one that was
\* sent before the circuit opened
RecordSuccess(d) ==
    /\ dispatch[d].pc = "sent"
    /\ CircuitMoves
    /\ circuit' = IF circuit.status = "open" THEN circuit
                  ELSE [circuit EXCEPT !.version = @ + 1,
                            !.failures = IF circuit.status = "closed" THEN 0 ELSE @,
                            !.succeeded = circuit.status = "half_open"]
    /\ dispatch' = [dispatch EXCEPT ![d] = NewDispatch]
    /\ proved' = (circuit.status = "half_open")
    /\ UNCHANGED <<switch, recovery, probes>>

-----------------------------------------------------------------------------
(* Operators *)

\* setControl by the disable route, also to give another reason
Disable ==
    /\ switch.version < ControlVersions
    /\ switch' = [enabled |-> FALSE, version |-> switch.version + 1]
    /\ Overtaken({"enable"})
    /\ UNCHANGED <<circuit, dispatch, proved, probes>>

Version(target) == IF target = "enable" THEN switch.version ELSE circuit.version

Versions(target) == IF target = "enable" THEN ControlVersions ELSE CircuitVersions

\* requestRecovery keeps the version and the reason code that the operator names and looks
\* at no row: the version may be one that the row has yet to reach or has left (which are
\* all alike: none comes back), and the row need not be in the state that the target asks
\* for. Nothing looks at the reason for which a switch is enabled.
RequestRecovery(target) ==
    /\ Cardinality(recovery) < MaxPending
    /\ \E version \in (Version(target) - 1)..Versions(target),
          reason \in IF target = "enable" THEN {FALSE} ELSE BOOLEAN :
        recovery' = recovery \cup
            {[target |-> target, version |-> version, reason |-> reason,
              ahead |-> version > Version(target),
              stands |-> IF target = "closed" THEN proved ELSE TRUE]}
    /\ UNCHANGED <<switch, circuit, dispatch, proved, probes>>

\* Faulty variant: the row's own version is taken, as a compare-and-set without a request would
IsCurrentNow(q) == q.version <= Version(q.target)

\* The decision falls for the version of the row that the request names
IsCurrent(q) == q.version = Version(q.target)

ApproveEnable(q) ==
    /\ q.target = "enable"
    /\ IsCurrent(q)
    /\ switch.version < ControlVersions
    /\ switch' = [enabled |-> TRUE, version |-> switch.version + 1]
    /\ recovery' = recovery \ {q}
    /\ UNCHANGED <<circuit, dispatch, proved, probes>>

\* Once the cooldown is over. The operator's reason code is written, whatever it says.
ApproveHalfOpen(q) ==
    /\ q.target = "half_open"
    /\ IsCurrent(q)
    /\ circuit.status = "open"
    /\ CircuitMoves
    /\ circuit' = [circuit EXCEPT !.status = "half_open", !.version = @ + 1,
                        !.token = circuit.version + 1, !.succeeded = q.reason]
    /\ recovery' = recovery \ {q}
    /\ proved' = q.reason
    /\ UNCHANGED <<switch, dispatch, probes>>

ApproveClosed(q) ==
    /\ q.target = "closed"
    /\ IsCurrent(q)
    /\ circuit.status = "half_open" /\ circuit.succeeded
    /\ CircuitMoves
    /\ circuit' = [circuit EXCEPT !.status = "closed", !.version = @ + 1,
                        !.failures = 0, !.token = 0, !.succeeded = q.reason]
    /\ recovery' = recovery \ {q}
    /\ UNCHANGED <<switch, dispatch, proved, probes>>

\* A reviewer who read the request before may still approve it: as if it had not been rejected
Reject(q) ==
    /\ recovery' = recovery \ {q}
    /\ UNCHANGED <<switch, circuit, dispatch, proved, probes>>

-----------------------------------------------------------------------------
ControlNext ==
    \/ \E d \in Dispatches :
        \/ ReadControls(d) \/ ReadCircuit(d)
        \/ ClaimProbe(d) \/ EndUncounted(d) \/ RecordSuccess(d)
        \/ \E incident \in BOOLEAN : RecordFailure(d, incident)
    \/ Disable
    \/ \E target \in {"enable", "half_open", "closed"} : RequestRecovery(target)
    \/ \E q \in recovery :
        ApproveEnable(q) \/ ApproveHalfOpen(q) \/ ApproveClosed(q) \/ Reject(q)

ControlSpec == ControlInit /\ [][ControlNext]_controlVars

-----------------------------------------------------------------------------
(* Properties *)

\* A token lets one dispatch through, however many bring it and whatever is recorded,
\* reopened and half opened again in between (claimProbe).
OneProbe == \A t \in 1..CircuitVersions : probes[t] <= 1

\* A recovery to this target is decided, and what it was requested for still holds, or it
\* was requested for a version that the row had yet to reach
Earned(target) ==
    \E q \in recovery \ recovery' : q.target = target /\ (q.stands \/ q.ahead)

\* Nothing recovers on an old request: a scope is enabled by one made since it was last
\* disabled, a circuit leaves open by one made since its last failure, and closes by one
\* made since its last failure with a success in sight, and with one in sight (the versions
\* and the reason code in reviewRecovery and recordCircuitEvent). There are two ways around
\* it: a request may name a later version, and be decided when the row has come to it; and
\* a circuit half opened for the reason that a probe succeeded counts as one that has seen
\* a success.
RecoveryIsEarned ==
    [][ /\ ~switch.enabled /\ switch'.enabled => Earned("enable")
        /\ circuit.status = "open" /\ circuit'.status # "open" => Earned("half_open")
        /\ circuit.status # "closed" /\ circuit'.status = "closed" =>
            Earned("closed") /\ proved
      ]_controlVars
=============================================================================
