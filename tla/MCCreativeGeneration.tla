------------------------ MODULE MCCreativeGeneration ------------------------
(* Small instances of what stands between a generation and its provider: the  *)
(* generation itself, of which every pair of handlers meets in every order    *)
(* while Bounds limits how many are in progress at a time, the control of     *)
(* its dispatch, and the retries of its status reads.  The three share no     *)
(* state: a behaviour is one of a single component, which part names.         *)
EXTENDS CreativeGeneration, ProviderControl, ProviderRetries, TLC

VARIABLE part

GenerationInit ==
  /\ part \in {"generation", "control", "retries"}
  /\ Init /\ ControlInit /\ RetryInit

GenerationNext ==
  \/ part = "generation" /\ Next /\ UNCHANGED <<part, controlVars, retryVars>>
  \/ part = "control" /\ ControlNext /\ UNCHANGED <<part, vars, retryVars>>
  \/ part = "retries" /\ RetryNext /\ UNCHANGED <<part, vars, controlVars>>

GenerationSpec == GenerationInit /\ [][GenerationNext]_<<part, vars, controlVars, retryVars>>

GenerationTypeOK == TypeOK /\ ControlTypeOK /\ RetryTypeOK

Symmetry == Permutations(Requests) \cup Permutations(Handlers) \cup Permutations(Cancels)

AtMostTwo ==
  Cardinality({r \in Requests : request[r] # <<>>})
  + Cardinality({h \in Handlers : handler[h] # Idle})
  + Cardinality({x \in Cancels : cancel[x] # NoCancel}) <= 2

\* Three notices, or two and a fault
FewEvents == Cardinality({n \in Notices : replay[n].state # "absent"}) + faults <= 3

\* The switch moves early in the life of the circuit, or not at all
FewVersions == switch.version + circuit.version <= 7

Bounds == AtMostTwo /\ FewEvents /\ FewVersions
=============================================================================
