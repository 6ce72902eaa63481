--------------------------- MODULE GenerationProofs ---------------------------
(* Theorems of CreativeGeneration for any requests, handlers, cancellations and *)
(* sources, any stores and any number of faults, and of its composition with    *)
(* the control and the retries of its provider.                                 *)
(*                                                                              *)
(* A handler in progress is the sequence of the calls it has still to make.     *)
(* What the proof needs of a sequence is the set of its calls and that they     *)
(* come in the order of Rank, so that the first one is known from the set: see  *)
(* Script, FirstCall and JoinScripts.  GenerationInv says of every set of calls *)
(* in progress what makes it safe to go on with (Fits), whoever else moves, and *)
(* of every set of calls made what they leave behind (Shows).                   *)
EXTENDS MCCreativeGeneration, ProviderProofs, Integers, SequenceTheorems, FiniteSetTheorems

-----------------------------------------------------------------------------
(* Sequences of calls *)

\* The order in which the calls of a handler come.
Rank == [call \in Steps |->
  CASE call \in {"reserve_quota", "require_recovery", "claim", "lock"} -> 1
    [] call \in {"dispatch", "ask"} -> 2
    [] call = "reserve_credit" -> 3
    [] call = "create" -> 4
    [] call \in {"mark_running", "note_running"} -> 5
    [] call = "persist_outputs" -> 6
    [] call \in {"settle_credits", "refund_credits"} -> 7
    [] call \in {"commit_quota", "release_quota"} -> 8
    [] call \in {"complete", "fail", "cancel"} -> 9
    [] OTHER -> 10]

Ordered(t) == \A i, j \in DOMAIN t : i < j => Rank[t[i]] < Rank[t[j]]

\* A sequence of these calls, in their order.
Script(t, C) == t \in Seq(Steps) /\ Ordered(t) /\ Calls(t) = C

LEMMA RankType == Rank \in [Steps -> 1..10]
BY DEF Rank

LEMMA RankValues ==
  /\ Rank["reserve_quota"] = 1 /\ Rank["require_recovery"] = 1 /\ Rank["claim"] = 1
  /\ Rank["lock"] = 1 /\ Rank["dispatch"] = 2 /\ Rank["ask"] = 2
  /\ Rank["reserve_credit"] = 3 /\ Rank["create"] = 4
  /\ Rank["mark_running"] = 5 /\ Rank["note_running"] = 5 /\ Rank["persist_outputs"] = 6
  /\ Rank["settle_credits"] = 7 /\ Rank["refund_credits"] = 7
  /\ Rank["commit_quota"] = 8 /\ Rank["release_quota"] = 8
  /\ Rank["complete"] = 9 /\ Rank["fail"] = 9 /\ Rank["cancel"] = 9
  /\ Rank["execution_succeed"] = 10 /\ Rank["execution_fail"] = 10
  /\ Rank["record"] = 10 /\ Rank["unlock"] = 10
BY DEF Rank, Steps, PlanCalls

\* The first call comes before the others, which are what is left.
LEMMA FirstCall ==
  ASSUME NEW t \in Seq(Steps), Ordered(t), t # <<>>
  PROVE  /\ Head(t) \in Calls(t) /\ Head(t) \in Steps
         /\ Script(Tail(t), Calls(t) \ {Head(t)})
         /\ \A call \in Calls(t) \ {Head(t)} : Rank[Head(t)] < Rank[call]
<1>1. /\ Head(t) \in Steps /\ Tail(t) \in Seq(Steps)
      /\ Len(t) \in Nat \ {0} /\ Len(Tail(t)) = Len(t) - 1
      /\ DOMAIN t = 1..Len(t) /\ DOMAIN Tail(t) = 1..Len(Tail(t))
      /\ \A i \in 1..Len(Tail(t)) : Tail(t)[i] = t[i + 1]
  BY HeadTailProperties, LenProperties, EmptySeq
<1>2. Head(t) = t[1] /\ 1 \in DOMAIN t
  BY <1>1
<1>3. Head(t) \in Calls(t)
  BY <1>2 DEF Calls
<1>4. \A i \in DOMAIN Tail(t) : i + 1 \in DOMAIN t /\ 1 < i + 1 /\ Tail(t)[i] = t[i + 1]
  BY <1>1
<1>5. Ordered(Tail(t))
  <2> SUFFICES ASSUME NEW i \in DOMAIN Tail(t), NEW j \in DOMAIN Tail(t), i < j
               PROVE  Rank[Tail(t)[i]] < Rank[Tail(t)[j]]
    BY DEF Ordered
  <2>1. i + 1 \in DOMAIN t /\ j + 1 \in DOMAIN t /\ i + 1 < j + 1
    BY <1>1
  <2>2. Rank[t[i + 1]] < Rank[t[j + 1]]
    BY <2>1 DEF Ordered
  <2> QED BY <1>4, <2>2
<1>6. \A i \in DOMAIN Tail(t) : Rank[Head(t)] < Rank[Tail(t)[i]]
  BY <1>2, <1>4 DEF Ordered
<1>7. \A i \in DOMAIN Tail(t) : Tail(t)[i] # Head(t)
  <2> SUFFICES ASSUME NEW i \in DOMAIN Tail(t), Tail(t)[i] = Head(t) PROVE FALSE
    OBVIOUS
  <2>1. Rank[Head(t)] < Rank[Head(t)]
    BY <1>6
  <2>2. Rank[Head(t)] \in 1..10
    BY <1>1, RankType
  <2> QED BY <2>1, <2>2
<1>8. Calls(Tail(t)) = Calls(t) \ {Head(t)}
  <2>1. \A call \in Calls(Tail(t)) : call \in Calls(t) \ {Head(t)}
    BY <1>4, <1>7 DEF Calls
  <2>2. \A call \in Calls(t) \ {Head(t)} : call \in Calls(Tail(t))
    <3> SUFFICES ASSUME NEW k \in DOMAIN t, t[k] # Head(t) PROVE t[k] \in Calls(Tail(t))
      BY DEF Calls
    <3>1. k - 1 \in DOMAIN Tail(t) /\ Tail(t)[k - 1] = t[k]
      BY <1>1, <1>2
    <3> QED BY <3>1 DEF Calls
  <2> QED BY <2>1, <2>2
<1>9. \A call \in Calls(t) \ {Head(t)} : Rank[Head(t)] < Rank[call]
  BY <1>6, <1>8 DEF Calls
<1> QED BY <1>1, <1>3, <1>5, <1>8, <1>9 DEF Script

LEMMA NoCalls == Script(<<>>, {}) /\ \A t : Calls(t) = {} /\ t \in Seq(Steps) => t = <<>>
<1>1. Script(<<>>, {})
  BY DEF Script, Ordered, Calls
<1>2. ASSUME NEW t \in Seq(Steps), t # <<>> PROVE Calls(t) # {}
  <2>1. DOMAIN t = 1..Len(t) /\ Len(t) \in Nat \ {0}
    BY <1>2, LenProperties, EmptySeq
  <2>2. t[1] \in Calls(t)
    BY <2>1 DEF Calls
  <2> QED BY <2>2
<1> QED BY <1>1, <1>2

\* One call, and one after another.
LEMMA OneCall ==
  ASSUME NEW call \in Steps PROVE Script(<<call>>, {call})
BY DEF Script, Ordered, Calls

LEMMA JoinScripts ==
  ASSUME NEW s, NEW C, NEW t, NEW D, Script(s, C), Script(t, D),
         \A c \in C, d \in D : Rank[c] < Rank[d]
  PROVE  Script(s \o t, C \cup D)
<1>1. /\ s \in Seq(Steps) /\ Len(s) \in Nat /\ DOMAIN s = 1..Len(s)
      /\ t \in Seq(Steps) /\ Len(t) \in Nat /\ DOMAIN t = 1..Len(t)
  BY LenProperties DEF Script
<1>2. s \o t \in Seq(Steps) /\ Len(s \o t) = Len(s) + Len(t)
  BY <1>1, ConcatProperties
<1>3. DOMAIN (s \o t) = 1..(Len(s) + Len(t))
  BY <1>2, LenProperties
<1>4. /\ \A i \in DOMAIN s : i \in DOMAIN (s \o t) /\ (s \o t)[i] = s[i]
      /\ \A i \in DOMAIN t : /\ i + Len(s) \in DOMAIN (s \o t)
                             /\ (s \o t)[i + Len(s)] = t[i]
  BY <1>1, <1>2, <1>3
<1>5. \A k \in DOMAIN (s \o t) :
        \/ k \in DOMAIN s /\ (s \o t)[k] = s[k]
        \/ k > Len(s) /\ k - Len(s) \in DOMAIN t /\ (s \o t)[k] = t[k - Len(s)]
  <2> SUFFICES ASSUME NEW k \in DOMAIN (s \o t), k \notin DOMAIN s
               PROVE  k > Len(s) /\ k - Len(s) \in DOMAIN t /\ (s \o t)[k] = t[k - Len(s)]
    BY <1>4
  <2>1. k > Len(s) /\ k - Len(s) \in DOMAIN t /\ (k - Len(s)) + Len(s) = k
    BY <1>1, <1>3
  <2> QED BY <1>4, <2>1
<1>6. Calls(s \o t) = C \cup D
  <2>1. Calls(s) = C /\ Calls(t) = D
    BY DEF Script
  <2>2. ASSUME NEW k \in DOMAIN (s \o t) PROVE (s \o t)[k] \in Calls(s) \cup Calls(t)
    BY <1>5 DEF Calls
  <2>3. ASSUME NEW i \in DOMAIN s PROVE s[i] \in Calls(s \o t)
    BY <1>4 DEF Calls
  <2>4. ASSUME NEW i \in DOMAIN t PROVE t[i] \in Calls(s \o t)
    BY <1>4 DEF Calls
  <2>5. Calls(s \o t) \subseteq Calls(s) \cup Calls(t)
    BY <2>2 DEF Calls
  <2>6. Calls(s) \subseteq Calls(s \o t) /\ Calls(t) \subseteq Calls(s \o t)
    BY <2>3, <2>4 DEF Calls
  <2> QED BY <2>1, <2>5, <2>6
<1>7. Ordered(s \o t)
  <2> SUFFICES ASSUME NEW i \in DOMAIN (s \o t), NEW j \in DOMAIN (s \o t), i < j
               PROVE  Rank[(s \o t)[i]] < Rank[(s \o t)[j]]
    BY DEF Ordered
  <2>1. CASE i \in DOMAIN s /\ j \in DOMAIN s
    BY <1>4, <2>1 DEF Script, Ordered
  <2>2. CASE i \in DOMAIN s /\ j \notin DOMAIN s
    <3>1. (s \o t)[i] \in C
      BY <1>4, <2>2 DEF Script, Calls
    <3>2. (s \o t)[j] \in D
      BY <1>5, <2>2 DEF Script, Calls
    <3> QED BY <3>1, <3>2
  <2>3. CASE i \notin DOMAIN s
    <3>1. i > Len(s) /\ i - Len(s) \in DOMAIN t /\ (s \o t)[i] = t[i - Len(s)]
      BY <1>5, <2>3
    <3>2. j \notin DOMAIN s
      BY <1>1, <1>3, <3>1
    <3>3. j - Len(s) \in DOMAIN t /\ (s \o t)[j] = t[j - Len(s)]
      BY <1>5, <3>2
    <3>4. i - Len(s) < j - Len(s)
      BY <1>1, <1>3
    <3>5. Rank[t[i - Len(s)]] < Rank[t[j - Len(s)]]
      BY <3>1, <3>3, <3>4 DEF Script, Ordered
    <3> QED BY <3>1, <3>3, <3>5
  <2> QED BY <2>1, <2>2, <2>3
<1> QED BY <1>2, <1>6, <1>7 DEF Script

\* The scripts that there are.
LEMMA RequestScripts ==
  /\ Script(<<"reserve_quota", "dispatch">>, {"reserve_quota", "dispatch"})
  /\ Script(<<"require_recovery">>, {"require_recovery"})
  /\ Script(<<"execution_fail">>, {"execution_fail"})
  /\ Script(<<"release_quota", "execution_fail">>, {"release_quota", "execution_fail"})
  /\ Script(<<"fail", "execution_fail">>, {"fail", "execution_fail"})
  /\ Script(<<"release_quota", "fail", "execution_fail">>,
            {"release_quota", "fail", "execution_fail"})
BY RankValues DEF Script, Ordered, Calls, Steps, PlanCalls

LEMMA RefusingScript == Script(Refusing, {"refund_credits", "release_quota"})
BY RankValues DEF Script, Ordered, Calls, Steps, PlanCalls, Refusing

LEMMA RefuseAndFail ==
  Script(Refusing \o <<"fail", "execution_fail">>,
         {"refund_credits", "release_quota", "fail", "execution_fail"})
<1>1. \A c \in {"refund_credits", "release_quota"}, d \in {"fail", "execution_fail"} :
        Rank[c] < Rank[d]
  BY RankValues
<1>2. Script(Refusing \o <<"fail", "execution_fail">>,
             {"refund_credits", "release_quota"} \cup {"fail", "execution_fail"})
  BY <1>1, RefusingScript, RequestScripts, JoinScripts
<1>3. {"refund_credits", "release_quota"} \cup {"fail", "execution_fail"}
        = {"refund_credits", "release_quota", "fail", "execution_fail"}
  OBVIOUS
<1> QED BY ONLY <1>2, <1>3

LEMMA HandlerScripts ==
  /\ Script(<<"claim">>, {"claim"}) /\ Script(<<"record">>, {"record"})
  /\ Script(<<"lock">>, {"lock"}) /\ Script(<<"ask">>, {"ask"})
  /\ Script(<<"unlock">>, {"unlock"})
BY RankValues DEF Script, Ordered, Calls, Steps, PlanCalls

LEMMA CancelScripts ==
  ASSUME NEW charged \in BOOLEAN
  PROVE  Script(Cancelling(charged),
                (IF charged THEN {} ELSE {"refund_credits", "release_quota"})
                \cup {"cancel", "unlock"})
<1>1. Script(<<"cancel", "unlock">>, {"cancel", "unlock"})
  BY RankValues DEF Script, Ordered, Calls, Steps, PlanCalls
<1>2. Script(IF charged THEN <<>> ELSE Refusing,
             IF charged THEN {} ELSE {"refund_credits", "release_quota"})
  BY NoCalls, RefusingScript
<1>3. \A c \in (IF charged THEN {} ELSE {"refund_credits", "release_quota"}),
         d \in {"cancel", "unlock"} : Rank[c] < Rank[d]
  BY RankValues
<1> QED BY <1>1, <1>2, <1>3, JoinScripts DEF Cancelling

\* The calls that a notice asks for.
Asked(notice) ==
  CASE notice[2] = "running" -> {"note_running"}
    [] notice[2] = "completed" ->
         {"persist_outputs", "settle_credits", "commit_quota", "complete"}
    [] notice[2] = "empty" -> {"complete"}
    [] notice[2] = "cancelled" -> {"refund_credits", "release_quota", "cancel"}
    [] OTHER -> {"refund_credits", "release_quota", "fail"}

LEMMA LeftScript ==
  ASSUME NEW call \in Steps, NEW done
  PROVE  /\ Script(Left(call, done), {call} \ done)
         /\ Left(call, done) = <<>> => call \in done
<1>1. CASE call \in done
  <2>1. {call} \ done = {} /\ Left(call, done) = <<>>
    BY <1>1 DEF Left
  <2> QED BY <1>1, <2>1, NoCalls
<1>2. CASE call \notin done
  <2>1. {call} \ done = {call} /\ Left(call, done) = <<call>>
    BY <1>2 DEF Left
  <2> QED BY <1>2, <2>1, OneCall
<1> QED BY <1>1, <1>2

LEMMA PlanScript ==
  ASSUME NEW notice, NEW done
  PROVE  /\ Script(Append(Plan(notice, done), "record"), (Asked(notice) \ done) \cup {"record"})
         /\ Plan(notice, done) = <<>> => Asked(notice) \subseteq done
<1> DEFINE L(call) == Left(call, done)
           R(call) == {call} \ done
<1>1. /\ {"note_running", "persist_outputs", "settle_credits", "commit_quota", "complete",
          "refund_credits", "release_quota", "cancel", "fail", "record"} \subseteq Steps
  BY DEF Steps, PlanCalls
<1>2. \A call \in Steps : Script(L(call), R(call))
  BY LeftScript
<1> HIDE DEF L
<1>3. Script(L("refund_credits") \o L("release_quota"), {"refund_credits", "release_quota"} \ done)
  <2>1. \A c \in R("refund_credits"), d \in R("release_quota") : Rank[c] < Rank[d]
    BY RankValues
  <2>2. Script(L("refund_credits") \o L("release_quota"),
               R("refund_credits") \cup R("release_quota"))
    BY <1>1, <1>2, <2>1, JoinScripts
  <2>3. R("refund_credits") \cup R("release_quota") = {"refund_credits", "release_quota"} \ done
    OBVIOUS
  <2> QED BY ONLY <2>2, <2>3
<1>4. ASSUME NEW last \in {"cancel", "fail"}
      PROVE  Script((L("refund_credits") \o L("release_quota")) \o L(last),
                    {"refund_credits", "release_quota", last} \ done)
  <2>1. \A c \in {"refund_credits", "release_quota"} \ done, d \in R(last) : Rank[c] < Rank[d]
    BY RankValues
  <2>2. Script((L("refund_credits") \o L("release_quota")) \o L(last),
               ({"refund_credits", "release_quota"} \ done) \cup R(last))
    BY <1>1, <1>2, <1>3, <2>1, JoinScripts
  <2>3. ({"refund_credits", "release_quota"} \ done) \cup R(last)
          = {"refund_credits", "release_quota", last} \ done
    OBVIOUS
  <2> QED BY ONLY <2>2, <2>3
<1>5. Script(((L("persist_outputs") \o L("settle_credits")) \o L("commit_quota")) \o L("complete"),
             {"persist_outputs", "settle_credits", "commit_quota", "complete"} \ done)
  <2>1. Script(L("persist_outputs") \o L("settle_credits"),
               R("persist_outputs") \cup R("settle_credits"))
    <3>1. \A c \in R("persist_outputs"), d \in R("settle_credits") : Rank[c] < Rank[d]
      BY RankValues
    <3> QED BY <1>1, <1>2, <3>1, JoinScripts
  <2>2. Script((L("persist_outputs") \o L("settle_credits")) \o L("commit_quota"),
               (R("persist_outputs") \cup R("settle_credits")) \cup R("commit_quota"))
    <3>1. \A c \in R("persist_outputs") \cup R("settle_credits"), d \in R("commit_quota") :
            Rank[c] < Rank[d]
      BY RankValues
    <3> QED BY <1>1, <1>2, <2>1, <3>1, JoinScripts
  <2>3. Script(((L("persist_outputs") \o L("settle_credits")) \o L("commit_quota")) \o L("complete"),
               ((R("persist_outputs") \cup R("settle_credits")) \cup R("commit_quota"))
                \cup R("complete"))
    <3>1. \A c \in (R("persist_outputs") \cup R("settle_credits")) \cup R("commit_quota"),
             d \in R("complete") : Rank[c] < Rank[d]
      BY RankValues
    <3> QED BY <1>1, <1>2, <2>2, <3>1, JoinScripts
  <2>4. ((R("persist_outputs") \cup R("settle_credits")) \cup R("commit_quota"))
          \cup R("complete")
        = {"persist_outputs", "settle_credits", "commit_quota", "complete"} \ done
    OBVIOUS
  <2> QED BY ONLY <2>3, <2>4
<1>6. Script(Plan(notice, done), Asked(notice) \ done)
  <2>1. CASE notice[2] = "running"
    <3>1. Plan(notice, done) = L("note_running") /\ Asked(notice) = {"note_running"}
      BY <2>1 DEF Plan, Asked, L
    <3> QED BY <1>1, <1>2, <3>1
  <2>2. CASE notice[2] = "completed"
    <3>1. /\ Plan(notice, done) = ((L("persist_outputs") \o L("settle_credits"))
                                     \o L("commit_quota")) \o L("complete")
          /\ Asked(notice) = {"persist_outputs", "settle_credits", "commit_quota", "complete"}
      BY <2>2 DEF Plan, Asked, L
    <3> QED BY <1>5, <3>1
  <2>3. CASE notice[2] = "cancelled"
    <3>1. /\ Plan(notice, done) = (L("refund_credits") \o L("release_quota")) \o L("cancel")
          /\ Asked(notice) = {"refund_credits", "release_quota", "cancel"}
      BY <2>3 DEF Plan, Asked, L
    <3> QED BY <1>4, <3>1
  <2>4. CASE notice[2] = "empty"
    <3>1. Plan(notice, done) = L("complete") /\ Asked(notice) = {"complete"}
      BY <2>4 DEF Plan, Asked, L
    <3> QED BY <1>1, <1>2, <3>1
  <2>5. CASE notice[2] \notin {"running", "completed", "empty", "cancelled"}
    <3>1. /\ Plan(notice, done) = (L("refund_credits") \o L("release_quota")) \o L("fail")
          /\ Asked(notice) = {"refund_credits", "release_quota", "fail"}
      BY <2>5 DEF Plan, Asked, L
    <3> QED BY <1>4, <3>1
  <2> QED BY <2>1, <2>2, <2>3, <2>4, <2>5
<1>7. \A c \in Asked(notice) \ done, d \in {"record"} : Rank[c] < Rank[d]
  BY RankValues DEF Asked
<1>8. Script(Plan(notice, done) \o <<"record">>, (Asked(notice) \ done) \cup {"record"})
  BY <1>1, <1>6, <1>7, OneCall, JoinScripts
<1>9. Append(Plan(notice, done), "record") = Plan(notice, done) \o <<"record">>
  BY <1>1, <1>6, AppendIsConcat DEF Script
<1>10. ASSUME Plan(notice, done) = <<>> PROVE Asked(notice) \subseteq done
  <2>1. Asked(notice) \ done = Calls(<<>>)
    BY <1>6, <1>10 DEF Script
  <2>2. Calls(<<>>) = {}
    BY NoCalls DEF Script
  <2> QED BY <2>1, <2>2
<1> QED BY <1>8, <1>9, <1>10

\* What is left to do after the provider's answer.
AfterAnswer(answer) ==
  {"reserve_credit", "create"}
  \cup (IF answer = "queued" THEN {} ELSE {"mark_running"})
  \cup (CASE answer = "completed" ->
              {"persist_outputs", "settle_credits", "commit_quota", "complete",
               "execution_succeed"}
          [] answer = "failed" -> {"refund_credits", "release_quota", "fail", "execution_fail"}
          [] OTHER -> {"execution_succeed"})

LEMMA ContinueScript ==
  ASSUME NEW answer PROVE Script(Continue(answer), AfterAnswer(answer))
<1> DEFINE first == <<"reserve_credit", "create">>
           mark == IF answer = "queued" THEN <<>> ELSE <<"mark_running">>
           last == CASE answer = "completed" ->
                          <<"persist_outputs", "settle_credits", "commit_quota", "complete",
                            "execution_succeed">>
                     [] answer = "failed" -> Refusing \o <<"fail", "execution_fail">>
                     [] OTHER -> <<"execution_succeed">>
           Mark == IF answer = "queued" THEN {} ELSE {"mark_running"}
           Rest == CASE answer = "completed" ->
                          {"persist_outputs", "settle_credits", "commit_quota", "complete",
                           "execution_succeed"}
                     [] answer = "failed" ->
                          {"refund_credits", "release_quota", "fail", "execution_fail"}
                     [] OTHER -> {"execution_succeed"}
<1>1. Script(first, {"reserve_credit", "create"})
  BY RankValues DEF Script, Ordered, Calls, Steps, PlanCalls
<1>2. Script(mark, Mark)
  BY NoCalls, OneCall DEF Steps
<1>3. Script(last, Rest)
  <2>1. Script(<<"persist_outputs", "settle_credits", "commit_quota", "complete",
                 "execution_succeed">>,
               {"persist_outputs", "settle_credits", "commit_quota", "complete",
                "execution_succeed"})
    BY RankValues DEF Script, Ordered, Calls, Steps, PlanCalls
  <2>2. Script(Refusing \o <<"fail", "execution_fail">>,
               {"refund_credits", "release_quota", "fail", "execution_fail"})
    BY RefuseAndFail
  <2>3. Script(<<"execution_succeed">>, {"execution_succeed"})
    BY OneCall DEF Steps
  <2>4. CASE answer = "completed"
    <3>1. last = <<"persist_outputs", "settle_credits", "commit_quota", "complete",
                   "execution_succeed">>
          /\ Rest = {"persist_outputs", "settle_credits", "commit_quota", "complete",
                     "execution_succeed"}
      BY <2>4
    <3> HIDE DEF last, Rest
    <3> QED BY <2>1, <3>1
  <2>5. CASE answer = "failed"
    <3>1. /\ last = Refusing \o <<"fail", "execution_fail">>
          /\ Rest = {"refund_credits", "release_quota", "fail", "execution_fail"}
      BY <2>5
    <3> HIDE DEF last, Rest
    <3> QED BY <2>2, <3>1
  <2>6. CASE answer \notin {"completed", "failed"}
    <3>1. last = <<"execution_succeed">> /\ Rest = {"execution_succeed"}
      BY <2>6
    <3> HIDE DEF last, Rest
    <3> QED BY <2>3, <3>1
  <2> QED BY <2>4, <2>5, <2>6
<1>4. \A c \in {"reserve_credit", "create"}, d \in Mark : Rank[c] < Rank[d]
  BY RankValues
<1>5. \A c \in {"reserve_credit", "create"} \cup Mark, d \in Rest : Rank[c] < Rank[d]
  BY RankValues
<1>6. Continue(answer) = (first \o mark) \o last
  BY Zenon DEF Continue
<1>7. AfterAnswer(answer) = ({"reserve_credit", "create"} \cup Mark) \cup Rest
  BY Zenon DEF AfterAnswer
<1> HIDE DEF first, mark, last, Mark, Rest
<1>8. Script(first \o mark, {"reserve_credit", "create"} \cup Mark)
  BY ONLY <1>1, <1>2, <1>4, JoinScripts
<1>9. Script((first \o mark) \o last, ({"reserve_credit", "create"} \cup Mark) \cup Rest)
  BY ONLY <1>3, <1>5, <1>8, JoinScripts
<1> QED BY <1>6, <1>7, <1>9

\* What is left to do after a call that throws.
LEMMA UnwindScripts ==
  ASSUME NEW call
  PROVE  \E C : /\ Script(Unwind(call), C)
                /\ C = CASE call \in {"create", "mark_running", "persist_outputs",
                                      "settle_credits"} ->
                              {"refund_credits", "release_quota", "fail", "execution_fail"}
                         [] call \in {"reserve_credit", "commit_quota"} ->
                              {"release_quota", "fail", "execution_fail"}
                         [] call = "complete" -> {"fail", "execution_fail"}
                         [] call \in {"execution_fail", "require_recovery"} -> {}
                         [] OTHER -> {"execution_fail"}
<1>1. CASE call \in {"create", "mark_running", "persist_outputs", "settle_credits"}
  <2>1. Unwind(call) = Refusing \o <<"fail", "execution_fail">>
    BY <1>1 DEF Unwind
  <2> QED BY <1>1, <2>1, RefuseAndFail
<1>2. CASE call \in {"reserve_credit", "commit_quota"}
  BY <1>2, RequestScripts DEF Unwind
<1>3. CASE call = "complete"
  BY <1>3, RequestScripts DEF Unwind
<1>4. CASE call \in {"execution_fail", "require_recovery"}
  BY <1>4, NoCalls DEF Unwind
<1>5. CASE call \notin {"create", "mark_running", "persist_outputs", "settle_credits",
                        "reserve_credit", "commit_quota", "complete", "execution_fail",
                        "require_recovery"}
  BY <1>5, RequestScripts DEF Unwind
<1> QED BY <1>1, <1>2, <1>3, <1>4, <1>5

-----------------------------------------------------------------------------
(* The inductive invariant *)

CreditCalls == {"settle_credits", "refund_credits"}
QuotaCalls == {"commit_quota", "release_quota"}
Closing == {"complete", "fail", "cancel"}
Early == {"reserve_quota", "dispatch"}

NoRecord == record.status = "absent"
CreditClosed == credit \in {"settled", "refunded"}
QuotaClosed == quota \in {"committed", "released"}
Refusal == decided \cap {"failed", "cancelled"} # {}

\* What a handler of any kind may still set out to do: settle for outputs that are stored and
\* a job that is completed, close the record after the reservations, and only what was decided.
Fits(C) ==
  /\ "settle_credits" \in C => outputs \/ "persist_outputs" \in C
  /\ C \cap Closing # {} =>
       \/ NoRecord
       \/ "cancel" \in C /\ billed
       \/ "complete" \in C /\ Bare
       \/ /\ C \cap CreditCalls # {} \/ CreditClosed
          /\ C \cap QuotaCalls # {} \/ QuotaClosed
  /\ C \cap {"settle_credits", "commit_quota"} # {} => provider.status = "completed"
  /\ C \cap {"settle_credits", "commit_quota", "complete"} # {} => "completed" \in decided
  /\ "refund_credits" \in C => Refusal
  /\ "release_quota" \in C => Refusal \/ NoRecord
  /\ "fail" \in C => "failed" \in decided
  /\ "cancel" \in C => "cancelled" \in decided

\* What was done shows.
Shows(D) ==
  /\ "persist_outputs" \in D => outputs
  /\ D \cap CreditCalls # {} => CreditClosed
  /\ D \cap QuotaCalls # {} => QuotaClosed

\* What a request may still set out to do besides: nothing was touched before its dispatch,
\* and the record is its own until it has created it.
RequestFits(C) ==
  /\ C \cap Early # {} =>
       /\ C \subseteq Early /\ "dispatch" \in C
       /\ dispatches = 0 /\ NoRecord /\ credit = "none"
       /\ "reserve_quota" \in C => quota = "none"
       /\ "reserve_quota" \notin C => quota = "reserved"
  /\ "reserve_credit" \in C => "create" \in C
  /\ "create" \in C =>
       /\ NoRecord /\ quota = "reserved"
       /\ "reserve_credit" \in C => credit = "none"
       /\ "reserve_credit" \notin C => credit = "reserved"
       /\ C \cap Closing # {} => C \cap CreditCalls # {} /\ C \cap QuotaCalls # {}
       /\ "release_quota" \in C => "fail" \in C
  /\ "create" \notin C /\ C \cap {"mark_running", "note_running", "execution_succeed"} # {}
       => ~NoRecord
  /\ "commit_quota" \in C => "complete" \in C
  /\ "complete" \in C => provider.status = "completed"
  /\ "cancel" \notin C

\* What a notice told of the job, where it cannot change any more
Told(n) ==
  /\ n[2] = "completed" => provider.status = "completed"
  /\ n = Empty => provider.status = "empty"

RequestRow(r) ==
  /\ request[r] \in Seq(Steps) /\ Ordered(request[r])
  /\ Fits(Calls(request[r])) /\ RequestFits(Calls(request[r]))

HandlerRow(h) ==
  /\ handler[h].todo \in Seq(Steps) /\ Ordered(handler[h].todo)
  /\ Fits(Calls(handler[h].todo)) /\ Shows(handler[h].done)
  /\ handler[h].todo # <<>> =>
       /\ handler[h].notice \in Notices /\ Told(handler[h].notice)
       /\ "mark_running" \notin Calls(handler[h].todo) /\ ~NoRecord

ReplayRow(n) ==
  /\ Shows(replay[n].done)
  /\ replay[n].state = "applied" =>
       /\ replay[n].by = None
       /\ n[2] \notin {"running", "empty"} =>
            CreditClosed /\ QuotaClosed /\ (n[2] = "completed" => outputs)
  /\ n = Empty /\ replay[n].state \notin {"absent", "ignored"} => provider.status = "empty"

CancelRow(x) ==
  /\ cancel[x].todo \in Seq(Steps) /\ Ordered(cancel[x].todo)
  /\ Fits(Calls(cancel[x].todo))
  /\ cancel[x].todo # <<>> => ~NoRecord

\* Only one request ever gets past the claim of the key.
AtWork(r) == ~ (Calls(request[r]) \subseteq {"require_recovery"})

OneAtWork ==
  /\ \A r, s \in Requests : AtWork(r) /\ AtWork(s) => r = s
  /\ execution = "absent" =>
       /\ \A r \in Requests : request[r] = <<>>
       /\ dispatches = 0 /\ NoRecord /\ credit = "none" /\ quota = "none"
  /\ dispatches \in {0, 1}

BooksRow ==
  /\ ~NoRecord => credit # "none" /\ quota # "none"
  /\ credit = "settled" =>
       outputs /\ "completed" \in decided /\ provider.status = "completed"
  /\ credit = "refunded" => Refusal
  /\ quota = "committed" => "completed" \in decided /\ provider.status = "completed"
  /\ quota = "released" /\ ~NoRecord => Refusal
  /\ record.status \in Terminal =>
       /\ record.status \in decided
       /\ \/ record.status = "cancelled" /\ billed
          \/ record.status = "completed" /\ Bare
          \/ CreditClosed /\ QuotaClosed
  /\ dispatches = 0 => provider.status = "none"

GenerationInv ==
  /\ TypeOK
  /\ \A r \in Requests : RequestRow(r)
  /\ \A h \in Handlers : HandlerRow(h)
  /\ \A n \in Notices : ReplayRow(n)
  /\ \A x \in Cancels : CancelRow(x)
  /\ OneAtWork
  /\ BooksRow
  /\ SucceededHasRecord

-----------------------------------------------------------------------------
(* What every step keeps *)

\* The job of the provider goes on, and what was claimed for it stays claimed.
Onward ==
  /\ Bare => Bare'
  /\ \A final \in {"completed", "empty"} :
       provider.status = final => provider'.status = final
  /\ dispatches' = 0 => dispatches = 0 /\ (provider.status = "none" => provider'.status = "none")

\* What is stored, closed, charged or decided stays so.
Grows ==
  /\ outputs => outputs'
  /\ CreditClosed => CreditClosed'
  /\ QuotaClosed => QuotaClosed'
  /\ billed => billed'
  /\ decided \subseteq decided'
  /\ Onward

LEMMA OnwardKept ==
  ASSUME UNCHANGED <<provider, replay, dispatches>> PROVE Onward
BY DEF Onward, Bare

LEMMA ToldGrows ==
  ASSUME NEW n, Told(n), Grows PROVE Told(n)'
BY DEF Told, Grows, Onward

LEMMA FitsGrows ==
  ASSUME NEW C, Fits(C), Grows, NoRecord => NoRecord'
  PROVE  Fits(C)'
BY DEF Fits, Grows, Onward, NoRecord, CreditClosed, QuotaClosed, Refusal

LEMMA ShowsGrows ==
  ASSUME NEW D, Shows(D), Grows PROVE Shows(D)'
BY DEF Shows, Grows, CreditClosed, QuotaClosed

LEMMA FitsNothing == Fits({}) /\ RequestFits({}) /\ Shows({})
BY DEF Fits, RequestFits, Shows

\* A row that gets a script that fits.
LEMMA NewRequestRow ==
  ASSUME NEW r, NEW t, NEW C, Script(t, C), request'[r] = t, Fits(C)', RequestFits(C)'
  PROVE  RequestRow(r)'
BY DEF Script, RequestRow, Fits, RequestFits, NoRecord, CreditClosed, QuotaClosed, Refusal

LEMMA NewCancelRow ==
  ASSUME NEW x, NEW t, NEW C, Script(t, C), cancel'[x].todo = t, Fits(C)',
         t # <<>> => ~NoRecord'
  PROVE  CancelRow(x)'
BY DEF Script, CancelRow, Fits, NoRecord, CreditClosed, QuotaClosed, Refusal

LEMMA NewHandlerRow ==
  ASSUME NEW h, NEW n, NEW t, NEW C, NEW D, Script(t, C), handler'[h].todo = t,
         handler'[h].done = D, handler'[h].notice = n, Fits(C)', Shows(D)',
         t # <<>> => n \in Notices /\ Told(n)' /\ "mark_running" \notin C /\ ~NoRecord'
  PROVE  HandlerRow(h)'
BY DEF Script, HandlerRow, Fits, Shows, Told, NoRecord, CreditClosed, QuotaClosed, Refusal

\* A request that is not at work fits everywhere.
LEMMA RestingRequest ==
  ASSUME NEW r, request'[r] \in Seq(Steps), Ordered(request'[r]),
         Calls(request'[r]) \subseteq {"require_recovery"}
  PROVE  RequestRow(r)'
<1>1. PICK C : C = Calls(request'[r])
  OBVIOUS
<1>2. Fits(C)' /\ RequestFits(C)'
  <2>1. C \cap (Closing \cup Early) = {} /\ C \subseteq {"require_recovery"}
    BY <1>1 DEF Closing, Early
  <2> QED BY <2>1 DEF Fits, RequestFits, Closing, Early
<1>3. Script(request'[r], C)
  BY <1>1 DEF Script
<1> QED BY <1>2, <1>3, NewRequestRow

\* Rows that a step leaves alone.
LEMMA RequestKept ==
  ASSUME NEW r, RequestRow(r), request'[r] = request[r], Grows,
         NoRecord => UNCHANGED <<record, credit, quota>>, ~NoRecord => ~NoRecord',
         dispatches' = dispatches
  PROVE  RequestRow(r)'
<1>1. PICK C : C = Calls(request[r])
  OBVIOUS
<1>2. Fits(C) /\ RequestFits(C) /\ Script(request[r], C)
  BY <1>1 DEF RequestRow, Script
<1>3. Fits(C)'
  BY <1>2, FitsGrows DEF NoRecord
<1>4. RequestFits(C)'
  BY <1>2 DEF RequestFits, NoRecord, Grows, Onward
<1> QED BY <1>2, <1>3, <1>4, NewRequestRow

LEMMA HandlerKept ==
  ASSUME NEW h, HandlerRow(h), handler'[h] = handler[h], Grows, ~NoRecord => ~NoRecord'
  PROVE  HandlerRow(h)'
<1>1. PICK C : C = Calls(handler[h].todo)
  OBVIOUS
<1>2. Fits(C) /\ Script(handler[h].todo, C) /\ Shows(handler[h].done)
  BY <1>1 DEF HandlerRow, Script
<1>3. Fits(C)'
  <2>1. CASE handler[h].todo = <<>>
    <3>1. C = {}
      BY <1>1, <2>1 DEF Calls
    <3> QED BY <3>1 DEF Fits
  <2>2. CASE handler[h].todo # <<>>
    BY <1>2, <2>2, FitsGrows DEF NoRecord, HandlerRow
  <2> QED BY <2>1, <2>2
<1>4. PICK D : D = handler[h].done
  OBVIOUS
<1>5. Shows(D)'
  BY <1>2, <1>4, ShowsGrows
<1>6. PICK n : n = handler[h].notice
  OBVIOUS
<1>7. handler[h].todo # <<>> => n \in Notices /\ Told(n)' /\ "mark_running" \notin C /\ ~NoRecord'
  BY <1>1, <1>6, ToldGrows DEF HandlerRow
<1> QED BY <1>1, <1>2, <1>3, <1>4, <1>5, <1>6, <1>7, NewHandlerRow

LEMMA ReplayKept ==
  ASSUME NEW n, ReplayRow(n), replay'[n] = replay[n], Grows
  PROVE  ReplayRow(n)'
BY DEF ReplayRow, Shows, Grows, Onward, CreditClosed, QuotaClosed

LEMMA CancelKept ==
  ASSUME NEW x, CancelRow(x), cancel'[x] = cancel[x], Grows, ~NoRecord => ~NoRecord'
  PROVE  CancelRow(x)'
<1>1. PICK C : C = Calls(cancel[x].todo)
  OBVIOUS
<1>2. Fits(C) /\ Script(cancel[x].todo, C)
  BY <1>1 DEF CancelRow, Script
<1>3. Fits(C)'
  <2>1. CASE cancel[x].todo = <<>>
    <3>1. C = {}
      BY <1>1, <2>1 DEF Calls
    <3> QED BY <3>1 DEF Fits
  <2>2. CASE cancel[x].todo # <<>>
    BY <1>2, <2>2, FitsGrows DEF NoRecord, CancelRow
  <2> QED BY <2>1, <2>2
<1> QED BY <1>1, <1>2, <1>3, NewCancelRow DEF CancelRow

\* The rows of all that a step leaves alone, where it changes nothing of a generation that has
\* no record yet.
LEMMA RowsKept ==
  ASSUME GenerationInv, Grows, ~NoRecord => ~NoRecord',
         NoRecord => UNCHANGED <<record, credit, quota>>, dispatches' = dispatches
  PROVE  /\ \A r \in Requests : request'[r] = request[r] => RequestRow(r)'
         /\ \A h \in Handlers : handler'[h] = handler[h] => HandlerRow(h)'
         /\ \A n \in Notices : replay'[n] = replay[n] => ReplayRow(n)'
         /\ \A x \in Cancels : cancel'[x] = cancel[x] => CancelRow(x)'
BY RequestKept, HandlerKept, ReplayKept, CancelKept DEF GenerationInv

\* The rows beside the request at work.
LEMMA RequestWorks ==
  ASSUME GenerationInv, NEW r \in Requests, AtWork(r), Grows, ~NoRecord => ~NoRecord',
         UNCHANGED <<noticed, cancelling>>,
         \A s \in Requests \ {r} : request'[s] = request[s]
  PROVE  /\ \A s \in Requests \ {r} : RequestRow(s)' /\ ~AtWork(s) /\ ~AtWork(s)'
         /\ \A h \in Handlers : HandlerRow(h)'
         /\ \A n \in Notices : ReplayRow(n)'
         /\ \A x \in Cancels : CancelRow(x)'
<1>1. \A s \in Requests \ {r} : ~AtWork(s)
  BY DEF GenerationInv, OneAtWork
<1>2. \A s \in Requests \ {r} : RequestRow(s)' /\ ~AtWork(s)'
  BY <1>1, RestingRequest DEF GenerationInv, RequestRow, AtWork
<1>3. \A h \in Handlers : HandlerRow(h)'
  BY HandlerKept DEF GenerationInv, noticed
<1>4. \A n \in Notices : ReplayRow(n)'
  BY ReplayKept DEF GenerationInv, noticed
<1>5. \A x \in Cancels : CancelRow(x)'
  BY CancelKept DEF GenerationInv, cancelling
<1> QED BY <1>1, <1>2, <1>3, <1>4, <1>5

\* A step that leaves the books as they are.
LEMMA Still ==
  ASSUME GenerationInv, UNCHANGED books, decided \subseteq decided', billed => billed', Onward
  PROVE  Grows /\ (NoRecord' <=> NoRecord) /\ BooksRow'
<1>1. Grows /\ (NoRecord' <=> NoRecord)
  BY DEF books, Grows, NoRecord, CreditClosed, QuotaClosed
<1>2. BooksRow'
  BY DEF books, GenerationInv, BooksRow, NoRecord, CreditClosed, QuotaClosed, Refusal, Onward
<1> QED BY <1>1, <1>2

LEMMA StillRows ==
  ASSUME GenerationInv, UNCHANGED <<books, dispatches>>, decided \subseteq decided',
         billed => billed', Onward
  PROVE  /\ Grows /\ (NoRecord' <=> NoRecord) /\ BooksRow'
         /\ \A r \in Requests : request'[r] = request[r] => RequestRow(r)'
         /\ \A h \in Handlers : handler'[h] = handler[h] => HandlerRow(h)'
         /\ \A n \in Notices : replay'[n] = replay[n] => ReplayRow(n)'
         /\ \A x \in Cancels : cancel'[x] = cancel[x] => CancelRow(x)'
<1>1. Grows /\ (NoRecord' <=> NoRecord) /\ BooksRow' /\ dispatches' = dispatches
  BY Still
<1>2. NoRecord => UNCHANGED <<record, credit, quota>>
  BY DEF books
<1> QED BY <1>1, <1>2, RowsKept

\* A call that an actor makes in its turn.
LEMMA DoStep ==
  ASSUME TypeOK, BooksRow, UNCHANGED <<provider, replay, dispatches, decided, billed>>,
         NEW call \in Steps, NEW C, Fits(C), call \in C,
         \A c \in C \ {call} : Rank[call] < Rank[c],
         Do(call), call \in {"mark_running", "note_running"} => ~NoRecord
  PROVE  /\ Grows /\ (NoRecord' <=> NoRecord) /\ BooksRow'
         /\ Fits(C \ {call})' /\ (~NoRecord => Shows({call})')
         /\ record' \in [status : Open \cup Terminal \cup {"absent"}, charged : BOOLEAN]
         /\ credit' \in {"none", "reserved", "settled", "refunded"}
         /\ quota' \in {"none", "reserved", "committed", "released"}
         /\ outputs' \in BOOLEAN
         /\ call = "mark_running" \/ call \in PlanCalls
         /\ Rank[call] > 4
<1> DEFINE goal == /\ Grows /\ (NoRecord' <=> NoRecord) /\ BooksRow'
                   /\ Fits(C \ {call})' /\ (~NoRecord => Shows({call})')
                   /\ record' \in [status : Open \cup Terminal \cup {"absent"}, charged : BOOLEAN]
                   /\ credit' \in {"none", "reserved", "settled", "refunded"}
                   /\ quota' \in {"none", "reserved", "committed", "released"}
                   /\ outputs' \in BOOLEAN
                   /\ call = "mark_running" \/ call \in PlanCalls
                   /\ Rank[call] > 4
<1> USE DEF Fits, Grows, Shows, BooksRow, NoRecord, CreditClosed, QuotaClosed, Refusal,
            CreditCalls, QuotaCalls, Closing, Open, Terminal, PlanCalls, TypeOK
<1>0. Onward /\ (Bare' <=> Bare)
  BY OnwardKept DEF Bare
<1>1. CASE call \in {"mark_running", "note_running"} /\ MarkRunning
  <2>1. C \ {call} \subseteq C /\ call \notin {"persist_outputs", "settle_credits",
          "refund_credits", "commit_quota", "release_quota", "complete", "fail", "cancel"}
    BY <1>1
  <2>2. record' \in [status : Open \cup Terminal \cup {"absent"}, charged : BOOLEAN]
        /\ record'.status = "running"
    BY <1>1 DEF MarkRunning
  <2> QED BY <1>0, <1>1, <2>1, <2>2, RankValues DEF MarkRunning
<1>2. CASE call = "persist_outputs" /\ PersistOutputs
  BY <1>0, <1>2, RankValues DEF PersistOutputs
<1>3. CASE call = "settle_credits" /\ CloseCredit("settled")
  <2>1. "persist_outputs" \notin C
    <3> SUFFICES ASSUME "persist_outputs" \in C PROVE FALSE
      OBVIOUS
    <3>1. "persist_outputs" \in C \ {call}
      BY ONLY <1>3, "persist_outputs" \in C
    <3>2. Rank["settle_credits"] < Rank["persist_outputs"]
      BY <1>3, <3>1
    <3> QED BY ONLY <3>2, RankValues
  <2> QED BY <1>0, <1>3, <2>1, RankValues DEF CloseCredit
<1>4. CASE call = "refund_credits" /\ CloseCredit("refunded")
  BY <1>0, <1>4, RankValues DEF CloseCredit
<1>5. CASE call = "commit_quota" /\ CloseQuota("committed")
  BY <1>0, <1>5, RankValues DEF CloseQuota
<1>6. CASE call = "release_quota" /\ CloseQuota("released")
  BY <1>0, <1>6, RankValues DEF CloseQuota
<1>7. ASSUME NEW status \in Terminal, WriteRecord(status), call \in Closing, status \in decided,
             call = "complete" <=> status = "completed", call = "cancel" <=> status = "cancelled"
      PROVE  goal
  <2>1. C \cap (CreditCalls \cup QuotaCalls \cup {"persist_outputs"}) = {}
    BY ONLY <1>7, call \in C, \A c \in C \ {call} : Rank[call] < Rank[c], RankValues
       DEF Closing, CreditCalls, QuotaCalls
  <2>2. record' \in [status : Open \cup Terminal \cup {"absent"}, charged : BOOLEAN]
        /\ record'.status = IF NoRecord THEN "absent" ELSE status
    BY <1>7 DEF WriteRecord
  <2>3. C \cap Closing = {call}
    BY ONLY <1>7, call \in C, \A c \in C \ {call} : Rank[call] < Rank[c], RankValues DEF Closing
  <2>4. \/ NoRecord
        \/ status = "cancelled" /\ billed
        \/ status = "completed" /\ Bare
        \/ CreditClosed /\ QuotaClosed
    BY <1>7, <2>1, <2>3
  <2> QED BY <1>0, <1>7, <2>1, <2>2, <2>3, <2>4, RankValues DEF WriteRecord
<1>8. CASE call = "complete" /\ WriteRecord("completed")
  BY <1>7, <1>8
<1>9. CASE call = "fail" /\ WriteRecord("failed")
  BY <1>7, <1>9
<1>10. CASE call = "cancel" /\ WriteRecord("cancelled")
  BY <1>7, <1>10
<1> QED BY <1>1, <1>2, <1>3, <1>4, <1>5, <1>6, <1>8, <1>9, <1>10 DEF Do
-----------------------------------------------------------------------------
(* The steps of the requests *)

\* What is acted upon as a completion without outputs is one.
LEMMA BareIsEmpty == GenerationInv /\ Bare => provider.status = "empty"
<1>1. Empty \in Notices
  BY DEF Notices
<1> QED BY <1>1 DEF GenerationInv, ReplayRow, Bare

\* Only the request at work goes on.
LEMMA AtWorkKept ==
  ASSUME GenerationInv, NEW r \in Requests,
         \A s \in Requests \ {r} : request'[s] = request[s],
         AtWork(r)' => AtWork(r), execution' # "absent", dispatches' \in {0, 1}
  PROVE  OneAtWork'
<1>1. \A s \in Requests : AtWork(s)' => AtWork(s)
  BY DEF AtWork
<1> QED BY <1>1 DEF GenerationInv, OneAtWork

LEMMA ClaimKept ==
  ASSUME GenerationInv, UNCHANGED <<claimed, dispatches>>,
         NoRecord => UNCHANGED <<record, credit, quota>>
  PROVE  OneAtWork'
BY DEF GenerationInv, OneAtWork, AtWork, NoRecord, claimed

\* A request that has calls to make.
LEMMA RequestInHand ==
  ASSUME GenerationInv, NEW r \in Requests, request[r] # <<>>
  PROVE  \E C : /\ C = Calls(request[r]) /\ Fits(C) /\ RequestFits(C)
                /\ Head(request[r]) \in C /\ Head(request[r]) \in Steps
                /\ Script(Tail(request[r]), C \ {Head(request[r])})
                /\ \A c \in C \ {Head(request[r])} : Rank[Head(request[r])] < Rank[c]
                /\ execution # "absent"
                /\ AtWork(r) <=> ~ (C \subseteq {"require_recovery"})
                /\ Head(request[r]) # "require_recovery" => AtWork(r)
<1>1. RequestRow(r)
  BY DEF GenerationInv
<1>2. execution # "absent"
  BY DEF GenerationInv, OneAtWork
<1> QED BY <1>1, <1>2, FirstCall DEF RequestRow, AtWork

LEMMA ProceedFrame ==
  ASSUME GenerationInv, NEW r \in Requests, NEW t, Proceed(r, t)
  PROVE  /\ request'[r] = t /\ \A s \in Requests \ {r} : request'[s] = request[s]
         /\ t \in Seq(Steps) => request' \in [Requests -> Seq(Steps)]
BY DEF GenerationInv, TypeOK, Proceed

LEMMA ClaimStep ==
  ASSUME GenerationInv, NEW r \in Requests, Claim(r) PROVE GenerationInv'
<1>1. PICK t : t = <<"reserve_quota", "dispatch">>
  OBVIOUS
<1>2. PICK C : C = {"reserve_quota", "dispatch"}
  OBVIOUS
<1>3. Script(t, C) /\ t \in Seq(Steps)
  BY <1>1, <1>2, RequestScripts DEF Script
<1>4. /\ request'[r] = t /\ \A s \in Requests \ {r} : request'[s] = request[s]
      /\ request' \in [Requests -> Seq(Steps)]
  BY <1>1, <1>3, ProceedFrame DEF Claim
<1>5. /\ Grows /\ (NoRecord' <=> NoRecord) /\ BooksRow'
      /\ \A s \in Requests : request'[s] = request[s] => RequestRow(s)'
      /\ \A h \in Handlers : handler'[h] = handler[h] => HandlerRow(h)'
      /\ \A n \in Notices : replay'[n] = replay[n] => ReplayRow(n)'
      /\ \A x \in Cancels : cancel'[x] = cancel[x] => CancelRow(x)'
  BY StillRows, OnwardKept DEF Claim, history, noticed
<1>6. /\ execution = "absent" /\ \A s \in Requests : request[s] = <<>>
      /\ dispatches = 0 /\ NoRecord /\ credit = "none" /\ quota = "none"
  BY DEF Claim, GenerationInv, OneAtWork
<1>7. RequestRow(r)'
  <2>1. /\ dispatches' = 0 /\ NoRecord' /\ credit' = "none" /\ quota' = "none"
    BY <1>5, <1>6 DEF Claim, books, history
  <2>2. Fits(C)' /\ RequestFits(C)'
    BY <1>2, <2>1 DEF Fits, RequestFits, Closing, Early, CreditCalls, QuotaCalls
  <2> QED BY <1>3, <1>4, <2>2, NewRequestRow
<1>8. OneAtWork'
  <2>1. \A s \in Requests \ {r} : ~AtWork(s)'
    BY <1>4, <1>6, NoCalls DEF AtWork, Calls
  <2>2. execution' = "claimed" /\ dispatches' \in {0, 1}
    BY <1>6 DEF Claim, history
  <2> QED BY <2>1, <2>2 DEF OneAtWork
<1>9. TypeOK' /\ SucceededHasRecord'
  BY <1>4 DEF GenerationInv, TypeOK, Claim, SucceededHasRecord, books, noticed, cancelling, history
<1> QED BY <1>4, <1>5, <1>7, <1>8, <1>9 DEF GenerationInv, Claim, noticed, cancelling

LEMMA ClaimLapsedStep ==
  ASSUME GenerationInv, NEW r \in Requests, ClaimLapsed(r) PROVE GenerationInv'
<1>1. PICK t : t = <<"require_recovery">>
  OBVIOUS
<1>2. Script(t, {"require_recovery"}) /\ t \in Seq(Steps)
  BY <1>1, RequestScripts DEF Script
<1>3. /\ request'[r] = t /\ \A s \in Requests \ {r} : request'[s] = request[s]
      /\ request' \in [Requests -> Seq(Steps)]
  BY <1>1, <1>2, ProceedFrame DEF ClaimLapsed
<1>4. /\ Grows /\ (NoRecord' <=> NoRecord) /\ BooksRow'
      /\ \A s \in Requests : request'[s] = request[s] => RequestRow(s)'
      /\ \A h \in Handlers : handler'[h] = handler[h] => HandlerRow(h)'
      /\ \A n \in Notices : replay'[n] = replay[n] => ReplayRow(n)'
      /\ \A x \in Cancels : cancel'[x] = cancel[x] => CancelRow(x)'
  BY StillRows, OnwardKept DEF ClaimLapsed, history, noticed
<1>5. Calls(request'[r]) \subseteq {"require_recovery"}
  BY <1>2, <1>3 DEF Script
<1>6. RequestRow(r)'
  BY <1>2, <1>3, <1>5, RestingRequest DEF Script
<1>7. OneAtWork'
  <2>1. ~AtWork(r)' /\ execution' # "absent" /\ dispatches' \in {0, 1}
    BY <1>5 DEF ClaimLapsed, history, GenerationInv, OneAtWork, AtWork
  <2> QED BY <1>3, <2>1, AtWorkKept
<1>8. TypeOK' /\ SucceededHasRecord'
  BY <1>3 DEF GenerationInv, TypeOK, ClaimLapsed, SucceededHasRecord, books, noticed, cancelling,
              history
<1> QED BY <1>3, <1>4, <1>6, <1>7, <1>8 DEF GenerationInv, ClaimLapsed, noticed, cancelling

LEMMA ReserveQuotaStep ==
  ASSUME GenerationInv, NEW r \in Requests, ReserveQuota(r) PROVE GenerationInv'
<1>1. request[r] # <<>> /\ Head(request[r]) = "reserve_quota"
  BY DEF ReserveQuota, At
<1>2. PICK C : /\ Fits(C) /\ RequestFits(C) /\ "reserve_quota" \in C
               /\ Script(Tail(request[r]), C \ {"reserve_quota"})
               /\ execution # "absent" /\ AtWork(r)
  BY <1>1, RequestInHand
<1>3. /\ C \subseteq Early /\ "dispatch" \in C /\ dispatches = 0 /\ NoRecord
      /\ credit = "none" /\ quota = "none"
  BY <1>2 DEF RequestFits, Early
<1>4. PICK t, D : /\ Script(t, D) /\ Proceed(r, t)
                  /\ \/ quota' = "reserved" /\ D = C \ {"reserve_quota"}
                     \/ quota' = quota /\ D = {"execution_fail"}
  BY <1>2, RequestScripts DEF ReserveQuota, Return
<1>5. /\ request'[r] = t /\ \A s \in Requests \ {r} : request'[s] = request[s]
      /\ request' \in [Requests -> Seq(Steps)]
  BY <1>4, ProceedFrame DEF Script
<1>6. Grows /\ (NoRecord' <=> NoRecord)
  <2>1. Onward
    BY OnwardKept DEF ReserveQuota, history, noticed
  <2> QED BY <1>3, <2>1 DEF ReserveQuota, history, Grows, NoRecord, CreditClosed, QuotaClosed
<1>7. /\ \A s \in Requests \ {r} : RequestRow(s)' /\ ~AtWork(s) /\ ~AtWork(s)'
      /\ \A h \in Handlers : HandlerRow(h)'
      /\ \A n \in Notices : ReplayRow(n)'
      /\ \A x \in Cancels : CancelRow(x)'
  BY <1>2, <1>5, <1>6, RequestWorks DEF ReserveQuota
<1>8. RequestRow(r)'
  <2>1. D = {"dispatch"} \/ D = {"execution_fail"}
    BY <1>2, <1>3, <1>4 DEF Early
  <2>2. NoRecord' /\ credit' = "none" /\ dispatches' = 0
    BY <1>3, <1>6 DEF ReserveQuota, history
  <2>3. "dispatch" \in D => quota' = "reserved"
    BY <1>4, <2>1
  <2>4. Fits(D)' /\ RequestFits(D)'
    BY <2>1, <2>2, <2>3 DEF Fits, RequestFits, Closing, Early, CreditCalls, QuotaCalls
  <2> QED BY <1>4, <1>5, <2>4, NewRequestRow
<1>9. OneAtWork'
  <2>1. execution' # "absent" /\ dispatches' \in {0, 1}
    BY <1>2, <1>3 DEF ReserveQuota, history
  <2> QED BY <1>2, <1>5, <2>1, AtWorkKept
<1>10. BooksRow'
  BY <1>3, <1>6 DEF ReserveQuota, BooksRow, NoRecord, Terminal, Open, history, QuotaClosed,
                    CreditClosed, Refusal, GenerationInv
<1>11. TypeOK' /\ SucceededHasRecord'
  BY <1>4, <1>5 DEF GenerationInv, TypeOK, ReserveQuota, SucceededHasRecord, noticed, cancelling,
                    history
<1> QED BY <1>7, <1>8, <1>9, <1>10, <1>11 DEF GenerationInv
LEMMA DispatchStep ==
  ASSUME GenerationInv, NEW r \in Requests, Dispatch(r) PROVE GenerationInv'
<1>1. request[r] # <<>> /\ Head(request[r]) = "dispatch"
  BY DEF Dispatch, At
<1>2. PICK C : /\ Fits(C) /\ RequestFits(C) /\ "dispatch" \in C
               /\ \A c \in C \ {"dispatch"} : Rank["dispatch"] < Rank[c]
               /\ execution # "absent" /\ AtWork(r)
  BY <1>1, RequestInHand
<1>3. /\ dispatches = 0 /\ NoRecord /\ credit = "none" /\ quota = "reserved"
  <2>1. "reserve_quota" \notin C
    BY <1>2, RankValues
  <2> QED BY <1>2, <2>1 DEF RequestFits, Early
<1>4. dispatches' = 1
  BY <1>3 DEF Dispatch
<1>5. PICK t, D : /\ Script(t, D) /\ Proceed(r, t)
                  /\ \/ \E answer \in Open \cup {"completed", "failed"} :
                           /\ D = AfterAnswer(answer)
                           /\ decided' = decided \cup ({answer} \ Open)
                           /\ provider'.status = answer
                     \/ D = {"release_quota", "execution_fail"}
                     \/ D = {"execution_fail"}
  <2>1. CASE \E job \in BOOLEAN, answer \in Open \cup {"completed", "failed"} :
               /\ Proceed(r, Continue(answer)) /\ decided' = decided \cup ({answer} \ Open)
               /\ provider'.status = answer
    BY <2>1, ContinueScript
  <2>2. CASE Proceed(r, <<"release_quota", "execution_fail">>)
    BY <2>2, RequestScripts
  <2>3. CASE Proceed(r, <<"execution_fail">>)
    BY <2>3, RequestScripts
  <2> QED BY <2>1, <2>2, <2>3 DEF Dispatch
<1>6. /\ request'[r] = t /\ \A s \in Requests \ {r} : request'[s] = request[s]
      /\ request' \in [Requests -> Seq(Steps)]
  BY <1>5, ProceedFrame DEF Script
<1>7. /\ UNCHANGED <<execution, books, noticed, cancelling, billed>>
      /\ decided \subseteq decided' /\ decided' \subseteq Terminal
      /\ faults' \in 0..MaxFaults
      /\ provider' \in [job : BOOLEAN, status : Open \cup Terminal \cup {"empty", "none"}]
  <2>1. UNCHANGED <<execution, books, noticed, cancelling, billed>> /\ decided \subseteq decided'
    BY DEF Dispatch
  <2>2. decided' \subseteq Terminal
    BY DEF Dispatch, GenerationInv, TypeOK, Open, Terminal
  <2>3. faults' \in 0..MaxFaults
    BY MaxFaultsAssumption DEF Dispatch, Fault, GenerationInv, TypeOK
  <2>4. provider' \in [job : BOOLEAN, status : Open \cup Terminal \cup {"empty", "none"}]
    BY DEF Dispatch, GenerationInv, TypeOK, Open, Terminal
  <2> QED BY <2>1, <2>2, <2>3, <2>4
<1>8. Grows /\ (NoRecord' <=> NoRecord) /\ BooksRow'
  <2>1. provider.status = "none"
    BY <1>3 DEF GenerationInv, BooksRow
  <2>2. Onward
    BY <1>4, <1>7, <2>1 DEF Onward, Bare, noticed
  <2> QED BY <1>7, <2>2, Still
<1>9. /\ \A s \in Requests \ {r} : RequestRow(s)' /\ ~AtWork(s) /\ ~AtWork(s)'
      /\ \A h \in Handlers : HandlerRow(h)'
      /\ \A n \in Notices : ReplayRow(n)'
      /\ \A x \in Cancels : CancelRow(x)'
  BY <1>2, <1>6, <1>7, <1>8, RequestWorks
<1>10. RequestRow(r)'
  <2>1. NoRecord' /\ credit' = "none" /\ quota' = "reserved"
    BY <1>3, <1>7, <1>8 DEF books
  <2>2. ASSUME NEW answer \in Open \cup {"completed", "failed"}, D = AfterAnswer(answer),
               decided' = decided \cup ({answer} \ Open), provider'.status = answer
        PROVE  RequestRow(r)'
    <3>1. /\ answer = "completed" => "completed" \in decided'
          /\ answer = "failed" => "failed" \in decided'
          /\ provider'.status = answer
      BY <2>2 DEF Open
    <3>2. CASE answer = "completed"
      <4>1. D = {"reserve_credit", "create", "mark_running", "persist_outputs", "settle_credits",
                 "commit_quota", "complete", "execution_succeed"}
        BY <2>2, <3>2 DEF AfterAnswer
      <4>2. Fits(D)' /\ RequestFits(D)'
        BY <2>1, <3>1, <3>2, <4>1 DEF Fits, RequestFits, Closing, Early, CreditCalls, QuotaCalls
      <4> QED BY <1>5, <1>6, <4>2, NewRequestRow
    <3>3. CASE answer = "failed"
      <4>1. D = {"reserve_credit", "create", "mark_running", "refund_credits", "release_quota",
                 "fail", "execution_fail"}
        BY <2>2, <3>3 DEF AfterAnswer
      <4>2. Fits(D)' /\ RequestFits(D)'
        BY <2>1, <3>1, <3>3, <4>1
           DEF Fits, RequestFits, Closing, Early, CreditCalls, QuotaCalls, Refusal
      <4> QED BY <1>5, <1>6, <4>2, NewRequestRow
    <3>4. CASE answer \in Open
      <4>1. /\ "reserve_credit" \in D /\ "create" \in D
            /\ D \subseteq {"reserve_credit", "create", "mark_running", "execution_succeed"}
        BY <2>2, <3>4 DEF AfterAnswer, Open
      <4>2. Fits(D)' /\ RequestFits(D)'
        BY <2>1, <4>1 DEF Fits, RequestFits, Closing, Early, CreditCalls, QuotaCalls
      <4> QED BY <1>5, <1>6, <4>2, NewRequestRow
    <3> QED BY <2>2, <3>2, <3>3, <3>4
  <2>3. CASE D \in {{"release_quota", "execution_fail"}, {"execution_fail"}}
    <3>1. Fits(D)' /\ RequestFits(D)'
      BY <2>1, <2>3 DEF Fits, RequestFits, Closing, Early, CreditCalls, QuotaCalls
    <3> QED BY <1>5, <1>6, <3>1, NewRequestRow
  <2> QED BY <1>5, <2>2, <2>3
<1>11. OneAtWork'
  <2>1. execution' # "absent" /\ dispatches' \in {0, 1}
    BY <1>2, <1>4, <1>7
  <2> QED BY <1>2, <1>6, <2>1, AtWorkKept
<1>12. TypeOK' /\ SucceededHasRecord'
  BY <1>4, <1>6, <1>7 DEF GenerationInv, TypeOK, SucceededHasRecord, books, noticed, cancelling
<1> QED BY <1>8, <1>9, <1>10, <1>11, <1>12 DEF GenerationInv

LEMMA ReserveCreditStep ==
  ASSUME GenerationInv, NEW r \in Requests, ReserveCredit(r) PROVE GenerationInv'
<1>1. request[r] # <<>> /\ Head(request[r]) = "reserve_credit"
  BY DEF ReserveCredit, At
<1>2. PICK C : /\ Fits(C) /\ RequestFits(C) /\ "reserve_credit" \in C
               /\ Script(Tail(request[r]), C \ {"reserve_credit"})
               /\ \A c \in C \ {"reserve_credit"} : Rank["reserve_credit"] < Rank[c]
               /\ execution # "absent" /\ AtWork(r)
  BY <1>1, RequestInHand
<1>3. /\ "create" \in C /\ C \cap Early = {} /\ NoRecord
      /\ credit = "none" /\ quota = "reserved"
  <2>1. C \cap Early = {}
    BY <1>2, RankValues DEF Early
  <2> QED BY <1>2, <2>1 DEF RequestFits
<1>4. PICK t, D : /\ Script(t, D) /\ Proceed(r, t)
        /\ \/ /\ credit' = "reserved" /\ D = C \ {"reserve_credit"}
              /\ decided' = decided
           \/ /\ credit' = "none" /\ D = {"release_quota", "fail", "execution_fail"}
              /\ decided' = decided \cup {"failed"}
  <2>1. CASE credit' = "reserved" /\ Return(r) /\ decided' = decided
    BY <1>2, <2>1 DEF Return
  <2>2. CASE credit' = credit /\ Unwinds(r, "reserve_credit")
    <3>1. Unwind("reserve_credit") = <<"release_quota", "fail", "execution_fail">>
      BY DEF Unwind
    <3>2. Script(Unwind("reserve_credit"), {"release_quota", "fail", "execution_fail"})
      BY <3>1, RequestScripts
    <3>3. decided' = decided \cup {"failed"} /\ Proceed(r, Unwind("reserve_credit"))
      BY <2>2, <3>2 DEF Unwinds, Script
    <3> QED BY <1>3, <2>2, <3>2, <3>3
  <2> QED BY <1>3, <2>1, <2>2 DEF ReserveCredit
<1>5. /\ request'[r] = t /\ \A s \in Requests \ {r} : request'[s] = request[s]
      /\ request' \in [Requests -> Seq(Steps)]
  BY <1>4, ProceedFrame DEF Script
<1>6. /\ UNCHANGED <<execution, provider, record, quota, outputs, noticed, cancelling, faults,
                     dispatches, billed>>
      /\ decided \subseteq decided' /\ decided' \subseteq Terminal
      /\ credit' \in {"none", "reserved"}
  BY <1>4 DEF ReserveCredit, GenerationInv, TypeOK, Terminal
<1>7. Grows /\ (NoRecord' <=> NoRecord)
  <2>1. Onward
    BY <1>6, OnwardKept DEF noticed
  <2> QED BY <1>3, <1>6, <2>1 DEF Grows, NoRecord, CreditClosed, QuotaClosed
<1>8. /\ \A s \in Requests \ {r} : RequestRow(s)' /\ ~AtWork(s) /\ ~AtWork(s)'
      /\ \A h \in Handlers : HandlerRow(h)'
      /\ \A n \in Notices : ReplayRow(n)'
      /\ \A x \in Cancels : CancelRow(x)'
  BY <1>2, <1>5, <1>6, <1>7, RequestWorks
<1>9. RequestRow(r)'
  <2>1. Fits(D)' /\ RequestFits(D)'
    <3>1. NoRecord' /\ quota' = "reserved"
      BY <1>3, <1>6, <1>7
    <3>2. CASE credit' = "reserved" /\ D = C \ {"reserve_credit"}
      <4>1. Fits(C)'
        BY <1>2, <1>7, FitsGrows
      <4>2. Fits(D)'
        BY <3>2, <4>1 DEF Fits, Closing, CreditCalls, QuotaCalls
      <4>3. RequestFits(D)'
        BY <1>2, <1>3, <1>6, <3>1, <3>2
           DEF RequestFits, Closing, CreditCalls, QuotaCalls, Early
      <4> QED BY <4>2, <4>3
    <3>3. CASE D = {"release_quota", "fail", "execution_fail"} /\ decided' = decided \cup {"failed"}
      BY <3>1, <3>3 DEF Fits, RequestFits, Closing, CreditCalls, QuotaCalls, Early
    <3> QED BY <1>4, <3>2, <3>3
  <2> QED BY <1>4, <1>5, <2>1, NewRequestRow
<1>10. OneAtWork'
  <2>1. execution' # "absent" /\ dispatches' \in {0, 1}
    BY <1>2, <1>6 DEF GenerationInv, OneAtWork
  <2> QED BY <1>2, <1>5, <2>1, AtWorkKept
<1>11. BooksRow'
  BY <1>3, <1>6, <1>7 DEF GenerationInv, BooksRow, NoRecord, Terminal
<1>12. TypeOK' /\ SucceededHasRecord'
  BY <1>5, <1>6 DEF GenerationInv, TypeOK, SucceededHasRecord, noticed, cancelling
<1> QED BY <1>8, <1>9, <1>10, <1>11, <1>12 DEF GenerationInv

LEMMA CreateStep ==
  ASSUME GenerationInv, NEW r \in Requests, Create(r) PROVE GenerationInv'
<1>1. request[r] # <<>> /\ Head(request[r]) = "create"
  BY DEF Create, At
<1>2. PICK C : /\ Fits(C) /\ RequestFits(C) /\ "create" \in C
               /\ Script(Tail(request[r]), C \ {"create"})
               /\ \A c \in C \ {"create"} : Rank["create"] < Rank[c]
               /\ execution # "absent" /\ AtWork(r)
  BY <1>1, RequestInHand
<1>3. /\ C \cap Early = {} /\ "reserve_credit" \notin C /\ NoRecord
      /\ credit = "reserved" /\ quota = "reserved"
  <2>1. C \cap Early = {} /\ "reserve_credit" \notin C
    BY <1>2, RankValues DEF Early
  <2> QED BY <1>2, <2>1 DEF RequestFits
<1>4. PICK t, D : Script(t, D) /\ D = C \ {"create"} /\ Proceed(r, t)
  BY <1>2 DEF Create, Return
<1>5. /\ request'[r] = t /\ \A s \in Requests \ {r} : request'[s] = request[s]
      /\ request' \in [Requests -> Seq(Steps)]
  BY <1>4, ProceedFrame DEF Script
<1>6. /\ UNCHANGED <<execution, provider, credit, quota, outputs, noticed, cancelling, faults,
                     dispatches, decided, billed>>
      /\ record' = [status |-> "queued", charged |-> FALSE]
  BY <1>3 DEF Create, history, NoRecord
<1>7. Grows /\ ~NoRecord'
  <2>1. Onward
    BY <1>6, OnwardKept DEF noticed
  <2> QED BY <1>6, <2>1 DEF Grows, NoRecord, CreditClosed, QuotaClosed
<1>8. /\ \A s \in Requests \ {r} : RequestRow(s)' /\ ~AtWork(s) /\ ~AtWork(s)'
      /\ \A h \in Handlers : HandlerRow(h)'
      /\ \A n \in Notices : ReplayRow(n)'
      /\ \A x \in Cancels : CancelRow(x)'
  BY <1>2, <1>5, <1>6, <1>7, RequestWorks
<1>9. RequestRow(r)'
  <2>1. Fits(D)'
    <3>1. /\ D \cap Closing # {} => D \cap CreditCalls # {} /\ D \cap QuotaCalls # {}
          /\ "release_quota" \in D => "failed" \in decided
      BY <1>2, <1>4 DEF RequestFits, Fits, Closing, CreditCalls, QuotaCalls
    <3> QED BY <1>2, <1>4, <1>6, <3>1 DEF Fits, Refusal, Closing, CreditCalls, QuotaCalls
  <2>2. RequestFits(D)'
    BY <1>2, <1>3, <1>4, <1>6, <1>7 DEF RequestFits, Early
  <2> QED BY <1>4, <1>5, <2>1, <2>2, NewRequestRow
<1>10. OneAtWork'
  <2>1. execution' # "absent" /\ dispatches' \in {0, 1}
    BY <1>2, <1>6 DEF GenerationInv, OneAtWork
  <2> QED BY <1>2, <1>5, <2>1, AtWorkKept
<1>11. BooksRow'
  BY <1>3, <1>6, <1>7 DEF GenerationInv, BooksRow, NoRecord, Terminal
<1>12. TypeOK' /\ SucceededHasRecord'
  BY <1>5, <1>6 DEF GenerationInv, TypeOK, SucceededHasRecord, noticed, cancelling, Open
<1> QED BY <1>8, <1>9, <1>10, <1>11, <1>12 DEF GenerationInv
LEMMA RequestCallStep ==
  ASSUME GenerationInv, NEW r \in Requests, RequestCall(r) PROVE GenerationInv'
<1>1. PICK call : call = Head(request[r])
  OBVIOUS
<1>2. request[r] # <<>> /\ Do(call) /\ Proceed(r, Tail(request[r]))
  BY <1>1 DEF RequestCall, Return
<1>3. PICK C : /\ Fits(C) /\ RequestFits(C) /\ call \in C /\ call \in Steps
               /\ Script(Tail(request[r]), C \ {call})
               /\ \A c \in C \ {call} : Rank[call] < Rank[c]
               /\ execution # "absent"
               /\ call # "require_recovery" => AtWork(r)
  BY <1>1, <1>2, RequestInHand
<1>4. Rank[call] > 4 /\ call # "require_recovery"
  BY <1>2, RankValues DEF Do
<1>5. C \cap Early = {} /\ "reserve_credit" \notin C /\ "create" \notin C
  <2>1. Rank[call] \in 1..10
    BY <1>3, RankType
  <2> QED BY <1>3, <1>4, <2>1, RankValues DEF Early
<1>6. call \in {"mark_running", "note_running"} => ~NoRecord
  BY <1>3, <1>5 DEF RequestFits
<1>7. UNCHANGED <<execution, provider, noticed, cancelling, faults, dispatches, decided, billed>>
  BY DEF RequestCall, history
<1>8. /\ Grows /\ (NoRecord' <=> NoRecord) /\ BooksRow' /\ Fits(C \ {call})'
      /\ record' \in [status : Open \cup Terminal \cup {"absent"}, charged : BOOLEAN]
      /\ credit' \in {"none", "reserved", "settled", "refunded"}
      /\ quota' \in {"none", "reserved", "committed", "released"}
      /\ outputs' \in BOOLEAN
  BY <1>2, <1>3, <1>6, <1>7, DoStep DEF GenerationInv, noticed
<1>9. /\ request'[r] = Tail(request[r])
      /\ \A s \in Requests \ {r} : request'[s] = request[s]
      /\ request' \in [Requests -> Seq(Steps)]
  BY <1>2, <1>3, ProceedFrame DEF Script
<1>10. /\ \A s \in Requests \ {r} : RequestRow(s)' /\ ~AtWork(s) /\ ~AtWork(s)'
       /\ \A h \in Handlers : HandlerRow(h)'
       /\ \A n \in Notices : ReplayRow(n)'
       /\ \A x \in Cancels : CancelRow(x)'
  BY <1>3, <1>4, <1>7, <1>8, <1>9, RequestWorks
<1>11. RequestRow(r)'
  <2>1. PICK t, D : t = Tail(request[r]) /\ D = C \ {call}
    OBVIOUS
  <2>2. Fits(D)'
    BY <1>8, <2>1
  <2>3. "commit_quota" \in D => "complete" \in D
    <3>1. CASE call = "complete"
      BY <1>3, <2>1, <3>1, RankValues
    <3>2. CASE call # "complete"
      BY <1>3, <2>1, <3>2 DEF RequestFits
    <3> QED BY <3>1, <3>2
  <2>4. RequestFits(D)'
    <3>1. D \cap Early = {} /\ "reserve_credit" \notin D /\ "create" \notin D
      BY <1>5, <2>1
    <3>2. D \cap {"mark_running", "note_running", "execution_succeed"} # {} => ~NoRecord'
      BY <1>3, <1>5, <1>8, <2>1 DEF RequestFits
    <3>3. "cancel" \notin D /\ ("complete" \in D => provider'.status = "completed")
      BY <1>3, <1>7, <2>1 DEF RequestFits
    <3> QED BY <2>3, <3>1, <3>2, <3>3 DEF RequestFits
  <2> QED BY <1>3, <1>9, <2>1, <2>2, <2>4, NewRequestRow
<1>12. OneAtWork'
  <2>1. execution' # "absent" /\ dispatches' \in {0, 1}
    BY <1>3, <1>7 DEF GenerationInv, OneAtWork
  <2> QED BY <1>3, <1>4, <1>9, <2>1, AtWorkKept
<1>13. TypeOK' /\ SucceededHasRecord'
  BY <1>7, <1>8, <1>9 DEF GenerationInv, TypeOK, SucceededHasRecord, noticed, cancelling, NoRecord
<1> QED BY <1>8, <1>10, <1>11, <1>12, <1>13 DEF GenerationInv

LEMMA EndExecutionStep ==
  ASSUME GenerationInv, NEW r \in Requests, EndExecution(r) PROVE GenerationInv'
<1>1. PICK call : call = Head(request[r])
  OBVIOUS
<1>2. /\ request[r] # <<>> /\ Proceed(r, Tail(request[r]))
      /\ \/ call = "execution_succeed" /\ execution' = "succeeded"
         \/ call = "execution_fail" /\ execution' = "failed"
         \/ call = "require_recovery" /\ execution' = "recovery_required"
  BY <1>1 DEF EndExecution, Return, At
<1>3. PICK C : /\ Fits(C) /\ RequestFits(C) /\ call \in C
               /\ Script(Tail(request[r]), C \ {call})
               /\ \A c \in C \ {call} : Rank[call] < Rank[c]
               /\ AtWork(r) <=> ~ (C \subseteq {"require_recovery"})
  BY <1>1, <1>2, RequestInHand
<1>4. UNCHANGED <<provider, books, noticed, cancelling, faults, dispatches, decided, billed>>
  BY DEF EndExecution, history
<1>5. /\ request'[r] = Tail(request[r])
      /\ \A s \in Requests \ {r} : request'[s] = request[s]
      /\ request' \in [Requests -> Seq(Steps)]
  BY <1>2, <1>3, ProceedFrame DEF Script
<1>6. /\ Grows /\ (NoRecord' <=> NoRecord) /\ BooksRow'
      /\ \A s \in Requests : request'[s] = request[s] => RequestRow(s)'
      /\ \A h \in Handlers : handler'[h] = handler[h] => HandlerRow(h)'
      /\ \A n \in Notices : replay'[n] = replay[n] => ReplayRow(n)'
      /\ \A x \in Cancels : cancel'[x] = cancel[x] => CancelRow(x)'
  BY <1>4, StillRows, OnwardKept DEF noticed
<1>7. RequestRow(r)'
  <2>1. PICK t, D : t = Tail(request[r]) /\ D = C \ {call}
    OBVIOUS
  <2>2. Fits(C)'
    BY <1>3, <1>6, FitsGrows
  <2>3. Fits(D)'
    BY <1>2, <2>1, <2>2 DEF Fits, Closing, CreditCalls, QuotaCalls
  <2>4. RequestFits(D)'
    <3>1. RequestFits(C)'
      BY <1>3, <1>4, <1>6 DEF RequestFits, books
    <3> QED BY <1>2, <2>1, <3>1 DEF RequestFits, Early, Closing, CreditCalls, QuotaCalls
  <2> QED BY <1>3, <1>5, <2>1, <2>3, <2>4, NewRequestRow
<1>8. OneAtWork'
  <2>1. execution' # "absent" /\ dispatches' \in {0, 1}
    BY <1>2, <1>4 DEF GenerationInv, OneAtWork
  <2>2. AtWork(r)' => AtWork(r)
    BY <1>3, <1>5 DEF AtWork, Script
  <2> QED BY <1>5, <2>1, <2>2, AtWorkKept
<1>9. SucceededHasRecord'
  <2>1. CASE call = "execution_succeed"
    <3>1. "create" \notin C
      BY <1>3, <2>1, RankValues
    <3> QED BY <1>3, <1>6, <2>1, <3>1 DEF RequestFits, NoRecord, SucceededHasRecord
  <2>2. CASE call # "execution_succeed"
    BY <1>2, <2>2 DEF SucceededHasRecord
  <2> QED BY <2>1, <2>2
<1>10. TypeOK'
  BY <1>2, <1>4, <1>5 DEF GenerationInv, TypeOK, books, noticed, cancelling
<1> QED BY <1>4, <1>5, <1>6, <1>7, <1>8, <1>9, <1>10 DEF GenerationInv, noticed, cancelling

LEMMA RequestThrowsStep ==
  ASSUME GenerationInv, NEW r \in Requests, RequestThrows(r) PROVE GenerationInv'
<1>1. PICK call : call = Head(request[r])
  OBVIOUS
<1>2. request[r] # <<>> /\ call # "dispatch" /\ Unwinds(r, call)
  BY <1>1 DEF RequestThrows, At
<1>3. PICK C : /\ Fits(C) /\ RequestFits(C) /\ call \in C /\ call \in Steps
               /\ \A c \in C \ {call} : Rank[call] < Rank[c]
               /\ execution # "absent"
               /\ call # "require_recovery" => AtWork(r)
  BY <1>1, <1>2, RequestInHand
<1>4. PICK t, D : /\ t = Unwind(call) /\ Script(t, D)
        /\ D = CASE call \in {"create", "mark_running", "persist_outputs", "settle_credits"} ->
                      {"refund_credits", "release_quota", "fail", "execution_fail"}
                 [] call \in {"reserve_credit", "commit_quota"} ->
                      {"release_quota", "fail", "execution_fail"}
                 [] call = "complete" -> {"fail", "execution_fail"}
                 [] call \in {"execution_fail", "require_recovery"} -> {}
                 [] OTHER -> {"execution_fail"}
  BY UnwindScripts
<1>5. /\ request'[r] = t
      /\ \A s \in Requests \ {r} : request'[s] = request[s]
      /\ request' \in [Requests -> Seq(Steps)]
      /\ decided' = decided \cup {o \in {"failed"} : "fail" \in D}
  <2>1. Proceed(r, t) /\ decided' = decided \cup {o \in {"failed"} : "fail" \in D}
    BY <1>2, <1>4 DEF Unwinds, Script
  <2> QED BY <1>4, <2>1, ProceedFrame DEF Script
<1>6. /\ UNCHANGED <<execution, provider, books, noticed, cancelling, dispatches, billed>>
      /\ faults' \in 0..MaxFaults /\ decided' \subseteq Terminal
      /\ decided \subseteq decided' /\ ("fail" \in D => "failed" \in decided')
  <2>1. faults' \in 0..MaxFaults
    BY MaxFaultsAssumption DEF RequestThrows, Fault, GenerationInv, TypeOK
  <2> QED BY <1>5, <2>1 DEF RequestThrows, GenerationInv, TypeOK, Terminal
<1>7. /\ Grows /\ (NoRecord' <=> NoRecord) /\ BooksRow'
      /\ \A s \in Requests : request'[s] = request[s] => RequestRow(s)'
      /\ \A h \in Handlers : handler'[h] = handler[h] => HandlerRow(h)'
      /\ \A n \in Notices : replay'[n] = replay[n] => ReplayRow(n)'
      /\ \A x \in Cancels : cancel'[x] = cancel[x] => CancelRow(x)'
  BY <1>6, StillRows, OnwardKept DEF noticed
<1>8. /\ "create" \notin D /\ D \cap Early = {}
      /\ D \subseteq {"refund_credits", "release_quota", "fail", "execution_fail"}
      /\ D \cap {"release_quota", "refund_credits"} # {} => "fail" \in D
      /\ "refund_credits" \in D => "release_quota" \in D
  <2>1. D \in {{"refund_credits", "release_quota", "fail", "execution_fail"},
               {"release_quota", "fail", "execution_fail"}, {"fail", "execution_fail"}, {},
               {"execution_fail"}}
    BY <1>4, ZenonT(30)
  <2> QED BY <2>1 DEF Early
<1>9. "fail" \in D /\ "refund_credits" \notin D => CreditClosed \/ NoRecord
  <2> SUFFICES ASSUME "fail" \in D, "refund_credits" \notin D
               PROVE  CreditClosed \/ NoRecord
    OBVIOUS
  <2>1. call \in {"reserve_credit", "commit_quota", "complete"}
    BY <1>4
  <2>2. CASE call = "reserve_credit"
    BY <1>3, <2>2 DEF RequestFits
  <2>3. CASE call \in {"commit_quota", "complete"}
    <3>1. C \cap CreditCalls = {}
      BY <1>3, <2>3, RankValues DEF CreditCalls
    <3>2. C \cap Closing # {}
      BY <1>3, <2>3 DEF RequestFits, Closing
    <3>3. ~ Bare /\ "cancel" \notin C
      <4>1. "complete" \in C
        BY <1>3, <2>3 DEF RequestFits
      <4>2. provider.status = "completed"
        BY <1>3, <4>1 DEF RequestFits
      <4> QED BY <1>3, <4>2, BareIsEmpty DEF RequestFits
    <3> QED BY <1>3, <3>1, <3>2, <3>3 DEF Fits
  <2> QED BY <2>1, <2>2, <2>3
<1>10. "fail" \in D /\ "release_quota" \notin D => QuotaClosed \/ NoRecord
  <2> SUFFICES ASSUME "fail" \in D, "release_quota" \notin D
               PROVE  QuotaClosed \/ NoRecord
    OBVIOUS
  <2>1. call = "complete"
    BY <1>4
  <2>2. C \cap QuotaCalls = {}
    BY <1>3, <2>1, RankValues DEF QuotaCalls
  <2>3. C \cap Closing # {}
    BY <1>3, <2>1 DEF Closing
  <2>4. ~ Bare /\ "cancel" \notin C
    <3>1. provider.status = "completed"
      BY <1>3, <2>1 DEF RequestFits
    <3> QED BY <1>3, <3>1, BareIsEmpty DEF RequestFits
  <2> QED BY <1>3, <2>2, <2>3, <2>4 DEF Fits
<1>11. RequestRow(r)'
  <2>1. Fits(D)'
    <3>1. /\ D \cap {"settle_credits", "commit_quota", "complete", "cancel"} = {}
          /\ "refund_credits" \in D => D \cap CreditCalls # {}
          /\ "release_quota" \in D => D \cap QuotaCalls # {}
      BY <1>8 DEF CreditCalls, QuotaCalls
    <3>2. "fail" \in D => \/ NoRecord'
                          \/ /\ D \cap CreditCalls # {} \/ CreditClosed'
                             /\ D \cap QuotaCalls # {} \/ QuotaClosed'
      BY <1>7, <1>8, <1>9, <1>10, <3>1 DEF Grows
    <3>3. "fail" \in D => "failed" \in decided' /\ Refusal'
      BY <1>6 DEF Refusal
    <3>4. D \cap Closing # {} => "fail" \in D
      BY <3>1 DEF Closing
    <3> QED BY <1>8, <3>1, <3>2, <3>3, <3>4
       DEF Fits, Grows, Refusal, Closing, CreditCalls, QuotaCalls, CreditClosed, QuotaClosed
  <2>2. RequestFits(D)'
    BY <1>8 DEF RequestFits, Early
  <2> QED BY <1>4, <1>5, <2>1, <2>2, NewRequestRow
<1>12. OneAtWork'
  <2>1. execution' # "absent" /\ dispatches' \in {0, 1}
    BY <1>3, <1>6 DEF GenerationInv, OneAtWork
  <2>2. AtWork(r)' => AtWork(r)
    <3>1. CASE call = "require_recovery"
      <4>1. D = {}
        BY <1>4, <3>1
      <4> QED BY <1>4, <1>5, <4>1 DEF AtWork, Script
    <3> QED BY <1>3, <3>1
  <2> QED BY <1>5, <2>1, <2>2, AtWorkKept
<1>13. TypeOK' /\ SucceededHasRecord'
  BY <1>5, <1>6 DEF GenerationInv, TypeOK, SucceededHasRecord, books, noticed, cancelling
<1> QED BY <1>5, <1>6, <1>7, <1>11, <1>12, <1>13 DEF GenerationInv, noticed, cancelling

LEMMA RequestCrashesStep ==
  ASSUME GenerationInv, NEW r \in Requests, RequestCrashes(r) PROVE GenerationInv'
<1>1. PICK t : t = <<>>
  OBVIOUS
<1>2. Script(t, {}) /\ t \in Seq(Steps)
  BY <1>1, NoCalls DEF Script
<1>3. /\ request'[r] = t /\ \A s \in Requests \ {r} : request'[s] = request[s]
      /\ request' \in [Requests -> Seq(Steps)]
  BY <1>1, <1>2, ProceedFrame DEF RequestCrashes
<1>4. UNCHANGED <<execution, provider, books, noticed, cancelling, dispatches, decided, billed>>
      /\ faults' \in 0..MaxFaults
  BY MaxFaultsAssumption DEF RequestCrashes, history, Fault, GenerationInv, TypeOK
<1>5. /\ Grows /\ (NoRecord' <=> NoRecord) /\ BooksRow'
      /\ \A s \in Requests : request'[s] = request[s] => RequestRow(s)'
      /\ \A h \in Handlers : handler'[h] = handler[h] => HandlerRow(h)'
      /\ \A n \in Notices : replay'[n] = replay[n] => ReplayRow(n)'
      /\ \A x \in Cancels : cancel'[x] = cancel[x] => CancelRow(x)'
  BY <1>4, StillRows, OnwardKept DEF noticed
<1>6. Calls(request'[r]) = {}
  BY <1>2, <1>3 DEF Script
<1>7. RequestRow(r)'
  BY <1>2, <1>3, <1>6, RestingRequest DEF Script
<1>8. OneAtWork'
  <2>1. ~AtWork(r)' /\ execution' # "absent" /\ dispatches' \in {0, 1}
    <3>1. execution # "absent"
      BY DEF GenerationInv, OneAtWork, RequestCrashes
    <3> QED BY <1>4, <1>6, <3>1 DEF GenerationInv, OneAtWork, AtWork
  <2> QED BY <1>3, <2>1, AtWorkKept
<1>9. TypeOK' /\ SucceededHasRecord'
  BY <1>3, <1>4 DEF GenerationInv, TypeOK, SucceededHasRecord, books, noticed, cancelling
<1> QED BY <1>3, <1>4, <1>5, <1>7, <1>8, <1>9 DEF GenerationInv, noticed, cancelling
-----------------------------------------------------------------------------
(* The steps of the handlers *)

\* A handler that has calls to make.
LEMMA HandlerInHand ==
  ASSUME GenerationInv, NEW h \in Handlers, handler[h].todo # <<>>
  PROVE  \E C : /\ C = Calls(handler[h].todo) /\ Fits(C) /\ Shows(handler[h].done)
                /\ handler[h].notice \in Notices /\ Told(handler[h].notice)
                /\ "mark_running" \notin C /\ ~NoRecord
                /\ Head(handler[h].todo) \in C /\ Head(handler[h].todo) \in Steps
                /\ Script(Tail(handler[h].todo), C \ {Head(handler[h].todo)})
                /\ \A c \in C \ {Head(handler[h].todo)} :
                     Rank[Head(handler[h].todo)] < Rank[c]
<1>1. HandlerRow(h)
  BY DEF GenerationInv
<1> QED BY <1>1, FirstCall DEF HandlerRow

LEMMA HoldFrame ==
  ASSUME GenerationInv, NEW h \in Handlers, NEW n, NEW t, NEW D, Hold(h, n, t, D)
  PROVE  /\ handler'[h] = [notice |-> n, todo |-> t, done |-> D]
         /\ \A g \in Handlers \ {h} : handler'[g] = handler[g]
         /\ n \in Notices \cup {None} /\ t \in Seq(Steps) /\ D \subseteq PlanCalls =>
              handler' \in [Handlers ->
                [notice : Notices \cup {None}, todo : Seq(Steps), done : SUBSET PlanCalls]]
BY DEF GenerationInv, TypeOK, Hold

LEMMA LetGoFrame ==
  ASSUME GenerationInv, NEW h \in Handlers, LetGo(h)
  PROVE  /\ handler' \in [Handlers ->
                [notice : Notices \cup {None}, todo : Seq(Steps), done : SUBSET PlanCalls]]
         /\ \A g \in Handlers \ {h} : handler'[g] = handler[g]
         /\ HandlerRow(h)'
<1>1. handler'[h] = Idle /\ \A g \in Handlers \ {h} : handler'[g] = handler[g]
  BY DEF GenerationInv, TypeOK, LetGo
<1>2. Idle \in [notice : Notices \cup {None}, todo : Seq(Steps), done : SUBSET PlanCalls]
  BY DEF Idle
<1>3. handler' \in [Handlers ->
        [notice : Notices \cup {None}, todo : Seq(Steps), done : SUBSET PlanCalls]]
  BY <1>2 DEF GenerationInv, TypeOK, LetGo
<1>4. Fits({})' /\ Shows({})'
  BY DEF Fits, Shows
<1>5. handler'[h].todo = <<>> /\ handler'[h].done = {} /\ handler'[h].notice = None
  BY <1>1 DEF Idle
<1>6. HandlerRow(h)'
  BY <1>4, <1>5, NoCalls, NewHandlerRow
<1> QED BY <1>1, <1>3, <1>6

\* A handler that takes its next script in hand.
LEMMA HoldRow ==
  ASSUME GenerationInv, NEW h \in Handlers, NEW n \in Notices, NEW t, NEW C,
         NEW D \in SUBSET PlanCalls, Hold(h, n, t, D), Script(t, C), "mark_running" \notin C,
         Fits(C)', Shows(D)', Told(n)', ~NoRecord'
  PROVE  /\ handler' \in [Handlers ->
                [notice : Notices \cup {None}, todo : Seq(Steps), done : SUBSET PlanCalls]]
         /\ \A g \in Handlers \ {h} : handler'[g] = handler[g]
         /\ HandlerRow(h)'
<1>1. t \in Seq(Steps)
  BY DEF Script
<1>2. /\ handler'[h] = [notice |-> n, todo |-> t, done |-> D]
      /\ \A g \in Handlers \ {h} : handler'[g] = handler[g]
      /\ handler' \in [Handlers ->
           [notice : Notices \cup {None}, todo : Seq(Steps), done : SUBSET PlanCalls]]
  BY <1>1, HoldFrame
<1>3. handler'[h].todo = t /\ handler'[h].done = D /\ handler'[h].notice = n
  BY <1>2
<1>4. HandlerRow(h)'
  BY <1>3, NewHandlerRow
<1> QED BY <1>2, <1>4

LEMMA ReceiveStep ==
  ASSUME GenerationInv, NEW h \in Handlers, NEW notice \in Notices, Receive(h, notice)
  PROVE  GenerationInv'
<1>1. UNCHANGED <<execution, request, provider, books, cancelling, faults, dispatches, decided,
                  billed>>
  BY DEF Receive, claimed, history
<1>2. /\ Grows /\ (NoRecord' <=> NoRecord) /\ BooksRow'
      /\ \A s \in Requests : request'[s] = request[s] => RequestRow(s)'
      /\ \A g \in Handlers : handler'[g] = handler[g] => HandlerRow(g)'
      /\ \A n \in Notices : replay'[n] = replay[n] => ReplayRow(n)'
      /\ \A x \in Cancels : cancel'[x] = cancel[x] => CancelRow(x)'
  <2>1. Bare => Bare'
    <3>1. \/ replay' = replay
          \/ /\ replay[notice].state = "absent"
             /\ replay' = [replay EXCEPT ![notice].state = "ignored"]
      BY DEF Receive
    <3>2. replay \in [Notices ->
            [state : {"absent", "ignored", "claimed", "lapsed", "rejected", "applied"},
             by : Handlers \cup {None}, done : SUBSET PlanCalls]]
      BY DEF GenerationInv, TypeOK
    <3>3. Empty \in Notices
      BY DEF Notices
    <3> QED BY ONLY notice \in Notices, <3>1, <3>2, <3>3 DEF Bare
  <2>2. Onward
    BY <1>1, <2>1 DEF Onward
  <2> QED BY <1>1, <2>2, StillRows
<1>3. OneAtWork'
  BY <1>1, ClaimKept DEF claimed, books
<1>4. CASE Ignored(notice)
  <2>1. /\ replay' = [replay EXCEPT ![notice].state = "ignored"]
        /\ replay[notice].state = "absent" /\ handler' = handler
    BY <1>4 DEF Receive
  <2>2. replay' \in [Notices ->
          [state : {"absent", "ignored", "claimed", "lapsed", "rejected", "applied"},
           by : Handlers \cup {None}, done : SUBSET PlanCalls]]
        /\ replay'[notice].done = replay[notice].done /\ replay'[notice].state = "ignored"
        /\ \A n \in Notices \ {notice} : replay'[n] = replay[n]
    BY <2>1 DEF GenerationInv, TypeOK
  <2>3. ReplayRow(notice)'
    <3>1. PICK D : D = replay[notice].done
      OBVIOUS
    <3>2. Shows(D)'
      BY <1>2, <3>1, ShowsGrows DEF GenerationInv, ReplayRow
    <3> QED BY <2>2, <3>1, <3>2 DEF ReplayRow, Shows, CreditClosed, QuotaClosed
  <2>4. TypeOK' /\ SucceededHasRecord'
    <3>1. TypeOK /\ SucceededHasRecord
      BY DEF GenerationInv
    <3>2. handler' = handler
      BY <2>1
    <3>3. replay' \in [Notices ->
            [state : {"absent", "ignored", "claimed", "lapsed", "rejected", "applied"},
             by : Handlers \cup {None}, done : SUBSET PlanCalls]]
      BY <2>2
    <3> QED BY ONLY <1>1, <3>1, <3>2, <3>3 DEF TypeOK, SucceededHasRecord, books, cancelling
  <2> QED BY <1>1, <1>2, <1>3, <2>1, <2>2, <2>3, <2>4 DEF GenerationInv, cancelling
<1>5. CASE ~Ignored(notice)
  <2>1. Hold(h, notice, <<"claim">>, {}) /\ replay' = replay
    BY <1>5 DEF Receive
  <2>2. PICK t, C : t = <<"claim">> /\ C = {"claim"}
    OBVIOUS
  <2>3. Fits(C)' /\ Shows({})' /\ Told(notice)' /\ ~NoRecord'
    <3>1. ~NoRecord'
      BY <1>2 DEF Receive, NoRecord
    <3>2. Told(notice)
      BY DEF Receive, Said, Told, Empty, Deadline
    <3>3. Told(notice)'
      BY <1>2, <3>2, ToldGrows
    <3> QED BY <2>2, <3>1, <3>3 DEF Fits, Shows, Closing, CreditCalls, QuotaCalls
  <2>4. /\ handler' \in [Handlers ->
              [notice : Notices \cup {None}, todo : Seq(Steps), done : SUBSET PlanCalls]]
        /\ \A g \in Handlers \ {h} : handler'[g] = handler[g]
        /\ HandlerRow(h)'
    <3>1. Script(t, C) /\ "mark_running" \notin C /\ Hold(h, notice, t, {})
      BY <2>1, <2>2, HandlerScripts
    <3> QED BY <2>3, <3>1, HoldRow
  <2>5. TypeOK' /\ SucceededHasRecord'
    BY <1>1, <2>1, <2>4 DEF GenerationInv, TypeOK, SucceededHasRecord, books, cancelling
  <2> QED BY <1>1, <1>2, <1>3, <2>1, <2>4, <2>5 DEF GenerationInv, cancelling
<1> QED BY <1>4, <1>5

\* A notice that is neither of the poller's own is what a provider says.
LEMMA NoticeKinds ==
  ASSUME NEW n \in Notices
  PROVE  /\ n = Deadline \/ n = Empty \/ n[2] \in Spoken
         /\ n[2] = "empty" => n = Empty
         /\ Deadline[2] = "timeout" /\ Empty[2] = "empty" /\ Deadline # Empty
<1>1. Deadline[2] = "timeout" /\ Empty[2] = "empty"
  BY DEF Deadline, Empty
<1>2. \A m \in Sources \X Spoken : m[2] \in Spoken
  OBVIOUS
<1>3. n \in Sources \X Spoken \/ n = Deadline \/ n = Empty
  BY DEF Notices
<1> QED BY <1>1, <1>2, <1>3 DEF Spoken

\* The calls that are left of a plan, where what was done shows, may be set out.
LEMMA PlanFits ==
  ASSUME NEW n \in Notices, NEW D, Shows(D)', ~NoRecord', Told(n)',
         Outcomes(n) \subseteq decided', n = Empty => Bare'
  PROVE  Fits((Asked(n) \ D) \cup {"record"})' /\ "mark_running" \notin Asked(n)
<1>1. PICK C : C = (Asked(n) \ D) \cup {"record"}
  OBVIOUS
<1>2. "mark_running" \notin Asked(n)
  BY DEF Asked
<1>3. /\ n = Deadline => "failed" \in decided'
      /\ n = Empty => "completed" \in decided'
      /\ n \notin {Deadline, Empty} => n[2] = "running" \/ n[2] \in decided'
  BY NoticeKinds DEF Outcomes
<1> USE DEF Fits, Shows, Closing, CreditCalls, QuotaCalls, CreditClosed, QuotaClosed, Refusal,
            NoRecord
<1>4. CASE n[2] = "empty"
  <2>1. C \subseteq {"complete", "record"}
    BY <1>1, <1>4 DEF Asked
  <2>2. n = Empty /\ Bare' /\ "completed" \in decided'
    BY <1>3, <1>4, NoticeKinds
  <2>3. Fits(C)'
    BY ONLY <2>1, <2>2 DEF Fits, Closing, CreditCalls, QuotaCalls
  <2> QED BY <1>1, <1>2, <2>3
<1>5. CASE n[2] = "running"
  <2>1. C \subseteq {"note_running", "record"}
    BY <1>1, <1>5 DEF Asked
  <2>2. Fits(C)'
    BY ONLY <2>1 DEF Fits, Closing, CreditCalls, QuotaCalls
  <2> QED BY <1>1, <1>2, <2>2
<1>6. CASE n[2] = "completed"
  <2>1. C = ({"persist_outputs", "settle_credits", "commit_quota", "complete"} \ D)
              \cup {"record"}
    BY <1>1, <1>6 DEF Asked
  <2>2. "completed" \in decided' /\ provider'.status = "completed"
    <3>1. n \notin {Deadline, Empty}
      BY <1>6, NoticeKinds
    <3> QED BY <1>3, <1>6, <3>1 DEF Told
  <2>3. Fits(C)'
    BY <2>1, <2>2
  <2> QED BY <1>1, <1>2, <2>3
<1>7. CASE n[2] = "cancelled"
  <2>1. C = ({"refund_credits", "release_quota", "cancel"} \ D) \cup {"record"}
    BY <1>1, <1>7 DEF Asked
  <2>2. "cancelled" \in decided'
    BY <1>3, <1>7, NoticeKinds
  <2>3. Fits(C)'
    BY <2>1, <2>2
  <2> QED BY <1>1, <1>2, <2>3
<1>8. CASE n[2] \notin {"running", "completed", "empty", "cancelled"}
  <2>1. C = ({"refund_credits", "release_quota", "fail"} \ D) \cup {"record"}
    BY <1>1, <1>8 DEF Asked
  <2>2. "failed" \in decided'
    BY <1>3, <1>8, NoticeKinds DEF Spoken
  <2>3. Fits(C)'
    BY <2>1, <2>2
  <2> QED BY <1>1, <1>2, <2>3
<1> QED BY <1>4, <1>5, <1>6, <1>7, <1>8

LEMMA ClaimEffectsStep ==
  ASSUME GenerationInv, NEW h \in Handlers, ClaimEffects(h) PROVE GenerationInv'
<1>1. PICK n, done : n = handler[h].notice /\ done = replay[n].done
  OBVIOUS
<1>2. handler[h].todo # <<>>
  BY DEF ClaimEffects
<1>3. n \in Notices /\ Told(n) /\ ~NoRecord
  BY <1>1, <1>2, HandlerInHand
<1>4. UNCHANGED <<execution, request, provider, books, cancelling, faults, dispatches, billed>>
      /\ decided \subseteq decided' /\ decided' \subseteq Terminal
  <2>1. UNCHANGED <<execution, request, provider, books, cancelling, faults, dispatches, billed>>
        /\ decided \subseteq decided'
    BY DEF ClaimEffects, claimed
  <2>2. Outcomes(n) \subseteq Terminal
    BY <1>3, NoticeKinds DEF Outcomes, Terminal, Spoken
  <2>3. decided' = decided \/ decided' = decided \cup Outcomes(n)
    BY <1>1 DEF ClaimEffects
  <2> QED BY <2>1, <2>2, <2>3 DEF GenerationInv, TypeOK
<1>5. /\ Grows /\ (NoRecord' <=> NoRecord) /\ BooksRow'
      /\ \A s \in Requests : request'[s] = request[s] => RequestRow(s)'
      /\ \A g \in Handlers : handler'[g] = handler[g] => HandlerRow(g)'
      /\ \A m \in Notices : replay'[m] = replay[m] => ReplayRow(m)'
      /\ \A x \in Cancels : cancel'[x] = cancel[x] => CancelRow(x)'
  <2>1. Bare => Bare'
    <3>1. \/ replay' = replay
          \/ replay' = [replay EXCEPT ![n].state = "claimed", ![n].by = h]
      BY <1>1 DEF ClaimEffects
    <3>2. replay \in [Notices ->
            [state : {"absent", "ignored", "claimed", "lapsed", "rejected", "applied"},
             by : Handlers \cup {None}, done : SUBSET PlanCalls]]
      BY DEF GenerationInv, TypeOK
    <3>3. Empty \in Notices
      BY DEF Notices
    <3> QED BY ONLY <1>3, <3>1, <3>2, <3>3 DEF Bare
  <2>2. Onward
    BY <1>4, <2>1 DEF Onward
  <2> QED BY <1>4, <2>2, StillRows
<1>6. OneAtWork'
  BY <1>4, ClaimKept DEF claimed, books
<1>7. CASE Free(replay[n])
  <2>1. /\ replay' = [replay EXCEPT ![n].state = "claimed", ![n].by = h]
        /\ Hold(h, n, Append(Plan(n, done), "record"), done)
        /\ decided' = decided \cup Outcomes(n)
    BY <1>1, <1>7 DEF ClaimEffects
  <2>2. /\ replay' \in [Notices ->
              [state : {"absent", "ignored", "claimed", "lapsed", "rejected", "applied"},
               by : Handlers \cup {None}, done : SUBSET PlanCalls]]
        /\ replay'[n].done = done /\ replay'[n].state = "claimed"
        /\ \A m \in Notices \ {n} : replay'[m] = replay[m]
        /\ done \subseteq PlanCalls
    <3>1. replay[n] \in
            [state : {"absent", "ignored", "claimed", "lapsed", "rejected", "applied"},
             by : Handlers \cup {None}, done : SUBSET PlanCalls]
      BY <1>3 DEF GenerationInv, TypeOK
    <3> DEFINE row == [replay[n] EXCEPT !.state = "claimed", !.by = h]
    <3>2. /\ row \in [state : {"absent", "ignored", "claimed", "lapsed", "rejected", "applied"},
                      by : Handlers \cup {None}, done : SUBSET PlanCalls]
          /\ row.done = replay[n].done /\ row.state = "claimed"
      BY ONLY <3>1, h \in Handlers
    <3>3. replay' = [replay EXCEPT ![n] = row]
      BY <2>1
    <3> HIDE DEF row
    <3> QED BY <1>1, <1>3, <3>1, <3>2, <3>3 DEF GenerationInv, TypeOK
  <2>3. Shows(done)'
    BY <1>1, <1>3, <1>5, ShowsGrows DEF GenerationInv, ReplayRow
  <2>10. Told(n)'
    BY <1>3, <1>5, ToldGrows
  <2>4. ReplayRow(n)'
    BY <2>2, <2>3, <2>10 DEF ReplayRow, Shows, Told, CreditClosed, QuotaClosed
  <2>5. /\ Fits((Asked(n) \ done) \cup {"record"})' /\ "mark_running" \notin Asked(n)
    <3>1. Outcomes(n) \subseteq decided' /\ (n = Empty => Bare')
      BY <2>1, <2>2 DEF Bare
    <3> QED BY <1>3, <1>5, <2>3, <2>10, <3>1, PlanFits
  <2>6. PICK t, C : /\ t = Append(Plan(n, done), "record")
                    /\ C = (Asked(n) \ done) \cup {"record"}
    OBVIOUS
  <2>7. Script(t, C) /\ "mark_running" \notin C
    BY <2>5, <2>6, PlanScript
  <2>8. /\ handler' \in [Handlers ->
              [notice : Notices \cup {None}, todo : Seq(Steps), done : SUBSET PlanCalls]]
        /\ \A g \in Handlers \ {h} : handler'[g] = handler[g]
        /\ HandlerRow(h)'
    <3>1. Fits(C)' /\ ~NoRecord' /\ Hold(h, n, t, done)
      BY <1>3, <1>5, <2>1, <2>5, <2>6
    <3> QED BY <1>3, <2>2, <2>3, <2>7, <2>10, <3>1, HoldRow
  <2>9. TypeOK' /\ SucceededHasRecord'
    BY <1>4, <2>2, <2>8 DEF GenerationInv, TypeOK, SucceededHasRecord, books, cancelling
  <2> QED BY <1>4, <1>5, <1>6, <2>2, <2>4, <2>8, <2>9 DEF GenerationInv, cancelling
<1>8. CASE ~Free(replay[n])
  <2>1. LetGo(h) /\ replay' = replay
    BY <1>1, <1>8 DEF ClaimEffects
  <2>2. /\ handler' \in [Handlers ->
              [notice : Notices \cup {None}, todo : Seq(Steps), done : SUBSET PlanCalls]]
        /\ \A g \in Handlers \ {h} : handler'[g] = handler[g]
        /\ HandlerRow(h)'
    BY <2>1, LetGoFrame
  <2>3. TypeOK' /\ SucceededHasRecord'
    BY <1>4, <2>1, <2>2 DEF GenerationInv, TypeOK, SucceededHasRecord, books, cancelling
  <2> QED BY <1>4, <1>5, <1>6, <2>1, <2>2, <2>3 DEF GenerationInv, cancelling
<1> QED BY <1>7, <1>8
LEMMA HandlerCallStep ==
  ASSUME GenerationInv, NEW h \in Handlers, HandlerCall(h) PROVE GenerationInv'
<1>1. PICK n, call, done :
        n = handler[h].notice /\ call = Head(handler[h].todo) /\ done = handler[h].done
  OBVIOUS
<1>2. /\ handler[h].todo # <<>> /\ Do(call)
      /\ Hold(h, n, Tail(handler[h].todo), done \cup {call})
  BY <1>1 DEF HandlerCall
<1>3. PICK C : /\ Fits(C) /\ Shows(done) /\ n \in Notices /\ Told(n)
               /\ "mark_running" \notin C /\ ~NoRecord
               /\ call \in C /\ call \in Steps
               /\ Script(Tail(handler[h].todo), C \ {call})
               /\ \A c \in C \ {call} : Rank[call] < Rank[c]
  BY <1>1, <1>2, HandlerInHand
<1>4. UNCHANGED <<execution, request, provider, replay, cancelling, faults, dispatches, decided,
                  billed>>
  BY DEF HandlerCall, claimed, history
<1>5. /\ Grows /\ (NoRecord' <=> NoRecord) /\ BooksRow' /\ Fits(C \ {call})' /\ Shows({call})'
      /\ record' \in [status : Open \cup Terminal \cup {"absent"}, charged : BOOLEAN]
      /\ credit' \in {"none", "reserved", "settled", "refunded"}
      /\ quota' \in {"none", "reserved", "committed", "released"}
      /\ outputs' \in BOOLEAN /\ call \in PlanCalls
  <2>1. UNCHANGED <<provider, replay, dispatches, decided, billed>> /\ TypeOK /\ BooksRow
    BY <1>4 DEF GenerationInv
  <2> QED BY <1>2, <1>3, <2>1, DoStep
<1>6. /\ \A s \in Requests : request'[s] = request[s] => RequestRow(s)'
      /\ \A g \in Handlers : handler'[g] = handler[g] => HandlerRow(g)'
      /\ \A m \in Notices : replay'[m] = replay[m] => ReplayRow(m)'
      /\ \A x \in Cancels : cancel'[x] = cancel[x] => CancelRow(x)'
  BY <1>3, <1>4, <1>5, RowsKept
<1>7. PICK t, D, made : t = Tail(handler[h].todo) /\ D = C \ {call} /\ made = done \cup {call}
  OBVIOUS
<1>8. Fits(D)' /\ Shows(made)'
  <2>1. Shows(done)'
    BY <1>3, <1>5, ShowsGrows
  <2>2. Shows(made)'
    BY <1>5, <1>7, <2>1 DEF Shows, CreditCalls, QuotaCalls
  <2> QED BY <1>5, <1>7, <2>2
<1>9. made \in SUBSET PlanCalls
  BY <1>1, <1>5, <1>7 DEF GenerationInv, TypeOK
<1>10. /\ handler' \in [Handlers ->
             [notice : Notices \cup {None}, todo : Seq(Steps), done : SUBSET PlanCalls]]
       /\ \A g \in Handlers \ {h} : handler'[g] = handler[g]
       /\ HandlerRow(h)'
  <2>1. Script(t, D) /\ "mark_running" \notin D /\ Hold(h, n, t, made) /\ ~NoRecord'
    BY <1>2, <1>3, <1>5, <1>7
  <2>2. Told(n)'
    BY <1>3, <1>5, ToldGrows
  <2> QED BY <1>3, <1>8, <1>9, <2>1, <2>2, HoldRow
<1>11. OneAtWork'
  BY <1>3, <1>4, ClaimKept DEF claimed
<1>12. TypeOK' /\ SucceededHasRecord'
  BY <1>3, <1>4, <1>5, <1>10 DEF GenerationInv, TypeOK, SucceededHasRecord, cancelling, NoRecord
<1> QED BY <1>4, <1>5, <1>6, <1>10, <1>11, <1>12 DEF GenerationInv, cancelling

LEMMA FailsType ==
  ASSUME TypeOK, NEW call, Fails(call) PROVE faults' \in 0..MaxFaults
BY MaxFaultsAssumption DEF TypeOK, Fails, Fault

LEMMA HandlerThrowsStep ==
  ASSUME GenerationInv, NEW h \in Handlers, HandlerThrows(h) PROVE GenerationInv'
<1>1. PICK n, done : n = handler[h].notice /\ done = handler[h].done
  OBVIOUS
<1>2. handler[h].todo # <<>> /\ Hold(h, n, <<"record">>, done)
  BY <1>1, NoCalls DEF HandlerThrows, Script
<1>3. n \in Notices /\ Told(n) /\ Shows(done) /\ ~NoRecord
  BY <1>1, <1>2, HandlerInHand
<1>4. UNCHANGED <<execution, request, provider, books, replay, cancelling, dispatches, decided,
                  billed>>
      /\ faults' \in 0..MaxFaults
  BY FailsType DEF HandlerThrows, claimed, history, GenerationInv
<1>5. /\ Grows /\ (NoRecord' <=> NoRecord) /\ BooksRow'
      /\ \A s \in Requests : request'[s] = request[s] => RequestRow(s)'
      /\ \A g \in Handlers : handler'[g] = handler[g] => HandlerRow(g)'
      /\ \A m \in Notices : replay'[m] = replay[m] => ReplayRow(m)'
      /\ \A x \in Cancels : cancel'[x] = cancel[x] => CancelRow(x)'
  BY <1>4, StillRows, OnwardKept
<1>6. PICK t, C : t = <<"record">> /\ C = {"record"}
  OBVIOUS
<1>7. /\ handler' \in [Handlers ->
            [notice : Notices \cup {None}, todo : Seq(Steps), done : SUBSET PlanCalls]]
      /\ \A g \in Handlers \ {h} : handler'[g] = handler[g]
      /\ HandlerRow(h)'
  <2>1. Script(t, C) /\ "mark_running" \notin C /\ Hold(h, n, t, done) /\ ~NoRecord'
    BY <1>2, <1>3, <1>5, <1>6, HandlerScripts
  <2>2. Fits(C)'
    BY <1>6 DEF Fits, Closing, CreditCalls, QuotaCalls
  <2>3. Shows(done)' /\ done \in SUBSET PlanCalls
    BY <1>1, <1>3, <1>5, ShowsGrows DEF GenerationInv, TypeOK
  <2>4. Told(n)'
    BY <1>3, <1>5, ToldGrows
  <2> QED BY <1>3, <2>1, <2>2, <2>3, <2>4, HoldRow
<1>8. OneAtWork'
  BY <1>4, ClaimKept DEF claimed, books
<1>9. TypeOK' /\ SucceededHasRecord'
  BY <1>4, <1>7 DEF GenerationInv, TypeOK, SucceededHasRecord, books, cancelling
<1> QED BY <1>4, <1>5, <1>7, <1>8, <1>9 DEF GenerationInv, cancelling

\* A result that is recorded as applied shows.
LEMMA AppliedShows ==
  ASSUME NEW n \in Notices, NEW D, Shows(D), Plan(n, D) = <<>>, n[2] \notin {"running", "empty"}
  PROVE  CreditClosed /\ QuotaClosed /\ (n[2] = "completed" => outputs)
<1>1. Asked(n) \subseteq D
  BY PlanScript
<1>2. /\ Asked(n) \cap CreditCalls # {} /\ Asked(n) \cap QuotaCalls # {}
      /\ n[2] = "completed" => "persist_outputs" \in Asked(n)
  BY DEF Asked, CreditCalls, QuotaCalls
<1> QED BY <1>1, <1>2 DEF Shows

LEMMA RecordResultStep ==
  ASSUME GenerationInv, NEW h \in Handlers, RecordResult(h) PROVE GenerationInv'
<1>1. PICK n, done : n = handler[h].notice /\ done = handler[h].done
  OBVIOUS
<1>2. handler[h].todo # <<>>
  BY DEF RecordResult
<1>3. n \in Notices /\ Told(n) /\ Shows(done) /\ done \in SUBSET PlanCalls
  BY <1>1, <1>2, HandlerInHand DEF GenerationInv, TypeOK
<1>4. UNCHANGED <<execution, request, provider, books, cancelling, faults, dispatches, decided,
                  billed>>
  BY DEF RecordResult, claimed, history
<1>5. /\ Grows /\ (NoRecord' <=> NoRecord) /\ BooksRow'
      /\ \A s \in Requests : request'[s] = request[s] => RequestRow(s)'
      /\ \A g \in Handlers : handler'[g] = handler[g] => HandlerRow(g)'
      /\ \A m \in Notices : replay'[m] = replay[m] => ReplayRow(m)'
      /\ \A x \in Cancels : cancel'[x] = cancel[x] => CancelRow(x)'
  <2>1. Bare => Bare'
    <3>1. \/ replay' = replay
          \/ \E result \in {"applied", "rejected"} :
                replay' = [replay EXCEPT ![n] = [state |-> result, by |-> None, done |-> done]]
      BY <1>1 DEF RecordResult
    <3>2. replay \in [Notices ->
            [state : {"absent", "ignored", "claimed", "lapsed", "rejected", "applied"},
             by : Handlers \cup {None}, done : SUBSET PlanCalls]]
      BY DEF GenerationInv, TypeOK
    <3>3. Empty \in Notices
      BY DEF Notices
    <3> QED BY ONLY <1>3, <3>1, <3>2, <3>3 DEF Bare
  <2>2. Onward
    BY <1>4, <2>1 DEF Onward
  <2> QED BY <1>4, <2>2, StillRows
<1>6. /\ handler' \in [Handlers ->
            [notice : Notices \cup {None}, todo : Seq(Steps), done : SUBSET PlanCalls]]
      /\ \A g \in Handlers \ {h} : handler'[g] = handler[g]
      /\ HandlerRow(h)'
  BY LetGoFrame DEF RecordResult
<1>7. PICK result : result = IF Plan(n, done) = <<>> THEN "applied" ELSE "rejected"
  OBVIOUS
<1>8. \/ replay' = replay
      \/ replay' = [replay EXCEPT ![n] = [state |-> result, by |-> None, done |-> done]]
  BY <1>1, <1>7 DEF RecordResult
<1>9. /\ replay' \in [Notices ->
            [state : {"absent", "ignored", "claimed", "lapsed", "rejected", "applied"},
             by : Handlers \cup {None}, done : SUBSET PlanCalls]]
      /\ \A m \in Notices : ReplayRow(m)'
  <2>1. CASE replay' = replay
    BY <1>5, <2>1 DEF GenerationInv, TypeOK
  <2>2. CASE replay' = [replay EXCEPT ![n] = [state |-> result, by |-> None, done |-> done]]
    <3>1. result \in {"applied", "rejected"}
      BY <1>7
    <3>2. /\ replay' \in [Notices ->
                [state : {"absent", "ignored", "claimed", "lapsed", "rejected", "applied"},
                 by : Handlers \cup {None}, done : SUBSET PlanCalls]]
          /\ \A m \in Notices \ {n} : replay'[m] = replay[m]
          /\ replay'[n].state = result /\ replay'[n].by = None /\ replay'[n].done = done
      BY <1>3, <2>2, <3>1 DEF GenerationInv, TypeOK
    <3>3. Shows(done)'
      BY <1>3, <1>5, ShowsGrows
    <3>4. result = "applied" /\ n[2] \notin {"running", "empty"} =>
            CreditClosed' /\ QuotaClosed' /\ (n[2] = "completed" => outputs')
      BY <1>3, <1>5, <1>7, AppliedShows DEF Grows
    <3>5. ReplayRow(n)'
      <4>1. Told(n)'
        BY <1>3, <1>5, ToldGrows
      <4> QED BY <3>2, <3>3, <3>4, <4>1 DEF ReplayRow, Shows, Told, CreditClosed, QuotaClosed
    <3> QED BY <1>5, <3>2, <3>5
  <2> QED BY <1>8, <2>1, <2>2
<1>10. OneAtWork'
  BY <1>4, ClaimKept DEF claimed, books
<1>11. TypeOK' /\ SucceededHasRecord'
  BY <1>4, <1>6, <1>9 DEF GenerationInv, TypeOK, SucceededHasRecord, books, cancelling
<1> QED BY <1>4, <1>5, <1>6, <1>9, <1>10, <1>11 DEF GenerationInv, cancelling

LEMMA HandlerCrashesStep ==
  ASSUME GenerationInv, NEW h \in Handlers, HandlerCrashes(h) PROVE GenerationInv'
<1>1. UNCHANGED <<execution, request, provider, books, replay, cancelling, dispatches, decided,
                  billed>>
      /\ faults' \in 0..MaxFaults
  BY MaxFaultsAssumption DEF HandlerCrashes, Fault, claimed, history, GenerationInv, TypeOK
<1>2. /\ Grows /\ (NoRecord' <=> NoRecord) /\ BooksRow'
      /\ \A s \in Requests : request'[s] = request[s] => RequestRow(s)'
      /\ \A g \in Handlers : handler'[g] = handler[g] => HandlerRow(g)'
      /\ \A m \in Notices : replay'[m] = replay[m] => ReplayRow(m)'
      /\ \A x \in Cancels : cancel'[x] = cancel[x] => CancelRow(x)'
  BY <1>1, StillRows, OnwardKept
<1>3. /\ handler' \in [Handlers ->
            [notice : Notices \cup {None}, todo : Seq(Steps), done : SUBSET PlanCalls]]
      /\ \A g \in Handlers \ {h} : handler'[g] = handler[g]
      /\ HandlerRow(h)'
  BY LetGoFrame DEF HandlerCrashes
<1>4. OneAtWork'
  BY <1>1, ClaimKept DEF claimed, books
<1>5. TypeOK' /\ SucceededHasRecord'
  BY <1>1, <1>3 DEF GenerationInv, TypeOK, SucceededHasRecord, books, cancelling
<1> QED BY <1>1, <1>2, <1>3, <1>4, <1>5 DEF GenerationInv, cancelling

LEMMA EffectsLapseStep ==
  ASSUME GenerationInv, NEW n \in Notices, EffectsLapse(n) PROVE GenerationInv'
<1>1. UNCHANGED <<execution, request, provider, books, handler, cancelling, dispatches, decided,
                  billed>>
      /\ faults' \in 0..MaxFaults
      /\ replay' = [replay EXCEPT ![n].state = "lapsed"]
  BY MaxFaultsAssumption DEF EffectsLapse, Fault, claimed, history, GenerationInv, TypeOK
<1>2. /\ Grows /\ (NoRecord' <=> NoRecord) /\ BooksRow'
      /\ \A s \in Requests : request'[s] = request[s] => RequestRow(s)'
      /\ \A g \in Handlers : handler'[g] = handler[g] => HandlerRow(g)'
      /\ \A m \in Notices : replay'[m] = replay[m] => ReplayRow(m)'
      /\ \A x \in Cancels : cancel'[x] = cancel[x] => CancelRow(x)'
  <2>1. Bare => Bare'
    <3>1. replay \in [Notices ->
            [state : {"absent", "ignored", "claimed", "lapsed", "rejected", "applied"},
             by : Handlers \cup {None}, done : SUBSET PlanCalls]]
      BY DEF GenerationInv, TypeOK
    <3> QED BY ONLY <1>1, <3>1 DEF Bare
  <2>2. Onward
    BY <1>1, <2>1 DEF Onward
  <2> QED BY <1>1, <2>2, StillRows
<1>3. /\ replay' \in [Notices ->
            [state : {"absent", "ignored", "claimed", "lapsed", "rejected", "applied"},
             by : Handlers \cup {None}, done : SUBSET PlanCalls]]
      /\ replay'[n].done = replay[n].done /\ replay'[n].state = "lapsed"
      /\ \A m \in Notices \ {n} : replay'[m] = replay[m]
  <2> DEFINE row == [replay[n] EXCEPT !.state = "lapsed"]
  <2>1. /\ replay \in [Notices ->
              [state : {"absent", "ignored", "claimed", "lapsed", "rejected", "applied"},
               by : Handlers \cup {None}, done : SUBSET PlanCalls]]
        /\ replay' = [replay EXCEPT ![n] = row]
    BY <1>1 DEF GenerationInv, TypeOK
  <2>2. /\ row \in [state : {"absent", "ignored", "claimed", "lapsed", "rejected", "applied"},
                   by : Handlers \cup {None}, done : SUBSET PlanCalls]
        /\ row.state = "lapsed" /\ row.done = replay[n].done
    BY ONLY <2>1, n \in Notices
  <2> HIDE DEF row
  <2> QED BY ONLY <2>1, <2>2, n \in Notices
<1>4. ReplayRow(n)'
  <2>1. PICK D : D = replay[n].done
    OBVIOUS
  <2>2. Shows(D)'
    BY <1>2, <2>1, ShowsGrows DEF GenerationInv, ReplayRow
  <2>3. n = Empty => provider'.status = "empty"
    BY <1>1 DEF EffectsLapse, GenerationInv, ReplayRow
  <2> QED BY <1>3, <2>1, <2>2, <2>3 DEF ReplayRow, Shows, CreditClosed, QuotaClosed
<1>5. OneAtWork'
  BY <1>1, ClaimKept DEF claimed, books
<1>6. TypeOK' /\ SucceededHasRecord'
  <2>1. TypeOK /\ SucceededHasRecord
    BY DEF GenerationInv
  <2>2. UNCHANGED <<execution, request, provider, books, handler, cancelling, dispatches,
                    decided, billed>> /\ faults' \in 0..MaxFaults
    BY <1>1
  <2>3. replay' \in [Notices ->
          [state : {"absent", "ignored", "claimed", "lapsed", "rejected", "applied"},
           by : Handlers \cup {None}, done : SUBSET PlanCalls]]
    BY <1>3
  <2> QED BY ONLY <2>1, <2>2, <2>3 DEF TypeOK, SucceededHasRecord, books, cancelling
<1> QED BY <1>1, <1>2, <1>3, <1>4, <1>5, <1>6 DEF GenerationInv, cancelling
-----------------------------------------------------------------------------
(* The steps of the cancellations *)

\* A cancellation that has calls to make.
LEMMA CancelInHand ==
  ASSUME GenerationInv, NEW x \in Cancels, cancel[x].todo # <<>>
  PROVE  \E C : /\ C = Calls(cancel[x].todo) /\ Fits(C) /\ ~NoRecord
                /\ Head(cancel[x].todo) \in C /\ Head(cancel[x].todo) \in Steps
                /\ Script(Tail(cancel[x].todo), C \ {Head(cancel[x].todo)})
                /\ \A c \in C \ {Head(cancel[x].todo)} :
                     Rank[Head(cancel[x].todo)] < Rank[c]
<1>1. CancelRow(x)
  BY DEF GenerationInv
<1> QED BY <1>1, FirstCall DEF CancelRow

\* A cancellation that takes its next script in hand.
LEMMA CarryRow ==
  ASSUME GenerationInv, NEW x \in Cancels, NEW t, NEW C, NEW charged \in BOOLEAN,
         Carry(x, t, charged), Script(t, C), Fits(C)', ~NoRecord'
  PROVE  /\ cancel' \in [Cancels -> [todo : Seq(Steps), charged : BOOLEAN]]
         /\ \A y \in Cancels \ {x} : cancel'[y] = cancel[y]
         /\ CancelRow(x)'
<1>1. t \in Seq(Steps)
  BY DEF Script
<1>2. /\ cancel'[x].todo = t
      /\ \A y \in Cancels \ {x} : cancel'[y] = cancel[y]
      /\ cancel' \in [Cancels -> [todo : Seq(Steps), charged : BOOLEAN]]
  BY <1>1 DEF Carry, GenerationInv, TypeOK
<1>3. CancelRow(x)'
  BY <1>2, NewCancelRow
<1> QED BY <1>2, <1>3

LEMMA DropRow ==
  ASSUME GenerationInv, NEW x \in Cancels, cancel' = [cancel EXCEPT ![x] = NoCancel]
  PROVE  /\ cancel' \in [Cancels -> [todo : Seq(Steps), charged : BOOLEAN]]
         /\ \A y \in Cancels \ {x} : cancel'[y] = cancel[y]
         /\ CancelRow(x)'
<1>1. /\ cancel'[x].todo = <<>>
      /\ \A y \in Cancels \ {x} : cancel'[y] = cancel[y]
      /\ cancel' \in [Cancels -> [todo : Seq(Steps), charged : BOOLEAN]]
  BY DEF GenerationInv, TypeOK, NoCancel
<1>2. Fits({})'
  BY DEF Fits
<1>3. CancelRow(x)'
  BY <1>1, <1>2, NoCalls, NewCancelRow
<1> QED BY <1>1, <1>3

LEMMA CancelReadStep ==
  ASSUME GenerationInv, NEW x \in Cancels, CancelRead(x) PROVE GenerationInv'
<1>1. UNCHANGED <<execution, request, provider, books, noticed, lease, faults, dispatches,
                  decided, billed>>
  BY DEF CancelRead, claimed, history
<1>2. /\ Grows /\ (NoRecord' <=> NoRecord) /\ BooksRow'
      /\ \A s \in Requests : request'[s] = request[s] => RequestRow(s)'
      /\ \A h \in Handlers : handler'[h] = handler[h] => HandlerRow(h)'
      /\ \A n \in Notices : replay'[n] = replay[n] => ReplayRow(n)'
      /\ \A y \in Cancels : cancel'[y] = cancel[y] => CancelRow(y)'
  BY <1>1, StillRows, OnwardKept DEF noticed
<1>3. PICK charged \in BOOLEAN : Carry(x, <<"lock">>, charged)
  BY DEF CancelRead, GenerationInv, TypeOK
<1>4. ~NoRecord
  BY DEF CancelRead, NoRecord, Open
<1>5. PICK t, C : t = <<"lock">> /\ C = {"lock"}
  OBVIOUS
<1>6. Fits(C)'
  BY <1>5 DEF Fits, Closing, CreditCalls, QuotaCalls
<1>7. /\ cancel' \in [Cancels -> [todo : Seq(Steps), charged : BOOLEAN]]
      /\ \A y \in Cancels \ {x} : cancel'[y] = cancel[y]
      /\ CancelRow(x)'
  <2>1. Script(t, C) /\ Carry(x, t, charged) /\ ~NoRecord'
    BY <1>2, <1>3, <1>4, <1>5, HandlerScripts
  <2> QED BY <1>6, <2>1, CarryRow
<1>8. OneAtWork'
  BY <1>1, ClaimKept DEF claimed, books
<1>9. TypeOK' /\ SucceededHasRecord'
  BY <1>1, <1>7 DEF GenerationInv, TypeOK, SucceededHasRecord, books, noticed
<1> QED BY <1>1, <1>2, <1>7, <1>8, <1>9 DEF GenerationInv, noticed

\* A cancellation sets out to close the record.
LEMMA SetOutRow ==
  ASSUME GenerationInv, NEW x \in Cancels, NEW charged \in BOOLEAN, SetOut(x, charged),
         ~NoRecord'
  PROVE  /\ cancel' \in [Cancels -> [todo : Seq(Steps), charged : BOOLEAN]]
         /\ \A y \in Cancels \ {x} : cancel'[y] = cancel[y]
         /\ CancelRow(x)'
         /\ decided \subseteq decided' /\ decided' \subseteq Terminal
         /\ billed' \in BOOLEAN
         /\ billed => billed'
<1>1. PICK t, C : /\ t = Cancelling(charged)
                  /\ C = (IF charged THEN {} ELSE {"refund_credits", "release_quota"})
                           \cup {"cancel", "unlock"}
  OBVIOUS
<1>2. Script(t, C) /\ Carry(x, t, charged)
  BY <1>1, CancelScripts DEF SetOut
<1>3. /\ decided' = decided \cup {"cancelled"} /\ decided' \subseteq Terminal
      /\ billed' = (billed \/ charged)
  BY DEF SetOut, GenerationInv, TypeOK, Terminal
<1>4. Fits(C)'
  <2>1. CASE charged
    <3>1. C = {"cancel", "unlock"} /\ billed' /\ "cancelled" \in decided'
      BY <1>1, <1>3, <2>1
    <3> QED BY <3>1 DEF Fits, Closing, CreditCalls, QuotaCalls
  <2>2. CASE ~charged
    <3>1. C = {"refund_credits", "release_quota", "cancel", "unlock"} /\ "cancelled" \in decided'
      BY <1>1, <1>3, <2>2
    <3> QED BY <3>1 DEF Fits, Closing, CreditCalls, QuotaCalls, Refusal
  <2> QED BY <2>1, <2>2
<1>5. /\ cancel' \in [Cancels -> [todo : Seq(Steps), charged : BOOLEAN]]
      /\ \A y \in Cancels \ {x} : cancel'[y] = cancel[y]
      /\ CancelRow(x)'
  BY <1>2, <1>4, CarryRow
<1>6. billed' \in BOOLEAN /\ (billed => billed')
  BY <1>3, Zenon DEF GenerationInv, TypeOK
<1> QED BY <1>3, <1>5, <1>6

LEMMA CancelLockStep ==
  ASSUME GenerationInv, NEW x \in Cancels, CancelLock(x) PROVE GenerationInv'
<1>1. UNCHANGED <<execution, request, provider, books, noticed, faults, dispatches>>
  BY DEF CancelLock, claimed
<1>2. ~NoRecord /\ cancel[x].charged \in BOOLEAN
  <2>1. cancel[x].todo # <<>>
    BY DEF CancelLock
  <2> QED BY <2>1, CancelInHand DEF GenerationInv, TypeOK
<1>3. ~NoRecord'
  BY <1>1, <1>2 DEF NoRecord, books
<1>4. lease' \in Cancels \cup {None}
  BY DEF CancelLock, GenerationInv, TypeOK
<1>5. /\ cancel' \in [Cancels -> [todo : Seq(Steps), charged : BOOLEAN]]
      /\ \A y \in Cancels \ {x} : cancel'[y] = cancel[y]
      /\ CancelRow(x)'
      /\ decided \subseteq decided' /\ decided' \subseteq Terminal
      /\ billed' \in BOOLEAN
      /\ billed => billed'
  <2>1. CASE cancel' = [cancel EXCEPT ![x] = NoCancel] /\ UNCHANGED <<decided, billed>>
    BY <2>1, DropRow DEF GenerationInv, TypeOK
  <2>2. CASE Carry(x, <<"ask">>, cancel[x].charged) /\ UNCHANGED <<decided, billed>>
    <3>0. PICK charged \in BOOLEAN : charged = cancel[x].charged
      BY <1>2
    <3>1. PICK t, C : t = <<"ask">> /\ C = {"ask"}
      OBVIOUS
    <3>2. Fits(C)'
      BY <3>1 DEF Fits, Closing, CreditCalls, QuotaCalls
    <3>3. Script(t, C) /\ Carry(x, t, charged)
      BY <2>2, <3>0, <3>1, HandlerScripts
    <3> QED BY <1>3, <2>2, <3>2, <3>3, CarryRow DEF GenerationInv, TypeOK
  <2>3. CASE SetOut(x, cancel[x].charged)
    <3>1. PICK charged \in BOOLEAN : charged = cancel[x].charged
      BY <1>2
    <3> QED BY <1>3, <2>3, <3>1, SetOutRow
  <2> QED BY <2>1, <2>2, <2>3 DEF CancelLock
<1>6. /\ Grows /\ (NoRecord' <=> NoRecord) /\ BooksRow'
      /\ \A s \in Requests : request'[s] = request[s] => RequestRow(s)'
      /\ \A h \in Handlers : handler'[h] = handler[h] => HandlerRow(h)'
      /\ \A n \in Notices : replay'[n] = replay[n] => ReplayRow(n)'
      /\ \A y \in Cancels : cancel'[y] = cancel[y] => CancelRow(y)'
  BY <1>1, <1>5, StillRows, OnwardKept DEF noticed
<1>7. OneAtWork'
  BY <1>1, ClaimKept DEF claimed, books
<1>8. TypeOK' /\ SucceededHasRecord'
  <2>1. TypeOK /\ SucceededHasRecord
    BY DEF GenerationInv
  <2>2. /\ cancel' \in [Cancels -> [todo : Seq(Steps), charged : BOOLEAN]]
        /\ decided' \subseteq Terminal /\ billed' \in BOOLEAN
    BY <1>5
  <2> QED BY ONLY <1>1, <1>4, <2>1, <2>2 DEF TypeOK, SucceededHasRecord, books, noticed
<1> QED BY <1>1, <1>5, <1>6, <1>7, <1>8 DEF GenerationInv, noticed

\* A cancellation that has only its lease to give back.
LEMMA UnlockRow ==
  ASSUME GenerationInv, NEW x \in Cancels, Carry(x, <<"unlock">>, FALSE), ~NoRecord'
  PROVE  /\ cancel' \in [Cancels -> [todo : Seq(Steps), charged : BOOLEAN]]
         /\ \A y \in Cancels \ {x} : cancel'[y] = cancel[y]
         /\ CancelRow(x)'
<1>1. PICK t, C : t = <<"unlock">> /\ C = {"unlock"}
  OBVIOUS
<1>2. Fits(C)'
  BY <1>1 DEF Fits, Closing, CreditCalls, QuotaCalls
<1>3. Script(t, C) /\ Carry(x, t, FALSE)
  BY <1>1, HandlerScripts
<1> QED BY <1>2, <1>3, CarryRow

LEMMA CancelAskStep ==
  ASSUME GenerationInv, NEW x \in Cancels, CancelAsk(x) PROVE GenerationInv'
<1>1. UNCHANGED <<execution, request, books, noticed, lease, faults, dispatches>>
  BY DEF CancelAsk, claimed
<1>2. ~NoRecord /\ cancel[x].charged \in BOOLEAN
  <2>1. cancel[x].todo # <<>>
    BY DEF CancelAsk
  <2> QED BY <2>1, CancelInHand DEF GenerationInv, TypeOK
<1>3. ~NoRecord'
  BY <1>1, <1>2 DEF NoRecord, books
<1>4. provider' \in [job : BOOLEAN, status : Open \cup Terminal \cup {"empty", "none"}]
  <2>1. [provider EXCEPT !.status = "cancelled"]
          \in [job : BOOLEAN, status : Open \cup Terminal \cup {"empty", "none"}]
    BY DEF GenerationInv, TypeOK, Terminal
  <2> QED BY <2>1 DEF CancelAsk, GenerationInv, TypeOK
<1>5. /\ cancel' \in [Cancels -> [todo : Seq(Steps), charged : BOOLEAN]]
      /\ \A y \in Cancels \ {x} : cancel'[y] = cancel[y]
      /\ CancelRow(x)'
      /\ decided \subseteq decided' /\ decided' \subseteq Terminal
      /\ billed' \in BOOLEAN
      /\ billed => billed'
  <2>1. ASSUME NEW charge \in BOOLEAN, SetOut(x, cancel[x].charged \/ charge)
        PROVE  /\ cancel' \in [Cancels -> [todo : Seq(Steps), charged : BOOLEAN]]
               /\ \A y \in Cancels \ {x} : cancel'[y] = cancel[y]
               /\ CancelRow(x)'
               /\ decided \subseteq decided' /\ decided' \subseteq Terminal
               /\ billed' \in BOOLEAN
               /\ billed => billed'
    <3>1. PICK charged \in BOOLEAN : charged = (cancel[x].charged \/ charge)
      OBVIOUS
    <3>2. SetOut(x, charged)
      BY <2>1, <3>1
    <3> QED BY <1>3, <3>2, SetOutRow
  <2>2. CASE Carry(x, <<"unlock">>, FALSE) /\ UNCHANGED <<decided, billed>>
    BY <1>3, <2>2, UnlockRow DEF GenerationInv, TypeOK
  <2> QED BY <2>1, <2>2 DEF CancelAsk
<1>6. /\ Grows /\ (NoRecord' <=> NoRecord) /\ BooksRow'
      /\ \A s \in Requests : request'[s] = request[s] => RequestRow(s)'
      /\ \A h \in Handlers : handler'[h] = handler[h] => HandlerRow(h)'
      /\ \A n \in Notices : replay'[n] = replay[n] => ReplayRow(n)'
      /\ \A y \in Cancels : cancel'[y] = cancel[y] => CancelRow(y)'
  <2>1. \/ provider' = provider
        \/ provider.status \in Open /\ provider' = [provider EXCEPT !.status = "cancelled"]
    BY DEF CancelAsk
  <2>2. Onward
    BY <1>1, <2>1 DEF Onward, Bare, noticed, Open
  <2> QED BY <1>1, <1>5, <2>2, StillRows
<1>7. OneAtWork'
  BY <1>1, ClaimKept DEF claimed, books
<1>8. TypeOK' /\ SucceededHasRecord'
  <2>1. TypeOK /\ SucceededHasRecord
    BY DEF GenerationInv
  <2>2. /\ cancel' \in [Cancels -> [todo : Seq(Steps), charged : BOOLEAN]]
        /\ decided' \subseteq Terminal /\ billed' \in BOOLEAN
    BY <1>5
  <2> QED BY ONLY <1>1, <1>4, <2>1, <2>2 DEF TypeOK, SucceededHasRecord, books, noticed
<1> QED BY <1>1, <1>5, <1>6, <1>7, <1>8 DEF GenerationInv, noticed

LEMMA CancelCallStep ==
  ASSUME GenerationInv, NEW x \in Cancels, CancelCall(x) PROVE GenerationInv'
<1>1. PICK call, charged : call = Head(cancel[x].todo) /\ charged = cancel[x].charged
  OBVIOUS
<1>2. cancel[x].todo # <<>> /\ Do(call) /\ Carry(x, Tail(cancel[x].todo), charged)
  BY <1>1 DEF CancelCall
<1>3. PICK C : /\ Fits(C) /\ ~NoRecord /\ call \in C /\ call \in Steps
               /\ Script(Tail(cancel[x].todo), C \ {call})
               /\ \A c \in C \ {call} : Rank[call] < Rank[c]
  BY <1>1, <1>2, CancelInHand
<1>4. UNCHANGED <<execution, request, provider, noticed, lease, faults, dispatches, decided,
                  billed>>
  BY DEF CancelCall, claimed, history
<1>5. /\ Grows /\ (NoRecord' <=> NoRecord) /\ BooksRow' /\ Fits(C \ {call})'
      /\ record' \in [status : Open \cup Terminal \cup {"absent"}, charged : BOOLEAN]
      /\ credit' \in {"none", "reserved", "settled", "refunded"}
      /\ quota' \in {"none", "reserved", "committed", "released"}
      /\ outputs' \in BOOLEAN
  <2>1. UNCHANGED <<provider, replay, dispatches, decided, billed>> /\ TypeOK /\ BooksRow
    BY <1>4 DEF GenerationInv, noticed
  <2> QED BY <1>2, <1>3, <2>1, DoStep
<1>6. /\ \A s \in Requests : request'[s] = request[s] => RequestRow(s)'
      /\ \A h \in Handlers : handler'[h] = handler[h] => HandlerRow(h)'
      /\ \A n \in Notices : replay'[n] = replay[n] => ReplayRow(n)'
      /\ \A y \in Cancels : cancel'[y] = cancel[y] => CancelRow(y)'
  BY <1>3, <1>4, <1>5, RowsKept
<1>7. PICK t, D : t = Tail(cancel[x].todo) /\ D = C \ {call}
  OBVIOUS
<1>8. /\ cancel' \in [Cancels -> [todo : Seq(Steps), charged : BOOLEAN]]
      /\ \A y \in Cancels \ {x} : cancel'[y] = cancel[y]
      /\ CancelRow(x)'
  <2>1. Script(t, D) /\ Carry(x, t, charged) /\ ~NoRecord' /\ Fits(D)'
    BY <1>2, <1>3, <1>5, <1>7
  <2>2. charged \in BOOLEAN
    BY <1>1 DEF GenerationInv, TypeOK
  <2> QED BY <2>1, <2>2, CarryRow
<1>9. OneAtWork'
  BY <1>3, <1>4, ClaimKept DEF claimed
<1>10. TypeOK' /\ SucceededHasRecord'
  BY <1>3, <1>4, <1>5, <1>8 DEF GenerationInv, TypeOK, SucceededHasRecord, noticed, NoRecord
<1> QED BY <1>4, <1>5, <1>6, <1>8, <1>9, <1>10 DEF GenerationInv, noticed

\* The steps of a cancellation that touch nothing but its own row, its lease and the count of
\* the faults.
LEMMA CancelEndsStep ==
  ASSUME GenerationInv, NEW x \in Cancels,
         CancelThrows(x) \/ CancelUnlock(x) \/ CancelCrashes(x)
  PROVE  GenerationInv'
<1>1. UNCHANGED <<execution, request, provider, books, noticed, dispatches, decided, billed>>
      /\ faults' \in 0..MaxFaults /\ lease' \in Cancels \cup {None}
  <2>1. UNCHANGED <<execution, request, provider, books, noticed, dispatches, decided, billed>>
    BY DEF CancelThrows, CancelUnlock, CancelCrashes, claimed, history
  <2>2. faults' \in 0..MaxFaults
    <3>1. CASE CancelThrows(x)
      BY <3>1, FailsType DEF CancelThrows, GenerationInv
    <3>2. CASE CancelUnlock(x)
      BY <3>2 DEF CancelUnlock, GenerationInv, TypeOK
    <3>3. CASE CancelCrashes(x)
      BY <3>3, MaxFaultsAssumption DEF CancelCrashes, Fault, GenerationInv, TypeOK
    <3> QED BY <3>1, <3>2, <3>3
  <2>3. lease' \in Cancels \cup {None}
    BY DEF CancelThrows, CancelUnlock, CancelCrashes, GenerationInv, TypeOK
  <2> QED BY <2>1, <2>2, <2>3
<1>2. /\ Grows /\ (NoRecord' <=> NoRecord) /\ BooksRow'
      /\ \A s \in Requests : request'[s] = request[s] => RequestRow(s)'
      /\ \A h \in Handlers : handler'[h] = handler[h] => HandlerRow(h)'
      /\ \A n \in Notices : replay'[n] = replay[n] => ReplayRow(n)'
      /\ \A y \in Cancels : cancel'[y] = cancel[y] => CancelRow(y)'
  BY <1>1, StillRows, OnwardKept DEF noticed
<1>3. /\ cancel' \in [Cancels -> [todo : Seq(Steps), charged : BOOLEAN]]
      /\ \A y \in Cancels \ {x} : cancel'[y] = cancel[y]
      /\ CancelRow(x)'
  <2>1. CASE CancelThrows(x)
    <3>1. cancel[x].todo # <<>>
      BY <2>1, NoCalls DEF CancelThrows, Script
    <3>2. ~NoRecord'
      BY <1>2, <3>1, CancelInHand
    <3> QED BY <2>1, <3>2, UnlockRow DEF CancelThrows
  <2>2. CASE CancelUnlock(x) \/ CancelCrashes(x)
    BY <2>2, DropRow DEF CancelUnlock, CancelCrashes
  <2> QED BY <2>1, <2>2
<1>4. OneAtWork'
  BY <1>1, ClaimKept DEF claimed, books
<1>5. TypeOK' /\ SucceededHasRecord'
  BY <1>1, <1>3 DEF GenerationInv, TypeOK, SucceededHasRecord, books, noticed
<1> QED BY <1>1, <1>2, <1>3, <1>4, <1>5 DEF GenerationInv, noticed

-----------------------------------------------------------------------------
(* The steps of nobody *)

LEMMA OtherSteps ==
  ASSUME GenerationInv,
         ExecutionLapses \/ ResolveRecovery \/ ProviderMoves \/ CancelLeaseLapses
  PROVE  GenerationInv'
<1>1. /\ UNCHANGED <<request, books, noticed, cancel, dispatches, decided, billed>>
      /\ faults' \in 0..MaxFaults
      /\ lease' \in Cancels \cup {None}
      /\ \/ execution' = execution
         \/ execution' \in {"lapsed", "failed"} /\ execution # "absent"
      /\ provider' \in [job : BOOLEAN, status : Open \cup Terminal \cup {"empty", "none"}]
  <2>1. CASE ExecutionLapses \/ ResolveRecovery
    BY <2>1 DEF ExecutionLapses, ResolveRecovery, cancelling, history, GenerationInv, TypeOK
  <2>2. CASE ProviderMoves
    <3>1. PICK status \in {"running", "completed", "empty", "failed"} :
            provider' = [provider EXCEPT !.status = status]
      BY <2>2 DEF ProviderMoves
    <3>2. provider \in [job : BOOLEAN, status : Open \cup Terminal \cup {"empty", "none"}]
      BY DEF GenerationInv, TypeOK
    <3>3. /\ [provider EXCEPT !.status = status]
                \in [job : BOOLEAN, status : Open \cup Terminal \cup {"empty", "none"}]
      BY ONLY <3>2, status \in {"running", "completed", "empty", "failed"} DEF Open, Terminal
    <3>4. provider' \in [job : BOOLEAN, status : Open \cup Terminal \cup {"empty", "none"}]
      BY ONLY <3>1, <3>3
    <3>5. UNCHANGED <<execution, request, books, noticed, cancel, lease, faults, dispatches,
                      decided, billed>>
      BY <2>2 DEF ProviderMoves, cancelling, claimed, history
    <3>6. TypeOK
      BY DEF GenerationInv
    <3> QED BY ONLY <3>4, <3>5, <3>6 DEF TypeOK
  <2>3. CASE CancelLeaseLapses
    <3>1. Fault \/ faults' = faults
      BY <2>3 DEF CancelLeaseLapses
    <3>2. faults' \in 0..MaxFaults
      BY <3>1, MaxFaultsAssumption DEF Fault, GenerationInv, TypeOK
    <3>3. UNCHANGED <<execution, request, provider, books, noticed, cancel, dispatches, decided,
                      billed>> /\ lease' = None
      BY <2>3 DEF CancelLeaseLapses, claimed, history
    <3>4. TypeOK
      BY DEF GenerationInv
    <3> QED BY ONLY <3>2, <3>3, <3>4 DEF TypeOK
  <2> QED BY <2>1, <2>2, <2>3
<1>2. /\ Grows /\ (NoRecord' <=> NoRecord) /\ BooksRow'
      /\ \A s \in Requests : request'[s] = request[s] => RequestRow(s)'
      /\ \A h \in Handlers : handler'[h] = handler[h] => HandlerRow(h)'
      /\ \A n \in Notices : replay'[n] = replay[n] => ReplayRow(n)'
      /\ \A y \in Cancels : cancel'[y] = cancel[y] => CancelRow(y)'
  <2>1. \/ provider' = provider
        \/ provider.status \in Open /\ \E status : provider' = [provider EXCEPT !.status = status]
    BY DEF ExecutionLapses, ResolveRecovery, ProviderMoves, CancelLeaseLapses
  <2>2. Onward
    BY <1>1, <2>1 DEF Onward, Bare, noticed, Open
  <2> QED BY <1>1, <2>2, StillRows
<1>3. OneAtWork'
  BY <1>1 DEF GenerationInv, OneAtWork, AtWork, NoRecord, books
<1>4. TypeOK' /\ SucceededHasRecord'
  BY <1>1 DEF GenerationInv, TypeOK, SucceededHasRecord, books, noticed
<1> QED BY <1>1, <1>2, <1>3, <1>4 DEF GenerationInv, noticed
-----------------------------------------------------------------------------
(* The theorems *)

LEMMA InitGenerationInv == Init => GenerationInv
<1> SUFFICES ASSUME Init PROVE GenerationInv
  OBVIOUS
<1>1. <<>> \in Seq(Steps) /\ Ordered(<<>>) /\ Calls(<<>>) = {}
  BY NoCalls DEF Script
<1>2. Fits({}) /\ RequestFits({}) /\ Shows({})
  BY FitsNothing
<1>3. /\ \A r \in Requests : request[r] = <<>>
      /\ \A h \in Handlers : handler[h] = Idle
      /\ \A n \in Notices : replay[n] = [state |-> "absent", by |-> None, done |-> {}]
      /\ \A x \in Cancels : cancel[x] = NoCancel
      /\ execution = "absent" /\ dispatches = 0 /\ record.status = "absent"
      /\ credit = "none" /\ quota = "none" /\ provider.status = "none"
  BY DEF Init
<1>4. TypeOK
  <2>1. /\ request \in [Requests -> Seq(Steps)]
        /\ cancel \in [Cancels -> [todo : Seq(Steps), charged : BOOLEAN]]
    BY <1>1 DEF Init, NoCancel
  <2>2. handler \in [Handlers ->
          [notice : Notices \cup {None}, todo : Seq(Steps), done : SUBSET PlanCalls]]
    BY <1>1 DEF Init, Idle
  <2>3. replay \in [Notices ->
          [state : {"absent", "ignored", "claimed", "lapsed", "rejected", "applied"},
           by : Handlers \cup {None}, done : SUBSET PlanCalls]]
    BY DEF Init
  <2>4. /\ provider \in [job : BOOLEAN, status : Open \cup Terminal \cup {"empty", "none"}]
        /\ record \in [status : Open \cup Terminal \cup {"absent"}, charged : BOOLEAN]
    BY DEF Init
  <2>5. /\ execution = "absent" /\ credit = "none" /\ quota = "none" /\ outputs = FALSE
        /\ lease = None /\ faults = 0 /\ dispatches = 0 /\ decided = {} /\ billed = FALSE
    BY DEF Init
  <2>6. /\ faults \in 0..MaxFaults /\ dispatches \in Nat
        /\ billed \in BOOLEAN /\ outputs \in BOOLEAN
    <3>1. faults = 0 /\ dispatches = 0
      BY <2>5
    <3>2. billed \in BOOLEAN /\ outputs \in BOOLEAN
      BY <2>5
    <3>3. faults \in 0..MaxFaults
      BY ONLY <3>1, MaxFaultsAssumption
    <3> QED BY <3>1, <3>2, <3>3
  <2>7. /\ execution = "absent" /\ credit = "none" /\ quota = "none"
        /\ lease = None /\ decided = {}
    BY <2>5
  <2> QED BY ONLY <2>1, <2>2, <2>3, <2>4, <2>6, <2>7 DEF TypeOK
<1>5. \A r \in Requests : RequestRow(r)
  BY <1>1, <1>2, <1>3 DEF RequestRow
<1>6. \A h \in Handlers : HandlerRow(h)
  <2> SUFFICES ASSUME NEW h \in Handlers PROVE HandlerRow(h)
    OBVIOUS
  <2>1. handler[h].todo = <<>> /\ handler[h].done = {}
    BY <1>3 DEF Idle
  <2> QED BY <1>1, <1>2, <2>1 DEF HandlerRow
<1>7. \A n \in Notices : ReplayRow(n)
  <2> SUFFICES ASSUME NEW n \in Notices PROVE ReplayRow(n)
    OBVIOUS
  <2>1. replay[n].state = "absent" /\ replay[n].done = {}
    BY <1>3
  <2> QED BY <1>2, <2>1 DEF ReplayRow
<1>8. \A x \in Cancels : CancelRow(x)
  <2> SUFFICES ASSUME NEW x \in Cancels PROVE CancelRow(x)
    OBVIOUS
  <2>1. cancel[x].todo = <<>>
    BY <1>3 DEF NoCancel
  <2> QED BY <1>1, <1>2, <2>1 DEF CancelRow
<1>9. OneAtWork /\ BooksRow /\ SucceededHasRecord
  BY <1>1, <1>3 DEF OneAtWork, AtWork, BooksRow, SucceededHasRecord, NoRecord, Terminal
<1> QED BY <1>4, <1>5, <1>6, <1>7, <1>8, <1>9 DEF GenerationInv

LEMMA GenerationStep == GenerationInv /\ [Next]_vars => GenerationInv'
<1> SUFFICES ASSUME GenerationInv, [Next]_vars PROVE GenerationInv'
  OBVIOUS
<1>1. ASSUME NEW r \in Requests, Request(r) PROVE GenerationInv'
  BY <1>1, ClaimStep, ClaimLapsedStep, ReserveQuotaStep, DispatchStep, ReserveCreditStep,
     CreateStep, RequestCallStep, EndExecutionStep, RequestThrowsStep, RequestCrashesStep
     DEF Request
<1>2. ASSUME NEW h \in Handlers, Handle(h) PROVE GenerationInv'
  BY <1>2, ReceiveStep, ClaimEffectsStep, HandlerCallStep, HandlerThrowsStep, RecordResultStep,
     HandlerCrashesStep DEF Handle
<1>3. ASSUME NEW x \in Cancels, CancelStep(x) PROVE GenerationInv'
  BY <1>3, CancelReadStep, CancelLockStep, CancelAskStep, CancelCallStep, CancelEndsStep
     DEF CancelStep
<1>4. CASE UNCHANGED vars
  <2>1. UNCHANGED <<books, dispatches>> /\ UNCHANGED claimed /\ decided' = decided
    BY <1>4 DEF vars, books, claimed
  <2>2. billed => billed'
    BY <1>4, Zenon DEF vars
  <2>3. /\ BooksRow'
        /\ \A r \in Requests : RequestRow(r)'
        /\ \A h \in Handlers : HandlerRow(h)'
        /\ \A n \in Notices : ReplayRow(n)'
        /\ \A x \in Cancels : CancelRow(x)'
    BY <1>4, <2>1, <2>2, StillRows, OnwardKept DEF vars
  <2>4. OneAtWork'
    BY <2>1, ClaimKept DEF books
  <2>5. TypeOK' /\ SucceededHasRecord'
    BY <1>4 DEF vars, GenerationInv, TypeOK, SucceededHasRecord
  <2> QED BY <2>3, <2>4, <2>5 DEF GenerationInv
<1> QED BY <1>1, <1>2, <1>3, <1>4, EffectsLapseStep, OtherSteps DEF Next

\* What holds of all that is kept of a generation.
THEOREM GenerationInvariant == Spec => []GenerationInv
BY InitGenerationInv, GenerationStep, PTL DEF Spec

\* Every variable has its type: no call of a handler is out of its place.
THEOREM GenerationTypeCorrect == Spec => []TypeOK
<1>1. GenerationInv => TypeOK
  BY DEF GenerationInv
<1> QED BY <1>1, GenerationInvariant, PTL

\* The adapter is called at most once for an idempotency key, whoever crashes.
THEOREM GenerationDispatchedOnce == Spec => []DispatchedOnce
<1>1. GenerationInv => DispatchedOnce
  BY DEF GenerationInv, OneAtWork, DispatchedOnce
<1> QED BY <1>1, GenerationInvariant, PTL

\* Credits are settled only for outputs that are stored.
THEOREM GenerationSettledHasOutputs == Spec => []SettledHasOutputs
<1>1. GenerationInv => SettledHasOutputs
  BY DEF GenerationInv, BooksRow, SettledHasOutputs
<1> QED BY <1>1, GenerationInvariant, PTL

\* The ledgers follow the record that is closed. Only a cancellation that found a charge and a
\* notice of a completion without outputs close it over an open reservation; and where all
\* handlers worked towards one outcome, the ledgers say settled and committed for what was
\* completed with outputs, and for nothing else.
THEOREM GenerationBooksFollowRecord == Spec => []BooksFollowRecord
<1>1. ASSUME GenerationInv PROVE BooksFollowRecord
  <2>1. BooksRow /\ TypeOK
    BY <1>1 DEF GenerationInv
  <2>2. ClosedRecordClosedBooks
    BY <2>1 DEF BooksRow, ClosedRecordClosedBooks, CreditClosed, QuotaClosed
  <2>3. UndisputedBooksAgree
    <3> SUFFICES ASSUME Cardinality(decided) = 1, record.status \in Terminal
                 PROVE  /\ record.status \in decided
                        /\ (record.status = "completed" /\ ~ Bare) <=> (credit = "settled")
                        /\ (record.status = "completed" /\ ~ Bare) <=> (quota = "committed")
      BY DEF UndisputedBooksAgree
    <3>1. record.status \in decided /\ ~NoRecord
      BY <2>1 DEF BooksRow, NoRecord, Terminal
    <3>2. decided = {record.status}
      <4>1. IsFiniteSet(decided)
        <5>1. IsFiniteSet({"completed", "failed", "cancelled"})
          <6>1. IsFiniteSet({}) /\ IsFiniteSet({} \cup {"completed"})
            BY FS_EmptySet, FS_AddElement
          <6>2. IsFiniteSet(({} \cup {"completed"}) \cup {"failed"})
            BY <6>1, FS_AddElement
          <6>3. IsFiniteSet((({} \cup {"completed"}) \cup {"failed"}) \cup {"cancelled"})
            BY <6>2, FS_AddElement
          <6>4. {"completed", "failed", "cancelled"}
                  = (({} \cup {"completed"}) \cup {"failed"}) \cup {"cancelled"}
            OBVIOUS
          <6> QED BY ONLY <6>3, <6>4
        <5> QED BY <2>1, <5>1, FS_Subset DEF TypeOK, Terminal
      <4>2. PICK o : decided = {o}
        BY <4>1, FS_Singleton
      <4> QED BY <3>1, <4>2
    <3>3. ASSUME record.status = "completed", ~ Bare
          PROVE  credit = "settled" /\ quota = "committed"
      <4>1. CreditClosed /\ QuotaClosed /\ ~ Refusal
        BY <2>1, <3>2, <3>3 DEF BooksRow, Terminal, Refusal
      <4> QED BY <2>1, <3>1, <4>1 DEF BooksRow, CreditClosed, QuotaClosed
    <3>4. ASSUME credit = "settled" \/ quota = "committed"
          PROVE  record.status = "completed" /\ ~ Bare
      <4>1. "completed" \in decided /\ provider.status = "completed"
        BY <2>1, <3>4 DEF BooksRow
      <4> QED BY <1>1, <3>2, <4>1, BareIsEmpty
    <3> QED BY <3>1, <3>3, <3>4
  <2> QED BY <2>2, <2>3 DEF BooksFollowRecord
<1> QED BY <1>1, GenerationInvariant, PTL

\* What says that the work is done is right: an applied replay has closed the reservations and
\* stored what it told of, unless it told of a completion without outputs or of a run that goes
\* on, which ask for neither; a succeeded execution has its record.
THEOREM GenerationDoneIsDone == Spec => []DoneIsDone
<1>1. ASSUME GenerationInv PROVE DoneIsDone
  <2>1. AppliedDidItsWork
    BY <1>1 DEF GenerationInv, ReplayRow, AppliedDidItsWork, CreditClosed, QuotaClosed
  <2> QED BY <1>1, <2>1 DEF GenerationInv, DoneIsDone
<1> QED BY <1>1, GenerationInvariant, PTL

\* What was recorded as applied is never written again.
THEOREM GenerationAppliedStays == Spec => AppliedStays
<1>1. ASSUME GenerationInv, [Next]_vars, NEW n \in Notices, replay[n].state = "applied"
      PROVE  replay'[n] = replay[n]
  <2>1. replay[n].by = None /\ TypeOK
    BY <1>1 DEF GenerationInv, ReplayRow
  <2>2. ASSUME NEW h \in Handlers, Handle(h) PROVE replay'[n] = replay[n]
    <3>1. CASE \E m \in Notices : Receive(h, m)
      BY <1>1, <2>1, <3>1 DEF Receive, TypeOK
    <3>2. CASE ClaimEffects(h)
      BY <1>1, <2>1, <3>2 DEF ClaimEffects, Free, TypeOK
    <3>3. CASE RecordResult(h)
      BY <1>1, <2>1, <3>3, NoneAssumption DEF RecordResult, TypeOK
    <3>4. CASE HandlerCall(h) \/ HandlerThrows(h) \/ HandlerCrashes(h)
      BY <3>4 DEF HandlerCall, HandlerThrows, HandlerCrashes
    <3> QED BY <2>2, <3>1, <3>2, <3>3, <3>4 DEF Handle
  <2>3. ASSUME NEW m \in Notices, EffectsLapse(m) PROVE replay'[n] = replay[n]
    BY <1>1, <2>1, <2>3 DEF EffectsLapse, TypeOK
  <2>4. ASSUME NEW r \in Requests, Request(r) PROVE replay' = replay
    BY <2>4 DEF Request, Claim, ClaimLapsed, ReserveQuota, Dispatch, ReserveCredit, Create,
                RequestCall, EndExecution, RequestThrows, RequestCrashes, noticed
  <2>5. ASSUME NEW x \in Cancels, CancelStep(x) PROVE replay' = replay
    BY <2>5 DEF CancelStep, CancelRead, CancelLock, CancelAsk, CancelCall, CancelUnlock,
                CancelThrows, CancelCrashes, noticed
  <2>6. ExecutionLapses \/ ResolveRecovery \/ ProviderMoves \/ CancelLeaseLapses => replay' = replay
    BY DEF ExecutionLapses, ResolveRecovery, ProviderMoves, CancelLeaseLapses, noticed
  <2>7. CASE UNCHANGED vars
    BY <2>7 DEF vars
  <2> QED BY <1>1, <2>2, <2>3, <2>4, <2>5, <2>6, <2>7 DEF Next
<1>2. GenerationInv /\ [Next]_vars =>
        [AppliedIsKept]_vars
  BY <1>1 DEF AppliedIsKept
<1> QED BY <1>2, GenerationInvariant, PTL DEF Spec, AppliedStays

\* A reservation that is closed is never closed the other way.
THEOREM GenerationReservationsCloseOnce == Spec => ReservationsCloseOnce
<1> DEFINE A == /\ CreditClosed => credit' = credit
                /\ QuotaClosed => quota' = quota
<1>1. ASSUME GenerationInv, [Next]_vars PROVE A
  <2>1. ASSUME NEW call, Do(call) PROVE A
    BY <2>1 DEF Do, MarkRunning, PersistOutputs, CloseCredit, CloseQuota, WriteRecord,
                CreditClosed, QuotaClosed
  <2>2. CASE UNCHANGED books
    BY <2>2 DEF books
  <2>3. ASSUME NEW r \in Requests, Request(r) PROVE A
    <3>1. CASE ReserveQuota(r)
      <4>1. request[r] # <<>> /\ Head(request[r]) = "reserve_quota"
        BY <3>1 DEF ReserveQuota, At
      <4>2. quota = "none"
        BY <1>1, <4>1, RequestInHand DEF RequestFits, Early
      <4> QED BY <3>1, <4>2 DEF ReserveQuota, QuotaClosed
    <3>2. CASE ReserveCredit(r)
      BY <3>2 DEF ReserveCredit, CreditClosed
    <3>3. CASE Create(r)
      BY <3>3 DEF Create
    <3>4. CASE RequestCall(r)
      BY <2>1, <3>4 DEF RequestCall
    <3>5. CASE \/ Claim(r) \/ ClaimLapsed(r) \/ Dispatch(r) \/ EndExecution(r)
               \/ RequestThrows(r) \/ RequestCrashes(r)
      BY <2>2, <3>5 DEF Claim, ClaimLapsed, Dispatch, EndExecution, RequestThrows, RequestCrashes
    <3> QED BY <2>3, <3>1, <3>2, <3>3, <3>4, <3>5 DEF Request
  <2>4. ASSUME NEW h \in Handlers, Handle(h) PROVE A
    <3>1. CASE HandlerCall(h)
      BY <2>1, <3>1 DEF HandlerCall
    <3>2. CASE UNCHANGED books
      BY <2>2, <3>2
    <3> QED BY <2>4, <3>1, <3>2 DEF Handle, Receive, ClaimEffects, RecordResult, HandlerThrows,
                                   HandlerCrashes
  <2>5. ASSUME NEW x \in Cancels, CancelStep(x) PROVE A
    <3>1. CASE CancelCall(x)
      BY <2>1, <3>1 DEF CancelCall
    <3>2. CASE UNCHANGED books
      BY <2>2, <3>2
    <3> QED BY <2>5, <3>1, <3>2 DEF CancelStep, CancelRead, CancelLock, CancelAsk, CancelUnlock,
                                   CancelThrows, CancelCrashes
  <2>6. ASSUME \/ ExecutionLapses \/ ResolveRecovery \/ ProviderMoves \/ CancelLeaseLapses
               \/ \E n \in Notices : EffectsLapse(n)
        PROVE  A
    BY <2>2, <2>6 DEF ExecutionLapses, ResolveRecovery, ProviderMoves, CancelLeaseLapses,
                      EffectsLapse
  <2>7. CASE UNCHANGED vars
    BY <2>2, <2>7 DEF vars, books
  <2> HIDE DEF A
  <2> QED BY <1>1, <2>3, <2>4, <2>5, <2>6, <2>7 DEF Next
<1>2. GenerationInv /\ [Next]_vars =>
        [/\ credit \in {"settled", "refunded"} => credit' = credit
         /\ quota \in {"committed", "released"} => quota' = quota]_vars
  BY <1>1 DEF CreditClosed, QuotaClosed
<1> QED BY <1>2, GenerationInvariant, PTL DEF Spec, ReservationsCloseOnce

-----------------------------------------------------------------------------
(* The composition *)

\* Each of the three parts behaves by its own specification.
THEOREM GenerationComponents == GenerationSpec => Spec /\ ControlSpec /\ RetrySpec
<1>1. GenerationInit => Init /\ ControlInit /\ RetryInit
  BY DEF GenerationInit
<1>2. [GenerationNext]_<<part, vars, controlVars, retryVars>> =>
        [Next]_vars /\ [ControlNext]_controlVars /\ [RetryNext]_retryVars
  BY Zenon DEF GenerationNext
<1> QED BY <1>1, <1>2, PTL DEF GenerationSpec, Spec, ControlSpec, RetrySpec

\* The generation, the control of its dispatch and the retries of its status reads keep their
\* types side by side.
THEOREM GenerationPartsTypeCorrect == GenerationSpec => []GenerationTypeOK
<1>1. TypeOK /\ ControlTypeOK /\ RetryTypeOK => GenerationTypeOK
  BY DEF GenerationTypeOK
<1> QED BY <1>1, GenerationComponents, GenerationTypeCorrect, ControlTypeCorrect,
           RetryTypeCorrect, PTL
=============================================================================
