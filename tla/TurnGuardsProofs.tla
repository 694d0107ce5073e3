-------------------------- MODULE TurnGuardsProofs --------------------------
(***************************************************************************)
(* Proofs about TurnGuards, for any number of agents and tasks, any window *)
(* and any replies: types, that no agent stops using tools without a       *)
(* failure on record, that tasks start clean, and that a task which was    *)
(* told to finish runs no tool.                                            *)
(***************************************************************************)
EXTENDS TurnGuards, FiniteSetTheorems, SequenceTheorems, TLAPS

Outcomes == {"completed"} \cup Failures

KeysOK ==
    /\ temp \in [Agents -> Temp]
    /\ outcome \in [Agents -> Outcomes]

Inv == KeysOK /\ StopsAreReported

-----------------------------------------------------------------------------
(* The reserve keeps every request that fits below 80% of the window, so    *)
(* the check that would stop an agent without recording a failure is never  *)
(* taken.                                                                   *)
LEMMA RequestsStayBelowTheRatio ==
    ASSUME NEW estimate \in Sizes, estimate <= Target
    PROVE  5 * estimate < 4 * Limit
<1>1. Limit \in Nat /\ Reserve \in Nat /\ Reserve >= 4 /\ estimate \in Nat
  BY GuardsAssumption
<1>2. 4 * (Limit \div 4) <= Limit /\ Limit < 4 * (Limit \div 4) + 4 /\ Limit \div 4 \in Nat
  BY <1>1, Z3
<1>3. estimate <= Limit - Reserve /\ estimate <= Limit - Limit \div 4
  BY <1>1, <1>2 DEF Target
<1>4. CASE Limit <= 19
  BY <1>1, <1>3, <1>4
<1>5. CASE Limit >= 20
  BY <1>1, <1>2, <1>3, <1>5
<1> QED
  BY <1>1, <1>4, <1>5

LEMMA StoppedType ==
    ASSUME NEW state \in Temp, NEW reason \in Reasons
    PROVE  Stopped(state, reason) \in Temp /\ Stopped(state, reason).stop
BY DEF Stopped, Temp

LEMMA EnteringType ==
    ASSUME KeysOK, StopsAreReported, NEW t \in Tasks
    PROVE  /\ Entering(t) \in Temp
           /\ Entering(t).stop => outcome[AgentOf[t]] \in Failures
<1>1. AgentOf[t] \in Agents
  BY DEF Agents
<1>2. Cleared \in Temp /\ ~Cleared.stop
  BY DEF Cleared, Temp, Reasons
<1> QED
  BY <1>1, <1>2 DEF Entering, State, KeysOK, StopsAreReported

(* Setting the keys of one agent keeps the invariant if its stop is         *)
(* recorded, and if nothing on record is lost.                              *)
LEMMA SetKeepsInv ==
    ASSUME Inv, NEW t \in Tasks, NEW state \in Temp,
           temp' = Set(t, state),
           \/ outcome' = outcome
           \/ \E failure \in Failures : outcome' = Recorded(t, failure),
           state.stop => outcome'[AgentOf[t]] \in Failures
    PROVE  Inv'
<1>1. AgentOf[t] \in Agents
  BY DEF Agents
<1>2. outcome' \in [Agents -> Outcomes]
  BY DEF Inv, KeysOK, Recorded, Outcomes
<1>3. temp' \in [Agents -> Temp]
  BY DEF Inv, KeysOK, Set
<1>4. ASSUME NEW a \in Agents, temp'[a].stop
      PROVE  outcome'[a] \in Failures
  <2>1. CASE a = AgentOf[t]
    BY <1>1, <1>4, <2>1 DEF Inv, KeysOK, Set
  <2>2. CASE a # AgentOf[t]
    <3>1. temp[a].stop
      BY <1>1, <1>4, <2>2 DEF Inv, KeysOK, Set
    <3>2. outcome'[a] = outcome[a]
      BY <1>1, <2>2 DEF Inv, KeysOK, Recorded
    <3> QED
      BY <3>1, <3>2 DEF Inv, StopsAreReported
  <2> QED
    BY <2>1, <2>2
<1> QED
  BY <1>2, <1>3, <1>4 DEF Inv, KeysOK, StopsAreReported

LEMMA RecordedIsFailure ==
    ASSUME KeysOK, NEW t \in Tasks, NEW failure \in Failures
    PROVE  Recorded(t, failure)[AgentOf[t]] \in Failures
BY DEF KeysOK, Recorded, Agents

-----------------------------------------------------------------------------
LEMMA InitInv == Init => Inv
<1> SUFFICES ASSUME Init PROVE Inv
  OBVIOUS
<1>1. Cleared \in Temp /\ ~Cleared.stop
  BY DEF Cleared, Temp, Reasons
<1>2. temp = [a \in Agents |-> Cleared] /\ outcome = [a \in Agents |-> "completed"]
  BY DEF Init
<1> QED
  BY <1>1, <1>2 DEF Inv, KeysOK, StopsAreReported, Outcomes

LEMMA NextInv == Inv /\ [Next]_vars => Inv'
<1> SUFFICES ASSUME Inv, [Next]_vars PROVE Inv'
  OBVIOUS
<1>1. ASSUME UNCHANGED <<temp, outcome>> PROVE Inv'
  BY <1>1 DEF Inv, KeysOK, StopsAreReported
<1>2. CASE StartTurn
  BY <1>2 DEF StartTurn, Inv, KeysOK, StopsAreReported, Cleared, Temp, Reasons, Outcomes
<1>3. ASSUME NEW t \in Tasks, RefuseRequest(t) PROVE Inv'
  <2>1. Stopped(Entering(t), "context") \in Temp
    BY EnteringType, StoppedType DEF Inv, Reasons
  <2>2. "context_exhausted" \in Failures
    BY DEF Failures
  <2>3. outcome'[AgentOf[t]] \in Failures
    BY <1>3, <2>2, RecordedIsFailure DEF RefuseRequest, Inv
  <2> QED
    BY <1>3, <2>1, <2>2, <2>3, SetKeepsInv DEF RefuseRequest
<1>4. ASSUME NEW t \in Tasks, NEW estimate \in Sizes, NEW measured \in Sizes, estimate <= Target,
             GuardRequest(t, estimate, measured)
      PROVE  Inv'
  <2> DEFINE state == Checked(t, estimate)
             fits  == Limit - measured >= Reserve
             keys  == IF fits THEN state ELSE Stopped(state, "context")
  <2>1. ~(5 * estimate >= 4 * Limit)
    BY <1>4, RequestsStayBelowTheRatio, GuardsAssumption
  <2>2. state = IF Repeating(history[t]) THEN Stopped(Entering(t), "stalled") ELSE Entering(t)
    BY <2>1 DEF Checked
  <2>3. state \in Temp
    BY <2>2, EnteringType, StoppedType DEF Inv, Reasons
  <2>4. keys \in Temp
    BY <2>3, StoppedType DEF Reasons
  <2>5. "stalled" \in Failures /\ "context_exhausted" \in Failures
    BY DEF Failures
  <2>6. \/ outcome' = outcome
        \/ \E failure \in Failures : outcome' = Recorded(t, failure)
    BY <1>4, <2>5 DEF GuardRequest
  <2>7. ASSUME keys.stop PROVE outcome'[AgentOf[t]] \in Failures
    <3>1. CASE Repeating(history[t])
      BY <1>4, <2>5, <3>1, RecordedIsFailure DEF GuardRequest, Inv
    <3>2. CASE ~Repeating(history[t]) /\ fits
      BY <1>4, <2>2, <2>7, <3>2, EnteringType DEF GuardRequest, Inv
    <3>3. CASE ~Repeating(history[t]) /\ ~fits
      BY <1>4, <2>5, <3>3, RecordedIsFailure DEF GuardRequest, Inv
    <3> QED
      BY <3>1, <3>2, <3>3
  <2>8. temp' = Set(t, keys)
    BY <1>4 DEF GuardRequest
  <2> QED
    BY <2>4, <2>6, <2>7, <2>8, SetKeepsInv
<1>5. ASSUME NEW t \in Tasks, NEW text \in Accumulated, NEW answers \in BOOLEAN,
             PartialReply(t, text, answers)
      PROVE  Inv'
  <2> DEFINE next == [State(t) EXCEPT !.streamed = text, !.answered = @ \/ answers]
             loop == [Stopped(next, "repetition") EXCEPT !.suppress = TRUE]
  <2>1. State(t) \in Temp /\ (State(t).stop => outcome[AgentOf[t]] \in Failures)
    BY DEF Inv, KeysOK, StopsAreReported, State, Agents
  <2>2. next \in Temp /\ next.stop = State(t).stop
    BY <2>1 DEF Temp, Accumulated
  <2>3. Stopped(next, "repetition") \in Temp
    BY <2>2, StoppedType DEF Reasons
  <2>4. loop \in Temp
    BY <2>3 DEF Temp
  <2>5. "repetition" \in Failures
    BY DEF Failures
  <2>6. CASE UNCHANGED <<temp, outcome>>
    BY <1>1, <2>6
  <2>7. CASE temp' = Set(t, next) /\ UNCHANGED outcome
    BY <2>1, <2>2, <2>7, SetKeepsInv
  <2>8. CASE temp' = Set(t, loop) /\ outcome' = Recorded(t, "repetition")
    <3>1. outcome'[AgentOf[t]] \in Failures
      BY <2>5, <2>8, RecordedIsFailure DEF Inv
    <3> QED
      BY <2>4, <2>5, <2>8, <3>1, SetKeepsInv
  <2> QED
    BY <1>5, <2>6, <2>7, <2>8 DEF PartialReply
<1>6. ASSUME NEW t \in Tasks, NEW text \in {""} \cup Accumulated, NEW answers \in BOOLEAN,
             NEW calls \in 0..MaxCalls, FinalReply(t, text, answers, calls)
      PROVE  Inv'
  <2> DEFINE next  == [State(t) EXCEPT !.streamed = "", !.answered = FALSE]
  <2>1. State(t) \in Temp /\ (State(t).stop => outcome[AgentOf[t]] \in Failures)
    BY DEF Inv, KeysOK, StopsAreReported, State, Agents
  <2>2. next \in Temp /\ next.stop = State(t).stop
    BY <2>1 DEF Temp
  <2>3. Stopped(next, "repetition") \in Temp
    BY <2>2, StoppedType DEF Reasons
  <2>4. "repetition" \in Failures
    BY DEF Failures
  <2>5. CASE temp' = Set(t, next) /\ outcome' = outcome
    BY <2>1, <2>2, <2>5, SetKeepsInv
  <2>6. CASE temp' = Set(t, Stopped(next, "repetition")) /\ outcome' = Recorded(t, "repetition")
    <3>1. outcome'[AgentOf[t]] \in Failures
      BY <2>4, <2>6, RecordedIsFailure DEF Inv
    <3> QED
      BY <2>3, <2>4, <2>6, <3>1, SetKeepsInv
  <2> QED
    BY <1>6, <2>5, <2>6 DEF FinalReply
<1>7. CASE UNCHANGED vars
  BY <1>1, <1>7 DEF vars
<1> QED
  BY <1>1, <1>2, <1>3, <1>4, <1>5, <1>6, <1>7
     DEF Next, Step, Asks, Replies, Calls, EndTurn, FinishAfterSkip, EmptyReply, SkipCall,
         RunCall, Delegate, Report

(* Every stop of an agent has a failure of the turn on record, so           *)
(* root_turn_outcome never reports a stopped turn as completed.             *)
THEOREM StopsReported == Spec => []StopsAreReported
<1>1. Inv => StopsAreReported
  BY DEF Inv
<1> QED
  BY InitInv, NextInv, <1>1, PTL DEF Spec

-----------------------------------------------------------------------------
(* ADK's loops.  A task that makes calls has calls left, and the root waits *)
(* for a call of each task it delegated.                                    *)
LoopsOK ==
    /\ run \in [Tasks -> Run]
    /\ history \in [Tasks -> Seq(Results \cup {Skipped})]
    /\ acted \subseteq Tasks
    /\ told \subseteq Tasks

CallsLeft == \A t \in Tasks : run[t].phase = "calls" => run[t].calls > 0

RootWaits ==
    Delegated(Root) # {} =>
        run[Root].phase = "calls" /\ Cardinality(Delegated(Root)) <= run[Root].calls

Loops == LoopsOK /\ CallsLeft /\ RootWaits

LEMMA ObserveType ==
    ASSUME NEW observations \in Seq(Results \cup {Skipped}), NEW result \in Results \cup {Skipped}
    PROVE  /\ Observe(observations, result) \in Seq(Results \cup {Skipped})
           /\ Observe(observations, result) # <<>>
           /\ LastSkipped(Observe(observations, result)) <=> result = Skipped
<1> DEFINE S == Results \cup {Skipped}
           all == Append(observations, result)
<1>1. Window \in Nat /\ Window > 0
  <2>1. Runs \in Nat \ {0} /\ MaxPattern \in Nat \ {0}
    BY GuardsAssumption
  <2>2. \A a, b \in Nat \ {0} : a * b \in Nat /\ a * b > 0
    BY Z3
  <2> QED
    BY <2>1, <2>2 DEF Window
<1>2. /\ all \in Seq(S) /\ Len(all) = Len(observations) + 1 /\ Len(observations) \in Nat
      /\ all[Len(all)] = result
  BY AppendProperties, LenProperties
<1>3. CASE Len(all) <= Window
  BY <1>2, <1>3 DEF Observe, LastSkipped
<1>4. CASE ~(Len(all) <= Window)
  <2>1. Len(all) > 1
    BY <1>1, <1>2, <1>4
  <2>2. /\ Tail(all) \in Seq(S) /\ Len(Tail(all)) = Len(all) - 1
        /\ Tail(all)[Len(all) - 1] = all[Len(all)]
    BY <1>2, <2>1
  <2>3. Tail(all) # <<>>
    BY <1>2, <2>1, <2>2
  <2> QED
    BY <1>2, <1>4, <2>2, <2>3 DEF Observe, LastSkipped
<1> QED
  BY <1>3, <1>4

LEMMA DelegatedFinite ==
    ASSUME NEW t \in Tasks
    PROVE  IsFiniteSet(Delegated(t)) /\ Cardinality(Delegated(t)) \in Nat
BY GuardsAssumption, FS_Subset, FS_EmptySet, FS_CardinalityType DEF Delegated

LEMMA RunTypes ==
    /\ \A phase \in Phases : At(phase) \in Run
    /\ \A n \in 0..MaxCalls : Calling(n) \in Run
BY GuardsAssumption DEF At, Calling, Run, Phases

(* Who the root waits for only changes when a sub-agent's task starts or    *)
(* reports; a step of a task that makes a call takes one of its calls.      *)
LEMMA CallTaken ==
    ASSUME Loops, NEW t \in Tasks, NEW result \in Results \cup {Skipped}, HasCall(t),
           history' = [history EXCEPT ![t] = Observe(@, result)],
           run' = [run EXCEPT ![t] = Calling(@.calls - 1)],
           acted' \in {acted, acted \cup {t}}, UNCHANGED told
    PROVE  Loops'
<1>1. /\ run[t] \in Run /\ run[t].calls \in 0..MaxCalls
      /\ run \in [Tasks -> Run] /\ MaxCalls \in Nat
  BY GuardsAssumption DEF Loops, LoopsOK, Run
<1>2. Cardinality(Delegated(t)) \in Nat /\ run[t].phase = "calls"
      /\ run[t].calls > Cardinality(Delegated(t))
  BY DelegatedFinite DEF HasCall
<1>3. run[t].calls - 1 \in 0..MaxCalls
  BY <1>1, <1>2
<1>4. LoopsOK'
  <2>1. Calling(run[t].calls - 1) \in Run
    BY <1>3, RunTypes
  <2>2. Observe(history[t], result) \in Seq(Results \cup {Skipped})
    BY ObserveType DEF Loops, LoopsOK
  <2> QED
    BY <1>1, <2>1, <2>2 DEF Loops, LoopsOK
<1>5. CallsLeft'
  BY <1>1, <1>2, <1>3 DEF Loops, CallsLeft, Calling
<1>6. \A u \in Tasks : run'[u].phase = "idle" <=> run[u].phase = "idle"
  BY <1>1, <1>2 DEF Calling
<1>7. Delegated(Root)' = Delegated(Root)
  BY <1>6 DEF Delegated
<1>8. RootWaits'
  <2>1. CASE t # Root
    BY <1>1, <1>7, <2>1, GuardsAssumption DEF Loops, RootWaits
  <2>2. CASE t = Root
    <3> SUFFICES ASSUME Delegated(Root) # {}
                 PROVE  /\ run'[Root].phase = "calls"
                        /\ Cardinality(Delegated(Root)) <= run'[Root].calls
      BY <1>7 DEF RootWaits
    <3>1. Cardinality(Delegated(Root)) # 0
      BY <2>2, DelegatedFinite, FS_EmptySet
    <3>2. run'[Root] = Calling(run[Root].calls - 1)
      BY <1>1, <2>2
    <3> QED
      BY <1>1, <1>2, <1>3, <2>2, <3>1, <3>2 DEF Calling
  <2> QED
    BY <2>1, <2>2
<1> QED
  BY <1>4, <1>5, <1>8 DEF Loops

(* A step of a task that asks or replies leaves it at work or done.         *)
LEMMA OneGoesOn ==
    ASSUME Loops, NEW t \in Tasks, NEW loop \in Run, run[t].phase \in {"request", "reply"},
           run' = [run EXCEPT ![t] = loop], loop.phase # "idle",
           loop.phase = "calls" => loop.calls > 0,
           UNCHANGED <<history, acted>>, told' \in {told, told \cup {t}}
    PROVE  Loops'
<1>1. run \in [Tasks -> Run]
  BY DEF Loops, LoopsOK
<1>2. LoopsOK' /\ CallsLeft'
  BY <1>1 DEF Loops, LoopsOK, CallsLeft
<1>3. Delegated(Root)' = Delegated(Root)
  BY <1>1 DEF Delegated
<1>4. RootWaits'
  BY <1>1, <1>3, GuardsAssumption DEF Loops, RootWaits
<1> QED
  BY <1>2, <1>4 DEF Loops

LEMMA LoopsKept == Loops /\ [Next]_vars => Loops'
<1> SUFFICES ASSUME Loops, [Next]_vars PROVE Loops'
  OBVIOUS
<1>0. /\ run \in [Tasks -> Run] /\ Root \in Tasks
      /\ history \in [Tasks -> Seq(Results \cup {Skipped})]
      /\ MaxCalls \in Nat \ {0} /\ MaxPartials \in Nat
  BY GuardsAssumption DEF Loops, LoopsOK
<1>1. CASE StartTurn
  <2>1. Delegated(Root)' = Delegated(Root) /\ Delegated(Root) = {}
    BY <1>0, <1>1 DEF StartTurn, Delegated, Loops, RootWaits
  <2>2. At("request") \in Run
    BY RunTypes DEF Phases
  <2> QED
    BY <1>0, <1>1, <2>1, <2>2 DEF StartTurn, Loops, LoopsOK, CallsLeft, RootWaits, At
<1>2. CASE EndTurn
  <2>1. Delegated(Root)' = {}
    BY <1>2 DEF EndTurn, Delegated, At
  <2>2. At("idle") \in Run
    BY RunTypes DEF Phases
  <2> QED
    BY <1>0, <1>2, <2>1, <2>2 DEF EndTurn, Loops, LoopsOK, CallsLeft, RootWaits, At
<1>3. ASSUME NEW t \in Tasks, FinishAfterSkip(t) \/ RefuseRequest(t) \/ EmptyReply(t)
      PROVE  Loops'
  <2>1. At("done") \in Run /\ At("done").phase = "done"
    BY RunTypes DEF Phases, At
  <2> QED
    BY <1>3, <2>1, OneGoesOn DEF FinishAfterSkip, RefuseRequest, EmptyReply
<1>4. ASSUME NEW t \in Tasks, NEW estimate \in Sizes, NEW measured \in Sizes,
             GuardRequest(t, estimate, measured)
      PROVE  Loops'
  <2> DEFINE phase == IF Limit - measured >= Reserve THEN "reply" ELSE "done"
  <2>1. At(phase) \in Run /\ At(phase).phase \in {"reply", "done"}
    BY RunTypes DEF Phases, At
  <2>2. run' = [run EXCEPT ![t] = At(phase)]
    BY <1>4 DEF GuardRequest
  <2>3. run[t].phase = "request" /\ UNCHANGED <<history, acted>> /\ told' \in {told, told \cup {t}}
    BY <1>4 DEF GuardRequest
  <2> HIDE DEF phase
  <2> QED
    BY <2>1, <2>2, <2>3, OneGoesOn
<1>5. ASSUME NEW t \in Tasks, NEW text, NEW answers, PartialReply(t, text, answers)
      PROVE  Loops'
  <2> DEFINE loop == [run[t] EXCEPT !.partials = @ + 1]
  <2>0. /\ run[t].phase = "reply" /\ run[t].partials < MaxPartials
        /\ run' = [run EXCEPT ![t].partials = @ + 1]
        /\ UNCHANGED <<history, acted, told>>
    BY <1>5 DEF PartialReply
  <2>1. loop \in Run /\ loop.phase = "reply"
    <3>1. run[t] \in Run /\ run[t].partials + 1 \in 0..MaxPartials
      BY <1>0, <2>0 DEF Run
    <3> QED
      BY <2>0, <3>1 DEF Run
  <2>2. run' = [run EXCEPT ![t] = loop]
    BY <2>0
  <2> HIDE DEF loop
  <2> QED
    BY <2>0, <2>1, <2>2, OneGoesOn
<1>6. ASSUME NEW t \in Tasks, NEW text, NEW answers, NEW calls \in 0..MaxCalls,
             FinalReply(t, text, answers, calls)
      PROVE  Loops'
  <2>1. At("done") \in Run /\ At("done").phase = "done"
    BY RunTypes DEF Phases, At
  <2>2. calls > 0 => Calling(calls) \in Run /\ Calling(calls).phase = "calls" /\ Calling(calls).calls > 0
    BY <1>0, RunTypes DEF Calling
  <2>3. \/ run' = [run EXCEPT ![t] = At("done")]
        \/ calls > 0 /\ run' = [run EXCEPT ![t] = Calling(calls)]
    BY <1>6 DEF FinalReply
  <2>4. run[t].phase = "reply" /\ UNCHANGED <<history, acted, told>>
    BY <1>6 DEF FinalReply
  <2> QED
    BY <2>1, <2>2, <2>3, <2>4, OneGoesOn
<1>7. ASSUME NEW t \in Tasks, SkipCall(t) PROVE Loops'
  BY <1>7, CallTaken DEF SkipCall
<1>8. ASSUME NEW t \in Tasks, NEW result \in Results, RunCall(t, result) PROVE Loops'
  BY <1>8, CallTaken DEF RunCall
<1>9. ASSUME NEW s \in Tasks, Delegate(s) PROVE Loops'
  <2>1. /\ s \notin Delegated(Root) /\ Delegated(Root)' = Delegated(Root) \cup {s}
        /\ s # Root
    BY <1>0, <1>9 DEF Delegate, Delegated, At
  <2>2. Cardinality(Delegated(Root)') = Cardinality(Delegated(Root)) + 1
    BY <1>0, <2>1, DelegatedFinite, FS_AddElement
  <2>3. /\ run'[Root] = run[Root] /\ run[Root].phase = "calls"
        /\ run[Root].calls > Cardinality(Delegated(Root)) /\ run[Root].calls \in Nat
    BY <1>0, <1>9, <2>1 DEF Delegate, HasCall, Run
  <2>4. RootWaits'
    BY <1>0, <2>2, <2>3, DelegatedFinite DEF RootWaits
  <2>5. At("request") \in Run /\ At("request").phase = "request"
    BY RunTypes DEF Phases, At
  <2>6. LoopsOK'
    BY <1>0, <1>9, <2>5 DEF Delegate, Loops, LoopsOK
  <2>7. CallsLeft'
    BY <1>0, <1>9, <2>5 DEF Delegate, Loops, CallsLeft
  <2> QED
    BY <2>4, <2>6, <2>7 DEF Loops
<1>10. ASSUME NEW s \in Tasks, NEW result \in Results, Report(s, result) PROVE Loops'
  <2> DEFINE loop == Calling(run[Root].calls - 1)
  <2>1. s # Root /\ run[s].phase = "done" /\ s \in Delegated(Root)
    BY <1>10 DEF Report, Delegated
  <2>2. /\ run[Root].phase = "calls" /\ run[Root].calls \in 0..MaxCalls
        /\ Cardinality(Delegated(Root)) <= run[Root].calls
    BY <1>0, <2>1 DEF Loops, RootWaits, Run
  <2>3. /\ Cardinality(Delegated(Root)) \in Nat /\ IsFiniteSet(Delegated(Root))
        /\ Cardinality(Delegated(Root) \ {s}) = Cardinality(Delegated(Root)) - 1
        /\ Cardinality(Delegated(Root) \ {s}) \in Nat
    BY <1>0, <2>1, DelegatedFinite, FS_RemoveElement, FS_CardinalityType
  <2>4. run[Root].calls - 1 \in 0..MaxCalls
    BY <1>0, <2>2, <2>3
  <2>5. loop \in Run /\ loop.calls = run[Root].calls - 1
        /\ loop.phase = IF run[Root].calls - 1 = 0 THEN "request" ELSE "calls"
    BY <2>4, RunTypes DEF Calling
  <2>6. /\ run' = [run EXCEPT ![Root] = loop, ![s] = At("idle")]
        /\ history' = [history EXCEPT ![Root] = Observe(@, result), ![s] = <<>>]
        /\ UNCHANGED <<acted, told>>
    BY <1>0, <1>10 DEF Report
  <2> HIDE DEF loop
  <2>7. At("idle") \in Run /\ At("idle").phase = "idle"
    BY RunTypes DEF Phases, At
  <2>8. LoopsOK'
    <3>1. history[Root] \in Seq(Results \cup {Skipped}) /\ result \in Results \cup {Skipped}
      BY <1>0
    <3>2. Observe(history[Root], result) \in Seq(Results \cup {Skipped})
      BY <3>1, ObserveType
    <3>3. run' \in [Tasks -> Run]
      BY <1>0, <2>5, <2>6, <2>7
    <3>4. <<>> \in Seq(Results \cup {Skipped})
      OBVIOUS
    <3>5. history' \in [Tasks -> Seq(Results \cup {Skipped})]
      BY <1>0, <2>6, <3>2, <3>4
    <3> QED
      BY <2>6, <3>3, <3>5 DEF Loops, LoopsOK
  <2>9. CallsLeft'
    <3> SUFFICES ASSUME NEW u \in Tasks, run'[u].phase = "calls" PROVE run'[u].calls > 0
      BY DEF CallsLeft
    <3>1. CASE u = s
      BY <1>0, <2>6, <2>7, <3>1
    <3>2. CASE u # s /\ u = Root
      <4>1. run'[Root] = loop
        BY <1>0, <2>1, <2>6
      <4>2. run[Root].calls - 1 # 0
        BY <2>5, <3>2, <4>1
      <4>3. run[Root].calls - 1 > 0
        BY <1>0, <2>2, <2>4, <4>2
      <4>4. loop.calls > 0
        BY <2>5, <4>3
      <4> QED
        BY <3>2, <4>1, <4>4
    <3>3. CASE u # s /\ u # Root
      BY <1>0, <2>6, <3>3 DEF Loops, CallsLeft
    <3> QED
      BY <3>1, <3>2, <3>3
  <2>10. Delegated(Root)' = Delegated(Root) \ {s}
    BY <1>0, <2>1, <2>6, <2>7 DEF Delegated
  <2>11. run'[Root] = loop
    BY <1>0, <2>1, <2>6
  <2>12. RootWaits'
    <3> SUFFICES ASSUME Delegated(Root) \ {s} # {}
                 PROVE  loop.phase = "calls" /\ Cardinality(Delegated(Root) \ {s}) <= loop.calls
      BY <2>10, <2>11 DEF RootWaits
    <3>1. Cardinality(Delegated(Root) \ {s}) # 0
      <4>1. IsFiniteSet(Delegated(Root) \ {s})
        BY <2>3, FS_RemoveElement
      <4> QED
        BY <4>1, FS_EmptySet
    <3> QED
      BY <2>2, <2>3, <2>5, <3>1
  <2> QED
    BY <2>8, <2>9, <2>12 DEF Loops
<1>11. CASE UNCHANGED vars
  BY <1>11 DEF vars, Loops, LoopsOK, CallsLeft, RootWaits, Delegated
<1> QED
  BY <1>1, <1>2, <1>3, <1>4, <1>5, <1>6, <1>7, <1>8, <1>9, <1>10, <1>11
     DEF Next, Step, Asks, Replies, Calls

LEMMA LoopsAtFirst == Init => Loops
<1> SUFFICES ASSUME Init PROVE Loops
  OBVIOUS
<1>1. At("idle") \in Run /\ At("idle").phase = "idle"
  BY RunTypes DEF Phases, At
<1>2. <<>> \in Seq(Results \cup {Skipped})
  OBVIOUS
<1>3. LoopsOK /\ CallsLeft
  BY <1>1, <1>2 DEF Init, LoopsOK, CallsLeft
<1>4. Delegated(Root) = {}
  BY <1>1 DEF Init, Delegated
<1> QED
  BY <1>3, <1>4 DEF Loops, RootWaits

(* The states are those of TypeOK: no task makes more calls than its reply  *)
(* had, and a sub-agent only ever reports to a root that waits for it.      *)
THEOREM TypeCorrect == Spec => []TypeOK
<1>1. Inv /\ Loops => TypeOK
  BY DEF Inv, KeysOK, Loops, LoopsOK, TypeOK, Outcomes
<1> QED
  BY InitInv, NextInv, LoopsAtFirst, LoopsKept, <1>1, PTL DEF Spec

-----------------------------------------------------------------------------
(* The keys of an agent are shared by its tasks, so what follows needs them *)
(* to be at work one after another, as they are when a reply of the root    *)
(* delegates to each sub-agent once.                                        *)
OneTaskAtATime ==
    \A t, u \in Tasks :
        t # u /\ AgentOf[t] = AgentOf[u] => ~(Active(t) /\ Active(u))

(* What one reply left that the next one must not find. *)
Clean(state) == ~state.suppress /\ state.streamed = "" /\ ~state.answered

StartsClean(t) ==
    /\ run[t].phase = "request" => history[t] = <<>> \/ Clean(State(t))
    /\ run[t].phase = "calls" => Clean(State(t))
    /\ run[t].phase = "calls" /\ history[t] = <<>> => ~State(t).stop
    /\ run[t].phase = "reply" =>
        /\ run[t].partials = 0 => Clean(State(t))
        /\ State(t).suppress => State(t).streamed = "loop"
        /\ history[t] = <<>> /\ State(t).stop => State(t).suppress

AllStartClean == \A t \in Tasks : StartsClean(t)

(* A task that was told to finish is one whose agent is stopped, and it     *)
(* asks again only after a call that was skipped.                           *)
ToldToStop(t) ==
    t \in told =>
        /\ Active(t) => State(t).stop
        /\ run[t].phase = "request" => LastSkipped(history[t])

AllToldToStop ==
    /\ \A t \in Tasks : ToldToStop(t)
    /\ Root \in told => Delegated(Root) = {}

(* Steps of a task's own, in which it asks, replies or makes a call.        *)
Own(t) == Asks(t) \/ Replies(t) \/ SkipCall(t) \/ \E result \in Results : RunCall(t, result)

(* They leave the others as they are, but for the keys of an agent none of  *)
(* whose other tasks is at work.                                            *)
LEMMA OthersUntouched ==
    ASSUME Inv, Loops, OneTaskAtATime, NEW t \in Tasks, Own(t), NEW u \in Tasks, u # t
    PROVE  /\ run'[u] = run[u]
           /\ history'[u] = history[u]
           /\ Active(u) => temp'[AgentOf[u]] = temp[AgentOf[u]]
           /\ u \in told' <=> u \in told
<1>1. /\ run \in [Tasks -> Run] /\ history \in [Tasks -> Seq(Results \cup {Skipped})]
      /\ temp \in [Agents -> Temp] /\ AgentOf[u] \in Agents
  BY DEF Inv, KeysOK, Loops, LoopsOK, Agents
<1>2. /\ \E loop : run' = [run EXCEPT ![t] = loop]
      /\ history' = history \/ \E all : history' = [history EXCEPT ![t] = all]
      /\ told' \in {told, told \cup {t}}
      /\ temp' = temp \/ (Active(t) /\ \E state : temp' = Set(t, state))
  <2>1. ASSUME NEW estimate \in Sizes, NEW measured \in Sizes, GuardRequest(t, estimate, measured)
        PROVE  <1>2!:
    BY <2>1 DEF GuardRequest, Active
  <2>2. ASSUME NEW text, NEW answers, PartialReply(t, text, answers)
        PROVE  <1>2!:
    <3>1. run' = [run EXCEPT ![t] = [run[t] EXCEPT !.partials = @ + 1]]
      BY <1>1, <2>2 DEF PartialReply
    <3> QED
      BY <2>2, <3>1 DEF PartialReply, Active
  <2>3. ASSUME NEW text, NEW answers, NEW calls, FinalReply(t, text, answers, calls)
        PROVE  <1>2!:
    BY <2>3 DEF FinalReply, Active
  <2>4. ASSUME FinishAfterSkip(t) \/ RefuseRequest(t) \/ EmptyReply(t)
        PROVE  <1>2!:
    BY <2>4 DEF FinishAfterSkip, RefuseRequest, EmptyReply, Active
  <2>5. ASSUME SkipCall(t) \/ \E result : RunCall(t, result)
        PROVE  <1>2!:
    BY <2>5 DEF SkipCall, RunCall
  <2> QED
    BY <2>1, <2>2, <2>3, <2>4, <2>5 DEF Own, Asks, Replies
<1>3. Active(u) /\ Active(t) => AgentOf[u] # AgentOf[t]
  BY DEF OneTaskAtATime
<1> QED
  BY <1>1, <1>2, <1>3 DEF Set

(* A task that is left as it is starts clean, and is told, as before.       *)
LEMMA OthersStay ==
    ASSUME NEW u \in Tasks, StartsClean(u), ToldToStop(u),
           run'[u] = run[u], history'[u] = history[u],
           Active(u) => temp'[AgentOf[u]] = temp[AgentOf[u]],
           u \in told' <=> u \in told
    PROVE  StartsClean(u)' /\ ToldToStop(u)'
BY DEF StartsClean, ToldToStop, State, Active, LastSkipped, Clean

(* No pattern is repeated before there is an observation.                   *)
LEMMA NothingRepeats == ~Repeating(<<>>)
<1>1. Runs \in Nat \ {0}
  BY GuardsAssumption
<1>2. \A n \in 1..MaxPattern : ~(Len(<<>>) - Runs * n >= 0)
  <2> SUFFICES ASSUME NEW n \in 1..MaxPattern PROVE Len(<<>>) - Runs * n < 0
    BY <1>1
  <2>1. n \in Nat \ {0}
    BY GuardsAssumption
  <2>2. \A a, b \in Nat \ {0} : 0 - a * b < 0
    BY Z3
  <2>3. Len(<<>>) = 0
    OBVIOUS
  <2> QED
    BY <1>1, <2>1, <2>2, <2>3
<1> QED
  BY <1>2 DEF Repeating

LEMMA KeysOf ==
    ASSUME Inv, NEW t \in Tasks
    PROVE  /\ AgentOf[t] \in Agents /\ State(t) \in Temp
           /\ \A state : Set(t, state)[AgentOf[t]] = state
BY DEF Inv, KeysOK, State, Set, Agents

(* A request that is sent starts its reply clean, stops the agent only when *)
(* there is an observation, and tells only a task it stops.                 *)
LEMMA AsksClean ==
    ASSUME Inv, Loops, NEW t \in Tasks, StartsClean(t), ToldToStop(t), Asks(t)
    PROVE  StartsClean(t)' /\ ToldToStop(t)'
<1>0. run \in [Tasks -> Run]
  BY DEF Loops, LoopsOK
<1>1. CASE FinishAfterSkip(t) \/ RefuseRequest(t)
  <2>1. run'[t].phase = "done"
    BY <1>0, <1>1 DEF FinishAfterSkip, RefuseRequest, At
  <2> QED
    BY <2>1 DEF StartsClean, ToldToStop, Active
<1>2. ASSUME NEW estimate \in Sizes, NEW measured \in Sizes, estimate <= Target,
             GuardRequest(t, estimate, measured)
      PROVE  StartsClean(t)' /\ ToldToStop(t)'
  <2> DEFINE state == Checked(t, estimate)
             fits  == Limit - measured >= Reserve
  <2>1. /\ run[t].phase = "request" /\ ~Finishing(t) /\ history' = history
        /\ run' = [run EXCEPT ![t] = At(IF fits THEN "reply" ELSE "done")]
        /\ fits => temp' = Set(t, state)
        /\ told' = IF fits /\ state.stop THEN told \cup {t} ELSE told
    BY <1>2 DEF GuardRequest
  <2>2. run'[t] = At(IF fits THEN "reply" ELSE "done")
    BY <1>0, <2>1
  <2>3. CASE ~fits
    BY <2>2, <2>3 DEF StartsClean, ToldToStop, Active, At
  <2>4. CASE fits
    <3>1. /\ run'[t].phase = "reply" /\ run'[t].partials = 0 /\ State(t)' = state
      BY <2>1, <2>2, <2>4, KeysOf DEF At, State
    <3>2. ~(5 * estimate >= 4 * Limit)
      BY <1>2, RequestsStayBelowTheRatio, GuardsAssumption
    <3>3. state = IF Repeating(history[t]) THEN Stopped(Entering(t), "stalled") ELSE Entering(t)
      BY <3>2 DEF Checked
    <3>4. Entering(t) \in Temp /\ Clean(Entering(t))
      <4>1. CASE history[t] = <<>>
        BY <4>1 DEF Entering, Cleared, Clean, Temp, Reasons
      <4>2. CASE history[t] # <<>>
        BY <2>1, <4>2, KeysOf DEF Entering, StartsClean
      <4> QED
        BY <4>1, <4>2
    <3>5. Clean(state)
      BY <3>3, <3>4 DEF Clean, Stopped, Temp
    <3>6. history[t] = <<>> => ~state.stop
      <4> SUFFICES ASSUME history[t] = <<>> PROVE ~state.stop
        OBVIOUS
      <4>1. ~Repeating(history[t])
        BY NothingRepeats
      <4>2. state = Cleared
        BY <3>3, <4>1 DEF Entering
      <4>3. Cleared.stop = FALSE
        BY DEF Cleared
      <4> QED
        BY <4>2, <4>3
    <3>7. t \notin told
      BY <2>1 DEF ToldToStop, Finishing, Active
    <3>8. t \in told' => state.stop
      BY <2>1, <3>7
    <3> HIDE DEF state, fits
    <3> QED
      BY <2>1, <3>1, <3>5, <3>6, <3>8 DEF StartsClean, ToldToStop, Active, Clean
  <2> QED
    BY <2>3, <2>4
<1> QED
  BY <1>1, <1>2 DEF Asks

LEMMA CallsAreMade == \A calls \in 0..MaxCalls : calls > 0 => Calling(calls).phase = "calls"
BY GuardsAssumption DEF Calling

(* A stop in the middle of a stream blanks the rest of it, and the reply it *)
(* ends makes no calls; a reply that makes calls leaves nothing behind.     *)
LEMMA RepliesClean ==
    ASSUME Inv, Loops, NEW t \in Tasks, StartsClean(t), ToldToStop(t), Replies(t)
    PROVE  StartsClean(t)' /\ ToldToStop(t)'
<1>0. /\ run \in [Tasks -> Run] /\ State(t) \in Temp
      /\ MaxCalls \in Nat /\ MaxPartials \in Nat
  BY KeysOf, GuardsAssumption DEF Loops, LoopsOK
<1>1. ASSUME NEW text \in Accumulated, NEW answers \in BOOLEAN, PartialReply(t, text, answers)
      PROVE  StartsClean(t)' /\ ToldToStop(t)'
  <2> DEFINE next == [State(t) EXCEPT !.streamed = text, !.answered = @ \/ answers]
             loop == [Stopped(next, "repetition") EXCEPT !.suppress = TRUE]
  <2>1. /\ run[t].phase = "reply" /\ run[t].partials \in Nat
        /\ run' = [run EXCEPT ![t] = [run[t] EXCEPT !.partials = @ + 1]]
        /\ UNCHANGED <<history, told>>
        /\ \/ State(t).suppress /\ temp' = temp
           \/ ~State(t).suppress /\ text = "text" /\ temp' = Set(t, next)
           \/ ~State(t).suppress /\ text = "loop" /\ temp' = Set(t, loop)
    <3>1. run[t].phase = "reply" /\ run[t].partials \in Nat
      BY <1>0, <1>1 DEF PartialReply, Run
    <3>2. run' = [run EXCEPT ![t] = [run[t] EXCEPT !.partials = @ + 1]]
      BY <1>0, <1>1 DEF PartialReply
    <3> QED
      BY <1>1, <3>1, <3>2 DEF PartialReply
  <2>2. run'[t].phase = "reply" /\ run'[t].partials # 0
    BY <1>0, <2>1 DEF Run
  <2>3. /\ next.stop = State(t).stop /\ next.suppress = State(t).suppress /\ next \in Temp
        /\ next.streamed = text
    BY <1>0 DEF Temp, Accumulated
  <2>4. loop.stop /\ loop.suppress /\ loop.streamed = text
    BY <2>3 DEF Stopped, Temp
  <2>5. State(t)' \in {State(t), next, loop}
        /\ (State(t)' = State(t) \/ (~State(t).suppress /\ State(t)' = next)
             \/ (text = "loop" /\ State(t)' = loop))
    <3>1. State(t)' = temp'[AgentOf[t]] /\ State(t) = temp[AgentOf[t]]
      BY DEF State
    <3> HIDE DEF next, loop
    <3> QED
      BY <2>1, <3>1, KeysOf
  <2> HIDE DEF next, loop
  <2>6. StartsClean(t)'
    BY <2>1, <2>2, <2>3, <2>4, <2>5 DEF StartsClean
  <2>7. ToldToStop(t)'
    BY <2>1, <2>2, <2>3, <2>4, <2>5 DEF ToldToStop, Active
  <2> QED
    BY <2>6, <2>7
<1>2. ASSUME NEW text \in {""} \cup Accumulated, NEW answers \in BOOLEAN, NEW calls \in 0..MaxCalls,
             FinalReply(t, text, answers, calls)
      PROVE  StartsClean(t)' /\ ToldToStop(t)'
  <2>0. calls > 0 => Calling(calls).phase = "calls"
    BY CallsAreMade
  <2> DEFINE whole    == IF State(t).streamed = "" THEN text ELSE State(t).streamed
             next     == [State(t) EXCEPT !.streamed = "", !.answered = FALSE]
             answered == answers \/ State(t).answered
             loops    == whole = "loop" /\ (answered \/ calls > 0)
  <2>1. /\ run[t].phase = "reply"
        /\ run' = [run EXCEPT ![t] = IF calls > 0 /\ ~loops THEN Calling(calls) ELSE At("done")]
        /\ temp' = Set(t, IF loops THEN Stopped(next, "repetition") ELSE next)
        /\ UNCHANGED <<history, told>>
    BY <1>2 DEF FinalReply
  <2>2. CASE calls > 0 /\ ~loops
    <3>1. run'[t] = Calling(calls) /\ State(t)' = next
      BY <1>0, <2>1, <2>2, KeysOf DEF State
    <3>2. run'[t].phase = "calls"
      BY <2>0, <2>2, <3>1
    <3>3. whole # "loop"
      BY <2>2
    <3>4. ~State(t).suppress
      BY <2>1, <3>3 DEF StartsClean
    <3>5. /\ next.stop = State(t).stop /\ next.suppress = State(t).suppress
          /\ next.streamed = "" /\ next.answered = FALSE
      BY <1>0 DEF Temp
    <3> HIDE DEF next
    <3>6. StartsClean(t)'
      BY <2>1, <3>1, <3>2, <3>4, <3>5 DEF StartsClean, Clean
    <3>7. ToldToStop(t)'
      BY <2>1, <3>1, <3>2, <3>5 DEF ToldToStop, Active
    <3> QED
      BY <3>6, <3>7
  <2>3. CASE ~(calls > 0 /\ ~loops)
    <3>1. run'[t].phase = "done"
      BY <1>0, <2>1, <2>3 DEF At
    <3> QED
      BY <3>1 DEF StartsClean, ToldToStop, Active
  <2> QED
    BY <2>2, <2>3
<1>3. CASE EmptyReply(t)
  <2>1. run'[t].phase = "done"
    BY <1>0, <1>3 DEF EmptyReply, At
  <2> QED
    BY <2>1 DEF StartsClean, ToldToStop, Active
<1> QED
  BY <1>1, <1>2, <1>3 DEF Replies

(* A call that is skipped or run leaves an observation.                     *)
LEMMA CallsClean ==
    ASSUME Inv, Loops, NEW t \in Tasks, StartsClean(t), ToldToStop(t),
           SkipCall(t) \/ \E result \in Results : RunCall(t, result)
    PROVE  StartsClean(t)' /\ ToldToStop(t)'
<1>1. PICK result \in Results \cup {Skipped} :
        /\ run[t].phase = "calls"
        /\ history' = [history EXCEPT ![t] = Observe(@, result)]
        /\ run' = [run EXCEPT ![t] = Calling(@.calls - 1)]
        /\ UNCHANGED <<temp, told>>
        /\ State(t).stop <=> result = Skipped
  BY GuardsAssumption DEF SkipCall, RunCall, HasCall
<1>2. /\ run \in [Tasks -> Run]
      /\ history \in [Tasks -> Seq(Results \cup {Skipped})]
  BY DEF Loops, LoopsOK
<1>3. /\ history'[t] # <<>>
      /\ LastSkipped(history'[t]) <=> result = Skipped
  <2>1. history'[t] = Observe(history[t], result) /\ history[t] \in Seq(Results \cup {Skipped})
    BY <1>1, <1>2
  <2> QED
    BY <2>1, ObserveType
<1>4. run'[t].phase \in {"request", "calls"}
  BY <1>1, <1>2 DEF Calling
<1>5. State(t)' = State(t)
  BY <1>1 DEF State
<1>6. StartsClean(t)'
  BY <1>1, <1>3, <1>4, <1>5 DEF StartsClean
<1>7. ToldToStop(t)'
  BY <1>1, <1>3, <1>4, <1>5 DEF ToldToStop, Active, LastSkipped
<1> QED
  BY <1>6, <1>7

(* A task that takes a step of its own goes on or is done, and only one     *)
(* that asks is told to finish.                                             *)
LEMMA OwnIsAtWork ==
    ASSUME Loops, NEW t \in Tasks, Own(t)
    PROVE  /\ run[t].phase # "idle" /\ run'[t].phase # "idle"
           /\ told' = told \/ run[t].phase = "request"
<1> DEFINE Goes == /\ run[t].phase # "idle" /\ run'[t].phase # "idle"
                   /\ told' = told \/ run[t].phase = "request"
<1>1. run \in [Tasks -> Run]
  BY DEF Loops, LoopsOK
<1>2. ASSUME NEW estimate \in Sizes, NEW measured \in Sizes, GuardRequest(t, estimate, measured)
      PROVE  Goes
  BY <1>1, <1>2 DEF GuardRequest, At
<1>3. ASSUME NEW text, NEW answers, PartialReply(t, text, answers)
      PROVE  Goes
  <2>1. run[t].phase = "reply" /\ run'[t].phase = run[t].phase /\ told' = told
    BY <1>1, <1>3 DEF PartialReply, Run
  <2> QED
    BY <2>1
<1>4. ASSUME NEW text, NEW answers, NEW calls, FinalReply(t, text, answers, calls)
      PROVE  Goes
  <2>1. \/ run' = [run EXCEPT ![t] = Calling(calls)]
        \/ run' = [run EXCEPT ![t] = At("done")]
    BY <1>4 DEF FinalReply
  <2>2. Calling(calls).phase # "idle" /\ At("done").phase # "idle"
    BY DEF Calling, At
  <2>3. run[t].phase = "reply" /\ told' = told
    BY <1>4 DEF FinalReply
  <2> QED
    BY <1>1, <2>1, <2>2, <2>3
<1>5. ASSUME FinishAfterSkip(t) \/ RefuseRequest(t) \/ EmptyReply(t)
      PROVE  Goes
  BY <1>1, <1>5 DEF FinishAfterSkip, RefuseRequest, EmptyReply, At
<1>6. ASSUME SkipCall(t) \/ \E result : RunCall(t, result)
      PROVE  Goes
  BY <1>1, <1>6 DEF SkipCall, RunCall, HasCall, Calling
<1> QED
  BY <1>2, <1>3, <1>4, <1>5, <1>6 DEF Own, Asks, Replies

LEMMA OwnKeepsClean ==
    ASSUME Inv, Loops, OneTaskAtATime, AllStartClean, AllToldToStop, NEW t \in Tasks, Own(t)
    PROVE  AllStartClean' /\ AllToldToStop'
<1>1. StartsClean(t)' /\ ToldToStop(t)'
  BY AsksClean, RepliesClean, CallsClean DEF Own, AllStartClean, AllToldToStop
<1>2. ASSUME NEW u \in Tasks, u # t
      PROVE  StartsClean(u)' /\ ToldToStop(u)'
  BY <1>2, OthersUntouched, OthersStay DEF AllStartClean, AllToldToStop
<1>3. Root \in told' => Delegated(Root)' = {}
  <2>1. \A u \in Tasks : run'[u].phase = "idle" <=> run[u].phase = "idle"
    BY OthersUntouched, OwnIsAtWork
  <2>2. Delegated(Root)' = Delegated(Root)
    BY <2>1 DEF Delegated
  <2>3. CASE Root \in told
    BY <2>2, <2>3 DEF AllToldToStop
  <2>4. CASE Root \notin told
    <3> SUFFICES ASSUME Root \in told' PROVE Delegated(Root) = {}
      BY <2>2
    <3>1. t = Root /\ run[Root].phase = "request"
      BY <2>4, OthersUntouched, OwnIsAtWork, GuardsAssumption
    <3> QED
      BY <3>1 DEF Loops, RootWaits
  <2> QED
    BY <2>3, <2>4
<1> QED
  BY <1>1, <1>2, <1>3 DEF AllStartClean, AllToldToStop

LEMMA CleanKept ==
    Inv /\ Loops /\ OneTaskAtATime /\ AllStartClean /\ AllToldToStop /\ [Next]_vars
        => AllStartClean' /\ AllToldToStop'
<1> SUFFICES ASSUME Inv, Loops, OneTaskAtATime, AllStartClean, AllToldToStop, [Next]_vars
             PROVE  AllStartClean' /\ AllToldToStop'
  OBVIOUS
<1>0. /\ run \in [Tasks -> Run] /\ history \in [Tasks -> Seq(Results \cup {Skipped})]
      /\ Root \in Tasks /\ \A t \in Tasks : AgentOf[t] \in Agents
  BY GuardsAssumption DEF Loops, LoopsOK, Agents
<1>1. CASE StartTurn
  <2>1. /\ \A u \in Tasks : State(u)' = Cleared
        /\ history' = history /\ told' = {}
    BY <1>0, <1>1 DEF StartTurn, State
  <2>2. Clean(Cleared) /\ ~Cleared.stop
    BY DEF Clean, Cleared
  <2>3. run'[Root].phase = "request" /\ run[Root].phase = "idle"
    BY <1>0, <1>1 DEF StartTurn, At
  <2>4. Delegated(Root) = {}
    BY <2>3 DEF Loops, RootWaits
  <2>5. \A u \in Tasks \ {Root} : run'[u].phase = "idle"
    BY <1>0, <1>1, <2>4 DEF StartTurn, Delegated
  <2>6. AllStartClean'
    BY <2>1, <2>2, <2>3, <2>5 DEF AllStartClean, StartsClean
  <2> QED
    BY <2>1, <2>6 DEF AllToldToStop, ToldToStop
<1>2. CASE EndTurn
  <2>1. \A u \in Tasks : run'[u].phase = "idle"
    BY <1>2 DEF EndTurn, At
  <2> QED
    BY <2>1 DEF AllStartClean, StartsClean, AllToldToStop, ToldToStop, Active, Delegated
<1>3. ASSUME NEW t \in Tasks, Own(t) PROVE AllStartClean' /\ AllToldToStop'
  BY <1>3, OwnKeepsClean
<1>4. ASSUME NEW s \in Tasks, Delegate(s) PROVE AllStartClean' /\ AllToldToStop'
  <2>1. /\ s # Root /\ run' = [run EXCEPT ![s] = At("request")]
        /\ history' = [history EXCEPT ![s] = <<>>]
        /\ told' = told \ {s} /\ temp' = temp
    BY <1>4 DEF Delegate
  <2>2. run'[s].phase = "request" /\ history'[s] = <<>> /\ s \notin told'
    BY <1>0, <2>1 DEF At
  <2>3. StartsClean(s)' /\ ToldToStop(s)'
    BY <2>2 DEF StartsClean, ToldToStop
  <2>4. ASSUME NEW u \in Tasks, u # s
        PROVE  StartsClean(u)' /\ ToldToStop(u)'
    <3>1. /\ run'[u] = run[u] /\ history'[u] = history[u]
          /\ u \in told' <=> u \in told
          /\ temp'[AgentOf[u]] = temp[AgentOf[u]]
      BY <1>0, <2>1, <2>4
    <3> QED
      BY <3>1, OthersStay DEF AllStartClean, AllToldToStop
  <2>5. Root \notin told'
    <3>1. Active(Root) /\ ~State(Root).stop
      BY <1>4 DEF Delegate, HasCall, Active
    <3> QED
      BY <1>0, <2>1, <3>1 DEF AllToldToStop, ToldToStop
  <2> QED
    BY <2>3, <2>4, <2>5 DEF AllStartClean, AllToldToStop
<1>5. ASSUME NEW s \in Tasks, NEW result \in Results, Report(s, result)
      PROVE  AllStartClean' /\ AllToldToStop'
  <2> DEFINE loop == Calling(run[Root].calls - 1)
             all  == Observe(history[Root], result)
  <2>1. /\ s # Root /\ run[s].phase = "done"
        /\ run' = [run EXCEPT ![Root] = loop, ![s] = At("idle")]
        /\ history' = [history EXCEPT ![Root] = all, ![s] = <<>>]
        /\ told' = told /\ temp' = temp
    BY <1>0, <1>5 DEF Report
  <2>2. loop.phase \in {"request", "calls"} /\ At("idle").phase = "idle"
    BY DEF Calling, At
  <2>3. all # <<>>
    BY <1>0, ObserveType
  <2> HIDE DEF loop, all
  <2>4. s \in Delegated(Root) /\ Root \notin told
    BY <2>1 DEF Delegated, AllToldToStop
  <2>5. run[Root].phase = "calls"
    BY <2>4 DEF Loops, RootWaits
  <2>6. run'[s].phase = "idle" /\ run'[Root] = loop /\ history'[Root] = all
    BY <1>0, <2>1, <2>2
  <2>7. StartsClean(s)' /\ ToldToStop(s)'
    BY <2>6 DEF StartsClean, ToldToStop, Active
  <2>8. StartsClean(Root)' /\ ToldToStop(Root)'
    <3>1. State(Root)' = State(Root) /\ Clean(State(Root))
      BY <1>0, <2>1, <2>5 DEF State, AllStartClean, StartsClean
    <3>2. StartsClean(Root)'
      BY <2>2, <2>3, <2>6, <3>1 DEF StartsClean
    <3> QED
      BY <2>1, <2>4, <3>2 DEF ToldToStop
  <2>9. ASSUME NEW u \in Tasks, u # s, u # Root
        PROVE  StartsClean(u)' /\ ToldToStop(u)'
    <3>1. /\ run'[u] = run[u] /\ history'[u] = history[u]
          /\ u \in told' <=> u \in told
          /\ temp'[AgentOf[u]] = temp[AgentOf[u]]
      BY <1>0, <2>1, <2>9
    <3> QED
      BY <3>1, OthersStay DEF AllStartClean, AllToldToStop
  <2> QED
    BY <2>1, <2>4, <2>7, <2>8, <2>9 DEF AllStartClean, AllToldToStop
<1>6. CASE UNCHANGED vars
  <2>1. UNCHANGED <<run, history, temp, told>>
    BY <1>6 DEF vars
  <2>2. \A u \in Tasks : StartsClean(u)' /\ ToldToStop(u)'
    BY <2>1, OthersStay DEF AllStartClean, AllToldToStop
  <2> QED
    BY <2>1, <2>2 DEF AllStartClean, AllToldToStop, Delegated
<1> QED
  BY <1>1, <1>2, <1>3, <1>4, <1>5, <1>6 DEF Next, Step, Calls, Own

LEMMA CleanAtFirst == Init => AllStartClean /\ AllToldToStop
<1> SUFFICES ASSUME Init PROVE AllStartClean /\ AllToldToStop
  OBVIOUS
<1>1. told = {} /\ \A u \in Tasks : run[u].phase = "idle"
  BY DEF Init, At
<1> QED
  BY <1>1 DEF AllStartClean, StartsClean, AllToldToStop, ToldToStop

(* A task starts as if its agent had not run before, whatever ended the     *)
(* task before it: nothing of a reply is blanked or joined to earlier text, *)
(* and a delegated task may use tools.                                      *)
THEOREM StartClean == Spec /\ []OneTaskAtATime => []TasksStartClean
<1>1. AllStartClean => TasksStartClean
  BY DEF AllStartClean, StartsClean, TasksStartClean, Clean
<1> QED
  BY InitInv, NextInv, LoopsAtFirst, LoopsKept, CleanAtFirst, CleanKept, <1>1, PTL DEF Spec

(* Once a task's model was told that further tool calls will be skipped, no *)
(* tool runs for it: the next observations of its requests are skipped      *)
(* calls, those left in the same reply included.                            *)
THEOREM ToldRunNoTools == Spec /\ []OneTaskAtATime => ToldTasksRunNoTools
<1> DEFINE Same(t) == history'[t] \in {history[t], <<>>} \/ LastSkipped(history'[t])
<1>1. ASSUME Inv, Loops, AllToldToStop, [Next]_vars, NEW t \in told \cap told'
      PROVE  Same(t)
  <2>0. /\ t \in Tasks /\ Root \in Tasks
        /\ history \in [Tasks -> Seq(Results \cup {Skipped})]
    BY <1>1, GuardsAssumption DEF Loops, LoopsOK
  <2>1. CASE EndTurn
    BY <2>0, <2>1 DEF EndTurn
  <2>2. ASSUME NEW u \in Tasks, SkipCall(u) PROVE Same(t)
    <3>1. history' = [history EXCEPT ![u] = Observe(history[u], Skipped)]
      BY <2>2 DEF SkipCall
    <3>2. LastSkipped(Observe(history[u], Skipped))
      BY <2>0, ObserveType
    <3> QED
      BY <2>0, <3>1, <3>2
  <2>3. ASSUME NEW u \in Tasks, NEW result \in Results, RunCall(u, result) PROVE Same(t)
    <3>1. Active(u) /\ ~State(u).stop
      BY <2>3 DEF RunCall, HasCall, Active
    <3>2. u # t
      BY <1>1, <2>0, <3>1 DEF AllToldToStop, ToldToStop
    <3> QED
      BY <2>0, <2>3, <3>2 DEF RunCall
  <2>4. ASSUME NEW s \in Tasks, NEW result \in Results, Report(s, result) PROVE Same(t)
    <3>1. s \in Delegated(Root)
      BY <2>4 DEF Report, Delegated
    <3>2. t # Root
      BY <1>1, <3>1 DEF AllToldToStop
    <3> QED
      BY <2>0, <2>4, <3>2 DEF Report
  <2>5. ASSUME NEW s \in Tasks, Delegate(s) PROVE Same(t)
    BY <2>0, <2>5 DEF Delegate
  <2>6. ASSUME NEW u \in Tasks, Asks(u) \/ Replies(u) PROVE Same(t)
    <3>1. history' = history
      BY <2>6 DEF Asks, Replies, FinishAfterSkip, RefuseRequest, GuardRequest, PartialReply,
                  FinalReply, EmptyReply
    <3> QED
      BY <3>1
  <2>7. CASE StartTurn \/ UNCHANGED vars
    BY <2>7 DEF StartTurn, vars
  <2> HIDE DEF Same
  <2> QED
    BY <1>1, <2>1, <2>2, <2>3, <2>4, <2>5, <2>6, <2>7 DEF Next, Step, Calls
<1>2. Inv /\ Loops /\ AllToldToStop /\ [Next]_vars
        => [\A t \in told \cap told' : Same(t)]_vars
  BY <1>1
<1> QED
  BY InitInv, NextInv, LoopsAtFirst, LoopsKept, CleanAtFirst, CleanKept, <1>2, PTL
     DEF Spec, ToldTasksRunNoTools

=============================================================================
