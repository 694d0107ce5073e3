----------------------------- MODULE TurnGuards -----------------------------
(***************************************************************************)
(* The turn guards of lllm/runtime_modifiers/turn_guards.py around the ADK *)
(* agent loop: before each model call guard_model_request, on each piece   *)
(* of a reply guard_model_response, before each tool call                  *)
(* skip_tools_when_stopping.                                               *)
(*                                                                         *)
(* A task is one run of an agent: the user's turn of the root, or a task   *)
(* it delegated.  run[t] is ADK's loop of the task, history[t] the tool    *)
(* results its requests contain: a delegated task starts without, the root *)
(* keeps those of earlier turns of the session.  temp[a] holds the keys    *)
(* temp:<agent>:<name>, which ADK drops at the end of an invocation and    *)
(* which every task of an agent shares.                                    *)
(*                                                                         *)
(* An operator used nowhere is a faulty form of the next one that is used, *)
(* for the mutation checks.                                                *)
(***************************************************************************)
EXTENDS Integers, Sequences, FiniteSets

CONSTANTS
    Tasks,       \* the runs of agents that may exist at once
    Root,        \* the task that answers the user
    AgentOf,     \* the agent a task runs
    Results,     \* fingerprints of a tool call with its result
    Skipped,     \* the result of a call that skip_tools_when_stopping blocked
    MaxPattern,  \* MAXIMUM_REPEATED_OBSERVATION_PATTERN_LENGTH
    Runs,        \* REPEATED_OBSERVATION_RUNS_BEFORE_STALL
    Limit,       \* context window, in units of tokens
    Reserve,     \* MIN_REMAINING_CONTEXT_TOKENS_FOR_MODEL_RESPONSE
    Sizes,       \* bound: the sizes of requests explored
    WrapUp,      \* bound: what the wrap-up adds to a request
    MaxCalls,    \* bound: tool calls in one reply
    MaxPartials  \* bound: streamed pieces of one reply

Agents == {AgentOf[t] : t \in Tasks}

ASSUME GuardsAssumption ==
    /\ IsFiniteSet(Tasks) /\ Root \in Tasks
    /\ \A t \in Tasks \ {Root} : AgentOf[t] # AgentOf[Root]
    /\ Skipped \notin Results
    /\ MaxPattern \in Nat \ {0} /\ Runs \in Nat \ {0}
    /\ Limit \in Nat /\ Reserve \in Nat \ 0..3
    /\ Sizes \subseteq Nat \ {0} /\ WrapUp \in Nat
    /\ MaxCalls \in Nat \ {0} /\ MaxPartials \in Nat

VARIABLES
    run,      \* ADK's loop of each task: phase, calls left, pieces streamed
    history,  \* the latest observations in each task's requests
    temp,     \* the agent's keys in the session state
    outcome,  \* _turn_outcomes, created at the start of the turn
    acted,    \* history: tasks that ran a tool in this turn
    told      \* history: tasks told that further tool calls will be skipped

vars == <<run, history, temp, outcome, acted, told>>

Phases == {"idle", "request", "reply", "calls", "done"}
Reasons == {"", "context", "stalled", "repetition"}
Failures == {"context_exhausted", "repetition", "stalled"}
Temp == [stop : BOOLEAN, reason : Reasons, suppress : BOOLEAN,
         streamed : {"", "text", "loop"}, answered : BOOLEAN]
Run == [phase : Phases, calls : 0..MaxCalls, partials : 0..MaxPartials]

Cleared == [stop |-> FALSE, reason |-> "", suppress |-> FALSE,
            streamed |-> "", answered |-> FALSE]
At(phase) == [phase |-> phase, calls |-> 0, partials |-> 0]
CallingNext(n) == [phase |-> IF n = 0 THEN "request" ELSE "calls", calls |-> n - 1, partials |-> 0]

Calling(n) == [phase |-> IF n = 0 THEN "request" ELSE "calls", calls |-> n, partials |-> 0]

State(t) == temp[AgentOf[t]]
Set(t, state) == [temp EXCEPT ![AgentOf[t]] = state]
Active(t) == run[t].phase \notin {"idle", "done"}

-----------------------------------------------------------------------------
(* Only the latest Runs * MaxPattern observations are ever compared.        *)
Window == Runs * MaxPattern

Observe(observations, result) ==
    LET all == Append(observations, result)
    IN  IF Len(all) <= Window THEN all ELSE Tail(all)

(* _tool_observations_are_repeating: the latest Runs * n observations are   *)
(* one pattern of length n, Runs times.                                     *)
Repeating(observations) ==
    \E n \in 1..MaxPattern :
        LET first == Len(observations) - Runs * n
        IN  /\ first >= 0
            /\ \A i \in 1..(Runs - 1) * n : observations[first + i] = observations[first + i + n]

(* _last_tool_result_was_skipped *)
LastSkipped(observations) ==
    observations # <<>> /\ observations[Len(observations)] = Skipped

(* _prompt_token_target: what _enforce_request_token_budget lets a request  *)
(* grow to; summaries and the recent tail are cut until it fits.            *)
TargetWithReserve == Limit - Reserve

Target == Limit - (IF Reserve > Limit \div 4 THEN Reserve ELSE Limit \div 4)

(* _record_turn_outcome: the first failure of an agent sticks. *)
Recorded(t, failure) ==
    [outcome EXCEPT ![AgentOf[t]] = IF @ \in Failures THEN @ ELSE failure]

(* _stop_tools *)
Stopped(state, reason) == [state EXCEPT !.stop = TRUE, !.reason = reason]

(* _clear_stop_for_new_request, for a request without tool activity.        *)
EnteringAgain(t) == State(t)

Entering(t) == IF history[t] = <<>> THEN Cleared ELSE State(t)

-----------------------------------------------------------------------------
Init ==
    /\ run = [t \in Tasks |-> At("idle")]
    /\ history = [t \in Tasks |-> <<>>]
    /\ temp = [a \in Agents |-> Cleared]
    /\ outcome = [a \in Agents |-> "completed"]
    /\ acted = {}
    /\ told = {}

(* run_prompt_turn: begin_turn_outcome_tracking, then ADK runs the root in  *)
(* the session; its temp: state is new.                                     *)
StartTurn ==
    /\ run[Root].phase = "idle"
    /\ run' = [run EXCEPT ![Root] = At("request")]
    /\ outcome' = [a \in Agents |-> "completed"]
    /\ temp' = [a \in Agents |-> Cleared]
    /\ acted' = {}
    /\ told' = {}
    /\ UNCHANGED history

(* The root's answer ends ADK's generator; --timeout, ctrl+c or an exception *)
(* cancels the turn with every task of it.                                  *)
EndTurn ==
    /\ run[Root].phase # "idle"
    /\ run' = [t \in Tasks |-> At("idle")]
    /\ history' = [t \in Tasks |-> IF t = Root THEN history[t] ELSE <<>>]
    /\ UNCHANGED <<temp, outcome, acted, told>>

(* guard_model_request after a skipped call: the notice to finish is the    *)
(* reply, and no model is called.                                           *)
FinishingNever(t) == FALSE

Finishing(t) == State(t).stop /\ LastSkipped(history[t])

FinishAfterSkip(t) ==
    /\ run[t].phase = "request"
    /\ Finishing(t)
    /\ run' = [run EXCEPT ![t] = At("done")]
    /\ UNCHANGED <<history, temp, outcome, acted, told>>

(* guard_model_request when the instructions and the request cannot fit,    *)
(* even without tool declarations.                                          *)
RefuseRequest(t) ==
    /\ run[t].phase = "request"
    /\ ~Finishing(t)
    /\ run' = [run EXCEPT ![t] = At("done")]
    /\ temp' = Set(t, Stopped(Entering(t), "context"))
    /\ outcome' = Recorded(t, "context_exhausted")
    /\ UNCHANGED <<history, acted, told>>

(* guard_model_request for a request of estimate tokens once it fits: the   *)
(* stall check and the 80% check,                                           *)
Checked(t, estimate) ==
    LET state == Entering(t)
    IN  IF Repeating(history[t]) THEN Stopped(state, "stalled")
        ELSE IF history[t] # <<>> /\ 5 * estimate >= 4 * Limit
        THEN Stopped(state, IF state.reason = "" THEN "context" ELSE state.reason)
        ELSE state

(* the wrap-up that replaces the tools of an agent that stops, and a last   *)
(* measure of the request as it is sent.                                    *)
GuardRequest(t, estimate, measured) ==
    LET state == Checked(t, estimate)
        fits  == Limit - measured >= Reserve
    IN  /\ run[t].phase = "request"
        /\ ~Finishing(t)
        /\ IF state.stop THEN measured <= estimate + WrapUp ELSE measured = estimate
        /\ run' = [run EXCEPT ![t] = At(IF fits THEN "reply" ELSE "done")]
        /\ temp' = Set(t, IF fits THEN state ELSE Stopped(state, "context"))
        /\ outcome' = IF Repeating(history[t]) THEN Recorded(t, "stalled")
                      ELSE IF fits THEN outcome
                      ELSE Recorded(t, "context_exhausted")
        /\ told' = IF fits /\ state.stop THEN told \cup {t} ELSE told
        /\ UNCHANGED <<history, acted>>

-----------------------------------------------------------------------------
(* guard_model_response on a streamed piece.  "loop" is accumulated text    *)
(* that _text_ends_in_a_repeated_loop, "text" any other.                    *)
Accumulated == {"text", "loop"}

PartialReply(t, accumulated, answers) ==
    LET state == State(t)
        next  == [state EXCEPT !.streamed = accumulated, !.answered = @ \/ answers]
    IN  /\ run[t].phase = "reply"
        /\ run[t].partials < MaxPartials
        /\ run' = [run EXCEPT ![t].partials = @ + 1]
        /\ \/ /\ state.suppress
              /\ UNCHANGED <<temp, outcome>>
           \/ /\ ~state.suppress /\ accumulated = "text"
              /\ temp' = Set(t, next)
              /\ UNCHANGED outcome
           \/ /\ ~state.suppress /\ accumulated = "loop"
              /\ temp' = Set(t, [Stopped(next, "repetition") EXCEPT !.suppress = TRUE])
              /\ outcome' = Recorded(t, "repetition")
        /\ UNCHANGED <<history, acted, told>>

(* guard_model_response on the final reply, whose text is that of the       *)
(* streamed pieces if there are any.  A reply without an answer or a call   *)
(* becomes a notice, one that loops loses its calls with its tail; ADK      *)
(* makes the calls of any other reply, and ends the task when it has none.  *)
FinalReply(t, text, answers, calls) ==
    LET state    == State(t)
        whole    == IF state.streamed = "" THEN text ELSE state.streamed
        next     == [state EXCEPT !.streamed = "", !.answered = FALSE]
        answered == answers \/ state.answered
        loops    == whole = "loop" /\ (answered \/ calls > 0)
    IN  /\ run[t].phase = "reply"
        /\ answers => text # ""
        /\ run' = [run EXCEPT ![t] = IF calls > 0 /\ ~loops THEN Calling(calls) ELSE At("done")]
        /\ temp' = Set(t, IF loops THEN Stopped(next, "repetition") ELSE next)
        /\ outcome' = IF loops THEN Recorded(t, "repetition") ELSE outcome
        /\ UNCHANGED <<history, acted, told>>

(* A final reply without content passes guard_model_response unchanged.     *)
EmptyReply(t) ==
    /\ run[t].phase = "reply"
    /\ run' = [run EXCEPT ![t] = At("done")]
    /\ UNCHANGED <<history, temp, outcome, acted, told>>

-----------------------------------------------------------------------------
(* Calls of one reply run at once: each delegated task takes up a call.     *)
Delegated(t) == IF t = Root THEN {s \in Tasks \ {Root} : run[s].phase # "idle"} ELSE {}
HasCall(t) == run[t].phase = "calls" /\ run[t].calls > Cardinality(Delegated(t))

(* skip_tools_when_stopping blocks the call, *)
SkipCall(t) ==
    /\ HasCall(t)
    /\ State(t).stop
    /\ history' = [history EXCEPT ![t] = Observe(@, Skipped)]
    /\ run' = [run EXCEPT ![t] = Calling(@.calls - 1)]
    /\ UNCHANGED <<temp, outcome, acted, told>>

(* or lets the tool run *)
RunAnyCall(t, result) ==
    /\ HasCall(t)
    /\ history' = [history EXCEPT ![t] = Observe(@, result)]
    /\ run' = [run EXCEPT ![t] = Calling(@.calls - 1)]
    /\ acted' = acted \cup {t}
    /\ UNCHANGED <<temp, outcome, told>>

RunCall(t, result) ==
    /\ HasCall(t)
    /\ ~State(t).stop
    /\ history' = [history EXCEPT ![t] = Observe(@, result)]
    /\ run' = [run EXCEPT ![t] = Calling(@.calls - 1)]
    /\ acted' = acted \cup {t}
    /\ UNCHANGED <<temp, outcome, told>>

(* or, as a sub-agent is a tool of the root, starts a task for it. *)
Delegate(s) ==
    /\ s # Root
    /\ run[s].phase = "idle"
    /\ HasCall(Root)
    /\ ~State(Root).stop
    /\ run' = [run EXCEPT ![s] = At("request")]
    /\ history' = [history EXCEPT ![s] = <<>>]
    /\ acted' = (acted \ {s}) \cup {Root}
    /\ told' = told \ {s}
    /\ UNCHANGED <<temp, outcome>>

Report(s, result) ==
    /\ s # Root
    /\ run[s].phase = "done"
    /\ history' = [history EXCEPT ![Root] = Observe(@, result), ![s] = <<>>]
    /\ run' = [run EXCEPT ![Root] = Calling(@.calls - 1), ![s] = At("idle")]
    /\ UNCHANGED <<temp, outcome, acted, told>>

-----------------------------------------------------------------------------
Asks(t) ==
    \/ FinishAfterSkip(t)
    \/ RefuseRequest(t)
    \/ \E estimate, measured \in Sizes : estimate <= Target /\ GuardRequest(t, estimate, measured)

Replies(t) ==
    \/ \E text \in Accumulated, answers \in BOOLEAN : PartialReply(t, text, answers)
    \/ \E text \in {""} \cup Accumulated, answers \in BOOLEAN, calls \in 0..MaxCalls :
            FinalReply(t, text, answers, calls)
    \/ EmptyReply(t)

Calls(t) ==
    \/ SkipCall(t)
    \/ \E result \in Results : RunCall(t, result) \/ Report(t, result)

Step(t) == Asks(t) \/ Replies(t) \/ Calls(t)

Next ==
    \/ StartTurn
    \/ EndTurn
    \/ \E t \in Tasks : Step(t) \/ Delegate(t)

Spec == Init /\ [][Next]_vars

(* ADK goes on with every task it has started; nobody has to start a turn,  *)
(* delegate, or cancel.                                                     *)
FairSpec == Spec /\ \A t \in Tasks : WF_vars(Step(t))

-----------------------------------------------------------------------------
TypeOK ==
    /\ run \in [Tasks -> Run]
    /\ history \in [Tasks -> Seq(Results \cup {Skipped})]
    /\ temp \in [Agents -> Temp]
    /\ outcome \in [Agents -> {"completed"} \cup Failures]
    /\ acted \subseteq Tasks
    /\ told \subseteq Tasks

(* An agent never stops using tools without a failure on record: the exit   *)
(* code of an interrupted turn is 75, and no stop goes unreported.  The     *)
(* 80% check would record none; it is never reached.                        *)
StopsAreReported ==
    \A a \in Agents : temp[a].stop => outcome[a] \in Failures

(* A task starts as if its agent had not run before, also when the agent's  *)
(* last task was stopped or ended in the middle of a stream: no piece of a  *)
(* reply is blanked and no earlier text joined to it, and a new delegated   *)
(* task may use tools.                                                      *)
TasksStartClean ==
    /\ \A t \in Tasks : run[t].phase = "reply" /\ run[t].partials = 0 =>
            ~State(t).suppress /\ State(t).streamed = "" /\ ~State(t).answered
    /\ \A t \in Tasks \ {Root} :
            run[t].phase = "calls" /\ history[t] = <<>> => ~State(t).stop

(* Once a task's model was told that further tool calls will be skipped, no *)
(* tool runs for it, also none of the calls left in the same reply.         *)
ToldTasksRunNoTools ==
    [][\A t \in told \cap told' :
            history'[t] \in {history[t], <<>>} \/ LastSkipped(history'[t])]_vars

(* A task that was told to finish does: the model cannot keep it going with *)
(* calls that are skipped one after another.                                *)
ToldTasksEnd == \A t \in Tasks : (t \in told /\ Active(t)) ~> ~Active(t)

(* What the notice promises: a later request can use tools again, so a turn *)
(* that has not used any is not told to stop.                               *)
LaterRequestUsesTools ==
    Root \in told => Root \in acted

=============================================================================
