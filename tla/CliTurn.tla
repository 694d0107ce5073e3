------------------------------ MODULE CliTurn ------------------------------
(***************************************************************************)
(* `lllm` from its start to its exit (lllm/cli/cli_config.py, __main__.py, *)
(* lllm/adk_runtime.py, lllm/ollama.py): it opens a session, loads the     *)
(* model, runs turns of ADK, whose events the renderer of OutputWriter     *)
(* prints, and exits with a code that tells how it went.  ADK, Ollama and  *)
(* the user are external, and so is asyncio.run: the first Ctrl+C cancels  *)
(* the main task, which notices at its next await, the next one raises     *)
(* KeyboardInterrupt.                                                      *)
(*                                                                         *)
(* An operator used nowhere is a faulty form of the next one that is used, *)
(* for the mutation checks.                                                *)
(***************************************************************************)
EXTENDS OutputWriter

CONSTANTS
    Options,    \* the command lines: [mode, split, root, visible, repl, timed, tty]
    Deltas,     \* texts a partial event may carry, by channel
    Replies,    \* texts of a reply without deltas
    MaxEvents   \* bound: events of a turn

Spoken == {"thinking", "answer"}
Silence == [c \in Spoken |-> <<>>]
Outcomes == {"completed", "stalled"}
NoExit == -1

ASSUME InputsAssumption ==
    /\ Options \subseteq [mode : {"stream", "buffer", "json"}, split : BOOLEAN, root : Agents,
                          visible : [Agents -> [Channels -> BOOLEAN]],
                          repl : BOOLEAN, timed : BOOLEAN, tty : BOOLEAN]
    /\ Deltas \in [Spoken -> SUBSET Seq(Pieces)]
    /\ Replies \subseteq Seq(Pieces)
    /\ MaxEvents \in Nat

VARIABLES
    options,   \* parsed_args
    phase,     \* of main
    session,   \* AdkSession: "none", "open" or "closed"
    cancelled, \* a cancellation of the main task that no await has seen yet
    interrupts,\* SIGINTs so far
    outcome,   \* turn_outcome of the last turn, "none" before
    exit,      \* the exit code, NoExit while it runs
    r,         \* the renderer of the turn
    speakers,  \* ADK: the agents at work, the root first
    due,       \* ADK: the tool or agent whose result is due, and the result
    reply,     \* ADK: the deltas of the reply under way
    events,    \* ADK: events of the turn so far
    said,      \* the answers of the root in the turn, by reply
    shown,     \* what was recorded of each
    told       \* those that are over

process == <<options, phase, session, cancelled, interrupts, outcome, exit>>
turn == <<r, speakers, due, reply, events, said, shown, told>>
vars == <<process, turn>>

Phases == {"opening", "loading", "ready", "turn", "closing", "exited"}
Answers == 0..MaxEvents
NoAnswers == [i \in Answers |-> <<>>]

Init ==
    /\ options \in Options
    /\ phase = "opening"
    /\ session = "none"
    /\ cancelled = FALSE
    /\ interrupts = 0
    /\ outcome = "none"
    /\ exit = NoExit
    /\ r = NewRenderer
    /\ speakers = <<>>
    /\ due = <<>>
    /\ reply = Silence
    /\ events = 0
    /\ said = NoAnswers
    /\ shown = NoAnswers
    /\ told = {}

-----------------------------------------------------------------------------
Goto(p) == phase' = p /\ UNCHANGED <<options, interrupts>>
Exit(code) == Goto("closing") /\ exit' = code

(* AdkSession.open: a session of an unknown id is an error,                 *)
Open ==
    /\ phase = "opening" /\ ~cancelled
    /\ \/ Goto("loading") /\ session' = "open" /\ UNCHANGED exit
       \/ Goto("exited") /\ session' = "closed" /\ exit' = 2
    /\ UNCHANGED <<cancelled, outcome, turn>>

(* and a cancelled one raises where no one catches it.                      *)
OpenIsCancelled ==
    /\ phase = "opening" /\ cancelled
    /\ Goto("exited") /\ exit' = 130
    /\ UNCHANGED <<session, cancelled, outcome, turn>>

(* ensure_model_loaded: waits for Ollama without an await; an Ollama that   *)
(* is not there, or has the model, needs no load.  A load that fails exits  *)
(* before the try that closes the session.                                  *)
ModelLoaded ==
    /\ phase = "loading"
    /\ Goto("ready")
    /\ UNCHANGED <<session, cancelled, outcome, exit, turn>>

LoadFails ==
    /\ phase = "loading"
    /\ Goto("exited") /\ exit' = 1
    /\ UNCHANGED <<session, cancelled, outcome, turn>>

(* A turn starts, with the query of the command line or a line of the REPL; *)
(* write_user_prompt.  Once it is over a query exits.                       *)
BeginTurn ==
    /\ phase = "ready" /\ (options.repl \/ outcome = "none")
    /\ Goto("turn")
    /\ r' = WritePrompt(options, NewRenderer, options.root, <<"text">>)
    /\ speakers' = <<options.root>>
    /\ due' = <<>>
    /\ reply' = Silence
    /\ events' = 0
    /\ said' = NoAnswers
    /\ shown' = NoAnswers
    /\ told' = {}
    /\ UNCHANGED <<session, cancelled, outcome, exit>>

(* EOF, exit or quit, or the end of a query                                 *)
Leave ==
    /\ phase = "ready" /\ (options.repl \/ outcome # "none")
    /\ Exit(0)
    /\ UNCHANGED <<session, cancelled, outcome, turn>>

-----------------------------------------------------------------------------
(* ADK streams the events of a turn; a turn that is cancelled gets no more. *)
Streaming == phase = "turn" /\ speakers # <<>> /\ ~cancelled
Speaker == Last(speakers)
AnswerKey == RootAnswer(options)

(* What the renderer records of the root's answer is shown, as a part of    *)
(* the answer under way.                                                    *)
Shown(w) == FlattenSeq([i \in 1..Len(w.entries) |->
                 IF w.entries[i][1] = AnswerKey THEN w.entries[i][2] ELSE <<>>])
Current == Cardinality(told)

Consume(w) ==
    /\ Streaming /\ events < MaxEvents
    /\ events' = events + 1
    /\ r' = w
    /\ shown' = [shown EXCEPT ![Current] =
                    @ \o SubSeq(Shown(r'), Len(Shown(r)) + 1, Len(Shown(r')))]
    /\ UNCHANGED process

Replying == Streaming /\ due = <<>>

Partial(c, delta) ==
    /\ Replying
    /\ Consume(WriteDelta(options, r, <<Speaker, c>>, delta))
    /\ reply' = [reply EXCEPT ![c] = @ \o delta]
    /\ said' = IF <<Speaker, c>> = AnswerKey THEN [said EXCEPT ![Current] = @ \o delta]
               ELSE said
    /\ UNCHANGED <<speakers, due, told>>

(* A reply ends with an event of all its text: that of its deltas, or, when *)
(* a guard answers for the model, a text that had none.                     *)
FullReplies == IF reply # Silence THEN {reply}
               ELSE {[Silence EXCEPT !.answer = text] : text \in Replies}

WriteIfAny(w, c, text) ==
    IF text = <<>> THEN w ELSE WriteFinal(options, w, <<Speaker, c>>, text)

Ended(full) == WriteIfAny(WriteIfAny(r, "thinking", full.thinking), "answer", full.answer)

EndsReply(full, w) ==
    /\ Consume(w)
    /\ IF Speaker = options.root
       THEN /\ said' = [said EXCEPT ![Current] = full.answer]
            /\ told' = told \cup {Current}
       ELSE UNCHANGED <<said, told>>
    /\ reply' = Silence

CallTool(full) ==
    /\ Replying
    /\ EndsReply(full, WriteToolCall(options, Ended(full), Speaker, "tool", <<"text">>))
    /\ due' = <<"tool", <<"text">>>>
    /\ UNCHANGED speakers

Delegate(full, agent) ==
    /\ Replying /\ Speaker = options.root
    /\ EndsReply(full, WriteToolCall(options, Ended(full), Speaker, agent, <<"text">>))
    /\ speakers' = Append(speakers, agent)
    /\ UNCHANGED due

(* A sub-agent's last reply is its result, the root's ends the turn.        *)
LastReply(full) ==
    /\ Replying
    /\ EndsReply(full, Ended(full))
    /\ due' = IF Speaker = options.root THEN <<>> ELSE <<Speaker, full.answer>>
    /\ speakers' = Front(speakers)

Result ==
    /\ due # <<>>
    /\ Consume(WriteToolResult(options, r, Speaker, due[1], due[2]))
    /\ due' = <<>>
    /\ UNCHANGED <<speakers, reply, said, told>>

Event ==
    \/ \E c \in Spoken : \E delta \in Deltas[c] : Partial(c, delta)
    \/ \E full \in FullReplies : CallTool(full) \/ LastReply(full)
    \/ \E full \in FullReplies, agent \in SubAgents(options) : Delegate(full, agent)
    \/ Result

-----------------------------------------------------------------------------
(* run_one_prompt_turn: an incomplete turn exits,                           *)
EndTurn ==
    /\ phase = "turn" /\ speakers = <<>>
    /\ r' = Finish(options, r)
    /\ \/ outcome' = "completed" /\ Goto("ready") /\ UNCHANGED exit
       \/ outcome' = "stalled" /\ Exit(75)
    /\ UNCHANGED <<session, cancelled, speakers, due, reply, events, said, shown, told>>

(* as does one that takes too long; it never finishes the renderer.         *)
TimeoutAfterTurn ==
    /\ phase = "turn" /\ options.timed /\ speakers = <<>>
    /\ Exit(124)
    /\ UNCHANGED <<session, cancelled, outcome, turn>>

Timeout ==
    /\ phase = "turn" /\ options.timed
    /\ Exit(124)
    /\ UNCHANGED <<session, cancelled, outcome, turn>>

CancelWithoutClose ==
    /\ phase = "turn" /\ cancelled
    /\ Goto("exited") /\ exit' = 130
    /\ cancelled' = FALSE
    /\ UNCHANGED <<session, outcome, turn>>

CancelTurn ==
    /\ phase = "turn" /\ cancelled
    /\ Exit(130)
    /\ cancelled' = FALSE
    /\ UNCHANGED <<session, outcome, turn>>

(* The finally of main.  _clear_task_cancellation undoes a request that no  *)
(* await has seen, or, before Python 3.13, only its count: then close       *)
(* raises.                                                                  *)
Close ==
    /\ phase = "closing"
    /\ Goto("exited")
    /\ \/ session' = "closed" /\ UNCHANGED exit
       \/ cancelled /\ exit' = 130 /\ UNCHANGED session
    /\ UNCHANGED <<cancelled, outcome, turn>>

(* Ctrl+C                                                                   *)
Interrupt ==
    /\ options.tty /\ phase # "exited" /\ interrupts = 0
    /\ interrupts' = 1
    /\ cancelled' = TRUE
    /\ UNCHANGED <<options, phase, session, outcome, exit, turn>>

(* A second one ends the input of the REPL, and anything else at once.      *)
InterruptAgain ==
    /\ phase # "exited" /\ interrupts = 1
    /\ interrupts' = 2
    /\ IF phase = "ready" /\ options.repl
       THEN phase' = "closing" /\ exit' = 0 /\ UNCHANGED session
       ELSE /\ phase' = "exited" /\ exit' = 130
            /\ session' \in {session} \cup (IF phase \in {"opening", "loading"} THEN {} ELSE {"closed"})
    /\ UNCHANGED <<options, cancelled, outcome, turn>>

Next ==
    \/ Open \/ OpenIsCancelled \/ ModelLoaded \/ LoadFails
    \/ BeginTurn \/ Event \/ EndTurn \/ Timeout \/ CancelTurn
    \/ Leave \/ Close
    \/ Interrupt \/ InterruptAgain

(* What waits for neither the user nor Ollama nor ADK goes on, and time     *)
(* passes.                                                                  *)
Query == ~options.repl /\ (BeginTurn \/ Leave)

Fairness ==
    /\ WF_process(Open \/ OpenIsCancelled \/ CancelTurn \/ Close)
    /\ WF_process(Timeout) /\ WF_process(EndTurn) /\ WF_process(Query)

Spec == Init /\ [][Next]_vars /\ Fairness

-----------------------------------------------------------------------------
TypeOK ==
    /\ options \in Options /\ phase \in Phases
    /\ session \in {"none", "open", "closed"}
    /\ cancelled \in BOOLEAN /\ interrupts \in 0..2
    /\ outcome \in Outcomes \cup {"none"}
    /\ exit \in {NoExit, 0, 1, 2, 75, 124, 130}
    /\ r.streaming \subseteq Agents \X Spoken /\ r.labelled \subseteq Agents \X Spoken
    /\ r.held \in {<<>>, <<"head">>, <<"head", "id">>}
    /\ \A i \in 1..Len(r.entries) : r.entries[i][1] \in Keys
    /\ \A i \in 1..Len(speakers) : speakers[i] \in Agents
    /\ told \subseteq Answers /\ events \in Answers

(* Each answer of the root is shown as ShownText promises, however the      *)
(* model cuts its text into deltas and whatever thoughts, calls, results    *)
(* and answers of others come between: nothing of it is lost, repeated or   *)
(* held back when the reply is over.  A hidden answer promises nothing.     *)
Promised == INSTANCE ShownText WITH
    Texts <- Answers,
    said  <- IF Enabled(options, AnswerKey) THEN said ELSE NoAnswers,
    shown <- shown,
    over  <- IF Enabled(options, AnswerKey) THEN told ELSE {}

AnswersAreShownWhole == Promised!TurnsSpec

(* While it streams, a line holds parts of one agent and channel only: a    *)
(* label, a tool line or an answer never goes on another's line.            *)
LinesKeepApart ==
    options.mode = "stream" => \A s \in Streams :
        \A i \in 1..Len(r.screen[s]) - 1 :
            LET one == r.screen[s][i]
                two == r.screen[s][i + 1]
            IN  one = Newline \/ two = Newline \/ <<one[1], one[2]>> = <<two[1], two[2]>>

(* When a turn is over, each of the three ways to print has printed all     *)
(* that was recorded, on lines that are complete, and holds nothing back.   *)
Written(marks) ==
    FlattenSeq([i \in 1..Len(marks) |->
        IF marks[i] = Newline \/ marks[i][3] = "label" THEN <<>> ELSE <<marks[i]>>])

Expected(o, entries, s, keys) ==
    FlattenSeq([i \in 1..Len(entries) |->
        IF StreamOf(o, entries[i][1]) = s /\ entries[i][1] \in keys
        THEN Written(Marks(entries[i][1], entries[i][2])) ELSE <<>>])

Printed(o, w) ==
    /\ w.held = <<>>
    /\ \A s \in Streams :
          /\ w.screen[s] = <<>> \/ EndsLine(w.screen[s])
          /\ Written(w.screen[s]) =
               IF o.mode = "buffer" THEN Expected(o, w.entries, s, Keys \ {RootAnswer(o)})
                                         \o Expected(o, w.entries, s, {RootAnswer(o)})
               ELSE Expected(o, w.entries, s, Keys)

PrintedIsRecorded ==
    phase \in {"ready", "closing"} /\ outcome # "none" /\ exit \in {NoExit, 0, 75} =>
        Printed(options, r)

(* A session that was opened is closed before the program exits, whether    *)
(* the turn was completed, stalled, timed out or cancelled by Ctrl+C.  Three*)
(* exits leave it open: a load of the model that fails, a second Ctrl+C,    *)
(* and a first one that no await before close has seen, so that close       *)
(* itself is cancelled.                                                     *)
SessionsAreClosed ==
    phase = "exited" /\ session = "open" =>
        exit = 1 \/ (exit = 130 /\ (interrupts = 2 \/ cancelled))

(* A turn that has a time limit or was interrupted ends, even when ADK      *)
(* never sends another event, and the program goes on or exits.             *)
LimitedTurnsEnd ==
    phase = "turn" /\ (options.timed \/ cancelled) ~> phase \in {"ready", "exited"}

(* Ctrl+C ends the program: ollama.py:58 "The user cancels with Ctrl+C."    *)
InterruptsEnd == interrupts > 0 ~> phase = "exited"

=============================================================================
