----------------------------- MODULE MCCliTurn -----------------------------
(* Command lines: every way to print, with and without --stderr, the        *)
(* default channels or others, the coordinator or a specialist as the root. *)
(* A query with a time limit and the REPL have a user with a Ctrl+C key.    *)
EXTENDS CliTurn

CONSTANTS coordinator, specialist

Unset == [defaults |-> <<>>, subAgentDefaults |-> <<>>, overrides |-> <<>>]
Quiet == [defaults |-> "thinking" :> FALSE @@ "tool_results" :> TRUE,
          subAgentDefaults |-> "answer" :> FALSE,
          overrides |-> <<[targets |-> {coordinator, specialist}, channels |-> "prompt" :> TRUE],
                          [targets |-> {specialist}, channels |-> "tool_calls" :> FALSE]>>]

CommandLine(mode, split, agent, config) ==
    [mode |-> mode, split |-> split, root |-> agent, visible |-> Visibility(config),
     repl |-> FALSE, timed |-> FALSE, tty |-> FALSE]

CommandLines ==
    {CommandLine(m, s, coordinator, Unset) : m \in {"stream", "buffer"}, s \in BOOLEAN}
    \cup {CommandLine("stream", TRUE, a, Quiet) : a \in {coordinator, specialist}}
    \cup {CommandLine("buffer", FALSE, coordinator, Quiet), CommandLine("json", TRUE, coordinator, Unset)}
    \cup {[CommandLine("stream", FALSE, specialist, Unset) EXCEPT !.tty = TRUE, !.timed = t, !.repl = ~t] :
            t \in BOOLEAN}

Cuts == [thinking |-> {<<"text">>}, answer |-> {<<"text", "head">>, <<"id", "close">>}]
Wholes == {<<"text">>}

=============================================================================
