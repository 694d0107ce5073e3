# Verification of the devcontainer's `lllm` command and forward proxy

TLA+ models of the two programs of this repository that keep state while several
things happen at once: the `lllm` agent command (`.devcontainer/lllm`, Python on
Google ADK) and the `localhost_forward_proxy` sidecar (Ruby). TLC checks small
instances; the TLA+ proof system checks the theorems for all of them. The paths
below are relative to the repository.

## The system

| Part | State it keeps | Operations | Meets |
|---|---|---|---|
| Callback token store (`lllm/tools/callback_tokens.py`) | four context variables per asyncio task (session, bucket, counter, character count); table `lllm_callback_tokens` in `session.db` | bind to a session, store, complete, list, preview, recall, expand in output and in arguments | every task of the CLI process and of the web server; the processes meet in the table |
| Turn guards (`lllm/runtime_modifiers/turn_guards.py`) | `temp:<agent>:` keys in the session, `_turn_outcomes` | before a model call: budget, summary, stall and window checks; on each piece of a reply: loop cut; before a tool call: skip | ADK's agent loop, root and delegated tasks; the CLI reads the outcome for its exit code |
| Web output (`lllm/web_output.py`) | record buffer, `_held_text` per part of a message | frame records, expand deltas, flush what is held | ADK's event stream, the token store, the browser |
| Web server (`lllm/web.py`) | of one request: the body it read and replays, the answer it collects | reads a request body, binds the session, replays the body, wraps the answer | web output, ADK's app under starlette, the browser |
| Output writer (`lllm/cli/output_writer.py`, `output_channels.py`) | recorded parts, the open line of each stream, streamed and labelled keys, a held token | records and prints the parts of events as text or JSON, finishes a turn | CLI lifecycle, token store |
| CLI lifecycle (`lllm/cli/cli_config.py`, `__main__.py`) | the main task and a pending cancellation, session, exit code | one prompt or a prompt loop, timeout, interrupt | runtime, writer, guards |
| Runtime and session (`adk_runtime.py`, `session_store.py`, `ollama.py`) | ADK runner and session | create or resume, stream events, preload the model | CLI lifecycle |
| Transcript (`session_transcript.py`) | a text file per session, and a temporary one | rewrite the file after each stored event | CLI and web server write the same file |
| Tool results (`tool_results.py`, `inline_subagent_trace.py`) | none | shape tool results | guards, token store |
| Agents (`agent.py`) | none | instructions and the agent tree | all of the above |
| Proxy watcher (`localhost_forward_proxy/.../watcher.rb`, `docker.rb`) | `@proxies`, `@sync_mutex` | sync at start, on Docker events, every 15 s | Docker, TCP proxies |
| TCP proxy (`.../tcp_proxy.rb`) | listeners, `@open_sockets` and its mutex | accept, relay, stop | watcher, clients and servers |
| Scripts, Compose and image files | none while running | write configuration, start programs | - |

What is hard in it:

- **Token store.** Buckets and counters are mutable objects that tasks share by
  reference, the variables that point to them are copied when a task starts, and
  the table is written by several processes. Ids are a per-counter number and a
  millisecond. Right means: a session never shows another one's text; a token
  that was handed out is shown, everywhere, as the text that was stored; rows
  keep their text; a save that fails costs no other token; a session stays within
  its limit (it does not).
- **Turn guards.** Keys belong to an agent, not to a task, and outlive the task;
  a stop is decided before a model call, in the middle of a stream or at its end,
  and takes effect at the next tool call or request. Right means: a task that was
  told to finish runs no tool and ends; a stop is reported in the outcome; what
  one reply left does not reach the next one; a new task or request may use tools.
- **Context budget** (the part of the turn guards that cuts a request to the
  window). Estimates of parts, of joined texts and of the whole round differently,
  groups are shortened in place and the tail is tried again. Right means: what is
  sent fits, the current request is whole, calls stay with their results, the tail
  is the recent end of the conversation, and no rounding makes it empty.
- **Web output and web server.** HTTP chunks cut the records of the stream,
  deltas cut tokens anywhere, those of several messages and channels interleave,
  with errors and ends at any point; the app waits for a disconnect on the receive
  that the wrapper replays. Right means: the browser shows the expansion of each
  text, in order and once, nothing is withheld, only what may be a token is held,
  announced lengths are true, and the answer to a client that waits ends.
- **Output writer and CLI.** Deltas, final texts, tool calls and the answers of
  sub-agents share two streams and three ways to print; a turn is cut off by a
  timeout, a cancellation or a stall, and a Ctrl+C may come where nothing awaits.
  Right means: an answer is printed whole, once and apart from other channels; each
  way prints what was recorded; a limited turn ends and the session is closed.
- **Transcript.** Several tasks of two processes read the session back and rewrite
  one file through one temporary name, and are killed in between. Right means:
  whoever opens the transcript finds whole events, and in the end all of them.
- **Proxy.** The watcher works on what it inspected while containers and ports
  change, any Docker command may fail, stop runs while relays dial and copy.
  Right means: ports mirror the containers after a sync and in the end, working
  connections are left alone, streams arrive whole, stop ends what is relayed and a
  connection ends when its server does.

`PROJECT.json` lists these as hazards, each at its line, with the properties that
would catch it.

## Modules

| Module | Models | In the code |
|---|---|---|
| `CallbackTokens` | the token store | Each public function is an action of one step, as the functions hold no `await`: `BeginTurn` (`begin_callback_token_tracking` and the binding that follows), `UseSession` (binding, and calls that do no more), `StoreNew` and `StoreKnown` (the two halves of `_store_callback_token`), `Expand`. `StartTask` is asyncio copying a context, `EndTask` a task or process that ends. A save may raise (`Save`, `SavesFail`); `unsaved` remembers the tokens every save of which did. `ctx[c]` and `counted[c]` are the variables of task c; `buckets` and `counters` map object identities to contents. |
| `CallbackTokensProofs` | proofs about it | |
| `TurnGuards` | the three callbacks inside ADK's loop | `GuardRequest`, `FinishAfterSkip`, `RefuseRequest` are the ways out of `guard_model_request`; `PartialReply`, `FinalReply`, `EmptyReply` of `guard_model_response`; `SkipCall` and `RunCall` are `skip_tools_when_stopping` and ADK's call. `run[t]` is ADK's loop, an external part, and `Delegate` and `Report` are its single-turn sub-agents. |
| `TurnGuardsProofs` | proofs about it | |
| `ContextBudget` | `_enforce_request_token_budget` and what it calls | `Accept`, `TooLarge` and `Summarize` are its three ways after the first estimates; `RemoveTools` and `Refuse` what `guard_model_request` does when it returns `False`; `TakeGroup`, `ShortenGroup`, `EndTail` the loops of `_context_tail`; `Join` one turn of the `while` loop. `contents` are the copies that `_detach_request_parts_from_session_history` makes, and shortening changes them in place. |
| `ContextBudgetProofs` | proofs about it | |
| `TokenText` | displayed text with tokens | `Expanded`, `Unfinished` and `Chunk` are `expand_callback_tokens_for_session`, `_unfinished_callback_token_suffix` and `expand_callback_token_text_chunk`. A token is three pieces, so deltas can cut it at two places. |
| `ShownText` | what is promised of a text that is shown | An abstract specification: `Say` lets texts grow, `Show` what is displayed of them. |
| `StreamExpansion` | `CallbackTokenSseExpander` | `After` is `_expand_record` of one record, `Feed` and `Kept` are `feed`. A view is `_held_text` with what the page shows. |
| `WebServer` | one request through `_ExpandCallbackTokensOnOutput`, with the expander | `ReadBody`, `AnswersAtOnce` and `Listen` are `_read_http_body` and the receive of `_replay_http_body`; `StartAnswer` and `SendChunk` are `send_expanded` of a header and of a body. The app (`Emit...`, `FinishAnswer`, `Cancel`) and the client are external. |
| `WebServerProofs` | proofs about it | with chapters on `StreamExpansion` |
| `OutputWriter` | `AdkEventRenderer` and the channel settings | Operators on a renderer `r`: `WritePrompt`, `WriteDelta`, `WriteFinal`, `WriteToolCall`, `WriteToolResult`, `Finish`; `Visibility` are the layers of `_resolve_output_channel_visibility_by_agent`. |
| `CliTurn` | `main` with `AdkSession`, `ensure_model_loaded` and the renderer | `Open`, `ModelLoaded`, `LoadFails`, `BeginTurn`, `EndTurn`, `Timeout`, `CancelTurn`, `Leave`, `Close` are the steps between awaits, `Interrupt` what asyncio makes of SIGINT. `Partial`, `CallTool`, `Delegate`, `LastReply`, `Result` are ADK's events, each passed to `consume`. |
| `CliTurnProofs` | proofs about it | with a chapter on `OutputWriter`, which it works on |
| `Transcript` | `append_event_and_write_transcript` in several tasks and processes | `Store`, `Read`, `Truncate`, `Write`, `Replace` are its calls, `Fail` its `except`, `Crash` a kill or a cancelled turn. Files have identities, names refer to them. |
| `TranscriptProofs` | proofs about it | |
| `TcpProxy` | one `TcpProxy` | The accept thread (`Accept`, `AcceptRaises`), the two threads of a relay (`Dial`, `Track`, `CopyResponse`, `Finish`; `CopyRequest`), the watcher's `stop` (`CloseListener`, `CloseTracked`), peers that send, read, half-close and reset. `seen` is what the receiver of a stream sees: an end may be signalled by `close_write`, and by any close of the relay's socket, which ends a half-copied request and may reset a client whose data nobody has read (`AfterClose`). |
| `ProxyWatcher` | `Watcher` and what it asks of `Docker` | A sync is `StartSync`, `List`, `Attach` per container, `DropProxies`, `Bind` per port, `EndSync`; any Docker command may fail (`SyncFails`). The world around it: containers, ports held by others, crashes and restarts. |
| `ForwardProxyProofs` | proofs about both proxies | It extends both modules, so the names they would share have `Tcp` before them in `TcpProxy` (`TcpInit`, `TcpSpec`). |
| `RecursionProofs` | lemmas | sums over finite sets, which the budget needs, and texts cut and expanded by `TokenText`, which CLI and web server need |
| `MC...` | instances of each for TLC | |

A few operators are used nowhere: each is a faulty form of the next one that is
used (a dropped guard, a missing reset, a wrong cut). Replacing the latter by the
former breaks the property that `PROJECT.json` pairs them with, so each property
is one that a bug in the code would break.

What the models leave out on purpose:

- Texts, tokens, tool results and targets are values; a text has a length and may
  be too short to be stored, a token is a number and a millisecond.
- `TurnGuards` takes the result of the context budget as an input: a request fits
  the target or is refused; `ContextBudget` shows how it gets there. Observations
  are kept as far back as the stall check compares them.
- In `ContextBudget` a text is its weight, four to an estimated token, and cuts
  are those of prose: a cut fills its budget, the worst case for what fits. A call
  or result has one payload. The contents are those after `prepare_model_tool_results`,
  without images inside results. The multiplier that calibrates the estimate
  makes the window smaller (`effective_context_limit`), so it is a value of `limit`.
- `StreamExpansion` takes the deltas of one message to have one identity and
  index, as the tests do; ADK is not in this repository. A record is its data line
  and its blank line; other lines and data that is not JSON pass as they are.
- `WebServer` is one request, as the wrapper keeps nothing between requests. What
  the app does for a client that is gone is left out.
- In `OutputWriter` the text of a tool call or of a delegated request is one
  value; trimming of blank lines is modelled by what it does to lines. The mirror
  to a log stream is left out, as no caller passes one.
- `CliTurn` has the guards' outcome as an input (`TurnGuards` shows how it comes
  about), and ADK's events in the order the runner yields them: a delegated agent
  speaks until its result.
- In `Transcript` a file is a set of events that are whole in it; how an event is
  rendered does not matter. A name's inode is what POSIX makes of it.
- A chunk of `IO.copy_stream` is copied in one step, which waits while `Buffer` chunks
  are written that the client has not read. The server is taken to read what it is sent;
  the copy of a request is not fair, so nothing rests on it. A reset may cost a peer
  what it has not read; `got` counts what the relay has passed on.
- `ProxyWatcher` has one sync at a time, which `@sync_mutex` ensures; the thread
  that asked for it makes no difference. A container has one address, whichever
  network it is reached on, and which containers belong to a workspace is given.

## What the runs check

| Run | Instance and bounds | What it shows |
|---|---|---|
| `TokensTurn` | the CLI task and a child that may reload; two storable texts and one that is too short; a limit of one text; a note; three turns; saves may raise | tasks that share a bucket and a counter give no token two texts; every token handed out is in the table and is shown, but for one that sqlite refused to save each time |
| `TokensWeb` | two tasks of the web server, two sessions, calls with and without a session id | isolation of sessions; a token one task issued is shown by the other; rows keep their text though the tasks issue equal ids |
| `TokensLimit` | the CLI task and a child, three texts, a limit of two | expected violation |
| `GuardsTurn` | root and one sub-agent; two results, patterns of up to two observations, twice; two calls a reply, two streamed pieces | outcomes, keys and told tasks; under fairness told tasks end |
| `GuardsLater` | one result, one call a reply | expected violation |
| `BudgetCuts` | 255 conversations: up to three earlier turns (with a picture, a tool, parallel calls, or interrupted) and a running one; instructions of 100, 650 and 875 tokens, with and without 225 tokens of tools; windows of 700, 1024 and 1131; the other constants are the code's | what is sent on each way, and that the first tail always fits |
| `WebAnswers` | the three kinds of paths, an event stream, JSON and encoded JSON; two messages with two channels; deltas of one and two pieces, three pieces in all; three parts of records not sent yet | `ShownText` is implemented; lengths; under fairness, the end of every answer |
| `OutputTurn` | eleven command lines (three ways to print, with and without `--stderr`, default and changed channels, the coordinator or a specialist as root, a query with a time limit and a REPL with Ctrl+C); six events a turn | lines, the three ways to print, `ShownText` again, sessions; under fairness, the end of limited turns |
| `CliInterrupt` | the same, two events | expected violation |
| `Transcript` | the CLI and two requests of the web server, four events, four files | whole and current transcripts under errors and kills |
| `ProxyRelays` | two connections: one whose peers send up to two chunks each way, end, reset, and a client that reads one chunk at a time or stops; one that is only open | streams that nothing cuts arrive whole, stop leaves no relayed socket open and, under fairness, connections end |
| `WatcherSyncs` | four containers (two publish one port in turn, one has no network), two ports, two targets, four changes | the result of a sync, of an interrupted one and, under fairness, the end |

Bounds. Two tasks are enough for each way tasks can differ in the token store
(they share a bucket or have one each, are bound to one session or to two); the
limit is passed with three texts. Two calls and two pieces are the first with
something left of a reply after a stop. Four observations hold a pattern of two
twice. Sizes of requests are chosen on both sides of the 75% target, the 80%
check and the reserve of a window of 20. The windows of `BudgetCuts` are those in
which the reserve of 256 is more than, just, and less than a quarter, with
different rests; a text of three characters fits where a cut leaves a token; the largest instructions can be sent with no
window, the middle ones without tools in two of them, and four turns are one more
than a tail may span. Three pieces hold a whole token, and records are cut
between any two of three parts. Six events let the root answer, call a tool or
delegate, and answer again with a cut token. Four files are one more than three
writers and the names can hold at once without reuse, and four events let each
task store one and one of them another. Two chunks
and a buffer of one let a copy wait for the client with data behind it, and a request
be cut in its middle; `accept` and `connect` may fail at any time, as the process has
other proxies; the second connection only has to be open, dial or be queued while stop
runs beside the first (`Active`). Four changes let a container move (die, start elsewhere) while a port
is taken and freed. `CHECK_DEADLOCK FALSE` stands in every configuration, because
each system may stop for good: a clock bound, an ended stream, a closed proxy.
`LiveView` in the token runs leaves out the contents of objects no task refers to.

Fairness. `TurnGuards!FairSpec`: ADK goes on with each task it has started
(`Step`), but nobody has to start, delegate or cancel. `TcpProxy!TcpFairSpec`: Ruby
schedules the thread of a relay whenever it can go on, and nothing else is fair: peers need
not send, read or end, a stop that has begun may never go on, a copy that waits on a
socket which is closed under it may or may not be woken (`Interrupted`). A copy that
waits in its write is not able to go on, so `ConnectionsEnd` has the client's reading
as a premise (`KeepsReading`): without it the property is false, as `copy_stream` has no
time limit.
`ProxyWatcher!FairSpec`: the heartbeat starts a sync every 15 seconds, Compose
restarts the sidecar (`restart: unless-stopped`), and a Docker command that is
tried again with every sync does not fail for ever (strong fairness of `List` and
`Attach`). `WebServer!Fairness`: a cooperative event loop goes on as long as a
task does not wait (reading, starting, listening, sending), ADK's run ends and the
client sends its body or leaves; it need not stay. `CliTurn!Fairness`: the
program's own steps and the clock of `wait_for`; ADK, Ollama and the user owe
nothing, so that only turns with a limit or a Ctrl+C must end.

Refinement. `ShownText` says that what is shown of a text only grows, is at any
time a prefix of the expansion of what was said without an unfinished token, and
is all of it when the text is over. `WebServer` implements it (`ShowsWhatItPromises`:
texts are the channels of messages, `over` those with their final event, flush
or end) for every answer it rewrites, and `CliTurn` (`AnswersAreShownWhole`: texts
are the root's replies of a turn) in every way to print; between turns the terminal
starts afresh (`TurnsSpec`).

## Where the code and its documentation differ

Runs that expect a violation, with the counterexample TLC gives:

- `TokensLimit`: "up to 10 MB per session" (`callback_tokens.py` 9-10), but the
  characters are counted in a context variable (284). A child task has a copy of the
  count: what it stores is lost to its parent, and each may fill the limit.
- `GuardsLater`: "a later request can use tools again" (`turn_guards.py` 76), but
  the stall check reads the observations of the whole session. If the last turn
  stalled, they still repeat, and the next request is told to stop before its first
  tool call.
- `CliInterrupt`: "Wait until Ollama finishes loading. The user cancels with Ctrl+C."
  (`ollama.py` 58), but the load blocks the event loop, the first Ctrl+C only asks
  for a cancellation, and the program waits on until Ollama answers or a second
  Ctrl+C comes.

Seen while modelling, without a run:

- Token store. "Identical text reuses the existing token ID"
  (`.directory_information.md` 216-217) and children "mutate the same dict"
  (`callback_tokens.py` 51-52), but a child that binds its session again loads a dict of
  its own, does not see what the parent stores from then on, gives a text that is stored
  a second token, and saves a stale copy of an entry over a note the parent has saved.
  A save that raises leaves its entry in the dict (293-294): the next store of the text
  returns a token without a row.
- Proxy. stop "closes ... any in-flight connections" (`tcp_proxy.rb` 36), but a
  relay that is still connecting (55) is not in `@open_sockets`: it is tracked afterwards
  and relays on until its server ends (`StopEndsRelays` is about the others). "A dead
  listener should restart the sidecar" (30), but the rescue in `accept_loop` (50), which
  takes every error for the close by stop (51), also ends the thread quietly on EMFILE.
  A stop ends a request that is half copied like one that is complete (39, 64), and a
  client whose connection stop or the relay closes with data unread is reset (63). A
  client that does not read keeps its relay for ever (69). One network that cannot be joined (`watcher.rb`
  127) ends every sync before the proxies are reconciled, and no stack is mirrored.
- Transcript. "A turn from either side is in the same file" (`session_transcript.py`
  5), but a task that read the session before another stored its event may replace
  the transcript after it, and the event is missing until the next is stored. Two
  processes that write at once share the temporary file, and the transcript may be
  torn or the rename fail (`mixed` marks those states).
- Output. The second answer that a sub-agent delegates back in a turn has no label
  (`output_writer.py` 222), and one whose answer was streamed is printed again from its
  result (262-267: only the root is ever in `_agents_with_recorded_answer`). With
  `--no-stream` every delta of a sub-agent gets a label of its own (319, 323), and blocks
  are joined without line breaks. Two replies of the root are joined without one too. A
  key that was streamed and got no final event swallows a later final text (146-154).
- CLI. A load that fails exits before the `try` that closes the session
  (`cli_config.py` 217). A turn that times out prints neither held text nor buffered
  or JSON output. A `TimeoutError` of a tool is reported as `--timeout` (234). With
  `--agent` a specialist keeps the visibility of a sub-agent. Exit code 130 is
  "interrupted with ctrl+c after closing the ADK runner" (`.directory_information.md` 96),
  but nothing is closed when the open is cancelled, on a second Ctrl+C, and when a
  cancellation that no await has seen before reaches the close itself.
- Web. A body that is cut off by a disconnect is replayed as complete (`web.py` 153-171).
  If ADK numbered each delta's event anew, a token cut by deltas would never be
  joined (`web_output.py` 12-14).

Some properties hold only for the instance of their run, and the constants show
where they stop. `IssuedTokensKeepTheirText` fails when the CLI and the web
server store in one session in the same millisecond, as both count from 1.
`TasksStartClean` is checked with one task per agent; two tasks of one sub-agent at
once share its keys, and it fails.

## What is proved

All theorems hold for every value of the constants that the named assumptions of
the modules allow. The modules of proofs state type correctness as `TypeCorrect`;
in `ContextBudgetProofs` it is the invariant `Types` of the lemmas.

Token store (`CallbackTokensProofs`)

- `Isolation`: `SessionIsolation`, for any number of tasks, processes, sessions and
  objects, whether or not saves fail. Isolation is not inductive: it says nothing
  of buckets that are shared. `Inv` adds that a task has a bucket exactly when it
  has a session (`BucketWithSession`), that tasks which share a bucket are bound to
  one session (`SharedBucketSameSession`), and that buckets and rows only hold what
  was stored in their session. The second is the heart of it: `Put` changes a bucket
  of other tasks too, and a load must take an object nobody refers to (`NewRefsUnused`).
- `RowsKept`: `RowsKeepTheirText`. A save that meets a taken id updates the row, and
  the update leaves the text alone (`SaveSurvives`).
- `TokensKept`, `TokensShown`: what a model was given is a row of its session and is
  shown in every task, unless sqlite refused to save it each time; nothing is assumed
  of saves. Steps are seen in two ways: one that `Loads` makes no entry and changes no row,
  one that `Puts` adds one entry to one dict of one session and saves it or fails to.
  Invariant: an entry of a dict is a row, or every save of it has raised
  (`BucketsAreKept`, `KeptOrUnsaved`), whichever tasks share the dict.
- `TokensKeepTheirText`: in one process no id is given twice. The tasks of a turn
  share the counter of its main task (`SharedCounter`), and every id given has an
  earlier millisecond or a smaller number than the next (`IdsAreOld`).

Turn guards (`TurnGuardsProofs`)

- `StopsReported`: `StopsAreReported`. The 80% check stops an agent without
  recording a failure. `RequestsStayBelowTheRatio` shows it is never taken: a request is
  cut to `Limit - max(Reserve, Limit \div 4)`, which is below 80% of any window. This
  needs `Reserve >= 4`; the code's is 256. With a reserve of 3 a request of 12 in
  a window of 15 would reach it.
- `StartClean`, `ToldRunNoTools`: `TasksStartClean` and `ToldTasksRunNoTools`. The keys
  are the agent's and the promise is a task's: the invariant says that the agent of a
  told task is stopped as long as the task is at work, that the task asks again
  only after a call that was skipped, that a told root has delegated nothing
  (`AllToldToStop`), and what of a reply is left in the keys at each phase (`AllStartClean`).
  `Loops` types ADK's loop.

Context budget (`ContextBudgetProofs`)

- `CurrentRequestKept`: `CurrentRequestIsWhole`. The copies are those of the
  conversation, and the current request is one of them (`Copies`); it is a latest one
  (`MaxOfIndices`).
- `RequestsFit`: `AcceptedRequestsFit`. A request is accepted in the step that
  estimates it; the last resort, to send what is protected and nothing else, is not
  estimated again and fits because it did before the cut (`ProtectedFits`) and
  shortening leaves the current request alone.
- `RepliesFitWindow`: `RepliesFit`, from `RequestsFit`.
- `FirstTailIsSent`: `FirstTailFits`. The summary takes no more than is available, the
  tail no more than the summary leaves (`CutFits`), and three estimates, each rounded,
  and the newlines between their texts come to two tokens more (`TailFits`).
- `SectionsAreWhole`: `SectionsSurvive`. Each section is cut to a third of what the notice
  leaves, and the joined ones fit the whole.
- `NewestAreSent`: `NewestAreKept`. The tail is all that follows the start of a group
  (`TailIsRecent`), and what was shortened is in the group taken last (`OldestIsShortened`).
- `CallsKeptTogether`: `CallsKeepTheirResults`. Groups start at requests or calls
  (`GroupsStartAtCalls`), the results of a call follow before the next request, and the
  tail starts with a group.

CLI and output writer (`CliTurnProofs`)

- `TurnInvariant`: the invariant `IInv` the next ones follow from. It says what of each
  answer is shown (`AnswersShown`: earlier ones whole, the one under way up to what is held),
  which keys are streamed and what is held (`Underway`), and that the lines of the
  renderer are apart (`Renders`). TLC checked each part on the instance of
  `OutputTurn` before it was proved.
- `LinesApart`: `LinesKeepApart`. A write that goes on with an open line is of the key that
  opened it; all others begin a line (`MarksKeepApart`, `JoinedApart`).
- `SessionsClosed`: `SessionsAreClosed`, inductive as it stands: a turn that ends, times out
  or is cancelled goes to the close, and the ways out that skip it are the exceptions it
  names (exit 1; exit 130 after a second Ctrl+C or when the close itself is cancelled).
- `ShownWhole`: `AnswersAreShownWhole`, the refinement of `ShownText!TurnsSpec`. A state
  shows what the abstract one may (`StateShows`); an event tells of one answer, which
  only grows (`TellsIsNext`), a turn that begins starts afresh, every other step
  stutters (`RefinesInit`, `RefinesNext`).
- `AllIsPrinted`: `PrintedIsRecorded`. What the entries hold of a stream is a join of
  one text for each entry, so that an entry that is recorded adds its marks at the end
  of what is expected; a stream shows them as they come, `finish` writes them all.
- It rests on lemmas about texts (`RecursionProofs`): what `Expanded` makes of a text
  that is joined (`ExpandJoined`: nothing but what it makes of the two parts, if no token
  spans them), and that `Chunk` never lets a token span what is shown and what is held
  (`ChunkGoesOn`, `ChunkEnds`, `TextsApart`).

Web server (`WebServerProofs`)

- `AnswerInvariant`: the invariant `IInv`, of which the heart is a story (`TellsAnswer`).
  The properties relate what ADK said to what the page shows, and between the two are
  bytes: some held by the wrapper, some still to be sent. The invariant says that
  together they carry records (`Carries`), the last perhaps without its blank line, and
  that there is a sequence of states of telling, each with the texts said so far and the
  channels that are over, in which every record tells how one becomes the next
  (`TellsMore`); the first is what the view shows (`ViewOf`), the last what ADK said.
- An event adds a record to the end of the story (`RecordFollows`), a chunk takes some
  from its start: `Feed` makes of the view of the first state that of the state after
  the last complete record (`FeedsTell`, by one record: `AfterMore`), what is kept carries
  the others (`RestCarries`), and the last body tells all (`FeedsTellAll`), also a record
  whose blank line never came (`EndIsMissing`). JSON is a story of which nothing is
  told before the end.
- `OnlyUnfinished`: `OnlyUnfinishedIsHeld`; `TrueLength`: `LengthIsTrue`; both follow from
  the invariant (`InvariantHolds`, `InvariantLength`).
- `ShownAsPromised`: `ShowsWhatItPromises`, the refinement of `ShownText!Spec`. An event
  moves the end of the story, a chunk its start (`Says`, `Moves`), and along a story
  what is shown only grows and never leads what was said (`ToldGrows`,
  `ToldMayBeShown`); every other step, and all of an answer that is not rewritten,
  stutters.

Transcript and proxy

- `TranscriptProofs!TranscriptWhole`, `!LoneCurrent`: `TranscriptIsWhole` and
  `LoneWritesAreCurrent`. The transcript alone is not inductive: the invariant follows
  the writer that nobody has joined (`UnsharedWriteAlone`: it is the only one, on the
  file that has the temporary name, which holds what it has written) and keeps the
  temporary file and the transcript apart (`NamesDiffer`).
- `ForwardProxyProofs!StreamsWhole`: `StreamsArriveWhole`. The invariant says which sockets
  a relay has in each phase (`PhasesMatchSockets`), that a relay nobody cuts stops copying
  only at the end of the response, which its client is told before the close, and that
  nothing of a request follows its end (`StreamsMatchPhases`).
- `ForwardProxyProofs!RelaysStopped`: `StopEndsRelays`. A relay that copies is tracked, and
  one that was relayed never goes back to a phase in which stop could miss it (`Relayed`).
- `ForwardProxyProofs!PortsMirrored`, `!ForwardsStay`: `SyncMirrorsPorts` and
  `WorkingForwardsStay`. The invariant follows a sync through its phases: what it has
  reached and has still to reach (`ReachesAll`), what it has bound of what it saw
  (`BoundAsSeen`), and that what it saw is what is while nothing changes (`FreshIsSeen`).
  Docker's rule that a host port belongs to one running container (`PortsAreUnique`)
  makes the target of a port the same among all containers and among those reached.

Recursion. `Expanded`, `Feed` and the folds of the library are recursive functions.
That a recursive function is what its equation says, and what holds of its values,
is shown without an induction principle, by the least exception: of a set of numbers
(`LeastNumber`, `Recursion`) for texts, of a set of subsets (`LeastSet`) for sums (`RecursionProofs`).

### Assumptions, and where the code may leave them

| Assumption | In | The code |
|---|---|---|
| `OneProcess` | `TokensKeepTheirText` | CLI and web server, or two web requests, may number texts of one session in the same millisecond |
| `[]OneTaskAtATime` | `StartClean`, `ToldRunNoTools` | a reply that calls one sub-agent twice runs two tasks on its keys |
| `Slack >= 2` | `FirstTailIsSent`, `NewestAreSent` | 8 |
| `Reserve < l` for every window | `RepliesFitWindow` | no smaller window is used: the check at `turn_guards.py` 910-918 ends the turn |
| `GuardsAssumption`, `BudgetAssumption` | their modules | `Reserve >= 4` (256), texts of notices longer than three characters; finitely many tasks; no sub-agent is the root |
| `AnswersAssumption` | `ContextBudget` | ADK keeps results behind their calls, within a turn |
| `MessagesAssumption` | `WebServer` | identities are tuples (`_identity`), and no tuple is one of the marks of `ended` |
| `DeltasAssumption` | `WebServer` | types of the constants |
| `AgentsAssumption`, `InputsAssumption` | `OutputWriter`, `CliTurn` | a specialist is not the coordinator; options and texts have their types |
| `WatcherAssumption`, `TranscriptAssumption`, `ProxyAssumption` | their modules | types of the constants |

### Only model-checked

- Liveness (`ToldTasksEnd`, `AnswersEnd`, `LimitedTurnsEnd`, `ConnectionsEnd`,
  `PortsGetMirrored`): out of the prover's reach.
- The three runs that expect a violation.

Every invariant and action property that a passing run checks is stated by a theorem,
and so are `StopEndsRelays` and both refinements of `ShownText`.

## Plan

Next, models: the preparation of tool arguments in the token store, and a mirror of
ports as an abstract specification of `ProxyWatcher`.

## Not modelled

- `tool_results.py`, `inline_subagent_trace.py`: rewriting of the texts of tool
  results, without state or order of steps; a model would repeat it string by string.
- `agent.py`: instructions and wiring. Its tree of agents is a constant of
  `TurnGuards` and `OutputWriter`.
- Of modelled files: recognising a token in arguments, list and preview
  (`callback_tokens.py` 474-632), the errors of the `--outputChannels` parser, command
  line parsers, the wording of notices and the calibration of the token estimate.
- The scripts, the Compose and image files: configuration or sequential I/O without
  state of their own.
