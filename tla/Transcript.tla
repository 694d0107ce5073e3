----------------------------- MODULE Transcript -----------------------------
(***************************************************************************)
(* The transcript of one session (lllm/session_transcript.py).  Each task  *)
(* of the CLI or of `lllm web` that has an event stored in session.db      *)
(* reads the session back and rewrites transcript.txt through a temporary  *)
(* file, whose name all of them share.  A file is the set of the events    *)
(* whose text is in its place: a writer that is still at it, or one whose  *)
(* file another truncated, leaves some out.                                *)
(*                                                                         *)
(* ADK stores events and the file system is POSIX: a name refers to a      *)
(* file, a writer to the file it opened, under whatever name.              *)
(*                                                                         *)
(* An operator used nowhere is a faulty form of the next one that is used, *)
(* for the mutation checks.                                                *)
(***************************************************************************)
EXTENDS Integers, FiniteSets

CONSTANTS
    Writers,    \* tasks that store events of the session
    Processes,
    Home(_),    \* the process of a task
    Files,      \* bound: files there may be at once
    NoFile,
    NoWriter,
    MaxEvents   \* bound: events of the session

ASSUME TranscriptAssumption ==
    /\ NoFile \notin Files /\ NoWriter \notin Writers
    /\ MaxEvents \in Nat

VARIABLES
    stored,     \* events in session.db
    step,       \* where append_event_and_write_transcript is, by task
    seen,       \* stored_session: events it read back
    open,       \* the temporary file it writes
    written,    \* events it has written
    names,      \* the file of each name
    content,    \* events in a file
    lone,       \* the task that is the only one at work since its event was stored
    shared,     \* tasks that write, or wrote, while another process did
    mixed       \* no task has replaced the transcript alone since two wrote at once

vars == <<stored, step, seen, open, written, names, content, lone, shared, mixed>>

Events == 1..MaxEvents
Idle(t) == step[t] = "idle"
Writing == {t \in Writers : step[t] = "writing"}

Init ==
    /\ stored = 0
    /\ step = [t \in Writers |-> "idle"]
    /\ seen = [t \in Writers |-> 0]
    /\ open = [t \in Writers |-> NoFile]
    /\ written = [t \in Writers |-> 0]
    /\ names = [temporary |-> NoFile, transcript |-> NoFile]
    /\ content = [f \in Files |-> {}]
    /\ lone = NoWriter
    /\ shared = {}
    /\ mixed = FALSE

(* original_append_event; a partial event is not stored and not written.    *)
Store(t) ==
    /\ Idle(t) /\ stored < MaxEvents
    /\ stored' = stored + 1
    /\ step' = [step EXCEPT ![t] = "stored"]
    /\ lone' = IF \A u \in Writers : Idle(u) THEN t ELSE NoWriter
    /\ UNCHANGED <<seen, open, written, names, content, shared, mixed>>

(* get_session                                                              *)
ReadBefore == stored - 1
LatestEvents == stored

Read(t) ==
    /\ step[t] = "stored"
    /\ step' = [step EXCEPT ![t] = "read"]
    /\ seen' = [seen EXCEPT ![t] = LatestEvents]
    /\ UNCHANGED <<stored, open, written, names, content, lone, shared, mixed>>

(* write_session_transcript does not await: of one process one task writes. *)
(* write_text truncates the file of the name or creates one,                *)
Unused == {f \in Files : (\A n \in DOMAIN names : names[n] # f) /\ \A t \in Writers : open[t] # f}

TranscriptItself == IF names.transcript # NoFile THEN {names.transcript} ELSE Unused

Temporary == IF names.temporary # NoFile THEN {names.temporary} ELSE Unused

Truncate(t) ==
    /\ step[t] = "read" /\ \A u \in Writing : Home(u) # Home(t)
    /\ step' = [step EXCEPT ![t] = "writing"]
    /\ \E f \in Temporary :
          /\ open' = [open EXCEPT ![t] = f]
          /\ names' = [names EXCEPT !.temporary = f]
          /\ content' = [content EXCEPT ![f] = {}]
    /\ written' = [written EXCEPT ![t] = 0]
    /\ shared' = IF Writing = {} THEN shared \ {t} ELSE shared \cup Writing \cup {t}
    /\ mixed' = (mixed \/ Writing # {})
    /\ UNCHANGED <<stored, seen, lone>>

(* fills it buffer by buffer,                                               *)
Write(t) ==
    /\ step[t] = "writing" /\ written[t] < seen[t]
    /\ written' = [written EXCEPT ![t] = @ + 1]
    /\ content' = [content EXCEPT ![open[t]] = @ \cup {written'[t]}]
    /\ UNCHANGED <<stored, step, seen, open, names, lone, shared, mixed>>

Done(t) ==
    /\ step' = [step EXCEPT ![t] = "idle"]
    /\ open' = [open EXCEPT ![t] = NoFile]
    /\ lone' = IF lone = t THEN NoWriter ELSE lone

(* and replace gives what has the temporary name by then the other name.    *)
Replace(t) ==
    /\ step[t] = "writing" /\ written[t] = seen[t]
    /\ names.temporary # NoFile
    /\ Done(t)
    /\ names' = [temporary |-> NoFile, transcript |-> names.temporary]
    /\ mixed' = (mixed /\ t \in shared)
    /\ UNCHANGED <<stored, seen, written, content, shared>>

(* No such file, or another error of reading or writing, is only reported.  *)
Fail(t) ==
    /\ step[t] \in {"stored", "read", "writing"}
    /\ Done(t)
    /\ UNCHANGED <<stored, seen, written, names, content, shared, mixed>>

(* A process is killed, or its turn cancelled, between any two steps.       *)
Crash(p) ==
    LET tasks == {t \in Writers : Home(t) = p}
    IN  /\ \E t \in tasks : ~Idle(t)
        /\ step' = [t \in Writers |-> IF t \in tasks THEN "idle" ELSE step[t]]
        /\ open' = [t \in Writers |-> IF t \in tasks THEN NoFile ELSE open[t]]
        /\ lone' = IF lone \in tasks THEN NoWriter ELSE lone
        /\ UNCHANGED <<stored, seen, written, names, content, shared, mixed>>

Next ==
    \/ \E t \in Writers :
          Store(t) \/ Read(t) \/ Truncate(t) \/ Write(t) \/ Replace(t) \/ Fail(t)
    \/ \E p \in Processes : Crash(p)

Spec == Init /\ [][Next]_vars

-----------------------------------------------------------------------------
TypeOK ==
    /\ stored \in 0..MaxEvents
    /\ step \in [Writers -> {"idle", "stored", "read", "writing"}]
    /\ seen \in [Writers -> 0..MaxEvents] /\ written \in [Writers -> 0..MaxEvents]
    /\ open \in [Writers -> Files \cup {NoFile}]
    /\ names \in [temporary : Files \cup {NoFile}, transcript : Files \cup {NoFile}]
    /\ content \in [Files -> SUBSET Events]
    /\ lone \in Writers \cup {NoWriter} /\ shared \subseteq Writers /\ mixed \in BOOLEAN

Shown == IF names.transcript = NoFile THEN {} ELSE content[names.transcript]

(* The transcript is the whole text of the first events of the session, and *)
(* no one is at work on it, whenever one looks and whatever fails or is     *)
(* killed while it is rewritten.  Only two processes that write at once may *)
(* spoil it, until one writes alone again.                                  *)
TranscriptIsWhole ==
    ~mixed /\ names.transcript # NoFile =>
        /\ Shown # {} /\ Shown = 1..Cardinality(Shown)
        /\ \A t \in Writers : open[t] # names.transcript

(* A task that was alone from the store of its event to the end of its      *)
(* rewrite leaves a transcript of all that any process has stored, crashed  *)
(* writers and their leftovers notwithstanding.                             *)
LoneWritesAreCurrent ==
    [][\A t \in Writers : lone = t /\ Replace(t) => Shown' = 1..stored]_vars

=============================================================================
