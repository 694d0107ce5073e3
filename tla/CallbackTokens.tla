--------------------------- MODULE CallbackTokens ---------------------------
(***************************************************************************)
(* Callback tokens (lllm/tools/callback_tokens.py): long text stored in    *)
(* session.db behind a short id, cached per task in a bucket.              *)
(*                                                                         *)
(* A task is an asyncio task of the CLI or of the web server.  Its four    *)
(* context variables are ctx[c] (session, bucket, numbers) and counted[c]. *)
(* A bucket and a counter are mutable Python objects that tasks share by   *)
(* reference: buckets and counters map a reference to its contents.  Every *)
(* function of the module runs without an await, so a call is one step;    *)
(* processes meet only in the table rows.                                  *)
(*                                                                         *)
(* An operator used nowhere is a faulty form of the next one that is used, *)
(* for the mutation checks.                                                *)
(***************************************************************************)
EXTENDS Integers, FiniteSets, Functions

CONSTANTS
    Tasks,          \* every asyncio task
    CliTasks,       \* the main task of each CLI process
    WebTasks,       \* tasks of the web server that start with empty variables
    Sessions,       \* lllm session ids kept in session.db
    Ephemeral,      \* the session of a bucket that is in no database
    NoSession,      \* None
    Callers,        \* the session ids calls come with; NoSession: none
    Texts,          \* texts that may be stored
    Length,         \* characters of each text
    Fields,         \* the fields a caller may fill: note, description
    MinimumLength,  \* _CALLBACK_TOKEN_MINIMUM_TEXT_LENGTH
    CharacterLimit, \* _CALLBACK_TOKEN_CHARACTER_LIMIT
    Refs,           \* identities of dicts and lists
    NoRef,          \* None
    SavesFail,      \* whether sqlite may raise while saving ("database is locked")
    MaxClock,       \* bound: last millisecond explored
    MaxNumber       \* bound: tokens numbered by one counter

ASSUME TasksAssumption == CliTasks \subseteq Tasks /\ WebTasks \subseteq Tasks

ASSUME ValuesAssumption ==
    /\ Ephemeral \notin Sessions
    /\ NoSession \notin Sessions
    /\ NoSession # Ephemeral
    /\ Callers \subseteq Sessions \cup {NoSession}
    /\ Refs \subseteq Nat
    /\ NoRef \notin Refs

ASSUME NumbersAssumption ==
    /\ Length \in [Texts -> Nat]
    /\ MinimumLength \in Nat
    /\ CharacterLimit \in Nat
    /\ SavesFail \in BOOLEAN

VARIABLES
    ctx,       \* the context variables of each task
    counted,   \* _stored_callback_character_count of each task
    buckets,   \* contents of each bucket: a set of entries
    counters,  \* next number held by each counter
    rows,      \* table lllm_callback_tokens, per session
    stored,    \* history: what stores put in buckets of kept sessions
    issued,    \* history: tokens of kept sessions handed to a model
    unsaved,   \* history: tokens every save of which has raised so far
    clock      \* time in milliseconds

vars == <<ctx, counted, buckets, counters, rows, stored, issued, unsaved, clock>>

-----------------------------------------------------------------------------
Ids == Nat \X Nat
Entry == [id : Ids, text : Texts, notes : SUBSET Fields]
TokenSet == [session : Sessions, id : Ids, text : Texts]
Context == [session : Sessions \cup {Ephemeral, NoSession},
            bucket  : Refs \cup {NoRef},
            numbers : Refs \cup {NoRef}]

FreshContext == [session |-> NoSession, bucket |-> NoRef, numbers |-> NoRef]

IdsOf(entries) == {e.id : e \in entries}

CharacterCount(entries) == SumFunction([e \in entries |-> Length[e.text]])

(* What {} and [1] allocate: an identity no task refers to, the smallest,   *)
(* because which one it is makes no difference.                             *)
UnusedRefs == Refs \ UNION {{ctx[c].bucket, ctx[c].numbers} : c \in Tasks}
NewRefs == {r \in UnusedRefs : \A q \in UnusedRefs : r <= q}

(* A task that runs: the CLI's main task from its first turn on, a task of *)
(* the web server at any time, any other task once it has been started.    *)
Running(c) == c \in WebTasks \/ ctx[c] # FreshContext

-----------------------------------------------------------------------------
(* _use_session and bind_callback_tokens_to_session: nothing happens when   *)
(* the task already holds a bucket of session s; otherwise the variables    *)
(* are set to a new dict with the rows of s.  Without a session id the      *)
(* active one is kept, or begin_callback_token_tracking makes an ephemeral  *)
(* one.  r is the dict a load allocates.                                    *)
AttachedToAny(c, s) == ctx[c].bucket # NoRef

Attached(c, s) ==
    /\ ctx[c].bucket # NoRef
    /\ s = NoSession \/ ctx[c].session = s

Opened(c, s, r) ==
    IF Attached(c, s) THEN ctx[c]
    ELSE IF s = NoSession
         THEN [session |-> Ephemeral, bucket |-> r, numbers |-> r]
         ELSE [ctx[c] EXCEPT !.session = s, !.bucket = r]

Tokens(c, s) ==
    IF Attached(c, s) THEN buckets[ctx[c].bucket]
    ELSE IF s = NoSession THEN {} ELSE rows[s]

Count(c, s) ==
    IF Attached(c, s) THEN counted[c] ELSE CharacterCount(Tokens(c, s))

(* The text shown in place of token id in output of session s: the bucket   *)
(* of the task, reloaded when the id is missing.  {} leaves the token.      *)
ShownFromBucket(c, s, id) == {e.text : e \in {f \in Tokens(c, s) : f.id = id}}

Shown(c, s, id) ==
    LET bound == Tokens(c, s)
        read  == IF id \in IdsOf(bound) THEN bound ELSE rows[s]
    IN  {e.text : e \in {f \in read : f.id = id}}

(* INSERT ... ON CONFLICT DO UPDATE SET note, description: the text of a    *)
(* row that exists is kept.                                                 *)
UpsertReplacing(table, entry) == {e \in table : e.id # entry.id} \cup {entry}

UpdateOnly(table, entry) ==
    {IF e.id = entry.id THEN [e EXCEPT !.notes = entry.notes] ELSE e : e \in table}

Upsert(table, entry) ==
    IF entry.id \in IdsOf(table)
    THEN {IF e.id = entry.id THEN [e EXCEPT !.notes = entry.notes] ELSE e : e \in table}
    ELSE table \cup {entry}

(* tokens_by_id[token_id] = stored. *)
PutText(entries, entry) == {e \in entries : e.id # entry.id} \cup {entry.text}

Put(entries, entry) == {e \in entries : e.id # entry.id} \cup {entry}

(* _save_callback_token, then the token is returned.  A save that raises    *)
(* leaves the bucket as it is and returns no token.                         *)
Token(session, entry) == [session |-> session, id |-> entry.id, text |-> entry.text]

Save(session, entry) ==
    /\ stored' = stored \cup {Token(session, entry)}
    /\ \/ /\ rows' = [rows EXCEPT ![session] = Upsert(@, entry)]
          /\ issued' = issued \cup {Token(session, entry)}
          /\ unsaved' = unsaved \ {Token(session, entry)}
       \/ /\ SavesFail
          /\ unsaved' = IF entry.id \in IdsOf(rows[session]) THEN unsaved
                        ELSE unsaved \cup {Token(session, entry)}
          /\ UNCHANGED <<rows, issued>>

SaveAndReturn(session, entry) ==
    IF session \in Sessions THEN Save(session, entry)
    ELSE UNCHANGED <<rows, stored, issued, unsaved>>

(* The token of a text the bucket already holds, returned without a save. *)
Return(session, entry) ==
    /\ issued' = IF session \in Sessions THEN issued \cup {Token(session, entry)} ELSE issued
    /\ UNCHANGED <<rows, stored, unsaved>>

-----------------------------------------------------------------------------
Init ==
    /\ ctx = [c \in Tasks |-> FreshContext]
    /\ counted = [c \in Tasks |-> 0]
    /\ buckets = [r \in Refs |-> {}]
    /\ counters = [r \in Refs |-> 1]
    /\ rows = [s \in Sessions |-> {}]
    /\ stored = {}
    /\ issued = {}
    /\ unsaved = {}
    /\ clock = 0

(* run_prompt_turn of the CLI: begin_callback_token_tracking and, before    *)
(* anything else runs, stream_events binds the session.  The tasks of the   *)
(* previous turn have ended, and a turn takes more than a millisecond.      *)
BeginTurn(c, s, r) ==
    /\ c \in CliTasks
    /\ clock < MaxClock
    /\ ctx[c].numbers # NoRef =>
         \A d \in Tasks \ {c} : ctx[d].numbers # ctx[c].numbers
    /\ ctx' = [ctx EXCEPT ![c] = [session |-> s, bucket |-> r, numbers |-> r]]
    /\ counted' = [counted EXCEPT ![c] = CharacterCount(rows[s])]
    /\ buckets' = [buckets EXCEPT ![r] = rows[s]]
    /\ counters' = [counters EXCEPT ![r] = 1]
    /\ clock' = clock + 1
    /\ UNCHANGED <<rows, stored, issued, unsaved>>

(* asyncio copies the context of the task that starts another: references   *)
(* are shared, the count is copied.                                         *)
StartTask(c, d) ==
    /\ ctx[c] # FreshContext
    /\ d \in Tasks \ CliTasks
    /\ ctx[d] = FreshContext
    /\ ctx' = [ctx EXCEPT ![d] = ctx[c]]
    /\ counted' = [counted EXCEPT ![d] = counted[c]]
    /\ UNCHANGED <<buckets, counters, rows, stored, issued, unsaved, clock>>

(* A task returns, is cancelled by a timeout, or dies; the end of the main  *)
(* task of the CLI ends its process, with every task of the turn.           *)
EndingWith(c) ==
    {c} \cup (IF c \in CliTasks THEN {d \in Tasks : ctx[d].numbers = ctx[c].numbers} ELSE {})

EndTask(c) ==
    /\ ctx[c] # FreshContext
    /\ ctx' = [d \in Tasks |-> IF d \in EndingWith(c) THEN FreshContext ELSE ctx[d]]
    /\ counted' = [d \in Tasks |-> IF d \in EndingWith(c) THEN 0 ELSE counted[d]]
    /\ UNCHANGED <<buckets, counters, rows, stored, issued, unsaved, clock>>

(* The callbacks that bind a task to its session, list, preview and recall, *)
(* and a store that is refused: all they change is the binding.             *)
UseSession(c, s, r) ==
    /\ Running(c)
    /\ ~Attached(c, s)
    /\ ctx' = [ctx EXCEPT ![c] = Opened(c, s, r)]
    /\ counted' = [counted EXCEPT ![c] = Count(c, s)]
    /\ buckets' = [buckets EXCEPT ![r] = Tokens(c, s)]
    /\ counters' = IF s = NoSession THEN [counters EXCEPT ![r] = 1] ELSE counters
    /\ UNCHANGED <<rows, stored, issued, unsaved, clock>>

(* _new_callback_token_id *)
IdByTime(number) == <<1, clock>>

NewId(number) == <<number, clock>>

(* _callback_token_id_for_text *)
Known(c, s, text) == \E e \in Tokens(c, s) : e.text = text

(* The limit, against what this context has counted. *)
Fits(c, s, text) == Count(c, s) + Length[text] <= CharacterLimit

(* _store_callback_token for a text the bucket does not hold. *)
StoreNew(c, s, text, notes, r) ==
    LET opened  == Opened(c, s, r)
        counter == IF opened.numbers = NoRef THEN r ELSE opened.numbers
        number  == IF counter = r THEN 1 ELSE counters[counter]
        entry   == [id |-> NewId(number), text |-> text, notes |-> notes]
    IN  /\ Running(c)
        /\ Length[text] >= MinimumLength
        /\ ~Known(c, s, text)
        /\ Fits(c, s, text)
        /\ number <= MaxNumber
        /\ ctx' = [ctx EXCEPT ![c] = [opened EXCEPT !.numbers = counter]]
        /\ counted' = [counted EXCEPT ![c] = Count(c, s) + Length[text]]
        /\ counters' = [counters EXCEPT ![counter] = number + 1]
        /\ buckets' = [buckets EXCEPT ![opened.bucket] = Put(Tokens(c, s), entry)]
        /\ SaveAndReturn(opened.session, entry)
        /\ UNCHANGED clock

(* The fields a stored entry lacks are filled in, none is replaced.         *)
Filled(entry, notes) == [entry EXCEPT !.notes = @ \cup notes]

(* _store_callback_token for a text the bucket holds: its token is returned,*)
(* after the fields it lacks are filled in and saved.                       *)
StoreKnown(c, s, text, notes, r) ==
    LET opened == Opened(c, s, r)
    IN  /\ Running(c)
        /\ Length[text] >= MinimumLength
        /\ ctx' = [ctx EXCEPT ![c] = opened]
        /\ counted' = [counted EXCEPT ![c] = Count(c, s)]
        /\ counters' = IF opened.numbers = r THEN [counters EXCEPT ![r] = 1] ELSE counters
        /\ \E e \in {f \in Tokens(c, s) : f.text = text} :
             LET entry == Filled(e, notes)
             IN  /\ buckets' = [buckets EXCEPT ![opened.bucket] = Put(Tokens(c, s), entry)]
                 /\ IF notes \subseteq e.notes
                    THEN Return(opened.session, entry)
                    ELSE SaveAndReturn(opened.session, entry)
        /\ UNCHANGED clock

(* expand_callback_tokens_for_session: a token missing from the bucket      *)
(* reloads it into a new dict, for this task only.                          *)
Expand(c, s, id, r) ==
    /\ Running(c)
    /\ id \notin IdsOf(Tokens(c, s))
    /\ ctx' = [ctx EXCEPT ![c] =
                  [session |-> s, bucket |-> r, numbers |-> ctx[c].numbers]]
    /\ counted' = [counted EXCEPT ![c] = CharacterCount(rows[s])]
    /\ buckets' = [buckets EXCEPT ![r] = rows[s]]
    /\ UNCHANGED <<counters, rows, stored, issued, unsaved, clock>>

Tick ==
    /\ clock < MaxClock
    /\ clock' = clock + 1
    /\ UNCHANGED <<ctx, counted, buckets, counters, rows, stored, issued, unsaved>>

(* An id that is no token: the model mistyped it. *)
MistypedId == <<0, 0>>

Next ==
    \/ \E c \in Tasks, r \in NewRefs :
        \/ \E s \in Sessions : BeginTurn(c, s, r)
        \/ \E s \in Callers :
            \/ UseSession(c, s, r)
            \/ \E text \in Texts, notes \in SUBSET Fields :
                StoreNew(c, s, text, notes, r) \/ StoreKnown(c, s, text, notes, r)
        \/ \E s \in Sessions, id \in IdsOf(issued) \cup {MistypedId} : Expand(c, s, id, r)
    \/ \E c \in Tasks, d \in Tasks : StartTask(c, d)
    \/ \E c \in Tasks : EndTask(c)
    \/ Tick

Spec == Init /\ [][Next]_vars

-----------------------------------------------------------------------------
TypeOK ==
    /\ ctx \in [Tasks -> Context]
    /\ buckets \in [Refs -> SUBSET Entry]
    /\ counters \in [Refs -> Nat]
    /\ rows \in [Sessions -> SUBSET Entry]
    /\ stored \in SUBSET TokenSet
    /\ issued \in SUBSET TokenSet
    /\ unsaved \in SUBSET TokenSet
    /\ clock \in Nat

(* "A lookup cannot read another session's text" (module docstring): output *)
(* of a session only ever shows text some store put under that token of     *)
(* that very session, whatever sessions the task was bound to before.       *)
SessionIsolation ==
    \A c \in Tasks, s \in Sessions, id \in IdsOf(stored) :
        \A text \in Shown(c, s, id) : [session |-> s, id |-> id, text |-> text] \in stored

(* A token a model was given is replaced by a text wherever it is shown: in *)
(* any task of any process, bound to the session before or after the store, *)
(* and after restarts; unless sqlite refused to save it.                    *)
IssuedTokensAreShown ==
    \A i \in issued \ unsaved, c \in Tasks : Shown(c, i.session, i.id) # {}

(* ... and the text shown is the one that was stored: "token values are     *)
(* immutable" (expand_callback_tokens_for_session).                         *)
IssuedTokensKeepTheirText ==
    \A i \in issued, c \in Tasks : Shown(c, i.session, i.id) \subseteq {i.text}

(* A token handed to a model is a row of session.db, so that the next turn, *)
(* the transcript and the web server can read it.  A save that raises costs *)
(* the token it was to save, which the dict holds and a second store of the *)
(* text returns, and no other: neither one that shares its dict, counter or *)
(* text, nor one whose notes were to be saved.                              *)
IssuedTokensAreKept ==
    \A i \in issued : i.id \in IdsOf(rows[i.session]) \/ i \in unsaved

(* A row, once written, keeps its id and its text, whoever saves after.     *)
RowsKeepTheirText ==
    [][\A s \in Sessions : \A e \in rows[s] :
          \E f \in rows'[s] : f.id = e.id /\ f.text = e.text]_vars

(* "Up to 10 MB per session" (module docstring): what session.db keeps of a *)
(* session stays within the limit.                                          *)
SessionWithinCharacterLimit ==
    \A s \in Sessions : CharacterCount(rows[s]) <= CharacterLimit

=============================================================================
