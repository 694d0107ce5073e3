------------------------ MODULE CallbackTokensProofs ------------------------
(***************************************************************************)
(* Proofs about CallbackTokens, for any tasks, sessions, texts and bounds: *)
(* that sessions are apart and rows keep their text, whatever saves fail   *)
(* that a token given to a model is kept and shown unless its own save has *)
(* failed, and that it keeps its text.                                     *)
(***************************************************************************)
EXTENDS CallbackTokens, TLAPS

(* A task has a bucket exactly when it has a session. *)
BucketWithSession ==
    \A c \in Tasks : ctx[c].bucket = NoRef <=> ctx[c].session = NoSession

(* Tasks that share a dict are bound to the same session.                  *)
SharedBucketSameSession ==
    \A c, d \in Tasks :
        ctx[c].bucket # NoRef /\ ctx[c].bucket = ctx[d].bucket
            => ctx[c].session = ctx[d].session

(* Whatever a bucket of a kept session, or its rows, hold was stored there. *)
BucketsHoldStoredTexts ==
    \A c \in Tasks : ctx[c].session \in Sessions =>
        \A e \in buckets[ctx[c].bucket] : Token(ctx[c].session, e) \in stored

RowsHoldStoredTexts ==
    \A s \in Sessions : \A e \in rows[s] : Token(s, e) \in stored

Inv ==
    /\ TypeOK
    /\ BucketWithSession
    /\ SharedBucketSameSession
    /\ BucketsHoldStoredTexts
    /\ RowsHoldStoredTexts

-----------------------------------------------------------------------------
(* A reference a load allocates is held by no task. *)
LEMMA NewRefsUnused ==
    ASSUME NEW r \in NewRefs, NEW c \in Tasks
    PROVE  r \in Refs /\ ctx[c].bucket # r /\ ctx[c].numbers # r
BY DEF NewRefs, UnusedRefs

(* What a call reads after binding to a session is entries. *)
LEMMA TokensType ==
    ASSUME TypeOK, NEW c \in Tasks, NEW s \in Sessions \cup {NoSession}
    PROVE  Tokens(c, s) \in SUBSET Entry
BY ValuesAssumption DEF TypeOK, Tokens, Attached, Context

LEMMA OpenedType ==
    ASSUME TypeOK, NEW c \in Tasks, NEW s \in Sessions \cup {NoSession},
           NEW r \in NewRefs
    PROVE  Opened(c, s, r) \in Context
<1>1. ctx[c] \in Context /\ r \in Refs
  BY DEF TypeOK, NewRefs, UnusedRefs
<1> QED
  BY <1>1 DEF Opened, Context

(* A save keeps every row, id and text. *)
LEMMA UpsertKeeps ==
    ASSUME NEW table \in SUBSET Entry, NEW entry \in Entry
    PROVE  /\ Upsert(table, entry) \in SUBSET Entry
           /\ entry.id \in IdsOf(Upsert(table, entry))
           /\ \A e \in table : \E f \in Upsert(table, entry) :
                 f.id = e.id /\ f.text = e.text
           /\ \A f \in Upsert(table, entry) :
                 f = entry \/ \E e \in table : f.id = e.id /\ f.text = e.text
<1> DEFINE Saved(e) == IF e.id = entry.id THEN [e EXCEPT !.notes = entry.notes] ELSE e
<1>1. ASSUME NEW e \in Entry
      PROVE  Saved(e) \in Entry /\ Saved(e).id = e.id /\ Saved(e).text = e.text
  BY DEF Entry
<1>2. CASE entry.id \in IdsOf(table)
  <2>1. Upsert(table, entry) = {Saved(e) : e \in table}
    BY <1>2 DEF Upsert
  <2>2. PICK old \in table : old.id = entry.id
    BY <1>2 DEF IdsOf
  <2>3. Saved(old) \in Upsert(table, entry) /\ Saved(old).id = entry.id
    BY <1>1, <2>1, <2>2
  <2>4. entry.id \in IdsOf(Upsert(table, entry))
    BY <2>3 DEF IdsOf
  <2> HIDE DEF Saved
  <2> QED
    BY <1>1, <2>1, <2>4
<1>3. CASE entry.id \notin IdsOf(table)
  <2>1. Upsert(table, entry) = table \cup {entry}
    BY <1>3 DEF Upsert
  <2> QED
    BY <2>1 DEF IdsOf
<1> QED
  BY <1>2, <1>3

-----------------------------------------------------------------------------
(* What a call reads was stored under the session it is bound to. *)
LEMMA TokensWereStored ==
    ASSUME Inv, NEW c \in Tasks, NEW s \in Sessions \cup {NoSession}, NEW r \in NewRefs,
           Opened(c, s, r).session \in Sessions, NEW e \in Tokens(c, s)
    PROVE  Token(Opened(c, s, r).session, e) \in stored
<1>1. ctx[c] \in Context
  BY DEF Inv, TypeOK
<1>2. CASE Attached(c, s)
  BY <1>2 DEF Opened, Tokens, Inv, BucketsHoldStoredTexts
<1>3. CASE ~Attached(c, s) /\ s = NoSession
  BY <1>3, ValuesAssumption DEF Opened, Tokens
<1>4. CASE ~Attached(c, s) /\ s \in Sessions
  <2>1. Opened(c, s, r).session = s /\ Tokens(c, s) = rows[s]
    BY <1>1, <1>4, ValuesAssumption DEF Opened, Tokens, Context
  <2> QED
    BY <2>1, <1>4 DEF Inv, RowsHoldStoredTexts
<1> QED
  BY <1>2, <1>3, <1>4

(* Saving a token, or failing to, keeps what is stored, and the rows and    *)
(* the tokens issued are tokens of the session.                             *)
LEMMA SaveKeepsRows ==
    ASSUME Inv, NEW session \in Sessions \cup {Ephemeral}, NEW entry \in Entry,
           SaveAndReturn(session, entry)
    PROVE  /\ rows' \in [Sessions -> SUBSET Entry]
           /\ stored' \in SUBSET TokenSet
           /\ issued' \in SUBSET TokenSet
           /\ unsaved' \in SUBSET TokenSet
           /\ stored \subseteq stored'
           /\ session \in Sessions => Token(session, entry) \in stored'
           /\ RowsHoldStoredTexts'
<1>1. CASE session \notin Sessions
  BY <1>1 DEF SaveAndReturn, Inv, TypeOK, RowsHoldStoredTexts
<1>2. CASE session \in Sessions
  <2>1. Token(session, entry) \in TokenSet
    BY <1>2 DEF Token, TokenSet, Entry
  <2>2. stored' = stored \cup {Token(session, entry)}
    BY <1>2 DEF SaveAndReturn, Save
  <2>3. issued' \in SUBSET TokenSet /\ unsaved' \in SUBSET TokenSet
    BY <1>2, <2>1 DEF SaveAndReturn, Save, Inv, TypeOK
  <2>4. rows[session] \in SUBSET Entry
    BY <1>2 DEF Inv, TypeOK
  <2>5. /\ rows' \in [Sessions -> SUBSET Entry]
        /\ \A s \in Sessions : rows'[s] = rows[s] \/ (s = session /\ rows'[s] = Upsert(rows[s], entry))
    <3>1. Upsert(rows[session], entry) \in SUBSET Entry
      BY <2>4, UpsertKeeps
    <3>2. rows' = rows \/ rows' = [rows EXCEPT ![session] = Upsert(rows[session], entry)]
      BY <1>2 DEF SaveAndReturn, Save
    <3>3. rows \in [Sessions -> SUBSET Entry]
      BY DEF Inv, TypeOK
    <3>4. CASE rows' = rows
      BY <3>3, <3>4
    <3>5. CASE rows' = [rows EXCEPT ![session] = Upsert(rows[session], entry)]
      BY <1>2, <3>1, <3>3, <3>5
    <3> QED
      BY <3>2, <3>4, <3>5
  <2>6. ASSUME NEW s \in Sessions, NEW f \in rows'[s]
        PROVE  Token(s, f) \in stored'
    <3>1. CASE rows'[s] = rows[s]
      BY <3>1, <2>2, <2>6 DEF Inv, RowsHoldStoredTexts
    <3>2. CASE s = session /\ rows'[s] = Upsert(rows[s], entry)
      <4>1. f = entry \/ \E e \in rows[s] : f.id = e.id /\ f.text = e.text
        BY <3>2, <2>4, <2>6, UpsertKeeps
      <4> QED
        BY <4>1, <3>2, <2>2 DEF Inv, RowsHoldStoredTexts, Token
    <3> QED
      BY <3>1, <3>2, <2>5
  <2> QED
    BY <2>1, <2>2, <2>3, <2>5, <2>6 DEF Inv, TypeOK, RowsHoldStoredTexts
<1> QED
  BY <1>1, <1>2

(* Putting an entry in the bucket a call opened keeps every bucket within   *)
(* what was stored under its session, shared or not.                        *)
LEMMA PutKeepsBuckets ==
    ASSUME Inv, NEW c \in Tasks, NEW s \in Sessions \cup {NoSession}, NEW r \in NewRefs,
           NEW counter \in Refs \cup {NoRef}, NEW entry \in Entry,
           ctx' = [ctx EXCEPT ![c] = [Opened(c, s, r) EXCEPT !.numbers = counter]],
           buckets' = [buckets EXCEPT ![Opened(c, s, r).bucket] = Put(Tokens(c, s), entry)],
           stored \subseteq stored',
           Opened(c, s, r).session \in Sessions =>
               Token(Opened(c, s, r).session, entry) \in stored'
    PROVE  /\ ctx' \in [Tasks -> Context]
           /\ buckets' \in [Refs -> SUBSET Entry]
           /\ BucketWithSession'
           /\ SharedBucketSameSession'
           /\ BucketsHoldStoredTexts'
<1> DEFINE o == Opened(c, s, r)
<1>1. /\ o \in Context
      /\ ctx \in [Tasks -> Context]
      /\ buckets \in [Refs -> SUBSET Entry]
      /\ r \in Refs
      /\ NoRef \notin Refs
  BY OpenedType, ValuesAssumption DEF Inv, TypeOK, NewRefs, UnusedRefs
<1>2. o.bucket \in Refs /\ o.session # NoSession
  BY <1>1, ValuesAssumption DEF Opened, Attached, Inv, BucketWithSession, Context
<1>3. \A d \in Tasks \ {c} :
        ctx[d].bucket = o.bucket => o.bucket = ctx[c].bucket /\ ctx[d].session = o.session
  <2>1. CASE Attached(c, s)
    BY <2>1, <1>2, ValuesAssumption DEF Opened, Attached, Inv, SharedBucketSameSession
  <2>2. CASE ~Attached(c, s)
    BY <2>2, <1>1, NewRefsUnused DEF Opened, Context
  <2> QED
    BY <2>1, <2>2
<1>4. Put(Tokens(c, s), entry) \in SUBSET Entry
  BY TokensType DEF Put, Inv
<1>5. /\ ctx'[c].bucket = o.bucket /\ ctx'[c].session = o.session
      /\ \A d \in Tasks \ {c} : ctx'[d] = ctx[d]
      /\ ctx' \in [Tasks -> Context]
  BY <1>1 DEF Context
<1>6. /\ buckets' \in [Refs -> SUBSET Entry]
      /\ buckets'[o.bucket] = Put(Tokens(c, s), entry)
      /\ \A q \in Refs \ {o.bucket} : buckets'[q] = buckets[q]
  BY <1>1, <1>2, <1>4
<1>7. \A e \in Put(Tokens(c, s), entry) :
        o.session \in Sessions => Token(o.session, e) \in stored'
  BY TokensWereStored DEF Put
<1> HIDE DEF o
<1>8. BucketWithSession'
  BY <1>1, <1>2, <1>5 DEF BucketWithSession, Inv
<1>9. SharedBucketSameSession'
  BY <1>3, <1>5 DEF SharedBucketSameSession, Inv
<1>10. BucketsHoldStoredTexts'
  <2> SUFFICES ASSUME NEW d \in Tasks, ctx'[d].session \in Sessions,
                      NEW e \in buckets'[ctx'[d].bucket]
               PROVE  Token(ctx'[d].session, e) \in stored'
    BY DEF BucketsHoldStoredTexts
  <2>1. CASE ctx'[d].bucket = o.bucket
    BY <2>1, <1>3, <1>5, <1>6, <1>7
  <2>2. CASE ctx'[d].bucket # o.bucket
    <3>1. d # c /\ ctx'[d] = ctx[d] /\ ctx[d].bucket \in Refs
      BY <2>2, <1>1, <1>5, ValuesAssumption DEF Inv, BucketWithSession, Context
    <3> QED
      BY <2>2, <3>1, <1>6 DEF Inv, BucketsHoldStoredTexts
  <2> QED
    BY <2>1, <2>2
<1> QED
  BY <1>5, <1>6, <1>8, <1>9, <1>10

-----------------------------------------------------------------------------
LEMMA InitInv == Init => Inv
BY ValuesAssumption
   DEF Init, Inv, TypeOK, FreshContext, Context, BucketWithSession,
       SharedBucketSameSession, BucketsHoldStoredTexts, RowsHoldStoredTexts

(* A task bound to the rows of a session in a new dict. *)
LEMMA LoadKeepsBuckets ==
    ASSUME Inv, NEW c \in Tasks, NEW session \in Sessions \cup {Ephemeral},
           NEW r \in NewRefs, NEW numbers \in Refs \cup {NoRef},
           NEW entries \in SUBSET Entry,
           session \in Sessions => entries = rows[session],
           ctx' = [ctx EXCEPT ![c] =
                     [session |-> session, bucket |-> r, numbers |-> numbers]],
           buckets' = [buckets EXCEPT ![r] = entries],
           UNCHANGED <<rows, stored, issued, unsaved>>
    PROVE  /\ ctx' \in [Tasks -> Context]
           /\ buckets' \in [Refs -> SUBSET Entry]
           /\ BucketWithSession'
           /\ SharedBucketSameSession'
           /\ BucketsHoldStoredTexts'
           /\ RowsHoldStoredTexts'
<1>1. /\ ctx \in [Tasks -> Context]
      /\ buckets \in [Refs -> SUBSET Entry]
      /\ r \in Refs /\ NoRef \notin Refs
      /\ \A d \in Tasks : ctx[d].bucket # r
  BY NewRefsUnused, ValuesAssumption DEF Inv, TypeOK
<1>2. /\ ctx'[c].bucket = r /\ ctx'[c].session = session
      /\ \A d \in Tasks \ {c} : ctx'[d] = ctx[d]
      /\ ctx' \in [Tasks -> Context]
  BY <1>1 DEF Context
<1>3. /\ buckets'[r] = entries
      /\ \A q \in Refs \ {r} : buckets'[q] = buckets[q]
      /\ buckets' \in [Refs -> SUBSET Entry]
  BY <1>1
<1>4. BucketWithSession'
  BY <1>1, <1>2, ValuesAssumption DEF BucketWithSession, Inv
<1>5. SharedBucketSameSession'
  BY <1>1, <1>2 DEF SharedBucketSameSession, Inv
<1>6. RowsHoldStoredTexts'
  BY DEF RowsHoldStoredTexts, Inv
<1>7. BucketsHoldStoredTexts'
  <2> SUFFICES ASSUME NEW d \in Tasks, ctx'[d].session \in Sessions,
                      NEW e \in buckets'[ctx'[d].bucket]
               PROVE  Token(ctx'[d].session, e) \in stored
    BY DEF BucketsHoldStoredTexts
  <2>1. CASE d = c
    BY <2>1, <1>2, <1>3 DEF Inv, RowsHoldStoredTexts
  <2>2. CASE d # c
    <3>1. ctx'[d] = ctx[d] /\ ctx[d].bucket \in Refs \ {r}
      BY <2>2, <1>1, <1>2, ValuesAssumption DEF Inv, BucketWithSession, Context
    <3> QED
      BY <3>1, <1>3 DEF Inv, BucketsHoldStoredTexts
  <2> QED
    BY <2>1, <2>2
<1> QED
  BY <1>2, <1>3, <1>4, <1>5, <1>6, <1>7

LEMMA NextInv == Inv /\ [Next]_vars => Inv'
<1> SUFFICES ASSUME Inv, [Next]_vars PROVE Inv'
  OBVIOUS
<1> USE DEF Inv
<1>0. /\ ctx \in [Tasks -> Context] /\ buckets \in [Refs -> SUBSET Entry]
      /\ counters \in [Refs -> Nat] /\ rows \in [Sessions -> SUBSET Entry]
      /\ stored \in SUBSET TokenSet /\ issued \in SUBSET TokenSet
      /\ unsaved \in SUBSET TokenSet /\ clock \in Nat
  BY DEF TypeOK
<1>1. ASSUME NEW c \in Tasks, NEW r \in NewRefs, NEW s \in Sessions, BeginTurn(c, s, r)
      PROVE  Inv'
  <2>1. r \in Refs
    BY DEF NewRefs, UnusedRefs
  <2>2. counters' \in [Refs -> Nat] /\ clock' \in Nat /\ UNCHANGED <<rows, stored, issued, unsaved>>
    BY <1>0, <1>1, <2>1 DEF BeginTurn
  <2>3. /\ ctx' = [ctx EXCEPT ![c] = [session |-> s, bucket |-> r, numbers |-> r]]
        /\ buckets' = [buckets EXCEPT ![r] = rows[s]]
    BY <1>1 DEF BeginTurn
  <2>4. rows[s] \in SUBSET Entry
    BY <1>0
  <2> QED
    BY <1>0, <2>1, <2>2, <2>3, <2>4, LoadKeepsBuckets DEF TypeOK
<1>2. ASSUME NEW c \in Tasks, NEW r \in NewRefs, NEW s \in Callers, UseSession(c, s, r)
      PROVE  Inv'
  <2>1. r \in Refs /\ s \in Sessions \cup {NoSession}
    BY ValuesAssumption DEF NewRefs, UnusedRefs
  <2>2. counters' \in [Refs -> Nat] /\ clock' \in Nat /\ UNCHANGED <<rows, stored, issued, unsaved>>
    BY <1>0, <1>2, <2>1 DEF UseSession
  <2>3. PICK session \in Sessions \cup {Ephemeral}, numbers \in Refs \cup {NoRef} :
          /\ Opened(c, s, r) = [session |-> session, bucket |-> r, numbers |-> numbers]
          /\ session \in Sessions => Tokens(c, s) = rows[session]
    <3>1. CASE s = NoSession
      BY <3>1, <1>2, <2>1, ValuesAssumption DEF UseSession, Opened
    <3>2. CASE s \in Sessions
      <4>1. ctx[c] \in Context /\ s # NoSession
        BY <1>0, <3>2, ValuesAssumption
      <4>2. Opened(c, s, r) = [session |-> s, bucket |-> r, numbers |-> ctx[c].numbers]
        BY <1>2, <4>1 DEF UseSession, Opened, Context
      <4>3. Tokens(c, s) = rows[s]
        BY <1>2, <4>1 DEF UseSession, Tokens
      <4> QED
        BY <3>2, <4>1, <4>2, <4>3 DEF Context
    <3> QED
      BY <2>1, <3>1, <3>2
  <2>4. Tokens(c, s) \in SUBSET Entry
    BY <2>1, TokensType
  <2>5. /\ ctx' = [ctx EXCEPT ![c] = [session |-> session, bucket |-> r, numbers |-> numbers]]
        /\ buckets' = [buckets EXCEPT ![r] = Tokens(c, s)]
    BY <1>2, <2>3 DEF UseSession
  <2> QED
    BY <1>0, <2>1, <2>2, <2>3, <2>4, <2>5, LoadKeepsBuckets DEF TypeOK
<1>3. ASSUME NEW c \in Tasks, NEW r \in NewRefs, NEW s \in Callers,
             NEW text \in Texts, NEW notes \in SUBSET Fields, StoreNew(c, s, text, notes, r)
      PROVE  Inv'
  <2> DEFINE o == Opened(c, s, r)
             counter == IF o.numbers = NoRef THEN r ELSE o.numbers
             number == IF counter = r THEN 1 ELSE counters[counter]
             entry == [id |-> <<number, clock>>, text |-> text, notes |-> notes]
  <2>1. r \in Refs /\ s \in Sessions \cup {NoSession}
    BY ValuesAssumption DEF NewRefs, UnusedRefs
  <2>2. o \in Context /\ counter \in Refs /\ number \in Nat /\ entry \in Entry
    BY <1>0, <2>1, OpenedType DEF Context, Entry, Ids
  <2>3. /\ ctx' = [ctx EXCEPT ![c] = [o EXCEPT !.numbers = counter]]
        /\ buckets' = [buckets EXCEPT ![o.bucket] = Put(Tokens(c, s), entry)]
        /\ counters' = [counters EXCEPT ![counter] = number + 1]
        /\ SaveAndReturn(o.session, entry)
        /\ clock' = clock
    BY <1>3 DEF StoreNew, NewId
  <2>4. o.session \in Sessions \cup {Ephemeral}
    BY <1>0, <2>1, ValuesAssumption DEF Opened, Attached, BucketWithSession, Context
  <2> HIDE DEF counter, number, entry
  <2>5. /\ rows' \in [Sessions -> SUBSET Entry] /\ stored' \in SUBSET TokenSet
        /\ issued' \in SUBSET TokenSet /\ unsaved' \in SUBSET TokenSet
        /\ stored \subseteq stored'
        /\ o.session \in Sessions => Token(o.session, entry) \in stored'
        /\ RowsHoldStoredTexts'
    <3> HIDE DEF o
    <3> QED
      BY <2>2, <2>3, <2>4, SaveKeepsRows
  <2>6. counters' \in [Refs -> Nat] /\ clock' \in Nat
    BY <1>0, <2>2, <2>3
  <2>7. /\ ctx' \in [Tasks -> Context] /\ buckets' \in [Refs -> SUBSET Entry]
        /\ BucketWithSession' /\ SharedBucketSameSession' /\ BucketsHoldStoredTexts'
    BY <2>1, <2>2, <2>3, <2>5, PutKeepsBuckets
  <2> QED
    BY <2>5, <2>6, <2>7 DEF TypeOK
<1>4. ASSUME NEW c \in Tasks, NEW r \in NewRefs, NEW s \in Callers,
             NEW text \in Texts, NEW notes \in SUBSET Fields, StoreKnown(c, s, text, notes, r)
      PROVE  Inv'
  <2> DEFINE o == Opened(c, s, r)
  <2>1. r \in Refs /\ s \in Sessions \cup {NoSession}
    BY ValuesAssumption DEF NewRefs, UnusedRefs
  <2>2. PICK e \in Tokens(c, s) :
          LET entry == [e EXCEPT !.notes = @ \cup notes]
          IN  /\ buckets' = [buckets EXCEPT ![o.bucket] = Put(Tokens(c, s), entry)]
              /\ IF notes \subseteq e.notes THEN Return(o.session, entry)
                 ELSE SaveAndReturn(o.session, entry)
    BY <1>4 DEF StoreKnown, Filled
  <2> DEFINE entry == [e EXCEPT !.notes = @ \cup notes]
  <2>3. e \in Entry
    BY <2>1, TokensType
  <2>4. entry \in Entry /\ entry.id = e.id /\ entry.text = e.text
    BY <2>3 DEF Entry
  <2>5. o \in Context /\ o.session \in Sessions \cup {Ephemeral}
    <3>1. o \in Context
      BY <2>1, OpenedType
    <3>2. o.session \in Sessions \cup {Ephemeral}
      BY <1>0, <2>1, ValuesAssumption DEF Opened, Attached, BucketWithSession, Context
    <3> QED
      BY <3>1, <3>2
  <2>6. ctx' = [ctx EXCEPT ![c] = [o EXCEPT !.numbers = o.numbers]]
    BY <1>4, <2>5 DEF StoreKnown, Context
  <2>7. /\ buckets' = [buckets EXCEPT ![o.bucket] = Put(Tokens(c, s), entry)]
        /\ Return(o.session, entry) \/ SaveAndReturn(o.session, entry)
    BY <2>2
  <2> HIDE DEF entry
  <2>8. /\ rows' \in [Sessions -> SUBSET Entry] /\ stored' \in SUBSET TokenSet
        /\ issued' \in SUBSET TokenSet /\ unsaved' \in SUBSET TokenSet
        /\ stored \subseteq stored'
        /\ o.session \in Sessions => Token(o.session, entry) \in stored'
        /\ RowsHoldStoredTexts'
    <3>1. CASE SaveAndReturn(o.session, entry)
      <4> HIDE DEF o
      <4> QED
        BY <3>1, <2>4, <2>5, SaveKeepsRows
    <3>2. CASE Return(o.session, entry)
      <4>1. o.session \in Sessions => Token(o.session, e) \in stored
        BY <2>1, TokensWereStored
      <4>2. Token(o.session, entry) = Token(o.session, e)
        BY <2>4 DEF Token
      <4> HIDE DEF o
      <4> QED
        BY <1>0, <3>2, <4>1, <4>2 DEF Return, RowsHoldStoredTexts
    <3> QED
      BY <2>7, <3>1, <3>2
  <2>9. counters' \in [Refs -> Nat] /\ clock' \in Nat
    BY <1>0, <1>4, <2>1 DEF StoreKnown
  <2>10. /\ ctx' \in [Tasks -> Context] /\ buckets' \in [Refs -> SUBSET Entry]
         /\ BucketWithSession' /\ SharedBucketSameSession' /\ BucketsHoldStoredTexts'
    <3>1. o.numbers \in Refs \cup {NoRef}
      BY <2>5 DEF Context
    <3> QED
      BY <2>1, <2>4, <2>6, <2>7, <2>8, <3>1, PutKeepsBuckets
  <2> QED
    BY <2>8, <2>9, <2>10 DEF TypeOK
<1>5. ASSUME NEW c \in Tasks, NEW r \in NewRefs, NEW s \in Sessions, NEW id, Expand(c, s, id, r)
      PROVE  Inv'
  <2>1. ctx[c] \in Context /\ ctx[c].numbers \in Refs \cup {NoRef}
    BY <1>0 DEF Context
  <2>2. /\ ctx' = [ctx EXCEPT ![c] = [session |-> s, bucket |-> r, numbers |-> ctx[c].numbers]]
        /\ buckets' = [buckets EXCEPT ![r] = rows[s]]
        /\ UNCHANGED <<counters, rows, stored, issued, unsaved, clock>>
    BY <1>5 DEF Expand
  <2>3. rows[s] \in SUBSET Entry
    BY <1>0
  <2> QED
    BY <1>0, <2>1, <2>2, <2>3, LoadKeepsBuckets DEF TypeOK
<1>6. ASSUME NEW c \in Tasks, NEW d \in Tasks, StartTask(c, d)
      PROVE  Inv'
  <2>1. /\ ctx' = [ctx EXCEPT ![d] = ctx[c]]
        /\ UNCHANGED <<buckets, counters, rows, stored, issued, unsaved, clock>>
    BY <1>6 DEF StartTask
  <2>2. /\ ctx' \in [Tasks -> Context]
        /\ \A b \in Tasks : ctx'[b] = IF b = d THEN ctx[c] ELSE ctx[b]
    BY <1>0, <2>1
  <2> QED
    BY <1>0, <2>1, <2>2
    DEF TypeOK, BucketWithSession, SharedBucketSameSession, BucketsHoldStoredTexts,
        RowsHoldStoredTexts
<1>7. ASSUME NEW c \in Tasks, EndTask(c)
      PROVE  Inv'
  <2>1. UNCHANGED <<buckets, counters, rows, stored, issued, unsaved, clock>>
    BY <1>7 DEF EndTask
  <2>2. \A b \in Tasks : ctx'[b] = FreshContext \/ ctx'[b] = ctx[b]
    BY <1>7 DEF EndTask
  <2>3. FreshContext \in Context /\ FreshContext.bucket = NoRef /\ FreshContext.session = NoSession
    BY DEF FreshContext, Context
  <2>4. ctx' \in [Tasks -> Context]
    BY <1>0, <1>7, <2>2, <2>3 DEF EndTask
  <2>5. BucketWithSession' /\ SharedBucketSameSession'
    BY <2>2, <2>3 DEF BucketWithSession, SharedBucketSameSession
  <2>6. BucketsHoldStoredTexts' /\ RowsHoldStoredTexts'
    BY <2>1, <2>2, <2>3, ValuesAssumption DEF BucketsHoldStoredTexts, RowsHoldStoredTexts
  <2> QED
    BY <1>0, <2>1, <2>4, <2>5, <2>6 DEF TypeOK
<1>8. ASSUME Tick
      PROVE  Inv'
  BY <1>0, <1>8
  DEF Tick, TypeOK, BucketWithSession, SharedBucketSameSession, BucketsHoldStoredTexts,
      RowsHoldStoredTexts
<1>9. ASSUME UNCHANGED vars
      PROVE  Inv'
  BY <1>0, <1>9
  DEF vars, TypeOK, BucketWithSession, SharedBucketSameSession, BucketsHoldStoredTexts,
      RowsHoldStoredTexts
<1> QED
  BY <1>1, <1>2, <1>3, <1>4, <1>5, <1>6, <1>7, <1>8, <1>9 DEF Next

(* The types, as an invariant of every behaviour. *)
THEOREM TypeCorrect == Spec => []TypeOK
<1>1. Inv => TypeOK
  BY DEF Inv
<1> QED
  BY InitInv, NextInv, <1>1, PTL DEF Spec

(* No output of a session ever shows text stored only under another one,    *)
(* for any number of tasks, sessions, restarts, failed saves and colliding  *)
(* ids.                                                                     *)
THEOREM Isolation == Spec => []SessionIsolation
<1>1. Inv => SessionIsolation
  <2> SUFFICES ASSUME Inv, NEW c \in Tasks, NEW s \in Sessions, NEW id \in IdsOf(stored),
                      NEW text \in Shown(c, s, id)
               PROVE  [session |-> s, id |-> id, text |-> text] \in stored
    BY DEF SessionIsolation
  <2>1. PICK e \in Tokens(c, s) \cup rows[s] : e.id = id /\ e.text = text
    BY DEF Shown
  <2>2. Token(s, e) \in stored
    BY ValuesAssumption
    DEF Tokens, Attached, Inv, BucketsHoldStoredTexts, RowsHoldStoredTexts
  <2> QED
    BY <2>1, <2>2 DEF Token
<1> QED
  BY InitInv, NextInv, <1>1, PTL DEF Spec

-----------------------------------------------------------------------------
(* Every row is still there with its id and text. *)
RowsSurvive ==
    \A s \in Sessions : \A e \in rows[s] : \E f \in rows'[s] : f.id = e.id /\ f.text = e.text

(* The upsert rewrites nothing but notes, whatever is saved. *)
LEMMA UpsertSurvives ==
    ASSUME NEW table \in SUBSET Entry, NEW entry, NEW e \in table
    PROVE  \E f \in Upsert(table, entry) : f.id = e.id /\ f.text = e.text
<1> DEFINE Saved(g) == IF g.id = entry.id THEN [g EXCEPT !.notes = entry.notes] ELSE g
<1>1. Saved(e).id = e.id /\ Saved(e).text = e.text
  BY DEF Entry
<1>2. CASE entry.id \in IdsOf(table)
  <2>1. Saved(e) \in Upsert(table, entry)
    BY <1>2 DEF Upsert
  <2> QED
    BY <1>1, <2>1
<1>3. CASE entry.id \notin IdsOf(table)
  BY <1>3 DEF Upsert
<1> QED
  BY <1>2, <1>3

LEMMA SaveSurvives ==
    ASSUME TypeOK, NEW session, NEW entry, SaveAndReturn(session, entry)
    PROVE  RowsSurvive
<1>1. \/ rows' = rows
      \/ session \in Sessions /\ rows' = [rows EXCEPT ![session] = Upsert(rows[session], entry)]
  BY DEF SaveAndReturn, Save
<1>2. CASE rows' = rows
  BY <1>2 DEF RowsSurvive
<1>3. CASE session \in Sessions /\ rows' = [rows EXCEPT ![session] = Upsert(rows[session], entry)]
  <2> SUFFICES ASSUME NEW s \in Sessions, NEW e \in rows[s]
               PROVE  \E f \in rows'[s] : f.id = e.id /\ f.text = e.text
    BY DEF RowsSurvive
  <2>1. rows[s] \in SUBSET Entry
    BY DEF TypeOK
  <2>2. rows'[s] = IF s = session THEN Upsert(rows[s], entry) ELSE rows[s]
    BY <1>3 DEF TypeOK
  <2> QED
    BY <2>1, <2>2, UpsertSurvives
<1> QED
  BY <1>1, <1>2, <1>3

(* A row keeps its id and its text through every step of every process:     *)
(* saves that collide, saves that fail, reloads, turns that end.            *)
THEOREM RowsKept == Spec => RowsKeepTheirText
<1>1. ASSUME TypeOK, Next PROVE RowsSurvive
  <2>1. ASSUME NEW c \in Tasks, NEW r \in NewRefs, NEW s \in Callers, NEW text \in Texts,
               NEW notes \in SUBSET Fields, StoreNew(c, s, text, notes, r)
        PROVE  RowsSurvive
    BY <1>1, <2>1, SaveSurvives DEF StoreNew
  <2>2. ASSUME NEW c \in Tasks, NEW r \in NewRefs, NEW s \in Callers, NEW text \in Texts,
               NEW notes \in SUBSET Fields, StoreKnown(c, s, text, notes, r)
        PROVE  RowsSurvive
    <3>1. rows' = rows \/ \E session, entry : SaveAndReturn(session, entry)
      BY <2>2 DEF StoreKnown, Return
    <3>2. CASE rows' = rows
      BY <3>2 DEF RowsSurvive
    <3> QED
      BY <1>1, <3>1, <3>2, SaveSurvives
  <2>3. CASE UNCHANGED rows
    BY <2>3 DEF RowsSurvive
  <2> QED
    BY <1>1, <2>1, <2>2, <2>3
    DEF Next, BeginTurn, UseSession, Expand, StartTask, EndTask, Tick
<1>2. TypeOK /\ [Next]_vars => [RowsSurvive]_vars
  BY <1>1
<1>3. Spec => [][RowsSurvive]_vars
  BY TypeCorrect, <1>2, PTL DEF Spec
<1> QED
  BY <1>3 DEF RowsKeepTheirText, RowsSurvive

-----------------------------------------------------------------------------
(* A call of any task changes a session in one of two ways: it loads, and   *)
(* every dict of the session is one there was or the rows, or it puts an    *)
(* entry in a dict of the session and saves it.  The invariants that follow *)
(* are proved from these two.                                               *)

(* The rows of a session, and the dicts of tasks bound to it. *)
Holds(s, T) ==
    \/ T = rows[s]
    \/ \E d \in Tasks : ctx[d].session = s /\ T = buckets[ctx[d].bucket]

(* A step that saves nothing and makes no entry.                            *)
Loads ==
    /\ UNCHANGED <<rows, stored, issued, unsaved>>
    /\ \A s \in Sessions : \A T : Holds(s, T)' => Holds(s, T)

(* A step that puts an entry in dict T of a session.                        *)
Puts(session, T, entry) ==
    /\ session \in Sessions /\ entry \in Entry
    /\ T \in SUBSET Entry /\ Holds(session, T)
    /\ \A s \in Sessions : \A B : Holds(s, B)' =>
            \/ Holds(s, B) \/ B = rows'[s]
            \/ s = session /\ B = Put(T, entry)
    /\ \E c \in Tasks :
            ctx'[c].session = session /\ buckets'[ctx'[c].bucket] = Put(T, entry)

-----------------------------------------------------------------------------
LEMMA HoldsEntries ==
    ASSUME Inv, NEW s \in Sessions, NEW T, Holds(s, T)
    PROVE  T \in SUBSET Entry
<1>1. \A d \in Tasks : ctx[d].session = s => ctx[d].bucket \in Refs
  BY ValuesAssumption DEF Inv, TypeOK, BucketWithSession, Context
<1> QED
  BY <1>1 DEF Inv, TypeOK, Holds

(* What a call reads is held by the session it is bound to.                 *)
LEMMA TokensAreHeld ==
    ASSUME Inv, NEW c \in Tasks, NEW s \in Sessions \cup {NoSession}, NEW r \in NewRefs,
           Opened(c, s, r).session \in Sessions
    PROVE  Holds(Opened(c, s, r).session, Tokens(c, s))
<1>1. ctx[c] \in Context
  BY DEF Inv, TypeOK
<1>2. CASE Attached(c, s)
  BY <1>2 DEF Opened, Tokens, Holds
<1>3. CASE ~Attached(c, s) /\ s = NoSession
  BY <1>3, ValuesAssumption DEF Opened
<1>4. CASE ~Attached(c, s) /\ s \in Sessions
  BY <1>1, <1>4, ValuesAssumption DEF Opened, Tokens, Context, Holds
<1> QED
  BY <1>2, <1>3, <1>4

(* A task bound to a new dict with the rows of its session.                 *)
LEMMA LoadStep ==
    ASSUME Inv, NEW c \in Tasks, NEW session \in Sessions \cup {Ephemeral},
           NEW r \in NewRefs, NEW numbers, NEW entries,
           session \in Sessions => entries = rows[session],
           ctx' = [ctx EXCEPT ![c] =
                     [session |-> session, bucket |-> r, numbers |-> numbers]],
           buckets' = [buckets EXCEPT ![r] = entries],
           UNCHANGED <<rows, stored, issued, unsaved>>
    PROVE  Loads
<1>1. /\ ctx \in [Tasks -> Context] /\ buckets \in [Refs -> SUBSET Entry] /\ r \in Refs
      /\ \A d \in Tasks : ctx[d].bucket # r
  BY NewRefsUnused DEF Inv, TypeOK
<1>2. /\ ctx'[c].bucket = r /\ ctx'[c].session = session
      /\ \A d \in Tasks \ {c} : ctx'[d] = ctx[d] /\ buckets'[ctx[d].bucket] = buckets[ctx[d].bucket]
      /\ buckets'[r] = entries
  BY <1>1
<1> QED
  BY <1>2, ValuesAssumption DEF Loads, Holds

LEMMA KeepsEveryDict ==
    ASSUME \A d \in Tasks : ctx'[d].session \in Sessions => \E c \in Tasks : ctx'[d] = ctx[c],
           UNCHANGED <<buckets, rows, stored, issued, unsaved>>
    PROVE  Loads
BY DEF Loads, Holds

(* The calls that put an entry in the dict they opened.                     *)
LEMMA PutStep ==
    ASSUME Inv, NEW c \in Tasks, NEW s \in Sessions \cup {NoSession}, NEW r \in NewRefs,
           NEW counter, NEW entry \in Entry,
           ctx' = [ctx EXCEPT ![c] = [Opened(c, s, r) EXCEPT !.numbers = counter]],
           buckets' = [buckets EXCEPT ![Opened(c, s, r).bucket] = Put(Tokens(c, s), entry)],
           Opened(c, s, r).session \notin Sessions => UNCHANGED <<rows, stored, issued, unsaved>>
    PROVE  IF Opened(c, s, r).session \in Sessions
           THEN Puts(Opened(c, s, r).session, Tokens(c, s), entry) ELSE Loads
<1> DEFINE o == Opened(c, s, r)
           T == Tokens(c, s)
<1>1. /\ o \in Context /\ ctx \in [Tasks -> Context]
      /\ buckets \in [Refs -> SUBSET Entry] /\ r \in Refs /\ NoRef \notin Refs
      /\ T \in SUBSET Entry
  BY OpenedType, TokensType, ValuesAssumption DEF Inv, TypeOK, NewRefs, UnusedRefs
<1>2. o.bucket \in Refs /\ o.session # NoSession
  BY <1>1, ValuesAssumption DEF Opened, Attached, Inv, BucketWithSession, Context
<1>3. \A d \in Tasks \ {c} : ctx[d].bucket = o.bucket => ctx[d].session = o.session
  <2>1. CASE Attached(c, s)
    BY <2>1, <1>2, ValuesAssumption DEF Opened, Attached, Inv, SharedBucketSameSession
  <2>2. CASE ~Attached(c, s)
    BY <2>2, <1>1, NewRefsUnused DEF Opened, Context
  <2> QED
    BY <2>1, <2>2
<1>4. /\ ctx'[c].bucket = o.bucket /\ ctx'[c].session = o.session
      /\ \A d \in Tasks \ {c} : ctx'[d] = ctx[d]
  BY <1>1 DEF Context
<1>5. /\ buckets'[o.bucket] = Put(T, entry)
      /\ \A q : q # o.bucket /\ q \in Refs => buckets'[q] = buckets[q]
  BY <1>1, <1>2
<1>6. \A d \in Tasks : ctx[d].session \in Sessions => ctx[d].bucket \in Refs
  BY <1>1, ValuesAssumption DEF Inv, BucketWithSession, Context
<1>7. o.session \in Sessions => Holds(o.session, T)
  BY TokensAreHeld
<1> HIDE DEF o, T
<1>8. \A d \in Tasks : ctx'[d].session \in Sessions =>
        \/ ctx'[d].session = o.session /\ buckets'[ctx'[d].bucket] = Put(T, entry)
        \/ ctx'[d] = ctx[d] /\ buckets'[ctx'[d].bucket] = buckets[ctx[d].bucket]
  BY <1>3, <1>4, <1>5, <1>6
<1>9. CASE o.session \in Sessions
  <2>1. ASSUME NEW q \in Sessions, NEW B, Holds(q, B)'
        PROVE  Holds(q, B) \/ B = rows'[q] \/ (q = o.session /\ B = Put(T, entry))
    BY <1>8, <2>1 DEF Holds
  <2>2. Puts(o.session, T, entry)
    BY <1>1, <1>4, <1>5, <1>7, <1>9, <2>1 DEF Puts
  <2> QED
    BY <1>9, <2>2 DEF o, T
<1>10. CASE o.session \notin Sessions
  <2>1. ASSUME NEW q \in Sessions, NEW B, Holds(q, B)' PROVE Holds(q, B)
    BY <1>8, <1>10, <2>1 DEF Holds, o
  <2>2. Loads
    BY <1>10, <2>1 DEF Loads, o
  <2> QED
    BY <1>10, <2>2 DEF o
<1> QED
  BY <1>9, <1>10

-----------------------------------------------------------------------------
(* A new token for a text the dict does not hold, numbered by the counter   *)
(* of the task that stores it.                                              *)
Adds(c, session, T, entry) ==
    /\ Puts(session, T, entry) /\ SaveAndReturn(session, entry)
    /\ \A f \in T : f.text # entry.text
    /\ entry.id[2] = clock
    /\ ctx[c].bucket # NoRef /\ ctx[c].numbers # NoRef =>
            entry.id[1] = counters[ctx[c].numbers]

(* A token of a text the dict holds, with the fields it lacked.             *)
Fills(session, T, entry) ==
    /\ Puts(session, T, entry)
    /\ SaveAndReturn(session, entry) \/ Return(session, entry)
    /\ \E e \in T : e.id = entry.id /\ e.text = entry.text /\ e.notes \subseteq entry.notes

LEMMA NewStep ==
    ASSUME Inv, NEW c \in Tasks, NEW r \in NewRefs, NEW s \in Callers, NEW text \in Texts,
           NEW notes \in SUBSET Fields, StoreNew(c, s, text, notes, r)
    PROVE  Loads \/ \E session, T, entry : Adds(c, session, T, entry)
<1> DEFINE o == Opened(c, s, r)
           counter == IF o.numbers = NoRef THEN r ELSE o.numbers
           number == IF counter = r THEN 1 ELSE counters[counter]
           entry == [id |-> <<number, clock>>, text |-> text, notes |-> notes]
<1>1. s \in Sessions \cup {NoSession} /\ r \in Refs
  BY ValuesAssumption DEF NewRefs, UnusedRefs
<1>2. o \in Context /\ counter \in Refs /\ number \in Nat
  BY <1>1, OpenedType DEF Context, Inv, TypeOK
<1>3. entry \in Entry /\ entry.id[1] = number /\ entry.id[2] = clock /\ entry.text = text
  BY <1>2 DEF Entry, Ids, Inv, TypeOK
<1>4. /\ ctx' = [ctx EXCEPT ![c] = [o EXCEPT !.numbers = counter]]
      /\ buckets' = [buckets EXCEPT ![o.bucket] = Put(Tokens(c, s), entry)]
      /\ SaveAndReturn(o.session, entry) /\ ~Known(c, s, text)
  BY DEF StoreNew, NewId
<1>5. ASSUME ctx[c].bucket # NoRef, ctx[c].numbers # NoRef
      PROVE  number = counters[ctx[c].numbers]
  <2>1. o.numbers = ctx[c].numbers /\ ctx[c].numbers # r
    BY <1>5, NewRefsUnused DEF Opened, Attached, Inv, TypeOK, Context
  <2> QED
    BY <1>5, <2>1
<1>6. \A f \in Tokens(c, s) : f.text # entry.text
  BY <1>3, <1>4 DEF Known
<1> HIDE DEF counter, number, entry
<1>7. o.session \notin Sessions => UNCHANGED <<rows, stored, issued, unsaved>>
  BY <1>4 DEF SaveAndReturn
<1>8. IF o.session \in Sessions THEN Puts(o.session, Tokens(c, s), entry) ELSE Loads
  BY <1>1, <1>3, <1>4, <1>7, PutStep
<1> QED
  BY <1>3, <1>4, <1>5, <1>6, <1>8 DEF Adds

LEMMA KnownStep ==
    ASSUME Inv, NEW c \in Tasks, NEW r \in NewRefs, NEW s \in Callers, NEW text \in Texts,
           NEW notes \in SUBSET Fields, StoreKnown(c, s, text, notes, r)
    PROVE  Loads \/ \E session, T, entry : Fills(session, T, entry)
<1> DEFINE o == Opened(c, s, r)
<1>1. s \in Sessions \cup {NoSession}
  BY ValuesAssumption
<1>2. PICK e \in Tokens(c, s) :
        LET entry == Filled(e, notes)
        IN  /\ buckets' = [buckets EXCEPT ![o.bucket] = Put(Tokens(c, s), entry)]
            /\ IF notes \subseteq e.notes THEN Return(o.session, entry)
               ELSE SaveAndReturn(o.session, entry)
  BY DEF StoreKnown
<1> DEFINE entry == Filled(e, notes)
<1>3. e \in Entry
  BY <1>1, TokensType DEF Inv
<1>4. entry \in Entry /\ entry.id = e.id /\ entry.text = e.text /\ e.notes \subseteq entry.notes
  BY <1>3 DEF Entry, Filled
<1>5. /\ buckets' = [buckets EXCEPT ![o.bucket] = Put(Tokens(c, s), entry)]
      /\ Return(o.session, entry) \/ SaveAndReturn(o.session, entry)
  BY <1>2
<1> HIDE DEF entry
<1>6. o \in Context
  BY <1>1, OpenedType DEF Inv
<1>7. ctx' = [ctx EXCEPT ![c] = [o EXCEPT !.numbers = o.numbers]]
  BY <1>6 DEF StoreKnown, Context
<1>8. o.session \notin Sessions => UNCHANGED <<rows, stored, issued, unsaved>>
  BY <1>5 DEF SaveAndReturn, Return
<1>9. IF o.session \in Sessions THEN Puts(o.session, Tokens(c, s), entry) ELSE Loads
  BY <1>1, <1>4, <1>5, <1>7, <1>8, PutStep
<1> QED
  BY <1>4, <1>5, <1>9 DEF Fills

(* Every other step loads. *)
LEMMA OtherSteps ==
    ASSUME Inv, Next
    PROVE  \/ Loads
           \/ \E c \in Tasks, r \in NewRefs, s \in Callers, text \in Texts,
                 notes \in SUBSET Fields :
                 StoreNew(c, s, text, notes, r) \/ StoreKnown(c, s, text, notes, r)
<1>0. ctx \in [Tasks -> Context]
  BY DEF Inv, TypeOK
<1>1. ASSUME NEW c \in Tasks, NEW r \in NewRefs, NEW s \in Sessions, BeginTurn(c, s, r)
      PROVE  Loads
  BY <1>1, LoadStep DEF BeginTurn
<1>2. ASSUME NEW c \in Tasks, NEW r \in NewRefs, NEW s \in Callers, UseSession(c, s, r)
      PROVE  Loads
  <2>1. s \in Sessions \cup {NoSession} /\ r \in Refs
    BY ValuesAssumption DEF NewRefs, UnusedRefs
  <2>2. PICK session \in Sessions \cup {Ephemeral}, numbers \in Refs \cup {NoRef} :
          /\ Opened(c, s, r) = [session |-> session, bucket |-> r, numbers |-> numbers]
          /\ session \in Sessions => Tokens(c, s) = rows[session]
    <3>1. CASE s = NoSession
      BY <3>1, <1>2, <2>1, ValuesAssumption DEF UseSession, Opened
    <3>2. CASE s \in Sessions
      <4>1. ctx[c] \in Context /\ s # NoSession
        BY <1>0, <3>2, ValuesAssumption
      <4>2. Opened(c, s, r) = [session |-> s, bucket |-> r, numbers |-> ctx[c].numbers]
        BY <1>2, <4>1 DEF UseSession, Opened, Context
      <4>3. Tokens(c, s) = rows[s]
        BY <1>2, <4>1 DEF UseSession, Tokens
      <4> QED
        BY <3>2, <4>1, <4>2, <4>3 DEF Context
    <3> QED
      BY <2>1, <3>1, <3>2
  <2>3. /\ ctx' = [ctx EXCEPT ![c] = [session |-> session, bucket |-> r, numbers |-> numbers]]
        /\ buckets' = [buckets EXCEPT ![r] = Tokens(c, s)]
        /\ UNCHANGED <<rows, stored, issued, unsaved>>
    BY <1>2, <2>2 DEF UseSession
  <2> QED
    BY <2>2, <2>3, LoadStep
<1>3. ASSUME NEW c \in Tasks, NEW r \in NewRefs, NEW s \in Sessions, NEW id, Expand(c, s, id, r)
      PROVE  Loads
  BY <1>3, LoadStep DEF Expand
<1>4. ASSUME NEW c \in Tasks, NEW d \in Tasks, StartTask(c, d) PROVE Loads
  <2>1. \A b \in Tasks : ctx'[b] \in {ctx[b], ctx[c]}
    BY <1>0, <1>4 DEF StartTask
  <2> QED
    BY <1>4, <2>1, KeepsEveryDict DEF StartTask
<1>5. ASSUME NEW c \in Tasks, EndTask(c) PROVE Loads
  <2>1. \A b \in Tasks : ctx'[b] \in {ctx[b], FreshContext}
    BY <1>5 DEF EndTask
  <2>2. FreshContext.session \notin Sessions
    BY ValuesAssumption DEF FreshContext
  <2> QED
    BY <1>5, <2>1, <2>2, KeepsEveryDict DEF EndTask
<1>6. CASE Tick
  BY <1>6, KeepsEveryDict DEF Tick
<1> QED
  BY <1>1, <1>2, <1>3, <1>4, <1>5, <1>6 DEF Next

LEMMA Steps ==
    ASSUME Inv, Next
    PROVE  \/ Loads
           \/ \E c \in Tasks : Running(c) /\ \E session, T, entry : Adds(c, session, T, entry)
           \/ \E session, T, entry : Fills(session, T, entry)
<1>1. CASE Loads
  BY <1>1
<1>2. ASSUME NEW c \in Tasks, NEW r \in NewRefs, NEW s \in Callers, NEW text \in Texts,
             NEW notes \in SUBSET Fields, StoreNew(c, s, text, notes, r)
      PROVE  Loads \/ \E session, T, entry : Running(c) /\ Adds(c, session, T, entry)
  <2>1. Running(c)
    BY <1>2 DEF StoreNew
  <2> QED
    BY <1>2, <2>1, NewStep
<1>3. ASSUME NEW c \in Tasks, NEW r \in NewRefs, NEW s \in Callers, NEW text \in Texts,
             NEW notes \in SUBSET Fields, StoreKnown(c, s, text, notes, r)
      PROVE  Loads \/ \E session, T, entry : Fills(session, T, entry)
  BY <1>3, KnownStep
<1> QED
  BY <1>1, <1>2, <1>3, OtherSteps

(* What a step that stores leaves in the tables.                            *)
LEMMA StoringStep ==
    ASSUME Inv, NEW session, NEW T, NEW entry, Puts(session, T, entry),
           SaveAndReturn(session, entry) \/ Return(session, entry)
    PROVE  /\ RowsSurvive
           /\ issued' \subseteq issued \cup {Token(session, entry)}
           /\ unsaved \subseteq unsaved' \cup {Token(session, entry)}
           /\ (/\ Return(session, entry)
               /\ entry.id \in IdsOf(rows[session]) \/ Token(session, entry) \in unsaved)
                => entry.id \in IdsOf(rows'[session]) \/ Token(session, entry) \in unsaved'
           /\ SaveAndReturn(session, entry) =>
                entry.id \in IdsOf(rows'[session]) \/ Token(session, entry) \in unsaved'
<1>1. /\ TypeOK /\ session \in Sessions /\ rows \in [Sessions -> SUBSET Entry]
      /\ entry \in Entry /\ rows[session] \in SUBSET Entry
  BY DEF Inv, TypeOK, Puts
<1>2. ASSUME Return(session, entry)
      PROVE  /\ RowsSurvive /\ rows' = rows /\ unsaved' = unsaved
             /\ issued' = issued \cup {Token(session, entry)}
  BY <1>1, <1>2 DEF Return, RowsSurvive
<1>3. ASSUME SaveAndReturn(session, entry)
      PROVE  /\ RowsSurvive
             /\ issued' \subseteq issued \cup {Token(session, entry)}
             /\ unsaved \subseteq unsaved' \cup {Token(session, entry)}
             /\ entry.id \in IdsOf(rows'[session]) \/ Token(session, entry) \in unsaved'
  <2>1. RowsSurvive
    BY <1>1, <1>3, SaveSurvives
  <2>2. CASE /\ rows' = [rows EXCEPT ![session] = Upsert(@, entry)]
             /\ issued' = issued \cup {Token(session, entry)}
             /\ unsaved' = unsaved \ {Token(session, entry)}
    <3>1. rows'[session] = Upsert(rows[session], entry)
      BY <1>1, <2>2
    <3>2. entry.id \in IdsOf(rows'[session])
      BY <1>1, <3>1, UpsertKeeps
    <3> QED
      BY <2>1, <2>2, <3>2
  <2>3. CASE /\ UNCHANGED <<rows, issued>>
             /\ unsaved' = IF entry.id \in IdsOf(rows[session]) THEN unsaved
                           ELSE unsaved \cup {Token(session, entry)}
    BY <2>1, <2>3
  <2>4. Save(session, entry)
    BY <1>1, <1>3 DEF SaveAndReturn
  <2> QED
    BY <2>2, <2>3, <2>4 DEF Save
<1> QED
  BY <1>2, <1>3

-----------------------------------------------------------------------------
(* An entry of a dict is a row of its session, or every save of it raised.  *)
KeptOrUnsaved(s, e) == e.id \in IdsOf(rows[s]) \/ Token(s, e) \in unsaved

BucketsAreKept ==
    \A s \in Sessions : \A T : Holds(s, T) => \A e \in T : KeptOrUnsaved(s, e)

(* A token leaves those unsaved only as its row is written.                 *)
LEMMA KeptStays ==
    Inv /\ BucketsAreKept /\ IssuedTokensAreKept /\ [Next]_vars
        => BucketsAreKept' /\ IssuedTokensAreKept'
<1> SUFFICES ASSUME Inv, BucketsAreKept, IssuedTokensAreKept, [Next]_vars
             PROVE  BucketsAreKept' /\ IssuedTokensAreKept'
  OBVIOUS
<1>1. CASE Loads \/ UNCHANGED vars
  <2>1. UNCHANGED <<rows, issued, unsaved>>
    BY <1>1 DEF Loads, vars
  <2>2. \A s \in Sessions : \A T : Holds(s, T)' => Holds(s, T)
    BY <1>1 DEF Loads, vars, Holds
  <2> QED
    BY <2>1, <2>2 DEF BucketsAreKept, IssuedTokensAreKept, IdsOf, KeptOrUnsaved
<1>2. ASSUME NEW session, NEW T, NEW entry, Puts(session, T, entry),
             \/ SaveAndReturn(session, entry)
             \/ Return(session, entry) /\ \E e \in T : e.id = entry.id /\ e.text = entry.text
      PROVE  BucketsAreKept' /\ IssuedTokensAreKept'
  <2> DEFINE token == Token(session, entry)
  <2>1. session \in Sessions /\ Holds(session, T)
    BY <1>2 DEF Puts
  <2>2. /\ RowsSurvive /\ issued' \subseteq issued \cup {token}
        /\ unsaved \subseteq unsaved' \cup {token}
    BY <1>2, StoringStep
  <2>3. \A s \in Sessions : IdsOf(rows[s]) \subseteq IdsOf(rows'[s])
    BY <2>2 DEF RowsSurvive, IdsOf
  <2>4. entry.id \in IdsOf(rows'[session]) \/ token \in unsaved'
    <3>1. CASE SaveAndReturn(session, entry)
      BY <1>2, <3>1, StoringStep
    <3>2. CASE Return(session, entry) /\ \E e \in T : e.id = entry.id /\ e.text = entry.text
      <4>1. PICK e \in T : e.id = entry.id /\ e.text = entry.text
        BY <3>2
      <4>2. KeptOrUnsaved(session, e) /\ Token(session, e) = token
        BY <2>1, <4>1 DEF BucketsAreKept, Token
      <4>3. entry.id \in IdsOf(rows[session]) \/ token \in unsaved
        BY <4>1, <4>2 DEF KeptOrUnsaved
      <4> QED
        BY <1>2, <3>2, <4>3, StoringStep
    <3> QED
      BY <1>2, <3>1, <3>2
  <2>5. ASSUME NEW s \in Sessions, NEW e, KeptOrUnsaved(s, e)
        PROVE  KeptOrUnsaved(s, e)'
    <3>1. CASE e.id \in IdsOf(rows[s])
      BY <2>3, <3>1 DEF KeptOrUnsaved
    <3>2. CASE Token(s, e) \in unsaved /\ Token(s, e) # token
      BY <2>2, <3>2 DEF KeptOrUnsaved
    <3>3. CASE Token(s, e) = token
      <4>1. s = session /\ e.id = entry.id
        BY <3>3 DEF Token
      <4> QED
        BY <2>4, <3>3, <4>1 DEF KeptOrUnsaved
    <3> QED
      BY <2>5, <3>1, <3>2, <3>3 DEF KeptOrUnsaved
  <2>6. ASSUME NEW s \in Sessions, NEW B, Holds(s, B)', NEW e \in B
        PROVE  KeptOrUnsaved(s, e)'
    <3>1. CASE Holds(s, B)
      BY <2>5, <2>6, <3>1 DEF BucketsAreKept
    <3>2. CASE B = rows'[s]
      BY <2>6, <3>2 DEF KeptOrUnsaved, IdsOf
    <3>3. CASE s = session /\ B = Put(T, entry)
      <4>1. CASE e = entry
        BY <2>4, <3>3, <4>1 DEF KeptOrUnsaved
      <4>2. CASE e \in T
        BY <2>1, <2>5, <3>3, <4>2 DEF BucketsAreKept
      <4> QED
        BY <2>6, <3>3, <4>1, <4>2 DEF Put
    <3> QED
      BY <1>2, <2>6, <3>1, <3>2, <3>3 DEF Puts
  <2>7. BucketsAreKept'
    BY <2>6 DEF BucketsAreKept
  <2>8. IssuedTokensAreKept'
    <3> SUFFICES ASSUME NEW i \in issued'
                 PROVE  i.id \in IdsOf(rows'[i.session]) \/ i \in unsaved'
      BY DEF IssuedTokensAreKept, IdsOf
    <3>1. CASE i = token
      BY <2>4, <3>1 DEF Token
    <3>2. CASE i \in issued /\ i # token
      <4>1. i.session \in Sessions
        BY <3>2 DEF Inv, TypeOK, TokenSet
      <4> QED
        BY <2>2, <2>3, <3>2, <4>1 DEF IssuedTokensAreKept
    <3> QED
      BY <2>2, <3>1, <3>2
  <2> QED
    BY <2>7, <2>8
<1>3. ASSUME NEW session, NEW T, NEW entry, Fills(session, T, entry)
      PROVE  BucketsAreKept' /\ IssuedTokensAreKept'
  BY <1>2, <1>3 DEF Fills
<1>4. ASSUME NEW c, NEW session, NEW T, NEW entry, Adds(c, session, T, entry)
      PROVE  BucketsAreKept' /\ IssuedTokensAreKept'
  BY <1>2, <1>4 DEF Adds
<1> QED
  BY <1>1, <1>3, <1>4, Steps

LEMMA NothingAtFirst ==
    Init => /\ stored = {} /\ issued = {}
            /\ \A s \in Sessions : \A T : Holds(s, T) => T = {}
BY ValuesAssumption DEF Init, Holds, FreshContext

(* A token handed to a model is a row of session.db, for any number of CLI  *)
(* processes and web tasks and whichever saves raise, unless it is itself a *)
(* token that every save of has raised: the entry such a save leaves in the *)
(* dict, which the next store of the same text returns.                     *)
THEOREM TokensKept == Spec => []IssuedTokensAreKept
<1>1. Init => BucketsAreKept /\ IssuedTokensAreKept
  BY NothingAtFirst DEF BucketsAreKept, IssuedTokensAreKept
<1> QED
  BY InitInv, NextInv, KeptStays, <1>1, PTL DEF Spec

(* ... and, with the same exception, is replaced by a text in every task    *)
(* that shows it.                                                           *)
THEOREM TokensShown == Spec => []IssuedTokensAreShown
<1>1. Inv /\ IssuedTokensAreKept => IssuedTokensAreShown
  <2> SUFFICES ASSUME Inv, IssuedTokensAreKept, NEW i \in issued \ unsaved, NEW c \in Tasks
               PROVE  Shown(c, i.session, i.id) # {}
    BY DEF IssuedTokensAreShown
  <2> DEFINE bound == Tokens(c, i.session)
             read  == IF i.id \in IdsOf(bound) THEN bound ELSE rows[i.session]
  <2>1. i.id \in IdsOf(read)
    BY DEF IssuedTokensAreKept
  <2>2. \E e \in read : e.id = i.id
    BY <2>1 DEF IdsOf
  <2> HIDE DEF read
  <2>3. {e.text : e \in {f \in read : f.id = i.id}} # {}
    BY <2>2
  <2> QED
    BY <2>3 DEF Shown, read
<1> QED
  BY TokensKept, InitInv, NextInv, <1>1, PTL DEF Spec

-----------------------------------------------------------------------------
(* One process of the CLI at a time, and no web server: the tasks of a turn *)
(* share the counter of its main task.                                      *)
OneProcess == WebTasks = {} /\ \A c, d \in CliTasks : c = d

SharedCounter ==
    \A c \in Tasks : ctx[c] # FreshContext =>
        /\ ctx[c].bucket # NoRef /\ ctx[c].numbers # NoRef
        /\ \A d \in Tasks :
              ctx[d] # FreshContext \/ d \in CliTasks => ctx[d].numbers = ctx[c].numbers

(* The next id of the turn is new: its millisecond, or its number, is.      *)
IdsAreOld ==
    \A i \in stored :
        /\ i.id[2] <= clock
        /\ \A c \in Tasks : ctx[c] # FreshContext =>
              i.id[2] < clock \/ i.id[1] < counters[ctx[c].numbers]

StoredOnce == \A i, j \in stored : i.id = j.id => i = j

Numbered == SharedCounter /\ IdsAreOld /\ StoredOnce /\ issued \subseteq stored

(* Calls bind a task anew without changing who it shares its counter with.  *)
LEMMA CounterStaysShared ==
    ASSUME SharedCounter, NEW c \in Tasks, ctx[c] # FreshContext, NEW bound,
           ctx' = [ctx EXCEPT ![c] = bound], TypeOK,
           bound.numbers = ctx[c].numbers, bound.bucket # NoRef
    PROVE  /\ SharedCounter'
           /\ \A d \in Tasks : ctx'[d].numbers = ctx[d].numbers
           /\ \A d \in Tasks : ctx'[d] # FreshContext => ctx[d] # FreshContext
<1>1. /\ ctx'[c] = bound /\ bound # FreshContext
      /\ \A d \in Tasks \ {c} : ctx'[d] = ctx[d]
  BY DEF TypeOK, FreshContext
<1> QED
  BY <1>1 DEF SharedCounter

LEMMA OpenedShares ==
    ASSUME Inv, SharedCounter, NEW c \in Tasks, ctx[c] # FreshContext,
           NEW s \in Sessions \cup {NoSession}, NEW r \in NewRefs
    PROVE  /\ Opened(c, s, r).numbers = ctx[c].numbers
           /\ Opened(c, s, r).bucket # NoRef
           /\ ctx[c].numbers \in Refs \ {r}
           /\ Attached(c, NoSession)
<1>1. /\ ctx[c] \in Context /\ r \in Refs \ {NoRef} /\ ctx[c].numbers # r
      /\ ctx[c].bucket # NoRef /\ ctx[c].numbers # NoRef
  BY NewRefsUnused, ValuesAssumption DEF Inv, TypeOK, SharedCounter
<1> QED
  BY <1>1 DEF Opened, Attached, Context

(* While ids, counters and who shares them stay, so does what is numbered.  *)
LEMMA NumberedStays ==
    ASSUME Numbered, Inv, stored' = stored, issued' \subseteq stored, SharedCounter',
           clock' = clock, counters' = counters,
           \A d \in Tasks : ctx'[d] # FreshContext =>
                ctx[d] # FreshContext /\ ctx'[d].numbers = ctx[d].numbers
    PROVE  Numbered'
<1>1. IdsAreOld' /\ StoredOnce'
  BY DEF Numbered, IdsAreOld, StoredOnce
<1> QED
  BY <1>1 DEF Numbered

LEMMA NumberedKept ==
    ASSUME OneProcess
    PROVE  Inv /\ Numbered /\ [Next]_vars => Numbered'
<1> SUFFICES ASSUME Inv, Numbered, [Next]_vars PROVE Numbered'
  OBVIOUS
<1>0. /\ ctx \in [Tasks -> Context] /\ counters \in [Refs -> Nat] /\ clock \in Nat
      /\ stored \in SUBSET TokenSet /\ SharedCounter
  BY DEF Inv, TypeOK, Numbered
<1>1. \A i \in stored : i.id[1] \in Nat /\ i.id[2] \in Nat
  BY <1>0 DEF TokenSet, Ids
<1>2. \A c \in Tasks : Running(c) => ctx[c] # FreshContext
  BY DEF Running, OneProcess
<1>3. ASSUME NEW c \in Tasks, NEW r \in NewRefs, NEW s \in Sessions, BeginTurn(c, s, r)
      PROVE  Numbered'
  <2>1. /\ ctx' = [ctx EXCEPT ![c] = [session |-> s, bucket |-> r, numbers |-> r]]
        /\ c \in CliTasks /\ clock' = clock + 1 /\ UNCHANGED <<stored, issued>>
        /\ r # NoRef
    BY <1>3, ValuesAssumption DEF BeginTurn, NewRefs, UnusedRefs
  <2>2. \A d \in Tasks \ {c} : ctx[d] = FreshContext
    BY <1>0, <1>3 DEF BeginTurn, SharedCounter
  <2>3. \A d \in Tasks \ {c} : ctx'[d] = FreshContext /\ d \notin CliTasks
    BY <1>0, <2>1, <2>2 DEF OneProcess
  <2>4. ctx'[c].bucket = r /\ ctx'[c].numbers = r
    BY <1>0, <2>1
  <2>5. SharedCounter'
    BY <2>1, <2>3, <2>4 DEF SharedCounter
  <2>6. \A i \in stored : i.id[2] <= clock
    BY DEF Numbered, IdsAreOld
  <2>7. IdsAreOld'
    BY <1>0, <1>1, <2>1, <2>6 DEF IdsAreOld
  <2> QED
    BY <2>1, <2>5, <2>7 DEF Numbered, StoredOnce
<1>4. ASSUME NEW c \in Tasks, NEW r \in NewRefs, NEW s \in Callers, UseSession(c, s, r)
      PROVE  Numbered'
  <2>1. ctx[c] # FreshContext /\ s \in Sessions \cup {NoSession} /\ ~Attached(c, s)
    BY <1>2, <1>4, ValuesAssumption DEF UseSession
  <2>2. /\ Opened(c, s, r).numbers = ctx[c].numbers /\ Opened(c, s, r).bucket # NoRef
        /\ s # NoSession
    BY <1>0, <2>1, OpenedShares
  <2>3. /\ ctx' = [ctx EXCEPT ![c] = Opened(c, s, r)]
        /\ UNCHANGED <<counters, stored, issued, clock>>
    BY <1>4, <2>2 DEF UseSession
  <2>4. /\ SharedCounter'
        /\ \A d \in Tasks : ctx'[d].numbers = ctx[d].numbers
        /\ \A d \in Tasks : ctx'[d] # FreshContext => ctx[d] # FreshContext
    BY <1>0, <2>1, <2>2, <2>3, CounterStaysShared DEF Inv
  <2> QED
    BY <2>3, <2>4, NumberedStays DEF Numbered
<1>5. ASSUME NEW c \in Tasks, NEW r \in NewRefs, NEW s \in Callers, NEW text \in Texts,
             NEW notes \in SUBSET Fields, StoreNew(c, s, text, notes, r)
      PROVE  Numbered'
  <2> DEFINE o == Opened(c, s, r)
             q == ctx[c].numbers
             entry == [id |-> <<counters[q], clock>>, text |-> text, notes |-> notes]
  <2>1. ctx[c] # FreshContext /\ s \in Sessions \cup {NoSession}
    BY <1>2, <1>5, ValuesAssumption DEF StoreNew
  <2>2. o.numbers = q /\ o.bucket # NoRef /\ q \in Refs \ {r} /\ o \in Context /\ q # NoRef
    BY <1>0, <2>1, OpenedShares, OpenedType DEF Inv, SharedCounter
  <2>3. /\ ctx' = [ctx EXCEPT ![c] = [o EXCEPT !.numbers = q]]
        /\ counters' = [counters EXCEPT ![q] = counters[q] + 1]
        /\ SaveAndReturn(o.session, entry) /\ clock' = clock
    BY <1>5, <2>2 DEF StoreNew, NewId
  <2>4. /\ [o EXCEPT !.numbers = q].numbers = ctx[c].numbers
        /\ [o EXCEPT !.numbers = q].bucket # NoRef
    BY <2>2 DEF Context
  <2>5. /\ SharedCounter'
        /\ \A d \in Tasks : ctx'[d].numbers = ctx[d].numbers
        /\ \A d \in Tasks : ctx'[d] # FreshContext => ctx[d] # FreshContext
    BY <1>0, <2>1, <2>3, <2>4, CounterStaysShared DEF Inv
  <2>6. \A d \in Tasks : ctx'[d] # FreshContext => ctx'[d].numbers = q
    BY <1>0, <2>1, <2>5 DEF SharedCounter
  <2>7. counters[q] \in Nat /\ counters'[q] = counters[q] + 1
    BY <1>0, <2>2, <2>3
  <2>8. \A i \in stored : i.id[2] < clock \/ i.id[1] < counters[q]
    BY <2>1 DEF Numbered, IdsAreOld
  <2> DEFINE token == Token(o.session, entry)
  <2>9. token.id[1] = counters[q] /\ token.id[2] = clock
    BY DEF Token
  <2>10. \A i \in stored : i.id # token.id
    BY <1>0, <1>1, <2>7, <2>8, <2>9
  <2>11. /\ stored' \in {stored, stored \cup {token}}
         /\ issued' \subseteq issued \cup {token}
         /\ issued' # issued => stored' = stored \cup {token}
    BY <2>3 DEF SaveAndReturn, Save
  <2> HIDE DEF token, q
  <2>12. StoredOnce'
    BY <2>10, <2>11 DEF Numbered, StoredOnce
  <2>13. IdsAreOld'
    <3> SUFFICES ASSUME NEW i \in stored'
                 PROVE  /\ i.id[2] <= clock
                        /\ i.id[2] < clock \/ i.id[1] < counters'[q]
      BY <2>3, <2>6 DEF IdsAreOld
    <3>1. CASE i = token
      <4>1. i.id[1] = counters[q] /\ i.id[2] = clock
        BY <2>9, <3>1
      <4>2. clock <= clock /\ counters[q] < counters[q] + 1
        BY <1>0, <2>7
      <4> QED
        BY <2>7, <4>1, <4>2
    <3>2. CASE i \in stored
      <4>1. i.id[2] <= clock
        BY <3>2 DEF Numbered, IdsAreOld
      <4> QED
        BY <1>0, <1>1, <2>7, <2>8, <3>2, <4>1
    <3> QED
      BY <2>11, <3>1, <3>2
  <2>14. issued' \subseteq stored'
    BY <2>11 DEF Numbered
  <2> QED
    BY <2>5, <2>12, <2>13, <2>14 DEF Numbered
<1>6. ASSUME NEW c \in Tasks, NEW r \in NewRefs, NEW s \in Callers, NEW text \in Texts,
             NEW notes \in SUBSET Fields, StoreKnown(c, s, text, notes, r)
      PROVE  Numbered'
  <2> DEFINE o == Opened(c, s, r)
  <2>1. ctx[c] # FreshContext /\ s \in Sessions \cup {NoSession}
    BY <1>2, <1>6, ValuesAssumption DEF StoreKnown
  <2>2. o.numbers = ctx[c].numbers /\ o.bucket # NoRef /\ o.numbers # r
    BY <1>0, <2>1, OpenedShares
  <2>3. /\ ctx' = [ctx EXCEPT ![c] = o]
        /\ UNCHANGED <<counters, clock>>
    BY <1>6, <2>2 DEF StoreKnown
  <2>4. /\ SharedCounter'
        /\ \A d \in Tasks : ctx'[d].numbers = ctx[d].numbers
        /\ \A d \in Tasks : ctx'[d] # FreshContext => ctx[d] # FreshContext
    BY <1>0, <2>1, <2>2, <2>3, CounterStaysShared DEF Inv
  <2>5. PICK e \in Tokens(c, s) :
          IF notes \subseteq e.notes THEN Return(o.session, Filled(e, notes))
          ELSE SaveAndReturn(o.session, Filled(e, notes))
    BY <1>6 DEF StoreKnown
  <2>6. e \in Entry
    BY <2>1, TokensType DEF Inv
  <2>7. Token(o.session, Filled(e, notes)) = Token(o.session, e)
    BY <2>6 DEF Filled, Token, Entry
  <2>8. o.session \in Sessions => Token(o.session, e) \in stored
    BY <2>1, TokensWereStored
  <2>9. stored' = stored /\ issued' \subseteq stored
    BY <2>5, <2>7, <2>8 DEF Return, SaveAndReturn, Save, Numbered
  <2> QED
    BY <2>3, <2>4, <2>9, NumberedStays
<1>7. ASSUME NEW c \in Tasks, NEW r \in NewRefs, NEW s \in Sessions, NEW id, Expand(c, s, id, r)
      PROVE  Numbered'
  <2> DEFINE bound == [session |-> s, bucket |-> r, numbers |-> ctx[c].numbers]
  <2>1. ctx[c] # FreshContext /\ r # NoRef
    BY <1>2, <1>7, ValuesAssumption DEF Expand, NewRefs, UnusedRefs
  <2>2. ctx' = [ctx EXCEPT ![c] = bound] /\ UNCHANGED <<counters, stored, issued, clock>>
    BY <1>7 DEF Expand
  <2>3. bound.numbers = ctx[c].numbers /\ bound.bucket # NoRef
    BY <2>1
  <2>4. /\ SharedCounter'
        /\ \A d \in Tasks : ctx'[d].numbers = ctx[d].numbers
        /\ \A d \in Tasks : ctx'[d] # FreshContext => ctx[d] # FreshContext
    BY <1>0, <2>1, <2>2, <2>3, CounterStaysShared DEF Inv
  <2> QED
    BY <2>2, <2>4, NumberedStays DEF Numbered
<1>8. ASSUME NEW c \in Tasks, NEW d \in Tasks, StartTask(c, d) PROVE Numbered'
  <2>1. /\ ctx[c] # FreshContext /\ d \notin CliTasks
        /\ ctx'[d] = ctx[c] /\ \A b \in Tasks \ {d} : ctx'[b] = ctx[b]
        /\ UNCHANGED <<counters, stored, issued, clock>>
    BY <1>0, <1>8 DEF StartTask
  <2>2. SharedCounter'
    BY <1>0, <2>1 DEF SharedCounter
  <2>3. IdsAreOld'
    BY <2>1 DEF Numbered, IdsAreOld
  <2> QED
    BY <2>1, <2>2, <2>3 DEF Numbered, StoredOnce
<1>9. ASSUME NEW c \in Tasks, EndTask(c) PROVE Numbered'
  <2>1. /\ ctx[c] # FreshContext
        /\ \A b \in Tasks : ctx'[b] = IF b \in EndingWith(c) THEN FreshContext ELSE ctx[b]
        /\ UNCHANGED <<counters, stored, issued, clock>>
    BY <1>9 DEF EndTask
  <2>2. SharedCounter'
    <3>1. CASE c \in CliTasks
      <4>1. \A b \in Tasks : ctx'[b] = FreshContext
        <5>1. \A b \in Tasks : ctx[b] # FreshContext => ctx[b].numbers = ctx[c].numbers
          BY <1>0, <2>1 DEF SharedCounter
        <5>2. \A b \in Tasks : ctx[b].numbers = ctx[c].numbers => b \in EndingWith(c)
          BY <3>1 DEF EndingWith
        <5> QED
          BY <2>1, <5>1, <5>2
      <4> QED
        BY <4>1 DEF SharedCounter
    <3>2. CASE c \notin CliTasks
      <4>1. \A b \in Tasks : ctx'[b] = IF b = c THEN FreshContext ELSE ctx[b]
        BY <2>1, <3>2 DEF EndingWith
      <4> QED
        BY <1>0, <3>2, <4>1 DEF SharedCounter
    <3> QED
      BY <3>1, <3>2
  <2>3. \A d \in Tasks : ctx'[d] # FreshContext => ctx'[d] = ctx[d]
    BY <2>1
  <2> QED
    BY <2>1, <2>2, <2>3, NumberedStays DEF Numbered
<1>10. CASE Tick
  <2>1. clock' = clock + 1 /\ UNCHANGED <<ctx, counters, stored, issued>>
    BY <1>10 DEF Tick
  <2>2. \A i \in stored : i.id[2] <= clock
    BY DEF Numbered, IdsAreOld
  <2>3. IdsAreOld'
    BY <1>0, <1>1, <2>1, <2>2 DEF IdsAreOld
  <2> QED
    BY <2>1, <2>3 DEF Numbered, SharedCounter, StoredOnce
<1>11. CASE UNCHANGED vars
  BY <1>11 DEF vars, Numbered, SharedCounter, IdsAreOld, StoredOnce
<1> QED
  BY <1>3, <1>4, <1>5, <1>6, <1>7, <1>8, <1>9, <1>10, <1>11 DEF Next

LEMMA NumberedAtFirst == Init => Numbered
BY DEF Init, Numbered, SharedCounter, IdsAreOld, StoredOnce

(* "Token values are immutable": with one process at a time a token never   *)
(* shows another text than the one it was given for, whatever turns, tasks, *)
(* failed saves and restarts come in between.  Two processes may number two *)
(* texts of a session alike in the same millisecond.                        *)
THEOREM TokensKeepTheirText ==
    ASSUME OneProcess
    PROVE  Spec => []IssuedTokensKeepTheirText
<1>1. SessionIsolation /\ TypeOK /\ Numbered => IssuedTokensKeepTheirText
  <2> SUFFICES ASSUME SessionIsolation, TypeOK, Numbered, NEW i \in issued, NEW c \in Tasks,
                      NEW text \in Shown(c, i.session, i.id)
               PROVE  text = i.text
    BY DEF IssuedTokensKeepTheirText
  <2> DEFINE shown == [session |-> i.session, id |-> i.id, text |-> text]
  <2>1. i \in stored /\ i.session \in Sessions
    BY DEF Numbered, TypeOK, TokenSet
  <2>2. shown \in stored
    BY <2>1 DEF SessionIsolation, IdsOf
  <2>3. shown = i
    BY <2>1, <2>2 DEF Numbered, StoredOnce
  <2> QED
    BY <2>3
<1> QED
  BY Isolation, TypeCorrect, InitInv, NextInv, NumberedAtFirst, NumberedKept, <1>1, PTL DEF Spec

=============================================================================
