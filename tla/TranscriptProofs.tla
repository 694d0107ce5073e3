-------------------------- MODULE TranscriptProofs --------------------------
(***************************************************************************)
(* Proofs about the transcript, for any number of tasks, processes, files  *)
(* and events: it is never torn unless two processes write at once, and a  *)
(* task that works alone leaves all events in it.                          *)
(***************************************************************************)
EXTENDS Transcript, FiniteSetTheorems, TLAPS

(* A task that no other process joined since it began to write: it is the   *)
(* only one that writes, on the temporary file, which holds what it wrote.  *)
WritesAlone(t) ==
    /\ Writing = {t}
    /\ names.temporary = open[t]
    /\ content[open[t]] = 1..written[t]

UnsharedWriteAlone == \A t \in Writing : t \in shared \/ WritesAlone(t)

Writers_OK == \A t \in Writers :
    /\ step[t] = "writing" <=> open[t] # NoFile
    /\ step[t] \in {"stored", "read"} => stored > 0
    /\ step[t] \in {"read", "writing"} => seen[t] \in 1..stored

NamesDiffer == names.temporary # NoFile => names.temporary # names.transcript

(* While nobody has mixed, nobody who writes is joined by another and the   *)
(* transcript is a file of its own, and whole.                              *)
UnmixedIsWhole == ~mixed =>
    /\ \A t \in Writing : t \notin shared
    /\ names.transcript # NoFile =>
         /\ \E k \in 1..stored : content[names.transcript] = 1..k
         /\ \A t \in Writers : open[t] # names.transcript

LoneIsCurrent == \A t \in Writers : lone = t =>
    /\ \A u \in Writers \ {t} : Idle(u)
    /\ ~Idle(t)
    /\ step[t] \in {"read", "writing"} => seen[t] = stored
    /\ step[t] = "writing" => t \notin shared

Inv ==
    /\ TypeOK
    /\ Writers_OK
    /\ NamesDiffer
    /\ UnsharedWriteAlone
    /\ UnmixedIsWhole
    /\ LoneIsCurrent

-----------------------------------------------------------------------------
LEMMA InitInv == Init => Inv
<1> SUFFICES ASSUME Init PROVE Inv
  OBVIOUS
<1>1. TypeOK
  <2>1. names \in [temporary : Files \cup {NoFile}, transcript : Files \cup {NoFile}]
    BY DEF Init
  <2>2. lone \in Writers \cup {NoWriter} /\ shared \subseteq Writers /\ mixed \in BOOLEAN
    BY DEF Init
  <2>3. stored \in 0..MaxEvents /\ 0 \in 0..MaxEvents
    BY TranscriptAssumption DEF Init
  <2> QED
    BY <2>1, <2>2, <2>3 DEF Init, TypeOK
<1>2. Writers_OK /\ NamesDiffer /\ UnsharedWriteAlone /\ UnmixedIsWhole
  BY DEF Init, Writers_OK, NamesDiffer, UnsharedWriteAlone, UnmixedIsWhole, Writing
<1>3. LoneIsCurrent
  BY TranscriptAssumption DEF Init, LoneIsCurrent
<1> QED
  BY <1>1, <1>2, <1>3 DEF Inv

(* The only step that writes on a file that has the temporary name, or none *)
(* at all, leaves the transcript's alone.                                   *)
LEMMA TemporaryApart ==
  ASSUME TypeOK, NamesDiffer, NEW f \in Temporary
  PROVE  f \in Files /\ f # NoFile /\ f # names.transcript
BY TranscriptAssumption DEF TypeOK, NamesDiffer, Temporary, Unused

LEMMA TypeNext == TypeOK /\ Writers_OK /\ NamesDiffer /\ Next => TypeOK'
<1> SUFFICES ASSUME TypeOK, Writers_OK, NamesDiffer, Next PROVE TypeOK'
  OBVIOUS
<1> USE TranscriptAssumption DEF TypeOK, Events
<1>1. ASSUME NEW t \in Writers, Store(t) PROVE TypeOK'
  BY <1>1 DEF Store
<1>2. ASSUME NEW t \in Writers, Read(t) PROVE TypeOK'
  BY <1>2 DEF Read, LatestEvents
<1>3. ASSUME NEW t \in Writers, Truncate(t) PROVE TypeOK'
  <2> PICK f \in Temporary :
        /\ open' = [open EXCEPT ![t] = f]
        /\ names' = [names EXCEPT !.temporary = f]
        /\ content' = [content EXCEPT ![f] = {}]
    BY <1>3 DEF Truncate
  <2>1. f \in Files
    BY TemporaryApart
  <2>2. names' \in [temporary : Files \cup {NoFile}, transcript : Files \cup {NoFile}]
    BY <2>1
  <2>3. /\ open' \in [Writers -> Files \cup {NoFile}]
        /\ content' \in [Files -> SUBSET Events]
        /\ written' \in [Writers -> 0..MaxEvents]
        /\ step' \in [Writers -> {"idle", "stored", "read", "writing"}]
    BY <1>3, <2>1 DEF Truncate
  <2>4. mixed' \in BOOLEAN /\ shared' \subseteq Writers
    BY <1>3 DEF Truncate, Writing
  <2> QED
    BY <1>3, <2>2, <2>3, <2>4 DEF Truncate
<1>4. ASSUME NEW t \in Writers, Write(t) PROVE TypeOK'
  <2>1. written[t] + 1 \in Events
    BY <1>4 DEF Write
  <2>2. open[t] \in Files
    BY <1>4 DEF Write, Writers_OK
  <2>3. written' = [written EXCEPT ![t] = written[t] + 1] /\ written'[t] = written[t] + 1
    BY <1>4 DEF Write
  <2>4. content' \in [Files -> SUBSET Events]
    BY <1>4, <2>1, <2>2, <2>3 DEF Write
  <2> QED
    BY <1>4, <2>1, <2>3, <2>4 DEF Write
<1>5. ASSUME NEW t \in Writers, Replace(t) PROVE TypeOK'
  <2>1. mixed' \in BOOLEAN
    BY <1>5 DEF Replace
  <2> QED
    BY <1>5, <2>1 DEF Replace, Done
<1>6. ASSUME NEW t \in Writers, Fail(t) PROVE TypeOK'
  BY <1>6 DEF Fail, Done
<1>7. ASSUME NEW p \in Processes, Crash(p) PROVE TypeOK'
  BY <1>7 DEF Crash
<1> QED
  BY <1>1, <1>2, <1>3, <1>4, <1>5, <1>6, <1>7 DEF Next

LEMMA WritersNext == TypeOK /\ Writers_OK /\ NamesDiffer /\ Next => Writers_OK'
<1> SUFFICES ASSUME TypeOK, Writers_OK, NamesDiffer, Next PROVE Writers_OK'
  OBVIOUS
<1> USE TranscriptAssumption DEF TypeOK, Writers_OK
<1>1. ASSUME NEW t \in Writers, Store(t) PROVE Writers_OK'
  BY <1>1 DEF Store, Idle
<1>2. ASSUME NEW t \in Writers, Read(t) PROVE Writers_OK'
  BY <1>2 DEF Read, LatestEvents
<1>3. ASSUME NEW t \in Writers, Truncate(t) PROVE Writers_OK'
  <2> PICK f \in Temporary : open' = [open EXCEPT ![t] = f]
    BY <1>3 DEF Truncate
  <2>1. f # NoFile
    BY TemporaryApart
  <2> QED
    BY <1>3, <2>1 DEF Truncate
<1>4. ASSUME NEW t \in Writers, Write(t) PROVE Writers_OK'
  BY <1>4 DEF Write
<1>5. ASSUME NEW t \in Writers, Replace(t) PROVE Writers_OK'
  BY <1>5 DEF Replace, Done
<1>6. ASSUME NEW t \in Writers, Fail(t) PROVE Writers_OK'
  BY <1>6 DEF Fail, Done
<1>7. ASSUME NEW p \in Processes, Crash(p) PROVE Writers_OK'
  BY <1>7 DEF Crash
<1> QED
  BY <1>1, <1>2, <1>3, <1>4, <1>5, <1>6, <1>7 DEF Next

LEMMA NamesNext == TypeOK /\ NamesDiffer /\ Next => NamesDiffer'
<1> SUFFICES ASSUME TypeOK, NamesDiffer, Next PROVE NamesDiffer'
  OBVIOUS
<1>1. ASSUME NEW t \in Writers, Truncate(t) PROVE NamesDiffer'
  <2> PICK f \in Temporary : names' = [names EXCEPT !.temporary = f]
    BY <1>1 DEF Truncate
  <2>1. f # names.transcript
    BY TemporaryApart
  <2>2. names'.temporary = f /\ names'.transcript = names.transcript
    BY DEF TypeOK
  <2> QED
    BY <2>1, <2>2 DEF NamesDiffer
<1>2. ASSUME NEW t \in Writers, Replace(t) PROVE NamesDiffer'
  BY <1>2 DEF Replace, NamesDiffer
<1> QED
  BY <1>1, <1>2 DEF Next, Store, Read, Write, Fail, Crash, NamesDiffer

(* Who is alone on the temporary file stays so until it is done or another  *)
(* task opens the file too, which then is shared by both.                   *)
LEMMA UnsharedNext == TypeOK /\ Writers_OK /\ UnsharedWriteAlone /\ Next => UnsharedWriteAlone'
<1> SUFFICES ASSUME TypeOK, Writers_OK, UnsharedWriteAlone, Next PROVE UnsharedWriteAlone'
  OBVIOUS
<1> USE DEF UnsharedWriteAlone, WritesAlone, Writing
<1>1. ASSUME NEW t \in Writers, Store(t) PROVE UnsharedWriteAlone'
  BY <1>1 DEF Store, Idle, TypeOK
<1>2. ASSUME NEW t \in Writers, Read(t) PROVE UnsharedWriteAlone'
  BY <1>2 DEF Read, TypeOK
<1>3. ASSUME NEW t \in Writers, Truncate(t) PROVE UnsharedWriteAlone'
  <2>1. Writing' = Writing \cup {t}
    BY <1>3 DEF Truncate, TypeOK
  <2>2. CASE Writing # {}
    <3>1. shared' = shared \cup Writing \cup {t}
      BY <1>3, <2>2 DEF Truncate
    <3> QED
      BY <2>1, <3>1
  <2>3. CASE Writing = {}
    <3> PICK f \in Temporary :
          /\ open' = [open EXCEPT ![t] = f]
          /\ names' = [names EXCEPT !.temporary = f]
          /\ content' = [content EXCEPT ![f] = {}]
      BY <1>3 DEF Truncate
    <3>1. open'[t] = f /\ names'.temporary = f
      BY DEF TypeOK
    <3>2. f \in Files => content'[f] = {}
      BY DEF TypeOK
    <3>3. f \in Files
      BY TranscriptAssumption DEF TypeOK, Temporary, Unused
    <3>4. written'[t] = 0
      BY <1>3 DEF Truncate, TypeOK
    <3>5. content'[open'[t]] = 1..written'[t]
      BY <3>1, <3>2, <3>3, <3>4
    <3> QED
      BY <2>1, <2>3, <3>1, <3>5
  <2> QED
    BY <2>2, <2>3
<1>4. ASSUME NEW t \in Writers, Write(t) PROVE UnsharedWriteAlone'
  <2>1. Writing' = Writing /\ t \in Writing /\ UNCHANGED <<names, open, shared>>
    BY <1>4 DEF Write
  <2>2. CASE WritesAlone(t)
    <3>1. written[t] \in Nat /\ written'[t] = written[t] + 1
      BY <1>4 DEF Write, TypeOK
    <3>2. open[t] \in Files
      BY <1>4 DEF Write, Writers_OK, TypeOK
    <3>3. content'[open[t]] = content[open[t]] \cup {written'[t]}
      BY <1>4, <3>2 DEF Write, TypeOK
    <3>4. content'[open[t]] = 1..written'[t]
      BY <2>2, <3>1, <3>3
    <3> QED
      BY <2>1, <2>2, <3>4
  <2>3. CASE ~WritesAlone(t)
    <3>1. t \in shared
      BY <2>1, <2>3
    <3>2. ASSUME NEW u \in Writing PROVE u \in shared
      BY <2>1, <3>1
    <3> QED
      BY <2>1, <3>2
  <2> QED
    BY <2>2, <2>3
<1>5. ASSUME NEW t \in Writers, Replace(t) \/ Fail(t) PROVE UnsharedWriteAlone'
  <2>1. Writing' = Writing \ {t}
    BY <1>5 DEF Replace, Fail, Done, TypeOK
  <2>2. /\ UNCHANGED <<written, content, shared>>
        /\ \A u \in Writing' : open'[u] = open[u]
    BY <1>5 DEF Replace, Fail, Done, TypeOK
  <2>3. CASE t \in Writing
    BY <2>1, <2>2, <2>3
  <2>4. CASE t \notin Writing
    <3>1. names' = names
      BY <1>5, <2>4 DEF Replace, Fail
    <3> QED
      BY <2>1, <2>2, <2>4, <3>1
  <2> QED
    BY <2>3, <2>4
<1>6. ASSUME NEW p \in Processes, Crash(p) PROVE UnsharedWriteAlone'
  <2>1. Writing' \subseteq Writing
    BY <1>6 DEF Crash, TypeOK
  <2>2. /\ UNCHANGED <<written, content, shared, names>>
        /\ \A u \in Writing' : open'[u] = open[u]
    BY <1>6 DEF Crash, TypeOK
  <2> QED
    BY <2>1, <2>2
<1> QED
  BY <1>1, <1>2, <1>3, <1>4, <1>5, <1>6 DEF Next

LEMMA LoneNext == TypeOK /\ LoneIsCurrent /\ Next => LoneIsCurrent'
<1> SUFFICES ASSUME TypeOK, LoneIsCurrent, Next PROVE LoneIsCurrent'
  OBVIOUS
<1> USE TranscriptAssumption DEF LoneIsCurrent, Idle, TypeOK
<1>1. ASSUME NEW t \in Writers, Store(t) PROVE LoneIsCurrent'
  BY <1>1 DEF Store
<1>2. ASSUME NEW t \in Writers, Read(t) PROVE LoneIsCurrent'
  BY <1>2 DEF Read, LatestEvents
<1>3. ASSUME NEW t \in Writers, Truncate(t) PROVE LoneIsCurrent'
  <2>1. ASSUME lone = t PROVE Writing = {}
    BY <1>3, <2>1 DEF Truncate, Writing
  <2>2. lone = t => t \notin shared'
    BY <1>3, <2>1 DEF Truncate
  <2> QED
    BY <1>3, <2>2 DEF Truncate
<1>4. ASSUME NEW t \in Writers, Write(t) PROVE LoneIsCurrent'
  BY <1>4 DEF Write
<1>5. ASSUME NEW t \in Writers, Replace(t) PROVE LoneIsCurrent'
  BY <1>5 DEF Replace, Done
<1>6. ASSUME NEW t \in Writers, Fail(t) PROVE LoneIsCurrent'
  BY <1>6 DEF Fail, Done
<1>7. ASSUME NEW p \in Processes, Crash(p) PROVE LoneIsCurrent'
  BY <1>7 DEF Crash
<1> QED
  BY <1>1, <1>2, <1>3, <1>4, <1>5, <1>6, <1>7 DEF Next

(* Only a task that is alone replaces the transcript, by what it has written *)
(* of the whole session.                                                    *)
LEMMA UnmixedNext == Inv /\ Next => UnmixedIsWhole'
<1> SUFFICES ASSUME Inv, Next PROVE UnmixedIsWhole'
  OBVIOUS
<1> USE DEF Inv, UnmixedIsWhole
<1>1. ASSUME NEW t \in Writers, Store(t) PROVE UnmixedIsWhole'
  <2>1. /\ Writing' = Writing
        /\ UNCHANGED <<names, content, open, shared, mixed>>
        /\ stored \in Nat /\ stored' = stored + 1
    BY <1>1 DEF Store, Idle, Writing, TypeOK
  <2>2. 1..stored \subseteq 1..stored'
    BY <2>1
  <2> QED
    BY <2>1, <2>2
<1>2. ASSUME NEW t \in Writers, Read(t) PROVE UnmixedIsWhole'
  BY <1>2 DEF Read, Writing, TypeOK
<1>3. ASSUME NEW t \in Writers, Truncate(t) PROVE UnmixedIsWhole'
  <2> SUFFICES ASSUME ~mixed' PROVE UnmixedIsWhole'
    OBVIOUS
  <2>1. ~mixed /\ Writing = {}
    BY <1>3 DEF Truncate
  <2>2. shared' = shared \ {t} /\ Writing' = {t} /\ stored' = stored
    BY <1>3, <2>1 DEF Truncate, Writing, TypeOK
  <2> PICK f \in Temporary :
        /\ open' = [open EXCEPT ![t] = f]
        /\ names' = [names EXCEPT !.temporary = f]
        /\ content' = [content EXCEPT ![f] = {}]
    BY <1>3 DEF Truncate
  <2>3. f \in Files /\ f # names.transcript
    BY TemporaryApart
  <2>4. names'.transcript = names.transcript
    BY DEF TypeOK
  <2>5. names.transcript # NoFile => content'[names.transcript] = content[names.transcript]
    BY <2>3 DEF TypeOK
  <2>6. \A u \in Writers : open'[u] = open[u] \/ open'[u] = f
    BY DEF TypeOK
  <2> QED
    BY <2>1, <2>2, <2>3, <2>4, <2>5, <2>6
<1>4. ASSUME NEW t \in Writers, Write(t) PROVE UnmixedIsWhole'
  <2> SUFFICES ASSUME ~mixed' PROVE UnmixedIsWhole'
    OBVIOUS
  <2>1. Writing' = Writing /\ UNCHANGED <<stored, names, open, shared, mixed>>
    BY <1>4 DEF Write, Writing
  <2>2. names.transcript # NoFile => content'[names.transcript] = content[names.transcript]
    BY <1>4, <2>1 DEF Write, TypeOK
  <2> QED
    BY <2>1, <2>2
<1>5. ASSUME NEW t \in Writers, Replace(t) PROVE UnmixedIsWhole'
  <2> SUFFICES ASSUME ~mixed' PROVE UnmixedIsWhole'
    OBVIOUS
  <2>1. t \in Writing /\ Writing' = Writing \ {t}
    BY <1>5 DEF Replace, Done, Writing, TypeOK
  <2>2. t \notin shared
    BY <1>5, <2>1 DEF Replace
  <2>3. WritesAlone(t)
    BY <2>1, <2>2 DEF UnsharedWriteAlone
  <2>4. Writing' = {}
    BY <2>1, <2>3 DEF WritesAlone
  <2>5. content[names.temporary] = 1..seen[t] /\ seen[t] \in 1..stored
    BY <1>5, <2>3 DEF Replace, WritesAlone, Writers_OK
  <2>6. names'.transcript = names.temporary /\ names.temporary # NoFile
    BY <1>5 DEF Replace
  <2>7. UNCHANGED <<stored, content>>
    BY <1>5 DEF Replace
  <2>8. \A u \in Writers : open'[u] = NoFile
    <3>1. Writers_OK'
      BY WritersNext
    <3> QED
      BY <2>4, <3>1 DEF Writing, Writers_OK
  <2> QED
    BY <2>4, <2>5, <2>6, <2>7, <2>8
<1>6. ASSUME NEW t \in Writers, Fail(t) PROVE UnmixedIsWhole'
  <2>1. Writing' \subseteq Writing /\ UNCHANGED <<stored, names, content, shared, mixed>>
    BY <1>6 DEF Fail, Done, Writing, TypeOK
  <2>2. \A u \in Writers : open'[u] = open[u] \/ open'[u] = NoFile
    BY <1>6 DEF Fail, Done, TypeOK
  <2> QED
    BY <2>1, <2>2
<1>7. ASSUME NEW p \in Processes, Crash(p) PROVE UnmixedIsWhole'
  <2>1. Writing' \subseteq Writing /\ UNCHANGED <<stored, names, content, shared, mixed>>
    BY <1>7 DEF Crash, Writing, TypeOK
  <2>2. \A u \in Writers : open'[u] = open[u] \/ open'[u] = NoFile
    BY <1>7 DEF Crash, TypeOK
  <2> QED
    BY <2>1, <2>2
<1> QED
  BY <1>1, <1>2, <1>3, <1>4, <1>5, <1>6, <1>7 DEF Next

LEMMA NextInv == Inv /\ [Next]_vars => Inv'
<1> SUFFICES ASSUME Inv, [Next]_vars PROVE Inv'
  OBVIOUS
<1>1. CASE Next
  <2>1. TypeOK' /\ Writers_OK' /\ NamesDiffer'
    BY <1>1, TypeNext, WritersNext, NamesNext DEF Inv
  <2>2. UnsharedWriteAlone' /\ UnmixedIsWhole' /\ LoneIsCurrent'
    BY <1>1, UnsharedNext, UnmixedNext, LoneNext DEF Inv
  <2> QED
    BY <2>1, <2>2 DEF Inv
<1>2. CASE UNCHANGED vars
  <2> USE <1>2 DEF vars, Inv
  <2>1. TypeOK' /\ NamesDiffer'
    BY DEF TypeOK, NamesDiffer
  <2>2. Writers_OK' /\ LoneIsCurrent'
    BY DEF Writers_OK, LoneIsCurrent, Idle
  <2>3. UnsharedWriteAlone' /\ UnmixedIsWhole'
    BY DEF UnsharedWriteAlone, WritesAlone, UnmixedIsWhole, Writing
  <2> QED
    BY <2>1, <2>2, <2>3
<1> QED
  BY <1>1, <1>2

(* Every reachable state of the transcript's writers satisfies the          *)
(* strengthened invariant.                                                  *)
THEOREM Invariance == Spec => []Inv
BY InitInv, NextInv, PTL DEF Spec

(* Files, names and tasks stay in their types (append_event_and_write_-     *)
(* transcript, write_session_transcript).                                   *)
THEOREM TypeCorrect == Spec => []TypeOK
<1>1. Inv => TypeOK
  BY DEF Inv
<1> QED
  BY Invariance, <1>1, PTL

(* transcript.txt is never seen half written: unless two processes wrote at *)
(* once, it holds the first events of the session, all of their text, and   *)
(* nobody has it open (write_session_transcript).                           *)
THEOREM TranscriptWhole == Spec => []TranscriptIsWhole
<1>1. Inv => TranscriptIsWhole
  <2> SUFFICES ASSUME Inv, ~mixed, names.transcript # NoFile
               PROVE  /\ Shown # {} /\ Shown = 1..Cardinality(Shown)
                      /\ \A t \in Writers : open[t] # names.transcript
    BY DEF TranscriptIsWhole
  <2>1. PICK k \in 1..stored : Shown = 1..k
    BY DEF Inv, UnmixedIsWhole, Shown
  <2>2. k \in Nat \ {0}
    BY <2>1 DEF Inv, TypeOK
  <2>3. Cardinality(1..k) = k
    <3>1. Cardinality(1..k) = IF 1 > k THEN 0 ELSE k - 1 + 1
      BY <2>2, FS_Interval
    <3> QED
      BY <2>2, <3>1
  <2>4. 1 \in Shown
    BY <2>1, <2>2
  <2> QED
    BY <2>1, <2>3, <2>4 DEF Inv, UnmixedIsWhole
<1> QED
  BY Invariance, <1>1, PTL

(* Who was alone from the store of its event to its rewrite leaves every    *)
(* stored event in the transcript, whatever others left behind when they    *)
(* failed or were killed (append_event_and_write_transcript).               *)
THEOREM LoneCurrent == Spec => LoneWritesAreCurrent
<1>1. Inv => (\A t \in Writers : lone = t /\ Replace(t) => Shown' = 1..stored)
  <2> SUFFICES ASSUME Inv, NEW t \in Writers, lone = t, Replace(t)
               PROVE  Shown' = 1..stored
    OBVIOUS
  <2>1. t \in Writing /\ written[t] = seen[t] /\ seen[t] = stored /\ t \notin shared
    BY DEF Replace, Writing, Inv, LoneIsCurrent
  <2>2. names.temporary = open[t] /\ content[open[t]] = 1..stored
    BY <2>1 DEF Inv, UnsharedWriteAlone, WritesAlone
  <2>3. names'.transcript = names.temporary /\ names.temporary # NoFile /\ content' = content
    BY DEF Replace
  <2> QED
    BY <2>2, <2>3 DEF Shown
<1> QED
  BY Invariance, <1>1, PTL DEF LoneWritesAreCurrent

=============================================================================
