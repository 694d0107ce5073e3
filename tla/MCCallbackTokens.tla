-------------------------- MODULE MCCallbackTokens --------------------------
(***************************************************************************)
(* Instances of CallbackTokens for TLC.  A text is short (left as written) *)
(* or takes one unit of the limit.                                         *)
(***************************************************************************)
EXTENDS CallbackTokens, TLC

CONSTANTS textA, textB, textC, textShort

MCLength == [text \in Texts |-> IF text = textShort THEN 0 ELSE 1]

(* What a dict or list held before it became unreachable tells states apart *)
(* for nobody.                                                              *)
LiveView ==
    LET live == Refs \ UnusedRefs
    IN  <<ctx, counted, [r \in live |-> buckets[r]], [r \in live |-> counters[r]],
          rows, stored, issued, unsaved, clock>>

(* No action tells web tasks, sessions or texts of one length apart. *)
Long == {text \in Texts : MCLength[text] = 1}
Alike == Permutations(WebTasks) \cup Permutations(Sessions) \cup Permutations(Long)

=============================================================================
