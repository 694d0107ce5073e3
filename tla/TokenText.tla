----------------------------- MODULE TokenText -----------------------------
(***************************************************************************)
(* Displayed text with callback tokens in it (lllm/tools/callback_tokens), *)
(* as a sequence of pieces: a token is the three pieces "head"             *)
(* ("[encoded_callback_"), "id" ("token 1_2") and "close" ("]").           *)
(* An operator used nowhere is a faulty form of the next one that is used, *)
(* for the mutation checks.                                                *)
(***************************************************************************)
EXTENDS Integers, Sequences, SequencesExt

Pieces == {"text", "head", "id", "close"}

(* expand_callback_tokens_for_session: each token becomes its stored text.  *)
Expanded(text) ==
    LET f[i \in 0..Len(text)] ==
          IF i = 0 THEN <<>>
          ELSE IF i > 2 /\ SubSeq(text, i - 2, i) = <<"head", "id", "close">>
               THEN Append(f[i - 3], "stored")
               ELSE Append(f[i - 1], text[i])
    IN  f[Len(text)]

UnfinishedAnywhere(text) ==
    IF "head" \in ToSet(text) THEN Len(text) + 1 - SelectInSeq(text, LAMBDA p : p = "head") ELSE 0

(* _unfinished_callback_token_suffix: the length of a token that has not    *)
(* closed yet.                                                              *)
Unfinished(text) ==
    IF IsSuffix(<<"head", "id">>, text) THEN 2
    ELSE IF IsSuffix(<<"head">>, text) THEN 1 ELSE 0

(* expand_callback_token_text_chunk: what may be shown of a text now, and   *)
(* the suffix to hold; a flush holds nothing.                               *)
Chunk(text, flush) ==
    LET cut == Len(text) - (IF flush THEN 0 ELSE Unfinished(text))
    IN  [shown |-> Expanded(SubSeq(text, 1, cut)),
         held |-> SubSeq(text, cut + 1, Len(text))]

=============================================================================
