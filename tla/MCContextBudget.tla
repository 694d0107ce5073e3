-------------------------- MODULE MCContextBudget --------------------------
(* Conversations of up to three earlier turns and the current one. *)
EXTENDS ContextBudget

CONSTANTS
    Tiny, Short, Middle, Long  \* sizes of texts and results

User(parts) == [role |-> "user", parts |-> parts]
Model(parts) == [role |-> "model", parts |-> parts]
Part(kind, size) == [kind |-> kind, size |-> size]

Asked == User(<<Part("text", Tiny)>>)
Called(n) == Model([k \in 1..n |-> Part("call", Short)])
Got(size) == User(<<Part("result", size)>>)

(* A turn with a picture, one with a tool, one with parallel calls, and one *)
(* that was interrupted before its result.                                  *)
Turns ==
    { <<User(<<Part("text", Middle), Part("image", Long)>>), Model(<<Part("text", Long)>>)>>,
      <<Asked, Called(1), Got(Middle), Model(<<Part("text", Short)>>)>>,
      <<Asked, Called(2), Got(Short), Got(Long)>>,
      <<Asked, Called(1)>> }

Running ==
    { <<User(<<Part("text", Middle), Part("image", Short)>>)>>,
      <<Asked, Called(1), Got(Long)>>,
      <<Asked, Called(2), Got(Middle), Got(Middle), Called(1), Got(Short)>> }

Earlier ==
    {<<>>} \cup Turns \cup {s \o t : s, t \in Turns} \cup {s \o t \o u : s, t, u \in Turns}

AllConversations == {s \o t : s \in Earlier, t \in Running}

=============================================================================
