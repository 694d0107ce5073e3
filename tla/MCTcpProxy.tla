----------------------------- MODULE MCTcpProxy -----------------------------
(* Two connections: one whose peers talk, and one that is only open. *)
EXTENDS TcpProxy

CONSTANTS talks, idles

TwoChunks == [c \in {talks, idles} |-> IF c = talks THEN 2 ELSE 0]

=============================================================================
