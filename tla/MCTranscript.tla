---------------------------- MODULE MCTranscript ----------------------------
(* The CLI and two requests of the web server for one session.              *)
EXTENDS Transcript, TLC

CONSTANTS cli, web1, web2

ProcessOf(t) == IF t = cli THEN "cli" ELSE "web"

Alike == Permutations(Files)

=============================================================================
