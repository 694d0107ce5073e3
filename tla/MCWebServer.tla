---------------------------- MODULE MCWebServer ----------------------------
(* Deltas of one piece split a token everywhere; one joins text and the     *)
(* start of a token.                                                        *)
EXTENDS WebServer

Cuts == {<<"text", "head">>, <<"head">>, <<"id">>, <<"close">>}
Wholes == {<<"head", "id", "close">>, <<"head", "id">>}

=============================================================================
