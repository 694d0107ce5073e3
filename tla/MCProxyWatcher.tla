--------------------------- MODULE MCProxyWatcher ---------------------------
(* Stacks app and db on networks of their own; next publishes the port of   *)
(* app once more, and lone has no network to join.                          *)
EXTENDS ProxyWatcher

CONSTANTS app, db, next, lone, web, sql

Ports == [c \in {app, db, next, lone} |-> IF c = db THEN {sql} ELSE {web}]
Nets == [c \in {app, db, next, lone} |->
            IF c = lone THEN {} ELSE IF c = db THEN {"db"} ELSE {"app"}]

=============================================================================
