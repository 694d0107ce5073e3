------------------------------ MODULE TcpProxy ------------------------------
(***************************************************************************)
(* One TcpProxy of the localhost_forward_proxy sidecar: the thread that    *)
(* accepts on a listener, a relay of two threads per connection, and the   *)
(* watcher's thread that stops the proxy while they run.                   *)
(*                                                                         *)
(* A connection's two streams are counted in chunks; the client and the    *)
(* server end them independently, as half-closed TCP connections may, and  *)
(* a close of the relay's sockets tells them, too.                         *)
(*                                                                         *)
(* An operator used nowhere is a faulty form of the next one that is used, *)
(* for the mutation checks.                                                *)
(***************************************************************************)
EXTENDS Integers

CONSTANTS
    Conns,       \* connections clients open
    MaxChunks,   \* bound: chunks each side of a connection sends
    Buffer,      \* chunks written to a client that it need not have read
    Active       \* bound: connections whose peers send, end or reset them

ASSUME ProxyAssumption == MaxChunks \in [Conns -> Nat] /\ Buffer \in Nat

VARIABLES
    listener,  \* "open" until stop closes it
    acceptor,  \* the accept thread: "accepting" or "ended"
    stopper,   \* stop: "none", "closing" (listener closed), "stopped"
    tracked,   \* connections whose sockets are in @open_sockets
    relays,    \* the relay of each connection, and its two sockets
    request,   \* the stream from the client
    response,  \* the stream from the server
    taken      \* chunks of the response the client has read

tcpVars == <<listener, acceptor, stopper, tracked, relays, request, response, taken>>

Phases == {"none", "queued", "accepted", "connected", "relaying", "ensure", "ended"}
Socket == {"none", "open", "closed"}
Relay == [phase : Phases, client : Socket, upstream : Socket,
          uplink : {"none", "copying", "ended"}, cut : SUBSET {"client", "server", "stop"}]

(* sent by one peer, got for the other by the relay, ended by the first;    *)
(* seen is what the other sees: the stream, its end, or a reset, which may  *)
(* cost it what it has not read.                                            *)
Seen == {"open", "eof", "reset"}
Stream(c) == [sent : 0..MaxChunks[c], got : 0..MaxChunks[c], ended : BOOLEAN, seen : Seen]

NewRelay == [phase |-> "none", client |-> "none", upstream |-> "none",
             uplink |-> "none", cut |-> {}]
NewStream == [sent |-> 0, got |-> 0, ended |-> FALSE, seen |-> "open"]

(* A copy on a socket that is closed raises.                                *)
Connected(c) == relays[c].client = "open" /\ relays[c].upstream = "open"

(* IO.copy_stream copies what has arrived, waits while its destination's    *)
(* buffers are full, and returns at the end of file.                        *)
Pending(stream) == stream.got < stream.sent

CanWrite(c) == response[c].got - taken[c] < Buffer

DrainedEarly(stream) == stream.ended

Drained(stream) == stream.ended /\ stream.got = stream.sent

(* What a peer may see of its stream after a close of the relay's socket to *)
(* it: an end of file, or a reset where data it sent is left unread.  Data  *)
(* that is pending is not unread when the copy holds it already.            *)
AfterClose(stream, own) ==
    (IF stream.seen = "reset" THEN {} ELSE {"eof"})
        \cup (IF stream.seen = "reset" \/ Pending(own) THEN {"reset"} ELSE {})

ToClient(c) == IF relays[c].client = "open" THEN AfterClose(response[c], request[c])
               ELSE {response[c].seen}
ToServer(c) == IF relays[c].upstream = "open" THEN AfterClose(request[c], response[c])
               ELSE {request[c].seen}

-----------------------------------------------------------------------------
TcpInit ==
    /\ listener = "open"
    /\ acceptor = "accepting"
    /\ stopper = "none"
    /\ tracked = {}
    /\ relays = [c \in Conns |-> NewRelay]
    /\ request = [c \in Conns |-> NewStream]
    /\ response = [c \in Conns |-> NewStream]
    /\ taken = [c \in Conns |-> 0]

Queue(c) ==
    /\ listener = "open"
    /\ relays[c].phase = "none"
    /\ relays' = [relays EXCEPT ![c].phase = "queued"]
    /\ UNCHANGED <<listener, acceptor, stopper, tracked, request, response, taken>>

(* accept_loop: a thread for each connection, *)
Accept(c) ==
    /\ acceptor = "accepting" /\ listener = "open"
    /\ relays[c].phase = "queued"
    /\ relays' = [relays EXCEPT ![c].phase = "accepted", ![c].client = "open"]
    /\ UNCHANGED <<listener, acceptor, stopper, tracked, request, response, taken>>

(* until accept raises: the listener is closed, or the process, which has   *)
(* other proxies, is out of file descriptors.  Either way the rescue ends   *)
(* the loop quietly.                                                        *)
AcceptRaises ==
    /\ acceptor = "accepting"
    /\ listener = "closed" \/ \E c \in Conns : relays[c].phase = "queued"
    /\ acceptor' = "ended"
    /\ UNCHANGED <<listener, stopper, tracked, relays, request, response, taken>>

(* relay: connect to the target, or fail to within the time limit,          *)
Dial(c) ==
    /\ relays[c].phase = "accepted"
    /\ \/ relays' = [relays EXCEPT ![c].phase = "connected", ![c].upstream = "open"]
       \/ relays' = [relays EXCEPT ![c].phase = "ensure"]
    /\ UNCHANGED <<listener, acceptor, stopper, tracked, request, response, taken>>

TrackNothing(c) ==
    /\ relays[c].phase = "connected"
    /\ relays' = [relays EXCEPT ![c].phase = "relaying", ![c].uplink = "copying"]
    /\ UNCHANGED <<listener, acceptor, stopper, tracked, request, response, taken>>

(* track both sockets and start the thread that copies the request; *)
Track(c) ==
    /\ relays[c].phase = "connected"
    /\ tracked' = tracked \cup {c}
    /\ relays' = [relays EXCEPT ![c].phase = "relaying", ![c].uplink = "copying"]
    /\ UNCHANGED <<listener, acceptor, stopper, request, response, taken>>

(* copy_then_signal_end from the client: a copy or a close_write that       *)
(* raises ends the thread and signals nothing to the server,                *)
CopyRequest(c) ==
    /\ relays[c].uplink = "copying"
    /\ \/ /\ Connected(c) /\ "server" \notin relays[c].cut
          /\ Pending(request[c])
          /\ request' = [request EXCEPT ![c].got = @ + 1]
          /\ UNCHANGED relays
       \/ /\ Connected(c) /\ "server" \notin relays[c].cut
          /\ Drained(request[c])
          /\ request' = [request EXCEPT ![c].seen = "eof"]
          /\ relays' = [relays EXCEPT ![c].uplink = "ended"]
       \/ /\ ~Connected(c) \/ relays[c].cut # {}
          /\ relays' = [relays EXCEPT ![c].uplink = "ended"]
          /\ UNCHANGED request
    /\ UNCHANGED <<listener, acceptor, stopper, tracked, response, taken>>

(* and, in the relay's own thread, from the server.  While the client does  *)
(* not read, the copy waits in its write, with no time limit, and notices   *)
(* nothing of the server; of a client that is gone it notices when there is *)
(* something to write.                                                      *)
CopyResponse(c) ==
    /\ relays[c].phase = "relaying"
    /\ \/ /\ Connected(c) /\ "client" \notin relays[c].cut
          /\ Pending(response[c]) /\ CanWrite(c)
          /\ response' = [response EXCEPT ![c].got = @ + 1]
          /\ UNCHANGED relays
       \/ /\ Connected(c) /\ "client" \notin relays[c].cut
          /\ Drained(response[c])
          /\ response' = [response EXCEPT ![c].seen = "eof"]
          /\ relays' = [relays EXCEPT ![c].phase = "ensure"]
       \/ /\ \/ "server" \in relays[c].cut /\ (Pending(response[c]) => CanWrite(c))
             \/ "client" \in relays[c].cut
                    /\ (Pending(response[c]) \/ Drained(response[c]))
             \/ ~Connected(c)
                    /\ (Drained(response[c]) \/ (Pending(response[c]) /\ CanWrite(c)))
          /\ relays' = [relays EXCEPT ![c].phase = "ensure"]
          /\ UNCHANGED response
    /\ UNCHANGED <<listener, acceptor, stopper, tracked, request, taken>>

(* A copy that waits on a socket stop has closed may be interrupted.        *)
Interrupted(c) ==
    /\ relays[c].phase = "relaying" /\ ~Connected(c)
    /\ relays' = [relays EXCEPT ![c].phase = "ensure"]
    /\ UNCHANGED <<listener, acceptor, stopper, tracked, request, response, taken>>

(* The relay's ensure: untrack, then close both sockets.                    *)
Finish(c) ==
    /\ relays[c].phase = "ensure"
    /\ tracked' = tracked \ {c}
    /\ relays' = [relays EXCEPT ![c].phase = "ended", ![c].client = "closed",
                                ![c].upstream = IF @ = "open" THEN "closed" ELSE @]
    /\ \E s \in ToClient(c) : response' = [response EXCEPT ![c].seen = s]
    /\ \E s \in ToServer(c) : request' = [request EXCEPT ![c].seen = s]
    /\ UNCHANGED <<listener, acceptor, stopper, taken>>

(* stop closes the listener, which resets what it has not accepted,         *)
CloseListener ==
    /\ stopper = "none"
    /\ stopper' = "closing"
    /\ listener' = "closed"
    /\ relays' = [c \in Conns |->
            IF relays[c].phase = "queued" THEN [relays[c] EXCEPT !.phase = "ended"]
            ELSE relays[c]]
    /\ response' = [c \in Conns |->
            IF relays[c].phase = "queued" THEN [response[c] EXCEPT !.seen = "reset"]
            ELSE response[c]]
    /\ UNCHANGED <<acceptor, tracked, request, taken>>

(* and under the mutex every socket in @open_sockets, whatever is copied.   *)
CloseTracked ==
    /\ stopper = "closing"
    /\ stopper' = "stopped"
    /\ relays' = [c \in Conns |->
            IF c \in tracked
            THEN [relays[c] EXCEPT !.client = "closed", !.upstream = "closed", !.cut = @ \cup {"stop"}]
            ELSE relays[c]]
    /\ \E client, server \in [tracked -> Seen] :
          /\ \A c \in tracked : client[c] \in ToClient(c) /\ server[c] \in ToServer(c)
          /\ response' = [c \in Conns |->
                IF c \in tracked THEN [response[c] EXCEPT !.seen = client[c]] ELSE response[c]]
          /\ request' = [c \in Conns |->
                IF c \in tracked THEN [request[c] EXCEPT !.seen = server[c]] ELSE request[c]]
    /\ UNCHANGED <<listener, acceptor, tracked, taken>>

(* The peers send, end their stream, or are gone with what is in flight.    *)
(* Data for a socket that is closed is answered with a reset.               *)
ClientSends(c) ==
    /\ relays[c].phase # "none" /\ response[c].seen # "reset"
    /\ "client" \notin relays[c].cut /\ ~request[c].ended
    /\ \/ /\ request[c].sent < MaxChunks[c]
          /\ request' = [request EXCEPT ![c].sent = @ + 1]
          /\ response' = [response EXCEPT ![c].seen =
                            IF relays[c].client = "closed" THEN "reset" ELSE @]
       \/ request' = [request EXCEPT ![c].ended = TRUE] /\ UNCHANGED response
    /\ UNCHANGED <<listener, acceptor, stopper, tracked, relays, taken>>

ServerSends(c) ==
    /\ relays[c].upstream # "none" /\ request[c].seen # "reset"
    /\ "server" \notin relays[c].cut /\ ~response[c].ended
    /\ \/ /\ response[c].sent < MaxChunks[c]
          /\ response' = [response EXCEPT ![c].sent = @ + 1]
          /\ request' = [request EXCEPT ![c].seen =
                           IF relays[c].upstream = "closed" THEN "reset" ELSE @]
       \/ response' = [response EXCEPT ![c].ended = TRUE] /\ UNCHANGED request
    /\ UNCHANGED <<listener, acceptor, stopper, tracked, relays, taken>>

ClientReads(c) ==
    /\ taken[c] < response[c].got
    /\ taken' = [taken EXCEPT ![c] = @ + 1]
    /\ UNCHANGED <<listener, acceptor, stopper, tracked, relays, request, response>>

Reset(c) ==
    /\ \/ relays[c].client = "open"
          /\ relays' = [relays EXCEPT ![c].cut = @ \cup {"client"}]
       \/ relays[c].upstream = "open"
          /\ relays' = [relays EXCEPT ![c].cut = @ \cup {"server"}]
    /\ UNCHANGED <<listener, acceptor, stopper, tracked, request, response, taken>>

-----------------------------------------------------------------------------
WorksWithoutEnsure(c) == Dial(c) \/ Track(c) \/ CopyResponse(c)

Works(c) == Dial(c) \/ Track(c) \/ CopyResponse(c) \/ Finish(c)
Peers(c) ==
    \/ Queue(c) \/ ClientReads(c)
    \/ c \in Active /\ (ClientSends(c) \/ ServerSends(c) \/ Reset(c))

TcpNext ==
    \/ AcceptRaises \/ CloseListener \/ CloseTracked
    \/ \E c \in Conns : Accept(c) \/ Works(c) \/ CopyRequest(c) \/ Interrupted(c) \/ Peers(c)

TcpSpec == TcpInit /\ [][TcpNext]_tcpVars

(* Ruby schedules the thread of a relay whenever it can go on.  Nothing     *)
(* makes a peer connect, send, read or end its stream, and so nothing makes *)
(* the copy of a request go on.                                             *)
TcpFairSpec == TcpSpec /\ \A c \in Conns : WF_tcpVars(Works(c))

-----------------------------------------------------------------------------
TcpTypeOK ==
    /\ listener \in {"open", "closed"}
    /\ acceptor \in {"accepting", "ended"}
    /\ stopper \in {"none", "closing", "stopped"}
    /\ tracked \subseteq Conns
    /\ relays \in [Conns -> Relay]
    /\ DOMAIN request = Conns /\ DOMAIN response = Conns
    /\ \A c \in Conns : request[c] \in Stream(c) /\ response[c] \in Stream(c)
    /\ taken \in [Conns -> Nat]
    /\ \A c \in Conns : taken[c] <= response[c].got
    /\ \A c \in Conns : request[c].got <= request[c].sent /\ response[c].got <= response[c].sent

(* While neither a reset nor stop cuts a connection, half-closing either    *)
(* side first loses nothing: a client gets the whole response and its end,  *)
(* or a reset only for data no one copied; and a server that still answers  *)
(* sees the end of a request only after all of it, although the relay's two *)
(* threads signal ends and close the sockets under each other.              *)
StreamsArriveWhole ==
    \A c \in Conns : relays[c].cut = {} =>
        /\ relays[c].phase = "ended" /\ relays[c].upstream # "none" =>
                /\ response[c].ended /\ response[c].got = response[c].sent
                /\ response[c].seen = "eof" \/ Pending(request[c])
        /\ request[c].seen = "eof" /\ ~response[c].ended =>
                request[c].ended /\ request[c].got = request[c].sent

(* stop ends in-flight connections: one that was relayed at any time before *)
(* stop has closed the tracked sockets is closed from then on, or about to  *)
(* be by its own ensure.  One that is still dialing then is not.            *)
StopEndsRelays ==
    \A c \in Conns :
        [](relays[c].phase = "relaying" /\ stopper # "stopped" =>
               [](stopper = "stopped" /\ relays[c].phase # "ensure" =>
                      relays[c].client # "open" /\ relays[c].upstream # "open"))

(* A client that goes on reading what is written to it, or is gone.         *)
KeepsReading(c) == []<>(taken[c] = response[c].got \/ "client" \in relays[c].cut)

(* Once the server has ended its stream or is gone, the connection ends,    *)
(* whatever becomes of the request, as long as the client reads.            *)
ConnectionsEnd ==
    \A c \in Conns : KeepsReading(c) =>
        (relays[c].phase = "relaying" /\ (response[c].ended \/ "server" \in relays[c].cut)
            ~> relays[c].phase = "ended")

=============================================================================
