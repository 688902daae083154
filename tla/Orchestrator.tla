----------------------------- MODULE Orchestrator -----------------------------
(***************************************************************************)
(* The metrics stream of the API orchestrator, api-server/src/main.py: the *)
(* WebSocket endpoint /ws/metrics, one handler task per client, and the    *)
(* broadcaster task, which polls the services and pushes a snapshot to     *)
(* every client.  All are tasks of one asyncio loop that share             *)
(* connected_clients, a plain set; an action runs from one await to the    *)
(* next.  A Python set is a table of slots that an iteration walks through *)
(* by position; it raises RuntimeError as soon as the set's size is not    *)
(* what it was at the start.  That the table is not rehashed in the middle *)
(* of a walk is assumed.                                                   *)
(***************************************************************************)
EXTENDS Integers, FiniteSets

CONSTANTS
    Clients,        \* the WebSocket connections that can exist at a time
    Slots           \* slots of the set's table

None == "none"

ASSUME SlotAssumption ==
    /\ IsFiniteSet(Clients) /\ None \notin Clients
    /\ Slots \in Nat /\ Slots >= Cardinality(Clients)

VARIABLES
    ws,             \* each connection: "none", "open", "gone" (the peer has left and
                    \* its handler does not know yet) or "failed" (its handler died)
    slot,           \* connected_clients: the slot a connection is in, or NoSlot
    pc,             \* the broadcaster: "sleep", "fetch", "send" or "dead"
    size,           \* the iteration under way: the size it relies on,
    pos,            \* the last slot it has looked at,
    current,        \* the one it sends to,
    disconnected    \* and those found broken

vars == <<ws, slot, pc, size, pos, current, disconnected>>
round == <<pc, size, pos, current, disconnected>>

NoSlot == 0

connected_clients == {c \in Clients : slot[c] # NoSlot}

\* The members that a walk which has come to slot `at` has before it.
Ahead(at) == {c \in connected_clients : slot[c] > at}

\* Whether send_text can raise: it does on a socket the server has closed, and may
\* on one whose peer is gone.
Outcomes(c) == CASE ws[c] = "open" -> {FALSE} [] ws[c] = "failed" -> {TRUE}
                 [] OTHER -> BOOLEAN

Init ==
    /\ ws = [c \in Clients |-> "none"]
    /\ slot = [c \in Clients |-> NoSlot]
    /\ pc = "sleep"
    /\ size = 0 /\ pos = 0 /\ current = None /\ disconnected = {}

-----------------------------------------------------------------------------
(* metrics_websocket *)

\* accept and add, to a free slot ahead of an iteration or behind it.
metrics_websocket(c) ==
    /\ ws[c] = "none" /\ c \notin connected_clients \cup disconnected \cup {current}
    /\ ws' = [ws EXCEPT ![c] = "open"]
    /\ \E s \in 1..Slots :
          /\ \A d \in Clients : slot[d] # s
          /\ slot' = [slot EXCEPT ![c] = s]
    /\ UNCHANGED round

\* The peer closes the connection, or it breaks.
PeerLeaves(c) ==
    /\ ws[c] = "open"
    /\ ws' = [ws EXCEPT ![c] = "gone"]
    /\ UNCHANGED slot /\ UNCHANGED round

\* Broken variant: the socket stays registered.
HandlerDisconnects_Keep(c) ==
    /\ ws[c] = "gone"
    /\ ws' = [ws EXCEPT ![c] = "none"]
    /\ UNCHANGED slot /\ UNCHANGED round

\* receive_text raises WebSocketDisconnect: the handler discards the socket.
HandlerDisconnects(c) ==
    /\ ws[c] = "gone"
    /\ ws' = [ws EXCEPT ![c] = "none"]
    /\ slot' = [slot EXCEPT ![c] = NoSlot]
    /\ UNCHANGED round

\* receive_text raises something else (a binary frame): the handler ends, the
\* server closes the socket, and the set keeps it.
HandlerFails(c) ==
    /\ ws[c] = "open"
    /\ ws' = [ws EXCEPT ![c] = "failed"]
    /\ UNCHANGED slot /\ UNCHANGED round

-----------------------------------------------------------------------------
(* metrics_broadcaster *)

\* sleep(1.0) is over; without clients nothing is polled.
Wake ==
    /\ pc = "sleep" /\ connected_clients # {}
    /\ pc' = "fetch"
    /\ UNCHANGED <<ws, slot, size, pos, current, disconnected>>

\* The set is walked without an await until the next send: the walk raises "Set
\* changed size during iteration", outside the try, which ends the task, and
\* nobody awaits it;
WalkFails(sz) ==
    /\ Cardinality(connected_clients) # sz
    /\ pc' = "dead"
    /\ size' = 0 /\ pos' = 0 /\ disconnected' = {} /\ current' = None
    /\ UNCHANGED <<ws, slot>>

\* or comes to its next socket, and the send begins;
SendTo(c, sz, at, broken) ==
    /\ Cardinality(connected_clients) = sz
    /\ c \in Ahead(at) /\ \A d \in Ahead(at) : slot[c] <= slot[d]
    /\ pc' = "send"
    /\ size' = sz /\ pos' = slot[c] /\ disconnected' = broken /\ current' = c
    /\ UNCHANGED <<ws, slot>>

\* Broken variant: broken sockets stay registered.
Remaining_Keep(c, broken) == slot[c]

\* Broken variant: one broken socket unregisters everybody.
Remaining_Clear(c, broken) == IF broken = {} THEN slot[c] ELSE NoSlot

\* difference_update
Remaining(c, broken) == IF c \in broken THEN NoSlot ELSE slot[c]

\* or is through, and broken sockets are dropped.  A failed one has no handler:
\* nothing is left of it.
WalkEnds(sz, at, broken) ==
    /\ Cardinality(connected_clients) = sz /\ Ahead(at) = {}
    /\ slot' = [c \in Clients |-> Remaining(c, broken)]
    /\ ws' = [c \in Clients |-> IF ws[c] = "failed" /\ slot'[c] = NoSlot THEN "none"
                                                                        ELSE ws[c]]
    /\ pc' = "sleep"
    /\ size' = 0 /\ pos' = 0 /\ disconnected' = {} /\ current' = None

Walk(sz, at, broken) ==
    \/ WalkFails(sz)
    \/ \E c \in Clients : SendTo(c, sz, at, broken)
    \/ WalkEnds(sz, at, broken)

\* The services have answered or not (None becomes {}), and the walk begins.
Fetched ==
    /\ pc = "fetch"
    /\ Walk(Cardinality(connected_clients), 0, {})

\* Broken variant: the first broken socket ends the round.
Sent_Break(raised) ==
    /\ pc = "send" /\ raised \in Outcomes(current)
    /\ Walk(size, IF raised THEN Slots ELSE pos,
            IF raised THEN disconnected \cup {current} ELSE disconnected)

\* send_text returns, or raises and the socket is noted; the walk goes on.
Sent(raised) ==
    /\ pc = "send" /\ raised \in Outcomes(current)
    /\ Walk(size, pos, IF raised THEN disconnected \cup {current} ELSE disconnected)

Broadcast == Wake \/ Fetched \/ \E raised \in BOOLEAN : Sent(raised)

Next ==
    \/ \E c \in Clients :
          \/ metrics_websocket(c) \/ PeerLeaves(c)
          \/ HandlerDisconnects(c) \/ HandlerFails(c)
    \/ Broadcast

Spec == Init /\ [][Next]_vars

\* The loop keeps scheduling the broadcaster, whose awaits all end (requests have a
\* timeout of two seconds, a send to a dead peer fails); nothing is assumed of clients
\* or of when their handlers learn that they are gone.
FairSpec == Spec /\ WF_vars(Broadcast)

-----------------------------------------------------------------------------
(* Properties *)

\* A socket whose handler has seen the end is not registered, and only sockets that
\* are not open are noted as broken.
TypeOK ==
    /\ ws \in [Clients -> {"none", "open", "gone", "failed"}]
    /\ slot \in [Clients -> 0..Slots] /\ \A c \in connected_clients : ws[c] # "none"
    /\ pc \in {"sleep", "fetch", "send", "dead"}
    /\ size \in Nat
    /\ pos \in 0..Slots
    /\ current \in Clients \cup {None} /\ (pc = "send" <=> current # None)
    /\ disconnected \subseteq Clients /\ \A c \in disconnected : ws[c] # "open"

\* A client is never dropped from the stream while it is there: whoever else fails,
\* leaves or is swept out, an open connection is registered.
OpenRegistered == \A c \in Clients : ws[c] = "open" => c \in connected_clients

\* While the broadcaster lives, every client that stays is sent a snapshot round
\* after round, however many others come, go and break in between.
ServedTo(c) == Sent(FALSE) /\ current = c

SteadyServed ==
    \A c \in Clients :
        <>[](pc # "dead" /\ ws[c] = "open") => []<><<ServedTo(c)>>_vars

\* While the broadcaster lives, a socket whose handler is gone does not stay
\* registered: only the next failing send can find it.
Orphaned(c) == c \in connected_clients /\ ws[c] = "failed"

OrphansSwept ==
    [](pc # "dead") => \A c \in Clients : Orphaned(c) ~> ~Orphaned(c)

-----------------------------------------------------------------------------
(* What the module's documentation says *)

\* "polls all 3 services every 1s, pushes unified snapshot" (main.py:7): a client
\* that stays connected is sent snapshots for ever.
EverybodyServed ==
    \A c \in Clients : <>[](ws[c] = "open") => []<><<ServedTo(c)>>_vars
===============================================================================
