-------------------------------- MODULE Signal --------------------------------
(***************************************************************************)
(* The "go pull now" signal from a committed write to every tab: the hub   *)
(* and its pumps (internal/wsserver), and the tab's socket and timers      *)
(* (ws/client.ts).  An event carries nothing a tab looks at, so channels   *)
(* and wires hold numbers of events; the server's data is `version`, and a *)
(* pull brings a tab to the version at the moment it is handled.  Calls    *)
(* that fail are SyncSystem's subject; here only a restart loses them.     *)
(*                                                                         *)
(* Two restrictions the code does not ensure, dropped when FALSE:          *)
(* RegistersFirst, the hub has a new client before the tab sees its socket *)
(* open; ClosesFirst, a tab is started again only after its old socket has *)
(* closed.                                                                 *)
(***************************************************************************)
EXTENDS Integers, FiniteSets

CONSTANTS Tab, Conn,        \* tabs; sockets, each used again once it is done with
          RegistersFirst, ClosesFirst,
          BroadcastCap,     \* capacity of hub.broadcast, 16 in the code
          SendCap,          \* capacity of a client's send channel, 8 in the code
          MaxVersion,       \* bound on the writes
          MaxLosses,        \* bound on connections lost and server restarts
          MaxStops,         \* bound on log-outs
          None              \* a tab without a socket

ASSUME SignalAssumption ==
  /\ {RegistersFirst, ClosesFirst} \subseteq BOOLEAN /\ None \notin Conn
  /\ {BroadcastCap, SendCap} \subseteq Nat \ {0}
  /\ {MaxVersion, MaxLosses, MaxStops} \subseteq Nat

VARIABLES clients,   \* Hub.clients
          broadcast, \* events in hub.broadcast
          conn,      \* both ends of each socket
          tab,       \* the module state of ws/client.ts in each tab
          version,   \* the server's committed seq
          unsaid,    \* sync handlers that have committed and not yet called Notify
          losses, stops

vars == <<clients, broadcast, conn, tab, version, unsaid, losses, stops>>

\* of: its tab; page: its readyState; reader, writer: how far its two pumps are;
\* send, closes: events in its send channel, times that was closed; wire: frames
\* on their way; up: both ends can still use the connection.
NoConn(t) == [of |-> t, page |-> "closed", reader |-> "none", writer |-> "none",
              send |-> 0, closes |-> 0, wire |-> 0, up |-> FALSE]

Init == /\ clients = {}
        /\ broadcast = 0
        /\ conn \in [Conn -> {NoConn(t) : t \in Tab}]
        /\ \A c, d \in Conn : conn[c] = conn[d]
        /\ tab = [t \in Tab |-> [stopped |-> TRUE, socket |-> None, retry |-> FALSE,
                                 pull |-> FALSE, asked |-> 0, seen |-> 0]]
        /\ version = 0
        /\ unsaid = 0
        /\ losses = 0
        /\ stops = 0

------------------------------------------------------------------------------
(* The server. *)

Write == /\ version < MaxVersion
         /\ version' = version + 1
         /\ unsaid' = unsaid + 1
         /\ UNCHANGED <<clients, broadcast, conn, tab, losses, stops>>

\* Mutant of Notified: the channel takes every event.
NotifiedUnbounded == broadcast + 1

\* An event that finds the channel full is dropped.
Notified == IF broadcast < BroadcastCap THEN broadcast + 1 ELSE broadcast

Notify == /\ unsaid > 0
          /\ unsaid' = unsaid - 1
          /\ broadcast' = Notified
          /\ UNCHANGED <<clients, conn, tab, version, losses, stops>>

\* handleWS up to `hub.register <- c`.
Upgrade(c) == /\ conn[c].up /\ conn[c].page # "closed" /\ conn[c].reader = "none"
              /\ conn' = [conn EXCEPT ![c].reader = "register"]
              /\ UNCHANGED <<clients, broadcast, tab, version, unsaid, losses, stops>>

\* The hub takes the client; Serve starts both pumps.
Register(c) == /\ conn[c].reader = "register"
               /\ clients' = clients \cup {c}
               /\ conn' = [conn EXCEPT ![c].reader = "read", ![c].writer = "run"]
               /\ UNCHANGED <<broadcast, tab, version, unsaid, losses, stops>>

\* A client whose channel is full leaves the hub and has its channel closed.
Slow(k) == [k EXCEPT !.closes = @ + 1]

Full(c) == conn[c].send = SendCap

FanOut == /\ broadcast > 0
          /\ broadcast' = broadcast - 1
          /\ clients' = {c \in clients : ~Full(c)}
          /\ conn' = [c \in Conn |-> IF c \notin clients THEN conn[c]
                                     ELSE IF Full(c) THEN Slow(conn[c])
                                     ELSE [conn[c] EXCEPT !.send = @ + 1]]
          /\ UNCHANGED <<tab, version, unsaid, losses, stops>>

\* writePump writes an event, or the close frame once its channel is closed and
\* empty, or fails to (a ping, too, fails on a dead connection).
WriteEvent(c) == /\ conn[c].writer = "run" /\ conn[c].send > 0 /\ conn[c].up
                 /\ conn' = [conn EXCEPT ![c].send = @ - 1, ![c].wire = @ + 1]
                 /\ UNCHANGED <<clients, broadcast, tab, version, unsaid, losses, stops>>

EndWriter(c) == /\ conn[c].writer = "run"
                /\ ~conn[c].up \/ (conn[c].send = 0 /\ conn[c].closes > 0)
                /\ conn' = [conn EXCEPT ![c].writer = "done", ![c].up = FALSE]
                /\ UNCHANGED <<clients, broadcast, tab, version, unsaid, losses, stops>>

\* Mutant of AfterRead: readPump just returns.
AfterReadNothing == "done"

AfterRead == "unregister"

\* readPump's read fails: the peer closed, the deadline passed, or we closed.
EndReader(c) == /\ conn[c].reader = "read" /\ ~conn[c].up
                /\ conn' = [conn EXCEPT ![c].reader = AfterRead]
                /\ UNCHANGED <<clients, broadcast, tab, version, unsaid, losses, stops>>

\* Mutant of Leaving: the channel is closed whether or not the client is known.
LeavingTwice(c) == [conn[c] EXCEPT !.closes = @ + 1, !.reader = "done", !.up = FALSE]

Leaving(c) == [conn[c] EXCEPT !.closes = IF c \in clients THEN @ + 1 ELSE @,
                              !.reader = "done", !.up = FALSE]

Unregister(c) == /\ conn[c].reader = "unregister"
                 /\ clients' = clients \ {c}
                 /\ conn' = [conn EXCEPT ![c] = Leaving(c)]
                 /\ UNCHANGED <<broadcast, tab, version, unsaid, losses, stops>>

\* The process dies and is started again: what was committed is there.
Restart == /\ losses < MaxLosses
           /\ losses' = losses + 1
           /\ clients' = {}
           /\ broadcast' = 0
           /\ unsaid' = 0
           /\ conn' = [c \in Conn |-> [conn[c] EXCEPT !.reader = "done", !.writer = "done",
                                                      !.send = 0, !.closes = 0, !.up = FALSE]]
           /\ tab' = [t \in Tab |-> [tab[t] EXCEPT !.asked = 0]]
           /\ UNCHANGED <<version, stops>>

------------------------------------------------------------------------------
(* The tab. *)

\* Nothing of a socket is left.
Done(c) == /\ conn[c].page = "closed" /\ c \notin clients
           /\ conn[c].reader \in {"none", "done"} /\ conn[c].writer \in {"none", "done"}

Sockets(t) == {c \in Conn : conn[c].of = t /\ conn[c].page # "closed"}

\* connect: a new socket; what t becomes otherwise is k.
Connect(t, k) ==
  \E c \in Conn :
    /\ Done(c)
    /\ conn' = [conn EXCEPT ![c] = [NoConn(t) EXCEPT !.page = "connecting", !.up = TRUE]]
    /\ tab' = [tab EXCEPT ![t] = [k EXCEPT !.socket = c]]
    /\ UNCHANGED <<clients, broadcast, version, unsaid, losses, stops>>

\* Mutant of MayStart: startWSClient does not look whether it runs already.
MayStartAgain(t) == TRUE

MayStart(t) == tab[t].stopped /\ (ClosesFirst => Sockets(t) = {})

StartWSClient(t) == /\ MayStart(t)
                    /\ Connect(t, [tab[t] EXCEPT !.stopped = FALSE])

ReconnectTimer(t) == /\ tab[t].retry
                     /\ Connect(t, [tab[t] EXCEPT !.retry = FALSE])

StopWSClient(t) ==
  /\ ~tab[t].stopped /\ stops < MaxStops
  /\ stops' = stops + 1
  /\ tab' = [tab EXCEPT ![t] = [@ EXCEPT !.stopped = TRUE, !.retry = FALSE,
                                         !.pull = FALSE, !.socket = None]]
  /\ conn' = [c \in Conn |-> IF c = tab[t].socket /\ c \in Sockets(t)
                             THEN [conn[c] EXCEPT !.page = "closing"] ELSE conn[c]]
  /\ UNCHANGED <<clients, broadcast, version, unsaid, losses>>

\* Mutant of Opened: no catch-up pull.
OpenedQuietly(k) == k

Opened(k) == [k EXCEPT !.asked = @ + 1]

OnOpen(c) == /\ conn[c].page = "connecting" /\ conn[c].up
             /\ conn[c].reader \in IF RegistersFirst THEN {"read"} ELSE {"register", "read"}
             /\ conn' = [conn EXCEPT ![c].page = "open"]
             /\ tab' = [tab EXCEPT ![conn[c].of] = Opened(@)]
             /\ UNCHANGED <<clients, broadcast, version, unsaid, losses, stops>>

OnMessage(c) == /\ conn[c].page = "open" /\ conn[c].wire > 0
                /\ conn' = [conn EXCEPT ![c].wire = @ - 1]
                /\ tab' = [tab EXCEPT ![conn[c].of].pull = TRUE]
                /\ UNCHANGED <<clients, broadcast, version, unsaid, losses, stops>>

\* Mutant of Closed: a socket that was not asked to close is not replaced.
ClosedForGood(k) == k

Closed(k) == [k EXCEPT !.retry = ~k.stopped]

\* The other end is gone, or the close this end asked for is through.
OnClose(c) == /\ conn[c].page # "closed"
              /\ ~conn[c].up \/ conn[c].page = "closing"
              /\ conn' = [conn EXCEPT ![c].page = "closed", ![c].up = FALSE, ![c].wire = 0]
              /\ tab' = [tab EXCEPT ![conn[c].of] = Closed(@)]
              /\ UNCHANGED <<clients, broadcast, version, unsaid, losses, stops>>

PullTimer(t) == /\ tab[t].pull
                /\ tab' = [tab EXCEPT ![t].pull = FALSE, ![t].asked = @ + 1]
                /\ UNCHANGED <<clients, broadcast, conn, version, unsaid, losses, stops>>

\* One of the tab's calls is handled and its reply comes.
Pulled(t) == /\ tab[t].asked > 0
             /\ tab' = [tab EXCEPT ![t].asked = @ - 1, ![t].seen = version]
             /\ UNCHANGED <<clients, broadcast, conn, version, unsaid, losses, stops>>

\* The connection breaks, for whatever reason outside the program.
Lose(c) == /\ conn[c].up /\ losses < MaxLosses
           /\ losses' = losses + 1
           /\ conn' = [conn EXCEPT ![c].up = FALSE]
           /\ UNCHANGED <<clients, broadcast, tab, version, unsaid, stops>>

------------------------------------------------------------------------------
\* What goes on by itself.  Every step uses up an event, a timer, a call or a
\* stage of a socket.
Progress ==
  \/ Notify \/ FanOut
  \/ \E c \in Conn : \/ Upgrade(c) \/ Register(c) \/ Unregister(c)
                     \/ WriteEvent(c) \/ EndWriter(c) \/ EndReader(c)
                     \/ OnOpen(c) \/ OnMessage(c) \/ OnClose(c)
  \/ \E t \in Tab : ReconnectTimer(t) \/ PullTimer(t) \/ Pulled(t)

\* Nothing is left to do, or no socket is left to do it with: only here may it
\* all stop.
Idle == /\ version = MaxVersion /\ unsaid = 0 /\ broadcast = 0
        /\ \A t \in Tab : /\ ~tab[t].pull /\ tab[t].asked = 0
                          /\ tab[t].retry => \A c \in Conn : ~Done(c)
        /\ \A c \in Conn : \/ conn[c].page = "closed" /\ ~conn[c].up
                           \/ conn[c].page = "open" /\ conn[c].up /\ conn[c].reader = "read"
                              /\ conn[c].send = 0 /\ conn[c].wire = 0
        /\ UNCHANGED vars

Next == \/ Progress \/ Write \/ Restart \/ Idle
        \/ \E c \in Conn : Lose(c)
        \/ \E t \in Tab : StartWSClient(t) \/ StopWSClient(t)

Spec == Init /\ [][Next]_vars
FairSpec == Spec /\ WF_vars(Progress)

------------------------------------------------------------------------------
(* Properties. *)

SignalTypeOK ==
  /\ clients \subseteq Conn /\ broadcast \in 0 .. BroadcastCap
  /\ \A c \in Conn : /\ conn[c].send \in 0 .. SendCap
                     /\ conn[c].reader \in {"none", "register", "read", "unregister", "done"}
                     /\ conn[c].writer \in {"none", "run", "done"}
  /\ \A t \in Tab : tab[t].socket \in Conn \cup {None} /\ tab[t].seen \in 0 .. version

\* Hub.Run never sends on a closed channel, nor closes one twice: either would
\* panic, and with it the process (hub.go Run, unregister against a full buffer).
ChannelsSound == \A c \in Conn : conn[c].closes <= IF c \in clients THEN 0 ELSE 1

\* An event for c is on its way.
Coming(c) == c \in clients /\ (conn[c].send > 0 \/ broadcast > 0 \/ unsaid > 0)

\* A pull of c's tab is to come: it has been armed or made, an event for it is on
\* its way, or the socket is lost and the next one's onopen will pull.
Due(c) == \/ tab[conn[c].of].pull \/ tab[conn[c].of].asked > 0 \/ conn[c].wire > 0
          \/ Coming(c) \/ ~conn[c].up \/ conn[c].closes > 0

\* hub.go Notify, ws/client.ts onopen: a dropped event is harmless - a tab with an
\* open socket that has not seen the latest write has a pull to come.
NeverStale == \A c \in Conn :
  conn[c].page = "open" /\ tab[conn[c].of].seen < version => Due(c)

\* hub.go:75, the signal keeps tabs fresh: a write leaves every tab owed a pull, and
\* only the pull itself ends that, which a tab that is not logged out gets.
Fresh == INSTANCE Freshness WITH
  seen <- [t \in Tab |-> tab[t].seen],
  owed <- [t \in Tab |-> \A c \in Conn : conn[c].of = t /\ conn[c].page = "open" => Due(c)],
  away <- [t \in Tab |-> tab[t].stopped]
KeepsFresh == Fresh!FFairSpec

\* startWSClient and the reconnect timer: a tab never has two sockets at once, and
\* a stopped tab none that is not closing.
OneSocket == \A t \in Tab :
  /\ \A c, d \in Sockets(t) : c = d
  /\ tab[t].stopped => \A c \in Sockets(t) : conn[c].page = "closing"

\* onclose, onopen: whatever was lost or restarted, a tab that is not logged out
\* ends up with the latest write.
CaughtUp == \A t \in Tab : <>[](tab[t].stopped \/ tab[t].seen = version)

\* readPump, writePump: of a broken connection neither goroutine stays, nor the
\* hub's entry, which would otherwise fill up and hold every later event.
Reaped == \A c \in Conn : ~conn[c].up ~>
  (conn[c].up \/ (c \notin clients /\ conn[c].writer # "run" /\ conn[c].reader # "read"))
==============================================================================
