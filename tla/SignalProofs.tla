----------------------------- MODULE SignalProofs -----------------------------
(***************************************************************************)
(* The signal, for any number of tabs, sockets, writes, losses and stops,  *)
(* and any capacities: the hub never breaks a channel, and as long as the  *)
(* hub registers a socket before its tab sees it open, and a tab's old     *)
(* socket closes before it is started again, every write leaves every tab  *)
(* owed a pull.                                                            *)
(***************************************************************************)
EXTENDS Signal, TLAPS

Socket == [of : Tab, page : {"connecting", "open", "closing", "closed"},
           reader : {"none", "register", "read", "unregister", "done"},
           writer : {"none", "run", "done"}, send : 0 .. SendCap, closes : Nat,
           wire : Nat, up : BOOLEAN]

TabState == [stopped : BOOLEAN, socket : Conn \cup {None}, retry : BOOLEAN,
             pull : BOOLEAN, asked : Nat, seen : Nat]

Typed == /\ clients \subseteq Conn /\ broadcast \in 0 .. BroadcastCap
         /\ conn \in [Conn -> Socket] /\ tab \in [Tab -> TabState]
         /\ version \in Nat /\ unsaid \in Nat
         /\ \A t \in Tab : tab[t].seen <= version

\* A socket k as the hub and its pumps leave it; in says whether the hub knows it.
Sound(k, in) ==
  /\ k.closes <= IF in THEN 0 ELSE 1
  /\ k.reader \in {"none", "register"} => ~in /\ k.closes = 0
  /\ k.reader = "read" => in \/ k.closes > 0
  /\ k.reader \in {"unregister", "done"} => ~k.up

Server == Typed /\ \A c \in Conn : Sound(conn[c], c \in clients)

------------------------------------------------------------------------------
(* The hub and its pumps. *)

LEMMA Caps == /\ BroadcastCap \in Nat /\ BroadcastCap > 0 /\ SendCap \in Nat /\ SendCap > 0
              /\ RegistersFirst \in BOOLEAN /\ ClosesFirst \in BOOLEAN /\ None \notin Conn
  BY SignalAssumption

\* One socket becomes k.
LEMMA OneChanges ==
  ASSUME Server, NEW c \in Conn, NEW k \in Socket, conn' = [conn EXCEPT ![c] = k],
         clients' \subseteq Conn, \A d \in Conn : d # c => (d \in clients' <=> d \in clients),
         Sound(k, c \in clients'),
         tab' \in [Tab -> TabState], \A t \in Tab : tab'[t].seen = tab[t].seen,
         UNCHANGED <<broadcast, version, unsaid>>
  PROVE  Server'
<1>1. conn \in [Conn -> Socket] /\ conn' \in [Conn -> Socket]
  BY DEF Server, Typed
<1>2. Typed'
  BY <1>1 DEF Server, Typed
<1>3. ASSUME NEW d \in Conn PROVE Sound(conn'[d], d \in clients')
  <2>1. CASE d = c
    BY <1>1, <2>1
  <2>2. CASE d # c
    <3>1. conn'[d] = conn[d] /\ Sound(conn[d], d \in clients) /\ (d \in clients' <=> d \in clients)
      BY <1>1, <2>2 DEF Server
    <3> QED
      BY <3>1 DEF Sound
  <2> QED
    BY <2>1, <2>2
<1> QED
  BY <1>2, <1>3 DEF Server

\* No socket changes.
LEMMA NoneChanges ==
  ASSUME Server, conn' = conn, clients' = clients,
         broadcast' \in 0 .. BroadcastCap, version' \in Nat, unsaid' \in Nat,
         tab' \in [Tab -> TabState], \A t \in Tab : tab'[t].seen <= version'
  PROVE  Server'
  BY DEF Server, Typed

\* A socket is typed, and what the pumps may do to one keeps it sound.
LEMMA PumpsKeep ==
  ASSUME Server, NEW c \in Conn,
         \/ Upgrade(c) \/ Register(c) \/ WriteEvent(c) \/ EndWriter(c)
         \/ EndReader(c) \/ Unregister(c) \/ Lose(c)
  PROVE  Server'
<1> DEFINE k == conn[c]
<1>1. /\ k \in Socket /\ Sound(k, c \in clients) /\ clients \subseteq Conn
      /\ conn \in [Conn -> Socket] /\ tab \in [Tab -> TabState]
  BY DEF Server, Typed
<1>2. CASE Upgrade(c)
  <2> DEFINE j == [k EXCEPT !.reader = "register"]
  <2>1. conn' = [conn EXCEPT ![c] = j] /\ k.reader = "none"
    BY <1>2 DEF Upgrade
  <2>2. j \in Socket /\ Sound(j, c \in clients)
    BY <1>1, <2>1 DEF Socket, Sound
  <2> QED
    BY <1>1, <1>2, <2>1, <2>2, OneChanges DEF Upgrade
<1>3. CASE Register(c)
  <2> DEFINE j == [k EXCEPT !.reader = "read", !.writer = "run"]
  <2>1. conn' = [conn EXCEPT ![c] = j] /\ k.reader = "register" /\ clients' = clients \cup {c}
    BY <1>3 DEF Register
  <2>2. j \in Socket /\ j.reader = "read" /\ j.closes = k.closes
    BY <1>1 DEF Socket
  <2>3. k.closes = 0
    BY <1>1, <2>1 DEF Sound
  <2> HIDE DEF j
  <2>4. Sound(j, c \in clients')
    BY <2>1, <2>2, <2>3 DEF Sound
  <2> QED
    BY <1>1, <1>3, <2>1, <2>2, <2>4, OneChanges DEF Register
<1>4. CASE WriteEvent(c)
  <2> DEFINE j == [k EXCEPT !.send = @ - 1, !.wire = @ + 1]
  <2>1. conn' = [conn EXCEPT ![c] = j] /\ k.send > 0
    BY <1>4 DEF WriteEvent
  <2>2. k.send - 1 \in 0 .. SendCap /\ k.wire + 1 \in Nat
    BY <1>1, <2>1, Caps DEF Socket
  <2>3. j \in Socket /\ Sound(j, c \in clients)
    BY <1>1, <2>2 DEF Socket, Sound
  <2> QED
    BY <1>1, <1>4, <2>1, <2>3, OneChanges DEF WriteEvent
<1>5. CASE EndWriter(c)
  <2> DEFINE j == [k EXCEPT !.writer = "done", !.up = FALSE]
  <2>1. conn' = [conn EXCEPT ![c] = j]
    BY <1>5 DEF EndWriter
  <2>2. j \in Socket /\ Sound(j, c \in clients)
    BY <1>1 DEF Socket, Sound
  <2> QED
    BY <1>1, <1>5, <2>1, <2>2, OneChanges DEF EndWriter
<1>6. CASE EndReader(c)
  <2> DEFINE j == [k EXCEPT !.reader = "unregister"]
  <2>1. conn' = [conn EXCEPT ![c] = j] /\ k.reader = "read" /\ ~k.up
    BY <1>6 DEF EndReader, AfterRead
  <2>2. j \in Socket /\ Sound(j, c \in clients)
    BY <1>1, <2>1 DEF Socket, Sound
  <2> QED
    BY <1>1, <1>6, <2>1, <2>2, OneChanges DEF EndReader
<1>7. CASE Unregister(c)
  <2> DEFINE n == IF c \in clients THEN k.closes + 1 ELSE k.closes
             j == [k EXCEPT !.closes = n, !.reader = "done", !.up = FALSE]
  <2>1. conn' = [conn EXCEPT ![c] = j] /\ clients' = clients \ {c}
    BY <1>7 DEF Unregister, Leaving
  <2>2. n \in Nat /\ n <= 1
    BY <1>1 DEF Socket, Sound
  <2> HIDE DEF n
  <2>3. j \in Socket /\ Sound(j, c \in clients')
    BY <1>1, <2>1, <2>2 DEF Socket, Sound
  <2> QED
    BY <1>1, <1>7, <2>1, <2>3, OneChanges DEF Unregister
<1>8. CASE Lose(c)
  <2> DEFINE j == [k EXCEPT !.up = FALSE]
  <2>1. conn' = [conn EXCEPT ![c] = j]
    BY <1>8 DEF Lose
  <2>2. j \in Socket /\ Sound(j, c \in clients)
    BY <1>1 DEF Socket, Sound
  <2> QED
    BY <1>1, <1>8, <2>1, <2>2, OneChanges DEF Lose
<1> QED
  BY <1>2, <1>3, <1>4, <1>5, <1>6, <1>7, <1>8

LEMMA HubKeeps ==
  ASSUME Server, Write \/ Notify \/ FanOut \/ Restart
  PROVE  Server'
<1>1. /\ clients \subseteq Conn /\ broadcast \in 0 .. BroadcastCap /\ version \in Nat
      /\ unsaid \in Nat /\ conn \in [Conn -> Socket] /\ tab \in [Tab -> TabState]
      /\ \A t \in Tab : tab[t].seen \in Nat /\ tab[t].seen <= version
  BY DEF Server, Typed, TabState
<1>2. CASE Write
  BY <1>1, <1>2, NoneChanges DEF Write
<1>3. CASE Notify
  <2>1. broadcast' \in 0 .. BroadcastCap /\ unsaid' \in Nat
    BY <1>1, <1>3, Caps DEF Notify, Notified
  <2> QED
    BY <1>1, <1>3, <2>1, NoneChanges DEF Notify
<1>4. CASE FanOut
  <2>1. ASSUME NEW c \in Conn PROVE conn'[c] \in Socket /\ Sound(conn'[c], c \in clients')
    <3> DEFINE k == conn[c]
    <3>1. k \in Socket /\ Sound(k, c \in clients) /\ (c \in clients' <=> c \in clients /\ k.send # SendCap)
      BY <1>4 DEF Server, Typed, FanOut, Full
    <3>2. CASE c \notin clients
      BY <1>4, <3>1, <3>2 DEF FanOut, Sound
    <3>3. CASE c \in clients /\ k.send = SendCap
      <4>1. conn'[c] = [k EXCEPT !.closes = @ + 1]
        BY <1>4, <3>3 DEF FanOut, Full, Slow
      <4>2. k.closes = 0
        BY <3>1, <3>3 DEF Sound, Socket
      <4> QED
        BY <3>1, <3>3, <4>1, <4>2 DEF Sound, Socket
    <3>4. CASE c \in clients /\ k.send # SendCap
      <4>1. conn'[c] = [k EXCEPT !.send = @ + 1]
        BY <1>4, <3>4 DEF FanOut, Full
      <4>2. k.send + 1 \in 0 .. SendCap
        BY <3>1, <3>4, Caps DEF Socket
      <4> QED
        BY <3>1, <3>4, <4>1, <4>2 DEF Sound, Socket
    <3> QED
      BY <3>2, <3>3, <3>4
  <2>2. conn' \in [Conn -> Socket]
    <3>1. conn' = [c \in Conn |-> conn'[c]]
      BY <1>4 DEF FanOut
    <3> QED
      BY <2>1, <3>1
  <2>3. clients' \subseteq Conn /\ broadcast' \in 0 .. BroadcastCap
    BY <1>1, <1>4, Caps DEF FanOut
  <2>4. Typed'
    BY <1>1, <1>4, <2>2, <2>3 DEF FanOut, Typed
  <2> QED
    BY <2>1, <2>4 DEF Server
<1>5. CASE Restart
  <2>1. ASSUME NEW c \in Conn PROVE conn'[c] \in Socket /\ Sound(conn'[c], FALSE)
    <3> DEFINE k == conn[c]
               j == [k EXCEPT !.reader = "done", !.writer = "done", !.send = 0,
                              !.closes = 0, !.up = FALSE]
    <3>1. conn'[c] = j
      BY <1>5 DEF Restart
    <3>2. k \in Socket /\ 0 \in 0 .. SendCap
      BY <1>1, Caps
    <3> HIDE DEF k
    <3>3. j \in Socket /\ j.closes = 0 /\ j.reader = "done" /\ ~j.up
      BY <3>2 DEF Socket
    <3> HIDE DEF j
    <3> QED
      BY <3>1, <3>3 DEF Sound
  <2>2. conn' \in [Conn -> Socket]
    <3>1. conn' = [c \in Conn |-> conn'[c]]
      BY <1>5 DEF Restart
    <3> QED
      BY <2>1, <3>1
  <2>3. tab' \in [Tab -> TabState] /\ \A t \in Tab : tab'[t].seen = tab[t].seen
    <3>1. ASSUME NEW t \in Tab PROVE tab'[t] \in TabState /\ tab'[t].seen = tab[t].seen
      <4>1. tab'[t] = [tab[t] EXCEPT !.asked = 0]
        BY <1>5 DEF Restart
      <4> QED
        BY <1>1, <4>1 DEF TabState
    <3>2. tab' = [t \in Tab |-> tab'[t]]
      BY <1>5 DEF Restart
    <3> QED
      BY <3>1, <3>2
  <2>4. Typed'
    <3>1. clients' = {} /\ broadcast' \in 0 .. BroadcastCap /\ unsaid' \in Nat /\ version' = version
      <4>1. clients' = {} /\ broadcast' = 0 /\ unsaid' = 0 /\ version' = version
        BY <1>5 DEF Restart
      <4> QED
        BY <4>1, Caps
    <3>2. \A t \in Tab : tab'[t].seen <= version'
      BY <1>1, <2>3, <3>1
    <3> QED
      BY <1>1, <2>2, <2>3, <3>1, <3>2 DEF Typed
  <2>5. \A c \in Conn : Sound(conn'[c], c \in clients')
    BY <1>5, <2>1 DEF Restart, Sound
  <2> QED
    BY <2>4, <2>5 DEF Server
<1> QED
  BY <1>2, <1>3, <1>4, <1>5

------------------------------------------------------------------------------
(* The tabs, as far as the server is concerned. *)

\* A tab becomes k, whatever becomes of the sockets.
LEMMA TabBecomes ==
  ASSUME Server, NEW t \in Tab, NEW k \in TabState, k.seen = tab[t].seen,
         tab' = [tab EXCEPT ![t] = k]
  PROVE  tab' \in [Tab -> TabState] /\ \A u \in Tab : tab'[u].seen = tab[u].seen
  BY DEF Server, Typed

LEMMA NewSocket ==
  ASSUME NEW t \in Tab
  PROVE  LET j == [NoConn(t) EXCEPT !.page = "connecting", !.up = TRUE]
         IN  /\ j \in Socket /\ Sound(j, FALSE)
             /\ j.of = t /\ j.page = "connecting" /\ j.up /\ j.closes = 0
<1> DEFINE n == NoConn(t)
           j == [n EXCEPT !.page = "connecting", !.up = TRUE]
<1>1. 0 \in 0 .. SendCap
  BY Caps
<1>2. n \in Socket /\ n.closes = 0 /\ n.reader = "none" /\ n.of = t
  BY <1>1 DEF NoConn, Socket
<1> HIDE DEF n
<1>3. /\ j \in Socket /\ j.closes = 0 /\ j.reader = "none"
      /\ j.of = t /\ j.page = "connecting" /\ j.up
  BY <1>2 DEF Socket
<1> HIDE DEF j
<1>4. Sound(j, FALSE)
  BY <1>3 DEF Sound
<1> QED
  BY <1>3, <1>4 DEF j, n

LEMMA ConnectKeeps ==
  ASSUME Server, NEW t \in Tab, NEW k \in TabState, k.seen = tab[t].seen, Connect(t, k)
  PROVE  Server'
<1> DEFINE j == [NoConn(t) EXCEPT !.page = "connecting", !.up = TRUE]
<1>1. PICK c \in Conn : /\ c \notin clients /\ conn' = [conn EXCEPT ![c] = j]
                        /\ tab' = [tab EXCEPT ![t] = [k EXCEPT !.socket = c]]
                        /\ UNCHANGED <<clients, broadcast, version, unsaid>>
  BY DEF Connect, Done
<1>2. j \in Socket /\ Sound(j, FALSE)
  BY NewSocket
<1>3. [k EXCEPT !.socket = c] \in TabState /\ [k EXCEPT !.socket = c].seen = tab[t].seen
  BY DEF TabState
<1>4. clients \subseteq Conn
  BY DEF Server, Typed
<1>5. Sound(j, c \in clients')
  <2>1. (c \in clients') = FALSE
    BY <1>1
  <2> QED
    BY <1>2, <2>1
<1> HIDE DEF j
<1> QED
  BY <1>1, <1>2, <1>3, <1>4, <1>5, TabBecomes, OneChanges

LEMMA TabKeeps ==
  ASSUME Server, NEW t \in Tab,
         StartWSClient(t) \/ ReconnectTimer(t) \/ StopWSClient(t) \/ PullTimer(t) \/ Pulled(t)
  PROVE  Server'
<1> DEFINE k == tab[t]
<1>1. /\ k \in TabState /\ tab \in [Tab -> TabState] /\ conn \in [Conn -> Socket]
      /\ clients \subseteq Conn /\ broadcast \in 0 .. BroadcastCap /\ version \in Nat
      /\ unsaid \in Nat /\ \A u \in Tab : tab[u].seen <= version
  BY DEF Server, Typed
<1>2. CASE StartWSClient(t)
  <2> DEFINE j == [k EXCEPT !.stopped = FALSE]
  <2>1. j \in TabState /\ j.seen = k.seen /\ Connect(t, j)
    BY <1>1, <1>2 DEF StartWSClient, TabState
  <2> QED
    BY <2>1, ConnectKeeps
<1>3. CASE ReconnectTimer(t)
  <2> DEFINE j == [k EXCEPT !.retry = FALSE]
  <2>1. j \in TabState /\ j.seen = k.seen /\ Connect(t, j)
    BY <1>1, <1>3 DEF ReconnectTimer, TabState
  <2> QED
    BY <2>1, ConnectKeeps
<1>4. CASE StopWSClient(t)
  <2> DEFINE j == [k EXCEPT !.stopped = TRUE, !.retry = FALSE, !.pull = FALSE, !.socket = None]
  <2>1. j \in TabState /\ j.seen = k.seen /\ tab' = [tab EXCEPT ![t] = j]
    BY <1>1, <1>4 DEF StopWSClient, TabState
  <2> HIDE DEF j
  <2>2. tab' \in [Tab -> TabState] /\ \A u \in Tab : tab'[u].seen = tab[u].seen
    BY <2>1, TabBecomes
  <2>3. ASSUME NEW c \in Conn PROVE conn'[c] \in Socket /\ Sound(conn'[c], c \in clients)
    <3>1. conn[c] \in Socket /\ Sound(conn[c], c \in clients)
      BY DEF Server, Typed
    <3>2. conn'[c] = conn[c] \/ conn'[c] = [conn[c] EXCEPT !.page = "closing"]
      BY <1>4 DEF StopWSClient
    <3> QED
      BY <3>1, <3>2 DEF Socket, Sound
  <2>4. conn' \in [Conn -> Socket]
    <3>1. conn' = [c \in Conn |-> conn'[c]]
      BY <1>4 DEF StopWSClient
    <3> QED
      BY <2>3, <3>1
  <2>5. UNCHANGED <<clients, broadcast, version, unsaid>>
    BY <1>4 DEF StopWSClient
  <2>6. Typed'
    BY <1>1, <2>2, <2>4, <2>5 DEF Typed
  <2> QED
    BY <2>3, <2>5, <2>6 DEF Server
<1>5. CASE PullTimer(t)
  <2> DEFINE j == [k EXCEPT !.pull = FALSE, !.asked = @ + 1]
  <2>1. j \in TabState /\ j.seen = k.seen /\ tab' = [tab EXCEPT ![t] = j]
    BY <1>1, <1>5 DEF PullTimer, TabState
  <2> HIDE DEF j
  <2>2. tab' \in [Tab -> TabState] /\ \A u \in Tab : tab'[u].seen = tab[u].seen
    BY <2>1, TabBecomes
  <2> QED
    BY <1>1, <1>5, <2>2, NoneChanges DEF PullTimer
<1>6. CASE Pulled(t)
  <2> DEFINE j == [k EXCEPT !.asked = @ - 1, !.seen = version]
  <2>1. j \in TabState /\ j.seen = version /\ tab' = [tab EXCEPT ![t] = j]
    <3>1. k.asked > 0 /\ tab' = [tab EXCEPT ![t] = j]
      BY <1>6 DEF Pulled
    <3>2. k.asked - 1 \in Nat
      BY <1>1, <3>1 DEF TabState
    <3> QED
      BY <1>1, <3>1, <3>2 DEF TabState
  <2> HIDE DEF j
  <2>2. tab' \in [Tab -> TabState] /\ \A u \in Tab : tab'[u].seen <= version
    BY <1>1, <2>1
  <2> QED
    BY <1>1, <1>6, <2>2, NoneChanges DEF Pulled
<1> QED
  BY <1>2, <1>3, <1>4, <1>5, <1>6

LEMMA SocketKeeps ==
  ASSUME Server, NEW c \in Conn, OnOpen(c) \/ OnMessage(c) \/ OnClose(c)
  PROVE  Server'
<1> DEFINE k == conn[c]
           t == k.of
<1>1. /\ k \in Socket /\ t \in Tab /\ Sound(k, c \in clients) /\ clients \subseteq Conn
      /\ conn \in [Conn -> Socket] /\ tab \in [Tab -> TabState] /\ tab[t] \in TabState
  BY DEF Server, Typed, Socket
<1>2. CASE OnOpen(c)
  <2> DEFINE j == [k EXCEPT !.page = "open"]
             n == [tab[t] EXCEPT !.asked = @ + 1]
  <2>1. conn' = [conn EXCEPT ![c] = j] /\ tab' = [tab EXCEPT ![t] = n]
    BY <1>1, <1>2 DEF OnOpen, Opened
  <2>2. j \in Socket /\ Sound(j, c \in clients)
    BY <1>1 DEF Socket, Sound
  <2>3. n \in TabState /\ n.seen = tab[t].seen
    BY <1>1 DEF TabState
  <2> HIDE DEF j, n, t, k
  <2> QED
    BY <1>1, <1>2, <2>1, <2>2, <2>3, TabBecomes, OneChanges DEF OnOpen
<1>3. CASE OnMessage(c)
  <2> DEFINE j == [k EXCEPT !.wire = @ - 1]
             n == [tab[t] EXCEPT !.pull = TRUE]
  <2>1. conn' = [conn EXCEPT ![c] = j] /\ tab' = [tab EXCEPT ![t] = n] /\ k.wire > 0
    BY <1>1, <1>3 DEF OnMessage
  <2>2. j \in Socket /\ Sound(j, c \in clients)
    BY <1>1, <2>1 DEF Socket, Sound
  <2>3. n \in TabState /\ n.seen = tab[t].seen
    BY <1>1 DEF TabState
  <2> HIDE DEF j, n, t, k
  <2> QED
    BY <1>1, <1>3, <2>1, <2>2, <2>3, TabBecomes, OneChanges DEF OnMessage
<1>4. CASE OnClose(c)
  <2> DEFINE j == [k EXCEPT !.page = "closed", !.up = FALSE, !.wire = 0]
             again == ~tab[t].stopped
             n == [tab[t] EXCEPT !.retry = again]
  <2>1. conn' = [conn EXCEPT ![c] = j] /\ tab' = [tab EXCEPT ![t] = n]
    BY <1>1, <1>4 DEF OnClose, Closed
  <2>2. j \in Socket /\ Sound(j, c \in clients)
    BY <1>1 DEF Socket, Sound
  <2>3. again \in BOOLEAN
    OBVIOUS
  <2> HIDE DEF again
  <2>4. n \in TabState /\ n.seen = tab[t].seen
    BY <1>1, <2>3 DEF TabState
  <2> HIDE DEF j, n, t, k
  <2> QED
    BY <1>1, <1>4, <2>1, <2>2, <2>4, TabBecomes, OneChanges DEF OnClose
<1> QED
  BY <1>2, <1>3, <1>4

\* What the server and the tabs do, one step at a time.
LEMMA ServerKeeps ==
  ASSUME Server, [Next]_vars
  PROVE  Server'
<1>1. CASE UNCHANGED vars
  BY <1>1 DEF vars, Server, Typed
<1>2. CASE Write \/ Restart \/ Notify \/ FanOut
  BY <1>2, HubKeeps
<1>3. ASSUME NEW c \in Conn,
             \/ Upgrade(c) \/ Register(c) \/ Unregister(c) \/ WriteEvent(c) \/ EndWriter(c)
             \/ EndReader(c) \/ Lose(c)
      PROVE  Server'
  BY <1>3, PumpsKeep
<1>4. ASSUME NEW c \in Conn, OnOpen(c) \/ OnMessage(c) \/ OnClose(c) PROVE Server'
  BY <1>4, SocketKeeps
<1>5. ASSUME NEW t \in Tab,
             StartWSClient(t) \/ ReconnectTimer(t) \/ StopWSClient(t) \/ PullTimer(t) \/ Pulled(t)
      PROVE  Server'
  BY <1>5, TabKeeps
<1> QED
  BY <1>1, <1>2, <1>3, <1>4, <1>5 DEF Next, Progress, Idle

LEMMA ServerStarts == Init => Server
<1> SUFFICES ASSUME Init PROVE Server
  OBVIOUS
<1>1. ASSUME NEW c \in Conn PROVE conn[c] \in Socket /\ Sound(conn[c], FALSE)
  <2>1. PICK t \in Tab : conn[c] = NoConn(t)
    BY DEF Init
  <2>2. 0 \in 0 .. SendCap
    BY Caps
  <2>3. NoConn(t) \in Socket /\ Sound(NoConn(t), FALSE)
    BY <2>2 DEF NoConn, Socket, Sound
  <2> QED
    BY <2>1, <2>3
<1>2. conn \in [Conn -> Socket]
  BY <1>1 DEF Init
<1>3. tab \in [Tab -> TabState] /\ \A t \in Tab : tab[t].seen = 0
  BY DEF Init, TabState
<1>4. clients = {} /\ broadcast = 0 /\ version = 0 /\ unsaid = 0
  BY DEF Init
<1>5. Typed
  BY <1>2, <1>3, <1>4, Caps DEF Typed
<1> QED
  BY <1>1, <1>4, <1>5 DEF Server, Sound

\* Whatever connects, breaks, stops or restarts, the hub and the pumps keep order.
THEOREM ServerInductive == Spec => []Server
<1> QED
  BY ServerStarts, ServerKeeps, PTL DEF Spec

\* The state keeps its type: no channel is overfull, no tab ahead of the server.
THEOREM SignalTyped == Spec => []SignalTypeOK
<1>1. ASSUME Server PROVE SignalTypeOK
  <2>1. \A c \in Conn : conn[c] \in Socket
    BY <1>1 DEF Server, Typed
  <2>2. \A t \in Tab : tab[t] \in TabState /\ tab[t].seen <= version
    BY <1>1 DEF Server, Typed
  <2> QED
    BY <1>1, <2>1, <2>2 DEF Server, Typed, Socket, TabState, SignalTypeOK
<1> QED
  BY <1>1, ServerInductive, PTL

\* The hub closes no channel twice, and sends on none that is closed.
THEOREM HubSound == Spec => []ChannelsSound
<1>1. Server => ChannelsSound
  BY DEF Server, Sound, ChannelsSound
<1> QED
  BY <1>1, ServerInductive, PTL

------------------------------------------------------------------------------
(* A tab and its sockets, as long as the old one closes first. *)

\* socket is the one that is not closing, and a timer runs only after it is closed.
OneOf(t) ==
  /\ \A c, d \in Sockets(t) : c = d
  /\ tab[t].stopped => ~tab[t].retry /\ \A c \in Sockets(t) : conn[c].page = "closing"
  /\ tab[t].retry => Sockets(t) = {}
  /\ \A c \in Sockets(t) : conn[c].page # "closing" => tab[t].socket = c

Paired == Server /\ \A t \in Tab : OneOf(t)

\* Steps that neither open nor close sockets.
LEMMA NoPageChanges ==
  ASSUME Paired, Server',
         \A c \in Conn : conn'[c].of = conn[c].of /\ conn'[c].page = conn[c].page,
         \A t \in Tab : /\ tab'[t].stopped = tab[t].stopped /\ tab'[t].retry = tab[t].retry
                        /\ tab'[t].socket = tab[t].socket
  PROVE  Paired'
<1>1. \A t \in Tab : Sockets(t)' = Sockets(t)
  BY DEF Sockets
<1>2. ASSUME NEW t \in Tab PROVE OneOf(t)'
  <2>1. OneOf(t) /\ Sockets(t) \subseteq Conn
    BY DEF Paired, Sockets
  <2> QED
    BY <1>1, <2>1 DEF OneOf
<1> QED
  BY <1>2 DEF Paired

\* What the hub, its pumps and the tabs' pulls do.
HubStep == Write \/ Notify \/ FanOut \/ Restart

PumpStep(c) == \/ Upgrade(c) \/ Register(c) \/ Unregister(c) \/ WriteEvent(c) \/ EndWriter(c)
               \/ EndReader(c) \/ Lose(c)

PullStep == \/ \E c \in Conn : OnMessage(c)
            \/ \E t \in Tab : PullTimer(t) \/ Pulled(t)

\* None of it opens or closes a socket.
LEMMA PagesStay ==
  ASSUME Server, NEW d \in Conn, HubStep \/ PullStep \/ \E c \in Conn : PumpStep(c)
  PROVE  conn'[d].of = conn[d].of /\ conn'[d].page = conn[d].page
<1>1. conn \in [Conn -> Socket] /\ \A c \in Conn : conn[c] \in Socket
  BY DEF Server, Typed
<1>2. CASE FanOut
  <2>1. conn'[d] \in {conn[d], [conn[d] EXCEPT !.closes = @ + 1], [conn[d] EXCEPT !.send = @ + 1]}
    BY <1>2 DEF FanOut, Slow
  <2> QED
    BY <1>1, <2>1 DEF Socket
<1>3. CASE Restart
  <2>1. conn'[d] = [conn[d] EXCEPT !.reader = "done", !.writer = "done", !.send = 0,
                                   !.closes = 0, !.up = FALSE]
    BY <1>3 DEF Restart
  <2> QED
    BY <1>1, <2>1 DEF Socket
<1>4. ASSUME NEW c \in Conn, PumpStep(c)
      PROVE  conn'[d].of = conn[d].of /\ conn'[d].page = conn[d].page
  <2>1. CASE Upgrade(c)
    BY <1>1, <2>1 DEF Upgrade, Socket
  <2>2. CASE Register(c)
    BY <1>1, <2>2 DEF Register, Socket
  <2>3. CASE Unregister(c)
    <3> DEFINE n == IF c \in clients THEN conn[c].closes + 1 ELSE conn[c].closes
               j == [conn[c] EXCEPT !.closes = n, !.reader = "done", !.up = FALSE]
    <3>1. conn' = [conn EXCEPT ![c] = j]
      BY <2>3 DEF Unregister, Leaving
    <3> HIDE DEF n
    <3>2. j.of = conn[c].of /\ j.page = conn[c].page
      BY <1>1 DEF Socket
    <3> HIDE DEF j
    <3> QED
      BY <1>1, <3>1, <3>2
  <2>4. CASE WriteEvent(c)
    BY <1>1, <2>4 DEF WriteEvent, Socket
  <2>5. CASE EndWriter(c)
    BY <1>1, <2>5 DEF EndWriter, Socket
  <2>6. CASE EndReader(c)
    BY <1>1, <2>6 DEF EndReader, AfterRead, Socket
  <2>7. CASE Lose(c)
    BY <1>1, <2>7 DEF Lose, Socket
  <2> QED
    BY <1>4, <2>1, <2>2, <2>3, <2>4, <2>5, <2>6, <2>7 DEF PumpStep
<1>5. ASSUME NEW c \in Conn, OnMessage(c)
      PROVE  conn'[d].of = conn[d].of /\ conn'[d].page = conn[d].page
  BY <1>1, <1>5 DEF OnMessage, Socket
<1>6. CASE conn' = conn
  BY <1>6
<1> QED
  BY <1>2, <1>3, <1>4, <1>5, <1>6 DEF HubStep, PullStep, Write, Notify, PullTimer, Pulled

LEMMA PumpsPair ==
  ASSUME Paired, Server', HubStep \/ PullStep \/ \E c \in Conn : PumpStep(c)
  PROVE  Paired'
<1>1. conn \in [Conn -> Socket] /\ tab \in [Tab -> TabState]
  BY DEF Paired, Server, Typed
<1>2. \A c \in Conn : conn'[c].of = conn[c].of /\ conn'[c].page = conn[c].page
  BY PagesStay DEF Paired
<1>3. ASSUME NEW t \in Tab
      PROVE  /\ tab'[t].stopped = tab[t].stopped /\ tab'[t].retry = tab[t].retry
             /\ tab'[t].socket = tab[t].socket
  <2>1. CASE Restart
    <3>1. tab'[t] = [tab[t] EXCEPT !.asked = 0]
      BY <2>1 DEF Restart
    <3> QED
      BY <1>1, <3>1 DEF TabState
  <2>2. ASSUME NEW u \in Tab, PullTimer(u) \/ Pulled(u)
        PROVE  /\ tab'[t].stopped = tab[t].stopped /\ tab'[t].retry = tab[t].retry
               /\ tab'[t].socket = tab[t].socket
    BY <1>1, <2>2 DEF PullTimer, Pulled, TabState
  <2>3. ASSUME NEW c \in Conn, OnMessage(c)
        PROVE  /\ tab'[t].stopped = tab[t].stopped /\ tab'[t].retry = tab[t].retry
               /\ tab'[t].socket = tab[t].socket
    <3>1. tab' = [tab EXCEPT ![conn[c].of] = [tab[conn[c].of] EXCEPT !.pull = TRUE]]
      BY <2>3 DEF OnMessage
    <3>2. tab'[t] \in {tab[t], [tab[t] EXCEPT !.pull = TRUE]}
      BY <1>1, <3>1
    <3> QED
      BY <1>1, <3>2 DEF TabState
  <2>4. CASE tab' = tab
    BY <2>4
  <2> QED
    BY <2>1, <2>2, <2>3, <2>4 DEF HubStep, PullStep, PumpStep, Write, Notify, FanOut, Upgrade, Register,
       Unregister, WriteEvent, EndWriter, EndReader, Lose
<1> QED
  BY <1>2, <1>3, NoPageChanges

\* A step of tab t that leaves the sockets of the others alone.
LEMMA OnePairs ==
  ASSUME Paired, Server', NEW t \in Tab, OneOf(t)',
         \A u \in Tab : u # t => tab'[u] = tab[u],
         \A c \in Conn : \/ conn'[c] = conn[c]
                         \/ conn'[c].of = t /\ (conn[c].of = t \/ conn[c].page = "closed")
  PROVE  Paired'
<1>1. ASSUME NEW u \in Tab, u # t PROVE OneOf(u)'
  <2>1. Sockets(u)' = Sockets(u) /\ \A c \in Sockets(u) : conn'[c] = conn[c] /\ c \in Conn
    BY <1>1 DEF Sockets
  <2>2. OneOf(u) /\ tab'[u] = tab[u]
    BY <1>1 DEF Paired
  <2> QED
    BY <2>1, <2>2 DEF OneOf
<1> QED
  BY <1>1 DEF Paired

\* A tab without a socket gets one.
LEMMA ConnectPairs ==
  ASSUME Paired, Server', NEW t \in Tab, NEW k \in TabState, Connect(t, k), Sockets(t) = {},
         ~k.stopped, ~k.retry
  PROVE  Paired'
<1> DEFINE j == [NoConn(t) EXCEPT !.page = "connecting", !.up = TRUE]
<1>1. PICK c \in Conn : /\ conn[c].page = "closed" /\ conn' = [conn EXCEPT ![c] = j]
                        /\ tab' = [tab EXCEPT ![t] = [k EXCEPT !.socket = c]]
  BY DEF Connect, Done
<1>2. j.of = t /\ j.page = "connecting"
  BY NewSocket
<1> HIDE DEF j
<1>3. conn \in [Conn -> Socket] /\ tab \in [Tab -> TabState]
  BY DEF Paired, Server, Typed
<1>4. /\ tab'[t].socket = c /\ ~tab'[t].stopped /\ ~tab'[t].retry
      /\ \A u \in Tab : u # t => tab'[u] = tab[u]
  BY <1>1, <1>3 DEF TabState
<1>5. conn'[c] = j /\ \A d \in Conn : d # c => conn'[d] = conn[d]
  BY <1>1, <1>3
<1>6. Sockets(t)' = {c}
  BY <1>2, <1>5 DEF Sockets
<1>7. OneOf(t)'
  BY <1>4, <1>6 DEF OneOf
<1> QED
  BY <1>1, <1>2, <1>4, <1>5, <1>7, OnePairs

LEMMA TabPairs ==
  ASSUME Paired, Server', ClosesFirst, NEW t \in Tab,
         StartWSClient(t) \/ ReconnectTimer(t) \/ StopWSClient(t)
  PROVE  Paired'
<1> DEFINE k == tab[t]
<1>1. k \in TabState /\ OneOf(t) /\ conn \in [Conn -> Socket] /\ tab \in [Tab -> TabState]
  BY DEF Paired, Server, Typed
<1>2. CASE StartWSClient(t)
  <2> DEFINE j == [k EXCEPT !.stopped = FALSE]
  <2>1. j \in TabState /\ ~j.stopped /\ ~j.retry /\ Sockets(t) = {} /\ Connect(t, j)
    BY <1>1, <1>2 DEF StartWSClient, MayStart, OneOf, TabState
  <2> HIDE DEF j
  <2> QED
    BY <2>1, ConnectPairs
<1>3. CASE ReconnectTimer(t)
  <2> DEFINE j == [k EXCEPT !.retry = FALSE]
  <2>1. j \in TabState /\ ~j.stopped /\ ~j.retry /\ Sockets(t) = {} /\ Connect(t, j)
    BY <1>1, <1>3 DEF ReconnectTimer, OneOf, TabState
  <2> HIDE DEF j
  <2> QED
    BY <2>1, ConnectPairs
<1>4. CASE StopWSClient(t)
  <2>1. /\ tab'[t].stopped /\ ~tab'[t].retry
        /\ \A u \in Tab : u # t => tab'[u] = tab[u]
    BY <1>1, <1>4 DEF StopWSClient, TabState
  <2>2. \A c \in Conn : conn'[c] = IF c = k.socket /\ c \in Sockets(t)
                                   THEN [conn[c] EXCEPT !.page = "closing"] ELSE conn[c]
    BY <1>4 DEF StopWSClient
  <2>3. ASSUME NEW c \in Conn
        PROVE  /\ conn'[c].of = conn[c].of
               /\ conn'[c].page = IF c = k.socket /\ c \in Sockets(t) THEN "closing" ELSE conn[c].page
               /\ conn'[c] = conn[c] \/ conn[c].of = t
    <3>1. conn[c] \in Socket
      BY <1>1
    <3>2. CASE c = k.socket /\ c \in Sockets(t)
      <4>1. conn'[c] = [conn[c] EXCEPT !.page = "closing"]
        BY <2>2, <3>2
      <4> QED
        BY <3>1, <3>2, <4>1 DEF Socket, Sockets
    <3>3. CASE ~(c = k.socket /\ c \in Sockets(t))
      BY <2>2, <3>3
    <3> QED
      BY <3>2, <3>3
  <2>4. Sockets(t)' = Sockets(t)
    BY <2>3 DEF Sockets
  <2>5. \A c \in Sockets(t) : conn'[c].page = "closing"
    BY <1>1, <2>3 DEF OneOf, Sockets
  <2>6. OneOf(t)'
    BY <1>1, <2>1, <2>4, <2>5 DEF OneOf
  <2> QED
    BY <2>1, <2>3, <2>6, OnePairs
<1> QED
  BY <1>2, <1>3, <1>4

LEMMA SocketPairs ==
  ASSUME Paired, Server', NEW c \in Conn, NEW t \in Tab, t = conn[c].of, OnOpen(c) \/ OnClose(c)
  PROVE  Paired'
<1>1. /\ conn[c] \in Socket /\ OneOf(t) /\ tab[t] \in TabState
      /\ conn \in [Conn -> Socket] /\ tab \in [Tab -> TabState]
  BY DEF Paired, Server, Typed, Socket
<1>2. CASE OnOpen(c)
  <2> DEFINE j == [conn[c] EXCEPT !.page = "open"]
             n == [tab[t] EXCEPT !.asked = @ + 1]
  <2>1. conn' = [conn EXCEPT ![c] = j] /\ tab' = [tab EXCEPT ![t] = n] /\ conn[c].page = "connecting"
    BY <1>1, <1>2 DEF OnOpen, Opened
  <2>2. /\ j.of = t /\ j.page = "open"
        /\ n.stopped = tab[t].stopped /\ n.retry = tab[t].retry /\ n.socket = tab[t].socket
    BY <1>1 DEF Socket, TabState
  <2> HIDE DEF j, n
  <2>3. /\ conn'[c] = j /\ \A d \in Conn : d # c => conn'[d] = conn[d]
        /\ tab'[t] = n /\ \A u \in Tab : u # t => tab'[u] = tab[u]
    BY <1>1, <2>1
  <2>4. c \in Sockets(t) /\ Sockets(t)' = Sockets(t)
    BY <2>1, <2>2, <2>3 DEF Sockets
  <2>5. ~tab[t].stopped /\ ~tab[t].retry
    BY <1>1, <2>1, <2>4 DEF OneOf
  <2>6. Sockets(t) = {c} /\ tab[t].socket = c
    BY <1>1, <2>1, <2>4 DEF OneOf
  <2>7. OneOf(t)'
    BY <2>2, <2>3, <2>4, <2>5, <2>6 DEF OneOf
  <2> QED
    BY <1>1, <2>2, <2>3, <2>7, OnePairs
<1>3. CASE OnClose(c)
  <2> DEFINE j == [conn[c] EXCEPT !.page = "closed", !.up = FALSE, !.wire = 0]
             again == ~tab[t].stopped
             n == [tab[t] EXCEPT !.retry = again]
  <2>1. conn' = [conn EXCEPT ![c] = j] /\ tab' = [tab EXCEPT ![t] = n] /\ conn[c].page # "closed"
    BY <1>1, <1>3 DEF OnClose, Closed
  <2>2. j.of = t /\ j.page = "closed" /\ n.stopped = tab[t].stopped /\ n.retry = ~n.stopped
    BY <1>1 DEF Socket, TabState
  <2> HIDE DEF j, n
  <2>3. /\ conn'[c] = j /\ \A d \in Conn : d # c => conn'[d] = conn[d]
        /\ tab'[t] = n /\ \A u \in Tab : u # t => tab'[u] = tab[u]
    BY <1>1, <2>1
  <2>4. Sockets(t) = {c}
    BY <1>1, <2>1 DEF OneOf, Sockets
  <2>5. Sockets(t)' = {}
    BY <2>2, <2>3, <2>4 DEF Sockets
  <2>6. OneOf(t)'
    BY <2>2, <2>3, <2>5 DEF OneOf
  <2> QED
    BY <1>1, <2>2, <2>3, <2>6, OnePairs
<1> QED
  BY <1>2, <1>3

LEMMA PairsKept ==
  ASSUME ClosesFirst, Paired, [Next]_vars
  PROVE  Paired'
<1>1. Server'
  BY ServerKeeps DEF Paired
<1>2. CASE UNCHANGED vars
  BY <1>1, <1>2, NoPageChanges DEF vars
<1>3. CASE HubStep \/ PullStep \/ \E c \in Conn : PumpStep(c)
  BY <1>1, <1>3, PumpsPair
<1>4. ASSUME NEW c \in Conn, OnOpen(c) \/ OnClose(c) PROVE Paired'
  <2>1. conn[c].of \in Tab
    BY DEF Paired, Server, Typed, Socket
  <2> QED
    BY <1>1, <1>4, <2>1, SocketPairs
<1>5. ASSUME NEW t \in Tab, StartWSClient(t) \/ ReconnectTimer(t) \/ StopWSClient(t) PROVE Paired'
  BY <1>1, <1>5, TabPairs
<1> QED
  BY <1>2, <1>3, <1>4, <1>5 DEF Next, Progress, Idle, HubStep, PullStep, PumpStep

LEMMA PairsStart == Init => Paired
<1> SUFFICES ASSUME Init PROVE Paired
  OBVIOUS
<1>1. \A c \in Conn : conn[c].page = "closed"
  BY DEF Init, NoConn
<1>2. \A t \in Tab : tab[t].stopped /\ ~tab[t].retry /\ Sockets(t) = {}
  BY <1>1 DEF Init, Sockets
<1> QED
  BY <1>2, ServerStarts DEF Paired, OneOf

\* With the old socket closed before a tab starts again, a tab never has two, and a
\* stopped one none that is not closing: every reconnect timer finds none.
THEOREM OneAtATime == ASSUME ClosesFirst PROVE Spec => []OneSocket
<1>1. Paired /\ [Next]_vars => Paired'
  BY PairsKept
<1>2. Paired => OneSocket
  BY DEF Paired, OneOf, OneSocket
<1> QED
  BY <1>1, <1>2, PairsStart, PTL DEF Spec

------------------------------------------------------------------------------
(* What every tab is owed, as long as the hub registers a socket before its tab *)
(* sees it open.                                                              *)

Registered == \A c \in Conn : conn[c].page = "open" => conn[c].reader \notin {"none", "register"}

Fit == Paired /\ Registered

LEMMA FitTyped ==
  ASSUME Fit
  PROVE  /\ conn \in [Conn -> Socket] /\ tab \in [Tab -> TabState] /\ broadcast \in 0 .. BroadcastCap
         /\ version \in Nat /\ unsaid \in Nat /\ clients \subseteq Conn
         /\ \A c \in Conn : conn[c] \in Socket /\ conn[c].of \in Tab /\ Sound(conn[c], c \in clients)
         /\ \A t \in Tab : tab[t] \in TabState /\ tab[t].seen <= version
  BY DEF Fit, Paired, Server, Typed, Socket

\* What a tab is owed for d stays owed as long as nothing d's depends on is lost.
LEMMA SameDue ==
  ASSUME NEW d \in Conn, Due(d), conn'[d].of = conn[d].of, conn'[d].wire = conn[d].wire,
         conn'[d].send = conn[d].send, conn'[d].closes = conn[d].closes,
         conn[d].up \/ ~conn'[d].up, conn'[d].up => conn[d].up,
         d \in clients => d \in clients', UNCHANGED <<broadcast, unsaid>>,
         tab[conn[d].of].pull => tab'[conn[d].of].pull,
         tab[conn[d].of].asked > 0 => tab'[conn[d].of].asked > 0
  PROVE  Due(d)'
  BY DEF Due, Coming

LEMMA DueByPumps ==
  ASSUME Fit, NEW d \in Conn, Due(d), NEW c \in Conn,
         \/ Upgrade(c) \/ Register(c) \/ Unregister(c) \/ WriteEvent(c) \/ EndWriter(c)
         \/ EndReader(c) \/ Lose(c)
  PROVE  conn'[d].of = conn[d].of /\ conn'[d].page = conn[d].page /\ Due(d)'
<1>1. conn \in [Conn -> Socket] /\ conn[c] \in Socket
  BY FitTyped
<1>2. tab' = tab /\ UNCHANGED <<broadcast, unsaid>>
  BY DEF Upgrade, Register, Unregister, WriteEvent, EndWriter, EndReader, Lose
<1>3. CASE d # c
  <2>1. conn'[d] = conn[d] /\ (d \in clients => d \in clients')
    BY <1>1, <1>3 DEF Upgrade, Register, Unregister, WriteEvent, EndWriter, EndReader, Lose
  <2> QED
    BY <1>2, <2>1, SameDue
<1>4. CASE d = c
  <2>1. CASE Upgrade(c)
    <3>1. /\ conn'[d] = [conn[d] EXCEPT !.reader = "register"] /\ clients' = clients
      BY <1>1, <1>4, <2>1 DEF Upgrade
    <3> QED
      BY <1>1, <1>2, <1>4, <3>1, SameDue DEF Socket
  <2>2. CASE Register(c)
    <3>1. /\ conn'[d] = [conn[d] EXCEPT !.reader = "read", !.writer = "run"]
          /\ clients' = clients \cup {c}
      BY <1>1, <1>4, <2>2 DEF Register
    <3> QED
      BY <1>1, <1>2, <1>4, <3>1, SameDue DEF Socket
  <2>3. CASE Unregister(c)
    <3> DEFINE n == IF c \in clients THEN conn[c].closes + 1 ELSE conn[c].closes
    <3>1. conn'[d] = [conn[d] EXCEPT !.closes = n, !.reader = "done", !.up = FALSE]
      BY <1>1, <1>4, <2>3 DEF Unregister, Leaving
    <3> HIDE DEF n
    <3> QED
      BY <1>1, <1>4, <3>1 DEF Socket, Due
  <2>4. CASE WriteEvent(c)
    <3>1. conn'[d] = [conn[d] EXCEPT !.send = @ - 1, !.wire = @ + 1]
      BY <1>1, <1>4, <2>4 DEF WriteEvent
    <3> QED
      BY <1>1, <1>4, <3>1 DEF Socket, Due
  <2>5. CASE EndWriter(c)
    <3>1. conn'[d] = [conn[d] EXCEPT !.writer = "done", !.up = FALSE]
      BY <1>1, <1>4, <2>5 DEF EndWriter
    <3> QED
      BY <1>1, <1>4, <3>1 DEF Socket, Due
  <2>6. CASE EndReader(c)
    <3>1. conn'[d] = [conn[d] EXCEPT !.reader = "unregister"] /\ clients' = clients
      BY <1>1, <1>4, <2>6 DEF EndReader, AfterRead
    <3> QED
      BY <1>1, <1>2, <1>4, <3>1, SameDue DEF Socket
  <2>7. CASE Lose(c)
    <3>1. conn'[d] = [conn[d] EXCEPT !.up = FALSE]
      BY <1>1, <1>4, <2>7 DEF Lose
    <3> QED
      BY <1>1, <1>4, <3>1 DEF Socket, Due
  <2> QED
    BY <2>1, <2>2, <2>3, <2>4, <2>5, <2>6, <2>7
<1> QED
  BY <1>3, <1>4

LEMMA DueByHub ==
  ASSUME Fit, NEW d \in Conn,
         \/ Write /\ (Due(d) \/ conn[d].page = "open")
         \/ (Notify \/ FanOut \/ Restart) /\ Due(d)
  PROVE  conn'[d].of = conn[d].of /\ conn'[d].page = conn[d].page /\ Due(d)'
<1>1. /\ conn \in [Conn -> Socket] /\ conn[d] \in Socket /\ Sound(conn[d], d \in clients)
      /\ unsaid \in Nat /\ broadcast \in 0 .. BroadcastCap
  BY FitTyped
<1>2. CASE Write /\ (Due(d) \/ conn[d].page = "open")
  <2>1. conn' = conn /\ clients' = clients /\ tab' = tab /\ broadcast' = broadcast /\ unsaid' = unsaid + 1
    BY <1>2 DEF Write
  <2>2. CASE Due(d)
    BY <1>1, <2>1, <2>2 DEF Due, Coming
  <2>3. CASE conn[d].page = "open"
    <3>1. conn[d].reader \notin {"none", "register"}
      BY <2>3 DEF Fit, Registered
    <3>2. d \in clients \/ conn[d].closes > 0 \/ ~conn[d].up
      BY <1>1, <3>1 DEF Sound, Socket
    <3> QED
      BY <1>1, <2>1, <3>2 DEF Due, Coming
  <2> QED
    BY <1>2, <2>2, <2>3
<1>3. CASE Notify /\ Due(d)
  <2>2. conn' = conn /\ clients' = clients /\ tab' = tab /\ broadcast' > 0
    BY <1>1, <1>3, Caps DEF Notify, Notified
  <2> QED
    BY <1>3, <2>2 DEF Due, Coming
<1>4. CASE FanOut /\ Due(d)
  <2>2. tab' = tab /\ unsaid' = unsaid
    BY <1>4 DEF FanOut
  <2>3. CASE d \notin clients
    <3>1. conn'[d] = conn[d]
      BY <1>4, <2>3 DEF FanOut
    <3> QED
      BY <1>4, <2>2, <2>3, <3>1 DEF Due, Coming
  <2>4. CASE d \in clients /\ Full(d)
    <3>1. conn'[d] = [conn[d] EXCEPT !.closes = @ + 1]
      BY <1>4, <2>4 DEF FanOut, Slow
    <3> QED
      BY <1>1, <3>1 DEF Socket, Due
  <2>5. CASE d \in clients /\ ~Full(d)
    <3>1. conn'[d] = [conn[d] EXCEPT !.send = @ + 1] /\ d \in clients'
      BY <1>4, <2>5 DEF FanOut
    <3> QED
      BY <1>1, <3>1 DEF Socket, Due, Coming
  <2> QED
    BY <2>3, <2>4, <2>5
<1>5. CASE Restart /\ Due(d)
  <2>1. conn'[d] = [conn[d] EXCEPT !.reader = "done", !.writer = "done", !.send = 0,
                                   !.closes = 0, !.up = FALSE]
    BY <1>5 DEF Restart
  <2> QED
    BY <1>1, <2>1 DEF Socket, Due
<1> QED
  BY <1>2, <1>3, <1>4, <1>5

\* What the tabs do: what d is owed stays owed, unless d stops being open or its
\* tab's pull is handled; and a socket that opens is owed a pull.
LEMMA DueByTabs ==
  ASSUME Fit, NEW d \in Conn, conn'[d].page = "open", conn[d].page = "open" => Due(d),
         \/ \E t \in Tab : \/ StartWSClient(t) \/ ReconnectTimer(t) \/ StopWSClient(t)
                           \/ PullTimer(t) \/ (Pulled(t) /\ conn[d].of # t)
         \/ \E c \in Conn : OnOpen(c) \/ OnMessage(c) \/ OnClose(c)
  PROVE  conn'[d].of = conn[d].of /\ Due(d)'
<1>1. /\ conn \in [Conn -> Socket] /\ conn[d] \in Socket /\ conn[d].of \in Tab
      /\ tab \in [Tab -> TabState]
      /\ \A t \in Tab : tab[t] \in TabState
  BY FitTyped
<1>2. ASSUME NEW t \in Tab, NEW k \in TabState, Connect(t, k), k.pull = tab[t].pull,
             k.asked = tab[t].asked
      PROVE  conn'[d].of = conn[d].of /\ Due(d)'
  <2> DEFINE j == [NoConn(t) EXCEPT !.page = "connecting", !.up = TRUE]
  <2>1. PICK c \in Conn : /\ conn' = [conn EXCEPT ![c] = j]
                          /\ tab' = [tab EXCEPT ![t] = [k EXCEPT !.socket = c]]
                          /\ UNCHANGED <<clients, broadcast, unsaid>>
    BY <1>2 DEF Connect
  <2>2. j.page = "connecting"
    BY NewSocket
  <2> HIDE DEF j
  <2>3. conn'[d] = conn[d]
    BY <1>1, <2>1, <2>2
  <2>4. \A u \in Tab : tab'[u].pull = tab[u].pull /\ tab'[u].asked = tab[u].asked
    BY <1>1, <1>2, <2>1 DEF TabState
  <2> QED
    BY <1>1, <2>1, <2>3, <2>4, SameDue
<1>3. ASSUME NEW t \in Tab, StartWSClient(t) PROVE conn'[d].of = conn[d].of /\ Due(d)'
  <2> DEFINE k == [tab[t] EXCEPT !.stopped = FALSE]
  <2>1. k \in TabState /\ k.pull = tab[t].pull /\ k.asked = tab[t].asked /\ Connect(t, k)
    BY <1>1, <1>3 DEF StartWSClient, TabState
  <2> HIDE DEF k
  <2> QED
    BY <1>2, <2>1
<1>4. ASSUME NEW t \in Tab, ReconnectTimer(t) PROVE conn'[d].of = conn[d].of /\ Due(d)'
  <2> DEFINE k == [tab[t] EXCEPT !.retry = FALSE]
  <2>1. k \in TabState /\ k.pull = tab[t].pull /\ k.asked = tab[t].asked /\ Connect(t, k)
    BY <1>1, <1>4 DEF ReconnectTimer, TabState
  <2> HIDE DEF k
  <2> QED
    BY <1>2, <2>1
<1>5. ASSUME NEW t \in Tab, StopWSClient(t) PROVE conn'[d].of = conn[d].of /\ Due(d)'
  <2>1. conn'[d] = IF d = tab[t].socket /\ d \in Sockets(t)
                   THEN [conn[d] EXCEPT !.page = "closing"] ELSE conn[d]
    BY <1>5 DEF StopWSClient
  <2>2. conn'[d] = conn[d] /\ ~(d = tab[t].socket /\ d \in Sockets(t))
    BY <1>1, <2>1 DEF Socket
  <2>3. conn[d].of # t
    BY <2>2 DEF Fit, Paired, OneOf, Sockets
  <2>4. tab'[conn[d].of] = tab[conn[d].of] /\ UNCHANGED <<clients, broadcast, unsaid>>
    BY <1>1, <1>5, <2>3 DEF StopWSClient
  <2> QED
    BY <2>2, <2>4, SameDue
<1>6. ASSUME NEW t \in Tab, PullTimer(t) PROVE conn'[d].of = conn[d].of /\ Due(d)'
  <2>1. conn' = conn /\ UNCHANGED <<clients, broadcast, unsaid>>
    BY <1>6 DEF PullTimer
  <2>2. CASE conn[d].of = t
    <3>1. tab'[t] = [tab[t] EXCEPT !.pull = FALSE, !.asked = @ + 1] /\ tab[t] \in TabState
      BY <1>1, <1>6 DEF PullTimer
    <3>2. tab'[t].asked > 0
      BY <3>1 DEF TabState
    <3> QED
      BY <2>1, <2>2, <3>2 DEF Due
  <2>3. CASE conn[d].of # t
    <3>1. tab'[conn[d].of] = tab[conn[d].of]
      BY <1>1, <1>6, <2>3 DEF PullTimer
    <3> QED
      BY <2>1, <3>1, SameDue
  <2> QED
    BY <2>2, <2>3
<1>7. ASSUME NEW t \in Tab, Pulled(t), conn[d].of # t PROVE conn'[d].of = conn[d].of /\ Due(d)'
  <2>1. conn' = conn /\ tab'[conn[d].of] = tab[conn[d].of] /\ UNCHANGED <<clients, broadcast, unsaid>>
    BY <1>1, <1>7 DEF Pulled
  <2> QED
    BY <2>1, SameDue
<1>8. ASSUME NEW c \in Conn, NEW u \in Tab, conn[c].of = u, OnOpen(c)
      PROVE  conn'[d].of = conn[d].of /\ Due(d)'
  <2>1. /\ conn' = [conn EXCEPT ![c] = [conn[c] EXCEPT !.page = "open"]]
        /\ tab' = [tab EXCEPT ![u] = [tab[u] EXCEPT !.asked = @ + 1]]
        /\ UNCHANGED <<clients, broadcast, unsaid>>
    BY <1>1, <1>8 DEF OnOpen, Opened
  <2>2. conn'[d].of = conn[d].of
    BY <1>1, <2>1 DEF Socket
  <2>3. CASE conn[d].of = u
    <3>1. tab'[u] = [tab[u] EXCEPT !.asked = @ + 1] /\ tab[u] \in TabState
      BY <1>1, <2>1
    <3>2. tab'[u].asked > 0
      BY <3>1 DEF TabState
    <3> QED
      BY <2>2, <2>3, <3>2 DEF Due
  <2>4. CASE conn[d].of # u
    <3>1. conn'[d] = conn[d] /\ tab'[conn[d].of] = tab[conn[d].of]
      BY <1>1, <1>8, <2>1, <2>4
    <3> QED
      BY <2>1, <3>1, SameDue
  <2> QED
    BY <2>2, <2>3, <2>4
<1>9. ASSUME NEW c \in Conn, NEW u \in Tab, conn[c].of = u, OnMessage(c)
      PROVE  conn'[d].of = conn[d].of /\ Due(d)'
  <2>1. /\ conn' = [conn EXCEPT ![c] = [conn[c] EXCEPT !.wire = @ - 1]]
        /\ tab' = [tab EXCEPT ![u] = [tab[u] EXCEPT !.pull = TRUE]]
        /\ UNCHANGED <<clients, broadcast, unsaid>>
    BY <1>1, <1>9 DEF OnMessage
  <2>2. conn'[d].of = conn[d].of
    BY <1>1, <2>1 DEF Socket
  <2>3. CASE conn[d].of = u
    <3>1. tab'[u] = [tab[u] EXCEPT !.pull = TRUE] /\ tab[u] \in TabState
      BY <1>1, <2>1
    <3>2. tab'[u].pull
      BY <3>1 DEF TabState
    <3> QED
      BY <2>2, <2>3, <3>2 DEF Due
  <2>4. CASE conn[d].of # u
    <3>1. conn'[d] = conn[d] /\ tab'[conn[d].of] = tab[conn[d].of]
      BY <1>1, <1>9, <2>1, <2>4
    <3> QED
      BY <2>1, <3>1, SameDue
  <2> QED
    BY <2>2, <2>3, <2>4
<1>10. ASSUME NEW c \in Conn, NEW u \in Tab, conn[c].of = u, OnClose(c)
       PROVE  conn'[d].of = conn[d].of /\ Due(d)'
  <2> DEFINE j == [conn[c] EXCEPT !.page = "closed", !.up = FALSE, !.wire = 0]
             again == ~tab[u].stopped
             n == [tab[u] EXCEPT !.retry = again]
  <2>1. /\ conn' = [conn EXCEPT ![c] = j] /\ tab' = [tab EXCEPT ![u] = n]
        /\ UNCHANGED <<clients, broadcast, unsaid>>
    BY <1>1, <1>10 DEF OnClose, Closed
  <2>2. j.page = "closed"
    BY <1>1 DEF Socket
  <2> HIDE DEF j, again
  <2>3. n.pull = tab[u].pull /\ n.asked = tab[u].asked
    BY <1>1 DEF TabState
  <2> HIDE DEF n
  <2>4. conn'[d] = conn[d]
    BY <1>1, <2>1, <2>2
  <2>5. \A t \in Tab : tab'[t].pull = tab[t].pull /\ tab'[t].asked = tab[t].asked
    BY <1>1, <2>1, <2>3
  <2> QED
    BY <1>1, <2>1, <2>4, <2>5, SameDue
<1>11. \A c \in Conn : conn[c].of \in Tab
  BY FitTyped
<1> QED
  BY <1>3, <1>4, <1>5, <1>6, <1>7, <1>8, <1>9, <1>10, <1>11

\* A socket that is open after a step is owed a pull if it was, or if the step opened
\* it or wrote something, unless the step is the pull itself.
LEMMA StillDue ==
  ASSUME Fit, [Next]_vars, NEW d \in Conn, conn'[d].page = "open",
         Due(d) \/ conn[d].page # "open" \/ Write
  PROVE  conn'[d].of = conn[d].of /\ (Due(d)' \/ Pulled(conn[d].of))
<1>1. Server /\ conn[d].of \in Tab
  BY FitTyped DEF Fit, Paired
<1>2. CASE HubStep
  <2>1. conn'[d].of = conn[d].of /\ conn[d].page = "open"
    BY <1>1, <1>2, PagesStay
  <2> QED
    BY <1>2, <2>1, DueByHub DEF HubStep
<1>3. ASSUME ~Write PROVE Due(d) \/ conn[d].page # "open"
  BY <1>3
<1>4. CASE ~Write /\ \E c \in Conn : PumpStep(c)
  <2>1. conn'[d].of = conn[d].of /\ conn[d].page = "open" /\ Due(d)
    BY <1>1, <1>3, <1>4, PagesStay
  <2> QED
    BY <1>4, <2>1, DueByPumps DEF PumpStep
<1>5. CASE ~Write /\ UNCHANGED vars
  <2>1. conn'[d] = conn[d] /\ tab' = tab /\ UNCHANGED <<clients, broadcast, unsaid>>
    BY <1>5 DEF vars
  <2> QED
    BY <1>3, <1>5, <2>1, SameDue
<1>6. CASE /\ ~Write
           /\ \/ \E t \in Tab : \/ StartWSClient(t) \/ ReconnectTimer(t) \/ StopWSClient(t)
                                \/ PullTimer(t) \/ (Pulled(t) /\ conn[d].of # t)
              \/ \E c \in Conn : OnOpen(c) \/ OnMessage(c) \/ OnClose(c)
  BY <1>3, <1>6, DueByTabs
<1>7. CASE Pulled(conn[d].of)
  BY <1>7 DEF Pulled
<1>8. \/ HubStep \/ UNCHANGED vars
      \/ \E c \in Conn : PumpStep(c) \/ OnOpen(c) \/ OnMessage(c) \/ OnClose(c)
      \/ \E t \in Tab : \/ StartWSClient(t) \/ ReconnectTimer(t) \/ StopWSClient(t)
                       \/ PullTimer(t) \/ Pulled(t)
  BY DEF Next, Progress, Idle, HubStep, PumpStep
<1>9. Write => HubStep
  BY DEF HubStep
<1> QED
  BY <1>2, <1>4, <1>5, <1>6, <1>7, <1>8, <1>9

\* The hub has had every open socket.
LEMMA RegisteredKept ==
  ASSUME RegistersFirst, Fit, [Next]_vars
  PROVE  Registered'
<1> SUFFICES ASSUME NEW d \in Conn, conn'[d].page = "open"
             PROVE  conn'[d].reader \notin {"none", "register"}
  BY DEF Registered
<1>1. /\ conn \in [Conn -> Socket] /\ \A c \in Conn : conn[c] \in Socket /\ conn[c].of \in Tab
      /\ Server
  BY FitTyped DEF Fit, Paired
<1>2. conn[d].page = "open" => conn[d].reader \notin {"none", "register"}
  BY DEF Fit, Registered
<1>3. ASSUME HubStep \/ PullStep \/ \E c \in Conn : PumpStep(c) PROVE conn[d].page = "open"
  BY <1>1, <1>3, PagesStay
<1>4. CASE HubStep
  <2>1. conn'[d].reader \in {conn[d].reader, "done"}
    <3>1. CASE FanOut
      <4>1. conn'[d] \in {conn[d], [conn[d] EXCEPT !.closes = @ + 1], [conn[d] EXCEPT !.send = @ + 1]}
        BY <3>1 DEF FanOut, Slow
      <4> QED
        BY <1>1, <4>1 DEF Socket
    <3>2. CASE Restart
      <4>1. conn'[d] = [conn[d] EXCEPT !.reader = "done", !.writer = "done", !.send = 0,
                                       !.closes = 0, !.up = FALSE]
        BY <3>2 DEF Restart
      <4> QED
        BY <1>1, <4>1 DEF Socket
    <3>3. CASE Write \/ Notify
      BY <3>3 DEF Write, Notify
    <3> QED
      BY <1>4, <3>1, <3>2, <3>3 DEF HubStep
  <2> QED
    BY <1>2, <1>3, <1>4, <2>1
<1>5. ASSUME NEW c \in Conn, PumpStep(c) PROVE conn'[d].reader \notin {"none", "register"}
  <2>1. conn[d].page = "open"
    BY <1>3, <1>5
  <2>2. CASE c # d
    <3>1. conn'[d] = conn[d]
      BY <1>1, <1>5, <2>2 DEF PumpStep, Upgrade, Register, Unregister, WriteEvent, EndWriter,
                              EndReader, Lose
    <3> QED
      BY <1>2, <2>1, <3>1
  <2>3. CASE c = d
    <3>1. CASE Upgrade(d) \/ Register(d)
      BY <1>2, <2>1, <3>1 DEF Upgrade, Register
    <3>2. CASE WriteEvent(d)
      BY <1>1, <1>2, <2>1, <3>2 DEF WriteEvent, Socket
    <3>3. CASE EndWriter(d)
      BY <1>1, <1>2, <2>1, <3>3 DEF EndWriter, Socket
    <3>4. CASE EndReader(d)
      BY <1>1, <3>4 DEF EndReader, AfterRead, Socket
    <3>5. CASE Lose(d)
      BY <1>1, <1>2, <2>1, <3>5 DEF Lose, Socket
    <3>6. CASE Unregister(d)
      <4> DEFINE n == IF d \in clients THEN conn[d].closes + 1 ELSE conn[d].closes
      <4>1. conn' = [conn EXCEPT ![d] = [conn[d] EXCEPT !.closes = n, !.reader = "done", !.up = FALSE]]
        BY <3>6 DEF Unregister, Leaving
      <4> HIDE DEF n
      <4> QED
        BY <1>1, <4>1 DEF Socket
    <3> QED
      BY <1>5, <2>3, <3>1, <3>2, <3>3, <3>4, <3>5, <3>6 DEF PumpStep
  <2> QED
    BY <2>2, <2>3
<1>6. CASE PullStep \/ UNCHANGED vars
  <2>1. conn'[d].reader = conn[d].reader
    <3>1. ASSUME NEW c \in Conn, OnMessage(c) PROVE conn'[d].reader = conn[d].reader
      BY <1>1, <3>1 DEF OnMessage, Socket
    <3> QED
      BY <1>6, <3>1 DEF PullStep, PullTimer, Pulled, vars
  <2>2. conn[d].page = "open"
    BY <1>3, <1>6 DEF vars
  <2> QED
    BY <1>2, <2>1, <2>2
<1>7. ASSUME NEW t \in Tab, NEW k, Connect(t, k) PROVE conn'[d] = conn[d]
  <2> DEFINE j == [NoConn(t) EXCEPT !.page = "connecting", !.up = TRUE]
  <2>1. PICK c \in Conn : conn' = [conn EXCEPT ![c] = j]
    BY <1>7 DEF Connect
  <2>2. j.page = "connecting"
    BY NewSocket
  <2> HIDE DEF j
  <2> QED
    BY <1>1, <2>1, <2>2
<1>8. ASSUME NEW t \in Tab, StartWSClient(t) \/ ReconnectTimer(t)
      PROVE  conn'[d].reader \notin {"none", "register"}
  BY <1>2, <1>7, <1>8 DEF StartWSClient, ReconnectTimer
<1>9. ASSUME NEW t \in Tab, StopWSClient(t) PROVE conn'[d].reader \notin {"none", "register"}
  <2>1. conn'[d] = conn[d] \/ conn'[d] = [conn[d] EXCEPT !.page = "closing"]
    BY <1>9 DEF StopWSClient
  <2> QED
    BY <1>1, <1>2, <2>1 DEF Socket
<1>10. ASSUME NEW c \in Conn, OnOpen(c) PROVE conn'[d].reader \notin {"none", "register"}
  BY <1>1, <1>2, <1>10 DEF OnOpen, Socket
<1>11. ASSUME NEW c \in Conn, OnClose(c) PROVE conn'[d].reader \notin {"none", "register"}
  BY <1>1, <1>2, <1>11 DEF OnClose, Socket
<1> QED
  BY <1>4, <1>5, <1>6, <1>8, <1>9, <1>10, <1>11 DEF Next, Progress, Idle, HubStep, PumpStep, PullStep

LEMMA FitKept ==
  ASSUME RegistersFirst, ClosesFirst, Fit, [Next]_vars
  PROVE  Fit'
<1>1. Paired'
  BY PairsKept DEF Fit
<1> QED
  BY <1>1, RegisteredKept DEF Fit

LEMMA FitStarts == Init => Fit
<1>1. Init => Registered
  BY DEF Init, NoConn, Registered
<1> QED
  BY <1>1, PairsStart DEF Fit

\* The hub has had every open socket (Serve registers before the tab pulls), and a tab's
\* sockets are what stopWSClient and onclose take them for.
THEOREM AlwaysFit == ASSUME RegistersFirst, ClosesFirst PROVE Spec => []Fit
<1>1. Fit /\ [Next]_vars => Fit'
  BY FitKept
<1> QED
  BY <1>1, FitStarts, PTL DEF Spec

\* A step of the signal's that no tab sees anything of, and that no user takes.
Hidden == \/ Notify \/ FanOut \/ Restart \/ UNCHANGED vars
          \/ \E c \in Conn : PumpStep(c) \/ OnOpen(c) \/ OnMessage(c) \/ OnClose(c)
          \/ \E t \in Tab : ReconnectTimer(t) \/ PullTimer(t)

LEMMA Steps ==
  ASSUME [Next]_vars
  PROVE  Hidden \/ Write \/ \E t \in Tab : Pulled(t) \/ StartWSClient(t) \/ StopWSClient(t)
  BY DEF Hidden, Next, Progress, Idle, PumpStep

LEMMA HiddenSteps ==
  ASSUME Fit, Hidden, NEW t \in Tab
  PROVE  version' = version /\ tab'[t].seen = tab[t].seen /\ tab'[t].stopped = tab[t].stopped
<1>1. /\ tab \in [Tab -> TabState] /\ \A u \in Tab : tab[u] \in TabState
      /\ \A c \in Conn : conn[c].of \in Tab
  BY FitTyped
<1>2. CASE Notify \/ FanOut \/ UNCHANGED vars \/ \E c \in Conn : PumpStep(c)
  BY <1>2 DEF Notify, FanOut, vars, PumpStep, Upgrade, Register, Unregister, WriteEvent,
              EndWriter, EndReader, Lose
<1>3. CASE Restart
  <2>1. version' = version /\ tab'[t] = [tab[t] EXCEPT !.asked = 0]
    BY <1>3 DEF Restart
  <2> QED
    BY <1>1, <2>1 DEF TabState
<1>4. ASSUME NEW u \in Tab, NEW k \in TabState, version' = version, tab' = [tab EXCEPT ![u] = k],
             k.seen = tab[u].seen, k.stopped = tab[u].stopped
      PROVE  version' = version /\ tab'[t].seen = tab[t].seen /\ tab'[t].stopped = tab[t].stopped
  BY <1>1, <1>4
<1>5. ASSUME NEW u \in Tab, ReconnectTimer(u)
      PROVE  version' = version /\ tab'[t].seen = tab[t].seen /\ tab'[t].stopped = tab[t].stopped
  <2>1. PICK c \in Conn : /\ version' = version
                          /\ tab' = [tab EXCEPT ![u] = [tab[u] EXCEPT !.retry = FALSE, !.socket = c]]
    BY <1>1, <1>5 DEF ReconnectTimer, Connect, TabState
  <2> DEFINE k == [tab[u] EXCEPT !.retry = FALSE, !.socket = c]
  <2>2. k \in TabState /\ k.seen = tab[u].seen /\ k.stopped = tab[u].stopped
    BY <1>1 DEF TabState
  <2> QED
    BY <1>4, <2>1, <2>2
<1>6. ASSUME NEW u \in Tab, PullTimer(u)
      PROVE  version' = version /\ tab'[t].seen = tab[t].seen /\ tab'[t].stopped = tab[t].stopped
  <2> DEFINE n == tab[u].asked + 1
             k == [tab[u] EXCEPT !.pull = FALSE, !.asked = n]
  <2>1. n \in Nat
    BY <1>1 DEF TabState
  <2>2. version' = version /\ tab' = [tab EXCEPT ![u] = k]
    BY <1>1, <1>6 DEF PullTimer, TabState
  <2> HIDE DEF n
  <2>3. k \in TabState /\ k.seen = tab[u].seen /\ k.stopped = tab[u].stopped
    BY <1>1, <2>1 DEF TabState
  <2> QED
    BY <1>4, <2>2, <2>3
<1>7. ASSUME NEW c \in Conn, NEW u \in Tab, u = conn[c].of, OnOpen(c)
      PROVE  version' = version /\ tab'[t].seen = tab[t].seen /\ tab'[t].stopped = tab[t].stopped
  <2> DEFINE k == [tab[u] EXCEPT !.asked = @ + 1]
  <2>1. k \in TabState /\ k.seen = tab[u].seen /\ k.stopped = tab[u].stopped
    BY <1>1 DEF TabState
  <2>2. version' = version /\ tab' = [tab EXCEPT ![u] = k]
    BY <1>1, <1>7 DEF OnOpen, Opened
  <2> QED
    BY <1>4, <2>1, <2>2
<1>8. ASSUME NEW c \in Conn, NEW u \in Tab, u = conn[c].of, OnMessage(c)
      PROVE  version' = version /\ tab'[t].seen = tab[t].seen /\ tab'[t].stopped = tab[t].stopped
  <2> DEFINE k == [tab[u] EXCEPT !.pull = TRUE]
  <2>1. k \in TabState /\ k.seen = tab[u].seen /\ k.stopped = tab[u].stopped
    BY <1>1 DEF TabState
  <2>2. version' = version /\ tab' = [tab EXCEPT ![u] = k]
    BY <1>1, <1>8 DEF OnMessage
  <2> QED
    BY <1>4, <2>1, <2>2
<1>9. ASSUME NEW c \in Conn, NEW u \in Tab, u = conn[c].of, OnClose(c)
      PROVE  version' = version /\ tab'[t].seen = tab[t].seen /\ tab'[t].stopped = tab[t].stopped
  <2> DEFINE again == ~tab[u].stopped
             k == [tab[u] EXCEPT !.retry = again]
  <2>1. again \in BOOLEAN /\ version' = version /\ tab' = [tab EXCEPT ![u] = k]
    BY <1>1, <1>9 DEF OnClose, Closed
  <2> HIDE DEF again
  <2>2. k \in TabState /\ k.seen = tab[u].seen /\ k.stopped = tab[u].stopped
    BY <1>1, <2>1 DEF TabState
  <2> QED
    BY <1>4, <2>1, <2>2
<1> QED
  BY <1>1, <1>2, <1>3, <1>5, <1>6, <1>7, <1>8, <1>9 DEF Hidden

LEMMA UserSteps ==
  ASSUME Fit, NEW u \in Tab, StartWSClient(u) \/ StopWSClient(u), NEW t \in Tab
  PROVE  /\ version' = version /\ tab'[t].seen = tab[t].seen
         /\ t # u => tab'[t].stopped = tab[t].stopped
         /\ StartWSClient(u) => tab'[u].stopped = FALSE
         /\ StopWSClient(u) => tab'[u].stopped = TRUE
<1>1. tab \in [Tab -> TabState] /\ tab[u] \in TabState
  BY FitTyped
<1>2. CASE StartWSClient(u)
  <2>1. PICK c \in Conn : /\ version' = version
                          /\ tab' = [tab EXCEPT ![u] = [tab[u] EXCEPT !.stopped = FALSE, !.socket = c]]
    BY <1>1, <1>2 DEF StartWSClient, Connect, TabState
  <2> DEFINE k == [tab[u] EXCEPT !.stopped = FALSE, !.socket = c]
  <2>2. k.seen = tab[u].seen /\ k.stopped = FALSE
    BY <1>1 DEF TabState
  <2>3. ~StopWSClient(u)
    BY <1>2 DEF StartWSClient, StopWSClient, MayStart
  <2> HIDE DEF k
  <2>4. tab' = [tab EXCEPT ![u] = k]
    BY <2>1 DEF k
  <2> QED
    BY <1>1, <2>1, <2>2, <2>3, <2>4
<1>3. CASE StopWSClient(u)
  <2> DEFINE k == [tab[u] EXCEPT !.stopped = TRUE, !.retry = FALSE, !.pull = FALSE, !.socket = None]
  <2>1. k.seen = tab[u].seen /\ k.stopped = TRUE
    BY <1>1 DEF TabState
  <2>2. version' = version /\ tab' = [tab EXCEPT ![u] = k]
    BY <1>3 DEF StopWSClient
  <2>3. ~StartWSClient(u)
    BY <1>3 DEF StartWSClient, MayStart, StopWSClient
  <2> HIDE DEF k
  <2> QED
    BY <1>1, <1>3, <2>1, <2>2, <2>3
<1> QED
  BY <1>2, <1>3

LEMMA PullSteps ==
  ASSUME Fit, NEW u \in Tab, Pulled(u)
  PROVE  /\ version' = version /\ conn' = conn /\ UNCHANGED <<clients, broadcast, unsaid>>
         /\ \A t \in Tab : /\ tab'[t].seen = IF t = u THEN version ELSE tab[t].seen
                           /\ tab'[t].stopped = tab[t].stopped /\ tab'[t].pull = tab[t].pull
                           /\ t # u => tab'[t] = tab[t]
                           /\ tab'[t].asked > 0 => tab[t].asked > 0
<1>1. tab \in [Tab -> TabState] /\ tab[u] \in TabState
  BY FitTyped
<1> DEFINE k == [tab[u] EXCEPT !.asked = @ - 1, !.seen = version]
<1>2. /\ k.seen = version /\ k.stopped = tab[u].stopped /\ k.pull = tab[u].pull
      /\ tab[u].asked > 0
  BY <1>1 DEF TabState, Pulled
<1>3. /\ version' = version /\ conn' = conn /\ UNCHANGED <<clients, broadcast, unsaid>>
      /\ tab' = [tab EXCEPT ![u] = k]
  BY DEF Pulled
<1> HIDE DEF k
<1> QED
  BY <1>1, <1>2, <1>3

\* While d is open, it is of one tab.
LEMMA OpenStays ==
  ASSUME Fit, [Next]_vars, NEW d \in Conn, conn'[d].page = "open"
  PROVE  conn'[d].of = conn[d].of
<1>1. conn \in [Conn -> Socket] /\ (\A c \in Conn : conn[c] \in Socket) /\ Server
  BY FitTyped DEF Fit, Paired
<1>2. CASE HubStep \/ PullStep \/ \E c \in Conn : PumpStep(c)
  BY <1>1, <1>2, PagesStay
<1>3. ASSUME NEW t \in Tab, NEW k, Connect(t, k) PROVE conn'[d] = conn[d]
  <2> DEFINE j == [NoConn(t) EXCEPT !.page = "connecting", !.up = TRUE]
  <2>1. PICK c \in Conn : conn' = [conn EXCEPT ![c] = j]
    BY <1>3 DEF Connect
  <2>2. j.page = "connecting"
    BY NewSocket
  <2> HIDE DEF j
  <2> QED
    BY <1>1, <2>1, <2>2
<1>4. ASSUME NEW t \in Tab, StartWSClient(t) \/ ReconnectTimer(t) PROVE conn'[d] = conn[d]
  BY <1>3, <1>4 DEF StartWSClient, ReconnectTimer
<1>5. ASSUME NEW t \in Tab, StopWSClient(t) PROVE conn'[d].of = conn[d].of
  <2>1. conn'[d] = conn[d] \/ conn'[d] = [conn[d] EXCEPT !.page = "closing"]
    BY <1>5 DEF StopWSClient
  <2> QED
    BY <1>1, <2>1 DEF Socket
<1>6. ASSUME NEW c \in Conn, OnOpen(c) PROVE conn'[d].of = conn[d].of
  BY <1>1, <1>6 DEF OnOpen, Socket
<1>7. ASSUME NEW c \in Conn, OnClose(c) PROVE conn'[d].of = conn[d].of
  BY <1>1, <1>7 DEF OnClose, Socket
<1>8. CASE UNCHANGED vars
  BY <1>8 DEF vars
<1> QED
  BY <1>2, <1>4, <1>5, <1>6, <1>7, <1>8 DEF Next, Progress, Idle, HubStep, PumpStep, PullStep

\* Tab t is owed a pull.
Owes(t) == \A c \in Conn : conn[c].of = t /\ conn[c].page = "open" => Due(c)

LEMMA OwesKept ==
  ASSUME Fit, [Next]_vars, NEW t \in Tab, ~Pulled(t), Owes(t) \/ Write
  PROVE  Owes(t)'
<1> SUFFICES ASSUME NEW d \in Conn, conn'[d].of = t, conn'[d].page = "open"
             PROVE  Due(d)'
  BY DEF Owes
<1>1. conn[d].of = t
  BY OpenStays
<1>2. Due(d) \/ conn[d].page # "open" \/ Write
  BY <1>1 DEF Owes
<1> QED
  BY <1>1, <1>2, StillDue

\* A pull leaves the other tabs what they are owed, and owes its own nothing new.
LEMMA OwesPulled ==
  ASSUME Fit, NEW u \in Tab, Pulled(u), NEW t \in Tab
  PROVE  /\ t # u => (Owes(t)' <=> Owes(t))
         /\ Owes(t)' => Owes(t)
<1>1. ASSUME NEW d \in Conn
      PROVE  /\ conn'[d] = conn[d] /\ conn[d].of \in Tab
             /\ Due(d)' => Due(d)
             /\ conn[d].of # u => (Due(d)' <=> Due(d))
  <2>1. conn[d].of \in Tab
    BY FitTyped
  <2> QED
    BY <2>1, PullSteps DEF Due, Coming
<1> QED
  BY <1>1 DEF Owes

\* A user's start or stop leaves the other tabs what they are owed; a tab that is
\* stopped has nothing open, and one that is started nothing yet.
LEMMA OwesByUser ==
  ASSUME Fit, ClosesFirst, NEW u \in Tab, NEW t \in Tab, StartWSClient(u) \/ StopWSClient(u)
  PROVE  /\ t # u => (Owes(t)' <=> Owes(t))
         /\ StopWSClient(u) => Owes(u)'
         /\ StartWSClient(u) => Owes(u) /\ Owes(u)'
<1>1. /\ conn \in [Conn -> Socket] /\ tab \in [Tab -> TabState]
      /\ \A c \in Conn : conn[c] \in Socket
      /\ tab[u] \in TabState /\ OneOf(u)
  BY FitTyped DEF Fit, Paired
<1>2. UNCHANGED <<clients, broadcast, unsaid>> /\ \A v \in Tab : v # u => tab'[v] = tab[v]
  BY <1>1 DEF StartWSClient, StopWSClient, Connect
<1>3. CASE StartWSClient(u)
  <2> DEFINE j == [NoConn(u) EXCEPT !.page = "connecting", !.up = TRUE]
  <2>1. PICK c \in Conn : conn' = [conn EXCEPT ![c] = j] /\ conn[c].page = "closed"
    BY <1>3 DEF StartWSClient, Connect, Done
  <2>2. j.page = "connecting" /\ j.of = u
    BY NewSocket
  <2>3. Sockets(u) = {} /\ ~StopWSClient(u)
    BY <1>3 DEF StartWSClient, MayStart, StopWSClient
  <2> HIDE DEF j
  <2>4. \A d \in Conn : d # c => conn'[d] = conn[d]
    BY <1>1, <2>1
  <2>5. conn'[c].page = "connecting"
    BY <1>1, <2>1, <2>2
  <2>6. \A d \in Conn : (conn'[d].page = "open" \/ conn[d].page = "open") => conn'[d] = conn[d]
    BY <2>1, <2>4, <2>5
  <2>7. Owes(u) /\ Owes(u)'
    BY <2>3, <2>6 DEF Owes, Sockets
  <2>8. ASSUME t # u PROVE Owes(t)' <=> Owes(t)
    <3>1. ASSUME NEW d \in Conn, conn'[d] = conn[d], conn[d].of = t PROVE Due(d)' <=> Due(d)
      BY <1>2, <2>8, <3>1 DEF Due, Coming
    <3> QED
      BY <2>6, <3>1 DEF Owes
  <2> QED
    BY <2>3, <2>7, <2>8
<1>4. CASE StopWSClient(u)
  <2>1. ASSUME NEW d \in Conn
        PROVE  /\ conn[d].of # u => conn'[d] = conn[d]
               /\ conn'[d].of = conn[d].of
               /\ conn[d].of = u => conn'[d].page # "open"
    <3>1. conn'[d] = IF d = tab[u].socket /\ d \in Sockets(u)
                     THEN [conn[d] EXCEPT !.page = "closing"] ELSE conn[d]
      BY <1>4 DEF StopWSClient
    <3>2. conn[d].of = u /\ conn[d].page = "open" => d = tab[u].socket /\ d \in Sockets(u)
      BY <1>1 DEF OneOf, Sockets
    <3>3. CASE d = tab[u].socket /\ d \in Sockets(u)
      BY <1>1, <3>1, <3>3 DEF Socket, Sockets
    <3>4. CASE ~(d = tab[u].socket /\ d \in Sockets(u))
      BY <3>1, <3>2, <3>4
    <3> QED
      BY <3>3, <3>4
  <2>2. Owes(u)'
    BY <2>1 DEF Owes
  <2>3. ASSUME t # u PROVE Owes(t)' <=> Owes(t)
    <3>1. ASSUME NEW d \in Conn, conn'[d] = conn[d], conn[d].of = t PROVE Due(d)' <=> Due(d)
      BY <1>2, <2>3, <3>1 DEF Due, Coming
    <3> QED
      BY <2>1, <2>3, <3>1 DEF Owes
  <2>4. ~StartWSClient(u)
    BY <1>4 DEF StartWSClient, MayStart, StopWSClient
  <2> QED
    BY <2>2, <2>3, <2>4
<1> QED
  BY <1>3, <1>4

------------------------------------------------------------------------------
(* What the signal promises. *)

StillComing == Fit /\ \A t \in Tab : tab[t].seen < version => Owes(t)

LEMMA ComingKept ==
  ASSUME RegistersFirst, ClosesFirst, StillComing, [Next]_vars
  PROVE  StillComing'
<1>1. Fit' /\ Fit /\ \A t \in Tab : tab[t].seen \in Nat /\ tab[t].seen <= version
  BY FitKept, FitTyped DEF StillComing, TabState
<1>2. ASSUME NEW t \in Tab, tab'[t].seen < version' PROVE Owes(t)'
  <2>1. CASE Pulled(t)
    <3>1. tab'[t].seen = version /\ version' = version
      BY <1>1, <2>1, PullSteps
    <3> QED
      BY <1>1, <1>2, <3>1, FitTyped
  <2>2. CASE Write
    <3>1. ~Pulled(t)
      BY <1>1, <2>2, FitTyped DEF Write, Pulled
    <3> QED
      BY <1>1, <2>2, <3>1, OwesKept
  <2>3. CASE ~Pulled(t) /\ ~Write
    <3>1. version' = version /\ tab'[t].seen = tab[t].seen
      BY <1>1, <2>3, Steps, HiddenSteps, UserSteps, PullSteps
    <3>2. Owes(t)
      BY <1>2, <3>1 DEF StillComing
    <3> QED
      BY <1>1, <2>3, <3>2, OwesKept
  <2> QED
    BY <2>1, <2>2, <2>3
<1> QED
  BY <1>1, <1>2 DEF StillComing

\* No tab with an open socket stays behind unnoticed: whatever was dropped on the
\* way, a pull is still to come.
THEOREM NoTabForgotten == ASSUME RegistersFirst, ClosesFirst PROVE Spec => []NeverStale
<1>1. Init => StillComing
  <2> SUFFICES ASSUME Init PROVE StillComing
    OBVIOUS
  <2>1. \A c \in Conn : conn[c].page = "closed"
    BY DEF Init, NoConn
  <2> QED
    BY <2>1, FitStarts DEF StillComing, Owes
<1>2. StillComing /\ [Next]_vars => StillComing'
  BY ComingKept
<1>3. StillComing => NeverStale
  <2>1. ASSUME StillComing, NEW c \in Conn PROVE conn[c].of \in Tab
    BY <2>1, FitTyped DEF StillComing
  <2> QED
    BY <2>1 DEF StillComing, Owes, NeverStale
<1> QED
  BY <1>1, <1>2, <1>3, PTL DEF Spec

\* What Freshness sees of this state.
Seen == [t \in Tab |-> tab[t].seen]
Owed == [t \in Tab |-> Owes(t)]
Away == [t \in Tab |-> tab[t].stopped]

\* Every step is one of Freshness's, or none.
LEMMA StepsAreFresh ==
  ASSUME RegistersFirst, ClosesFirst, Fit, [Next]_vars
  PROVE  Fresh!FNext
<1> USE DEF Seen, Owed, Away
<1>1. CASE Write
  <2>1. version' = version + 1 /\ tab' = tab
    BY <1>1 DEF Write
  <2>2. \A t \in Tab : ~Pulled(t)
    BY <1>1, FitTyped DEF Write, Pulled
  <2>3. \A t \in Tab : Owes(t)'
    BY <1>1, <2>2, OwesKept
  <2>4. Owed' = [t \in Tab |-> TRUE] /\ Seen' = Seen /\ Away' = Away
    BY <2>1, <2>3
  <2> QED
    BY <2>1, <2>4 DEF Fresh!FNext, Fresh!NewVersion, Owes
<1>2. ASSUME NEW u \in Tab, Pulled(u) PROVE Fresh!FNext
  <2>1. version' = version /\ Seen' = [Seen EXCEPT ![u] = version] /\ Away' = Away
    BY <1>2, PullSteps
  <2>2. (\A t \in Tab : t # u => (Owes(t)' <=> Owes(t))) /\ (Owes(u)' => Owes(u))
    BY <1>2, OwesPulled
  <2>3. CASE Owes(u)' <=> Owes(u)
    <3>1. Owed' = Owed
      BY <2>2, <2>3 DEF Owes
    <3> QED
      BY <2>1, <3>1 DEF Fresh!FNext, Fresh!Pull, Owes
  <2>4. CASE ~Owes(u)'
    <3>1. Owed' = [Owed EXCEPT ![u] = FALSE]
      BY <2>2, <2>4 DEF Owes
    <3> QED
      BY <2>1, <3>1 DEF Fresh!FNext, Fresh!Pull, Owes
  <2> QED
    BY <2>2, <2>3, <2>4
<1>3. ASSUME NEW u \in Tab, StopWSClient(u) PROVE Fresh!FNext
  <2>1. version' = version /\ Seen' = Seen
    BY <1>3, UserSteps
  <2>2. Away' = [Away EXCEPT ![u] = TRUE]
    BY <1>3, UserSteps
  <2>3. (\A t \in Tab : t # u => (Owes(t)' <=> Owes(t))) /\ Owes(u)'
    BY <1>3, OwesByUser
  <2>4. Owed' = [Owed EXCEPT ![u] = TRUE]
    BY <2>3 DEF Owes
  <2> QED
    BY <2>1, <2>2, <2>4 DEF Fresh!FNext, Fresh!Leave, Owes
<1>4. ASSUME NEW u \in Tab, StartWSClient(u) PROVE Fresh!FNext
  <2>1. version' = version /\ Seen' = Seen
    BY <1>4, UserSteps
  <2>2. Away' = [Away EXCEPT ![u] = FALSE]
    BY <1>4, UserSteps
  <2>3. \A t \in Tab : Owes(t)' <=> Owes(t)
    BY <1>4, OwesByUser
  <2>4. Owed' = Owed
    BY <2>3 DEF Owes
  <2> QED
    BY <2>1, <2>2, <2>4 DEF Fresh!FNext, Fresh!Return, Owes
<1>5. CASE Hidden /\ ~Write /\ \A t \in Tab : ~Pulled(t)
  <2>1. version' = version
    <3>1. ASSUME NEW c \in Conn, PumpStep(c) \/ OnOpen(c) \/ OnMessage(c) \/ OnClose(c)
          PROVE  version' = version
      BY <3>1 DEF PumpStep, Upgrade, Register, Unregister, WriteEvent, EndWriter, EndReader, Lose,
                  OnOpen, OnMessage, OnClose
    <3> QED
      BY <1>5, <3>1 DEF Hidden, Notify, FanOut, Restart, vars, ReconnectTimer, Connect, PullTimer
  <2>2. Seen' = Seen /\ Away' = Away
    BY <1>5, HiddenSteps
  <2>3. \A t \in Tab : Owes(t) => Owes(t)'
    BY <1>5, OwesKept
  <2>4. (\A t \in Tab : Owed[t] => Owed'[t]) /\ Owed' \in [Tab -> BOOLEAN]
    BY <2>3 DEF Owes
  <2> QED
    BY <2>1, <2>2, <2>4 DEF Fresh!FNext, Fresh!Upset, Owes
<1> QED
  BY <1>1, <1>2, <1>3, <1>4, <1>5, Steps

\* The signal, hub, sockets and timers included, is Freshness: a write leaves every
\* tab owed a pull, and of all that may happen only the pull itself ends that.
THEOREM SignalRefines == ASSUME RegistersFirst, ClosesFirst PROVE Spec => Fresh!FSpec
<1>1. Init => Fresh!FInit
  <2> SUFFICES ASSUME Init PROVE Fresh!FInit
    OBVIOUS
  <2>1. \A c \in Conn : conn[c].page = "closed"
    BY DEF Init, NoConn
  <2>2. Seen = [t \in Tab |-> 0] /\ Away = [t \in Tab |-> TRUE] /\ version = 0
    BY DEF Init, Seen, Away
  <2>3. Owed = [t \in Tab |-> TRUE]
    BY <2>1 DEF Owed, Owes
  <2> QED
    BY <2>2, <2>3 DEF Fresh!FInit, Seen, Owed, Away, Owes
<1>2. Fit /\ [Next]_vars => [Fresh!FNext]_(Fresh!fvars)
  BY StepsAreFresh DEF Fresh!fvars, Seen, Owed, Away, Owes
<1> QED
  BY <1>1, <1>2, AlwaysFit, PTL DEF Spec, Fresh!FSpec
===============================================================================
