------------------------------- MODULE Dashboard -------------------------------
(***************************************************************************)
(* The ping dashboard of one browser tab: its WebSocket, which it opens    *)
(* again whenever it closes, its calls to the REST API, and what it shows  *)
(* of the schedule, which both of them tell it.  The server's stream is    *)
(* LiveFeed's, and its service ScheduleRequests, for this tab's requests   *)
(* and those of others, which may overlap.                                 *)
(*                                                                         *)
(* Back-off delays are not measured.  A definition marked "Mutant" is a     *)
(* plausible bug in the one that follows.                                  *)
(***************************************************************************)
EXTENDS LiveFeed

CONSTANTS
  Handler, Task, NoTask,  \* as in ScheduleRequests
  Poll,     \* the call that asks for the status
  NoCall,   \* no call
  Awaited,  \* a call that is not answered yet
  NoConn,   \* no socket
  MaxDrops  \* bound: the number of times the network drops a socket

ASSUME DashboardAssumption ==
  /\ NoConn \notin Conn /\ NoTask \notin Task /\ Poll \notin Handler
  /\ NoSchedule \notin Schedule /\ NoCall # Awaited
  /\ {NoCall, Awaited} \cap (Schedule \cup {NoSchedule}) = {}
  /\ MaxDrops \in Nat /\ Room \in Nat \ {0}

VARIABLES
  told, task, loop, pc, asked, on,  \* the service: ScheduleRequests' state
  page,       \* whether the dashboard is mounted
  sock,       \* the WebSocket of the mounted dashboard
  closing,    \* sockets whose close event has not come
  orphan,     \* those of them whose dashboard has been unmounted
  timer,      \* whether a reconnection is due
  drops,      \* how many times the network has dropped a socket
  call,       \* the tab's calls: the answer of each that has one
  old,        \* history: the answers given before the status changed
  shown,      \* the schedule shown as running
  overtaken   \* history: whether it is that of an old answer

service == <<active, told, task, loop, pc, asked, on>>
stream  == <<linked, due, gaps>>
socket  == <<page, sock, closing, orphan, timer, drops>>
display == <<shown, overtaken>>
calls   == <<call, old>>
tab     == <<socket, calls, display>>
vars    == <<service, stream, tab>>

Service == INSTANCE ScheduleRequests

Slot == Handler \cup {Poll}

DInit ==
  /\ Service!Init /\ linked = {} /\ gaps = {} /\ due = [c \in Conn |-> <<>>]
  /\ page = "away" /\ sock = NoConn /\ closing = {} /\ orphan = {} /\ timer = FALSE
  /\ call = [k \in Slot |-> NoCall] /\ old = {}
  /\ shown = NoSchedule /\ overtaken = FALSE /\ drops = 0

-------------------------------------------------------------------------------
(* The socket.                                                             *)

\* connect(): the connection's slot is free.
Connects(c) == c \notin linked \cup closing /\ sock' = c

\* The dashboard is mounted: it connects and asks for the status.
Mounts(c) ==
  /\ page = "away" /\ page' = "shown"
  /\ Connects(c) /\ call' = [call EXCEPT ![Poll] = Awaited]
  /\ shown' = NoSchedule /\ overtaken' = FALSE
  /\ UNCHANGED <<service, stream, closing, orphan, timer, drops, old>>

\* The dashboard is unmounted: the timer is cleared and the socket closed; its
\* requests go on like those of others, their answers are nobody's.
Unmounts ==
  /\ page = "shown" /\ page' = "away"
  /\ timer' = FALSE /\ sock' = NoConn
  /\ closing' = closing \cup ({sock} \ {NoConn}) /\ orphan' = closing'
  /\ call' = [k \in Slot |-> NoCall] /\ old' = {}
  /\ UNCHANGED <<service, stream, drops, display>>

\* The network, or an error, closes the socket, connected or connecting.
Drops ==
  /\ sock # NoConn /\ drops < MaxDrops
  /\ closing' = closing \cup {sock} /\ sock' = NoConn /\ drops' = drops + 1
  /\ UNCHANGED <<service, stream, page, orphan, timer, calls, display>>

\* Mutant: the close event does not tell who closed.
AlwaysRetries(c) == TRUE

\* Mutant: a socket is opened again only if the server had accepted it.
RetriesIfServed(c) == c \notin orphan /\ c \in linked

Retries(c) == c \notin orphan

\* onclose.
Closes(c) ==
  /\ c \in closing
  /\ closing' = closing \ {c} /\ orphan' = orphan \ {c}
  /\ timer' = (timer \/ Retries(c))
  /\ UNCHANGED <<service, stream, page, sock, drops, calls, display>>

\* The timer fires.
Reopens(c) ==
  /\ timer /\ timer' = FALSE
  /\ Connects(c)
  /\ UNCHANGED <<service, stream, page, closing, orphan, drops, calls, display>>

-------------------------------------------------------------------------------
(* The calls.                                                              *)

\* The button that is enabled is clicked; a call under way disables none.
Clicks(h) ==
  /\ page = "shown" /\ call[h] = NoCall
  /\ \E s \in IF shown = NoSchedule THEN Schedule ELSE {NoSchedule} : Service!Arrives(h, s)
  /\ call' = [call EXCEPT ![h] = Awaited]
  /\ UNCHANGED <<stream, socket, old, display>>

\* Another tab makes a request.
Elsewhere(h) ==
  /\ \E s \in Schedule \cup {NoSchedule} : Service!Arrives(h, s)
  /\ UNCHANGED <<stream, tab>>

\* What a step of the service does to the answers on their way: they are old
\* once the status changes.
Ages ==
  /\ old' = old \cup {k \in Slot : active' # active /\ call[k] \notin {NoCall, Awaited}}
  /\ UNCHANGED <<socket, display>>

\* Mutant: the status is read before the request is served.
AnswersEarly(k) == call' = [call EXCEPT ![k] = IF @ = Awaited THEN active ELSE @]

\* The route's answer is status(), if the tab still waits for it.
Answers(k) == call' = [call EXCEPT ![k] = IF @ = Awaited THEN active' ELSE @]

Stops(h)  == Service!Stops(h) /\ Ages /\ Answers(h) /\ UNCHANGED stream
Starts(h) == Service!Starts(h) /\ Ages /\ Answers(h) /\ Tells

\* The status is asked for and answered in one step.
Reads == call[Poll] = Awaited /\ UNCHANGED <<service, stream>> /\ Ages /\ Answers(Poll)

\* The answer is shown, whatever has been shown since it was given.
Shows(k) ==
  /\ call[k] \notin {NoCall, Awaited}
  /\ call' = [call EXCEPT ![k] = NoCall] /\ old' = old \ {k}
  /\ shown' = call[k] /\ overtaken' = (k \in old)
  /\ UNCHANGED <<service, stream, socket>>

\* The call fails; the server goes on with it.
Fails(k) ==
  /\ call[k] # NoCall
  /\ call' = [call EXCEPT ![k] = NoCall] /\ old' = old \ {k}
  /\ UNCHANGED <<service, stream, socket, display>>

-------------------------------------------------------------------------------
(* The server's other steps, and the stream.                               *)

\* What the service does without publishing or answering.
Proceeds ==
  /\ \/ \E h \in Handler : Service!StopAwaits(h)
     \/ \E t \in Task : Service!Begins(t) \/ Service!Withdraws(t)
  /\ UNCHANGED <<stream, tab>>

Ends(t) == Service!Ends(t) /\ Ages /\ Tells /\ UNCHANGED call

\* Mutant: what comes on a socket that is no longer the tab's is shown.
AnySocket(c) == page = "shown"

\* Whether a message on c reaches the tab: a socket being closed delivers none.
Hears(c) == sock = c

Feeds(c) ==
  /\ \/ sock = c /\ Joins(c) /\ UNCHANGED display
     \/ /\ Receives(c)
        /\ shown' = IF Hears(c) THEN Head(due[c]) ELSE shown
        /\ overtaken' = (overtaken /\ ~Hears(c))
  /\ UNCHANGED <<service, socket, calls>>

\* The server finds the connection dead.
Loses(c) == sock # c /\ Leaves(c) /\ UNCHANGED <<service, tab>>

\* Results are dropped.
Drained == Misses /\ UNCHANGED <<service, tab>>

DNext ==
  \/ Unmounts \/ Drops \/ Reads \/ Proceeds \/ Drained
  \/ \E c \in Conn : Feeds(c) \/ Loses(c) \/ Closes(c) \/ Reopens(c) \/ Mounts(c)
  \/ \E h \in Handler : Clicks(h) \/ Elsewhere(h) \/ Stops(h) \/ Starts(h)
  \/ \E t \in Task : Ends(t)
  \/ \E k \in Slot : Shows(k) \/ Fails(k)

DSpec == DInit /\ [][DNext]_vars

\* The event loop runs, timers fire, the browser reports what is closed, and the
\* protocol's keep-alive finds a dead connection.
DFairSpec ==
  /\ DSpec
  /\ \A c \in Conn : WF_vars(Feeds(c)) /\ WF_vars(Closes(c)) /\ WF_vars(Loses(c))
  /\ WF_vars(\E c \in Conn : Reopens(c))

-------------------------------------------------------------------------------
(* Properties.                                                             *)

(* The service, the stream and the tab have their types; no client is due more *)
(* than there is room for, and only a mounted dashboard waits for answers.     *)
Status == Schedule \cup {NoSchedule}
ServiceOK ==
  /\ active \in Status /\ told \in BOOLEAN /\ task \in Task \cup {NoTask}
  /\ loop \in [Task -> {"done", "created", "cancelled", "begun"}]
  /\ pc \in [Handler -> {"idle", "called", "waiting"}]
  /\ asked \in [Handler -> Status] /\ on \in [Handler -> Task \cup {NoTask}]
FeedOK ==
  /\ linked \subseteq Conn /\ gaps \subseteq linked /\ due \in [Conn -> Seq(Status)]
  /\ \A c \in Conn : Len(due[c]) <= Room /\ (c \notin linked => due[c] = <<>>)
TabOK ==
  /\ page \in {"away", "shown"} /\ sock \in Conn \cup {NoConn}
  /\ orphan \subseteq closing /\ closing \subseteq Conn /\ timer \in BOOLEAN
  /\ drops \in 0..MaxDrops
  /\ call \in [Slot -> Status \cup {NoCall, Awaited}]
  /\ page = "away" => \A k \in Slot : call[k] = NoCall
  /\ old \subseteq {k \in Slot : call[k] \in Status}
  /\ shown \in Status /\ overtaken \in BOOLEAN
TypeOK == ServiceOK /\ FeedOK /\ TabOK

(* A mounted dashboard has one socket, or one whose close event is to come, or *)
(* one timer to open the next, whatever closed it and however often it was     *)
(* unmounted and mounted again; an unmounted one has none of them.             *)
OneChain ==
  LET chain == ({sock} \ {NoConn}) \cup (closing \ orphan) \cup {t \in {"timer"} : timer}
  IN IF page = "shown" THEN \E x \in chain : chain = {x} ELSE chain = {}

(* A dashboard whose socket has brought all there is for it, and missed no     *)
(* status, shows what status() says, whatever requests overlap, if its last    *)
(* news is not an answer that was no longer true, and if the last status       *)
(* published is the current one, which no stop() has cleared in silence.       *)
Settled == /\ page = "shown" /\ sock \in linked \ gaps /\ due[sock] = <<>>
           /\ told = (active # NoSchedule)
ShownCurrent == Settled /\ ~overtaken => shown = active

(* A dashboard that stays mounted is served again after every drop.            *)
Reconnected == page = "shown" ~> (sock \in linked \/ page = "away")
===============================================================================
