------------------------------ MODULE PingStream ------------------------------
(***************************************************************************)
(* The live stream: the events the scheduled-ping service publishes, the   *)
(* event bus with one bounded queue per subscriber, and the WebSocket      *)
(* handlers that forward a queue to a client.  The service is its contract, *)
(* PingSchedule, with the events it publishes at each of its steps.        *)
(*                                                                         *)
(* Everything here runs on the event loop; an action is what one coroutine *)
(* does between two awaits.  A definition marked "Mutant" is a plausible   *)
(* bug in the one that follows.                                            *)
(***************************************************************************)
EXTENDS Naturals, Sequences, Subsequences

CONSTANTS
  Schedule, NoSchedule, NoLimit, Cap,   \* as in PingSchedule
  Conn,        \* slots for WebSocket connections
  Flaky,       \* those whose client may vanish before it is first sent anything
  QueueMax,    \* _QUEUE_MAXSIZE
  MaxEvents    \* bound: the number of events published

ASSUME StreamAssumption ==
  /\ NoSchedule \notin Schedule /\ Flaky \subseteq Conn
  /\ QueueMax \in Nat \ {0} /\ MaxEvents \in Nat /\ Cap \in Nat

VARIABLES
  active, sent,  \* the service: PingSchedule's state
  published,     \* how many events have been published
  subscribers,   \* the bus's subscriptions
  queue,         \* what each of them has yet to take
  conn,          \* where each WebSocket handler stands
  taken,         \* the event each handler's get_task holds
  seen,          \* per client: the number of the last event it reflects
  view,          \* per client: the schedule it was last told of
  dropped        \* history: clients that missed an event, their queue being full

service == <<active, sent>>
clients == <<seen, view>>
vars == <<service, published, subscribers, queue, conn, taken, clients, dropped>>

Service == INSTANCE PingSchedule

Init ==
  /\ Service!Init
  /\ published = 0 /\ subscribers = {} /\ dropped = {}
  /\ queue = [c \in Conn |-> <<>>]
  /\ conn = [c \in Conn |-> "closed"]
  /\ taken = [c \in Conn |-> <<>>]
  /\ seen = [c \in Conn |-> 0]
  /\ view = [c \in Conn |-> NoSchedule]

-------------------------------------------------------------------------------
(* Publishing.                                                             *)

Result(n)    == [n |-> n, kind |-> "ping_result"]
Status(n, s) == [n |-> n, kind |-> "schedule_status", active |-> s]

\* Mutant: publish() reaches the clients that are being served only.
Served == {c \in Conn : conn[c] = "serving"}

Reached == subscribers

\* Mutant: a queue without a bound.
Unbounded(q) == q

\* What a queue keeps of q when its events are put one by one: put_nowait()
\* raises QueueFull, which publish() ignores, for those beyond the bound.
Kept(q) == IF Len(q) > QueueMax THEN SubSeq(q, 1, QueueMax) ELSE q

Publish(events) ==
  /\ published + Len(events) <= MaxEvents
  /\ published' = published + Len(events)
  /\ queue' = [c \in Conn |-> IF c \in Reached THEN Kept(queue[c] \o events)
                                                ELSE queue[c]]
  /\ dropped' = dropped \cup {c \in subscribers : Len(queue[c] \o events) > QueueMax}
  /\ UNCHANGED <<subscribers, conn, taken, clients>>

\* A schedule starts, or is stopped, or fails: its status is published.
Turns == /\ Service!Halt \/ \E s \in Schedule : Service!Start(s)
         /\ Publish(<<Status(published + 1, active')>>)

\* A cycle's results are published, one event standing for all of them.
Sends == /\ Service!Send
         /\ Publish(<<Result(published + 1)>>)

\* The last cycle's results, then the status.
Finishes == /\ Service!Finish
            /\ Publish(<<Result(published + 1), Status(published + 2, active')>>)

-------------------------------------------------------------------------------
(* The WebSocket handler of connection c.                                  *)

Accepts(c) ==
  /\ conn[c] = "closed"
  /\ conn' = [conn EXCEPT ![c] = "accepted"]
  /\ UNCHANGED <<service, published, subscribers, queue, taken, clients, dropped>>

\* Mutant: the status is read when the service is first used.
InitialStatus == Status(published, NoSchedule)

CurrentStatus == Status(published, active)

\* subscribe(), then the current status, which status() reads before the send
\* suspends.
Subscribes(c) ==
  /\ conn[c] = "accepted"
  /\ subscribers' = subscribers \cup {c}
  /\ queue' = [queue EXCEPT ![c] = <<>>]
  /\ taken' = [taken EXCEPT ![c] = <<CurrentStatus>>]
  /\ conn' = [conn EXCEPT ![c] = "greeting"]
  /\ UNCHANGED <<service, published, clients, dropped>>

\* What the client knows once it has received e.
Receives(c, e) ==
  /\ seen' = [seen EXCEPT ![c] = e.n]
  /\ view' = [view EXCEPT ![c] = IF e.kind = "schedule_status" THEN e.active ELSE @]

\* The first send returns; recv_task and get_task are created.
Greets(c) ==
  /\ conn[c] = "greeting"
  /\ conn' = [conn EXCEPT ![c] = "serving"]
  /\ Receives(c, Head(taken[c]))
  /\ taken' = [taken EXCEPT ![c] = <<>>]
  /\ UNCHANGED <<service, published, subscribers, queue, dropped>>

\* The first send raises, the client being gone: no try statement surrounds it,
\* so the queue stays subscribed.
GreetingFails(c) ==
  /\ conn[c] = "greeting" /\ c \in Flaky
  /\ conn' = [conn EXCEPT ![c] = "leaked"]
  /\ taken' = [taken EXCEPT ![c] = <<>>]
  /\ UNCHANGED <<service, published, subscribers, queue, clients, dropped>>

\* get_task is done: queue.get() returned the oldest event.
Takes(c) ==
  /\ conn[c] = "serving" /\ taken[c] = <<>> /\ queue[c] # <<>>
  /\ taken' = [taken EXCEPT ![c] = <<Head(queue[c])>>]
  /\ queue' = [queue EXCEPT ![c] = Tail(@)]
  /\ UNCHANGED <<service, published, subscribers, conn, clients, dropped>>

\* Mutant: get_task is not created again.
ForwardsOnce(c) ==
  /\ conn[c] = "serving" /\ taken[c] # <<>>
  /\ Receives(c, Head(taken[c]))
  /\ UNCHANGED <<service, published, subscribers, queue, conn, taken, dropped>>

\* send_json(event) returns and the next get_task is created.
Forwards(c) ==
  /\ conn[c] = "serving" /\ taken[c] # <<>>
  /\ Receives(c, Head(taken[c]))
  /\ taken' = [taken EXCEPT ![c] = <<>>]
  /\ UNCHANGED <<service, published, subscribers, queue, conn, dropped>>

\* recv_task or a send raises WebSocketDisconnect: the finally clause.
Disconnects(c) ==
  /\ conn[c] = "serving"
  /\ conn' = [conn EXCEPT ![c] = "closed"]
  /\ subscribers' = subscribers \ {c}
  /\ taken' = [taken EXCEPT ![c] = <<>>]
  /\ dropped' = dropped \ {c}
  /\ UNCHANGED <<service, published, queue, clients>>

Serves(c) == Greets(c) \/ Takes(c) \/ Forwards(c)

Next == \/ Turns \/ Sends \/ Finishes
        \/ \E c \in Conn : \/ Accepts(c) \/ Subscribes(c) \/ Serves(c)
                           \/ GreetingFails(c) \/ Disconnects(c)

Spec == Init /\ [][Next]_vars

\* A client that stays connected reads what it is sent, so every send returns.
FairSpec == Spec /\ \A c \in Conn : WF_vars(Serves(c))

-------------------------------------------------------------------------------
(* Properties.                                                             *)

StatusEvent == [n : 0..MaxEvents, kind : {"schedule_status"},
                active : Schedule \cup {NoSchedule}]
Event == [n : 0..MaxEvents, kind : {"ping_result"}] \cup StatusEvent

(* The bus, the handlers and the clients have their types, a queue is within *)
(* its bound, and a client being served is subscribed.                       *)
TypeOK ==
  /\ active \in Schedule \cup {NoSchedule} /\ sent \in 0..Cap
  /\ published \in 0..MaxEvents
  /\ subscribers \subseteq Conn /\ dropped \subseteq subscribers
  /\ queue \in [Conn -> Seq(Event)]
  /\ \A c \in Conn : Len(queue[c]) <= QueueMax
  /\ conn \in [Conn -> {"closed", "accepted", "greeting", "serving", "leaked"}]
  /\ taken \in [Conn -> {<<>>} \cup {<<e>> : e \in Event}]
  /\ seen \in [Conn -> 0..MaxEvents]
  /\ view \in [Conn -> Schedule \cup {NoSchedule}]
  /\ \A c \in Conn : conn[c] \in {"greeting", "serving", "leaked"} <=> c \in subscribers

(* What a client being served has yet to receive is, without gap, repetition *)
(* or change of order, every event published since the one it reflects,      *)
(* unless its queue was full: nothing falls between the first status and the *)
(* first event taken from the queue, however the sends are delayed.          *)
NothingMissed ==
  \A c \in Conn : conn[c] = "serving" /\ c \notin dropped =>
    LET due == taken[c] \o queue[c]
    IN /\ Len(due) = published - seen[c]
       /\ \A i \in 1..Len(due) : due[i].n = seen[c] + i

(* A client that has received all there is for it knows the schedule that is *)
(* active, unless its queue was full at some time.                           *)
CaughtUp(c) == conn[c] = "serving" /\ taken[c] \o queue[c] = <<>>
ViewTruthful == \A c \in Conn : CaughtUp(c) /\ c \notin dropped => view[c] = active

(* The stream keeps the promise LiveFeed makes of it: of what is ahead of a   *)
(* client, the statuses.                                                     *)
Linked == {c \in Conn : conn[c] \in {"greeting", "serving"}}
Turned(statuses) == [i \in 1..Len(statuses) |-> statuses[i].active]
Due == [c \in Conn |-> IF c \notin Linked THEN <<>>
                       ELSE Turned(Only(taken[c] \o queue[c], StatusEvent))]
Feed == INSTANCE LiveFeed WITH linked <- Linked, due <- Due,
                               gaps <- dropped \cap Linked, Room <- QueueMax + 1
KeepsFeed == Feed!Spec

(* Every event reaches every client that is being served when it is          *)
(* published, or the client disconnects, or its queue was full.              *)
Delivered ==
  \A c \in Conn, n \in 1..MaxEvents :
    (conn[c] = "serving" /\ published = n)
      ~> (conn[c] # "serving" \/ seen[c] >= n \/ c \in dropped)
===============================================================================
