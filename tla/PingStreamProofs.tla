--------------------------- MODULE PingStreamProofs ---------------------------
(* Theorems about PingStream, for every value of its constants. *)
EXTENDS PingStream, SubsequencesProofs, SequenceTheorems, TLAPS

-------------------------------------------------------------------------------
(* Queues of events.                                                       *)

IsStatus(e) == e.kind = "schedule_status"

(* The events of q are numbered first + 1 to last. *)
Consecutive(q, first, last) ==
  /\ Len(q) = last - first
  /\ \A i \in 1..Len(q) : q[i].n = first + i

(* A client that knows of the schedule `known` and is told q knows of s then. *)
Tells(q, known, s) ==
  \/ known = s /\ \A i \in 1..Len(q) : ~IsStatus(q[i])
  \/ \E i \in 1..Len(q) : /\ IsStatus(q[i]) /\ q[i].active = s
                          /\ \A j \in i + 1..Len(q) : ~IsStatus(q[j])

(* What it knows of once it has received e. *)
Told(e, known) == IF IsStatus(e) THEN e.active ELSE known

LEMMA ConsecutiveAppend ==
  ASSUME NEW q \in Seq(Event), NEW first \in Nat, NEW last \in Nat,
         Consecutive(q, first, last), NEW e \in Event, e.n = last + 1
  PROVE  Consecutive(Append(q, e), first, last + 1)
<1>1. Len(Append(q, e)) = Len(q) + 1
  OBVIOUS
<1>2. Append(q, e)[Len(q) + 1] = e
  OBVIOUS
<1>3. \A i \in 1..Len(q) : Append(q, e)[i] = q[i]
  OBVIOUS
<1> QED BY <1>1, <1>2, <1>3 DEF Consecutive

LEMMA ConsecutiveTail ==
  ASSUME NEW q \in Seq(Event), NEW first \in Nat, NEW last \in Nat,
         Consecutive(q, first, last), q # <<>>
  PROVE  Head(q).n = first + 1 /\ Consecutive(Tail(q), first + 1, last)
<1>1. Len(q) >= 1 /\ Head(q) = q[1]
  OBVIOUS
<1>2. Len(Tail(q)) = Len(q) - 1 /\ \A i \in 1..Len(Tail(q)) : Tail(q)[i] = q[i + 1]
  OBVIOUS
<1> QED BY <1>1, <1>2 DEF Consecutive

LEMMA TellsStatus ==
  ASSUME NEW q \in Seq(Event), NEW known, NEW e \in Event, IsStatus(e)
  PROVE  Tells(Append(q, e), known, e.active)
<1>1. Len(Append(q, e)) = Len(q) + 1 /\ Append(q, e)[Len(q) + 1] = e
  OBVIOUS
<1> QED BY <1>1 DEF Tells

LEMMA TellsResult ==
  ASSUME NEW q \in Seq(Event), NEW known, NEW s, Tells(q, known, s),
         NEW e \in Event, ~IsStatus(e)
  PROVE  Tells(Append(q, e), known, s)
<1>1. Len(Append(q, e)) = Len(q) + 1 /\ Append(q, e)[Len(q) + 1] = e
  OBVIOUS
<1>2. \A i \in 1..Len(q) : Append(q, e)[i] = q[i]
  OBVIOUS
<1>3. CASE known = s /\ \A i \in 1..Len(q) : ~IsStatus(q[i])
  BY <1>1, <1>2, <1>3 DEF Tells
<1>4. ASSUME NEW i \in 1..Len(q), IsStatus(q[i]), q[i].active = s,
             \A j \in i + 1..Len(q) : ~IsStatus(q[j])
      PROVE  Tells(Append(q, e), known, s)
  <2>1. \A j \in i + 1..Len(Append(q, e)) : ~IsStatus(Append(q, e)[j])
    BY <1>1, <1>2, <1>4
  <2>2. i \in 1..Len(Append(q, e))
    BY <1>1
  <2> QED BY <1>2, <1>4, <2>1, <2>2 DEF Tells
<1> QED BY <1>3, <1>4 DEF Tells

LEMMA TellsTail ==
  ASSUME NEW q \in Seq(Event), NEW known, NEW s, Tells(q, known, s), q # <<>>
  PROVE  Tells(Tail(q), Told(Head(q), known), s)
<1>1. Len(q) >= 1 /\ Head(q) = q[1]
  OBVIOUS
<1>2. /\ Len(Tail(q)) = Len(q) - 1
      /\ \A i \in 1..Len(Tail(q)) : Tail(q)[i] = q[i + 1]
  OBVIOUS
<1>3. CASE known = s /\ \A i \in 1..Len(q) : ~IsStatus(q[i])
  BY <1>1, <1>2, <1>3 DEF Tells, Told
<1>4. ASSUME NEW i \in 1..Len(q), IsStatus(q[i]), q[i].active = s,
             \A j \in i + 1..Len(q) : ~IsStatus(q[j])
      PROVE  Tells(Tail(q), Told(Head(q), known), s)
  <2>1. CASE i = 1
    BY <1>1, <1>2, <1>4, <2>1 DEF Tells, Told
  <2>2. CASE i # 1
    <3>1. i - 1 \in 1..Len(Tail(q)) /\ Tail(q)[i - 1] = q[i]
      BY <1>1, <1>2, <2>2
    <3>2. \A j \in (i - 1) + 1..Len(Tail(q)) : ~IsStatus(Tail(q)[j])
      BY <1>2, <1>4, <2>2
    <3> QED BY <1>4, <3>1, <3>2 DEF Tells
  <2> QED BY <2>1, <2>2
<1> QED BY <1>3, <1>4 DEF Tells

-------------------------------------------------------------------------------
(* Type correctness.                                                       *)

(* What publishing does to one queue. *)
LEMMA KeptType ==
  ASSUME NEW q \in Seq(Event), NEW events \in Seq(Event)
  PROVE  /\ Kept(q \o events) \in Seq(Event) /\ Len(Kept(q \o events)) <= QueueMax
         /\ Len(q \o events) <= QueueMax => Kept(q \o events) = q \o events
<1> DEFINE all == q \o events
<1>1. all \in Seq(Event) /\ Len(all) \in Nat
  OBVIOUS
<1>2. CASE Len(all) > QueueMax
  <2>1. SubSeq(all, 1, QueueMax) \in Seq(Event) /\ Len(SubSeq(all, 1, QueueMax)) = QueueMax
    BY <1>1, <1>2, StreamAssumption
  <2> QED BY <1>1, <1>2, <2>1, StreamAssumption DEF Kept
<1>3. CASE ~(Len(all) > QueueMax)
  BY <1>1, <1>3, StreamAssumption DEF Kept
<1> QED BY <1>2, <1>3

(* The service's steps keep its state's types. *)
ServiceTypes == active \in Schedule \cup {NoSchedule} /\ sent \in 0..Cap

LEMMA ServiceStepTypes ==
  ASSUME ServiceTypes, Service!Next
  PROVE  ServiceTypes'
<1>1. Cap \in Nat
  BY StreamAssumption
<1>2. ASSUME Service!Send PROVE ServiceTypes'
  BY <1>1, <1>2 DEF Service!Send, ServiceTypes
<1> QED BY <1>1, <1>2 DEF Service!Next, Service!Start, Service!Halt, Service!Finish,
                          ServiceTypes

LEMMA PublishTypes ==
  ASSUME TypeOK, ServiceTypes', NEW events \in Seq(Event), Publish(events)
  PROVE  TypeOK'
<1>1. \A c \in Conn : queue[c] \in Seq(Event) /\ Len(queue[c]) <= QueueMax
  BY DEF TypeOK
<1>2. \A c \in Conn : /\ queue'[c] \in Seq(Event) /\ Len(queue'[c]) <= QueueMax
  BY <1>1, KeptType DEF Publish
<1>3. queue' \in [Conn -> Seq(Event)]
  BY <1>2 DEF Publish
<1>4. published' \in 0..MaxEvents
  <2>1. Len(events) \in Nat /\ published \in Nat /\ MaxEvents \in Nat
    BY StreamAssumption DEF TypeOK
  <2> QED BY <2>1 DEF Publish
<1>5. dropped' \subseteq subscribers /\ UNCHANGED <<subscribers, conn, taken, clients>>
  BY DEF Publish, TypeOK
<1> QED BY <1>2, <1>3, <1>4, <1>5 DEF TypeOK, ServiceTypes, clients

LEMMA EventFacts ==
  /\ \A n \in 0..MaxEvents : /\ Result(n) \in Event \ StatusEvent
                           /\ ~IsStatus(Result(n)) /\ Result(n).n = n
  /\ \A n \in 0..MaxEvents, s \in Schedule \cup {NoSchedule} :
       /\ Status(n, s) \in Event \cap StatusEvent /\ IsStatus(Status(n, s))
       /\ Status(n, s).n = n /\ Status(n, s).active = s
BY DEF Event, StatusEvent, Result, Status, IsStatus

(* What a step of the service may publish. *)
Published(events) ==
  /\ Publish(events) /\ ServiceTypes'
  /\ \/ /\ events = <<Status(published + 1, active')>>
        /\ published + 1 \in 0..MaxEvents
     \/ /\ events = <<Result(published + 1)>> /\ UNCHANGED active
        /\ published + 1 \in 0..MaxEvents
     \/ /\ events = <<Result(published + 1), Status(published + 2, active')>>
        /\ published + 1 \in 0..MaxEvents /\ published + 2 \in 0..MaxEvents

LEMMA Publishes ==
  ASSUME TypeOK, Turns \/ Sends \/ Finishes
  PROVE  \E events \in Seq(Event) : Published(events)
<1>1. Service!Next /\ (Sends => UNCHANGED active)
  BY DEF Turns, Sends, Finishes, Service!Next, Service!Send
<1>2. ServiceTypes'
  BY <1>1, ServiceStepTypes DEF TypeOK, ServiceTypes
<1>3. published \in Nat /\ MaxEvents \in Nat /\ active' \in Schedule \cup {NoSchedule}
  BY <1>2, StreamAssumption DEF TypeOK, ServiceTypes
<1>4. CASE Turns
  <2> DEFINE events == <<Status(published + 1, active')>>
  <2>1. Len(events) = 1
    OBVIOUS
  <2>2. Publish(events) /\ published + 1 \in 0..MaxEvents
    BY <1>3, <1>4, <2>1 DEF Turns, Publish
  <2>3. Status(published + 1, active') \in Event
    BY <1>3, <2>2, EventFacts
  <2>4. events \in Seq(Event)
    BY <2>3
  <2>5. Published(events)
    BY <1>2, <2>2 DEF Published
  <2> QED BY <2>4, <2>5
<1>5. CASE Sends
  <2> DEFINE events == <<Result(published + 1)>>
  <2>1. Len(events) = 1
    OBVIOUS
  <2>2. Publish(events) /\ published + 1 \in 0..MaxEvents
    BY <1>3, <1>5, <2>1 DEF Sends, Publish
  <2>3. Result(published + 1) \in Event
    BY <2>2, EventFacts
  <2>4. events \in Seq(Event)
    BY <2>3
  <2>5. Published(events)
    BY <1>1, <1>2, <1>5, <2>2 DEF Published
  <2> QED BY <2>4, <2>5
<1>6. CASE Finishes
  <2> DEFINE events == <<Result(published + 1), Status(published + 2, active')>>
  <2>1. Len(events) = 2
    OBVIOUS
  <2>2. /\ Publish(events)
        /\ published + 1 \in 0..MaxEvents /\ published + 2 \in 0..MaxEvents
    BY <1>3, <1>6, <2>1 DEF Finishes, Publish
  <2>3. Result(published + 1) \in Event /\ Status(published + 2, active') \in Event
    BY <1>3, <2>2, EventFacts
  <2>4. events \in Seq(Event)
    BY <2>3
  <2>5. Published(events)
    BY <1>2, <2>2 DEF Published
  <2> QED BY <2>4, <2>5
<1> QED BY <1>4, <1>5, <1>6

(* A handler that sends its first event has one to send, the status. *)
Greeted == \A c \in Conn : conn[c] = "greeting" => /\ taken[c] # <<>>
                                                   /\ IsStatus(Head(taken[c]))

LEMMA ReceivesTypes ==
  ASSUME TypeOK, NEW c \in Conn, NEW e \in Event, Receives(c, e)
  PROVE  /\ seen' \in [Conn -> 0..MaxEvents]
         /\ view' \in [Conn -> Schedule \cup {NoSchedule}]
BY DEF TypeOK, Receives, Event, StatusEvent

LEMMA HandlerTypes ==
  ASSUME TypeOK, Greeted, NEW c \in Conn,
         \/ Accepts(c) \/ Subscribes(c) \/ Serves(c) \/ GreetingFails(c) \/ Disconnects(c)
  PROVE  TypeOK'
<1> USE DEF TypeOK, service, clients
<1>1. CASE Accepts(c)
  BY <1>1 DEF Accepts
<1>2. CASE Subscribes(c)
  <2>1. CurrentStatus \in Event
    BY EventFacts DEF CurrentStatus
  <2>2. taken' \in [Conn -> {<<>>} \cup {<<e>> : e \in Event}]
    BY <1>2, <2>1 DEF Subscribes
  <2>3. /\ queue' \in [Conn -> Seq(Event)]
        /\ \A d \in Conn : Len(queue'[d]) <= QueueMax
    BY <1>2, StreamAssumption DEF Subscribes
  <2> QED BY <1>2, <2>2, <2>3 DEF Subscribes
<1>3. CASE Greets(c) \/ Forwards(c)
  <2>1. taken[c] # <<>>
    BY <1>3 DEF Greets, Forwards, Greeted
  <2>2. Head(taken[c]) \in Event
    BY <2>1
  <2>3. /\ seen' \in [Conn -> 0..MaxEvents]
        /\ view' \in [Conn -> Schedule \cup {NoSchedule}]
    BY <1>3, <2>2, ReceivesTypes DEF Greets, Forwards
  <2> QED BY <1>3, <2>3 DEF Greets, Forwards
<1>4. CASE Takes(c)
  <2>1. queue[c] \in Seq(Event) /\ queue[c] # <<>>
    BY <1>4 DEF Takes
  <2>2. /\ Head(queue[c]) \in Event /\ Tail(queue[c]) \in Seq(Event)
        /\ Len(Tail(queue[c])) = Len(queue[c]) - 1 /\ Len(queue[c]) \in Nat
    BY <2>1
  <2>3. taken' \in [Conn -> {<<>>} \cup {<<e>> : e \in Event}]
    BY <1>4, <2>2 DEF Takes
  <2>4. /\ queue' \in [Conn -> Seq(Event)]
        /\ \A d \in Conn : Len(queue'[d]) <= QueueMax
    BY <1>4, <2>2, StreamAssumption DEF Takes
  <2> QED BY <1>4, <2>3, <2>4 DEF Takes
<1>5. CASE GreetingFails(c)
  BY <1>5 DEF GreetingFails
<1>6. CASE Disconnects(c)
  BY <1>6 DEF Disconnects
<1> QED BY <1>1, <1>2, <1>3, <1>4, <1>5, <1>6 DEF Serves

LEMMA StepTypes == TypeOK /\ Greeted /\ [Next]_vars => TypeOK'
<1> SUFFICES ASSUME TypeOK, Greeted, [Next]_vars PROVE TypeOK'
  OBVIOUS
<1>1. CASE Turns \/ Sends \/ Finishes
  <2>1. PICK events \in Seq(Event) : Published(events)
    BY <1>1, Publishes
  <2> QED BY <2>1, PublishTypes DEF Published
<1>2. CASE UNCHANGED vars
  BY <1>2 DEF TypeOK, vars, service, clients
<1> QED BY <1>1, <1>2, HandlerTypes DEF Next

LEMMA StepGreeted == TypeOK /\ Greeted /\ [Next]_vars => Greeted'
<1> SUFFICES ASSUME TypeOK, Greeted, [Next]_vars PROVE Greeted'
  OBVIOUS
<1> USE DEF Greeted
<1>1. CASE Turns \/ Sends \/ Finishes
  BY <1>1 DEF Turns, Sends, Finishes, Publish
<1>2. ASSUME NEW c \in Conn, Subscribes(c) PROVE Greeted'
  <2>1. taken' = [taken EXCEPT ![c] = <<CurrentStatus>>] /\ IsStatus(CurrentStatus)
    BY <1>2 DEF Subscribes, CurrentStatus, IsStatus, Status
  <2>2. \A d \in Conn : d # c => taken'[d] = taken[d] /\ conn'[d] = conn[d]
    BY <1>2 DEF Subscribes, TypeOK
  <2>3. taken'[c] = <<CurrentStatus>>
    BY <2>1 DEF TypeOK
  <2> QED BY <2>1, <2>2, <2>3
<1>3. ASSUME NEW c \in Conn,
             Accepts(c) \/ Serves(c) \/ GreetingFails(c) \/ Disconnects(c)
      PROVE  Greeted'
  BY <1>3 DEF Accepts, Serves, Greets, Takes, Forwards, GreetingFails, Disconnects, TypeOK
<1>4. CASE UNCHANGED vars
  BY <1>4 DEF vars
<1> QED BY <1>1, <1>2, <1>3, <1>4 DEF Next

LEMMA InitTypes == Init => TypeOK /\ Greeted
<1> SUFFICES ASSUME Init PROVE TypeOK /\ Greeted
  OBVIOUS
<1>1. /\ queue \in [Conn -> Seq(Event)] /\ \A c \in Conn : Len(queue[c]) = 0
  BY DEF Init
<1> QED BY <1>1, StreamAssumption DEF Init, Service!Init, TypeOK, Greeted

-------------------------------------------------------------------------------
(* What is ahead of a client.                                              *)

(* The last event that has left the queue, and what the client knows once it  *)
(* has received that.                                                        *)
Last(c)  == IF taken[c] # <<>> THEN Head(taken[c]).n ELSE seen[c]
Knows(c) == IF taken[c] # <<>> THEN Told(Head(taken[c]), view[c]) ELSE view[c]

Complete(c) == /\ Last(c) \in 0..MaxEvents
               /\ Consecutive(queue[c], Last(c), published)
               /\ Tells(queue[c], Knows(c), active)

(* The queue of a client that is served, if it was never full, holds all that  *)
(* was published since the last event that has left it, and the client will   *)
(* know the active schedule when it has received it; that event is next after *)
(* the one the client reflects.                                              *)
Ahead ==
  \A c \in Conn \ dropped :
    /\ conn[c] \in {"greeting", "serving"} => Complete(c)
    /\ conn[c] = "serving" /\ taken[c] # <<>> => Head(taken[c]).n = seen[c] + 1

(* A step that leaves the queue's end and what has left it alone. *)
LEMMA KeepsComplete ==
  ASSUME NEW c \in Conn, Complete(c), UNCHANGED <<queue[c], published, active>>,
         Last(c)' = Last(c), Knows(c)' = Knows(c)
  PROVE  Complete(c)'
BY DEF Complete

LEMMA PublishComplete ==
  ASSUME TypeOK, NEW c \in Conn, Complete(c), NEW events \in Seq(Event),
         Published(events), UNCHANGED <<taken, clients>>, queue'[c] = queue[c] \o events
  PROVE  Complete(c)'
<1> DEFINE n == published + 1
<1>1. /\ queue[c] \in Seq(Event) /\ published \in Nat /\ n \in Nat /\ Last(c) \in Nat
      /\ active \in Schedule \cup {NoSchedule} /\ active' \in Schedule \cup {NoSchedule}
  BY StreamAssumption DEF TypeOK, Complete, Published, ServiceTypes
<1>2. Last(c)' = Last(c) /\ Knows(c)' = Knows(c)
  BY DEF Last, Knows, clients
<1>3. published' = published + Len(events)
  BY DEF Published, Publish
<1>4. CASE events = <<Status(n, active')>> /\ n \in 0..MaxEvents
  <2> DEFINE e == Status(n, active')
  <2>1. e \in Event /\ IsStatus(e) /\ e.n = n /\ e.active = active'
    BY <1>1, <1>4, EventFacts
  <2>2. queue'[c] = Append(queue[c], e) /\ published' = n
    BY <1>1, <1>3, <1>4
  <2>3. Consecutive(queue[c], Last(c), published) /\ Tells(queue[c], Knows(c), active)
    BY DEF Complete
  <2> HIDE DEF e
  <2>4. Consecutive(queue'[c], Last(c), n)
    BY <1>1, <2>1, <2>2, <2>3, ConsecutiveAppend
  <2>5. Tells(queue'[c], Knows(c), active')
    BY <1>1, <2>1, <2>2, TellsStatus
  <2> QED BY <1>2, <2>2, <2>4, <2>5 DEF Complete
<1>5. CASE events = <<Result(n)>> /\ UNCHANGED active /\ n \in 0..MaxEvents
  <2> DEFINE e == Result(n)
  <2>1. e \in Event /\ ~IsStatus(e) /\ e.n = n
    BY <1>1, <1>5, EventFacts
  <2>2. queue'[c] = Append(queue[c], e) /\ published' = n
    BY <1>1, <1>3, <1>5
  <2>3. Consecutive(queue[c], Last(c), published) /\ Tells(queue[c], Knows(c), active)
    BY DEF Complete
  <2> HIDE DEF e
  <2>4. Consecutive(queue'[c], Last(c), n)
    BY <1>1, <2>1, <2>2, <2>3, ConsecutiveAppend
  <2>5. Tells(queue'[c], Knows(c), active)
    BY <1>1, <2>1, <2>2, <2>3, TellsResult
  <2> QED BY <1>2, <1>5, <2>2, <2>4, <2>5 DEF Complete
<1>6. CASE /\ events = <<Result(n), Status(n + 1, active')>>
           /\ n \in 0..MaxEvents /\ n + 1 \in 0..MaxEvents
  <2> DEFINE r == Result(n)
             e == Status(n + 1, active')
             q == Append(queue[c], r)
  <2>1. r \in Event /\ r.n = n
    BY <1>6, EventFacts
  <2>2. e \in Event /\ IsStatus(e) /\ e.n = n + 1 /\ e.active = active'
    BY <1>1, <1>6, EventFacts
  <2>3. queue'[c] = Append(q, e) /\ published' = n + 1
    BY <1>1, <1>3, <1>6, <2>1, <2>2
  <2>4. Consecutive(queue[c], Last(c), published)
    BY DEF Complete
  <2> HIDE DEF r, e
  <2>5. q \in Seq(Event) /\ Consecutive(q, Last(c), n)
    BY <1>1, <2>1, <2>4, ConsecutiveAppend
  <2> HIDE DEF q, n
  <2>6. Consecutive(queue'[c], Last(c), n + 1)
    BY <1>1, <2>2, <2>3, <2>5, ConsecutiveAppend
  <2>7. Tells(queue'[c], Knows(c), active')
    BY <2>2, <2>3, <2>5, TellsStatus
  <2> QED BY <1>2, <2>3, <2>6, <2>7 DEF Complete
<1> QED BY <1>1, <1>4, <1>5, <1>6 DEF Published

(* What a step of one handler leaves alone of another connection. *)
Apart(d) == UNCHANGED <<conn[d], queue[d], taken[d], seen[d], view[d], published, active>>

LEMMA ApartAhead ==
  ASSUME NEW d \in Conn, Apart(d)
  PROVE  Last(d)' = Last(d) /\ Knows(d)' = Knows(d)
BY DEF Apart, Last, Knows

LEMMA HandlersApart ==
  ASSUME TypeOK, NEW c \in Conn, NEW d \in Conn \ {c},
         \/ Accepts(c) \/ Subscribes(c) \/ Serves(c) \/ GreetingFails(c) \/ Disconnects(c)
  PROVE  Apart(d) /\ (d \in dropped => d \in dropped')
BY DEF TypeOK, Apart, service, clients, Receives, Accepts, Subscribes, Serves, Greets,
       Takes, Forwards, GreetingFails, Disconnects

(* Its own connection after a step of a handler. *)
LEMMA HandlerAhead ==
  ASSUME TypeOK, Greeted, Ahead, NEW c \in Conn,
         \/ Accepts(c) \/ Subscribes(c) \/ Serves(c) \/ GreetingFails(c) \/ Disconnects(c),
         c \notin dropped'
  PROVE  /\ conn'[c] \in {"greeting", "serving"} => Complete(c)'
         /\ conn'[c] = "serving" /\ taken'[c] # <<>> => Head(taken'[c]).n = seen'[c] + 1
<1> USE DEF service, clients
<1>1. CASE Accepts(c) \/ GreetingFails(c) \/ Disconnects(c)
  BY <1>1 DEF TypeOK, Accepts, GreetingFails, Disconnects
<1>2. CASE Subscribes(c)
  <2>1. /\ queue'[c] = <<>> /\ taken'[c] = <<CurrentStatus>> /\ conn'[c] = "greeting"
        /\ UNCHANGED <<published, active>>
    BY <1>2 DEF TypeOK, Subscribes
  <2>2. CurrentStatus.n = published /\ Told(CurrentStatus, view'[c]) = active
    BY DEF CurrentStatus, Status, Told, IsStatus
  <2>3. Last(c)' = published /\ Knows(c)' = active
    BY <2>1, <2>2 DEF Last, Knows
  <2>4. Consecutive(<<>>, published, published) /\ Tells(<<>>, active, active)
    BY DEF Consecutive, Tells, TypeOK
  <2> QED BY <2>1, <2>3, <2>4 DEF Complete, TypeOK
<1>3. CASE Greets(c) \/ Forwards(c)
  <2>1. /\ taken[c] # <<>> /\ conn[c] \in {"greeting", "serving"} /\ c \notin dropped
        /\ Receives(c, Head(taken[c])) /\ taken'[c] = <<>>
        /\ UNCHANGED <<queue, published, active>>
    BY <1>3 DEF TypeOK, Greets, Forwards, Greeted
  <2>2. Last(c)' = Last(c) /\ Knows(c)' = Knows(c)
    BY <2>1 DEF Last, Knows, Told, IsStatus, Receives, TypeOK
  <2>3. Complete(c)'
    BY <2>1, <2>2, KeepsComplete DEF Ahead
  <2> QED BY <2>1, <2>3
<1>4. CASE Takes(c)
  <2>1. /\ taken[c] = <<>> /\ conn[c] = "serving" /\ c \notin dropped
        /\ taken'[c] = <<Head(queue[c])>> /\ queue'[c] = Tail(queue[c])
        /\ UNCHANGED <<conn, seen, view, published, active>>
        /\ queue[c] \in Seq(Event) /\ queue[c] # <<>>
        /\ seen[c] \in Nat /\ published \in Nat
    BY <1>4 DEF TypeOK, Takes
  <2>2. Last(c) = seen[c] /\ Knows(c) = view[c]
    BY <2>1 DEF Last, Knows
  <2>3. Consecutive(queue[c], seen[c], published) /\ Tells(queue[c], view[c], active)
    BY <2>1, <2>2 DEF Ahead, Complete
  <2>4. Head(queue[c]).n = seen[c] + 1 /\ Consecutive(Tail(queue[c]), seen[c] + 1, published)
    BY <2>1, <2>3, ConsecutiveTail
  <2>5. Tells(Tail(queue[c]), Told(Head(queue[c]), view[c]), active)
    BY <2>1, <2>3, TellsTail
  <2>6. taken'[c] # <<>> /\ Head(taken'[c]) = Head(queue[c])
    BY <2>1
  <2>7. Last(c)' = seen[c] + 1 /\ Knows(c)' = Told(Head(queue[c]), view[c])
    BY <2>1, <2>4, <2>6 DEF Last, Knows
  <2>8. Head(queue[c]).n \in 0..MaxEvents
    BY <2>1 DEF Event, StatusEvent
  <2> QED BY <2>1, <2>4, <2>5, <2>6, <2>7, <2>8 DEF Complete
<1> QED BY <1>1, <1>2, <1>3, <1>4 DEF Serves

LEMMA StepAhead == TypeOK /\ Greeted /\ Ahead /\ [Next]_vars => Ahead'
<1> SUFFICES ASSUME TypeOK, Greeted, Ahead, [Next]_vars PROVE Ahead'
  OBVIOUS
<1>1. CASE Turns \/ Sends \/ Finishes
  <2>1. PICK events \in Seq(Event) : Published(events)
    BY <1>1, Publishes
  <2>2. Publish(events) /\ UNCHANGED <<conn, taken, clients>>
    BY <2>1 DEF Published, Publish
  <2> SUFFICES ASSUME NEW c \in Conn, c \notin dropped'
               PROVE  /\ conn[c] \in {"greeting", "serving"} => Complete(c)'
                      /\ conn[c] = "serving" /\ taken[c] # <<>>
                           => Head(taken[c]).n = seen[c] + 1
    BY <2>2 DEF Ahead, clients
  <2>3. c \notin dropped
    BY <2>2 DEF Publish
  <2>4. CASE conn[c] \in {"greeting", "serving"}
    <3>1. c \in subscribers /\ queue[c] \in Seq(Event)
      BY <2>4 DEF TypeOK
    <3>2. ~(Len(queue[c] \o events) > QueueMax)
      BY <2>2, <3>1 DEF Publish
    <3>3. queue'[c] = queue[c] \o events
      BY <2>2, <3>1, <3>2 DEF Publish, Reached, Kept
    <3>4. Complete(c)'
      BY <2>1, <2>2, <2>3, <2>4, <3>3, PublishComplete DEF Ahead
    <3> QED BY <2>3, <3>4 DEF Ahead
  <2> QED BY <2>4
<1>2. ASSUME NEW c \in Conn,
             \/ Accepts(c) \/ Subscribes(c) \/ Serves(c) \/ GreetingFails(c) \/ Disconnects(c)
      PROVE  Ahead'
  <2>1. ASSUME NEW d \in Conn \ {c}, d \notin dropped'
        PROVE  /\ conn'[d] \in {"greeting", "serving"} => Complete(d)'
               /\ conn'[d] = "serving" /\ taken'[d] # <<>>
                    => Head(taken'[d]).n = seen'[d] + 1
    <3>1. Apart(d) /\ d \notin dropped
      BY <1>2, <2>1, HandlersApart
    <3>2. Complete(d) => Complete(d)'
      BY <3>1, ApartAhead, KeepsComplete DEF Apart
    <3> QED BY <3>1, <3>2 DEF Ahead, Apart
  <2> QED BY <1>2, <2>1, HandlerAhead DEF Ahead
<1>3. CASE UNCHANGED vars
  BY <1>3 DEF vars, service, clients, Ahead, Complete, Last, Knows
<1> QED BY <1>1, <1>2, <1>3 DEF Next

-------------------------------------------------------------------------------
(* Theorems.                                                               *)

StreamInv == TypeOK /\ Greeted /\ Ahead

LEMMA Invariance == Spec => []StreamInv
<1>1. Init => Ahead
  BY DEF Init, Ahead
<1>2. Init => StreamInv
  BY <1>1, InitTypes DEF StreamInv
<1>3. StreamInv /\ [Next]_vars => StreamInv'
  BY StepTypes, StepGreeted, StepAhead DEF StreamInv
<1> QED BY <1>2, <1>3, PTL DEF Spec

(* The bus, the handlers and the clients have their types, and no queue        *)
(* exceeds its bound, for any number of clients and events.                   *)
THEOREM TypeCorrect == Spec => []TypeOK
<1>1. StreamInv => TypeOK
  BY DEF StreamInv
<1> QED BY <1>1, Invariance, PTL

(* What is ahead of a client whose queue was never full is every event        *)
(* published since the one it reflects, in order: although it subscribes      *)
(* before it is sent the first status, and publish() may run during that send. *)
THEOREM NothingMissedSafe == Spec => []NothingMissed
<1>1. StreamInv => NothingMissed
  <2> SUFFICES ASSUME StreamInv, NEW c \in Conn, conn[c] = "serving", c \notin dropped
               PROVE  LET due == taken[c] \o queue[c]
                      IN /\ Len(due) = published - seen[c]
                         /\ \A i \in 1..Len(due) : due[i].n = seen[c] + i
    BY DEF NothingMissed
  <2>1. /\ Consecutive(queue[c], Last(c), published)
        /\ taken[c] # <<>> => Head(taken[c]).n = seen[c] + 1
    BY DEF StreamInv, Ahead, Complete
  <2>2. /\ queue[c] \in Seq(Event) /\ seen[c] \in Nat /\ published \in Nat
        /\ taken[c] \in {<<>>} \cup {<<e>> : e \in Event}
    BY DEF StreamInv, TypeOK
  <2>3. CASE taken[c] = <<>>
    <3>1. taken[c] \o queue[c] = queue[c] /\ Last(c) = seen[c]
      BY <2>2, <2>3 DEF Last
    <3> QED BY <2>1, <3>1 DEF Consecutive
  <2>4. CASE taken[c] # <<>>
    <3> DEFINE due == taken[c] \o queue[c]
    <3>1. PICK e \in Event : taken[c] = <<e>>
      BY <2>2, <2>4
    <3>2. e.n = seen[c] + 1 /\ Last(c) = seen[c] + 1
      BY <2>1, <3>1 DEF Last
    <3>3. /\ Len(due) = Len(queue[c]) + 1 /\ due[1] = e
          /\ \A i \in 2..Len(due) : i - 1 \in 1..Len(queue[c]) /\ due[i] = queue[c][i - 1]
      BY <2>2, <3>1
    <3> HIDE DEF due
    <3>4. Len(due) = published - seen[c]
      BY <2>1, <2>2, <3>2, <3>3 DEF Consecutive
    <3>5. ASSUME NEW i \in 1..Len(due) PROVE due[i].n = seen[c] + i
      <4>1. CASE i = 1
        BY <3>2, <3>3, <4>1
      <4>2. CASE i # 1
        <5>1. i \in 2..Len(due) /\ i \in Nat
          BY <2>2, <3>3, <4>2
        <5>2. due[i].n = (seen[c] + 1) + (i - 1)
          BY <2>1, <3>2, <3>3, <5>1 DEF Consecutive
        <5> QED BY <2>2, <5>1, <5>2
      <4> QED BY <4>1, <4>2
    <3> QED BY <3>4, <3>5 DEF due
  <2> QED BY <2>3, <2>4
<1> QED BY <1>1, Invariance, PTL

(* A client that has received all there is for it knows the active schedule,   *)
(* unless its queue was full.                                                 *)
THEOREM ViewTruthfulSafe == Spec => []ViewTruthful
<1>1. StreamInv => ViewTruthful
  <2> SUFFICES ASSUME StreamInv, NEW c \in Conn, CaughtUp(c), c \notin dropped
               PROVE  view[c] = active
    BY DEF ViewTruthful
  <2>1. queue[c] \in Seq(Event) /\ taken[c] \in {<<>>} \cup {<<e>> : e \in Event}
    BY DEF StreamInv, TypeOK
  <2>2. taken[c] = <<>> /\ queue[c] = <<>>
    BY <2>1 DEF CaughtUp
  <2>3. Tells(<<>>, view[c], active)
    BY <2>2 DEF StreamInv, Ahead, Complete, CaughtUp, Knows
  <2> QED BY <2>3 DEF Tells
<1> QED BY <1>1, Invariance, PTL
-------------------------------------------------------------------------------
(* The stream implements LiveFeed.                                         *)

LEMMA TurnedFacts ==
  ASSUME NEW q \in Seq(StatusEvent)
  PROVE  /\ Turned(q) \in Seq(Schedule \cup {NoSchedule}) /\ Len(Turned(q)) = Len(q)
         /\ \A e \in StatusEvent : /\ Turned(Append(q, e)) = Append(Turned(q), e.active)
                                   /\ Turned(<<e>> \o q) # <<>>
                                   /\ Tail(Turned(<<e>> \o q)) = Turned(q)
<1> DEFINE S == Schedule \cup {NoSchedule}
<1>1. Len(q) \in Nat /\ \A i \in 1..Len(q) : q[i].active \in S
  <2>1. \A e \in StatusEvent : e.active \in S
    BY DEF StatusEvent
  <2>2. Len(q) \in Nat /\ \A i \in 1..Len(q) : q[i] \in StatusEvent
    OBVIOUS
  <2> QED BY <2>1, <2>2
<1>2. Turned(q) \in Seq(S) /\ Len(Turned(q)) = Len(q)
  BY <1>1 DEF Turned
<1> SUFFICES ASSUME NEW e \in StatusEvent
             PROVE  /\ Turned(Append(q, e)) = Append(Turned(q), e.active)
                    /\ Turned(<<e>> \o q) # <<>>
                    /\ Tail(Turned(<<e>> \o q)) = Turned(q)
  BY <1>2
<1>3. e.active \in S
  BY DEF StatusEvent
<1>4. Turned(Append(q, e)) = Append(Turned(q), e.active)
  <2> DEFINE a == Append(q, e)
             t == Turned(a)
             u == Append(Turned(q), e.active)
  <2>1. /\ Len(a) = Len(q) + 1 /\ a[Len(q) + 1] = e
        /\ \A i \in 1..Len(q) : a[i] = q[i]
    OBVIOUS
  <2>2. /\ u \in Seq(S) /\ Len(u) = Len(q) + 1 /\ u[Len(q) + 1] = e.active
        /\ \A i \in 1..Len(q) : u[i] = Turned(q)[i]
    BY <1>2, <1>3
  <2>3. \A i \in 1..Len(q) : Turned(q)[i] = q[i].active
    BY DEF Turned
  <2> HIDE DEF a, u
  <2>4. /\ t \in Seq(S) /\ Len(t) = Len(q) + 1
        /\ \A i \in 1..Len(q) + 1 : t[i] = a[i].active
    BY <1>1, <1>3, <2>1 DEF Turned
  <2>5. \A i \in 1..Len(t) : t[i] = u[i]
    BY <1>1, <2>1, <2>2, <2>3, <2>4
  <2> HIDE DEF t
  <2>6. t = u
    BY <2>2, <2>4, <2>5, SeqEqual
  <2> QED BY <2>6 DEF t, u, a
<1>5. Turned(<<e>> \o q) # <<>> /\ Tail(Turned(<<e>> \o q)) = Turned(q)
  <2> DEFINE a == <<e>> \o q
             t == Turned(a)
             u == Tail(t)
  <2>1. /\ Len(a) = Len(q) + 1 /\ a[1] = e
        /\ \A i \in 1..Len(q) : a[i + 1] = q[i]
    OBVIOUS
  <2>2. \A i \in 1..Len(q) : Turned(q)[i] = q[i].active
    BY DEF Turned
  <2> HIDE DEF a
  <2>3. /\ t \in Seq(S) /\ Len(t) = Len(q) + 1
        /\ \A i \in 1..Len(q) + 1 : t[i] = a[i].active
    <3>1. \A i \in 1..Len(q) + 1 : a[i].active \in S
      <4>1. \A i \in 1..Len(q) + 1 : i = 1 \/ (i - 1 \in 1..Len(q) /\ (i - 1) + 1 = i)
        BY <1>1
      <4> QED BY <1>1, <1>3, <2>1, <4>1
    <3> QED BY <1>1, <2>1, <3>1 DEF Turned
  <2> HIDE DEF t
  <2>4. /\ t # <<>> /\ u \in Seq(S) /\ Len(u) = Len(q)
        /\ \A i \in 1..Len(q) : u[i] = t[i + 1]
    BY <1>1, <2>3
  <2>5. \A i \in 1..Len(q) : i + 1 \in 1..Len(q) + 1
    BY <1>1
  <2>6. \A i \in 1..Len(u) : u[i] = Turned(q)[i]
    BY <2>1, <2>2, <2>3, <2>4, <2>5
  <2> HIDE DEF u
  <2>7. u = Turned(q)
    BY <1>2, <2>4, <2>6, SeqEqual
  <2> QED BY <2>4, <2>7 DEF u, t, a
<1> QED BY <1>4, <1>5

(* What a queue keeps of one event put, and of two. *)
LEMMA KeptOne ==
  ASSUME NEW q \in Seq(Event), Len(q) <= QueueMax, NEW e \in Event
  PROVE  Kept(Append(q, e)) = IF Len(q) < QueueMax THEN Append(q, e) ELSE q
<1> DEFINE a == Append(q, e)
           k == SubSeq(a, 1, QueueMax)
<1>1. /\ Len(q) \in Nat /\ QueueMax \in Nat
      /\ a \in Seq(Event) /\ Len(a) = Len(q) + 1 /\ \A i \in 1..Len(q) : a[i] = q[i]
  BY StreamAssumption
<1> HIDE DEF a
<1>2. CASE Len(q) < QueueMax
  BY <1>1, <1>2 DEF Kept, a
<1>3. CASE ~(Len(q) < QueueMax)
  <2>1. Len(q) = QueueMax /\ Len(a) > QueueMax
    BY <1>1, <1>3
  <2>2. k \in Seq(Event) /\ Len(k) = QueueMax /\ \A i \in 1..QueueMax : k[i] = a[i]
    BY <1>1, <2>1
  <2> HIDE DEF k
  <2>3. k = q
    <3>1. \A i \in 1..Len(k) : k[i] = q[i]
      BY <1>1, <2>1, <2>2
    <3> QED BY <2>1, <2>2, <3>1, SeqEqual
  <2> QED BY <1>3, <2>1, <2>3 DEF Kept, k, a
<1> QED BY <1>2, <1>3

LEMMA KeptTwo ==
  ASSUME NEW q \in Seq(Event), Len(q) <= QueueMax, NEW d \in Event, NEW e \in Event
  PROVE  Kept(q \o <<d, e>>) = IF Len(q) + 2 <= QueueMax THEN Append(Append(q, d), e)
                               ELSE Kept(Append(q, d))
<1> DEFINE b == Append(q, d)
           a == q \o <<d, e>>
           k == SubSeq(a, 1, QueueMax)
           l == SubSeq(b, 1, QueueMax)
<1>1. /\ Len(q) \in Nat /\ QueueMax \in Nat
      /\ b \in Seq(Event) /\ Len(b) = Len(q) + 1
      /\ a = Append(b, e) /\ a \in Seq(Event) /\ Len(a) = Len(b) + 1
      /\ \A i \in 1..Len(b) : a[i] = b[i]
  BY StreamAssumption
<1> HIDE DEF a, b
<1>2. CASE Len(q) + 2 <= QueueMax
  BY <1>1, <1>2 DEF Kept, a, b
<1>3. CASE ~(Len(q) + 2 <= QueueMax)
  <2>1. /\ Len(a) > QueueMax /\ QueueMax <= Len(b) /\ QueueMax + 1 <= Len(a)
        /\ Kept(a) = k
    BY <1>1, <1>3 DEF Kept
  <2>2. k \in Seq(Event) /\ Len(k) = QueueMax /\ \A i \in 1..QueueMax : k[i] = a[i]
    BY <1>1, <2>1
  <2>3. l \in Seq(Event) /\ Len(l) = QueueMax /\ \A i \in 1..QueueMax : l[i] = b[i]
    BY <1>1, <2>1
  <2>4. k = l
    <3> HIDE DEF k, l
    <3>1. \A i \in 1..Len(k) : k[i] = l[i]
      BY <1>1, <2>1, <2>2, <2>3
    <3> QED BY <2>2, <2>3, <3>1, SeqEqual
  <2>5. Kept(b) = l
    <3>1. CASE Len(b) > QueueMax
      BY <3>1 DEF Kept
    <3>2. CASE ~(Len(b) > QueueMax)
      <4>1. Len(b) = QueueMax /\ Kept(b) = b
        BY <1>1, <2>1, <3>2 DEF Kept
      <4> HIDE DEF l
      <4>2. \A i \in 1..Len(l) : l[i] = b[i]
        BY <2>3
      <4> QED BY <1>1, <2>3, <4>1, <4>2, SeqEqual
    <3> QED BY <3>1, <3>2
  <2> QED BY <1>3, <2>1, <2>4, <2>5 DEF a, b
<1> QED BY <1>2, <1>3

(* The statuses a client is still to receive. *)
Coming(c) == Only(taken[c] \o queue[c], StatusEvent)

LEMMA ComingTypes ==
  ASSUME TypeOK, NEW c \in Conn
  PROVE  /\ taken[c] \in Seq(Event) /\ queue[c] \in Seq(Event)
         /\ Coming(c) \in Seq(StatusEvent) /\ Len(Coming(c)) \in Nat
         /\ Len(queue[c]) < QueueMax => Len(Coming(c)) < QueueMax + 1
<1>1. /\ taken[c] \in Seq(Event) /\ queue[c] \in Seq(Event) /\ Len(taken[c]) <= 1
  <2>1. taken[c] \in {<<>>} \cup {<<e>> : e \in Event} /\ queue[c] \in Seq(Event)
    BY DEF TypeOK
  <2>2. CASE taken[c] = <<>>
    BY <2>1, <2>2
  <2>3. ASSUME NEW e \in Event, taken[c] = <<e>>
        PROVE  taken[c] \in Seq(Event) /\ Len(taken[c]) <= 1
    BY <2>3
  <2> QED BY <2>1, <2>2, <2>3
<1> DEFINE q == taken[c] \o queue[c]
<1>2. /\ q \in Seq(Event) /\ Len(q) = Len(taken[c]) + Len(queue[c])
      /\ Len(taken[c]) \in Nat /\ Len(queue[c]) \in Nat
  BY <1>1
<1> HIDE DEF q
<1>3. Only(q, StatusEvent) \in Seq(StatusEvent \cap Event) /\ Len(Only(q, StatusEvent)) <= Len(q)
  BY <1>2, OnlyFacts
<1>4. StatusEvent \cap Event = StatusEvent
  BY DEF Event
<1>5. Coming(c) \in Seq(StatusEvent) /\ Len(Coming(c)) <= Len(q) /\ Len(Coming(c)) \in Nat
  <2>1. Coming(c) = Only(q, StatusEvent)
    BY DEF Coming, q
  <2>2. Coming(c) \in Seq(StatusEvent) /\ Len(Coming(c)) <= Len(q)
    BY <1>3, <1>4, <2>1
  <2> QED BY <2>2
<1>6. QueueMax \in Nat
  BY StreamAssumption
<1>7. ASSUME Len(queue[c]) < QueueMax PROVE Len(Coming(c)) < QueueMax + 1
  <2> DEFINE x == Len(taken[c])
             y == Len(queue[c])
             z == Len(Coming(c))
  <2>1. x \in Nat /\ y \in Nat /\ z \in Nat /\ x <= 1 /\ y < QueueMax /\ z <= x + y
    BY <1>1, <1>2, <1>5, <1>7
  <2> HIDE DEF x, y, z
  <2>2. z < QueueMax + 1
    BY <1>6, <2>1
  <2> QED BY <2>2 DEF z
<1> QED BY <1>1, <1>5, <1>7

(* One event more in a queue. *)
LEMMA ComingAppend ==
  ASSUME NEW t \in Seq(Event), NEW q \in Seq(Event), NEW e \in Event
  PROVE  Only(t \o Append(q, e), StatusEvent) =
           IF e \in StatusEvent THEN Append(Only(t \o q, StatusEvent), e)
           ELSE Only(t \o q, StatusEvent)
<1>1. t \o q \in Seq(Event) /\ t \o Append(q, e) = Append(t \o q, e)
  OBVIOUS
<1> QED BY <1>1, OnlyAppend
(* Publishing one event, and publishing a cycle's results with a status. *)
LEMMA ComingAfterOne ==
  ASSUME TypeOK, NEW c \in subscribers, NEW e \in Event, Publish(<<e>>)
  PROVE  Coming(c)' = IF Len(queue[c] \o <<e>>) > QueueMax \/ e \notin StatusEvent
                      THEN Coming(c) ELSE Append(Coming(c), e)
<1> DEFINE q == queue[c]
           t == taken[c]
<1>1. c \in Conn /\ t \in Seq(Event) /\ q \in Seq(Event) /\ Len(q) <= QueueMax
  BY ComingTypes DEF TypeOK
<1>2. /\ q \o <<e>> = Append(q, e) /\ Len(q \o <<e>>) = Len(q) + 1
      /\ Len(q) \in Nat /\ QueueMax \in Nat
  BY <1>1, StreamAssumption
<1>3. queue'[c] = Kept(q \o <<e>>) /\ taken'[c] = t
  BY <1>1 DEF Publish, Reached
<1>4. Coming(c)' = Only(t \o Kept(q \o <<e>>), StatusEvent) /\ Coming(c) = Only(t \o q, StatusEvent)
  BY <1>3 DEF Coming
<1> HIDE DEF q, t
<1>5. queue[c] = q
  BY DEF q
<1>6. Kept(q \o <<e>>) = IF Len(q) < QueueMax THEN Append(q, e) ELSE q
  BY <1>1, <1>2, KeptOne
<1>7. Only(t \o Append(q, e), StatusEvent) =
        IF e \in StatusEvent THEN Append(Only(t \o q, StatusEvent), e) ELSE Only(t \o q, StatusEvent)
  BY <1>1, ComingAppend
<1>8. CASE Len(q) < QueueMax
  <2>1. ~(Len(queue[c] \o <<e>>) > QueueMax)
    BY <1>2, <1>5, <1>8
  <2>2. Kept(q \o <<e>>) = Append(q, e)
    BY <1>6, <1>8
  <2> QED BY <1>4, <1>7, <2>1, <2>2
<1>9. CASE ~(Len(q) < QueueMax)
  <2>1. Len(queue[c] \o <<e>>) > QueueMax
    BY <1>2, <1>5, <1>9
  <2>2. Kept(q \o <<e>>) = q
    BY <1>6, <1>9
  <2> QED BY <1>4, <2>1, <2>2
<1> QED BY <1>8, <1>9

LEMMA ComingAfterTwo ==
  ASSUME TypeOK, NEW c \in subscribers, NEW d \in Event \ StatusEvent,
         NEW e \in Event \cap StatusEvent, Publish(<<d, e>>)
  PROVE  Coming(c)' = IF Len(queue[c] \o <<d, e>>) > QueueMax
                      THEN Coming(c) ELSE Append(Coming(c), e)
<1> DEFINE q == queue[c]
           t == taken[c]
           b == Append(q, d)
<1>1. c \in Conn /\ t \in Seq(Event) /\ q \in Seq(Event) /\ Len(q) <= QueueMax
  BY ComingTypes DEF TypeOK
<1>2. /\ Len(q \o <<d, e>>) = Len(q) + 2 /\ b \in Seq(Event)
      /\ Len(q) \in Nat /\ QueueMax \in Nat
  BY <1>1, StreamAssumption
<1>3. queue'[c] = Kept(q \o <<d, e>>) /\ taken'[c] = t
  BY <1>1 DEF Publish, Reached
<1>4. /\ Coming(c)' = Only(t \o Kept(q \o <<d, e>>), StatusEvent)
      /\ Coming(c) = Only(t \o q, StatusEvent)
  BY <1>3 DEF Coming
<1> HIDE DEF q, t
<1>5. queue[c] = q
  BY DEF q
<1>6. Kept(q \o <<d, e>>) = IF Len(q) + 2 <= QueueMax THEN Append(b, e) ELSE Kept(b)
  BY <1>1, KeptTwo
<1>7. Kept(b) = IF Len(q) < QueueMax THEN b ELSE q
  BY <1>1, KeptOne
<1>8. Only(t \o b, StatusEvent) = Only(t \o q, StatusEvent)
  BY <1>1, ComingAppend
<1> HIDE DEF b
<1>9. Only(t \o Append(b, e), StatusEvent) = Append(Only(t \o b, StatusEvent), e)
  BY <1>1, <1>2, ComingAppend
<1>10. CASE Len(q) + 2 <= QueueMax
  <2>1. ~(Len(queue[c] \o <<d, e>>) > QueueMax)
    BY <1>2, <1>5, <1>10
  <2>2. Kept(q \o <<d, e>>) = Append(b, e)
    BY <1>6, <1>10
  <2> QED BY <1>4, <1>8, <1>9, <2>1, <2>2
<1>11. CASE ~(Len(q) + 2 <= QueueMax)
  <2>1. Len(queue[c] \o <<d, e>>) > QueueMax
    BY <1>2, <1>5, <1>11
  <2>2. Kept(q \o <<d, e>>) \in {b, q}
    BY <1>6, <1>7, <1>11
  <2> QED BY <1>4, <1>8, <2>1, <2>2
<1> QED BY <1>10, <1>11

LEMMA DueIs ==
  /\ DOMAIN Due = Conn
  /\ \A c \in Conn : Due[c] = IF c \in Linked THEN Turned(Coming(c)) ELSE <<>>
BY DEF Due, Coming

LEMMA DueNext ==
  /\ Due' = [c \in Conn |-> Due'[c]]
  /\ \A c \in Conn : Due'[c] = IF c \in Linked' THEN Turned(Coming(c)') ELSE <<>>
BY DEF Due, Coming, Turned

LEMMA LinkedTypes == TypeOK => Linked \subseteq subscribers /\ Linked \subseteq Conn
BY DEF TypeOK, Linked

(* A status that is published is a turn, missed by the clients whose queues     *)
(* have no room for the events published with it.                             *)
LEMMA TurnImplements ==
  ASSUME TypeOK, NEW events \in Seq(Event), events # <<>>, Publish(events),
         NEW e \in StatusEvent, e.active = active',
         active' \in IF active = NoSchedule THEN Schedule ELSE {NoSchedule},
         \A c \in subscribers :
           Coming(c)' = IF Len(queue[c] \o events) > QueueMax
                        THEN Coming(c) ELSE Append(Coming(c), e)
  PROVE  Feed!Turn
<1> DEFINE lost == {c \in Linked : Len(queue[c] \o events) > QueueMax}
<1>1. Linked \subseteq subscribers /\ Linked \subseteq Conn /\ Linked' = Linked
  BY LinkedTypes DEF Publish, Linked
<1>2. Feed!Full \subseteq lost
  <2> SUFFICES ASSUME NEW c \in Linked, Len(Due[c]) >= QueueMax + 1
               PROVE  Len(queue[c] \o events) > QueueMax
    BY DEF Feed!Full
  <2>1. c \in Conn /\ Due[c] = Turned(Coming(c))
    BY <1>1, DueIs
  <2>2. /\ Len(Due[c]) = Len(Coming(c)) /\ Len(Coming(c)) \in Nat
        /\ queue[c] \in Seq(Event)
        /\ Len(queue[c]) < QueueMax => Len(Coming(c)) < QueueMax + 1
    BY <2>1, ComingTypes, TurnedFacts
  <2>3. /\ Len(queue[c] \o events) = Len(queue[c]) + Len(events)
        /\ Len(queue[c]) \in Nat /\ Len(events) \in Nat /\ Len(events) # 0
    BY <2>2
  <2>4. QueueMax \in Nat
    BY StreamAssumption
  <2> QED BY <2>2, <2>3, <2>4
<1>3. (dropped \cap Linked)' = (dropped \cap Linked) \cup lost
  BY <1>1 DEF Publish
<1>4. Due' = [c \in Conn |-> IF c \in Linked \ lost THEN Append(Due[c], active') ELSE Due[c]]
  <2>1. ASSUME NEW c \in Conn
        PROVE  Due'[c] = IF c \in Linked \ lost THEN Append(Due[c], active') ELSE Due[c]
    <3>1. CASE c \notin Linked
      BY <1>1, <3>1, DueIs, DueNext
    <3>2. CASE c \in Linked
      <4>1. Coming(c)' = IF c \in lost THEN Coming(c) ELSE Append(Coming(c), e)
        BY <1>1, <3>2
      <4>2. Due[c] = Turned(Coming(c)) /\ Due'[c] = Turned(Coming(c)')
        BY <1>1, <3>2, DueIs, DueNext
      <4>3. Turned(Append(Coming(c), e)) = Append(Turned(Coming(c)), active')
        BY ComingTypes, TurnedFacts
      <4> QED BY <3>2, <4>1, <4>2, <4>3
    <3> QED BY <3>1, <3>2
  <2> HIDE DEF lost
  <2> QED BY <2>1, DueNext
<1>5. lost \in SUBSET Linked
  OBVIOUS
<1> HIDE DEF lost
<1> QED BY <1>1, <1>2, <1>3, <1>4, <1>5 DEF Feed!Turn, Feed!Tells

(* Any other step of the service is, to the clients, results they may miss. *)
LEMMA SendImplements ==
  ASSUME TypeOK, NEW e \in Event \ StatusEvent, Publish(<<e>>), UNCHANGED active
  PROVE  Feed!Misses
<1>1. Linked \subseteq subscribers /\ Linked \subseteq Conn /\ Linked' = Linked
  BY LinkedTypes DEF Publish, Linked
<1>2. /\ (dropped \cap Linked)' \in SUBSET Linked
      /\ (dropped \cap Linked) \subseteq (dropped \cap Linked)'
  BY <1>1 DEF Publish
<1>3. ASSUME NEW c \in Conn PROVE Due'[c] = Due[c]
  <2>1. c \in Linked => Coming(c)' = Coming(c)
    BY <1>1, ComingAfterOne
  <2> QED BY <1>1, <2>1, DueIs, DueNext
<1>4. Due' = Due
  <2>1. Due = [c \in Conn |-> Due[c]]
    BY DEF Due
  <2> QED BY <1>3, <2>1, DueNext
<1> QED BY <1>1, <1>2, <1>4 DEF Feed!Misses

LEMMA ServiceImplements ==
  ASSUME TypeOK, Turns \/ Sends \/ Finishes
  PROVE  Feed!Next
<1>1. Service!Next
  BY DEF Turns, Sends, Finishes, Service!Next
<1>2. ServiceTypes'
  BY <1>1, ServiceStepTypes DEF TypeOK, ServiceTypes
<1>3. /\ published \in Nat /\ MaxEvents \in Nat
      /\ active \in Schedule \cup {NoSchedule} /\ active' \in Schedule \cup {NoSchedule}
  BY <1>2, StreamAssumption DEF TypeOK, ServiceTypes
<1>4. CASE Turns
  <2> DEFINE e == Status(published + 1, active')
  <2>1. active' \in IF active = NoSchedule THEN Schedule ELSE {NoSchedule}
    BY <1>4 DEF Turns, Service!Halt, Service!Start
  <2>2. Publish(<<e>>) /\ published + 1 \in 0..MaxEvents
    <3>1. Len(<<e>>) = 1
      OBVIOUS
    <3> QED BY <1>3, <1>4, <3>1 DEF Turns, Publish
  <2>3. e \in Event \cap StatusEvent /\ e.active = active'
    BY <1>3, <2>2, EventFacts
  <2> HIDE DEF e
  <2>4. /\ <<e>> \in Seq(Event) /\ <<e>> # <<>>
        /\ \A c \in subscribers :
             Coming(c)' = IF Len(queue[c] \o <<e>>) > QueueMax
                          THEN Coming(c) ELSE Append(Coming(c), e)
    BY <2>2, <2>3, ComingAfterOne
  <2>5. Feed!Turn
    BY <2>1, <2>2, <2>3, <2>4, TurnImplements
  <2> QED BY <2>5 DEF Feed!Next
<1>5. CASE Sends
  <2> DEFINE e == Result(published + 1)
  <2>1. Publish(<<e>>) /\ published + 1 \in 0..MaxEvents
    <3>1. Len(<<e>>) = 1
      OBVIOUS
    <3> QED BY <1>3, <1>5, <3>1 DEF Sends, Publish
  <2>2. e \in Event \ StatusEvent
    BY <2>1, EventFacts
  <2>3. UNCHANGED active
    BY <1>5 DEF Sends, Service!Send
  <2> HIDE DEF e
  <2>4. Feed!Misses
    BY <2>1, <2>2, <2>3, SendImplements
  <2> QED BY <2>4 DEF Feed!Next
<1>6. CASE Finishes
  <2> DEFINE d == Result(published + 1)
             e == Status(published + 2, active')
  <2>1. active' \in IF active = NoSchedule THEN Schedule ELSE {NoSchedule}
    BY <1>6 DEF Finishes, Service!Finish
  <2>2. /\ Publish(<<d, e>>)
        /\ published + 1 \in 0..MaxEvents /\ published + 2 \in 0..MaxEvents
    <3>1. Len(<<d, e>>) = 2
      OBVIOUS
    <3> QED BY <1>3, <1>6, <3>1 DEF Finishes, Publish
  <2>3. d \in Event \ StatusEvent /\ e \in Event \cap StatusEvent /\ e.active = active'
    BY <1>3, <2>2, EventFacts
  <2> HIDE DEF d, e
  <2>4. /\ <<d, e>> \in Seq(Event) /\ <<d, e>> # <<>>
        /\ \A c \in subscribers :
             Coming(c)' = IF Len(queue[c] \o <<d, e>>) > QueueMax
                          THEN Coming(c) ELSE Append(Coming(c), e)
    BY <2>2, <2>3, ComingAfterTwo
  <2>5. Feed!Turn
    BY <2>1, <2>2, <2>3, <2>4, TurnImplements
  <2> QED BY <2>5 DEF Feed!Next
<1> QED BY <1>4, <1>5, <1>6
(* A step of a handler, seen from its client: another connection is due what   *)
(* it was due.                                                               *)
LEMMA OthersDue ==
  ASSUME TypeOK, NEW c \in Conn,
         \/ Accepts(c) \/ Subscribes(c) \/ Serves(c) \/ GreetingFails(c) \/ Disconnects(c)
  PROVE  /\ \A d \in Conn \ {c} : /\ d \in Linked' <=> d \in Linked
                                  /\ Due'[d] = Due[d] /\ (d \in dropped' <=> d \in dropped)
         /\ Due' = [Due EXCEPT ![c] = Due'[c]]
         /\ c \notin dropped => dropped' = dropped
<1>1. ASSUME NEW d \in Conn \ {c}
      PROVE  /\ d \in Linked' <=> d \in Linked
             /\ Due'[d] = Due[d] /\ (d \in dropped' <=> d \in dropped)
  <2>1. Apart(d)
    BY HandlersApart
  <2>2. /\ d \in Linked' <=> d \in Linked
        /\ Coming(d)' = Coming(d)
    BY <2>1 DEF Apart, Linked, Coming
  <2>3. d \in dropped' <=> d \in dropped
    BY DEF Receives, Accepts, Subscribes, Serves, Greets, Takes, Forwards, GreetingFails,
           Disconnects
  <2> QED BY <2>2, <2>3, DueIs, DueNext
<1>2. Due' = [Due EXCEPT ![c] = Due'[c]]
  <2>1. Due = [d \in Conn |-> Due[d]]
    BY DEF Due
  <2> QED BY <1>1, <2>1, DueNext
<1>3. c \notin dropped => dropped' = dropped
  BY DEF Receives, Accepts, Subscribes, Serves, Greets, Takes, Forwards, GreetingFails,
         Disconnects
<1> QED BY <1>1, <1>2, <1>3

(* What is due to c first. *)
LEMMA DueFirst ==
  ASSUME TypeOK, NEW c \in Linked, NEW e \in Event, taken[c] = <<e>>
  PROVE  IF e \in StatusEvent
         THEN Due[c] # <<>> /\ Tail(Due[c]) = Turned(Only(queue[c], StatusEvent))
         ELSE Due[c] = Turned(Only(queue[c], StatusEvent))
<1> DEFINE o == Only(queue[c], StatusEvent)
<1>1. c \in Conn /\ queue[c] \in Seq(Event)
  BY LinkedTypes, ComingTypes
<1>2. Coming(c) = IF e \in StatusEvent THEN <<e>> \o o ELSE o
  BY <1>1, OnlyPrepend DEF Coming
<1>3. Due[c] = Turned(Coming(c))
  BY <1>1, DueIs
<1>4. o \in Seq(StatusEvent)
  <2>1. StatusEvent \cap Event = StatusEvent
    BY DEF Event
  <2> QED BY <1>1, <2>1, OnlyFacts
<1> HIDE DEF o
<1>5. CASE e \in StatusEvent
  <2>1. Turned(<<e>> \o o) # <<>> /\ Tail(Turned(<<e>> \o o)) = Turned(o)
    BY <1>4, <1>5, TurnedFacts
  <2> QED BY <1>2, <1>3, <1>5, <2>1 DEF o
<1>6. CASE e \notin StatusEvent
  BY <1>2, <1>3, <1>6 DEF o
<1> QED BY <1>5, <1>6

LEMMA HandlerImplements ==
  ASSUME TypeOK, Greeted, NEW c \in Conn,
         \/ Accepts(c) \/ Subscribes(c) \/ Serves(c) \/ GreetingFails(c) \/ Disconnects(c)
  PROVE  [Feed!Next]_(Feed!fvars)
<1> DEFINE gaps == dropped \cap Linked
<1>1. /\ \A d \in Conn \ {c} : /\ d \in Linked' <=> d \in Linked
                               /\ Due'[d] = Due[d] /\ (d \in dropped' <=> d \in dropped)
      /\ Due' = [Due EXCEPT ![c] = Due'[c]]
      /\ c \notin dropped => dropped' = dropped
  BY OthersDue
<1>2. /\ Linked \subseteq Conn /\ Linked' \subseteq Conn /\ Due = [d \in Conn |-> Due[d]]
      /\ dropped \subseteq Conn /\ dropped \subseteq subscribers
  BY DEF Linked, Due, TypeOK
<1>3. UNCHANGED active
  BY DEF service, Accepts, Subscribes, Serves, Greets, Takes, Forwards, GreetingFails,
         Disconnects
(* Nothing changes for the client. *)
<1>4. ASSUME c \in Linked' <=> c \in Linked, Due'[c] = Due[c], UNCHANGED dropped
      PROVE  UNCHANGED Feed!fvars
  <2>1. Linked' = Linked /\ Due' = Due
    BY <1>1, <1>2, <1>4
  <2> QED BY <1>3, <1>4, <2>1 DEF Feed!fvars
(* It receives a status. *)
<1>5. ASSUME c \in Linked' <=> c \in Linked, Due[c] # <<>>, Due'[c] = Tail(Due[c]),
             UNCHANGED dropped
      PROVE  Feed!Next
  <2>1. Linked' = Linked /\ Due' = [Due EXCEPT ![c] = Tail(Due[c])]
    BY <1>1, <1>2, <1>5
  <2>2. Feed!Receives(c)
    BY <1>3, <1>5, <2>1 DEF Feed!Receives
  <2> QED BY <2>2 DEF Feed!Next
(* It leaves. *)
<1>6. ASSUME c \in Linked, c \notin Linked', \/ UNCHANGED dropped
                                            \/ dropped' = dropped \ {c}
      PROVE  Feed!Next
  <2>1. Linked' = Linked \ {c} /\ gaps' = gaps \ {c}
    BY <1>1, <1>2, <1>6
  <2>2. Due' = [Due EXCEPT ![c] = <<>>]
    BY <1>1, <1>6, DueNext
  <2>3. Feed!Leaves(c)
    BY <1>3, <1>6, <2>1, <2>2 DEF Feed!Leaves
  <2> QED BY <2>3 DEF Feed!Next
<1> HIDE DEF gaps
<1>7. CASE Accepts(c)
  <2>1. c \notin Linked /\ c \notin Linked' /\ UNCHANGED dropped
    BY <1>7 DEF Accepts, Linked, TypeOK
  <2> QED BY <1>4, <2>1, DueIs, DueNext
<1>8. CASE Subscribes(c)
  <2>1. /\ c \notin Linked /\ c \in Linked' /\ UNCHANGED dropped /\ c \notin dropped
        /\ taken'[c] = <<CurrentStatus>> /\ queue'[c] = <<>>
    BY <1>8 DEF Subscribes, Linked, TypeOK
  <2>2. CurrentStatus \in Event \cap StatusEvent /\ CurrentStatus.active = active
    BY EventFacts DEF CurrentStatus, TypeOK
  <2>3. Coming(c)' = Only(<<CurrentStatus>> \o <<>>, StatusEvent)
    BY <2>1 DEF Coming
  <2> DEFINE e == CurrentStatus
  <2>4. e \in Event \cap StatusEvent /\ e.active = active
    BY <2>2
  <2> HIDE DEF e
  <2>5. Only(<<e>> \o <<>>, StatusEvent) = <<e>>
    <3>1. <<>> \in Seq(Event) /\ <<e>> \o <<>> = <<e>>
      BY <2>4
    <3>2. Only(<<e>> \o <<>>, StatusEvent) = <<e>> \o Only(<<>>, StatusEvent)
      BY <2>4, <3>1, OnlyPrepend
    <3> QED BY <3>1, <3>2, OnlyEmpty
  <2>6. Turned(<<e>>) = <<active>>
    BY <2>4 DEF Turned
  <2>7. Due'[c] = <<active>>
    BY <2>1, <2>3, <2>5, <2>6, DueNext DEF e
  <2>8. Linked' = Linked \cup {c} /\ (dropped \cap Linked)' = dropped \cap Linked
    BY <1>1, <1>2, <2>1
  <2>9. Feed!Joins(c)
    BY <1>1, <1>3, <2>1, <2>7, <2>8 DEF Feed!Joins
  <2> QED BY <2>9 DEF Feed!Next
<1>9. CASE Greets(c) \/ Forwards(c)
  <2>1. /\ c \in Linked /\ c \in Linked' /\ UNCHANGED dropped
        /\ taken[c] # <<>> /\ taken'[c] = <<>> /\ UNCHANGED queue
    BY <1>9 DEF Greets, Forwards, Greeted, Linked, TypeOK
  <2>2. PICK e \in Event : taken[c] = <<e>>
    BY <2>1 DEF TypeOK
  <2>3. Due'[c] = Turned(Only(queue[c], StatusEvent))
    <3>1. queue[c] \in Seq(Event)
      BY DEF TypeOK
    <3>2. Coming(c)' = Only(queue[c], StatusEvent)
      BY <2>1, <3>1 DEF Coming
    <3> QED BY <2>1, <3>2, DueNext
  <2> QED BY <1>4, <1>5, <2>1, <2>2, <2>3, DueFirst
<1>10. CASE Takes(c)
  <2>1. /\ c \in Linked /\ c \in Linked' /\ UNCHANGED dropped
        /\ taken[c] = <<>> /\ taken'[c] = <<Head(queue[c])>> /\ queue'[c] = Tail(queue[c])
        /\ queue[c] \in Seq(Event) /\ queue[c] # <<>>
    BY <1>10 DEF Takes, Linked, TypeOK
  <2>2. <<Head(queue[c])>> \o Tail(queue[c]) = queue[c] /\ <<>> \o queue[c] = queue[c]
    BY <2>1
  <2>3. Coming(c)' = Coming(c)
    BY <2>1, <2>2 DEF Coming
  <2> QED BY <1>4, <2>1, <2>3, DueIs, DueNext
<1>11. CASE GreetingFails(c) \/ Disconnects(c)
  <2>1. c \in Linked /\ c \notin Linked' /\ (UNCHANGED dropped \/ dropped' = dropped \ {c})
    BY <1>11 DEF GreetingFails, Disconnects, Linked, TypeOK
  <2> QED BY <1>6, <2>1
<1> QED BY <1>7, <1>8, <1>9, <1>10, <1>11 DEF Serves
(* The stream implements LiveFeed: each client is told the schedule that is     *)
(* active when it connects and then of each turn, in order, and misses one     *)
(* only if its queue had no room for what was published with it.              *)
THEOREM ImplementsFeed == Spec => KeepsFeed
<1>1. Init => Feed!Init
  <2> SUFFICES ASSUME Init PROVE Feed!Init
    OBVIOUS
  <2>1. Linked = {} /\ active = NoSchedule
    BY DEF Init, Service!Init, Linked
  <2>2. Due = [c \in Conn |-> <<>>]
    BY <2>1 DEF Due
  <2> QED BY <2>1, <2>2 DEF Feed!Init
<1>2. StreamInv /\ [Next]_vars => [Feed!Next]_(Feed!fvars)
  <2> SUFFICES ASSUME StreamInv, [Next]_vars PROVE [Feed!Next]_(Feed!fvars)
    OBVIOUS
  <2>1. CASE UNCHANGED vars
    <3>1. UNCHANGED <<active, Linked, Due, dropped>>
      BY <2>1 DEF vars, service, clients, Linked, Due, Turned
    <3> QED BY <3>1 DEF Feed!fvars
  <2> QED BY <2>1, ServiceImplements, HandlerImplements DEF Next, StreamInv
<1> QED BY <1>1, <1>2, Invariance, PTL DEF Spec, KeepsFeed, Feed!Spec
===============================================================================
