---------------------------- MODULE DashboardProofs ----------------------------
(* Theorems about Dashboard, for every value of its constants. *)
EXTENDS Dashboard, SequenceTheorems, TLAPS

-------------------------------------------------------------------------------
(* Type correctness.                                                       *)

(* What becomes of a sequence of statuses. *)
LEMMA Appends ==
  ASSUME NEW s \in Seq(Status), NEW a \in Status
  PROVE  /\ Append(s, a) \in Seq(Status) /\ Len(Append(s, a)) = Len(s) + 1
         /\ Append(s, a) # <<>> /\ Append(s, a)[Len(Append(s, a))] = a
<1>1. Append(s, a) \in Seq(Status) /\ Len(Append(s, a)) = Len(s) + 1
  OBVIOUS
<1>2. Append(s, a)[Len(s) + 1] = a
  OBVIOUS
<1> QED BY <1>1, <1>2

LEMMA Tails ==
  ASSUME NEW s \in Seq(Status), s # <<>>
  PROVE  /\ Head(s) \in Status /\ Head(s) = s[1]
         /\ Tail(s) \in Seq(Status) /\ Len(Tail(s)) = Len(s) - 1 /\ Len(s) \in Nat \ {0}
         /\ Tail(s) = <<>> => Len(s) = 1
         /\ Tail(s) # <<>> => Tail(s)[Len(Tail(s))] = s[Len(s)]
<1>1. Len(s) \in Nat \ {0} /\ Head(s) \in Status /\ Head(s) = s[1]
  BY EmptySeq
<1>2. Tail(s) \in Seq(Status) /\ Len(Tail(s)) = Len(s) - 1
  BY HeadTailProperties
<1>3. ASSUME Tail(s) # <<>> PROVE Tail(s)[Len(Tail(s))] = s[Len(s)]
  <2>1. Len(Tail(s)) \in Nat \ {0}
    BY <1>2, <1>3, EmptySeq
  <2>2. Tail(s)[Len(Tail(s))] = s[Len(Tail(s)) + 1]
    BY <1>1, <1>2, <2>1
  <2>3. Len(Tail(s)) + 1 = Len(s)
    BY <1>1, <1>2
  <2> QED BY <2>2, <2>3
<1>4. Tail(s) = <<>> => Len(s) = 1
  BY <1>1, <1>2
<1> QED BY <1>1, <1>2, <1>3, <1>4

(* What a step does to the service, and what it does to the stream.           *)
LEMMA ServiceSteps == DNext => Service!Next \/ UNCHANGED service
<1> SUFFICES ASSUME DNext PROVE Service!Next \/ UNCHANGED service
  OBVIOUS
<1>1. ASSUME NEW h \in Handler, Clicks(h) \/ Elsewhere(h) \/ Stops(h) \/ Starts(h)
      PROVE  Service!Next
  BY <1>1 DEF Clicks, Elsewhere, Stops, Starts, Service!Next
<1>2. ASSUME NEW t \in Task, Ends(t) PROVE Service!Next
  BY <1>2 DEF Ends, Service!Next
<1>3. CASE Proceeds
  BY <1>3 DEF Proceeds, Service!Next
<1> QED
  BY <1>1, <1>2, <1>3
     DEF DNext, Unmounts, Drops, Reads, Drained, Feeds, Loses, Closes, Reopens,
         Mounts, Shows, Fails

LEMMA StreamSteps ==
  DNext => \/ Tells \/ Misses \/ UNCHANGED stream
           \/ \E c \in Conn : Joins(c) \/ Receives(c) \/ Leaves(c)
BY DEF DNext, Unmounts, Drops, Reads, Proceeds, Drained, Feeds, Loses, Closes, Reopens,
       Mounts, Clicks, Elsewhere, Stops, Starts, Ends, Shows, Fails, tab

LEMMA ServiceStepOK == ServiceOK /\ [DNext]_vars => ServiceOK'
<1> SUFFICES ASSUME ServiceOK, [DNext]_vars PROVE ServiceOK'
  OBVIOUS
<1> USE DEF ServiceOK, Status
<1>1. CASE UNCHANGED service
  BY <1>1 DEF service
<1>2. ASSUME NEW h \in Handler, NEW s \in Schedule \cup {NoSchedule}, Service!Arrives(h, s)
      PROVE  ServiceOK'
  BY <1>2 DEF Service!Arrives
<1>3. ASSUME NEW h \in Handler, Service!StopAwaits(h) PROVE ServiceOK'
  BY <1>3 DEF Service!StopAwaits
<1>4. ASSUME NEW h \in Handler, Service!Stops(h) PROVE ServiceOK'
  BY <1>4 DEF Service!Stops, Service!Return
<1>5. ASSUME NEW h \in Handler, Service!Starts(h) PROVE ServiceOK'
  BY <1>5 DEF Service!Starts, Service!Publishes, Service!Return
<1>6. ASSUME NEW t \in Task, Service!Begins(t) \/ Service!Withdraws(t) \/ Service!Ends(t)
      PROVE  ServiceOK'
  BY <1>6 DEF Service!Begins, Service!Withdraws, Service!Ends, Service!Publishes
<1> QED
  BY <1>1, <1>2, <1>3, <1>4, <1>5, <1>6, ServiceSteps DEF Service!Next, vars

LEMMA TellsFeedOK ==
  ASSUME FeedOK, active' \in Status, Tells
  PROVE  FeedOK'
<1>1. active' \in Status /\ UNCHANGED linked
  BY DEF Tells
<1>2. PICK lost \in SUBSET linked :
        /\ Full \subseteq lost
        /\ gaps' = gaps \cup lost
        /\ due' = [c \in Conn |-> IF c \in linked \ lost THEN Append(due[c], active')
                                                          ELSE due[c]]
  BY DEF Tells
<1>3. due' \in [Conn -> Seq(Status)]
  BY <1>1, <1>2, Appends DEF FeedOK
<1>4. ASSUME NEW c \in Conn
      PROVE  Len(due'[c]) <= Room /\ (c \notin linked' => due'[c] = <<>>)
  <2>1. CASE c \in linked \ lost
    <3>1. ~(Len(due[c]) >= Room)
      BY <1>2, <2>1 DEF Full
    <3>2. Len(due[c]) \in Nat /\ Room \in Nat
      BY DashboardAssumption, LenProperties DEF FeedOK
    <3>3. Len(due'[c]) = Len(due[c]) + 1
      BY <1>1, <1>2, <2>1, Appends DEF FeedOK
    <3> QED BY <1>1, <2>1, <3>1, <3>2, <3>3
  <2>2. CASE c \notin linked \ lost
    BY <1>1, <1>2, <2>2 DEF FeedOK
  <2> QED BY <2>1, <2>2
<1> QED BY <1>1, <1>2, <1>3, <1>4 DEF FeedOK

LEMMA ClientFeedOK ==
  ASSUME FeedOK, active \in Status, NEW c \in Conn, Joins(c) \/ Receives(c) \/ Leaves(c)
  PROVE  FeedOK'
<1>1. CASE Joins(c)
  <2>1. due' = [due EXCEPT ![c] = <<active>>] /\ UNCHANGED <<active, gaps>>
        /\ linked' = linked \cup {c}
    BY <1>1 DEF Joins
  <2>2. <<active>> \in Seq(Status) /\ Len(<<active>>) = 1 /\ 1 <= Room
    BY DashboardAssumption DEF FeedOK
  <2> QED BY <2>1, <2>2 DEF FeedOK
<1>2. CASE Receives(c)
  <2>1. due[c] \in Seq(Status) /\ due[c] # <<>> /\ UNCHANGED <<active, linked, gaps>>
        /\ due' = [due EXCEPT ![c] = Tail(due[c])]
    BY <1>2 DEF Receives, FeedOK
  <2>2. /\ Tail(due[c]) \in Seq(Status) /\ Len(Tail(due[c])) = Len(due[c]) - 1
        /\ Len(due[c]) \in Nat /\ Len(due[c]) <= Room /\ Room \in Nat
    BY <2>1, Tails, DashboardAssumption DEF FeedOK
  <2>3. Len(Tail(due[c])) <= Room
    BY <2>2
  <2>4. c \in linked
    BY <2>1 DEF FeedOK
  <2> QED BY <2>1, <2>2, <2>3, <2>4 DEF FeedOK
<1>3. CASE Leaves(c)
  <2>1. due' = [due EXCEPT ![c] = <<>>] /\ UNCHANGED active
        /\ linked' = linked \ {c} /\ gaps' = gaps \ {c}
    BY <1>3 DEF Leaves
  <2>2. <<>> \in Seq(Status) /\ Len(<<>>) = 0 /\ 0 <= Room
    BY DashboardAssumption, EmptySeq
  <2> QED BY <2>1, <2>2 DEF FeedOK
<1> QED BY <1>1, <1>2, <1>3

LEMMA MissesFeedOK == FeedOK /\ Misses => FeedOK'
BY DEF FeedOK, Misses

LEMMA FeedUnchanged == FeedOK /\ UNCHANGED stream => FeedOK'
BY DEF FeedOK, stream

(* What the service's steps do to the answers on their way.                   *)
LEMMA AgesTabOK ==
  ASSUME TabOK, active' \in Status, Ages,
         UNCHANGED call \/ \E k \in Slot : Answers(k)
  PROVE  TabOK'
<1> USE DashboardAssumption DEF TabOK, Ages, socket, display, Status
<1>1. CASE UNCHANGED call
  BY <1>1
<1>2. ASSUME NEW k \in Slot, Answers(k) PROVE TabOK'
  <2>1. \A j \in Slot : call'[j] = IF j = k /\ call[j] = Awaited THEN active' ELSE call[j]
    BY <1>2 DEF Answers
  <2>2. call' \in [Slot -> Status \cup {NoCall, Awaited}]
    BY <1>2 DEF Answers
  <2>3. old' \subseteq {j \in Slot : call'[j] \in Status}
    BY <2>1
  <2>4. page' = "away" => \A j \in Slot : call'[j] = NoCall
    BY <2>1
  <2> QED BY <2>2, <2>3, <2>4
<1> QED BY <1>1, <1>2

LEMMA UserTabOK == TabOK /\ (Unmounts \/ Drops) => TabOK'
<1> SUFFICES ASSUME TabOK, Unmounts \/ Drops PROVE TabOK'
  OBVIOUS
<1>1. CASE Unmounts
  BY <1>1 DEF Unmounts, TabOK, display
<1>2. CASE Drops
  BY <1>2, DashboardAssumption DEF Drops, TabOK, calls, display
<1> QED BY <1>1, <1>2

LEMMA SocketTabOK ==
  ASSUME TabOK, NEW c \in Conn, Closes(c) \/ Reopens(c) \/ Mounts(c)
  PROVE  TabOK'
<1>1. CASE Closes(c)
  BY <1>1 DEF Closes, Retries, TabOK, calls, display
<1>2. CASE Reopens(c)
  BY <1>2 DEF Reopens, Connects, TabOK, calls, display
<1>3. CASE Mounts(c)
  BY <1>3, DashboardAssumption DEF Mounts, Connects, TabOK, Slot, Status
<1> QED BY <1>1, <1>2, <1>3

LEMMA CallTabOK ==
  ASSUME TabOK, NEW k \in Slot, Shows(k) \/ Fails(k)
  PROVE  TabOK'
<1> USE DEF TabOK, stream, socket, display
<1>1. CASE Shows(k)
  BY <1>1 DEF Shows
<1>2. CASE Fails(k)
  BY <1>2 DEF Fails
<1> QED BY <1>1, <1>2

LEMMA ClickTabOK ==
  ASSUME TabOK, NEW h \in Handler, Clicks(h)
  PROVE  TabOK'
BY DashboardAssumption DEF TabOK, Clicks, Slot, Status, socket, display

LEMMA FeedTabOK ==
  ASSUME FeedOK, TabOK, NEW c \in Conn, Feeds(c)
  PROVE  TabOK'
<1> USE DEF TabOK, socket, calls, display
<1>1. CASE Joins(c) /\ UNCHANGED <<socket, calls, display>>
  BY <1>1
<1>2. CASE /\ Receives(c)
           /\ shown' = IF Hears(c) THEN Head(due[c]) ELSE shown
           /\ overtaken' = (overtaken /\ ~Hears(c))
           /\ UNCHANGED <<socket, calls>>
  <2>1. Head(due[c]) \in Status
    BY <1>2, Tails DEF Receives, FeedOK
  <2> QED BY <1>2, <2>1
<1> QED BY <1>1, <1>2 DEF Feeds

LEMMA StepTypeOK == TypeOK /\ [DNext]_vars => TypeOK'
<1> SUFFICES ASSUME ServiceOK, FeedOK, TabOK, [DNext]_vars
             PROVE  ServiceOK' /\ FeedOK' /\ TabOK'
  BY DEF TypeOK
<1>1. ServiceOK' /\ active \in Status /\ active' \in Status
  BY ServiceStepOK DEF ServiceOK
<1>2. FeedOK'
  BY <1>1, StreamSteps, TellsFeedOK, MissesFeedOK, ClientFeedOK, FeedUnchanged DEF vars
<1>3. TabOK'
  <2>1. ASSUME UNCHANGED tab PROVE TabOK'
    BY <2>1 DEF TabOK, tab, socket, calls, display
  <2>2. CASE \/ UNCHANGED vars \/ Drained
             \/ \E h \in Handler : Elsewhere(h)
             \/ \E c \in Conn : Loses(c)
    BY <2>1, <2>2 DEF vars, Drained, Elsewhere, Loses
  <2>3. CASE Unmounts \/ Drops
    BY <2>3, UserTabOK
  <2>4. CASE Reads
    BY <1>1, <2>4, AgesTabOK DEF Reads, Slot
  <2>5. CASE Proceeds
    BY <2>1, <2>5 DEF Proceeds
  <2>6. ASSUME NEW c \in Conn, Feeds(c) \/ Closes(c) \/ Reopens(c) \/ Mounts(c)
        PROVE  TabOK'
    BY <2>6, FeedTabOK, SocketTabOK
  <2>7. ASSUME NEW h \in Handler, Clicks(h) \/ Stops(h) \/ Starts(h) PROVE TabOK'
    BY <1>1, <2>7, ClickTabOK, AgesTabOK DEF Stops, Starts, Slot
  <2>8. ASSUME NEW t \in Task, Ends(t) PROVE TabOK'
    BY <1>1, <2>8, AgesTabOK DEF Ends
  <2>9. ASSUME NEW k \in Slot, Shows(k) \/ Fails(k) PROVE TabOK'
    BY <2>9, CallTabOK
  <2> QED BY <2>2, <2>3, <2>4, <2>5, <2>6, <2>7, <2>8, <2>9 DEF DNext
<1> QED BY <1>1, <1>2, <1>3

LEMMA InitTypeOK == DInit => TypeOK
<1> SUFFICES ASSUME DInit PROVE ServiceOK /\ FeedOK /\ TabOK
  BY DEF TypeOK
<1>1. <<>> \in Seq(Status) /\ Len(<<>>) <= Room
  BY EmptySeq, DashboardAssumption
<1>2. FeedOK
  BY <1>1 DEF DInit, FeedOK
<1>3. 0 \in 0..MaxDrops
  BY DashboardAssumption
<1>4. TabOK
  BY <1>3 DEF DInit, TabOK, Status
<1>5. ServiceOK
  BY DEF DInit, Service!Init, ServiceOK, Status
<1> QED BY <1>2, <1>4, <1>5

(* For any number of requests, connections and drops and any room: the        *)
(* service, the stream and the tab keep their types, and no client is due     *)
(* more than there is room for.                                               *)
THEOREM TypeCorrect == DSpec => []TypeOK
BY InitTypeOK, StepTypeOK, PTL DEF DSpec

-------------------------------------------------------------------------------
(* The chain of sockets.                                                   *)

(* What OneChain says, case by case: the mounted dashboard has its socket, or *)
(* one closing, or the timer.                                                 *)
Chain ==
  /\ page = "away" => sock = NoConn /\ closing = orphan /\ timer = FALSE
  /\ page = "shown" =>
       \/ sock \in Conn \ closing /\ closing = orphan /\ timer = FALSE
       \/ sock = NoConn /\ timer = FALSE /\ \E c \in Conn : closing \ orphan = {c}
       \/ sock = NoConn /\ timer = TRUE /\ closing = orphan

LEMMA ChainInit == DInit => Chain
BY DEF DInit, Chain

LEMMA ChainStep == TypeOK /\ Chain /\ [DNext]_vars => Chain'
<1> SUFFICES ASSUME TabOK, Chain, [DNext]_vars PROVE Chain'
  BY DEF TypeOK
<1> USE DashboardAssumption DEF TabOK, Chain
<1>1. CASE UNCHANGED socket
  BY <1>1 DEF socket
<1>2. CASE Unmounts
  BY <1>2 DEF Unmounts
<1>3. CASE Drops
  <2>1. /\ sock \in Conn \ closing /\ closing = orphan /\ timer = FALSE
        /\ page = "shown"
    BY <1>3 DEF Drops
  <2>2. closing' \ orphan' = {sock}
    BY <1>3, <2>1 DEF Drops
  <2> QED BY <1>3, <2>1, <2>2 DEF Drops
<1>4. ASSUME NEW c \in Conn, Closes(c) PROVE Chain'
  <2>1. CASE c \in orphan
    <3>1. closing' \ orphan' = closing \ orphan
      BY <1>4, <2>1 DEF Closes
    <3>2. UNCHANGED <<page, sock, timer>>
      BY <1>4, <2>1 DEF Closes, Retries
    <3>3. closing = orphan => closing' = orphan'
      BY <1>4 DEF Closes
    <3> QED BY <3>1, <3>2, <3>3, <1>4 DEF Closes
  <2>2. CASE c \notin orphan
    <3>1. closing \ orphan = {c} /\ page = "shown" /\ sock = NoConn
      BY <1>4, <2>2 DEF Closes
    <3>2. closing' = orphan'
      BY <1>4, <3>1, <2>2 DEF Closes
    <3> QED BY <1>4, <2>2, <3>1, <3>2 DEF Closes, Retries
  <2> QED BY <2>1, <2>2
<1>5. ASSUME NEW c \in Conn, Reopens(c) PROVE Chain'
  BY <1>5 DEF Reopens, Connects
<1>6. ASSUME NEW c \in Conn, Mounts(c) PROVE Chain'
  BY <1>6 DEF Mounts, Connects
<1> QED
  BY <1>1, <1>2, <1>3, <1>4, <1>5, <1>6
     DEF DNext, vars, tab, Ages, Reads, Proceeds, Drained, Feeds, Loses, Clicks, Elsewhere,
         Stops, Starts, Ends, Shows, Fails

(* However mounting, unmounting, drops, close events and timers follow one    *)
(* another, a mounted dashboard has one chain of sockets and an unmounted one *)
(* none.                                                                      *)
THEOREM OneChainAlways == DSpec => []OneChain
<1>1. TypeOK /\ Chain => OneChain
  <2> SUFFICES ASSUME TabOK, Chain PROVE OneChain
    BY DEF TypeOK
  <2> DEFINE chain == ({sock} \ {NoConn}) \cup (closing \ orphan)
                      \cup {t \in {"timer"} : timer}
  <2>1. CASE page = "away"
    BY <2>1 DEF Chain, OneChain
  <2>2. CASE page = "shown" /\ sock \in Conn \ closing
    <3>1. chain = {sock}
      BY <2>2, DashboardAssumption DEF Chain
    <3> QED BY <2>2, <3>1 DEF OneChain
  <2>3. CASE page = "shown" /\ sock = NoConn /\ timer = FALSE
    <3>1. PICK c \in Conn : closing \ orphan = {c}
      BY <2>3, DashboardAssumption DEF Chain
    <3>2. chain = {c}
      BY <2>3, <3>1
    <3> QED BY <2>3, <3>2 DEF OneChain
  <2>4. CASE page = "shown" /\ sock = NoConn /\ timer = TRUE
    <3>1. chain = {"timer"}
      BY <2>4, DashboardAssumption DEF Chain
    <3> QED BY <2>4, <3>1 DEF OneChain
  <2> QED BY <2>1, <2>2, <2>3, <2>4 DEF TabOK, Chain
<1> QED BY <1>1, ChainInit, ChainStep, TypeCorrect, PTL DEF DSpec

-------------------------------------------------------------------------------
(* The schedule shown.                                                     *)

(* A schedule that is active has been published last.                         *)
ActiveTold == active # NoSchedule => told

(* What was published last is what is active.                                 *)
Announced == told = (active # NoSchedule)

(* If it is, the last status due to a client that missed none is the active   *)
(* schedule, and so is what a tab shows that has nothing due, unless an old   *)
(* answer overtook it; an answer that is not old always is.                   *)
LastDue == Announced =>
  \A c \in linked \ gaps : due[c] # <<>> => due[c][Len(due[c])] = active
AnswersTrue == \A k \in Slot : call[k] \in Status /\ k \notin old => call[k] = active
Current == page = "shown" /\ sock \in linked \ gaps /\ due[sock] = <<>> /\ Announced
             => overtaken \/ shown = active
ShownInv == ActiveTold /\ LastDue /\ AnswersTrue /\ Current

LEMMA ShownInit == DInit => ShownInv
BY DashboardAssumption
   DEF DInit, Service!Init, ShownInv, ActiveTold, LastDue, AnswersTrue, Current, Status

(* What a step of the service does to what subscribers know: nothing, or it   *)
(* clears the active schedule in silence, or it publishes.                    *)
LEMMA Publications ==
  ASSUME [DNext]_vars
  PROVE  \/ UNCHANGED <<active, told>>
         \/ active' = NoSchedule /\ UNCHANGED <<told, stream>>
         \/ Announced' /\ Tells
<1>1. ASSUME NEW h \in Handler, Stops(h)
      PROVE  active' = NoSchedule /\ UNCHANGED <<told, stream>>
  BY <1>1 DEF Stops, Service!Stops
<1>2. ASSUME NEW h \in Handler, Starts(h) PROVE Announced' /\ Tells
  BY <1>2 DEF Starts, Service!Starts, Service!Publishes, Announced
<1>3. ASSUME NEW t \in Task, Ends(t) PROVE Announced' /\ Tells
  BY <1>3 DEF Ends, Service!Ends, Service!Publishes, Announced
<1>4. ASSUME NEW h \in Handler, Clicks(h) \/ Elsewhere(h) PROVE UNCHANGED <<active, told>>
  BY <1>4 DEF Clicks, Elsewhere, Service!Arrives
<1>5. CASE Proceeds
  BY <1>5 DEF Proceeds, Service!StopAwaits, Service!Begins, Service!Withdraws
<1>6. CASE UNCHANGED service
  BY <1>6 DEF service
<1> QED
  BY <1>1, <1>2, <1>3, <1>4, <1>5, <1>6
     DEF DNext, vars, Unmounts, Drops, Reads, Drained, Feeds, Loses, Closes,
         Reopens, Mounts, Shows, Fails

LEMMA ActiveToldStep == ActiveTold /\ [DNext]_vars => ActiveTold'
BY Publications DEF ActiveTold, Announced

(* A step that publishes nothing and leaves what was published last true has  *)
(* not changed the status.                                                    *)
LEMMA Unpublished ==
  ASSUME TypeOK, ActiveTold, [DNext]_vars, ~Tells, Announced'
  PROVE  Announced /\ active' = active
BY Publications DEF TypeOK, ServiceOK, ActiveTold, Announced

LEMMA LastDueStep == TypeOK /\ ActiveTold /\ LastDue /\ [DNext]_vars => LastDue'
<1> SUFFICES ASSUME TypeOK, ActiveTold, LastDue, [DNext]_vars, Announced'
             PROVE  LastDue'
  BY DEF LastDue
<1> USE DEF FeedOK, LastDue
<1>1. FeedOK /\ FeedOK' /\ active' \in Status
  BY StepTypeOK DEF TypeOK, ServiceOK
<1>2. CASE Tells
  <2> SUFFICES ASSUME NEW c \in linked' \ gaps', due'[c] # <<>>
               PROVE  due'[c][Len(due'[c])] = active'
    OBVIOUS
  <2>1. c \in Conn /\ due'[c] = Append(due[c], active')
    BY <1>1, <1>2 DEF Tells
  <2> QED BY <1>1, <2>1, Appends
<1>3. ASSUME ~Tells PROVE LastDue'
  <2>1. Announced /\ active' = active
    BY <1>3, Unpublished
  <2>2. CASE Misses \/ UNCHANGED stream
    BY <1>1, <2>1, <2>2 DEF Misses, stream
  <2>3. ASSUME NEW c \in Conn, Joins(c) PROVE LastDue'
    BY <1>1, <2>1, <2>3 DEF Joins
  <2>4. ASSUME NEW c \in Conn, Receives(c) PROVE LastDue'
    <3>1. due[c] \in Seq(Status) /\ due[c] # <<>>
      BY <1>1, <2>4 DEF Receives
    <3>2. Tail(due[c]) # <<>> => Tail(due[c])[Len(Tail(due[c]))] = due[c][Len(due[c])]
      BY <3>1, Tails
    <3> QED BY <1>1, <2>1, <2>4, <3>1, <3>2 DEF Receives
  <2>5. ASSUME NEW c \in Conn, Leaves(c) PROVE LastDue'
    BY <1>1, <2>1, <2>5 DEF Leaves
  <2> QED BY <1>3, <2>2, <2>3, <2>4, <2>5, StreamSteps DEF vars
<1> QED BY <1>2, <1>3

LEMMA AnswersStep == TypeOK /\ AnswersTrue /\ [DNext]_vars => AnswersTrue'
<1> SUFFICES ASSUME TypeOK, TabOK, AnswersTrue, [DNext]_vars PROVE AnswersTrue'
  BY DEF TypeOK
<1> USE DashboardAssumption DEF TabOK, AnswersTrue, Status
<1>1. ASSUME Ages, UNCHANGED call PROVE AnswersTrue'
  BY <1>1 DEF Ages
<1>2. ASSUME Ages, NEW k \in Slot, Answers(k) PROVE AnswersTrue'
  <2>1. \A j \in Slot : call'[j] = IF j = k /\ call[j] = Awaited THEN active' ELSE call[j]
    BY <1>2 DEF Answers
  <2> QED BY <1>2, <2>1 DEF Ages
<1>3. CASE UNCHANGED <<active, call, old>>
  BY <1>3
<1>4. CASE Unmounts
  BY <1>4 DEF Unmounts
<1>5. ASSUME NEW c \in Conn, Mounts(c) PROVE AnswersTrue'
  BY <1>5 DEF Mounts, service
<1>6. ASSUME NEW h \in Handler, Clicks(h) PROVE AnswersTrue'
  BY <1>6 DEF Clicks, Service!Arrives
<1>7. CASE Proceeds \/ \E h \in Handler : Elsewhere(h)
  BY <1>7 DEF Proceeds, Service!StopAwaits, Service!Begins, Service!Withdraws, Elsewhere,
              Service!Arrives, tab, calls
<1>8. ASSUME NEW k \in Slot, Shows(k) \/ Fails(k) PROVE AnswersTrue'
  BY <1>8 DEF Shows, Fails, service
<1>9. CASE Reads \/ \E h \in Handler : Stops(h) \/ Starts(h)
  BY <1>1, <1>2, <1>9 DEF Reads, Stops, Starts, Slot
<1>10. ASSUME NEW t \in Task, Ends(t) PROVE AnswersTrue'
  BY <1>1, <1>10 DEF Ends
<1> QED
  BY <1>3, <1>4, <1>5, <1>6, <1>7, <1>8, <1>9, <1>10
     DEF DNext, vars, service, tab, calls, Drops, Drained, Feeds, Loses, Closes, Reopens

LEMMA CurrentStep == TypeOK /\ ShownInv /\ [DNext]_vars => Current'
<1> SUFFICES ASSUME TypeOK, FeedOK, TabOK, ShownInv, [DNext]_vars,
                    page' = "shown", sock' \in linked' \ gaps', due'[sock'] = <<>>,
                    Announced'
             PROVE  overtaken' \/ shown' = active'
  BY DEF TypeOK, Current
<1>1. ActiveTold /\ LastDue /\ AnswersTrue /\ Current
  BY DEF ShownInv
<1>2. CASE UNCHANGED sock /\ Tells
  <2>1. active' \in Status
    BY StepTypeOK DEF TypeOK, ServiceOK
  <2>2. sock \in linked \ gaps' /\ sock \in Conn /\ due[sock] \in Seq(Status)
    BY <1>2 DEF Tells, FeedOK
  <2>3. due'[sock] = Append(due[sock], active')
    BY <1>2, <2>2 DEF Tells
  <2>4. due'[sock] # <<>>
    BY <2>1, <2>2, <2>3, Appends
  <2> QED BY <1>2, <2>4
<1>3. ASSUME UNCHANGED <<linked, due, page, sock, shown, overtaken>>, gaps \subseteq gaps',
             ~Tells
      PROVE  overtaken' \/ shown' = active'
  BY <1>1, <1>3, Unpublished DEF Current
<1>4. CASE Unmounts \/ Drops
  BY <1>4, DashboardAssumption DEF Unmounts, Drops, FeedOK, stream
<1>5. ASSUME NEW c \in Conn, Reopens(c) \/ Mounts(c) PROVE FALSE
  BY <1>5 DEF Reopens, Mounts, Connects, stream
<1>6. ASSUME NEW c \in Conn, Feeds(c) PROVE overtaken' \/ shown' = active'
  <2>1. UNCHANGED <<active, told, page, sock>> /\ Announced
    BY <1>6 DEF Feeds, service, socket, Announced
  <2>2. CASE Joins(c) /\ sock = c
    <3>1. due'[sock'] = <<active>>
      BY <2>1, <2>2 DEF Joins, FeedOK
    <3> QED BY <3>1
  <2>3. CASE /\ Receives(c)
             /\ shown' = IF Hears(c) THEN Head(due[c]) ELSE shown
             /\ overtaken' = (overtaken /\ ~Hears(c))
    <3>1. CASE sock = c
      <4>1. due[c] \in Seq(Status) /\ due[c] # <<>>
        BY <2>3 DEF Receives, FeedOK
      <4>2. Tail(due[c]) = <<>>
        BY <2>1, <2>3, <3>1 DEF Receives, FeedOK
      <4>3. Head(due[c]) = due[c][Len(due[c])]
        BY <4>1, <4>2, Tails
      <4>4. due[c][Len(due[c])] = active
        BY <1>1, <2>1, <2>3, <3>1, <4>1 DEF LastDue, Receives
      <4> QED BY <2>1, <2>3, <3>1, <4>3, <4>4 DEF Hears
    <3>2. CASE sock # c
      BY <1>1, <2>1, <2>3, <3>2 DEF Receives, Hears, Current, FeedOK
    <3> QED BY <3>1, <3>2
  <2> QED BY <1>6, <2>2, <2>3 DEF Feeds
<1>7. ASSUME NEW c \in Conn, Loses(c) PROVE overtaken' \/ shown' = active'
  <2>1. UNCHANGED <<active, told, page, sock, shown, overtaken>> /\ Announced
    BY <1>7 DEF Loses, service, tab, socket, display, Announced
  <2> QED BY <1>1, <1>7, <2>1 DEF Loses, Leaves, Current, FeedOK
<1>8. ASSUME NEW k \in Slot, Shows(k) PROVE overtaken' \/ shown' = active'
  BY <1>1, <1>8 DEF Shows, AnswersTrue, TabOK, service
<1>9. CASE \/ UNCHANGED vars \/ Drained \/ Reads \/ Proceeds
           \/ \E h \in Handler : Clicks(h) \/ Elsewhere(h) \/ Stops(h)
           \/ \E k \in Slot : Fails(k)
           \/ \E c \in Conn : Closes(c)
  <2>1. /\ UNCHANGED <<linked, due, page, sock, shown, overtaken>>
        /\ gaps \subseteq gaps'
    BY <1>9 DEF vars, Drained, Misses, Reads, Proceeds, Clicks, Elsewhere, Stops, Ages, Fails,
                Closes, stream, tab, socket, display
  <2> QED BY <1>2, <1>3, <2>1
<1>10. CASE (\E h \in Handler : Starts(h)) \/ (\E t \in Task : Ends(t))
  BY <1>2, <1>10 DEF Starts, Ends, Ages, socket
<1> QED
  BY <1>4, <1>5, <1>6, <1>7, <1>8, <1>9, <1>10 DEF DNext

(* A tab that has been brought everything shows the active schedule, however  *)
(* requests overlap and however its sockets came and went, unless an old      *)
(* answer overtook the news, a status was missed or the last one published is *)
(* no longer true: what is active has always been published last, and an      *)
(* answer on its way is either the active schedule or known to be old.        *)
THEOREM ShownSafe == DSpec => []ShownCurrent
<1>1. TypeOK /\ ShownInv /\ [DNext]_vars => ShownInv'
  BY ActiveToldStep, LastDueStep, AnswersStep, CurrentStep DEF ShownInv
<1>2. ShownInv => ShownCurrent
  BY DEF ShownInv, Current, ShownCurrent, Settled, Announced
<1> QED BY <1>1, <1>2, ShownInit, TypeCorrect, PTL DEF DSpec
===============================================================================
