------------------------- MODULE SingleInstanceProofs -------------------------
(* Theorems about SingleInstance, for every value of its constants. *)
EXTENDS SingleInstance, TLAPS

-------------------------------------------------------------------------------
(* Type correctness.                                                       *)

LEMMA InitTypeOK == Init => TypeOK
BY DEF Init, TypeOK, Serving

LEMMA StepTypeOK == TypeOK /\ [Next]_vars => TypeOK'
<1> SUFFICES ASSUME TypeOK, [Next]_vars PROVE TypeOK'
  OBVIOUS
<1> USE InstanceAssumption DEF TypeOK, Serving
<1>1. CASE UNCHANGED vars
  BY <1>1 DEF vars
<1>2. ASSUME NEW p \in Proc, Launch(p) PROVE TypeOK'
  <2>1. ASSUME NEW info \in Readable PROVE Candidates(info) \subseteq Port
    BY <2>1 DEF Readable, Candidates
  <2> QED BY <1>2, <2>1 DEF Launch
<1>3. ASSUME NEW p \in Proc, LaunchForced(p) PROVE TypeOK'
  BY <1>3 DEF LaunchForced
<1>4. ASSUME NEW p \in Proc, Finds(p) \/ Misses(p) PROVE TypeOK'
  BY <1>4 DEF Finds, Misses
<1>5. ASSUME NEW p \in Proc, Chooses(p) \/ Writes(p) \/ Binds(p) \/ Clears(p)
      PROVE  TypeOK'
  BY <1>5 DEF Chooses, Writes, Binds, Clears
<1>6. ASSUME NEW p \in Proc, Blocks(p) \/ Unblocks(p) \/ Stops(p) \/ Dies(p)
      PROVE  TypeOK'
  BY <1>6 DEF Blocks, Unblocks, Stops, Dies
<1> QED BY <1>1, <1>2, <1>3, <1>4, <1>5, <1>6 DEF Next, Steps

(* For any number of processes and ports: every part of the state has its    *)
(* type, and only a server is blocked, however launches, exits and kills      *)
(* interleave.                                                               *)
THEOREM TypeCorrect == Spec => []TypeOK
BY InitTypeOK, StepTypeOK, PTL DEF Spec

-------------------------------------------------------------------------------
(* One server that can be found, as long as nothing is disturbed.          *)

Between(p) == pc[p] \notin {"off", "serving"}

(* One process at a time is between two steps, and there is one server.       *)
OneAtATime ==
  /\ \A p, q \in Proc : Between(p) /\ Between(q) => p = q
  /\ SingleServer

(* A process that is past its search, or on its way out, is beside no server; *)
(* one that still searches has the server's port to probe.                    *)
Search ==
  \A p, q \in Proc : Serving(q) =>
    /\ pc[p] \notin {"choosing", "writing", "starting", "exiting"}
    /\ pc[p] = "probing" => port[q] \in probe[p]

(* The port of a server that could write its record is the default one or the *)
(* recorded one.                                                              *)
Recorded ==
  \A p \in Proc :
    /\ pc[p] \in {"writing", "starting", "serving"} => port[p] \in Port
    /\ pc[p] = "starting" => p \in unrecorded \/ port[p] = file
    /\ Serving(p) => p \in unrecorded \/ port[p] \in {file, Preferred}

Undisturbed == OneAtATime /\ Search /\ Recorded
ServerInv == disturbed \/ Undisturbed

LEMMA InitServerInv == Init => ServerInv
BY DEF Init, ServerInv, Undisturbed, OneAtATime, Search, Recorded, SingleServer,
       Between, Serving

(* A launch beside no other step, if it has the record it needs, probes the   *)
(* port of the server there is.                                               *)
LEMMA LaunchServerInv ==
  ASSUME TypeOK, ServerInv, NEW p \in Proc, Launch(p) \/ LaunchForced(p)
  PROVE  ServerInv'
<1> USE InstanceAssumption DEF TypeOK, Serving, Between
<1>1. CASE Launch(p)
  <2> SUFFICES ASSUME ~disturbed' PROVE Undisturbed'
    BY DEF ServerInv
  <2>1. Undisturbed /\ Quiet /\ pc[p] = "off"
    BY <1>1 DEF Launch, ServerInv
  <2>2. PICK info \in Readable : /\ probe' = [probe EXCEPT ![p] = Candidates(info)]
                                 /\ ~Astray(info)
    BY <1>1 DEF Launch
  <2>3. \A q \in Proc : Serving(q) => port[q] \in Candidates(info)
    BY <2>1, <2>2 DEF Undisturbed, Recorded, Candidates, Astray
  <2>4. pc' = [pc EXCEPT ![p] = "probing"] /\ UNCHANGED <<file, port, unrecorded>>
    BY <1>1 DEF Launch
  <2>5. OneAtATime'
    BY <2>1, <2>4 DEF Undisturbed, OneAtATime, SingleServer, Quiet
  <2>6. Search'
    BY <2>1, <2>2, <2>3, <2>4 DEF Undisturbed, Search, Quiet
  <2>7. Recorded'
    BY <2>1, <2>4 DEF Undisturbed, Recorded
  <2> QED BY <2>5, <2>6, <2>7 DEF Undisturbed
<1>2. CASE LaunchForced(p)
  <2> SUFFICES ASSUME ~disturbed' PROVE Undisturbed'
    BY DEF ServerInv
  <2>1. \A q \in Proc : pc[q] = "off"
    BY <1>2 DEF LaunchForced
  <2>2. pc' = [pc EXCEPT ![p] = "choosing"]
    BY <1>2 DEF LaunchForced
  <2> QED BY <2>1, <2>2 DEF Undisturbed, OneAtATime, SingleServer, Search, Recorded
<1> QED BY <1>1, <1>2

(* A search passes over the server's port only if the server is blocked.      *)
LEMMA SearchServerInv ==
  ASSUME TypeOK, ServerInv, NEW p \in Proc, Finds(p) \/ Misses(p)
  PROVE  ServerInv'
<1> USE DEF TypeOK, Serving, Between, ServerInv, Undisturbed, OneAtATime, SingleServer,
            Search, Recorded
<1>1. CASE Finds(p)
  BY <1>1 DEF Finds
<1>2. CASE Misses(p)
  <2> SUFFICES ASSUME ~disturbed' PROVE Undisturbed'
    OBVIOUS
  <2>1. PICK n \in probe[p] :
          /\ ~Alive(n)
          /\ probe' = [probe EXCEPT ![p] = @ \ {n}]
          /\ disturbed' = (disturbed \/ \E q \in blocked : port[q] = n)
    BY <1>2 DEF Misses
  <2>2. ASSUME NEW q \in Proc, Serving(q) PROVE port[q] # n
    BY <2>1, <2>2 DEF Alive
  <2>3. /\ pc[p] = "probing" /\ UNCHANGED <<file, port, unrecorded>>
        /\ pc' = [pc EXCEPT ![p] = IF probe'[p] = {} THEN "choosing" ELSE @]
    BY <1>2 DEF Misses
  <2>4. Undisturbed
    BY <2>1
  <2>5. \A q \in Proc : Serving(q) => port[q] \in probe'[p]
    BY <2>1, <2>2, <2>3, <2>4
  <2>6. OneAtATime'
    BY <2>3, <2>4
  <2>7. Search'
    BY <2>1, <2>3, <2>4, <2>5
  <2>8. Recorded'
    BY <2>3, <2>4
  <2> QED BY <2>6, <2>7, <2>8
<1> QED BY <1>1, <1>2

LEMMA StartServerInv ==
  ASSUME TypeOK, ServerInv, NEW p \in Proc, Chooses(p) \/ Writes(p) \/ Binds(p)
  PROVE  ServerInv'
<1> USE InstanceAssumption
    DEF TypeOK, Serving, Between, ServerInv, Undisturbed, OneAtATime, SingleServer,
        Search, Recorded
<1>1. CASE Chooses(p)
  BY <1>1 DEF Chooses
<1>2. CASE Writes(p)
  BY <1>2 DEF Writes
<1>3. CASE Binds(p)
  BY <1>3 DEF Binds
<1> QED BY <1>1, <1>2, <1>3

LEMMA EndServerInv ==
  ASSUME TypeOK, ServerInv, NEW p \in Proc,
         Blocks(p) \/ Unblocks(p) \/ Stops(p) \/ Clears(p) \/ Dies(p)
  PROVE  ServerInv'
<1> USE DEF TypeOK, Serving, Between, ServerInv, Undisturbed, OneAtATime, SingleServer,
            Search, Recorded
<1>1. CASE Blocks(p) \/ Unblocks(p)
  BY <1>1 DEF Blocks, Unblocks
<1>2. CASE Stops(p)
  <2> SUFFICES ASSUME ~disturbed' PROVE Undisturbed'
    OBVIOUS
  <2>1. Undisturbed /\ Quiet /\ Serving(p)
    BY <1>2 DEF Stops
  <2>2. pc' = [pc EXCEPT ![p] = "exiting"] /\ UNCHANGED <<file, probe, port, unrecorded>>
    BY <1>2 DEF Stops
  <2>3. OneAtATime'
    BY <2>1, <2>2 DEF Quiet
  <2>4. Search'
    BY <2>1, <2>2
  <2>5. Recorded'
    BY <2>1, <2>2
  <2> QED BY <2>3, <2>4, <2>5
<1>3. CASE Clears(p)
  BY <1>3 DEF Clears
<1>4. CASE Dies(p)
  BY <1>4 DEF Dies
<1> QED BY <1>1, <1>2, <1>3, <1>4

LEMMA StepServerInv == TypeOK /\ ServerInv /\ [Next]_vars => ServerInv'
<1> SUFFICES ASSUME TypeOK, ServerInv, [Next]_vars PROVE ServerInv'
  OBVIOUS
<1>1. CASE UNCHANGED vars
  BY <1>1 DEF vars, ServerInv, Undisturbed, OneAtATime, SingleServer, Search, Recorded,
              Between, Serving
<1> QED BY <1>1, LaunchServerInv, SearchServerInv, StartServerInv, EndServerInv
        DEF Next, Steps

LEMMA ServerInvariance == Spec => []ServerInv
BY InitServerInv, StepServerInv, TypeCorrect, PTL DEF Spec

(* As long as processes start and exit one after another, none is told to     *)
(* start beside a server, a running server answers, and none starts without   *)
(* the record of a server that is not on the default port, there is one       *)
(* server, whatever was killed before, whatever record could not be written,  *)
(* read or removed, and whoever holds the default port.                       *)
THEOREM SingleServerSafe == Spec => []SingleUndisturbed
<1>1. ServerInv => SingleUndisturbed
  BY DEF ServerInv, Undisturbed, OneAtATime, SingleUndisturbed
<1> QED BY <1>1, ServerInvariance, PTL

(* Under the same condition the next launch can find the server, if it could  *)
(* write its record: its port is the default one or the recorded one, since   *)
(* no other process has written or cleared the record since it started.       *)
THEOREM FindableSafe == Spec => []FindableUndisturbed
<1>1. ServerInv => FindableUndisturbed
  BY DEF ServerInv, Undisturbed, Recorded, FindableUndisturbed
<1> QED BY <1>1, ServerInvariance, PTL
===============================================================================
