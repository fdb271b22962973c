------------------------------- MODULE LiveFeed -------------------------------
(***************************************************************************)
(* What the live stream promises its clients, without events that are not   *)
(* statuses, queues, tasks or sends: a client that joins is told the        *)
(* schedule that is active and then of each turn it takes, in order; one    *)
(* that has room for no more misses turns.  A definition marked "Mutant" is *)
(* a plausible bug in the next one.                                         *)
(***************************************************************************)
EXTENDS Naturals, Sequences

CONSTANTS
  Schedule, NoSchedule,  \* as in PingSchedule
  Conn,                  \* slots for connections
  Room                   \* how many statuses may be ahead of a client

VARIABLES
  active,  \* the schedule in progress
  linked,  \* the connections that are served
  due,     \* the statuses each is still to be told, in order
  gaps     \* those served that may have missed one

fvars == <<active, linked, due, gaps>>

Init ==
  /\ active = NoSchedule /\ linked = {} /\ gaps = {}
  /\ due = [c \in Conn |-> <<>>]

\* Mutant: there is always room.
NeverFull == {}

Full == {c \in linked : Len(due[c]) >= Room}

\* The status is published; some clients miss it.
Tells ==
  /\ \E lost \in SUBSET linked :
       /\ Full \subseteq lost
       /\ gaps' = gaps \cup lost
       /\ due' = [c \in Conn |-> IF c \in linked \ lost THEN Append(due[c], active')
                                                        ELSE due[c]]
  /\ UNCHANGED linked

\* The schedule ends, or one begins.
Turn ==
  /\ active' \in IF active = NoSchedule THEN Schedule ELSE {NoSchedule}
  /\ Tells

\* Clients miss results.
Misses ==
  /\ gaps' \in SUBSET linked /\ gaps \subseteq gaps'
  /\ UNCHANGED <<active, linked, due>>

Joins(c) ==
  /\ c \notin linked
  /\ linked' = linked \cup {c}
  /\ due' = [due EXCEPT ![c] = <<active>>]
  /\ UNCHANGED <<active, gaps>>

Receives(c) ==
  /\ due[c] # <<>>
  /\ due' = [due EXCEPT ![c] = Tail(@)]
  /\ UNCHANGED <<active, linked, gaps>>

Leaves(c) ==
  /\ c \in linked
  /\ linked' = linked \ {c} /\ gaps' = gaps \ {c}
  /\ due' = [due EXCEPT ![c] = <<>>]
  /\ UNCHANGED active

Next == Turn \/ Misses \/ \E c \in Conn : Joins(c) \/ Receives(c) \/ Leaves(c)

Spec == Init /\ [][Next]_fvars
===============================================================================
