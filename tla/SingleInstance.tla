---------------------------- MODULE SingleInstance ----------------------------
(***************************************************************************)
(* Launches of the desktop application on one machine: each looks for a    *)
(* server that is already running and opens the browser on it, or becomes  *)
(* a server itself.  The processes share only the record instance.json and *)
(* the TCP ports.                                                          *)
(*                                                                         *)
(* A definition marked "Mutant" is a plausible bug in the next one.        *)
(***************************************************************************)
EXTENDS FiniteSets

CONSTANTS
  Proc,        \* slots for processes
  Port,        \* TCP ports
  Preferred,   \* COMMUNICATION_HEALTH_CHECKER_PORT, 8765
  Foreign,     \* ports another program listens on
  NoPort,      \* no record, no port
  MayOverlap,  \* whether processes start and exit at the same time
  MayForce,    \* whether COMMUNICATION_HEALTH_CHECKER_FORCE_NEW may be set
  MayBlock,    \* whether a server's event loop may be blocked by a one-shot run
  MayFail      \* whether the operating system may refuse access to the record

ASSUME InstanceAssumption ==
  /\ Preferred \in Port /\ NoPort \notin Port
  /\ Foreign \subseteq Port /\ Port # Foreign \cup {Preferred}
  /\ {MayOverlap, MayForce, MayBlock, MayFail} \subseteq BOOLEAN

VARIABLES
  file,     \* the port in instance.json
  pc,       \* where each process stands in main()
  probe,    \* the candidate ports each has still to probe
  port,     \* the port each has chosen
  blocked,  \* servers whose event loop is inside a one-shot run
  killed,     \* history: processes killed since they were launched
  unrecorded, \* history: those that could not write the record
  disturbed   \* history: whether a process launched or stopped while another
              \* was between two steps, or beside another on demand; or a
              \* blocked server was taken for dead; or a process launched
              \* without the record that leads to a server elsewhere

vars == <<file, pc, probe, port, blocked, killed, unrecorded, disturbed>>

Init ==
  /\ file = NoPort /\ disturbed = FALSE
  /\ blocked = {} /\ killed = {} /\ unrecorded = {}
  /\ pc = [p \in Proc |-> "off"]
  /\ probe = [p \in Proc |-> {}]
  /\ port = [p \in Proc |-> NoPort]

Serving(p) == pc[p] = "serving"
Quiet      == \A p \in Proc : pc[p] \in {"off", "serving"}
Bound(n) == n \in Foreign \/ \E q \in Proc : Serving(q) /\ port[q] = n

\* Mutant: the default port alone is probed.
DefaultOnly(info) == {Preferred}

\* existing_instance_url()'s candidates.
Candidates(info) == ({info} \ {NoPort}) \cup {Preferred}

\* read_instance(): a record that is being written over, or cannot be read, is
\* no record.
Readable ==
  {file} \cup {n \in {NoPort} : MayFail \/ \E q \in Proc : pc[q] = "writing"}

\* Whether info does not lead to some server that the default port does not
\* lead to either, be it that it could not be read or that it was not written.
Astray(info) ==
  \E q \in Proc : Serving(q) /\ port[q] # Preferred /\ (q \in unrecorded \/ info # file)

Launch(p) ==
  /\ pc[p] = "off"
  /\ MayOverlap \/ Quiet
  /\ \E info \in Readable :
       /\ probe' = [probe EXCEPT ![p] = Candidates(info)]
       /\ disturbed' = (disturbed \/ ~Quiet \/ Astray(info))
  /\ pc' = [pc EXCEPT ![p] = "probing"]
  /\ killed' = killed \ {p}
  /\ UNCHANGED <<file, port, blocked, unrecorded>>

\* FORCE_NEW: the search is skipped.
LaunchForced(p) ==
  /\ MayForce /\ pc[p] = "off"
  /\ MayOverlap \/ Quiet
  /\ disturbed' = (disturbed \/ \E q \in Proc : pc[q] # "off")
  /\ pc' = [pc EXCEPT ![p] = "choosing"]
  /\ killed' = killed \ {p}
  /\ UNCHANGED <<file, probe, port, blocked, unrecorded>>

\* The health check of one candidate is answered within its timeout.  (The
\* record's port is tried first; the order cannot change the outcome here.)
Alive(n) == \E q \in Proc : Serving(q) /\ port[q] = n /\ q \notin blocked

\* A server answers: open the browser on it, and exit.
Finds(p) ==
  /\ pc[p] = "probing" /\ \E n \in probe[p] : Alive(n)
  /\ pc' = [pc EXCEPT ![p] = "off"]
  /\ probe' = [probe EXCEPT ![p] = {}]
  /\ UNCHANGED <<file, port, blocked, killed, unrecorded, disturbed>>

Misses(p) ==
  /\ pc[p] = "probing"
  /\ \E n \in probe[p] :
       /\ ~Alive(n)
       /\ probe' = [probe EXCEPT ![p] = @ \ {n}]
       /\ disturbed' = (disturbed \/ \E q \in blocked : port[q] = n)
  /\ pc' = [pc EXCEPT ![p] = IF probe'[p] = {} THEN "choosing" ELSE @]
  /\ UNCHANGED <<file, port, blocked, killed, unrecorded>>

\* Mutant: no other port is tried.
ChoosesDefault(p) ==
  /\ pc[p] = "choosing"
  /\ port' = [port EXCEPT ![p] = Preferred]
  /\ pc' = [pc EXCEPT ![p] = "writing"]
  /\ UNCHANGED <<file, probe, blocked, killed, unrecorded, disturbed>>

\* _find_free_port(): the socket that tried the port is closed again.
Chooses(p) ==
  /\ pc[p] = "choosing"
  /\ \E n \in IF Bound(Preferred) THEN {m \in Port : ~Bound(m)} ELSE {Preferred} :
       port' = [port EXCEPT ![p] = n]
  /\ pc' = [pc EXCEPT ![p] = "writing"]
  /\ UNCHANGED <<file, probe, blocked, killed, unrecorded, disturbed>>

\* Mutant: the default port is recorded, not the chosen one.
WritesDefault(p) ==
  /\ pc[p] = "writing"
  /\ file' = Preferred
  /\ pc' = [pc EXCEPT ![p] = "starting"]
  /\ UNCHANGED <<probe, port, blocked, killed, unrecorded, disturbed>>

\* write_instance(): an OSError, which may leave the file as it was or cut
\* short, is ignored.
Writes(p) ==
  /\ pc[p] = "writing"
  /\ \/ file' = port[p] /\ UNCHANGED unrecorded
     \/ MayFail /\ file' \in {file, NoPort} /\ unrecorded' = unrecorded \cup {p}
  /\ pc' = [pc EXCEPT ![p] = "starting"]
  /\ UNCHANGED <<probe, port, blocked, killed, disturbed>>

\* server.run() binds the port, or exits because it was taken in between.
Binds(p) ==
  /\ pc[p] = "starting"
  /\ pc' = [pc EXCEPT ![p] = IF Bound(port[p]) THEN "exiting" ELSE "serving"]
  /\ UNCHANGED <<file, probe, port, blocked, killed, unrecorded, disturbed>>

\* A one-shot run keeps the event loop longer than the health check waits; its
\* pings time out in the end.
Blocks(p) ==
  /\ MayBlock /\ Serving(p) /\ p \notin blocked
  /\ blocked' = blocked \cup {p}
  /\ UNCHANGED <<file, pc, probe, port, killed, unrecorded, disturbed>>

Unblocks(p) ==
  /\ p \in blocked
  /\ blocked' = blocked \ {p}
  /\ UNCHANGED <<file, pc, probe, port, killed, unrecorded, disturbed>>

\* Mutant: a server stops while its event loop is blocked.
StopsAnyhow(p) ==
  /\ Serving(p)
  /\ pc' = [pc EXCEPT ![p] = "exiting"]
  /\ UNCHANGED <<file, probe, port, blocked, killed, unrecorded, disturbed>>

\* POST /system/shutdown, or Ctrl+C: the server stops listening.
Stops(p) ==
  /\ Serving(p) /\ p \notin blocked
  /\ MayOverlap \/ Quiet
  /\ disturbed' = (disturbed \/ ~Quiet)
  /\ pc' = [pc EXCEPT ![p] = "exiting"]
  /\ UNCHANGED <<file, probe, port, blocked, killed, unrecorded>>

\* main()'s finally clause: clear_instance(), whoever's record it is; an OSError
\* is ignored.
Clears(p) ==
  /\ pc[p] = "exiting"
  /\ file' \in {NoPort} \cup {n \in {file} : MayFail}
  /\ pc' = [pc EXCEPT ![p] = "off"]
  /\ port' = [port EXCEPT ![p] = NoPort]
  /\ unrecorded' = unrecorded \ {p}
  /\ UNCHANGED <<probe, blocked, killed, disturbed>>

\* The process is killed: its record stays.
Dies(p) ==
  /\ pc[p] # "off"
  /\ pc' = [pc EXCEPT ![p] = "off"]
  /\ probe' = [probe EXCEPT ![p] = {}]
  /\ port' = [port EXCEPT ![p] = NoPort]
  /\ blocked' = blocked \ {p} /\ unrecorded' = unrecorded \ {p}
  /\ killed' = killed \cup {p}
  /\ UNCHANGED <<file, disturbed>>

Steps(p) == Finds(p) \/ Misses(p) \/ Chooses(p) \/ Writes(p) \/ Binds(p) \/ Clears(p)

Next == \E p \in Proc : \/ Launch(p) \/ LaunchForced(p) \/ Steps(p)
                        \/ Blocks(p) \/ Unblocks(p) \/ Stops(p) \/ Dies(p)

Spec == Init /\ [][Next]_vars

\* A process that was launched runs on unless it is killed.
FairSpec == Spec /\ \A p \in Proc : WF_vars(Steps(p))

-------------------------------------------------------------------------------
(* Properties.                                                             *)

(* The record, the processes and their ports have their types.              *)
TypeOK ==
  /\ file \in Port \cup {NoPort}
  /\ pc \in [Proc -> {"off", "probing", "choosing", "writing", "starting",
                      "serving", "exiting"}]
  /\ probe \in [Proc -> SUBSET Port]
  /\ port \in [Proc -> Port \cup {NoPort}]
  /\ blocked \subseteq {p \in Proc : Serving(p)} /\ killed \subseteq Proc
  /\ unrecorded \subseteq {p \in Proc : pc[p] \in {"starting", "serving", "exiting"}}

(* A launch never adds a second server to the one that is running.          *)
SingleServer == \A p, q \in Proc : Serving(p) /\ Serving(q) => p = q

(* Nor does it as long as processes start and exit one after another, none   *)
(* is told to start beside a server, a running server answers, and none      *)
(* starts without the record of a server that is not on the default port:    *)
(* whatever was killed before, whatever record was left behind, written in   *)
(* part or impossible to remove, also when another program has the default   *)
(* port.                                                                     *)
SingleUndisturbed == disturbed \/ SingleServer

(* Under the same condition a server that could write its record can be found *)
(* by the next launch: it is on the default port, or on the recorded one.     *)
FindableUndisturbed ==
  disturbed \/ \A p \in Proc : Serving(p) => p \in unrecorded \/ port[p] \in {file, Preferred}

(* A launch leads to a server, its own or another's, unless it is killed:    *)
(* neither a stale record nor a port lost to another launch leaves the user  *)
(* without one.                                                              *)
LaunchServed ==
  \A p \in Proc : pc[p] \in {"probing", "choosing"} ~> (p \in killed \/ \E q \in Proc : Serving(q))
===============================================================================
