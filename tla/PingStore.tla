------------------------------ MODULE PingStore -------------------------------
(***************************************************************************)
(* Targets and ping logs in SQLite, shared by the REST use cases and by    *)
(* the cycles of pings.                                                    *)
(*                                                                         *)
(* Every repository method is one critical section of Database.cursor():   *)
(* it runs under the lock and commits before it releases it, so a method   *)
(* is one action here.  A use case is several methods.  The use cases of   *)
(* the REST routes run to their end on the event-loop thread, so they never *)
(* interleave with one another; PingTargetsUseCase.execute() also runs on  *)
(* executor threads, and interleaves with everything.                      *)
(*                                                                         *)
(* A definition marked "Mutant" is a plausible bug in the one that follows. *)
(***************************************************************************)
EXTENDS Naturals, Sequences, SequencesExt

CONSTANTS
  Target,      \* the ids TargetId.generate() can draw; none is drawn twice
  Thread,      \* threads that run use cases
  EventLoop,   \* the one that runs the REST routes
  Selection,   \* the non-empty target_ids a PingRunRequest may hold
  MaxTime,     \* bound: the last reading of the clock
  MaxLogs,     \* bound: cycles begin only below this number of log rows
  Faults       \* whether SQLite may fail and the process may die

ASSUME StoreAssumption ==
  /\ EventLoop \in Thread
  /\ Selection \subseteq Seq(Target) \ {<<>>}
  /\ MaxTime \in Nat /\ MaxLogs \in Nat
  /\ Faults \in BOOLEAN

VARIABLES
  db,     \* the tables as the only connection sees them
  disk,   \* the tables as last committed
  now,    \* the clock
  at,     \* what each thread is executing, after its last repository method
  drawn,  \* history: ids TargetId.generate() has drawn
  kept,   \* history: ids whose creation was acknowledged, and no delete begun
  gone,   \* history: ids whose deletion was acknowledged
  wiped   \* history: ids whose logs a delete has cleared

history == <<drawn, kept, gone, wiped>>
vars == <<db, disk, now, at, history>>

\* A row of ping_logs: its AUTOINCREMENT id, target_id and sent_at.
Log == [n : Nat, target : Target, sent : 0..MaxTime]

Place == {"idle", "updating", "clearing", "deleting", "wiping", "reading",
          "resolving", "persisting"}

Idle == [place |-> "idle", id |-> {}, want |-> <<>>, todo |-> <<>>,
         sent |-> 0, done |-> 0]

Init ==
  /\ db = [ids |-> {}, logs |-> {}, last |-> 0] /\ disk = db
  /\ now = 0
  /\ at = [th \in Thread |-> Idle]
  /\ drawn = {} /\ kept = {} /\ gone = {} /\ wiped = {}

-------------------------------------------------------------------------------
(* Database.cursor().                                                      *)

\* Mutant: the method returns without committing.
CommitsLate(new) == db' = new /\ UNCHANGED disk

\* A method that leaves the tables as new: whatever the open transaction holds
\* is committed with it.
Commits(new) == db' = new /\ disk' = new

\* A statement or the commit raises.  cursor() does not roll back: what the
\* statement did stays in the open transaction, unless SQLite itself gave the
\* transaction up.
Raises(new) == Faults /\ db' \in {db, new, disk} /\ UNCHANGED disk

Goes(th, place) == at' = [at EXCEPT ![th] = place]

\* Mutant: an exception is swallowed and the use case goes on.
MethodSwallows(th, new, place) == (Commits(new) \/ Raises(new)) /\ Goes(th, place)

\* A method after which thread th is at place, or the use case ends in an error.
Method(th, new, place) == \/ Commits(new) /\ Goes(th, place)
                          \/ Raises(new) /\ Goes(th, Idle)

-------------------------------------------------------------------------------
(* The REST use cases.                                                     *)

\* Mutant: sync routes, which FastAPI runs on a thread pool.
RestAnywhere(th) == at[th] = Idle

\* async routes: one use case at a time, on the event-loop thread.
RestFree(th) == th = EventLoop /\ at[th] = Idle

At(th, place) == at[th].place = place

Create(th) ==
  /\ RestFree(th)
  /\ \E id \in Target \ drawn :
       /\ drawn' = drawn \cup {id}
       /\ \/ Commits([db EXCEPT !.ids = @ \cup {id}]) /\ kept' = kept \cup {id}
          \/ Raises([db EXCEPT !.ids = @ \cup {id}]) /\ UNCHANGED kept
  /\ UNCHANGED <<now, at, gone, wiped>>

UpdateFinds(th) ==
  /\ RestFree(th)
  /\ \E id \in Target :
       Method(th, db, IF id \in db.ids
                      THEN [Idle EXCEPT !.place = "updating", !.id = {id}] ELSE Idle)
  /\ UNCHANGED <<now, history>>

\* save() inserts the row if it is not there.
UpdateSaves(th) ==
  /\ At(th, "updating")
  /\ \/ Method(th, [db EXCEPT !.ids = @ \cup at[th].id], Idle)
     \/ Goes(th, Idle) /\ UNCHANGED <<db, disk>>   \* the new name or host is invalid
  /\ UNCHANGED <<now, history>>

DeleteChecks(th) ==
  /\ RestFree(th)
  /\ \E id \in Target :
       Method(th, db, IF id \in db.ids
                      THEN [Idle EXCEPT !.place = "clearing", !.id = {id}] ELSE Idle)
  /\ UNCHANGED <<now, history>>

Without(ids) == {l \in db.logs : l.target \notin ids}

DeleteClears(th) ==
  /\ At(th, "clearing")
  /\ Method(th, [db EXCEPT !.logs = Without(at[th].id)],
            [at[th] EXCEPT !.place = "deleting"])
  /\ wiped' = wiped \cup at[th].id
  /\ UNCHANGED <<now, drawn, kept, gone>>

DeleteAllClears(th) ==
  /\ RestFree(th)
  /\ Method(th, [db EXCEPT !.logs = {}], [Idle EXCEPT !.place = "wiping"])
  /\ wiped' = Target
  /\ UNCHANGED <<now, drawn, kept, gone>>

\* delete(id), or delete_all().
DeleteRows(th) ==
  /\ At(th, "deleting") \/ At(th, "wiping")
  /\ LET ids == IF At(th, "wiping") THEN db.ids ELSE at[th].id
         new == [db EXCEPT !.ids = @ \ ids]
     IN /\ \/ Commits(new) /\ gone' = gone \cup ids
           \/ Raises(new) /\ UNCHANGED gone
        /\ kept' = kept \ ids
  /\ Goes(th, Idle)
  /\ UNCHANGED <<now, drawn, wiped>>

LogsChecks(th) ==
  /\ RestFree(th)
  /\ \E id \in Target :
       Method(th, db, IF id \in db.ids
                      THEN [Idle EXCEPT !.place = "reading", !.id = {id}] ELSE Idle)
  /\ UNCHANGED <<now, history>>

\* find_by_target(id), and the other single reads: find_all(), find_by_id().
Reads(th) ==
  /\ At(th, "reading") \/ RestFree(th)
  /\ Method(th, db, Idle)
  /\ UNCHANGED <<now, history>>

Rest(th) == \/ Create(th) \/ UpdateFinds(th) \/ UpdateSaves(th)
            \/ DeleteChecks(th) \/ DeleteClears(th) \/ DeleteAllClears(th)
            \/ DeleteRows(th) \/ LogsChecks(th) \/ Reads(th)

-------------------------------------------------------------------------------
(* PingTargetsUseCase.execute(): a cycle, or a one-shot run.               *)

Resolving(want, todo) == [Idle EXCEPT !.place = "resolving", !.want = want, !.todo = todo]

\* No target_ids: find_all().  Its order (by creation) is not modelled.
ResolvesAll(th) ==
  /\ at[th] = Idle /\ db.last < MaxLogs
  /\ \E todo \in SetToSeqs(db.ids) : Method(th, db, Resolving(<<>>, todo))
  /\ UNCHANGED <<now, history>>

Begins(th) ==
  /\ at[th] = Idle /\ db.last < MaxLogs
  /\ \E want \in Selection : Goes(th, Resolving(want, <<>>))
  /\ UNCHANGED <<db, disk, now, history>>

\* Mutant: target ids are taken as they come.
Trusted(id) == <<id>>

\* What find_by_id(id) adds to the targets resolved.
Found(id) == IF id \in db.ids THEN <<id>> ELSE <<>>

ResolvesNext(th) ==
  /\ At(th, "resolving") /\ at[th].want # <<>>
  /\ Method(th, db, Resolving(Tail(at[th].want), at[th].todo \o Found(Head(at[th].want))))
  /\ UNCHANGED <<now, history>>

\* No target: return [].  Otherwise read the clock and ping them all, which
\* touches nothing here.
Pings(th) ==
  /\ At(th, "resolving") /\ at[th].want = <<>>
  /\ Goes(th, IF at[th].todo = <<>> THEN Idle
              ELSE [at[th] EXCEPT !.place = "persisting", !.sent = now])
  /\ UNCHANGED <<db, disk, now, history>>

\* Mutant: row ids are not counted on.
AppendedUncounted(id, sent) ==
  [db EXCEPT !.logs = @ \cup {[n |-> db.last + 1, target |-> id, sent |-> sent]}]

\* The tables with one more log row; AUTOINCREMENT never reuses an id.
Appended(id, sent) ==
  [db EXCEPT !.logs = @ \cup {[n |-> db.last + 1, target |-> id, sent |-> sent]},
             !.last = @ + 1]

\* append_many() of the next target's log; each cycle sends one ping a target.
Persists(th) ==
  /\ At(th, "persisting") /\ at[th].done < Len(at[th].todo)
  /\ Method(th, Appended(at[th].todo[at[th].done + 1], at[th].sent),
            [at[th] EXCEPT !.done = @ + 1])
  /\ UNCHANGED <<now, history>>

\* The results are returned, to be published.
Returns(th) ==
  /\ At(th, "persisting") /\ at[th].done = Len(at[th].todo)
  /\ Goes(th, Idle)
  /\ UNCHANGED <<db, disk, now, history>>

Run(th) == \/ ResolvesAll(th) \/ Begins(th) \/ ResolvesNext(th) \/ Pings(th)
           \/ Persists(th) \/ Returns(th)

-------------------------------------------------------------------------------
Ticks == /\ now < MaxTime
         /\ now' = now + 1
         /\ UNCHANGED <<db, disk, at, history>>

\* The process dies and is started again: the open transaction is lost.
Crash == /\ Faults
         /\ db' = disk
         /\ at' = [th \in Thread |-> Idle]
         /\ UNCHANGED <<disk, now, history>>

Next == (\E th \in Thread : Rest(th) \/ Run(th)) \/ Ticks \/ Crash

Spec == Init /\ [][Next]_vars

-------------------------------------------------------------------------------
(* Properties.                                                             *)

Tables == [ids : SUBSET Target, logs : SUBSET Log, last : Nat]

(* The tables, the clock and the threads have their types; every log row has  *)
(* an id of its own, from those counted so far.                               *)
TypeOK ==
  /\ db \in Tables /\ disk \in Tables
  /\ \A l, k \in db.logs : l.n \in 1..db.last /\ (l.n = k.n => l = k)
  /\ now \in 0..MaxTime
  /\ at \in [Thread -> [place : Place, id : SUBSET Target, want : Seq(Target),
                        todo : Seq(Target), sent : 0..MaxTime, done : Nat]]
  /\ drawn \subseteq Target /\ kept \subseteq drawn /\ gone \subseteq drawn
  /\ wiped \subseteq Target

(* A target whose creation was acknowledged is on disk until its deletion    *)
(* is asked for: no failed operation of another use case, no transaction     *)
(* left open and no crash loses it.                                          *)
CreatedStays == kept \subseteq disk.ids

(* A target whose deletion was acknowledged never comes back: neither from   *)
(* an update that had found it before (save() would insert it again), nor    *)
(* from a transaction left open, nor after a crash.                          *)
DeletedStaysGone == gone \cap (db.ids \cup disk.ids) = {}

(* A result is returned, and so published to the clients, only when its log  *)
(* is on disk; a delete is the only thing that may have removed it again.    *)
ReportedIsLogged ==
  \A th \in Thread : At(th, "persisting") =>
    \A i \in 1..at[th].done :
      \/ at[th].todo[i] \in wiped
      \/ \E l \in disk.logs : l.target = at[th].todo[i] /\ l.sent = at[th].sent

(* A deleted target that no cycle in progress holds is never pinged or       *)
(* logged again, whatever ids a schedule names.                              *)
NotPickedUpAgain ==
  [][\A id \in gone : (\A th \in Thread : id \notin ToSet(at[th].todo))
        => (\A th \in Thread : id \notin ToSet(at'[th].todo))]_vars

(* Deleting a target deletes its logs.                                       *)
NoOrphanLogs == \A l \in disk.logs : l.target \notin gone
===============================================================================
