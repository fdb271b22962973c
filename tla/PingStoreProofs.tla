---------------------------- MODULE PingStoreProofs ----------------------------
(* Theorems about PingStore, for every value of its constants. *)
EXTENDS PingStore, FiniteSetTheorems, TLAPS

-------------------------------------------------------------------------------
(* Transactions.                                                           *)

(* Some of the targets; an infinite set of ids leaves infinitely many to draw. *)
Targets == {ids \in SUBSET Target : IsFiniteSet(ids)}

(* Tables that hold what they may, each log row under an id of its own, from   *)
(* those counted so far.                                                      *)
Sound(tables) ==
  /\ tables \in [ids : Targets, logs : SUBSET Log, last : Nat]
  /\ \A l, k \in tables.logs : l.n \in 1..tables.last /\ (l.n = k.n => l = k)

Process == [place : Place, id : Targets, want : Seq(Target), todo : Seq(Target),
            sent : 0..MaxTime, done : Nat]

Types ==
  /\ Sound(db) /\ Sound(disk)
  /\ now \in 0..MaxTime
  /\ at \in [Thread -> Process]
  /\ drawn \subseteq Target /\ wiped \subseteq Target

LEMMA TargetsFacts ==
  /\ {} \in Targets
  /\ \A id \in Target : {id} \in Targets
  /\ \A S, T \in Targets : S \cup T \in Targets /\ S \ T \in Targets
<1>1. {} \in Targets
  BY FS_EmptySet DEF Targets
<1>2. ASSUME NEW id \in Target PROVE {id} \in Targets
  BY FS_Singleton DEF Targets
<1>3. ASSUME NEW S \in Targets, NEW T \in Targets
      PROVE  S \cup T \in Targets /\ S \ T \in Targets
  <2>1. IsFiniteSet(S) /\ IsFiniteSet(T) /\ S \subseteq Target /\ T \subseteq Target
    BY DEF Targets
  <2>2. IsFiniteSet(S \cup T)
    BY <2>1, FS_Union
  <2>3. IsFiniteSet(S \ T)
    BY <2>1, FS_Difference
  <2> QED BY <2>1, <2>2, <2>3 DEF Targets
<1> QED BY <1>1, <1>2, <1>3

LEMMA IdleProcess == Idle \in Process
BY StoreAssumption, TargetsFacts DEF Idle, Process, Place

(* A transaction leaves the tables as they were, as it meant to, or as they    *)
(* were committed last; on disk it leaves what it meant to, or nothing.        *)
LEMMA Outcomes ==
  ASSUME NEW new, Commits(new) \/ Raises(new)
  PROVE  db' \in {db, new, disk} /\ disk' \in {disk, new}
BY DEF Commits, Raises

(* The changes of the tables that methods mean to make. *)
LEMMA ChangesSound ==
  ASSUME Sound(db)
  PROVE  /\ \A ids \in Targets : /\ Sound([db EXCEPT !.ids = @ \cup ids])
                                 /\ Sound([db EXCEPT !.ids = @ \ ids])
                                 /\ Sound([db EXCEPT !.logs = Without(ids)])
         /\ Sound([db EXCEPT !.logs = {}])
         /\ \A id \in Target, sent \in 0..MaxTime : Sound(Appended(id, sent))
<1>1. ASSUME NEW ids \in Targets
      PROVE  /\ Sound([db EXCEPT !.ids = @ \cup ids])
             /\ Sound([db EXCEPT !.ids = @ \ ids])
             /\ Sound([db EXCEPT !.logs = Without(ids)])
  BY TargetsFacts DEF Sound, Without
<1>2. Sound([db EXCEPT !.logs = {}])
  BY DEF Sound
<1>3. ASSUME NEW id \in Target, NEW sent \in 0..MaxTime PROVE Sound(Appended(id, sent))
  <2> DEFINE new == Appended(id, sent)
             row == [n |-> db.last + 1, target |-> id, sent |-> sent]
  <2>1. db.last \in Nat /\ row \in Log
    BY DEF Sound, Log
  <2>2. /\ new \in [ids : Targets, logs : SUBSET Log, last : Nat]
        /\ new.logs = db.logs \cup {row} /\ new.last = db.last + 1
    <3>1. new = [db EXCEPT !.logs = @ \cup {row}, !.last = @ + 1]
      BY DEF Appended
    <3>2. db \in [ids : Targets, logs : SUBSET Log, last : Nat] /\ db.last + 1 \in Nat
      BY DEF Sound
    <3> HIDE DEF row, new
    <3> QED BY <2>1, <3>1, <3>2
  <2>3. \A l \in db.logs : l.n \in 1..db.last
    BY DEF Sound
  <2>4. \A l \in new.logs : l.n \in 1..new.last
    BY <2>1, <2>2, <2>3
  <2>5. \A l, k \in new.logs : l.n = k.n => l = k
    <3>1. \A l \in db.logs : l.n # row.n
      BY <2>1, <2>3
    <3> QED BY <2>2, <3>1 DEF Sound
  <2> QED BY <2>2, <2>4, <2>5 DEF Sound
<1> QED BY <1>1, <1>2, <1>3

-------------------------------------------------------------------------------
(* Type correctness.                                                       *)

LEMMA TransactionTypes ==
  ASSUME Types, NEW new, Sound(new), Commits(new) \/ Raises(new)
  PROVE  Sound(db)' /\ Sound(disk)'
<1>1. db' \in {db, new, disk} /\ disk' \in {disk, new}
  BY Outcomes
<1> QED BY <1>1 DEF Types

LEMMA MethodTypes ==
  ASSUME Types, NEW th \in Thread, NEW new, Sound(new), NEW place \in Process,
         Method(th, new, place)
  PROVE  Sound(db)' /\ Sound(disk)' /\ at' \in [Thread -> Process]
<1>1. Commits(new) \/ Raises(new)
  BY DEF Method
<1>2. at' \in [Thread -> Process]
  BY IdleProcess DEF Method, Goes, Types
<1> QED BY <1>1, <1>2, TransactionTypes

LEMMA RestTypes ==
  ASSUME Types, NEW th \in Thread, Rest(th)
  PROVE  Types'
<1> USE DEF Types, history
<1>p. at[th] \in Process
  OBVIOUS
<1>1. CASE Create(th)
  <2>1. PICK id \in Target \ drawn :
          /\ drawn' = drawn \cup {id}
          /\ \/ Commits([db EXCEPT !.ids = @ \cup {id}])
             \/ Raises([db EXCEPT !.ids = @ \cup {id}])
    BY <1>1 DEF Create
  <2>2. Sound([db EXCEPT !.ids = @ \cup {id}])
    BY ChangesSound, TargetsFacts
  <2>3. Sound(db)' /\ Sound(disk)'
    BY <2>1, <2>2, TransactionTypes
  <2> QED BY <1>1, <2>1, <2>3 DEF Create
<1>2. CASE UpdateFinds(th) \/ DeleteChecks(th) \/ LogsChecks(th)
  <2>1. PICK id \in Target, place \in {"updating", "clearing", "reading"} :
          Method(th, db, IF id \in db.ids
                         THEN [Idle EXCEPT !.place = place, !.id = {id}] ELSE Idle)
    BY <1>2 DEF UpdateFinds, DeleteChecks, LogsChecks
  <2>2. [Idle EXCEPT !.place = place, !.id = {id}] \in Process
    BY IdleProcess, TargetsFacts DEF Process, Place
  <2>3. Sound(db)' /\ Sound(disk)' /\ at' \in [Thread -> Process]
    BY <2>1, <2>2, IdleProcess, MethodTypes
  <2> QED BY <1>2, <2>3 DEF UpdateFinds, DeleteChecks, LogsChecks
<1>3. CASE UpdateSaves(th)
  <2>1. CASE Method(th, [db EXCEPT !.ids = @ \cup at[th].id], Idle)
    <3>1. Sound([db EXCEPT !.ids = @ \cup at[th].id])
      BY <1>p, ChangesSound DEF Process
    <3> QED BY <1>3, <2>1, <3>1, IdleProcess, MethodTypes DEF UpdateSaves
  <2>2. CASE Goes(th, Idle) /\ UNCHANGED <<db, disk>>
    BY <1>3, <2>2, IdleProcess DEF UpdateSaves, Goes, Sound
  <2> QED BY <1>3, <2>1, <2>2 DEF UpdateSaves
<1>4. CASE DeleteClears(th)
  <2>1. Sound([db EXCEPT !.logs = Without(at[th].id)])
    BY <1>p, ChangesSound DEF Process
  <2>2. [at[th] EXCEPT !.place = "deleting"] \in Process
    BY <1>p DEF Process, Place
  <2>3. at[th].id \subseteq Target
    BY <1>p DEF Process, Targets
  <2> QED BY <1>4, <2>1, <2>2, <2>3, MethodTypes DEF DeleteClears
<1>5. CASE DeleteAllClears(th)
  <2>1. [Idle EXCEPT !.place = "wiping"] \in Process
    BY IdleProcess DEF Process, Place
  <2> QED BY <1>5, <2>1, ChangesSound, MethodTypes DEF DeleteAllClears
<1>6. CASE DeleteRows(th)
  <2> DEFINE ids == IF At(th, "wiping") THEN db.ids ELSE at[th].id
             new == [db EXCEPT !.ids = @ \ ids]
  <2>1. ids \in Targets
    BY <1>p DEF Sound, Process
  <2>2. Sound(new)
    BY <2>1, ChangesSound
  <2>3. Commits(new) \/ Raises(new)
    BY <1>6 DEF DeleteRows
  <2>4. Sound(db)' /\ Sound(disk)'
    BY <2>2, <2>3, TransactionTypes
  <2> QED BY <1>6, <2>4, IdleProcess DEF DeleteRows, Goes
<1>7. CASE Reads(th)
  BY <1>7, IdleProcess, MethodTypes DEF Reads
<1> QED BY <1>1, <1>2, <1>3, <1>4, <1>5, <1>6, <1>7 DEF Rest

LEMMA SeqsOfTargets ==
  ASSUME NEW ids \in Targets, NEW todo \in SetToSeqs(ids)
  PROVE  todo \in Seq(Target) /\ \A i \in DOMAIN todo : todo[i] \in ids
<1>1. Cardinality(ids) \in Nat /\ ids \subseteq Target
  BY FS_CardinalityType DEF Targets
<1>2. todo \in [1..Cardinality(ids) -> ids]
  BY DEF SetToSeqs
<1> QED BY <1>1, <1>2

LEMMA ResolvingProcess ==
  ASSUME NEW want \in Seq(Target), NEW todo \in Seq(Target)
  PROVE  Resolving(want, todo) \in Process
BY IdleProcess DEF Resolving, Process, Place

LEMMA RunTypes ==
  ASSUME Types, NEW th \in Thread, Run(th)
  PROVE  Types'
<1> USE DEF Types, history
<1>p. at[th] \in Process /\ <<>> \in Seq(Target)
  OBVIOUS
<1>1. CASE ResolvesAll(th)
  <2>1. PICK todo \in SetToSeqs(db.ids) : Method(th, db, Resolving(<<>>, todo))
    BY <1>1 DEF ResolvesAll
  <2>2. db.ids \in Targets
    BY DEF Sound
  <2>3. Resolving(<<>>, todo) \in Process
    BY <1>p, <2>2, SeqsOfTargets, ResolvingProcess
  <2> QED BY <1>1, <2>1, <2>3, MethodTypes DEF ResolvesAll
<1>2. CASE Begins(th)
  <2>1. PICK want \in Selection : Goes(th, Resolving(want, <<>>))
    BY <1>2 DEF Begins
  <2>2. Resolving(want, <<>>) \in Process
    BY <1>p, StoreAssumption, ResolvingProcess
  <2> QED BY <1>2, <2>1, <2>2 DEF Begins, Goes, Sound
<1>3. CASE ResolvesNext(th)
  <2> DEFINE id == Head(at[th].want)
  <2>1. /\ at[th].want \in Seq(Target) /\ at[th].want # <<>>
        /\ at[th].todo \in Seq(Target)
    BY <1>p, <1>3 DEF ResolvesNext, Process
  <2>2. id \in Target /\ Tail(at[th].want) \in Seq(Target)
    BY <2>1
  <2>3. Found(id) \in Seq(Target)
    BY <2>2 DEF Found
  <2>4. at[th].todo \o Found(id) \in Seq(Target)
    BY <2>1, <2>3
  <2>5. Resolving(Tail(at[th].want), at[th].todo \o Found(id)) \in Process
    BY <2>2, <2>4, ResolvingProcess
  <2> QED BY <1>3, <2>5, MethodTypes DEF ResolvesNext
<1>4. CASE Pings(th)
  <2>1. [at[th] EXCEPT !.place = "persisting", !.sent = now] \in Process
    BY <1>p DEF Process, Place
  <2> QED BY <1>4, <2>1, IdleProcess DEF Pings, Goes, Sound
<1>5. CASE Persists(th)
  <2>1. at[th].todo[at[th].done + 1] \in Target /\ at[th].sent \in 0..MaxTime
    BY <1>p, <1>5 DEF Persists, Process
  <2>2. [at[th] EXCEPT !.done = @ + 1] \in Process
    <3>1. at[th].done + 1 \in Nat
      BY <1>p DEF Process
    <3> HIDE DEF Types
    <3> QED BY <1>p, <3>1 DEF Process
  <2> QED BY <1>5, <2>1, <2>2, ChangesSound, MethodTypes DEF Persists
<1>6. CASE Returns(th)
  BY <1>6, IdleProcess DEF Returns, Goes, Sound
<1> QED BY <1>1, <1>2, <1>3, <1>4, <1>5, <1>6 DEF Run

LEMMA StepTypes == Types /\ [Next]_vars => Types'
<1> SUFFICES ASSUME Types, [Next]_vars PROVE Types'
  OBVIOUS
<1>1. CASE Ticks
  BY <1>1, StoreAssumption DEF Ticks, history, Types, Sound
<1>2. CASE Crash
  BY <1>2, IdleProcess DEF Crash, history, Types, Sound
<1>3. CASE UNCHANGED vars
  BY <1>3 DEF vars, history, Types, Sound
<1> QED BY <1>1, <1>2, <1>3, RestTypes, RunTypes DEF Next

LEMMA InitTypes == Init => Types
BY StoreAssumption, IdleProcess, TargetsFacts DEF Init, Types, Sound

-------------------------------------------------------------------------------
(* Which targets there are.                                                *)

RestPlace == {"updating", "clearing", "deleting", "wiping", "reading"}

(* Only the event loop is inside a REST use case; every id was drawn; those    *)
(* kept are in the tables, as the connection sees them and on disk, those gone *)
(* in neither, and no update is about to save one of them.                    *)
Ids ==
  /\ \A th \in Thread : /\ at[th].place \in RestPlace => th = EventLoop
                        /\ at[th].id \subseteq drawn
                        /\ At(th, "updating") => at[th].id \cap gone = {}
  /\ db.ids \cup disk.ids \subseteq drawn
  /\ kept \subseteq db.ids \cap disk.ids
  /\ gone \subseteq drawn /\ gone \cap (db.ids \cup disk.ids) = {}

LEMMA InitIds == Init => Ids
BY DEF Init, Ids, Idle, RestPlace, At

(* A method that leaves the ids as they are. *)
LEMMA KeepsIds ==
  ASSUME Types, Ids, NEW th \in Thread, NEW new, NEW place \in Process,
         new.ids = db.ids, Method(th, new, place),
         UNCHANGED <<drawn, kept, gone>>,
         place.place \in RestPlace => th = EventLoop,
         place.id \subseteq drawn,
         place.place = "updating" => place.id \cap gone = {}
  PROVE  Ids'
<1>1. db'.ids \in {db.ids, disk.ids} /\ disk'.ids \in {db.ids, disk.ids}
  BY Outcomes DEF Method, Commits, Raises
<1>2. disk' = disk \/ (disk'.ids = db.ids /\ db'.ids = db.ids)
  BY DEF Method, Commits, Raises
<1>3. at' \in {[at EXCEPT ![th] = place], [at EXCEPT ![th] = Idle]}
  BY DEF Method, Goes
<1>4. at \in [Thread -> Process]
  BY DEF Types
<1>5. \A t \in Thread : at'[t] \in {at[t], place, Idle} /\ (t # th => at'[t] = at[t])
  BY <1>3, <1>4
<1>6. Idle.place = "idle" /\ Idle.id = {}
  BY DEF Idle
<1>7. \A t \in Thread : /\ at'[t].place \in RestPlace => t = EventLoop
                        /\ at'[t].id \subseteq drawn
                        /\ at'[t].place = "updating" => at'[t].id \cap gone = {}
  BY <1>5, <1>6 DEF Ids, RestPlace, At
<1>8. /\ (db.ids \cup disk.ids)' \subseteq drawn
      /\ kept \subseteq (db.ids \cap disk.ids)' /\ gone \cap (db.ids \cup disk.ids)' = {}
  BY <1>1, <1>2 DEF Ids
<1> QED BY <1>7, <1>8 DEF Ids, At

LEMMA RestIds ==
  ASSUME Types, Ids, NEW th \in Thread, Rest(th)
  PROVE  Ids'
<1>p. at[th] \in Process /\ at \in [Thread -> Process]
  BY DEF Types
<1>i. Idle \in Process /\ Idle.place = "idle" /\ Idle.id = {}
  BY IdleProcess DEF Idle
<1>1. CASE Create(th)
  <2>1. PICK id \in Target \ drawn :
          /\ drawn' = drawn \cup {id}
          /\ \/ Commits([db EXCEPT !.ids = @ \cup {id}]) /\ kept' = kept \cup {id}
             \/ Raises([db EXCEPT !.ids = @ \cup {id}]) /\ UNCHANGED kept
    BY <1>1 DEF Create
  <2>2. UNCHANGED <<at, gone>>
    BY <1>1 DEF Create
  <2>3. [db EXCEPT !.ids = @ \cup {id}].ids = db.ids \cup {id}
    BY DEF Types, Sound
  <2> QED BY <2>1, <2>2, <2>3 DEF Ids, At, Commits, Raises
<1>2. CASE UpdateFinds(th) \/ DeleteChecks(th) \/ LogsChecks(th)
  <2>1. PICK id \in Target, place \in {"updating", "clearing", "reading"} :
          Method(th, db, IF id \in db.ids
                         THEN [Idle EXCEPT !.place = place, !.id = {id}] ELSE Idle)
    BY <1>2 DEF UpdateFinds, DeleteChecks, LogsChecks
  <2> DEFINE next == [Idle EXCEPT !.place = place, !.id = {id}]
  <2>2. next \in Process /\ next.place = place /\ next.id = {id}
    BY IdleProcess, TargetsFacts DEF Process, Place
  <2>3. th = EventLoop /\ UNCHANGED <<drawn, kept, gone>>
    BY <1>2 DEF UpdateFinds, DeleteChecks, LogsChecks, RestFree, history
  <2>4. CASE id \in db.ids
    <3>1. {id} \subseteq drawn /\ {id} \cap gone = {}
      BY <2>4 DEF Ids
    <3>2. Method(th, db, next)
      BY <2>1, <2>4
    <3> HIDE DEF next
    <3> QED BY <2>2, <2>3, <3>1, <3>2, KeepsIds
  <2>5. CASE id \notin db.ids
    BY <1>i, <2>1, <2>3, <2>5, KeepsIds
  <2> QED BY <2>4, <2>5
<1>3. CASE UpdateSaves(th)
  <2>1. /\ at' = [at EXCEPT ![th] = Idle] /\ UNCHANGED <<drawn, kept, gone>>
        /\ at[th].id \subseteq drawn /\ at[th].id \cap gone = {}
    BY <1>3 DEF UpdateSaves, Method, Goes, Ids, history
  <2>2. [db EXCEPT !.ids = @ \cup at[th].id].ids = db.ids \cup at[th].id
    BY DEF Types, Sound
  <2>3. /\ db'.ids \in {db.ids, disk.ids, db.ids \cup at[th].id}
        /\ disk' = disk \/ (disk'.ids = db'.ids /\ db'.ids = db.ids \cup at[th].id)
    BY <1>3, <2>2 DEF UpdateSaves, Method, Commits, Raises
  <2> QED BY <1>p, <1>i, <2>1, <2>3 DEF Ids, At, RestPlace
<1>4. CASE DeleteClears(th)
  <2> DEFINE next == [at[th] EXCEPT !.place = "deleting"]
  <2>1. next \in Process /\ next.place = "deleting" /\ next.id = at[th].id
    BY <1>p DEF Process, Place
  <2>2. [db EXCEPT !.logs = Without(at[th].id)].ids = db.ids
    BY DEF Types, Sound
  <2>3. Method(th, [db EXCEPT !.logs = Without(at[th].id)], next)
        /\ UNCHANGED <<drawn, kept, gone>>
    BY <1>4 DEF DeleteClears
  <2>4. th = EventLoop /\ at[th].id \subseteq drawn
    BY <1>4 DEF DeleteClears, Ids, At, RestPlace
  <2> HIDE DEF next
  <2> QED BY <2>1, <2>2, <2>3, <2>4, KeepsIds
<1>5. CASE DeleteAllClears(th)
  <2> DEFINE next == [Idle EXCEPT !.place = "wiping"]
  <2>1. next \in Process /\ next.place = "wiping" /\ next.id = {}
    BY <1>i DEF Process, Place
  <2>2. [db EXCEPT !.logs = {}].ids = db.ids
    BY DEF Types, Sound
  <2>3. Method(th, [db EXCEPT !.logs = {}], next) /\ UNCHANGED <<drawn, kept, gone>>
        /\ th = EventLoop
    BY <1>5 DEF DeleteAllClears, RestFree
  <2> HIDE DEF next
  <2> QED BY <2>1, <2>2, <2>3, KeepsIds
<1>6. CASE DeleteRows(th)
  <2> DEFINE ids == IF At(th, "wiping") THEN db.ids ELSE at[th].id
             new == [db EXCEPT !.ids = @ \ ids]
  <2>1. new.ids = db.ids \ ids /\ ids \subseteq drawn
    BY DEF Types, Sound, Ids
  <2>2. /\ \/ Commits(new) /\ gone' = gone \cup ids
           \/ Raises(new) /\ UNCHANGED gone
        /\ kept' = kept \ ids /\ at' = [at EXCEPT ![th] = Idle] /\ UNCHANGED drawn
    BY <1>6 DEF DeleteRows, Goes
  <2>3. \A t \in Thread : At(t, "updating")' => FALSE
    BY <1>p, <1>i, <1>6, <2>2 DEF DeleteRows, At, Ids, RestPlace
  <2> HIDE DEF ids, new
  <2>4. \A t \in Thread : /\ at'[t].place \in RestPlace => t = EventLoop
                          /\ at'[t].id \subseteq drawn
    BY <1>p, <1>i, <2>2 DEF Ids, RestPlace
  <2>5. /\ (db.ids \cup disk.ids)' \subseteq drawn
        /\ kept' \subseteq (db.ids \cap disk.ids)'
        /\ gone' \subseteq drawn /\ gone' \cap (db.ids \cup disk.ids)' = {}
    <3>1. CASE Commits(new) /\ gone' = gone \cup ids
      BY <2>1, <2>2, <3>1 DEF Commits, Ids
    <3>2. CASE Raises(new) /\ UNCHANGED gone
      BY <2>1, <2>2, <3>2 DEF Raises, Ids
    <3> QED BY <2>2, <3>1, <3>2
  <2> QED BY <2>2, <2>3, <2>4, <2>5 DEF Ids
<1>7. CASE Reads(th)
  BY <1>i, <1>7, KeepsIds DEF Reads, history, RestPlace
<1> QED BY <1>1, <1>2, <1>3, <1>4, <1>5, <1>6, <1>7 DEF Rest

LEMMA ResolvingIds ==
  ASSUME NEW want, NEW todo
  PROVE  Resolving(want, todo).place = "resolving" /\ Resolving(want, todo).id = {}
BY DEF Resolving, Idle

(* A step that moves a thread and leaves the tables alone. *)
LEMMA GoesIds ==
  ASSUME Types, Ids, NEW th \in Thread, NEW place \in Process, Goes(th, place),
         UNCHANGED <<db, disk, drawn, kept, gone>>,
         place.place \notin RestPlace, place.id \subseteq drawn
  PROVE  Ids'
<1>1. at \in [Thread -> Process] /\ at' = [at EXCEPT ![th] = place]
  BY DEF Types, Goes
<1>2. \A t \in Thread : at'[t] \in {at[t], place}
  BY <1>1
<1> QED BY <1>2 DEF Ids, At, RestPlace

LEMMA RunIds ==
  ASSUME Types, Ids, NEW th \in Thread, Run(th)
  PROVE  Ids'
<1> USE DEF history
<1>p. at[th] \in Process /\ <<>> \in Seq(Target) /\ at[th].id \subseteq drawn
  BY DEF Types, Ids
<1>i. Idle \in Process /\ Idle.place = "idle" /\ Idle.id = {}
  BY IdleProcess DEF Idle
<1>1. CASE ResolvesAll(th)
  <2>1. PICK todo \in SetToSeqs(db.ids) : Method(th, db, Resolving(<<>>, todo))
    BY <1>1 DEF ResolvesAll
  <2>2. db.ids \in Targets
    BY DEF Types, Sound
  <2>3. Resolving(<<>>, todo) \in Process
    BY <1>p, <2>2, SeqsOfTargets, ResolvingProcess
  <2> QED BY <1>1, <2>1, <2>3, ResolvingIds, KeepsIds DEF ResolvesAll, RestPlace
<1>2. CASE Begins(th)
  <2>1. PICK want \in Selection : Goes(th, Resolving(want, <<>>))
    BY <1>2 DEF Begins
  <2>2. Resolving(want, <<>>) \in Process
    BY <1>p, StoreAssumption, ResolvingProcess
  <2> QED BY <1>2, <2>1, <2>2, ResolvingIds, GoesIds DEF Begins, RestPlace
<1>3. CASE ResolvesNext(th)
  <2> DEFINE todo == at[th].todo \o Found(Head(at[th].want))
  <2>1. /\ at[th].want \in Seq(Target) /\ at[th].want # <<>>
        /\ at[th].todo \in Seq(Target)
    BY <1>p, <1>3 DEF ResolvesNext, Process
  <2>2. Head(at[th].want) \in Target /\ Tail(at[th].want) \in Seq(Target)
    BY <2>1
  <2>3. Found(Head(at[th].want)) \in Seq(Target)
    BY <2>2 DEF Found
  <2>4. todo \in Seq(Target)
    BY <2>1, <2>3
  <2>5. Resolving(Tail(at[th].want), todo) \in Process
    BY <2>2, <2>4, ResolvingProcess
  <2> QED BY <1>3, <2>5, ResolvingIds, KeepsIds DEF ResolvesNext, RestPlace
<1>4. CASE Pings(th)
  <2> DEFINE next == [at[th] EXCEPT !.place = "persisting", !.sent = now]
  <2>1. next \in Process /\ next.place = "persisting" /\ next.id = at[th].id
    BY <1>p DEF Process, Place, Types
  <2>2. UNCHANGED <<db, disk, drawn, kept, gone>> /\ (Goes(th, Idle) \/ Goes(th, next))
    BY <1>4 DEF Pings
  <2> HIDE DEF next
  <2> QED BY <1>p, <1>i, <2>1, <2>2, GoesIds DEF RestPlace
<1>5. CASE Persists(th)
  <2> DEFINE next == [at[th] EXCEPT !.done = @ + 1]
             new == Appended(at[th].todo[at[th].done + 1], at[th].sent)
  <2>1. next \in Process /\ next.place = at[th].place /\ next.id = at[th].id
    <3>1. at[th].done + 1 \in Nat
      BY <1>p DEF Process
    <3> QED BY <1>p, <3>1 DEF Process
  <2>2. new.ids = db.ids
    BY DEF Types, Sound, Appended
  <2>3. Method(th, new, next) /\ UNCHANGED <<drawn, kept, gone>>
        /\ at[th].place = "persisting"
    BY <1>5 DEF Persists, At
  <2> HIDE DEF next, new
  <2> QED BY <1>p, <2>1, <2>2, <2>3, KeepsIds DEF RestPlace
<1>6. CASE Returns(th)
  BY <1>i, <1>6, GoesIds DEF Returns, RestPlace
<1> QED BY <1>1, <1>2, <1>3, <1>4, <1>5, <1>6 DEF Run

LEMMA StepIds == Types /\ Ids /\ [Next]_vars => Ids'
<1> SUFFICES ASSUME Types, Ids, [Next]_vars PROVE Ids'
  OBVIOUS
<1>1. CASE Ticks
  BY <1>1 DEF Ticks, history, Ids, At
<1>2. CASE Crash
  BY <1>2 DEF Crash, history, Ids, At, Idle, RestPlace
<1>3. CASE UNCHANGED vars
  BY <1>3 DEF vars, history, Ids, At
<1> QED BY <1>1, <1>2, <1>3, RestIds, RunIds DEF Next

-------------------------------------------------------------------------------
(* What is on disk of the results a cycle holds.                           *)

(* The rows in the tables and on disk. *)
Safe == db.logs \cap disk.logs

(* One of the rows is a log of the target, sent then. *)
HasLog(rows, target, sent) == \E l \in rows : l.target = target /\ l.sent = sent

(* A cycle counts a result as persisted once its log is in the tables and on   *)
(* disk: in the tables too, or a later commit would take it off the disk.     *)
Logged ==
  \A th \in Thread :
    /\ ~At(th, "persisting") => at[th].done = 0
    /\ at[th].done <= Len(at[th].todo)
    /\ \A i \in 1..at[th].done :
         at[th].todo[i] \in wiped \/ HasLog(Safe, at[th].todo[i], at[th].sent)

(* Only a delete takes a row from the tables and from the disk. *)
LogsKept ==
  /\ wiped \subseteq wiped'
  /\ \A l \in Safe : l \in Safe' \/ l.target \in wiped'

LEMMA InitLogged == StoreAssumption /\ Init => Logged
BY DEF Init, Logged, At, Idle

(* A step after which no thread has counted another result. *)
LEMMA KeepsLogged ==
  ASSUME Types, Types', Logged, LogsKept,
         \A t \in Thread : at'[t] = at[t] \/ at'[t].done = 0
  PROVE  Logged'
<1>1. ASSUME NEW t \in Thread, at'[t] = at[t]
      PROVE  /\ ~At(t, "persisting")' => at'[t].done = 0
             /\ at'[t].done <= Len(at'[t].todo)
             /\ \A i \in 1..at'[t].done :
                  at'[t].todo[i] \in wiped' \/ HasLog(Safe', at'[t].todo[i], at'[t].sent)
  <2>1. ASSUME NEW i \in 1..at[t].done
        PROVE  at'[t].todo[i] \in wiped' \/ HasLog(Safe', at'[t].todo[i], at'[t].sent)
    <3>1. at[t].todo[i] \in wiped \/ HasLog(Safe, at[t].todo[i], at[t].sent)
      BY DEF Logged
    <3> QED BY <1>1, <3>1 DEF LogsKept, HasLog
  <2> QED BY <1>1, <2>1 DEF Logged, At
<1>2. ASSUME NEW t \in Thread, at'[t].done = 0
      PROVE  at'[t].done <= Len(at'[t].todo) /\ 1..at'[t].done = {}
  <2>1. at'[t].todo \in Seq(Target)
    BY DEF Types, Process
  <2> QED BY <1>2, <2>1
<1> QED BY <1>1, <1>2 DEF Logged

(* A method that leaves out of the tables only rows of targets being deleted. *)
LEMMA MethodLogs ==
  ASSUME NEW new, Commits(new) \/ Raises(new), wiped \subseteq wiped',
         \A l \in db.logs : l \in new.logs \/ l.target \in wiped'
  PROVE  LogsKept
BY Outcomes DEF LogsKept, Safe

(* A method that counts no result. *)
LEMMA MethodLogged ==
  ASSUME Types, Types', Logged, NEW th \in Thread, NEW new, NEW place,
         Method(th, new, place), place.done = 0, wiped \subseteq wiped',
         \A l \in db.logs : l \in new.logs \/ l.target \in wiped'
  PROVE  Logged'
<1>1. LogsKept
  BY MethodLogs DEF Method
<1>2. \A t \in Thread : at'[t] = at[t] \/ at'[t].done = 0
  BY DEF Method, Goes, Types, Idle
<1> QED BY <1>1, <1>2, KeepsLogged

LEMMA RestLogged ==
  ASSUME Types, Types', Logged, NEW th \in Thread, Rest(th)
  PROVE  Logged'
<1> USE DEF history
<1>p. at[th] \in Process /\ at \in [Thread -> Process] /\ Sound(db)
  BY DEF Types
<1>i. Idle.done = 0
  BY DEF Idle
<1>1. CASE Create(th)
  <2>1. PICK id \in Target : \/ Commits([db EXCEPT !.ids = @ \cup {id}])
                             \/ Raises([db EXCEPT !.ids = @ \cup {id}])
    BY <1>1 DEF Create
  <2>2. [db EXCEPT !.ids = @ \cup {id}].logs = db.logs
    BY <1>p DEF Sound
  <2>3. LogsKept
    BY <1>1, <2>1, <2>2, MethodLogs DEF Create
  <2> QED BY <1>1, <2>3, KeepsLogged DEF Create
<1>2. CASE UpdateFinds(th) \/ DeleteChecks(th) \/ LogsChecks(th)
  <2>1. PICK id \in Target, place \in {"updating", "clearing", "reading"} :
          Method(th, db, IF id \in db.ids
                         THEN [Idle EXCEPT !.place = place, !.id = {id}] ELSE Idle)
    BY <1>2 DEF UpdateFinds, DeleteChecks, LogsChecks
  <2> DEFINE next == IF id \in db.ids
                     THEN [Idle EXCEPT !.place = place, !.id = {id}] ELSE Idle
  <2>2. next.done = 0
    BY DEF Idle
  <2>3. wiped' = wiped /\ Method(th, db, next)
    BY <1>2, <2>1 DEF UpdateFinds, DeleteChecks, LogsChecks
  <2> HIDE DEF next
  <2> QED BY <2>2, <2>3, MethodLogged
<1>3. CASE UpdateSaves(th)
  <2>1. [db EXCEPT !.ids = @ \cup at[th].id].logs = db.logs
    BY <1>p DEF Sound
  <2>2. wiped' = wiped /\ Goes(th, Idle)
    BY <1>3 DEF UpdateSaves, Method
  <2>3. LogsKept
    <3>1. CASE UNCHANGED <<db, disk>>
      BY <2>2, <3>1 DEF LogsKept, Safe
    <3>2. CASE Method(th, [db EXCEPT !.ids = @ \cup at[th].id], Idle)
      BY <2>1, <2>2, <3>2, MethodLogs DEF Method
    <3> QED BY <1>3, <3>1, <3>2 DEF UpdateSaves
  <2> QED BY <1>p, <1>i, <2>2, <2>3, KeepsLogged DEF Goes
<1>4. CASE DeleteClears(th)
  <2> DEFINE next == [at[th] EXCEPT !.place = "deleting"]
             new  == [db EXCEPT !.logs = Without(at[th].id)]
  <2>1. next.done = 0
    BY <1>p, <1>4 DEF DeleteClears, Process, Logged, At
  <2>2. Method(th, new, next) /\ wiped' = wiped \cup at[th].id
    BY <1>4 DEF DeleteClears
  <2>3. \A l \in db.logs : l \in new.logs \/ l.target \in at[th].id
    BY <1>p DEF Sound, Without
  <2> HIDE DEF next, new
  <2> QED BY <2>1, <2>2, <2>3, MethodLogged
<1>5. CASE DeleteAllClears(th)
  <2> DEFINE next == [Idle EXCEPT !.place = "wiping"]
             new  == [db EXCEPT !.logs = {}]
  <2>1. next.done = 0
    BY DEF Idle
  <2>2. Method(th, new, next) /\ wiped' = Target
    BY <1>5 DEF DeleteAllClears
  <2>3. wiped \subseteq Target /\ \A l \in db.logs : l.target \in Target
    BY <1>p DEF Sound, Log, Types
  <2> HIDE DEF next, new
  <2> QED BY <2>1, <2>2, <2>3, MethodLogged
<1>6. CASE DeleteRows(th)
  <2> DEFINE ids == IF At(th, "wiping") THEN db.ids ELSE at[th].id
             new == [db EXCEPT !.ids = @ \ ids]
  <2>1. new.logs = db.logs
    BY <1>p DEF Sound
  <2>2. (Commits(new) \/ Raises(new)) /\ wiped' = wiped /\ Goes(th, Idle)
    BY <1>6 DEF DeleteRows
  <2> HIDE DEF new
  <2>3. LogsKept
    BY <2>1, <2>2, MethodLogs
  <2> QED BY <1>p, <1>i, <2>2, <2>3, KeepsLogged DEF Goes
<1>7. CASE Reads(th)
  BY <1>i, <1>7, MethodLogged DEF Reads
<1> QED BY <1>1, <1>2, <1>3, <1>4, <1>5, <1>6, <1>7 DEF Rest

LEMMA PersistsLogged ==
  ASSUME Types, Types', Logged, NEW th \in Thread, Persists(th)
  PROVE  Logged'
<1> DEFINE p    == at[th]
           next == [p EXCEPT !.done = @ + 1]
           new  == Appended(p.todo[p.done + 1], p.sent)
           row  == [n |-> db.last + 1, target |-> p.todo[p.done + 1], sent |-> p.sent]
<1>1. p \in Process /\ at \in [Thread -> Process] /\ Sound(db)
  BY DEF Types
<1>2. /\ p.place = "persisting" /\ p.done < Len(p.todo)
      /\ Method(th, new, next) /\ wiped' = wiped
  BY DEF Persists, At, history
<1>3. new.logs = db.logs \cup {row}
  BY <1>1 DEF Sound, Appended
<1>4. /\ next.place = "persisting" /\ next.done = p.done + 1
      /\ next.todo = p.todo /\ next.sent = p.sent
  BY <1>1, <1>2 DEF Process
<1>5. row.target = p.todo[p.done + 1] /\ row.sent = p.sent
  OBVIOUS
<1>6. p.done \in Nat /\ Len(p.todo) \in Nat
  BY <1>1 DEF Process
<1>7. LogsKept
  <2> HIDE DEF new, next, row
  <2> QED BY <1>2, <1>3, MethodLogs DEF Method
<1>8. CASE Raises(new) /\ Goes(th, Idle)
  BY <1>1, <1>7, <1>8, KeepsLogged DEF Goes, Idle
<1>9. CASE Commits(new) /\ Goes(th, next)
  <2>1. ASSUME NEW t \in Thread, t # th
        PROVE  /\ ~At(t, "persisting")' => at'[t].done = 0
               /\ at'[t].done <= Len(at'[t].todo)
               /\ \A i \in 1..at'[t].done :
                    at'[t].todo[i] \in wiped' \/ HasLog(Safe', at'[t].todo[i], at'[t].sent)
    <3>1. at'[t] = at[t]
      BY <1>1, <1>9, <2>1 DEF Goes
    <3>2. ASSUME NEW i \in 1..at[t].done
          PROVE  at[t].todo[i] \in wiped' \/ HasLog(Safe', at[t].todo[i], at[t].sent)
      BY <1>7 DEF Logged, LogsKept, HasLog
    <3> QED BY <3>1, <3>2 DEF Logged, At
  <2>2. at'[th] = next
    BY <1>1, <1>9 DEF Goes
  <2>3. ASSUME NEW i \in 1..next.done
        PROVE  next.todo[i] \in wiped' \/ HasLog(Safe', next.todo[i], next.sent)
    <3>1. CASE i = p.done + 1
      <4>1. row \in Safe'
        BY <1>3, <1>9 DEF Commits, Safe
      <4> HIDE DEF row, new, next
      <4> QED BY <1>4, <1>5, <3>1, <4>1 DEF HasLog
    <3>2. CASE i # p.done + 1
      <4>1. i \in 1..p.done
        BY <1>4, <1>6, <3>2
      <4>2. p.todo[i] \in wiped' \/ HasLog(Safe', p.todo[i], p.sent)
        BY <1>7, <4>1 DEF Logged, LogsKept, HasLog
      <4> QED BY <1>4, <4>2
    <3> QED BY <3>1, <3>2
  <2>4. /\ ~At(th, "persisting")' => at'[th].done = 0
        /\ at'[th].done <= Len(at'[th].todo)
        /\ \A i \in 1..at'[th].done :
             at'[th].todo[i] \in wiped' \/ HasLog(Safe', at'[th].todo[i], at'[th].sent)
    <3> HIDE DEF next
    <3> QED BY <1>2, <1>4, <1>6, <2>2, <2>3 DEF At
  <2> HIDE DEF next
  <2> QED BY <2>1, <2>4 DEF Logged, HasLog
<1> QED BY <1>2, <1>8, <1>9 DEF Method

LEMMA RunLogged ==
  ASSUME Types, Types', Logged, NEW th \in Thread, Run(th)
  PROVE  Logged'
<1> USE DEF history
<1>p. at[th] \in Process /\ at \in [Thread -> Process]
  BY DEF Types
<1>i. Idle.done = 0 /\ \A want, todo : Resolving(want, todo).done = 0
  BY DEF Idle, Resolving
<1>1. CASE ResolvesAll(th)
  BY <1>i, <1>1, MethodLogged DEF ResolvesAll
<1>2. CASE Begins(th)
  BY <1>p, <1>i, <1>2, KeepsLogged DEF Begins, Goes, LogsKept, Safe
<1>3. CASE ResolvesNext(th)
  BY <1>i, <1>3, MethodLogged DEF ResolvesNext
<1>4. CASE Pings(th)
  <2> DEFINE next == [at[th] EXCEPT !.place = "persisting", !.sent = now]
  <2>1. next.done = 0
    BY <1>p, <1>4 DEF Pings, Process, Logged, At
  <2>2. UNCHANGED <<db, disk, wiped>> /\ (Goes(th, Idle) \/ Goes(th, next))
    BY <1>4 DEF Pings
  <2>3. \A t \in Thread : at'[t] = at[t] \/ at'[t].done = 0
    BY <1>p, <1>i, <2>1, <2>2 DEF Goes
  <2>4. LogsKept
    BY <2>2 DEF LogsKept, Safe
  <2> QED BY <2>3, <2>4, KeepsLogged
<1>5. CASE Persists(th)
  BY <1>5, PersistsLogged
<1>6. CASE Returns(th)
  BY <1>p, <1>i, <1>6, KeepsLogged DEF Returns, Goes, LogsKept, Safe
<1> QED BY <1>1, <1>2, <1>3, <1>4, <1>5, <1>6 DEF Run

LEMMA StepLogged == Types /\ Types' /\ Logged /\ [Next]_vars => Logged'
<1> SUFFICES ASSUME Types, Types', Logged, [Next]_vars PROVE Logged'
  OBVIOUS
<1>1. CASE Ticks
  BY <1>1, KeepsLogged DEF Ticks, history, LogsKept, Safe
<1>2. CASE Crash
  BY <1>2, KeepsLogged DEF Crash, history, LogsKept, Safe, Idle
<1>3. CASE UNCHANGED vars
  BY <1>3, KeepsLogged DEF vars, history, LogsKept, Safe
<1> QED BY <1>1, <1>2, <1>3, RestLogged, RunLogged DEF Next

-------------------------------------------------------------------------------
(* Where the targets of a cycle come from.                                 *)

(* The targets of what a thread does next were its targets before, or are in   *)
(* the tables.                                                                *)
Picks == \A t \in Thread : ToSet(at'[t].todo) \subseteq ToSet(at[t].todo) \cup db.ids

LEMMA EmptyToSet == ToSet(<<>>) = {}
BY DEF ToSet

(* A step that gives a thread the place. *)
LEMMA GoesPicks ==
  ASSUME Types, NEW th \in Thread, NEW place, Goes(th, place) \/ Goes(th, Idle),
         ToSet(place.todo) \subseteq ToSet(at[th].todo) \cup db.ids
  PROVE  Picks
<1>1. Idle.todo = <<>>
  BY DEF Idle
<1>2. at' \in {[at EXCEPT ![th] = place], [at EXCEPT ![th] = Idle]}
  BY DEF Goes
<1>3. \A t \in Thread : at'[t] \in {at[t], Idle} \/ (t = th /\ at'[t] = place)
  BY <1>2 DEF Types
<1> QED BY <1>1, <1>3, EmptyToSet DEF Picks

LEMMA MethodPicks ==
  ASSUME Types, NEW th \in Thread, NEW new, NEW place, Method(th, new, place),
         ToSet(place.todo) \subseteq ToSet(at[th].todo) \cup db.ids
  PROVE  Picks
BY GoesPicks DEF Method

LEMMA RestPicks ==
  ASSUME Types, NEW th \in Thread, Rest(th)
  PROVE  Picks
<1>p. at[th] \in Process /\ at \in [Thread -> Process]
  BY DEF Types
<1>i. Idle.todo = <<>>
  BY DEF Idle
<1>1. CASE Create(th)
  BY <1>1 DEF Create, Picks
<1>2. CASE UpdateFinds(th) \/ DeleteChecks(th) \/ LogsChecks(th)
  <2>1. PICK id \in Target, place \in {"updating", "clearing", "reading"} :
          Method(th, db, IF id \in db.ids
                         THEN [Idle EXCEPT !.place = place, !.id = {id}] ELSE Idle)
    BY <1>2 DEF UpdateFinds, DeleteChecks, LogsChecks
  <2> DEFINE next == IF id \in db.ids
                     THEN [Idle EXCEPT !.place = place, !.id = {id}] ELSE Idle
  <2>2. next.todo = <<>> /\ Method(th, db, next)
    BY <2>1 DEF Idle
  <2> HIDE DEF next
  <2> QED BY <2>2, EmptyToSet, MethodPicks
<1>3. CASE UpdateSaves(th) \/ DeleteRows(th) \/ Reads(th)
  <2>1. Goes(th, Idle)
    BY <1>3 DEF UpdateSaves, DeleteRows, Reads, Method
  <2> QED BY <1>i, <2>1, EmptyToSet, GoesPicks
<1>4. CASE DeleteClears(th)
  <2> DEFINE next == [at[th] EXCEPT !.place = "deleting"]
  <2>1. next.todo = at[th].todo
    BY <1>p DEF Process
  <2>2. Method(th, [db EXCEPT !.logs = Without(at[th].id)], next)
    BY <1>4 DEF DeleteClears
  <2> HIDE DEF next
  <2> QED BY <2>1, <2>2, MethodPicks
<1>5. CASE DeleteAllClears(th)
  <2> DEFINE next == [Idle EXCEPT !.place = "wiping"]
  <2>1. next.todo = <<>>
    BY DEF Idle
  <2>2. Method(th, [db EXCEPT !.logs = {}], next)
    BY <1>5 DEF DeleteAllClears
  <2> HIDE DEF next
  <2> QED BY <2>1, <2>2, EmptyToSet, MethodPicks
<1> QED BY <1>1, <1>2, <1>3, <1>4, <1>5 DEF Rest

LEMMA RunPicks ==
  ASSUME Types, NEW th \in Thread, Run(th)
  PROVE  Picks
<1>p. at[th] \in Process /\ at \in [Thread -> Process]
  BY DEF Types
<1>i. Idle.todo = <<>> /\ \A want, todo : Resolving(want, todo).todo = todo
  BY DEF Idle, Resolving
<1>1. CASE ResolvesAll(th)
  <2>1. PICK todo \in SetToSeqs(db.ids) : Method(th, db, Resolving(<<>>, todo))
    BY <1>1 DEF ResolvesAll
  <2>2. ToSet(todo) \subseteq db.ids
    BY SeqsOfTargets DEF ToSet, Types, Sound
  <2> QED BY <1>i, <2>1, <2>2, MethodPicks
<1>2. CASE Begins(th)
  <2>1. PICK want \in Selection : Goes(th, Resolving(want, <<>>))
    BY <1>2 DEF Begins
  <2> QED BY <1>i, <2>1, EmptyToSet, GoesPicks
<1>3. CASE ResolvesNext(th)
  <2> DEFINE found == Found(Head(at[th].want))
             todo  == at[th].todo \o found
  <2>1. at[th].todo \in Seq(Target) /\ Head(at[th].want) \in Target
    BY <1>p, <1>3 DEF ResolvesNext, Process
  <2>2. found \in Seq(Target) /\ \A i \in 1..Len(found) : found[i] \in db.ids
    BY <2>1 DEF Found
  <2>3. ASSUME NEW i \in DOMAIN todo PROVE todo[i] \in ToSet(at[th].todo) \cup db.ids
    <3> HIDE DEF found
    <3>1. CASE i \in 1..Len(at[th].todo)
      BY <2>1, <2>2, <3>1 DEF ToSet
    <3>2. CASE i \notin 1..Len(at[th].todo)
      <4>1. i - Len(at[th].todo) \in 1..Len(found) /\ todo[i] = found[i - Len(at[th].todo)]
        BY <2>1, <2>2, <3>2
      <4> QED BY <2>2, <4>1
    <3> QED BY <3>1, <3>2
  <2>4. ToSet(todo) \subseteq ToSet(at[th].todo) \cup db.ids
    BY <2>3 DEF ToSet
  <2> HIDE DEF found, todo
  <2>5. Method(th, db, Resolving(Tail(at[th].want), todo))
    BY <1>3 DEF ResolvesNext, found, todo
  <2> QED BY <1>i, <2>4, <2>5, MethodPicks
<1>4. CASE Pings(th)
  <2> DEFINE next == [at[th] EXCEPT !.place = "persisting", !.sent = now]
  <2>1. next.todo = at[th].todo
    BY <1>p DEF Process
  <2>2. Goes(th, Idle) \/ Goes(th, next)
    BY <1>4 DEF Pings
  <2> HIDE DEF next
  <2> QED BY <2>1, <2>2, GoesPicks
<1>5. CASE Persists(th)
  <2> DEFINE next == [at[th] EXCEPT !.done = @ + 1]
  <2>1. next.todo = at[th].todo
    BY <1>p DEF Process
  <2>2. Method(th, Appended(at[th].todo[at[th].done + 1], at[th].sent), next)
    BY <1>5 DEF Persists
  <2> HIDE DEF next
  <2> QED BY <2>1, <2>2, MethodPicks
<1>6. CASE Returns(th)
  BY <1>i, <1>6, EmptyToSet, GoesPicks DEF Returns
<1> QED BY <1>1, <1>2, <1>3, <1>4, <1>5, <1>6 DEF Run

LEMMA StepPicks == Types /\ [Next]_vars => Picks
<1> SUFFICES ASSUME Types, [Next]_vars PROVE Picks
  OBVIOUS
<1>1. CASE Ticks \/ UNCHANGED vars
  BY <1>1 DEF Ticks, vars, Picks
<1>2. CASE Crash
  BY <1>2, EmptyToSet DEF Crash, Idle, Picks
<1> QED BY <1>1, <1>2, RestPicks, RunPicks DEF Next

-------------------------------------------------------------------------------
(* Theorems.                                                               *)

StoreInv == Types /\ Ids /\ Logged

LEMMA Invariance == Spec => []StoreInv
<1>1. Init => StoreInv
  BY StoreAssumption, InitTypes, InitIds, InitLogged DEF StoreInv
<1>2. StoreInv /\ [Next]_vars => StoreInv'
  BY StepTypes, StepIds, StepLogged DEF StoreInv
<1> QED BY <1>1, <1>2, PTL DEF Spec

(* The tables, the clock and the threads have their types, and no two log rows *)
(* share an AUTOINCREMENT id, for any threads, ids and faults.                *)
THEOREM TypeCorrect == Spec => []TypeOK
<1>1. StoreInv => TypeOK
  <2> SUFFICES ASSUME StoreInv PROVE TypeOK
    OBVIOUS
  <2>1. Targets \subseteq SUBSET Target
    BY DEF Targets
  <2>2. db \in Tables /\ disk \in Tables
    BY <2>1 DEF StoreInv, Types, Sound, Tables
  <2>3. at \in [Thread -> [place : Place, id : SUBSET Target, want : Seq(Target),
                           todo : Seq(Target), sent : 0..MaxTime, done : Nat]]
    BY <2>1 DEF StoreInv, Types, Process
  <2>4. kept \subseteq drawn /\ gone \subseteq drawn
    BY DEF StoreInv, Ids
  <2> QED BY <2>2, <2>3, <2>4 DEF StoreInv, Types, Sound, TypeOK
<1> QED BY <1>1, Invariance, PTL

(* An acknowledged creation is on disk until its deletion is asked for, though *)
(* save() of one use case, its failure or a crash may come between the         *)
(* statements of any other.                                                   *)
THEOREM CreatedStaysSafe == Spec => []CreatedStays
<1>1. StoreInv => CreatedStays
  BY DEF StoreInv, Ids, CreatedStays
<1> QED BY <1>1, Invariance, PTL

(* An acknowledged deletion is for good: no update that had found the target   *)
(* and no transaction left open inserts its row again.                        *)
THEOREM DeletedStaysGoneSafe == Spec => []DeletedStaysGone
<1>1. StoreInv => DeletedStaysGone
  BY DEF StoreInv, Ids, DeletedStaysGone
<1> QED BY <1>1, Invariance, PTL

(* A cycle reports a result only when its log is on disk, or a delete has      *)
(* cleared the logs of that target, whatever other threads do in between.     *)
THEOREM ReportedIsLoggedSafe == Spec => []ReportedIsLogged
<1>1. StoreInv => ReportedIsLogged
  BY DEF StoreInv, Logged, HasLog, Safe, ReportedIsLogged
<1> QED BY <1>1, Invariance, PTL

(* No cycle picks up again a target whose deletion was acknowledged.           *)
THEOREM NotPickedUpAgainSafe == Spec => NotPickedUpAgain
<1>1. StoreInv /\ [Next]_vars
        => [\A id \in gone : (\A th \in Thread : id \notin ToSet(at[th].todo))
              => (\A th \in Thread : id \notin ToSet(at'[th].todo))]_vars
  BY StepPicks DEF StoreInv, Ids, Picks
<1> QED BY <1>1, Invariance, PTL DEF Spec, NotPickedUpAgain
===============================================================================
