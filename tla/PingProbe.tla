------------------------------ MODULE PingProbe -------------------------------
(***************************************************************************)
(* The ping of one target in one cycle: what the ping command does and     *)
(* prints, what the adapter makes of it, and the figures reported.         *)
(*                                                                         *)
(* Times are in thousandths of a millisecond, percentages in tenths: the   *)
(* units the code rounds to.  TTLs and error texts are left out.  A        *)
(* definition marked "Mutant" is a plausible bug in the one that follows.  *)
(***************************************************************************)
EXTENDS Naturals, Sequences, FiniteSets, Functions, Subsequences

CONSTANTS
  Counts,     \* the counts a PingRunRequest may hold, 1 to 100
  Rtt,        \* the round-trip times a reply line may show
  NoRtt,      \* None: a reply line that shows none, or nothing to report
  Other,      \* a line without "TTL=": header, time-out, statistics
  MaxExtra    \* bound: duplicate replies and lines that are not replies

ASSUME ProbeAssumption ==
  /\ Counts \subseteq 1..100
  /\ Rtt \subseteq Nat /\ NoRtt \notin Nat
  /\ Other \notin Nat \cup {NoRtt}
  /\ MaxExtra \in Nat

VARIABLES
  count,      \* request.count
  answered,   \* the packets that were answered while the command ran
  extra,      \* how many duplicates and other lines there were
  repeated,   \* history: whether a reply was a duplicate
  lines,      \* the standard output
  outcome,    \* "running", or how subprocess.run() ended
  probes,     \* what ping_once() returned
  response    \* the figures of the PingResultResponse, as a set of at most one

command == <<count, answered, extra, repeated, lines>>
vars == <<command, outcome, probes, response>>

Init ==
  /\ count \in Counts
  /\ answered = {} /\ extra = 0 /\ repeated = FALSE /\ lines = <<>>
  /\ outcome = "running" /\ probes = <<>> /\ response = {}

-------------------------------------------------------------------------------
(* The ping command.                                                       *)

Answers == Rtt \cup {NoRtt}

Prints(line) == outcome = "running" /\ lines' = Append(lines, line)

\* A packet is answered; packets may be answered in any order.
Replies ==
  /\ \E i \in (1..count) \ answered : answered' = answered \cup {i}
  /\ \E r \in Answers : Prints(r)
  /\ UNCHANGED <<count, extra, repeated, outcome, probes, response>>

\* A packet is answered again.
Duplicates ==
  /\ extra < MaxExtra /\ answered # {}
  /\ extra' = extra + 1 /\ repeated' = TRUE
  /\ \E r \in Answers : Prints(r)
  /\ UNCHANGED <<count, answered, outcome, probes, response>>

Chatters ==
  /\ extra < MaxExtra
  /\ extra' = extra + 1
  /\ Prints(Other)
  /\ UNCHANGED <<count, answered, repeated, outcome, probes, response>>

-------------------------------------------------------------------------------
(* SubprocessPingAdapter.ping_once().                                      *)

Success(rtt) == [success |-> TRUE, rtt |-> rtt]
Failure      == [success |-> FALSE, rtt |-> NoRtt]

AllFailed == [i \in 1..count |-> Failure]

\* Mutant: a line counts as a reply by its time.
TimedLines == Only(lines, Rtt)

ReplyLines == Only(lines, Answers)

\* Mutant: replies beyond the count are kept.
ParsedUncapped == [i \in 1..Len(ReplyLines) |-> Success(ReplyLines[i])]

\* parse_ping_output(): replies take the sequence numbers in the order printed,
\* and the numbers left over are failures.
Parsed == [i \in 1..count |->
             IF i <= Len(ReplyLines) THEN Success(ReplyLines[i]) ELSE Failure]

\* The command ends by itself.
Exits ==
  /\ outcome = "running" /\ outcome' = "exited"
  /\ probes' = Parsed
  /\ UNCHANGED <<command, response>>

\* The overall time-out: subprocess.run() kills the command and its output is
\* dropped.  Or the command cannot be run, or a number cannot be read.
Fails ==
  /\ outcome = "running" /\ outcome' = "failed"
  /\ probes' = AllFailed
  /\ UNCHANGED <<command, response>>

-------------------------------------------------------------------------------
(* PingTargetsUseCase._build_response().                                   *)

\* The integers nearest to n / d.  Which one a tie goes to depends on the binary
\* fraction.
Nearest(n, d) == {q \in {n \div d, n \div d + 1} :
                    2 * q * d <= 2 * n + d /\ 2 * n <= 2 * q * d + d}

\* Mutant: divided before it is multiplied.
WholeOrNothing(lost, sent) == {1000 * (lost \div sent)}

\* Tenths of a percent.  There is a probe at least.
LossPct(lost, sent) == Nearest(1000 * lost, sent)

Received(ps) == Cardinality({i \in DOMAIN ps : ps[i].success})
Timed(ps)    == {i \in DOMAIN ps : ps[i].success /\ ps[i].rtt # NoRtt}

Means(ps) ==
  Nearest(SumFunction([i \in Timed(ps) |-> ps[i].rtt]), Cardinality(Timed(ps)))

RttFigures(ps) ==
  IF Timed(ps) = {} THEN {[min |-> NoRtt, avg |-> NoRtt, max |-> NoRtt]}
  ELSE LET times == {ps[i].rtt : i \in Timed(ps)}
       IN {[min |-> CHOOSE t \in times : \A u \in times : t <= u,
            avg |-> a,
            max |-> CHOOSE t \in times : \A u \in times : t >= u] : a \in Means(ps)}

Responds ==
  /\ outcome # "running" /\ response = {}
  /\ LET sent == Len(probes)
         received == Received(probes)
     IN \E pct \in LossPct(sent - received, sent), rtt \in RttFigures(probes) :
          response' = {[sent |-> sent, received |-> received,
                        lost |-> sent - received, loss_pct |-> pct, rtt |-> rtt,
                        success |-> received > 0]}
  /\ UNCHANGED <<command, outcome, probes>>

Next == Replies \/ Duplicates \/ Chatters \/ Exits \/ Fails \/ Responds

Spec == Init /\ [][Next]_vars

-------------------------------------------------------------------------------
(* Properties.                                                             *)

(* The command's output, the probes and the figures have their types; there  *)
(* is a probe for each packet asked for.                                     *)
TypeOK ==
  /\ count \in Counts /\ answered \subseteq 1..count
  /\ extra \in 0..MaxExtra /\ repeated \in BOOLEAN
  /\ lines \in Seq(Answers \cup {Other})
  /\ outcome \in {"running", "exited", "failed"}
  /\ outcome # "running" =>
       probes \in [1..count -> [success : BOOLEAN, rtt : Answers]]
  /\ \A r \in response :
       /\ r.sent = count /\ r.received \in 0..count /\ r.lost \in 0..count
       /\ r.loss_pct \in 0..1000 /\ r.success \in BOOLEAN

(* However the command ends, a packet is reported received only if packets    *)
(* were answered, and no target is called reachable that did not answer.  If  *)
(* it ended by itself the figure is exact, whatever else it printed and in    *)
(* whatever order the answers came: a duplicate can hide a loss, but never a  *)
(* target that is silent.  If it was killed every answer is reported lost.    *)
ReceivedTrue ==
  \A r \in response :
    /\ r.success => answered # {}
    /\ IF outcome = "exited"
       THEN /\ r.received >= Cardinality(answered)
            /\ ~repeated => r.received = Cardinality(answered)
       ELSE r.received = 0

(* Rounding never hides a loss or an answer: 0.0 % is reported only when no  *)
(* packet was lost and 100.0 % only when none was answered.                  *)
PercentHonest ==
  \A r \in response : /\ r.loss_pct = 0 <=> r.lost = 0
                      /\ r.loss_pct = 1000 <=> ~r.success

(* The average lies between the least and the greatest time, rounded as it   *)
(* is, and every figure is of a time that was printed.                       *)
RttOrdered ==
  \A r \in response :
    \/ r.rtt.min = NoRtt /\ r.rtt.avg = NoRtt /\ r.rtt.max = NoRtt
    \/ /\ r.rtt.min <= r.rtt.avg /\ r.rtt.avg <= r.rtt.max
       /\ {r.rtt.min, r.rtt.max} \subseteq {lines[i] : i \in DOMAIN lines}

(* The figures reported to the user are not falsified by rounding.           *)
FiguresHonest == PercentHonest /\ RttOrdered
===============================================================================
