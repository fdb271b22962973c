------------------------------ MODULE MockWorker ------------------------------
(***************************************************************************)
(* The service worker that ships with the dashboard's static files: it     *)
(* intercepts the pages' requests and asks a page that has activated       *)
(* mocking how to answer them.  The library the pages would speak to it    *)
(* with, and the browser, are external.                                    *)
(*                                                                         *)
(* The worker has one thread; an action is what one of its handlers does   *)
(* between two awaits.  One registration is followed, and a client's id is *)
(* used once.  A definition marked "Mutant" is a plausible bug in the one  *)
(* that follows.                                                           *)
(***************************************************************************)
Query == {"KEEPALIVE_REQUEST", "INTEGRITY_CHECK_REQUEST"}
Data  == Query \cup {"MOCK_ACTIVATE", "CLIENT_CLOSED"}

CONSTANTS
  Client,    \* window clients: pages and the frames in them
  Frame,     \* the frames
  NoClient,  \* undefined
  Says,      \* bound: the messages each client sends
  Request    \* slots for requests

ASSUME WorkerAssumption == Frame \subseteq Client /\ NoClient \notin Client
                           /\ Says \in [Client -> SUBSET Data]

VARIABLES
  phase,       \* of the registration
  life,        \* of each client; one that is "closed" has said so before it went
  controlled,  \* the clients whose requests come to the worker
  active,      \* activeClientIds, lost when the browser terminates the worker
  handling,    \* the runs of the message handler that have not ended
  awaits,      \* the message each client has no answer to yet
  request,     \* what has become of each request
  enabled      \* history: clients told MOCKING_ENABLED since the worker started

browser == <<phase, controlled, life>>
vars == <<browser, active, handling, awaits, request, enabled>>

\* A slot without a request, the last having failed or not.
Idle(failed) == [at |-> "idle", issuer |-> NoClient, via |-> NoClient,
                 asked |-> FALSE, due |-> FALSE, failed |-> failed]

Init ==
  /\ phase = "absent" /\ controlled = {} /\ active = {} /\ handling = {} /\ enabled = {}
  /\ life = [c \in Client |-> "absent"]
  /\ awaits = [c \in Client |-> "nothing"]
  /\ request = [r \in Request |-> Idle(FALSE)]

Live    == {c \in Client : life[c] \in {"open", "closing"}}
Windows == Live \cap controlled           \* clients.matchAll({type: 'window'})
Got(c)  == IF c \in Live THEN c ELSE NoClient   \* clients.get(c)
Running == phase \in {"activated", "unregistered"}

-------------------------------------------------------------------------------
(* The registration and the clients' lives.                                *)

\* A page registers the worker, which installs and does not wait.
Installs ==
  /\ phase = "absent" /\ \E c \in Client : life[c] = "open"
  /\ phase' = "installed"
  /\ UNCHANGED <<controlled, life, active, handling, awaits, request, enabled>>

\* Mutant: the pages that are open already are not claimed.
ActivatesOnly ==
  /\ phase = "installed" /\ phase' = "activated"
  /\ UNCHANGED <<controlled, life, active, handling, awaits, request, enabled>>

\* clients.claim().
Activates ==
  /\ phase = "installed" /\ phase' = "activated"
  /\ controlled' = controlled \cup Live
  /\ UNCHANGED <<life, active, handling, awaits, request, enabled>>

\* The registration controls what is opened in its scope.
Opens(c) ==
  /\ life[c] = "absent"
  /\ life' = [life EXCEPT ![c] = "open"]
  /\ controlled' = IF phase = "activated" THEN controlled \cup {c} ELSE controlled
  /\ UNCHANGED <<phase, active, handling, awaits, request, enabled>>

Goes(c) ==
  /\ c \in Live
  /\ life' = [life EXCEPT ![c] = IF @ = "closing" THEN "closed" ELSE "gone"]
  /\ awaits' = [awaits EXCEPT ![c] = "nothing"]
  /\ UNCHANGED <<phase, controlled, active, handling, request, enabled>>

InFlight(r) == request[r].at # "idle"

\* The browser terminates an idle worker, and starts it again, its variables
\* initialised, when the next event comes.
Terminates ==
  /\ Running /\ handling = {} /\ \A r \in Request : ~InFlight(r)
  /\ active' = {} /\ enabled' = {}
  /\ UNCHANGED <<browser, handling, awaits, request>>

-------------------------------------------------------------------------------
(* The message handler.                                                    *)

\* A run of the handler; who is there counts for CLIENT_CLOSED only.
Message(c, data) == [client |-> c, data |-> data, at |-> "getting", all |-> {},
                     present |-> IF data = "CLIENT_CLOSED" THEN Windows ELSE {}]

Listed(h, list) == [h EXCEPT !.at = "ready",
                             !.all = IF h.data = "CLIENT_CLOSED" THEN list ELSE {}]

\* A client asks for something, one thing at a time.
Asks(c, data) ==
  /\ phase = "activated" \/ (Running /\ c \in controlled)
  /\ life[c] = "open" /\ awaits[c] = "nothing"
  /\ data \in Says[c] \ {"CLIENT_CLOSED"}
  /\ awaits' = [awaits EXCEPT ![c] = data]
  /\ handling' = handling \cup {Message(c, data)}
  /\ UNCHANGED <<browser, active, request, enabled>>

\* A client that is closing says so.
SaysClosed(c) ==
  /\ Running /\ c \in controlled /\ life[c] = "open" /\ "CLIENT_CLOSED" \in Says[c]
  /\ life' = [life EXCEPT ![c] = "closing"]
  /\ handling' = handling \cup {Message(c, "CLIENT_CLOSED")}
  /\ UNCHANGED <<phase, controlled, active, awaits, request, enabled>>

\* Mutant: the id is recorded before the client is known to be there.
GetsActivating(h) ==
  /\ h.at = "getting"
  /\ active' = IF h.data = "MOCK_ACTIVATE" THEN active \cup {h.client} ELSE active
  /\ handling' = (handling \ {h}) \cup
       (IF Got(h.client) = NoClient THEN {} ELSE {[h EXCEPT !.at = "listing"]})
  /\ UNCHANGED <<browser, awaits, request, enabled>>

\* clients.get() resolves; the handler ends there if the client is gone.
Gets(h) ==
  /\ h.at = "getting"
  /\ handling' = (handling \ {h}) \cup
       (IF Got(h.client) = NoClient THEN {} ELSE {[h EXCEPT !.at = "listing"]})
  /\ UNCHANGED <<browser, active, awaits, request, enabled>>

\* Mutant: the clients that have activated mocking only.
ListsActive(h) ==
  /\ h.at = "listing"
  /\ handling' = (handling \ {h}) \cup {Listed(h, Windows \cap active)}
  /\ UNCHANGED <<browser, active, awaits, request, enabled>>

\* The browser lists the clients for matchAll().
Lists(h) ==
  /\ h.at = "listing"
  /\ handling' = (handling \ {h}) \cup {Listed(h, Windows)}
  /\ UNCHANGED <<browser, active, awaits, request, enabled>>

\* KEEPALIVE_RESPONSE, INTEGRITY_CHECK_RESPONSE.
AnswersQuery(h) ==
  /\ h.at = "ready" /\ h.data \in Query
  /\ awaits' = [awaits EXCEPT ![h.client] = "nothing"]
  /\ handling' = handling \ {h}
  /\ UNCHANGED <<browser, active, request, enabled>>

\* MOCKING_ENABLED.
ActivatesMocking(h) ==
  /\ h.at = "ready" /\ h.data = "MOCK_ACTIVATE"
  /\ active' = active \cup {h.client}
  /\ enabled' = enabled \cup {h.client}
  /\ awaits' = [awaits EXCEPT ![h.client] = "nothing"]
  /\ handling' = handling \ {h}
  /\ UNCHANGED <<browser, request>>

\* A client less; unregister() if the list had no other.
Closes(h) ==
  /\ h.at = "ready" /\ h.data = "CLIENT_CLOSED"
  /\ active' = active \ {h.client}
  /\ phase' = IF h.all \ {h.client} = {} THEN "unregistered" ELSE phase
  /\ handling' = handling \ {h}
  /\ UNCHANGED <<controlled, life, awaits, request, enabled>>

Handles(h) == Gets(h) \/ Lists(h) \/ AnswersQuery(h) \/ ActivatesMocking(h) \/ Closes(h)

-------------------------------------------------------------------------------
(* The fetch handler.                                                      *)

\* Requests the handler leaves to the browser, whatever the worker's state.
Unhandled == {"navigate", "only-if-cached"}

\* Whether a request of client c stays with the browser: it does not come to the
\* worker, or no client is active.
Bypassed(c, mode) ==
  ~Running \/ c \notin controlled \/ mode \in Unhandled \/ active = {}

\* Client c issues a request that is intercepted; it is due if c has been told of
\* the mocking.
Fetches(r, c, mode) ==
  /\ ~InFlight(r) /\ life[c] = "open" /\ ~Bypassed(c, mode)
  /\ request' = [request EXCEPT ![r] =
       [Idle(FALSE) EXCEPT !.at = "getting", !.issuer = c, !.due = c \in enabled]]
  /\ UNCHANGED <<browser, active, handling, awaits, enabled>>

\* Request r goes on as described by q.
Becomes(r, q) == /\ request' = [request EXCEPT ![r] = q]
                 /\ UNCHANGED <<browser, active, handling, awaits, enabled>>

\* Whether getResponse() asks the main client, or passes the request through.
Mocks(c) == c # NoClient /\ c \in active

\* The main client is known: its request's body is read, or the network asked.
Resolved(r, c) ==
  Becomes(r, [request[r] EXCEPT !.via = c,
                !.at = IF Mocks(c) THEN "serializing" ELSE "fetching"])

\* clients.get(event.clientId) resolves: the client, if active, or a page.
ResolvesIssuer(r) ==
  LET c == request[r].issuer
  IN /\ request[r].at = "getting"
     /\ IF c \in active \/ Got(c) \in Client \ Frame
        THEN Resolved(r, Got(c))
        ELSE Becomes(r, [request[r] EXCEPT !.at = "matching"])

\* Another client is taken, an active one among those that are visible.
ResolvesOther(r) ==
  /\ request[r].at = "matching"
  /\ \E c \in (Windows \cap active) \cup {NoClient} : Resolved(r, c)

\* The body is read and the client asked.
AsksClient(r) ==
  /\ request[r].at = "serializing"
  /\ Becomes(r, [request[r] EXCEPT !.at = "asked", !.asked = TRUE])

\* Mutant: the issuer's state decides, not the main client's.
ReportsToIssuer(q) == q.issuer \in active

\* Whether handleRequest() has a RESPONSE to send to the main client.
Reports(q) == q.via # NoClient /\ q.via \in active

\* There is a response, mocked or from the network, a network error that the
\* client asked for by the status 0 included.
Responds(r) ==
  Becomes(r, IF Reports(request[r]) THEN [request[r] EXCEPT !.at = "reporting"]
                                    ELSE Idle(FALSE))

\* handleRequest() rejects, with no RESPONSE.
Rejects(r) == Becomes(r, Idle(TRUE))

\* The client's answer: MOCK_RESPONSE, or an error, or anything else, which lets
\* the request through.
IsAnswered(r) ==
  /\ request[r].at = "asked" /\ request[r].via \in Live \cap enabled
  /\ \/ Responds(r) \/ Rejects(r)
     \/ Becomes(r, [request[r] EXCEPT !.at = "fetching"])

\* The network answers, or fails.
NetworkAnswers(r) ==
  /\ request[r].at = "fetching"
  /\ Responds(r) \/ Rejects(r)

\* Mutant: the client's answer to RESPONSE, which never comes, is awaited.
SendsAndWaits(r) == request[r].at = "reporting" /\ Becomes(r, request[r])

\* The body is read again and RESPONSE sent; the issuer has its response.
SendsResponse(r) == request[r].at = "reporting" /\ Becomes(r, Idle(FALSE))

Proceeds(r) == \/ ResolvesIssuer(r) \/ ResolvesOther(r) \/ AsksClient(r)
               \/ NetworkAnswers(r) \/ SendsResponse(r)

-------------------------------------------------------------------------------
Next ==
  \/ Installs \/ Activates \/ Terminates
  \/ \E c \in Client : \/ Opens(c) \/ Goes(c) \/ SaysClosed(c)
                       \/ \E data \in Data : Asks(c, data)
                       \/ \E r \in Request, mode \in Unhandled \cup {"cors"} :
                            Fetches(r, c, mode)
  \/ \E h \in handling : Handles(h)
  \/ \E r \in Request : Proceeds(r) \/ IsAnswered(r)

Spec == Init /\ [][Next]_vars

\* The run of the message handler for a message of c's.
HandlesOf(c, data) == \E h \in handling : h.client = c /\ h.data = data /\ Handles(h)

\* A page that has activated mocking answers while it is open.
ClientAnswers(r) == request[r].via \in Client /\ life[request[r].via] = "open"
                    /\ IsAnswered(r)

\* The browser settles the promises it is asked for.
FairSpec ==
  /\ Spec
  /\ \A c \in Client, data \in Data : WF_vars(HandlesOf(c, data))
  /\ \A r \in Request : WF_vars(Proceeds(r)) /\ WF_vars(ClientAnswers(r))

-------------------------------------------------------------------------------
(* Properties.                                                             *)

(* The registration, the clients, the handlers and the requests have their  *)
(* types; a client has at most one run of the handler for each message.     *)
TypeOK ==
  /\ phase \in {"absent", "installed", "activated", "unregistered"}
  /\ life \in [Client -> {"absent", "open", "closing", "closed", "gone"}]
  /\ controlled \subseteq Client /\ active \subseteq enabled /\ enabled \subseteq Client
  /\ awaits \in [Client -> Query \cup {"MOCK_ACTIVATE", "nothing"}]
  /\ \A h \in handling : /\ h.at \in {"getting", "listing", "ready"}
                         /\ h.all \cup h.present \subseteq Client
                         /\ h.data = "CLIENT_CLOSED" \/ awaits[h.client] \in {h.data, "nothing"}
                         /\ \A g \in handling :
                              g.client = h.client /\ g.data = h.data => g = h
  /\ request \in [Request ->
       [at : {"idle", "getting", "matching", "serializing", "asked", "fetching", "reporting"},
        issuer : Client \cup {NoClient}, via : Client \cup {NoClient},
        asked : BOOLEAN, due : BOOLEAN, failed : BOOLEAN]]

(* A page that was told mocking is enabled is asked about each request it    *)
(* makes: whatever other clients open, activate, close or crash meanwhile,   *)
(* none slips to the network or to another page.  It may close; and of what  *)
(* a terminated worker forgets the history forgets it too.                   *)
EnabledIntercepted ==
  /\ \A c \in enabled : life[c] = "open" => ~Bypassed(c, "cors")
  /\ \A r \in Request :
       LET q == request[r]
       IN q.due /\ life[q.issuer] = "open" =>
            \/ q.at = "getting"
            \/ q.via = q.issuer /\ (q.at \in {"fetching", "reporting"} => q.asked)

(* A page that was asked about a request is sent the response, unless there   *)
(* is none or the page said meanwhile that it was closing.                   *)
AskedIsTold ==
  [][\A r \in Request :
       /\ InFlight(r) /\ ~InFlight(r)' /\ request[r].asked
       /\ life[request[r].via] \in {"open", "gone"}
       => request[r].at = "reporting" \/ request'[r].failed]_vars

(* The worker unregisters only if no client was there both when CLIENT_CLOSED *)
(* came and when it acts on it, except the one that sent it.                  *)
UnregistersAlone ==
  [][phase = "activated" /\ phase' = "unregistered" =>
       \E h \in handling \ handling' :
         h.data = "CLIENT_CLOSED" /\ h.present \cap Live \subseteq {h.client}]_vars

(* Every request the worker intercepts has an end, unless the client it is    *)
(* put to leaves.                                                            *)
RequestEnds ==
  \A r \in Request :
    InFlight(r) ~> (~InFlight(r) \/ request[r].via \in {c \in Client : life[c] # "open"})
===============================================================================
