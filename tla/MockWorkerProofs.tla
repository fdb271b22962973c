--------------------------- MODULE MockWorkerProofs ---------------------------
(* Theorems about MockWorker, for every value of its constants. *)
EXTENDS MockWorker, TLAPS

-------------------------------------------------------------------------------
(* The clients and the message handler.                                    *)

Run == [client : Client, data : Data, at : {"getting", "listing", "ready"},
        all : SUBSET Client, present : SUBSET Client]

ClientTypes ==
  /\ phase \in {"absent", "installed", "activated", "unregistered"}
  /\ life \in [Client -> {"absent", "open", "closing", "closed", "gone"}]
  /\ controlled \subseteq Client /\ active \subseteq enabled
  /\ awaits \in [Client -> Query \cup {"MOCK_ACTIVATE", "nothing"}]
  /\ handling \subseteq Run

(* The clients that have been told are the worker's, and those that are open  *)
(* are active.                                                                *)
Told ==
  /\ enabled \subseteq controlled
  /\ ~Running => enabled = {} /\ handling = {}
  /\ phase = "activated" => Live \subseteq controlled
  /\ \A c \in enabled : life[c] # "absent" /\ (life[c] \in {"open", "gone"} => c \in active)

(* A run of the handler is for a client of the worker's; it is CLIENT_CLOSED's *)
(* only if the client is closing, and another's only if it is awaited.         *)
Handled ==
  \A h \in handling :
    /\ h.client \in controlled /\ life[h.client] # "absent"
    /\ h.data = "CLIENT_CLOSED" => life[h.client] \notin {"open", "gone"}
    /\ h.data # "CLIENT_CLOSED" =>
         /\ awaits[h.client] \in {h.data, "nothing"}
         /\ life[h.client] = "open" => awaits[h.client] = h.data
    /\ \A g \in handling : g.client = h.client /\ g.data = h.data => g = h

ClientInv == ClientTypes /\ Told /\ Handled

LEMMA InitClientInv == Init => ClientInv
BY DEF Init, ClientInv, ClientTypes, Told, Handled, Running, Live

LEMMA BrowserClientInv ==
  ASSUME ClientInv, NEW c \in Client,
         Opens(c) \/ Goes(c)
  PROVE  ClientInv'
<1> USE DEF ClientInv, ClientTypes, Told, Handled, Running, Live
<1>1. CASE Opens(c)
  <2>1. ClientTypes'
    BY <1>1 DEF Opens
  <2>2. Told'
    BY <1>1 DEF Opens
  <2>3. Handled'
    BY <1>1 DEF Opens
  <2> QED BY <2>1, <2>2, <2>3
<1>2. CASE Goes(c)
  <2>1. ClientTypes'
    BY <1>2 DEF Goes
  <2>2. Told'
    BY <1>2 DEF Goes
  <2>3. Handled'
    BY <1>2 DEF Goes
  <2> QED BY <2>1, <2>2, <2>3
<1> QED BY <1>1, <1>2

LEMMA PostsClientInv ==
  ASSUME ClientInv, NEW c \in Client, NEW data \in Data,
         Asks(c, data) \/ SaysClosed(c)
  PROVE  ClientInv'
<1> USE DEF ClientInv, ClientTypes, Told, Handled, Running, Live
<1>1. \A d \in Data : Message(c, d) \in Run
  BY DEF Message, Run, Windows
<1>2. \A d \in Data : Message(c, d).client = c /\ Message(c, d).data = d
  BY DEF Message
<1>3. CASE Asks(c, data)
  <2>1. data # "CLIENT_CLOSED" /\ data \in Query \cup {"MOCK_ACTIVATE"} /\ data # "nothing"
    BY <1>3 DEF Asks, Data, Query
  <2>2. c \in controlled /\ life[c] = "open" /\ awaits[c] = "nothing" /\ Running
    BY <1>3 DEF Asks
  <2>3. \A h \in handling : h.client = c => h.data = "CLIENT_CLOSED"
    BY <2>2 DEF Run, Data, Query
  <2>4. ClientTypes'
    BY <1>1, <1>3, <2>1 DEF Asks, browser
  <2>5. Told'
    BY <1>3, <2>2 DEF Asks, browser
  <2>6. Handled'
    BY <1>2, <1>3, <2>1, <2>2, <2>3 DEF Asks, browser
  <2> QED BY <2>4, <2>5, <2>6
<1>4. CASE SaysClosed(c)
  <2>1. c \in controlled /\ life[c] = "open" /\ Running
    BY <1>4 DEF SaysClosed
  <2>2. \A h \in handling : h.client = c => h.data # "CLIENT_CLOSED"
    BY <2>1
  <2>3. ClientTypes'
    BY <1>1, <1>4 DEF SaysClosed, Data
  <2>4. Told'
    BY <1>4, <2>1 DEF SaysClosed
  <2>5. Handled'
    BY <1>2, <1>4, <2>1, <2>2 DEF SaysClosed, Data
  <2> QED BY <2>3, <2>4, <2>5
<1> QED BY <1>3, <1>4

LEMMA HandlesClientInv ==
  ASSUME ClientInv, NEW h \in handling, Handles(h)
  PROVE  ClientInv'
<1> USE DEF ClientInv, ClientTypes, Told, Handled, Running, Live
<1>1. h \in Run /\ h.client \in Client
  BY DEF Run
<1>2. CASE Gets(h) \/ Lists(h)
  <2>1. PICK next \in Run :
          /\ handling' \in {handling \ {h}, (handling \ {h}) \cup {next}}
          /\ next.client = h.client /\ next.data = h.data
          /\ UNCHANGED <<browser, active, awaits, request, enabled>>
    <3>1. CASE Gets(h)
      <4>1. [h EXCEPT !.at = "listing"] \in Run
        BY <1>1 DEF Run
      <4> QED BY <1>1, <3>1, <4>1 DEF Gets, Run
    <3>2. CASE Lists(h)
      <4>1. Listed(h, Windows) \in Run
        BY <1>1 DEF Run, Listed, Windows
      <4>2. Listed(h, Windows).client = h.client /\ Listed(h, Windows).data = h.data
        BY <1>1 DEF Run, Listed
      <4> QED BY <3>2, <4>1, <4>2 DEF Lists
    <3> QED BY <1>2, <3>1, <3>2
  <2>2. ClientTypes'
    BY <2>1 DEF browser
  <2>3. Told'
    BY <2>1 DEF browser
  <2>4. Handled'
    BY <2>1 DEF browser
  <2> QED BY <2>2, <2>3, <2>4
<1>3. CASE AnswersQuery(h)
  <2>1. \A g \in handling \ {h} : g.client = h.client /\ g.data # "CLIENT_CLOSED"
          => life[h.client] # "open"
    BY <1>3 DEF AnswersQuery, Query
  <2>2. ClientTypes'
    BY <1>1, <1>3 DEF AnswersQuery, browser
  <2>3. Told'
    BY <1>3 DEF AnswersQuery, browser
  <2>4. Handled'
    BY <1>1, <1>3, <2>1 DEF AnswersQuery, browser
  <2> QED BY <2>2, <2>3, <2>4
<1>4. CASE ActivatesMocking(h)
  <2>1. \A g \in handling \ {h} : g.client = h.client /\ g.data # "CLIENT_CLOSED"
          => life[h.client] # "open"
    BY <1>4 DEF ActivatesMocking
  <2>2. ClientTypes'
    BY <1>1, <1>4 DEF ActivatesMocking, browser
  <2>3. Told'
    BY <1>1, <1>4 DEF ActivatesMocking, browser
  <2>4. Handled'
    BY <1>1, <1>4, <2>1 DEF ActivatesMocking, browser
  <2> QED BY <2>2, <2>3, <2>4
<1>5. CASE Closes(h)
  <2>1. life[h.client] # "open"
    BY <1>5 DEF Closes
  <2>2. ClientTypes'
    BY <1>5 DEF Closes
  <2>3. Told'
    BY <1>5, <2>1 DEF Closes
  <2>4. Handled'
    BY <1>5 DEF Closes
  <2> QED BY <2>2, <2>3, <2>4
<1> QED BY <1>2, <1>3, <1>4, <1>5 DEF Handles

(* The fetch handler leaves the clients and the message handler alone. *)
LEMMA FetchSteps ==
  ASSUME NEW r \in Request,
         \/ Proceeds(r) \/ IsAnswered(r)
         \/ \E c \in Client, mode \in Unhandled \cup {"cors"} : Fetches(r, c, mode)
  PROVE  UNCHANGED <<browser, active, handling, awaits, enabled>>
<1>1. ASSUME NEW q, Becomes(r, q)
      PROVE  UNCHANGED <<browser, active, handling, awaits, enabled>>
  BY <1>1 DEF Becomes
<1>2. ASSUME NEW c, Resolved(r, c)
      PROVE  UNCHANGED <<browser, active, handling, awaits, enabled>>
  BY <1>1, <1>2 DEF Resolved
<1>3. ASSUME Responds(r) \/ Rejects(r)
      PROVE  UNCHANGED <<browser, active, handling, awaits, enabled>>
  BY <1>1, <1>3 DEF Responds, Rejects
<1>4. CASE ResolvesIssuer(r)
  BY <1>1, <1>2, <1>4 DEF ResolvesIssuer
<1>5. CASE ResolvesOther(r)
  BY <1>2, <1>5 DEF ResolvesOther
<1>6. CASE AsksClient(r) \/ NetworkAnswers(r) \/ SendsResponse(r) \/ IsAnswered(r)
  BY <1>1, <1>3, <1>6 DEF AsksClient, NetworkAnswers, SendsResponse, IsAnswered
<1>7. ASSUME NEW c \in Client, NEW mode \in Unhandled \cup {"cors"}, Fetches(r, c, mode)
      PROVE  UNCHANGED <<browser, active, handling, awaits, enabled>>
  BY <1>7 DEF Fetches
<1> QED BY <1>4, <1>5, <1>6, <1>7 DEF Proceeds

LEMMA UnchangedClientInv ==
  ClientInv /\ UNCHANGED <<browser, active, handling, awaits, enabled>> => ClientInv'
BY DEF ClientInv, ClientTypes, Told, Handled, Running, Live, browser

LEMMA StepClientInv == ClientInv /\ [Next]_vars => ClientInv'
<1> SUFFICES ASSUME ClientInv, [Next]_vars PROVE ClientInv'
  OBVIOUS
<1>1. ASSUME Installs \/ Activates \/ Terminates PROVE ClientInv'
  BY <1>1 DEF Installs, Activates, Terminates, browser, ClientInv, ClientTypes, Told,
              Handled, Running, Live
<1>2. ASSUME NEW c \in Client, Opens(c) \/ Goes(c) PROVE ClientInv'
  BY <1>2, BrowserClientInv
<1>3. ASSUME NEW c \in Client, SaysClosed(c) \/ \E data \in Data : Asks(c, data)
      PROVE  ClientInv'
  BY <1>3, PostsClientInv DEF Data
<1>4. ASSUME NEW h \in handling, Handles(h) PROVE ClientInv'
  BY <1>4, HandlesClientInv
<1>5. CASE UNCHANGED vars
  BY <1>5, UnchangedClientInv DEF vars
<1>6. CASE \/ \E r \in Request : Proceeds(r) \/ IsAnswered(r)
           \/ \E c \in Client, r \in Request, mode \in Unhandled \cup {"cors"} :
                Fetches(r, c, mode)
  BY <1>6, FetchSteps, UnchangedClientInv
<1> QED BY <1>1, <1>2, <1>3, <1>4, <1>5, <1>6 DEF Next

LEMMA ClientInvariance == Spec => []ClientInv
BY InitClientInv, StepClientInv, PTL DEF Spec

-------------------------------------------------------------------------------
(* The requests.                                                           *)

Requests ==
  [at : {"idle", "getting", "matching", "serializing", "asked", "fetching", "reporting"},
   issuer : Client \cup {NoClient}, via : Client \cup {NoClient},
   asked : BOOLEAN, due : BOOLEAN, failed : BOOLEAN]

(* A request that is due is under way, its issuer has been told, and while    *)
(* that is open it is itself the client to be asked.  A client that is asked  *)
(* has been told.                                                             *)
Intercepted(q) ==
  /\ q.due => /\ q.at # "idle" /\ q.issuer \in enabled
              /\ life[q.issuer] = "open" =>
                   \/ q.at = "getting"
                   \/ /\ q.via = q.issuer /\ q.at # "matching"
                      /\ q.at \in {"asked", "fetching", "reporting"} => q.asked
  /\ q.asked => q.at \in {"asked", "fetching", "reporting"}
  /\ q.asked \/ q.at = "serializing" => q.via \in enabled

RequestInv ==
  /\ request \in [Request -> Requests]
  /\ \A r \in Request : Intercepted(request[r])

LEMMA IdleFacts ==
  ASSUME NEW b \in BOOLEAN PROVE Idle(b) \in Requests /\ Intercepted(Idle(b))
BY DEF Idle, Requests, Intercepted

LEMMA InitRequestInv == Init => RequestInv
BY IdleFacts DEF Init, RequestInv

(* A step of the clients keeps every request's standing: an open client that  *)
(* has been told stays told, and none opens again.                            *)
LEMMA ClientsRequestInv ==
  ASSUME ClientInv, RequestInv, UNCHANGED request,
         \/ Terminates
         \/ /\ enabled \subseteq enabled'
            /\ \A c \in enabled : life'[c] = "open" => life[c] = "open"
  PROVE  RequestInv'
<1>1. CASE Terminates
  <2>1. \A r \in Request : request[r].at = "idle"
    BY <1>1 DEF Terminates, InFlight
  <2> QED BY <2>1 DEF RequestInv, Intercepted
<1>2. CASE /\ enabled \subseteq enabled'
           /\ \A c \in enabled : life'[c] = "open" => life[c] = "open"
  BY <1>2 DEF RequestInv, Intercepted
<1> QED BY <1>1, <1>2

LEMMA ClientSteps ==
  ASSUME ClientInv,
         \/ Installs \/ Activates
         \/ \E c \in Client : \/ Opens(c) \/ Goes(c) \/ SaysClosed(c)
                              \/ \E data \in Data : Asks(c, data)
         \/ \E h \in handling : Handles(h)
         \/ UNCHANGED vars
  PROVE  /\ UNCHANGED request /\ enabled \subseteq enabled'
         /\ \A c \in enabled : life'[c] = "open" => life[c] = "open"
<1> USE DEF ClientInv, ClientTypes, Told, browser
<1>1. CASE Installs \/ Activates \/ UNCHANGED vars
  BY <1>1 DEF Installs, Activates, vars
<1>2. ASSUME NEW c \in Client, Opens(c) \/ Goes(c) \/ SaysClosed(c)
      PROVE  /\ UNCHANGED request /\ enabled \subseteq enabled'
             /\ \A d \in enabled : life'[d] = "open" => life[d] = "open"
  BY <1>2 DEF Opens, Goes, SaysClosed
<1>3. ASSUME NEW c \in Client, NEW data \in Data, Asks(c, data)
      PROVE  /\ UNCHANGED request /\ enabled \subseteq enabled'
             /\ \A d \in enabled : life'[d] = "open" => life[d] = "open"
  BY <1>3 DEF Asks
<1>4. ASSUME NEW h \in handling, Handles(h)
      PROVE  /\ UNCHANGED request /\ enabled \subseteq enabled'
             /\ \A d \in enabled : life'[d] = "open" => life[d] = "open"
  BY <1>4 DEF Handles, Gets, Lists, AnswersQuery, ActivatesMocking, Closes
<1> QED BY <1>1, <1>2, <1>3, <1>4

(* A request that goes on as one that stands as it should. *)
LEMMA BecomesRequestInv ==
  ASSUME RequestInv, NEW r \in Request, NEW q \in Requests, Intercepted(q), Becomes(r, q)
  PROVE  RequestInv'
<1>1. /\ request' = [request EXCEPT ![r] = q] /\ life' = life /\ enabled' = enabled
  BY DEF Becomes, browser
<1> QED BY <1>1 DEF RequestInv, Intercepted

LEMMA EndsRequestInv ==
  ASSUME RequestInv, NEW r \in Request, request[r].at \in {"asked", "fetching"},
         Responds(r) \/ Rejects(r)
  PROVE  RequestInv'
<1>1. request[r] \in Requests /\ Intercepted(request[r])
  BY DEF RequestInv
<1>2. CASE Becomes(r, Idle(FALSE)) \/ Becomes(r, Idle(TRUE))
  BY <1>2, IdleFacts, BecomesRequestInv
<1>3. CASE Becomes(r, [request[r] EXCEPT !.at = "reporting"])
  <2> DEFINE q == [request[r] EXCEPT !.at = "reporting"]
  <2>1. q \in Requests
    BY <1>1 DEF Requests
  <2>2. Intercepted(q)
    BY <1>1 DEF Requests, Intercepted
  <2> QED BY <1>3, <2>1, <2>2, BecomesRequestInv
<1> QED BY <1>2, <1>3 DEF Responds, Rejects

LEMMA FetchRequestInv ==
  ASSUME ClientInv, RequestInv, NEW r \in Request, NEW c \in Client,
         NEW mode \in Unhandled \cup {"cors"}, Fetches(r, c, mode)
  PROVE  RequestInv'
<1> DEFINE q(d) == [Idle(FALSE) EXCEPT !.at = "getting", !.issuer = c, !.due = d]
<1>1. request' = [request EXCEPT ![r] = q(c \in enabled)] /\ life' = life /\ enabled' = enabled
  BY DEF Fetches, browser
<1>2. ASSUME NEW d \in BOOLEAN, d => c \in enabled
      PROVE  q(d) \in Requests /\ Intercepted(q(d))
  BY <1>2 DEF Idle, Requests, Intercepted
<1> HIDE DEF q
<1>3. CASE c \in enabled
  <2>1. request' = [request EXCEPT ![r] = q(TRUE)]
    BY <1>1, <1>3
  <2> QED BY <1>1, <1>2, <1>3, <2>1 DEF RequestInv, Intercepted
<1>4. CASE c \notin enabled
  <2>1. request' = [request EXCEPT ![r] = q(FALSE)]
    <3>1. (c \in enabled) = FALSE
      BY <1>4
    <3> QED BY <1>1, <3>1, Zenon
  <2> QED BY <1>1, <1>2, <1>4, <2>1 DEF RequestInv, Intercepted
<1> QED BY <1>3, <1>4

LEMMA ProceedsRequestInv ==
  ASSUME ClientInv, RequestInv, NEW r \in Request, Proceeds(r) \/ IsAnswered(r)
  PROVE  RequestInv'
<1>1. request[r] \in Requests /\ Intercepted(request[r])
  BY DEF RequestInv
<1>2. enabled \subseteq Client
  BY DEF ClientInv, ClientTypes, Told
<1>3. CASE ResolvesIssuer(r)
  <2>1. CASE Resolved(r, Got(request[r].issuer))
    <3> DEFINE c == Got(request[r].issuer)
               q == [request[r] EXCEPT !.via = c,
                       !.at = IF Mocks(c) THEN "serializing" ELSE "fetching"]
    <3>0. Mocks(c) => c \in enabled
      BY DEF Mocks, ClientInv, ClientTypes
    <3>1. q \in Requests
      BY <1>1 DEF Requests, Got, Live
    <3>2. Intercepted(q)
      <4> SUFFICES ASSUME request[r].due, life[request[r].issuer] = "open"
                   PROVE  q.via = request[r].issuer /\ q.at = "serializing"
        BY <1>1, <1>3, <3>0 DEF Requests, Intercepted, ResolvesIssuer
      <4>1. request[r].issuer \in enabled /\ request[r].issuer \in active
        BY <1>1 DEF Intercepted, ClientInv, Told
      <4>2. c = request[r].issuer /\ c # NoClient
        BY <1>2, <4>1, WorkerAssumption DEF Got, Live
      <4> QED BY <1>1, <4>1, <4>2 DEF Mocks, Requests
    <3> QED BY <2>1, <3>1, <3>2, BecomesRequestInv DEF Resolved
  <2>2. CASE /\ ~(request[r].issuer \in active \/ Got(request[r].issuer) \in Client \ Frame)
             /\ Becomes(r, [request[r] EXCEPT !.at = "matching"])
    <3> DEFINE q == [request[r] EXCEPT !.at = "matching"]
    <3>1. q \in Requests
      BY <1>1 DEF Requests
    <3>2. Intercepted(q)
      BY <1>1, <1>3, <2>2 DEF Requests, Intercepted, ClientInv, Told, ResolvesIssuer
    <3> QED BY <2>2, <3>1, <3>2, BecomesRequestInv
  <2> QED BY <1>3, <2>1, <2>2 DEF ResolvesIssuer
<1>4. CASE ResolvesOther(r)
  <2>1. PICK c \in (Windows \cap active) \cup {NoClient} : Resolved(r, c)
    BY <1>4 DEF ResolvesOther
  <2> DEFINE q == [request[r] EXCEPT !.via = c,
                     !.at = IF Mocks(c) THEN "serializing" ELSE "fetching"]
  <2>2. q \in Requests
    BY <1>1 DEF Requests, Windows, Live
  <2>3. Intercepted(q)
    <3>1. Mocks(c) => c \in enabled
      BY DEF Mocks, ClientInv, ClientTypes
    <3> QED BY <1>1, <1>4, <3>1 DEF Requests, Intercepted, ResolvesOther
  <2> QED BY <2>1, <2>2, <2>3, BecomesRequestInv DEF Resolved
<1>5. CASE AsksClient(r)
  <2> DEFINE q == [request[r] EXCEPT !.at = "asked", !.asked = TRUE]
  <2>1. q \in Requests /\ Intercepted(q)
    BY <1>1, <1>5 DEF Requests, Intercepted, AsksClient
  <2> QED BY <1>5, <2>1, BecomesRequestInv DEF AsksClient
<1>6. CASE IsAnswered(r)
  <2> DEFINE q == [request[r] EXCEPT !.at = "fetching"]
  <2>1. q \in Requests /\ Intercepted(q)
    BY <1>1, <1>6 DEF Requests, Intercepted, IsAnswered
  <2> QED BY <1>6, <2>1, BecomesRequestInv, EndsRequestInv DEF IsAnswered
<1>7. CASE NetworkAnswers(r)
  BY <1>7, EndsRequestInv DEF NetworkAnswers
<1>8. CASE SendsResponse(r)
  BY <1>8, IdleFacts, BecomesRequestInv DEF SendsResponse
<1> QED BY <1>3, <1>4, <1>5, <1>6, <1>7, <1>8 DEF Proceeds

LEMMA StepRequestInv == ClientInv /\ RequestInv /\ [Next]_vars => RequestInv'
<1> SUFFICES ASSUME ClientInv, RequestInv, [Next]_vars PROVE RequestInv'
  OBVIOUS
<1>1. CASE Terminates
  BY <1>1, ClientsRequestInv DEF Terminates
<1>2. CASE \/ Installs \/ Activates
           \/ \E c \in Client : \/ Opens(c) \/ Goes(c) \/ SaysClosed(c)
                                \/ \E data \in Data : Asks(c, data)
           \/ \E h \in handling : Handles(h)
           \/ UNCHANGED vars
  BY <1>2, ClientSteps, ClientsRequestInv
<1>3. CASE \E r \in Request : Proceeds(r) \/ IsAnswered(r)
  BY <1>3, ProceedsRequestInv
<1>4. CASE \E c \in Client, r \in Request, mode \in Unhandled \cup {"cors"} :
             Fetches(r, c, mode)
  BY <1>4, FetchRequestInv
<1> QED BY <1>1, <1>2, <1>3, <1>4 DEF Next

LEMMA Invariance == Spec => [](ClientInv /\ RequestInv)
<1>1. ClientInv /\ RequestInv /\ [Next]_vars => (ClientInv /\ RequestInv)'
  BY StepClientInv, StepRequestInv
<1> QED BY <1>1, InitClientInv, InitRequestInv, PTL DEF Spec

(* For any clients, frames, requests and messages: the worker's state has its  *)
(* type, and no client has two runs of the handler for the same message.       *)
THEOREM TypeCorrect == Spec => []TypeOK
<1>1. ClientInv /\ RequestInv => TypeOK
  BY DEF ClientInv, ClientTypes, Told, Handled, Run, RequestInv, Requests, TypeOK
<1> QED BY <1>1, Invariance, PTL

(* A page that was told mocking is enabled, and is still open, is asked about   *)
(* each of its requests, whatever other clients do and wherever the handlers   *)
(* are suspended: its id is in the worker's set as long as it is open, since   *)
(* only its own CLIENT_CLOSED takes it out.                                    *)
THEOREM InterceptionSafe == Spec => []EnabledIntercepted
<1>1. ClientInv /\ RequestInv => EnabledIntercepted
  <2> SUFFICES ASSUME ClientInv, RequestInv PROVE EnabledIntercepted
    OBVIOUS
  <2>1. ASSUME NEW c \in enabled, life[c] = "open" PROVE ~Bypassed(c, "cors")
    BY <2>1 DEF Bypassed, Unhandled, ClientInv, Told
  <2>2. ASSUME NEW r \in Request, request[r].due, life[request[r].issuer] = "open"
        PROVE  \/ request[r].at = "getting"
               \/ /\ request[r].via = request[r].issuer
                  /\ request[r].at \in {"fetching", "reporting"} => request[r].asked
    BY <2>2 DEF RequestInv, Intercepted
  <2> QED BY <2>1, <2>2 DEF EnabledIntercepted
<1> QED BY <1>1, Invariance, PTL

-------------------------------------------------------------------------------
(* The end of a request.                                                   *)

(* A step of the fetch handler for one request leaves the others alone. *)
LEMMA OnlyOwn ==
  ASSUME NEW s \in Request, NEW r \in Request,
         \/ Proceeds(s) \/ IsAnswered(s)
         \/ \E c \in Client, mode \in Unhandled \cup {"cors"} : Fetches(s, c, mode),
         request'[r] # request[r], RequestInv
  PROVE  s = r
<1>1. ASSUME NEW q, Becomes(s, q) PROVE s = r
  BY <1>1 DEF Becomes, RequestInv
<1>2. ASSUME NEW c, Resolved(s, c) PROVE s = r
  BY <1>1, <1>2 DEF Resolved
<1>3. ASSUME Responds(s) \/ Rejects(s) PROVE s = r
  BY <1>1, <1>3 DEF Responds, Rejects
<1>4. CASE ResolvesIssuer(s) \/ ResolvesOther(s)
  BY <1>1, <1>2, <1>4 DEF ResolvesIssuer, ResolvesOther
<1>5. CASE AsksClient(s) \/ NetworkAnswers(s) \/ SendsResponse(s) \/ IsAnswered(s)
  BY <1>1, <1>3, <1>5 DEF AsksClient, NetworkAnswers, SendsResponse, IsAnswered
<1>6. CASE \E c \in Client, mode \in Unhandled \cup {"cors"} : Fetches(s, c, mode)
  BY <1>6 DEF Fetches, RequestInv
<1> QED BY <1>4, <1>5, <1>6 DEF Proceeds

(* A page that was asked stays active until it says it is closing. *)
LEMMA AskedStep ==
  ASSUME ClientInv, RequestInv, [Next]_vars, NEW r \in Request,
         InFlight(r), ~InFlight(r)', request[r].asked,
         life[request[r].via] \in {"open", "gone"}
  PROVE  request[r].at = "reporting" \/ request'[r].failed
<1>1. request[r] \in Requests /\ request[r].via \in enabled
  BY DEF RequestInv, Intercepted
<1>2. Reports(request[r])
  BY <1>1, WorkerAssumption DEF Reports, ClientInv, ClientTypes, Told
<1>3. request' # request
  BY DEF InFlight
<1>4. PICK s \in Request :
        \/ Proceeds(s) \/ IsAnswered(s)
        \/ \E c \in Client, mode \in Unhandled \cup {"cors"} : Fetches(s, c, mode)
  BY <1>3, ClientSteps DEF Next, Terminates
<1>5. s = r
  BY <1>4, OnlyOwn DEF InFlight
<1>6. CASE Proceeds(r)
  <2>1. ASSUME NEW c, Resolved(r, c) PROVE FALSE
    BY <1>1, <2>1 DEF Resolved, Becomes, InFlight, RequestInv, Requests
  <2>2. CASE ResolvesIssuer(r) \/ ResolvesOther(r)
    <3>1. Becomes(r, [request[r] EXCEPT !.at = "matching"])
      BY <2>1, <2>2 DEF ResolvesIssuer, ResolvesOther
    <3> QED BY <1>1, <3>1 DEF Becomes, InFlight, RequestInv, Requests
  <2>3. CASE AsksClient(r)
    BY <1>1, <2>3 DEF AsksClient, Becomes, InFlight, RequestInv, Requests
  <2>4. CASE NetworkAnswers(r)
    BY <1>1, <1>2, <2>4 DEF NetworkAnswers, Responds, Rejects, Becomes, InFlight,
                            RequestInv, Requests, Idle
  <2>5. CASE SendsResponse(r)
    BY <2>5 DEF SendsResponse
  <2> QED BY <1>6, <2>2, <2>3, <2>4, <2>5 DEF Proceeds
<1>7. CASE IsAnswered(r)
  BY <1>1, <1>2, <1>7 DEF IsAnswered, Responds, Rejects, Becomes, InFlight, RequestInv,
     Requests, Idle
<1> QED BY <1>4, <1>5, <1>6, <1>7 DEF Fetches

(* A page that was asked about a request is sent the response, unless there is *)
(* none or the page said meanwhile that it was closing: its id leaves the      *)
(* worker's set only with its own CLIENT_CLOSED.                               *)
THEOREM AskedIsToldAlways == Spec => AskedIsTold
<1>1. ClientInv /\ RequestInv /\ [Next]_vars =>
        [\A r \in Request :
           /\ InFlight(r) /\ ~InFlight(r)' /\ request[r].asked
           /\ life[request[r].via] \in {"open", "gone"}
           => request[r].at = "reporting" \/ request'[r].failed]_vars
  BY AskedStep
<1> QED BY <1>1, Invariance, PTL DEF Spec, AskedIsTold

-------------------------------------------------------------------------------
(* Unregistering.                                                          *)

(* Who was there when CLIENT_CLOSED came is in the list, once there is one,    *)
(* unless it has gone.                                                        *)
Watched(h) ==
  /\ h.present \subseteq controlled /\ \A c \in h.present : life[c] # "absent"
  /\ h.at = "ready" /\ h.data = "CLIENT_CLOSED" => h.present \cap Live \subseteq h.all
WatchInv == \A h \in handling : Watched(h)

LEMMA WatchStep == ClientInv /\ WatchInv /\ [Next]_vars => WatchInv'
<1> SUFFICES ASSUME ClientInv, WatchInv, [Next]_vars PROVE WatchInv'
  OBVIOUS
<1> USE DEF ClientInv, ClientTypes, WatchInv, Watched, Live
<1>1. CASE Installs \/ Activates \/ Terminates \/ UNCHANGED vars
  BY <1>1 DEF Installs, Activates, Terminates, vars, browser
<1>2. ASSUME NEW c \in Client, Opens(c) \/ Goes(c) PROVE WatchInv'
  BY <1>2 DEF Opens, Goes
<1>3. ASSUME NEW c \in Client, SaysClosed(c) PROVE WatchInv'
  <2>1. PICK h : h = Message(c, "CLIENT_CLOSED") /\ handling' = handling \cup {h}
    BY <1>3 DEF SaysClosed
  <2>2. Watched(h)'
    BY <1>3, <2>1 DEF SaysClosed, Message, Windows
  <2> QED BY <1>3, <2>1, <2>2 DEF SaysClosed
<1>4. ASSUME NEW c \in Client, NEW data \in Data, Asks(c, data) PROVE WatchInv'
  <2>1. PICK h : h = Message(c, data) /\ handling' = handling \cup {h}
    BY <1>4 DEF Asks
  <2>2. Watched(h)'
    BY <1>4, <2>1 DEF Asks, Message, Windows, browser
  <2> QED BY <1>4, <2>1, <2>2 DEF Asks, browser
<1>5. ASSUME NEW h \in handling, Handles(h) PROVE WatchInv'
  <2>1. CASE Gets(h)
    <3>1. Watched([h EXCEPT !.at = "listing"])
      BY DEF Run
    <3> QED BY <2>1, <3>1 DEF Gets, browser
  <2>2. CASE Lists(h)
    <3>1. Watched(Listed(h, Windows))
      BY DEF Run, Listed, Windows
    <3> QED BY <2>2, <3>1 DEF Lists, browser
  <2>3. CASE AnswersQuery(h) \/ ActivatesMocking(h) \/ Closes(h)
    BY <2>3 DEF AnswersQuery, ActivatesMocking, Closes, browser
  <2> QED BY <1>5, <2>1, <2>2, <2>3 DEF Handles
<1>6. CASE \E r \in Request :
             \/ Proceeds(r) \/ IsAnswered(r)
             \/ \E c \in Client, mode \in Unhandled \cup {"cors"} : Fetches(r, c, mode)
  BY <1>6, FetchSteps DEF browser
<1> QED BY <1>1, <1>2, <1>3, <1>4, <1>5, <1>6 DEF Next

LEMMA Unregisters ==
  ASSUME ClientInv, WatchInv, [Next]_vars, phase = "activated", phase' = "unregistered"
  PROVE  \E h \in handling \ handling' :
           h.data = "CLIENT_CLOSED" /\ h.present \cap Live \subseteq {h.client}
<1>1. PICK h \in handling : Closes(h)
  <2>1. CASE \E h \in handling : Handles(h)
    BY <2>1 DEF Handles, Gets, Lists, AnswersQuery, ActivatesMocking, browser
  <2>2. CASE \E r \in Request :
               \/ Proceeds(r) \/ IsAnswered(r)
               \/ \E c \in Client, mode \in Unhandled \cup {"cors"} : Fetches(r, c, mode)
    BY <2>2, FetchSteps DEF browser
  <2> QED BY <2>1, <2>2 DEF Next, Installs, Activates, Terminates, Opens, Goes,
                            SaysClosed, Asks, vars, browser
<1> QED BY <1>1 DEF Closes, WatchInv, Watched

(* The worker unregisters only if no client was there both when CLIENT_CLOSED *)
(* came and when it acts on it, except the one that sent it: whoever was      *)
(* there at both times is in the list it decides by.                          *)
THEOREM UnregistersAloneAlways == Spec => UnregistersAlone
<1>1. Init => WatchInv
  BY DEF Init, WatchInv
<1>2. ClientInv /\ WatchInv /\ [Next]_vars =>
        [phase = "activated" /\ phase' = "unregistered" =>
           \E h \in handling \ handling' :
             h.data = "CLIENT_CLOSED" /\ h.present \cap Live \subseteq {h.client}]_vars
  BY Unregisters
<1> QED BY <1>1, <1>2, WatchStep, ClientInvariance, PTL DEF Spec, UnregistersAlone
===============================================================================
