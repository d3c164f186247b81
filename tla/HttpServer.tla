----------------------------- MODULE HttpServer -----------------------------
(***************************************************************************)
(* Connections and requests in the HTTP library (lib/psychic_http): which  *)
(* client objects exist, which handlers point at them, and how far a body  *)
(* has arrived.  All of it runs on the httpd task, one request or          *)
(* one callback at a time; esp_http_server and the sockets are external.   *)
(*                                                                         *)
(* A client object is its address.  The library frees it when its socket   *)
(* closes, and an address that was freed may be given to the next client.  *)
(* What a handler reads through a pointer to a freed object is anything.   *)
(* Upload handlers keep no clients, and are left out.                      *)
(***************************************************************************)
EXTENDS Naturals, Sequences, FiniteSets, SequencesExt

CONSTANTS
    Sockets,        \* socket numbers esp_http_server hands out, and reuses
    Addresses,      \* memory for client objects
    Web,            \* endpoints with a PsychicWebHandler, one handler each
    Events,         \* the endpoint with the PsychicEventSource
    NotFound,       \* the handler of defaultEndpoint
    None,           \* no address, no request
    MaxRequestBody, \* maxRequestBodySize
    MaxBody,        \* bound: longest body that a client announces
    MaxHeld         \* bound: requests that end at NotFound while it holds this many

ASSUME HttpAssumption ==
    /\ None \notin Sockets /\ None \notin Addresses
    /\ Events \notin Web /\ NotFound \notin Web \union {Events}
    /\ Cardinality(Addresses) >= Cardinality(Sockets)
    /\ MaxRequestBody \in Nat /\ MaxBody \in Nat /\ MaxHeld \in Nat

Endpoints == Web \union {Events}
Handlers == Endpoints \union {NotFound}

VARIABLES
    opened,   \* the sockets of esp_http_server's sessions
    clients,  \* PsychicHttpServer::_clients
    socketOf, \* the socket of the client at an address, None when it is freed
    buddy,    \* addresses whose client has a PsychicEventSourceClient (_friend)
    held,     \* PsychicHandler::_clients of every handler
    told,     \* sockets whose onOpen was called and whose onClose was not
    misused,  \* history: handlers that went through a pointer to a freed client
    req       \* the request httpd is serving

connections == <<opened, clients, socketOf>>
handlers == <<buddy, held, told, misused>>
httpVars == <<connections, handlers, req>>

HttpTypeOK ==
    /\ opened \subseteq Sockets
    /\ clients \in Seq(Addresses)
    /\ socketOf \in [Addresses -> Sockets \union {None}]
    /\ buddy \subseteq Addresses
    /\ held \in [Handlers -> Seq(Addresses)]
    /\ told \subseteq Sockets
    /\ misused \subseteq Handlers
    /\ req \in {None} \union
         [socket : Sockets, handler : Handlers, phase : {"body", "call", "drop"},
          announced : Nat, got : Nat, gone : BOOLEAN]

HttpInit ==
    /\ opened = {} /\ clients = <<>> /\ socketOf = [a \in Addresses |-> None]
    /\ buddy = {} /\ held = [h \in Handlers |-> <<>>] /\ told = {} /\ misused = {}
    /\ req = None

-----------------------------------------------------------------------------
(* Looking a client up.                                                    *)

\* PsychicHttpServer::getClient(socket)
ServerClient(s) ==
    IF \E i \in DOMAIN clients : socketOf[clients[i]] = s
    THEN clients[CHOOSE i \in DOMAIN clients : socketOf[clients[i]] = s]
    ELSE None

\* The pointers in a handler's list that a search for s may stop at: the
\* first client with that socket, or a freed one in front of it that reads so.
Stops(h, s) ==
    {i \in DOMAIN held[h] :
        /\ socketOf[held[h][i]] \in {s, None}
        /\ \A j \in 1..(i - 1) : socketOf[held[h][j]] # s}

\* The search may pass every pointer without a match.
MayMiss(h, s) == \A i \in DOMAIN held[h] : socketOf[held[h][i]] # s

\* A search that stops at i, or at none of them, has read a freed client.
ReadsFreed(h, i) == \E j \in 1..i : socketOf[held[h][j]] = None

\* PsychicHandler::getClient(socket): 0 when nothing is found.  The list is
\* searched only for a socket the server knows.
Found(h, s) ==
    IF ServerClient(s) = None THEN {0}
    ELSE Stops(h, s) \union (IF MayMiss(h, s) THEN {0} ELSE {})

\* How far a search went that had the result i.
Searched(h, i) == IF i = 0 THEN Len(held[h]) ELSE i

Misuse(h, i) == IF ReadsFreed(h, Searched(h, i)) THEN {h} ELSE {}

-----------------------------------------------------------------------------
(* A connection opens.                                                     *)

\* openCallback(): a client object, unless the socket has one.
Connect(s, a) ==
    /\ req = None /\ s \notin opened
    /\ opened' = opened \union {s}
    /\ socketOf[a] = None
    /\ IF ServerClient(s) # None THEN UNCHANGED <<clients, socketOf>>
       ELSE /\ clients' = Append(clients, a)
            /\ socketOf' = [socketOf EXCEPT ![a] = s]
    /\ UNCHANGED <<handlers, req>>

-----------------------------------------------------------------------------
(* A request.                                                              *)

\* PsychicHandler::checkForNewClient(), with addClient() of the event source,
\* which gives the client its buddy.
Enters(h, s, i) ==
    /\ misused' = misused \union Misuse(h, i)
    /\ IF i # 0 THEN UNCHANGED <<held, buddy>>
       ELSE /\ held' = [held EXCEPT ![h] = Append(@, ServerClient(s))]
            /\ buddy' = IF h = Events THEN buddy \union {ServerClient(s)} ELSE buddy

\* PsychicEventSource::handleRequest(): the header goes out, whatever becomes
\* of it, and a client that is new is reported to onOpen.
Subscribe(s) ==
    /\ req = None /\ s \in opened
    /\ \E i \in Found(Events, s) :
         /\ Enters(Events, s, i)
         /\ told' = IF i = 0 THEN told \union {s} ELSE told
    /\ UNCHANGED <<connections, req>>

\* requestHandler(), _process(): the endpoint that matches, or notFoundHandler().
\* PsychicWebHandler::handleRequest() looks its client up, then refuses a body
\* that is too large by dropping the connection.
Request(s, h, announced) ==
    /\ req = None /\ s \in opened
    /\ h = NotFound => Len(held[h]) < MaxHeld
    /\ \E i \in Found(h, s) : Enters(h, s, i)
    /\ req' = [socket |-> s, handler |-> h, announced |-> announced, got |-> 0,
               gone |-> FALSE,
               phase |-> IF announced > MaxRequestBody THEN "drop"
                         ELSE IF announced = 0 THEN "call" ELSE "body"]
    /\ UNCHANGED <<connections, told>>

Reading == req # None /\ req.phase = "body"

\* loadBody(): httpd_req_recv() returns the next bytes.
Receive(n) ==
    /\ Reading /\ ~req.gone /\ n <= req.announced - req.got
    /\ req' = [req EXCEPT !.got = @ + n,
                          !.phase = IF req.got + n = req.announced THEN "call" ELSE @]
    /\ UNCHANGED <<connections, handlers>>

\* It times out, and is called again.
ReceiveAgain == Reading /\ ~req.gone /\ UNCHANGED httpVars

\* The peer closes: 0 bytes arrive, now and at every further call.
PeerCloses ==
    /\ Reading /\ ~req.gone
    /\ req' = [req EXCEPT !.gone = TRUE]
    /\ UNCHANGED <<connections, handlers>>

ReadsNothing == Reading /\ req.gone /\ UNCHANGED httpVars

\* The socket fails.  loadBody() leaves its loop and reports success.
ReceiveFails ==
    /\ Reading
    /\ req' = [req EXCEPT !.phase = "call"]
    /\ UNCHANGED <<connections, handlers>>

\* loadParams() and the callback of the endpoint.
CallEndpoint ==
    /\ req # None /\ req.phase = "call"
    /\ req' = None
    /\ UNCHANGED <<connections, handlers>>

-----------------------------------------------------------------------------
(* A connection ends.                                                      *)

\* std::list::remove(): what is left of the first n pointers, and of all.
Left(list, a) ==
    LET left[n \in 0..Len(list)] ==
            IF n = 0 THEN <<>>
            ELSE IF list[n] = a THEN left[n - 1] ELSE Append(left[n - 1], list[n])
    IN  left

WithoutClient(list, a) == Left(list, a)[Len(list)]

\* Slip: the server forgets its client first, and no handler then finds it.
CloseServerFirst(s) ==
    /\ clients' = WithoutClient(clients, ServerClient(s))
    /\ socketOf' = [socketOf EXCEPT ![ServerClient(s)] = None]
    /\ opened' = opened \ {s}
    /\ UNCHANGED handlers

\* Slip: the handlers are told and the client is freed, but it stays listed.
CloseKeepsRecord(s) ==
    LET a == ServerClient(s) IN
    /\ held' = [h \in Handlers |-> IF h \in Endpoints THEN WithoutClient(held[h], a) ELSE held[h]]
    /\ told' = told \ {s} /\ buddy' = buddy \ {a}
    /\ socketOf' = [socketOf EXCEPT ![a] = None]
    /\ opened' = opened \ {s}
    /\ UNCHANGED <<clients, misused>>

\* closeCallback(): checkForClosedClient() of every endpoint's handler, and
\* then the server forgets the client and frees it.  The event source reports
\* it to onClose and frees its buddy.  found is what each handler's search
\* for the socket ended with.
CloseClient(s) ==
    LET a == ServerClient(s) IN
    \E found \in [Endpoints -> UNION {Found(h, s) : h \in Endpoints}] :
        /\ \A h \in Endpoints : found[h] \in Found(h, s)
        /\ misused' = misused \union UNION {Misuse(h, found[h]) : h \in Endpoints}
        /\ held' = [h \in Handlers |->
                      IF h \in Endpoints /\ found[h] # 0 THEN WithoutClient(held[h], a) ELSE held[h]]
        /\ told' = IF found[Events] # 0 THEN told \ {s} ELSE told
        /\ buddy' = IF found[Events] # 0 THEN buddy \ {a} ELSE buddy
        /\ clients' = WithoutClient(clients, a)
        /\ socketOf' = [socketOf EXCEPT ![a] = None]
        /\ opened' = opened \ {s}

\* The peer or the server ends a connection between two requests.
Close(s) ==
    /\ req = None /\ s \in opened
    /\ CloseClient(s)
    /\ UNCHANGED req

\* A handler returned an error, and esp_http_server drops the connection.
Drop ==
    /\ req # None /\ req.phase = "drop"
    /\ CloseClient(req.socket)
    /\ req' = None

HttpNext ==
    \/ \E s \in Sockets, a \in Addresses : Connect(s, a)
    \/ \E s \in Sockets : Subscribe(s)
    \/ \E s \in Sockets, h \in Web \union {NotFound}, n \in 0..MaxBody :
         Request(s, h, n)
    \/ \E n \in 1..MaxBody : Receive(n)
    \/ ReceiveAgain \/ PeerCloses \/ ReadsNothing \/ ReceiveFails
    \/ CallEndpoint
    \/ \E s \in Sockets : Close(s)
    \/ Drop

HttpSpec == HttpInit /\ [][HttpNext]_httpVars

-----------------------------------------------------------------------------
(* Properties.                                                             *)

\* A session has one client object, which lives as long as it does: request
\* handlers dereference client() without asking.
EverySessionHasItsClient ==
    /\ \A s \in opened : Cardinality({i \in DOMAIN clients : socketOf[clients[i]] = s}) = 1
    /\ \A i \in DOMAIN clients : socketOf[clients[i]] \in opened

\* No endpoint's handler ever goes through a pointer to a client that was
\* freed, however sockets and memory are reused.
EndpointsReadLiveClients == misused \subseteq {NotFound}

\* A stream that was reported open is reported closed before its socket is
\* used again, and its buddy lives exactly as long: sse_hub's own list of
\* sockets depends on it.
StreamsArePaired ==
    /\ told = {socketOf[held[Events][i]] : i \in DOMAIN held[Events]}
    /\ told \subseteq opened
    /\ buddy = ToSet(held[Events])

\* A session, its client and its stream live and die together, and no handler
\* of an endpoint is left with a client that is gone (PsychicHttpServer.cpp:574-620).
SessionsAreWhole == EverySessionHasItsClient /\ StreamsArePaired /\ EndpointsReadLiveClients

=============================================================================
