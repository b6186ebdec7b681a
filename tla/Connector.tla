------------------------------ MODULE Connector ------------------------------
(***************************************************************************)
(* The HTTP connector of the iBMC client (ibmc_client/connector.py) and the *)
(* Redfish session service it talks to.                                     *)
(*                                                                          *)
(* Every client program is sequential: it makes one API call at a time, and *)
(* a call is a tree of HTTP exchanges.  `Connector.request' retries once    *)
(* after a 401 (with a new session) or a 412 (after a pause); a PATCH       *)
(* without an ETag first reads one with a nested `request'; a login is      *)
(* itself a `request', so a refused login logs in again, recursively.  An   *)
(* error raised anywhere is not a RequestException any more, so it unwinds  *)
(* the whole stack: the stack is fully described by the few flags of a      *)
(* `call' record below.                                                     *)
(*                                                                          *)
(* A request stays in `net' until the server handles it, even after its     *)
(* sender has given up waiting.  Session tokens and session paths are both  *)
(* numbered by the order of issue, 0 being `no session'; an ETag is the     *)
(* version number of the one resource the clients write, 0 being `never     *)
(* read'.                                                                   *)
(***************************************************************************)
EXTENDS Naturals, Sequences

CONSTANTS
    Clients,       \* the client programs, each with its own Connector
    MaxCalls,      \* bound: API calls a client makes
    MaxSessions,   \* bound: sessions the server issues
    MaxVersion,    \* bound: versions of the resource made by foreign writers
    StackLimit,    \* nested logins that exhaust the interpreter's stack
    RefuseLogins,  \* may the server answer 401 to a login?
    Lossy          \* may an exchange time out or break?

ASSUME ConstantsAssumption ==
    /\ MaxCalls \in Nat /\ MaxSessions \in Nat /\ MaxVersion \in Nat
    /\ StackLimit \in Nat \ {0}
    /\ RefuseLogins \in BOOLEAN /\ Lossy \in BOOLEAN

VARIABLES
    call,     \* [Clients -> the API call under way, its stack of requests]
    session,  \* [Clients -> Connector.session, the path of the cached session]
    header,   \* [Clients -> X-Auth-Token in _conn.headers]
    seen,     \* [Clients -> ETag of the resource object the program holds]
    rep,      \* [Clients -> the response on its way to the client]
    net,      \* requests sent and not handled yet
    live,     \* sessions the server accepts
    issued,   \* who logged in for session 1, 2, ...
    version,  \* current version of the resource
    log,      \* history: the effects on the server, in order
    refused,  \* history: the clients a login was ever refused to
    done      \* history: [Clients -> the calls that returned, in order]

client == <<call, session, header, seen, done>>
server == <<live, issued, version, log, refused>>
vars   == <<call, session, header, seen, rep, net, live, issued, version, log,
            refused, done>>

----------------------------------------------------------------------------
\* "get": GET of a resource object; "post": an action, a creation or a
\* deletion; "patch": PATCH whose ETag the connector reads; "set": PATCH with
\* the ETag of the resource object the program holds.
Requests == {"get", "post", "patch", "set"}
Effects  == {"post", "patch", "set"}
Ops      == Requests \cup {"connect", "disconnect"}
Outcomes == {"ok", "401", "412", "err",
             "ConnectionError", "RecursionError", "TypeError"}

\* op: the call; at: the request it is making; retried, readRetried: the
\* `retry' flag of the outer request and of the nested GET for the ETag;
\* depth: nested logins; lastLogin: the `retry' flag of the innermost login;
\* back: the request that resumes after the login; arg: the ETag or session
\* path the call was given; tag: If-Match to send; sent: requests sent.
NoCall == [op |-> "none", at |-> "idle", waiting |-> FALSE,
           retried |-> FALSE, readRetried |-> FALSE,
           depth |-> 0, lastLogin |-> FALSE, back |-> "main",
           arg |-> 0, tag |-> 0, sent |-> 0]

NoReply == [status |-> "none", value |-> 0]

\* A client begins when the constructor of its Connector has returned.  The GET
\* of the service root there has left only `_meta', the paths of the services;
\* one that fails leaves no Connector.
Init ==
    /\ call = [c \in Clients |-> NoCall]
    /\ session = [c \in Clients |-> 0]
    /\ header = [c \in Clients |-> 0]
    /\ seen = [c \in Clients |-> 0]
    /\ rep = [c \in Clients |-> NoReply]
    /\ net = {}
    /\ live = {}
    /\ issued = <<>>
    /\ version = 1
    /\ log = <<>>
    /\ refused = {}
    /\ done = [c \in Clients |-> <<>>]

\* Logins one renewal may cost: the nested ones, each outer one repeated.
LoginCost == IF RefuseLogins THEN 2 * StackLimit - 1 ELSE 1

\* The most requests a call may send; `sent' counts no further than one more.
TrafficLimit == 6 + 3 * LoginCost

CallNo(c) == Len(done[c]) + 1

Returned(c, o, x) == done' = [done EXCEPT ![c] = Append(@, [op |-> o, outcome |-> x])]

----------------------------------------------------------------------------
(* Starting a call.                                                         *)

\* Mutant: the retry forgets the ETag it was given.
Attempt_DropsEtag(k) ==
    [k EXCEPT !.at = IF k.op = "patch" \/ (k.op = "set" /\ k.retried)
                     THEN "etag" ELSE "main",
              !.readRetried = FALSE]

\* One attempt at the outer request: a PATCH without an ETag reads one first.
Attempt(k) == [k EXCEPT !.at = IF k.op = "patch" THEN "etag" ELSE "main",
                        !.readRetried = FALSE]

\* Mutant: the login resumes whatever the call was doing before it.
Login_BackToWhereItWas(k, back) ==
    [k EXCEPT !.at = "login", !.depth = 1, !.lastLogin = FALSE, !.back = k.at]

\* A fresh, not yet retried POST to Sessions; `back' resumes afterwards.
Login(k, back) == [k EXCEPT !.at = "login", !.depth = 1,
                            !.lastLogin = FALSE, !.back = back]

Starting(c, o) ==
    /\ call[c].at = "idle"
    /\ Len(done[c]) < MaxCalls
    /\ UNCHANGED <<session, header, seen, rep, net, server>>

Connect(c) ==
    /\ Starting(c, "connect")
    /\ session[c] = 0
    /\ call' = [call EXCEPT ![c] = Login([NoCall EXCEPT !.op = "connect"], "main")]
    /\ UNCHANGED done

\* connect() with a cached session returns at once.
ConnectAgain(c) ==
    /\ Starting(c, "connect")
    /\ session[c] # 0
    /\ Returned(c, "connect", "ok")
    /\ UNCHANGED call

Disconnect(c) ==
    /\ Starting(c, "disconnect")
    /\ session[c] # 0
    /\ call' = [call EXCEPT ![c] = Attempt([NoCall EXCEPT !.op = "disconnect",
                                                          !.arg = session[c]])]
    /\ UNCHANGED done

\* '%(address)s%(location)s' % None
DisconnectUnconnected(c) ==
    /\ Starting(c, "disconnect")
    /\ session[c] = 0
    /\ Returned(c, "disconnect", "TypeError")
    /\ UNCHANGED call

Request(c, o) ==
    /\ Starting(c, o)
    /\ o = "set" => seen[c] # 0
    /\ LET given == IF o = "set" THEN seen[c] ELSE 0
       IN  call' = [call EXCEPT ![c] = Attempt([NoCall EXCEPT !.op = o,
                                                !.arg = given, !.tag = given])]
    /\ UNCHANGED done

----------------------------------------------------------------------------
(* The HTTP exchanges of a call.                                            *)

Kind(k) ==
    IF k.at = "login" THEN "login"
    ELSE IF k.at = "etag" THEN "read"
    ELSE CASE k.op \in {"get", "connect"} -> "read"
           [] k.op = "post"                -> "write"
           [] k.op \in {"patch", "set"}    -> "update"
           [] k.op = "disconnect"          -> "logout"

Message(c) == [kind |-> Kind(call[c]), client |-> c, n |-> CallNo(c),
               op |-> call[c].op, token |-> header[c],
               arg |-> call[c].arg, tag |-> call[c].tag]

Send(c) ==
    /\ call[c].at # "idle" /\ ~call[c].waiting
    /\ net' = net \cup {Message(c)}
    /\ call' = [call EXCEPT ![c].waiting = TRUE,
                            ![c].sent = IF @ > TrafficLimit THEN @ ELSE @ + 1]
    /\ UNCHANGED <<session, header, seen, rep, done, server>>

\* The response the client acts on; `k' is the call as it goes on.
Receive(c, status, k) ==
    /\ call[c].waiting
    /\ rep[c].status = status
    /\ rep' = [rep EXCEPT ![c] = NoReply]
    /\ call' = [call EXCEPT ![c] = [k EXCEPT !.waiting = FALSE]]
    /\ UNCHANGED <<net, server>>

CanRetry(k) == CASE k.at = "login" -> ~k.lastLogin
                 [] k.at = "etag"  -> ~k.readRetried
                 [] OTHER          -> ~k.retried

\* Mutant: the retry is made without retry=True.
MarkRetried_Not(k) == k

MarkRetried(k) == IF k.at = "etag" THEN [k EXCEPT !.readRetried = TRUE]
                                   ELSE [k EXCEPT !.retried = TRUE]

Resume(k) == IF k.back = "etag" THEN [k EXCEPT !.at = "etag", !.depth = 0]
                                ELSE Attempt([k EXCEPT !.depth = 0])

\* Mutant: only the header is renewed once a session is cached.
CacheSession_HeaderOnly(c, token) ==
    /\ session' = IF session[c] = 0 THEN [session EXCEPT ![c] = token] ELSE session
    /\ header' = [header EXCEPT ![c] = token]

\* The end of _fetch_session: cache the session, update the header, and
\* return to the caller.  Below the first login the caller is the 401 handler
\* of an outer login, which now repeats its own POST, for the last time.
CacheSession(c, token) ==
    /\ session' = [session EXCEPT ![c] = token]
    /\ header' = [header EXCEPT ![c] = token]

\* Mutant: the 401 handler returns once the session is renewed.
LoggedIn_NoRetry(c) ==
    LET k == call[c]
    IN  /\ k.at = "login"
        /\ Receive(c, "ok", NoCall)
        /\ CacheSession(c, rep[c].value)
        /\ Returned(c, k.op, "ok")
        /\ UNCHANGED seen

LoggedIn(c) ==
    LET k == call[c]
    IN  /\ k.at = "login"
        /\ Receive(c, "ok", IF k.depth = 1 THEN Resume(k)
                            ELSE [k EXCEPT !.depth = @ - 1, !.lastLogin = TRUE])
        /\ CacheSession(c, rep[c].value)
        /\ UNCHANGED <<seen, done>>

\* 401 to a login that was not a retry: log in again, one level deeper.
LoginRefused(c) ==
    LET k == call[c]
    IN  /\ k.at = "login" /\ CanRetry(k) /\ k.depth < StackLimit
        /\ Receive(c, "401", [k EXCEPT !.depth = @ + 1, !.lastLogin = FALSE])
        /\ UNCHANGED <<session, header, seen, done>>

EtagRead(c) ==
    LET k == call[c]
    IN  /\ k.at = "etag"
        /\ Receive(c, "ok", [k EXCEPT !.at = "main", !.tag = rep[c].value])
        /\ UNCHANGED <<session, header, seen, done>>

\* 401 to another request: renew the session, then retry.
RenewSession(c) ==
    LET k == call[c]
    IN  /\ k.at \in {"etag", "main"} /\ CanRetry(k)
        /\ Receive(c, "401", Login(MarkRetried(k), k.at))
        /\ UNCHANGED <<session, header, seen, done>>

\* Mutant: every error response is retried once.
RetryStale_AnyError(c) ==
    LET k == call[c]
    IN  /\ k.at = "main" /\ CanRetry(k)
        /\ \E s \in {"412", "err"} : Receive(c, s, Attempt(MarkRetried(k)))
        /\ UNCHANGED <<session, header, seen, done>>

\* 412: retry after ten seconds, with the ETag given or else a new one.
RetryStale(c) ==
    LET k == call[c]
    IN  /\ k.at = "main" /\ CanRetry(k)
        /\ Receive(c, "412", Attempt(MarkRetried(k)))
        /\ UNCHANGED <<session, header, seen, done>>

\* A response refreshes the resource object it was requested for.
Succeed(c) ==
    LET k == call[c]
    IN  /\ k.at = "main"
        /\ Receive(c, "ok", NoCall)
        /\ seen' = IF k.op \in {"get", "set"} THEN [seen EXCEPT ![c] = rep[c].value]
                                              ELSE seen
        /\ Returned(c, k.op, "ok")
        /\ UNCHANGED <<session, header>>

\* Any other error, or a 401 or 412 to a retried request, unwinds the stack.
Fail(c) ==
    LET k == call[c]
        s == rep[c].status
    IN  /\ s = "err" \/ (s \in {"401", "412"} /\ ~CanRetry(k))
        /\ Receive(c, s, NoCall)
        /\ Returned(c, k.op, s)
        /\ UNCHANGED <<session, header, seen>>

StackOverflow(c) ==
    LET k == call[c]
    IN  /\ k.at = "login" /\ CanRetry(k) /\ k.depth >= StackLimit
        /\ Receive(c, "401", NoCall)
        /\ Returned(c, k.op, "RecursionError")
        /\ UNCHANGED <<session, header, seen>>

\* Mutant: a request without a response is sent again.
GiveUp_Resend(c) ==
    LET k == call[c]
    IN  /\ Lossy
        /\ k.waiting /\ k.at = "main" /\ CanRetry(k)
        /\ call' = [call EXCEPT ![c] = [Attempt(MarkRetried(k)) EXCEPT !.waiting = FALSE]]
        /\ rep' = [rep EXCEPT ![c] = NoReply]
        /\ UNCHANGED <<session, header, seen, done, net, server>>

\* A timeout or a broken connection: there is no response, hence no retry.
\* The request may be lost, still under way, or already carried out.
GiveUp(c) ==
    /\ Lossy
    /\ call[c].waiting
    /\ call' = [call EXCEPT ![c] = NoCall]
    /\ rep' = [rep EXCEPT ![c] = NoReply]
    /\ Returned(c, call[c].op, "ConnectionError")
    /\ UNCHANGED <<session, header, seen, net, server>>

----------------------------------------------------------------------------
(* The iBMC server.                                                         *)

\* Request r is answered; the response is dropped when nobody waits for it.
Answer(r, status, value) ==
    /\ net' = net \ {r}
    /\ rep' = IF call[r.client].waiting /\ r.n = CallNo(r.client)
              THEN [rep EXCEPT ![r.client] = [status |-> status, value |-> value]]
              ELSE rep
    /\ UNCHANGED client

Accepted(r) == r.token \in live

Performed(r) == log' = Append(log, [client |-> r.client, n |-> r.n, op |-> r.op,
                                    base |-> version, arg |-> r.arg])

ServeLogin(r) ==
    /\ r.kind = "login"
    /\ Len(issued) < MaxSessions
    /\ issued' = Append(issued, r.client)
    /\ live' = live \cup {Len(issued) + 1}
    /\ Answer(r, "ok", Len(issued) + 1)
    /\ UNCHANGED <<version, log, refused>>

RefuseLogin(r) ==
    /\ RefuseLogins /\ r.kind = "login"
    /\ refused' = refused \cup {r.client}
    /\ Answer(r, "401", 0)
    /\ UNCHANGED <<live, issued, version, log>>

Unauthorized(r) ==
    /\ r.kind # "login" /\ ~Accepted(r)
    /\ Answer(r, "401", 0)
    /\ UNCHANGED server

ServeRead(r) ==
    /\ r.kind = "read" /\ Accepted(r)
    /\ Answer(r, "ok", version)
    /\ UNCHANGED server

\* The server may also report an error after it has acted.
ServeWrite(r) ==
    /\ r.kind = "write" /\ Accepted(r)
    /\ Performed(r)
    /\ \E s \in {"ok", "err"} : Answer(r, s, 0)
    /\ UNCHANGED <<live, issued, version, refused>>

ServeUpdate(r) ==
    /\ r.kind = "update" /\ Accepted(r) /\ r.tag = version
    /\ version' = version + 1
    /\ Performed(r)
    /\ \E s \in {"ok", "err"} : Answer(r, s, version + 1)
    /\ UNCHANGED <<live, issued, refused>>

PreconditionFailed(r) ==
    /\ r.kind = "update" /\ Accepted(r) /\ r.tag # version
    /\ Answer(r, "412", 0)
    /\ UNCHANGED server

ServeLogout(r) ==
    /\ r.kind = "logout" /\ Accepted(r) /\ r.arg \in live
    /\ live' = live \ {r.arg}
    /\ Answer(r, "ok", 0)
    /\ UNCHANGED <<issued, version, log, refused>>

\* 404 for a session that is gone, 500, 503: an error without an effect.
ServerError(r) ==
    /\ Answer(r, "err", 0)
    /\ UNCHANGED server

Serve(r) == \/ ServeLogin(r) \/ RefuseLogin(r) \/ Unauthorized(r)
            \/ ServeRead(r) \/ ServeWrite(r) \/ ServeUpdate(r)
            \/ PreconditionFailed(r) \/ ServeLogout(r) \/ ServerError(r)

\* The server drops a session: idle timeout, restart of the iBMC, ...
Expire(s) ==
    /\ s \in live
    /\ live' = live \ {s}
    /\ UNCHANGED <<client, rep, net, issued, version, log, refused>>

\* Another program, or the server itself, changes the resource.
ForeignWrite ==
    /\ version < MaxVersion
    /\ version' = version + 1
    /\ UNCHANGED <<client, rep, net, live, issued, log, refused>>

----------------------------------------------------------------------------
Start(c) == \/ Connect(c) \/ ConnectAgain(c)
            \/ Disconnect(c) \/ DisconnectUnconnected(c)
            \/ \E o \in Requests : Request(c, o)

React(c) == \/ LoggedIn(c) \/ LoginRefused(c) \/ EtagRead(c)
            \/ RenewSession(c) \/ RetryStale(c) \/ Succeed(c)
            \/ Fail(c) \/ StackOverflow(c)

Next == \/ \E c \in Clients : Start(c) \/ Send(c) \/ React(c) \/ GiveUp(c)
        \/ \E r \in net : Serve(r)
        \/ \E s \in live : Expire(s)
        \/ ForeignWrite

Spec == Init /\ [][Next]_vars

\* The client code runs on; an awaited request is answered, or the 60 second
\* timeout of `_conn.send' ends the wait.  Nothing is assumed of the programs'
\* calls, of requests nobody waits for, of expiry or of foreign writers.
Exchange(c) == GiveUp(c) \/ \E r \in net : r.client = c /\ r.n = CallNo(c) /\ Serve(r)

Fairness == \A c \in Clients : /\ WF_vars(Send(c) \/ React(c))
                               /\ WF_vars(Exchange(c))

FairSpec == Spec /\ Fairness

----------------------------------------------------------------------------
(* Properties.                                                              *)

Sessions == 0 .. Len(issued)

CallRecord ==
    [op : Ops \cup {"none"}, at : {"idle", "login", "etag", "main"},
     waiting : BOOLEAN, retried : BOOLEAN, readRetried : BOOLEAN,
     depth : Nat, lastLogin : BOOLEAN, back : {"etag", "main"},
     arg : Nat, tag : Nat, sent : Nat]

ReplyRecord == [status : {"none", "ok", "401", "412", "err"}, value : Nat]

RequestRecord ==
    [kind : {"login", "read", "write", "update", "logout"}, client : Clients,
     n : Nat \ {0}, op : Ops, token : Nat, arg : Nat, tag : Nat]

EffectRecord == [client : Clients, n : Nat \ {0}, op : Ops,
                 base : Nat, arg : Nat]

\* Every variable holds a value of its kind (the state the connector and the
\* server keep).
TypeOK ==
    /\ call \in [Clients -> CallRecord]
    /\ session \in [Clients -> Nat]
    /\ header \in [Clients -> Nat]
    /\ seen \in [Clients -> Nat]
    /\ rep \in [Clients -> ReplyRecord]
    /\ net \in SUBSET RequestRecord
    /\ live \in SUBSET Nat
    /\ issued \in Seq(Clients)
    /\ version \in Nat
    /\ log \in Seq(EffectRecord)
    /\ refused \in SUBSET Clients
    /\ done \in [Clients -> Seq([op : Ops, outcome : Outcomes])]

\* However often Connector.request retries, renews the session or gives up,
\* and whatever is late on the network, one API call has at most one effect
\* on the server (no volume is created twice by one create()).
AtMostOnce ==
    \A i, j \in DOMAIN log :
        log[i].client = log[j].client /\ log[i].n = log[j].n => i = j

PerformedCall(c, n) == \E i \in DOMAIN log : log[i].client = c /\ log[i].n = n

\* A request that returned a response has had its effect: the response the
\* caller sees is never that of the nested GET or of a login.
OkMeansPerformed ==
    \A c \in Clients : \A n \in DOMAIN done[c] :
        done[c][n].op \in Effects /\ done[c][n].outcome = "ok"
            => PerformedCall(c, n)

\* When a call fails with AccessError (401) or a 412, or by exhausting the
\* stack in _fetch_session, it has had no effect and never will: the caller
\* may repeat it.  (After an IBMCConnectionError it may not.)
RefusedMeansNothing ==
    \A c \in Clients : \A n \in DOMAIN done[c] :
        done[c][n].outcome \in {"401", "412", "RecursionError"}
            => ~PerformedCall(c, n)

\* An update made with the ETag of the object the program holds overwrites
\* exactly that version, on the retry too: a change made in between, by
\* another client or the server, is not lost.
NoLostUpdate == \A i \in DOMAIN log : log[i].op = "set" => log[i].base = log[i].arg

\* One API call sends a bounded number of HTTP requests, whatever the server
\* answers: retries do not multiply beyond two attempts, each with two reads
\* of the ETag, and one renewal of the session per retry.
TrafficBounded == \A c \in Clients : call[c].sent <= TrafficLimit

\* Neither a login of the client was refused nor an exchange of it lost.
Undisturbed(c) ==
    /\ c \notin refused
    /\ \A n \in DOMAIN done[c] : done[c][n].outcome # "ConnectionError"

\* However often its sessions expire and are renewed in the middle of a call, a
\* client between two calls has no live session on the server but the one it has
\* cached and will delete in disconnect(): _fetch_session leaves none behind.
\* (A lost answer to a login does; so does a refused login, which is repeated
\* after the nested one has had a session issued.)
NoStraySession ==
    \A c \in Clients : call[c].at = "idle" /\ Undisturbed(c) =>
        \A s \in live : issued[s] = c => s = session[c]

\* The connector keeps the promise of CallPromise: seen from outside, retries,
\* renewals and late requests are stutters, effects and returns happen in its
\* order.
Promise == INSTANCE CallPromise
               WITH current <- [c \in Clients |-> call[c].op],
                    performed <- [i \in DOMAIN log |->
                                    [client |-> log[i].client, n |-> log[i].n]]

KeepsPromise == Promise!Spec

\* An HTTP error reaches the program as one of the client's exceptions.
\* exceptions.py:226, "Raise a correct error class, if needed.", says so of
\* every error response; a login that is refused is one.
HttpErrorsAreTyped ==
    \A c \in Clients : \A n \in DOMAIN done[c] :
        done[c][n].outcome # "RecursionError"

\* disconnect() ignores a failure to delete the session it has cached.
\* connector.py:111-112: "Failed to delete session, just ignore the errors
\* now."
DisconnectIgnoresErrors ==
    \A c \in Clients : \A n \in DOMAIN done[c] :
        done[c][n].op = "disconnect" => done[c][n].outcome \in {"ok", "TypeError"}

\* Every API call returns or raises: no sequence of 401s, 412s, expiries and
\* timeouts keeps Connector.request going for ever.
CallsReturn == \A c \in Clients : call[c].at # "idle" ~> call[c].at = "idle"
=============================================================================
