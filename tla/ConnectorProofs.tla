--------------------------- MODULE ConnectorProofs ---------------------------
(***************************************************************************)
(* Proofs about Connector: type correctness; that a call acts at most once  *)
(* and its outcome tells what happened; and what the logins cost and leave  *)
(* behind: a call sends a bounded number of requests, and unless a login of *)
(* it was refused or an exchange lost, a client between two calls has no    *)
(* session on the server but the one it has cached.                         *)
(***************************************************************************)
EXTENDS Connector, SequenceTheorems, TLAPS

\* The operation is known, a PATCH without an ETag alone reads one, and the
\* ETag of a `set' is the one given.
Begun(k) == /\ k.op \in Ops
            /\ k.back = "etag" => k.op = "patch"
            /\ k.op = "set" => k.tag = k.arg

\* The flags of a call agree: a call under way has an operation, a login has a
\* depth, and only a call under way waits.
Coherent(k) ==
    IF k.at = "idle" THEN k.op = "none" /\ ~k.waiting
    ELSE /\ Begun(k)
         /\ k.at = "login" => k.depth # 0
         /\ k.at = "etag" => k.op = "patch"

\* Only a waiting client has a response on its way.
StackOK ==
    \A c \in Clients : /\ Coherent(call[c])
                       /\ rep[c].status # "none" => call[c].waiting

TypeInv == TypeOK /\ StackOK

\* A request on the network belongs to the call its sender waits in, and is
\* what the call would send, or to a call that lost its connection.
NetOK ==
    \A r \in net :
        LET c == r.client
        IN  \/ r.n = CallNo(c) /\ call[c].waiting /\ rep[c].status = "none" /\ r = Message(c)
            \/ r.n \in DOMAIN done[c] /\ done[c][r.n].outcome = "ConnectionError"

\* No two requests of one call are on the network at once.
NetUnique == \A q, r \in net : q.client = r.client /\ q.n = r.n => q = r

\* A request that will act belongs to a call that has not acted.
NetFresh == \A r \in net : ~PerformedCall(r.client, r.n)

\* Only calls already made have acted, and the call under way has acted only
\* if it waits for the response that is on its way.
LogOK ==
    /\ \A i \in DOMAIN log : log[i].n <= CallNo(log[i].client)
    /\ \A c \in Clients : PerformedCall(c, CallNo(c)) =>
          call[c].waiting /\ call[c].at = "main" /\ rep[c].status \in {"ok", "err"}

\* A success on its way to a call with an effect reports that effect.
OkReply ==
    \A c \in Clients :
        call[c].at = "main" /\ call[c].op \in Effects /\ rep[c].status = "ok"
            => PerformedCall(c, CallNo(c))

\* An update sent for a `set' carries the ETag of the object it was called on.
NetTags == \A r \in net : r.op = "set" => r.tag = r.arg /\ r.kind # "write"

CallInv == /\ NetOK /\ NetUnique /\ NetFresh /\ LogOK /\ OkReply
           /\ AtMostOnce /\ OkMeansPerformed /\ RefusedMeansNothing

UpdateInv == NetTags /\ NoLostUpdate
----------------------------------------------------------------------------
(* Type correctness.                                                        *)

DoneRecord == [op : Ops, outcome : Outcomes]

LEMMA ReturnedOK ==
    ASSUME TypeOK, NEW c \in Clients, NEW o \in Ops, NEW x \in Outcomes,
           Returned(c, o, x)
    PROVE  done' \in [Clients -> Seq(DoneRecord)]
<1> DEFINE e == [op |-> o, outcome |-> x]
<1>1. e \in DoneRecord
  BY DEF DoneRecord
<1>2. done \in [Clients -> Seq(DoneRecord)]
  BY DEF TypeOK, DoneRecord
<1> HIDE DEF e
<1>3. Append(done[c], e) \in Seq(DoneRecord)
  BY <1>1, <1>2
<1> QED
  BY <1>2, <1>3 DEF Returned, e

LEMMA NoCallOK == NoCall \in CallRecord /\ Coherent(NoCall)
  BY DEF NoCall, CallRecord, Coherent

LEMMA NewCallOK ==
    ASSUME NEW o \in Ops, NEW a \in Nat
    PROVE  LET k == [NoCall EXCEPT !.op = o, !.arg = a, !.tag = a]
               j == [NoCall EXCEPT !.op = o, !.arg = a]
               l == [NoCall EXCEPT !.op = o]
           IN  /\ k \in CallRecord /\ Begun(k) /\ ~k.waiting
               /\ o # "set" => j \in CallRecord /\ Begun(j) /\ ~j.waiting
               /\ o # "set" => l \in CallRecord /\ Begun(l) /\ ~l.waiting
  BY DEF NoCall, CallRecord, Begun

LEMMA AttemptOK ==
    ASSUME NEW k \in CallRecord, Begun(k)
    PROVE  Attempt(k) \in CallRecord /\ Coherent(Attempt(k))
  BY DEF Attempt, CallRecord, Begun, Coherent

LEMMA LoginOK ==
    ASSUME NEW k \in CallRecord, Begun(k), NEW b \in {"etag", "main"},
           b = "etag" => k.op = "patch"
    PROVE  Login(k, b) \in CallRecord /\ Coherent(Login(k, b))
<1> DEFINE j == Login(k, b)
<1>1. j \in CallRecord
  BY DEF Login, CallRecord
<1>2. /\ j.at = "login" /\ j.depth = 1 /\ j.back = b
      /\ j.op = k.op /\ j.tag = k.tag /\ j.arg = k.arg
  BY DEF Login, CallRecord
<1> QED
  BY <1>1, <1>2 DEF Coherent, Begun

LEMMA DepthOK ==
    ASSUME NEW k \in CallRecord, Begun(k), k.at = "login",
           NEW d \in Nat \ {0}, NEW b \in BOOLEAN
    PROVE  LET j == [k EXCEPT !.depth = d, !.lastLogin = b]
           IN  j \in CallRecord /\ Coherent(j)
<1> DEFINE j == [k EXCEPT !.depth = d, !.lastLogin = b]
<1>1. j \in CallRecord
  BY DEF CallRecord
<1>2. /\ j.at = "login" /\ j.depth = d /\ j.back = k.back
      /\ j.op = k.op /\ j.tag = k.tag /\ j.arg = k.arg
  BY DEF CallRecord
<1> HIDE DEF j
<1>3. Coherent(j)
  BY <1>2 DEF Coherent, Begun
<1> QED
  BY <1>1, <1>3 DEF j

LEMMA MarkRetriedOK ==
    ASSUME NEW k \in CallRecord, Begun(k)
    PROVE  /\ MarkRetried(k) \in CallRecord /\ Begun(MarkRetried(k))
           /\ MarkRetried(k).op = k.op
  BY DEF MarkRetried, CallRecord, Begun

LEMMA ResumeOK ==
    ASSUME NEW k \in CallRecord, Begun(k)
    PROVE  Resume(k) \in CallRecord /\ Coherent(Resume(k))
<1> DEFINE j == [k EXCEPT !.depth = 0]
<1>1. j \in CallRecord /\ Begun(j)
  BY DEF CallRecord, Begun
<1>2. CASE k.back = "etag"
  BY <1>2 DEF Resume, CallRecord, Begun, Coherent
<1>3. CASE k.back # "etag"
  BY <1>1, <1>3, AttemptOK DEF Resume
<1> QED
  BY <1>2, <1>3

LEMMA TypeInit == Init => TypeInv
<1> SUFFICES ASSUME Init PROVE TypeInv
  OBVIOUS
<1> USE DEF Init, NoReply
<1>1. call \in [Clients -> CallRecord]
  BY NoCallOK
<1>2. rep \in [Clients -> ReplyRecord]
  BY DEF ReplyRecord
<1>3. TypeOK
  BY <1>1, <1>2 DEF TypeOK
<1>4. StackOK
  BY NoCallOK DEF StackOK
<1> QED
  BY <1>3, <1>4 DEF TypeInv

\* Only the call of c changes, to k, and c has no response on its way.
LEMMA TypeCallTo ==
    ASSUME TypeInv, NEW c \in Clients, NEW k \in CallRecord, Coherent(k),
           call' = [call EXCEPT ![c] = k],
           rep' \in [Clients -> ReplyRecord], rep'[c].status # "none" => k.waiting,
           \A d \in Clients \ {c} : rep'[d] = rep[d]
    PROVE  call' \in [Clients -> CallRecord] /\ StackOK'
  BY DEF TypeInv, TypeOK, StackOK

LEMMA TypeStart ==
    ASSUME TypeInv, NEW c \in Clients, Start(c)
    PROVE  TypeInv'
<1> USE DEF Starting, server
<1>0. call[c] \in CallRecord /\ Coherent(call[c]) /\ session[c] \in Nat /\ seen[c] \in Nat
  BY DEF TypeInv, TypeOK, StackOK
<1>a. ASSUME NEW k \in CallRecord, Coherent(k), Starting(c, k.op), UNCHANGED done,
             call' = [call EXCEPT ![c] = k]
      PROVE  TypeInv'
  <2>1. rep[c].status = "none"
    BY <1>0, <1>a DEF TypeInv, StackOK, Coherent
  <2>2. call' \in [Clients -> CallRecord] /\ StackOK'
    BY <1>a, <2>1, TypeCallTo DEF TypeInv, TypeOK
  <2> QED
    BY <1>a, <2>2 DEF TypeInv, TypeOK
<1>b. ASSUME NEW o \in Ops, NEW x \in Outcomes, Starting(c, o), Returned(c, o, x),
             UNCHANGED call
      PROVE  TypeInv'
  <2>1. done' \in [Clients -> Seq(DoneRecord)]
    BY <1>b, ReturnedOK DEF TypeInv
  <2> QED
    BY <1>b, <2>1 DEF TypeInv, TypeOK, StackOK, DoneRecord
<1>1. CASE Connect(c)
  <2> DEFINE l == [NoCall EXCEPT !.op = "connect"]
  <2>1. l \in CallRecord /\ Begun(l)
    BY NewCallOK DEF Ops
  <2>2. Login(l, "main") \in CallRecord /\ Coherent(Login(l, "main"))
    BY <2>1, LoginOK
  <2> QED
    BY <1>1, <2>2, <1>a DEF Connect
<1>2. CASE ConnectAgain(c)
  BY <1>2, <1>b DEF ConnectAgain, Ops, Outcomes
<1>3. CASE Disconnect(c)
  <2> DEFINE j == [NoCall EXCEPT !.op = "disconnect", !.arg = session[c]]
  <2>1. j \in CallRecord /\ Begun(j)
    BY <1>0, NewCallOK DEF Ops
  <2>2. Attempt(j) \in CallRecord /\ Coherent(Attempt(j))
    BY <2>1, AttemptOK
  <2> QED
    BY <1>3, <2>2, <1>a DEF Disconnect
<1>4. CASE DisconnectUnconnected(c)
  BY <1>4, <1>b DEF DisconnectUnconnected, Ops, Outcomes
<1>5. ASSUME NEW o \in Requests, Request(c, o) PROVE TypeInv'
  <2> DEFINE given == IF o = "set" THEN seen[c] ELSE 0
             k == [NoCall EXCEPT !.op = o, !.arg = given, !.tag = given]
  <2>0. given \in Nat
    BY <1>0
  <2>1. k \in CallRecord /\ Begun(k)
    BY <2>0, NewCallOK DEF Ops
  <2>2. Attempt(k) \in CallRecord /\ Coherent(Attempt(k))
    BY <2>1, AttemptOK
  <2>3. call' = [call EXCEPT ![c] = Attempt(k)] /\ UNCHANGED done
    BY <1>5 DEF Request
  <2> HIDE DEF k
  <2> QED
    BY <1>5, <2>2, <2>3, <1>a DEF Request
<1> QED
  BY <1>1, <1>2, <1>3, <1>4, <1>5 DEF Start

LEMMA TypeSend ==
    ASSUME TypeInv, NEW c \in Clients, Send(c)
    PROVE  TypeInv'
<1> DEFINE k == call[c]
           j == [k EXCEPT !.waiting = TRUE,
                          !.sent = IF @ > TrafficLimit THEN @ ELSE @ + 1]
<1>0. k \in CallRecord /\ Coherent(k) /\ k.at # "idle" /\ k.op \in Ops
  BY DEF TypeInv, TypeOK, StackOK, Send, Coherent, Begun
<1>1. Kind(k) \in {"login", "read", "write", "update", "logout"}
  BY <1>0 DEF Kind, Ops, Requests
<1>2. Message(c) \in RequestRecord
  <2>1. CallNo(c) \in Nat \ {0} /\ header[c] \in Nat /\ k.arg \in Nat /\ k.tag \in Nat
    BY <1>0 DEF TypeInv, TypeOK, CallNo, CallRecord
  <2> QED
    BY <1>0, <1>1, <2>1 DEF Message, RequestRecord
<1>3. j \in CallRecord /\ Coherent(j) /\ j.waiting
  <2> DEFINE n == IF k.sent > TrafficLimit THEN k.sent ELSE k.sent + 1
  <2>1. n \in Nat
    BY <1>0 DEF CallRecord
  <2>2. j = [k EXCEPT !.waiting = TRUE, !.sent = n]
    BY <1>0 DEF CallRecord
  <2> HIDE DEF n, j
  <2>3. j \in CallRecord
    BY <1>0, <2>1, <2>2 DEF CallRecord
  <2>4. /\ j.waiting /\ j.at = k.at /\ j.op = k.op /\ j.back = k.back
        /\ j.tag = k.tag /\ j.arg = k.arg /\ j.depth = k.depth
    BY <1>0, <2>2 DEF CallRecord
  <2> QED
    BY <1>0, <2>3, <2>4 DEF Coherent, Begun
<1>4. call' = [call EXCEPT ![c] = j]
  BY DEF Send, TypeInv, TypeOK
<1>5. call' \in [Clients -> CallRecord] /\ StackOK'
  <2> HIDE DEF j
  <2> QED
    BY <1>3, <1>4, TypeCallTo DEF Send, TypeInv, TypeOK
<1> QED
  BY <1>2, <1>5 DEF Send, server, TypeInv, TypeOK

LEMMA TypeReact ==
    ASSUME TypeInv, NEW c \in Clients, React(c)
    PROVE  TypeInv'
<1> DEFINE k == call[c]
<1> USE DEF server
<1>0. k \in CallRecord /\ Coherent(k) /\ rep[c].value \in Nat
  BY DEF TypeInv, TypeOK, StackOK, ReplyRecord
<1>0a. k.at # "idle" => Begun(k)
  BY <1>0 DEF Coherent
<1>a. ASSUME NEW j \in CallRecord, Coherent(j), NEW s, Receive(c, s, j)
      PROVE  /\ call' \in [Clients -> CallRecord] /\ StackOK'
             /\ rep' \in [Clients -> ReplyRecord]
             /\ UNCHANGED <<net, live, issued, version, log, refused>>
  <2> DEFINE i == [j EXCEPT !.waiting = FALSE]
  <2>1. i \in CallRecord /\ Coherent(i)
    BY <1>a DEF CallRecord, Coherent, Begun
  <2>2. rep' \in [Clients -> ReplyRecord] /\ rep'[c].status = "none"
    BY <1>a DEF Receive, NoReply, ReplyRecord, TypeInv, TypeOK
  <2>3. call' = [call EXCEPT ![c] = i]
    BY <1>a DEF Receive
  <2>4. \A d \in Clients \ {c} : rep'[d] = rep[d]
    BY <1>a DEF Receive, TypeInv, TypeOK
  <2> HIDE DEF i
  <2>5. call' \in [Clients -> CallRecord] /\ StackOK'
    BY <2>1, <2>2, <2>3, <2>4, TypeCallTo
  <2> QED
    BY <1>a, <2>2, <2>5 DEF Receive
<1>b. ASSUME NEW x \in Outcomes, Returned(c, k.op, x), k.at # "idle"
      PROVE  done' \in [Clients -> Seq([op : Ops, outcome : Outcomes])]
  BY <1>b, <1>0a, ReturnedOK DEF Begun, TypeInv, DoneRecord
<1>1. CASE LoggedIn(c)
  <2> DEFINE j == [k EXCEPT !.depth = @ - 1, !.lastLogin = TRUE]
  <2>0. k.at = "login" /\ Begun(k) /\ k.depth \in Nat \ {0}
    BY <1>1, <1>0, <1>0a DEF LoggedIn, Coherent, CallRecord
  <2>1. Resume(k) \in CallRecord /\ Coherent(Resume(k))
    BY <1>0, <2>0, ResumeOK
  <2>2. k.depth # 1 => j \in CallRecord /\ Coherent(j)
    <3>1. k.depth # 1 => k.depth - 1 \in Nat \ {0}
      BY <2>0
    <3> QED
      BY <1>0, <2>0, <3>1, DepthOK
  <2>3. Receive(c, "ok", IF k.depth = 1 THEN Resume(k) ELSE j)
    BY <1>1 DEF LoggedIn
  <2> HIDE DEF j
  <2>4. /\ call' \in [Clients -> CallRecord] /\ StackOK'
        /\ rep' \in [Clients -> ReplyRecord]
        /\ UNCHANGED <<net, live, issued, version, log, refused>>
    <3>1. CASE k.depth = 1
      BY <3>1, <2>1, <2>3, <1>a
    <3>2. CASE k.depth # 1
      BY <3>2, <2>2, <2>3, <1>a
    <3> QED
      BY <3>1, <3>2
  <2> QED
    BY <1>1, <1>0, <2>4 DEF LoggedIn, CacheSession, TypeInv, TypeOK
<1>2. CASE LoginRefused(c)
  <2> DEFINE j == [k EXCEPT !.depth = @ + 1, !.lastLogin = FALSE]
  <2>1. j \in CallRecord /\ Coherent(j)
    <3>1. k.depth + 1 \in Nat \ {0} /\ k.at = "login" /\ Begun(k)
      BY <1>2, <1>0, <1>0a DEF LoginRefused, CallRecord
    <3> QED
      BY <1>0, <3>1, DepthOK
  <2>2. Receive(c, "401", j)
    BY <1>2 DEF LoginRefused
  <2> HIDE DEF j
  <2> QED
    BY <1>2, <2>1, <2>2, <1>a DEF LoginRefused, TypeInv, TypeOK
<1>3. CASE EtagRead(c)
  <2> DEFINE j == [k EXCEPT !.at = "main", !.tag = rep[c].value]
  <2>1. j \in CallRecord /\ Coherent(j)
    BY <1>3, <1>0 DEF EtagRead, CallRecord, Coherent, Begun
  <2>2. Receive(c, "ok", j)
    BY <1>3 DEF EtagRead
  <2> HIDE DEF j
  <2> QED
    BY <1>3, <2>1, <2>2, <1>a DEF EtagRead, TypeInv, TypeOK
<1>4. CASE RenewSession(c)
  <2>0. k.at \in {"etag", "main"} /\ Begun(k) /\ (k.at = "etag" => k.op = "patch")
    BY <1>4, <1>0, <1>0a DEF RenewSession, Coherent
  <2>1. MarkRetried(k) \in CallRecord /\ Begun(MarkRetried(k)) /\ MarkRetried(k).op = k.op
    BY <1>0, <2>0, MarkRetriedOK
  <2>2. /\ Login(MarkRetried(k), k.at) \in CallRecord
        /\ Coherent(Login(MarkRetried(k), k.at))
    BY <2>0, <2>1, LoginOK
  <2> QED
    BY <1>4, <2>2, <1>a DEF RenewSession, TypeInv, TypeOK
<1>5. CASE RetryStale(c)
  <2>1. MarkRetried(k) \in CallRecord /\ Begun(MarkRetried(k))
    BY <1>5, <1>0, <1>0a, MarkRetriedOK DEF RetryStale
  <2>2. Attempt(MarkRetried(k)) \in CallRecord /\ Coherent(Attempt(MarkRetried(k)))
    BY <2>1, AttemptOK
  <2> QED
    BY <1>5, <2>2, <1>a DEF RetryStale, TypeInv, TypeOK
<1>6. CASE Succeed(c)
  BY <1>6, <1>0, <1>a, <1>b, NoCallOK DEF Succeed, Outcomes, TypeInv, TypeOK
<1>7. CASE Fail(c)
  <2>1. k.at # "idle"
    BY <1>7, <1>0 DEF Fail, Receive, Coherent
  <2> QED
    BY <1>7, <2>1, <1>a, <1>b, NoCallOK DEF Fail, Outcomes, TypeInv, TypeOK
<1>8. CASE StackOverflow(c)
  BY <1>8, <1>a, <1>b, NoCallOK DEF StackOverflow, Outcomes, TypeInv, TypeOK
<1> QED
  BY <1>1, <1>2, <1>3, <1>4, <1>5, <1>6, <1>7, <1>8 DEF React

LEMMA TypeGiveUp ==
    ASSUME TypeInv, NEW c \in Clients, GiveUp(c)
    PROVE  TypeInv'
<1>0. call[c].op \in Ops
  BY DEF GiveUp, TypeInv, TypeOK, StackOK, Coherent, Begun
<1>1. done' \in [Clients -> Seq([op : Ops, outcome : Outcomes])]
  BY <1>0, ReturnedOK DEF GiveUp, Outcomes, TypeInv, DoneRecord
<1>2. rep' \in [Clients -> ReplyRecord] /\ rep'[c].status = "none"
  BY DEF GiveUp, NoReply, ReplyRecord, TypeInv, TypeOK
<1>3. \A d \in Clients \ {c} : rep'[d] = rep[d]
  BY DEF GiveUp, TypeInv, TypeOK
<1>4. call' \in [Clients -> CallRecord] /\ StackOK'
  BY <1>2, <1>3, NoCallOK, TypeCallTo DEF GiveUp
<1> QED
  BY <1>1, <1>2, <1>4 DEF GiveUp, server, TypeInv, TypeOK

LEMMA TypeServe ==
    ASSUME TypeInv, NEW r \in net, Serve(r)
    PROVE  TypeInv'
<1> USE DEF server, client
<1>a. r \in RequestRecord
  BY DEF TypeInv, TypeOK
<1>b. ASSUME NEW s \in {"ok", "401", "412", "err"}, NEW v \in Nat, Answer(r, s, v)
      PROVE  /\ net' \in SUBSET RequestRecord
             /\ rep' \in [Clients -> ReplyRecord]
             /\ StackOK'
             /\ UNCHANGED client
  BY <1>a, <1>b DEF Answer, ReplyRecord, RequestRecord, TypeInv, TypeOK, StackOK
<1>c. ASSUME Performed(r)
      PROVE  log' \in Seq(EffectRecord)
  BY <1>a, <1>c DEF Performed, RequestRecord, EffectRecord, TypeInv, TypeOK
<1>d. ASSUME NEW s \in {"ok", "401", "412", "err"}, NEW v \in Nat, Answer(r, s, v),
             live' \in SUBSET Nat, issued' \in Seq(Clients), version' \in Nat,
             log' \in Seq(EffectRecord), refused' \in SUBSET Clients
      PROVE  TypeInv'
  BY <1>b, <1>d DEF TypeInv, TypeOK
<1>e. /\ live \in SUBSET Nat /\ issued \in Seq(Clients) /\ version \in Nat
      /\ log \in Seq(EffectRecord) /\ refused \in SUBSET Clients
  BY DEF TypeInv, TypeOK
<1>1. CASE ServeLogin(r)
  <2>1. r.client \in Clients /\ Len(issued) + 1 \in Nat
    BY <1>a, <1>e DEF RequestRecord
  <2>2. issued' = Append(issued, r.client) /\ live' = live \cup {Len(issued) + 1}
    BY <1>1 DEF ServeLogin
  <2>3. issued' \in Seq(Clients)
    BY <1>e, <2>1, <2>2
  <2>4. live' \in SUBSET Nat
    BY <1>e, <2>1, <2>2
  <2> QED
    BY <1>1, <1>d, <1>e, <2>1, <2>3, <2>4 DEF ServeLogin
<1>2. CASE RefuseLogin(r)
  <2>1. refused' \in SUBSET Clients
    BY <1>2, <1>a, <1>e DEF RefuseLogin, RequestRecord
  <2> QED
    BY <1>2, <1>d, <1>e, <2>1 DEF RefuseLogin
<1>3. CASE Unauthorized(r)
  BY <1>3, <1>d, <1>e DEF Unauthorized
<1>4. CASE ServeRead(r)
  BY <1>4, <1>d, <1>e DEF ServeRead
<1>5. CASE ServeWrite(r)
  BY <1>5, <1>c, <1>d, <1>e DEF ServeWrite
<1>6. CASE ServeUpdate(r)
  <2>1. version + 1 \in Nat /\ version' \in Nat
    BY <1>6, <1>e DEF ServeUpdate
  <2> QED
    BY <1>6, <1>c, <1>d, <1>e, <2>1 DEF ServeUpdate
<1>7. CASE PreconditionFailed(r)
  BY <1>7, <1>d, <1>e DEF PreconditionFailed
<1>8. CASE ServeLogout(r)
  BY <1>8, <1>d, <1>e DEF ServeLogout
<1>9. CASE ServerError(r)
  BY <1>9, <1>d, <1>e DEF ServerError
<1> QED
  BY <1>1, <1>2, <1>3, <1>4, <1>5, <1>6, <1>7, <1>8, <1>9 DEF Serve

LEMMA TypeNext == TypeInv /\ [Next]_vars => TypeInv'
<1> SUFFICES ASSUME TypeInv, [Next]_vars PROVE TypeInv'
  OBVIOUS
<1>1. ASSUME NEW c \in Clients, Start(c) \/ Send(c) \/ React(c) \/ GiveUp(c)
      PROVE  TypeInv'
  BY <1>1, TypeStart, TypeSend, TypeReact, TypeGiveUp
<1>2. ASSUME NEW r \in net, Serve(r) PROVE TypeInv'
  BY <1>2, TypeServe
<1>3. ASSUME NEW s \in live, Expire(s) PROVE TypeInv'
  BY <1>3 DEF Expire, client, TypeInv, TypeOK, StackOK
<1>4. CASE ForeignWrite
  <2>1. version' \in Nat
    BY <1>4 DEF ForeignWrite, TypeInv, TypeOK
  <2> QED
    BY <1>4, <2>1 DEF ForeignWrite, client, TypeInv, TypeOK, StackOK
<1>5. CASE UNCHANGED vars
  BY <1>5 DEF vars, TypeInv, TypeOK, StackOK
<1> QED
  BY <1>1, <1>2, <1>3, <1>4, <1>5 DEF Next

\* Every variable of the connector and the server keeps its type.
THEOREM TypeCorrect == Spec => []TypeOK
<1>1. Spec => []TypeInv
  BY TypeInit, TypeNext, PTL DEF Spec
<1> QED
  BY <1>1, PTL DEF TypeInv

----------------------------------------------------------------------------
(* At most one effect per call, and outcomes that tell what happened.       *)

LEMMA CallInit == Init => CallInv
  BY DEF Init, CallInv, NetOK, NetUnique, NetFresh, LogOK, OkReply, AtMostOnce,
         OkMeansPerformed, RefusedMeansNothing, PerformedCall, NoCall, NoReply

\* The client has the response, or has not sent the request yet: nothing of
\* the call under way is on the network.
NothingSent(c) == \A r \in net : r.client = c => r.n # CallNo(c)

LEMMA NotWaiting ==
    ASSUME TypeInv, CallInv, NEW c \in Clients, ~call[c].waiting
    PROVE  /\ NothingSent(c) /\ ~PerformedCall(c, CallNo(c))
           /\ rep[c].status = "none"
<1>1. \A n \in DOMAIN done[c] : n # CallNo(c)
  BY DEF TypeInv, TypeOK, CallNo
<1> QED
  BY <1>1 DEF CallInv, NetOK, LogOK, NothingSent, TypeInv, StackOK

LEMMA Answered ==
    ASSUME TypeInv, CallInv, NEW c \in Clients, rep[c].status # "none"
    PROVE  NothingSent(c)
<1>1. \A n \in DOMAIN done[c] : n # CallNo(c)
  BY DEF TypeInv, TypeOK, CallNo
<1> QED
  BY <1>1 DEF CallInv, NetOK, NothingSent

\* Client c goes on with a call that has not acted and has nothing on its way.
LEMMA CallGoesOn ==
    ASSUME TypeInv, CallInv, NEW c \in Clients, UNCHANGED <<log, done, net>>,
           NothingSent(c), ~PerformedCall(c, CallNo(c)), rep'[c].status = "none",
           \A d \in Clients \ {c} : /\ call'[d] = call[d] /\ rep'[d] = rep[d]
                                    /\ header'[d] = header[d]
    PROVE  CallInv'
<1>1. NetOK'
  <2> SUFFICES ASSUME NEW r \in net
               PROVE  LET d == r.client
                      IN  \/ /\ r.n = CallNo(d) /\ call'[d].waiting
                             /\ rep'[d].status = "none" /\ r = Message(d)'
                          \/ r.n \in DOMAIN done[d] /\ done[d][r.n].outcome = "ConnectionError"
    BY DEF NetOK, CallNo
  <2>0. r.client \in Clients
    BY DEF TypeInv, TypeOK, RequestRecord
  <2>1. CASE r.client = c
    BY <2>1 DEF NothingSent, CallInv, NetOK
  <2>2. CASE r.client # c
    BY <2>0, <2>2 DEF CallInv, NetOK, Message, Kind, CallNo
  <2> QED
    BY <2>1, <2>2
<1>2. NetUnique' /\ NetFresh' /\ AtMostOnce' /\ OkMeansPerformed' /\ RefusedMeansNothing'
  BY DEF CallInv, NetUnique, NetFresh, AtMostOnce, OkMeansPerformed,
         RefusedMeansNothing, PerformedCall
<1>3. LogOK'
  BY DEF CallInv, LogOK, PerformedCall, CallNo
<1>4. OkReply'
  BY DEF CallInv, OkReply, PerformedCall, CallNo
<1> QED
  BY <1>1, <1>2, <1>3, <1>4 DEF CallInv

\* Call o of client c ends with outcome x.
LEMMA CallEnds ==
    ASSUME TypeInv, CallInv, NEW c \in Clients, UNCHANGED <<log, net>>,
           NEW o \in Ops, NEW x \in Outcomes, Returned(c, o, x),
           NothingSent(c) \/ x = "ConnectionError",
           o \in Effects /\ x = "ok" => PerformedCall(c, CallNo(c)),
           x \in {"401", "412", "RecursionError"} => ~PerformedCall(c, CallNo(c)),
           rep'[c].status = "none",
           \A d \in Clients \ {c} : /\ call'[d] = call[d] /\ rep'[d] = rep[d]
                                    /\ header'[d] = header[d]
    PROVE  CallInv'
<1>0. /\ \A d \in Clients \ {c} : done'[d] = done[d] /\ CallNo(d)' = CallNo(d)
      /\ CallNo(c) \in Nat \ {0} /\ CallNo(c)' = CallNo(c) + 1
      /\ DOMAIN done'[c] = DOMAIN done[c] \cup {CallNo(c)}
      /\ done'[c][CallNo(c)] = [op |-> o, outcome |-> x]
      /\ \A n \in DOMAIN done[c] : n # CallNo(c) /\ done'[c][n] = done[c][n]
  BY DEF Returned, TypeInv, TypeOK, CallNo
<1>1. NetOK'
  <2> SUFFICES ASSUME NEW r \in net
               PROVE  LET d == r.client
                      IN  \/ /\ r.n = CallNo(d)' /\ call'[d].waiting
                             /\ rep'[d].status = "none" /\ r = Message(d)'
                          \/ r.n \in DOMAIN done'[d] /\ done'[d][r.n].outcome = "ConnectionError"
    BY DEF NetOK
  <2>0. r.client \in Clients
    BY DEF TypeInv, TypeOK, RequestRecord
  <2>1. CASE r.client = c
    BY <2>1, <1>0 DEF NothingSent, CallInv, NetOK
  <2>2. CASE r.client # c
    <3>1. Message(r.client)' = Message(r.client)
      BY <2>0, <2>2, <1>0 DEF Message
    <3> QED
      BY <2>0, <2>2, <3>1, <1>0 DEF CallInv, NetOK
  <2> QED
    BY <2>1, <2>2
<1>2. NetUnique' /\ NetFresh' /\ AtMostOnce'
  BY DEF CallInv, NetUnique, NetFresh, AtMostOnce, PerformedCall
<1>3. \A d, n : PerformedCall(d, n)' <=> PerformedCall(d, n)
  BY DEF PerformedCall
<1>4. OkMeansPerformed'
  BY <1>0, <1>3 DEF CallInv, OkMeansPerformed
<1>5. RefusedMeansNothing'
  BY <1>0, <1>3 DEF CallInv, RefusedMeansNothing
<1>6. LogOK'
  <2>1. \A i \in DOMAIN log : /\ log[i].client \in Clients /\ log[i].n \in Nat
                              /\ log[i].n <= CallNo(log[i].client)
    <3>1. \A i \in DOMAIN log : log[i] \in EffectRecord
      BY DEF TypeInv, TypeOK
    <3> QED
      BY <3>1 DEF CallInv, LogOK, EffectRecord
  <2>2. \A i \in DOMAIN log : log[i].n <= CallNo(log[i].client)'
    BY <2>1, <1>0
  <2>3. ~PerformedCall(c, CallNo(c) + 1)
    BY <2>1, <1>0 DEF PerformedCall
  <2> QED
    BY <2>2, <2>3, <1>0, <1>3 DEF LogOK, CallInv
<1>7. OkReply'
  BY <1>0, <1>3 DEF CallInv, OkReply
<1> QED
  BY <1>1, <1>2, <1>4, <1>5, <1>6, <1>7 DEF CallInv

LEMMA CallStart ==
    ASSUME TypeInv, CallInv, NEW c \in Clients, Start(c)
    PROVE  CallInv'
<1> USE DEF Starting, server
<1>0. ~call[c].waiting
  BY DEF Start, Connect, ConnectAgain, Disconnect, DisconnectUnconnected, Request,
         TypeInv, StackOK, Coherent
<1>1. NothingSent(c) /\ ~PerformedCall(c, CallNo(c)) /\ rep[c].status = "none"
  BY <1>0, NotWaiting
<1>a. ASSUME NEW o, NEW k, Starting(c, o), call' = [call EXCEPT ![c] = k], UNCHANGED done
      PROVE  CallInv'
  BY <1>a, <1>1, CallGoesOn DEF TypeInv, TypeOK
<1>b. ASSUME NEW o \in Ops, NEW x \in Outcomes, o \notin Effects,
             x \notin {"401", "412", "RecursionError"},
             Starting(c, o), UNCHANGED call, Returned(c, o, x)
      PROVE  CallInv'
  BY <1>b, <1>1, CallEnds
<1>2. CASE Connect(c)
  BY <1>2, <1>a DEF Connect
<1>3. CASE ConnectAgain(c)
  BY <1>3, <1>b DEF ConnectAgain, Ops, Effects, Outcomes
<1>4. CASE Disconnect(c)
  BY <1>4, <1>a DEF Disconnect
<1>5. CASE DisconnectUnconnected(c)
  BY <1>5, <1>b DEF DisconnectUnconnected, Ops, Effects, Outcomes
<1>6. ASSUME NEW o \in Requests, Request(c, o) PROVE CallInv'
  BY <1>6, <1>a DEF Request
<1> QED
  BY <1>2, <1>3, <1>4, <1>5, <1>6 DEF Start

LEMMA SameKind ==
    ASSUME NEW j, NEW k, j.at = k.at, j.op = k.op
    PROVE  Kind(j) = Kind(k)
  BY DEF Kind

LEMMA CallSend ==
    ASSUME TypeInv, CallInv, NEW c \in Clients, Send(c)
    PROVE  CallInv'
<1> USE DEF Send, server
<1>0. NothingSent(c) /\ ~PerformedCall(c, CallNo(c)) /\ rep[c].status = "none"
  BY NotWaiting
<1>1. /\ Message(c).client = c /\ Message(c).n = CallNo(c)
      /\ call'[c].waiting /\ call'[c].at = call[c].at /\ call'[c].op = call[c].op
      /\ call'[c].arg = call[c].arg /\ call'[c].tag = call[c].tag
      /\ \A d \in Clients \ {c} : call'[d] = call[d]
  BY DEF Message, TypeInv, TypeOK, CallRecord
<1>2. \A d \in Clients : Message(d)' = Message(d)
  <2>1. Kind(call'[c]) = Kind(call[c])
    <3> DEFINE j == call'[c]
               k == call[c]
    <3>1. j.at = k.at /\ j.op = k.op
      BY <1>1
    <3> HIDE DEF j, k
    <3>2. Kind(j) = Kind(k)
      BY <3>1, SameKind
    <3> QED
      BY <3>2 DEF j, k
  <2>2. \A d \in Clients \ {c} : Kind(call'[d]) = Kind(call[d])
    BY <1>1
  <2> QED
    BY <1>1, <2>1, <2>2 DEF Message, CallNo
<1>3. NetOK'
  <2> SUFFICES ASSUME NEW r \in net'
               PROVE  LET d == r.client
                      IN  \/ /\ r.n = CallNo(d) /\ call'[d].waiting
                             /\ rep[d].status = "none" /\ r = Message(d)'
                          \/ r.n \in DOMAIN done[d] /\ done[d][r.n].outcome = "ConnectionError"
    BY DEF NetOK, CallNo
  <2>1. CASE r = Message(c)
    BY <2>1, <1>0, <1>1, <1>2
  <2>2. CASE r \in net
    BY <2>2, <1>1, <1>2 DEF CallInv, NetOK, TypeInv, TypeOK, RequestRecord
  <2> QED
    BY <2>1, <2>2
<1>4. NetUnique'
  BY <1>0, <1>1 DEF CallInv, NetUnique, NothingSent
<1>5. NetFresh'
  BY <1>0, <1>1 DEF CallInv, NetFresh, PerformedCall
<1>6. AtMostOnce' /\ OkMeansPerformed' /\ RefusedMeansNothing'
  BY DEF CallInv, AtMostOnce, OkMeansPerformed, RefusedMeansNothing, PerformedCall
<1>8. LogOK'
  BY <1>0, <1>1 DEF CallInv, LogOK, PerformedCall, CallNo
<1>7. OkReply'
  BY <1>0, <1>1 DEF CallInv, OkReply, PerformedCall, CallNo
<1> QED
  BY <1>3, <1>4, <1>5, <1>6, <1>7, <1>8 DEF CallInv

LEMMA CallReact ==
    ASSUME TypeInv, CallInv, NEW c \in Clients, React(c)
    PROVE  CallInv'
<1> DEFINE k == call[c]
<1> USE DEF server
<1>a. ASSUME NEW j, NEW s, s \in {"ok", "401", "412", "err"}, Receive(c, s, j)
      PROVE  /\ NothingSent(c) /\ rep'[c].status = "none"
             /\ \A d \in Clients \ {c} : call'[d] = call[d] /\ rep'[d] = rep[d]
             /\ UNCHANGED <<net, log>> /\ rep[c].status = s
             /\ s \in {"401", "412"} \/ (s = "ok" /\ k.at # "main")
                   => ~PerformedCall(c, CallNo(c))
  <2>1. NothingSent(c)
    BY <1>a, Answered DEF Receive
  <2> QED
    BY <1>a, <2>1 DEF Receive, NoReply, TypeInv, TypeOK, CallInv, LogOK
<1>1. CASE LoggedIn(c)
  <2>1. PICK j : Receive(c, "ok", j)
    BY <1>1 DEF LoggedIn
  <2> QED
    BY <1>1, <2>1, <1>a, CallGoesOn DEF LoggedIn, CacheSession, TypeInv, TypeOK
<1>2. CASE LoginRefused(c)
  <2>1. PICK j : Receive(c, "401", j)
    BY <1>2 DEF LoginRefused
  <2> QED
    BY <1>2, <2>1, <1>a, CallGoesOn DEF LoginRefused
<1>3. CASE EtagRead(c)
  <2>1. PICK j : Receive(c, "ok", j)
    BY <1>3 DEF EtagRead
  <2> QED
    BY <1>3, <2>1, <1>a, CallGoesOn DEF EtagRead
<1>4. CASE RenewSession(c)
  <2>1. PICK j : Receive(c, "401", j)
    BY <1>4 DEF RenewSession
  <2> QED
    BY <1>4, <2>1, <1>a, CallGoesOn DEF RenewSession
<1>5. CASE RetryStale(c)
  <2>1. PICK j : Receive(c, "412", j)
    BY <1>5 DEF RetryStale
  <2> QED
    BY <1>5, <2>1, <1>a, CallGoesOn DEF RetryStale
<1>b. k.at # "idle" => k.op \in Ops
  BY DEF TypeInv, StackOK, Coherent, Begun
<1>6. CASE Succeed(c)
  <2>1. Receive(c, "ok", NoCall) /\ Returned(c, k.op, "ok") /\ k.at = "main"
    BY <1>6 DEF Succeed
  <2>2. k.op \in Effects => PerformedCall(c, CallNo(c))
    BY <2>1 DEF CallInv, OkReply, Receive
  <2>3. "ok" \in Outcomes
    BY DEF Outcomes
  <2> QED
    BY <1>6, <1>a, <1>b, <2>1, <2>2, <2>3, CallEnds DEF Succeed
<1>7. CASE Fail(c)
  <2> DEFINE s == rep[c].status
  <2>1. Receive(c, s, NoCall) /\ Returned(c, k.op, s) /\ s \in {"401", "412", "err"}
    BY <1>7 DEF Fail
  <2>2. k.op \in Ops /\ s \in Outcomes
    BY <1>b, <2>1 DEF Receive, Outcomes, TypeInv, StackOK, Coherent
  <2>3. s \in {"401", "412", "RecursionError"} => ~PerformedCall(c, CallNo(c))
    BY <2>1, <1>a
  <2> HIDE DEF s
  <2> QED
    BY <1>7, <1>a, <2>1, <2>2, <2>3, CallEnds DEF Fail
<1>8. CASE StackOverflow(c)
  <2>1. Receive(c, "401", NoCall) /\ Returned(c, k.op, "RecursionError") /\ k.at = "login"
    BY <1>8 DEF StackOverflow
  <2>2. "RecursionError" \in Outcomes
    BY DEF Outcomes
  <2> QED
    BY <1>8, <1>a, <1>b, <2>1, <2>2, CallEnds DEF StackOverflow
<1> QED
  BY <1>1, <1>2, <1>3, <1>4, <1>5, <1>6, <1>7, <1>8 DEF React

LEMMA CallGiveUp ==
    ASSUME TypeInv, CallInv, NEW c \in Clients, GiveUp(c)
    PROVE  CallInv'
<1>1. call[c].op \in Ops /\ "ConnectionError" \in Outcomes
  BY DEF GiveUp, TypeInv, StackOK, Coherent, Begun, Outcomes
<1>2. /\ rep'[c].status = "none"
      /\ \A d \in Clients \ {c} : /\ call'[d] = call[d] /\ rep'[d] = rep[d]
                                  /\ header'[d] = header[d]
  BY DEF GiveUp, NoReply, TypeInv, TypeOK
<1> QED
  BY <1>1, <1>2, CallEnds DEF GiveUp, server

\* The server answers r without acting on it.
LEMMA CallAnswer ==
    ASSUME TypeInv, CallInv, NEW r \in net, NEW v, UNCHANGED log,
           NEW s \in {"ok", "401", "412", "err"}, Answer(r, s, v),
           s = "ok" => r.kind \notin {"write", "update"}
    PROVE  CallInv'
<1> DEFINE c == r.client
<1> USE DEF Answer, client
<1>0. c \in Clients /\ \A n \in DOMAIN done[c] : n # CallNo(c)
  BY DEF TypeInv, TypeOK, CallNo, RequestRecord
<1>1. \A d \in Clients : Message(d)' = Message(d)
  BY DEF Message, Kind, CallNo
<1>2. \A d \in Clients : rep'[d] = rep[d] \/ (d = c /\ r.n = CallNo(c) /\ rep'[d].status = s)
  BY <1>0 DEF TypeInv, TypeOK
<1>3. NetOK'
  <2> SUFFICES ASSUME NEW q \in net'
               PROVE  LET d == q.client
                      IN  \/ /\ q.n = CallNo(d) /\ call[d].waiting
                             /\ rep'[d].status = "none" /\ q = Message(d)'
                          \/ q.n \in DOMAIN done[d] /\ done[d][q.n].outcome = "ConnectionError"
    BY DEF NetOK, CallNo
  <2>1. q \in net /\ q # r /\ q.client \in Clients
    BY DEF TypeInv, TypeOK, RequestRecord
  <2>2. ~(q.client = c /\ q.n = r.n)
    BY <2>1 DEF CallInv, NetUnique
  <2> QED
    BY <1>0, <1>1, <1>2, <2>1, <2>2 DEF CallInv, NetOK
<1>4. NetUnique' /\ NetFresh' /\ AtMostOnce' /\ OkMeansPerformed' /\ RefusedMeansNothing'
  BY DEF CallInv, NetUnique, NetFresh, AtMostOnce, OkMeansPerformed,
         RefusedMeansNothing, PerformedCall
<1>5. LogOK'
  BY <1>2 DEF CallInv, LogOK, NetFresh, PerformedCall, CallNo
<1>6. OkReply'
  <2>1. r.n = CallNo(c) /\ call[c].at = "main" /\ call[c].op \in Effects
          => r.kind \in {"write", "update"}
    BY <1>0 DEF CallInv, NetOK, Message, Kind, Effects
  <2> QED
    BY <1>2, <2>1 DEF CallInv, OkReply, PerformedCall, CallNo
<1> QED
  BY <1>3, <1>4, <1>5, <1>6 DEF CallInv

\* The server acts on r and reports success or an error.
LEMMA CallPerform ==
    ASSUME TypeInv, CallInv, NEW r \in net, NEW v, Performed(r),
           NEW s \in {"ok", "err"}, Answer(r, s, v), r.kind \in {"write", "update"}
    PROVE  CallInv'
<1> DEFINE c == r.client
           e == [client |-> r.client, n |-> r.n, op |-> r.op, base |-> version, arg |-> r.arg]
<1> USE DEF Answer, client
<1>0. /\ c \in Clients /\ r.n \in Nat
      /\ CallNo(c) \in Nat /\ \A n \in DOMAIN done[c] : n # CallNo(c) /\ n <= CallNo(c)
  BY DEF TypeInv, TypeOK, CallNo, RequestRecord
<1>1. \A d \in Clients : Message(d)' = Message(d)
  BY DEF Message, Kind, CallNo
<1>2. \A d \in Clients : rep'[d] = rep[d] \/ (d = c /\ r.n = CallNo(c) /\ rep'[d].status = s)
  BY <1>0 DEF TypeInv, TypeOK
<1>3. /\ DOMAIN log' = DOMAIN log \cup {Len(log) + 1} /\ Len(log) + 1 \notin DOMAIN log
      /\ log'[Len(log) + 1] = e
      /\ \A i \in DOMAIN log : log'[i] = log[i]
  <2>1. log \in Seq(EffectRecord)
    BY DEF TypeInv, TypeOK
  <2>2. log' = Append(log, e)
    BY DEF Performed
  <2> HIDE DEF e
  <2> QED
    BY <2>1, <2>2
<1>4. \A d, n : PerformedCall(d, n)' <=> PerformedCall(d, n) \/ (d = c /\ n = r.n)
  BY <1>3 DEF PerformedCall
<1>5. ~PerformedCall(c, r.n)
  BY DEF CallInv, NetFresh
<1>6. \/ /\ r.n = CallNo(c) /\ call[c].waiting /\ rep[c].status = "none"
         /\ call[c].at = "main"
      \/ r.n \in DOMAIN done[c] /\ done[c][r.n].outcome = "ConnectionError"
  <2>1. CASE /\ r.n = CallNo(c) /\ call[c].waiting /\ rep[c].status = "none"
             /\ r = Message(c)
    <3>1. Kind(call[c]) \in {"write", "update"}
      BY <2>1 DEF Message
    <3>2. call[c] \in CallRecord /\ call[c].at # "idle"
      BY <1>0, <2>1 DEF TypeInv, TypeOK, StackOK, Coherent
    <3>3. call[c].at = "main"
      <4>1. call[c].at = "login" => Kind(call[c]) = "login"
        BY DEF Kind
      <4>2. call[c].at = "etag" => Kind(call[c]) = "read"
        BY DEF Kind
      <4> QED
        BY <3>1, <3>2, <4>1, <4>2 DEF CallRecord
    <3> QED
      BY <2>1, <3>3
  <2> QED
    BY <2>1 DEF CallInv, NetOK
<1>7. \A q \in net' : q \in net /\ ~(q.client = c /\ q.n = r.n)
  BY DEF CallInv, NetUnique
<1> HIDE DEF e
<1>8. NetOK'
  <2> SUFFICES ASSUME NEW q \in net'
               PROVE  LET d == q.client
                      IN  \/ /\ q.n = CallNo(d) /\ call[d].waiting
                             /\ rep'[d].status = "none" /\ q = Message(d)'
                          \/ q.n \in DOMAIN done[d] /\ done[d][q.n].outcome = "ConnectionError"
    BY DEF NetOK, CallNo
  <2>1. q \in net /\ q.client \in Clients
    BY <1>7 DEF TypeInv, TypeOK, RequestRecord
  <2> QED
    BY <1>0, <1>1, <1>2, <1>7, <2>1 DEF CallInv, NetOK
<1>9. NetUnique' /\ NetFresh'
  BY <1>4, <1>7 DEF CallInv, NetUnique, NetFresh
<1>10. AtMostOnce'
  BY <1>3, <1>5 DEF CallInv, AtMostOnce, PerformedCall, e
<1>11. OkMeansPerformed' /\ RefusedMeansNothing'
  BY <1>0, <1>4, <1>6 DEF CallInv, OkMeansPerformed, RefusedMeansNothing
<1>12. LogOK'
  <2>1. r.n <= CallNo(c)
    BY <1>0, <1>6
  <2>2. ASSUME NEW i \in DOMAIN log' PROVE (log[i].n <= CallNo(log[i].client))'
    <3>1. CASE i \in DOMAIN log
      BY <3>1, <1>3 DEF CallInv, LogOK, CallNo
    <3>2. CASE i = Len(log) + 1
      BY <3>2, <1>3, <2>1 DEF CallNo, e
    <3> QED
      BY <3>1, <3>2, <1>3
  <2>3. r.n = CallNo(c) => rep'[c].status = s
    BY <1>0, <1>6 DEF TypeInv, TypeOK
  <2>4. ASSUME NEW d \in Clients, PerformedCall(d, CallNo(d))'
        PROVE  call[d].waiting /\ call[d].at = "main" /\ rep'[d].status \in {"ok", "err"}
    <3>1. PerformedCall(d, CallNo(d)) \/ (d = c /\ CallNo(d) = r.n)
      BY <2>4, <1>4 DEF CallNo
    <3>2. CASE d = c /\ CallNo(d) = r.n
      BY <3>2, <1>0, <1>6, <2>3
    <3>3. CASE PerformedCall(d, CallNo(d)) /\ ~(d = c /\ CallNo(d) = r.n)
      BY <3>3, <1>2 DEF CallInv, LogOK
    <3> QED
      BY <3>1, <3>2, <3>3
  <2> QED
    <3>1. \A d \in Clients : PerformedCall(d, CallNo(d))' =>
            call'[d].waiting /\ call'[d].at = "main" /\ rep'[d].status \in {"ok", "err"}
      BY <2>4
    <3> QED
      BY <2>2, <3>1 DEF LogOK
<1>13. OkReply'
  BY <1>2, <1>4 DEF CallInv, OkReply, CallNo
<1> QED
  BY <1>8, <1>9, <1>10, <1>11, <1>12, <1>13 DEF CallInv

LEMMA CallServe ==
    ASSUME TypeInv, CallInv, NEW r \in net, Serve(r)
    PROVE  CallInv'
<1> USE DEF server
<1>1. CASE ServeLogin(r)
  BY <1>1, CallAnswer DEF ServeLogin
<1>2. CASE RefuseLogin(r)
  BY <1>2, CallAnswer DEF RefuseLogin
<1>3. CASE Unauthorized(r)
  BY <1>3, CallAnswer DEF Unauthorized
<1>4. CASE ServeRead(r)
  BY <1>4, CallAnswer DEF ServeRead
<1>5. CASE ServeWrite(r)
  BY <1>5, CallPerform DEF ServeWrite
<1>6. CASE ServeUpdate(r)
  BY <1>6, CallPerform DEF ServeUpdate
<1>7. CASE PreconditionFailed(r)
  BY <1>7, CallAnswer DEF PreconditionFailed
<1>8. CASE ServeLogout(r)
  BY <1>8, CallAnswer DEF ServeLogout
<1>9. CASE ServerError(r)
  BY <1>9, CallAnswer DEF ServerError
<1> QED
  BY <1>1, <1>2, <1>3, <1>4, <1>5, <1>6, <1>7, <1>8, <1>9 DEF Serve

LEMMA CallIdle ==
    ASSUME CallInv, UNCHANGED <<call, header, done, rep, net, log>>
    PROVE  CallInv'
<1>1. \A c : CallNo(c)' = CallNo(c) /\ Message(c)' = Message(c)
  BY DEF CallNo, Message, Kind
<1>2. \A c, n : PerformedCall(c, n)' <=> PerformedCall(c, n)
  BY DEF PerformedCall
<1>3. NetOK' /\ NetUnique' /\ NetFresh'
  BY <1>1, <1>2 DEF CallInv, NetOK, NetUnique, NetFresh
<1>4. LogOK' /\ OkReply' /\ AtMostOnce'
  BY <1>1, <1>2 DEF CallInv, LogOK, OkReply, AtMostOnce
<1>5. OkMeansPerformed' /\ RefusedMeansNothing'
  BY <1>2 DEF CallInv, OkMeansPerformed, RefusedMeansNothing
<1> QED
  BY <1>3, <1>4, <1>5 DEF CallInv

LEMMA CallNext == TypeInv /\ CallInv /\ [Next]_vars => CallInv'
<1> SUFFICES ASSUME TypeInv, CallInv, [Next]_vars PROVE CallInv'
  OBVIOUS
<1>1. ASSUME NEW c \in Clients, Start(c) \/ Send(c) \/ React(c) \/ GiveUp(c)
      PROVE  CallInv'
  BY <1>1, CallStart, CallSend, CallReact, CallGiveUp
<1>2. ASSUME NEW r \in net, Serve(r) PROVE CallInv'
  BY <1>2, CallServe
<1>3. ASSUME NEW s \in live, Expire(s) PROVE CallInv'
  BY <1>3, CallIdle DEF Expire, client
<1>4. CASE ForeignWrite
  BY <1>4, CallIdle DEF ForeignWrite, client
<1>5. CASE UNCHANGED vars
  BY <1>5, CallIdle DEF vars
<1> QED
  BY <1>1, <1>2, <1>3, <1>4, <1>5 DEF Next

\* However often a call retries, it acts at most once; if it returned a
\* response it has acted, and if it was refused it has not and never will.
THEOREM CallsAreSafe == Spec => [](AtMostOnce /\ OkMeansPerformed /\ RefusedMeansNothing)
<1>1. Init => TypeInv /\ CallInv
  BY TypeInit, CallInit
<1>2. TypeInv /\ CallInv /\ [Next]_vars => (TypeInv /\ CallInv)'
  BY TypeNext, CallNext
<1>3. CallInv => AtMostOnce /\ OkMeansPerformed /\ RefusedMeansNothing
  BY DEF CallInv
<1> QED
  BY <1>1, <1>2, <1>3, PTL DEF Spec

----------------------------------------------------------------------------
(* No lost update.                                                          *)

\* Every update on the network of a call with an ETag carries that ETag, so
\* the server accepts it only for the version the program has seen.
LEMMA UpdateNext == TypeInv /\ UpdateInv /\ [Next]_vars => UpdateInv'
<1> SUFFICES ASSUME TypeInv, UpdateInv, [Next]_vars PROVE UpdateInv'
  OBVIOUS
<1> USE DEF UpdateInv, NetTags, NoLostUpdate, server, client
<1>1. ASSUME NEW c \in Clients, Send(c) PROVE UpdateInv'
  <2>1. call[c].op = "set" => Kind(call[c]) # "write"
    BY DEF Kind
  <2>2. Message(c).op = "set" =>
          Message(c).tag = Message(c).arg /\ Message(c).kind # "write"
    BY <1>1, <2>1 DEF Send, Message, TypeInv, StackOK, Coherent, Begun
  <2> QED
    BY <1>1, <2>2 DEF Send
<1>2. ASSUME UNCHANGED <<net, log>> PROVE UpdateInv'
  BY <1>2
<1>3. ASSUME NEW c \in Clients, Start(c) \/ React(c) \/ GiveUp(c) PROVE UpdateInv'
  BY <1>2, <1>3 DEF Start, Connect, ConnectAgain, Disconnect, DisconnectUnconnected,
        Request, Starting, React, LoggedIn, LoginRefused, EtagRead, RenewSession,
        RetryStale, Succeed, Fail, StackOverflow, Receive, GiveUp
<1>4. ASSUME NEW r \in net, Serve(r) PROVE UpdateInv'
  <2>a. net' \subseteq net
    BY <1>4 DEF Serve, ServeLogin, RefuseLogin, Unauthorized, ServeRead, ServeWrite,
          ServeUpdate, PreconditionFailed, ServeLogout, ServerError, Answer
  <2>1. CASE UNCHANGED log
    BY <2>a, <2>1
  <2>2. CASE Performed(r) /\ (r.op = "set" => r.tag = version)
    <3>1. /\ \A i \in DOMAIN log' : i \in DOMAIN log \/ i = Len(log) + 1
          /\ \A i \in DOMAIN log : log'[i] = log[i]
          /\ log'[Len(log) + 1].op = r.op /\ log'[Len(log) + 1].base = version
          /\ log'[Len(log) + 1].arg = r.arg
      BY <2>2 DEF Performed, TypeInv, TypeOK
    <3>2. NoLostUpdate'
      BY <2>2, <3>1
    <3> QED
      BY <2>a, <3>2
  <2>3. CASE ServeWrite(r)
    <3>1. r.op # "set"
      BY <2>3 DEF ServeWrite
    <3> QED
      BY <2>2, <2>3, <3>1 DEF ServeWrite
  <2>4. CASE ServeUpdate(r)
    BY <2>2, <2>4 DEF ServeUpdate
  <2> QED
    BY <1>4, <2>1, <2>3, <2>4 DEF Serve, ServeLogin, RefuseLogin, Unauthorized,
          ServeRead, PreconditionFailed, ServeLogout, ServerError
<1>5. ASSUME NEW s \in live, Expire(s) PROVE UpdateInv'
  BY <1>2, <1>5 DEF Expire
<1>6. CASE ForeignWrite
  BY <1>2, <1>6 DEF ForeignWrite
<1>7. CASE UNCHANGED vars
  BY <1>2, <1>7 DEF vars
<1> QED
  BY <1>1, <1>3, <1>4, <1>5, <1>6, <1>7 DEF Next

\* An update with the ETag of the program's object overwrites the version the
\* program has seen, and no other.
THEOREM UpdatesAreNotLost == Spec => []NoLostUpdate
<1>1. Init => TypeInv /\ UpdateInv
  BY TypeInit DEF Init, UpdateInv, NetTags, NoLostUpdate
<1>2. TypeInv /\ UpdateInv /\ [Next]_vars => (TypeInv /\ UpdateInv)'
  BY TypeNext, UpdateNext
<1>3. UpdateInv => NoLostUpdate
  BY DEF UpdateInv
<1> QED
  BY <1>1, <1>2, <1>3, PTL DEF Spec

\* A call that has returned a response has acted, whatever it took to get the
\* response.
THEOREM OkCallsActed == Spec => []OkMeansPerformed
  BY CallsAreSafe, PTL

\* A call that was refused has not acted and never will.
THEOREM RefusedCallsDidNothing == Spec => []RefusedMeansNothing
  BY CallsAreSafe, PTL

----------------------------------------------------------------------------
(* The connector keeps the promise of CallPromise.                          *)

\* A request that writes belongs to a call with an effect, also when it
\* arrives after its call has ended.
LateOK ==
    \A r \in net :
        /\ r.kind \in {"write", "update"} => r.op \in Effects
        /\ r.n \in DOMAIN done[r.client] => done[r.client][r.n].op = r.op

LEMMA LateSend ==
    ASSUME TypeInv, LateOK, NEW c \in Clients, Send(c)
    PROVE  LateOK'
<1>1. net' = net \cup {Message(c)} /\ done' = done
  BY DEF Send
<1>2. Message(c).client = c /\ Message(c).n \notin DOMAIN done[c]
  BY DEF Message, CallNo, TypeInv, TypeOK
<1>3. Message(c).kind \in {"write", "update"} => Message(c).op \in Effects
  <2>1. call[c].at # "idle" /\ call[c].op \in Ops
    BY DEF Send, TypeInv, StackOK, Coherent, Begun
  <2>2. Kind(call[c]) \in {"write", "update"} => call[c].op \in Effects
    BY <2>1 DEF Kind, Ops, Requests, Effects
  <2> QED
    BY <2>2 DEF Message
<1> QED
  BY <1>1, <1>2, <1>3 DEF LateOK

LEMMA LateReturned ==
    ASSUME TypeInv, CallInv, LateOK, NEW c \in Clients, NEW o \in Ops, NEW x,
           Returned(c, o, x), net' = net, NothingSent(c) \/ o = call[c].op
    PROVE  LateOK'
<1>1. /\ \A d \in Clients \ {c} : done'[d] = done[d]
      /\ DOMAIN done'[c] = DOMAIN done[c] \cup {CallNo(c)}
      /\ done'[c][CallNo(c)] = [op |-> o, outcome |-> x]
      /\ \A n \in DOMAIN done[c] : n # CallNo(c) /\ done'[c][n] = done[c][n]
  BY DEF Returned, TypeInv, TypeOK, CallNo
<1>2. ASSUME NEW r \in net, r.client = c, r.n = CallNo(c)
      PROVE  r.op = o
  BY <1>1, <1>2 DEF CallInv, NetOK, NothingSent, Message
<1>3. \A r \in net : r.client \in Clients
  BY DEF TypeInv, TypeOK, RequestRecord
<1> QED
  BY <1>1, <1>2, <1>3 DEF LateOK

LEMMA LateNext == TypeInv /\ CallInv /\ LateOK /\ [Next]_vars => LateOK'
<1> SUFFICES ASSUME TypeInv, CallInv, LateOK, [Next]_vars PROVE LateOK'
  OBVIOUS
<1> USE DEF server, client
<1>a. ASSUME net' \subseteq net, done' = done PROVE LateOK'
  BY <1>a DEF LateOK
<1>1. ASSUME NEW c \in Clients, Start(c) PROVE LateOK'
  <2>1. NothingSent(c) /\ net' = net
    <3>1. ~call[c].waiting
      BY <1>1 DEF Start, Connect, ConnectAgain, Disconnect, DisconnectUnconnected, Request,
             Starting, TypeInv, StackOK, Coherent
    <3> QED
      BY <1>1, <3>1, NotWaiting DEF Start, Connect, ConnectAgain, Disconnect,
         DisconnectUnconnected, Request, Starting
  <2>2. done' = done \/ \E o \in Ops, x \in Outcomes : Returned(c, o, x)
    BY <1>1 DEF Start, Connect, ConnectAgain, Disconnect, DisconnectUnconnected, Request,
       Ops, Outcomes
  <2> QED
    BY <1>a, <2>1, <2>2, LateReturned
<1>2. ASSUME NEW c \in Clients, React(c) \/ GiveUp(c) PROVE LateOK'
  <2>1. net' = net /\ (done' = done \/ \E x : call[c].at # "idle" /\ Returned(c, call[c].op, x))
    BY <1>2 DEF React, LoggedIn, LoginRefused, EtagRead, RenewSession, RetryStale, Succeed,
       Fail, StackOverflow, Receive, GiveUp, TypeInv, StackOK, Coherent
  <2>2. call[c].at # "idle" => call[c].op \in Ops
    BY DEF TypeInv, StackOK, Coherent, Begun
  <2> QED
    BY <1>a, <2>1, <2>2, LateReturned
<1>3. ASSUME NEW r \in net, Serve(r) PROVE LateOK'
  BY <1>a, <1>3 DEF Serve, ServeLogin, RefuseLogin, Unauthorized, ServeRead, ServeWrite,
     ServeUpdate, PreconditionFailed, ServeLogout, ServerError, Answer
<1>4. ASSUME NEW s \in live, Expire(s) PROVE LateOK'
  BY <1>a, <1>4 DEF Expire
<1>5. CASE ForeignWrite
  BY <1>a, <1>5 DEF ForeignWrite
<1>6. CASE UNCHANGED vars
  BY <1>a, <1>6 DEF vars
<1> QED
  BY <1>1, <1>2, <1>3, <1>4, <1>5, <1>6, LateSend DEF Next

\* What CallPromise sees of the effects.
Effected == [i \in DOMAIN log |-> [client |-> log[i].client, n |-> log[i].n]]

LEMMA HasEffect ==
    ASSUME NEW c, NEW n
    PROVE  Promise!Has(c, n) <=> PerformedCall(c, n)
BY DEF Promise!Has, PerformedCall

LEMMA PromiseInit == Init => Promise!Init
<1> SUFFICES ASSUME Init PROVE Promise!Init
  OBVIOUS
<1>1. log = <<>> /\ \A c \in Clients : call[c].op = "none"
  BY DEF Init, NoCall
<1>2. Effected = <<>>
  BY <1>1 DEF Effected
<1>3. done = [c \in Clients |-> <<>>]
  BY DEF Init
<1> QED
  BY <1>1, <1>2, <1>3 DEF Promise!Init, Effected

LEMMA PromiseStutter ==
    ASSUME UNCHANGED <<done, log>>, \A c \in Clients : call'[c].op = call[c].op
    PROVE  UNCHANGED Promise!vars
BY DEF Promise!vars

\* The call of c changes to one of operation o.
LEMMA CurrentCall ==
    ASSUME TypeInv, NEW c \in Clients, NEW k, call' = [call EXCEPT ![c] = k]
    PROVE  [d \in Clients |-> call'[d].op]
             = [[d \in Clients |-> call[d].op] EXCEPT ![c] = k.op]
BY DEF TypeInv, TypeOK

\* An operator that keeps the operation of the call it is applied to.
LEMMA SameOp ==
    ASSUME NEW k \in CallRecord, NEW b
    PROVE  /\ Attempt(k).op = k.op /\ Login(k, b).op = k.op
           /\ MarkRetried(k).op = k.op /\ Resume(k).op = k.op
           /\ [k EXCEPT !.waiting = FALSE].op = k.op
BY DEF Attempt, Login, MarkRetried, Resume, CallRecord

LEMMA PromiseStart ==
    ASSUME TypeInv, NEW c \in Clients, Start(c)
    PROVE  \E o \in Ops : \/ Promise!Begin(c, o)
                          \/ \E x \in Outcomes : Promise!EndAtOnce(c, o, x)
<1> USE DEF Starting, server
<1>1. call[c].op = "none" /\ log' = log
  BY DEF Start, Connect, ConnectAgain, Disconnect, DisconnectUnconnected, Request,
         TypeInv, StackOK, Coherent
<1>2. NoCall \in CallRecord /\ session[c] \in Nat /\ seen[c] \in Nat
  BY NoCallOK DEF TypeInv, TypeOK
<1>a. ASSUME NEW k, k.op \in Ops, call' = [call EXCEPT ![c] = k], done' = done
      PROVE  Promise!Begin(c, k.op)
  <2>1. [d \in Clients |-> call'[d].op]
          = [[d \in Clients |-> call[d].op] EXCEPT ![c] = k.op]
    BY <1>a, CurrentCall
  <2> QED
    BY <1>1, <1>a, <2>1 DEF Promise!Begin
<1>b. ASSUME NEW o \in Ops, NEW x \in Outcomes, o \notin Effects, call' = call, Returned(c, o, x)
      PROVE  Promise!EndAtOnce(c, o, x)
  BY <1>1, <1>b DEF Promise!EndAtOnce, Promise!End, Returned
<1>3. CASE Connect(c)
  <2> DEFINE l == [NoCall EXCEPT !.op = "connect"]
             k == Login(l, "main")
  <2>1. l \in CallRecord /\ l.op = "connect"
    BY <1>2 DEF CallRecord, Ops
  <2>2. k.op = "connect" /\ call' = [call EXCEPT ![c] = k] /\ done' = done
    BY <1>3, <2>1, SameOp DEF Connect
  <2> HIDE DEF k
  <2> QED
    BY <2>2, <1>a DEF Ops
<1>4. CASE ConnectAgain(c)
  BY <1>4, <1>b DEF ConnectAgain, Ops, Effects, Outcomes
<1>5. CASE Disconnect(c)
  <2> DEFINE j == [NoCall EXCEPT !.op = "disconnect", !.arg = session[c]]
             k == Attempt(j)
  <2>1. j \in CallRecord /\ j.op = "disconnect"
    BY <1>2 DEF CallRecord, Ops
  <2>2. k.op = "disconnect" /\ call' = [call EXCEPT ![c] = k] /\ done' = done
    BY <1>5, <2>1, SameOp DEF Disconnect
  <2> HIDE DEF k
  <2> QED
    BY <2>2, <1>a DEF Ops
<1>6. CASE DisconnectUnconnected(c)
  BY <1>6, <1>b DEF DisconnectUnconnected, Ops, Effects, Outcomes
<1>7. ASSUME NEW o \in Requests, Request(c, o)
      PROVE  \E p \in Ops : Promise!Begin(c, p)
  <2> DEFINE given == IF o = "set" THEN seen[c] ELSE 0
             j == [NoCall EXCEPT !.op = o, !.arg = given, !.tag = given]
             k == Attempt(j)
  <2>0. given \in Nat
    BY <1>2
  <2>1. j \in CallRecord /\ j.op = o
    BY <1>2, <2>0 DEF CallRecord, Ops
  <2>2. call' = [call EXCEPT ![c] = k] /\ done' = done
    BY <1>7 DEF Request
  <2> HIDE DEF j
  <2>3. k.op = o /\ o \in Ops
    BY <2>1, SameOp DEF Ops
  <2> HIDE DEF k
  <2> QED
    BY <2>2, <2>3, <1>a
<1> QED
  BY <1>3, <1>4, <1>5, <1>6, <1>7 DEF Start

LEMMA PromiseReturn ==
    ASSUME TypeInv, NEW c \in Clients, NEW x \in Outcomes, Returned(c, call[c].op, x),
           NEW k, k.op = "none", call' = [call EXCEPT ![c] = k], log' = log,
           call[c].at # "idle",
           x = "ok" /\ call[c].op \in Effects => PerformedCall(c, CallNo(c)),
           x \in {"401", "412", "RecursionError"} => ~PerformedCall(c, CallNo(c))
    PROVE  Promise!Return(c, x)
<1>1. [d \in Clients |-> call'[d].op] = [[d \in Clients |-> call[d].op] EXCEPT ![c] = "none"]
  BY CurrentCall
<1>2. call[c].op # "none"
  BY DEF TypeInv, StackOK, Coherent, Begun, Ops, Requests
<1>3. Promise!Has(c, CallNo(c)) <=> PerformedCall(c, CallNo(c))
  BY HasEffect
<1> QED
  BY <1>1, <1>2, <1>3 DEF Promise!Return, Promise!Refusals, Promise!End, Returned, CallNo

LEMMA PromiseReact ==
    ASSUME TypeInv, CallInv, NEW c \in Clients, React(c)
    PROVE  (\E x \in Outcomes : Promise!Return(c, x)) \/ UNCHANGED Promise!vars
<1> DEFINE k == call[c]
<1> USE DEF server
<1>0. k \in CallRecord /\ rep[c].value \in Nat /\ log' = log
  BY DEF TypeInv, TypeOK, ReplyRecord, React, LoggedIn, LoginRefused, EtagRead, RenewSession,
         RetryStale, Succeed, Fail, StackOverflow, Receive
<1>a. ASSUME NEW j \in CallRecord, NEW s, Receive(c, s, j), j.op = k.op, done' = done
      PROVE  UNCHANGED Promise!vars
  <2>1. call' = [call EXCEPT ![c] = [j EXCEPT !.waiting = FALSE]]
    BY <1>a DEF Receive
  <2>2. [j EXCEPT !.waiting = FALSE].op = k.op
    BY <1>a, SameOp
  <2>3. \A d \in Clients : call'[d].op = call[d].op
    BY <2>1, <2>2 DEF TypeInv, TypeOK
  <2> QED
    BY <1>0, <1>a, <2>3, PromiseStutter
<1>b. ASSUME NEW s, NEW x \in Outcomes, Receive(c, s, NoCall), Returned(c, k.op, x),
             x = "ok" /\ k.op \in Effects => PerformedCall(c, CallNo(c)),
             x \in {"401", "412", "RecursionError"} => ~PerformedCall(c, CallNo(c))
      PROVE  Promise!Return(c, x)
  <2>1. call' = [call EXCEPT ![c] = [NoCall EXCEPT !.waiting = FALSE]] /\ k.waiting
    BY <1>b DEF Receive
  <2>2. [NoCall EXCEPT !.waiting = FALSE].op = "none"
    BY DEF NoCall
  <2>3. k.at # "idle"
    BY <2>1 DEF TypeInv, StackOK, Coherent
  <2> QED
    BY <1>0, <1>b, <2>1, <2>2, <2>3, PromiseReturn
<1>c. rep[c].status \in {"401", "412"} => ~PerformedCall(c, CallNo(c))
  BY DEF CallInv, LogOK
<1>1. CASE LoggedIn(c)
  <2> DEFINE j == [k EXCEPT !.depth = @ - 1, !.lastLogin = TRUE]
             i == IF k.depth = 1 THEN Resume(k) ELSE j
  <2>1. Receive(c, "ok", i) /\ done' = done
    BY <1>1 DEF LoggedIn
  <2>2. k.at = "login" /\ Coherent(k)
    BY <1>1 DEF LoggedIn, TypeInv, StackOK
  <2>3. i \in CallRecord /\ i.op = k.op
    <3>1. Resume(k) \in CallRecord /\ Resume(k).op = k.op
      BY <1>0, <2>2, ResumeOK, SameOp DEF Coherent
    <3>2. k.depth # 1 => j \in CallRecord
      <4>1. k.depth # 1 => k.depth - 1 \in Nat \ {0}
        BY <1>0, <2>2 DEF CallRecord, Coherent
      <4> QED
        BY <1>0, <2>2, <4>1, DepthOK DEF Coherent
    <3>3. j.op = k.op
      BY <1>0 DEF CallRecord
    <3> QED
      BY <3>1, <3>2, <3>3
  <2> HIDE DEF i
  <2> QED
    BY <2>1, <2>3, <1>a
<1>2. CASE LoginRefused(c)
  <2> DEFINE j == [k EXCEPT !.depth = @ + 1, !.lastLogin = FALSE]
  <2>1. Receive(c, "401", j) /\ done' = done /\ k.at = "login"
    BY <1>2 DEF LoginRefused
  <2>2. j \in CallRecord /\ j.op = k.op
    <3>1. k.depth + 1 \in Nat \ {0} /\ Begun(k)
      BY <1>0, <2>1 DEF CallRecord, TypeInv, StackOK, Coherent
    <3>2. j \in CallRecord
      BY <1>0, <2>1, <3>1, DepthOK
    <3>3. j.op = k.op
      BY <1>0 DEF CallRecord
    <3> QED
      BY <3>2, <3>3
  <2> HIDE DEF j
  <2> QED
    BY <2>1, <2>2, <1>a
<1>3. CASE EtagRead(c)
  <2> DEFINE j == [k EXCEPT !.at = "main", !.tag = rep[c].value]
  <2>1. Receive(c, "ok", j) /\ done' = done
    BY <1>3 DEF EtagRead
  <2>2. j \in CallRecord /\ j.op = k.op
    BY <1>0 DEF CallRecord
  <2> HIDE DEF j
  <2> QED
    BY <2>1, <2>2, <1>a
<1>4. CASE RenewSession(c)
  <2> DEFINE j == Login(MarkRetried(k), k.at)
  <2>1. Receive(c, "401", j) /\ done' = done /\ k.at \in {"etag", "main"}
    BY <1>4 DEF RenewSession
  <2>2. j \in CallRecord /\ j.op = k.op
    <3>1. Coherent(k) /\ Begun(k)
      BY <2>1 DEF TypeInv, StackOK, Coherent
    <3>2. /\ MarkRetried(k) \in CallRecord /\ Begun(MarkRetried(k)) /\ MarkRetried(k).op = k.op
          /\ k.at = "etag" => k.op = "patch"
      BY <1>0, <3>1, MarkRetriedOK DEF Coherent
    <3> QED
      BY <2>1, <3>2, LoginOK, SameOp
  <2> HIDE DEF j
  <2> QED
    BY <2>1, <2>2, <1>a
<1>5. CASE RetryStale(c)
  <2> DEFINE j == Attempt(MarkRetried(k))
  <2>1. Receive(c, "412", j) /\ done' = done /\ k.at = "main"
    BY <1>5 DEF RetryStale
  <2>2. j \in CallRecord /\ j.op = k.op
    <3>1. Begun(k)
      BY <2>1 DEF TypeInv, StackOK, Coherent
    <3>2. MarkRetried(k) \in CallRecord /\ Begun(MarkRetried(k)) /\ MarkRetried(k).op = k.op
      BY <1>0, <3>1, MarkRetriedOK
    <3> QED
      BY <3>2, AttemptOK, SameOp
  <2> HIDE DEF j
  <2> QED
    BY <2>1, <2>2, <1>a
<1>6. CASE Succeed(c)
  <2>1. Receive(c, "ok", NoCall) /\ Returned(c, k.op, "ok") /\ k.at = "main"
    BY <1>6 DEF Succeed
  <2>2. k.op \in Effects => PerformedCall(c, CallNo(c))
    BY <2>1 DEF CallInv, OkReply, Receive
  <2> QED
    BY <2>1, <2>2, <1>b DEF Outcomes
<1>7. CASE Fail(c)
  <2> DEFINE s == rep[c].status
  <2>1. Receive(c, s, NoCall) /\ Returned(c, k.op, s) /\ s \in {"401", "412", "err"}
    BY <1>7 DEF Fail
  <2>2. s \in Outcomes /\ s # "ok"
    BY <2>1 DEF Outcomes
  <2>3. s \in {"401", "412", "RecursionError"} => ~PerformedCall(c, CallNo(c))
    BY <2>1, <1>c
  <2> HIDE DEF s
  <2> QED
    BY <2>1, <2>2, <2>3, <1>b
<1>8. CASE StackOverflow(c)
  <2>1. Receive(c, "401", NoCall) /\ Returned(c, k.op, "RecursionError")
    BY <1>8 DEF StackOverflow
  <2>2. ~PerformedCall(c, CallNo(c))
    BY <2>1, <1>c DEF Receive
  <2> QED
    BY <2>1, <2>2, <1>b DEF Outcomes
<1> QED
  BY <1>1, <1>2, <1>3, <1>4, <1>5, <1>6, <1>7, <1>8 DEF React

LEMMA PromiseGiveUp ==
    ASSUME TypeInv, NEW c \in Clients, GiveUp(c)
    PROVE  Promise!Return(c, "ConnectionError")
<1>1. /\ call[c].at # "idle" /\ call' = [call EXCEPT ![c] = NoCall] /\ log' = log
      /\ Returned(c, call[c].op, "ConnectionError")
  BY DEF GiveUp, server, TypeInv, StackOK, Coherent
<1>2. NoCall.op = "none" /\ "ConnectionError" \in Outcomes
  BY DEF NoCall, Outcomes
<1> QED
  BY <1>1, <1>2, PromiseReturn

\* The effect of r is that of the call its sender waits in, or of one that has
\* lost its connection.
LEMMA PromisePerform ==
    ASSUME TypeInv, CallInv, LateOK, NEW r \in net, Performed(r), UNCHANGED client,
           r.kind \in {"write", "update"}
    PROVE  \E n \in 1 .. Len(done[r.client]) + 1 : Promise!Perform(r.client, n)
<1> DEFINE c == r.client
           m == Len(log)
           e == [client |-> r.client, n |-> r.n, op |-> r.op, base |-> version, arg |-> r.arg]
<1>0. /\ c \in Clients /\ r.n \in Nat \ {0} /\ r.op \in Effects
      /\ done[c] \in Seq([op : Ops, outcome : Outcomes])
  BY DEF TypeInv, TypeOK, RequestRecord, LateOK
<1>1. ~Promise!Has(c, r.n)
  BY HasEffect DEF CallInv, NetFresh
<1>2. \/ r.n = Len(done[c]) + 1 /\ call[c].op \in Effects
      \/ /\ r.n \in DOMAIN done[c] /\ done[c][r.n].op \in Effects
         /\ done[c][r.n].outcome = "ConnectionError"
  <2>1. \/ r.n = CallNo(c) /\ r = Message(c)
        \/ r.n \in DOMAIN done[c] /\ done[c][r.n].outcome = "ConnectionError"
    BY DEF CallInv, NetOK
  <2>2. r = Message(c) => r.op = call[c].op
    BY DEF Message
  <2> QED
    BY <1>0, <2>1, <2>2 DEF CallNo, LateOK
<1>3. r.n \in 1 .. Len(done[c]) + 1
  BY <1>0, <1>2
<1>4. Effected' = Append(Effected, [client |-> c, n |-> r.n])
  <2>1. /\ m \in Nat /\ DOMAIN log = 1 .. m /\ DOMAIN log' = 1 .. m + 1
        /\ log'[m + 1].client = c /\ log'[m + 1].n = r.n
        /\ \A i \in DOMAIN log : log'[i] = log[i] /\ log[i] \in EffectRecord
    BY DEF Performed, TypeInv, TypeOK
  <2>2. Effected \in Seq([client : Clients, n : Nat]) /\ Len(Effected) = m
    <3>1. Effected \in [1 .. m -> [client : Clients, n : Nat]]
      BY <2>1 DEF Effected, EffectRecord
    <3>2. \E j \in Nat : Effected \in [1 .. j -> [client : Clients, n : Nat]]
      BY <2>1, <3>1
    <3>3. Effected \in UNION {[1 .. j -> [client : Clients, n : Nat]] : j \in Nat}
      BY <3>2, Zenon
    <3>4. Effected \in Seq([client : Clients, n : Nat])
      BY <3>3, SeqDef, Zenon
    <3> QED
      BY <2>1, <3>1, <3>4, LenProperties
  <2>3. Append(Effected, [client |-> c, n |-> r.n])
          = [i \in 1 .. m + 1 |-> IF i <= m THEN Effected[i] ELSE [client |-> c, n |-> r.n]]
    BY <2>2, <1>0
  <2>4. Effected' = [i \in 1 .. m + 1 |-> [client |-> log'[i].client, n |-> log'[i].n]]
    BY <2>1 DEF Effected
  <2>5. \A i \in 1 .. m + 1 : i = m + 1 \/ (i <= m /\ i \in DOMAIN log)
    BY <2>1
  <2>6. ~(m + 1 <= m)
    BY <2>1
  <2>7. ASSUME NEW i \in 1 .. m + 1
        PROVE  [client |-> log'[i].client, n |-> log'[i].n]
                 = IF i <= m THEN Effected[i] ELSE [client |-> c, n |-> r.n]
    BY <2>1, <2>5, <2>6 DEF Effected
  <2> HIDE DEF m
  <2> QED
    BY <2>3, <2>4, <2>7
<1>5. Promise!Perform(c, r.n)
  BY <1>0, <1>1, <1>2, <1>4 DEF Promise!Perform, Effected, client
<1> QED
  BY <1>3, <1>5

LEMMA PromiseServe ==
    ASSUME TypeInv, CallInv, LateOK, NEW r \in net, Serve(r)
    PROVE  \/ \E n \in 1 .. Len(done[r.client]) + 1 : Promise!Perform(r.client, n)
           \/ UNCHANGED Promise!vars
<1>1. UNCHANGED client
  BY DEF Serve, ServeLogin, RefuseLogin, Unauthorized, ServeRead, ServeWrite, ServeUpdate,
         PreconditionFailed, ServeLogout, ServerError, Answer
<1>2. log' = log \/ (Performed(r) /\ r.kind \in {"write", "update"})
  BY DEF Serve, ServeLogin, RefuseLogin, Unauthorized, ServeRead, ServeWrite, ServeUpdate,
         PreconditionFailed, ServeLogout, ServerError, server
<1>3. CASE log' = log
  BY <1>1, <1>3, PromiseStutter DEF client
<1> QED
  BY <1>1, <1>2, <1>3, PromisePerform

\* Seen from outside, a call of the connector is one of CallPromise: however it
\* retries, renews its session, reads ETags or gives up, its effect happens at
\* most once, before it returns unless it has lost its connection, and never
\* when it is refused.
THEOREM ConnectorKeepsPromise == Spec => KeepsPromise
<1>1. Init => Promise!Init
  BY PromiseInit
<1>2. Init => TypeInv /\ CallInv /\ LateOK
  BY TypeInit, CallInit DEF Init, LateOK
<1>3. TypeInv /\ CallInv /\ LateOK /\ [Next]_vars => (TypeInv /\ CallInv /\ LateOK)'
  BY TypeNext, CallNext, LateNext
<1>4. TypeInv /\ CallInv /\ LateOK /\ [Next]_vars => [Promise!Next]_Promise!vars
  <2> SUFFICES ASSUME TypeInv, CallInv, LateOK, [Next]_vars
               PROVE  [Promise!Next]_Promise!vars
    OBVIOUS
  <2>1. ASSUME NEW c \in Clients, Start(c) PROVE Promise!Next
    BY <2>1, PromiseStart DEF Promise!Next
  <2>2. ASSUME NEW c \in Clients, Send(c) PROVE UNCHANGED Promise!vars
    <3>1. UNCHANGED <<done, log>> /\ \A d \in Clients : call'[d].op = call[d].op
      BY <2>2 DEF Send, server, TypeInv, TypeOK, CallRecord
    <3> QED
      BY <3>1, PromiseStutter
  <2>3. ASSUME NEW c \in Clients, React(c) PROVE [Promise!Next]_Promise!vars
    BY <2>3, PromiseReact DEF Promise!Next
  <2>4. ASSUME NEW c \in Clients, GiveUp(c) PROVE Promise!Next
    BY <2>4, PromiseGiveUp DEF Promise!Next, Outcomes
  <2>5. ASSUME NEW r \in net, Serve(r) PROVE [Promise!Next]_Promise!vars
    <3>1. r.client \in Clients
      BY DEF TypeInv, TypeOK, RequestRecord
    <3> QED
      BY <2>5, <3>1, PromiseServe DEF Promise!Next
  <2>6. ASSUME NEW s \in live, Expire(s) PROVE UNCHANGED Promise!vars
    BY <2>6, PromiseStutter DEF Expire, client
  <2>7. CASE ForeignWrite
    BY <2>7, PromiseStutter DEF ForeignWrite, client
  <2>8. CASE UNCHANGED vars
    BY <2>8, PromiseStutter DEF vars
  <2> QED
    BY <2>1, <2>2, <2>3, <2>4, <2>5, <2>6, <2>7, <2>8 DEF Next
<1> QED
  BY <1>1, <1>2, <1>3, <1>4, PTL DEF Spec, KeepsPromise, Promise!Spec

----------------------------------------------------------------------------
(* What the logins cost and leave behind.                                   *)

\* Until a login of the client is refused, none is nested and none repeated.
SmoothLogins ==
    /\ ~RefuseLogins => refused = {}
    /\ \A c \in Clients \ refused : call[c].at = "login" =>
          call[c].depth = 1 /\ ~call[c].lastLogin /\ rep[c].status # "401"

\* The token sent is that of the cached session.  An undisturbed client that
\* logs in, or is about to after a 401, has no live session but the one the
\* response on its way tells it of; at other times its live session is the
\* cached one.
SessionsOK ==
    /\ \A s \in live : s \in DOMAIN issued
    /\ \A c \in Clients :
        /\ header[c] = session[c] /\ session[c] <= Len(issued)
        /\ call[c].at = "login" /\ rep[c].status = "ok" => rep[c].value \in DOMAIN issued
    /\ \A c \in Clients : Undisturbed(c) =>
        /\ call[c].at = "login" \/ rep[c].status = "401" => session[c] \notin live
        /\ \A s \in live : issued[s] = c =>
              \/ s = session[c]
              \/ call[c].at = "login" /\ rep[c].status = "ok" /\ rep[c].value = s

----------------------------------------------------------------------------
(* The requests a call may still send, when the request it is making is not *)
(* sent yet.                                                                *)

\* To the end of the logins of one renewal: down to the deepest login, then
\* every outer one once more.
LoginsLeft(k) == IF ~RefuseLogins THEN 1
                 ELSE IF k.lastLogin THEN k.depth
                 ELSE 2 * StackLimit - k.depth

ReadsLeft(k) == IF k.readRetried THEN 1 ELSE 2 + LoginCost

\* From the outer request on, once it has its ETag.
MainLeft(k) == IF k.retried THEN 1 ELSE 4 + 2 * LoginCost

Left(k) ==
    CASE k.at = "idle" -> 0
      [] k.at = "main" -> MainLeft(k)
      [] k.at = "etag" -> ReadsLeft(k) + MainLeft(k)
      [] k.at = "login" ->
            LoginsLeft(k) + MainLeft(k)
              + (IF k.back = "etag" THEN 1 ELSE IF k.op = "patch" THEN 2 + LoginCost ELSE 0)

\* A login is made by connect() or renews a session for a retry; what a call
\* has sent and may still send is within the limit.
BudgetOK(k) ==
    /\ k.at = "login" => /\ k.depth \in 1 .. StackLimit
                         /\ IF k.back = "etag" THEN k.readRetried
                                               ELSE k.retried \/ k.op = "connect"
    /\ k.sent + Left(k) <= TrafficLimit + (IF k.waiting THEN 1 ELSE 0)

TrafficInv == \A c \in Clients : BudgetOK(call[c])

----------------------------------------------------------------------------
(* What a step does to the fields of a call.                                *)

\* The fields that say what the call is and whether it has been retried.
SameRetries(j, k) == j.op = k.op /\ j.retried = k.retried /\ j.readRetried = k.readRetried
                     /\ j.sent = k.sent

LEMMA AttemptFields ==
    ASSUME NEW k \in CallRecord
    PROVE  LET j == Attempt(k)
           IN  /\ j.at = IF k.op = "patch" THEN "etag" ELSE "main"
               /\ j.op = k.op /\ j.retried = k.retried /\ ~j.readRetried
               /\ j.sent = k.sent /\ j.waiting = k.waiting
BY DEF Attempt, CallRecord

LEMMA LoginFields ==
    ASSUME NEW k \in CallRecord, NEW b
    PROVE  LET j == Login(k, b)
           IN  /\ j.at = "login" /\ j.depth = 1 /\ ~j.lastLogin /\ j.back = b
               /\ j.waiting = k.waiting /\ SameRetries(j, k)
BY DEF Login, CallRecord, SameRetries

LEMMA MarkRetriedFields ==
    ASSUME NEW k \in CallRecord
    PROVE  LET j == MarkRetried(k)
           IN  /\ j \in CallRecord /\ j.op = k.op /\ j.sent = k.sent
               /\ IF k.at = "etag" THEN j.readRetried /\ j.retried = k.retried
                                   ELSE j.retried /\ j.readRetried = k.readRetried
BY DEF MarkRetried, CallRecord

LEMMA ResumeFields ==
    ASSUME NEW k \in CallRecord
    PROVE  LET j == Resume(k)
           IN  /\ j.op = k.op /\ j.retried = k.retried /\ j.sent = k.sent
               /\ k.back = "etag" => j.at = "etag" /\ j.readRetried = k.readRetried
               /\ k.back # "etag" => j.at = IF k.op = "patch" THEN "etag" ELSE "main"
               /\ k.back # "etag" => ~j.readRetried
<1>1. CASE k.back = "etag"
  BY <1>1 DEF Resume, CallRecord
<1>2. CASE k.back # "etag"
  <2> DEFINE i == [k EXCEPT !.depth = 0]
  <2>1. /\ i \in CallRecord /\ i.op = k.op /\ i.retried = k.retried /\ i.sent = k.sent
    BY DEF CallRecord
  <2>2. Resume(k) = Attempt(i)
    BY <1>2 DEF Resume
  <2> HIDE DEF i
  <2> QED
    BY <1>2, <2>1, <2>2, AttemptFields
<1> QED
  BY <1>1, <1>2

\* Steps of one client leave the others, and the sessions, alone.
LEMMA OthersStay ==
    ASSUME TypeInv, NEW c \in Clients, Start(c) \/ Send(c) \/ React(c) \/ GiveUp(c)
    PROVE  /\ UNCHANGED <<live, issued, refused>>
           /\ \A d \in Clients \ {c} : /\ call'[d] = call[d] /\ rep'[d] = rep[d]
                                       /\ session'[d] = session[d] /\ header'[d] = header[d]
                                       /\ done'[d] = done[d]
<1> USE DEF server, TypeInv, TypeOK
<1>1. CASE Start(c)
  BY <1>1 DEF Start, Connect, ConnectAgain, Disconnect, DisconnectUnconnected, Request,
     Starting, Returned
<1>2. CASE Send(c) \/ GiveUp(c)
  BY <1>2 DEF Send, GiveUp, Returned
<1>3. CASE React(c)
  BY <1>3 DEF React, LoggedIn, LoginRefused, EtagRead, RenewSession, RetryStale, Succeed,
     Fail, StackOverflow, Receive, CacheSession, Returned
<1> QED
  BY <1>1, <1>2, <1>3

\* A call that starts has sent nothing; only connect() starts with a login.
LEMMA Starts ==
    ASSUME TypeInv, NEW c \in Clients, Start(c)
    PROVE  LET k == call'[c]
           IN  /\ UNCHANGED <<rep, session, header>> /\ rep[c].status = "none"
               /\ \/ k = call[c]
                  \/ /\ ~k.waiting /\ ~k.retried /\ ~k.readRetried /\ k.sent = 0
                     /\ k.op \in Ops
                     /\ \/ /\ k.at = "login" /\ k.op = "connect" /\ k.back = "main"
                           /\ k.depth = 1 /\ ~k.lastLogin /\ session[c] = 0
                        \/ k.at = IF k.op = "patch" THEN "etag" ELSE "main"
<1> USE DEF Starting
<1>0. /\ call \in [Clients -> CallRecord] /\ NoCall \in CallRecord
      /\ session[c] \in Nat /\ seen[c] \in Nat
  BY NoCallOK DEF TypeInv, TypeOK
<1>1. UNCHANGED <<rep, session, header>> /\ rep[c].status = "none"
  BY DEF Start, Connect, ConnectAgain, Disconnect, DisconnectUnconnected, Request,
     TypeInv, StackOK, Coherent
<1>2. CASE Connect(c)
  <2> DEFINE l == [NoCall EXCEPT !.op = "connect"]
  <2>1. /\ l \in CallRecord /\ l.op = "connect" /\ ~l.waiting /\ ~l.retried
        /\ ~l.readRetried /\ l.sent = 0
    BY DEF NoCall, CallRecord, Ops
  <2>2. call'[c] = Login(l, "main") /\ session[c] = 0
    BY <1>0, <1>2 DEF Connect
  <2> HIDE DEF l
  <2> QED
    BY <1>1, <2>1, <2>2, LoginFields DEF SameRetries, Ops
<1>3. CASE ConnectAgain(c) \/ DisconnectUnconnected(c)
  BY <1>1, <1>3 DEF ConnectAgain, DisconnectUnconnected
<1>4. ASSUME NEW i \in CallRecord, i.op \in Ops, ~i.waiting, ~i.retried, i.sent = 0,
             call' = [call EXCEPT ![c] = Attempt(i)]
      PROVE  LET k == call'[c]
             IN  /\ ~k.waiting /\ ~k.retried /\ ~k.readRetried /\ k.sent = 0 /\ k.op \in Ops
                 /\ k.at = IF k.op = "patch" THEN "etag" ELSE "main"
  BY <1>0, <1>4, AttemptFields
<1>5. CASE Disconnect(c)
  <2> DEFINE i == [NoCall EXCEPT !.op = "disconnect", !.arg = session[c]]
  <2>1. i \in CallRecord /\ i.op \in Ops /\ ~i.waiting /\ ~i.retried /\ i.sent = 0
    BY <1>0 DEF NoCall, CallRecord, Ops
  <2>2. call' = [call EXCEPT ![c] = Attempt(i)]
    BY <1>5 DEF Disconnect
  <2> HIDE DEF i
  <2> QED
    BY <1>1, <1>4, <2>1, <2>2
<1>6. ASSUME NEW o \in Requests, Request(c, o)
      PROVE  LET k == call'[c]
             IN  /\ ~k.waiting /\ ~k.retried /\ ~k.readRetried /\ k.sent = 0 /\ k.op \in Ops
                 /\ k.at = IF k.op = "patch" THEN "etag" ELSE "main"
  <2> DEFINE given == IF o = "set" THEN seen[c] ELSE 0
             i == [NoCall EXCEPT !.op = o, !.arg = given, !.tag = given]
  <2>0. given \in Nat
    BY <1>0
  <2>1. i \in CallRecord /\ i.op \in Ops /\ ~i.waiting /\ ~i.retried /\ i.sent = 0
    BY <1>0, <2>0 DEF NoCall, CallRecord, Ops
  <2>2. call' = [call EXCEPT ![c] = Attempt(i)]
    BY <1>6 DEF Request
  <2> HIDE DEF i
  <2> QED
    BY <1>4, <2>1, <2>2
<1> QED
  BY <1>1, <1>2, <1>3, <1>5, <1>6 DEF Start

\* What a client does with a response.
Reacted(c) ==
    LET k == call[c]
        j == call'[c]
        s == rep[c].status
    IN  \/ j.at = "idle" /\ j.sent = 0
        \/ /\ k.at = "login" /\ s = "ok" /\ k.depth = 1
           /\ j.op = k.op /\ j.retried = k.retried /\ j.sent = k.sent
           /\ k.back = "etag" => j.at = "etag" /\ j.readRetried = k.readRetried
           /\ k.back # "etag" => j.at = IF k.op = "patch" THEN "etag" ELSE "main"
           /\ k.back # "etag" => ~j.readRetried
        \/ /\ k.at = "login" /\ s = "ok" /\ k.depth # 1 /\ j.at = "login"
           /\ j.depth = k.depth - 1 /\ j.lastLogin /\ j.back = k.back /\ SameRetries(j, k)
        \/ /\ k.at = "login" /\ s = "401" /\ ~k.lastLogin /\ k.depth < StackLimit
           /\ j.at = "login" /\ j.depth = k.depth + 1 /\ ~j.lastLogin /\ j.back = k.back
           /\ SameRetries(j, k)
        \/ /\ k.at = "etag" /\ s = "ok" /\ j.at = "main" /\ SameRetries(j, k)
        \/ /\ k.at = "etag" /\ s = "401" /\ ~k.readRetried /\ j.readRetried
           /\ j.at = "login" /\ j.depth = 1 /\ ~j.lastLogin /\ j.back = "etag"
           /\ j.op = k.op /\ j.retried = k.retried /\ j.sent = k.sent
        \/ /\ k.at = "main" /\ s = "401" /\ ~k.retried /\ j.retried
           /\ j.at = "login" /\ j.depth = 1 /\ ~j.lastLogin /\ j.back = "main"
           /\ j.op = k.op /\ j.sent = k.sent
        \/ /\ k.at = "main" /\ s = "412" /\ ~k.retried /\ j.retried
           /\ ~j.readRetried /\ j.op = k.op /\ j.sent = k.sent
           /\ j.at = IF k.op = "patch" THEN "etag" ELSE "main"

LEMMA Reacts ==
    ASSUME TypeInv, NEW c \in Clients, React(c)
    PROVE  /\ Reacted(c) /\ call[c].waiting /\ ~call'[c].waiting /\ rep'[c].status = "none"
           /\ \/ UNCHANGED <<session, header>>
              \/ /\ call[c].at = "login" /\ rep[c].status = "ok"
                 /\ CacheSession(c, rep[c].value)
           /\ call[c].at = "login" /\ rep[c].status = "ok" => CacheSession(c, rep[c].value)
<1> DEFINE k == call[c]
<1>0. /\ call \in [Clients -> CallRecord] /\ rep \in [Clients -> ReplyRecord]
      /\ k \in CallRecord /\ Coherent(k)
  BY DEF TypeInv, TypeOK, StackOK
<1>a. ASSUME NEW s, NEW j, Receive(c, s, j)
      PROVE  /\ k.waiting /\ rep[c].status = s /\ rep'[c].status = "none"
             /\ call'[c] = [j EXCEPT !.waiting = FALSE] /\ k.at # "idle"
  BY <1>0, <1>a DEF Receive, NoReply, Coherent
<1>b. ASSUME NEW j \in CallRecord
      PROVE  LET i == [j EXCEPT !.waiting = FALSE]
             IN  /\ ~i.waiting /\ i.at = j.at /\ i.depth = j.depth /\ i.back = j.back
                 /\ i.lastLogin = j.lastLogin /\ SameRetries(i, j)
  BY DEF CallRecord, SameRetries
<1>e. ASSUME NEW s, NEW j \in CallRecord, Receive(c, s, j)
      PROVE  /\ k.waiting /\ ~call'[c].waiting /\ rep'[c].status = "none"
             /\ rep[c].status = s
             /\ call'[c].at = j.at /\ call'[c].depth = j.depth /\ call'[c].back = j.back
             /\ call'[c].lastLogin = j.lastLogin /\ SameRetries(call'[c], j)
  <2>1. /\ k.waiting /\ rep[c].status = s /\ rep'[c].status = "none"
        /\ call'[c] = [j EXCEPT !.waiting = FALSE]
    BY <1>a, <1>e
  <2> QED
    BY <2>1, <1>b
<1>c. NoCall \in CallRecord /\ NoCall.at = "idle" /\ NoCall.sent = 0
  BY NoCallOK DEF NoCall
<1>d. ASSUME NEW s, Receive(c, s, NoCall), UNCHANGED <<session, header>>,
             ~(k.at = "login" /\ s = "ok")
      PROVE  /\ Reacted(c) /\ call[c].waiting /\ ~call'[c].waiting /\ rep'[c].status = "none"
             /\ \/ UNCHANGED <<session, header>>
                \/ /\ call[c].at = "login" /\ rep[c].status = "ok"
                   /\ CacheSession(c, rep[c].value)
             /\ call[c].at = "login" /\ rep[c].status = "ok" => CacheSession(c, rep[c].value)
  <2>1. k.waiting /\ ~call'[c].waiting /\ rep'[c].status = "none" /\ rep[c].status = s
        /\ call'[c].at = "idle" /\ call'[c].sent = 0
    BY <1>c, <1>d, <1>e DEF SameRetries
  <2> QED
    BY <1>d, <2>1 DEF Reacted
<1>1. CASE LoggedIn(c)
  <2>1. k.at = "login" /\ CacheSession(c, rep[c].value)
    BY <1>1 DEF LoggedIn
  <2>2. CASE k.depth = 1
    <3>1. Receive(c, "ok", Resume(k))
      BY <1>1, <2>2 DEF LoggedIn
    <3>2. Resume(k) \in CallRecord
      BY <1>0, <2>1, ResumeOK DEF Coherent
    <3>3. k.waiting /\ ~call'[c].waiting /\ rep'[c].status = "none" /\ rep[c].status = "ok"
          /\ call'[c].at = Resume(k).at /\ SameRetries(call'[c], Resume(k))
      BY <1>e, <3>1, <3>2
    <3> QED
      BY <1>0, <2>1, <2>2, <3>3, ResumeFields DEF Reacted, SameRetries
  <2>3. CASE k.depth # 1
    <3> DEFINE j == [k EXCEPT !.depth = @ - 1, !.lastLogin = TRUE]
    <3>1. Receive(c, "ok", j)
      BY <1>1, <2>3 DEF LoggedIn
    <3>2. k.depth - 1 \in Nat \ {0} /\ Begun(k)
      BY <1>0, <2>1, <2>3 DEF CallRecord, Coherent
    <3>3. j \in CallRecord
      BY <1>0, <2>1, <3>2, DepthOK
    <3>4. /\ j.at = "login" /\ j.depth = k.depth - 1 /\ j.lastLogin /\ j.back = k.back
          /\ SameRetries(j, k)
      BY <1>0, <2>1 DEF CallRecord, SameRetries
    <3> HIDE DEF j
    <3>5. k.waiting /\ ~call'[c].waiting /\ rep'[c].status = "none" /\ rep[c].status = "ok"
          /\ call'[c].at = j.at /\ call'[c].depth = j.depth /\ call'[c].back = j.back
          /\ call'[c].lastLogin = j.lastLogin /\ SameRetries(call'[c], j)
      BY <1>e, <3>1, <3>3
    <3> QED
      BY <2>1, <2>3, <3>4, <3>5 DEF Reacted, SameRetries
  <2> QED
    BY <2>2, <2>3
<1>2. CASE LoginRefused(c)
  <2> DEFINE j == [k EXCEPT !.depth = @ + 1, !.lastLogin = FALSE]
  <2>1. /\ k.at = "login" /\ ~k.lastLogin /\ k.depth < StackLimit
        /\ Receive(c, "401", j) /\ UNCHANGED <<session, header>>
    BY <1>2 DEF LoginRefused, CanRetry
  <2>2. k.depth + 1 \in Nat \ {0} /\ Begun(k)
    BY <1>0, <2>1 DEF CallRecord, Coherent
  <2>3. j \in CallRecord
    BY <1>0, <2>1, <2>2, DepthOK
  <2>4. /\ j.at = "login" /\ j.depth = k.depth + 1 /\ ~j.lastLogin /\ j.back = k.back
        /\ SameRetries(j, k)
    BY <1>0, <2>1 DEF CallRecord, SameRetries
  <2> HIDE DEF j
  <2>5. k.waiting /\ ~call'[c].waiting /\ rep'[c].status = "none" /\ rep[c].status = "401"
        /\ call'[c].at = j.at /\ call'[c].depth = j.depth /\ call'[c].back = j.back
        /\ call'[c].lastLogin = j.lastLogin /\ SameRetries(call'[c], j)
    BY <1>e, <2>1, <2>3
  <2> QED
    BY <2>1, <2>4, <2>5 DEF Reacted, SameRetries
<1>3. CASE EtagRead(c)
  <2> DEFINE j == [k EXCEPT !.at = "main", !.tag = rep[c].value]
  <2>1. k.at = "etag" /\ Receive(c, "ok", j) /\ UNCHANGED <<session, header>>
    BY <1>3 DEF EtagRead
  <2>2. j \in CallRecord /\ j.at = "main" /\ SameRetries(j, k)
    BY <1>0, <2>1 DEF CallRecord, ReplyRecord, SameRetries
  <2> HIDE DEF j
  <2>3. k.waiting /\ ~call'[c].waiting /\ rep'[c].status = "none" /\ rep[c].status = "ok"
        /\ call'[c].at = j.at /\ SameRetries(call'[c], j)
    BY <1>e, <2>1, <2>2
  <2> QED
    BY <2>1, <2>2, <2>3 DEF Reacted, SameRetries
<1>4. CASE RenewSession(c)
  <2> DEFINE i == MarkRetried(k)
             j == Login(i, k.at)
  <2>1. /\ k.at \in {"etag", "main"} /\ CanRetry(k)
        /\ Receive(c, "401", j) /\ UNCHANGED <<session, header>>
    BY <1>4 DEF RenewSession
  <2>2. k.at = "etag" => ~k.readRetried
    BY <2>1 DEF CanRetry
  <2>3. k.at = "main" => ~k.retried
    BY <2>1 DEF CanRetry
  <2>4. /\ i \in CallRecord /\ i.op = k.op /\ i.sent = k.sent
        /\ IF k.at = "etag" THEN i.readRetried /\ i.retried = k.retried
                            ELSE i.retried /\ i.readRetried = k.readRetried
    BY <1>0, MarkRetriedFields
  <2> HIDE DEF i
  <2>5. /\ j.at = "login" /\ j.depth = 1 /\ ~j.lastLogin /\ j.back = k.at
        /\ SameRetries(j, i)
    BY <2>4, LoginFields
  <2>6. j \in CallRecord
    BY <2>1, <2>4 DEF Login, CallRecord
  <2> HIDE DEF j
  <2>7. k.waiting /\ ~call'[c].waiting /\ rep'[c].status = "none" /\ rep[c].status = "401"
        /\ call'[c].at = j.at /\ call'[c].depth = j.depth /\ call'[c].back = j.back
        /\ call'[c].lastLogin = j.lastLogin /\ SameRetries(call'[c], j)
    BY <1>e, <2>1, <2>6
  <2>8. CASE k.at = "etag"
    BY <2>1, <2>2, <2>4, <2>5, <2>7, <2>8 DEF Reacted, SameRetries
  <2>9. CASE k.at = "main"
    BY <2>1, <2>3, <2>4, <2>5, <2>7, <2>9 DEF Reacted, SameRetries
  <2> QED
    BY <2>1, <2>8, <2>9
<1>5. CASE RetryStale(c)
  <2> DEFINE i == MarkRetried(k)
             j == Attempt(i)
  <2>1. k.at = "main" /\ CanRetry(k) /\ Receive(c, "412", j) /\ UNCHANGED <<session, header>>
    BY <1>5 DEF RetryStale
  <2>2. ~k.retried
    BY <2>1 DEF CanRetry
  <2>3. i \in CallRecord /\ Begun(i) /\ i.op = k.op /\ i.sent = k.sent /\ i.retried
    BY <1>0, <2>1, MarkRetriedFields, MarkRetriedOK DEF Coherent
  <2> HIDE DEF i
  <2>4. /\ j \in CallRecord /\ j.at = IF i.op = "patch" THEN "etag" ELSE "main"
        /\ j.op = i.op /\ j.retried = i.retried /\ ~j.readRetried /\ j.sent = i.sent
    BY <2>3, AttemptFields, AttemptOK
  <2> HIDE DEF j
  <2>5. k.waiting /\ ~call'[c].waiting /\ rep'[c].status = "none" /\ rep[c].status = "412"
        /\ call'[c].at = j.at /\ SameRetries(call'[c], j)
    BY <1>e, <2>1, <2>4
  <2> QED
    BY <2>1, <2>2, <2>3, <2>4, <2>5 DEF Reacted, SameRetries
<1>6. CASE Succeed(c)
  BY <1>6, <1>d DEF Succeed
<1>7. CASE Fail(c)
  BY <1>7, <1>d DEF Fail
<1>8. CASE StackOverflow(c)
  BY <1>8, <1>d DEF StackOverflow
<1> QED
  BY <1>1, <1>2, <1>3, <1>4, <1>5, <1>6, <1>7, <1>8 DEF React

\* A request answered while its sender waits is the one it sent, and the only
\* response on its way is the answer.
LEMMA Answers ==
    ASSUME TypeInv, CallInv, NEW r \in net, NEW s, NEW v, Answer(r, s, v), NEW d \in Clients
    PROVE  \/ rep'[d] = rep[d]
           \/ /\ r = Message(d) /\ call[d].waiting /\ rep[d].status = "none"
              /\ rep'[d] = [status |-> s, value |-> v]
<1>1. \A n \in DOMAIN done[d] : n # CallNo(d)
  BY DEF TypeInv, TypeOK, CallNo
<1>2. CASE r.client = d /\ call[d].waiting /\ r.n = CallNo(d)
  BY <1>1, <1>2 DEF Answer, CallInv, NetOK, TypeInv, TypeOK
<1>3. CASE ~(r.client = d /\ call[d].waiting /\ r.n = CallNo(d))
  BY <1>3 DEF Answer, TypeInv, TypeOK
<1> QED
  BY <1>2, <1>3

LEMMA LoginKind ==
    ASSUME TypeInv, NEW c \in Clients, call[c].waiting
    PROVE  Message(c).kind = "login" <=> call[c].at = "login"
<1>1. call[c].at \in {"login", "etag", "main"} /\ call[c].op \in Ops
  BY DEF TypeInv, TypeOK, StackOK, Coherent, Begun, CallRecord
<1>2. Message(c).kind = Kind(call[c])
  BY DEF Message
<1> QED
  BY <1>1, <1>2 DEF Kind, Ops, Requests

----------------------------------------------------------------------------
(* Logins are smooth.                                                       *)

\* Only a refused login is nested or repeated.
LEMMA SmoothNext == TypeInv /\ CallInv /\ SmoothLogins /\ [Next]_vars => SmoothLogins'
<1> SUFFICES ASSUME TypeInv, CallInv, SmoothLogins, [Next]_vars
             PROVE  SmoothLogins'
  OBVIOUS
<1> USE DEF server, client
<1>1. /\ refused \subseteq refused'
      /\ refused' = refused \/ RefuseLogins
  BY DEF Next, Start, Connect, ConnectAgain, Disconnect, DisconnectUnconnected, Request,
     Starting, Send, React, LoggedIn, LoginRefused, EtagRead, RenewSession, RetryStale,
     Succeed, Fail, StackOverflow, Receive, GiveUp, Serve, ServeLogin, RefuseLogin,
     Unauthorized, ServeRead, ServeWrite, ServeUpdate, PreconditionFailed, ServeLogout,
     ServerError, Expire, ForeignWrite, vars
<1>2. ASSUME NEW d \in Clients \ refused', call'[d].at = "login"
      PROVE  call'[d].depth = 1 /\ ~call'[d].lastLogin /\ rep'[d].status # "401"
  <2>0. d \in Clients \ refused
    BY <1>1, <1>2
  <2>a. ASSUME call'[d] = call[d], rep'[d] = rep[d]
        PROVE  call'[d].depth = 1 /\ ~call'[d].lastLogin /\ rep'[d].status # "401"
    BY <1>2, <2>0, <2>a DEF SmoothLogins
  <2>1. ASSUME NEW c \in Clients \ {d}, Start(c) \/ Send(c) \/ React(c) \/ GiveUp(c)
        PROVE  call'[d].depth = 1 /\ ~call'[d].lastLogin /\ rep'[d].status # "401"
    BY <2>a, <2>1, OthersStay
  <2>2. CASE Start(d)
    BY <1>2, <2>a, <2>2, Starts
  <2>3. CASE Send(d)
    <3>1. /\ call'[d].at = call[d].at /\ call'[d].depth = call[d].depth
          /\ call'[d].lastLogin = call[d].lastLogin /\ rep' = rep
      BY <2>3 DEF Send, TypeInv, TypeOK, CallRecord
    <3> QED
      BY <1>2, <2>0, <3>1 DEF SmoothLogins
  <2>4. CASE React(d)
    BY <1>2, <2>0, <2>4, Reacts DEF Reacted, SmoothLogins
  <2>5. CASE GiveUp(d)
    BY <1>2, <2>5 DEF GiveUp, NoCall, TypeInv, TypeOK
  <2>6. ASSUME NEW r \in net, Serve(r)
        PROVE  call'[d].depth = 1 /\ ~call'[d].lastLogin /\ rep'[d].status # "401"
    <3>1. PICK s, v : Answer(r, s, v) /\ (s = "401" => r.kind # "login" \/ r.client # d)
      BY <1>2, <2>6 DEF Serve, ServeLogin, RefuseLogin, Unauthorized, ServeRead, ServeWrite,
         ServeUpdate, PreconditionFailed, ServeLogout, ServerError
    <3>2. call' = call
      BY <3>1 DEF Answer
    <3>3. CASE rep'[d] = rep[d]
      BY <2>a, <3>2, <3>3
    <3>4. CASE r = Message(d) /\ call[d].waiting /\ rep'[d] = [status |-> s, value |-> v]
      <4>1. r.client = d /\ r.kind = "login"
        BY <1>2, <3>2, <3>4, LoginKind DEF Message
      <4> QED
        BY <1>2, <2>0, <3>1, <3>2, <3>4, <4>1 DEF SmoothLogins
    <3> QED
      BY <3>1, <3>3, <3>4, Answers
  <2>7. ASSUME NEW s \in live, Expire(s)
        PROVE  call'[d].depth = 1 /\ ~call'[d].lastLogin /\ rep'[d].status # "401"
    BY <2>a, <2>7 DEF Expire
  <2>8. CASE ForeignWrite
    BY <2>a, <2>8 DEF ForeignWrite
  <2>9. CASE UNCHANGED vars
    BY <2>a, <2>9 DEF vars
  <2> QED
    BY <2>1, <2>2, <2>3, <2>4, <2>5, <2>6, <2>7, <2>8, <2>9 DEF Next
<1> QED
  BY <1>1, <1>2 DEF SmoothLogins

----------------------------------------------------------------------------
(* No stray session.                                                        *)

\* What disturbed a client is not forgotten: the calls it has made keep their
\* outcomes.
LEMMA StillDisturbed ==
    ASSUME TypeInv, NEW c \in Clients, Start(c) \/ Send(c) \/ React(c) \/ GiveUp(c),
           Undisturbed(c)'
    PROVE  Undisturbed(c)
<1>0. refused' = refused
  BY OthersStay
<1>1. ASSUME NEW o, NEW x, Returned(c, o, x)
      PROVE  \A n \in DOMAIN done[c] : n \in DOMAIN done'[c] /\ done'[c][n] = done[c][n]
  <2> DEFINE e == [op |-> o, outcome |-> x]
  <2>1. done[c] \in Seq([op : Ops, outcome : Outcomes]) /\ done'[c] = Append(done[c], e)
    BY <1>1 DEF Returned, TypeInv, TypeOK
  <2>2. /\ Len(done[c]) \in Nat /\ DOMAIN done[c] = 1 .. Len(done[c])
        /\ DOMAIN done'[c] = 1 .. Len(done[c]) + 1
        /\ \A n \in DOMAIN done[c] : done'[c][n] = done[c][n]
    BY <2>1
  <2> QED
    BY <2>2
<1>2. done' = done \/ \E o, x : Returned(c, o, x)
  <2>1. CASE Start(c) \/ Send(c) \/ GiveUp(c)
    BY <2>1 DEF Start, Connect, ConnectAgain, Disconnect, DisconnectUnconnected, Request,
       Send, GiveUp
  <2>2. CASE React(c)
    BY <2>2 DEF React, LoggedIn, LoginRefused, EtagRead, RenewSession, RetryStale, Succeed,
       Fail, StackOverflow
  <2> QED
    BY <2>1, <2>2
<1>3. \A n \in DOMAIN done[c] : n \in DOMAIN done'[c] /\ done'[c][n] = done[c][n]
  BY <1>1, <1>2
<1> QED
  BY <1>0, <1>3 DEF Undisturbed

\* A call that gives up disturbs its client.
LEMMA GivingUpDisturbs ==
    ASSUME TypeInv, NEW c \in Clients, GiveUp(c)
    PROVE  ~Undisturbed(c)'
<1> DEFINE e == [op |-> call[c].op, outcome |-> "ConnectionError"]
<1>1. done[c] \in Seq([op : Ops, outcome : Outcomes]) /\ done'[c] = Append(done[c], e)
  BY DEF GiveUp, Returned, TypeInv, TypeOK
<1>2. /\ Len(done[c]) \in Nat /\ Len(done[c]) + 1 \in DOMAIN done'[c]
      /\ done'[c][Len(done[c]) + 1] = e
  BY <1>1
<1>3. e.outcome = "ConnectionError"
  OBVIOUS
<1> HIDE DEF e
<1> QED
  BY <1>2, <1>3 DEF Undisturbed

\* A client's step leaves what the others have as it is.
LEMMA SessionOthers ==
    ASSUME TypeInv, SessionsOK, NEW c \in Clients,
           Start(c) \/ Send(c) \/ React(c) \/ GiveUp(c),
           /\ header'[c] = session'[c] /\ session'[c] <= Len(issued)
           /\ call'[c].at = "login" /\ rep'[c].status = "ok" => rep'[c].value \in DOMAIN issued,
           Undisturbed(c)' =>
             /\ call'[c].at = "login" \/ rep'[c].status = "401" => session'[c] \notin live
             /\ \A s \in live : issued[s] = c =>
                   \/ s = session'[c]
                   \/ call'[c].at = "login" /\ rep'[c].status = "ok" /\ rep'[c].value = s
    PROVE  SessionsOK'
<1>1. /\ UNCHANGED <<live, issued, refused>>
      /\ \A d \in Clients \ {c} : /\ call'[d] = call[d] /\ rep'[d] = rep[d]
                                  /\ session'[d] = session[d] /\ header'[d] = header[d]
                                  /\ done'[d] = done[d]
  BY OthersStay
<1>2. \A d \in Clients \ {c} : Undisturbed(d)' => Undisturbed(d)
  BY <1>1 DEF Undisturbed
<1> QED
  BY <1>1, <1>2 DEF SessionsOK

LEMMA SessionStart ==
    ASSUME TypeInv, SessionsOK, NEW c \in Clients, Start(c)
    PROVE  SessionsOK'
<1>1. /\ UNCHANGED <<rep, session, header>> /\ rep[c].status = "none"
      /\ call'[c].at = "login" /\ call[c].at # "login" => session[c] = 0
  BY Starts
<1>2. 0 \notin live
  <2>1. issued \in Seq(Clients)
    BY DEF TypeInv, TypeOK
  <2> QED
    BY <2>1 DEF SessionsOK
<1>3. Undisturbed(c)' => Undisturbed(c)
  BY StillDisturbed
<1> QED
  BY <1>1, <1>2, <1>3, SessionOthers DEF SessionsOK

LEMMA SessionSend ==
    ASSUME TypeInv, SessionsOK, NEW c \in Clients, Send(c)
    PROVE  SessionsOK'
<1>1. UNCHANGED <<rep, session, header>> /\ call'[c].at = call[c].at
  BY DEF Send, TypeInv, TypeOK, CallRecord
<1>2. Undisturbed(c)' => Undisturbed(c)
  BY StillDisturbed
<1> QED
  BY <1>1, <1>2, SessionOthers DEF SessionsOK

LEMMA SessionGiveUp ==
    ASSUME TypeInv, SessionsOK, NEW c \in Clients, GiveUp(c)
    PROVE  SessionsOK'
<1>1. UNCHANGED <<session, header>> /\ call'[c].at = "idle"
  BY DEF GiveUp, NoCall, TypeInv, TypeOK
<1>2. ~Undisturbed(c)'
  BY GivingUpDisturbs
<1> QED
  BY <1>1, <1>2, SessionOthers DEF SessionsOK

LEMMA SessionReact ==
    ASSUME TypeInv, SessionsOK, SmoothLogins, NEW c \in Clients, React(c)
    PROVE  SessionsOK'
<1>1. /\ Reacted(c) /\ rep'[c].status = "none"
      /\ \/ UNCHANGED <<session, header>>
         \/ /\ call[c].at = "login" /\ rep[c].status = "ok"
            /\ CacheSession(c, rep[c].value)
      /\ call[c].at = "login" /\ rep[c].status = "ok" => CacheSession(c, rep[c].value)
  BY Reacts
<1>2. Undisturbed(c)' => Undisturbed(c)
  BY StillDisturbed
<1>3. CASE call[c].at = "login" /\ rep[c].status = "ok"
  <2>1. session'[c] = rep[c].value /\ header'[c] = session'[c]
    BY <1>1, <1>3 DEF CacheSession, TypeInv, TypeOK
  <2>2. Undisturbed(c) => call'[c].at # "login"
    BY <1>1, <1>3 DEF Reacted, SmoothLogins, Undisturbed
  <2>3. session'[c] <= Len(issued)
    BY <1>3, <2>1 DEF SessionsOK, TypeInv, TypeOK
  <2>4. Undisturbed(c) => \A s \in live : issued[s] = c => s = session'[c]
    <3>1. ASSUME Undisturbed(c), NEW s \in live, issued[s] = c PROVE s = rep[c].value
      BY <1>3, <3>1 DEF SessionsOK
    <3> QED
      BY <2>1, <3>1
  <2> QED
    BY <1>1, <1>2, <2>1, <2>2, <2>3, <2>4, SessionOthers
<1>4. CASE ~(call[c].at = "login" /\ rep[c].status = "ok")
  <2>1. UNCHANGED <<session, header>>
    BY <1>1, <1>4
  <2>2. call'[c].at = "login" => rep[c].status = "401" \/ c \in refused
    BY <1>1, <1>4 DEF Reacted
  <2>3. Undisturbed(c) => c \notin refused
    BY DEF Undisturbed
  <2> QED
    BY <1>1, <1>2, <1>4, <2>1, <2>2, <2>3, SessionOthers DEF SessionsOK
<1> QED
  BY <1>3, <1>4

\* A session is new only to the client that waits for it, or disturbed.
LEMMA SessionIssued ==
    ASSUME TypeInv, CallInv, SessionsOK, NEW r \in net, ServeLogin(r)
    PROVE  SessionsOK'
<1> DEFINE c == r.client
           m == Len(issued)
<1>0. c \in Clients /\ issued \in Seq(Clients) /\ m \in Nat /\ live \in SUBSET Nat
  BY DEF TypeInv, TypeOK, RequestRecord
<1>1. /\ issued' = Append(issued, c) /\ live' = live \cup {m + 1} /\ Answer(r, "ok", m + 1)
      /\ r.kind = "login" /\ refused' = refused
  BY DEF ServeLogin
<1>2. UNCHANGED <<call, session, header, done>>
  BY <1>1 DEF Answer, client
<1>3. /\ DOMAIN issued = 1 .. m /\ DOMAIN issued' = 1 .. m + 1 /\ Len(issued') = m + 1
      /\ issued'[m + 1] = c /\ \A s \in DOMAIN issued : issued'[s] = issued[s]
  BY <1>0, <1>1
<1>4. Undisturbed(c) => r = Message(c) /\ call[c].waiting /\ rep[c].status = "none"
                        /\ r.n = CallNo(c)
  BY <1>0 DEF CallInv, NetOK, Undisturbed
<1>5. /\ \A d \in Clients \ {c} : rep'[d] = rep[d]
      /\ rep'[c] = rep[c] \/ rep'[c] = [status |-> "ok", value |-> m + 1]
      /\ Undisturbed(c) => rep'[c] = [status |-> "ok", value |-> m + 1]
  BY <1>0, <1>1, <1>4 DEF Answer, TypeInv, TypeOK
<1>7. Undisturbed(c) => call[c].at = "login"
  BY <1>0, <1>1, <1>4, LoginKind
<1>u. \A d \in Clients : Undisturbed(d)' <=> Undisturbed(d)
  BY <1>1, <1>2 DEF Undisturbed
<1> HIDE DEF c, m
<1>8. \A d \in Clients : session[d] # m + 1 /\ session[d] <= m + 1
  <2>1. \A d \in Clients : session[d] \in Nat /\ session[d] <= m
    BY DEF SessionsOK, TypeInv, TypeOK, m
  <2>2. \A a, b \in Nat : a <= b => a # b + 1 /\ a <= b + 1
    OBVIOUS
  <2> QED
    BY <1>0, <2>1, <2>2, Zenon
<1>i. /\ m + 1 \in DOMAIN issued' /\ \A i \in DOMAIN issued : i \in DOMAIN issued'
      /\ \A s \in live : s \in DOMAIN issued
  BY <1>0, <1>3 DEF SessionsOK
<1>a. ASSUME NEW d \in Clients
      PROVE  /\ header[d] = session[d] /\ session[d] <= Len(issued')
             /\ call[d].at = "login" /\ rep'[d].status = "ok" => rep'[d].value \in DOMAIN issued'
  <2>1. CASE rep'[d] = rep[d]
    BY <1>3, <1>8, <1>i, <2>1 DEF SessionsOK
  <2>2. CASE rep'[d] = [status |-> "ok", value |-> m + 1]
    BY <1>3, <1>8, <1>i, <2>2 DEF SessionsOK
  <2> QED
    BY <1>5, <2>1, <2>2
<1>9. ASSUME NEW d \in Clients, Undisturbed(d)
      PROVE  /\ call[d].at = "login" \/ rep'[d].status = "401" => session[d] \notin live'
             /\ \A s \in live' : issued'[s] = d =>
                   \/ s = session[d]
                   \/ call[d].at = "login" /\ rep'[d].status = "ok" /\ rep'[d].value = s
  <2>2. CASE d = c
    <3>1. /\ rep'[d].status = "ok" /\ rep'[d].value = m + 1 /\ call[d].at = "login"
          /\ rep[d].status = "none"
      BY <1>4, <1>5, <1>7, <1>9, <2>2
    <3> QED
      BY <1>1, <1>3, <1>8, <1>9, <1>i, <3>1 DEF SessionsOK
  <2>3. CASE d # c
    <3>1. rep'[d] = rep[d]
      BY <1>5, <2>3
    <3> QED
      BY <1>1, <1>3, <1>8, <1>9, <1>i, <2>3, <3>1 DEF SessionsOK
  <2> QED
    BY <2>2, <2>3
<1>10. \A s \in live' : s \in DOMAIN issued'
  BY <1>0, <1>1, <1>i
<1> QED
  BY <1>2, <1>a, <1>9, <1>10, <1>u DEF SessionsOK

\* No session is issued, and a 401 to another request than a login says that
\* the cached session is gone.
LEMMA SessionAnswer ==
    ASSUME TypeInv, CallInv, SessionsOK, NEW r \in net, NEW s, NEW v, Answer(r, s, v),
           issued' = issued, live' \subseteq live, refused \subseteq refused',
           s = "ok" => r.kind # "login",
           s = "401" => r.token \notin live \/ r.client \in refused'
    PROVE  SessionsOK'
<1>1. UNCHANGED <<call, session, header, done>>
  BY DEF Answer, client
<1>2. ASSUME NEW d \in Clients
      PROVE  /\ call[d].at = "login" /\ rep'[d].status = "ok" => rep'[d] = rep[d]
             /\ Undisturbed(d)' => /\ Undisturbed(d)
                                   /\ rep'[d].status = "401" => session[d] \notin live
                                   /\ rep[d].status = "ok" => rep'[d] = rep[d]
  <2>0. Undisturbed(d)' => Undisturbed(d) /\ d \notin refused'
    BY <1>1 DEF Undisturbed
  <2>1. CASE rep'[d] = rep[d]
    BY <2>0, <2>1 DEF SessionsOK
  <2>2. CASE /\ r = Message(d) /\ call[d].waiting /\ rep[d].status = "none"
             /\ rep'[d] = [status |-> s, value |-> v]
    <3>1. r.token = session[d] /\ r.client = d
      BY <2>2 DEF Message, SessionsOK
    <3>2. r.kind = "login" <=> call[d].at = "login"
      BY <2>2, LoginKind
    <3> QED
      BY <2>0, <2>2, <3>1, <3>2
  <2> QED
    BY <2>1, <2>2, Answers
<1> QED
  BY <1>1, <1>2 DEF SessionsOK

LEMMA SessionServe ==
    ASSUME TypeInv, CallInv, SessionsOK, NEW r \in net, Serve(r)
    PROVE  SessionsOK'
<1> USE DEF server
<1>1. CASE ServeLogin(r)
  BY <1>1, SessionIssued
<1>2. CASE RefuseLogin(r)
  <2>1. r.client \in refused' /\ refused \subseteq refused'
    BY <1>2 DEF RefuseLogin
  <2> QED
    BY <1>2, <2>1, SessionAnswer DEF RefuseLogin
<1>3. CASE Unauthorized(r)
  BY <1>3, SessionAnswer DEF Unauthorized, Accepted
<1>4. CASE ServeRead(r)
  BY <1>4, SessionAnswer DEF ServeRead
<1>5. CASE ServeWrite(r)
  BY <1>5, SessionAnswer DEF ServeWrite
<1>6. CASE ServeUpdate(r)
  BY <1>6, SessionAnswer DEF ServeUpdate
<1>7. CASE PreconditionFailed(r)
  BY <1>7, SessionAnswer DEF PreconditionFailed
<1>8. CASE ServeLogout(r)
  <2>1. live' \subseteq live
    BY <1>8 DEF ServeLogout
  <2> QED
    BY <1>8, <2>1, SessionAnswer DEF ServeLogout
<1>9. CASE ServerError(r)
  BY <1>9, SessionAnswer DEF ServerError
<1> QED
  BY <1>1, <1>2, <1>3, <1>4, <1>5, <1>6, <1>7, <1>8, <1>9 DEF Serve

LEMMA SessionNext ==
    TypeInv /\ CallInv /\ SmoothLogins /\ SessionsOK /\ [Next]_vars => SessionsOK'
<1> SUFFICES ASSUME TypeInv, CallInv, SmoothLogins, SessionsOK, [Next]_vars
             PROVE  SessionsOK'
  OBVIOUS
<1> USE DEF client, server
<1>1. ASSUME NEW c \in Clients, Start(c) \/ Send(c) \/ React(c) \/ GiveUp(c)
      PROVE  SessionsOK'
  BY <1>1, SessionStart, SessionSend, SessionReact, SessionGiveUp
<1>2. ASSUME NEW r \in net, Serve(r) PROVE SessionsOK'
  BY <1>2, SessionServe
<1>3. ASSUME NEW s \in live, Expire(s) PROVE SessionsOK'
  <2>1. UNCHANGED <<call, session, header, rep, done, issued, refused>> /\ live' \subseteq live
    BY <1>3 DEF Expire
  <2> QED
    BY <2>1 DEF SessionsOK, Undisturbed
<1>4. CASE ForeignWrite \/ UNCHANGED vars
  <2>1. UNCHANGED <<call, session, header, rep, done, issued, live, refused>>
    BY <1>4 DEF ForeignWrite, vars
  <2> QED
    BY <2>1 DEF SessionsOK, Undisturbed
<1> QED
  BY <1>1, <1>2, <1>3, <1>4 DEF Next

LEMMA LoginInit == Init => SmoothLogins /\ SessionsOK
  BY DEF Init, NoCall, NoReply, SmoothLogins, SessionsOK, Undisturbed

\* Unless a login of it was refused or an exchange lost, a client between two
\* calls has no live session but the one it has cached, however often its
\* sessions expire and are renewed in the middle of a call.
THEOREM SessionsAreTidy == Spec => []NoStraySession
<1> DEFINE I == TypeInv /\ CallInv /\ SmoothLogins /\ SessionsOK
<1>1. Init => I
  BY TypeInit, CallInit, LoginInit
<1>2. I /\ [Next]_vars => I'
  BY TypeNext, CallNext, SmoothNext, SessionNext
<1>3. I => NoStraySession
  BY DEF NoStraySession, SessionsOK
<1> QED
  BY <1>1, <1>2, <1>3, PTL DEF Spec

----------------------------------------------------------------------------
(* Bounded traffic.                                                         *)

LEMMA Costs ==
    /\ LoginCost \in Nat \ {0} /\ TrafficLimit = 6 + 3 * LoginCost
    /\ RefuseLogins => LoginCost = 2 * StackLimit - 1
    /\ ~RefuseLogins => LoginCost = 1
    /\ StackLimit \in Nat \ {0}
BY ConstantsAssumption DEF LoginCost, TrafficLimit

LEMMA LeftIs ==
    ASSUME NEW k
    PROVE  /\ k.at = "idle" => Left(k) = 0
           /\ k.at = "main" => Left(k) = MainLeft(k)
           /\ k.at = "etag" => Left(k) = ReadsLeft(k) + MainLeft(k)
           /\ k.at = "login" /\ k.back = "etag" => Left(k) = LoginsLeft(k) + MainLeft(k) + 1
           /\ k.at = "login" /\ k.back # "etag" /\ k.op = "patch"
                => Left(k) = LoginsLeft(k) + MainLeft(k) + (2 + LoginCost)
           /\ k.at = "login" /\ k.back # "etag" /\ k.op # "patch"
                => Left(k) = LoginsLeft(k) + MainLeft(k) + 0
BY DEF Left

LEMMA LeftIsNumber ==
    ASSUME NEW k, k.at \in {"idle", "main", "etag", "login"},
           k.at = "login" => k.depth \in 1 .. StackLimit
    PROVE  /\ Left(k) \in Nat /\ MainLeft(k) \in Nat \ {0} /\ ReadsLeft(k) \in Nat \ {0}
           /\ k.at # "idle" => Left(k) # 0
           /\ k.at = "login" => LoginsLeft(k) \in Nat \ {0}
<1>1. MainLeft(k) \in Nat \ {0} /\ ReadsLeft(k) \in Nat \ {0}
  BY Costs DEF MainLeft, ReadsLeft
<1>2. k.at = "login" => LoginsLeft(k) \in Nat \ {0}
  <2>1. k.at = "login" => k.depth \in Nat \ {0} /\ 2 * StackLimit - k.depth \in Nat \ {0}
    BY Costs
  <2> QED
    BY <2>1 DEF LoginsLeft
<1>3. \A a, b \in Nat \ {0} : a + b \in Nat \ {0} /\ a + b + 1 \in Nat \ {0}
                              /\ a + b + (2 + LoginCost) \in Nat \ {0}
                              /\ a + b + 0 \in Nat \ {0}
  BY Costs
<1>4. k.at = "login" => Left(k) \in Nat \ {0}
  <2>1. CASE k.back = "etag"
    BY <1>1, <1>2, <1>3, <2>1, LeftIs
  <2>2. CASE k.back # "etag" /\ k.op = "patch"
    BY <1>1, <1>2, <1>3, <2>2, LeftIs
  <2>3. CASE k.back # "etag" /\ k.op # "patch"
    BY <1>1, <1>2, <1>3, <2>3, LeftIs
  <2> QED
    BY <2>1, <2>2, <2>3
<1>5. k.at \in {"main", "etag"} => Left(k) \in Nat \ {0}
  BY <1>1, <1>3, LeftIs
<1>6. k.at = "idle" => Left(k) = 0
  BY LeftIs
<1> QED
  BY <1>1, <1>2, <1>4, <1>5, <1>6

LEMMA BudgetIdle ==
    ASSUME NEW k, k.at = "idle", k.sent = 0
    PROVE  BudgetOK(k)
<1>1. Left(k) = 0 /\ TrafficLimit \in Nat
  BY LeftIs, Costs
<1> QED
  BY <1>1 DEF BudgetOK

LEMMA TrafficStart ==
    ASSUME TypeInv, TrafficInv, NEW c \in Clients, Start(c)
    PROVE  BudgetOK(call'[c])
<1> DEFINE L == LoginCost
<1>1. PICK k : k = call'[c]
  OBVIOUS
<1>2. CASE k = call[c]
  BY <1>1, <1>2 DEF TrafficInv
<1>3. CASE /\ ~k.waiting /\ ~k.retried /\ ~k.readRetried /\ k.sent = 0
           /\ k.at = "login" /\ k.op = "connect" /\ k.back = "main"
           /\ k.depth = 1 /\ ~k.lastLogin
  <2>1. LoginsLeft(k) = L
    BY <1>3, Costs DEF LoginsLeft
  <2>2. MainLeft(k) = 4 + 2 * L
    BY <1>3 DEF MainLeft
  <2>3. Left(k) = L + (4 + 2 * L) + 0
    BY <1>3, <2>1, <2>2, LeftIs
  <2>4. 1 \in 1 .. StackLimit /\ 0 + (L + (4 + 2 * L) + 0) <= TrafficLimit + 0
    BY Costs
  <2> HIDE DEF L
  <2> QED
    BY <1>1, <1>3, <2>3, <2>4 DEF BudgetOK
<1>4. CASE /\ ~k.waiting /\ ~k.retried /\ ~k.readRetried /\ k.sent = 0
           /\ k.at \in {"etag", "main"}
  <2>1. ReadsLeft(k) = 2 + L /\ MainLeft(k) = 4 + 2 * L
    BY <1>4 DEF MainLeft, ReadsLeft
  <2>2. Left(k) \in {4 + 2 * L, (2 + L) + (4 + 2 * L)}
    BY <1>4, <2>1, LeftIs
  <2>3. /\ 0 + (4 + 2 * L) <= TrafficLimit + 0
        /\ 0 + ((2 + L) + (4 + 2 * L)) <= TrafficLimit + 0
    BY Costs
  <2> HIDE DEF L
  <2> QED
    BY <1>1, <1>4, <2>2, <2>3 DEF BudgetOK
<1> QED
  BY <1>1, <1>2, <1>3, <1>4, Starts

LEMMA TrafficSend ==
    ASSUME TypeInv, TrafficInv, NEW c \in Clients, Send(c)
    PROVE  BudgetOK(call'[c])
<1>1. PICK k \in CallRecord : k = call[c]
  BY DEF TypeInv, TypeOK
<1>2. PICK j : j = call'[c]
  OBVIOUS
<1>3. BudgetOK(k) /\ ~k.waiting /\ k.at # "idle"
  BY <1>1 DEF Send, TrafficInv
<1>4. Left(k) \in Nat /\ Left(k) # 0 /\ k.sent \in Nat /\ TrafficLimit \in Nat
  BY <1>3, LeftIsNumber, Costs DEF CallRecord, BudgetOK
<1>5. k.sent + Left(k) <= TrafficLimit
  BY <1>3, <1>4 DEF BudgetOK
<1>6. k.sent <= TrafficLimit
  BY <1>4, <1>5
<1>7. /\ j.sent = IF k.sent > TrafficLimit THEN k.sent ELSE k.sent + 1
      /\ j.waiting /\ j.at = k.at /\ j.op = k.op /\ j.back = k.back /\ j.depth = k.depth
      /\ j.lastLogin = k.lastLogin /\ j.retried = k.retried /\ j.readRetried = k.readRetried
  BY <1>1, <1>2 DEF Send, TypeInv, TypeOK, CallRecord
<1>8. Left(j) = Left(k)
  <2>1. LoginsLeft(j) = LoginsLeft(k) /\ MainLeft(j) = MainLeft(k) /\ ReadsLeft(j) = ReadsLeft(k)
    BY <1>7 DEF LoginsLeft, MainLeft, ReadsLeft
  <2> QED
    BY <1>7, <2>1, Zenon DEF Left
<1>9. j.sent = k.sent + 1
  BY <1>4, <1>6, <1>7
<1>10. j.sent + Left(j) <= TrafficLimit + 1
  BY <1>4, <1>5, <1>8, <1>9
<1>11. BudgetOK(j)
  BY <1>3, <1>7, <1>10 DEF BudgetOK
<1> QED
  BY <1>2, <1>11

\* Each response leaves a call with at most what it had left before it sent
\* the request.
LEMMA TrafficReact ==
    ASSUME TypeInv, SmoothLogins, TrafficInv, NEW c \in Clients, React(c)
    PROVE  BudgetOK(call'[c])
<1> DEFINE L == LoginCost
<1>1. PICK k \in CallRecord : k = call[c]
  BY DEF TypeInv, TypeOK
<1>2. PICK j : j = call'[c]
  OBVIOUS
<1> SUFFICES BudgetOK(j)
  BY <1>2
<1>3. PICK s : s = rep[c].status
  OBVIOUS
<1>4. BudgetOK(k) /\ k.waiting /\ ~j.waiting /\ k.at \in {"login", "etag", "main"}
  BY <1>1, <1>2, Reacts DEF TrafficInv, TypeInv, StackOK, Coherent, CallRecord
<1>5. /\ Left(k) \in Nat \ {0} /\ k.sent \in Nat /\ k.depth \in Nat
      /\ MainLeft(k) \in Nat \ {0} /\ ReadsLeft(k) \in Nat \ {0}
      /\ k.at = "login" => LoginsLeft(k) \in Nat \ {0}
      /\ L \in Nat \ {0} /\ TrafficLimit \in Nat /\ StackLimit \in Nat
  BY <1>4, LeftIsNumber, Costs DEF CallRecord, BudgetOK
<1>6. k.sent + Left(k) <= TrafficLimit + 1
  BY <1>4 DEF BudgetOK
<1>a. ASSUME Left(j) \in Nat, Left(j) + 1 <= Left(k), j.sent = k.sent,
             j.at = "login" => /\ j.depth \in 1 .. StackLimit
                               /\ IF j.back = "etag" THEN j.readRetried
                                                     ELSE j.retried \/ j.op = "connect"
      PROVE  BudgetOK(j)
  <2>1. \A x, y, z, t \in Nat : x + y <= t + 1 /\ z + 1 <= y => x + z <= t + 0
    OBVIOUS
  <2>2. j.sent + Left(j) <= TrafficLimit + 0
    BY <1>a, <1>5, <1>6, <2>1
  <2> QED
    BY <1>a, <1>4, <2>2 DEF BudgetOK
<1> HIDE DEF L
<1>b. ~RefuseLogins /\ k.at = "login" => k.depth = 1 /\ ~k.lastLogin /\ s # "401"
  BY <1>1, <1>3 DEF SmoothLogins
<1>c. \A a, b, d \in Nat : a # 0 => /\ b + 1 <= a + b + 0
                                    /\ (1 + b) + 1 <= a + b + 1
                                    /\ (d + b) + 1 <= a + b + d
  OBVIOUS
<1>7. CASE j.at = "idle" /\ j.sent = 0
  BY <1>7, BudgetIdle
<1>8. CASE /\ k.at = "login" /\ s = "ok" /\ k.depth = 1
           /\ j.op = k.op /\ j.retried = k.retried /\ j.sent = k.sent
           /\ k.back = "etag" => j.at = "etag" /\ j.readRetried = k.readRetried
           /\ k.back # "etag" => j.at = IF k.op = "patch" THEN "etag" ELSE "main"
           /\ k.back # "etag" => ~j.readRetried
  <2>1. MainLeft(j) = MainLeft(k)
    BY <1>8 DEF MainLeft
  <2>2. CASE k.back = "etag"
    <3>1. ReadsLeft(j) = 1
      BY <1>4, <1>8, <2>2 DEF ReadsLeft, BudgetOK
    <3>2. Left(j) = 1 + MainLeft(k) /\ Left(k) = LoginsLeft(k) + MainLeft(k) + 1
      BY <1>8, <2>1, <2>2, <3>1, LeftIs
    <3> QED
      BY <1>5, <1>8, <1>a, <1>c, <2>2, <3>2
  <2>3. CASE k.back # "etag" /\ k.op = "patch"
    <3>1. ReadsLeft(j) = 2 + L
      BY <1>8, <2>3 DEF ReadsLeft, L
    <3>2. /\ Left(j) = (2 + L) + MainLeft(k)
          /\ Left(k) = LoginsLeft(k) + MainLeft(k) + (2 + L)
      BY <1>8, <2>1, <2>3, <3>1, LeftIs DEF L
    <3>3. 2 + L \in Nat /\ (2 + L) + MainLeft(k) \in Nat
      BY <1>5
    <3>4. ((2 + L) + MainLeft(k)) + 1 <= LoginsLeft(k) + MainLeft(k) + (2 + L)
      BY <1>5, <1>8, <1>c, <3>3
    <3> QED
      BY <1>8, <1>a, <2>3, <3>2, <3>3, <3>4
  <2>4. CASE k.back # "etag" /\ k.op # "patch"
    <3>1. Left(j) = MainLeft(k) /\ Left(k) = LoginsLeft(k) + MainLeft(k) + 0
      BY <1>8, <2>1, <2>4, LeftIs
    <3> QED
      BY <1>5, <1>8, <1>a, <1>c, <2>4, <3>1
  <2> QED
    BY <2>2, <2>3, <2>4
<1>d. ASSUME k.at = "login", j.at = "login", j.back = k.back, SameRetries(j, k),
             LoginsLeft(j) \in Nat, LoginsLeft(j) + 1 <= LoginsLeft(k),
             j.depth \in 1 .. StackLimit
      PROVE  BudgetOK(j)
  <2>1. MainLeft(j) = MainLeft(k)
    BY <1>d DEF MainLeft, SameRetries
  <2>2. PICK n \in Nat : /\ Left(j) = LoginsLeft(j) + MainLeft(k) + n
                         /\ Left(k) = LoginsLeft(k) + MainLeft(k) + n
    <3>1. CASE k.back = "etag"
      BY <1>d, <2>1, <3>1, LeftIs
    <3>2. CASE k.back # "etag" /\ k.op = "patch"
      <4>1. 2 + L \in Nat
        BY <1>5
      <4> QED
        BY <1>d, <2>1, <3>2, <4>1, LeftIs DEF SameRetries, L
    <3>3. CASE k.back # "etag" /\ k.op # "patch"
      BY <1>d, <2>1, <3>3, LeftIs DEF SameRetries
    <3> QED
      BY <3>1, <3>2, <3>3
  <2>3. \A a, b, d, e \in Nat : a + 1 <= b => (a + d + e) + 1 <= b + d + e /\ a + d + e \in Nat
    OBVIOUS
  <2>4. /\ LoginsLeft(j) + MainLeft(k) + n \in Nat
        /\ (LoginsLeft(j) + MainLeft(k) + n) + 1 <= LoginsLeft(k) + MainLeft(k) + n
    BY <1>5, <1>d, <2>2, <2>3
  <2>5. IF j.back = "etag" THEN j.readRetried ELSE j.retried \/ j.op = "connect"
    BY <1>4, <1>d DEF BudgetOK, SameRetries
  <2> QED
    BY <1>a, <1>d, <2>2, <2>4, <2>5 DEF SameRetries
<1>9. CASE /\ k.at = "login" /\ s = "ok" /\ k.depth # 1 /\ j.at = "login"
           /\ j.depth = k.depth - 1 /\ j.lastLogin /\ j.back = k.back /\ SameRetries(j, k)
  <2>1. RefuseLogins /\ k.depth \in 1 .. StackLimit
    BY <1>4, <1>9, <1>b DEF BudgetOK
  <2>2. LoginsLeft(j) = k.depth - 1
    BY <1>9, <2>1 DEF LoginsLeft
  <2>3. LoginsLeft(k) \in {k.depth, 2 * StackLimit - k.depth}
    BY <2>1 DEF LoginsLeft
  <2>4. /\ k.depth - 1 \in Nat /\ k.depth - 1 \in 1 .. StackLimit
        /\ (k.depth - 1) + 1 <= k.depth /\ (k.depth - 1) + 1 <= 2 * StackLimit - k.depth
    BY <1>5, <1>9, <2>1
  <2> QED
    BY <1>9, <1>d, <2>2, <2>3, <2>4
<1>10. CASE /\ k.at = "login" /\ s = "401" /\ ~k.lastLogin /\ k.depth < StackLimit
            /\ j.at = "login" /\ j.depth = k.depth + 1 /\ ~j.lastLogin /\ j.back = k.back
            /\ SameRetries(j, k)
  <2>1. RefuseLogins /\ k.depth \in 1 .. StackLimit
    BY <1>4, <1>10, <1>b DEF BudgetOK
  <2>2. /\ LoginsLeft(j) = 2 * StackLimit - (k.depth + 1)
        /\ LoginsLeft(k) = 2 * StackLimit - k.depth
    BY <1>10, <2>1 DEF LoginsLeft
  <2>3. /\ 2 * StackLimit - (k.depth + 1) \in Nat /\ k.depth + 1 \in 1 .. StackLimit
        /\ (2 * StackLimit - (k.depth + 1)) + 1 <= 2 * StackLimit - k.depth
    BY <1>5, <1>10, <2>1
  <2> QED
    BY <1>10, <1>d, <2>2, <2>3
<1>11. CASE k.at = "etag" /\ s = "ok" /\ j.at = "main" /\ SameRetries(j, k)
  <2>1. Left(j) = MainLeft(k) /\ Left(k) = ReadsLeft(k) + MainLeft(k)
    BY <1>11, LeftIs DEF MainLeft, SameRetries
  <2>2. MainLeft(k) + 1 <= ReadsLeft(k) + MainLeft(k)
    BY <1>5
  <2> QED
    BY <1>5, <1>11, <1>a, <2>1, <2>2 DEF SameRetries
<1>12. CASE /\ k.at = "etag" /\ s = "401" /\ ~k.readRetried /\ j.readRetried
            /\ j.at = "login" /\ j.depth = 1 /\ ~j.lastLogin /\ j.back = "etag"
            /\ j.op = k.op /\ j.retried = k.retried /\ j.sent = k.sent
  <2>1. LoginsLeft(j) = L /\ MainLeft(j) = MainLeft(k) /\ ReadsLeft(k) = 2 + L
    BY <1>12, Costs DEF LoginsLeft, MainLeft, ReadsLeft, L
  <2>2. Left(j) = L + MainLeft(k) + 1 /\ Left(k) = (2 + L) + MainLeft(k)
    BY <1>12, <2>1, LeftIs
  <2>3. /\ L + MainLeft(k) + 1 \in Nat /\ 1 \in 1 .. StackLimit
        /\ (L + MainLeft(k) + 1) + 1 <= (2 + L) + MainLeft(k)
    BY <1>5, Costs
  <2> QED
    BY <1>12, <1>a, <2>2, <2>3
<1>13. CASE /\ k.at = "main" /\ s = "401" /\ ~k.retried /\ j.retried
            /\ j.at = "login" /\ j.depth = 1 /\ ~j.lastLogin /\ j.back = "main"
            /\ j.op = k.op /\ j.sent = k.sent
  <2>1. LoginsLeft(j) = L /\ MainLeft(j) = 1 /\ MainLeft(k) = 4 + 2 * L
    BY <1>13, Costs DEF LoginsLeft, MainLeft, L
  <2>2. Left(j) \in {L + 1 + (2 + L), L + 1 + 0} /\ Left(k) = 4 + 2 * L
    BY <1>13, <2>1, LeftIs DEF L
  <2>3. /\ L + 1 + (2 + L) \in Nat /\ L + 1 + 0 \in Nat /\ 1 \in 1 .. StackLimit
        /\ (L + 1 + (2 + L)) + 1 <= 4 + 2 * L /\ (L + 1 + 0) + 1 <= 4 + 2 * L
    BY <1>5, Costs
  <2> QED
    BY <1>13, <1>a, <2>2, <2>3
<1>14. CASE /\ k.at = "main" /\ s = "412" /\ ~k.retried /\ j.retried
            /\ ~j.readRetried /\ j.op = k.op /\ j.sent = k.sent
            /\ j.at = IF k.op = "patch" THEN "etag" ELSE "main"
  <2>1. ReadsLeft(j) = 2 + L /\ MainLeft(j) = 1 /\ MainLeft(k) = 4 + 2 * L
    BY <1>14 DEF MainLeft, ReadsLeft, L
  <2>2. Left(j) \in {(2 + L) + 1, 1} /\ Left(k) = 4 + 2 * L
    BY <1>14, <2>1, LeftIs
  <2>3. (2 + L) + 1 \in Nat /\ ((2 + L) + 1) + 1 <= 4 + 2 * L /\ 1 + 1 <= 4 + 2 * L
    BY <1>5
  <2> QED
    BY <1>14, <1>a, <2>2, <2>3
<1> QED
  BY <1>1, <1>2, <1>3, <1>7, <1>8, <1>9, <1>10, <1>11, <1>12, <1>13, <1>14, Reacts
     DEF Reacted

LEMMA TrafficNext == TypeInv /\ SmoothLogins /\ TrafficInv /\ [Next]_vars => TrafficInv'
<1> SUFFICES ASSUME TypeInv, SmoothLogins, TrafficInv, [Next]_vars,
                    NEW d \in Clients
             PROVE  BudgetOK(call[d])'
  BY DEF TrafficInv
<1> USE DEF client
<1>0. BudgetOK(call[d])' <=> BudgetOK(call'[d])
  BY DEF BudgetOK, Left, LoginsLeft, MainLeft, ReadsLeft
<1>1. ASSUME NEW c \in Clients \ {d}, Start(c) \/ Send(c) \/ React(c) \/ GiveUp(c)
      PROVE  BudgetOK(call'[d])
  BY <1>1, OthersStay DEF TrafficInv
<1>2. CASE GiveUp(d)
  <2>1. call'[d] = NoCall
    BY <1>2 DEF GiveUp, TypeInv, TypeOK
  <2> QED
    BY <2>1, BudgetIdle DEF NoCall
<1>3. CASE UNCHANGED call
  BY <1>3 DEF TrafficInv
<1>4. ASSUME NEW r \in net, Serve(r) PROVE UNCHANGED call
  BY <1>4 DEF Serve, ServeLogin, RefuseLogin, Unauthorized, ServeRead, ServeWrite,
     ServeUpdate, PreconditionFailed, ServeLogout, ServerError, Answer
<1>5. (\E s \in live : Expire(s)) \/ ForeignWrite \/ UNCHANGED vars => UNCHANGED call
  BY DEF Expire, ForeignWrite, vars
<1> QED
  BY <1>0, <1>1, <1>2, <1>3, <1>4, <1>5, TrafficStart, TrafficSend, TrafficReact DEF Next

\* One API call sends at most 6 requests and three times what a renewal of the
\* session costs, whatever the server answers: two attempts, each with two
\* reads of the ETag, and one renewal for each of the three retries.
THEOREM TrafficIsBounded == Spec => []TrafficBounded
<1> DEFINE I == TypeInv /\ CallInv /\ SmoothLogins /\ TrafficInv
<1>1. Init => I
  <2>1. BudgetOK(NoCall)
    BY BudgetIdle DEF NoCall
  <2>2. Init => TrafficInv
    BY <2>1 DEF Init, TrafficInv
  <2> QED
    BY <2>2, TypeInit, CallInit, LoginInit
<1>2. I /\ [Next]_vars => I'
  BY TypeNext, CallNext, SmoothNext, TrafficNext
<1>3. I => TrafficBounded
  <2> SUFFICES ASSUME I, NEW c \in Clients PROVE call[c].sent <= TrafficLimit
    BY DEF TrafficBounded
  <2>1. PICK k \in CallRecord : k = call[c]
    BY DEF TypeInv, TypeOK
  <2>2. BudgetOK(k) /\ (k.at = "idle" => ~k.waiting)
    BY <2>1 DEF TrafficInv, TypeInv, StackOK, Coherent
  <2>3. k.sent \in Nat /\ Left(k) \in Nat /\ (k.at # "idle" => Left(k) # 0)
        /\ TrafficLimit \in Nat
    BY <2>2, LeftIsNumber, Costs DEF CallRecord, BudgetOK
  <2>4. CASE k.waiting
    <3>1. k.sent + Left(k) <= TrafficLimit + 1
      BY <2>2, <2>4 DEF BudgetOK
    <3> QED
      BY <2>1, <2>2, <2>3, <2>4, <3>1
  <2>5. CASE ~k.waiting
    <3>1. k.sent + Left(k) <= TrafficLimit + 0
      BY <2>2, <2>5 DEF BudgetOK
    <3> QED
      BY <2>1, <2>3, <3>1
  <2> QED
    BY <2>4, <2>5
<1> QED
  BY <1>1, <1>2, <1>3, PTL DEF Spec

=============================================================================
