-------------------------- MODULE EventLoopProofs --------------------------
(***************************************************************************)
(* Proofs about EventLoop, for any number of descriptors, any size of the  *)
(* batch and of the inboxes: events name only clients that exist, and a    *)
(* client is unwatched only by its removal.                                *)
(***************************************************************************)
EXTENDS EventLoop, TLAPS

\* A client has its socket: nothing closes a descriptor.
SocketInv == Live \subseteq Open

\* The batch holds a descriptor once and every removal unwatches it in the
\* same step, so NoGhosts needs no more than that.
IInv == TypeOK /\ NoGhosts /\ SocketInv

\* What a step may not do to the epoll set.
StaysWatched ==
    \A f \in Fd : f \in interest /\ client'[f] # None => f \in interest'

\* Nobody is watched at first but the listening socket.
LEMMA InitIInv == Init => IInv
  <1> SUFFICES ASSUME Init PROVE IInv
    OBVIOUS
  <1>1. TypeOK
    BY BoundsAssumption DEF Init, TypeOK
  <1>2. NoGhosts
    BY DEF Init, NoGhosts
  <1>3. SocketInv
    BY DEF Init, SocketInv, Live
  <1> QED
    BY <1>1, <1>2, <1>3 DEF IInv

\* An event of client f ends in one of three ways: the client is kept, closed
\* because its Fd is marked, or removed by handleClient.
LEMMA Outcome ==
  ASSUME IInv, NEW f \in Fd, f \in Live, Take(f), UNCHANGED backlog,
         NEW c \in Client, NEW s \in Socket,
         Keep(f, c, s) \/ CloseMarked(f, s) \/ RemoveInHandler(f, s)
  PROVE  IInv' /\ StaysWatched
  <1>1. /\ client \in [Fd -> Client \union {None}]
        /\ sock \in [Fd -> Socket \union {None}]
        /\ interest \subseteq Fd \union {Listen}
        /\ events \subseteq Fd \union {Listen}
        /\ backlog \in 0..MaxBacklog
    BY DEF IInv, TypeOK
  <1>2. (interest \union events) \ {Listen} \subseteq Live
    BY DEF IInv, NoGhosts
  <1>3. events' = events \ {f} /\ f \in events
    BY DEF Take
  <1>4. sock' = [sock EXCEPT ![f] = s] /\ sock' \in [Fd -> Socket \union {None}]
    BY <1>1 DEF Keep, CloseMarked, RemoveInHandler
  <1>5. Live' \subseteq Live /\ Open \subseteq Open'
    <2>1. Open \subseteq Open'
      BY <1>1, <1>4, NoneAssumption DEF Open
    <2>2. Live' \subseteq Live
      BY <1>1 DEF Live, Keep, CloseMarked, RemoveInHandler
    <2> QED
      BY <2>1, <2>2
  <1>6. SocketInv'
    BY <1>5 DEF IInv, SocketInv
  <1>7. CASE Keep(f, c, s)
    <2>1. client' = [client EXCEPT ![f] = c] /\ interest' = interest
      BY <1>7 DEF Keep
    <2>2. client' \in [Fd -> Client \union {None}] /\ Live \subseteq Live'
      BY <1>1, <2>1, NoneAssumption DEF Live
    <2>3. TypeOK'
      BY <1>1, <1>3, <1>4, <2>1, <2>2 DEF TypeOK
    <2>4. NoGhosts'
      BY <1>2, <1>3, <2>1, <2>2 DEF NoGhosts
    <2> QED
      BY <1>6, <2>1, <2>3, <2>4 DEF IInv, StaysWatched
  <1>8. CASE CloseMarked(f, s) \/ RemoveInHandler(f, s)
    <2>1. client' = [client EXCEPT ![f] = None] /\ interest' = interest \ {f}
      BY <1>8 DEF CloseMarked, RemoveInHandler
    <2>2. /\ client' \in [Fd -> Client \union {None}]
          /\ Live \ {f} \subseteq Live'
          /\ client'[f] = None
      BY <1>1, <2>1 DEF Live
    <2>3. TypeOK'
      BY <1>1, <1>3, <1>4, <2>1, <2>2 DEF TypeOK
    <2>4. NoGhosts'
      BY <1>2, <1>3, <2>1, <2>2 DEF NoGhosts
    <2> QED
      BY <1>6, <2>1, <2>2, <2>3, <2>4 DEF IInv, StaysWatched
  <1> QED
    BY <1>7, <1>8

\* A socket from which a record was taken.
LEMMA OneRecordLess ==
  ASSUME NEW s \in Socket, s.inbox > 0
  PROVE  [s EXCEPT !.inbox = @ - 1] \in Socket
  BY BoundsAssumption DEF Socket

\* Whatever a read returns, the client's event ends in one of those ways.
LEMMA ReadOutcome ==
  ASSUME IInv, NEW f \in Fd, f \in Live, Take(f), UNCHANGED backlog,
         NEW c \in Client, NEW s \in Socket, doRequest(f, c, s)
  PROVE  IInv' /\ StaysWatched
  <1>1. CASE ReadNothing(f, c, s)
    BY <1>1, Outcome DEF ReadNothing
  <1>2. CASE ReadEnd(f, c, s)
    BY <1>2, Outcome DEF ReadEnd
  <1>3. CASE ReadFrames(f, c, s)
    <2>1. PICK rest \in 0..(MaxChunks - 1), full \in {s.full, TRUE} :
             LET c2 == [c EXCEPT !.tls = rest]
                 s2 == [s EXCEPT !.full = full]
                 s3 == [s2 EXCEPT !.inbox = @ - 1]
             IN  \/ /\ c.tls > 0
                    /\ rest = c.tls - 1
                    /\ Keep(f, c2, s2) \/ CloseMarked(f, s2) \/ RemoveInHandler(f, s2)
                 \/ /\ c.tls = 0 /\ s.inbox > 0
                    /\ Keep(f, c2, s3) \/ CloseMarked(f, s3) \/ RemoveInHandler(f, s3)
      BY <1>3 DEF ReadFrames
    <2> DEFINE c2 == [c EXCEPT !.tls = rest]
               s2 == [s EXCEPT !.full = full]
               s3 == [s2 EXCEPT !.inbox = @ - 1]
    <2>2. c2 \in Client
      BY DEF Client
    <2>3. s2 \in Socket
      BY DEF Socket
    <2>4. s.inbox > 0 => s3 \in Socket
      <3>1. s2.inbox = s.inbox
        BY DEF Socket
      <3> HIDE DEF s2
      <3> QED
        BY <2>3, <3>1, OneRecordLess
    <2>5. CASE Keep(f, c2, s2) \/ CloseMarked(f, s2) \/ RemoveInHandler(f, s2)
      <3> HIDE DEF c2, s2
      <3> QED
        BY <2>2, <2>3, <2>5, Outcome
    <2>6. CASE /\ s.inbox > 0
               /\ Keep(f, c2, s3) \/ CloseMarked(f, s3) \/ RemoveInHandler(f, s3)
      <3>1. s3 \in Socket
        BY <2>4, <2>6
      <3> HIDE DEF c2, s3
      <3> QED
        BY <2>2, <3>1, <2>6, Outcome
    <2> QED
      BY <2>1, <2>5, <2>6
  <1> QED
    BY <1>1, <1>2, <1>3 DEF doRequest

\* The client and the socket of a live descriptor are there.
LEMMA LiveClient ==
  ASSUME IInv, NEW f \in Fd, f \in Live
  PROVE  client[f] \in Client /\ sock[f] \in Socket
  BY DEF IInv, TypeOK, SocketInv, Live, Open

\* Every event of a client.
LEMMA HandleClient ==
  ASSUME IInv, NEW f \in Fd, handleClient(f)
  PROVE  IInv' /\ StaysWatched
  <1>1. f \in Live /\ Take(f) /\ UNCHANGED backlog
    BY DEF handleClient, TimedOut, HandshakeWants, HandshakeFails,
           HandshakeDone, Request, Handles
  <1>2. client[f] \in Client /\ sock[f] \in Socket
    BY <1>1, LiveClient
  <1>3. CASE TimedOut(f)
    BY <1>1, <1>2, <1>3, Outcome DEF TimedOut
  <1>4. CASE HandshakeWants(f)
    <2>1. CASE Keep(f, client[f], sock[f])
      BY <1>1, <1>2, <2>1, Outcome
    <2>2. CASE /\ sock[f].inbox > 0
               /\ Keep(f, client[f], [sock[f] EXCEPT !.inbox = @ - 1])
      <3>1. [sock[f] EXCEPT !.inbox = @ - 1] \in Socket
        BY <1>2, <2>2, OneRecordLess
      <3> QED
        BY <1>1, <1>2, <2>2, <3>1, Outcome
    <2> QED
      BY <1>4, <2>1, <2>2 DEF HandshakeWants
  <1>5. CASE HandshakeFails(f)
    <2>1. CASE RemoveInHandler(f, sock[f])
      BY <1>1, <1>2, <2>1, Outcome
    <2>2. CASE /\ sock[f].inbox > 0
               /\ RemoveInHandler(f, [sock[f] EXCEPT !.inbox = @ - 1])
      <3>1. [sock[f] EXCEPT !.inbox = @ - 1] \in Socket
        BY <1>2, <2>2, OneRecordLess
      <3> QED
        BY <1>1, <1>2, <2>2, <3>1, Outcome
    <2> QED
      BY <1>5, <2>1, <2>2 DEF HandshakeFails
  <1>6. CASE HandshakeDone(f)
    <2>1. [sock[f] EXCEPT !.inbox = @ - 1] \in Socket
      BY <1>2, <1>6, OneRecordLess DEF HandshakeDone
    <2>2. [client[f] EXCEPT !.state = "CLIENT_IDLE"] \in Client
      BY <1>2 DEF Client
    <2> QED
      BY <1>1, <1>6, <2>1, <2>2, ReadOutcome DEF HandshakeDone
  <1>7. CASE Request(f)
    BY <1>1, <1>2, <1>7, ReadOutcome DEF Request
  <1> QED
    BY <1>3, <1>4, <1>5, <1>6, <1>7 DEF handleClient

\* Every event of the listening socket.
LEMMA AcceptClient ==
  ASSUME IInv, acceptClient
  PROVE  IInv' /\ StaysWatched
  <1>1. CASE AcceptFails \/ AcceptUndone
    <2>1. /\ UNCHANGED <<sock, interest, client>>
          /\ events' \subseteq events
          /\ backlog' \in 0..MaxBacklog
      BY <1>1, BoundsAssumption DEF AcceptFails, AcceptUndone, Take, IInv, TypeOK
    <2>2. TypeOK'
      BY <2>1 DEF IInv, TypeOK
    <2>3. NoGhosts' /\ SocketInv' /\ StaysWatched
      BY <2>1 DEF IInv, NoGhosts, SocketInv, Live, Open, StaysWatched
    <2> QED
      BY <2>2, <2>3 DEF IInv
  <1>2. ASSUME NEW f \in Fd, Accept(f) PROVE IInv' /\ StaysWatched
    <2> DEFINE s == [inbox |-> 0, full |-> FALSE, open |-> TRUE]
               c == [state |-> "HANDSHAKE", tls |-> 0, old |-> FALSE]
    <2>1. s \in Socket /\ c \in Client
      BY BoundsAssumption DEF Socket, Client
    <2>2. /\ sock' = [sock EXCEPT ![f] = s]
          /\ client' = [client EXCEPT ![f] = c]
          /\ interest' \in {interest, interest \union {f}}
          /\ events' \subseteq events
          /\ backlog' \in 0..MaxBacklog
      BY <1>2, BoundsAssumption DEF Accept, Take, IInv, TypeOK
    <2> HIDE DEF s, c
    <2>3. TypeOK'
      BY <2>1, <2>2 DEF IInv, TypeOK
    <2>4. /\ Live' = Live \union {f}
          /\ Open' = Open \union {f}
      BY <2>1, <2>2, NoneAssumption DEF IInv, TypeOK, Live, Open
    <2>5. NoGhosts' /\ SocketInv' /\ StaysWatched
      BY <2>2, <2>4 DEF IInv, NoGhosts, SocketInv, StaysWatched
    <2> QED
      BY <2>3, <2>5 DEF IInv
  <1> QED
    BY <1>1, <1>2 DEF acceptClient

\* epoll_wait returns descriptors of the epoll set.
LEMMA WaitEvents ==
  ASSUME IInv, NEW b \in Batches, Wait(b)
  PROVE  IInv' /\ StaysWatched
  <1>1. b \subseteq interest
    BY DEF Batches
  <1>2. events' = b /\ UNCHANGED <<backlog, sock, interest, client>>
    BY DEF Wait
  <1>3. TypeOK'
    BY <1>1, <1>2 DEF IInv, TypeOK
  <1>4. NoGhosts' /\ SocketInv' /\ StaysWatched
    BY <1>1, <1>2 DEF IInv, NoGhosts, SocketInv, Live, Open, StaysWatched
  <1> QED
    BY <1>3, <1>4 DEF IInv

\* Peers, kernel and clock neither make nor remove a client.
LEMMA EnvironmentStep ==
  ASSUME IInv, Environment
  PROVE  IInv' /\ StaysWatched
  <1>1. CASE Connect
    <2>1. TypeOK'
      BY <1>1, BoundsAssumption DEF Connect, IInv, TypeOK
    <2> QED
      BY <1>1, <2>1 DEF Connect, IInv, NoGhosts, SocketInv, Live, Open, StaysWatched
  <1>2. ASSUME NEW f \in Fd, PeerSends(f) \/ PeerCloses(f) \/ PeerReads(f)
        PROVE  IInv' /\ StaysWatched
    <2>1. f \in Live /\ sock[f] \in Socket
      BY <1>2, LiveClient DEF PeerSends, PeerCloses, PeerReads
    <2>2. PICK s \in Socket : sock' = [sock EXCEPT ![f] = s]
      <3>1. CASE PeerSends(f)
        <4>1. [sock[f] EXCEPT !.inbox = @ + 1] \in Socket
          BY <2>1, <3>1, BoundsAssumption DEF PeerSends, Socket
        <4> QED
          BY <3>1, <4>1 DEF PeerSends
      <3>2. CASE PeerCloses(f)
        <4>1. [sock[f] EXCEPT !.open = FALSE] \in Socket
          BY <2>1 DEF Socket
        <4> QED
          BY <3>2, <4>1 DEF PeerCloses
      <3>3. CASE PeerReads(f)
        <4>1. [sock[f] EXCEPT !.full = FALSE] \in Socket
          BY <2>1 DEF Socket
        <4> QED
          BY <3>3, <4>1 DEF PeerReads
      <3> QED
        BY <1>2, <3>1, <3>2, <3>3
    <2>3. UNCHANGED <<backlog, interest, client, events>>
      BY <1>2 DEF PeerSends, PeerCloses, PeerReads
    <2>4. TypeOK'
      BY <2>2, <2>3 DEF IInv, TypeOK
    <2>5. Live' = Live /\ Open \subseteq Open'
      BY <2>2, <2>3, NoneAssumption DEF IInv, TypeOK, Live, Open
    <2> QED
      BY <2>3, <2>4, <2>5 DEF IInv, NoGhosts, SocketInv, StaysWatched
  <1>3. ASSUME NEW f \in Fd, Expire(f) PROVE IInv' /\ StaysWatched
    <2> DEFINE c == [client[f] EXCEPT !.old = TRUE]
    <2>1. c \in Client
      BY <1>3, LiveClient DEF Expire, Client
    <2>2. /\ client' = [client EXCEPT ![f] = c] /\ f \in Live
          /\ UNCHANGED <<backlog, sock, interest, events>>
      BY <1>3 DEF Expire
    <2> HIDE DEF c
    <2>3. TypeOK'
      BY <2>1, <2>2 DEF IInv, TypeOK
    <2>4. Live' = Live /\ Open' = Open
      BY <2>1, <2>2, NoneAssumption DEF IInv, TypeOK, Live, Open
    <2> QED
      BY <2>2, <2>3, <2>4 DEF IInv, NoGhosts, SocketInv, StaysWatched
  <1> QED
    BY <1>1, <1>2, <1>3 DEF Environment

\* Every step keeps the invariant and unwatches nobody who stays.
LEMMA NextIInv == IInv /\ [Next]_vars => IInv' /\ (StaysWatched \/ UNCHANGED vars)
  <1> SUFFICES ASSUME IInv, [Next]_vars
               PROVE  IInv' /\ (StaysWatched \/ UNCHANGED vars)
    OBVIOUS
  <1>1. CASE epollLoop
    BY <1>1, WaitEvents, AcceptClient, HandleClient DEF epollLoop
  <1>2. CASE Environment
    BY <1>2, EnvironmentStep
  <1>3. CASE UNCHANGED vars
    BY <1>3 DEF vars, IInv, TypeOK, NoGhosts, SocketInv, Live, Open
  <1> QED
    BY <1>1, <1>2, <1>3 DEF Next

-----------------------------------------------------------------------------
(* What follows for every behaviour. *)

\* IInv is an invariant.
THEOREM Invariance == Spec => []IInv
  BY InitIInv, NextIInv, PTL DEF Spec

\* Every variable has its type.
THEOREM TypeCorrect == Spec => []TypeOK
  <1>1. IInv => TypeOK
    BY DEF IInv
  <1> QED
    BY <1>1, Invariance, PTL

\* The epoll set and every batch name only clients that exist, however
\* accepts, reads, timeouts and removals follow each other.
THEOREM EventsNameClients == Spec => []NoGhosts
  <1>1. IInv => NoGhosts
    BY DEF IInv
  <1> QED
    BY <1>1, Invariance, PTL

\* A client is taken out of the epoll set only when it is removed.
THEOREM LiveStayWatched == Spec => WatchedWhileLive
  <1>1. IInv /\ [Next]_vars =>
          [\A f \in Fd : f \in interest /\ client'[f] # None => f \in interest']_vars
    BY NextIInv DEF StaysWatched
  <1> QED
    BY <1>1, Invariance, PTL DEF Spec, WatchedWhileLive
=============================================================================
