------------------------------ MODULE EventLoop ------------------------------
(***************************************************************************)
(* Epoller::epollLoop, ClientManager and the life of a Client: accept, TLS *)
(* handshake, one read per event, removal. The loop runs on one thread, so *)
(* the handling of an event is one step; the peers, the kernel and the     *)
(* clock act between the events of a batch.                                *)
(*                                                                         *)
(* What a frame does is left to Connection; here a read either keeps the   *)
(* client, marks its Fd closed (GOAWAY, end of stream) or throws.          *)
(***************************************************************************)
EXTENDS Integers, FiniteSets

CONSTANTS Fd,          \* descriptor numbers the process may use for clients
          Listen,      \* the listening socket's descriptor
          MaxEvents,   \* MAX_EVENTS: size of the array given to epoll_wait
          MaxChunks,   \* reads of BUFFER_SIZE bytes one TLS record can take
          MaxInbox,    \* bound: TLS records waiting in a socket
          MaxBacklog,  \* bound: connections waiting for accept
          None

ASSUME BoundsAssumption ==
    /\ MaxEvents \in Nat \ {0}
    /\ MaxChunks \in Nat \ {0}
    /\ MaxInbox \in Nat \ {0}
    /\ MaxBacklog \in Nat \ {0}
ASSUME FdAssumption == Listen \notin Fd /\ None \notin Fd \union {Listen}

VARIABLES backlog,   \* connections the kernel holds for accept
          sock,      \* the kernel's socket behind each descriptor, or None
          interest,  \* descriptors registered in the epoll set
          client,    \* ClientManager::clients: the Client of each fd, or None
          events     \* what is left of the batch epoll_wait returned

vars == <<backlog, sock, interest, client, events>>

\* inbox: records not yet taken by SSL; full: the send buffer is full;
\* open: the peer has not closed the connection.
Socket == [inbox : 0..MaxInbox, full : BOOLEAN, open : BOOLEAN]

\* tls: decrypted reads of the current record the program has not asked for;
\* old: more than TIMEOUT seconds since accept.
Client == [state : {"HANDSHAKE", "CLIENT_IDLE"},
           tls   : 0..(MaxChunks - 1),
           old   : BOOLEAN]

ASSUME NoneAssumption == None \notin Socket \union Client

Live == {f \in Fd : client[f] # None}

Open == {f \in Fd : sock[f] # None}

Init ==
    /\ backlog = 0
    /\ sock = [f \in Fd |-> None]
    /\ interest = {Listen}
    /\ client = [f \in Fd |-> None]
    /\ events = {}

-----------------------------------------------------------------------------
(* epoll_wait, level triggered for EPOLLIN and EPOLLOUT. *)

\* Mutant: only EPOLLIN is asked for.
ReadyToRead(f) ==
    \/ f = Listen /\ backlog > 0
    \/ f \in Open /\ (sock[f].inbox > 0 \/ ~sock[f].open)

Ready(f) ==
    \/ f = Listen /\ backlog > 0
    \/ f \in Open /\ (sock[f].inbox > 0 \/ ~sock[f].open \/ ~sock[f].full)

\* Mutant: when the array is too small the clients come first.
BatchesClientsFirst ==
    LET ready == {f \in interest : Ready(f)}
    IN  IF Cardinality(ready) <= MaxEvents
        THEN {ready}
        ELSE {b \in SUBSET (ready \ {Listen}) : Cardinality(b) = MaxEvents}

\* A batch holds every ready descriptor, or MaxEvents of them.
Batches ==
    LET ready == {f \in interest : Ready(f)}
    IN  IF Cardinality(ready) <= MaxEvents
        THEN {ready}
        ELSE {b \in SUBSET ready : Cardinality(b) = MaxEvents}

Wait(b) ==
    /\ events = {}
    /\ b \in Batches
    /\ b # {}
    /\ events' = b
    /\ UNCHANGED <<backlog, sock, interest, client>>

Take(f) ==
    /\ f \in events
    /\ events' = events \ {f}

-----------------------------------------------------------------------------
(* An event of the listening socket: acceptClient, then addFD. *)

\* accept fails with EMFILE: the connection stays in the queue.
AcceptFails ==
    /\ Take(Listen)
    /\ Open = Fd
    /\ UNCHANGED <<backlog, sock, interest, client>>

\* fcntl fails: the descriptor is closed again.
AcceptUndone ==
    /\ Take(Listen)
    /\ backlog > 0
    /\ Open # Fd
    /\ backlog' = backlog - 1
    /\ UNCHANGED <<sock, interest, client>>

\* The result of addFD is not looked at: a client may stay unregistered.
Accept(f) ==
    /\ Take(Listen)
    /\ backlog > 0
    /\ f \notin Open
    /\ backlog' = backlog - 1
    /\ sock' = [sock EXCEPT ![f] = [inbox |-> 0, full |-> FALSE, open |-> TRUE]]
    /\ client' = [client EXCEPT
           ![f] = [state |-> "HANDSHAKE", tls |-> 0, old |-> FALSE]]
    /\ interest' \in {interest, interest \union {f}}

-----------------------------------------------------------------------------
(* An event of a client: handleClient and the check that follows it. *)

Keep(f, c, s) ==
    /\ client' = [client EXCEPT ![f] = c]
    /\ sock' = [sock EXCEPT ![f] = s]
    /\ UNCHANGED interest

\* Mutant: the Fd is marked closed and only the epoll set forgets it.
ForgetFd(f, s) ==
    /\ interest' = interest \ {f}
    /\ sock' = [sock EXCEPT ![f] = s]
    /\ UNCHANGED client

\* Fd marked FD_CLOSED: the loop takes it out of the epoll set and deletes
\* the client. Nothing closes the descriptor or frees the SSL object.
CloseMarked(f, s) ==
    /\ interest' = interest \ {f}
    /\ client' = [client EXCEPT ![f] = None]
    /\ sock' = [sock EXCEPT ![f] = s]

\* Mutant: the loop does not see that handleClient removed the client.
RemoveUnseen(f, s) ==
    /\ client' = [client EXCEPT ![f] = None]
    /\ sock' = [sock EXCEPT ![f] = s]
    /\ UNCHANGED interest

\* removeClient inside handleClient marks the Fd and deletes the client; the
\* loop then reads clientFD of the deleted object. The first 16 bytes of a
\* freed chunk are glibc's, clientFD lies beyond them: the mark is still
\* there, the descriptor leaves the epoll set and the second removeClient
\* finds nobody.
RemoveInHandler(f, s) ==
    /\ client' = [client EXCEPT ![f] = None]
    /\ sock' = [sock EXCEPT ![f] = s]
    /\ interest' = interest \ {f}

TimedOut(f) ==
    /\ Take(f)
    /\ f \in Live
    /\ client[f].old
    /\ RemoveInHandler(f, sock[f])
    /\ UNCHANGED backlog

Handles(f, state) ==
    /\ Take(f)
    /\ f \in Live
    /\ ~client[f].old
    /\ client[f].state = state
    /\ UNCHANGED backlog

\* SSL_accept wants more: nothing has come, or a part of the handshake has.
HandshakeWants(f) ==
    /\ Handles(f, "HANDSHAKE")
    /\ \/ sock[f].inbox = 0 /\ sock[f].open /\ Keep(f, client[f], sock[f])
       \/ /\ sock[f].inbox > 0
          /\ Keep(f, client[f], [sock[f] EXCEPT !.inbox = @ - 1])

\* The peer is gone, the handshake is refused or ALPN did not choose h2.
HandshakeFails(f) ==
    /\ Handles(f, "HANDSHAKE")
    /\ \/ sock[f].inbox = 0 /\ ~sock[f].open /\ RemoveInHandler(f, sock[f])
       \/ /\ sock[f].inbox > 0
          /\ RemoveInHandler(f, [sock[f] EXCEPT !.inbox = @ - 1])

\* Mutant: the -1 of SSL_read is taken for a length.
ReadNothingAsLength(f, c, s) ==
    /\ c.tls = 0 /\ s.inbox = 0 /\ s.open
    /\ Keep(f, [c EXCEPT !.tls = @ - 1], s)

\* One SSL_read and the handling of what it returned, for client c on
\* socket s.
ReadNothing(f, c, s) ==
    /\ c.tls = 0 /\ s.inbox = 0 /\ s.open
    /\ Keep(f, c, s)

\* The peer has closed: SSL_read returns 0 and the Fd is marked, or an error,
\* which doRequest only records.
ReadEnd(f, c, s) ==
    /\ c.tls = 0 /\ s.inbox = 0 /\ ~s.open
    /\ CloseMarked(f, s) \/ Keep(f, c, s)

\* A read takes what is left of the current record, or opens the next one.
\* Its frames may fill the send buffer, end in GOAWAY, or throw.
ReadFrames(f, c, s) ==
    \E rest \in 0..(MaxChunks - 1), full \in {s.full, TRUE} :
        LET c2 == [c EXCEPT !.tls = rest]
            s2 == [s EXCEPT !.full = full]
            s3 == [s2 EXCEPT !.inbox = @ - 1]
        IN  \/ /\ c.tls > 0
               /\ rest = c.tls - 1
               /\ Keep(f, c2, s2) \/ CloseMarked(f, s2) \/ RemoveInHandler(f, s2)
            \/ /\ c.tls = 0 /\ s.inbox > 0
               /\ Keep(f, c2, s3) \/ CloseMarked(f, s3) \/ RemoveInHandler(f, s3)

doRequest(f, c, s) ==
    \/ ReadNothing(f, c, s)
    \/ ReadEnd(f, c, s)
    \/ ReadFrames(f, c, s)

\* The last record of the handshake; the same event goes on to read.
HandshakeDone(f) ==
    /\ Handles(f, "HANDSHAKE")
    /\ sock[f].inbox > 0
    /\ doRequest(f, [client[f] EXCEPT !.state = "CLIENT_IDLE"],
                    [sock[f] EXCEPT !.inbox = @ - 1])

Request(f) ==
    /\ Handles(f, "CLIENT_IDLE")
    /\ doRequest(f, client[f], sock[f])

-----------------------------------------------------------------------------
(* Peers, kernel and clock. *)

Connect ==
    /\ backlog < MaxBacklog
    /\ backlog' = backlog + 1
    /\ UNCHANGED <<sock, interest, client, events>>

PeerSends(f) ==
    /\ f \in Live
    /\ sock[f].open
    /\ sock[f].inbox < MaxInbox
    /\ sock' = [sock EXCEPT ![f].inbox = @ + 1]
    /\ UNCHANGED <<backlog, interest, client, events>>

PeerCloses(f) ==
    /\ f \in Live
    /\ sock[f].open
    /\ sock' = [sock EXCEPT ![f].open = FALSE]
    /\ UNCHANGED <<backlog, interest, client, events>>

\* The peer reads: there is room in the send buffer again.
PeerReads(f) ==
    /\ f \in Live
    /\ sock[f].full
    /\ sock' = [sock EXCEPT ![f].full = FALSE]
    /\ UNCHANGED <<backlog, interest, client, events>>

\* TIMEOUT seconds have passed since accept; nothing restarts the clock.
Expire(f) ==
    /\ f \in Live
    /\ ~client[f].old
    /\ client' = [client EXCEPT ![f].old = TRUE]
    /\ UNCHANGED <<backlog, sock, interest, events>>

-----------------------------------------------------------------------------

handleClient(f) ==
    \/ TimedOut(f)
    \/ HandshakeWants(f)
    \/ HandshakeFails(f)
    \/ HandshakeDone(f)
    \/ Request(f)

acceptClient ==
    \/ AcceptFails
    \/ AcceptUndone
    \/ \E f \in Fd : Accept(f)

epollLoop ==
    \/ \E b \in Batches : Wait(b)
    \/ acceptClient
    \/ \E f \in Fd : handleClient(f)

Environment ==
    \/ Connect
    \/ \E f \in Fd : PeerSends(f) \/ PeerCloses(f) \/ PeerReads(f) \/ Expire(f)

Next == epollLoop \/ Environment

Spec == Init /\ [][Next]_vars

\* The loop goes on as long as epoll_wait has something to report, and the
\* kernel rotates its ready list so that a descriptor that stays ready is
\* reported. Peers promise nothing.
Fairness ==
    /\ WF_vars(epollLoop)
    /\ \A f \in Fd \union {Listen} :
           SF_vars(\E b \in Batches : f \in b /\ Wait(b))

FairSpec == Spec /\ Fairness

\* Time passes: no client stays younger than TIMEOUT for ever.
ClockRuns == \A f \in Fd : WF_vars(Expire(f))

-----------------------------------------------------------------------------
(* Properties. *)

\* Every variable has its type.
TypeOK ==
    /\ backlog \in 0..MaxBacklog
    /\ sock \in [Fd -> Socket \union {None}]
    /\ interest \subseteq Fd \union {Listen}
    /\ client \in [Fd -> Client \union {None}]
    /\ events \subseteq Fd \union {Listen}

\* The epoll set and every batch name only clients that exist: a removed
\* client is never reported again, so no event reaches getType's NONE.
NoGhosts == (interest \union events) \ {Listen} \subseteq Live

\* A client is taken out of the epoll set only together with its removal: no
\* client that stays in the table stops being watched.
WatchedWhileLive ==
    [][\A f \in Fd : f \in interest /\ client'[f] # None => f \in interest']_vars

\* A registered client whose peer has closed is removed, by the read that
\* returns 0 or, when SSL_read fails instead, by the timeout.
PeerCloseNoticed ==
    ClockRuns =>
        \A f \in Fd :
            (f \in interest /\ f \in Live /\ ~sock[f].open) ~> f \notin Live

\* Data SSL has decrypted but the program has not read is served although the
\* socket has nothing more to report: the rest of a record that took several
\* reads is not left behind, unless the send buffer stays full.
BufferedDataServed ==
    \A f \in Fd :
        (f \in interest /\ f \in Live /\ client[f].tls > 0)
            ~> (f \notin Live \/ client[f].tls = 0 \/ sock[f].full)

\* A connection that waits for accept is accepted, or the process has used
\* all its descriptors.
BacklogServed == backlog > 0 ~> (backlog = 0 \/ Open = Fd)

\* A registered client older than TIMEOUT goes away. It does not when its
\* socket never becomes ready again: the age is looked at only on an event,
\* and clientLoop, which would look at every client, is never called.
TimedOutClientsLeave ==
    \A f \in Fd :
        (f \in interest /\ f \in Live /\ client[f].old) ~> f \notin Live

\* A descriptor whose client is gone has been closed. The code closes one only
\* when fcntl fails right after accept.
DescriptorsClosed == Open \subseteq Live
=============================================================================
