----------------------------- MODULE Connection -----------------------------
(***************************************************************************)
(* FrameHandler on one connection: the frames of a client that follows RFC *)
(* 7540, handled one after the other, and the frames the server writes.    *)
(*                                                                         *)
(* A step is one frame: the client's choice of it and the whole of its     *)
(* handler. The handler blocks for each write (ThreadPool), so nothing of  *)
(* another frame comes in between. Header blocks are HPACK data: the n-th  *)
(* fragment the client encodes is the number n, and the shared decoder     *)
(* understands a block only if it has seen every fragment before it.       *)
(* PRIORITY, WINDOW_UPDATE and PUSH_PROMISE change nothing and are left    *)
(* out: no frame of type PRIORITY ever has the flag its handler asks for.  *)
(***************************************************************************)
EXTENDS Integers, Sequences, FiniteSets

CONSTANTS Streams,     \* bound: streams the client may open, 1..Streams
          Request,     \* what a request asks for
          Found,       \* those of Request with a document behind their path
          Get,         \* those of Request whose method is GET
          Features,    \* what the client makes use of, see FeatureNames
          MaxFrags,    \* bound: header fragments of a connection
          MaxControl,  \* bound: SETTINGS and PING frames of a connection
          None

FeatureNames == {"splitBody",   \* CONTINUATION after HEADERS with a body
                 "splitGet",    \* CONTINUATION after HEADERS + END_STREAM
                 "trailers"}    \* a second header block ends the stream

ASSUME RequestAssumption ==
    /\ Found \subseteq Request
    /\ Get \subseteq Request
    /\ None \notin Request
ASSUME BoundsAssumption ==
    /\ Streams \in Nat \ {0}
    /\ MaxFrags \in Nat
    /\ MaxControl \in Nat \ {0}
ASSUME FeatureAssumption == Features \subseteq FeatureNames

Stream == 1..Streams

VARIABLES
    \* The client.
    req,      \* the request of each stream, None while it is idle
    ended,    \* streams the client has ended or reset
    reset,    \* those it has reset
    trailed,  \* those it has ended by trailers
    cleared,  \* those it had opened before its last GOAWAY
    block,    \* the stream whose header block is not complete, or None
    sent,     \* header fragments encoded so far
    calls,    \* what it has asked for completely, in order
    \* The server's Client object.
    conn,     \* "preface", "open", "closing" (FD_CLOSED), "gone"
    streams,  \* Client::streams: the Stream of each id, or None
    decoded,  \* the fragments hpackDecoder has consumed, in order
    \* The connection in the other direction.
    wire,     \* frames written
    broken,   \* a write has failed
    failed    \* history: streams for which the file system has failed

clientVars == <<req, ended, reset, trailed, cleared, block, sent, calls>>
serverVars == <<conn, streams, decoded, wire, broken, failed>>
vars == <<clientVars, serverVars>>

\* The connection preface, SETTINGS and PING frames, and requests by stream.
Call == [id : {0}, wants : {"SETTINGS", "SETTINGS_ACK", "PING_ACK"}]
    \union [id : Stream, wants : Request]

Frame == [kind : {"SETTINGS", "SETTINGS_ACK", "PING_ACK"}, id : {0}]
    \union [kind : {"200", "404", "END"}, id : Stream]

\* state, headerFragments, and the :path that headers.first finds.
StreamRecord == [state : {"IDLE", "OPEN", "HALF_CLOSED_REMOTE"},
                 frags : Seq(1..MaxFrags),
                 path  : Request \union {None},
                 data  : BOOLEAN]

ASSUME NoneAssumption ==
    /\ None \notin Stream
    /\ None \notin StreamRecord

NewStream == [state |-> "IDLE", frags |-> <<>>, path |-> None, data |-> FALSE]

Upto(n) == [i \in 1..n |-> i]

Init ==
    /\ req = [s \in Stream |-> None]
    /\ ended = {}
    /\ reset = {}
    /\ trailed = {}
    /\ cleared = {}
    /\ block = None
    /\ sent = 0
    /\ calls = <<>>
    /\ conn = "preface"
    /\ streams = [s \in Stream |-> None]
    /\ decoded = <<>>
    /\ wire = <<>>
    /\ broken = FALSE
    /\ failed = {}

-----------------------------------------------------------------------------
(* Writing: sendData on the frames of a reply, in order. *)

\* A write fails when the send buffer is full. Part of the reply may be out by
\* then, and OpenSSL keeps the rest of the record: what later writes put on
\* the wire is not followed any more.
Send(frames) ==
    \/ /\ ~broken
       /\ wire' = wire \o frames
       /\ UNCHANGED broken
    \/ /\ ~broken
       /\ \E n \in 0..(Len(frames) - 1) : wire' = wire \o SubSeq(frames, 1, n)
       /\ broken' = TRUE
    \/ /\ broken
       /\ UNCHANGED <<wire, broken>>

Reply(s, status) == <<[kind |-> status, id |-> s], [kind |-> "END", id |-> s]>>

\* getContent meets a failure of the file system: a file that does not open is
\* taken for none, an exception (of directory_iterator, of is_directory) is
\* caught in processEndHeader and nothing is written. WebBinder has the details.
FileSystemFails(s) ==
    /\ failed' = failed \union {s}
    /\ Send(Reply(s, "404")) \/ UNCHANGED <<wire, broken>>

\* Mutant: the error page follows whatever respondGet returns.
AnswerTwice(s, path) ==
    \/ path = None /\ UNCHANGED <<wire, broken, failed>>
    \/ /\ path # None
       /\ Send(IF path \in Found THEN Reply(s, "200") \o Reply(s, "404")
                                  ELSE Reply(s, "404"))
       /\ UNCHANGED failed

\* Without a :path nothing is answered. The method looked at is the first
\* :method of the decoder's table, which is GET whatever the request says.
\* respondGet, or the error page when it finds no document (or could not
\* write: then the page is not written either).
Answer(s, path) ==
    \/ path = None /\ UNCHANGED <<wire, broken, failed>>
    \/ /\ path # None
       /\ Send(Reply(s, IF path \in Found THEN "200" ELSE "404"))
       /\ UNCHANGED failed
    \/ path # None /\ FileSystemFails(s)

-----------------------------------------------------------------------------
(* The handlers. *)

Store(s, strm, erase) ==
    streams' = [streams EXCEPT ![s] = IF erase THEN None ELSE strm]

InStep(strm) == decoded \o strm.frags = Upto(sent + 1)

\* The :path among the headers of the stream once its block is decoded. The
\* first one stays. A request brings its own, trailers bring none, and a
\* decoder that has missed a fragment may find anything.
Decoded(s, strm) ==
    IF strm.path # None THEN {strm.path}
    ELSE IF InStep(strm) THEN {IF s \in trailed' THEN None ELSE req'[s]}
    ELSE Request \union {None}

\* Out of step, decode_lowmem may also throw, at an index that its table does
\* not have: the handler is left there, with the stream OPEN and its fragments
\* still waiting.
DecoderThrows(s, strm, erase) ==
    /\ ~InStep(strm)
    /\ \E path \in Decoded(s, strm) : Store(s, [strm EXCEPT !.path = path], erase)
    /\ UNCHANGED <<wire, broken, failed>>

\* Out of step, decoded is what the decoder was given, whatever it took in.
processEndHeader(s, strm, erase) ==
    /\ decoded' = decoded \o strm.frags
    /\ \/ \E path \in Decoded(s, strm) :
              /\ Store(s, [strm EXCEPT !.state = "HALF_CLOSED_REMOTE",
                                       !.frags = <<>>, !.path = path], erase)
              /\ Answer(s, path)
       \/ DecoderThrows(s, strm, erase)

KeepBlock(s, strm, erase) ==
    /\ Store(s, strm, erase)
    /\ UNCHANGED <<decoded, wire, broken, failed>>

\* Mutant: the stream is not marked OPEN while its block is incomplete.
HeadersNotOpened(s, endHeaders, endStream) ==
    LET old  == IF streams[s] = None THEN NewStream ELSE streams[s]
        strm == [old EXCEPT !.frags = Append(@, sent + 1)]
    IN  IF endHeaders THEN processEndHeader(s, strm, endStream)
                      ELSE KeepBlock(s, strm, endStream)

\* Mutant: a request is answered when the client has ended its stream.
HeadersAnsweredAtEnd(s, endHeaders, endStream) ==
    LET old  == IF streams[s] = None THEN NewStream ELSE streams[s]
        strm == [old EXCEPT !.state = "OPEN", !.frags = Append(@, sent + 1)]
    IN  IF endHeaders /\ endStream THEN processEndHeader(s, strm, endStream)
                                   ELSE KeepBlock(s, strm, endStream)

\* With END_STREAM the stream is erased at once, whether or not its header
\* block is complete.
handleHeadersFrame(s, endHeaders, endStream) ==
    LET old  == IF streams[s] = None THEN NewStream ELSE streams[s]
        strm == [old EXCEPT !.state = "OPEN", !.frags = Append(@, sent + 1)]
    IN  IF endHeaders THEN processEndHeader(s, strm, endStream)
                      ELSE KeepBlock(s, strm, endStream)

Unhandled == UNCHANGED <<streams, decoded, wire, broken, failed>>

\* Mutant: only the last CONTINUATION is kept.
ContinuationLast(s, endHeaders) ==
    LET strm == [streams[s] EXCEPT !.frags = Append(@, sent + 1)]
    IN  IF streams[s] = None \/ ~endHeaders THEN Unhandled
        ELSE processEndHeader(s, strm, FALSE)

\* Mutant: the end of the block is noticed only in HEADERS.
ContinuationKept(s, endHeaders) ==
    IF streams[s] = None THEN Unhandled
    ELSE KeepBlock(s, [streams[s] EXCEPT !.frags = Append(@, sent + 1)], FALSE)

handleContinuationFrame(s, endHeaders) ==
    LET strm == [streams[s] EXCEPT !.frags = Append(@, sent + 1)]
    IN  IF streams[s] = None \/ streams[s].state = "IDLE" THEN Unhandled
        ELSE IF endHeaders THEN processEndHeader(s, strm, FALSE)
        ELSE KeepBlock(s, strm, FALSE)

\* Accepted in state OPEN only; END_STREAM is stored and never looked at.
handleDataFrame(s) ==
    IF streams[s] # None /\ streams[s].state = "OPEN"
    THEN KeepBlock(s, [streams[s] EXCEPT !.data = TRUE], FALSE)
    ELSE Unhandled

\* Mutant: the stream stays in the table, marked closed.
ResetKept(s) ==
    /\ Store(s, [NewStream EXCEPT !.state = "CLOSED"], streams[s] = None)
    /\ UNCHANGED <<decoded, wire, broken, failed>>

\* Mutant: a reset is answered with an error page.
ResetAnswered(s) ==
    /\ Store(s, NewStream, TRUE)
    /\ Send(Reply(s, "404"))
    /\ UNCHANGED <<decoded, failed>>

handleResetFrame(s) ==
    /\ Store(s, NewStream, TRUE)
    /\ UNCHANGED <<decoded, wire, broken, failed>>

\* ackSettings: the result of sendFrame is not looked at.
handleSettingsFrame ==
    /\ Send(<<[kind |-> "SETTINGS_ACK", id |-> 0]>>)
    /\ UNCHANGED <<streams, decoded, failed>>

handlePingFrame ==
    /\ Send(<<[kind |-> "PING_ACK", id |-> 0]>>)
    /\ UNCHANGED <<streams, decoded, failed>>

-----------------------------------------------------------------------------
(* What a client may send, and the handling of it. *)

\* The client has completed a request on stream s, or with s = 0 another call.
Ask(s, wants) == calls' = Append(calls, [id |-> s, wants |-> wants])

\* The SETTINGS and PING frames it has sent.
asked == SelectSeq(calls, LAMBDA c : c.wants \in {"SETTINGS_ACK", "PING_ACK"})

\* Frames are read while the client lives; those that came in one read with a
\* GOAWAY are handled after it.
Talking == conn \in {"open", "closing"} /\ asked # <<>>

\* Nothing may come between the frames of a header block.
BetweenBlocks == Talking /\ block = None

\* doRequest finds the connection preface and calls applySettings.
Preface ==
    /\ conn = "preface"
    /\ conn' = "open"
    /\ Send(<<[kind |-> "SETTINGS", id |-> 0]>>)
    /\ Ask(0, "SETTINGS")
    /\ UNCHANGED <<req, ended, reset, trailed, cleared, block, sent>>
    /\ UNCHANGED <<streams, decoded, failed>>

Settings ==
    /\ conn \in {"open", "closing"}
    /\ block = None
    /\ Len(asked) < MaxControl
    /\ Ask(0, "SETTINGS_ACK")
    /\ handleSettingsFrame
    /\ UNCHANGED <<req, ended, reset, trailed, cleared, block, sent, conn>>

Ping ==
    /\ BetweenBlocks
    /\ Len(asked) < MaxControl
    /\ Ask(0, "PING_ACK")
    /\ handlePingFrame
    /\ UNCHANGED <<req, ended, reset, trailed, cleared, block, sent, conn>>

MaySplit(endStream) ==
    /\ sent + 1 < MaxFrags
    /\ (IF endStream THEN "splitGet" ELSE "splitBody") \in Features

\* A client opens its streams in the order of their identifiers.
Headers(s, r, endHeaders, endStream) ==
    /\ BetweenBlocks
    /\ req[s] = None
    /\ \A t \in 1..(s - 1) : req[t] # None
    /\ sent < MaxFrags
    /\ endHeaders \/ MaySplit(endStream)
    /\ req' = [req EXCEPT ![s] = r]
    /\ ended' = IF endStream THEN ended \union {s} ELSE ended
    /\ block' = IF endHeaders THEN None ELSE s
    /\ sent' = sent + 1
    /\ IF endHeaders THEN Ask(s, r) ELSE UNCHANGED calls
    /\ UNCHANGED <<reset, trailed, cleared, conn>>
    /\ handleHeadersFrame(s, endHeaders, endStream)

\* The second block of a stream is answered like the first. Once a GOAWAY has
\* cleared the stream it has no :path any more, and asks for nothing.
Trailers(s) ==
    /\ "trailers" \in Features
    /\ BetweenBlocks
    /\ req[s] # None /\ s \notin ended
    /\ sent < MaxFrags
    /\ ended' = ended \union {s}
    /\ trailed' = trailed \union {s}
    /\ sent' = sent + 1
    /\ IF s \in cleared THEN UNCHANGED calls ELSE Ask(s, req[s])
    /\ UNCHANGED <<req, reset, cleared, block, conn>>
    /\ handleHeadersFrame(s, TRUE, TRUE)

Continuation(endHeaders) ==
    /\ Talking
    /\ block # None
    /\ endHeaders \/ sent + 1 < MaxFrags
    /\ block' = IF endHeaders THEN None ELSE block
    /\ sent' = sent + 1
    /\ IF endHeaders THEN Ask(block, req[block]) ELSE UNCHANGED calls
    /\ UNCHANGED <<req, ended, reset, trailed, cleared, conn>>
    /\ handleContinuationFrame(block, endHeaders)

Data(s, endStream) ==
    /\ BetweenBlocks
    /\ req[s] # None /\ s \notin ended
    /\ ended' = IF endStream THEN ended \union {s} ELSE ended
    /\ handleDataFrame(s)
    /\ UNCHANGED <<req, reset, trailed, cleared, block, sent, calls, conn>>

RstStream(s) ==
    /\ BetweenBlocks
    /\ req[s] # None /\ s \notin reset
    /\ ended' = ended \union {s}
    /\ reset' = reset \union {s}
    /\ handleResetFrame(s)
    /\ UNCHANGED <<req, trailed, cleared, block, sent, calls, conn>>

\* streams.clear() and the Fd marked FD_CLOSED.
handleGoAwayFrame ==
    /\ BetweenBlocks
    /\ conn' = "closing"
    /\ cleared' = {s \in Stream : req[s] # None}
    /\ streams' = [s \in Stream |-> None]
    /\ UNCHANGED <<req, ended, reset, trailed, block, sent, calls>>
    /\ UNCHANGED <<decoded, wire, broken, failed>>

\* The event loop deletes the client: the read that held a GOAWAY is over, the
\* client has gone away in the middle of anything, or its time is up.
Removed ==
    /\ conn \in {"open", "closing"}
    /\ conn' = "gone"
    /\ streams' = [s \in Stream |-> None]
    /\ UNCHANGED <<clientVars, decoded, wire, broken, failed>>

Gone == conn = "gone" /\ UNCHANGED vars

Next ==
    \/ Preface
    \/ Settings
    \/ Ping
    \/ \E s \in Stream, r \in Request, eh, es \in BOOLEAN : Headers(s, r, eh, es)
    \/ \E s \in Stream : Trailers(s)
    \/ \E eh \in BOOLEAN : Continuation(eh)
    \/ \E s \in Stream, es \in BOOLEAN : Data(s, es)
    \/ \E s \in Stream : RstStream(s)
    \/ handleGoAwayFrame
    \/ Removed
    \/ Gone

Spec == Init /\ [][Next]_vars

-----------------------------------------------------------------------------
(* Properties. *)

\* Every variable has its type; no stream in the table is CLOSED.
TypeOK ==
    /\ req \in [Stream -> Request \union {None}]
    /\ reset \union trailed \subseteq ended
    /\ ended \union cleared \union failed \subseteq Stream
    /\ block \in Stream \union {None}
    /\ sent \in 0..MaxFrags
    /\ calls \in Seq(Call)
    /\ conn \in {"preface", "open", "closing", "gone"}
    /\ streams \in [Stream -> StreamRecord \union {None}]
    /\ decoded \in Seq(1..MaxFrags)
    /\ wire \in Seq(Frame)
    /\ broken \in BOOLEAN

\* Where on the wire the frames are that the server has written on stream s.
Out(s) == {i \in DOMAIN wire : wire[i].id = s}

\* The status that the request of s calls for; 404 may stand for a failure.
Status(s) ==
    {IF req[s] \in Found THEN "200" ELSE "404"}
        \union (IF s \in failed THEN {"404"} ELSE {})

\* A reply that the request of s calls for stands at n, and nothing in it.
WholeAt(s, n) ==
    \E status \in Status(s) : <<wire[n], wire[n + 1]>> = Reply(s, status)

\* The decoder has consumed every fragment of every complete header block, in
\* the order the client encoded them: its dynamic table is the client's.
HpackInSync == block = None => decoded = Upto(sent)

\* A stream carries at most one reply, the one its request calls for, in one
\* piece: status and body are never doubled or mixed, even when blocks are
\* split, bodies and resets arrive late, or frames are handled behind a GOAWAY.
\* Trailers are the exception: the second block of a stream is answered like
\* the first.
OneReply ==
    ~broken => \A s \in Stream :
        \/ Out(s) = {}
        \/ \E n \in Out(s) : Out(s) = {n, n + 1} /\ WholeAt(s, n)
        \/ /\ s \in trailed
           /\ \E m, n \in Out(s) : /\ Out(s) = {m, m + 1, n, n + 1} /\ m + 1 < n
                                   /\ WholeAt(s, m) /\ WholeAt(s, n)

\* As soon as its header block is complete a request has been answered. Only a
\* failure of the file system may leave it without an answer, for good.
AnsweredAtOnce ==
    ~broken => \A s \in Stream :
        req[s] # None /\ block # s => Out(s) # {} \/ s \in failed

\* A stream of the table is OPEN exactly while its header block is coming in:
\* what handleContinuationFrame and handleDataFrame decide by the state. An
\* exception from the decoder would leave a stream OPEN; its clients' blocks
\* never cause one while it is in step.
OpenMeansBlock ==
    \A s \in Stream :
        streams[s] # None => (streams[s].state = "OPEN" <=> block = s)

\* Whatever the client sends, and whatever the decoder makes of it, a handler
\* that is left by an exception leaves no half of a reply behind: status and
\* end are on the wire next to each other, or neither is.
NoHalfReply ==
    ~broken => \A i \in DOMAIN wire :
        /\ wire[i].kind \in {"200", "404"} =>
               i + 1 \in DOMAIN wire /\ wire[i + 1] = [kind |-> "END", id |-> wire[i].id]
        /\ wire[i].kind = "END" =>
               /\ i - 1 \in DOMAIN wire
               /\ wire[i - 1] \in [kind : {"200", "404"}, id : {wire[i].id}]

\* From the reset of a stream on nothing more is written on it.
ResetIsFinal ==
    [][\A i \in DOMAIN wire' \ DOMAIN wire : wire'[i].id \notin reset']_vars

\* The calls of a client, by whatever frames it makes them, are answered as
\* AbstractExchange promises: in the order in which they are completed, across
\* streams and control frames, after the server's own SETTINGS, and no other
\* handler writes anything; a failure of the file system costs the call at
\* hand its answer and no other.
Exchange == INSTANCE AbstractExchange

ImplementsExchange == Exchange!Spec

\* Only a GET is answered as a GET.
OnlyGetAnswered ==
    \A s \in Stream : Out(s) # {} => req[s] \in Get
=============================================================================
