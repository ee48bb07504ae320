-------------------------- MODULE ConnectionProofs --------------------------
(***************************************************************************)
(* Proofs about Connection, for any number of streams, header fragments    *)
(* and control frames, any requests and any documents.                     *)
(*                                                                         *)
(* IInv holds of every client. SyncInv and AnswerInv hold as long as no    *)
(* client splits the header block of a HEADERS frame with END_STREAM,      *)
(* which is what NoSplitGet says: the run MCConnectionSplit shows that the *)
(* server loses the rest of such a block, after which its decoder may even *)
(* throw.                                                                  *)
(***************************************************************************)
EXTENDS Connection, SequenceTheorems, TLAPS

NoSplitGet == "splitGet" \notin Features

\* A stream that was not opened has left no trace, and the table has no IDLE
\* stream: handleHeadersFrame makes it and opens it in one step.
OpenedInv ==
    \A s \in Stream :
        /\ req[s] = None => streams[s] = None /\ s \notin ended
        /\ streams[s] # None => streams[s].state # "IDLE"

\* A header block is the first one of a stream that is not reset, and there is
\* room for its last fragment.
BlockInv ==
    block # None =>
        req[block] # None /\ block \notin reset \union trailed /\ sent < MaxFrags

\* The first call is the connection preface.
GreetedInv == calls = <<>> <=> conn = "preface"

IInv ==
    /\ TypeOK
    /\ OpenedInv
    /\ BlockInv
    /\ GreetedInv

\* A stream that its client has not ended is in the table, unless a GOAWAY came
\* after it.
ClearedInv ==
    conn # "gone" => \A s \in Stream :
        /\ s \in cleared => req[s] # None
        /\ req[s] # None /\ s \notin ended =>
               (streams[s] = None <=> s \in cleared)

\* The decoder and the fragments it has not been given yet make up what the
\* client has encoded, and a stream whose block is complete has its request.
SyncInv ==
    /\ HpackInSync
    /\ block # None /\ conn # "gone" =>
           /\ streams[block] # None
           /\ streams[block].path = None
           /\ decoded \o streams[block].frags = Upto(sent)
    /\ \A s \in Stream : streams[s] # None /\ block # s =>
           /\ streams[s].path = req[s]
           /\ streams[s].frags = <<>>
    /\ OpenMeansBlock
    /\ ClearedInv

\* The reply of s, in one piece.
Once(s) == \E n \in Out(s) : Out(s) = {n, n + 1} /\ WholeAt(s, n)

\* The reply to its request and the one to its trailers.
Twice(s) ==
    \E m, n \in Out(s) : /\ Out(s) = {m, m + 1, n, n + 1} /\ m + 1 < n
                         /\ WholeAt(s, m) /\ WholeAt(s, n)

\* The request of s is whole.
Complete(s) == req[s] # None /\ block # s

\* How often a stream has been answered, by what its client has sent.
AnswerInv ==
    ~broken => \A s \in Stream :
        /\ ~Complete(s) => Out(s) = {}
        /\ Complete(s) => Out(s) # {} \/ s \in failed
        /\ Out(s) = {} \/ Once(s) \/ (s \in trailed /\ Twice(s))

-----------------------------------------------------------------------------
(* Sequences. *)

USE RequestAssumption, BoundsAssumption, NoneAssumption DEF Stream

\* The first n fragments are a sequence.
LEMMA UptoType ==
    ASSUME NEW n \in Nat, NEW m \in Nat, n <= m
    PROVE  Upto(n) \in Seq(1..m) /\ Len(Upto(n)) = n
  BY DEF Upto

\* One more fragment.
LEMMA UptoNext ==
    ASSUME NEW n \in Nat
    PROVE  Upto(n) \o <<n + 1>> = Upto(n + 1)
<1>1. Upto(n) \in Seq(Nat) /\ Len(Upto(n)) = n /\ <<n + 1>> \in Seq(Nat)
  BY UptoType DEF Upto
<1>2. Upto(n + 1) \in Seq(Nat) /\ Len(Upto(n + 1)) = n + 1
  BY DEF Upto
<1>3. Upto(n) \o <<n + 1>> \in Seq(Nat) /\ Len(Upto(n) \o <<n + 1>>) = n + 1
  BY <1>1
<1>4. \A i \in 1..(n + 1) : (Upto(n) \o <<n + 1>>)[i] = Upto(n + 1)[i]
  BY <1>1 DEF Upto
<1>5. QED
  BY <1>2, <1>3, <1>4, SeqEqual

\* A fragment appended to what is waiting is appended to all.
LEMMA AppendBehind ==
    ASSUME NEW S, NEW t \in Seq(S), NEW u \in Seq(S), NEW e \in S
    PROVE  t \o Append(u, e) = (t \o u) \o <<e>>
<1>1. Append(u, e) = u \o <<e>>
  BY AppendIsConcat
<1>2. <<e>> \in Seq(S)
  OBVIOUS
<1>3. QED
  BY <1>1, <1>2, ConcatAssociative

-----------------------------------------------------------------------------
(* Writing. *)

\* Only frames of stream t were written in this step.
NewOn(t) == \A i \in DOMAIN wire' \ DOMAIN wire : wire'[i].id = t

\* A write puts a beginning of its frames on the wire, and nothing else.
LEMMA SendGrows ==
    ASSUME NEW frames \in Seq(Frame), wire \in Seq(Frame), broken \in BOOLEAN,
           Send(frames)
    PROVE  /\ wire' \in Seq(Frame)
           /\ broken' \in BOOLEAN
           /\ \A i \in DOMAIN wire' \ DOMAIN wire :
                  \E j \in DOMAIN frames : wire'[i] = frames[j]
<1>1. CASE wire' = wire \o frames /\ broken' = broken
  BY <1>1
<1>2. CASE \E n \in 0..(Len(frames) - 1) :
               wire' = wire \o SubSeq(frames, 1, n) /\ broken' = TRUE
  <2>1. PICK n \in 0..(Len(frames) - 1) :
            wire' = wire \o SubSeq(frames, 1, n) /\ broken' = TRUE
    BY <1>2
  <2>2. /\ SubSeq(frames, 1, n) \in Seq(Frame)
        /\ Len(SubSeq(frames, 1, n)) = n
        /\ \A j \in 1..n : SubSeq(frames, 1, n)[j] = frames[j]
    BY <2>1, SubSeqProperties
  <2> DEFINE part == SubSeq(frames, 1, n)
  <2> HIDE DEF part
  <2>3. /\ part \in Seq(Frame) /\ wire' = wire \o part /\ Len(part) = n
        /\ \A j \in 1..n : part[j] = frames[j]
    BY <2>1, <2>2 DEF part
  <2>4. wire' \in Seq(Frame)
    BY <2>3, ConcatProperties
  <2>5. \A i \in DOMAIN wire' \ DOMAIN wire :
            i - Len(wire) \in 1..n /\ wire'[i] = part[i - Len(wire)]
    BY <2>3
  <2>6. 1..n \subseteq DOMAIN frames
    BY <2>1
  <2>7. QED
    BY <2>1, <2>3, <2>4, <2>5, <2>6
<1>3. CASE UNCHANGED <<wire, broken>>
  BY <1>3
<1>4. QED
  BY <1>1, <1>2, <1>3 DEF Send

\* A reply is two frames of its stream.
LEMMA ReplyType ==
    ASSUME NEW s \in Stream, NEW status \in {"200", "404"}
    PROVE  /\ Reply(s, status) \in Seq(Frame)
           /\ Len(Reply(s, status)) = 2
           /\ \A j \in DOMAIN Reply(s, status) : Reply(s, status)[j].id = s
  BY DEF Reply, Frame

\* What is added to the wire while writes succeed: nothing, a whole reply, or
\* the answer to a control frame.
Pieces ==
    ~broken' =>
        \/ UNCHANGED <<wire, broken>>
        \/ /\ ~broken
           /\ \E s \in Stream, status \in {"200", "404"} :
                  wire' = wire \o Reply(s, status)
        \/ /\ ~broken
           /\ \E kind \in {"SETTINGS", "SETTINGS_ACK", "PING_ACK"} :
                  wire' = wire \o <<[kind |-> kind, id |-> 0]>>

\* An answer is written on its own stream only,
LEMMA ReplyGrows ==
    ASSUME NEW s \in Stream, NEW status \in {"200", "404"},
           wire \in Seq(Frame), broken \in BOOLEAN, Send(Reply(s, status))
    PROVE  wire' \in Seq(Frame) /\ broken' \in BOOLEAN /\ NewOn(s) /\ Pieces
<1>1. wire' \in Seq(Frame) /\ broken' \in BOOLEAN /\ NewOn(s)
  BY ReplyType, SendGrows DEF NewOn
<1>2. Pieces
  BY DEF Send, Pieces
<1>3. QED
  BY <1>1, <1>2

\* and so is what a failure of the file system leaves of it.
LEMMA AnswerGrows ==
    ASSUME NEW s \in Stream, NEW path \in Request \union {None},
           wire \in Seq(Frame), broken \in BOOLEAN, failed \subseteq Stream,
           Answer(s, path)
    PROVE  /\ wire' \in Seq(Frame) /\ broken' \in BOOLEAN /\ NewOn(s) /\ Pieces
           /\ failed \subseteq failed' /\ failed' \subseteq Stream
<1>1. CASE UNCHANGED <<wire, broken>>
  BY <1>1 DEF Answer, FileSystemFails, NewOn, Pieces
<1>2. ASSUME NEW status \in {"200", "404"}, Send(Reply(s, status))
      PROVE  wire' \in Seq(Frame) /\ broken' \in BOOLEAN /\ NewOn(s) /\ Pieces
  BY <1>2, ReplyGrows
<1>3. failed \subseteq failed' /\ failed' \subseteq Stream
  BY DEF Answer, FileSystemFails
<1>4. UNCHANGED <<wire, broken>> \/ \E status \in {"200", "404"} : Send(Reply(s, status))
  BY DEF Answer, FileSystemFails
<1>5. QED
  BY <1>1, <1>2, <1>3, <1>4

\* What answers a control frame is written on no stream.
LEMMA ControlGrows ==
    ASSUME NEW kind \in {"SETTINGS", "SETTINGS_ACK", "PING_ACK"},
           wire \in Seq(Frame), broken \in BOOLEAN,
           Send(<<[kind |-> kind, id |-> 0]>>)
    PROVE  wire' \in Seq(Frame) /\ broken' \in BOOLEAN /\ NewOn(0) /\ Pieces
<1> DEFINE frames == <<[kind |-> kind, id |-> 0]>>
<1>1. frames \in Seq(Frame) /\ \A j \in DOMAIN frames : frames[j].id = 0
  BY DEF Frame
<1>2. Send(frames)
  OBVIOUS
<1>3. Pieces
  BY DEF Send, Pieces
<1> HIDE DEF frames
<1>4. QED
  BY <1>1, <1>2, <1>3, SendGrows DEF NewOn

-----------------------------------------------------------------------------
(* The handlers, as far as they do not depend on what the decoder finds. *)

\* A handler of a frame on stream s changes no other stream and writes on none.
Effect(s) ==
    /\ streams' \in [Stream -> StreamRecord \union {None}]
    /\ \A t \in Stream \ {s} : streams'[t] = streams[t]
    /\ decoded' \in Seq(1..MaxFrags)
    /\ wire' \in Seq(Frame)
    /\ broken' \in BOOLEAN
    /\ failed \subseteq failed' /\ failed' \subseteq Stream
    /\ NewOn(s)
    /\ Pieces

\* The stream behind a header block that is complete.
Finished(strm, path) ==
    [strm EXCEPT !.state = "HALF_CLOSED_REMOTE", !.frags = <<>>, !.path = path]

\* A stream whose block was decoded.
LEMMA FinishedType ==
    ASSUME NEW strm \in StreamRecord, NEW path \in Request \union {None}
    PROVE  /\ Finished(strm, path) \in StreamRecord
           /\ Finished(strm, path).state = "HALF_CLOSED_REMOTE"
           /\ Finished(strm, path).frags = <<>>
           /\ Finished(strm, path).path = path
<1>1. <<>> \in Seq(1..MaxFrags)
  OBVIOUS
<1>2. QED
  BY <1>1 DEF Finished, StreamRecord

\* The stream that an exception of the decoder leaves behind.
LEMMA ThrownType ==
    ASSUME NEW strm \in StreamRecord, NEW path \in Request \union {None}
    PROVE  /\ [strm EXCEPT !.path = path] \in StreamRecord
           /\ [strm EXCEPT !.path = path].state = strm.state
  BY DEF StreamRecord

\* processEndHeader touches one stream, and makes none IDLE.
LEMMA EndHeaderEffect ==
    ASSUME TypeOK, NEW s \in Stream, NEW strm \in StreamRecord,
           NEW erase \in BOOLEAN, req'[s] \in Request, strm.state # "IDLE",
           processEndHeader(s, strm, erase)
    PROVE  /\ Effect(s)
           /\ streams'[s] # None => streams'[s].state # "IDLE"
<1>1. decoded' \in Seq(1..MaxFrags)
  <2>1. decoded \in Seq(1..MaxFrags) /\ strm.frags \in Seq(1..MaxFrags)
    BY DEF TypeOK, StreamRecord
  <2>2. decoded' = decoded \o strm.frags
    BY DEF processEndHeader
  <2>3. QED
    BY <2>1, <2>2, ConcatProperties
<1>2. Decoded(s, strm) \subseteq Request \union {None}
  BY DEF Decoded, StreamRecord
<1>3. ASSUME NEW new \in StreamRecord, new.state # "IDLE", Store(s, new, erase)
      PROVE  /\ streams' \in [Stream -> StreamRecord \union {None}]
             /\ \A t \in Stream \ {s} : streams'[t] = streams[t]
             /\ streams'[s] # None => streams'[s].state # "IDLE"
  BY <1>3 DEF TypeOK, Store
<1>4. ASSUME NEW path \in Decoded(s, strm),
             Store(s, Finished(strm, path), erase), Answer(s, path)
      PROVE  Effect(s) /\ (streams'[s] # None => streams'[s].state # "IDLE")
  <2>1. Finished(strm, path) \in StreamRecord /\ Finished(strm, path).state # "IDLE"
    BY <1>2, FinishedType
  <2>2. /\ wire' \in Seq(Frame) /\ broken' \in BOOLEAN /\ NewOn(s) /\ Pieces
        /\ failed \subseteq failed' /\ failed' \subseteq Stream
    BY <1>2, <1>4, AnswerGrows DEF TypeOK
  <2>3. QED
    BY <1>1, <1>3, <1>4, <2>1, <2>2 DEF Effect
<1>5. ASSUME NEW path \in Decoded(s, strm),
             Store(s, [strm EXCEPT !.path = path], erase),
             UNCHANGED <<wire, broken, failed>>
      PROVE  Effect(s) /\ (streams'[s] # None => streams'[s].state # "IDLE")
  <2>1. /\ [strm EXCEPT !.path = path] \in StreamRecord
        /\ [strm EXCEPT !.path = path].state # "IDLE"
    BY <1>2, ThrownType
  <2>2. wire' \in Seq(Frame) /\ broken' \in BOOLEAN /\ failed' \subseteq Stream
    BY <1>5 DEF TypeOK
  <2>3. NewOn(s) /\ Pieces /\ failed \subseteq failed'
    BY <1>5 DEF NewOn, Pieces
  <2>4. QED
    BY <1>1, <1>3, <1>5, <2>1, <2>2, <2>3 DEF Effect
<1>6. \/ \E path \in Decoded(s, strm) :
            Store(s, Finished(strm, path), erase) /\ Answer(s, path)
      \/ \E path \in Decoded(s, strm) :
            /\ Store(s, [strm EXCEPT !.path = path], erase)
            /\ UNCHANGED <<wire, broken, failed>>
  BY DEF processEndHeader, DecoderThrows, Finished
<1>7. QED
  BY <1>4, <1>5, <1>6

\* A block that goes on is stored, or lost with its stream.
LEMMA KeepEffect ==
    ASSUME TypeOK, NEW s \in Stream, NEW strm \in StreamRecord,
           NEW erase \in BOOLEAN, KeepBlock(s, strm, erase)
    PROVE  /\ Effect(s)
           /\ streams'[s] = IF erase THEN None ELSE strm
  BY DEF KeepBlock, Store, Effect, TypeOK, NewOn, Pieces

\* A stream with one more fragment.
Fragment(strm) == [strm EXCEPT !.frags = Append(@, sent + 1)]

\* The fragment is added behind those the stream has.
LEMMA FragmentType ==
    ASSUME NEW strm \in StreamRecord, sent \in Nat, sent < MaxFrags
    PROVE  /\ Fragment(strm) \in StreamRecord
           /\ Fragment(strm).state = strm.state
           /\ Fragment(strm).path = strm.path
           /\ Fragment(strm).frags = Append(strm.frags, sent + 1)
<1>1. Append(strm.frags, sent + 1) \in Seq(1..MaxFrags)
  BY DEF StreamRecord
<1>2. QED
  BY <1>1 DEF Fragment, StreamRecord

\* The stream of HEADERS before its frame is looked into.
Opened(s) ==
    [IF streams[s] = None THEN NewStream ELSE streams[s] EXCEPT !.state = "OPEN"]

\* HEADERS opens a new stream or reopens the one in the table.
LEMMA OpenedType ==
    ASSUME TypeOK, NEW s \in Stream
    PROVE  /\ Opened(s) \in StreamRecord
           /\ Opened(s).state = "OPEN"
           /\ streams[s] = None => Opened(s).path = None /\ Opened(s).frags = <<>>
           /\ streams[s] # None => /\ Opened(s).path = streams[s].path
                                   /\ Opened(s).frags = streams[s].frags
<1>1. NewStream \in StreamRecord
  BY DEF NewStream, StreamRecord
<1>2. streams[s] # None => streams[s] \in StreamRecord
  BY DEF TypeOK
<1>3. QED
  BY <1>1, <1>2 DEF Opened, NewStream, StreamRecord

\* What handleHeadersFrame does, by END_HEADERS.
LEMMA HeadersHandled ==
    ASSUME TypeOK, NEW s \in Stream, NEW endHeaders \in BOOLEAN,
           NEW endStream \in BOOLEAN, handleHeadersFrame(s, endHeaders, endStream)
    PROVE  IF endHeaders
           THEN processEndHeader(s, Fragment(Opened(s)), endStream)
           ELSE KeepBlock(s, Fragment(Opened(s)), endStream)
<1> DEFINE old  == IF streams[s] = None THEN NewStream ELSE streams[s]
           strm == [old EXCEPT !.state = "OPEN", !.frags = Append(@, sent + 1)]
<1>1. old \in StreamRecord
  BY DEF TypeOK, NewStream, StreamRecord
<1>2. strm = Fragment(Opened(s))
  BY <1>1 DEF Fragment, Opened, StreamRecord
<1>3. IF endHeaders THEN processEndHeader(s, strm, endStream)
                    ELSE KeepBlock(s, strm, endStream)
  BY DEF handleHeadersFrame
<1> HIDE DEF strm
<1>4. QED
  BY <1>2, <1>3

\* handleHeadersFrame touches one stream, which it makes other than IDLE.
LEMMA HeadersEffect ==
    ASSUME TypeOK, NEW s \in Stream, NEW endHeaders \in BOOLEAN,
           NEW endStream \in BOOLEAN, sent < MaxFrags, req'[s] \in Request,
           handleHeadersFrame(s, endHeaders, endStream)
    PROVE  /\ Effect(s)
           /\ streams'[s] # None => streams'[s].state # "IDLE"
<1>1. Opened(s) \in StreamRecord /\ Opened(s).state = "OPEN" /\ sent \in Nat
  BY OpenedType DEF TypeOK
<1>2. /\ Fragment(Opened(s)) \in StreamRecord
      /\ Fragment(Opened(s)).state = "OPEN"
  BY <1>1, FragmentType
<1>3. QED
  BY <1>2, HeadersHandled, EndHeaderEffect, KeepEffect

\* handleContinuationFrame touches one stream, if it is in the table and open.
LEMMA ContinuationEffect ==
    ASSUME TypeOK, NEW s \in Stream, NEW endHeaders \in BOOLEAN,
           sent < MaxFrags, req'[s] \in Request,
           streams[s] # None => streams[s].state # "IDLE",
           handleContinuationFrame(s, endHeaders)
    PROVE  /\ Effect(s)
           /\ streams'[s] # None => streams'[s].state # "IDLE"
<1>1. CASE streams[s] = None
  BY <1>1 DEF handleContinuationFrame, Unhandled, Effect, NewOn, TypeOK, Pieces
<1>2. CASE streams[s] # None
  <2>1. streams[s] \in StreamRecord
    BY <1>2 DEF TypeOK
  <2>2. /\ Fragment(streams[s]) \in StreamRecord
        /\ Fragment(streams[s]).state = streams[s].state
    BY <2>1, FragmentType DEF TypeOK
  <2>3. IF endHeaders THEN processEndHeader(s, Fragment(streams[s]), FALSE)
                      ELSE KeepBlock(s, Fragment(streams[s]), FALSE)
    BY <1>2 DEF handleContinuationFrame, Fragment
  <2>4. QED
    BY <1>2, <2>2, <2>3, EndHeaderEffect, KeepEffect
<1>3. QED
  BY <1>1, <1>2

-----------------------------------------------------------------------------
(* IInv is inductive, and no step writes on a stream that is reset, or *)
(* anything but whole replies.                                         *)

Quiet == \A i \in DOMAIN wire' \ DOMAIN wire : wire'[i].id \notin reset'

Proper == Quiet /\ Pieces /\ failed \subseteq failed'

\* A new connection satisfies IInv.
LEMMA InitIInv == Init => IInv
<1> SUFFICES ASSUME Init PROVE IInv
  OBVIOUS
<1>1. <<>> \in Seq(Call) /\ <<>> \in Seq(1..MaxFrags) /\ <<>> \in Seq(Frame)
  BY EmptySeq
<1>2. /\ req \in [Stream -> Request \union {None}]
      /\ streams \in [Stream -> StreamRecord \union {None}]
  BY DEF Init
<1>3. TypeOK
  <2>1. /\ reset \union trailed \subseteq ended
        /\ ended \union cleared \union failed \subseteq Stream
    BY DEF Init
  <2>2. block \in Stream \union {None} /\ sent \in 0..MaxFrags
    BY DEF Init
  <2>3. calls \in Seq(Call) /\ decoded \in Seq(1..MaxFrags) /\ wire \in Seq(Frame)
    BY <1>1 DEF Init
  <2>4. conn \in {"preface", "open", "closing", "gone"} /\ broken \in BOOLEAN
    BY DEF Init
  <2>5. QED
    BY <1>2, <2>1, <2>2, <2>3, <2>4 DEF TypeOK
<1>4. QED
  BY <1>3 DEF Init, IInv, OpenedInv, BlockInv, GreetedInv

\* One more call.
LEMMA AskType ==
    ASSUME TypeOK, NEW call \in Call, calls' = Append(calls, call)
    PROVE  calls' \in Seq(Call) /\ calls' # <<>>
<1>1. calls \in Seq(Call)
  BY DEF TypeOK
<1>2. QED
  BY <1>1, AppendProperties

\* The preface keeps IInv.
LEMMA PrefaceIInv == ASSUME IInv, Preface PROVE IInv' /\ Proper
<1>1. TypeOK' /\ Proper /\ GreetedInv'
  <2>1. [id |-> 0, wants |-> "SETTINGS"] \in Call
    BY DEF Call
  <2>2. calls' \in Seq(Call) /\ calls' # <<>>
    BY <2>1, AskType DEF Preface, Ask, IInv
  <2>3. wire' \in Seq(Frame) /\ broken' \in BOOLEAN /\ NewOn(0) /\ Pieces
    BY ControlGrows DEF Preface, IInv, TypeOK
  <2>4. QED
    BY <2>2, <2>3 DEF Preface, IInv, TypeOK, Proper, Quiet, NewOn, GreetedInv
<1>2. QED
  BY <1>1 DEF Preface, IInv, OpenedInv, BlockInv

\* SETTINGS and PING frames change no stream.
LEMMA ControlIInv == ASSUME IInv, Settings \/ Ping PROVE IInv' /\ Proper
<1>1. PICK kind \in {"SETTINGS_ACK", "PING_ACK"} :
          Ask(0, kind) /\ Send(<<[kind |-> kind, id |-> 0]>>)
  BY DEF Settings, Ping, handleSettingsFrame, handlePingFrame
<1>2. conn' = conn /\ conn # "preface"
      /\ UNCHANGED <<req, ended, reset, trailed, cleared, block, sent>>
      /\ UNCHANGED <<streams, decoded, failed>>
  BY DEF Settings, Ping, handleSettingsFrame, handlePingFrame, BetweenBlocks, Talking
<1>3. TypeOK' /\ Proper /\ GreetedInv'
  <2>1. [id |-> 0, wants |-> kind] \in Call
    BY DEF Call
  <2>2. calls' \in Seq(Call) /\ calls' # <<>>
    BY <1>1, <2>1, AskType DEF Ask, IInv
  <2>3. wire' \in Seq(Frame) /\ broken' \in BOOLEAN /\ NewOn(0) /\ Pieces
    BY <1>1, ControlGrows DEF IInv, TypeOK
  <2>4. QED
    BY <1>2, <2>2, <2>3 DEF IInv, TypeOK, Proper, Quiet, NewOn, GreetedInv
<1>4. QED
  BY <1>2, <1>3 DEF IInv, OpenedInv, BlockInv

\* the HEADERS frame of a request,
LEMMA HeadersIInv ==
    ASSUME IInv, NEW s \in Stream, NEW r \in Request,
           NEW endHeaders \in BOOLEAN, NEW endStream \in BOOLEAN,
           Headers(s, r, endHeaders, endStream)
    PROVE  IInv' /\ Proper
<1> USE DEF IInv
<1>1. /\ block = None /\ conn \in {"open", "closing"} /\ UNCHANGED conn
      /\ req[s] = None /\ sent < MaxFrags
      /\ s \notin ended /\ UNCHANGED <<reset, trailed, cleared>>
      /\ req' = [req EXCEPT ![s] = r]
      /\ ended' = IF endStream THEN ended \union {s} ELSE ended
      /\ block' = IF endHeaders THEN None ELSE s
      /\ sent' = sent + 1
      /\ endHeaders \/ sent + 1 < MaxFrags
  BY DEF Headers, BetweenBlocks, Talking, OpenedInv, MaySplit
<1>2. req'[s] = r
  BY <1>1 DEF TypeOK
<1>3. Effect(s) /\ (streams'[s] # None => streams'[s].state # "IDLE")
  BY <1>1, <1>2, HeadersEffect DEF Headers
<1>4. calls' \in Seq(Call) /\ calls' # <<>>
  <2>1. calls # <<>>
    BY <1>1 DEF GreetedInv
  <2>2. [id |-> s, wants |-> r] \in Call
    BY DEF Call
  <2>3. QED
    BY <2>1, <2>2, AskType DEF Headers, Ask, TypeOK
<1>5. TypeOK' /\ GreetedInv'
  <2>1. /\ ended' \union cleared' \subseteq Stream
        /\ reset' \union trailed' \subseteq ended'
    BY <1>1 DEF TypeOK
  <2>2. /\ req' \in [Stream -> Request \union {None}]
        /\ block' \in Stream \union {None} /\ sent' \in 0..MaxFrags
    BY <1>1 DEF TypeOK
  <2>3. conn' \in {"preface", "open", "closing", "gone"} /\ conn' # "preface"
    BY <1>1
  <2>4. QED
    BY <1>3, <1>4, <2>1, <2>2, <2>3 DEF TypeOK, GreetedInv, Effect
<1>6. OpenedInv' /\ BlockInv'
  BY <1>1, <1>2, <1>3 DEF TypeOK, OpenedInv, BlockInv, Effect
<1>7. Proper
  BY <1>1, <1>3 DEF TypeOK, Proper, Quiet, Effect, NewOn
<1>8. QED
  BY <1>5, <1>6, <1>7

\* that of its trailers,
LEMMA TrailersIInv ==
    ASSUME IInv, NEW s \in Stream, Trailers(s)
    PROVE  IInv' /\ Proper
<1> USE DEF IInv
<1>1. /\ block = None /\ conn \in {"open", "closing"} /\ UNCHANGED <<conn, block>>
      /\ req[s] \in Request /\ sent < MaxFrags
      /\ s \notin ended /\ UNCHANGED <<req, reset, cleared>>
      /\ ended' = ended \union {s} /\ trailed' = trailed \union {s}
      /\ sent' = sent + 1
  BY DEF Trailers, BetweenBlocks, Talking, TypeOK
<1>2. Effect(s) /\ (streams'[s] # None => streams'[s].state # "IDLE")
  BY <1>1, HeadersEffect DEF Trailers
<1>3. calls' \in Seq(Call) /\ calls' # <<>>
  <2>1. calls # <<>>
    BY <1>1 DEF GreetedInv
  <2>2. [id |-> s, wants |-> req[s]] \in Call
    BY <1>1 DEF Call
  <2>3. QED
    BY <2>1, <2>2, AskType DEF Trailers, Ask, TypeOK
<1>4. TypeOK' /\ GreetedInv'
  <2>1. /\ ended' \union cleared' \subseteq Stream
        /\ reset' \union trailed' \subseteq ended'
    BY <1>1 DEF TypeOK
  <2>2. /\ req' \in [Stream -> Request \union {None}]
        /\ block' \in Stream \union {None} /\ sent' \in 0..MaxFrags
    BY <1>1 DEF TypeOK
  <2>3. conn' \in {"preface", "open", "closing", "gone"} /\ conn' # "preface"
    BY <1>1
  <2>4. QED
    BY <1>2, <1>3, <2>1, <2>2, <2>3 DEF TypeOK, GreetedInv, Effect
<1>5. OpenedInv' /\ BlockInv'
  BY <1>1, <1>2 DEF TypeOK, OpenedInv, BlockInv, Effect
<1>6. Proper
  BY <1>1, <1>2 DEF TypeOK, Proper, Quiet, Effect, NewOn
<1>7. QED
  BY <1>4, <1>5, <1>6

\* a CONTINUATION,
LEMMA ContinuationIInv ==
    ASSUME IInv, NEW endHeaders \in BOOLEAN, Continuation(endHeaders)
    PROVE  IInv' /\ Proper
<1> USE DEF IInv
<1>1. PICK s \in Stream : s = block
  BY DEF Continuation, TypeOK
<1>2. /\ conn \in {"open", "closing"} /\ UNCHANGED conn
      /\ req[s] \in Request /\ sent < MaxFrags /\ s \notin reset
      /\ UNCHANGED <<req, ended, reset, trailed, cleared>>
      /\ block' = IF endHeaders THEN None ELSE s
      /\ sent' = sent + 1
      /\ endHeaders \/ sent + 1 < MaxFrags
      /\ IF endHeaders THEN Ask(s, req[s]) ELSE UNCHANGED calls
  BY <1>1 DEF Continuation, Talking, TypeOK, BlockInv, Ask
<1>3. handleContinuationFrame(s, endHeaders)
  BY <1>1 DEF Continuation
<1>4. Effect(s) /\ (streams'[s] # None => streams'[s].state # "IDLE")
  BY <1>2, <1>3, ContinuationEffect DEF OpenedInv
<1>5. calls' \in Seq(Call) /\ calls' # <<>>
  <2>1. calls # <<>>
    BY <1>2 DEF GreetedInv
  <2>2. [id |-> s, wants |-> req[s]] \in Call
    BY <1>2 DEF Call
  <2>3. QED
    BY <1>2, <2>1, <2>2, AskType DEF Ask, TypeOK
<1>6. TypeOK' /\ GreetedInv'
  <2>1. block' \in Stream \union {None} /\ sent' \in 0..MaxFrags
    BY <1>2 DEF TypeOK
  <2>2. conn' \in {"preface", "open", "closing", "gone"} /\ conn' # "preface"
    BY <1>2
  <2>3. QED
    BY <1>2, <1>4, <1>5, <2>1, <2>2 DEF TypeOK, GreetedInv, Effect
<1>7. OpenedInv' /\ BlockInv'
  BY <1>1, <1>2, <1>4 DEF TypeOK, OpenedInv, BlockInv, Effect
<1>8. Proper
  BY <1>2, <1>4 DEF TypeOK, Proper, Quiet, Effect, NewOn
<1>9. QED
  BY <1>6, <1>7, <1>8

\* DATA, RST_STREAM, GOAWAY and the end of the client write nothing.
LEMMA SilentIInv ==
    ASSUME IInv,
           \/ \E s \in Stream, endStream \in BOOLEAN : Data(s, endStream)
           \/ \E s \in Stream : RstStream(s)
           \/ handleGoAwayFrame
           \/ Removed
    PROVE  IInv' /\ Proper
<1> USE DEF IInv
<1>1. ASSUME NEW s \in Stream, NEW endStream \in BOOLEAN, Data(s, endStream)
      PROVE  IInv'
  <2>1. /\ block = None /\ req[s] # None
        /\ ended' = IF endStream THEN ended \union {s} ELSE ended
        /\ UNCHANGED <<req, reset, trailed, cleared, block, sent, calls, conn>>
        /\ UNCHANGED <<decoded, wire, broken, failed>>
    BY <1>1 DEF Data, BetweenBlocks, handleDataFrame, KeepBlock, Unhandled
  <2> DEFINE new == [streams[s] EXCEPT !.data = TRUE]
  <2>2. streams[s] # None => new \in StreamRecord /\ new.state = streams[s].state
    BY DEF TypeOK, StreamRecord
  <2>3. Unhandled \/ (streams[s] # None /\ KeepBlock(s, new, FALSE))
    BY <1>1 DEF Data, handleDataFrame
  <2> HIDE DEF new
  <2>4. \/ UNCHANGED streams
        \/ streams[s] # None /\ streams' = [streams EXCEPT ![s] = new]
    BY <2>3 DEF KeepBlock, Store, Unhandled
  <2>5. /\ streams' \in [Stream -> StreamRecord \union {None}]
        /\ \A t \in Stream : streams[t] = None => streams'[t] = None
        /\ \A t \in Stream : streams'[t] # None => streams'[t].state # "IDLE"
    <3>1. /\ streams \in [Stream -> StreamRecord \union {None}]
          /\ \A t \in Stream : streams[t] # None => streams[t].state # "IDLE"
      BY DEF TypeOK, OpenedInv
    <3>2. QED
      BY <2>2, <2>4, <3>1
  <2>6. QED
    BY <2>1, <2>5 DEF TypeOK, OpenedInv, BlockInv, GreetedInv
<1>2. ASSUME NEW s \in Stream, RstStream(s)
      PROVE  IInv'
  <2>1. /\ block = None /\ req[s] # None
        /\ ended' = ended \union {s} /\ reset' = reset \union {s}
        /\ UNCHANGED <<req, trailed, cleared, block, sent, calls, conn>>
        /\ streams' = [streams EXCEPT ![s] = None]
        /\ UNCHANGED <<decoded, wire, broken, failed>>
    BY <1>2 DEF RstStream, BetweenBlocks, handleResetFrame, Store
  <2>2. QED
    BY <2>1 DEF TypeOK, OpenedInv, BlockInv, GreetedInv
<1>3. ASSUME handleGoAwayFrame \/ Removed PROVE IInv'
  <2>1. /\ UNCHANGED <<req, ended, reset, trailed, block, sent, calls>>
        /\ UNCHANGED <<decoded, wire, broken, failed>>
        /\ cleared \subseteq Stream => cleared' \subseteq Stream
    BY <1>3 DEF handleGoAwayFrame, Removed, clientVars
  <2>2. streams' = [s \in Stream |-> None]
    BY <1>3 DEF handleGoAwayFrame, Removed
  <2>3. conn \in {"open", "closing"} /\ conn' \in {"closing", "gone"}
    BY <1>3 DEF handleGoAwayFrame, Removed, BetweenBlocks, Talking
  <2>4. /\ streams' \in [Stream -> StreamRecord \union {None}]
        /\ \A s \in Stream : streams'[s] = None
    BY <2>2
  <2>5. conn' \in {"preface", "open", "closing", "gone"} /\ conn' # "preface"
    BY <2>3
  <2>6. TypeOK'
    BY <2>1, <2>4, <2>5 DEF TypeOK
  <2>7. QED
    BY <2>1, <2>3, <2>4, <2>5, <2>6
       DEF OpenedInv, BlockInv, GreetedInv
<1>4. UNCHANGED <<wire, broken, failed>>
  <2>1. ASSUME NEW s \in Stream, NEW endStream \in BOOLEAN, Data(s, endStream)
        PROVE  UNCHANGED <<wire, broken, failed>>
    BY <2>1 DEF Data, handleDataFrame, KeepBlock, Unhandled
  <2>2. QED
    BY <2>1 DEF RstStream, handleResetFrame, handleGoAwayFrame, Removed
<1>5. QED
  BY <1>1, <1>2, <1>3, <1>4 DEF Proper, Quiet, Pieces

\* Every step keeps IInv and writes whole replies, none on a stream reset.
LEMMA NextIInv == IInv /\ [Next]_vars => IInv' /\ Proper
<1> SUFFICES ASSUME IInv, [Next]_vars PROVE IInv' /\ Proper
  OBVIOUS
<1>1. CASE UNCHANGED vars
  BY <1>1 DEF vars, clientVars, serverVars, IInv, TypeOK, OpenedInv, BlockInv,
              GreetedInv, Proper, Quiet, Pieces
<1>2. CASE Gone
  BY <1>1, <1>2 DEF Gone
<1>3. CASE \E s \in Stream, r \in Request, eh, es \in BOOLEAN : Headers(s, r, eh, es)
  BY <1>3, HeadersIInv
<1>4. CASE \E s \in Stream : Trailers(s)
  BY <1>4, TrailersIInv
<1>5. CASE \E eh \in BOOLEAN : Continuation(eh)
  BY <1>5, ContinuationIInv
<1>6. QED
  BY <1>1, <1>2, <1>3, <1>4, <1>5, PrefaceIInv, ControlIInv, SilentIInv DEF Next

\* IInv holds in every reachable state of a connection, for every client.
THEOREM Invariance == Spec => []IInv
<1>1. QED
  BY InitIInv, NextIInv, PTL DEF Spec

\* Every variable of a connection has its type.
THEOREM TypeCorrect == Spec => []TypeOK
<1>1. IInv => TypeOK
  BY DEF IInv
<1>2. QED
  BY <1>1, Invariance, PTL

\* Nothing is written on a stream from its reset on, for every client.
THEOREM ResetsAreFinal == Spec => ResetIsFinal
<1>1. IInv /\ [Next]_vars =>
          [\A i \in DOMAIN wire' \ DOMAIN wire : wire'[i].id \notin reset']_vars
  BY NextIInv DEF Proper, Quiet
<1>2. QED
  BY <1>1, Invariance, PTL DEF Spec, ResetIsFinal

\* What NoHalfReply says of the frame at i.
KeptAt(i) ==
    /\ wire[i].kind \in {"200", "404"} =>
           i + 1 \in DOMAIN wire /\ wire[i + 1] = [kind |-> "END", id |-> wire[i].id]
    /\ wire[i].kind = "END" =>
           /\ i - 1 \in DOMAIN wire
           /\ wire[i - 1] \in [kind : {"200", "404"}, id : {wire[i].id}]

\* A whole reply behind whole replies.
LEMMA PieceKeeps ==
    ASSUME wire \in Seq(Frame), ~broken, NoHalfReply, NEW frames \in Seq(Frame),
           wire' = wire \o frames,
           \/ \E s \in Stream, status \in {"200", "404"} : frames = Reply(s, status)
           \/ \E kind \in {"SETTINGS", "SETTINGS_ACK", "PING_ACK"} :
                 frames = <<[kind |-> kind, id |-> 0]>>,
           NEW n, n = Len(wire)
    PROVE  NoHalfReply'
<1>1. /\ n \in Nat /\ DOMAIN wire = 1..n
      /\ Len(frames) \in Nat /\ DOMAIN wire' = 1..(n + Len(frames))
      /\ \A i \in 1..n : wire'[i] = wire[i]
      /\ \A i \in 1..Len(frames) : wire'[n + i] = frames[i]
  BY ConcatProperties
<1>2. \A i \in 1..n : KeptAt(i)'
  <2> TAKE i \in 1..n
  <2>1. wire'[i] = wire[i] /\ 1..n \subseteq DOMAIN wire'
    BY <1>1
  <2>2. KeptAt(i)
    BY <1>1 DEF NoHalfReply, KeptAt
  <2>3. /\ i + 1 \in 1..n => wire'[i + 1] = wire[i + 1]
        /\ i - 1 \in 1..n => wire'[i - 1] = wire[i - 1]
    BY <1>1
  <2>4. QED
    BY <1>1, <2>1, <2>2, <2>3 DEF KeptAt
<1>3. CASE \E s \in Stream, status \in {"200", "404"} : frames = Reply(s, status)
  <2>1. PICK s \in Stream, status \in {"200", "404"} : frames = Reply(s, status)
    BY <1>3
  <2>2. /\ Len(frames) = 2
        /\ frames[1] = [kind |-> status, id |-> s]
        /\ frames[2] = [kind |-> "END", id |-> s]
    BY <2>1 DEF Reply
  <2>3. /\ wire'[n + 1] = [kind |-> status, id |-> s]
        /\ wire'[n + 2] = [kind |-> "END", id |-> s]
        /\ DOMAIN wire' = 1..(n + 2)
    BY <1>1, <2>2
  <2>4. \A i \in DOMAIN wire' : i \in 1..n \/ i = n + 1 \/ i = n + 2
    <3>1. n \in Nat /\ DOMAIN wire' = 1..(n + 2)
      BY <1>1, <2>3
    <3>2. QED
      BY <3>1
  <2>5. /\ n + 1 \in DOMAIN wire' /\ n + 2 \in DOMAIN wire'
        /\ (n + 1) + 1 = n + 2 /\ (n + 2) - 1 = n + 1
    BY <1>1, <2>3
  <2>6. KeptAt(n + 1)' /\ KeptAt(n + 2)'
    BY <2>3, <2>5 DEF KeptAt
  <2>7. \A i \in DOMAIN wire' : KeptAt(i)'
    BY <1>2, <2>4, <2>6
  <2>8. QED
    BY <2>7 DEF NoHalfReply, KeptAt
<1>4. CASE \E kind \in {"SETTINGS", "SETTINGS_ACK", "PING_ACK"} :
               frames = <<[kind |-> kind, id |-> 0]>>
  <2>1. PICK kind \in {"SETTINGS", "SETTINGS_ACK", "PING_ACK"} :
            frames = <<[kind |-> kind, id |-> 0]>>
    BY <1>4
  <2>2. wire'[n + 1].kind = kind /\ DOMAIN wire' = 1..(n + 1)
    BY <1>1, <2>1
  <2>3. \A i \in DOMAIN wire' : i \in 1..n \/ i = n + 1
    BY <1>1, <2>2
  <2>4. KeptAt(n + 1)'
    BY <2>2 DEF KeptAt
  <2>5. QED
    BY <1>2, <2>3, <2>4 DEF NoHalfReply, KeptAt
<1>5. QED
  BY <1>3, <1>4

\* No reply is left half written while writes succeed, for every client and
\* whatever its decoder throws.
THEOREM RepliesAreWhole == Spec => []NoHalfReply
<1>1. Init => NoHalfReply
  BY DEF Init, NoHalfReply
<1>2. IInv /\ NoHalfReply /\ [Next]_vars => NoHalfReply'
  <2> SUFFICES ASSUME IInv, NoHalfReply, Pieces, ~broken' PROVE NoHalfReply'
    BY NextIInv DEF Proper, NoHalfReply
  <2>1. wire \in Seq(Frame)
    BY DEF IInv, TypeOK
  <2>2. CASE UNCHANGED <<wire, broken>>
    BY <2>2 DEF NoHalfReply
  <2>3. ASSUME ~broken, NEW s \in Stream, NEW status \in {"200", "404"},
               wire' = wire \o Reply(s, status)
        PROVE  NoHalfReply'
    BY <2>1, <2>3, PieceKeeps, ReplyType
  <2>4. ASSUME ~broken, NEW kind \in {"SETTINGS", "SETTINGS_ACK", "PING_ACK"},
               wire' = wire \o <<[kind |-> kind, id |-> 0]>>
        PROVE  NoHalfReply'
    <3>1. <<[kind |-> kind, id |-> 0]>> \in Seq(Frame)
      BY DEF Frame
    <3>2. QED
      BY <2>1, <2>4, <3>1, PieceKeeps
  <2>5. QED
    BY <2>2, <2>3, <2>4 DEF Pieces
<1>3. QED
  BY <1>1, <1>2, Invariance, PTL DEF Spec

-----------------------------------------------------------------------------
(* The decoder stays in step with the client, so that a request is answered *)
(* as the request it is.                                                    *)

\* The reply to what stream s has asked for is being written, or the file
\* system fails.
Answered(s) ==
    \/ /\ Send(Reply(s, IF req'[s] \in Found THEN "200" ELSE "404"))
       /\ UNCHANGED failed
    \/ FileSystemFails(s)

\* The client has completed a request on stream s, which is answered.
RequestStep(s) ==
    /\ calls' = Append(calls, [id |-> s, wants |-> req'[s]])
    /\ Answered(s)

ControlStep(kind) ==
    /\ calls' = Append(calls, [id |-> 0, wants |-> kind])
    /\ Send(<<[kind |-> kind, id |-> 0]>>)
    /\ UNCHANGED failed

NoCall == UNCHANGED <<calls, wire, broken, failed>>

\* A block that ends is decoded whole, and answered by the :path it leaves.
LEMMA EndHeaderInSync ==
    ASSUME TypeOK, NEW s \in Stream, NEW strm \in StreamRecord,
           NEW erase \in BOOLEAN, NEW path \in Request \union {None},
           decoded \o strm.frags = Upto(sent + 1),
           Decoded(s, strm) = {path},
           processEndHeader(s, strm, erase)
    PROVE  /\ decoded' = Upto(sent + 1)
           /\ streams'[s] = IF erase THEN None ELSE Finished(strm, path)
           /\ Answer(s, path)
<1>1. InStep(strm)
  BY DEF InStep
<1>2. /\ decoded' = decoded \o strm.frags
      /\ Store(s, Finished(strm, path), erase)
      /\ Answer(s, path)
  BY <1>1 DEF processEndHeader, DecoderThrows, Finished
<1>3. QED
  BY <1>2 DEF Store, TypeOK

\* A :path is answered.
LEMMA PathAnswered ==
    ASSUME NEW s \in Stream, req'[s] \in Request, Answer(s, req'[s])
    PROVE  Answered(s)
  BY DEF Answer, Answered

\* What waits for the decoder once the next fragment is added.
LEMMA NextFragment ==
    ASSUME TypeOK, NEW strm \in StreamRecord, sent < MaxFrags,
           decoded \o strm.frags = Upto(sent)
    PROVE  decoded \o Fragment(strm).frags = Upto(sent + 1)
<1>1. /\ decoded \in Seq(1..MaxFrags) /\ strm.frags \in Seq(1..MaxFrags)
      /\ sent \in Nat /\ sent + 1 \in 1..MaxFrags
  BY DEF TypeOK, StreamRecord
<1>2. Fragment(strm).frags = Append(strm.frags, sent + 1)
  BY <1>1, FragmentType
<1>3. decoded \o Append(strm.frags, sent + 1)
          = (decoded \o strm.frags) \o <<sent + 1>>
  <2> DEFINE S == 1..MaxFrags
             t == strm.frags
  <2>1. decoded \in Seq(S) /\ t \in Seq(S) /\ sent + 1 \in S
    BY <1>1
  <2> HIDE DEF S, t
  <2>2. decoded \o Append(t, sent + 1) = (decoded \o t) \o <<sent + 1>>
    BY <2>1, AppendBehind
  <2>3. QED
    BY <2>2 DEF t
<1>4. QED
  BY <1>1, <1>2, <1>3, UptoNext

\* The HEADERS frame of a request keeps SyncInv and is answered if it is whole.
LEMMA HeadersInSync ==
    ASSUME IInv, SyncInv, NoSplitGet, NEW s \in Stream, NEW r \in Request,
           NEW endHeaders \in BOOLEAN, NEW endStream \in BOOLEAN,
           Headers(s, r, endHeaders, endStream)
    PROVE  /\ SyncInv'
           /\ IF endHeaders THEN RequestStep(s)
                            ELSE NoCall
<1>1. /\ TypeOK /\ block = None /\ conn' = conn
      /\ streams[s] = None /\ sent < MaxFrags /\ sent \in Nat
      /\ req' = [req EXCEPT ![s] = r] /\ req'[s] = r
      /\ block' = IF endHeaders THEN None ELSE s
      /\ sent' = sent + 1
      /\ endHeaders \/ ~endStream
      /\ IF endHeaders THEN Ask(s, r) ELSE UNCHANGED calls
      /\ handleHeadersFrame(s, endHeaders, endStream)
      /\ s \notin trailed' /\ s \notin cleared /\ cleared' = cleared
      /\ s \in ended' => endStream
      /\ ended' = IF endStream THEN ended \union {s} ELSE ended
      /\ conn # "gone"
  BY DEF Headers, BetweenBlocks, Talking, OpenedInv, MaySplit, NoSplitGet, IInv,
         TypeOK, SyncInv, ClearedInv
<1>2. decoded \in Seq(1..MaxFrags) /\ decoded = Upto(sent)
  BY <1>1 DEF SyncInv, HpackInSync, TypeOK
<1>3. /\ Opened(s) \in StreamRecord /\ Opened(s).state = "OPEN"
      /\ Opened(s).path = None /\ Opened(s).frags = <<>>
  BY <1>1, OpenedType
<1>4. decoded \o Opened(s).frags = Upto(sent)
  BY <1>2, <1>3, ConcatEmptySeq
<1> DEFINE strm == Fragment(Opened(s))
<1>5. strm \in StreamRecord /\ strm.path = None /\ strm.state = "OPEN"
  BY <1>1, <1>3, FragmentType
<1>6. decoded \o strm.frags = Upto(sent + 1)
  BY <1>1, <1>3, <1>4, NextFragment
<1>7. /\ Effect(s)
      /\ IF endHeaders THEN processEndHeader(s, strm, endStream)
                       ELSE KeepBlock(s, strm, endStream)
  BY <1>1, HeadersEffect, HeadersHandled
<1> HIDE DEF strm
<1>8. CASE endHeaders
  <2>1. Decoded(s, strm) = {r}
    BY <1>1, <1>5, <1>6 DEF Decoded, InStep
  <2>2. /\ decoded' = Upto(sent + 1)
        /\ streams'[s] = IF endStream THEN None ELSE Finished(strm, r)
        /\ Answered(s)
    BY <1>1, <1>5, <1>6, <1>7, <1>8, <2>1, EndHeaderInSync, PathAnswered
  <2>3. Finished(strm, r) # None
    BY <1>5, FinishedType
  <2>4. streams'[s] # None => /\ streams'[s].path = req'[s]
                              /\ streams'[s].frags = <<>>
                              /\ streams'[s].state # "OPEN"
    BY <1>1, <1>5, <2>2, FinishedType
  <2>5. ClearedInv'
    BY <1>1, <1>7, <2>2, <2>3 DEF SyncInv, ClearedInv, Effect, TypeOK
  <2>6. OpenMeansBlock'
    BY <1>1, <1>7, <1>8, <2>4 DEF SyncInv, OpenMeansBlock, Effect
  <2>7. SyncInv'
    BY <1>1, <1>7, <1>8, <2>2, <2>4, <2>5, <2>6 DEF SyncInv, HpackInSync, Effect, TypeOK
  <2>8. QED
    BY <1>1, <1>8, <2>2, <2>7 DEF RequestStep, Ask
<1>9. CASE ~endHeaders
  <2>1. streams'[s] = strm /\ UNCHANGED <<decoded, wire, broken, failed>>
    BY <1>1, <1>5, <1>7, <1>9, KeepEffect DEF KeepBlock
  <2>2. strm # None
    BY <1>5
  <2>3. ClearedInv'
    BY <1>1, <1>7, <1>9, <2>1, <2>2 DEF SyncInv, ClearedInv, Effect, TypeOK
  <2>4. OpenMeansBlock'
    BY <1>1, <1>5, <1>7, <1>9, <2>1 DEF SyncInv, OpenMeansBlock, Effect
  <2>5. SyncInv'
    BY <1>1, <1>5, <1>6, <1>7, <1>9, <2>1, <2>2, <2>3, <2>4
       DEF SyncInv, HpackInSync, Effect, TypeOK
  <2>6. QED
    BY <1>1, <1>9, <2>1, <2>5 DEF NoCall
<1>10. QED
  BY <1>8, <1>9

\* So it is with trailers, unless a GOAWAY has cleared the stream,
LEMMA TrailersInSync ==
    ASSUME IInv, SyncInv, NEW s \in Stream, Trailers(s)
    PROVE  SyncInv' /\ IF s \in cleared THEN NoCall ELSE RequestStep(s)
<1>1. /\ TypeOK /\ UNCHANGED <<conn, block, req, cleared>>
      /\ block = None /\ sent < MaxFrags /\ sent \in Nat
      /\ req'[s] \in Request /\ s \in trailed' /\ s \notin ended
      /\ ended' = ended \union {s}
      /\ sent' = sent + 1
      /\ IF s \in cleared THEN UNCHANGED calls ELSE Ask(s, req[s])
      /\ handleHeadersFrame(s, TRUE, TRUE)
      /\ conn # "gone"
  <2>1. TypeOK /\ sent \in Nat /\ req[s] \in Request \union {None}
    BY DEF IInv, TypeOK
  <2>2. QED
    BY <2>1 DEF Trailers, BetweenBlocks, Talking
<1>2. decoded \in Seq(1..MaxFrags) /\ decoded = Upto(sent)
  BY <1>1 DEF SyncInv, HpackInSync, TypeOK
<1> DEFINE path == IF s \in cleared THEN None ELSE req'[s]
<1>3. /\ Opened(s) \in StreamRecord /\ Opened(s).frags = <<>>
      /\ Opened(s).path = path
  <2>1. streams[s] = None <=> s \in cleared
    BY <1>1 DEF SyncInv, ClearedInv
  <2>2. streams[s] # None => streams[s].path = req'[s] /\ streams[s].frags = <<>>
    BY <1>1 DEF SyncInv
  <2>3. QED
    BY <1>1, <2>1, <2>2, OpenedType
<1>4. decoded \o Opened(s).frags = Upto(sent)
  BY <1>2, <1>3, ConcatEmptySeq
<1> DEFINE strm == Fragment(Opened(s))
<1>5. strm \in StreamRecord /\ strm.path = path
  BY <1>1, <1>3, FragmentType
<1>6. decoded \o strm.frags = Upto(sent + 1)
  BY <1>1, <1>3, <1>4, NextFragment
<1>7. Effect(s) /\ processEndHeader(s, strm, TRUE)
  BY <1>1, HeadersEffect, HeadersHandled
<1>8. path \in Request \union {None} /\ (path = None <=> s \in cleared)
  BY <1>1
<1> HIDE DEF strm
<1>9. Decoded(s, strm) = {path}
  BY <1>1, <1>5, <1>6 DEF Decoded, InStep
<1>10. decoded' = Upto(sent + 1) /\ streams'[s] = None /\ Answer(s, path)
  <2> HIDE DEF path
  <2>1. QED
    BY <1>1, <1>5, <1>6, <1>7, <1>8, <1>9, EndHeaderInSync
<1>11. ClearedInv' /\ OpenMeansBlock'
  BY <1>1, <1>7, <1>10 DEF SyncInv, ClearedInv, OpenMeansBlock, Effect, TypeOK
<1>12. SyncInv'
  BY <1>1, <1>7, <1>10, <1>11 DEF SyncInv, HpackInSync, Effect, TypeOK
<1>13. CASE s \in cleared
  BY <1>1, <1>10, <1>12, <1>13 DEF Answer, NoCall
<1>14. CASE s \notin cleared
  <2>1. Answered(s)
    BY <1>1, <1>10, <1>14, PathAnswered
  <2>2. QED
    BY <1>1, <1>12, <1>14, <2>1 DEF RequestStep, Ask
<1>15. QED
  BY <1>13, <1>14

\* with a CONTINUATION,
LEMMA ContinuationInSync ==
    ASSUME IInv, SyncInv, NEW s \in Stream, s = block,
           NEW endHeaders \in BOOLEAN, Continuation(endHeaders)
    PROVE  /\ SyncInv'
           /\ IF endHeaders THEN RequestStep(s)
                            ELSE NoCall
<1>1. /\ TypeOK /\ UNCHANGED <<conn, req, ended, cleared>>
      /\ conn # "gone" /\ block # None
      /\ s \notin trailed' /\ req[s] # None
      /\ sent < MaxFrags /\ sent \in Nat
      /\ req'[s] \in Request
      /\ block' = IF endHeaders THEN None ELSE s
      /\ sent' = sent + 1
      /\ IF endHeaders THEN Ask(s, req[s]) ELSE UNCHANGED calls
  BY DEF Continuation, Talking, IInv, TypeOK, BlockInv, Ask
<1>2. handleContinuationFrame(s, endHeaders)
  BY DEF Continuation
<1>3. /\ streams[s] # None /\ streams[s].state = "OPEN"
      /\ streams[s] \in StreamRecord /\ streams[s].path = None
      /\ decoded \o streams[s].frags = Upto(sent)
  BY <1>1 DEF SyncInv, IInv, OpenMeansBlock, TypeOK
<1> DEFINE strm == Fragment(streams[s])
<1>4. strm \in StreamRecord /\ strm.path = None /\ strm.state = "OPEN"
  BY <1>1, <1>3, FragmentType
<1>5. decoded \o strm.frags = Upto(sent + 1)
  BY <1>1, <1>3, NextFragment
<1>6. IF endHeaders THEN processEndHeader(s, strm, FALSE)
                    ELSE KeepBlock(s, strm, FALSE)
  BY <1>2, <1>3 DEF handleContinuationFrame, Fragment
<1>7. Effect(s)
  BY <1>1, <1>2, <1>3, ContinuationEffect
<1> HIDE DEF strm
<1>8. CASE endHeaders
  <2>1. Decoded(s, strm) = {req'[s]}
    BY <1>1, <1>4, <1>5 DEF Decoded, InStep
  <2>2. /\ decoded' = Upto(sent + 1)
        /\ streams'[s] = Finished(strm, req'[s])
        /\ Answered(s)
    <3>1. processEndHeader(s, strm, FALSE)
      BY <1>6, <1>8
    <3>2. /\ decoded' = Upto(sent + 1)
          /\ streams'[s] = Finished(strm, req'[s])
          /\ Answer(s, req'[s])
      <4>1. /\ decoded \o strm.frags = Upto(sent + 1)
            /\ streams \in [Stream -> StreamRecord \union {None}]
        BY <1>1, <1>5 DEF TypeOK
      <4>2. InStep(strm)
        BY <4>1 DEF InStep
      <4>3. /\ decoded' = decoded \o strm.frags
            /\ Store(s, Finished(strm, req'[s]), FALSE)
            /\ Answer(s, req'[s])
        BY <2>1, <3>1, <4>2 DEF processEndHeader, DecoderThrows, Finished
      <4>4. QED
        BY <4>1, <4>3 DEF Store
    <3>3. QED
      BY <1>1, <3>2, PathAnswered
  <2>3. /\ streams'[s] # None /\ streams'[s].path = req'[s]
        /\ streams'[s].frags = <<>> /\ streams'[s].state # "OPEN"
    BY <1>1, <1>4, <2>2, FinishedType
  <2>4. ClearedInv' /\ OpenMeansBlock'
    BY <1>1, <1>3, <1>7, <1>8, <2>3 DEF SyncInv, ClearedInv, OpenMeansBlock, Effect
  <2>5. SyncInv'
    BY <1>1, <1>7, <1>8, <2>2, <2>3, <2>4 DEF SyncInv, HpackInSync, Effect, TypeOK
  <2>6. QED
    BY <1>1, <1>8, <2>2, <2>5 DEF RequestStep, Ask
<1>9. CASE ~endHeaders
  <2>1. streams'[s] = strm /\ UNCHANGED <<decoded, wire, broken, failed>>
    BY <1>1, <1>4, <1>6, <1>9, KeepEffect DEF KeepBlock
  <2>2. strm # None
    BY <1>4
  <2>3. ClearedInv' /\ OpenMeansBlock'
    BY <1>1, <1>3, <1>4, <1>7, <1>9, <2>1, <2>2
       DEF SyncInv, ClearedInv, OpenMeansBlock, Effect
  <2>4. SyncInv'
    BY <1>1, <1>4, <1>5, <1>7, <1>9, <2>1, <2>2, <2>3
       DEF SyncInv, HpackInSync, Effect, TypeOK
  <2>5. QED
    BY <1>1, <1>9, <2>1, <2>4 DEF NoCall
<1>10. QED
  BY <1>8, <1>9

\* The frames without a header block leave the decoder alone.
LEMMA OthersInSync ==
    ASSUME IInv, SyncInv,
           \/ Preface \/ Settings \/ Ping
           \/ \E s \in Stream, endStream \in BOOLEAN : Data(s, endStream)
           \/ \E s \in Stream : RstStream(s)
           \/ handleGoAwayFrame \/ Removed
           \/ UNCHANGED vars
    PROVE  /\ SyncInv'
           /\ UNCHANGED <<req, block, trailed>>
           /\ \/ Preface /\ ControlStep("SETTINGS")
              \/ Settings /\ ControlStep("SETTINGS_ACK")
              \/ Ping /\ ControlStep("PING_ACK")
              \/ NoCall
<1>1. CASE Preface
  <2>1. /\ conn' # "gone" /\ conn # "gone" /\ ControlStep("SETTINGS")
        /\ UNCHANGED <<req, ended, trailed, cleared, block, sent, streams, decoded>>
    BY <1>1 DEF Preface, ControlStep, Ask
  <2>2. QED
    BY <1>1, <2>1 DEF SyncInv, HpackInSync, OpenMeansBlock, ClearedInv
<1>2. CASE Settings
  <2>1. /\ ControlStep("SETTINGS_ACK")
        /\ UNCHANGED <<req, ended, trailed, cleared, block, sent, conn>>
        /\ UNCHANGED <<streams, decoded>>
    BY <1>2 DEF Settings, handleSettingsFrame, ControlStep, Ask
  <2>2. QED
    BY <1>2, <2>1 DEF SyncInv, HpackInSync, OpenMeansBlock, ClearedInv
<1>3. CASE Ping
  <2>1. /\ ControlStep("PING_ACK")
        /\ UNCHANGED <<req, ended, trailed, cleared, block, sent, conn>>
        /\ UNCHANGED <<streams, decoded>>
    BY <1>3 DEF Ping, handlePingFrame, ControlStep, Ask
  <2>2. QED
    BY <1>3, <2>1 DEF SyncInv, HpackInSync, OpenMeansBlock, ClearedInv
<1>4. ASSUME NEW s \in Stream, NEW endStream \in BOOLEAN, Data(s, endStream)
      PROVE  SyncInv' /\ NoCall /\ UNCHANGED <<req, block, trailed>>
  <2>1. /\ block = None
        /\ UNCHANGED <<req, trailed, cleared, block, sent, calls, conn>>
        /\ ended \subseteq ended'
    BY <1>4 DEF Data, BetweenBlocks
  <2>2. UNCHANGED <<streams, decoded, wire, broken, failed>>
    BY <1>4, <2>1 DEF Data, handleDataFrame, SyncInv, OpenMeansBlock, Unhandled
  <2>3. QED
    BY <2>1, <2>2 DEF SyncInv, HpackInSync, OpenMeansBlock, ClearedInv, NoCall
<1>5. ASSUME NEW s \in Stream, RstStream(s)
      PROVE  SyncInv' /\ NoCall /\ UNCHANGED <<req, block, trailed>>
  <2>1. /\ block = None
        /\ UNCHANGED <<req, trailed, cleared, block, sent, calls, conn>>
        /\ UNCHANGED <<decoded, wire, broken, failed>>
        /\ ended' = ended \union {s}
        /\ streams' = [streams EXCEPT ![s] = None]
    BY <1>5 DEF RstStream, BetweenBlocks, handleResetFrame, Store
  <2>2. \A t \in Stream : streams'[t] = IF t = s THEN None ELSE streams[t]
    BY <2>1 DEF IInv, TypeOK
  <2>3. QED
    BY <2>1, <2>2 DEF SyncInv, HpackInSync, OpenMeansBlock, ClearedInv, NoCall
<1>6. ASSUME handleGoAwayFrame \/ Removed
      PROVE  SyncInv' /\ NoCall /\ UNCHANGED <<req, block, trailed>>
  <2>1. UNCHANGED <<req, trailed, block, sent, calls, decoded, wire, broken, failed>>
    BY <1>6 DEF handleGoAwayFrame, Removed, clientVars
  <2>2. \A s \in Stream : streams'[s] = None
    BY <1>6 DEF handleGoAwayFrame, Removed
  <2>3. \/ conn' = "gone"
        \/ block = None /\ cleared' = {s \in Stream : req[s] # None}
    BY <1>6 DEF handleGoAwayFrame, Removed, BetweenBlocks
  <2>4. QED
    BY <2>1, <2>2, <2>3 DEF SyncInv, HpackInSync, OpenMeansBlock, ClearedInv, NoCall
<1>7. CASE UNCHANGED vars
  BY <1>7 DEF vars, clientVars, serverVars, SyncInv, HpackInSync, OpenMeansBlock,
              ClearedInv, NoCall
<1>8. QED
  BY <1>1, <1>2, <1>3, <1>4, <1>5, <1>6, <1>7

\* Every step of Next is one of these.
LEMMA Steps ==
    ASSUME [Next]_vars
    PROVE  \/ \E s \in Stream, r \in Request, eh, es \in BOOLEAN : Headers(s, r, eh, es)
           \/ \E s \in Stream : Trailers(s)
           \/ \E eh \in BOOLEAN : Continuation(eh)
           \/ Preface \/ Settings \/ Ping
           \/ \E s \in Stream, endStream \in BOOLEAN : Data(s, endStream)
           \/ \E s \in Stream : RstStream(s)
           \/ handleGoAwayFrame \/ Removed
           \/ UNCHANGED vars
  BY DEF Next, Gone

\* Every step of a client that does not split a GET keeps SyncInv.
LEMMA NextSyncInv == NoSplitGet /\ IInv /\ SyncInv /\ [Next]_vars => SyncInv'
<1> SUFFICES ASSUME NoSplitGet, IInv, SyncInv, [Next]_vars PROVE SyncInv'
  OBVIOUS
<1>1. ASSUME NEW eh \in BOOLEAN, Continuation(eh) PROVE SyncInv'
  <2>1. PICK s \in Stream : s = block
    BY <1>1 DEF Continuation, IInv, TypeOK
  <2>2. QED
    BY <1>1, <2>1, ContinuationInSync
<1>2. QED
  BY <1>1, Steps, HeadersInSync, TrailersInSync, OthersInSync

\* SyncInv holds as long as no client splits the headers of a GET.
LEMMA InSync == NoSplitGet => (Spec => []SyncInv)
<1> SUFFICES ASSUME NoSplitGet PROVE Spec => []SyncInv
  OBVIOUS
<1>1. Init => SyncInv
  BY DEF Init, SyncInv, HpackInSync, OpenMeansBlock, ClearedInv, Upto
<1>2. IInv /\ SyncInv /\ [Next]_vars => SyncInv'
  BY NextSyncInv
<1>3. QED
  BY <1>1, <1>2, Invariance, PTL DEF Spec

\* As long as no client splits the headers of a GET, the decoder has consumed
\* every fragment of every complete header block, in order.
THEOREM DecoderInSync == NoSplitGet => (Spec => []HpackInSync)
<1>1. SyncInv => HpackInSync
  BY DEF SyncInv
<1>2. QED
  BY <1>1, InSync, PTL

\* As long as no client splits the headers of a GET, a stream of the table is
\* OPEN exactly while its header block is coming in: the decoder, which could
\* leave one OPEN by an exception, is in step.
THEOREM OpenStreams == NoSplitGet => (Spec => []OpenMeansBlock)
<1>1. SyncInv => OpenMeansBlock
  BY DEF SyncInv
<1>2. QED
  BY <1>1, InSync, PTL

-----------------------------------------------------------------------------
(* The connection implements AbstractExchange: a step that completes a call *)
(* is the abstract call, any other a stutter.                               *)

\* A new connection is a new exchange.
LEMMA InitExchange == Init => Exchange!Init
  BY DEF Init, Exchange!Init

\* A request that is answered is one call of the exchange,
LEMMA RequestCalls ==
    ASSUME IInv, calls # <<>>, NEW s \in Stream, req'[s] \in Request, RequestStep(s)
    PROVE  Exchange!Next
<1> DEFINE call == [id |-> s, wants |-> req'[s]]
<1>1. call \in Exchange!RequestCall /\ call.id # 0 /\ call # Exchange!Greeting
  BY DEF Exchange!RequestCall, Exchange!Greeting
<1>2. Exchange!Answer(call) = Reply(s, IF req'[s] \in Found THEN "200" ELSE "404")
  BY <1>1 DEF Exchange!Answer, Exchange!Reply, Reply
<1>3. Exchange!Answered(call) \/ Exchange!Failed(call)
  <2>1. ASSUME NEW frames, Send(frames) PROVE Exchange!Write(frames)
    BY <2>1 DEF Send, Exchange!Write, Exchange!Written, Exchange!CutOff, Exchange!Lost
  <2>2. Reply(s, "404") = Exchange!Reply(call.id, "404")
    BY DEF Reply, Exchange!Reply
  <2>3. QED
    BY <1>1, <1>2, <2>1, <2>2 DEF RequestStep, Answered, FileSystemFails,
                                  Exchange!Answered, Exchange!Failed
<1>4. Exchange!Call(call)
  BY <1>1, <1>3 DEF RequestStep, Exchange!Call
<1>5. QED
  BY <1>1, <1>4 DEF Exchange!Next

\* and so is a control frame.
LEMMA ControlCalls ==
    ASSUME NEW kind \in {"SETTINGS", "SETTINGS_ACK", "PING_ACK"},
           kind = "SETTINGS" <=> calls = <<>>, ControlStep(kind)
    PROVE  Exchange!Next
<1> DEFINE call == [id |-> 0, wants |-> kind]
<1>1. /\ call \in {Exchange!Greeting} \union Exchange!Control
      /\ call = Exchange!Greeting <=> kind = "SETTINGS"
  BY DEF Exchange!Control, Exchange!Greeting
<1>2. Exchange!Answer(call) = <<[kind |-> kind, id |-> 0]>>
  BY DEF Exchange!Answer
<1>3. Exchange!Answered(call)
  BY <1>2 DEF ControlStep, Send, Exchange!Answered, Exchange!Write,
              Exchange!Written, Exchange!CutOff, Exchange!Lost
<1>4. Exchange!Call(call)
  BY <1>1, <1>3 DEF ControlStep, Exchange!Call
<1>5. QED
  BY <1>1, <1>4 DEF Exchange!Next

\* Every step is a step of the exchange or changes nothing in it.
LEMMA NextExchange ==
    NoSplitGet /\ IInv /\ SyncInv /\ [Next]_vars => [Exchange!Next]_(Exchange!vars)
<1> SUFFICES ASSUME NoSplitGet, IInv, SyncInv, [Next]_vars
             PROVE  Exchange!Next \/ NoCall
  BY DEF Exchange!vars, NoCall
<1>1. calls = <<>> <=> conn = "preface"
  BY DEF IInv, GreetedInv
<1>2. ASSUME NEW s \in Stream, NEW r \in Request, NEW eh \in BOOLEAN,
             NEW es \in BOOLEAN, Headers(s, r, eh, es)
      PROVE  Exchange!Next \/ NoCall
  <2>1. calls # <<>> /\ req'[s] \in Request
    BY <1>1, <1>2 DEF Headers, BetweenBlocks, Talking, IInv, TypeOK
  <2>2. QED
    BY <1>2, <2>1, HeadersInSync, RequestCalls
<1>3. ASSUME NEW s \in Stream, Trailers(s)
      PROVE  Exchange!Next \/ NoCall
  <2>1. calls # <<>> /\ req' = req /\ req[s] # None
    BY <1>1, <1>3 DEF Trailers, BetweenBlocks, Talking
  <2>2. req'[s] \in Request
    BY <2>1 DEF IInv, TypeOK
  <2>3. QED
    BY <1>3, <2>1, <2>2, TrailersInSync, RequestCalls
<1>4. ASSUME NEW eh \in BOOLEAN, Continuation(eh)
      PROVE  Exchange!Next \/ NoCall
  <2>1. PICK s \in Stream : s = block
    BY <1>4 DEF Continuation, IInv, TypeOK
  <2>2. calls # <<>> /\ req' = req /\ block # None
    BY <1>1, <1>4 DEF Continuation, Talking
  <2>3. req'[s] \in Request
    BY <2>1, <2>2 DEF IInv, TypeOK, BlockInv
  <2>4. QED
    BY <1>4, <2>1, <2>2, <2>3, ContinuationInSync, RequestCalls
<1>5. ASSUME \/ Preface \/ Settings \/ Ping
             \/ \E s \in Stream, endStream \in BOOLEAN : Data(s, endStream)
             \/ \E s \in Stream : RstStream(s)
             \/ handleGoAwayFrame \/ Removed
             \/ UNCHANGED vars
      PROVE  Exchange!Next \/ NoCall
  <2>1. /\ Preface => calls = <<>>
        /\ Settings \/ Ping => calls # <<>>
    BY <1>1 DEF Preface, Settings, Ping, BetweenBlocks, Talking
  <2>2. QED
    BY <1>5, <2>1, OthersInSync, ControlCalls
<1>6. QED
  BY <1>2, <1>3, <1>4, <1>5, Steps

\* As long as no client splits the headers of a GET, its calls are answered
\* in order, each once and in the step in which it is complete, except those
\* for which the file system fails.
THEOREM ConnectionImplements == NoSplitGet => (Spec => ImplementsExchange)
<1> SUFFICES ASSUME NoSplitGet PROVE Spec => ImplementsExchange
  OBVIOUS
<1>1. IInv /\ SyncInv /\ [Next]_vars => [Exchange!Next]_(Exchange!vars)
  BY NextExchange
<1>2. QED
  BY <1>1, InSync, InitExchange, Invariance, PTL
     DEF Spec, ImplementsExchange, Exchange!Spec

-----------------------------------------------------------------------------
(* Every stream has the replies it has asked for, and no other. *)

\* The frames of other streams do not move those of t.
LEMMA OtherStream ==
    ASSUME wire \in Seq(Frame), NEW frames \in Seq(Frame),
           wire' = wire \o frames, NEW t,
           \A j \in DOMAIN frames : frames[j].id # t
    PROVE  Out(t)' = Out(t)
<1>1. /\ Len(wire') = Len(wire) + Len(frames)
      /\ DOMAIN wire = 1..Len(wire) /\ DOMAIN wire' = 1..Len(wire')
      /\ \A i \in 1..Len(wire) : wire'[i] = wire[i]
      /\ \A i \in 1..Len(wire') \ 1..Len(wire) : wire'[i] = frames[i - Len(wire)]
  BY ConcatProperties
<1>2. \A i \in 1..Len(wire') \ 1..Len(wire) : wire'[i].id # t
  BY <1>1
<1>3. QED
  BY <1>1, <1>2 DEF Out

\* What was a reply stays one as long as nothing is added to its stream.
LEMMA RepliesStay ==
    ASSUME NEW s \in Stream, Out(s)' = Out(s), req'[s] = req[s],
           failed \subseteq failed',
           \A i \in DOMAIN wire : wire'[i] = wire[i]
    PROVE  /\ Once(s) => Once(s)'
           /\ Twice(s) => Twice(s)'
<1>1. \A n : n \in Out(s) /\ n + 1 \in Out(s) /\ WholeAt(s, n) => WholeAt(s, n)'
  BY DEF WholeAt, Status, Out
<1>2. Once(s) => Once(s)'
  BY <1>1 DEF Once
<1>3. Twice(s) => Twice(s)'
  BY <1>1 DEF Twice
<1>4. QED
  BY <1>2, <1>3

\* A step that writes nothing for any stream and completes no request.
LEMMA AnswersStay ==
    ASSUME IInv, AnswerInv, trailed \subseteq trailed',
           \A t \in Stream : /\ Complete(t)' = Complete(t)
                             /\ Complete(t) => req'[t] = req[t],
           \/ UNCHANGED <<wire, broken, failed>>
           \/ \E kind \in {"SETTINGS", "SETTINGS_ACK", "PING_ACK"} : ControlStep(kind)
    PROVE  AnswerInv'
<1> SUFFICES ASSUME ~broken', NEW t \in Stream
             PROVE  /\ ~Complete(t)' => Out(t)' = {}
                    /\ Complete(t)' => Out(t)' # {} \/ t \in failed'
                    /\ Out(t)' = {} \/ Once(t)' \/ (t \in trailed' /\ Twice(t)')
  BY DEF AnswerInv
<1>1. wire \in Seq(Frame) /\ ~broken /\ failed' = failed
  BY DEF IInv, TypeOK, ControlStep, Send
<1>2. \E frames \in Seq(Frame) : /\ wire' = wire \o frames
                                 /\ \A j \in DOMAIN frames : frames[j].id # t
  <2>1. CASE UNCHANGED <<wire, broken>>
    <3> DEFINE frames == <<>>
    <3>1. /\ frames \in Seq(Frame) /\ wire' = wire \o frames
          /\ \A j \in DOMAIN frames : frames[j].id # t
      BY <1>1, <2>1, ConcatEmptySeq
    <3> HIDE DEF frames
    <3>2. QED
      BY <3>1
  <2>2. ASSUME NEW kind \in {"SETTINGS", "SETTINGS_ACK", "PING_ACK"}, ControlStep(kind)
        PROVE  \E frames \in Seq(Frame) : /\ wire' = wire \o frames
                                          /\ \A j \in DOMAIN frames : frames[j].id # t
    <3> DEFINE frames == <<[kind |-> kind, id |-> 0]>>
    <3>1. frames \in Seq(Frame) /\ \A j \in DOMAIN frames : frames[j].id # t
      BY DEF Frame
    <3>2. wire' = wire \o frames
      BY <1>1, <2>2 DEF ControlStep, Send
    <3> HIDE DEF frames
    <3>3. QED
      BY <3>1, <3>2
  <2>3. QED
    BY <2>1, <2>2
<1>3. Out(t)' = Out(t)
  BY <1>1, <1>2, OtherStream
<1>4. \A i \in DOMAIN wire : wire'[i] = wire[i]
  BY <1>1, <1>2
<1>5. Complete(t) => (Once(t) => Once(t)') /\ (Twice(t) => Twice(t)')
  BY <1>1, <1>3, <1>4, RepliesStay
<1>6. /\ ~Complete(t) => Out(t) = {}
      /\ Complete(t) => Out(t) # {} \/ t \in failed
      /\ Out(t) = {} \/ Once(t) \/ (t \in trailed /\ Twice(t))
  BY <1>1 DEF AnswerInv
<1>7. QED
  BY <1>1, <1>3, <1>5, <1>6

\* A reply that the request of s calls for.
Written(s) == \E status \in Status(s)' : Send(Reply(s, status))

\* An answered request is written, or its stream is one of the failed.
LEMMA AnsweredOrFailed ==
    ASSUME NEW s \in Stream, Answered(s)
    PROVE  /\ Written(s) \/ (UNCHANGED <<wire, broken>> /\ s \in failed')
           /\ failed \subseteq failed'
  BY DEF Answered, FileSystemFails, Written, Status

\* A step that answers stream s: the new reply is behind all the others.
LEMMA ReplyAdded ==
    ASSUME IInv, ~broken, ~broken', NEW s \in Stream, Written(s),
           NEW n, n = Len(wire)
    PROVE  /\ Out(s)' = Out(s) \union {n + 1, n + 2}
           /\ WholeAt(s, n + 1)'
           /\ \A i \in DOMAIN wire : i \in 1..n /\ wire'[i] = wire[i]
           /\ \A t \in Stream \ {s} : Out(t)' = Out(t)
<1>0. PICK status \in {"200", "404"} : status \in Status(s)' /\ Send(Reply(s, status))
  BY DEF Written, Status
<1> DEFINE frames == Reply(s, status)
<1>1. /\ frames \in Seq(Frame) /\ Len(frames) = 2
      /\ \A j \in DOMAIN frames : frames[j].id = s
      /\ frames = <<frames[1], frames[2]>>
  BY ReplyType DEF Reply
<1>2. wire \in Seq(Frame) /\ n \in Nat
  BY DEF IInv, TypeOK
<1>3. wire' = wire \o frames
  BY <1>0 DEF Send
<1>4. frames = Reply(s, status)
  OBVIOUS
<1> HIDE DEF frames
<1>5. /\ wire' \in Seq(Frame) /\ Len(wire') = n + 2
      /\ \A i \in 1..(n + 2) :
             wire'[i] = IF i <= n THEN wire[i] ELSE frames[i - n]
  <2>1. wire \in Seq(Frame) /\ frames \in Seq(Frame)
    BY <1>1, <1>2
  <2>2. /\ wire \o frames \in Seq(Frame)
        /\ Len(wire \o frames) = Len(wire) + Len(frames)
        /\ \A i \in 1..(Len(wire) + Len(frames)) : (wire \o frames)[i] =
               IF i <= Len(wire) THEN wire[i] ELSE frames[i - Len(wire)]
    BY <2>1, ConcatProperties
  <2>3. QED
    BY <1>1, <1>3, <2>2
<1>6. DOMAIN wire = 1..n /\ DOMAIN wire' = 1..(n + 2)
  BY <1>2, <1>5
<1>7. wire'[n + 1] = frames[1] /\ wire'[n + 2] = frames[2]
  BY <1>2, <1>5
<1>8. frames[1].id = s /\ frames[2].id = s
  BY <1>1
<1>9. \A i \in 1..n : wire'[i] = wire[i]
  BY <1>2, <1>5
<1>10. Out(s)' = Out(s) \union {n + 1, n + 2}
  BY <1>2, <1>6, <1>7, <1>8, <1>9 DEF Out
<1>11. WholeAt(s, n + 1)'
  <2>1. n + 1 + 1 = n + 2
    BY <1>2
  <2>2. <<wire'[n + 1], wire'[n + 2]>> = frames
    BY <1>1, <1>7
  <2>3. QED
    BY <1>0, <1>4, <2>1, <2>2 DEF WholeAt
<1>12. \A t \in Stream \ {s} : Out(t)' = Out(t)
  BY <1>1, <1>2, <1>3, OtherStream
<1>13. QED
  BY <1>6, <1>9, <1>10, <1>11, <1>12

\* The wire has a length.
LEMMA WireLength == IInv => Len(wire) \in Nat
<1>1. IInv => wire \in Seq(Frame)
  BY DEF IInv, TypeOK
<1>2. QED
  BY <1>1

\* A step that completes a request of s adds its reply to those s has, which is
\* at most one, and none unless these are its trailers.
LEMMA ReplyStep ==
    ASSUME IInv, AnswerInv, NEW s \in Stream, Answered(s),
           Complete(s)', s \notin trailed,
           Complete(s) => req'[s] = req[s] /\ s \in trailed',
           trailed \subseteq trailed',
           \A t \in Stream \ {s} : /\ Complete(t)' = Complete(t)
                                   /\ Complete(t) => req'[t] = req[t]
    PROVE  AnswerInv'
<1> SUFFICES ASSUME ~broken', NEW t \in Stream
             PROVE  /\ ~Complete(t)' => Out(t)' = {}
                    /\ Complete(t)' => Out(t)' # {} \/ t \in failed'
                    /\ Out(t)' = {} \/ Once(t)' \/ (t \in trailed' /\ Twice(t)')
  BY DEF AnswerInv
<1>1. ~broken
  BY DEF Answered, FileSystemFails, Send
<1>2. /\ ~Complete(t) => Out(t) = {}
      /\ Complete(t) => Out(t) # {} \/ t \in failed
      /\ Out(t) = {} \/ Once(t) \/ (t \in trailed /\ Twice(t))
  BY <1>1 DEF AnswerInv
<1>3. failed \subseteq failed'
  BY AnsweredOrFailed
<1>4. CASE UNCHANGED <<wire, broken>> /\ s \in failed'
  <2>1. Out(t)' = Out(t) /\ \A i \in DOMAIN wire : wire'[i] = wire[i]
    BY <1>4 DEF Out
  <2>2. Complete(t) => (Once(t) => Once(t)') /\ (Twice(t) => Twice(t)')
    BY <1>3, <2>1, RepliesStay
  <2>3. QED
    BY <1>2, <1>3, <1>4, <2>1, <2>2
<1>5. CASE Written(s)
  <2>1. PICK n \in Nat : n = Len(wire)
    BY WireLength
  <2>2. /\ Out(s)' = Out(s) \union {n + 1, n + 2} /\ WholeAt(s, n + 1)'
        /\ \A i \in DOMAIN wire : i \in 1..n /\ wire'[i] = wire[i]
        /\ \A u \in Stream \ {s} : Out(u)' = Out(u)
    BY <1>1, <1>5, <2>1, ReplyAdded
  <2>3. CASE t # s
    <3>1. Complete(t) => (Once(t) => Once(t)') /\ (Twice(t) => Twice(t)')
      BY <1>3, <2>2, <2>3, RepliesStay
    <3>2. Out(t)' = Out(t) /\ Complete(t)' = Complete(t)
      BY <2>2, <2>3
    <3>3. QED
      BY <1>2, <1>3, <3>1, <3>2
  <2>4. CASE Out(s) = {}
    <3>1. n + 1 + 1 = n + 2
      BY <2>1
    <3>2. Once(s)' /\ Out(s)' # {}
      BY <2>2, <2>4, <3>1 DEF Once
    <3>3. QED
      BY <2>3, <3>2
  <2>5. CASE t = s /\ Out(s) # {}
    <3>1. Complete(s) /\ Once(s)
      BY <1>2, <2>5
    <3>2. PICK m \in Out(s) : Out(s) = {m, m + 1} /\ WholeAt(s, m)
      BY <3>1 DEF Once
    <3>3. m \in DOMAIN wire /\ m + 1 \in DOMAIN wire
      BY <3>2 DEF Out
    <3>4. m \in Nat /\ m + 1 < n + 1 /\ n + 1 + 1 = n + 2
      BY <2>1, <2>2, <3>3
    <3>5. WholeAt(s, m)'
      BY <1>3, <2>2, <3>1, <3>2, <3>3 DEF WholeAt, Status
    <3>6. Out(s)' = {m, m + 1, n + 1, n + 1 + 1}
      BY <2>2, <3>2, <3>4
    <3>7. Twice(s)'
      BY <2>2, <3>4, <3>5, <3>6 DEF Twice
    <3>8. QED
      BY <2>5, <3>1, <3>6, <3>7
  <2>6. QED
    BY <2>3, <2>4, <2>5
<1>6. QED
  BY <1>4, <1>5, AnsweredOrFailed

\* A request has its reply once its headers are whole,
LEMMA HeadersAnswer ==
    ASSUME NoSplitGet, IInv, SyncInv, AnswerInv,
           NEW s \in Stream, NEW r \in Request,
           NEW endHeaders \in BOOLEAN, NEW endStream \in BOOLEAN,
           Headers(s, r, endHeaders, endStream)
    PROVE  AnswerInv'
<1>1. /\ block = None /\ req[s] = None /\ s \notin trailed /\ trailed' = trailed
      /\ req' = [req EXCEPT ![s] = r] /\ req'[s] = r /\ r # None
      /\ block' = IF endHeaders THEN None ELSE s
  BY DEF Headers, BetweenBlocks, IInv, OpenedInv, TypeOK
<1>2. /\ ~Complete(s) /\ Complete(s)' = endHeaders
      /\ \A t \in Stream \ {s} : Complete(t)' = Complete(t) /\ req'[t] = req[t]
  BY <1>1 DEF Complete, IInv, TypeOK
<1>3. IF endHeaders THEN RequestStep(s) ELSE NoCall
  BY HeadersInSync
<1>4. CASE ~endHeaders
  <2>1. \A t \in Stream : /\ Complete(t)' = Complete(t)
                          /\ Complete(t) => req'[t] = req[t]
    BY <1>1, <1>2, <1>4 DEF Complete
  <2>2. trailed \subseteq trailed' /\ UNCHANGED <<wire, broken, failed>>
    BY <1>1, <1>3, <1>4 DEF NoCall
  <2>3. QED
    BY <2>1, <2>2, AnswersStay
<1>5. CASE endHeaders
  BY <1>1, <1>2, <1>3, <1>5, ReplyStep DEF RequestStep
<1>6. QED
  BY <1>4, <1>5

\* a second one after its trailers,
LEMMA TrailersAnswer ==
    ASSUME IInv, SyncInv, AnswerInv, NEW s \in Stream, Trailers(s)
    PROVE  AnswerInv'
<1>1. /\ block = None /\ req[s] # None /\ s \notin trailed
      /\ trailed' = trailed \union {s} /\ UNCHANGED <<req, block>>
  BY DEF Trailers, BetweenBlocks, IInv, TypeOK
<1>2. /\ Complete(s)'
      /\ \A t \in Stream : Complete(t)' = Complete(t)
  BY <1>1 DEF Complete, IInv, TypeOK
<1>3. CASE RequestStep(s)
  BY <1>1, <1>2, <1>3, ReplyStep DEF RequestStep
<1>4. CASE NoCall
  BY <1>1, <1>2, <1>4, AnswersStay DEF NoCall
<1>5. QED
  BY <1>3, <1>4, TrailersInSync

\* and its first when a CONTINUATION ends the block.
LEMMA ContinuationAnswer ==
    ASSUME IInv, SyncInv, AnswerInv, NEW s \in Stream, s = block,
           NEW endHeaders \in BOOLEAN, Continuation(endHeaders)
    PROVE  AnswerInv'
<1>1. /\ req[s] # None /\ s \notin trailed /\ UNCHANGED <<req, trailed>>
      /\ block' = IF endHeaders THEN None ELSE s
  BY DEF Continuation, IInv, BlockInv
<1>2. /\ ~Complete(s) /\ Complete(s)' = endHeaders
      /\ \A t \in Stream \ {s} : Complete(t)' = Complete(t)
  BY <1>1 DEF Complete, IInv, TypeOK
<1>3. IF endHeaders THEN RequestStep(s) ELSE NoCall
  BY ContinuationInSync
<1>4. CASE ~endHeaders
  <2>1. \A t \in Stream : /\ Complete(t)' = Complete(t)
                          /\ Complete(t) => req'[t] = req[t]
    BY <1>1, <1>2, <1>4 DEF Complete
  <2>2. trailed \subseteq trailed' /\ UNCHANGED <<wire, broken, failed>>
    BY <1>1, <1>3, <1>4 DEF NoCall
  <2>3. QED
    BY <2>1, <2>2, AnswersStay
<1>5. CASE endHeaders
  BY <1>1, <1>2, <1>3, <1>5, ReplyStep DEF RequestStep
<1>6. QED
  BY <1>4, <1>5

\* Control frames, bodies, resets, GOAWAY and the end complete no request.
LEMMA OthersAnswer ==
    ASSUME IInv, SyncInv, AnswerInv,
           \/ Preface \/ Settings \/ Ping
           \/ \E s \in Stream, endStream \in BOOLEAN : Data(s, endStream)
           \/ \E s \in Stream : RstStream(s)
           \/ handleGoAwayFrame \/ Removed
           \/ UNCHANGED vars
    PROVE  AnswerInv'
<1>1. /\ UNCHANGED <<req, block, trailed>>
      /\ \/ UNCHANGED <<wire, broken, failed>>
         \/ \E kind \in {"SETTINGS", "SETTINGS_ACK", "PING_ACK"} : ControlStep(kind)
  BY OthersInSync DEF NoCall
<1>2. \A t \in Stream : Complete(t)' = Complete(t)
  BY <1>1 DEF Complete
<1>3. QED
  BY <1>1, <1>2, AnswersStay

\* Every step of a client that does not split a GET keeps AnswerInv.
LEMMA NextAnswerInv ==
    NoSplitGet /\ IInv /\ SyncInv /\ AnswerInv /\ [Next]_vars => AnswerInv'
<1> SUFFICES ASSUME NoSplitGet, IInv, SyncInv, AnswerInv, [Next]_vars
             PROVE  AnswerInv'
  OBVIOUS
<1>1. ASSUME NEW eh \in BOOLEAN, Continuation(eh) PROVE AnswerInv'
  <2>1. PICK s \in Stream : s = block
    BY <1>1 DEF Continuation, IInv, TypeOK
  <2>2. QED
    BY <1>1, <2>1, ContinuationAnswer
<1>2. QED
  BY <1>1, Steps, HeadersAnswer, TrailersAnswer, OthersAnswer

\* AnswerInv holds as long as no client splits the headers of a GET.
LEMMA Answering == NoSplitGet => (Spec => []AnswerInv)
<1> SUFFICES ASSUME NoSplitGet PROVE Spec => []AnswerInv
  OBVIOUS
<1>1. Init => AnswerInv
  BY DEF Init, AnswerInv, Complete, Out
<1>2. IInv /\ SyncInv /\ AnswerInv /\ [Next]_vars => AnswerInv'
  BY NextAnswerInv
<1>3. QED
  BY <1>1, <1>2, InSync, Invariance, PTL DEF Spec

\* As long as no client splits the headers of a GET, a stream carries its own
\* reply once, in one piece, and with trailers twice.
THEOREM RepliesAreSingle == NoSplitGet => (Spec => []OneReply)
<1> SUFFICES ASSUME NoSplitGet PROVE Spec => []OneReply
  OBVIOUS
<1>1. AnswerInv => OneReply
  BY DEF AnswerInv, OneReply, Once, Twice
<1>2. QED
  BY <1>1, Answering, PTL

\* As long as no client splits the headers of a GET, a request is answered as
\* soon as its header block is complete, or the file system has failed for it.
THEOREM RequestsAreAnswered == NoSplitGet => (Spec => []AnsweredAtOnce)
<1> SUFFICES ASSUME NoSplitGet PROVE Spec => []AnsweredAtOnce
  OBVIOUS
<1>1. AnswerInv => AnsweredAtOnce
  BY DEF AnswerInv, AnsweredAtOnce, Complete
<1>2. QED
  BY <1>1, Answering, PTL
=============================================================================
