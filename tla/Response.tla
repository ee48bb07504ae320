------------------------------ MODULE Response ------------------------------
(***************************************************************************)
(* From a document to the bytes on the wire: Response::processFrames cuts  *)
(* the DATA frame, encodeFrames packs frames into buffers, and sendData    *)
(* writes each buffer with one SSL_write. SSL_write runs with partial      *)
(* writes enabled, so it writes one TLS record and returns; sendData takes *)
(* a short count for success and does not write the rest. The reply is     *)
(* whole only if no buffer is larger than a record.                        *)
(*                                                                         *)
(* Frames are lengths and offsets into the document, buffers are sizes and *)
(* the number of the last frame in them. One step is one turn of a loop.   *)
(***************************************************************************)
EXTENDS Integers, Sequences

CONSTANTS MaxFrame,     \* MAX_FRAME_SIZE
          FrameHeader,  \* bytes Frame::encode puts before the payload
          Record,       \* plaintext bytes one TLS record can carry
          HeaderSizes,  \* encoded sizes of the reply's header list
          BodySizes     \* sizes of the documents

\* "15 bytes as a quick hack for the preceding 15 bytes".
ASSUME RecordAssumption ==
    /\ MaxFrame \in Nat \ {0}
    /\ FrameHeader \in Nat \ {0}
    /\ Record \in Nat
    /\ MaxFrame + FrameHeader <= Record

\* A reply has six short fields: the encoder aborts on a name or a value of
\* 127 bytes or more.
ASSUME HeaderAssumption ==
    \A n \in HeaderSizes : n \in Nat /\ n + FrameHeader <= MaxFrame

\* An empty document is answered with an error page, which is not empty.
ASSUME BodyAssumption == BodySizes \subseteq Nat \ {0}

VARIABLES pc,
          header,     \* payload size of the HEADERS frame
          body,       \* payload size of the DATA frame
          offset,     \* splitFrame: bytes of the document already cut
          frames,     \* the frames, in order
          packed,     \* encodeFrames: frames already in a buffer
          currSize,   \* encodeFrames: its count of the last buffer's bytes
          buffers,    \* the buffers, in order
          written,    \* buffers given to sendData
          delivered,  \* frames that are on the wire whole
          cut         \* a buffer was written in part and the rest dropped

vars == <<pc, header, body, offset, frames, packed, currSize, buffers,
          written, delivered, cut>>

HeadersFrame(n) == [kind |-> "HEADERS", from |-> 0, len |-> n, end |-> FALSE]

DataFrame(from, n, end) ==
    [kind |-> "DATA", from |-> from, len |-> n, end |-> end]

\* The HEADERS frame never exceeds MaxFrame: processFrames keeps it as it is.
Init ==
    /\ pc = "split"
    /\ header \in HeaderSizes
    /\ body \in BodySizes
    /\ offset = 0
    /\ frames = <<HeadersFrame(header)>>
    /\ packed = 0
    /\ currSize = 0
    /\ buffers = <<[size |-> 0, last |-> 0]>>
    /\ written = 0
    /\ delivered = 0
    /\ cut = FALSE

-----------------------------------------------------------------------------
(* processFrames and splitFrame. *)

KeepFrame ==
    /\ pc = "split"
    /\ body <= MaxFrame
    /\ frames' = Append(frames, DataFrame(0, body, TRUE))
    /\ pc' = "pack"
    /\ UNCHANGED <<header, body, offset, packed, currSize, buffers, written,
                   delivered, cut>>

\* Mutant: every chunk but the last keeps the flags of the frame.
ChunkFlagged(size) == DataFrame(offset, size, offset + size < body)

\* END_STREAM is taken off the flags of every chunk.
Chunk(size) == DataFrame(offset, size, FALSE)

\* Mutant: every chunk is a whole one, past the end of the document.
ChunkWhole == MaxFrame

\* Mutant: chunks as large as a record, without room for the frame header.
ChunkOfRecord == IF Record <= body - offset THEN Record ELSE body - offset

\* The size of the next chunk.
ChunkSize == IF MaxFrame <= body - offset THEN MaxFrame ELSE body - offset

CutChunk ==
    /\ pc = "split"
    /\ body > MaxFrame
    /\ offset < body
    /\ frames' = Append(frames, Chunk(ChunkSize))
    /\ offset' = offset + ChunkSize
    /\ UNCHANGED <<pc, header, body, packed, currSize, buffers, written,
                   delivered, cut>>

\* Mutant: the loop does not stop at the end of the document, where there is
\* nothing to cut.
CutDoneBeyond ==
    /\ pc = "split"
    /\ body > MaxFrame
    /\ offset > body
    /\ frames' = [frames EXCEPT ![Len(frames)].end = TRUE]
    /\ pc' = "pack"
    /\ UNCHANGED <<header, body, offset, packed, currSize, buffers, written,
                   delivered, cut>>

\* The last chunk gets END_STREAM back.
CutDone ==
    /\ pc = "split"
    /\ body > MaxFrame
    /\ offset >= body
    /\ frames' = [frames EXCEPT ![Len(frames)].end = TRUE]
    /\ pc' = "pack"
    /\ UNCHANGED <<header, body, offset, packed, currSize, buffers, written,
                   delivered, cut>>

-----------------------------------------------------------------------------
(* encodeFrames. *)

\* Mutant: the limit is that of a payload, the header is added on top.
FitsPayload(f) == currSize + f.len <= MaxFrame + FrameHeader

Fits(f) == currSize + f.len + FrameHeader <= MaxFrame

\* Mutant: each frame opens a buffer, the first leaves an empty one behind.
PackApart ==
    LET f == frames[packed + 1] IN
    /\ pc = "pack"
    /\ packed < Len(frames)
    /\ packed' = packed + 1
    /\ currSize' = f.len + FrameHeader
    /\ buffers' = Append(buffers, [size |-> currSize', last |-> packed + 1])
    /\ UNCHANGED <<pc, header, body, offset, frames, written, delivered, cut>>

\* A frame that does not fit opens the next buffer; a frame larger than any
\* buffer does so too and fills it alone.
Pack ==
    LET f == frames[packed + 1] IN
    /\ pc = "pack"
    /\ packed < Len(frames)
    /\ packed' = packed + 1
    /\ \/ /\ Fits(f)
          /\ currSize' = currSize + f.len + FrameHeader
          /\ buffers' = [buffers EXCEPT
                 ![Len(buffers)] = [size |-> @.size + f.len + FrameHeader,
                                    last |-> packed + 1]]
       \/ /\ ~Fits(f)
          /\ currSize' = f.len + FrameHeader
          /\ buffers' = Append(buffers, [size |-> f.len + FrameHeader,
                                         last |-> packed + 1])
    /\ UNCHANGED <<pc, header, body, offset, frames, written, delivered, cut>>

PackDone ==
    /\ pc = "pack"
    /\ packed = Len(frames)
    /\ pc' = "send"
    /\ UNCHANGED <<header, body, offset, frames, packed, currSize, buffers,
                   written, delivered, cut>>

-----------------------------------------------------------------------------
(* The loop over sendData. *)

\* One record at most is written; a short count is only warned about. So is a
\* count of 0, which OpenSSL keeps for writes that failed in older versions and
\* for empty buffers, see NoEmptyWrite; it is not followed here.
Write ==
    /\ pc = "send"
    /\ written < Len(buffers)
    /\ written' = written + 1
    /\ LET b == buffers[written + 1] IN
           IF b.size <= Record /\ ~cut
           THEN delivered' = b.last /\ UNCHANGED cut
           ELSE cut' = TRUE /\ UNCHANGED delivered
    /\ UNCHANGED <<pc, header, body, offset, frames, packed, currSize, buffers>>

\* SSL_write fails: the rest of the buffers is not tried.
WriteFails ==
    /\ pc = "send"
    /\ written < Len(buffers)
    /\ pc' = "failed"
    /\ UNCHANGED <<header, body, offset, frames, packed, currSize, buffers,
                   written, delivered, cut>>

SendDone ==
    /\ pc = "send"
    /\ written = Len(buffers)
    /\ pc' = "done"
    /\ UNCHANGED <<header, body, offset, frames, packed, currSize, buffers,
                   written, delivered, cut>>

Returned == pc \in {"done", "failed"} /\ UNCHANGED vars

Next ==
    \/ KeepFrame \/ CutChunk \/ CutDone
    \/ Pack \/ PackDone
    \/ Write \/ WriteFails \/ SendDone
    \/ Returned

Spec == Init /\ [][Next]_vars

\* The loops run until they are over.
FairSpec == Spec /\ WF_vars(Next)

-----------------------------------------------------------------------------
(* Properties. *)

AnyFrame == [kind : {"HEADERS", "DATA"}, from : Nat, len : Nat, end : BOOLEAN]

\* Every variable has its type.
TypeOK ==
    /\ pc \in {"split", "pack", "send", "done", "failed"}
    /\ header \in HeaderSizes
    /\ body \in BodySizes
    /\ offset \in 0..body
    /\ frames \in Seq(AnyFrame)
    /\ packed \in 0..Len(frames)
    /\ currSize \in Nat
    /\ buffers \in Seq([size : Nat, last : Nat])
    /\ written \in 0..Len(buffers)
    /\ delivered \in 0..Len(frames)
    /\ cut \in BOOLEAN

\* No buffer is larger than a TLS record, so no write is cut short.
FitsRecord ==
    /\ \A k \in 1..Len(buffers) : buffers[k].size <= Record
    /\ ~cut

\* No buffer given to SSL_write is empty: what it returns for zero bytes is
\* not defined.
NoEmptyWrite ==
    pc = "send" => \A k \in 1..Len(buffers) : buffers[k].size > 0

\* The frames are the document in order and without a gap: HEADERS first, each
\* DATA frame begins where the one before ended, the last one ends the
\* document and it alone ends the stream.
FramesAreDocument ==
    pc \in {"pack", "send", "done", "failed"} =>
        LET n == Len(frames) IN
        /\ n >= 2
        /\ frames[1] = HeadersFrame(header)
        /\ \A i \in 2..n :
               /\ frames[i].kind = "DATA"
               /\ frames[i].len \in 1..MaxFrame
               /\ frames[i].from =
                      IF i = 2 THEN 0 ELSE frames[i - 1].from + frames[i - 1].len
               /\ frames[i].end <=> i = n
        /\ frames[n].from + frames[n].len = body

\* When respondGet returns true every frame is on the wire.
WholeReply == pc = "done" => delivered = Len(frames)

\* The reply comes to an end: the cutting and packing loops terminate.
Terminates == <>(pc \in {"done", "failed"})
=============================================================================
