--------------------------- MODULE ResponseProofs ---------------------------
(***************************************************************************)
(* Proofs about Response, for every frame size, header size and document:  *)
(* the frames are the document, no buffer outgrows a TLS record, none is   *)
(* empty, and a reply that is done is on the wire whole.                   *)
(***************************************************************************)
EXTENDS Response, SequenceTheorems, TLAPS

\* The largest buffer: one full frame with its header.
MaxBuffer == MaxFrame + FrameHeader

\* Frame i begins where the one before it ended and is no larger than a frame.
Follows(i) ==
    /\ frames[i].kind = "DATA"
    /\ frames[i].len \in 1..MaxFrame
    /\ frames[i].from =
           IF i = 2 THEN 0 ELSE frames[i - 1].from + frames[i - 1].len

\* While the document is cut, the frames reach up to offset and none ends the
\* stream; afterwards they reach the end and the last one ends it.
FramesInv ==
    /\ Len(frames) >= 1
    /\ frames[1] = HeadersFrame(header)
    /\ \A i \in 2..Len(frames) : Follows(i)
    /\ pc = "split" =>
           /\ \A i \in 2..Len(frames) : ~frames[i].end
           /\ body <= MaxFrame => Len(frames) = 1
           /\ IF Len(frames) = 1
              THEN offset = 0
              ELSE offset = frames[Len(frames)].from + frames[Len(frames)].len
    /\ pc # "split" =>
           /\ Len(frames) >= 2
           /\ \A i \in 2..Len(frames) : frames[i].end <=> i = Len(frames)
           /\ frames[Len(frames)].from + frames[Len(frames)].len = body

\* currSize is the size of the last buffer, which ends with the last packed
\* frame. Buffers are no larger than MaxBuffer, and not empty once the first
\* frame is packed, which goes to the buffer made before the loop.
BuffersInv ==
    /\ Len(buffers) >= 1
    /\ buffers[Len(buffers)] = [size |-> currSize, last |-> packed]
    /\ \A k \in 1..Len(buffers) :
           /\ buffers[k].size <= MaxBuffer
           /\ packed > 0 => buffers[k].size > 0
           /\ buffers[k].last <= packed
    /\ packed = 0 => Len(buffers) = 1 /\ currSize = 0
    /\ pc = "split" => packed = 0
    /\ pc \notin {"split", "pack"} => packed = Len(frames)

\* What was delivered is what the written buffers hold.
SentInv ==
    /\ ~cut
    /\ delivered = IF written = 0 THEN 0 ELSE buffers[written].last
    /\ pc \in {"split", "pack"} => written = 0
    /\ pc = "done" => written = Len(buffers)

IInv == TypeOK /\ FramesInv /\ BuffersInv /\ SentInv

-----------------------------------------------------------------------------

\* The frames, buffers and counters a reply starts with satisfy the invariant.
LEMMA InitIInv == Init => IInv
  <1> SUFFICES ASSUME Init PROVE IInv
    OBVIOUS
  <1>0. header \in Nat /\ body \in Nat
    BY HeaderAssumption, BodyAssumption DEF Init
  <1>1. HeadersFrame(header) \in AnyFrame
    BY <1>0 DEF HeadersFrame, AnyFrame
  <1>2. /\ frames = <<HeadersFrame(header)>> /\ Len(frames) = 1
        /\ frames[1] = HeadersFrame(header)
        /\ frames \in Seq(AnyFrame)
    BY <1>1 DEF Init
  <1>3. /\ buffers = <<[size |-> 0, last |-> 0]>> /\ Len(buffers) = 1
        /\ buffers[1] = [size |-> 0, last |-> 0]
        /\ buffers \in Seq([size : Nat, last : Nat])
    BY DEF Init
  <1>4. TypeOK
    <2>1. pc = "split" /\ header \in HeaderSizes /\ body \in BodySizes
      BY DEF Init
    <2>2. offset = 0 /\ packed = 0 /\ currSize = 0
      BY DEF Init
    <2>3. written = 0 /\ delivered = 0 /\ cut = FALSE
      BY DEF Init
    <2>4. /\ offset \in 0..body /\ currSize \in Nat
          /\ packed \in 0..Len(frames) /\ delivered \in 0..Len(frames)
          /\ written \in 0..Len(buffers)
      BY <1>0, <1>2, <1>3, <2>2, <2>3
    <2> QED
      BY <1>2, <1>3, <2>1, <2>3, <2>4 DEF TypeOK
  <1>5. FramesInv
    BY <1>2 DEF Init, FramesInv
  <1>6. BuffersInv
    BY <1>3, RecordAssumption DEF Init, BuffersInv, MaxBuffer
  <1>7. SentInv
    BY DEF Init, SentInv
  <1> QED
    BY <1>4, <1>5, <1>6, <1>7 DEF IInv

\* A frame appended behind the others leaves them in place.
LEMMA Appended ==
  ASSUME NEW S, NEW s \in Seq(S), NEW x \in S
  PROVE  /\ Append(s, x) \in Seq(S)
         /\ Len(Append(s, x)) = Len(s) + 1
         /\ \A i \in 1..Len(s) : Append(s, x)[i] = s[i]
         /\ Append(s, x)[Len(s) + 1] = x
  OBVIOUS

\* Facts about the length of a sequence that the steps below need alone.
LEMMA OneMore ==
  ASSUME NEW n \in Nat, NEW i, i = n + 1
  PROVE  i - 1 = n /\ (i = 2 <=> n = 1)
  OBVIOUS

LEMMA NotOne ==
  ASSUME NEW n \in Nat, n >= 1, n # 1
  PROVE  n >= 2
  OBVIOUS

LEMMA Indices ==
  ASSUME NEW n \in Nat, n >= 2
  PROVE  /\ 1 \in 1..n /\ 1 # n
         /\ \A i \in 2..n : i \in 1..n /\ i - 1 \in 1..n /\ i - 1 # n
  OBVIOUS

\* Cutting a chunk off, or keeping a small frame whole, appends a frame that
\* begins at the end of the ones before and reaches to upTo.
LEMMA AppendFrame ==
  ASSUME IInv, pc = "split",
         NEW n \in 1..MaxFrame, NEW end \in BOOLEAN,
         frames' = Append(frames, DataFrame(offset, n, end)),
         UNCHANGED header
  PROVE  /\ frames' \in Seq(AnyFrame)
         /\ Len(frames') = Len(frames) + 1
         /\ frames'[1] = HeadersFrame(header)'
         /\ \A i \in 2..Len(frames') : Follows(i)'
         /\ \A i \in 2..Len(frames) : ~frames'[i].end
         /\ frames'[Len(frames')] = DataFrame(offset, n, end)
  <1> USE DEF IInv
  <1>1. offset \in Nat /\ frames \in Seq(AnyFrame) /\ Len(frames) \in Nat
        /\ Len(frames) >= 1 /\ body \in Nat
    BY BodyAssumption DEF TypeOK, FramesInv
  <1>2. DataFrame(offset, n, end) \in AnyFrame
    BY <1>1, RecordAssumption DEF DataFrame, AnyFrame
  <1>3. /\ frames' \in Seq(AnyFrame)
        /\ Len(frames') = Len(frames) + 1
        /\ \A i \in 1..Len(frames) : frames'[i] = frames[i]
        /\ frames'[Len(frames) + 1] = DataFrame(offset, n, end)
    BY <1>1, <1>2, Appended
  <1>4. frames'[1] = HeadersFrame(header)'
    BY <1>1, <1>3 DEF FramesInv, HeadersFrame
  <1>5. ASSUME NEW i \in 2..Len(frames') PROVE Follows(i)'
    <2>1. CASE i <= Len(frames)
      <3>1. i \in 2..Len(frames) /\ frames'[i] = frames[i]
            /\ frames'[i - 1] = frames[i - 1]
        BY <1>1, <1>3, <2>1
      <3> QED
        BY <3>1 DEF FramesInv, Follows
    <2>2. CASE i > Len(frames)
      <3>1. i = Len(frames) + 1 /\ frames'[i] = DataFrame(offset, n, end)
            /\ frames'[i - 1] = frames[i - 1]
        BY <1>1, <1>3, <2>2
      <3>2. offset = IF i = 2 THEN 0 ELSE frames[i - 1].from + frames[i - 1].len
        <4>1. IF Len(frames) = 1
              THEN offset = 0
              ELSE offset = frames[Len(frames)].from + frames[Len(frames)].len
          BY DEF FramesInv
        <4>2. i - 1 = Len(frames) /\ (i = 2 <=> Len(frames) = 1)
          BY <1>1, <3>1, OneMore
        <4> QED
          BY <4>1, <4>2
      <3> QED
        BY <3>1, <3>2 DEF DataFrame, Follows
    <2> QED
      BY <1>1, <1>3, <2>1, <2>2
  <1>6. \A i \in 2..Len(frames) : ~frames'[i].end
    BY <1>1, <1>3 DEF FramesInv
  <1> QED
    BY <1>3, <1>4, <1>5, <1>6

-----------------------------------------------------------------------------
(* One lemma for each step. *)

\* A document of one frame is kept as it is.
LEMMA KeepFrameIInv == ASSUME IInv, KeepFrame PROVE IInv'
  <1>1. /\ pc = "split" /\ body <= MaxFrame /\ pc' = "pack"
        /\ frames' = Append(frames, DataFrame(0, body, TRUE))
        /\ UNCHANGED <<header, body, offset, packed, currSize, buffers,
                       written, delivered, cut>>
    BY DEF KeepFrame
  <1>2. Len(frames) = 1 /\ offset = 0
    BY <1>1 DEF IInv, FramesInv
  <1>3. body \in 1..MaxFrame
    BY <1>1, BodyAssumption, RecordAssumption DEF IInv, TypeOK
  <1>4. /\ frames' \in Seq(AnyFrame)
        /\ Len(frames') = 2
        /\ frames'[1] = HeadersFrame(header)'
        /\ \A i \in 2..Len(frames') : Follows(i)'
        /\ frames'[2] = DataFrame(0, body, TRUE)
    <2>1. /\ frames' = Append(frames, DataFrame(offset, body, TRUE))
          /\ UNCHANGED header
      BY <1>1, <1>2
    <2>2. /\ frames' \in Seq(AnyFrame)
          /\ Len(frames') = Len(frames) + 1
          /\ frames'[1] = HeadersFrame(header)'
          /\ \A i \in 2..Len(frames') : Follows(i)'
          /\ frames'[Len(frames')] = DataFrame(offset, body, TRUE)
      BY <1>1, <1>3, <2>1, AppendFrame, Zenon
    <2>3. Len(frames') = 2
      BY <1>2, <2>2
    <2> QED
      BY <1>2, <2>2, <2>3
  <1>5. TypeOK'
    <2>1. packed' \in 0..Len(frames') /\ delivered' \in 0..Len(frames')
      BY <1>1, <1>2, <1>4 DEF IInv, TypeOK
    <2> QED
      BY <1>1, <1>4, <2>1 DEF IInv, TypeOK
  <1>6. FramesInv'
    <2>1. pc' # "split"
      BY <1>1
    <2>2. \A i \in 2..Len(frames') : frames'[i].end <=> i = Len(frames')
      BY <1>4 DEF DataFrame
    <2>3. frames'[Len(frames')].from + frames'[Len(frames')].len = body'
      BY <1>1, <1>3, <1>4 DEF DataFrame
    <2>4. Len(frames') >= 1 /\ Len(frames') >= 2
      BY <1>4
    <2> QED
      BY <1>4, <2>1, <2>2, <2>3, <2>4, Zenon DEF FramesInv
  <1>7. BuffersInv'
    BY <1>1 DEF IInv, BuffersInv
  <1>8. SentInv'
    BY <1>1 DEF IInv, SentInv
  <1> QED
    BY <1>5, <1>6, <1>7, <1>8 DEF IInv

\* The size of a chunk is a frame's at most and stays inside the document.
LEMMA ChunkSizeBounds ==
  ASSUME IInv, offset < body
  PROVE  ChunkSize \in 1..MaxFrame /\ offset + ChunkSize \in 1..body
  BY BodyAssumption, RecordAssumption DEF IInv, TypeOK, ChunkSize

\* A chunk goes on where the last one ended.
LEMMA CutChunkIInv == ASSUME IInv, CutChunk PROVE IInv'
  <1>1. /\ pc = "split" /\ pc' = "split" /\ body > MaxFrame
        /\ frames' = Append(frames, DataFrame(offset, ChunkSize, FALSE))
        /\ offset' = offset + ChunkSize
        /\ UNCHANGED <<header, body, packed, currSize, buffers, written,
                       delivered, cut>>
    BY DEF CutChunk, Chunk
  <1>2. ChunkSize \in 1..MaxFrame /\ offset' \in 1..body
    BY <1>1, ChunkSizeBounds DEF CutChunk
  <1>3. /\ frames' \in Seq(AnyFrame)
        /\ Len(frames') = Len(frames) + 1
        /\ frames'[1] = HeadersFrame(header)'
        /\ \A i \in 2..Len(frames') : Follows(i)'
        /\ \A i \in 2..Len(frames) : ~frames'[i].end
        /\ frames'[Len(frames')] = DataFrame(offset, ChunkSize, FALSE)
    BY <1>1, <1>2, AppendFrame, Zenon
  <1>4. Len(frames) \in Nat /\ Len(frames) >= 1
    BY DEF IInv, TypeOK, FramesInv
  <1>5. TypeOK'
    <2>1. offset' \in 0..body'
      BY <1>1, <1>2, BodyAssumption DEF IInv, TypeOK
    <2>2. packed' \in 0..Len(frames') /\ delivered' \in 0..Len(frames')
      BY <1>1, <1>3, <1>4 DEF IInv, TypeOK
    <2> QED
      BY <1>1, <1>3, <2>1, <2>2 DEF IInv, TypeOK
  <1>6. FramesInv'
    <2>1. \A i \in 2..Len(frames') : ~frames'[i].end
      BY <1>3, <1>4 DEF DataFrame
    <2>2. Len(frames') # 1 /\ Len(frames') >= 1
      BY <1>3, <1>4
    <2>3. offset' = frames'[Len(frames')].from + frames'[Len(frames')].len
      BY <1>1, <1>3 DEF DataFrame
    <2>4. pc' = "split" /\ ~(body' <= MaxFrame)
      BY <1>1, BodyAssumption, RecordAssumption DEF IInv, TypeOK
    <2> QED
      BY <1>3, <2>1, <2>2, <2>3, <2>4 DEF FramesInv
  <1>7. BuffersInv'
    BY <1>1 DEF IInv, BuffersInv
  <1>8. SentInv'
    BY <1>1 DEF IInv, SentInv
  <1> QED
    BY <1>5, <1>6, <1>7, <1>8 DEF IInv

\* The chunks have reached the end of the document; the last gets the flag.
LEMMA CutDoneIInv == ASSUME IInv, CutDone PROVE IInv'
  <1>1. /\ pc = "split" /\ pc' = "pack" /\ body > MaxFrame /\ offset >= body
        /\ frames' = [frames EXCEPT ![Len(frames)].end = TRUE]
        /\ UNCHANGED <<header, body, offset, packed, currSize, buffers,
                       written, delivered, cut>>
    BY DEF CutDone
  <1>2. /\ frames \in Seq(AnyFrame) /\ Len(frames) \in Nat /\ Len(frames) >= 1
        /\ body \in Nat /\ body > 0 /\ offset = body
    BY <1>1, BodyAssumption DEF IInv, TypeOK, FramesInv
  <1>3. Len(frames) >= 2
    <2>1. Len(frames) = 1 => offset = 0
      BY <1>1 DEF IInv, FramesInv
    <2>2. Len(frames) # 1
      BY <1>2, <2>1
    <2>3. Len(frames) \in Nat /\ Len(frames) >= 1
      BY <1>2
    <2> QED
      BY <2>2, <2>3, NotOne
  <1>4. /\ frames' \in Seq(AnyFrame)
        /\ Len(frames') = Len(frames)
        /\ \A i \in 1..Len(frames) : i # Len(frames) => frames'[i] = frames[i]
        /\ frames'[Len(frames)] = [frames[Len(frames)] EXCEPT !.end = TRUE]
    <2>1. frames[Len(frames)] \in AnyFrame
      BY <1>2
    <2>2. [frames[Len(frames)] EXCEPT !.end = TRUE] \in AnyFrame
      BY <2>1, Zenon DEF AnyFrame
    <2>3. Len(frames) \in 1..Len(frames)
      BY <1>2
    <2>4. frames' = [frames EXCEPT ![Len(frames)] =
                         [frames[Len(frames)] EXCEPT !.end = TRUE]]
      BY <1>1
    <2>5. /\ frames' \in Seq(AnyFrame)
          /\ Len(frames') = Len(frames)
          /\ \A j \in 1..Len(frames) :
                 frames'[j] = IF j = Len(frames)
                              THEN [frames[Len(frames)] EXCEPT !.end = TRUE]
                              ELSE frames[j]
      BY <1>2, <2>2, <2>3, <2>4, ExceptSeq
    <2> QED
      BY <2>3, <2>5, Zenon
  <1>5. \A i \in 1..Len(frames) :
            /\ frames'[i].kind = frames[i].kind
            /\ frames'[i].from = frames[i].from
            /\ frames'[i].len = frames[i].len
    <2> SUFFICES ASSUME NEW i \in 1..Len(frames)
                 PROVE  /\ frames'[i].kind = frames[i].kind
                        /\ frames'[i].from = frames[i].from
                        /\ frames'[i].len = frames[i].len
      OBVIOUS
    <2>1. CASE i = Len(frames)
      <3>1. frames[i] \in AnyFrame
        BY <1>2
      <3> QED
        BY <1>4, <2>1, <3>1 DEF AnyFrame
    <2>2. CASE i # Len(frames)
      <3>1. frames'[i] = frames[i]
        BY <1>4, <2>2, Zenon
      <3> QED
        BY <3>1
    <2> QED
      BY <2>1, <2>2
  <1>6. TypeOK'
    BY <1>1, <1>4 DEF IInv, TypeOK
  <1>7. FramesInv'
    <2>1. frames'[1] = HeadersFrame(header)'
      <3>1. 1 \in 1..Len(frames) /\ 1 # Len(frames)
        BY <1>2, <1>3, Indices
      <3>2. frames'[1] = frames[1]
        BY <1>4, <3>1
      <3> QED
        BY <1>1, <3>2 DEF IInv, FramesInv, HeadersFrame
    <2>2. \A i \in 2..Len(frames') : Follows(i)'
      <3> SUFFICES ASSUME NEW i \in 2..Len(frames) PROVE Follows(i)'
        BY <1>4
      <3>1. i \in 1..Len(frames) /\ i - 1 \in 1..Len(frames)
        BY <1>2, <1>3, Indices
      <3>2. Follows(i)
        BY DEF IInv, FramesInv
      <3> QED
        BY <1>5, <3>1, <3>2 DEF Follows
    <2>3. frames'[Len(frames')].from + frames'[Len(frames')].len = body'
      BY <1>1, <1>2, <1>3, <1>4, <1>5 DEF IInv, FramesInv
    <2>4. \A i \in 2..Len(frames') : frames'[i].end <=> i = Len(frames')
      <3> SUFFICES ASSUME NEW i \in 2..Len(frames)
                   PROVE  frames'[i].end <=> i = Len(frames)
        BY <1>4
      <3>1. CASE i = Len(frames)
        <4>1. frames[i] \in AnyFrame
          BY <1>2
        <4> QED
          BY <1>4, <3>1, <4>1 DEF AnyFrame
      <3>2. CASE i # Len(frames)
        <4>1. frames'[i] = frames[i]
          BY <1>2, <1>4, <3>2
        <4> QED
          BY <1>1, <3>2, <4>1 DEF IInv, FramesInv
      <3> QED
        BY <3>1, <3>2
    <2>5. pc' # "split" /\ Len(frames') >= 2
      BY <1>1, <1>3, <1>4
    <2> QED
      BY <2>1, <2>2, <2>3, <2>4, <2>5 DEF FramesInv
  <1>8. BuffersInv'
    BY <1>1, <1>4 DEF IInv, BuffersInv
  <1>9. SentInv'
    BY <1>1 DEF IInv, SentInv
  <1> QED
    BY <1>6, <1>7, <1>8, <1>9 DEF IInv

\* A frame joins the last buffer when both fit a frame, and opens one if not:
\* either way the last buffer is no larger than a frame and its header.
LEMMA PackIInv == ASSUME IInv, Pack PROVE IInv'
  <1> DEFINE f == frames[packed + 1]
             size == f.len + FrameHeader
  <1>1. /\ pc = "pack" /\ packed < Len(frames) /\ packed' = packed + 1
        /\ UNCHANGED <<pc, header, body, offset, frames, written, delivered, cut>>
    BY DEF Pack
  <1>2. /\ Len(frames) \in Nat /\ packed \in Nat /\ packed + 1 \in 1..Len(frames)
        /\ packed' \in 1..Len(frames)
    BY <1>1 DEF IInv, TypeOK
  <1>3. /\ f.len \in Nat /\ f.len <= MaxFrame
        /\ packed = 0 => f.len + FrameHeader <= MaxFrame
    <2>1. CASE packed = 0
      <3>1. f = HeadersFrame(header) /\ header \in HeaderSizes
        BY <2>1 DEF IInv, TypeOK, FramesInv
      <3>2. f.len = header
        BY <3>1 DEF HeadersFrame
      <3> QED
        BY <3>1, <3>2, HeaderAssumption, RecordAssumption
    <2>2. CASE packed # 0
      <3>1. packed + 1 \in 2..Len(frames)
        BY <1>2, <2>2
      <3>2. f.len \in 1..MaxFrame
        BY <3>1 DEF IInv, FramesInv, Follows
      <3> QED
        BY <2>2, <3>2, RecordAssumption
    <2> QED
      BY <2>1, <2>2
  <1>4. /\ size \in Nat /\ size > 0 /\ size <= MaxBuffer
        /\ packed = 0 => size <= MaxFrame
    BY <1>3, RecordAssumption DEF MaxBuffer
  <1>5. /\ buffers \in Seq([size : Nat, last : Nat])
        /\ Len(buffers) \in Nat /\ Len(buffers) >= 1
        /\ buffers[Len(buffers)] = [size |-> currSize, last |-> packed]
        /\ currSize \in Nat /\ written = 0
    BY <1>1 DEF IInv, TypeOK, BuffersInv, SentInv
  <1>6. \A k \in 1..Len(buffers) :
            /\ buffers[k].size <= MaxBuffer
            /\ packed > 0 => buffers[k].size > 0
            /\ buffers[k].last <= packed
    BY DEF IInv, BuffersInv
  <1>7. /\ buffers' \in Seq([size : Nat, last : Nat])
        /\ Len(buffers') \in Nat /\ Len(buffers') >= 1 /\ written' = 0
        /\ currSize' \in Nat
        /\ buffers'[Len(buffers')] = [size |-> currSize', last |-> packed']
        /\ \A k \in 1..Len(buffers') :
               /\ buffers'[k].size <= MaxBuffer
               /\ buffers'[k].size > 0
               /\ buffers'[k].last <= packed'
    <2>1. CASE Fits(f)
      <3> DEFINE b == [size |-> currSize + size, last |-> packed + 1]
      <3>1. currSize' = currSize + size
        BY <1>1, <2>1, <1>3, <1>5, RecordAssumption DEF Pack
      <3>2. currSize' \in Nat /\ currSize' > 0 /\ currSize' <= MaxBuffer
        <4>1. currSize + f.len + FrameHeader <= MaxFrame
          BY <2>1 DEF Fits
        <4>2. currSize' = currSize + f.len + FrameHeader
          BY <1>3, <1>5, <3>1, RecordAssumption
        <4> HIDE DEF f
        <4> QED
          BY <1>3, <1>5, <4>1, <4>2, RecordAssumption DEF MaxBuffer
      <3>3. buffers' = [buffers EXCEPT ![Len(buffers)] = b]
        BY <1>1, <2>1, <1>3, <1>5, RecordAssumption DEF Pack
      <3>4. b \in [size : Nat, last : Nat] /\ Len(buffers) \in 1..Len(buffers)
        BY <1>2, <1>5, <3>1, <3>2
      <3>5. /\ buffers' \in Seq([size : Nat, last : Nat])
            /\ Len(buffers') = Len(buffers)
            /\ \A k \in 1..Len(buffers) :
                   buffers'[k] = IF k = Len(buffers) THEN b ELSE buffers[k]
        BY <1>5, <3>3, <3>4, ExceptSeq
      <3>6. buffers'[Len(buffers')] = [size |-> currSize', last |-> packed']
        BY <1>1, <3>1, <3>4, <3>5
      <3>7. ASSUME NEW k \in 1..Len(buffers')
            PROVE  /\ buffers'[k].size <= MaxBuffer
                   /\ buffers'[k].size > 0
                   /\ buffers'[k].last <= packed'
        <4>1. CASE k = Len(buffers)
          BY <1>2, <3>2, <3>5, <3>6, <4>1
        <4>2. CASE k # Len(buffers)
          <5>1. k \in 1..Len(buffers) /\ buffers'[k] = buffers[k]
            BY <3>5, <4>2
          <5>2. packed > 0
            BY <1>2, <1>5, <5>1, <4>2 DEF IInv, BuffersInv
          <5>3. buffers[k] \in [size : Nat, last : Nat]
            BY <1>5, <5>1, ElementOfSeq
          <5> QED
            BY <1>1, <1>2, <1>6, <5>1, <5>2, <5>3
        <4> QED
          BY <4>1, <4>2
      <3>8. Len(buffers') \in Nat /\ Len(buffers') >= 1 /\ written' = 0
        BY <1>1, <1>5, <3>5
      <3> QED
        BY <3>2, <3>5, <3>6, <3>7, <3>8
    <2>2. CASE ~Fits(f)
      <3> DEFINE b == [size |-> size, last |-> packed + 1]
      <3>1. currSize' = size /\ buffers' = Append(buffers, b)
        BY <2>2 DEF Pack
      <3>2. currSize' \in Nat /\ currSize' > 0 /\ currSize' <= MaxBuffer
        BY <1>4, <3>1
      <3>3. packed > 0
        <4>1. packed = 0 => currSize = 0
          BY DEF IInv, BuffersInv
        <4> QED
          BY <1>2, <1>3, <2>2, <4>1, RecordAssumption DEF Fits
      <3>4. b \in [size : Nat, last : Nat]
        BY <1>2, <1>4
      <3>5. /\ buffers' \in Seq([size : Nat, last : Nat])
            /\ Len(buffers') = Len(buffers) + 1
            /\ \A k \in 1..Len(buffers) : buffers'[k] = buffers[k]
            /\ buffers'[Len(buffers) + 1] = b
        BY <1>5, <3>1, <3>4, Appended
      <3>6. buffers'[Len(buffers')] = [size |-> currSize', last |-> packed']
        BY <1>1, <3>1, <3>5
      <3>7. ASSUME NEW k \in 1..Len(buffers')
            PROVE  /\ buffers'[k].size <= MaxBuffer
                   /\ buffers'[k].size > 0
                   /\ buffers'[k].last <= packed'
        <4>1. CASE k = Len(buffers')
          BY <1>2, <3>2, <3>6, <4>1
        <4>2. CASE k # Len(buffers')
          <5>1. k \in 1..Len(buffers)
            BY <1>5, <3>5, <4>2
          <5>2. buffers'[k] = buffers[k]
            BY <3>5, <5>1
          <5>3. buffers[k] \in [size : Nat, last : Nat]
            BY <1>5, <5>1, ElementOfSeq
          <5> QED
            BY <1>1, <1>2, <1>6, <3>3, <5>1, <5>2, <5>3
        <4> QED
          BY <4>1, <4>2
      <3>8. Len(buffers') \in Nat /\ Len(buffers') >= 1 /\ written' = 0
        BY <1>1, <1>5, <3>5
      <3> QED
        BY <3>2, <3>5, <3>6, <3>7, <3>8
    <2> QED
      BY <2>1, <2>2
  <1>8. TypeOK'
    <2>1. packed' \in 0..Len(frames') /\ written' \in 0..Len(buffers')
      BY <1>1, <1>2, <1>7
    <2> QED
      BY <1>1, <1>7, <2>1 DEF IInv, TypeOK
  <1>9. FramesInv'
    BY <1>1 DEF IInv, FramesInv, Follows, HeadersFrame
  <1>10. BuffersInv'
    <2>1. packed' # 0 /\ pc' = "pack"
      BY <1>1, <1>2
    <2> QED
      BY <1>7, <2>1 DEF BuffersInv, MaxBuffer
  <1>11. SentInv'
    BY <1>1, <1>7 DEF IInv, SentInv
  <1> QED
    BY <1>8, <1>9, <1>10, <1>11 DEF IInv

\* The loop is over: every frame is in a buffer.
LEMMA PackDoneIInv == ASSUME IInv, PackDone PROVE IInv'
  <1>1. /\ pc = "pack" /\ pc' = "send" /\ packed = Len(frames)
        /\ UNCHANGED <<header, body, offset, frames, packed, currSize, buffers,
                       written, delivered, cut>>
    BY DEF PackDone
  <1> QED
    BY <1>1 DEF IInv, TypeOK, FramesInv, Follows, HeadersFrame, BuffersInv, SentInv

\* A buffer is no larger than a record and goes out whole, unless a write
\* failed before.
LEMMA WriteIInv == ASSUME IInv, Write PROVE IInv'
  <1>1. /\ pc = "send" /\ written < Len(buffers) /\ written' = written + 1
        /\ UNCHANGED <<pc, header, body, offset, frames, packed, currSize, buffers>>
    BY DEF Write
  <1>2. /\ written + 1 \in 1..Len(buffers)
        /\ buffers[written + 1] \in [size : Nat, last : Nat]
    <2>1. /\ written \in 0..Len(buffers) /\ Len(buffers) \in Nat
          /\ buffers \in Seq([size : Nat, last : Nat])
      BY DEF IInv, TypeOK
    <2>2. written + 1 \in 1..Len(buffers)
      BY <1>1, <2>1
    <2> QED
      BY <2>1, <2>2, ElementOfSeq
  <1>3. buffers[written + 1].size <= Record
    BY <1>2, RecordAssumption DEF IInv, BuffersInv, MaxBuffer
  <1>4. delivered' = buffers[written + 1].last /\ UNCHANGED cut
    BY <1>3 DEF Write, IInv, SentInv
  <1>5. TypeOK'
    <2>1. delivered' \in 0..Len(frames')
      BY <1>1, <1>2, <1>4 DEF IInv, TypeOK, BuffersInv
    <2>2. written' \in 0..Len(buffers')
      BY <1>1, <1>2
    <2> QED
      BY <1>1, <1>4, <2>1, <2>2 DEF IInv, TypeOK
  <1>6. FramesInv'
    BY <1>1 DEF IInv, FramesInv, Follows, HeadersFrame
  <1>7. BuffersInv'
    BY <1>1 DEF IInv, BuffersInv
  <1>8. SentInv'
    <2>1. written' # 0
      BY <1>1, <1>2
    <2> QED
      BY <1>1, <1>4, <2>1 DEF IInv, SentInv
  <1> QED
    BY <1>5, <1>6, <1>7, <1>8 DEF IInv

\* What ends the loop moves only pc.
LEMMA ReturnIInv == ASSUME IInv, WriteFails \/ SendDone PROVE IInv'
  <1>1. /\ pc = "send" /\ pc' \in {"failed", "done"}
        /\ pc' = "done" => written = Len(buffers)
        /\ UNCHANGED <<header, body, offset, frames, packed, currSize, buffers,
                       written, delivered, cut>>
    BY DEF WriteFails, SendDone
  <1> QED
    BY <1>1 DEF IInv, TypeOK, FramesInv, Follows, HeadersFrame, BuffersInv, SentInv

\* Every step keeps the invariant.
LEMMA NextIInv == IInv /\ [Next]_vars => IInv'
  <1> SUFFICES ASSUME IInv, [Next]_vars PROVE IInv'
    OBVIOUS
  <1>1. CASE KeepFrame
    BY <1>1, KeepFrameIInv
  <1>2. CASE CutChunk
    BY <1>2, CutChunkIInv
  <1>3. CASE CutDone
    BY <1>3, CutDoneIInv
  <1>4. CASE Pack
    BY <1>4, PackIInv
  <1>5. CASE PackDone
    BY <1>5, PackDoneIInv
  <1>6. CASE Write
    BY <1>6, WriteIInv
  <1>7. CASE WriteFails \/ SendDone
    BY <1>7, ReturnIInv
  <1>8. CASE Returned \/ UNCHANGED vars
    <2>1. UNCHANGED <<pc, header, body, offset, frames, packed, currSize,
                      buffers, written, delivered, cut>>
      BY <1>8 DEF Returned, vars
    <2>2. TypeOK' /\ BuffersInv' /\ SentInv'
      BY <2>1 DEF IInv, TypeOK, BuffersInv, SentInv
    <2>3. FramesInv'
      BY <2>1 DEF IInv, FramesInv, Follows, HeadersFrame
    <2> QED
      BY <2>2, <2>3 DEF IInv
  <1> QED
    BY <1>1, <1>2, <1>3, <1>4, <1>5, <1>6, <1>7, <1>8 DEF Next

-----------------------------------------------------------------------------
(* What follows for every behaviour. *)

\* IInv is an invariant.
THEOREM Invariance == Spec => []IInv
  BY InitIInv, NextIInv, PTL DEF Spec

\* Every variable has its type.
THEOREM TypeCorrect == Spec => []TypeOK
  <1>1. IInv => TypeOK
    BY DEF IInv
  <1> QED
    BY <1>1, Invariance, PTL

\* No buffer is larger than a TLS record, so sendData never writes a part of
\* one and takes it for the whole.
THEOREM BuffersFitRecords == Spec => []FitsRecord
  <1>1. ASSUME IInv PROVE FitsRecord
    <2>1. ASSUME NEW k \in 1..Len(buffers) PROVE buffers[k].size <= Record
      <3>1. buffers \in Seq([size : Nat, last : Nat])
        BY <1>1 DEF IInv, TypeOK
      <3>2. buffers[k] \in [size : Nat, last : Nat]
        BY <3>1, ElementOfSeq
      <3>3. buffers[k].size <= MaxBuffer
        BY <1>1 DEF IInv, BuffersInv
      <3> QED
        BY <3>2, <3>3, RecordAssumption DEF MaxBuffer
    <2> QED
      BY <1>1, <2>1 DEF IInv, SentInv, FitsRecord
  <1> QED
    BY <1>1, Invariance, PTL

\* SSL_write is never called with an empty buffer.
THEOREM BuffersAreNotEmpty == Spec => []NoEmptyWrite
  <1>1. ASSUME IInv PROVE NoEmptyWrite
    <2> SUFFICES ASSUME pc = "send" PROVE \A k \in 1..Len(buffers) : buffers[k].size > 0
      BY DEF NoEmptyWrite
    <2>1. packed = Len(frames) /\ Len(frames) \in Nat /\ Len(frames) >= 1
      BY <1>1 DEF IInv, TypeOK, FramesInv, BuffersInv
    <2>2. packed > 0
      BY <2>1
    <2> QED
      BY <1>1, <2>2 DEF IInv, BuffersInv
  <1> QED
    BY <1>1, Invariance, PTL

\* splitFrame loses, repeats and reorders no byte of the document, and only
\* the last frame ends the stream.
THEOREM DocumentIsFramed == Spec => []FramesAreDocument
  <1>1. ASSUME IInv PROVE FramesAreDocument
    BY <1>1 DEF IInv, FramesInv, Follows, FramesAreDocument
  <1> QED
    BY <1>1, Invariance, PTL

\* When respondGet returns true the reply is on the wire.
THEOREM RepliesAreWhole == Spec => []WholeReply
  <1>1. ASSUME IInv PROVE WholeReply
    <2> SUFFICES ASSUME pc = "done" PROVE delivered = Len(frames)
      BY DEF WholeReply
    <2>1. /\ written = Len(buffers) /\ packed = Len(frames)
          /\ Len(buffers) \in Nat /\ Len(buffers) >= 1
          /\ buffers[Len(buffers)] = [size |-> currSize, last |-> packed]
      BY <1>1 DEF IInv, TypeOK, BuffersInv, SentInv
    <2>2. delivered = buffers[written].last
      BY <1>1, <2>1 DEF IInv, SentInv
    <2> QED
      BY <2>1, <2>2
  <1> QED
    BY <1>1, Invariance, PTL
=============================================================================
