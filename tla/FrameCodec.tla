----------------------------- MODULE FrameCodec -----------------------------
(***************************************************************************)
(* Frames as bytes: Frame::encode, Frame::decode and Frame::toFrames, the  *)
(* walk over what one SSL_read left in recvBuffer. The client writes a few *)
(* frames; a read returns any number of the bytes that are left, so a      *)
(* frame may be torn. What the next read makes of the rest of a torn frame *)
(* is not followed.                                                        *)
(*                                                                         *)
(* One step is one SSL_read, one turn of the walk or one frame handled; of *)
(* the handlers only that of SETTINGS is here, the others are Connection's.*)
(***************************************************************************)
EXTENDS Integers, Sequences, SequencesExt, FiniteSetsExt, Settings

CONSTANTS Sendable,    \* frames the client may send
          MaxSent,     \* frames it sends at most
          BufferSize,  \* BUFFER_SIZE
          ReadSizes,   \* what a read may return
          None

DATA_FRAME         == 0
HEADERS_FRAME      == 1
SETTINGS_FRAME     == 4
PUSH_PROMISE_FRAME == 5
PING_FRAME         == 6

NO_FLAGS == 0
ACK      == 1
PADDED   == 8
PRIORITY == 32

HasFlag(flags, bit) == (flags \div bit) % 2 = 1

Byte == 0..255

\* An int where the program wants a weight, not a byte: 256 is one.
AnyPriority == [exclusive : BOOLEAN, dependency : Nat, weight : 1..256]

ASSUME SizeAssumption ==
    /\ MaxSent \in Nat \ {0}
    /\ BufferSize \in Nat
    /\ ReadSizes \subseteq 1..BufferSize
    /\ None \notin Byte \union AnyPriority

VARIABLES sent,        \* what the client sends
          wire,        \* bytes not read yet
          recvBuffer,  \* the bytes of the last read and what lies behind them
          end,         \* how many of them the last read returned
          curr,        \* where the walk has come to
          frames,      \* the frames made so far, of all reads
          handled,     \* how many of them were handled
          settings,    \* what the client asked for
          acks         \* SETTINGS frames acknowledged

readVars == <<sent, wire, recvBuffer, end, curr, frames>>
handleVars == <<handled, settings, acks>>
vars == <<readVars, handleVars>>

-----------------------------------------------------------------------------
(* Writing a frame. *)

\* n in k bytes, the highest first.
Digits(n, k) == [i \in 1..k |-> (n \div 256^(k - i)) % 256]

encode(f) ==
    Digits(Len(f.payload), 3) \o <<f.type, f.flags>> \o Digits(f.sid, 4)
        \o f.payload

\* What stands before the fragment in the client's payload.
Fields(f) ==
    (IF f.pad = None THEN <<>> ELSE <<f.pad>>)
        \o IF f.priority = None THEN <<>>
           ELSE LET bit == IF f.priority.exclusive THEN 2^7 ELSE 0
                    dep == Digits(f.priority.dependency, 4)
                IN  <<bit + dep[1], dep[2], dep[3], dep[4], f.priority.weight - 1>>

Padding(f) == [i \in 1..(IF f.pad = None THEN 0 ELSE f.pad) |-> 0]

Payload(f) == Fields(f) \o f.fragment \o Padding(f)

\* What RFC 7540 lets a client put into a frame: padding and priority where
\* the flags say so, and only there; no promises; numbers that fit.
ASSUME SendableAssumption ==
    \A f \in Sendable :
        /\ f.type \in Byte \ {PUSH_PROMISE_FRAME} /\ f.flags \in Byte
        /\ f.sid \in Nat /\ f.sid \div 2^24 < 2^7
        /\ f.fragment \in Seq(Byte)
        /\ Len(Payload(f)) < 2^24
        /\ f.pad \in Byte \union {None}
        /\ f.priority \in AnyPriority \union {None}
        /\ f.priority # None => f.priority.dependency \div 2^24 < 2^7
        /\ f.pad # None <=> /\ HasFlag(f.flags, PADDED)
                            /\ f.type \in {DATA_FRAME, HEADERS_FRAME}
        /\ f.priority # None <=> /\ HasFlag(f.flags, PRIORITY)
                                 /\ f.type = HEADERS_FRAME

\* The client lays a frame out as Frame::encode does.
Bytes(f) ==
    encode([type |-> f.type, flags |-> f.flags, sid |-> f.sid, payload |-> Payload(f)])

\* The first 0, 1, ... frames one after the other.
Laid(fs) ==
    LET laid[k \in 0..Len(fs)] ==
            IF k = 0 THEN <<>> ELSE laid[k - 1] \o Bytes(fs[k])
    IN  laid

Wire(fs) == Laid(fs)[Len(fs)]

-----------------------------------------------------------------------------
(* Reading a frame at curr. *)

\* The default arguments of Frame().
NewFrame == [type |-> PING_FRAME, flags |-> NO_FLAGS, sid |-> 0,
             payload |-> <<>>, priority |-> None]

At(i) == recvBuffer[curr + i + 1]

\* Four bytes from At(i) on, without the highest bit.
Word(i) == (At(i) % 2^7) * 2^24 + At(i + 1) * 2^16 + At(i + 2) * 2^8 + At(i + 3)

Size == At(0) * 2^16 + At(1) * 2^8 + At(2)

\* Mutant: the nine bytes of the frame header are forgotten.
CompletePayload == end - curr >= 9 /\ end - curr >= Size

\* Whether the read holds all of the frame.
Complete == end - curr >= 9 /\ end - curr >= 9 + Size

\* Mutant: the weight as it is on the wire.
PriorityRaw(i) ==
    [exclusive |-> At(i) >= 2^7, dependency |-> Word(i), weight |-> At(i + 4)]

Priority(i) ==
    [exclusive |-> At(i) >= 2^7, dependency |-> Word(i), weight |-> At(i + 4) + 1]

\* Mutant: the padding stays at the end of the payload.
TakenPadded(pad, five) == Size - (IF pad = None THEN 0 ELSE 1) - five

\* payload_size once the padding with its length and the five bytes of the
\* priority, if there are any, are taken off.
Taken(pad, five) == Size - (IF pad = None THEN 0 ELSE pad + 1) - five

\* The type, the flags and the stream are set in any case.
Decoded(payload, priority) ==
    [type |-> At(3), flags |-> At(4), sid |-> Word(5),
     payload |-> payload, priority |-> priority]

\* The frame keeps what was set before decode gave up on it. The last check
\* takes the bytes before the fragment for a part of the fragment: when it is
\* shorter than they are, it is refused. A padded frame is never empty, so
\* nothing wraps around.
decode ==
    LET pad      == IF /\ HasFlag(At(4), PADDED)
                       /\ At(3) \in {HEADERS_FRAME, PUSH_PROMISE_FRAME, DATA_FRAME}
                    THEN At(9) ELSE None
        start    == IF pad = None THEN 0 ELSE 1
        five     == IF /\ HasFlag(At(4), PRIORITY)
                       /\ At(3) \in {HEADERS_FRAME, PUSH_PROMISE_FRAME}
                    THEN 5 ELSE 0
        size     == Taken(pad, five)
        priority == IF five = 0 THEN None ELSE Priority(9 + start)
        from     == curr + 9 + start + five
    IN  IF ~Complete THEN NewFrame
        ELSE IF Taken(pad, 0) < (IF five = 0 THEN 0 ELSE five + start)
        THEN Decoded(<<>>, None)
        ELSE IF size < start + five THEN Decoded(<<>>, priority)
        ELSE Decoded(SubSeq(recvBuffer, from + 1, from + size), priority)

-----------------------------------------------------------------------------

Init ==
    /\ sent \in BoundedSeq(Sendable, MaxSent) \ {<<>>}
    /\ wire = Wire(sent)
    /\ recvBuffer = <<>>
    /\ end = 0
    /\ curr = 0
    /\ frames = <<>>
    /\ handled = 0
    /\ settings = NewSettings
    /\ acks = 0

\* Where the k-th frame ends.
End(k) == Len(Laid(sent)[k])

BytesRead == End(Len(sent)) - Len(wire)

\* Frames that have been read to their end.
Whole == Max({k \in 0..Len(sent) : End(k) <= BytesRead})

Torn == BytesRead > End(Whole)

\* SSL_read returns what it has. The bytes behind them are left of an earlier
\* read; toFrames looks at two of them at most, to no effect.
Read ==
    /\ curr >= end
    /\ handled = Len(frames)
    /\ ~Torn
    /\ \E n \in ReadSizes, left \in {0, 255} :
           /\ n <= Len(wire)
           /\ recvBuffer' = SubSeq(wire, 1, n) \o [i \in 1..9 |-> left]
           /\ wire' = SubSeq(wire, n + 1, Len(wire))
           /\ end' = n
    /\ curr' = 0
    /\ UNCHANGED <<sent, frames, handleVars>>

\* One turn of toFrames. A frame that does not decode is kept all the same.
toFrames ==
    /\ curr < end
    /\ frames' = Append(frames, decode)
    /\ curr' = curr + 9 + Size
    /\ UNCHANGED <<sent, wire, recvBuffer, end, handleVars>>

\* Mutant: decoded straight into the settings of the client.
ackSettingsInPlace(frame) ==
    LET decoded == decodeSettings(settings, frame.payload) IN
    /\ settings' = decoded.settings
    /\ acks' = IF decoded.error = NO_ERROR THEN acks + 1 ELSE acks

\* Settings of its own take what is decoded and, when all of it is right, the
\* place of those the client has.
ackSettings(frame) ==
    LET decoded == decodeSettings(NewSettings, frame.payload) IN
    IF decoded.error = NO_ERROR
    THEN settings' = decoded.settings /\ acks' = acks + 1
    ELSE UNCHANGED <<settings, acks>>

\* doRequest handles the frames of a read when the walk is over.
handleFrame ==
    /\ curr >= end
    /\ handled < Len(frames)
    /\ LET frame == frames[handled + 1] IN
       IF /\ frame.type = SETTINGS_FRAME
          /\ frame.sid = 0
          /\ ~HasFlag(frame.flags, ACK)
       THEN ackSettings(frame)
       ELSE UNCHANGED <<settings, acks>>
    /\ handled' = handled + 1
    /\ UNCHANGED readVars

Waiting ==
    /\ curr >= end /\ handled = Len(frames)
    /\ Torn \/ wire = <<>>
    /\ UNCHANGED vars

Next == Read \/ toFrames \/ handleFrame \/ Waiting

Spec == Init /\ [][Next]_vars

-----------------------------------------------------------------------------
(* Properties. *)

AnyFrame == [type : Byte, flags : Byte, sid : Nat, payload : Seq(Byte),
             priority : AnyPriority \union {None}]

\* Every variable has its type; a weight is one of 1..256.
TypeOK ==
    /\ sent \in Seq(Sendable)
    /\ wire \in Seq(Byte)
    /\ recvBuffer \in Seq(Byte)
    /\ end \in Nat
    /\ curr \in Nat
    /\ frames \in Seq(AnyFrame)
    /\ handled \in 0..Len(frames)
    /\ settings.value \in [SettingsType -> [1..4 -> Byte]]
    /\ settings.dirty = {}
    /\ acks \in 0..handled

With(f, payload, priority) ==
    [type |-> f.type, flags |-> f.flags, sid |-> f.sid,
     payload |-> payload, priority |-> priority]

\* A frame as its sender means it.
Meant(f) == With(f, f.fragment, f.priority)

\* Every frame that is read whole arrives, in its place and as it was meant,
\* without padding and with its priority, however the reads cut the stream
\* between frames. Those with a fragment shorter than what stands before it
\* are the exception: decode refuses them.
WholeFramesArrive ==
    LET whole == Whole IN
    /\ \A i \in 1..whole \intersect DOMAIN frames :
           Len(sent[i].fragment) >= Len(Fields(sent[i]))
               => frames[i] = Meant(sent[i])
    /\ curr >= end => Len(frames) >= whole

\* A frame that was refused keeps its type and stream, and its priority unless
\* the fragment is empty and padded.
Refused(f) == {With(f, <<>>, f.priority), With(f, <<>>, None)}

\* No handler is given a piece of a frame. A whole frame has its payload or, if
\* it was refused, none; a torn one, the last of its read, becomes a PING
\* without payload.
NoPieces ==
    LET whole == Whole IN
    /\ Len(frames) <= whole + 1
    /\ \A i \in 1..Len(frames) :
           IF i <= whole
           THEN frames[i] = Meant(sent[i]) \/ frames[i] \in Refused(sent[i])
           ELSE frames[i] = NewFrame

\* Numbers of four bytes compare as their bytes do, the highest first.
Less(v, w) == \E i \in 1..4 : v[i] < w[i] /\ \A j \in 1..(i - 1) : v[j] = w[j]

Between(low, v, high) == ~Less(v, low) /\ ~Less(high, v)

Allowed(type, v) ==
    /\ type = SETTINGS_ENABLE_PUSH
           => Between(<<0, 0, 0, 0>>, v, <<0, 0, 0, 1>>)
    /\ type = SETTINGS_INITIAL_WINDOW_SIZE
           => Between(<<0, 0, 0, 0>>, v, <<127, 255, 255, 255>>)
    /\ type = SETTINGS_MAX_FRAME_SIZE
           => Between(<<0, 0, 64, 0>>, v, <<0, 255, 255, 255>>)

\* The i-th parameter of a list.
Lists(fragment, i, t) == SubSeq(fragment, 6 * i - 5, 6 * i - 4) = <<0, t>>
Value(fragment, i) == SubSeq(fragment, 6 * i - 3, 6 * i)

\* Whether a list of parameters is not cut off and holds no value out of its
\* range,
Acceptable(fragment) ==
    LET n == Len(fragment) \div 6 IN
    /\ Len(fragment) = 6 * n
    /\ \A i \in 1..n, t \in SettingsType :
           Lists(fragment, i, t) => Allowed(t, Value(fragment, i))

\* and what a client asks for with it. The last of several values for one
\* parameter counts, and a parameter that is not listed has its default, not
\* the value an earlier frame gave it.
Asked(fragment) ==
    [t \in SettingsType |->
        LET lists == {i \in 1..(Len(fragment) \div 6) : Lists(fragment, i, t)}
        IN  IF lists = {} THEN Defaults[t] ELSE Value(fragment, Max(lists))]

\* The SETTINGS frames that ask for something.
Asking(k) ==
    {i \in 1..k : /\ sent[i].type = SETTINGS_FRAME
                  /\ sent[i].sid = 0 /\ ~HasFlag(sent[i].flags, ACK)
                  /\ Acceptable(sent[i].fragment)}

\* The settings kept for a client are what its last acceptable SETTINGS frame
\* asks for, all of it and nothing of a frame that was refused half way, and
\* every acceptable frame is acknowledged, no other.
SettingsStored ==
    LET asking == Asking(Min({handled, Whole})) IN
    /\ acks = Cardinality(asking)
    /\ settings.value = IF asking = {} THEN Defaults
                        ELSE Asked(sent[Max(asking)].fragment)
=============================================================================
