---------------------------- MODULE MCFrameCodec ----------------------------
(***************************************************************************)
(* DATA and HEADERS with and without padding and priority, with fragments  *)
(* at both sides of the lengths decode compares with, both bounds of the   *)
(* weight, stream numbers of one and of four bytes; SETTINGS with right    *)
(* and wrong parameters; DATA with a payload of more than one byte in its  *)
(* length.                                                                 *)
(***************************************************************************)
EXTENDS FrameCodec

Fragment(n) == [i \in 1..n |-> 10 + (i % 100)]

DataFrames ==
    {[type |-> DATA_FRAME, flags |-> IF pad = None THEN 1 ELSE 1 + PADDED,
      sid |-> 1, pad |-> pad, priority |-> None, fragment |-> Fragment(n)] :
        pad \in {None, 0, 2}, n \in {0, 1}}

Prio(n) == [exclusive |-> n # 5, dependency |-> 3,
            weight |-> IF n = 5 THEN 256 ELSE 1]

HeadersFrame(pad, p, n) ==
    [type |-> HEADERS_FRAME,
     flags |-> 5 + (IF pad = None THEN 0 ELSE PADDED) + (IF p THEN PRIORITY ELSE 0),
     sid |-> 16909060, pad |-> pad, priority |-> IF p THEN Prio(n) ELSE None,
     fragment |-> Fragment(n)]

HeadersFrames ==
    {HeadersFrame(pad, TRUE, n) : pad \in {None, 2}, n \in {0, 4, 5, 6}}
        \union {HeadersFrame(pad, FALSE, 4) : pad \in {None, 2}}

Others ==
    {[type |-> DATA_FRAME, flags |-> NO_FLAGS, sid |-> 3, pad |-> None,
      priority |-> None, fragment |-> Fragment(257)]}

SettingsFrame(flags, sid, fragment) ==
    [type |-> SETTINGS_FRAME, flags |-> flags, sid |-> sid, pad |-> None,
     priority |-> None, fragment |-> fragment]

\* Parameters at the bounds of their ranges, one that the server does not know,
\* one that is listed twice.
Right ==
    {<<>>,
     encodeSettings(
         Set(Set(NewSettings, SETTINGS_INITIAL_WINDOW_SIZE, <<127, 255, 255, 255>>),
             SETTINGS_MAX_FRAME_SIZE, <<0, 255, 255, 255>>)),
     Parameter(SETTINGS_ENABLE_PUSH, <<0, 0, 0, 0>>)
         \o Parameter(9, <<1, 1, 1, 1>>)
         \o Parameter(SETTINGS_ENABLE_PUSH, <<0, 0, 0, 1>>)
         \o Parameter(SETTINGS_HEADER_TABLE_SIZE, <<0, 0, 0, 0>>)}

\* A right parameter, then one that is not or that is cut off.
Wrong ==
    {Parameter(SETTINGS_MAX_CONCURRENT_STREAMS, <<0, 0, 0, 100>>) \o second :
        second \in {Parameter(SETTINGS_INITIAL_WINDOW_SIZE, <<128, 0, 0, 0>>),
                    Parameter(SETTINGS_MAX_FRAME_SIZE, <<0, 0, 63, 255>>),
                    Parameter(SETTINGS_ENABLE_PUSH, <<0, 0, 1, 1>>), <<0>>}}

SettingsFrames ==
    {SettingsFrame(NO_FLAGS, 0, fragment) : fragment \in Right \union Wrong}
        \union {SettingsFrame(ACK, 0, <<>>),
                SettingsFrame(NO_FLAGS, 1,
                    Parameter(SETTINGS_HEADER_TABLE_SIZE, <<0, 0, 1, 0>>))}

\* Any cut of two short frames, and the cuts in and around the long one.
MCReadSizes == 1..46 \union {256, 265, 266, 267, 275, 276, 280}

MCSendable == DataFrames \union HeadersFrames \union SettingsFrames \union Others
=============================================================================
