------------------------------ MODULE Settings ------------------------------
(***************************************************************************)
(* The six parameters of a SETTINGS frame, http2::protocol::Settings. A    *)
(* value is a uint32_t, here its four bytes, the highest first: TLC has no *)
(* integers of that size.                                                  *)
(***************************************************************************)
EXTENDS Integers, Sequences, SequencesExt

SETTINGS_HEADER_TABLE_SIZE      == 1
SETTINGS_ENABLE_PUSH            == 2
SETTINGS_MAX_CONCURRENT_STREAMS == 3
SETTINGS_INITIAL_WINDOW_SIZE    == 4
SETTINGS_MAX_FRAME_SIZE         == 5
SETTINGS_MAX_HEADER_LIST_SIZE   == 6

SettingsType == 1..6

NO_ERROR           == 0
PROTOCOL_ERROR     == 1
FLOW_CONTROL_ERROR == 3
FRAME_SIZE_ERROR   == 6

Unlimited == <<255, 255, 255, 255>>

\* The constructor: 4096, push, no limit, 65535, 16384, no limit.
Defaults == <<<<0, 0, 16, 0>>, <<0, 0, 0, 1>>, Unlimited,
              <<0, 0, 255, 255>>, <<0, 0, 64, 0>>, Unlimited>>

NewSettings == [value |-> Defaults, dirty |-> {}]

\* What is wrong with v as the value of a parameter: a flag is 0 or 1, a window
\* is at most 2^31 - 1, a frame 2^14 to 2^24 - 1 bytes.
Fault(type, v) ==
    CASE type = SETTINGS_ENABLE_PUSH /\ v \notin {<<0, 0, 0, 0>>, <<0, 0, 0, 1>>}
             -> PROTOCOL_ERROR
      [] type = SETTINGS_INITIAL_WINDOW_SIZE /\ v[1] >= 2^7
             -> FLOW_CONTROL_ERROR
      [] type = SETTINGS_MAX_FRAME_SIZE /\ (v[1] > 0 \/ (v[2] = 0 /\ v[3] < 2^6))
             -> PROTOCOL_ERROR
      [] OTHER -> NO_ERROR

\* One of the setters, which assert that the value is right.
Set(s, type, v) ==
    [value |-> [s.value EXCEPT ![type] = v], dirty |-> s.dirty \union {type}]

Parameter(type, v) == <<0, type>> \o v

\* The payload of the parameters that were set.
encodeSettings(s) ==
    FlattenSeq([t \in SettingsType |->
        IF t \in s.dirty THEN Parameter(t, s.value[t]) ELSE <<>>])

\* A parameter is entered, unless it is unknown or wrong.
Enter(r, type, v) ==
    IF type \notin SettingsType THEN r
    ELSE IF Fault(type, v) # NO_ERROR
    THEN [error |-> Fault(type, v), settings |-> r.settings]
    ELSE [error |-> NO_ERROR,
          settings |-> [value |-> [r.settings.value EXCEPT ![type] = v],
                        dirty |-> r.settings.dirty]]

\* What the first 0, 1, ... parameters of a payload make of s: they are entered
\* one by one, up to the first that is wrong; those before it stay entered.
Entered(s, payload) ==
    LET Type(i) == payload[6 * i - 5] * 2^8 + payload[6 * i - 4]
        after[i \in 0..(Len(payload) \div 6)] ==
            IF i = 0 THEN [error |-> NO_ERROR, settings |-> s]
            ELSE IF after[i - 1].error # NO_ERROR THEN after[i - 1]
            ELSE Enter(after[i - 1], Type(i), SubSeq(payload, 6 * i - 3, 6 * i))
    IN  after

\* A last parameter that is cut off is an error too.
decodeSettings(s, payload) ==
    LET entered == Entered(s, payload)[Len(payload) \div 6]
    IN  IF entered.error = NO_ERROR /\ Len(payload) % 6 # 0
        THEN [error |-> FRAME_SIZE_ERROR, settings |-> entered.settings]
        ELSE entered
=============================================================================
