-------------------------- MODULE AbstractExchange --------------------------
(***************************************************************************)
(* What a client can count on: each call it makes is answered in the step  *)
(* in which it is complete, once and whole, in the order of the calls, and *)
(* the server writes nothing else. The first call is the connection        *)
(* preface, which is greeted. When the file system fails a request gets    *)
(* the error page or no answer, and the next calls are answered as before. *)
(* When a write fails the answers end, perhaps in the middle of one.       *)
(***************************************************************************)
EXTENDS Integers, Sequences

CONSTANTS Stream,   \* identifiers of streams
          Request,  \* what a request asks for
          Found     \* those of Request with a document behind their path

VARIABLES calls,  \* calls made so far
          wire,   \* frames written
          broken, \* a write has failed
          failed  \* streams for which the file system has failed

vars == <<calls, wire, broken, failed>>

Greeting == [id |-> 0, wants |-> "SETTINGS"]

Control == [id : {0}, wants : {"SETTINGS_ACK", "PING_ACK"}]

RequestCall == [id : Stream, wants : Request]

Reply(s, status) == <<[kind |-> status, id |-> s], [kind |-> "END", id |-> s]>>

Answer(call) ==
    IF call.id = 0 THEN <<[kind |-> call.wants, id |-> 0]>>
    ELSE Reply(call.id, IF call.wants \in Found THEN "200" ELSE "404")

Init ==
    /\ calls = <<>>
    /\ wire = <<>>
    /\ broken = FALSE
    /\ failed = {}

Written(frames) ==
    /\ ~broken
    /\ wire' = wire \o frames
    /\ UNCHANGED broken

CutOff(frames) ==
    /\ ~broken
    /\ \E n \in 0..(Len(frames) - 1) : wire' = wire \o SubSeq(frames, 1, n)
    /\ broken' = TRUE

Lost == broken /\ UNCHANGED <<wire, broken>>

Write(frames) == Written(frames) \/ CutOff(frames) \/ Lost

Answered(call) == Write(Answer(call)) /\ UNCHANGED failed

Failed(call) ==
    /\ call.id # 0
    /\ failed' = failed \union {call.id}
    /\ Write(Reply(call.id, "404")) \/ UNCHANGED <<wire, broken>>

Call(call) ==
    /\ call = Greeting <=> calls = <<>>
    /\ calls' = Append(calls, call)
    /\ Answered(call) \/ Failed(call)

Next == \E call \in {Greeting} \union Control \union RequestCall : Call(call)

Spec == Init /\ [][Next]_vars
=============================================================================
