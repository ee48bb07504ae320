----------------------------- MODULE MCResponse -----------------------------
(***************************************************************************)
(* Response scaled down: frames of 20 bytes for 16369, records of 29 for   *)
(* 16384, so that the slack over a full frame and its header is none, less *)
(* than in the code. Documents take up to five frames.                     *)
(***************************************************************************)
EXTENDS Response

MCHeaderSizes == 1..11

MCBodySizes == 1..85
=============================================================================
