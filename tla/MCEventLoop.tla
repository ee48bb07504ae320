---------------------------- MODULE MCEventLoop ----------------------------
(***************************************************************************)
(* Instances of EventLoop: descriptors are interchangeable.                *)
(***************************************************************************)
EXTENDS EventLoop, TLC

FdSymmetry == Permutations(Fd)
=============================================================================
