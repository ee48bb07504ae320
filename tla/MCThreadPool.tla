---------------------------- MODULE MCThreadPool ----------------------------
(***************************************************************************)
(* An instance of ThreadPool: the thread that owns the pool and another    *)
(* one, which the server does not have, call it. With the owner alone this *)
(* is the event loop.                                                      *)
(***************************************************************************)
EXTENDS ThreadPool, TLC

CONSTANTS t1, t2, t3, w1, w2, w3, w4

MCWeight == (t1 :> 0) @@ (t2 :> 0) @@ (t3 :> 5)
=============================================================================
