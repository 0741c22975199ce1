---------------------------- MODULE MCInterceptor ----------------------------
(***************************************************************************)
(* Small instances of Interceptor: two queues, two dispatches (the first   *)
(* with a completion signal of its own) and a barrier.                     *)
(***************************************************************************)
EXTENDS Interceptor

CONSTANTS d1, d2, b1

MCDispatches == {d1, d2}
MCOthers == {b1}
MCSignalled == {d1}

\* Two callbacks, one with a dispatch and a barrier.
MCBatches == {<<d1, b1>>, <<d2>>}

\* One callback with a dispatch and the barrier after it.
MCBatchesOne == {<<d1, b1>>}
=============================================================================
