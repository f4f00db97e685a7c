---------------------------- MODULE FanOutPoolMC ----------------------------
(* A call of two jobs beside one of a single job.                          *)
EXTENDS FanOutPool, TLC

CONSTANTS pair, single

MCWidth == pair :> 2 @@ single :> 1
=============================================================================
