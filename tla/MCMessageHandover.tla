-------------------------- MODULE MCMessageHandover --------------------------
(* MessageHandover with a few threads and messages.  Senders are           *)
(* interchangeable, but symmetry is not used: the runs check liveness.     *)
EXTENDS MessageHandover
=============================================================================
