----------------------------- MODULE MCRingQueue -----------------------------
(* RingQueue on a small ring.                                              *)
EXTENDS RingQueue
=============================================================================
