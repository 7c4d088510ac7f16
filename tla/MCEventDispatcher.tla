-------------------------- MODULE MCEventDispatcher --------------------------
(* EventDispatcher with fewer slots than calls.                            *)
EXTENDS EventDispatcher
=============================================================================
