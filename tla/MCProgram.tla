------------------------------ MODULE MCProgram ------------------------------
(* Program with the threads of the daemon and the calls of the cfg.        *)
EXTENDS Program

MCThreads == {Dispatcher, Listener, Worker, Server} \cup Calls
=============================================================================
