------------------------------ MODULE MCGuiLink ------------------------------
(* GuiLink with one thread that has callbacks and two pollers.             *)
EXTENDS GuiLink

CONSTANTS w, q1, q2

\* The worker and both pollers are not at work all at once, and it is the
\* first poller that the worker meets.
Apart == thread[w] = Idle \/ thread[q2] = Idle
=============================================================================
