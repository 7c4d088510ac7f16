-------------------------------- MODULE Program --------------------------------
(***************************************************************************)
(* partisipation_core.c: main brings the parts of the daemon up one after  *)
(* the other, waits for the threads, and takes the parts down again.  Some *)
(* parts start threads (ed_init, sipstack_init, go_init,                   *)
(* start_xmlrpc_server_thread); how a thread starts and ends is            *)
(* ThreadManagement, whose main thread is the one that runs main.          *)
(*                                                                         *)
(* The two dispatchers are one thread here, and so are the six callback    *)
(* workers: they start and end alike.  Calls are the threads that the      *)
(* dispatcher starts on behalf of GUI and network: state machines and      *)
(* registrations.  Time is left out: sleep(3) before the wait and sleep(1) *)
(* before eXosip_quit guarantee nothing about other threads.               *)
(***************************************************************************)
EXTENDS ThreadManagement, Sequences

CONSTANTS Dispatcher, Listener, Worker, Server, Calls

ASSUME ProgramAssumption ==
  /\ Threads = {Dispatcher, Listener, Worker, Server} \cup Calls
  /\ Dispatcher # Listener /\ Worker # Server
  /\ {Dispatcher, Listener} \cap {Worker, Server} = {}
  /\ {Dispatcher, Listener, Worker, Server} \cap Calls = {}

VARIABLES
  phase,             (* init, join, destroy, exit                         *)
  k,                 (* the part that main brings up or takes down next   *)
  up,                (* the parts that are initialised                    *)
  listenerIsActive,
  exitCode

programVars == <<phase, k, up, listenerIsActive, exitCode>>
vars == <<tmVars, programVars>>

\* Plausible mistake in InitOrder: init_remote starts the server first.
InitOrder_serverFirst == <<"utils", "thread management", "accounts", "core",
                           "sip stack", "xmlrpc server", "gui callback">>

\* utils: configuration and logger; core: call ids, event dispatcher and
\* registrar manager; gui callback and xmlrpc server: init_remote.
InitOrder == <<"utils", "thread management", "accounts", "core", "sip stack",
               "gui callback", "xmlrpc server">>

\* destroy_remote, destroy_sipstack, destroy_core, destroy_utils
DestroyOrder == <<"gui callback", "sip stack", "core", "thread management",
                  "utils">>

\* Parts whose initialisation cannot fail.
Safe == {"accounts"}

\* The threads that a part starts in its init function.
StartedBy(part) == CASE part = "core" -> {Dispatcher}
                     [] part = "sip stack" -> {Listener}
                     [] part = "gui callback" -> {Worker}
                     [] part = "xmlrpc server" -> {Server}
                     [] OTHER -> {}

\* The parts that a thread uses while it works, by itself or by the threads
\* that it starts.
Needs(t) == {"utils", "thread management", "core", "sip stack", "gui callback"}
            \cup (IF t = Worker THEN {} ELSE {"accounts"})

Lasting == {Dispatcher, Worker, Server}

-----------------------------------------------------------------------------
ProgramInit ==
  /\ Init
  /\ phase = "init" /\ k = 1 /\ up = {}
  /\ listenerIsActive = FALSE /\ exitCode = 0

Part == IF phase = "init" THEN InitOrder[k] ELSE DestroyOrder[k]

\* return from main: the process ends, and with it every thread.
Return(code) ==
  /\ phase' = "exit" /\ exitCode' = code
  /\ k' = 1 /\ up' = {} /\ listenerIsActive' = FALSE
  /\ Vanish

Initialised ==
  /\ up' = up \cup {Part}
  /\ k' = IF k = Len(InitOrder) THEN 1 ELSE k + 1
  /\ phase' = IF k = Len(InitOrder) THEN "join" ELSE "init"
  /\ UNCHANGED exitCode

\* A part that starts no thread.
InitPart ==
  /\ phase = "init" /\ StartedBy(Part) = {}
  /\ Initialised /\ UNCHANGED listenerIsActive
  /\ IF Part = "thread management" THEN tm_init ELSE UNCHANGED tmVars

\* A part that starts a thread.
InitThread ==
  /\ phase = "init"
  /\ \E t \in StartedBy(Part) : start_thread(t)
  /\ Initialised
  /\ listenerIsActive' = (listenerIsActive \/ Part = "sip stack")

\* osip_adapter.c:93: the listener could not be started; this is only logged.
InitSipstackOnly ==
  /\ phase = "init" /\ Part = "sip stack"
  /\ Initialised /\ listenerIsActive' = TRUE
  /\ UNCHANGED tmVars

\* Nothing that is up is taken down.
InitFails ==
  /\ phase = "init" /\ Part \notin Safe
  /\ Return(-1)

-----------------------------------------------------------------------------
Join ==
  /\ phase = "join" /\ main.rc = -1
  /\ tm_join_active_threads
  /\ UNCHANGED programVars

JoinReturns ==
  /\ phase = "join" /\ main.op = "none" /\ main.rc # -1
  /\ IF main.rc = 0
     THEN Return(-1)
     ELSE /\ phase' = "destroy"
          /\ UNCHANGED <<tmVars, k, up, listenerIsActive, exitCode>>

TakenDown ==
  /\ up' = up \ {Part}
  /\ k' = k + 1
  /\ UNCHANGED <<phase, exitCode>>

DestroyPart ==
  /\ phase = "destroy" /\ k <= Len(DestroyOrder)
  /\ Part \notin {"sip stack", "thread management"}
  /\ TakenDown /\ UNCHANGED <<tmVars, listenerIsActive>>

\* sipstack_quit: the listener is told, and a second later eXosip is gone.
StopListener ==
  /\ phase = "destroy" /\ k <= Len(DestroyOrder) /\ Part = "sip stack"
  /\ listenerIsActive /\ listenerIsActive' = FALSE
  /\ UNCHANGED <<tmVars, phase, k, up, exitCode>>

eXosip_quit ==
  /\ phase = "destroy" /\ k <= Len(DestroyOrder) /\ Part = "sip stack"
  /\ ~listenerIsActive
  /\ TakenDown /\ UNCHANGED <<tmVars, listenerIsActive>>

DestroyThreads ==
  /\ phase = "destroy" /\ k <= Len(DestroyOrder) /\ Part = "thread management"
  /\ ~shuttingDown /\ tm_destroy
  /\ UNCHANGED programVars

DestroyReturns ==
  /\ phase = "destroy" /\ k <= Len(DestroyOrder) /\ Part = "thread management"
  /\ shuttingDown /\ main.op = "none"
  /\ IF main.rc = 0
     THEN Return(-1)
     ELSE TakenDown /\ UNCHANGED <<tmVars, listenerIsActive>>

\* A lock of the part is held, for example.
DestroyFails ==
  /\ phase = "destroy" /\ k <= Len(DestroyOrder)
  /\ Part \notin {"sip stack", "thread management"}
  /\ Return(-1)

Finish ==
  /\ phase = "destroy" /\ k > Len(DestroyOrder)
  /\ Return(0)

-----------------------------------------------------------------------------
\* The dispatcher takes on a call.
StartCall(t) ==
  /\ phase # "exit" /\ thread[Dispatcher] = "running"
  /\ start_thread(t)
  /\ UNCHANGED programVars

\* The listener ends when told, and calls end.
RoutineEnds(t) ==
  /\ \/ t \in Calls
     \/ t = Listener /\ ~listenerIsActive
  /\ Terminate(t)

\* Nobody sends dispatchers and workers the message doShutdown; but one that
\* takes a slot before it is written (MessageHandover) may find no message
\* there, or one that says so.  The XML-RPC server never returns.
TakesGarbage(t) ==
  /\ phase # "exit" /\ t \in {Dispatcher, Worker}
  /\ Terminate(t)
  /\ UNCHANGED programVars

MainWaits == phase # "exit" /\ MainStep /\ UNCHANGED programVars

MainProgram ==
  \/ InitPart \/ InitThread \/ InitSipstackOnly \/ InitFails
  \/ Join \/ JoinReturns
  \/ DestroyPart \/ StopListener \/ eXosip_quit \/ DestroyThreads
  \/ DestroyReturns \/ DestroyFails \/ Finish
  \/ MainWaits

ThreadProgram(t) ==
  /\ phase # "exit"
  /\ ThreadStep(t) \/ RoutineEnds(t)
  /\ UNCHANGED programVars

ProgramNext == \/ MainProgram
               \/ \E t \in Threads : ThreadProgram(t) \/ TakesGarbage(t)
               \/ \E t \in Calls : StartCall(t)

ProgramSpec == ProgramInit /\ [][ProgramNext]_vars

\* Threads are scheduled.  Weak fairness is enough for the lock as well: it is
\* taken a bounded number of times.  Calls end: they have a timeout or a user.
\* New calls need not come.
ProgramFairSpec ==
  /\ ProgramSpec
  /\ WF_vars(MainProgram)
  /\ \A t \in Threads : WF_vars(ThreadProgram(t))

-----------------------------------------------------------------------------
(* Properties                                                              *)

\* A thread works with what is initialised and not destroyed, with two
\* exceptions.  Dispatcher, listener and calls run before go_init, since
\* init_core and init_sipstack start them; and what was not listed yet when
\* tm_join_active_threads looked (sleep(3) at partisipation_core.c:389 was too
\* short) has its parts destroyed under it.  The workers and the XML-RPC
\* server, which GUIs talk to, are not among the first.
NeededIsUp ==
  \A t \in Threads :
    thread[t] = "running" /\ phase # "exit" /\ ~(Needs(t) \subseteq up)
    => \/ phase = "init" /\ t \in {Dispatcher, Listener} \cup Calls
       \/ phase = "destroy" /\ t \notin awaited

\* tm_destroy returns once nobody is listed that lasts, unless a thread could
\* not be created: it is counted for ever (thread_management.c:131).
DestroyEnds ==
  /\ main.op = "destroy"
  /\ \A t \in Lasting : /\ helper[t] \notin {"passed", "adding"}
                        /\ thread[t] # "running"
  ~> main.op = "none" \/ failed > 0
=============================================================================
