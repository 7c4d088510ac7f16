------------------------------- MODULE GuiLink -------------------------------
(* How the core knows its GUI: the callback URL and who may use it.  The   *)
(* GUI registers and unregisters through the XML-RPC server                *)
(* (core/gui_input/registration_receiver.c); workers report to it          *)
(* (remote/callback/xmlrpc/gui_callback.c); pollers make sure that it is   *)
(* still there (core/gui_input/polling_gui.c).  A callback that fails      *)
(* unregisters the GUI.  No lock guards the URL, the flag shutdownPolling  *)
(* or the XML-RPC environment with its fault, which all threads share.     *)
(* The model ends with an access to freed memory or through NULL.          *)
EXTENDS Naturals, FiniteSets

CONSTANTS Gui,     \* GUIs, by their address and port
          NULL,    \* no URL
          Server,  \* the thread of the XML-RPC server
          Worker,  \* threads with callbacks for the GUI
          Poller,  \* threads that can run polling_gui
          MaxDead  \* how many GUIs may die

\* The threads are different ones.
ASSUME GuiAssumption ==
  /\ NULL \notin Gui \cup {Server} \cup Worker \cup Poller
  /\ Server \notin Worker \cup Poller /\ Worker \cap Poller = {}

VARIABLES guiURL,          \* config.remote.callback.guiCallback.guiURL
          freed,           \* the memory of guiURL was given back
          faultOccurred,   \* callbackEnv.fault_occurred
          shutdownPolling,
          thread,          \* the threads
          alive,           \* the GUIs that answer
          misused,         \* freed memory or NULL was accessed
          failed,          \* the GUI failed a call since it registered
          crossed          \* since then there was a fault of an earlier GUI

shared == <<guiURL, freed, faultOccurred, shutdownPolling>>
history == <<failed, crossed>>
vars == <<guiURL, freed, faultOccurred, shutdownPolling, thread, alive, misused,
          failed, crossed>>

Thread == {Server} \cup Worker \cup Poller
Idle == [pc |-> "idle", url |-> NULL, why |-> "none"]

Init ==
  /\ guiURL = NULL /\ freed = FALSE /\ faultOccurred = FALSE
  /\ shutdownPolling = FALSE
  /\ thread = [t \in Thread |-> Idle]
  /\ alive = Gui /\ misused = FALSE
  /\ failed = FALSE /\ crossed = FALSE

At(t, pc) == ~misused /\ thread[t].pc = pc
Goto(t, pc) == thread' = [thread EXCEPT ![t].pc = pc]

\* Between the test of a fault and the end of what is done about it.
Handling(t) == thread[t].pc \in {"log", "clean", "look", "copy"} \/ thread[t].why = "fault"

\* Nothing is left of the program.
Misuse ==
  /\ misused' = TRUE
  /\ guiURL' = NULL /\ freed' = FALSE /\ faultOccurred' = FALSE
  /\ shutdownPolling' = FALSE /\ thread' = [t \in Thread |-> Idle]
  /\ failed' = FALSE /\ crossed' = FALSE
  /\ UNCHANGED alive

\* free(guiURL), where guiURL may be NULL.
FreeURL ==
  /\ freed' = (guiURL # NULL)
  /\ UNCHANGED <<guiURL, faultOccurred, shutdownPolling>>

ClearURL ==
  /\ guiURL' = NULL /\ freed' = FALSE
  /\ UNCHANGED <<faultOccurred, shutdownPolling>>
-----------------------------------------------------------------------------
(* gi_register_gui                                                         *)

\* The URL of the GUI before is freed.
RequestRegister(g) ==
  /\ At(Server, "idle") /\ g \in alive
  /\ IF freed THEN Misuse
     ELSE /\ FreeURL
          /\ thread' = [thread EXCEPT ![Server] = [pc |-> "set", url |-> g, why |-> "request"]]
          /\ UNCHANGED <<alive, misused, history>>

SetURL ==
  /\ At(Server, "set")
  /\ guiURL' = thread[Server].url /\ freed' = FALSE
  /\ failed' = FALSE
  /\ crossed' = (faultOccurred \/ \E t \in Thread : Handling(t))
  /\ thread' = [thread EXCEPT ![Server] = [Idle EXCEPT !.pc = "test"]]
  /\ UNCHANGED <<faultOccurred, shutdownPolling, alive, misused>>

\* The GUI did not answer to registerCore, or refused.
RegisterFails ==
  /\ At(Server, "refused")
  /\ IF freed THEN Misuse
     ELSE /\ ClearURL /\ thread' = [thread EXCEPT ![Server] = Idle]
          /\ UNCHANGED <<alive, misused, history>>

\* Each registration starts a poller, or fails to and reports an error.
StartPoller ==
  /\ At(Server, "start")
  /\ \/ \E p \in Poller :
           /\ thread[p] = Idle
           /\ thread' = [thread EXCEPT ![Server] = Idle, ![p].pc = "begin"]
     \/ thread' = [thread EXCEPT ![Server] = Idle]
  /\ UNCHANGED <<shared, alive, misused, history>>
-----------------------------------------------------------------------------
(* A callback to the GUI (gui_callback.c) and what its caller does then    *)

\* Where a thread goes that was answered rc.  Plausible mistakes: a poller goes
\* on whatever the GUI says, and every thread goes on polling.
After_goesOn(t, rc) ==
  IF t = Server THEN IF rc THEN "start" ELSE "refused"
  ELSE IF t \in Poller THEN "sleep" ELSE "idle"

After_polls(t, rc) ==
  IF t = Server THEN IF rc THEN "start" ELSE "refused"
  ELSE IF rc THEN "sleep" ELSE "idle"

After(t, rc) ==
  IF t = Server THEN IF rc THEN "start" ELSE "refused"
  ELSE IF t \in Poller /\ rc THEN "sleep" ELSE "idle"

Return(t, rc) ==
  /\ thread' = [thread EXCEPT ![t] = [Idle EXCEPT !.pc = After(t, rc)]]
  /\ UNCHANGED <<alive, misused>>

TestURL(t) ==
  /\ IF guiURL = NULL THEN Return(t, FALSE)
     ELSE Goto(t, "call") /\ UNCHANGED <<alive, misused>>
  /\ UNCHANGED <<shared, history>>

\* A worker has a message for the GUI; the core wants to know of the GUI.
Report(w) == At(w, "idle") /\ TestURL(w)
RegisterCore(t) == At(t, "test") /\ TestURL(t)

\* xmlrpc_client_call: the URL is read a second time, and the call made.
CallBegin(t) ==
  /\ At(t, "call")
  /\ IF guiURL = NULL \/ freed THEN Misuse
     ELSE /\ thread' = [thread EXCEPT ![t] = [@ EXCEPT !.pc = "calling", !.url = guiURL]]
          /\ UNCHANGED <<shared, alive, misused, history>>

\* The GUI that t called, which may not be the registered one any more, failed.
RaiseFault(t, pc) ==
  /\ thread' = [thread EXCEPT ![t] = [@ EXCEPT !.pc = pc, !.url = NULL]]
  /\ faultOccurred' = TRUE
  /\ failed' = (failed \/ guiURL = thread[t].url)
  /\ crossed' = (crossed \/ guiURL # thread[t].url)
  /\ UNCHANGED <<guiURL, freed, shutdownPolling, alive, misused>>

\* The call returns.  It fails if the GUI has died, and may fail if not.
CallEnd(t) ==
  /\ At(t, "calling")
  /\ \/ /\ thread[t].url \in alive /\ Goto(t, "answered")
        /\ UNCHANGED <<shared, alive, misused, history>>
     \/ RaiseFault(t, "failed")

\* xmlrpc_error_occurred, after the call and after the answer was read: the
\* fault, be it of this call or not, is logged with the URL and cleared.
SeeFault(t) ==
  /\ At(t, "answered") \/ At(t, "failed") \/ At(t, "read")
  /\ faultOccurred
  /\ thread' = [thread EXCEPT ![t] = [@ EXCEPT !.pc = "log", !.url = NULL]]
  /\ UNCHANGED <<shared, alive, misused, history>>

LogFault(t) ==
  /\ At(t, "log")
  /\ IF freed THEN Misuse
     ELSE Goto(t, "clean") /\ UNCHANGED <<shared, alive, misused, history>>

CleanFault(t) ==
  /\ At(t, "clean")
  /\ faultOccurred' = FALSE /\ Goto(t, "look")
  /\ UNCHANGED <<guiURL, freed, shutdownPolling, alive, misused, history>>

\* The GUI whose URL is there now will be unregistered.
LookForURL(t) ==
  /\ At(t, "look")
  /\ IF guiURL = NULL THEN Return(t, FALSE)
     ELSE Goto(t, "copy") /\ UNCHANGED <<alive, misused>>
  /\ UNCHANGED <<shared, history>>

CopyURL(t) ==
  /\ At(t, "copy")
  /\ IF guiURL = NULL \/ freed THEN Misuse
     ELSE /\ thread' = [thread EXCEPT ![t] = [pc |-> "stop", url |-> guiURL, why |-> "fault"]]
          /\ UNCHANGED <<shared, alive, misused, history>>

\* The answer, which may not be a Boolean value.
ReadAnswer(t) ==
  /\ At(t, "answered") /\ ~faultOccurred
  /\ \/ Goto(t, "read") /\ UNCHANGED <<shared, alive, misused, history>>
     \/ RaiseFault(t, "read")

UseAnswer(t) ==
  /\ At(t, "read") /\ ~faultOccurred
  /\ \E success \in BOOLEAN : Return(t, success)
  /\ UNCHANGED <<shared, history>>

\* The result of a failed call, whose fault another thread cleared, is no value.
ReadNothing(t) == At(t, "failed") /\ ~faultOccurred /\ Misuse
-----------------------------------------------------------------------------
(* gi_unregister_gui, on request or because of a fault                     *)

\* The pollers are stopped before the URL is compared.
RequestUnregister(g) ==
  /\ At(Server, "idle") /\ g \in alive
  /\ shutdownPolling' = TRUE
  /\ thread' = [thread EXCEPT ![Server] = [pc |-> "compare", url |-> g, why |-> "request"]]
  /\ UNCHANGED <<guiURL, freed, faultOccurred, alive, misused, history>>

StopPolling(t) ==
  /\ At(t, "stop")
  /\ shutdownPolling' = TRUE /\ Goto(t, "compare")
  /\ UNCHANGED <<guiURL, freed, faultOccurred, alive, misused, history>>

\* gi_unregister_gui returns rc, to the GUI or to xmlrpc_error_occurred.
Unregistered(t, rc) ==
  /\ IF thread[t].why = "fault"
     THEN IF rc THEN Return(t, FALSE)
          ELSE /\ thread' = [thread EXCEPT ![t] = [@ EXCEPT !.pc = "drop", !.url = NULL]]
               /\ UNCHANGED <<alive, misused>>
     ELSE thread' = [thread EXCEPT ![t] = Idle] /\ UNCHANGED <<alive, misused>>
  /\ UNCHANGED history

\* Plausible mistake in Compare: whoever asks is unregistered.
Compare_unchecked(t) ==
  /\ At(t, "compare")
  /\ IF freed THEN Misuse
     ELSE Goto(t, "free") /\ UNCHANGED <<shared, alive, misused, history>>

Compare(t) ==
  /\ At(t, "compare")
  /\ IF freed THEN Misuse
     ELSE IF guiURL # thread[t].url THEN Unregistered(t, FALSE) /\ UNCHANGED shared
     ELSE Goto(t, "free") /\ UNCHANGED <<shared, alive, misused, history>>

FreeCompared(t) ==
  /\ At(t, "free")
  /\ IF freed THEN Misuse
     ELSE /\ FreeURL
          /\ thread' = [thread EXCEPT ![t] = [@ EXCEPT !.pc = "clear", !.url = NULL]]
          /\ UNCHANGED <<alive, misused, history>>

\* rc is that of ed_shutdown_all and rm_unregister_all.
Clear(t) ==
  /\ At(t, "clear")
  /\ ClearURL
  /\ \E rc \in BOOLEAN : Unregistered(t, rc)

\* xmlrpc_error_occurred clears whatever URL there is after a refusal.
Drop(t) ==
  /\ At(t, "drop")
  /\ IF freed THEN Misuse
     ELSE /\ ClearURL /\ Return(t, FALSE)
          /\ UNCHANGED history
-----------------------------------------------------------------------------
(* polling_gui                                                             *)

BeginPolling(p) ==
  /\ At(p, "begin")
  /\ shutdownPolling' = FALSE /\ Goto(p, "sleep")
  /\ UNCHANGED <<guiURL, freed, faultOccurred, alive, misused, history>>

\* Plausible mistake in LookPoller: the sixty seconds never pass.
LookPoller_only(p) ==
  /\ At(p, "sleep")
  /\ shutdownPolling /\ thread' = [thread EXCEPT ![p] = Idle]
  /\ UNCHANGED <<shared, alive, misused, history>>

\* After each second; the GUI is asked after the sixtieth.
LookPoller(p) ==
  /\ At(p, "sleep")
  /\ IF shutdownPolling THEN thread' = [thread EXCEPT ![p] = Idle] ELSE Goto(p, "test")
  /\ UNCHANGED <<shared, alive, misused, history>>
-----------------------------------------------------------------------------
\* A GUI that has died comes back under another address.
GuiDies(g) ==
  /\ ~misused /\ Cardinality(Gui \ (alive \ {g})) <= MaxDead
  /\ alive' = alive \ {g}
  /\ UNCHANGED <<shared, thread, misused, history>>

ServerStep == SetURL \/ RegisterFails \/ StartPoller
CallbackStep(t) ==
  \/ RegisterCore(t) \/ CallBegin(t) \/ CallEnd(t) \/ ReadAnswer(t) \/ UseAnswer(t)
  \/ ReadNothing(t) \/ SeeFault(t) \/ LogFault(t) \/ CleanFault(t) \/ LookForURL(t)
  \/ CopyURL(t)
UnregisterStep(t) ==
  \/ StopPolling(t) \/ Compare(t) \/ FreeCompared(t) \/ Clear(t) \/ Drop(t)
PollerStep(p) == BeginPolling(p) \/ LookPoller(p)

Next ==
  \/ \E g \in Gui : RequestRegister(g) \/ RequestUnregister(g) \/ GuiDies(g)
  \/ \E w \in Worker : Report(w)
  \/ ServerStep
  \/ \E t \in Thread : CallbackStep(t) \/ UnregisterStep(t)
  \/ \E p \in Poller : PollerStep(p)

Spec == Init /\ [][Next]_vars

\* A thread that has begun goes on; nobody has to ask for anything.
FairSpec ==
  /\ Spec
  /\ WF_vars(ServerStep)
  /\ \A t \in Thread : WF_vars(CallbackStep(t) \/ UnregisterStep(t))
  /\ \A p \in Poller : WF_vars(PollerStep(p))
-----------------------------------------------------------------------------
(* Properties                                                              *)

Calling == {"idle", "test", "call", "calling", "answered", "failed", "read", "log",
            "clean", "look", "copy", "stop", "compare", "free", "clear", "drop"}

TypeOK ==
  /\ guiURL \in Gui \cup {NULL} /\ freed \in BOOLEAN /\ (freed => guiURL # NULL)
  /\ faultOccurred \in BOOLEAN /\ shutdownPolling \in BOOLEAN
  /\ alive \subseteq Gui /\ misused \in BOOLEAN
  /\ failed \in BOOLEAN /\ crossed \in BOOLEAN
  /\ thread \in [Thread -> [pc : Calling \cup {"set", "refused", "start", "begin", "sleep"},
                            url : Gui \cup {NULL}, why : {"none", "request", "fault"}]]
  /\ thread[Server].pc \in Calling \cup {"set", "refused", "start"}
  /\ \A w \in Worker : thread[w].pc \in Calling \ {"test"}
  /\ \A p \in Poller : thread[p].pc \in Calling \cup {"begin", "sleep"}

Running(p) == thread[p].pc # "idle"

\* A GUI that has answered each call since it registered is dropped only when
\* it asks for that, refuses the core, or another one registers; or for a fault
\* of an earlier GUI, raised or still handled after the registration.
LiveGuiStays ==
  [][\A g \in Gui : (guiURL = g /\ ~freed /\ (guiURL' # g \/ freed')) =>
       \/ failed \/ crossed \/ misused'
       \/ thread'[Server].pc = "set" \/ thread[Server].pc = "refused"
       \/ thread[Server].pc = "free" /\ thread[Server].url = g]_vars

\* A GUI that has died is dropped as long as a poller watches it.
DeadGuiIsDropped ==
  \A g \in Gui :
    ~<>[](guiURL = g /\ g \notin alive /\ ~misused /\ \E p \in Poller : Running(p))

\* Pollers end when the GUI has gone, even when the order to stop, which a new
\* poller takes back, did not reach them.
PollersEnd == ~<>[](guiURL = NULL /\ ~misused /\ \E p \in Poller : Running(p))
=============================================================================
