---------------------------- MODULE GuiLinkProofs ----------------------------
(***************************************************************************)
(* Proofs about GuiLink for any number of GUIs, of threads with callbacks  *)
(* and of pollers.  Nothing but the program counters keeps the threads     *)
(* apart, so the invariant says what a thread at each place has seen and   *)
(* what of it is still true: the server owns the URL while it changes it,  *)
(* every other thread that drops the GUI handles a fault, and a fault that *)
(* is there or is handled is known to be one of the registered GUI or one  *)
(* of an earlier GUI.                                                      *)
(***************************************************************************)
EXTENDS GuiLink, TLAPS

\* The server leaves no URL that could be used while it registers a GUI, or
\* after it has freed that of one, and the GUI that it drops is the one whose
\* URL it compared: only the server sets a URL.
ServerOwnsURL ==
  /\ thread[Server].pc \in {"set", "clear"} => freed \/ guiURL = NULL
  /\ thread[Server].pc = "free" => guiURL \in {NULL, thread[Server].url}

\* Threads other than the server unregister the GUI because of a fault, and
\* nobody overrides a refusal for another reason.
Dropping == {"stop", "compare", "free", "clear", "drop"}
OnlyFaultsDrop ==
  /\ \A t \in Thread \ {Server} :
        thread[t].pc \in Dropping => thread[t].why = "fault"
  /\ thread[Server].pc = "drop" => thread[Server].why = "fault"

\* A fault that is there or is handled is that of a call which the registered
\* GUI failed, unless there was one of an earlier GUI since it registered.
FaultsAreOfTheGui ==
  faultOccurred \/ (\E t \in Thread : Handling(t)) => failed \/ crossed

Inv == TypeOK /\ ServerOwnsURL /\ OnlyFaultsDrop /\ FaultsAreOfTheGui

USE GuiAssumption DEF GuiAssumption, Thread

-----------------------------------------------------------------------------
(* Types *)

\* Where a thread can be, and all that it keeps.
Pc(t) == IF t = Server THEN Calling \cup {"set", "refused", "start"}
         ELSE IF t \in Worker THEN Calling \ {"test"}
         ELSE Calling \cup {"begin", "sleep"}
State(t) == [pc : Pc(t), url : Gui \cup {NULL}, why : {"none", "request", "fault"}]

ThreadsOK ==
  /\ DOMAIN thread = Thread /\ thread = [t \in Thread |-> thread[t]]
  /\ \A t \in Thread : thread[t] \in State(t)
ValuesOK ==
  /\ guiURL \in Gui \cup {NULL} /\ freed \in BOOLEAN /\ (freed => guiURL # NULL)
  /\ faultOccurred \in BOOLEAN /\ shutdownPolling \in BOOLEAN
  /\ alive \subseteq Gui /\ misused \in BOOLEAN
  /\ failed \in BOOLEAN /\ crossed \in BOOLEAN

LEMMA TypeParts == TypeOK <=> ThreadsOK /\ ValuesOK
<1> USE DEF TypeOK, ThreadsOK, ValuesOK
<1> DEFINE All == [pc : Calling \cup {"set", "refused", "start", "begin", "sleep"},
                  url : Gui \cup {NULL}, why : {"none", "request", "fault"}]
<1>1. ASSUME TypeOK
      PROVE  ThreadsOK
  <2>1. thread \in [Thread -> All]
    BY <1>1
  <2>2. DOMAIN thread = Thread /\ thread = [t \in Thread |-> thread[t]]
        /\ \A t \in Thread : thread[t] \in All
    BY <2>1
  <2>3. ASSUME NEW t \in Thread
        PROVE  thread[t] \in State(t)
    <3>1. thread[t].pc \in Pc(t)
      BY <1>1, <2>2 DEF Pc
    <3>2. thread[t] \in All
      BY <2>2
    <3> QED  BY <3>1, <3>2 DEF State
  <2> QED  BY <2>2, <2>3
<1>2. ASSUME ThreadsOK, ValuesOK
      PROVE  TypeOK
  <2>1. ASSUME NEW t \in Thread
        PROVE  thread[t] \in All
    <3>1. thread[t] \in State(t)
      BY <1>2
    <3> QED  BY <3>1 DEF State, Pc, Calling
  <2>2. thread \in [Thread -> All]
    BY <1>2, <2>1
  <2>3. \A t \in Thread : thread[t].pc \in Pc(t)
    BY <1>2 DEF State
  <2> QED  BY <1>2, <2>2, <2>3 DEF Pc
<1> QED  BY <1>1, <1>2

\* One thread goes on, or none.
LEMMA ThreadGoesOn ==
  ASSUME ThreadsOK, NEW t \in Thread, NEW s \in State(t),
         thread' = [thread EXCEPT ![t] = s]
  PROVE  ThreadsOK'
BY DEF ThreadsOK

LEMMA AllIdle ==
  ASSUME thread' = [t \in Thread |-> Idle]
  PROVE  ThreadsOK'
BY DEF ThreadsOK, State, Pc, Idle, Calling

\* The same for a thread of which only some fields change.
LEMMA ThreadState ==
  ASSUME ThreadsOK, NEW t \in Thread
  PROVE  /\ thread[t] \in State(t) /\ Idle \in State(t)
         /\ \A pc \in Pc(t) :
              /\ [thread[t] EXCEPT !.pc = pc] \in State(t)
              /\ [Idle EXCEPT !.pc = pc] \in State(t)
              /\ \A url \in Gui \cup {NULL} :
                   [thread[t] EXCEPT !.pc = pc, !.url = url] \in State(t)
              /\ [thread EXCEPT ![t].pc = pc]
                   = [thread EXCEPT ![t] = [thread[t] EXCEPT !.pc = pc]]
<1>1. thread[t] \in State(t) /\ t \in DOMAIN thread
  BY DEF ThreadsOK
<1>2. Idle \in State(t)
  BY DEF State, Pc, Idle, Calling
<1>3. ASSUME NEW pc \in Pc(t)
      PROVE  /\ [thread[t] EXCEPT !.pc = pc] \in State(t)
             /\ [Idle EXCEPT !.pc = pc] \in State(t)
  BY <1>1, <1>2 DEF State
<1>4. ASSUME NEW pc \in Pc(t), NEW url \in Gui \cup {NULL}
      PROVE  [thread[t] EXCEPT !.pc = pc, !.url = url] \in State(t)
  BY <1>1 DEF State
<1>5. ASSUME NEW pc
      PROVE  [thread EXCEPT ![t].pc = pc]
              = [thread EXCEPT ![t] = [thread[t] EXCEPT !.pc = pc]]
  BY <1>1
<1> QED  BY <1>1, <1>2, <1>3, <1>4, <1>5

LEMMA Misused == Misuse => ThreadsOK' /\ (alive \subseteq Gui => ValuesOK')
BY AllIdle DEF Misuse, ValuesOK

\* What the common ends of the handlers do.
LEMMA Returned ==
  ASSUME ThreadsOK, NEW t \in Thread, NEW rc \in BOOLEAN, Return(t, rc)
  PROVE  ThreadsOK' /\ UNCHANGED <<alive, misused>>
<1>1. After(t, rc) \in Pc(t)
  BY DEF After, Pc, Calling
<1>2. [Idle EXCEPT !.pc = After(t, rc)] \in State(t)
  BY <1>1, ThreadState
<1> QED  BY <1>2, ThreadGoesOn DEF Return

LEMMA RaisedTypes ==
  ASSUME ThreadsOK, ValuesOK, NEW t \in Thread, NEW pc \in Pc(t), RaiseFault(t, pc)
  PROVE  ThreadsOK' /\ ValuesOK'
<1>1. [thread[t] EXCEPT !.pc = pc, !.url = NULL] \in State(t)
  BY ThreadState
<1>2. thread' = [thread EXCEPT ![t] = [thread[t] EXCEPT !.pc = pc, !.url = NULL]]
  BY DEF RaiseFault
<1>3. ThreadsOK'
  BY <1>1, <1>2, ThreadGoesOn
<1>4. failed' \in BOOLEAN /\ crossed' \in BOOLEAN
  BY DEF RaiseFault, ValuesOK
<1> QED  BY <1>3, <1>4 DEF RaiseFault, ValuesOK

LEMMA Went ==
  ASSUME ThreadsOK, NEW t \in Thread, NEW pc \in Pc(t), Goto(t, pc)
  PROVE  ThreadsOK'
BY ThreadState, ThreadGoesOn DEF Goto

LEMMA UnregisteredTypes ==
  ASSUME ThreadsOK, NEW t \in Thread, NEW rc \in BOOLEAN, Unregistered(t, rc)
  PROVE  ThreadsOK' /\ UNCHANGED <<alive, misused, failed, crossed>>
<1>1. CASE Return(t, FALSE)
  BY <1>1, Returned DEF Unregistered, history
<1>2. CASE /\ thread' = [thread EXCEPT ![t] = [@ EXCEPT !.pc = "drop", !.url = NULL]]
           /\ UNCHANGED <<alive, misused>>
  <2>1. "drop" \in Pc(t)
    BY DEF Pc, Calling
  <2>2. [thread[t] EXCEPT !.pc = "drop", !.url = NULL] \in State(t)
    BY <2>1, ThreadState
  <2>3. thread' = [thread EXCEPT ![t] = [thread[t] EXCEPT !.pc = "drop", !.url = NULL]]
    BY <1>2
  <2>4. ThreadsOK'
    BY <2>2, <2>3, ThreadGoesOn
  <2> QED  BY <1>2, <2>4 DEF Unregistered, history
<1>3. CASE thread' = [thread EXCEPT ![t] = Idle] /\ UNCHANGED <<alive, misused>>
  <2>1. ThreadsOK'
    BY <1>3, ThreadState, ThreadGoesOn
  <2> QED  BY <1>3, <2>1 DEF Unregistered, history
<1> QED  BY <1>1, <1>2, <1>3 DEF Unregistered

LEMMA TypeInit == Init => TypeOK
<1>1. Init => ThreadsOK
  BY DEF Init, ThreadsOK, State, Pc, Idle, Calling
<1> QED  BY <1>1, TypeParts DEF Init, ValuesOK

LEMMA TypeStep ==
  ASSUME TypeOK, [Next]_vars
  PROVE  TypeOK'
<1>0. ThreadsOK /\ ValuesOK
  BY TypeParts
<1> SUFFICES ThreadsOK' /\ ValuesOK'
  BY TypeParts, PTL
<1> USE <1>0 DEF shared, history
<1>a. \A t \in Thread : Calling \ {"test"} \subseteq Pc(t)
  BY DEF Pc, Calling
<1>1. ASSUME NEW g \in Gui, RequestRegister(g)
      PROVE  ThreadsOK' /\ ValuesOK'
  <2>1. CASE freed
    BY <1>1, <2>1, Misused DEF RequestRegister, ValuesOK
  <2>2. CASE ~freed
    <3>1. [pc |-> "set", url |-> g, why |-> "request"] \in State(Server)
      BY DEF State, Pc
    <3> QED  BY <1>1, <2>2, <3>1, ThreadGoesOn DEF RequestRegister, FreeURL, ValuesOK
  <2> QED  BY <2>1, <2>2
<1>2. ASSUME NEW g \in Gui, RequestUnregister(g)
      PROVE  ThreadsOK' /\ ValuesOK'
  <2>1. [pc |-> "compare", url |-> g, why |-> "request"] \in State(Server)
    BY DEF State, Pc, Calling
  <2> QED  BY <1>2, <2>1, ThreadGoesOn DEF RequestUnregister, ValuesOK
<1>3. ASSUME NEW g \in Gui, GuiDies(g)
      PROVE  ThreadsOK' /\ ValuesOK'
  BY <1>3 DEF GuiDies, ThreadsOK, ValuesOK
<1>4. ASSUME NEW w \in Worker, Report(w)
      PROVE  ThreadsOK' /\ ValuesOK'
  <2>1. CASE guiURL = NULL
    BY <1>4, <2>1, Returned DEF Report, TestURL, ValuesOK
  <2>2. CASE guiURL # NULL
    <3>1. Goto(w, "call") /\ UNCHANGED <<alive, misused, guiURL, freed, faultOccurred,
                                        shutdownPolling, failed, crossed>>
      BY <1>4, <2>2 DEF Report, TestURL
    <3>2. "call" \in Pc(w)
      BY <1>a DEF Calling
    <3> QED  BY <3>1, <3>2, Went DEF ValuesOK
  <2> QED  BY <2>1, <2>2
<1>5. CASE SetURL
  <2>1. thread[Server] \in State(Server) /\ "test" \in Pc(Server)
    BY DEF ThreadsOK, Pc, Calling
  <2>2. [Idle EXCEPT !.pc = "test"] \in State(Server)
    BY <2>1, ThreadState
  <2>4. ThreadsOK'
    BY <1>5, <2>2, ThreadGoesOn DEF SetURL
  <2>5. thread[Server].url \in Gui \cup {NULL}
    BY <2>1 DEF State
  <2>6. crossed' \in BOOLEAN
    BY <1>5 DEF SetURL
  <2> QED  BY <1>5, <2>4, <2>5, <2>6 DEF SetURL, ValuesOK
<1>6. CASE RegisterFails
  <2>1. CASE freed
    BY <1>6, <2>1, Misused DEF RegisterFails, ValuesOK
  <2>2. CASE ~freed
    <3>1. Idle \in State(Server)
      BY ThreadState
    <3> QED  BY <1>6, <2>2, <3>1, ThreadGoesOn DEF RegisterFails, ClearURL, ValuesOK
  <2> QED  BY <2>1, <2>2
<1>7. CASE StartPoller
  <2>1. Idle \in State(Server)
    BY ThreadState
  <2>2. CASE thread' = [thread EXCEPT ![Server] = Idle]
    BY <1>7, <2>1, <2>2, ThreadGoesOn DEF StartPoller, ValuesOK
  <2>3. ASSUME NEW p \in Poller, thread[p] = Idle,
               thread' = [thread EXCEPT ![Server] = Idle, ![p].pc = "begin"]
        PROVE  ThreadsOK'
    <3>1. [thread[p] EXCEPT !.pc = "begin"] \in State(p)
      BY ThreadState DEF Pc
    <3>2. thread' = [t \in Thread |-> IF t = Server THEN Idle
                                      ELSE IF t = p THEN [thread[p] EXCEPT !.pc = "begin"]
                                      ELSE thread[t]]
      BY <2>3 DEF ThreadsOK
    <3> QED  BY <2>1, <3>1, <3>2 DEF ThreadsOK
  <2> QED  BY <1>7, <2>2, <2>3 DEF StartPoller, ValuesOK
<1>8. ASSUME NEW t \in Thread, RegisterCore(t)
      PROVE  ThreadsOK' /\ ValuesOK'
  <2>1. CASE guiURL = NULL
    BY <1>8, <2>1, Returned DEF RegisterCore, TestURL, ValuesOK
  <2>2. CASE guiURL # NULL
    <3>1. Goto(t, "call") /\ UNCHANGED <<alive, misused, guiURL, freed, faultOccurred,
                                        shutdownPolling, failed, crossed>>
      BY <1>8, <2>2 DEF RegisterCore, TestURL
    <3>2. "call" \in Pc(t)
      BY <1>a DEF Calling
    <3> QED  BY <3>1, <3>2, Went DEF ValuesOK
  <2> QED  BY <2>1, <2>2
<1>9. ASSUME NEW t \in Thread, CallBegin(t)
      PROVE  ThreadsOK' /\ ValuesOK'
  <2>1. CASE guiURL = NULL \/ freed
    BY <1>9, <2>1, Misused DEF CallBegin, ValuesOK
  <2>2. CASE ~(guiURL = NULL \/ freed)
    <3>1. "calling" \in Pc(t) /\ guiURL \in Gui \cup {NULL}
      BY <1>a DEF Calling, ValuesOK
    <3>2. [thread[t] EXCEPT !.pc = "calling", !.url = guiURL] \in State(t)
      BY <3>1, ThreadState
    <3>3. thread' = [thread EXCEPT ![t] = [thread[t] EXCEPT !.pc = "calling", !.url = guiURL]]
      BY <1>9, <2>2 DEF CallBegin
    <3>4. ThreadsOK'
      BY <3>2, <3>3, ThreadGoesOn
    <3> QED  BY <1>9, <2>2, <3>4 DEF CallBegin, ValuesOK
  <2> QED  BY <2>1, <2>2
<1>10. ASSUME NEW t \in Thread, CallEnd(t)
      PROVE  ThreadsOK' /\ ValuesOK'
  <2>1. "answered" \in Pc(t) /\ "failed" \in Pc(t)
    BY <1>a DEF Calling
  <2>2. CASE RaiseFault(t, "failed")
    BY <2>1, <2>2, RaisedTypes
  <2>3. CASE Goto(t, "answered") /\ UNCHANGED <<shared, alive, misused, history>>
    BY <2>1, <2>3, Went DEF ValuesOK
  <2> QED  BY <1>10, <2>2, <2>3 DEF CallEnd
<1>11. ASSUME NEW t \in Thread, ReadAnswer(t)
      PROVE  ThreadsOK' /\ ValuesOK'
  <2>1. "read" \in Pc(t)
    BY <1>a DEF Calling
  <2>2. CASE RaiseFault(t, "read")
    BY <2>1, <2>2, RaisedTypes
  <2>3. CASE Goto(t, "read") /\ UNCHANGED <<shared, alive, misused, history>>
    BY <2>1, <2>3, Went DEF ValuesOK
  <2> QED  BY <1>11, <2>2, <2>3 DEF ReadAnswer
<1>12. ASSUME NEW t \in Thread, UseAnswer(t) \/ ReadNothing(t)
      PROVE  ThreadsOK' /\ ValuesOK'
  BY <1>12, Returned, Misused DEF UseAnswer, ReadNothing, ValuesOK
<1>21. ASSUME NEW t \in Thread, SeeFault(t)
      PROVE  ThreadsOK' /\ ValuesOK'
  <2>1. "log" \in Pc(t)
    BY <1>a DEF Calling
  <2>2. [thread[t] EXCEPT !.pc = "log", !.url = NULL] \in State(t)
    BY <2>1, ThreadState
  <2>3. thread' = [thread EXCEPT ![t] = [thread[t] EXCEPT !.pc = "log", !.url = NULL]]
    BY <1>21 DEF SeeFault
  <2>4. ThreadsOK'
    BY <2>2, <2>3, ThreadGoesOn
  <2> QED  BY <1>21, <2>4 DEF SeeFault, ValuesOK
<1>22. ASSUME NEW t \in Thread, LogFault(t)
      PROVE  ThreadsOK' /\ ValuesOK'
  <2>1. "clean" \in Pc(t)
    BY <1>a DEF Calling
  <2> QED  BY <1>22, <2>1, Went, Misused DEF LogFault, ValuesOK
<1>23. ASSUME NEW t \in Thread, CleanFault(t)
      PROVE  ThreadsOK' /\ ValuesOK'
  <2>1. "look" \in Pc(t)
    BY <1>a DEF Calling
  <2> QED  BY <1>23, <2>1, Went DEF CleanFault, ValuesOK
<1>24. ASSUME NEW t \in Thread, LookForURL(t)
      PROVE  ThreadsOK' /\ ValuesOK'
  <2>1. "copy" \in Pc(t)
    BY <1>a DEF Calling
  <2> QED  BY <1>24, <2>1, Went, Returned DEF LookForURL, ValuesOK
<1>25. ASSUME NEW t \in Thread, CopyURL(t)
      PROVE  ThreadsOK' /\ ValuesOK'
  <2>1. CASE guiURL = NULL \/ freed
    BY <1>25, <2>1, Misused DEF CopyURL, ValuesOK
  <2>2. CASE ~(guiURL = NULL \/ freed)
    <3>1. [pc |-> "stop", url |-> guiURL, why |-> "fault"] \in State(t)
      BY <1>a DEF State, Calling, ValuesOK
    <3> QED  BY <1>25, <2>2, <3>1, ThreadGoesOn DEF CopyURL, ValuesOK
  <2> QED  BY <2>1, <2>2
<1>13. ASSUME NEW t \in Thread, StopPolling(t)
      PROVE  ThreadsOK' /\ ValuesOK'
  <2>1. "compare" \in Pc(t)
    BY <1>a DEF Calling
  <2> QED  BY <1>13, <2>1, Went DEF StopPolling, ValuesOK
<1>14. ASSUME NEW t \in Thread, Compare(t)
      PROVE  ThreadsOK' /\ ValuesOK'
  <2>1. CASE freed
    BY <1>14, <2>1, Misused DEF Compare, ValuesOK
  <2>2. CASE ~freed /\ guiURL # thread[t].url
    BY <1>14, <2>2, UnregisteredTypes DEF Compare, ValuesOK
  <2>3. CASE ~freed /\ guiURL = thread[t].url
    <3>1. "free" \in Pc(t)
      BY <1>a DEF Calling
    <3> QED  BY <1>14, <2>3, <3>1, Went DEF Compare, ValuesOK
  <2> QED  BY <2>1, <2>2, <2>3
<1>15. ASSUME NEW t \in Thread, FreeCompared(t)
      PROVE  ThreadsOK' /\ ValuesOK'
  <2>1. CASE freed
    BY <1>15, <2>1, Misused DEF FreeCompared, ValuesOK
  <2>2. CASE ~freed
    <3>1. "clear" \in Pc(t)
      BY <1>a DEF Calling
    <3>2. [thread[t] EXCEPT !.pc = "clear", !.url = NULL] \in State(t)
      BY <3>1, ThreadState
    <3>3. thread' = [thread EXCEPT ![t] = [thread[t] EXCEPT !.pc = "clear", !.url = NULL]]
      BY <1>15, <2>2 DEF FreeCompared
    <3>4. ThreadsOK'
      BY <3>2, <3>3, ThreadGoesOn
    <3> QED  BY <1>15, <2>2, <3>4 DEF FreeCompared, FreeURL, ValuesOK
  <2> QED  BY <2>1, <2>2
<1>16. ASSUME NEW t \in Thread, Clear(t)
      PROVE  ThreadsOK' /\ ValuesOK'
  BY <1>16, UnregisteredTypes DEF Clear, ClearURL, ValuesOK
<1>17. ASSUME NEW t \in Thread, Drop(t)
      PROVE  ThreadsOK' /\ ValuesOK'
  <2>1. CASE freed
    BY <1>17, <2>1, Misused DEF Drop, ValuesOK
  <2>2. CASE ~freed
    BY <1>17, <2>2, Returned DEF Drop, ClearURL, ValuesOK
  <2> QED  BY <2>1, <2>2
<1>18. ASSUME NEW p \in Poller, BeginPolling(p)
      PROVE  ThreadsOK' /\ ValuesOK'
  <2>1. "sleep" \in Pc(p)
    BY DEF Pc
  <2> QED  BY <1>18, <2>1, Went DEF BeginPolling, ValuesOK
<1>19. ASSUME NEW p \in Poller, LookPoller(p)
      PROVE  ThreadsOK' /\ ValuesOK'
  <2>1. CASE shutdownPolling
    BY <1>19, <2>1, ThreadState, ThreadGoesOn DEF LookPoller, ValuesOK
  <2>2. CASE ~shutdownPolling
    <3>1. "test" \in Pc(p)
      BY DEF Pc, Calling
    <3> QED  BY <1>19, <2>2, <3>1, Went DEF LookPoller, ValuesOK
  <2> QED  BY <2>1, <2>2
<1>20. CASE UNCHANGED vars
  BY <1>20 DEF vars, ThreadsOK, ValuesOK
<1> QED
  BY <1>1, <1>2, <1>3, <1>4, <1>5, <1>6, <1>7, <1>8, <1>9, <1>10,
     <1>11, <1>12, <1>13, <1>14, <1>15, <1>16, <1>17, <1>18, <1>19, <1>20,
     <1>21, <1>22, <1>23, <1>24, <1>25
     DEF Next, ServerStep, CallbackStep, UnregisterStep, PollerStep

\* Every thread is where its program can be, and keeps what it should there;
\* memory that was given back is that of a URL, until the model ends.
THEOREM TypeCorrect == Spec => []TypeOK
BY TypeInit, TypeStep, PTL DEF Spec

-----------------------------------------------------------------------------
(* Who drops a GUI *)

Stays ==
  \A g \in Gui : (guiURL = g /\ ~freed /\ (guiURL' # g \/ freed')) =>
       \/ failed \/ crossed \/ misused'
       \/ thread'[Server].pc = "set" \/ thread[Server].pc = "refused"
       \/ thread[Server].pc = "free" /\ thread[Server].url = g

LiveInv == ServerOwnsURL /\ OnlyFaultsDrop /\ FaultsAreOfTheGui

\* A step of one thread leaves the others where they are.
Moves(t) == \A u \in Thread \ {t} : thread'[u] = thread[u]

\* Where it gets is as OnlyFaultsDrop and ServerOwnsURL ask, and no fault
\* begins to be handled.
Lands(t) ==
  /\ t = Server => ServerOwnsURL'
  /\ thread'[t].pc \in (IF t = Server THEN {"drop"} ELSE Dropping)
       => thread'[t].why = "fault"
  /\ Handling(t)' => Handling(t)

\* Only the server sets a URL; every other step gives it back, clears it or
\* leaves it.
LEMMA LosingURL ==
  ASSUME Inv, NEW t \in Thread, Moves(t), Lands(t),
         guiURL' \in {guiURL, NULL}, freed => freed' \/ guiURL' = NULL,
         UNCHANGED <<faultOccurred, failed, crossed>>
  PROVE  LiveInv'
<1>1. ServerOwnsURL'
  <2>1. CASE t = Server
    BY <2>1 DEF Lands
  <2>2. CASE t # Server
    <3>1. thread'[Server] = thread[Server]
      BY <2>2 DEF Moves
    <3> QED  BY <3>1 DEF Inv, ServerOwnsURL
  <2> QED  BY <2>1, <2>2
<1>2. OnlyFaultsDrop'
  BY DEF Inv, OnlyFaultsDrop, Moves, Lands
<1>3. FaultsAreOfTheGui'
  BY DEF Inv, FaultsAreOfTheGui, Moves, Lands, Handling
<1> QED  BY <1>1, <1>2, <1>3 DEF LiveInv

LEMMA OneMoves ==
  ASSUME ThreadsOK, NEW t \in Thread, NEW s, thread' = [thread EXCEPT ![t] = s]
  PROVE  Moves(t) /\ thread'[t] = s
BY DEF ThreadsOK, Moves

LEMMA OneGoes ==
  ASSUME ThreadsOK, NEW t \in Thread, NEW pc, Goto(t, pc)
  PROVE  /\ Moves(t) /\ thread'[t].pc = pc
         /\ thread'[t].url = thread[t].url /\ thread'[t].why = thread[t].why
<1>1. thread[t] \in State(t)
  BY DEF ThreadsOK
<1>2. thread' = [thread EXCEPT ![t] = [thread[t] EXCEPT !.pc = pc]]
  BY DEF Goto, ThreadsOK
<1>3. Moves(t) /\ thread'[t] = [thread[t] EXCEPT !.pc = pc]
  BY <1>2, OneMoves
<1> QED  BY <1>1, <1>3 DEF State

LEMMA OneGoesWith ==
  ASSUME ThreadsOK, NEW t \in Thread, NEW pc, NEW url,
         thread' = [thread EXCEPT ![t] = [thread[t] EXCEPT !.pc = pc, !.url = url]]
  PROVE  Moves(t) /\ thread'[t].pc = pc /\ thread'[t].why = thread[t].why
<1>1. thread[t] \in State(t)
  BY DEF ThreadsOK
<1>2. Moves(t) /\ thread'[t] = [thread[t] EXCEPT !.pc = pc, !.url = url]
  BY OneMoves
<1> QED  BY <1>1, <1>2 DEF State

\* A fault that is raised is of the registered GUI, or it is known not to be.
LEMMA OneRaises ==
  ASSUME Inv, ThreadsOK, NEW t \in Thread, NEW pc \in {"failed", "read"}, RaiseFault(t, pc)
  PROVE  LiveInv' /\ UNCHANGED <<guiURL, freed>>
<1>1. Moves(t) /\ thread'[t].pc = pc /\ thread'[t].why = thread[t].why
  BY OneGoesWith DEF RaiseFault
<1>2. UNCHANGED <<guiURL, freed>> /\ (failed' \/ crossed')
  BY DEF RaiseFault
<1>3. ServerOwnsURL' /\ OnlyFaultsDrop'
  BY <1>1, <1>2 DEF Inv, ServerOwnsURL, OnlyFaultsDrop, Moves, Dropping
<1>4. FaultsAreOfTheGui'
  BY <1>2 DEF FaultsAreOfTheGui
<1> QED  BY <1>2, <1>3, <1>4 DEF LiveInv

LEMMA OneReturns ==
  ASSUME ThreadsOK, NEW t \in Thread, NEW rc, Return(t, rc)
  PROVE  /\ Moves(t) /\ thread'[t].pc \in {"start", "refused", "sleep", "idle"}
         /\ thread'[t].why = "none" /\ Lands(t)
         /\ UNCHANGED <<alive, misused>>
<1>1. Moves(t) /\ thread'[t] = [Idle EXCEPT !.pc = After(t, rc)]
  BY OneMoves DEF Return
<1>2. thread'[t].pc \in {"start", "refused", "sleep", "idle"} /\ thread'[t].why = "none"
  BY <1>1 DEF After, Idle
<1>3. Lands(t)
  BY <1>2 DEF Lands, Handling, ServerOwnsURL, Dropping
<1> QED  BY <1>1, <1>2, <1>3 DEF Return

LEMMA OneUnregistered ==
  ASSUME ThreadsOK, NEW t \in Thread, NEW rc, Unregistered(t, rc)
  PROVE  /\ Moves(t) /\ Lands(t)
         /\ UNCHANGED <<alive, misused, failed, crossed>>
<1>1. thread[t] \in State(t)
  BY DEF ThreadsOK
<1>2. CASE Return(t, FALSE)
  BY <1>2, OneReturns DEF Unregistered, history, Lands, Handling, ServerOwnsURL, Dropping
<1>3. CASE /\ thread[t].why = "fault"
           /\ thread' = [thread EXCEPT ![t] = [@ EXCEPT !.pc = "drop", !.url = NULL]]
           /\ UNCHANGED <<alive, misused>>
  <2>1. PICK s : /\ thread' = [thread EXCEPT ![t] = s]
                 /\ s = [thread[t] EXCEPT !.pc = "drop", !.url = NULL]
    BY <1>3
  <2>2. s.pc = "drop" /\ s.why = "fault"
    BY <1>1, <1>3, <2>1 DEF State
  <2>3. Moves(t) /\ thread'[t] = s
    BY <2>1, OneMoves
  <2> QED  BY <1>3, <2>2, <2>3 DEF Unregistered, history, Lands, Handling, ServerOwnsURL
<1>4. CASE thread' = [thread EXCEPT ![t] = Idle] /\ UNCHANGED <<alive, misused>>
  <2>1. Moves(t) /\ thread'[t] = Idle
    BY <1>4, OneMoves
  <2>2. Lands(t)
    BY <2>1 DEF Lands, Handling, ServerOwnsURL, Idle, Dropping
  <2> QED  BY <1>4, <2>1, <2>2 DEF Unregistered, history
<1> QED  BY <1>2, <1>3, <1>4 DEF Unregistered

LEMMA LiveStep ==
  ASSUME Inv, [Next]_vars
  PROVE  LiveInv' /\ Stays
<1>0. Server \in Thread /\ ThreadsOK /\ ValuesOK /\ \A t \in Thread : thread[t] \in State(t)
  BY TypeParts DEF Inv, ThreadsOK
<1>i. ServerOwnsURL /\ OnlyFaultsDrop /\ FaultsAreOfTheGui
  BY DEF Inv
<1>m. Misuse => LiveInv' /\ Stays
  BY DEF Misuse, LiveInv, ServerOwnsURL, OnlyFaultsDrop, FaultsAreOfTheGui, Idle,
         Dropping, Handling, Stays
<1>q. UNCHANGED <<guiURL, freed>> => Stays
  BY <1>0 DEF Stays
<1> USE <1>0 DEF shared, history
<1>1. ASSUME NEW g \in Gui, RequestRegister(g)
      PROVE  LiveInv' /\ Stays
  <2>1. CASE freed
    BY <1>1, <1>m, <2>1 DEF RequestRegister
  <2>2. CASE ~freed
    <3> DEFINE s == [pc |-> "set", url |-> g, why |-> "request"]
    <3>1. Moves(Server) /\ thread'[Server] = s
      BY <1>1, <2>2, OneMoves DEF RequestRegister
    <3>2. guiURL' = guiURL /\ freed' = (guiURL # NULL)
      BY <1>1, <2>2 DEF RequestRegister, FreeURL
    <3>3. thread'[Server].pc = "set" /\ thread'[Server].why = "request"
      BY <3>1
    <3>4. Lands(Server)
      BY <3>2, <3>3 DEF Lands, Handling, ServerOwnsURL
    <3>5. Stays
      BY <3>3 DEF Stays
    <3> QED  BY <1>1, <2>2, <3>1, <3>4, <3>5, LosingURL DEF RequestRegister, FreeURL
  <2> QED  BY <2>1, <2>2
<1>2. ASSUME NEW g \in Gui, RequestUnregister(g)
      PROVE  LiveInv' /\ Stays
  <2> DEFINE s == [pc |-> "compare", url |-> g, why |-> "request"]
  <2>1. Moves(Server) /\ thread'[Server] = s
    BY <1>2, OneMoves DEF RequestUnregister
  <2>2. Lands(Server)
    BY <2>1 DEF Lands, Handling, ServerOwnsURL
  <2> QED  BY <1>2, <1>q, <2>1, <2>2, LosingURL DEF RequestUnregister
<1>3. ASSUME NEW g \in Gui, GuiDies(g)
      PROVE  LiveInv' /\ Stays
  <2>1. Moves(Server) /\ Lands(Server)
    BY <1>3, <1>i DEF GuiDies, Moves, Lands, Handling, ServerOwnsURL, OnlyFaultsDrop
  <2> QED  BY <1>3, <1>q, <2>1, LosingURL DEF GuiDies
<1>4. ASSUME NEW w \in Worker, Report(w)
      PROVE  LiveInv' /\ Stays
  <2>1. Moves(w) /\ Lands(w)
    <3>1. CASE Return(w, FALSE)
      BY <3>1, OneReturns DEF Lands, Handling, ServerOwnsURL, Dropping
    <3>2. CASE Goto(w, "call")
      BY <3>2, OneGoes DEF Lands, Handling, ServerOwnsURL, Dropping
    <3> QED  BY <1>4, <3>1, <3>2 DEF Report, TestURL
  <2> QED  BY <1>4, <1>q, <2>1, LosingURL DEF Report, TestURL
<1>5. CASE SetURL
  <2>1. Moves(Server) /\ thread'[Server] = [Idle EXCEPT !.pc = "test"]
    BY <1>5, OneMoves DEF SetURL
  <2>2. thread'[Server].pc = "test" /\ thread'[Server].why = "none"
    BY <2>1 DEF Idle
  <2>3. \A t \in Thread : Handling(t)' => Handling(t)
    BY <2>1, <2>2 DEF Moves, Handling
  <2>4. ServerOwnsURL' /\ OnlyFaultsDrop'
    BY <2>1, <2>2, <1>i DEF Moves, ServerOwnsURL, OnlyFaultsDrop
  <2>5. FaultsAreOfTheGui'
    BY <1>5, <2>3 DEF SetURL, FaultsAreOfTheGui
  <2>6. Stays
    BY <1>5, <1>i DEF SetURL, At, Stays, ServerOwnsURL
  <2> QED  BY <2>4, <2>5, <2>6 DEF LiveInv
<1>6. CASE RegisterFails
  <2>1. CASE freed
    BY <1>6, <1>m, <2>1 DEF RegisterFails
  <2>2. CASE ~freed
    <3>1. Moves(Server) /\ Lands(Server)
      BY <1>6, <2>2, OneMoves DEF RegisterFails, Lands, Handling, ServerOwnsURL, Idle
    <3>2. Stays
      BY <1>6 DEF RegisterFails, At, Stays
    <3> QED  BY <1>6, <2>2, <3>1, <3>2, LosingURL DEF RegisterFails, ClearURL
  <2> QED  BY <2>1, <2>2
<1>7. CASE StartPoller
  <2>1. CASE thread' = [thread EXCEPT ![Server] = Idle]
    <3>1. Moves(Server) /\ Lands(Server)
      <4>1. Moves(Server) /\ thread'[Server] = Idle
        BY <2>1, OneMoves
      <4> QED  BY <4>1 DEF Lands, Handling, ServerOwnsURL, Idle
    <3> QED  BY <1>7, <1>q, <3>1, LosingURL DEF StartPoller
  <2>2. ASSUME NEW p \in Poller, thread[p] = Idle,
               thread' = [thread EXCEPT ![Server] = Idle, ![p].pc = "begin"]
        PROVE  LiveInv'
    <3>1. /\ thread'[Server] = Idle /\ thread'[p].pc = "begin" /\ thread'[p].why = "none"
          /\ \A t \in Thread \ {Server, p} : thread'[t] = thread[t]
      BY <2>2, SMTT(30) DEF ThreadsOK, Idle
    <3>2. UNCHANGED <<guiURL, freed, faultOccurred, failed, crossed>>
      BY <1>7 DEF StartPoller
    <3>3. ServerOwnsURL' /\ OnlyFaultsDrop'
      BY <3>1, <1>i DEF ServerOwnsURL, OnlyFaultsDrop, Idle, Dropping
    <3>4. FaultsAreOfTheGui'
      BY <3>1, <3>2, <1>i DEF FaultsAreOfTheGui, Handling, Idle
    <3> QED  BY <3>3, <3>4 DEF LiveInv
  <2> QED  BY <1>7, <1>q, <2>1, <2>2 DEF StartPoller
<1>8. ASSUME NEW t \in Thread, RegisterCore(t)
      PROVE  LiveInv' /\ Stays
  <2>1. Moves(t) /\ Lands(t)
    <3>1. CASE Return(t, FALSE)
      BY <3>1, OneReturns DEF Lands, Handling, ServerOwnsURL, Dropping
    <3>2. CASE Goto(t, "call")
      BY <3>2, OneGoes DEF Lands, Handling, ServerOwnsURL, Dropping
    <3> QED  BY <1>8, <3>1, <3>2 DEF RegisterCore, TestURL
  <2> QED  BY <1>8, <1>q, <2>1, LosingURL DEF RegisterCore, TestURL
<1>9. ASSUME NEW t \in Thread, CallBegin(t)
      PROVE  LiveInv' /\ Stays
  <2>1. CASE guiURL = NULL \/ freed
    BY <1>9, <1>m, <2>1 DEF CallBegin
  <2>2. CASE ~(guiURL = NULL \/ freed)
    <3>1. thread' = [thread EXCEPT ![t] = [thread[t] EXCEPT !.pc = "calling", !.url = guiURL]]
      BY <1>9, <2>2 DEF CallBegin
    <3>2. Moves(t) /\ thread'[t].pc = "calling" /\ thread'[t].why = thread[t].why
      BY <3>1, OneGoesWith
    <3>3. Lands(t)
      BY <3>2 DEF Lands, Handling, ServerOwnsURL, Dropping
    <3> QED  BY <1>9, <1>q, <2>2, <3>2, <3>3, LosingURL DEF CallBegin
  <2> QED  BY <2>1, <2>2
<1>10. ASSUME NEW t \in Thread, CallEnd(t)
      PROVE  LiveInv' /\ Stays
  <2>1. CASE RaiseFault(t, "failed")
    BY <1>q, <2>1, OneRaises
  <2>2. CASE Goto(t, "answered") /\ UNCHANGED <<shared, alive, misused, history>>
    <3>1. Moves(t) /\ Lands(t)
      BY <2>2, OneGoes DEF Lands, Handling, ServerOwnsURL, Dropping
    <3> QED  BY <1>q, <2>2, <3>1, LosingURL
  <2> QED  BY <1>10, <2>1, <2>2 DEF CallEnd
<1>11. ASSUME NEW t \in Thread, ReadAnswer(t)
      PROVE  LiveInv' /\ Stays
  <2>1. CASE RaiseFault(t, "read")
    BY <1>q, <2>1, OneRaises
  <2>2. CASE Goto(t, "read") /\ UNCHANGED <<shared, alive, misused, history>>
    <3>1. Moves(t) /\ Lands(t)
      BY <2>2, OneGoes DEF Lands, Handling, ServerOwnsURL, Dropping
    <3> QED  BY <1>q, <2>2, <3>1, LosingURL
  <2> QED  BY <1>11, <2>1, <2>2 DEF ReadAnswer
<1>12. ASSUME NEW t \in Thread, UseAnswer(t) \/ ReadNothing(t)
      PROVE  LiveInv' /\ Stays
  <2>1. CASE UseAnswer(t)
    <3>1. Moves(t) /\ Lands(t)
      BY <2>1, OneReturns DEF UseAnswer
    <3> QED  BY <2>1, <1>q, <3>1, LosingURL DEF UseAnswer
  <2> QED  BY <1>12, <1>m, <2>1 DEF ReadNothing
<1>21. ASSUME NEW t \in Thread, SeeFault(t)
      PROVE  LiveInv' /\ Stays
  <2>1. /\ Moves(t) /\ thread'[t].pc = "log" /\ thread'[t].why = thread[t].why
        /\ UNCHANGED <<guiURL, freed, failed, crossed>> /\ faultOccurred
    BY <1>21, OneGoesWith DEF SeeFault
  <2>2. ServerOwnsURL' /\ OnlyFaultsDrop'
    BY <1>i, <2>1 DEF ServerOwnsURL, OnlyFaultsDrop, Moves, Dropping
  <2>3. FaultsAreOfTheGui'
    BY <1>i, <2>1 DEF FaultsAreOfTheGui
  <2> QED  BY <1>q, <2>1, <2>2, <2>3 DEF LiveInv
<1>22. ASSUME NEW t \in Thread, LogFault(t)
      PROVE  LiveInv' /\ Stays
  <2>1. CASE freed
    BY <1>22, <1>m, <2>1 DEF LogFault
  <2>2. CASE ~freed
    <3>1. Moves(t) /\ Lands(t)
      BY <1>22, <2>2, OneGoes DEF LogFault, At, Lands, Handling, ServerOwnsURL, Dropping
    <3> QED  BY <1>22, <1>q, <2>2, <3>1, LosingURL DEF LogFault
  <2> QED  BY <2>1, <2>2
<1>23. ASSUME NEW t \in Thread, CleanFault(t)
      PROVE  LiveInv' /\ Stays
  <2>1. /\ Moves(t) /\ thread'[t].pc = "look" /\ thread'[t].why = thread[t].why
        /\ UNCHANGED <<guiURL, freed, failed, crossed>> /\ Handling(t)
    BY <1>23, OneGoes DEF CleanFault, At, Handling
  <2>2. ServerOwnsURL' /\ OnlyFaultsDrop'
    BY <1>i, <2>1 DEF ServerOwnsURL, OnlyFaultsDrop, Moves, Dropping
  <2>3. FaultsAreOfTheGui'
    BY <1>i, <2>1 DEF FaultsAreOfTheGui
  <2> QED  BY <1>q, <2>1, <2>2, <2>3 DEF LiveInv
<1>24. ASSUME NEW t \in Thread, LookForURL(t)
      PROVE  LiveInv' /\ Stays
  <2>1. Moves(t) /\ Lands(t)
    <3>1. CASE Return(t, FALSE)
      BY <3>1, OneReturns
    <3>2. CASE Goto(t, "copy")
      BY <1>24, <3>2, OneGoes DEF LookForURL, At, Lands, Handling, ServerOwnsURL, Dropping
    <3> QED  BY <1>24, <3>1, <3>2 DEF LookForURL
  <2> QED  BY <1>24, <1>q, <2>1, LosingURL DEF LookForURL
<1>25. ASSUME NEW t \in Thread, CopyURL(t)
      PROVE  LiveInv' /\ Stays
  <2>1. CASE guiURL = NULL \/ freed
    BY <1>25, <1>m, <2>1 DEF CopyURL
  <2>2. CASE ~(guiURL = NULL \/ freed)
    <3> DEFINE s == [pc |-> "stop", url |-> guiURL, why |-> "fault"]
    <3>1. Moves(t) /\ thread'[t] = s
      BY <1>25, <2>2, OneMoves DEF CopyURL
    <3>2. Lands(t)
      BY <1>25, <3>1 DEF CopyURL, At, Lands, Handling, ServerOwnsURL
    <3> QED  BY <1>25, <1>q, <2>2, <3>1, <3>2, LosingURL DEF CopyURL
  <2> QED  BY <2>1, <2>2
<1>13. ASSUME NEW t \in Thread, StopPolling(t)
      PROVE  LiveInv' /\ Stays
  <2>1. Moves(t) /\ Lands(t)
    BY <1>13, <1>i, OneGoes DEF StopPolling, At, Lands, Handling, ServerOwnsURL, OnlyFaultsDrop, Dropping
  <2> QED  BY <1>13, <1>q, <2>1, LosingURL DEF StopPolling
<1>14. ASSUME NEW t \in Thread, Compare(t)
      PROVE  LiveInv' /\ Stays
  <2>1. CASE freed
    BY <1>14, <1>m, <2>1 DEF Compare
  <2>2. CASE ~freed /\ guiURL # thread[t].url
    <3>1. Moves(t) /\ Lands(t)
      BY <1>14, <2>2, OneUnregistered DEF Compare
    <3> QED  BY <1>14, <1>q, <2>2, <3>1, LosingURL, OneUnregistered DEF Compare
  <2>3. CASE ~freed /\ guiURL = thread[t].url
    <3>1. Moves(t) /\ Lands(t)
      BY <1>14, <2>3, <1>i, OneGoes
         DEF Compare, At, Lands, Handling, ServerOwnsURL, OnlyFaultsDrop, Dropping
    <3> QED  BY <1>14, <1>q, <2>3, <3>1, LosingURL DEF Compare
  <2> QED  BY <2>1, <2>2, <2>3
<1>15. ASSUME NEW t \in Thread, FreeCompared(t)
      PROVE  LiveInv' /\ Stays
  <2>1. CASE freed
    BY <1>15, <1>m, <2>1 DEF FreeCompared
  <2>2. CASE ~freed
    <3>1. PICK s : /\ thread' = [thread EXCEPT ![t] = s]
                   /\ s = [thread[t] EXCEPT !.pc = "clear", !.url = NULL]
      BY <1>15, <2>2 DEF FreeCompared
    <3>a. s.pc = "clear" /\ s.why = thread[t].why
      BY <3>1 DEF State
    <3>2. Moves(t) /\ thread'[t] = s /\ s.pc = "clear" /\ s.why = thread[t].why
      BY <3>1, <3>a, OneMoves
    <3>3. Lands(t)
      BY <1>15, <1>i, <2>2, <3>2
         DEF FreeCompared, At, FreeURL, Lands, Handling, ServerOwnsURL, OnlyFaultsDrop, Dropping
    <3>4. Stays
      <4>1. CASE t = Server
        BY <1>15, <1>i, <2>2, <4>1 DEF FreeCompared, At, FreeURL, Stays, ServerOwnsURL
      <4>2. CASE t # Server
        <5>1. thread[t].why = "fault"
          BY <1>15, <1>i, <4>2 DEF FreeCompared, At, OnlyFaultsDrop, Dropping
        <5> QED  BY <1>15, <1>i, <2>2, <5>1 DEF FreeCompared, Stays, FaultsAreOfTheGui, Handling
      <4> QED  BY <4>1, <4>2
    <3> QED  BY <1>15, <2>2, <3>2, <3>3, <3>4, LosingURL DEF FreeCompared, FreeURL
  <2> QED  BY <2>1, <2>2
<1>16. ASSUME NEW t \in Thread, Clear(t)
      PROVE  LiveInv' /\ Stays
  <2>1. Moves(t) /\ Lands(t) /\ UNCHANGED <<failed, crossed>>
    BY <1>16, OneUnregistered DEF Clear
  <2>2. guiURL' = NULL /\ UNCHANGED faultOccurred
    BY <1>16 DEF Clear, ClearURL
  <2>3. LiveInv'
    BY <2>1, <2>2, LosingURL
  <2>4. Stays
    <3>1. CASE t = Server
      BY <1>16, <1>i, <3>1 DEF Clear, At, Stays, ServerOwnsURL
    <3>2. CASE t # Server
      <4>1. thread[t].why = "fault"
        BY <1>16, <1>i, <3>2 DEF Clear, At, OnlyFaultsDrop, Dropping
      <4> QED  BY <1>i, <2>1, <4>1 DEF Stays, FaultsAreOfTheGui, Handling
    <3> QED  BY <3>1, <3>2
  <2> QED  BY <2>3, <2>4
<1>17. ASSUME NEW t \in Thread, Drop(t)
      PROVE  LiveInv' /\ Stays
  <2>1. CASE freed
    BY <1>17, <1>m, <2>1 DEF Drop
  <2>2. CASE ~freed
    <3>1. thread[t].why = "fault"
      BY <1>17, <1>i DEF Drop, At, OnlyFaultsDrop, Dropping
    <3>2. guiURL' = NULL /\ UNCHANGED <<faultOccurred, failed, crossed>>
      BY <1>17, <2>2 DEF Drop, ClearURL
    <3>3. Moves(t) /\ Lands(t)
      BY <1>17, <2>2, OneReturns DEF Drop, Lands, Handling, ServerOwnsURL, Dropping
    <3>4. Stays
      BY <1>i, <3>1, <3>2 DEF Stays, FaultsAreOfTheGui, Handling
    <3> QED  BY <3>2, <3>3, <3>4, LosingURL
  <2> QED  BY <2>1, <2>2
<1>18. ASSUME NEW p \in Poller, BeginPolling(p)
      PROVE  LiveInv' /\ Stays
  <2>1. Moves(p) /\ Lands(p)
    BY <1>18, OneGoes DEF BeginPolling, Lands, Handling, ServerOwnsURL, Dropping
  <2> QED  BY <1>18, <1>q, <2>1, LosingURL DEF BeginPolling
<1>19. ASSUME NEW p \in Poller, LookPoller(p)
      PROVE  LiveInv' /\ Stays
  <2>1. Moves(p) /\ Lands(p)
    <3>1. CASE shutdownPolling
      BY <1>19, <3>1, OneMoves DEF LookPoller, Lands, Handling, ServerOwnsURL, Dropping, Idle
    <3>2. CASE ~shutdownPolling
      BY <1>19, <3>2, OneGoes DEF LookPoller, Lands, Handling, ServerOwnsURL, Dropping
    <3> QED  BY <3>1, <3>2
  <2> QED  BY <1>19, <1>q, <2>1, LosingURL DEF LookPoller
<1>20. CASE UNCHANGED vars
  <2>1. Moves(Server) /\ Lands(Server)
    BY <1>20, <1>i DEF vars, Moves, Lands, Handling, ServerOwnsURL, OnlyFaultsDrop
  <2> QED  BY <1>20, <1>q, <2>1, LosingURL DEF vars
<1> QED
  BY <1>1, <1>2, <1>3, <1>4, <1>5, <1>6, <1>7, <1>8, <1>9, <1>10,
     <1>11, <1>12, <1>13, <1>14, <1>15, <1>16, <1>17, <1>18, <1>19, <1>20,
     <1>21, <1>22, <1>23, <1>24, <1>25
     DEF Next, ServerStep, CallbackStep, UnregisterStep, PollerStep

LEMMA InvHolds == Spec => []Inv
<1>1. Init => LiveInv
  BY DEF Init, LiveInv, ServerOwnsURL, OnlyFaultsDrop, FaultsAreOfTheGui, Idle, Dropping,
         Handling
<1>2. Inv <=> TypeOK /\ LiveInv
  BY DEF Inv, LiveInv
<1> QED  BY <1>1, <1>2, TypeInit, TypeStep, LiveStep, PTL DEF Spec

\* A GUI that answered each call since it registered is dropped only when it
\* asks for that, refuses the core, or another one registers; or for a fault of
\* an earlier GUI, raised or still handled after the registration.
THEOREM LiveGuiIsKept == Spec => LiveGuiStays
<1>1. Inv /\ [Next]_vars => [Stays]_vars
  BY LiveStep
<1> QED  BY <1>1, InvHolds, PTL DEF Spec, LiveGuiStays, Stays
=============================================================================
