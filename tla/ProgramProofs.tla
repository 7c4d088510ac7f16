----------------------------- MODULE ProgramProofs -----------------------------
(***************************************************************************)
(* Proofs about ThreadManagement and Program, for every set of threads,    *)
(* every size of the table, any number of calls and any number of          *)
(* failures.  The thread management comes first, on its own: its inductive *)
(* invariant says three things that the code relies on without saying so:  *)
(* the count is never below the number of threads that work (Counted),     *)
(* every working thread is at one place of the table (Tabled), and what    *)
(* main is doing agrees with what it has seen (MainAgrees, Waited, Late).  *)
(* The same holds of it inside the program, whose end takes it back to its *)
(* initial state.  The order in which main brings the parts up and takes   *)
(* them down then makes NeededIsUp true.                                   *)
(***************************************************************************)
EXTENDS Program, FiniteSetTheorems, TLAPS

Working == {t \in Threads : thread[t] = "running"}

\* A failed pthread_create is counted as well, so that this is no equality.
Counted == Cardinality(Working) <= activeThreads

Tabled ==
  /\ \A t \in Threads : thread[t] = "running" => \E i \in Pos : threads[i] = t
  /\ \A i \in Pos : threads[i] \in Threads => thread[threads[i]] \in {"running", "lost"}
  /\ \A i, j \in Pos : threads[i] \in Threads /\ threads[i] = threads[j] => i = j

MainAgrees ==
  /\ managing = "down" => main.op = "none" /\ main.rc = -1
  /\ main.op = "none" => main.at = "idle"
  /\ main.op = "join" => main.rc = -1 /\ main.at \in {"read"} \cup Threads
  /\ main.op = "destroy" => main.rc = -1
  /\ main.at \in Threads => main.i \in Pos
  /\ main.op = "destroy" \/ managing = "destroyed" => shuttingDown

\* What tm_join_active_threads has seen: no awaited thread is in an entry that
\* join_threads has passed, and none that is awaited comes back.
Waited ==
  /\ main.op = "join" =>
       /\ \A t \in awaited : thread[t] # "none"
       /\ \A i \in Pos : i < main.i => threads[i] \notin awaited
       /\ main.at \in Threads /\ main.i \in Pos =>
            threads[main.i] = main.at \/ threads[main.i] \notin awaited
  /\ main.op = "none" /\ main.rc = 1 /\ managing = "up" =>
       \A t \in awaited : thread[t] \notin {"none", "running"}

\* Helpers that tm_destroy overtakes are the only ones that still add.
Late ==
  /\ shuttingDown =>
       \A t \in Threads : helper[t] \in {"passed", "adding"} => t \in overtaken
  /\ main.at = "release" \/ managing = "destroyed" => Working \subseteq overtaken

Inv == TypeOK /\ Counted /\ Tabled /\ MainAgrees /\ Waited /\ Late

-----------------------------------------------------------------------------
LEMMA InitInv ==
  ASSUME ThreadAssumption
  PROVE  Init => Inv
<1> SUFFICES ASSUME Init PROVE Inv
  OBVIOUS
<1> USE DEF Init, ThreadAssumption, Pos, Idle
<1>1. TypeOK
  <2>1. main \in [op : {"none", "join", "destroy"},
                 at : {"idle", "read", "count", "spin", "release"} \cup Threads,
                 i : 0 .. MaxAmount, rc : {-1, 0, 1}]
    OBVIOUS
  <2>2. /\ threads \in [0 .. MaxAmount - 1 -> Threads \cup {NoThread, Dead}]
        /\ activeThreads \in Nat /\ failed \in 0 .. MaxFailures
    OBVIOUS
  <2> QED  BY <2>1, <2>2 DEF TypeOK
<1>2. Working = {}
  BY DEF Working
<1>3. Counted
  BY <1>2, FS_EmptySet DEF Counted
<1>4. Tabled /\ MainAgrees /\ Waited /\ Late
  BY <1>2 DEF Tabled, MainAgrees, Waited, Late
<1> QED  BY <1>1, <1>3, <1>4 DEF Inv

\* The working threads are finite in number.
LEMMA WorkingIsFinite ==
  ASSUME ThreadAssumption
  PROVE  IsFiniteSet(Working) /\ Cardinality(Working) \in Nat
<1>1. IsFiniteSet(Threads) /\ Working \subseteq Threads
  BY DEF ThreadAssumption, Working
<1> QED  BY <1>1, FS_Subset, FS_CardinalityType

\* Every step keeps the types; the count stays a natural number because no
\* thread takes itself off the list that was not counted.
LEMMA TypeStep ==
  ASSUME ThreadAssumption, Inv, [Next]_tmVars
  PROVE  TypeOK'
<1> USE DEF ThreadAssumption, Inv, TypeOK, Pos, Idle, At, MainGoes, Helper, Thread
<1>1. CASE tm_init
  BY <1>1 DEF tm_init, history
<1>2. ASSUME NEW t \in Threads, start_thread(t)
      PROVE  TypeOK'
  BY <1>2 DEF start_thread, history
<1>3. ASSUME NEW t \in Threads, ThreadStep(t)
      PROVE  TypeOK'
  <2>1. CASE TestShutdown(t)
    BY <2>1 DEF TestShutdown, history
  <2>2. CASE LockToAdd(t)
    BY <2>2 DEF LockToAdd, history
  <2>3. CASE AddTooLate(t)
    BY <2>3 DEF AddTooLate, history
  <2>4. CASE NoFreePos(t)
    BY <2>4 DEF NoFreePos, history
  <2>5. CASE AddThread(t)
    <3>1. PICK i \in Pos, id \in {t, NoThread, Dead} : threads' = [threads EXCEPT ![i] = id]
      BY <2>5 DEF AddThread
    <3>2. threads' \in [Pos -> Threads \cup {NoThread, Dead}]
      BY <3>1
    <3>3. thread' \in [Threads -> {"none", "running", "gone", "lost"}] /\ failed' \in 0 .. MaxFailures
      BY <2>5 DEF AddThread
    <3>4. /\ helper' \in [Threads -> {"none", "new", "passed", "adding", "gone", "lost"}]
          /\ activeThreads' \in Nat /\ thrManLock' = NoThread
      BY <2>5 DEF AddThread
    <3>5. UNCHANGED <<managing, shuttingDown, main, awaited, overtaken>>
      BY <2>5 DEF AddThread
    <3> QED  BY <3>2, <3>3, <3>4, <3>5
  <2> QED  BY <1>3, <2>1, <2>2, <2>3, <2>4, <2>5 DEF ThreadStep
<1>4. ASSUME NEW t \in Threads, Terminate(t)
      PROVE  TypeOK'
  <2>1. CASE thread_terminated(t)
    <3>1. t \in Working
      BY <2>1 DEF thread_terminated, Working
    <3>2. Cardinality(Working) # 0
      BY <3>1, WorkingIsFinite, FS_EmptySet
    <3>3. activeThreads - 1 \in Nat
      BY <3>2, WorkingIsFinite DEF Counted
    <3> QED  BY <2>1, <3>3 DEF thread_terminated, history
  <2>2. CASE RemoveTooLate(t)
    BY <2>2 DEF RemoveTooLate, history
  <2> QED  BY <1>4, <2>1, <2>2 DEF Terminate
<1>5. CASE tm_join_active_threads
  BY <1>5 DEF tm_join_active_threads, Listed
<1>6. CASE tm_destroy
  BY <1>6 DEF tm_destroy
<1>7. CASE MainStep
  <2>1. CASE ReadEntry
    BY <2>1 DEF ReadEntry
  <2>2. CASE pthread_join
    <3>1. main.i + 1 \in 0 .. MaxAmount
      BY <2>2 DEF pthread_join, MainAgrees
    <3>2. main' = [op |-> main.op, at |-> "read", i |-> main.i + 1, rc |-> main.rc]
      BY <2>2 DEF pthread_join
    <3>3. UNCHANGED <<managing, threads, activeThreads, shuttingDown, thrManLock, helper, thread, history>>
      BY <2>2 DEF pthread_join, history
    <3> QED  BY <3>1, <3>2, <3>3 DEF history
  <2>3. CASE JoinFails \/ Joined
    BY <2>3 DEF JoinFails, Joined
  <2>4. CASE CountThreads \/ NoneActive \/ Release
    BY <2>4 DEF CountThreads, NoneActive, Release
  <2> QED  BY <1>7, <2>1, <2>2, <2>3, <2>4 DEF MainStep
<1>8. CASE UNCHANGED tmVars
  BY <1>8 DEF tmVars, history
<1> QED  BY <1>1, <1>2, <1>3, <1>4, <1>5, <1>6, <1>7, <1>8 DEF Next

-----------------------------------------------------------------------------
\* The table, the count and the threads change only when a thread is added or
\* ends.
LEMMA ThreadChanges ==
  ASSUME [Next]_tmVars
  PROVE  \/ UNCHANGED <<threads, activeThreads, thread>>
         \/ \E t \in Threads : AddThread(t) \/ thread_terminated(t) \/ RemoveTooLate(t)
<1>1. CASE tm_init \/ tm_join_active_threads \/ tm_destroy
  BY <1>1 DEF tm_init, tm_join_active_threads, tm_destroy, MainGoes
<1>2. CASE \E t \in Threads : start_thread(t) \/ ThreadStep(t) \/ Terminate(t)
  BY <1>2 DEF start_thread, ThreadStep, Terminate, TestShutdown, LockToAdd, AddTooLate,
              NoFreePos
<1>3. CASE MainStep
  BY <1>3 DEF MainStep, ReadEntry, pthread_join, JoinFails, Joined, CountThreads,
              NoneActive, Release, MainGoes
<1>4. CASE UNCHANGED tmVars
  BY <1>4 DEF tmVars
<1> QED  BY <1>1, <1>2, <1>3, <1>4 DEF Next

LEMMA CountedStep ==
  ASSUME ThreadAssumption, Inv, [Next]_tmVars
  PROVE  Counted'
<1> USE DEF Inv, TypeOK, Thread
<1>1. CASE UNCHANGED <<threads, activeThreads, thread>>
  BY <1>1 DEF Counted, Working
<1>2. ASSUME NEW t \in Threads, AddThread(t)
      PROVE  Counted'
  <2>1. activeThreads' = activeThreads + 1
    BY <1>2 DEF AddThread
  <2>2. CASE UNCHANGED thread
    BY <2>1, <2>2, WorkingIsFinite DEF Counted, Working
  <2>3. CASE Thread(t, "none", "running")
    <3>1. Working' = Working \cup {t}
      BY <2>3 DEF Working
    <3>2. Cardinality(Working') = IF t \in Working THEN Cardinality(Working)
                                                   ELSE Cardinality(Working) + 1
      BY <3>1, WorkingIsFinite, FS_AddElement
    <3> QED  BY <2>1, <3>2, WorkingIsFinite DEF Counted
  <2> QED  BY <1>2, <2>2, <2>3 DEF AddThread
<1>3. ASSUME NEW t \in Threads, thread_terminated(t)
      PROVE  Counted'
  <2>1. t \in Working /\ Working' = Working \ {t}
    BY <1>3 DEF thread_terminated, Working
  <2>2. Cardinality(Working') = Cardinality(Working) - 1
    BY <2>1, WorkingIsFinite, FS_RemoveElement
  <2> QED  BY <1>3, <2>2, WorkingIsFinite DEF Counted, thread_terminated
<1>4. ASSUME NEW t \in Threads, RemoveTooLate(t)
      PROVE  Counted'
  <2>1. t \in Working /\ Working' = Working \ {t}
    BY <1>4 DEF RemoveTooLate, Working
  <2>2. Cardinality(Working') = Cardinality(Working) - 1
    BY <2>1, WorkingIsFinite, FS_RemoveElement
  <2> QED  BY <1>4, <2>2, WorkingIsFinite DEF Counted, RemoveTooLate
<1> QED  BY <1>1, <1>2, <1>3, <1>4, ThreadChanges

LEMMA TabledStep ==
  ASSUME ThreadAssumption, Inv, [Next]_tmVars
  PROVE  Tabled'
<1> USE DEF Inv, TypeOK, Thread
<1>1. CASE UNCHANGED <<threads, activeThreads, thread>>
  BY <1>1 DEF Tabled
<1>2. ASSUME NEW t \in Threads, AddThread(t)
      PROVE  Tabled'
  <2>1. PICK m \in Pos :
          /\ threads[m] = NoThread
          /\ \/ Thread(t, "none", "running") /\ threads' = [threads EXCEPT ![m] = t]
             \/ UNCHANGED thread /\ \E id \in {NoThread, Dead} : threads' = [threads EXCEPT ![m] = id]
    BY <1>2 DEF AddThread, IsFreePos
  <2>2. CASE Thread(t, "none", "running") /\ threads' = [threads EXCEPT ![m] = t]
    BY <2>1, <2>2 DEF Tabled, ThreadAssumption
  <2>3. CASE UNCHANGED thread /\ \E id \in {NoThread, Dead} : threads' = [threads EXCEPT ![m] = id]
    BY <2>1, <2>3 DEF Tabled, ThreadAssumption
  <2> QED  BY <2>1, <2>2, <2>3
<1>3. ASSUME NEW t \in Threads, thread_terminated(t)
      PROVE  Tabled'
  <2>1. PosOf(t) \in Pos /\ threads[PosOf(t)] = t
    BY <1>3 DEF thread_terminated, Tabled, PosOf
  <2>2. threads' = [threads EXCEPT ![PosOf(t)] = NoThread] /\ Thread(t, "running", "gone")
    BY <1>3 DEF thread_terminated
  <2> HIDE DEF Inv
  <2>3. Tabled /\ NoThread \notin Threads
    BY DEF Inv, ThreadAssumption
  <2>4. \A i \in Pos : threads'[i] = IF i = PosOf(t) THEN NoThread ELSE threads[i]
    BY <2>2 DEF Inv
  <2>5. \A u \in Threads : thread'[u] = IF u = t THEN "gone" ELSE thread[u]
    BY <2>2 DEF Inv
  <2> QED  BY <2>1, <2>3, <2>4, <2>5 DEF Tabled
<1>4. ASSUME NEW t \in Threads, RemoveTooLate(t)
      PROVE  Tabled'
  BY <1>4 DEF RemoveTooLate, Tabled
<1> QED  BY <1>1, <1>2, <1>3, <1>4, ThreadChanges

\* A thread that has begun never is at its beginning again, and one that has
\* ended never works again.
LEMMA ThreadsGoOn ==
  ASSUME Inv, [Next]_tmVars, NEW t \in Threads
  PROVE  /\ thread[t] # "none" => thread'[t] # "none"
         /\ thread[t] \notin {"none", "running"} => thread'[t] \notin {"none", "running"}
<1> USE DEF Inv, TypeOK, Thread
<1>1. ASSUME NEW u \in Threads, AddThread(u) \/ thread_terminated(u) \/ RemoveTooLate(u)
      PROVE  UNCHANGED thread \/ Thread(u, "none", "running")
             \/ Thread(u, "running", "gone") \/ Thread(u, "running", "lost")
  BY <1>1 DEF AddThread, thread_terminated, RemoveTooLate
<1> QED  BY <1>1, ThreadChanges

\* No entry gets a thread that has begun before.
LEMMA EntriesStay ==
  ASSUME ThreadAssumption, Inv, [Next]_tmVars, NEW i \in Pos
  PROVE  threads'[i] \in Threads => threads'[i] = threads[i] \/ thread[threads'[i]] = "none"
<1> USE DEF Inv, TypeOK, Thread
<1>1. ASSUME NEW t \in Threads, AddThread(t)
      PROVE  threads'[i] \in Threads => threads'[i] = threads[i] \/ thread[threads'[i]] = "none"
  BY <1>1 DEF AddThread, ThreadAssumption
<1>2. ASSUME NEW t \in Threads, thread_terminated(t) \/ RemoveTooLate(t)
      PROVE  threads'[i] \in Threads => threads'[i] = threads[i]
  BY <1>2 DEF thread_terminated, RemoveTooLate, ThreadAssumption
<1> QED  BY <1>1, <1>2, ThreadChanges

LEMMA MainStepAgrees ==
  ASSUME ThreadAssumption, Inv, [Next]_tmVars
  PROVE  MainAgrees'
<1> USE DEF Inv, TypeOK, MainAgrees, MainGoes, Idle, At, ThreadAssumption, Pos
<1>1. CASE tm_init
  BY <1>1 DEF tm_init
<1>2. CASE \E t \in Threads : start_thread(t) \/ ThreadStep(t) \/ Terminate(t)
  <2>1. UNCHANGED <<main, managing, shuttingDown>>
    BY <1>2 DEF start_thread, ThreadStep, Terminate, TestShutdown, LockToAdd, AddTooLate,
                NoFreePos, AddThread, thread_terminated, RemoveTooLate
  <2> QED  BY <2>1
<1>3. CASE tm_join_active_threads
  BY <1>3 DEF tm_join_active_threads
<1>4. CASE tm_destroy
  BY <1>4 DEF tm_destroy
<1>5. CASE ReadEntry
  BY <1>5 DEF ReadEntry
<1>6. CASE pthread_join
  BY <1>6 DEF pthread_join
<1>7. CASE JoinFails \/ Joined
  BY <1>7 DEF JoinFails, Joined
<1>8. CASE CountThreads \/ NoneActive
  BY <1>8 DEF CountThreads, NoneActive
<1>9. CASE Release
  BY <1>9 DEF Release
<1>10. CASE UNCHANGED tmVars
  BY <1>10 DEF tmVars
<1> QED  BY <1>1, <1>2, <1>3, <1>4, <1>5, <1>6, <1>7, <1>8, <1>9, <1>10 DEF Next, MainStep

\* No thread works when none is counted.
LEMMA NoneCounted ==
  ASSUME ThreadAssumption, Inv, activeThreads <= 0
  PROVE  Working = {}
<1>1. Cardinality(Working) = 0
  BY WorkingIsFinite DEF Inv, TypeOK, Counted
<1> QED  BY <1>1, WorkingIsFinite, FS_EmptySet

LEMMA LateStep ==
  ASSUME ThreadAssumption, Inv, [Next]_tmVars
  PROVE  Late'
<1> USE DEF Inv, TypeOK, Helper, Idle, At, MainGoes
<1>1. CASE tm_init \/ tm_join_active_threads \/ ReadEntry \/ pthread_join \/ JoinFails \/ Joined
  <2>1. UNCHANGED <<thread, helper, shuttingDown, overtaken>>
    BY <1>1 DEF tm_init, tm_join_active_threads, ReadEntry, pthread_join, JoinFails,
                Joined, history
  <2>2. main'.at = "release" => main.at = "release"
    <3>1. CASE tm_init \/ tm_join_active_threads \/ JoinFails \/ Joined
      BY <3>1 DEF tm_init, tm_join_active_threads, JoinFails, Joined
    <3>2. CASE ReadEntry
      BY <3>2 DEF ReadEntry, ThreadAssumption
    <3>3. CASE pthread_join
      BY <3>3 DEF pthread_join
    <3> QED  BY <1>1, <3>1, <3>2, <3>3
  <2>3. managing' = "destroyed" => managing = "destroyed"
    BY <1>1 DEF tm_init, tm_join_active_threads, ReadEntry, pthread_join, JoinFails, Joined
  <2> QED  BY <2>1, <2>2, <2>3 DEF Late, Working
<1>2. ASSUME NEW t \in Threads, start_thread(t)
      PROVE  Late'
  BY <1>2 DEF start_thread, Late, Working, history
<1>3. ASSUME NEW t \in Threads, ThreadStep(t)
      PROVE  Late'
  <2>1. CASE TestShutdown(t)
    BY <2>1 DEF TestShutdown, Late, Working, history
  <2>2. CASE LockToAdd(t)
    BY <2>2 DEF LockToAdd, Late, Working, history
  <2>3. CASE AddTooLate(t)
    BY <2>3 DEF AddTooLate, Late, Working, history
  <2>4. CASE NoFreePos(t)
    BY <2>4 DEF NoFreePos, Late, Working, history
  <2>5. CASE AddThread(t)
    <3>1. shuttingDown => t \in overtaken
      BY <2>5 DEF AddThread, Late
    <3>2. Working' \subseteq Working \cup {t}
      BY <2>5 DEF AddThread, Working, Thread
    <3>3. UNCHANGED <<main, managing, shuttingDown, overtaken>> /\ Helper(t, "adding", "gone")
      BY <2>5 DEF AddThread
    <3>4. main.at = "release" \/ managing = "destroyed" => shuttingDown
      BY DEF MainAgrees, ThreadAssumption
    <3> QED  BY <3>1, <3>2, <3>3, <3>4 DEF Late
  <2> QED  BY <1>3, <2>1, <2>2, <2>3, <2>4, <2>5 DEF ThreadStep
<1>4. ASSUME NEW t \in Threads, Terminate(t)
      PROVE  Late'
  <2>1. Working' \subseteq Working
    BY <1>4 DEF Terminate, thread_terminated, RemoveTooLate, Working, Thread
  <2>2. UNCHANGED <<main, managing, shuttingDown, overtaken, helper>>
    BY <1>4 DEF Terminate, thread_terminated, RemoveTooLate, history
  <2> QED  BY <2>1, <2>2 DEF Late
<1>5. CASE tm_destroy
  BY <1>5 DEF tm_destroy, Late, Working
<1>6. CASE CountThreads \/ NoneActive
  <2>1. main'.at = "release" => Working = {}
    BY <1>6, NoneCounted DEF CountThreads, NoneActive
  <2>2. UNCHANGED <<thread, helper, managing, shuttingDown, overtaken>>
    BY <1>6 DEF CountThreads, NoneActive
  <2> QED  BY <2>1, <2>2 DEF Late, Working
<1>7. CASE Release
  BY <1>7 DEF Release, Late, Working
<1>8. CASE UNCHANGED tmVars
  BY <1>8 DEF tmVars, history, Late, Working
<1> QED  BY <1>1, <1>2, <1>3, <1>4, <1>5, <1>6, <1>7, <1>8 DEF Next, MainStep

LEMMA WaitedStep ==
  ASSUME ThreadAssumption, Inv, [Next]_tmVars
  PROVE  Waited'
<1> USE DEF Inv, TypeOK, Idle, At, MainGoes
<1>1. CASE UNCHANGED <<main, awaited>> /\ (managing' = "up" => managing = "up")
  <2>1. ASSUME main.op = "join"
        PROVE  /\ \A t \in awaited : thread'[t] # "none"
               /\ \A i \in Pos : i < main.i => threads'[i] \notin awaited
               /\ main.at \in Threads /\ main.i \in Pos =>
                    threads'[main.i] = main.at \/ threads'[main.i] \notin awaited
    <3>1. \A t \in awaited : thread[t] # "none"
      BY <2>1 DEF Waited
    <3>2. \A t \in awaited : thread'[t] # "none"
      BY <3>1, ThreadsGoOn
    <3>3. \A i \in Pos : threads'[i] \in awaited => threads'[i] = threads[i]
      BY <3>1, EntriesStay
    <3> QED  BY <2>1, <3>2, <3>3 DEF Waited
  <2>2. ASSUME main.op = "none", main.rc = 1, managing' = "up"
        PROVE  \A t \in awaited : thread'[t] \notin {"none", "running"}
    BY <1>1, <2>2, ThreadsGoOn DEF Waited
  <2> QED  BY <1>1, <2>1, <2>2 DEF Waited
<1>2. CASE tm_init
  BY <1>2 DEF tm_init, Waited, MainAgrees
<1>3. CASE \E t \in Threads : start_thread(t) \/ ThreadStep(t) \/ Terminate(t)
  <2>1. UNCHANGED <<main, awaited, managing>>
    BY <1>3 DEF start_thread, ThreadStep, Terminate, TestShutdown, LockToAdd, AddTooLate,
                NoFreePos, AddThread, thread_terminated, RemoveTooLate, history
  <2> QED  BY <1>1, <2>1
<1>4. CASE tm_join_active_threads
  <2>1. \A t \in Listed : thread[t] \in {"running", "lost"}
    BY DEF Listed, Tabled
  <2>2. awaited' = Listed /\ thread' = thread /\ threads' = threads
    BY <1>4 DEF tm_join_active_threads
  <2>3. CASE activeThreads > 0
    <3>1. main' = At("join", "read")
      BY <1>4, <2>3 DEF tm_join_active_threads
    <3> QED  BY <2>1, <2>2, <3>1, SMTT(30) DEF Waited, ThreadAssumption, Pos
  <2>4. CASE ~(activeThreads > 0)
    <3>1. Working = {}
      BY <2>4, NoneCounted
    <3>2. main' = Idle(1)
      BY <1>4, <2>4 DEF tm_join_active_threads
    <3> QED  BY <2>1, <2>2, <3>1, <3>2 DEF Waited, Working, Listed
  <2> QED  BY <2>3, <2>4
<1>5. CASE tm_destroy
  BY <1>5 DEF tm_destroy, Waited
<1>6. CASE ReadEntry
  <2>1. UNCHANGED <<managing, awaited, thread, threads>>
    BY <1>6 DEF ReadEntry
  <2>2. main.at = "read" /\ main.i \in Pos /\ main.op # "none" /\ main'.op = main.op
    BY <1>6 DEF ReadEntry, MainAgrees, Pos
  <2>3. CASE threads[main.i] = NoThread /\ main' = [main EXCEPT !.i = @ + 1]
    <3>1. threads[main.i] \notin awaited
      BY <2>3 DEF ThreadAssumption
    <3>2. main'.at = "read" /\ main'.i = main.i + 1
      BY <2>2, <2>3
    <3> QED  BY <2>1, <2>2, <3>1, <3>2 DEF Waited, ThreadAssumption, Pos
  <2>4. CASE threads[main.i] \in Threads /\ main' = [main EXCEPT !.at = threads[main.i]]
    BY <2>1, <2>2, <2>4 DEF Waited
  <2> QED  BY <1>6, <2>3, <2>4 DEF ReadEntry
<1>7. CASE pthread_join
  <2>1. UNCHANGED <<managing, awaited, thread, threads>>
    BY <1>7 DEF pthread_join, history
  <2>2. /\ main.at \in Threads /\ thread[main.at] = "gone" /\ main.i \in Pos
        /\ main.op # "none" /\ main'.op = main.op
    BY <1>7 DEF pthread_join, MainAgrees, ThreadAssumption
  <2>3. main'.at = "read" /\ main'.i = main.i + 1
    BY <1>7 DEF pthread_join
  <2>4. threads[main.i] # main.at
    BY <2>2 DEF Tabled
  <2> QED  BY <2>1, <2>2, <2>3, <2>4 DEF Waited, ThreadAssumption, Pos
<1>8. CASE JoinFails
  BY <1>8 DEF JoinFails, Waited
<1>9. CASE Joined
  <2>1. UNCHANGED <<managing, awaited, thread, threads>>
    BY <1>9 DEF Joined
  <2>2. CASE main.op = "join"
    <3>1. \A i \in Pos : threads[i] \notin awaited
      BY <1>9, <2>2 DEF Joined, Waited, Pos, ThreadAssumption
    <3>2. \A t \in awaited : thread[t] \notin {"none", "running"}
      BY <2>2, <3>1 DEF Waited, Tabled
    <3>3. main' = Idle(1)
      BY <1>9, <2>2 DEF Joined
    <3> QED  BY <2>1, <3>2, <3>3 DEF Waited
  <2>3. CASE main.op # "join"
    <3>1. main' = At("destroy", "spin")
      BY <1>9, <2>3 DEF Joined
    <3> QED  BY <3>1 DEF Waited
  <2> QED  BY <2>2, <2>3
<1>10. CASE CountThreads \/ NoneActive \/ Release
  BY <1>10 DEF CountThreads, NoneActive, Release, Waited
<1>11. CASE UNCHANGED tmVars
  BY <1>1, <1>11 DEF tmVars, history
<1> QED  BY <1>2, <1>3, <1>4, <1>5, <1>6, <1>7, <1>8, <1>9, <1>10, <1>11 DEF Next, MainStep

-----------------------------------------------------------------------------
\* The invariant is inductive ...
LEMMA InvStep ==
  ASSUME ThreadAssumption, Inv, [Next]_tmVars
  PROVE  Inv'
  BY TypeStep, CountedStep, TabledStep, MainStepAgrees, LateStep, WaitedStep DEF Inv

\* ... and holds.
LEMMA InvHolds == ASSUME ThreadAssumption PROVE Spec => []Inv
  BY InitInv, InvStep, PTL DEF Spec

\* The variables of the thread management keep their types; in particular the
\* count of active threads never falls below zero, although failures are
\* counted and helpers, threads and main change it in any order.
THEOREM TypeCorrect == ASSUME ThreadAssumption PROVE Spec => []TypeOK
<1>1. Inv => TypeOK
  BY DEF Inv
<1> QED  BY <1>1, InvHolds, PTL

\* Threads that work when the thread management is gone are those whose
\* helper was overtaken by tm_destroy between its test and its lock.
LEMMA LateInInv ==
  ASSUME Inv PROVE LateOnlyIfOvertaken
  BY DEF Inv, Late, Working, LateOnlyIfOvertaken

THEOREM LateAreOvertaken == ASSUME ThreadAssumption PROVE Spec => []LateOnlyIfOvertaken
<1>1. Inv => LateOnlyIfOvertaken
  BY LateInInv
<1> QED  BY <1>1, InvHolds, PTL

\* A step that ends the wait of main finds no awaited thread in the table.
LEMMA JoinStep ==
  ASSUME ThreadAssumption, Inv, [Next]_tmVars,
         main.at = "read", main.op = "join", main'.rc = 1
  PROVE  awaited \cap Listed = {}
<1> USE DEF Inv, TypeOK
<1>1. main.rc = -1
  BY DEF MainAgrees
<1>2. Joined
  <2>1. CASE tm_init \/ tm_join_active_threads \/ tm_destroy
    BY <1>1, <2>1 DEF tm_init, tm_join_active_threads, tm_destroy
  <2>2. CASE \E t \in Threads : start_thread(t) \/ ThreadStep(t) \/ Terminate(t)
    BY <1>1, <2>2 DEF start_thread, ThreadStep, Terminate, TestShutdown, LockToAdd,
         AddTooLate, NoFreePos, AddThread, thread_terminated, RemoveTooLate
  <2>3. CASE ReadEntry \/ pthread_join \/ JoinFails
    BY <1>1, <2>3 DEF ReadEntry, pthread_join, JoinFails, MainGoes, Idle
  <2>4. CASE CountThreads \/ NoneActive \/ Release
    BY <2>4 DEF CountThreads, NoneActive, Release, At
  <2>5. CASE UNCHANGED tmVars
    BY <1>1, <2>5 DEF tmVars
  <2> QED  BY <2>1, <2>2, <2>3, <2>4, <2>5 DEF Next, MainStep
<1> QED  BY <1>2 DEF Joined, Waited, Listed, Pos, ThreadAssumption

\* The wait of main is a barrier for the threads listed when it began.
THEOREM WaitIsABarrier == ASSUME ThreadAssumption PROVE Spec => JoinIsABarrier
<1>1. Inv /\ [Next]_tmVars =>
        [main.at = "read" /\ main.op = "join" /\ main'.rc = 1
           => awaited \cap Listed = {}]_tmVars
  BY JoinStep
<1> QED  BY <1>1, InvHolds, PTL DEF Spec, JoinIsABarrier
-----------------------------------------------------------------------------
(* The program                                                             *)

\* A thread that has begun has had a helper.
Helped == \A t \in Threads : thread[t] # "none" => helper[t] # "none"

\* While the parts come up: which are up, and who is not started yet.
ComingUp ==
  phase = "init" =>
    /\ k \in 1 .. 7
    /\ \A j \in 1 .. 7 : j < k => InitOrder[j] \in up
    /\ k > 2 => managing = "up"
    /\ k <= 6 => helper[Worker] = "none"
    /\ helper[Server] = "none"
    /\ managing # "destroyed" /\ main.op = "none" /\ main.rc = -1

Joining ==
  phase = "join" =>
    /\ \A j \in 1 .. 7 : InitOrder[j] \in up
    /\ managing = "up" /\ main.op # "destroy"

\* Those that main has waited for do not work any more when it takes the parts
\* down.
Destroying ==
  phase = "destroy" => \A t \in awaited : thread[t] \notin {"none", "running"}

InPhase == phase \in {"init", "join", "destroy", "exit"}

PInv == Inv /\ InPhase /\ Helped /\ ComingUp /\ Joining /\ Destroying

-----------------------------------------------------------------------------
\* The end of the process takes the thread management back to where it began.
LEMMA VanishIsInit == Vanish => Init'
  BY DEF Vanish, Init, Pos, Idle

LEMMA InitInvNext ==
  ASSUME ThreadAssumption
  PROVE  Init' => Inv'
<1>1. Init => Inv
  BY InitInv
<1> QED  BY <1>1, PTL

\* A step of the program is one of the thread management, or its end.
LEMMA StepIsTmStep ==
  ASSUME ProgramAssumption, [ProgramNext]_vars
  PROVE  [Next]_tmVars \/ (Vanish /\ phase' = "exit")
<1>1. CASE InitPart \/ InitThread \/ InitSipstackOnly
  <2>1. \A p : StartedBy(p) \subseteq Threads
    BY DEF StartedBy, ProgramAssumption
  <2> QED  BY <1>1, <2>1 DEF InitPart, InitThread, InitSipstackOnly, Next
<1>2. CASE InitFails \/ JoinReturns \/ DestroyReturns \/ DestroyFails \/ Finish
  BY <1>2 DEF InitFails, JoinReturns, DestroyReturns, DestroyFails, Finish, Return
<1>3. CASE Join \/ DestroyPart \/ StopListener \/ eXosip_quit \/ DestroyThreads
  BY <1>3 DEF Join, DestroyPart, StopListener, eXosip_quit, DestroyThreads, Next
<1>4. CASE MainWaits
  BY <1>4 DEF MainWaits, Next
<1>5. ASSUME NEW t \in Threads, ThreadProgram(t) \/ TakesGarbage(t)
      PROVE  [Next]_tmVars
  BY <1>5 DEF ThreadProgram, TakesGarbage, RoutineEnds, Next
<1>6. ASSUME NEW t \in Calls, StartCall(t)
      PROVE  [Next]_tmVars
  BY <1>6 DEF StartCall, ProgramAssumption, Next
<1>7. CASE UNCHANGED vars
  BY <1>7 DEF vars
<1> QED  BY <1>1, <1>2, <1>3, <1>4, <1>5, <1>6, <1>7 DEF ProgramNext, MainProgram

\* The invariant of the thread management holds in the program.
LEMMA InvStepProgram ==
  ASSUME ThreadAssumption, ProgramAssumption, Inv, [ProgramNext]_vars
  PROVE  Inv'
  BY StepIsTmStep, InvStep, VanishIsInit, InitInvNext

LEMMA HelpedStep ==
  ASSUME ThreadAssumption, ProgramAssumption, Inv, Helped, [ProgramNext]_vars
  PROVE  Helped'
<1> USE DEF Helped, Inv, TypeOK, Helper, Thread
<1>1. CASE Vanish
  BY <1>1 DEF Vanish
<1>2. CASE tm_init \/ tm_join_active_threads \/ tm_destroy \/ MainStep
  BY <1>2 DEF tm_init, tm_join_active_threads, tm_destroy, MainStep, ReadEntry, pthread_join,
              JoinFails, Joined, CountThreads, NoneActive, Release, MainGoes
<1>3. ASSUME NEW t \in Threads, start_thread(t) \/ ThreadStep(t) \/ Terminate(t)
      PROVE  Helped'
  BY <1>3 DEF start_thread, ThreadStep, Terminate, TestShutdown, LockToAdd, AddTooLate,
              NoFreePos, AddThread, thread_terminated, RemoveTooLate
<1>4. CASE UNCHANGED tmVars
  BY <1>4 DEF tmVars
<1> QED  BY <1>1, <1>2, <1>3, <1>4, StepIsTmStep DEF Next

LEMMA PhaseStep ==
  ASSUME ProgramAssumption, TypeOK, InPhase, [ProgramNext]_vars
  PROVE  InPhase'
<1> USE DEF InPhase, Return, TakenDown, programVars
<1>1. CASE InitPart \/ InitThread \/ InitSipstackOnly \/ InitFails \/ Join \/ JoinReturns
  BY <1>1 DEF InitPart, InitThread, InitSipstackOnly, InitFails, Join, JoinReturns, Initialised
<1>2. CASE DestroyPart \/ StopListener \/ eXosip_quit \/ DestroyThreads \/ MainWaits
  BY <1>2 DEF DestroyPart, StopListener, eXosip_quit, DestroyThreads, MainWaits
<1>3. CASE DestroyReturns \/ DestroyFails \/ Finish
  BY <1>3 DEF DestroyReturns, DestroyFails, Finish
<1>4. CASE \E t \in Threads : ThreadProgram(t) \/ TakesGarbage(t)
  BY <1>4 DEF ThreadProgram, TakesGarbage
<1>5. CASE \E t \in Calls : StartCall(t)
  BY <1>5 DEF StartCall
<1>6. CASE UNCHANGED vars
  BY <1>6 DEF vars
<1> QED  BY <1>1, <1>2, <1>3, <1>4, <1>5, <1>6 DEF ProgramNext, MainProgram

\* No thread's own step changes what main and the parts are at, nor gives a
\* thread that was not started a helper.
LEMMA OthersLeaveMain ==
  ASSUME TypeOK, NEW t \in Threads, ThreadProgram(t) \/ TakesGarbage(t)
  PROVE  /\ UNCHANGED <<managing, main, awaited, programVars>>
         /\ \A u \in Threads : helper[u] = "none" => helper'[u] = "none"
  BY DEF ThreadProgram, TakesGarbage, RoutineEnds, ThreadStep, Terminate, TestShutdown,
         LockToAdd, AddTooLate, NoFreePos, AddThread, thread_terminated, RemoveTooLate,
         history, TypeOK, Helper

LEMMA StartCallLeavesMain ==
  ASSUME TypeOK, NEW t \in Calls, StartCall(t)
  PROVE  /\ UNCHANGED <<managing, main, awaited, thread, programVars>>
         /\ \A u \in Threads \ {t} : helper'[u] = helper[u]
  BY DEF StartCall, start_thread, TypeOK, Helper, history

LEMMA Parts ==
  /\ InitOrder[1] = "utils" /\ InitOrder[2] = "thread management"
  /\ InitOrder[3] = "accounts" /\ InitOrder[4] = "core" /\ InitOrder[5] = "sip stack"
  /\ InitOrder[6] = "gui callback" /\ InitOrder[7] = "xmlrpc server"
  /\ Len(InitOrder) = 7
  BY DEF InitOrder

LEMMA PartAt ==
  ASSUME NEW j \in 1 .. 7
  PROVE  /\ InitOrder[j] = "thread management" <=> j = 2
         /\ InitOrder[j] = "gui callback" <=> j = 6
         /\ InitOrder[j] = "xmlrpc server" <=> j = 7
<1>1. j = 1 \/ j = 2 \/ j = 3 \/ j = 4 \/ j = 5 \/ j = 6 \/ j = 7
  OBVIOUS
<1> QED  BY <1>1, Parts

LEMMA AllUp ==
  ASSUME \A j \in 1 .. 7 : j < 7 => InitOrder[j] \in up
  PROVE  {"utils", "thread management", "accounts", "core", "sip stack", "gui callback"}
           \subseteq up
<1>1. /\ InitOrder[1] \in up /\ InitOrder[2] \in up /\ InitOrder[3] \in up
      /\ InitOrder[4] \in up /\ InitOrder[5] \in up /\ InitOrder[6] \in up
  OBVIOUS
<1> QED  BY <1>1, Parts

\* The worker and the server are started by their own parts.
LEMMA Starters ==
  ASSUME ProgramAssumption, NEW p
  PROVE  /\ p # "gui callback" => Worker \notin StartedBy(p)
         /\ p # "xmlrpc server" => Server \notin StartedBy(p)
         /\ p = "thread management" => StartedBy(p) = {}
  BY DEF StartedBy, ProgramAssumption

\* A part comes up, or main has left the initialisation.
LEMMA ComingUpStep ==
  ASSUME ThreadAssumption, ProgramAssumption, PInv, [ProgramNext]_vars
  PROVE  ComingUp' /\ (phase = "init" => Joining')
<1> USE DEF PInv, Inv, ComingUp, Joining
<1>0. TypeOK
  OBVIOUS
<1>1. CASE InitPart \/ InitThread \/ InitSipstackOnly
  <2>1. phase = "init" /\ k \in 1 .. 7 /\ Initialised /\ Len(InitOrder) = 7
    BY <1>1, Parts DEF InitPart, InitThread, InitSipstackOnly
  <2>2. Part = InitOrder[k]
    BY <2>1 DEF Part
  <2>3. k = 7 => phase' = "join" /\ \A j \in 1 .. 7 : InitOrder[j] \in up'
    BY <2>1, <2>2 DEF Initialised
  <2>4. k # 7 => /\ phase' = "init" /\ k' = k + 1
                 /\ \A j \in 1 .. 7 : j < k' => InitOrder[j] \in up'
    BY <2>1, <2>2 DEF Initialised
  <2>5. main' = main
    BY <1>1 DEF InitPart, InitThread, InitSipstackOnly, tm_init, start_thread, tmVars
  <2>6. managing' = IF k = 2 /\ managing = "down" THEN "up" ELSE managing
    <3>1. k = 2 <=> Part = "thread management"
      BY <2>1, <2>2, PartAt
    <3>2. CASE InitPart
      BY <3>1, <3>2 DEF InitPart, tm_init, tmVars
    <3>3. CASE InitThread
      <4>1. k # 2
        BY <3>1, <3>3, Starters DEF InitThread
      <4> QED  BY <3>3, <4>1 DEF InitThread, start_thread
    <3>4. CASE InitSipstackOnly
      BY <3>1, <3>4 DEF InitSipstackOnly, tmVars
    <3> QED  BY <1>1, <3>2, <3>3, <3>4
  <2>7. managing = "up" \/ managing = "down"
    BY <1>0, <2>1 DEF TypeOK
  <2>8. k = 2 => managing' = "up"
    BY <2>6, <2>7
  <2>9. /\ k < 6 => helper'[Worker] = "none"
        /\ k < 7 => helper'[Server] = "none"
    <3>1. (Part = "gui callback" <=> k = 6) /\ (Part = "xmlrpc server" <=> k = 7)
      BY <2>1, <2>2, PartAt
    <3>2. CASE InitPart \/ InitSipstackOnly
      <4>1. helper' = helper
        BY <3>2 DEF InitPart, InitSipstackOnly, tm_init, tmVars
      <4> QED  BY <2>1, <4>1
    <3>3. CASE InitThread
      <4>1. PICK t \in StartedBy(Part) : start_thread(t)
        BY <3>3 DEF InitThread
      <4>2. (k < 6 => t # Worker) /\ (k < 7 => t # Server)
        <5>1. Part # "gui callback" => t # Worker
          BY Starters, Zenon
        <5>2. Part # "xmlrpc server" => t # Server
          BY Starters, Zenon
        <5>3. (k < 6 => k # 6) /\ (k < 7 => k # 7)
          BY <2>1
        <5> QED  BY <3>1, <5>1, <5>2, <5>3, Zenon
      <4>3. \A u \in Threads \ {t} : helper'[u] = helper[u]
        BY <1>0, <4>1 DEF start_thread, Helper, TypeOK
      <4> QED  BY <2>1, <4>2, <4>3 DEF ProgramAssumption
    <3> QED  BY <1>1, <3>2, <3>3
  <2> QED  BY <2>1, <2>3, <2>4, <2>5, <2>6, <2>7, <2>8, <2>9
<1>2. CASE InitFails \/ JoinReturns \/ DestroyReturns \/ DestroyFails \/ Finish
  <2>1. CASE InitFails
    BY <2>1 DEF InitFails, Return
  <2>2. CASE JoinReturns \/ DestroyReturns \/ DestroyFails \/ Finish
    BY <2>2 DEF JoinReturns, DestroyReturns, DestroyFails, Finish, Return, TakenDown
  <2> QED  BY <1>2, <2>1, <2>2
<1>3. CASE Join \/ DestroyPart \/ StopListener \/ eXosip_quit \/ DestroyThreads
  BY <1>3 DEF Join, DestroyPart, StopListener, eXosip_quit, DestroyThreads, TakenDown,
              programVars
<1>4. CASE MainWaits
  <2>1. main.op = "none" => main.at = "idle" /\ main.at \notin Threads
    BY DEF MainAgrees, ThreadAssumption
  <2>2. phase # "init"
    BY <1>4, <2>1 DEF MainWaits, MainStep, ReadEntry, pthread_join, JoinFails, Joined,
          CountThreads, NoneActive, Release, At
  <2> QED  BY <1>4, <2>2 DEF MainWaits, programVars
<1>5. ASSUME NEW t \in Threads, ThreadProgram(t) \/ TakesGarbage(t)
      PROVE  ComingUp' /\ (phase = "init" => Joining')
  BY <1>0, <1>5, OthersLeaveMain DEF programVars, ProgramAssumption
<1>6. ASSUME NEW t \in Calls, StartCall(t)
      PROVE  ComingUp' /\ (phase = "init" => Joining')
  BY <1>0, <1>6, StartCallLeavesMain DEF programVars, ProgramAssumption
<1>7. CASE UNCHANGED vars
  BY <1>7 DEF vars, tmVars, programVars
<1> QED  BY <1>1, <1>2, <1>3, <1>4, <1>5, <1>6, <1>7 DEF ProgramNext, MainProgram

LEMMA JoiningStep ==
  ASSUME ThreadAssumption, ProgramAssumption, PInv, [ProgramNext]_vars
  PROVE  Joining'
<1> USE DEF PInv, Inv, Joining
<1>0. TypeOK
  OBVIOUS
<1>1. CASE phase = "init"
  BY <1>1, ComingUpStep
<1>2. CASE phase # "init" /\ phase # "join"
  <2>1. phase' # "join"
    <3>1. CASE InitPart \/ InitThread \/ InitSipstackOnly \/ InitFails \/ Join \/ JoinReturns
      BY <1>2, <3>1 DEF InitPart, InitThread, InitSipstackOnly, InitFails, Join, JoinReturns
    <3>2. CASE DestroyPart \/ StopListener \/ eXosip_quit \/ DestroyThreads \/ MainWaits
      BY <1>2, <3>2 DEF DestroyPart, StopListener, eXosip_quit, DestroyThreads, MainWaits,
            TakenDown, programVars
    <3>3. CASE DestroyReturns \/ DestroyFails \/ Finish
      BY <1>2, <3>3 DEF DestroyReturns, DestroyFails, Finish, Return, TakenDown
    <3>4. ASSUME NEW t \in Threads, ThreadProgram(t) \/ TakesGarbage(t)
          PROVE  phase' # "join"
      BY <1>0, <1>2, <3>4, OthersLeaveMain DEF programVars
    <3>5. ASSUME NEW t \in Calls, StartCall(t)
          PROVE  phase' # "join"
      BY <1>0, <1>2, <3>5, StartCallLeavesMain DEF programVars
    <3>6. CASE UNCHANGED vars
      BY <1>2, <3>6 DEF vars, programVars
    <3> QED  BY <3>1, <3>2, <3>3, <3>4, <3>5, <3>6 DEF ProgramNext, MainProgram
  <2> QED  BY <2>1
<1>3. CASE phase = "join"
  <2>1. CASE Join
    BY <1>3, <2>1 DEF Join, tm_join_active_threads, MainGoes, Idle, At, programVars
  <2>2. CASE JoinReturns
    BY <1>3, <2>2 DEF JoinReturns, Return
  <2>3. CASE MainWaits
    <3>1. UNCHANGED <<phase, up>>
      BY <2>3 DEF MainWaits, programVars
    <3>2. main.op = "join"
      BY <1>3, <2>3 DEF MainWaits, MainStep, ReadEntry, pthread_join, JoinFails, Joined,
            CountThreads, NoneActive, Release, At, MainAgrees, ThreadAssumption, TypeOK
    <3>3. main'.op \in {"none", "join"} /\ managing' = managing
      <4>1. CASE ReadEntry \/ pthread_join
        BY <3>2, <4>1 DEF ReadEntry, pthread_join, MainGoes, TypeOK
      <4>2. CASE JoinFails \/ Joined
        BY <3>2, <4>2 DEF JoinFails, Joined, MainGoes, Idle
      <4>3. CASE CountThreads \/ NoneActive \/ Release
        BY <3>2, <4>3 DEF CountThreads, NoneActive, Release, At
      <4> QED  BY <2>3, <4>1, <4>2, <4>3 DEF MainWaits, MainStep
    <3> QED  BY <1>3, <3>1, <3>3
  <2>4. ASSUME NEW t \in Threads, ThreadProgram(t) \/ TakesGarbage(t)
        PROVE  Joining'
    BY <1>0, <1>3, <2>4, OthersLeaveMain DEF programVars
  <2>5. ASSUME NEW t \in Calls, StartCall(t)
        PROVE  Joining'
    BY <1>0, <1>3, <2>5, StartCallLeavesMain DEF programVars
  <2>6. CASE UNCHANGED vars
    BY <1>3, <2>6 DEF vars, tmVars, programVars
  <2>7. CASE InitPart \/ InitThread \/ InitSipstackOnly \/ InitFails \/ DestroyPart
             \/ StopListener \/ eXosip_quit \/ DestroyThreads \/ DestroyReturns
             \/ DestroyFails \/ Finish
    BY <1>3, <2>7 DEF InitPart, InitThread, InitSipstackOnly, InitFails, DestroyPart,
          StopListener, eXosip_quit, DestroyThreads, DestroyReturns, DestroyFails, Finish
  <2> QED  BY <2>1, <2>2, <2>3, <2>4, <2>5, <2>6, <2>7 DEF ProgramNext, MainProgram
<1> QED  BY <1>1, <1>2, <1>3

\* When main begins to take down, those it waited for have ended; and threads
\* do not begin again.
LEMMA DestroyingStep ==
  ASSUME ThreadAssumption, ProgramAssumption, PInv, [ProgramNext]_vars
  PROVE  Destroying'
<1> USE DEF PInv, Destroying
<1>1. CASE phase' # "destroy"
  BY <1>1
<1>2. CASE phase = "destroy" /\ phase' = "destroy"
  <2>1. [Next]_tmVars
    BY <1>2, StepIsTmStep
  <2>2. awaited' = awaited
    <3>1. CASE InitPart \/ InitThread \/ InitSipstackOnly \/ InitFails \/ Join \/ JoinReturns
      BY <1>2, <3>1 DEF InitPart, InitThread, InitSipstackOnly, InitFails, Join, JoinReturns
    <3>2. CASE DestroyPart \/ StopListener \/ eXosip_quit \/ DestroyThreads
      BY <3>2 DEF DestroyPart, StopListener, eXosip_quit, DestroyThreads, tm_destroy,
            tmVars, history
    <3>3. CASE MainWaits
      BY <3>3 DEF MainWaits, MainStep, ReadEntry, pthread_join, JoinFails, Joined,
            CountThreads, NoneActive, Release
    <3>4. CASE DestroyReturns \/ DestroyFails \/ Finish
      BY <1>2, <3>4 DEF DestroyReturns, DestroyFails, Finish, Return, tmVars, history
    <3>5. ASSUME NEW t \in Threads, ThreadProgram(t) \/ TakesGarbage(t)
          PROVE  awaited' = awaited
      BY <3>5, OthersLeaveMain DEF Inv
    <3>6. ASSUME NEW t \in Calls, StartCall(t)
          PROVE  awaited' = awaited
      BY <3>6, StartCallLeavesMain DEF Inv
    <3>7. CASE UNCHANGED vars
      BY <3>7 DEF vars, tmVars, history
    <3> QED  BY <3>1, <3>2, <3>3, <3>4, <3>5, <3>6, <3>7 DEF ProgramNext, MainProgram
  <2>3. awaited \subseteq Threads
    BY DEF Inv, TypeOK
  <2> QED  BY <1>2, <2>1, <2>2, <2>3, ThreadsGoOn
<1>3. CASE phase # "destroy" /\ phase' = "destroy"
  <2>1. JoinReturns
    <3>1. CASE InitPart \/ InitThread \/ InitSipstackOnly
      BY <1>3, <3>1 DEF InitPart, InitThread, InitSipstackOnly, Initialised
    <3>2. CASE InitFails \/ Join \/ DestroyPart \/ StopListener \/ eXosip_quit
               \/ DestroyThreads \/ DestroyReturns \/ DestroyFails \/ Finish \/ MainWaits
      BY <1>3, <3>2 DEF InitFails, Join, DestroyPart, StopListener, eXosip_quit,
            DestroyThreads, DestroyReturns, DestroyFails, Finish, MainWaits, Return,
            programVars
    <3>3. ASSUME NEW t \in Threads, ThreadProgram(t) \/ TakesGarbage(t)
          PROVE  FALSE
      BY <1>3, <3>3, OthersLeaveMain DEF Inv, programVars
    <3>4. ASSUME NEW t \in Calls, StartCall(t)
          PROVE  FALSE
      BY <1>3, <3>4, StartCallLeavesMain DEF Inv, programVars
    <3>5. CASE UNCHANGED vars
      BY <1>3, <3>5 DEF vars, programVars
    <3> QED  BY <3>1, <3>2, <3>3, <3>4, <3>5 DEF ProgramNext, MainProgram
  <2>2. main.op = "none" /\ main.rc = 1 /\ managing = "up"
    BY <1>3, <2>1 DEF JoinReturns, Return, Joining, Inv, TypeOK
  <2>3. UNCHANGED <<thread, awaited>>
    BY <1>3, <2>1 DEF JoinReturns, Return, tmVars, history
  <2> QED  BY <2>2, <2>3 DEF Inv, Waited
<1> QED  BY <1>1, <1>2, <1>3

-----------------------------------------------------------------------------
LEMMA PInvHolds ==
  ASSUME ThreadAssumption, ProgramAssumption
  PROVE  ProgramSpec => []PInv
<1>1. ProgramInit => PInv
  <2>1. ProgramInit => Inv
    BY InitInv DEF ProgramInit
  <2>2. ProgramInit => InPhase /\ Helped /\ ComingUp /\ Joining /\ Destroying
    BY DEF ProgramInit, Init, Idle, InPhase, Helped, ComingUp, Joining, Destroying,
           ProgramAssumption
  <2> QED  BY <2>1, <2>2 DEF PInv
<1>2. PInv /\ [ProgramNext]_vars => PInv'
  BY InvStepProgram, PhaseStep, HelpedStep, ComingUpStep, JoiningStep, DestroyingStep
     DEF PInv, Inv
<1> QED  BY <1>1, <1>2, PTL DEF ProgramSpec

\* Inside of the program, too, the thread management keeps its types ...
THEOREM ProgramTypeCorrect ==
  ASSUME ThreadAssumption, ProgramAssumption
  PROVE  ProgramSpec => []TypeOK
<1>1. PInv => TypeOK
  BY DEF PInv, Inv
<1> QED  BY <1>1, PInvHolds, PTL

\* ... leaves only overtaken threads at work when it is destroyed ...
THEOREM ProgramLateAreOvertaken ==
  ASSUME ThreadAssumption, ProgramAssumption
  PROVE  ProgramSpec => []LateOnlyIfOvertaken
<1>1. PInv => LateOnlyIfOvertaken
  BY LateInInv DEF PInv
<1> QED  BY <1>1, PInvHolds, PTL

\* ... and is a barrier for main.
THEOREM ProgramWaitIsABarrier ==
  ASSUME ThreadAssumption, ProgramAssumption
  PROVE  ProgramSpec => JoinIsABarrier
<1>1. PInv /\ [ProgramNext]_vars =>
        [main.at = "read" /\ main.op = "join" /\ main'.rc = 1
           => awaited \cap Listed = {}]_tmVars
  <2> SUFFICES ASSUME PInv, [ProgramNext]_vars,
                      main.at = "read", main.op = "join", main'.rc = 1
               PROVE  awaited \cap Listed = {}
    OBVIOUS
  <2>1. CASE Vanish
    BY <2>1 DEF Vanish, Idle
  <2>2. CASE [Next]_tmVars
    BY <2>2, JoinStep DEF PInv
  <2> QED  BY <2>1, <2>2, StepIsTmStep
<1> QED  BY <1>1, PInvHolds, PTL DEF ProgramSpec, JoinIsABarrier

\* The parts that a thread uses are up as long as it works, but for the first
\* threads during the initialisation and those main has not waited for.
THEOREM PartsAreUp ==
  ASSUME ThreadAssumption, ProgramAssumption
  PROVE  ProgramSpec => []NeededIsUp
<1>1. PInv => NeededIsUp
  <2> SUFFICES ASSUME PInv, NEW t \in Threads, thread[t] = "running", phase # "exit",
                      ~(Needs(t) \subseteq up)
               PROVE  \/ phase = "init" /\ t \in {Dispatcher, Listener} \cup Calls
                      \/ phase = "destroy" /\ t \notin awaited
    BY DEF NeededIsUp
  <2>1. Needs(t) \subseteq {"utils", "thread management", "accounts", "core", "sip stack",
                           "gui callback"}
    BY DEF Needs
  <2>2. helper[t] # "none"
    BY DEF PInv, Helped
  <2>3. phase \in {"init", "join", "destroy"}
    BY DEF PInv, InPhase
  <2>4. phase # "join"
    BY <2>1, AllUp DEF PInv, Joining
  <2>5. CASE phase = "init"
    <3>1. t = Worker => k = 7
      BY <2>2, <2>5 DEF PInv, ComingUp
    <3>2. k = 7 => Needs(t) \subseteq up
      BY <2>1, <2>5, AllUp DEF PInv, ComingUp
    <3>3. t # Server
      BY <2>2, <2>5 DEF PInv, ComingUp
    <3> QED  BY <2>5, <3>1, <3>2, <3>3 DEF ProgramAssumption
  <2>6. CASE phase = "destroy"
    BY <2>6 DEF PInv, Destroying
  <2> QED  BY <2>3, <2>4, <2>5, <2>6
<1> QED  BY <1>1, PInvHolds, PTL
=============================================================================
