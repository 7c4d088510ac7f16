--------------------------- MODULE ThreadManagement ---------------------------
(***************************************************************************)
(* util/threads/thread_management.c: every thread of the daemon is started *)
(* by a short-lived helper thread (add_thread), is listed in threads[]     *)
(* while it runs, and takes itself off the list (thread_terminated).  The  *)
(* main thread waits for the listed ones (tm_join_active_threads) and at   *)
(* last takes the thread management down (tm_destroy).                     *)
(*                                                                         *)
(* A critical section is one step, except that add_thread acquires and     *)
(* releases thrManLock in two, because tm_destroy may find the lock held.  *)
(* join_threads reads threads[] without a lock, an entry per step.  As in  *)
(* glibc, pthread_create has stored the id before the new thread runs.     *)
(* Left out: the arguments of a thread, peak, the unused cancellation      *)
(* functions, forced shutdown (main never asks for it, and it does         *)
(* nothing), and that a thread still reads haveCleaner[] when it has taken *)
(* itself off the list, which tm_destroy may just have freed.              *)
(***************************************************************************)
EXTENDS Integers, FiniteSets

CONSTANTS
  Threads,    (* the threads that may be started, each at most once       *)
  MaxAmount,  (* threads.maxAmount: the size of threads[]                 *)
  NoThread,   (* 0                                                        *)
  Dead,       (* what a failed pthread_create may leave in the entry      *)
  MaxFailures (* bound of the model: how often pthread_create fails       *)

ASSUME ThreadAssumption ==
  /\ IsFiniteSet(Threads)
  /\ NoThread \notin Threads /\ Dead \notin Threads /\ NoThread # Dead
  /\ MaxAmount \in Nat \ {0}
  /\ MaxFailures \in Nat
  /\ Threads \cap {"idle", "read", "count", "spin", "release"} = {}

VARIABLES
  managing,       (* the locks and the memory: down, up, destroyed        *)
  threads,        (* the references                                       *)
  activeThreads,
  shuttingDown,
  thrManLock,     (* the thread whose helper holds the lock               *)
  helper,         (* of each thread: how far add_thread is                *)
  thread,         (* how far the thread itself is                         *)
  main,           (* where the main thread is in the functions below      *)
  awaited,        (* history: who was listed when tm_join_active_threads  *)
                  (* began to wait                                        *)
  overtaken,      (* history: helpers past their test of shuttingDown     *)
                  (* when tm_destroy set it                               *)
  failed          (* history: how often it failed in add_thread           *)

history == <<awaited, overtaken, failed>>
tmVars == <<managing, threads, activeThreads, shuttingDown, thrManLock,
            helper, thread, main, history>>

Pos == 0 .. MaxAmount - 1
Listed == {t \in Threads : \E i \in Pos : threads[i] = t}
PosOf(t) == CHOOSE i \in Pos : threads[i] = t   \* find_pos_by_thread_id
Unlocked == thrManLock = NoThread

\* op: which function main is in, at: where, i: the loop counter of
\* join_threads, rc: what the last function returned (-1: none yet).
Idle(rc) == [op |-> "none", at |-> "idle", i |-> 0, rc |-> rc]
At(op, at) == [op |-> op, at |-> at, i |-> 0, rc |-> -1]

-----------------------------------------------------------------------------
Init ==
  /\ managing = "down"
  /\ threads = [i \in Pos |-> NoThread]
  /\ activeThreads = 0
  /\ shuttingDown = FALSE
  /\ thrManLock = NoThread
  /\ helper = [t \in Threads |-> "none"]
  /\ thread = [t \in Threads |-> "none"]
  /\ main = Idle(-1)
  /\ awaited = {} /\ overtaken = {} /\ failed = 0

\* The process ends; nothing of this is left.
Vanish ==
  /\ managing' = "down" /\ shuttingDown' = FALSE
  /\ threads' = [i \in Pos |-> NoThread] /\ activeThreads' = 0
  /\ thrManLock' = NoThread
  /\ helper' = [t \in Threads |-> "none"]
  /\ thread' = [t \in Threads |-> "none"]
  /\ main' = Idle(-1)
  /\ awaited' = {} /\ overtaken' = {} /\ failed' = 0

tm_init ==
  /\ managing = "down"
  /\ managing' = "up"
  /\ UNCHANGED <<threads, activeThreads, shuttingDown, thrManLock, helper,
                 thread, main, history>>

-----------------------------------------------------------------------------
(* Starting: start_thread creates the helper and returns at once.          *)

Helper(t, from, to) == helper[t] = from /\ helper' = [helper EXCEPT ![t] = to]
Thread(t, from, to) == thread[t] = from /\ thread' = [thread EXCEPT ![t] = to]

start_thread(t) ==
  /\ managing # "down"
  /\ Helper(t, "none", "new")
  /\ UNCHANGED <<managing, threads, activeThreads, shuttingDown, thrManLock,
                 thread, main, history>>

\* Plausible mistake in TestShutdown: add_thread does not look.
TestShutdown_forgotten(t) ==
  /\ Helper(t, "new", "passed")
  /\ UNCHANGED <<managing, threads, activeThreads, shuttingDown, thrManLock,
                 thread, main, history>>

\* The helper looks whether it is too late (after tm_destroy by means of a
\* destroyed lock).
TestShutdown(t) ==
  /\ Helper(t, "new", IF shuttingDown THEN "gone" ELSE "passed")
  /\ UNCHANGED <<managing, threads, activeThreads, shuttingDown, thrManLock,
                 thread, main, history>>

LockToAdd(t) ==
  /\ managing = "up"
  /\ Helper(t, "passed", "adding")
  /\ Unlocked /\ thrManLock' = t
  /\ UNCHANGED <<managing, threads, activeThreads, shuttingDown, thread, main,
                 history>>

\* Nothing is known of a helper that goes on to use the destroyed lock and the
\* freed table; the model leaves it there.
AddTooLate(t) ==
  /\ managing = "destroyed"
  /\ Helper(t, "passed", "lost")
  /\ UNCHANGED <<managing, threads, activeThreads, shuttingDown, thrManLock,
                 thread, main, history>>

\* The first free entry.
IsFreePos(i) == threads[i] = NoThread /\ \A j \in Pos : j < i => threads[j] # NoThread

NoFreePos(t) ==
  /\ \A i \in Pos : threads[i] # NoThread
  /\ Helper(t, "adding", "gone")
  /\ thrManLock' = NoThread
  /\ UNCHANGED <<managing, threads, activeThreads, shuttingDown, thread, main,
                 history>>

\* Plausible mistake in AddThread: the new thread is not counted.
AddThread_uncounted(t) ==
  /\ Helper(t, "adding", "gone")
  /\ Thread(t, "none", "running")
  /\ \E i \in Pos : IsFreePos(i) /\ threads' = [threads EXCEPT ![i] = t]
  /\ thrManLock' = NoThread
  /\ UNCHANGED <<managing, activeThreads, shuttingDown, main, history>>

\* A failed pthread_create leaves the entry as it was or with an id of no
\* thread, and is counted all the same.
AddThread(t) ==
  /\ Helper(t, "adding", "gone")
  /\ thrManLock' = NoThread
  /\ activeThreads' = activeThreads + 1
  /\ \E i \in Pos :
       /\ IsFreePos(i)
       /\ \/ /\ Thread(t, "none", "running")
             /\ threads' = [threads EXCEPT ![i] = t]
             /\ UNCHANGED failed
          \/ /\ failed < MaxFailures
             /\ \E id \in {NoThread, Dead} : threads' = [threads EXCEPT ![i] = id]
             /\ failed' = failed + 1
             /\ UNCHANGED thread
  /\ UNCHANGED <<managing, shuttingDown, main, awaited, overtaken>>

-----------------------------------------------------------------------------
(* thread_terminated                                                       *)

\* Plausible mistake in thread_terminated: the count is not lowered.
thread_terminated_counted(t) ==
  /\ managing = "up" /\ Unlocked
  /\ Thread(t, "running", "gone")
  /\ threads' = [threads EXCEPT ![PosOf(t)] = NoThread]
  /\ UNCHANGED <<managing, activeThreads, shuttingDown, thrManLock, helper,
                 main, history>>

\* The routine of the thread has come to its end.
thread_terminated(t) ==
  /\ managing = "up" /\ Unlocked
  /\ Thread(t, "running", "gone")
  /\ threads' = [threads EXCEPT ![PosOf(t)] = NoThread]
  /\ activeThreads' = activeThreads - 1
  /\ UNCHANGED <<managing, shuttingDown, thrManLock, helper, main, history>>

\* Nor is anything known of a thread that ends after tm_destroy.
RemoveTooLate(t) ==
  /\ managing = "destroyed"
  /\ Thread(t, "running", "lost")
  /\ UNCHANGED <<managing, threads, activeThreads, shuttingDown, thrManLock,
                 helper, main, history>>

-----------------------------------------------------------------------------
(* Waiting and destroying, by the main thread                              *)

\* main moves on; the rest is as it was, except what the action names.
MainGoes(m) ==
  /\ main' = m
  /\ UNCHANGED <<threads, activeThreads, thrManLock, helper, thread, failed>>

\* Only the number of active threads is read under the lock.
tm_join_active_threads ==
  /\ managing = "up" /\ main.op = "none" /\ Unlocked
  /\ MainGoes(IF activeThreads > 0 THEN At("join", "read") ELSE Idle(1))
  /\ awaited' = Listed
  /\ UNCHANGED <<managing, shuttingDown, overtaken>>

\* join_threads: the entry is read, then its thread is waited for.
ReadEntry ==
  /\ main.at = "read" /\ main.i < MaxAmount
  /\ \/ /\ threads[main.i] = NoThread
        /\ MainGoes([main EXCEPT !.i = @ + 1])
     \/ /\ threads[main.i] \in Threads
        /\ MainGoes([main EXCEPT !.at = threads[main.i]])
  /\ UNCHANGED <<managing, shuttingDown, awaited, overtaken>>

pthread_join ==
  /\ main.at \in Threads /\ thread[main.at] = "gone"
  /\ MainGoes([main EXCEPT !.at = "read", !.i = @ + 1])
  /\ UNCHANGED <<managing, shuttingDown, awaited, overtaken>>

\* tm_destroy logs a failed join and goes on, tm_join_active_threads
\* reports it.
JoinFails ==
  /\ main.at = "read" /\ main.i < MaxAmount /\ threads[main.i] = Dead
  /\ MainGoes(IF main.op = "join" THEN Idle(0) ELSE At("destroy", "spin"))
  /\ UNCHANGED <<managing, shuttingDown, awaited, overtaken>>

\* Plausible mistake in Joined: the last entry is forgotten.
Joined_early ==
  /\ main.at = "read" /\ main.i = MaxAmount - 1
  /\ MainGoes(IF main.op = "join" THEN Idle(1) ELSE At("destroy", "spin"))
  /\ UNCHANGED <<managing, shuttingDown, awaited, overtaken>>

Joined ==
  /\ main.at = "read" /\ main.i = MaxAmount
  /\ MainGoes(IF main.op = "join" THEN Idle(1) ELSE At("destroy", "spin"))
  /\ UNCHANGED <<managing, shuttingDown, awaited, overtaken>>

tm_destroy ==
  /\ managing = "up" /\ main.op = "none"
  /\ MainGoes(At("destroy", "count"))
  /\ shuttingDown' = TRUE
  /\ overtaken' = {t \in Threads : helper[t] \in {"passed", "adding"}}
  /\ UNCHANGED <<managing, awaited>>

CountThreads ==
  /\ main = At("destroy", "count") /\ Unlocked
  /\ MainGoes(At("destroy", IF activeThreads > 0 THEN "read" ELSE "release"))
  /\ UNCHANGED <<managing, shuttingDown, awaited, overtaken>>

\* The loop that yields until all threads have taken themselves off the list.
NoneActive ==
  /\ main = At("destroy", "spin") /\ Unlocked /\ activeThreads <= 0
  /\ MainGoes(At("destroy", "release"))
  /\ UNCHANGED <<managing, shuttingDown, awaited, overtaken>>

\* A lock that is held cannot be destroyed: tm_destroy gives up.
Release ==
  /\ main = At("destroy", "release")
  /\ IF Unlocked
     THEN MainGoes(Idle(1)) /\ managing' = "destroyed"
     ELSE MainGoes(Idle(0)) /\ UNCHANGED managing
  /\ UNCHANGED <<shuttingDown, awaited, overtaken>>

-----------------------------------------------------------------------------
ThreadStep(t) ==
  \/ TestShutdown(t) \/ LockToAdd(t) \/ AddTooLate(t)
  \/ NoFreePos(t) \/ AddThread(t)

\* The routine of a thread ends.
Terminate(t) == thread_terminated(t) \/ RemoveTooLate(t)

MainStep == \/ ReadEntry \/ pthread_join \/ JoinFails \/ Joined
            \/ CountThreads \/ NoneActive \/ Release

\* Any thread, or main, may start others; a thread ends when it likes.
Next == \/ tm_init
        \/ \E t \in Threads : start_thread(t) \/ ThreadStep(t) \/ Terminate(t)
        \/ tm_join_active_threads \/ tm_destroy
        \/ MainStep

Spec == Init /\ [][Next]_tmVars

-----------------------------------------------------------------------------
(* Properties                                                              *)

TypeOK ==
  /\ managing \in {"down", "up", "destroyed"}
  /\ threads \in [Pos -> Threads \cup {NoThread, Dead}]
  /\ activeThreads \in Nat
  /\ shuttingDown \in BOOLEAN
  /\ thrManLock \in Threads \cup {NoThread}
  /\ helper \in [Threads ->
                 {"none", "new", "passed", "adding", "gone", "lost"}]
  /\ thread \in [Threads ->
                 {"none", "running", "gone", "lost"}]
  /\ main \in [op : {"none", "join", "destroy"},
               at : {"idle", "read", "count", "spin", "release"} \cup Threads,
               i : 0 .. MaxAmount, rc : {-1, 0, 1}]
  /\ awaited \subseteq Threads /\ overtaken \subseteq Threads
  /\ failed \in 0 .. MaxFailures

\* thread_management.c:287-297: waiting for the active threads is a barrier
\* for those that were listed when it began, although entries are read one
\* by one without the lock while threads leave and others take their places:
\* when the wait succeeds none of them is on the list any more.
JoinIsABarrier ==
  [][main.at = "read" /\ main.op = "join" /\ main'.rc = 1
       => awaited \cap Listed = {}]_tmVars

\* thread_management.c:328, "It is not possible to start new threads after
\* invoking this": a thread that still works when the locks and the table are
\* gone is one whose helper had tested shuttingDown just before tm_destroy
\* set it.
LateOnlyIfOvertaken ==
  managing = "destroyed" =>
    {t \in Threads : thread[t] = "running"} \subseteq overtaken
=============================================================================
