--------------------------- MODULE MessageHandover ---------------------------
(***************************************************************************)
(* The hand-over of messages from calling threads to a worker thread.      *)
(* The core does it in two variants of one scheme:                         *)
(*  - a dispatcher and a GUI callback worker: event_dispatch and dispatch  *)
(*    (core/events/event_dispatcher.c), go_* and their threads             *)
(*    (core/gui_output/gui_callback_sender.c): the sender enqueues and     *)
(*    signals in one section under the lock of the queue;                  *)
(*  - a state machine: enqueue_and_wake and sm_start: the sender releases  *)
(*    poolLock (enqueue_event) before it signals (wake_machine).           *)
(*                                                                         *)
(* signalUnderLock tells the two apart.                                    *)
(*                                                                         *)
(* The worker tests, dequeues and goes to sleep without that lock; only    *)
(* the condition variable is protected, by wakeUpLock.  So the statements  *)
(* of queue.c are steps of their own here, and size++ / size-- are a load  *)
(* and a store.  A section under wakeUpLock is one step: a sender holds it *)
(* to signal and the worker between lock and wait, and neither waits for   *)
(* anything while holding it.                                              *)
(*                                                                         *)
(* Messages are numbered in the order in which the senders take the lock.  *)
(* Left out: the shutdown message of the workers, which no caller sends,   *)
(* and doShutdown of a machine (EventDispatcher).                          *)
(***************************************************************************)
EXTENDS Integers, Sequences

CONSTANTS
  Sender,    (* the threads that hand over messages              *)
  Capacity,  (* EVT_DP_QUEUE_SIZE, GUI_CB_QUEUE_SIZE, maxEvents  *)
  MaxMsg     (* bound of the model: messages handed over in all  *)

ASSUME HandoverAssumption ==
  /\ Sender # {}
  /\ Capacity \in Nat \ {0, 1}
  /\ MaxMsg \in Nat

VARIABLES
  signalUnderLock, (* which variant: does a sender hold the lock when it  *)
                   (* signals                                             *)
  array, size, front, rear,  (* the queue_record                          *)
  lock,      (* senders that hold the lock of the queue                   *)
  spc,       (* where each sender is                                      *)
  stmp,      (* the size a sender loaded                                  *)
  smsg,      (* the message a sender hands over                           *)
  wpc,       (* where the worker is in its loop                           *)
  wtmp,      (* the size the worker loaded                                *)
  asleep,    (* the worker waits on the condition variable, not signalled *)
  sent,      (* number of messages senders came with                      *)
  accepted,  (* history: messages whose sender was told 1                 *)
  handled,   (* history: messages the worker took, in its order           *)
  overlapped,(* history: an enqueue and a dequeue ran at the same time    *)
  missed     (* history: a signal was sent after the worker's last        *)
             (* emptiness test and before its wait                        *)

queueVars   == <<array, size, front, rear>>
senderVars  == <<lock, spc, stmp, smsg, sent, signalUnderLock>>
workerVars  == <<wpc, wtmp>>
historyVars == <<accepted, handled, overlapped, missed>>
vars == <<queueVars, senderVars, workerVars, asleep, historyVars>>

Slot == 0 .. Capacity - 1
Msg  == 1 .. MaxMsg
NoMsg == 0                       \* an unwritten slot

queue_succ_late(i) == IF i = Capacity THEN 0 ELSE i + 1   \* a plausible mistake
queue_succ(i) == IF i + 1 = Capacity THEN 0 ELSE i + 1

Enqueuing == \E s \in Sender : spc[s] \in {"load", "store", "rear", "write"}
Dequeuing == wpc \in {"load", "store", "take"}

-----------------------------------------------------------------------------
Init ==
  /\ array = [i \in Slot |-> NoMsg]
  /\ size = 0 /\ front = 1 /\ rear = 0
  /\ signalUnderLock \in BOOLEAN
  /\ lock = {}
  /\ spc = [s \in Sender |-> "idle"]
  /\ stmp = [s \in Sender |-> 0]
  /\ smsg = [s \in Sender |-> NoMsg]
  /\ wpc = "test" /\ wtmp = 0 /\ asleep = FALSE
  /\ sent = 0
  /\ accepted = <<>> /\ handled = <<>>
  /\ overlapped = FALSE /\ missed = FALSE

\* pthread_mutex_lock(lock), and queue_is_full: a full queue makes the call
\* return 0 and the message is gone.
Lock(s) ==
  /\ spc[s] = "idle" /\ lock = {} /\ sent < MaxMsg
  /\ sent' = sent + 1
  /\ \/ /\ size = Capacity
        /\ UNCHANGED <<lock, spc, smsg, overlapped>>
     \/ /\ size # Capacity
        /\ lock' = {s}
        /\ smsg' = [smsg EXCEPT ![s] = sent']
        /\ spc' = [spc EXCEPT ![s] = "load"]
        /\ overlapped' = (overlapped \/ Dequeuing)
  /\ UNCHANGED <<queueVars, stmp, signalUnderLock, workerVars, asleep,
                 accepted, handled, missed>>

\* queue->size++ reads ...
LoadSize(s) ==
  /\ spc[s] = "load"
  /\ stmp' = [stmp EXCEPT ![s] = size]
  /\ spc' = [spc EXCEPT ![s] = "store"]
  /\ UNCHANGED <<queueVars, lock, smsg, sent, signalUnderLock, workerVars,
                 asleep, historyVars>>

\* ... and writes
StoreSize(s) ==
  /\ spc[s] = "store"
  /\ size' = stmp[s] + 1
  /\ spc' = [spc EXCEPT ![s] = "rear"]
  /\ UNCHANGED <<array, front, rear, lock, stmp, smsg, sent, signalUnderLock,
                 workerVars, asleep, historyVars>>

AdvanceRear(s) ==
  /\ spc[s] = "rear"
  /\ rear' = queue_succ(rear)
  /\ spc' = [spc EXCEPT ![s] = "write"]
  /\ UNCHANGED <<array, size, front, lock, stmp, smsg, sent, signalUnderLock,
                 workerVars, asleep, historyVars>>

WriteSlot(s) ==
  /\ spc[s] = "write"
  /\ array' = [array EXCEPT ![rear] = smsg[s]]
  /\ accepted' = Append(accepted, smsg[s])
  /\ spc' = [spc EXCEPT ![s] = "signal"]
  /\ lock' = IF signalUnderLock THEN lock ELSE {}
  /\ UNCHANGED <<size, front, rear, stmp, smsg, sent, signalUnderLock,
                 workerVars, asleep, handled, overlapped, missed>>

\* A plausible mistake in Signal: the condition variable of another queue.
Signal_elsewhere(s) ==
  /\ spc[s] = "signal"
  /\ missed' = (missed \/ wpc = "wait")
  /\ lock' = lock \ {s}
  /\ spc' = [spc EXCEPT ![s] = "idle"]
  /\ UNCHANGED <<queueVars, stmp, smsg, sent, signalUnderLock, workerVars,
                 asleep, accepted, handled, overlapped>>

\* pthread_cond_signal under wakeUpLock, then the unlocks: the call returns 1.
\* A signal that finds nobody waiting is lost.
Signal(s) ==
  /\ spc[s] = "signal"
  /\ asleep' = FALSE
  /\ missed' = (missed \/ wpc = "wait")
  /\ lock' = lock \ {s}
  /\ spc' = [spc EXCEPT ![s] = "idle"]
  /\ UNCHANGED <<queueVars, stmp, smsg, sent, signalUnderLock, workerVars,
                 accepted, handled, overlapped>>

-----------------------------------------------------------------------------
\* while (!queue_is_empty(msgPool)); the second test, in
\* queue_front_and_dequeue, cannot differ: only the worker lowers size.
TestEmpty ==
  /\ wpc = "test"
  /\ \/ size = 0 /\ wpc' = "wait" /\ UNCHANGED overlapped
     \/ size # 0 /\ wpc' = "load" /\ overlapped' = (overlapped \/ Enqueuing)
  /\ UNCHANGED <<queueVars, senderVars, wtmp, asleep, accepted, handled, missed>>

WorkerLoadSize ==
  /\ wpc = "load"
  /\ wtmp' = size
  /\ wpc' = "store"
  /\ UNCHANGED <<queueVars, senderVars, asleep, historyVars>>

WorkerStoreSize ==
  /\ wpc = "store"
  /\ size' = wtmp - 1
  /\ wpc' = "take"
  /\ UNCHANGED <<array, front, rear, senderVars, wtmp, asleep, historyVars>>

\* Plausible mistake in TakeSlot: front does not move.
TakeSlot_peek ==
  /\ wpc = "take"
  /\ handled' = Append(handled, array[front])
  /\ wpc' = "test"
  /\ UNCHANGED <<array, size, front, rear, senderVars, wtmp, asleep, accepted,
                 overlapped, missed>>

\* element = array[front], front = succ(front), and the message is handled
TakeSlot ==
  /\ wpc = "take"
  /\ handled' = Append(handled, array[front])
  /\ front' = queue_succ(front)
  /\ wpc' = "test"
  /\ UNCHANGED <<array, size, rear, senderVars, wtmp, asleep, accepted,
                 overlapped, missed>>

\* pthread_mutex_lock(wakeUpLock) and pthread_cond_wait, which waits
\* whatever arrived since the test
Wait ==
  /\ wpc = "wait"
  /\ wpc' = "woken" /\ asleep' = TRUE
  /\ UNCHANGED <<queueVars, senderVars, wtmp, historyVars>>

Awake ==
  /\ wpc = "woken" /\ ~asleep
  /\ wpc' = "test"
  /\ UNCHANGED <<queueVars, senderVars, wtmp, asleep, historyVars>>

\* POSIX lets pthread_cond_wait return without a signal
SpuriousWakeUp ==
  /\ asleep
  /\ asleep' = FALSE
  /\ UNCHANGED <<queueVars, senderVars, workerVars, historyVars>>

-----------------------------------------------------------------------------
SenderStep(s) ==
  LoadSize(s) \/ StoreSize(s) \/ AdvanceRear(s) \/ WriteSlot(s) \/ Signal(s)

WorkerStep ==
  TestEmpty \/ WorkerLoadSize \/ WorkerStoreSize \/ TakeSlot \/ Wait \/ Awake

Next ==
  \/ \E s \in Sender : Lock(s) \/ SenderStep(s)
  \/ WorkerStep
  \/ SpuriousWakeUp

Spec == Init /\ [][Next]_vars

\* The scheduler runs every thread that can run.  Nobody owes the system a
\* new message, and nothing owes the worker a spurious wake-up.
FairSpec ==
  /\ Spec
  /\ \A s \in Sender : WF_vars(SenderStep(s))
  /\ WF_vars(WorkerStep)

-----------------------------------------------------------------------------
TypeOK ==
  /\ array \in [Slot -> Msg \cup {NoMsg}]
  /\ size \in Int
  /\ front \in Slot /\ rear \in Slot
  /\ signalUnderLock \in BOOLEAN
  /\ lock \in SUBSET Sender
  /\ spc \in [Sender -> {"idle", "load", "store", "rear", "write", "signal"}]
  /\ stmp \in [Sender -> Int]
  /\ smsg \in [Sender -> Msg \cup {NoMsg}]
  /\ wpc \in {"test", "load", "store", "take", "wait", "woken"}
  /\ wtmp \in Int
  /\ asleep \in BOOLEAN
  /\ sent \in 0 .. MaxMsg
  /\ accepted \in Seq(Msg) /\ handled \in Seq(Msg \cup {NoMsg})
  /\ overlapped \in BOOLEAN /\ missed \in BOOLEAN

\* The slot of the i-th oldest message.
Index(i) == IF front + i - 1 < Capacity THEN front + i - 1
                                        ELSE front + i - 1 - Capacity

\* As long as no enqueue has run at the same time as a dequeue, nothing is
\* lost, duplicated or reordered: what was handled and what is still in the
\* ring are, in order, what senders were told is accepted.  This is what the
\* missing lock on the worker's side puts at stake.
Accounted ==
  ~overlapped /\ ~Enqueuing /\ ~Dequeuing
    => /\ size \in 0 .. Capacity
       /\ accepted = handled \o [i \in 1 .. size |-> array[Index(i)]]

Holds(seq, m) == \E i \in DOMAIN seq : seq[i] = m

\* An accepted message is handled, unless one of the two races happened.
HandledOrRaced ==
  \A m \in Msg : Holds(accepted, m) ~> Holds(handled, m) \/ overlapped \/ missed

\* statemachine.c:926, "sleep until next event": an event that was enqueued
\* wakes the machine.  The code tests for emptiness before it takes
\* wakeUpLock, so the event can arrive in between.
Delivered ==
  \A m \in Msg : Holds(accepted, m) ~> Holds(handled, m) \/ overlapped
=============================================================================
