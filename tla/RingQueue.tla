------------------------------ MODULE RingQueue ------------------------------
(***************************************************************************)
(* util/queue/queue.c: a ring of Capacity pointers with an explicit size.  *)
(* One caller at a time: what happens when the callers do not exclude one  *)
(* another is the subject of MessageHandover.                              *)
(*                                                                         *)
(* malloc leaves the ring uninitialised and queue_make_empty does not      *)
(* clear it, so a slot holds Garbage until it is first written.            *)
(* queue_is_element, which nothing calls, and queue_get_size only read.    *)
(***************************************************************************)
EXTENDS Naturals, Sequences

CONSTANTS
  Capacity,  (* maxElements of queue_create_queue                    *)
  Element,   (* the pointers a caller may enqueue                    *)
  NULL,      (* the null pointer                                     *)
  Garbage    (* the content of memory the queue never wrote          *)

ASSUME QueueAssumption ==
  /\ Capacity \in Nat \ {0}
  /\ NULL \notin Element
  /\ Garbage \notin Element \cup {NULL}

VARIABLES
  array,     (* the slots                                            *)
  size,      (* the number of queued elements                        *)
  front,     (* index of the oldest element                          *)
  rear,      (* index of the youngest element                        *)
  result     (* return value of the latest call                      *)

ring == <<array, size, front, rear>>
vars == <<array, size, front, rear, result>>

Slot == 0 .. Capacity - 1

\* Plausible mistakes in the definitions below, for the mutation runs.
queue_is_full_early == size + 1 >= Capacity
queue_succ_stuck(value) == IF value + 2 >= Capacity THEN 0 ELSE value + 1

queue_is_empty == size = 0
queue_is_full  == size = Capacity

queue_succ(value) == IF value + 1 = Capacity THEN 0 ELSE value + 1

\* an index outside of the allocation reads whatever is there
At(i) == IF i \in Slot THEN array[i] ELSE Garbage

-----------------------------------------------------------------------------

\* queue_create_queue: the allocation, then queue_make_empty
Init ==
  /\ array = [i \in Slot |-> Garbage]
  /\ size = 0 /\ front = 1 /\ rear = 0
  /\ result = NULL

queue_make_empty ==
  /\ size' = 0 /\ front' = 1 /\ rear' = 0
  /\ UNCHANGED <<array, result>>

queue_enqueue(element) ==
  \/ /\ queue_is_full
     /\ result' = 0
     /\ UNCHANGED ring
  \/ /\ ~queue_is_full
     /\ size' = size + 1
     /\ rear' = queue_succ(rear)
     /\ array' = [array EXCEPT ![rear'] = element]
     /\ result' = 1
     /\ UNCHANGED front

queue_front ==
  /\ result' = IF queue_is_empty THEN NULL ELSE At(front)
  /\ UNCHANGED ring

Remove ==
  /\ size' = size - 1
  /\ front' = queue_succ(front)
  /\ UNCHANGED <<array, rear>>

queue_dequeue ==
  \/ /\ queue_is_empty
     /\ result' = 0
     /\ UNCHANGED ring
  \/ /\ ~queue_is_empty
     /\ Remove
     /\ result' = 1

queue_front_and_dequeue ==
  \/ /\ queue_is_empty
     /\ result' = NULL
     /\ UNCHANGED ring
  \/ /\ ~queue_is_empty
     /\ result' = At(front)
     /\ Remove

Next ==
  \/ queue_make_empty
  \/ \E e \in Element : queue_enqueue(e)
  \/ queue_front
  \/ queue_dequeue
  \/ queue_front_and_dequeue

Spec == Init /\ [][Next]_vars

-----------------------------------------------------------------------------
TypeOK ==
  /\ array \in [Slot -> Element \cup {Garbage}]
  /\ size \in 0 .. Capacity
  /\ front \in Slot
  /\ rear \in Slot
  /\ result \in {0, 1} \cup Element \cup {NULL}

\* The index of the i-th oldest element, going once around the ring.
Index(i) == IF front + i - 1 < Capacity THEN front + i - 1
                                        ELSE front + i - 1 - Capacity

\* The two indices and the counter agree: rear is the slot of the youngest
\* element (and the slot before front when the queue is empty), so a full
\* and an empty queue are told apart by size alone.
IndicesAgree == rear = IF size = 0
                       THEN IF front = 0 THEN Capacity - 1 ELSE front - 1
                       ELSE Index(size)

\* No slot that counts as occupied was left unwritten: the callers
\* dereference what they dequeue without a check of their own.
OccupiedIsWritten == \A i \in 1 .. size : array[Index(i)] \in Element

\* The abstract queue that the ring stands for.
Contents == [i \in 1 .. size |-> array[Index(i)]]
Fifo == INSTANCE BoundedFifo WITH contents <- Contents

\* Every call of queue.c behaves as queue.h says: the ring implements the
\* bounded first-in-first-out queue, return values included.
ImplementsFifo == Fifo!Spec
=============================================================================
