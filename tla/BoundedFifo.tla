----------------------------- MODULE BoundedFifo -----------------------------
(***************************************************************************)
(* What util/queue/queue.h promises, and nothing of how queue.c keeps it:  *)
(* a first-in-first-out queue of at most Capacity elements.  Every call    *)
(* leaves its return value in result.                                      *)
(***************************************************************************)
EXTENDS Naturals, Sequences

CONSTANTS
  Capacity,  (* maxElements of queue_create_queue *)
  Element,   (* the pointers a caller may enqueue *)
  NULL       (* the null pointer, not an Element  *)

VARIABLES
  contents,  (* the queued elements, oldest first *)
  result     (* what the latest call returned     *)

vars == <<contents, result>>

TypeOK ==
  /\ contents \in Seq(Element)
  /\ Len(contents) <= Capacity
  /\ result \in {0, 1} \cup Element \cup {NULL}

Init == contents = <<>> /\ result = NULL

\* "if the queue is full 0 is returned, otherwise 1"
Put(e) ==
  /\ Len(contents) < Capacity
  /\ contents' = Append(contents, e)
  /\ result' = 1

PutRejected ==
  /\ Len(contents) = Capacity
  /\ result' = 0
  /\ UNCHANGED contents

\* "Return the first element of the queue and remove it"
Take ==
  /\ contents # <<>>
  /\ result' = Head(contents)
  /\ contents' = Tail(contents)

\* "Remove the first element of the queue"
Drop ==
  /\ contents # <<>>
  /\ result' = 1
  /\ contents' = Tail(contents)

DropRejected ==
  /\ contents = <<>>
  /\ result' = 0
  /\ UNCHANGED contents

\* "Returns the first element of the queue"
Peek ==
  /\ contents # <<>>
  /\ result' = Head(contents)
  /\ UNCHANGED contents

NothingThere ==
  /\ contents = <<>>
  /\ result' = NULL
  /\ UNCHANGED contents

\* "All elements are deleted"
Clear ==
  /\ contents' = <<>>
  /\ UNCHANGED result

Next ==
  \/ \E e \in Element : Put(e)
  \/ PutRejected
  \/ Take \/ Drop \/ DropRejected
  \/ Peek \/ NothingThere
  \/ Clear

Spec == Init /\ [][Next]_vars
=============================================================================
