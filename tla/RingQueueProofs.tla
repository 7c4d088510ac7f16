--------------------------- MODULE RingQueueProofs ---------------------------
(***************************************************************************)
(* Proofs about RingQueue for every capacity of at least two and every set *)
(* of elements.  A ring of one slot is excluded on purpose: the initial    *)
(* front index 1 lies outside of it, and an element is read from there.    *)
(***************************************************************************)
EXTENDS RingQueue, TLAPS, SequenceTheorems

Inv == TypeOK /\ IndicesAgree /\ OccupiedIsWritten

\* The inductive invariant: it speaks of the indices and of what the
\* occupied slots hold, because a dequeue hands out array[front].
LEMMA Inductive ==
  ASSUME QueueAssumption, Capacity >= 2
  PROVE  /\ Init => Inv
         /\ Inv /\ [Next]_vars => Inv'
<1> USE DEF QueueAssumption, Slot
<1>1. Init => Inv
  BY DEF Init, Inv, TypeOK, IndicesAgree, OccupiedIsWritten
<1>2. ASSUME Inv, [Next]_vars
      PROVE  Inv'
  <2> USE <1>2 DEF Inv, TypeOK, IndicesAgree, OccupiedIsWritten, Index
  <2>1. CASE queue_make_empty
    BY <2>1 DEF queue_make_empty
  <2>2. ASSUME NEW e \in Element, queue_enqueue(e)
        PROVE  Inv'
    <3>1. CASE queue_is_full
      BY <2>2, <3>1 DEF queue_enqueue, queue_is_full, ring
    <3>2. CASE ~queue_is_full
      <4>1. /\ size' = size + 1 /\ front' = front
            /\ rear' = queue_succ(rear)
            /\ array' = [array EXCEPT ![rear'] = e]
            /\ result' = 1
        BY <2>2, <3>2 DEF queue_enqueue, ring
      <4>2. size' \in 1 .. Capacity
        BY <3>2, <4>1 DEF queue_is_full
      <4>3. rear' \in Slot /\ rear' = Index(size + 1)
        BY <4>1, <4>2 DEF queue_succ
      <4>4. TypeOK'
        BY <4>1, <4>2, <4>3
      <4>5. \A i \in 1 .. size' : array'[Index(i)'] \in Element
        <5> TAKE i \in 1 .. size'
        <5>1. Index(i)' = Index(i) /\ Index(i) \in Slot
          BY <4>1, <4>2
        <5>2. CASE i = size + 1
          BY <4>1, <4>3, <5>1, <5>2
        <5>3. CASE i \in 1 .. size
          <6>1. Index(i) # rear'
            BY <4>2, <4>1, <4>3, <5>3
          <6> QED  BY <4>1, <4>3, <5>1, <5>3, <6>1
        <5> QED  BY <4>1, <4>2, <5>2, <5>3
      <4> QED  BY <4>1, <4>2, <4>3, <4>4, <4>5
    <3> QED  BY <3>1, <3>2
  <2>0. ~queue_is_empty => At(front) \in Element
    <3>1. ~queue_is_empty => 1 \in 1 .. size /\ Index(1) = front
      BY DEF queue_is_empty
    <3> QED  BY <3>1 DEF At
  <2>3. CASE queue_front
    BY <2>0, <2>3 DEF queue_front, ring
  <2>4. ASSUME ~queue_is_empty, Remove,
               result' \in {0, 1} \cup Element \cup {NULL}
        PROVE  Inv'
    <3>1. size' = size - 1 /\ front' = queue_succ(front)
          /\ array' = array /\ rear' = rear
      BY <2>4 DEF Remove
    <3>2. size \in 1 .. Capacity /\ size' \in 0 .. Capacity /\ front' \in Slot
      BY <2>4, <3>1 DEF queue_is_empty, queue_succ
    <3>3. TypeOK'
      BY <2>4, <3>1, <3>2
    <3>4. IndicesAgree'
      BY <3>1, <3>2 DEF queue_succ
    <3>5. OccupiedIsWritten'
      <4>1. ASSUME NEW i \in 1 .. size'
            PROVE  Index(i)' = Index(i + 1) /\ i + 1 \in 1 .. size
        BY <3>1, <3>2 DEF queue_succ
      <4> QED  BY <3>1, <3>2, <4>1
    <3> QED  BY <3>3, <3>4, <3>5
  <2>5. CASE queue_dequeue
    BY <2>4, <2>5 DEF queue_dequeue, ring
  <2>6. CASE queue_front_and_dequeue
    BY <2>0, <2>4, <2>6 DEF queue_front_and_dequeue, ring
  <2>8. CASE UNCHANGED vars
    BY <2>8 DEF vars
  <2> QED
    BY <2>1, <2>2, <2>3, <2>5, <2>6, <2>8 DEF Next
<1> QED  BY <1>1, <1>2

\* The ring's indices never leave the allocation, and size, front and rear
\* always describe the same occupied slots, all of them written.
THEOREM RingInvariant ==
  ASSUME QueueAssumption, Capacity >= 2
  PROVE  Spec => [](TypeOK /\ IndicesAgree /\ OccupiedIsWritten)
<1>1. Spec => []Inv
  BY Inductive, PTL DEF Spec
<1> QED  BY <1>1, PTL DEF Inv

-----------------------------------------------------------------------------
\* The occupied slots, read from front, are a sequence.
LEMMA FunctionIsSeq ==
  ASSUME NEW n \in Nat, NEW c \in [1 .. n -> Element]
  PROVE  c \in Seq(Element) /\ Len(c) = n
  BY SeqDef, LenProperties

LEMMA ContentsIsSeq ==
  ASSUME QueueAssumption, Inv
  PROVE  /\ Contents \in Seq(Element)
         /\ Len(Contents) = size
         /\ \A i \in 1 .. size : Contents[i] = array[Index(i)]
<1>1. size \in Nat /\ \A i \in 1 .. size : array[Index(i)] \in Element
  BY DEF Inv, TypeOK, OccupiedIsWritten, QueueAssumption
<1>2. Contents \in [1 .. size -> Element]
  BY <1>1 DEF Contents
<1> QED  BY <1>1, <1>2, FunctionIsSeq DEF Contents

LEMMA ContentsIsSeqNext ==
  ASSUME QueueAssumption, Inv'
  PROVE  /\ Contents' \in Seq(Element)
         /\ Len(Contents') = size'
         /\ \A i \in 1 .. size' : Contents'[i] = array'[Index(i)']
<1>1. size' \in Nat /\ \A i \in 1 .. size' : array'[Index(i)'] \in Element
  BY DEF Inv, TypeOK, OccupiedIsWritten, QueueAssumption
<1>2. Contents' \in [1 .. size' -> Element]
  BY <1>1 DEF Contents
<1> QED  BY <1>1, <1>2, FunctionIsSeq DEF Contents

\* An accepted element becomes the youngest one.
LEMMA EnqueueAppends ==
  ASSUME QueueAssumption, Capacity >= 2, Inv, Inv',
         NEW e \in Element, ~queue_is_full, queue_enqueue(e)
  PROVE  Contents' = Append(Contents, e)
<1>1. /\ size' = size + 1 /\ front' = front /\ rear' = queue_succ(rear)
      /\ array' = [array EXCEPT ![rear'] = e]
  BY DEF queue_enqueue, queue_is_full
<1>2. /\ Contents' \in Seq(Element) /\ Len(Contents') = size'
      /\ \A i \in 1 .. size' : Contents'[i] = array'[Index(i)']
  BY ContentsIsSeqNext
<1>3. /\ Append(Contents, e) \in Seq(Element)
      /\ Len(Append(Contents, e)) = size + 1
      /\ \A i \in 1 .. size : Append(Contents, e)[i] = array[Index(i)]
      /\ Append(Contents, e)[size + 1] = e
  BY ContentsIsSeq, AppendProperties
<1>4. \A j \in Slot : array'[j] = IF j = rear' THEN e ELSE array[j]
  BY <1>1 DEF Inv, TypeOK
<1>5. size \in Nat /\ size' = size + 1
  BY <1>1 DEF Inv, TypeOK, QueueAssumption
<1>6. ASSUME NEW i \in 1 .. size'
      PROVE  /\ Index(i)' = Index(i)
             /\ Index(i) \in Slot
             /\ Index(i) = rear' <=> i = size + 1
  <2> USE <1>1, <1>5 DEF Inv, TypeOK, Index, Slot, QueueAssumption
  <2>1. size' \in 1 .. Capacity
    BY DEF queue_is_full
  <2>2. Index(i)' = Index(i) /\ Index(i) \in Slot
    BY <1>6, <2>1
  <2>3. rear' = Index(size + 1)
    BY <2>1 DEF IndicesAgree, queue_succ
  <2> QED  BY <1>6, <2>1, <2>2, <2>3
<1>7. ASSUME NEW i \in 1 .. size'
      PROVE  Contents'[i] = Append(Contents, e)[i]
  <2>1. Contents'[i] = IF i = size + 1 THEN e ELSE array[Index(i)]
    BY <1>2, <1>4, <1>6
  <2>2. i = size + 1 \/ i \in 1 .. size
    BY <1>5
  <2> QED  BY <1>3, <1>5, <2>1, <2>2
<1> QED  BY <1>2, <1>3, <1>5, <1>7, SeqEqual

\* The slot at front holds the oldest element.
LEMMA HeadIsFront ==
  ASSUME QueueAssumption, Inv, ~queue_is_empty
  PROVE  Contents # <<>> /\ Head(Contents) = At(front)
<1> USE DEF Inv, TypeOK, QueueAssumption
<1>1. size \in 1 .. Capacity
  BY DEF queue_is_empty
<1>2. Contents # <<>> /\ Contents[1] = array[Index(1)]
  BY <1>1, ContentsIsSeq, EmptySeq
<1>3. Index(1) = front /\ front \in Slot
  BY <1>1 DEF Index, Slot
<1> QED  BY <1>2, <1>3, ContentsIsSeq DEF At

\* Removing makes the second oldest element the oldest.
LEMMA RemoveIsTail ==
  ASSUME QueueAssumption, Inv, Inv', ~queue_is_empty, Remove
  PROVE  /\ Contents # <<>>
         /\ Head(Contents) = At(front)
         /\ Contents' = Tail(Contents)
<1> USE DEF Inv, TypeOK, QueueAssumption
<1>1. /\ size' = size - 1 /\ front' = queue_succ(front) /\ array' = array
      /\ size \in 1 .. Capacity
  BY DEF Remove, queue_is_empty
<1>2. Contents # <<>> /\ Head(Contents) = At(front)
  BY HeadIsFront
<1>3. /\ Contents' \in Seq(Element) /\ Len(Contents') = size'
      /\ \A i \in 1 .. size' : Contents'[i] = array'[Index(i)']
  BY ContentsIsSeqNext
<1>4. /\ Tail(Contents) \in Seq(Element)
      /\ Len(Tail(Contents)) = size - 1
      /\ \A i \in 1 .. size - 1 : Tail(Contents)[i] = array[Index(i + 1)]
  BY <1>1, <1>2, ContentsIsSeq, HeadTailProperties
<1>5. \A i \in 1 .. size' : Index(i)' = Index(i + 1)
  BY <1>1 DEF Index, queue_succ, Slot
<1> QED  BY <1>1, <1>2, <1>3, <1>4, <1>5, SeqEqual

\* Every call of queue.c is a call of the abstract queue with the same
\* return value, so the ring keeps the promise of queue.h.
THEOREM RingImplementsFifo ==
  ASSUME QueueAssumption, Capacity >= 2
  PROVE  Spec => ImplementsFifo
<1>1. ASSUME Init, Inv
      PROVE  Fifo!Init
  <2>1. Contents \in Seq(Element) /\ Len(Contents) = 0
    BY <1>1, ContentsIsSeq DEF Init
  <2> QED  BY <1>1, <2>1, EmptySeq DEF Init, Fifo!Init
<1>2. ASSUME Inv, Inv', [Next]_vars
      PROVE  [Fifo!Next]_(Fifo!vars)
  <2> USE <1>2 DEF Fifo!Next, Fifo!vars
  <2>1. Contents \in Seq(Element) /\ Len(Contents) = size
    BY ContentsIsSeq
  <2>2. (queue_is_empty <=> Contents = <<>>) /\ (queue_is_full <=> Len(Contents) = Capacity)
    BY <2>1, EmptySeq DEF queue_is_empty, queue_is_full
  <2>3. Len(Contents) <= Capacity
    BY <2>1 DEF Inv, TypeOK, QueueAssumption
  <2>4. UNCHANGED ring => UNCHANGED Contents
    BY DEF ring, Contents, Index
  <2>5. CASE queue_make_empty
    <3>1. Contents' \in Seq(Element) /\ Len(Contents') = 0
      BY <2>5, ContentsIsSeqNext DEF queue_make_empty
    <3> QED  BY <2>5, <3>1, EmptySeq DEF queue_make_empty, Fifo!Clear
  <2>6. ASSUME NEW e \in Element, queue_enqueue(e)
        PROVE  Fifo!Next
    <3>1. CASE queue_is_full
      BY <2>2, <2>4, <2>6, <3>1 DEF queue_enqueue, queue_is_full, Fifo!PutRejected
    <3>2. CASE ~queue_is_full
      <4>1. Contents' = Append(Contents, e) /\ result' = 1
        BY <2>6, <3>2, EnqueueAppends DEF queue_enqueue
      <4>2. Len(Contents) < Capacity
        BY <2>1, <2>2, <2>3, <3>2 DEF QueueAssumption, Inv, TypeOK
      <4> QED  BY <4>1, <4>2 DEF Fifo!Put
    <3> QED  BY <3>1, <3>2
  <2>7. CASE queue_front
    <3>1. CASE queue_is_empty
      BY <2>2, <2>4, <2>7, <3>1 DEF queue_front, Fifo!NothingThere
    <3>2. CASE ~queue_is_empty
      <4>1. Head(Contents) = At(front)
        BY <3>2, HeadIsFront
      <4> QED  BY <2>2, <2>4, <2>7, <3>2, <4>1 DEF queue_front, Fifo!Peek
    <3> QED  BY <3>1, <3>2
  <2>8. CASE queue_dequeue
    <3>1. CASE queue_is_empty
      BY <2>2, <2>4, <2>8, <3>1 DEF queue_dequeue, Fifo!DropRejected
    <3>2. CASE ~queue_is_empty
      BY <2>8, <3>2, RemoveIsTail DEF queue_dequeue, Fifo!Drop
    <3> QED  BY <3>1, <3>2
  <2>9. CASE queue_front_and_dequeue
    <3>1. CASE queue_is_empty
      BY <2>2, <2>4, <2>9, <3>1 DEF queue_front_and_dequeue, Fifo!NothingThere
    <3>2. CASE ~queue_is_empty
      BY <2>9, <3>2, RemoveIsTail DEF queue_front_and_dequeue, Fifo!Take
    <3> QED  BY <3>1, <3>2
  <2>11. CASE UNCHANGED vars
    BY <2>4, <2>11 DEF vars, ring
  <2> QED
    BY <2>5, <2>6, <2>7, <2>8, <2>9, <2>11 DEF Next
<1>3. Spec => []Inv
  BY Inductive, PTL DEF Spec
<1> QED  BY <1>1, <1>2, <1>3, Inductive, PTL DEF Spec, ImplementsFifo, Fifo!Spec
=============================================================================
