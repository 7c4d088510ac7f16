------------------------- MODULE MessageHandoverProofs -------------------------
(* Proofs about MessageHandover for any number of senders and messages and *)
(* any capacity of at least two (HandoverAssumption).                      *)
EXTENDS MessageHandover, TLAPS, SequenceTheorems

\* The places in queue_enqueue, and those between taking the lock and the end
\* of the call.
Within == {"load", "store", "rear", "write"}
Locked(s) == \/ spc[s] \in Within
             \/ spc[s] = "signal" /\ signalUnderLock

\* The lock does what it is for: two senders are never in queue_enqueue of one
\* queue together.
Exclusive ==
  /\ \A s \in Sender : Locked(s) => s \in lock
  /\ \A s, t \in lock : s = t

\* A sender on its way has a message.
Carries == \A s \in Sender : spc[s] \in Within => smsg[s] \in Msg

\* The number of messages in the ring: size is ahead of it while a sender has
\* raised size and not written the slot, and behind while the worker has
\* lowered size and not taken the slot.
Raised == \E s \in Sender : spc[s] \in {"rear", "write"}
Queued == IF Raised THEN size - 1 ELSE IF wpc = "take" THEN size + 1 ELSE size

Writing == \E s \in Sender : spc[s] = "write"

\* The slot of the youngest of n messages.
Youngest(n) == IF n = 0 THEN IF front = 0 THEN Capacity - 1 ELSE front - 1
                        ELSE Index(n)

\* As long as no enqueue has met a dequeue: at most one of the two is under
\* way, what a thread loaded is still the size, rear and front enclose the
\* messages in the ring, and these follow those that were handled.
Agree ==
  /\ ~(Enqueuing /\ Dequeuing)
  /\ Queued \in 0 .. Capacity
  /\ Enqueuing => Queued < Capacity
  /\ Dequeuing => Queued > 0
  /\ \A s \in Sender : spc[s] = "store" => stmp[s] = size
  /\ wpc = "store" => wtmp = size
  /\ rear = IF Writing THEN Youngest(Queued + 1) ELSE Youngest(Queued)
  /\ Len(accepted) = Len(handled) + Queued
  /\ \A i \in 1 .. Len(handled) : accepted[i] = handled[i]
  /\ \A i \in 1 .. Queued : accepted[Len(handled) + i] = array[Index(i)]

Inv == TypeOK /\ Exclusive /\ Carries /\ (~overlapped => Agree)

-----------------------------------------------------------------------------
LEMMA InitInv ==
  ASSUME HandoverAssumption
  PROVE  Init => Inv
<1> SUFFICES ASSUME Init PROVE Inv
  OBVIOUS
<1> USE DEF Init, HandoverAssumption, Slot
<1>1. TypeOK
  <2>1. 0 \in Slot /\ 1 \in Slot /\ 0 \in 0 .. MaxMsg
    OBVIOUS
  <2>2. accepted \in Seq(Msg) /\ handled \in Seq(Msg \cup {NoMsg})
    OBVIOUS
  <2>3. /\ array \in [Slot -> Msg \cup {NoMsg}]
        /\ smsg \in [Sender -> Msg \cup {NoMsg}]
        /\ stmp \in [Sender -> Int]
        /\ spc \in [Sender -> {"idle", "load", "store", "rear", "write", "signal"}]
    OBVIOUS
  <2> QED  BY <2>1, <2>2, <2>3 DEF TypeOK
<1>2. Exclusive /\ Carries
  BY DEF Exclusive, Carries, Locked, Within
<1>3. ~Raised /\ ~Writing /\ ~Enqueuing /\ ~Dequeuing
  BY DEF Raised, Writing, Enqueuing, Dequeuing
<1>4. Queued = 0
  BY <1>3 DEF Queued
<1>5. Agree
  BY <1>3, <1>4 DEF Agree, Youngest
<1> QED  BY <1>1, <1>2, <1>5 DEF Inv

\* While a sender is in queue_enqueue, no other one is.
LEMMA Alone ==
  ASSUME Exclusive, NEW s \in Sender, spc[s] \in Within
  PROVE  /\ \A t \in Sender : t # s => ~Locked(t)
         /\ \A t \in Sender : t # s => spc[t] \notin Within
         /\ lock \subseteq Sender => lock = {s}
BY DEF Exclusive, Locked

\* The types, in every step.
LEMMA TypeStep ==
  ASSUME HandoverAssumption, TypeOK, Carries, [Next]_vars
  PROVE  TypeOK'
<1> USE DEF HandoverAssumption, TypeOK, Slot, Msg
<1>1. ASSUME NEW s \in Sender, Lock(s) PROVE TypeOK'
  <2>1. sent \in 0 .. MaxMsg /\ sent < MaxMsg /\ sent' = sent + 1
    BY <1>1 DEF Lock
  <2>2. sent' \in 0 .. MaxMsg /\ sent' \in Msg
    BY <2>1
  <2>3. (overlapped \/ Dequeuing) \in BOOLEAN
    BY DEF Dequeuing
  <2>4. overlapped' \in BOOLEAN
    BY <1>1, <2>3 DEF Lock
  <2>5. /\ lock' \in SUBSET Sender
        /\ spc' \in [Sender -> {"idle", "load", "store", "rear", "write", "signal"}]
        /\ smsg' \in [Sender -> Msg \cup {NoMsg}]
    BY <1>1, <2>2, ZenonT(40) DEF Lock
  <2> QED  BY <1>1, <2>2, <2>4, <2>5 DEF Lock, queueVars, workerVars
<1>2. ASSUME NEW s \in Sender, LoadSize(s) PROVE TypeOK'
  BY <1>2 DEF LoadSize, queueVars, workerVars, historyVars
<1>3. ASSUME NEW s \in Sender, StoreSize(s) PROVE TypeOK'
  BY <1>3 DEF StoreSize, workerVars, historyVars
<1>4. ASSUME NEW s \in Sender, AdvanceRear(s) PROVE TypeOK'
  BY <1>4 DEF AdvanceRear, queue_succ, workerVars, historyVars
<1>5. ASSUME NEW s \in Sender, WriteSlot(s) PROVE TypeOK'
  <2>1. smsg[s] \in Msg
    BY <1>5 DEF WriteSlot, Carries, Within
  <2>2. accepted' \in Seq(Msg)
    BY <1>5, <2>1 DEF WriteSlot
  <2> QED  BY <1>5, <2>1, <2>2 DEF WriteSlot, workerVars
<1>6. ASSUME NEW s \in Sender, Signal(s) PROVE TypeOK'
  BY <1>6 DEF Signal, queueVars, workerVars
<1>7. CASE TestEmpty
  BY <1>7 DEF TestEmpty, queueVars, senderVars
<1>8. CASE WorkerLoadSize
  BY <1>8 DEF WorkerLoadSize, queueVars, senderVars, historyVars
<1>9. CASE WorkerStoreSize
  BY <1>9 DEF WorkerStoreSize, senderVars, historyVars
<1>10. CASE TakeSlot
  <2>1. handled' \in Seq(Msg \cup {NoMsg})
    BY <1>10 DEF TakeSlot
  <2>2. front' \in Slot
    BY <1>10 DEF TakeSlot, queue_succ
  <2> QED  BY <1>10, <2>1, <2>2 DEF TakeSlot, senderVars
<1>11. CASE Wait
  BY <1>11 DEF Wait, queueVars, senderVars, historyVars
<1>12. CASE Awake
  BY <1>12 DEF Awake, queueVars, senderVars, historyVars
<1>13. CASE SpuriousWakeUp
  BY <1>13 DEF SpuriousWakeUp, queueVars, senderVars, workerVars, historyVars
<1>14. CASE UNCHANGED vars
  BY <1>14 DEF vars, queueVars, senderVars, workerVars, historyVars
<1> QED
  BY <1>1, <1>2, <1>3, <1>4, <1>5, <1>6, <1>7, <1>8, <1>9, <1>10, <1>11,
     <1>12, <1>13, <1>14 DEF Next, SenderStep, WorkerStep

\* What is said of the lock: only the senders move it.
LEMMA LockStep ==
  ASSUME HandoverAssumption, TypeOK, Exclusive, Carries, [Next]_vars
  PROVE  Exclusive' /\ Carries'
<1> USE DEF TypeOK, Exclusive, Carries, Locked, Within
<1>1. ASSUME NEW s \in Sender, Lock(s) PROVE Exclusive' /\ Carries'
  <2>1. sent' \in Nat /\ (spc[s] = "idle" /\ sent < MaxMsg => sent' \in Msg)
    BY <1>1 DEF Lock, Msg, HandoverAssumption
  <2> QED  BY <1>1, <2>1 DEF Lock
<1>2. ASSUME NEW s \in Sender, LoadSize(s) PROVE Exclusive' /\ Carries'
  BY <1>2 DEF LoadSize
<1>3. ASSUME NEW s \in Sender, StoreSize(s) PROVE Exclusive' /\ Carries'
  BY <1>3 DEF StoreSize
<1>4. ASSUME NEW s \in Sender, AdvanceRear(s) PROVE Exclusive' /\ Carries'
  BY <1>4 DEF AdvanceRear
<1>5. ASSUME NEW s \in Sender, WriteSlot(s) PROVE Exclusive' /\ Carries'
  <2>1. \A t \in Sender : t # s => ~Locked(t)
    BY <1>5, Alone DEF WriteSlot
  <2> QED  BY <1>5, <2>1 DEF WriteSlot
<1>6. ASSUME NEW s \in Sender, Signal(s) PROVE Exclusive' /\ Carries'
  BY <1>6 DEF Signal
<1>7. ASSUME UNCHANGED senderVars PROVE Exclusive' /\ Carries'
  BY <1>7 DEF senderVars
<1> QED
  BY <1>1, <1>2, <1>3, <1>4, <1>5, <1>6, <1>7
  DEF Next, SenderStep, WorkerStep, TestEmpty, WorkerLoadSize,
      WorkerStoreSize, TakeSlot, Wait, Awake, SpuriousWakeUp, vars

\* The arithmetic of the ring: the slots of its first messages differ, and the
\* one after the youngest is the next index.
LEMMA Slots ==
  ASSUME HandoverAssumption, front \in Slot,
         NEW q \in 0 .. Capacity
  PROVE  /\ \A i \in 1 .. Capacity : Index(i) \in Slot
         /\ Youngest(q) \in Slot
         /\ q < Capacity => queue_succ(Youngest(q)) = Youngest(q + 1)
         /\ q < Capacity => \A i \in 1 .. q : Index(i) # Youngest(q + 1)
         /\ Index(1) = front
BY DEF HandoverAssumption, Slot, Index, Youngest, queue_succ

\* Sender s in queue_enqueue settles what the definitions of Agree ask of all
\* senders.
LEMMA Where ==
  ASSUME Exclusive, NEW s \in Sender, spc[s] \in Within
  PROVE  /\ Enqueuing
         /\ Raised <=> spc[s] \in {"rear", "write"}
         /\ Writing <=> spc[s] = "write"
         /\ \A t \in Sender : t # s => spc[t] \notin Within
BY Alone DEF Enqueuing, Raised, Writing, Within

LEMMA SenderAgrees ==
  ASSUME HandoverAssumption, TypeOK, Exclusive, Carries, Agree,
         NEW s \in Sender, Lock(s) \/ SenderStep(s), ~overlapped', Exclusive'
  PROVE  Agree'
<1> USE DEF HandoverAssumption, TypeOK
<1>1. CASE Lock(s) /\ size = Capacity
  BY <1>1 DEF Lock, Agree, Queued, Raised, Writing, Enqueuing, Dequeuing,
             queueVars, workerVars, Youngest, Index
<1>2. CASE Lock(s) /\ size # Capacity
  <2>1. \A t \in Sender : spc[t] \notin Within
    BY <1>2 DEF Lock, Exclusive, Locked
  <2>2. ~Enqueuing /\ ~Raised /\ ~Writing /\ ~Dequeuing
    BY <1>2, <2>1 DEF Lock, Enqueuing, Raised, Writing, Within
  <2>3. /\ spc' = [spc EXCEPT ![s] = "load"]
        /\ UNCHANGED <<queueVars, workerVars, stmp, accepted, handled>>
    BY <1>2 DEF Lock
  <2>4. Enqueuing' /\ ~Raised' /\ ~Writing' /\ ~Dequeuing'
    BY <2>1, <2>2, <2>3
    DEF Enqueuing, Raised, Writing, Dequeuing, Within, workerVars
  <2>5. Queued = size /\ Queued' = size /\ size \in 0 .. Capacity
    BY <2>2, <2>3, <2>4 DEF Queued, Agree, Dequeuing, queueVars, workerVars
  <2>6. size < Capacity
    BY <1>2, <2>5
  <2>7. \A t \in Sender : spc'[t] # "store"
    BY <2>1, <2>3 DEF Within
  <2>8. UNCHANGED <<array, front, rear, wpc>>
    BY <2>3 DEF queueVars, workerVars
  <2> QED
    BY <2>2, <2>3, <2>4, <2>5, <2>6, <2>7, <2>8
    DEF Agree, Youngest, Index, Dequeuing
<1>3. CASE Signal(s)
  <2>1. \A t \in Sender : \A place \in Within :
          (spc'[t] = place) <=> (spc[t] = place)
    BY <1>3 DEF Signal, Within
  <2>2. /\ Enqueuing' <=> Enqueuing
        /\ Raised' <=> Raised
        /\ Writing' <=> Writing
        /\ \A t \in Sender : spc'[t] = "store" <=> spc[t] = "store"
    BY <2>1 DEF Enqueuing, Raised, Writing, Within
  <2>3. UNCHANGED <<array, size, front, rear, stmp, wpc, wtmp, accepted, handled>>
    BY <1>3 DEF Signal, queueVars, workerVars
  <2>4. Queued' = Queued
    BY <2>2, <2>3 DEF Queued
  <2> QED
    BY <2>2, <2>3, <2>4 DEF Agree, Youngest, Index, Dequeuing
<1>4. CASE LoadSize(s) \/ StoreSize(s) \/ AdvanceRear(s) \/ WriteSlot(s)
  <2>1. spc[s] \in Within
    BY <1>4 DEF LoadSize, StoreSize, AdvanceRear, WriteSlot, Within
  <2>2. Enqueuing /\ \A t \in Sender : t # s => spc[t] \notin Within
    BY <2>1, Where
  <2>3. ~Dequeuing /\ Queued < Capacity /\ Queued \in 0 .. Capacity
    BY <2>2 DEF Agree
  <2>4. UNCHANGED <<wpc, wtmp, front, handled>>
    BY <1>4 DEF LoadSize, StoreSize, AdvanceRear, WriteSlot, workerVars,
                queueVars, historyVars
  <2>5. ~Dequeuing' /\ wpc' # "take" /\ wpc # "take" /\ wpc' # "store"
    BY <2>3, <2>4 DEF Dequeuing
  <2>6. \A i : Index(i)' = Index(i) /\ Youngest(i)' = Youngest(i)
    BY <2>4 DEF Index, Youngest
  <2>7. CASE LoadSize(s)
    <3>1. spc[s] = "load" /\ spc' = [spc EXCEPT ![s] = "store"]
          /\ stmp' = [stmp EXCEPT ![s] = size]
          /\ UNCHANGED <<array, size, rear, accepted>>
      BY <2>7 DEF LoadSize, queueVars, historyVars
    <3>2. spc'[s] = "store" /\ \A t \in Sender : t # s => spc'[t] \notin Within
      BY <2>2, <3>1
    <3>3. ~Raised /\ ~Writing /\ Enqueuing' /\ ~Raised' /\ ~Writing'
      BY <2>2, <3>1, <3>2 DEF Enqueuing, Raised, Writing, Within
    <3>4. Queued' = Queued
      BY <2>5, <3>1, <3>3 DEF Queued
    <3>5. \A t \in Sender : spc'[t] = "store" => stmp'[t] = size'
      BY <3>1, <3>2 DEF Within
    <3> QED
      BY <2>3, <2>4, <2>5, <2>6, <3>1, <3>3, <3>4, <3>5 DEF Agree
  <2>8. CASE StoreSize(s)
    <3>1. spc[s] = "store" /\ spc' = [spc EXCEPT ![s] = "rear"]
          /\ size' = stmp[s] + 1
          /\ UNCHANGED <<array, rear, accepted>>
      BY <2>8 DEF StoreSize, historyVars
    <3>2. spc'[s] = "rear" /\ \A t \in Sender : t # s => spc'[t] \notin Within
      BY <2>2, <3>1
    <3>3. ~Raised /\ ~Writing /\ Enqueuing' /\ Raised' /\ ~Writing'
      BY <2>2, <3>1, <3>2 DEF Enqueuing, Raised, Writing, Within
    <3>4. Queued' = Queued
      <4>1. stmp[s] = size
        BY <3>1 DEF Agree
      <4> QED  BY <2>5, <3>1, <3>3, <4>1 DEF Queued
    <3>5. \A t \in Sender : spc'[t] # "store"
      BY <3>2 DEF Within
    <3> QED
      BY <2>3, <2>4, <2>5, <2>6, <3>1, <3>3, <3>4, <3>5 DEF Agree
  <2>9. CASE AdvanceRear(s)
    <3>1. spc[s] = "rear" /\ spc' = [spc EXCEPT ![s] = "write"]
          /\ rear' = queue_succ(rear)
          /\ UNCHANGED <<array, size, accepted>>
      BY <2>9 DEF AdvanceRear, historyVars
    <3>2. spc'[s] = "write" /\ \A t \in Sender : t # s => spc'[t] \notin Within
      BY <2>2, <3>1
    <3>3. Raised /\ ~Writing /\ Enqueuing' /\ Raised' /\ Writing'
      BY <2>2, <3>1, <3>2 DEF Enqueuing, Raised, Writing, Within
    <3>4. Queued' = Queued
      BY <2>5, <3>1, <3>3 DEF Queued
    <3>5. \A t \in Sender : spc'[t] # "store"
      BY <3>2 DEF Within
    <3>6. rear' = Youngest(Queued + 1)
      BY <2>3, <3>1, <3>3, Slots DEF Agree
    <3> QED
      BY <2>3, <2>4, <2>5, <2>6, <3>1, <3>3, <3>4, <3>5, <3>6 DEF Agree
  <2>10. CASE WriteSlot(s)
    <3>1. spc[s] = "write" /\ spc' = [spc EXCEPT ![s] = "signal"]
          /\ array' = [array EXCEPT ![rear] = smsg[s]]
          /\ accepted' = Append(accepted, smsg[s])
          /\ UNCHANGED <<size, rear>>
      BY <2>10 DEF WriteSlot
    <3>2. \A t \in Sender : spc'[t] \notin Within
      BY <2>2, <3>1 DEF Within
    <3>3. Raised /\ Writing /\ ~Enqueuing' /\ ~Raised' /\ ~Writing'
      BY <3>1, <3>2 DEF Enqueuing, Raised, Writing, Within
    <3>4. Queued' = Queued + 1
      BY <2>5, <3>1, <3>3 DEF Queued
    <3>5. rear = Youngest(Queued + 1) /\ rear = Index(Queued + 1)
      BY <2>3, <3>3 DEF Agree, Youngest
    <3>6. /\ Len(accepted) = Len(handled) + Queued
          /\ Len(accepted') = Len(accepted) + 1
          /\ \A i \in 1 .. Len(accepted) : accepted'[i] = accepted[i]
          /\ accepted'[Len(accepted) + 1] = smsg[s]
      BY <3>1 DEF Agree
    <3>7. \A i \in 1 .. Queued : array'[Index(i)] = array[Index(i)]
      <4> TAKE i \in 1 .. Queued
      <4>1. Index(i) # Youngest(Queued + 1)
        BY <2>3, Slots
      <4> QED  BY <3>1, <3>5, <4>1
    <3>8. array'[Index(Queued + 1)] = smsg[s]
      BY <3>1, <3>5
    <3>9. Len(handled) \in Nat
      BY LenProperties
    <3>10. \A i \in 1 .. Len(handled)' : accepted'[i] = handled'[i]
      BY <2>3, <2>4, <3>6, <3>9 DEF Agree
    <3>11. \A i \in 1 .. Queued' :
             accepted'[Len(handled)' + i] = array'[Index(i)']
      <4> SUFFICES ASSUME NEW i \in 1 .. Queued + 1
                   PROVE  accepted'[Len(handled) + i] = array'[Index(i)]
        BY <2>4, <2>6, <3>4
      <4>1. CASE i = Queued + 1
        BY <2>3, <3>6, <3>8, <3>9, <4>1
      <4>2. CASE i \in 1 .. Queued
        <5>1. Len(handled) + i \in 1 .. Len(accepted)
          BY <2>3, <3>6, <3>9, <4>2
        <5> QED  BY <3>6, <3>7, <4>2, <5>1 DEF Agree
      <4> QED  BY <2>3, <4>1, <4>2
    <3> QED
      BY <2>3, <2>4, <2>5, <2>6, <3>1, <3>2, <3>3, <3>4, <3>5, <3>6, <3>9,
         <3>10, <3>11 DEF Agree, Within
  <2> QED  BY <1>4, <2>7, <2>8, <2>9, <2>10
<1> QED  BY <1>1, <1>2, <1>3, <1>4 DEF SenderStep, Lock

LEMMA WorkerAgrees ==
  ASSUME HandoverAssumption, TypeOK, Agree, WorkerStep, ~overlapped'
  PROVE  Agree'
<1> USE DEF HandoverAssumption, TypeOK
<1>1. UNCHANGED <<array, rear, accepted, spc, stmp>>
  BY DEF WorkerStep, TestEmpty, WorkerLoadSize, WorkerStoreSize, TakeSlot,
         Wait, Awake, queueVars, senderVars, historyVars
<1>2. /\ Enqueuing' <=> Enqueuing
      /\ Raised' <=> Raised
      /\ Writing' <=> Writing
  BY <1>1 DEF Enqueuing, Raised, Writing
<1>3. ASSUME UNCHANGED <<size, front, handled>>, wpc # "take", wpc' # "take",
             Dequeuing' => ~Enqueuing /\ Queued > 0,
             wpc' = "store" => wtmp' = size
      PROVE  Agree'
  <2>1. Queued' = Queued
    BY <1>1, <1>2, <1>3 DEF Queued
  <2> QED  BY <1>1, <1>2, <1>3, <2>1 DEF Agree, Youngest, Index
<1>4. CASE TestEmpty
  <2>1. CASE size = 0
    BY <1>3, <1>4, <2>1 DEF TestEmpty, queueVars, Dequeuing
  <2>2. CASE size # 0
    <3>1. ~Enqueuing /\ ~Raised
      BY <1>4, <2>2 DEF TestEmpty, Enqueuing, Raised
    <3>2. Queued > 0
      BY <1>4, <2>2, <3>1 DEF TestEmpty, Queued, Agree
    <3> QED  BY <1>3, <1>4, <2>2, <3>1, <3>2 DEF TestEmpty, queueVars
  <2> QED  BY <2>1, <2>2
<1>5. CASE WorkerLoadSize
  <2>1. Dequeuing
    BY <1>5 DEF WorkerLoadSize, Dequeuing
  <2> QED
    BY <1>3, <1>5, <2>1 DEF WorkerLoadSize, queueVars, historyVars, Agree
<1>6. CASE Wait \/ Awake
  BY <1>3, <1>6 DEF Wait, Awake, queueVars, historyVars, Dequeuing
<1>7. CASE WorkerStoreSize
  <2>1. Dequeuing /\ Dequeuing'
    BY <1>7 DEF WorkerStoreSize, Dequeuing
  <2>2. ~Enqueuing /\ ~Raised /\ ~Writing /\ wtmp = size /\ Queued > 0
    BY <1>7, <2>1 DEF WorkerStoreSize, Agree, Enqueuing, Raised, Writing
  <2>3. size' = size - 1 /\ wpc = "store" /\ wpc' = "take"
        /\ UNCHANGED <<front, handled>>
    BY <1>7, <2>2 DEF WorkerStoreSize, historyVars
  <2>4. Queued' = Queued
    BY <1>2, <2>2, <2>3 DEF Queued
  <2>5. \A t \in Sender : spc'[t] # "store"
    BY <1>1, <2>2 DEF Enqueuing
  <2> QED
    BY <1>1, <1>2, <2>1, <2>2, <2>3, <2>4, <2>5 DEF Agree, Youngest, Index
<1>8. CASE TakeSlot
  <2>1. wpc = "take" /\ wpc' = "test" /\ front' = queue_succ(front)
        /\ handled' = Append(handled, array[front]) /\ size' = size
    BY <1>8 DEF TakeSlot
  <2>2. Dequeuing /\ ~Dequeuing'
    BY <2>1 DEF Dequeuing
  <2>3. ~Enqueuing /\ ~Raised /\ ~Writing /\ Queued > 0
        /\ Queued \in 0 .. Capacity
    BY <2>2 DEF Agree, Enqueuing, Raised, Writing
  <2>4. Queued' = Queued - 1
    BY <1>2, <2>1, <2>3 DEF Queued
  <2>5. \A i \in 1 .. Queued' : Index(i)' = Index(i + 1)
    BY <2>1, <2>3, <2>4 DEF Index, queue_succ, Slot
  <2>6. Youngest(Queued)' = Youngest(Queued)
    BY <2>1, <2>3, <2>4 DEF Index, Youngest, queue_succ, Slot
  <2>7. Len(handled) \in Nat /\ Len(handled') = Len(handled) + 1
        /\ handled'[Len(handled) + 1] = array[front]
        /\ \A i \in 1 .. Len(handled) : handled'[i] = handled[i]
    BY <2>1
  <2>8. accepted[Len(handled) + 1] = array[front]
    <3>1. 1 \in 1 .. Queued
      BY <2>3
    <3>2. Index(1) = front
      BY DEF Index, Slot
    <3> QED  BY <3>1, <3>2 DEF Agree
  <2>9. \A i \in 1 .. Len(handled') : accepted[i] = handled'[i]
    <3> TAKE i \in 1 .. Len(handled')
    <3>1. CASE i = Len(handled) + 1
      BY <2>7, <2>8, <3>1
    <3>2. CASE i \in 1 .. Len(handled)
      BY <2>7, <3>2 DEF Agree
    <3> QED  BY <2>7, <3>1, <3>2
  <2>10. \A i \in 1 .. Queued' :
           accepted[Len(handled') + i] = array[Index(i)']
    <3> TAKE i \in 1 .. Queued'
    <3>1. i + 1 \in 1 .. Queued
      BY <2>3, <2>4
    <3>2. accepted[Len(handled) + (i + 1)] = array[Index(i + 1)]
      BY <3>1 DEF Agree
    <3>3. Len(handled') + i = Len(handled) + (i + 1)
      BY <2>3, <2>4, <2>7
    <3> QED  BY <2>5, <3>2, <3>3
  <2>11. Len(accepted) = Len(handled') + Queued'
    BY <2>3, <2>4, <2>7 DEF Agree
  <2>12. rear = Youngest(Queued)
    BY <2>3 DEF Agree
  <2>13. Queued' \in 0 .. Capacity /\ \A t \in Sender : spc'[t] # "store"
    BY <1>1, <2>3, <2>4 DEF Enqueuing
  <2> QED
    BY <1>1, <1>2, <2>1, <2>2, <2>3, <2>6, <2>9, <2>10, <2>11, <2>12, <2>13
    DEF Agree
<1> QED  BY <1>4, <1>5, <1>6, <1>7, <1>8 DEF WorkerStep

LEMMA NextInv ==
  ASSUME HandoverAssumption, Inv, [Next]_vars
  PROVE  Inv'
<1>1. TypeOK' /\ Exclusive' /\ Carries'
  BY TypeStep, LockStep DEF Inv
<1>2. ASSUME ~overlapped'
      PROVE  Agree'
  <2>1. ~overlapped
    BY <1>2 DEF Next, SenderStep, WorkerStep, Lock, LoadSize, StoreSize,
                AdvanceRear, WriteSlot, Signal, TestEmpty, WorkerLoadSize,
                WorkerStoreSize, TakeSlot, Wait, Awake, SpuriousWakeUp, vars,
                historyVars
  <2>2. Agree
    BY <2>1 DEF Inv
  <2>3. ASSUME NEW s \in Sender, Lock(s) \/ SenderStep(s)
        PROVE  Agree'
    BY <1>1, <1>2, <2>2, <2>3, SenderAgrees DEF Inv
  <2>4. CASE WorkerStep
    BY <1>2, <2>2, <2>4, WorkerAgrees DEF Inv
  <2>5. CASE UNCHANGED <<queueVars, senderVars, workerVars, historyVars>>
    BY <2>2, <2>5 DEF Agree, Queued, Raised, Writing, Enqueuing, Dequeuing,
         Youngest, Index, queueVars, senderVars, workerVars, historyVars
  <2> QED
    BY <2>3, <2>4, <2>5 DEF Next, SpuriousWakeUp, vars
<1> QED  BY <1>1, <1>2 DEF Inv

\* A concatenation is known by its positions.
LEMMA ByPositions ==
  ASSUME NEW S, NEW a \in Seq(S), NEW h \in Seq(S), NEW r \in Seq(S),
         Len(a) = Len(h) + Len(r),
         \A i \in 1 .. Len(h) : a[i] = h[i],
         \A i \in 1 .. Len(r) : a[Len(h) + i] = r[i]
  PROVE  a = h \o r
<1>1. Len(h) \in Nat /\ Len(r) \in Nat
  BY LenProperties
<1>2. /\ h \o r \in Seq(S)
      /\ Len(h \o r) = Len(h) + Len(r)
      /\ \A i \in 1 .. Len(h) + Len(r) :
           (h \o r)[i] = IF i <= Len(h) THEN h[i] ELSE r[i - Len(h)]
  BY ConcatProperties
<1>3. ASSUME NEW i \in 1 .. Len(a)
      PROVE  a[i] = (h \o r)[i]
  <2>1. CASE i <= Len(h)
    BY <1>1, <1>2, <2>1
  <2>2. CASE i > Len(h)
    <3>1. i - Len(h) \in 1 .. Len(r) /\ i = Len(h) + (i - Len(h))
      BY <1>1, <2>2
    <3>2. a[Len(h) + (i - Len(h))] = r[i - Len(h)]
      BY <3>1
    <3> QED  BY <1>1, <1>2, <2>2, <3>1, <3>2
  <2> QED  BY <1>1, <2>1, <2>2
<1> QED  BY <1>2, <1>3, SeqEqual

LEMMA InvAccounted ==
  ASSUME HandoverAssumption, Inv
  PROVE  Accounted
<1> SUFFICES ASSUME ~overlapped, ~Enqueuing, ~Dequeuing
             PROVE  /\ size \in 0 .. Capacity
                    /\ accepted = handled \o [i \in 1 .. size |-> array[Index(i)]]
  BY DEF Accounted
<1> USE DEF HandoverAssumption, Inv, TypeOK
<1> DEFINE ring == [i \in 1 .. size |-> array[Index(i)]]
<1>1. Agree /\ ~Raised
  BY DEF Enqueuing, Raised
<1>2. Queued = size
  BY <1>1 DEF Queued, Dequeuing
<1>3. size \in 0 .. Capacity
  BY <1>1, <1>2 DEF Agree
<1>4. ring \in Seq(Msg \cup {NoMsg}) /\ Len(ring) = size
  <2>1. \A i \in 1 .. size : array[Index(i)] \in Msg \cup {NoMsg}
    <3> TAKE i \in 1 .. size
    <3>1. Index(i) \in Slot
      BY <1>3, Slots
    <3> QED  BY <3>1
  <2> QED  BY <1>3, <2>1
<1>5. \A i \in 1 .. size : ring[i] = array[Index(i)]
  OBVIOUS
<1>6. accepted \in Seq(Msg \cup {NoMsg}) /\ handled \in Seq(Msg \cup {NoMsg})
  OBVIOUS
<1> HIDE DEF ring, Inv, TypeOK, HandoverAssumption
<1>7. /\ Len(accepted) = Len(handled) + Len(ring)
      /\ \A i \in 1 .. Len(handled) : accepted[i] = handled[i]
      /\ \A i \in 1 .. Len(ring) : accepted[Len(handled) + i] = ring[i]
  BY <1>1, <1>2, <1>4, <1>5 DEF Agree
<1>8. accepted = handled \o ring
  BY <1>4, <1>6, <1>7, ByPositions, Zenon
<1> QED  BY <1>3, <1>8 DEF ring

LEMMA AlwaysInv == Spec => []Inv
<1>1. Init => Inv
  BY HandoverAssumption, InitInv
<1>2. Inv /\ [Next]_vars => Inv'
  BY HandoverAssumption, NextInv
<1> QED  BY <1>1, <1>2, PTL DEF Spec

\* The state of a queue and of its threads keeps its type, whatever the race
\* of size++ and size-- does to it: no index leaves the array.
THEOREM TypeCorrect == Spec => []TypeOK
<1>1. Inv => TypeOK
  BY DEF Inv
<1> QED  BY <1>1, AlwaysInv, PTL

\* As long as no enqueue meets a dequeue, no message that a caller was told
\* is accepted gets lost, doubled or out of order on its way to the worker,
\* in both variants of the scheme (event_dispatch, go_* and enqueue_and_wake).
THEOREM NothingLost == Spec => []Accounted
<1>1. Inv => Accounted
  BY HandoverAssumption, InvAccounted
<1> QED  BY <1>1, AlwaysInv, PTL
=============================================================================
