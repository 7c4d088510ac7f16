------------------------ MODULE EventDispatcherProofs ------------------------
(***************************************************************************)
(* Proofs about EventDispatcher for any number of slots and of calls: the  *)
(* safety of routing events to machines that come and go.                  *)
(***************************************************************************)
EXTENDS EventDispatcher, TLAPS, WellFoundedInduction

\* The table has a first position.
Table == Pos \subseteq Nat /\ 0 \in Pos

\* A dispatcher on its way has an event; one that looks for a machine has an
\* event of a call that its side knows.
Carries ==
  \A d \in Dispatcher :
    /\ dpc[d] # "idle" => devt[d] \in Call
    /\ dpc[d] = "find" => devt[d] \in IF d = Gui THEN guiKnows ELSE sipKnows

\* The two sections that hold queuesLock for more than a step.
LockHeld ==
  /\ \A d \in Dispatcher :
       dpc[d] = "take" => queuesLock = {<<"dispatcher", d>>}
  /\ \A c \in Call :
       mpc[c] \in {"inviting", "invited"} => queuesLock = {<<"machine", c>>}

\* What a creating dispatcher has made of its slot so far.
InTheMaking ==
  \A d \in Dispatcher :
    /\ dpc[d] = "take"  => queues[dpos[d]].stat = "free"
    /\ dpc[d] = "fill"  => queues[dpos[d]].stat = "raw"
    /\ dpc[d] = "start" =>
         /\ queues[dpos[d]].stat = "live"
         /\ queues[dpos[d]].callId = IF d = Gui THEN devt[d] ELSE NoId
         /\ queues[dpos[d]].sipCallId = IF d = Sip THEN SipId(devt[d]) ELSE NoId

\* A call that has no machine yet is new to the side that did not bring it.
New(c) == mpc[c] = "none"
Bringing(d) == dpc[d] = "create" \/ Creating(d)
Fresh ==
  /\ \A c \in Call : c > created => New(c) /\ c \notin guiKnows \cup sipKnows
  /\ \A d \in Dispatcher : Bringing(d) =>
       /\ New(devt[d]) /\ devt[d] <= created
       /\ devt[d] \notin IF d = Gui THEN sipKnows ELSE guiKnows
  /\ Bringing(Gui) /\ Bringing(Sip) => devt[Gui] # devt[Sip]

\* The slot of a machine carries no ids but those of its call, and carries
\* them as soon as the other side can use them.
Named ==
  \A c \in Call : Running(c) =>
    /\ queues[mpos[c]].callId \in {NoId, c}
    /\ queues[mpos[c]].sipCallId \in {NoId, SipId(c)}
    /\ c \in guiKnows \/ mpc[c] = "announcing" => queues[mpos[c]].callId = c
    /\ c \in sipKnows /\ mpc[c] # "invited" => queues[mpos[c]].sipCallId = SipId(c)

\* A slot that is filled in has an owner.
Owned ==
  \A p \in Pos : queues[p].stat \in {"live", "dying"} =>
    \/ \E c \in Call : Running(c) /\ mpos[c] = p
    \/ \E d \in Dispatcher : dpc[d] = "start" /\ dpos[d] = p

Typed == TypeOK /\ Table /\ Carries
Slots == LockHeld /\ InTheMaking /\ OwnSlot
Ids   == Fresh /\ Named /\ Owned
Inv   == Typed /\ Slots /\ Ids

-----------------------------------------------------------------------------
LEMMA MinIsIn ==
  ASSUME NEW S \in SUBSET Nat, S # {}
  PROVE  Min(S) \in S
<1>1. PICK x \in S : \A y \in S : ~(<<y, x>> \in OpToRel(<, Nat))
  BY NatLessThanWellFounded, WFMin
<1>2. ASSUME NEW y \in S
      PROVE  x <= y
  <2>1. y < x => <<y, x>> \in OpToRel(<, Nat)
    BY DEF OpToRel
  <2>2. ~(y < x)
    BY <1>1, <2>1, Zenon
  <2> QED  BY <2>2
<1> QED  BY <1>2 DEF Min

LEMMA InitInv ==
  ASSUME DispatcherAssumption
  PROVE  Init => Inv
<1> SUFFICES ASSUME Init PROVE Inv
  OBVIOUS
<1> USE DEF Init, DispatcherAssumption
<1>1. PICK n \in 1 .. MaxCalls : queues = [p \in 0 .. n - 1 |-> EmptySlot]
  OBVIOUS
<1>2. Pos = 0 .. n - 1 /\ 0 \in Pos /\ Pos \subseteq Nat
  BY <1>1 DEF Pos
<1>3. EmptySlot \in Slot /\ EmptySlot.stat = "free"
  BY DEF EmptySlot, Slot
<1>4. Typed
  <2>1. queues \in [Pos -> Slot]
    BY <1>1, <1>2, <1>3
  <2>2. /\ dpc \in [Dispatcher -> {"idle", "create", "take", "fill", "start",
                                "find", "put", "wake"}]
        /\ devt \in [Dispatcher -> Call \cup {NoId}]
        /\ dpos \in [Dispatcher -> Pos]
    BY <1>2
  <2>3. /\ mpc \in [Call -> {"none", "initial", "checking", "inviting", "invited",
                           "announcing", "up", "ending", "leaving", "dead"}]
        /\ mpos \in [Call -> Pos]
    BY <1>2
  <2>4. TypeOK
    <3>1. created \in 0 .. Calls
      BY DispatcherAssumption
    <3>3. crashed \in BOOLEAN
      OBVIOUS
    <3>2. /\ outgoing \in SUBSET Call /\ guiKnows \in SUBSET Call
          /\ sipKnows \in SUBSET Call
          /\ queuesLock \in SUBSET (({"dispatcher"} \X Dispatcher)
                                     \cup ({"machine"} \X Call))
      OBVIOUS
    <3> QED  BY ONLY <2>1, <2>2, <2>3, <3>1, <3>2, <3>3 DEF TypeOK
  <2> QED  BY <1>2, <2>4 DEF Typed, Table, Carries
<1>5. Slots
  BY DEF Slots, LockHeld, InTheMaking, OwnSlot, Running, Creating, Dispatcher
<1>6. Ids
  <2>1. Fresh
    BY DEF Fresh, New, Bringing, Creating, Call, Dispatcher
  <2>2. Named
    BY DEF Named, Running
  <2>3. Owned
    BY <1>1, <1>2, <1>3 DEF Owned
  <2> QED  BY <2>1, <2>2, <2>3 DEF Ids
<1> QED  BY <1>4, <1>5, <1>6 DEF Inv

-----------------------------------------------------------------------------
(* Types.  Each step writes at most one slot, or marks all of them.        *)

LEMMA SlotFields ==
  ASSUME NEW q \in Slot
  PROVE  /\ \A st \in {"free", "raw", "live", "dying"} :
              [q EXCEPT !.stat = st] \in Slot
         /\ \A c \in Call : /\ [q EXCEPT !.callId = c] \in Slot
                            /\ [q EXCEPT !.sipCallId = c] \in Slot
         /\ \A b \in BOOLEAN : [q EXCEPT !.doShutdown = b] \in Slot
         /\ \A P \in SUBSET (Dispatcher \X Call) :
              [q EXCEPT !.eventPool = P] \in Slot
         /\ q.eventPool \in SUBSET (Dispatcher \X Call)
BY DEF Slot

LEMMA SearchStaysInTable ==
  ASSUME Table, NEW S \in SUBSET Pos, S # {}
  PROVE  Min(S) \in S /\ Min(S) \in Pos
<1>1. S \in SUBSET Nat
  BY DEF Table
<1> QED  BY <1>1, MinIsIn

LEMMA ReceiveTyped ==
  ASSUME DispatcherAssumption, Typed, NEW d \in Dispatcher,
         ReceiveNewCall(d) \/ ReceiveEvent(d)
  PROVE  Typed'
<1> USE DEF Typed, TypeOK, Table, Carries, Pos, Goes, machines, world
<1>1. CASE ReceiveNewCall(d)
  <2>1. created' = created + 1 /\ created' \in Call /\ created' \in 0 .. Calls
    BY <1>1 DEF ReceiveNewCall, Call, DispatcherAssumption
  <2> QED  BY <1>1, <2>1 DEF ReceiveNewCall, Dispatcher, Gui, Sip
<1>2. CASE ReceiveEvent(d)
  BY <1>2 DEF ReceiveEvent, Dispatcher, Gui, Sip
<1> QED  BY <1>1, <1>2

LEMMA DispatcherTyped ==
  ASSUME DispatcherAssumption, Typed, NEW d \in Dispatcher, DispatcherStep(d)
  PROVE  Typed'
<1> USE DEF Typed, TypeOK, Table, Carries, Pos, Goes, Done, machines, world
<1>1. CASE CreateSearch(d)
  <2> DEFINE Free == {p \in Pos : ~Used(p)}
  <2>1. Free # {} => Min(Free) \in Pos
    BY SearchStaysInTable
  <2>2. CASE Free = {}
    BY <1>1, <2>2 DEF CreateSearch
  <2>3. CASE Free # {}
    BY <1>1, <2>1, <2>3 DEF CreateSearch
  <2> QED  BY <2>2, <2>3
<1>2. CASE CreateTake(d)
  <2>1. PICK old \in {queues[dpos[d]], EmptySlot} :
          queues' = [queues EXCEPT ![dpos[d]] = [old EXCEPT !.stat = "raw"]]
    BY <1>2 DEF CreateTake
  <2>2. queues[dpos[d]] \in Slot /\ EmptySlot \in Slot
    BY DEF Slot, EmptySlot
  <2>3. [old EXCEPT !.stat = "raw"] \in Slot
    BY <2>2, SlotFields
  <2> QED  BY <1>2, <2>1, <2>3 DEF CreateTake
<1>3. CASE CreateFill(d)
  <2> DEFINE new == [EmptySlot EXCEPT !.stat = "live",
                      !.callId    = IF d = Gui THEN devt[d] ELSE NoId,
                      !.sipCallId = IF d = Sip THEN SipId(devt[d]) ELSE NoId]
  <2>1. devt[d] \in Call /\ SipId(devt[d]) \in Call
    BY <1>3 DEF CreateFill, SipId, Call, DispatcherAssumption
  <2>2. new \in Slot
    BY <2>1 DEF Slot, EmptySlot
  <2>3. queues' = [queues EXCEPT ![dpos[d]] = new]
    BY <1>3 DEF CreateFill
  <2> HIDE DEF new
  <2> QED  BY <1>3, <2>2, <2>3 DEF CreateFill
<1>4. CASE StartMachine(d)
  BY <1>4 DEF StartMachine
<1>5. CASE Find(d)
  <2> DEFINE Match == {p \in Pos : Matches(d, p)}
  <2>1. Match # {} => Min(Match) \in Pos
    BY SearchStaysInTable
  <2>2. CASE Match = {}
    BY <1>5, <2>2 DEF Find
  <2>3. CASE Match # {}
    BY <1>5, <2>1, <2>3 DEF Find
  <2> QED  BY <2>2, <2>3
<1>6. CASE Put(d)
  <2>1. devt[d] \in Call /\ queues[dpos[d]] \in Slot
    BY <1>6 DEF Put
  <2> DEFINE q == queues[dpos[d]]
             P == q.eventPool \cup {<<d, devt[d]>>}
  <2>2. P \in SUBSET (Dispatcher \X Call)
    <3>1. q.eventPool \in SUBSET (Dispatcher \X Call)
      BY <2>1, SlotFields
    <3> HIDE DEF q
    <3> QED  BY <2>1, <3>1
  <2>3. [q EXCEPT !.eventPool = P] \in Slot
    BY <2>1, <2>2, SlotFields
  <2> QED  BY <1>6, <2>1, <2>3 DEF Put
<1>7. CASE Wake(d)
  BY <1>7 DEF Wake
<1> QED  BY <1>1, <1>2, <1>3, <1>4, <1>5, <1>6, <1>7 DEF DispatcherStep

LEMMA MachineTyped ==
  ASSUME DispatcherAssumption, Typed, NEW c \in Call, MachineStep(c)
  PROVE  Typed'
<1> USE DEF Typed, TypeOK, Table, Carries, Pos, Moves, dispatchers, machines, world
<1>0. mpos[c] \in Pos /\ queues[mpos[c]] \in Slot /\ c \in Call \cup {NoId}
      /\ SipId(c) \in Call \cup {NoId}
  BY DEF SipId, Call, DispatcherAssumption
<1>1. CASE Check(c)
  BY <1>1 DEF Check
<1>2. CASE LockToInvite(c)
  BY <1>2 DEF LockToInvite
<1>3. CASE SendInvite(c)
  BY <1>3 DEF SendInvite
<1>4. CASE SetSipCallId(c)
  <2>1. [queues[mpos[c]] EXCEPT !.sipCallId = SipId(c)] \in Slot
    BY <1>0 DEF Slot
  <2> QED  BY <1>0, <1>4, <2>1 DEF SetSipCallId
<1>5. CASE SetCallId(c)
  <2>1. [queues[mpos[c]] EXCEPT !.callId = c] \in Slot
    BY <1>0 DEF Slot
  <2> QED  BY <1>0, <1>5, <2>1, SMTT(30) DEF SetCallId
<1>6. CASE Announce(c)
  BY <1>6 DEF Announce
<1>7. CASE HandleEvent(c)
  <2>1. \A e : [queues[mpos[c]] EXCEPT !.eventPool = @ \ {e}] \in Slot
    BY <1>0 DEF Slot
  <2> QED  BY <1>0, <1>7, <2>1, SMTT(30) DEF HandleEvent
<1>8. CASE SeeShutdown(c)
  BY <1>8 DEF SeeShutdown
<1>9. CASE DisposePool(c)
  <2>1. [[queues[mpos[c]] EXCEPT !.stat = "dying"] EXCEPT !.eventPool = {}] \in Slot
    BY <1>0 DEF Slot
  <2> QED  BY <1>0, <1>9, <2>1 DEF DisposePool
<1>10. CASE FreeSlot(c)
  <2>1. [[queues[mpos[c]] EXCEPT !.stat = "free"] EXCEPT !.doShutdown = FALSE] \in Slot
    BY <1>0 DEF Slot
  <2> QED  BY <1>0, <1>10, <2>1 DEF FreeSlot
<1> QED
  BY <1>1, <1>2, <1>3, <1>4, <1>5, <1>6, <1>7, <1>8, <1>9, <1>10 DEF MachineStep

LEMMA NextTyped ==
  ASSUME DispatcherAssumption, Typed, [Next]_vars
  PROVE  Typed'
<1>1. CASE ed_shutdown_all
  <2>1. \A p \in Pos : queues[p] \in Slot
    BY DEF Typed, TypeOK
  <2>2. \A p \in Pos : [queues[p] EXCEPT !.doShutdown = TRUE] \in Slot
    BY <2>1, SlotFields
  <2> QED
    BY <1>1, <2>1, <2>2 DEF ed_shutdown_all, Typed, TypeOK, Table, Carries, Pos,
                      dispatchers, machines, world
<1>2. CASE UNCHANGED vars
  BY <1>2 DEF vars, Typed, TypeOK, Table, Carries, Pos, dispatchers, machines,
              world
<1> QED
  BY <1>1, <1>2, ReceiveTyped, DispatcherTyped, MachineTyped DEF Next

-----------------------------------------------------------------------------
(* The lock and the slots.                                                 *)

LEMMA NextLockHeld ==
  ASSUME Typed, LockHeld, [Next]_vars
  PROVE  LockHeld'
<1> USE DEF LockHeld, Typed, TypeOK, Goes, Done, Moves, dispatchers, machines
<1>1. ASSUME NEW d \in Dispatcher, ReceiveNewCall(d) \/ ReceiveEvent(d)
      PROVE  LockHeld'
  BY <1>1 DEF ReceiveNewCall, ReceiveEvent
<1>2. ASSUME NEW d \in Dispatcher, DispatcherStep(d)
      PROVE  LockHeld'
  <2>1. CASE CreateSearch(d)
    BY <2>1 DEF CreateSearch
  <2>2. CASE CreateTake(d)
    BY <2>2 DEF CreateTake
  <2>3. CASE CreateFill(d) \/ StartMachine(d) \/ Find(d) \/ Put(d) \/ Wake(d)
    <3>1. /\ UNCHANGED queuesLock
          /\ \A e \in Dispatcher : dpc'[e] = "take" => dpc[e] = "take"
          /\ \A c \in Call : mpc'[c] \in {"inviting", "invited"}
                             => mpc[c] \in {"inviting", "invited"}
      BY <2>3 DEF CreateFill, StartMachine, Find, Put, Wake
    <3> QED  BY <3>1
  <2> QED  BY <1>2, <2>1, <2>2, <2>3 DEF DispatcherStep
<1>3. ASSUME NEW c \in Call, MachineStep(c)
      PROVE  LockHeld'
  <2>1. CASE LockToInvite(c)
    BY <2>1 DEF LockToInvite
  <2>2. CASE SendInvite(c)
    BY <2>2 DEF SendInvite
  <2>3. CASE SetSipCallId(c)
    <3>1. queuesLock = {<<"machine", c>>}
      BY <2>3 DEF SetSipCallId
    <3>2. /\ \A e \in Dispatcher : dpc[e] # "take"
          /\ \A o \in Call : o # c => mpc[o] \notin {"inviting", "invited"}
      BY <3>1
    <3> QED  BY <2>3, <3>2 DEF SetSipCallId
  <2>4. CASE \/ Check(c) \/ SetCallId(c) \/ Announce(c) \/ HandleEvent(c)
             \/ SeeShutdown(c) \/ DisposePool(c) \/ FreeSlot(c)
    <3>1. /\ UNCHANGED <<queuesLock, dpc>>
          /\ \A o \in Call : mpc'[o] \in {"inviting", "invited"}
                             => mpc[o] \in {"inviting", "invited"}
      BY <2>4 DEF Check, SetCallId, Announce, HandleEvent, SeeShutdown,
                  DisposePool, FreeSlot
    <3> QED  BY <3>1
  <2> QED  BY <1>3, <2>1, <2>2, <2>3, <2>4 DEF MachineStep
<1>4. CASE ed_shutdown_all \/ UNCHANGED vars
  BY <1>4 DEF ed_shutdown_all, vars
<1> QED  BY <1>1, <1>2, <1>3, <1>4 DEF Next

\* An event is put into a pool and changes nothing else in the table.
LEMMA PutWritesPool ==
  ASSUME Typed, NEW d \in Dispatcher, Put(d)
  PROVE  /\ UNCHANGED <<devt, dpos, machines, world>>
         /\ Pos' = Pos
         /\ \A p \in Pos : /\ queues'[p].stat = queues[p].stat
                           /\ queues'[p].callId = queues[p].callId
                           /\ queues'[p].sipCallId = queues[p].sipCallId
<1>1. queues \in [Pos -> Slot] /\ dpos[d] \in Pos
  BY DEF Typed, TypeOK
<1>2. CASE queues[dpos[d]].stat = "live"
  BY <1>1, <1>2 DEF Put, Slot, Pos
<1>3. CASE queues[dpos[d]].stat # "live"
  BY <1>3 DEF Put, Pos
<1> QED  BY <1>2, <1>3

\* A dispatcher's step leaves the slots and the owners of all others alone.
LEMMA DispatcherSlots ==
  ASSUME Typed, LockHeld, InTheMaking, OwnSlot, NEW d \in Dispatcher,
         ReceiveNewCall(d) \/ ReceiveEvent(d) \/ DispatcherStep(d)
  PROVE  InTheMaking' /\ OwnSlot'
<1> USE DEF Typed, TypeOK, Carries, Goes, Done, machines, Creating, Running,
            Dispatcher, Gui, Sip
<1>1. CASE ReceiveNewCall(d) \/ ReceiveEvent(d) \/ Find(d) \/ Wake(d)
  <2>1. /\ UNCHANGED <<queues, machines>>
        /\ ~Creating(d) /\ ~Creating(d)'
        /\ \A e \in Dispatcher : e # d =>
             dpc'[e] = dpc[e] /\ devt'[e] = devt[e] /\ dpos'[e] = dpos[e]
    BY <1>1 DEF ReceiveNewCall, ReceiveEvent, Find, Wake
  <2> QED  BY <2>1 DEF InTheMaking, OwnSlot
<1>2. CASE CreateSearch(d)
  <2>1. CASE \A p \in Pos : Used(p)
    BY <1>2, <2>1 DEF CreateSearch, InTheMaking, OwnSlot
  <2>2. CASE \E p \in Pos : ~Used(p)
    <3> DEFINE Free == {p \in Pos : ~Used(p)}
               new  == Min(Free)
    <3>1. Free # {} /\ new \in Free
      BY <2>2, SearchStaysInTable
    <3>2. new \in Pos /\ queues[new].stat = "free"
      BY <3>1 DEF Used
    <3>3. /\ queuesLock = {} /\ UNCHANGED <<queues, devt, machines>>
          /\ dpc' = [dpc EXCEPT ![d] = "take"] /\ dpc[d] = "create"
          /\ dpos' = [dpos EXCEPT ![d] = new]
      BY <1>2, <2>2 DEF CreateSearch
    <3>4. \A e \in Dispatcher : dpc[e] # "take"
      BY <3>3 DEF LockHeld
    <3> HIDE DEF new
    <3>5. InTheMaking'
      BY <3>2, <3>3 DEF InTheMaking
    <3>6. \A e \in Dispatcher : Creating(e) => dpos[e] # new
      BY <3>2, <3>4 DEF InTheMaking
    <3>7. \A c \in Call : Running(c) => mpos[c] # new
      BY <3>2 DEF OwnSlot
    <3> QED  BY <3>3, <3>5, <3>6, <3>7 DEF OwnSlot
  <2> QED  BY <2>1, <2>2
<1>3. CASE CreateTake(d) \/ CreateFill(d)
  <2>1. /\ Creating(d) /\ dpos[d] \in Pos /\ UNCHANGED <<devt, dpos, machines>>
        /\ \A p \in Pos : p # dpos[d] => queues'[p] = queues[p]
        /\ Creating(d)'
        /\ \A e \in Dispatcher : e # d => dpc'[e] = dpc[e]
    BY <1>3 DEF CreateTake, CreateFill
  <2>2. /\ \A e \in Dispatcher : e # d /\ Creating(e) => dpos[e] # dpos[d]
        /\ \A c \in Call : Running(c) => mpos[c] # dpos[d]
    BY <2>1 DEF OwnSlot
  <2>3. OwnSlot'
    BY <2>1, <2>2 DEF OwnSlot
  <2>4. \/ dpc'[d] = "fill" /\ queues'[dpos[d]].stat = "raw"
        \/ /\ dpc'[d] = "start" /\ queues'[dpos[d]].stat = "live"
           /\ queues'[dpos[d]].callId = IF d = Gui THEN devt[d] ELSE NoId
           /\ queues'[dpos[d]].sipCallId
                = IF d = Sip THEN SipId(devt[d]) ELSE NoId
    <3>1. CASE CreateTake(d)
      <4>1. PICK old \in {queues[dpos[d]], EmptySlot} :
              queues' = [queues EXCEPT ![dpos[d]] = [old EXCEPT !.stat = "raw"]]
        BY <3>1 DEF CreateTake
      <4>2. old \in Slot
        <5>1. EmptySlot \in Slot
          BY DEF Slot, EmptySlot
        <5> QED  BY <2>1, <4>1, <5>1
      <4>3. queues'[dpos[d]].stat = "raw"
        BY <2>1, <4>1, <4>2 DEF Slot
      <4> QED  BY <3>1, <4>3 DEF CreateTake
    <3>2. CASE CreateFill(d)
      <4> DEFINE new == [EmptySlot EXCEPT !.stat = "live",
                          !.callId    = IF d = Gui THEN devt[d] ELSE NoId,
                          !.sipCallId = IF d = Sip THEN SipId(devt[d]) ELSE NoId]
      <4>1. queues'[dpos[d]] = new
        BY <2>1, <3>2 DEF CreateFill
      <4>2. /\ new.stat = "live"
            /\ new.callId = IF d = Gui THEN devt[d] ELSE NoId
            /\ new.sipCallId = IF d = Sip THEN SipId(devt[d]) ELSE NoId
        BY DEF EmptySlot
      <4> HIDE DEF new
      <4> QED  BY <3>2, <4>1, <4>2 DEF CreateFill
    <3> QED  BY <1>3, <3>1, <3>2
  <2>5. ASSUME NEW e \in Dispatcher, e # d, Creating(e)
        PROVE  queues'[dpos[e]] = queues[dpos[e]]
    BY <2>1, <2>2, <2>5
  <2> QED  BY <2>1, <2>3, <2>4, <2>5 DEF InTheMaking, SipId
<1>4. CASE StartMachine(d)
  <2>1. /\ dpc[d] = "start" /\ devt[d] \in Call
        /\ dpc' = [dpc EXCEPT ![d] = "idle"]
        /\ mpc' = [mpc EXCEPT ![devt[d]] = "initial"]
        /\ mpos' = [mpos EXCEPT ![devt[d]] = dpos[d]]
        /\ \A e \in Dispatcher : e # d => devt'[e] = devt[e] /\ dpos'[e] = dpos[e]
        /\ UNCHANGED queues
    BY <1>4 DEF StartMachine
  <2>2. InTheMaking'
    BY <2>1 DEF InTheMaking
  <2>3. queues[dpos[d]].stat = "live"
    BY <2>1 DEF InTheMaking
  <2>4. \A c \in Call : Running(c) => mpos[c] # dpos[d]
    BY <2>1 DEF OwnSlot
  <2>5. \A e \in Dispatcher : e # d /\ Creating(e) => dpos[e] # dpos[d]
    BY <2>1 DEF OwnSlot
  <2> QED  BY <2>1, <2>2, <2>3, <2>4, <2>5 DEF OwnSlot
<1>5. CASE Put(d)
  <2>1. /\ ~Creating(d) /\ ~Creating(d)'
        /\ \A e \in Dispatcher : e # d => dpc'[e] = dpc[e]
    BY <1>5 DEF Put
  <2> QED  BY <1>5, <2>1, PutWritesPool DEF InTheMaking, OwnSlot
<1> QED  BY <1>1, <1>2, <1>3, <1>4, <1>5 DEF DispatcherStep

\* A machine in its slot, and what its step may do to it: nobody else's slot
\* is touched.
LEMMA MachineSlots ==
  ASSUME Typed, InTheMaking, OwnSlot, NEW c \in Call, MachineStep(c)
  PROVE  InTheMaking' /\ OwnSlot'
<1> USE DEF Typed, TypeOK, Moves, dispatchers, Creating, Running
<1>1. /\ UNCHANGED dispatchers /\ Running(c) /\ mpos[c] \in Pos
      /\ \A p \in Pos : p # mpos[c] => queues'[p] = queues[p]
      /\ \A o \in Call : o # c => mpc'[o] = mpc[o] /\ mpos'[o] = mpos[o]
      /\ Running(c)' => mpos'[c] = mpos[c]
      /\ Pos' = Pos
  <2> USE DEF Pos
  <2>1. CASE \/ Check(c) \/ LockToInvite(c) \/ SendInvite(c) \/ Announce(c)
             \/ SeeShutdown(c)
    BY <2>1 DEF Check, LockToInvite, SendInvite, Announce, SeeShutdown
  <2>2. CASE SetSipCallId(c) \/ SetCallId(c) \/ DisposePool(c) \/ FreeSlot(c)
    BY <2>2 DEF SetSipCallId, SetCallId, DisposePool, FreeSlot
  <2>3. CASE HandleEvent(c)
    BY <2>3 DEF HandleEvent
  <2> QED  BY <2>1, <2>2, <2>3 DEF MachineStep
<1>2. \/ queues'[mpos[c]].stat = queues[mpos[c]].stat
         /\ Running(c)' /\ (mpc'[c] = "leaving" <=> mpc[c] = "leaving")
      \/ queues'[mpos[c]].stat = "dying" /\ mpc'[c] = "leaving"
      \/ ~Running(c)'
  <2>0. queues[mpos[c]] \in Slot
    BY <1>1
  <2>1. CASE \/ Check(c) \/ LockToInvite(c) \/ SendInvite(c) \/ Announce(c)
             \/ SeeShutdown(c)
    BY <2>1 DEF Check, LockToInvite, SendInvite, Announce, SeeShutdown
  <2>2. CASE SetSipCallId(c)
    BY <1>1, <2>0, <2>2 DEF SetSipCallId, Slot
  <2>3. CASE SetCallId(c)
    BY <1>1, <2>0, <2>3 DEF SetCallId, Slot
  <2>4. CASE HandleEvent(c)
    BY <1>1, <2>0, <2>4 DEF HandleEvent, Slot
  <2>5. CASE DisposePool(c)
    BY <1>1, <2>0, <2>5 DEF DisposePool, Slot
  <2>6. CASE FreeSlot(c)
    BY <2>6 DEF FreeSlot
  <2> QED  BY <2>1, <2>2, <2>3, <2>4, <2>5, <2>6 DEF MachineStep
<1>3. \A d \in Dispatcher : Creating(d) => dpos[d] # mpos[c]
  BY <1>1 DEF OwnSlot
<1>4. \A d \in Dispatcher : Creating(d) => queues'[dpos[d]] = queues[dpos[d]]
  BY <1>1, <1>3
<1>5. InTheMaking'
  BY <1>1, <1>4 DEF InTheMaking
<1>6. ASSUME NEW o \in Call, o # c, Running(o)
      PROVE  queues'[mpos[o]] = queues[mpos[o]] /\ mpos[o] # mpos[c]
  BY <1>1, <1>6 DEF OwnSlot
<1> QED  BY <1>1, <1>2, <1>5, <1>6 DEF OwnSlot

LEMMA NextSlots ==
  ASSUME Typed, Slots, [Next]_vars
  PROVE  Slots'
<1> USE DEF Slots
<1>1. LockHeld'
  BY NextLockHeld
<1>2. CASE ed_shutdown_all
  <2>1. \A p \in Pos : /\ queues'[p].stat = queues[p].stat
                       /\ queues'[p].callId = queues[p].callId
                       /\ queues'[p].sipCallId = queues[p].sipCallId
    BY <1>2 DEF ed_shutdown_all, Slot, Typed, TypeOK
  <2>2. UNCHANGED <<dispatchers, machines>>
    BY <1>2 DEF ed_shutdown_all
  <2> QED
    BY <1>1, <2>1, <2>2 DEF InTheMaking, OwnSlot, dispatchers, machines,
       Creating, Running, Typed, TypeOK
<1>3. CASE UNCHANGED vars
  BY <1>1, <1>3 DEF vars, InTheMaking, OwnSlot, dispatchers, machines, Creating,
                    Running
<1> QED  BY <1>1, <1>2, <1>3, DispatcherSlots, MachineSlots DEF Next

-----------------------------------------------------------------------------
(* The ids.                                                                *)

LEMMA NextFresh ==
  ASSUME DispatcherAssumption, Typed, Fresh, [Next]_vars
  PROVE  Fresh'
<1> USE DEF DispatcherAssumption, Typed, TypeOK, Carries, Fresh, New, Bringing,
            Creating, Goes, Done, Moves, dispatchers, machines, world
<1>1. ASSUME NEW d \in Dispatcher, ReceiveNewCall(d)
      PROVE  Fresh'
  <2>1. created' = created + 1 /\ created' \in Call /\ created' > created
    BY <1>1 DEF ReceiveNewCall, Call
  <2>2. New(created') /\ created' \notin guiKnows \cup sipKnows
    BY <2>1
  <2>3. \A c \in Call : c > created' => c > created /\ c # created'
    BY <2>1 DEF Call
  <2>4. \A e \in Dispatcher : Bringing(e) => devt[e] # created' /\ devt[e] <= created'
    BY <2>1 DEF Call
  <2> QED  BY <1>1, <2>1, <2>2, <2>3, <2>4 DEF ReceiveNewCall, Dispatcher, Gui, Sip
<1>2. ASSUME NEW d \in Dispatcher, ReceiveEvent(d)
      PROVE  Fresh'
  BY <1>2 DEF ReceiveEvent, Dispatcher, Gui, Sip
<1>3. ASSUME NEW d \in Dispatcher, StartMachine(d)
      PROVE  Fresh'
  BY <1>3 DEF StartMachine, Call, Dispatcher, Gui, Sip
<1>4. ASSUME NEW d \in Dispatcher,
             \/ CreateSearch(d) \/ CreateTake(d) \/ CreateFill(d) \/ Find(d)
             \/ Put(d) \/ Wake(d)
      PROVE  Fresh'
  <2>1. /\ UNCHANGED <<mpc, created, guiKnows, sipKnows>>
        /\ \A e \in Dispatcher : Bringing(e)' => Bringing(e) /\ devt'[e] = devt[e]
    BY <1>4 DEF CreateSearch, CreateTake, CreateFill, Find, Put, Wake
  <2> QED  BY <2>1 DEF Dispatcher
<1>5. ASSUME NEW c \in Call, MachineStep(c)
      PROVE  Fresh'
  <2>1. /\ UNCHANGED <<dispatchers, created>> /\ ~New(c) /\ ~New(c)'
        /\ \A o \in Call : o # c => mpc'[o] = mpc[o]
        /\ guiKnows' \subseteq guiKnows \cup {c}
        /\ sipKnows' \subseteq sipKnows \cup {c}
    BY <1>5 DEF MachineStep, Check, LockToInvite, SendInvite, SetSipCallId,
                SetCallId, Announce, HandleEvent, SeeShutdown, DisposePool,
                FreeSlot
  <2> QED  BY <2>1 DEF Dispatcher
<1>6. CASE ed_shutdown_all \/ UNCHANGED vars
  BY <1>6 DEF ed_shutdown_all, vars
<1> QED
  BY <1>1, <1>2, <1>3, <1>4, <1>5, <1>6 DEF Next, DispatcherStep

LEMMA NextOwned ==
  ASSUME Typed, Slots, Fresh, Owned, [Next]_vars
  PROVE  Owned'
<1> USE DEF Slots, Typed, TypeOK, Carries, Goes, Done, Moves, dispatchers,
            machines, Running, Pos
<1>1. ASSUME NEW d \in Dispatcher, ReceiveNewCall(d) \/ ReceiveEvent(d)
      PROVE  Owned'
  BY <1>1 DEF ReceiveNewCall, ReceiveEvent, Owned
<1>2. ASSUME NEW d \in Dispatcher, CreateSearch(d) \/ Find(d) \/ Wake(d)
      PROVE  Owned'
  BY <1>2 DEF CreateSearch, Find, Wake, Owned
<1>3. ASSUME NEW d \in Dispatcher, CreateTake(d)
      PROVE  Owned'
  <2>1. PICK old \in {queues[dpos[d]], EmptySlot} :
          queues' = [queues EXCEPT ![dpos[d]] = [old EXCEPT !.stat = "raw"]]
    BY <1>3 DEF CreateTake
  <2>2. old \in Slot
    <3>1. EmptySlot \in Slot
      BY DEF Slot, EmptySlot
    <3> QED  BY <2>1, <3>1
  <2>3. queues'[dpos[d]].stat = "raw"
    BY <2>1, <2>2 DEF Slot
  <2>4. \A p \in Pos : p # dpos[d] => queues'[p] = queues[p]
    BY <2>1
  <2>5. UNCHANGED machines /\ \A e \in Dispatcher : dpos'[e] = dpos[e]
        /\ (dpc[e] = "start" => dpc'[e] = "start") /\ Pos' = Pos
    BY <1>3, <2>1 DEF CreateTake
  <2> QED  BY <2>3, <2>4, <2>5 DEF Owned
<1>4. ASSUME NEW d \in Dispatcher, CreateFill(d)
      PROVE  Owned'
  <2>1. /\ dpc'[d] = "start" /\ dpos'[d] = dpos[d] /\ UNCHANGED machines
        /\ \A p \in Pos : p # dpos[d] => queues'[p] = queues[p]
        /\ \A e \in Dispatcher : dpos'[e] = dpos[e]
                                 /\ (dpc[e] = "start" => dpc'[e] = "start")
        /\ Pos' = Pos
    BY <1>4 DEF CreateFill
  <2> QED  BY <2>1 DEF Owned
<1>5. ASSUME NEW d \in Dispatcher, StartMachine(d)
      PROVE  Owned'
  <2>1. devt[d] \in Call /\ ~Running(devt[d])
    BY <1>5 DEF StartMachine, Fresh, Bringing, Creating, New
  <2>2. /\ UNCHANGED queues
        /\ mpc' = [mpc EXCEPT ![devt[d]] = "initial"]
        /\ mpos' = [mpos EXCEPT ![devt[d]] = dpos[d]]
        /\ \A e \in Dispatcher : e # d => dpc'[e] = dpc[e] /\ dpos'[e] = dpos[e]
    BY <1>5 DEF StartMachine
  <2>3. mpos'[devt[d]] = dpos[d] /\ mpc'[devt[d]] = "initial"
    BY <2>1, <2>2
  <2>4. \A c \in Call : Running(c) => Running(c)' /\ mpos'[c] = mpos[c]
    BY <2>1, <2>2
  <2>5. ASSUME NEW p \in Pos, queues[p].stat \in {"live", "dying"}
        PROVE  \/ \E c \in Call : Running(c)' /\ mpos'[c] = p
               \/ \E e \in Dispatcher : dpc'[e] = "start" /\ dpos'[e] = p
    <3>1. CASE \E c \in Call : Running(c) /\ mpos[c] = p
      BY <2>4, <3>1
    <3>2. CASE p = dpos[d]
      BY <2>1, <2>3, <3>2
    <3>3. CASE \E e \in Dispatcher : dpc[e] = "start" /\ dpos[e] = p /\ e # d
      BY <2>2, <3>3
    <3> QED  BY <2>5, <3>1, <3>2, <3>3 DEF Owned
  <2> QED  BY <2>2, <2>5 DEF Owned
<1>6. ASSUME NEW d \in Dispatcher, Put(d)
      PROVE  Owned'
  <2>1. \A e \in Dispatcher : dpc[e] = "start" => dpc'[e] = "start"
    BY <1>6 DEF Put
  <2> QED  BY <1>6, <2>1, PutWritesPool DEF Owned
<1>7. ASSUME NEW c \in Call, MachineStep(c)
      PROVE  Owned'
  <2>1. /\ UNCHANGED dispatchers
        /\ \A p \in Pos : p # mpos[c] => queues'[p] = queues[p]
        /\ \A o \in Call : o # c => mpc'[o] = mpc[o] /\ mpos'[o] = mpos[o]
    BY <1>7 DEF MachineStep, Check, LockToInvite, SendInvite, SetSipCallId,
                SetCallId, Announce, HandleEvent, SeeShutdown, DisposePool,
                FreeSlot
  <2>2. \/ Running(c)' /\ mpos'[c] = mpos[c]
        \/ queues'[mpos[c]].stat = "free"
    <3>1. CASE FreeSlot(c)
      <4>1. mpos[c] \in Pos /\ queues[mpos[c]] \in Slot
        OBVIOUS
      <4> QED  BY <3>1, <4>1 DEF FreeSlot, Slot
    <3>2. CASE ~FreeSlot(c)
      BY <1>7, <3>2 DEF MachineStep, Check, LockToInvite, SendInvite,
         SetSipCallId, SetCallId, Announce, HandleEvent, SeeShutdown, DisposePool
    <3> QED  BY <3>1, <3>2
  <2>3. Pos' = Pos
    BY <1>7 DEF MachineStep, Check, LockToInvite, SendInvite, SetSipCallId,
                SetCallId, Announce, HandleEvent, SeeShutdown, DisposePool,
                FreeSlot
  <2> QED  BY <2>1, <2>2, <2>3 DEF Owned
<1>8. CASE ed_shutdown_all
  <2>1. \A p \in Pos : queues'[p].stat = queues[p].stat
    BY <1>8 DEF ed_shutdown_all, Slot
  <2> QED  BY <1>8, <2>1 DEF ed_shutdown_all, Owned
<1>9. CASE UNCHANGED vars
  BY <1>9 DEF vars, Owned
<1> QED
  BY <1>1, <1>2, <1>3, <1>4, <1>5, <1>6, <1>7, <1>8, <1>9
  DEF Next, DispatcherStep

LEMMA DispatcherNamed ==
  ASSUME DispatcherAssumption, Typed, Slots, Fresh, Named,
         NEW d \in Dispatcher,
         ReceiveNewCall(d) \/ ReceiveEvent(d) \/ DispatcherStep(d)
  PROVE  Named'
<1> USE DEF DispatcherAssumption, Slots, Typed, TypeOK, Carries, Goes, Done,
            Running, machines, world
<1>1. CASE ReceiveNewCall(d)
  <2>1. created' = created + 1 /\ created' \in Call /\ ~Running(created')
    BY <1>1 DEF ReceiveNewCall, Fresh, New, Call
  <2>2. /\ UNCHANGED <<queues, machines>>
        /\ guiKnows' \subseteq guiKnows \cup {created'}
        /\ sipKnows' \subseteq sipKnows \cup {created'}
    BY <1>1 DEF ReceiveNewCall
  <2> QED  BY <2>1, <2>2 DEF Named
<1>2. CASE ReceiveEvent(d) \/ CreateSearch(d) \/ Find(d) \/ Wake(d)
  BY <1>2 DEF ReceiveEvent, CreateSearch, Find, Wake, Named
<1>3. CASE CreateTake(d) \/ CreateFill(d)
  <2>1. /\ Creating(d) /\ UNCHANGED <<machines, world>>
        /\ \A p \in Pos : p # dpos[d] => queues'[p] = queues[p]
    BY <1>3 DEF CreateTake, CreateFill, Creating
  <2>2. \A c \in Call : Running(c) => queues'[mpos[c]] = queues[mpos[c]]
    BY <2>1 DEF OwnSlot
  <2> QED  BY <2>1, <2>2 DEF Named
<1>4. CASE StartMachine(d)
  <2> DEFINE c == devt[d]
  <2>1. /\ dpc[d] = "start" /\ c \in Call /\ UNCHANGED <<queues, world>>
        /\ mpc' = [mpc EXCEPT ![c] = "initial"]
        /\ mpos' = [mpos EXCEPT ![c] = dpos[d]]
    BY <1>4 DEF StartMachine
  <2>2. /\ queues[dpos[d]].callId = IF d = Gui THEN c ELSE NoId
        /\ queues[dpos[d]].sipCallId = IF d = Sip THEN SipId(c) ELSE NoId
    BY <2>1 DEF InTheMaking
  <2>3. c \notin IF d = Gui THEN sipKnows ELSE guiKnows
    BY <2>1 DEF Fresh, Bringing, Creating
  <2> HIDE DEF c
  <2> QED  BY <2>1, <2>2, <2>3 DEF Named, Dispatcher, Gui, Sip
<1>5. CASE Put(d)
  BY <1>5, PutWritesPool, SMTT(30) DEF Named
<1> QED  BY <1>1, <1>2, <1>3, <1>4, <1>5 DEF DispatcherStep

LEMMA MachineNamed ==
  ASSUME DispatcherAssumption, Typed, Slots, Named, NEW c \in Call, MachineStep(c)
  PROVE  Named'
<1> USE DEF Slots, Typed, TypeOK, Moves, Running, world
<1>1. /\ Running(c) /\ mpos[c] \in Pos /\ queues[mpos[c]] \in Slot
      /\ \A p \in Pos : p # mpos[c] => queues'[p] = queues[p]
      /\ \A o \in Call : o # c => mpc'[o] = mpc[o] /\ mpos'[o] = mpos[o]
      /\ guiKnows' \subseteq guiKnows \cup {c}
      /\ sipKnows' \subseteq sipKnows \cup {c}
  BY DEF MachineStep, Check, LockToInvite, SendInvite, SetSipCallId, SetCallId,
         Announce, HandleEvent, SeeShutdown, DisposePool, FreeSlot
<1>2. \A o \in Call : o # c /\ Running(o) => queues'[mpos[o]] = queues[mpos[o]]
  BY <1>1 DEF OwnSlot
<1>3. ASSUME Running(c)'
      PROVE  /\ queues'[mpos'[c]].callId \in {NoId, c}
             /\ queues'[mpos'[c]].sipCallId \in {NoId, SipId(c)}
             /\ c \in guiKnows' \/ mpc'[c] = "announcing"
                  => queues'[mpos'[c]].callId = c
             /\ c \in sipKnows' /\ mpc'[c] # "invited"
                  => queues'[mpos'[c]].sipCallId = SipId(c)
  <2>1. CASE \/ Check(c) \/ LockToInvite(c) \/ SendInvite(c) \/ Announce(c)
             \/ SeeShutdown(c)
    BY <1>1, <2>1 DEF Check, LockToInvite, SendInvite, Announce, SeeShutdown,
                      Named
  <2>2. CASE SetSipCallId(c)
    BY <1>1, <2>2 DEF SetSipCallId, Slot, Named
  <2>3. CASE SetCallId(c)
    BY <1>1, <2>3 DEF SetCallId, Slot, Named
  <2>4. CASE HandleEvent(c)
    BY <1>1, <2>4 DEF HandleEvent, Slot, Named
  <2>5. CASE DisposePool(c)
    <3>1. /\ queues'[mpos[c]].callId = queues[mpos[c]].callId
          /\ queues'[mpos[c]].sipCallId = queues[mpos[c]].sipCallId
      BY <1>1, <2>5 DEF DisposePool, Slot
    <3> QED  BY <1>1, <2>5, <3>1 DEF DisposePool, Named
  <2>6. CASE FreeSlot(c)
    BY <1>3, <2>6 DEF FreeSlot
  <2> QED  BY <2>1, <2>2, <2>3, <2>4, <2>5, <2>6 DEF MachineStep
<1> QED  BY <1>1, <1>2, <1>3 DEF Named

LEMMA NextInv ==
  ASSUME DispatcherAssumption, Inv, [Next]_vars
  PROVE  Inv'
<1> USE DEF Inv, Ids
<1>1. Typed' /\ Slots' /\ Fresh' /\ Owned'
  BY NextTyped, NextSlots, NextFresh, NextOwned
<1>2. Named'
  <2>1. CASE ed_shutdown_all
    <3>1. \A p \in Pos : /\ queues'[p].callId = queues[p].callId
                         /\ queues'[p].sipCallId = queues[p].sipCallId
      BY <2>1 DEF ed_shutdown_all, Slot, Typed, TypeOK
    <3> QED  BY <2>1, <3>1 DEF ed_shutdown_all, Named, Running, machines, world,
                               Typed, TypeOK
  <2>2. CASE UNCHANGED vars
    BY <2>2 DEF vars, Named, Running, machines, world
  <2> QED  BY <2>1, <2>2, DispatcherNamed, MachineNamed DEF Next
<1> QED  BY <1>1, <1>2

LEMMA AlwaysInv == Spec => []Inv
<1>1. Init => Inv
  BY DispatcherAssumption, InitInv
<1>2. Inv /\ [Next]_vars => Inv'
  BY DispatcherAssumption, NextInv
<1> QED  BY <1>1, <1>2, PTL DEF Spec

-----------------------------------------------------------------------------
\* The threads keep within the table and the table keeps its shape, whatever
\* the dispatchers read and write outside of the lock.
THEOREM TypeCorrect == Spec => []TypeOK
<1>1. Inv => TypeOK
  BY DEF Inv, Typed
<1> QED  BY <1>1, AlwaysInv, PTL

\* A slot serves one machine from its start to its end, though destroy_queue
\* and the filling in of a new slot in create_queue do not hold the lock.
THEOREM SlotsAreExclusive == Spec => []OwnSlot
<1>1. Inv => OwnSlot
  BY DEF Inv, Slots
<1> QED  BY <1>1, AlwaysInv, PTL

LEMMA SipIdIsInjective ==
  ASSUME DispatcherAssumption, NEW c \in Call, NEW o \in Call,
         SipId(c) = SipId(o)
  PROVE  c = o
BY DEF DispatcherAssumption, SipId, Call

\* The ids of a slot that is filled in are those of the call that owns it.
LEMMA OwnersName ==
  ASSUME Inv, NEW p \in Pos, queues[p].stat \in {"live", "dying"}
  PROVE  \E c \in Call :
           /\ queues[p].callId \in {NoId, c}
           /\ queues[p].sipCallId \in {NoId, SipId(c)}
           /\ \/ Running(c) /\ mpos[c] = p
              \/ \E d \in Dispatcher : dpc[d] = "start" /\ dpos[d] = p /\ devt[d] = c
<1> USE DEF Inv, Ids, Slots
<1>1. CASE \E c \in Call : Running(c) /\ mpos[c] = p
  BY <1>1 DEF Named
<1>2. CASE \E d \in Dispatcher : dpc[d] = "start" /\ dpos[d] = p
  <2>1. PICK d \in Dispatcher : dpc[d] = "start" /\ dpos[d] = p
    BY <1>2
  <2>2. devt[d] \in Call
    BY <2>1 DEF Typed, Carries
  <2>3. /\ queues[p].callId \in {NoId, devt[d]}
        /\ queues[p].sipCallId \in {NoId, SipId(devt[d])}
    BY <2>1 DEF InTheMaking
  <2> QED  BY <2>1, <2>2, <2>3
<1> QED  BY <1>1, <1>2 DEF Owned

LEMMA InvUniqueIds ==
  ASSUME DispatcherAssumption, Inv
  PROVE  UniqueIds
<1> SUFFICES ASSUME NEW p \in Pos, NEW q \in Pos, p # q,
                    queues[p].stat \in {"live", "dying"},
                    queues[q].stat \in {"live", "dying"}
             PROVE  /\ queues[p].callId # NoId => queues[p].callId # queues[q].callId
                    /\ queues[p].sipCallId # NoId
                         => queues[p].sipCallId # queues[q].sipCallId
  BY DEF UniqueIds
<1> DEFINE Owns(c, r) ==
      \/ Running(c) /\ mpos[c] = r
      \/ \E d \in Dispatcher : dpc[d] = "start" /\ dpos[d] = r /\ devt[d] = c
<1>1. PICK c \in Call : /\ queues[p].callId \in {NoId, c}
                        /\ queues[p].sipCallId \in {NoId, SipId(c)}
                        /\ Owns(c, p)
  BY OwnersName
<1>2. PICK o \in Call : /\ queues[q].callId \in {NoId, o}
                        /\ queues[q].sipCallId \in {NoId, SipId(o)}
                        /\ Owns(o, q)
  BY OwnersName
<1>3. c # o
  <2> USE DEF Inv, Ids, Fresh, Bringing, Creating, New, Running, Dispatcher
  <2> QED  BY <1>1, <1>2
<1>4. SipId(c) # SipId(o)
  BY <1>3, SipIdIsInjective
<1>5. NoId \notin {c, o}
  BY DEF Call, NoId
<1>6. queues[p].callId # NoId => queues[p].callId # queues[q].callId
  BY <1>1, <1>2, <1>3, <1>5
<1>7. queues[p].sipCallId # NoId => queues[p].sipCallId # queues[q].sipCallId
  BY <1>1, <1>2, <1>4
<1> QED  BY <1>6, <1>7

\* No two calls answer to one call id or to one SIP call id.
THEOREM IdsAreUnique == Spec => []UniqueIds
<1>1. Inv => UniqueIds
  BY DispatcherAssumption, InvUniqueIds
<1> QED  BY <1>1, AlwaysInv, PTL

\* Who looks for a machine is dispatcher d in Find, and nobody else moves it.
LEMMA SearchIsFind ==
  ASSUME Typed, Next, NEW d \in Dispatcher, dpc[d] = "find", dpc'[d] # "find"
  PROVE  Find(d)
<1> USE DEF Typed, TypeOK, Goes, Done, Moves, dispatchers
<1>1. ASSUME NEW e \in Dispatcher,
             ReceiveNewCall(e) \/ ReceiveEvent(e) \/ DispatcherStep(e), ~Find(e)
      PROVE  dpc'[d] = "find"
  BY <1>1 DEF ReceiveNewCall, ReceiveEvent, DispatcherStep, CreateSearch,
              CreateTake, CreateFill, StartMachine, Put, Wake
<1>2. ASSUME NEW c \in Call, MachineStep(c)
      PROVE  dpc'[d] = "find"
  BY <1>2 DEF MachineStep, Check, LockToInvite, SendInvite, SetSipCallId,
              SetCallId, Announce, HandleEvent, SeeShutdown, DisposePool, FreeSlot
<1>3. CASE ed_shutdown_all
  BY <1>3 DEF ed_shutdown_all
<1>4. ASSUME NEW e \in Dispatcher, Find(e), e # d
      PROVE  dpc'[d] = "find"
  BY <1>4 DEF Find
<1> QED  BY <1>1, <1>2, <1>3, <1>4 DEF Next

\* A search under the lock meets the slot of a running machine under its id.
LEMMA RunningIsFound ==
  ASSUME DispatcherAssumption, Inv, NEW d \in Dispatcher, Find(d),
         Running(devt[d])
  PROVE  Matches(d, mpos[devt[d]]) /\ mpos[devt[d]] \in Pos
<1> USE DEF Inv, Typed, TypeOK, Slots, Ids
<1> DEFINE c == devt[d]
<1>1. dpc[d] = "find" /\ queuesLock = {}
  BY DEF Find, Goes, Done
<1>2. c \in Call /\ c \in IF d = Gui THEN guiKnows ELSE sipKnows
  BY <1>1 DEF Carries
<1>3. mpc[c] # "invited" /\ mpos[c] \in Pos
  BY <1>1, <1>2 DEF LockHeld
<1>4. Used(mpos[c])
  BY <1>2 DEF OwnSlot, Used
<1>5. IF d = Gui THEN queues[mpos[c]].callId = c
                 ELSE queues[mpos[c]].sipCallId = SipId(c)
  BY <1>2, <1>3 DEF Named
<1> QED  BY <1>3, <1>4, <1>5 DEF Matches

\* An event that finds no machine was for a call that has none: the ids are in
\* the slot before anybody can name the call.
THEOREM NoEventMisses == Spec => NothingMissed
<1>1. Inv /\ [Next]_vars =>
        [\A d \in Dispatcher :
           dpc[d] = "find" /\ dpc'[d] = "idle" => ~Running(devt[d])]_vars
  <2> SUFFICES ASSUME Inv, Next, NEW d \in Dispatcher,
                      dpc[d] = "find", dpc'[d] = "idle", Running(devt[d])
               PROVE  FALSE
    OBVIOUS
  <2>1. Find(d)
    BY SearchIsFind DEF Inv
  <2>2. \E p \in Pos : Matches(d, p)
    BY <2>1, DispatcherAssumption, RunningIsFound
  <2>3. dpc'[d] = "put"
    BY <2>1, <2>2 DEF Find, Goes, Inv, Typed, TypeOK
  <2> QED  BY <2>3
<1> QED  BY <1>1, AlwaysInv, PTL DEF Spec, NothingMissed

\* What a search finds is the slot of that call's machine, but for slots that
\* malloc made of old memory and that are not filled in yet.
LEMMA FoundBelongs ==
  ASSUME DispatcherAssumption, Inv, NEW d \in Dispatcher, dpc[d] = "find",
         NEW p \in Pos, Matches(d, p), queues[p].stat # "raw"
  PROVE  Running(devt[d]) /\ mpos[devt[d]] = p
<1> DEFINE e == devt[d]
<1>1. e \in Call /\ SipId(e) \in Call
  BY DEF Inv, Typed, Carries, SipId, Call, DispatcherAssumption
<1>2. queues[p].stat \in {"live", "dying"}
  BY DEF Matches, Used, Inv, Typed, TypeOK, Slot
<1>3. CASE \E c \in Call : Running(c) /\ mpos[c] = p
  <2>1. PICK c \in Call : Running(c) /\ mpos[c] = p
    BY <1>3
  <2>2. /\ queues[p].callId \in {NoId, c}
        /\ queues[p].sipCallId \in {NoId, SipId(c)}
    BY <2>1 DEF Inv, Ids, Named
  <2>3. e = c \/ SipId(e) = SipId(c)
    BY <1>1, <2>2 DEF Matches, Call, NoId
  <2> QED  BY <1>1, <2>1, <2>3, SipIdIsInjective
<1>4. CASE \E o \in Dispatcher : dpc[o] = "start" /\ dpos[o] = p
  <2>1. PICK o \in Dispatcher : dpc[o] = "start" /\ dpos[o] = p
    BY <1>4
  <2>2. /\ queues[p].callId = IF o = Gui THEN devt[o] ELSE NoId
        /\ queues[p].sipCallId = IF o = Sip THEN SipId(devt[o]) ELSE NoId
    BY <2>1 DEF Inv, Slots, InTheMaking
  <2>3. o # d
    BY <2>1
  <2> QED  BY <1>1, <2>2, <2>3 DEF Matches, Dispatcher, Gui, Sip, Call, NoId
<1> QED  BY <1>2, <1>3, <1>4 DEF Inv, Ids, Owned

THEOREM RightMachineFound == Spec => FoundIsRight
<1>1. Inv /\ [Next]_vars =>
        [\A d \in Dispatcher :
           dpc[d] = "find" /\ dpc'[d] = "put" /\ queues[dpos'[d]].stat # "raw"
             => Running(devt[d]) /\ mpos[devt[d]] = dpos'[d]]_vars
  <2> SUFFICES ASSUME Inv, Next, NEW d \in Dispatcher,
                      dpc[d] = "find", dpc'[d] = "put",
                      queues[dpos'[d]].stat # "raw"
               PROVE  Running(devt[d]) /\ mpos[devt[d]] = dpos'[d]
    OBVIOUS
  <2>1. Find(d)
    BY SearchIsFind DEF Inv
  <2> DEFINE Match == {p \in Pos : Matches(d, p)}
  <2>2. Match # {} /\ dpos'[d] = Min(Match)
    BY <2>1 DEF Find, Done, Goes, Inv, Typed, TypeOK
  <2>3. dpos'[d] \in Pos /\ Matches(d, dpos'[d])
    <3>1. Min(Match) \in Match
      BY <2>2, SearchStaysInTable DEF Inv, Typed
    <3> QED  BY <2>2, <3>1
  <2> QED  BY <2>3, DispatcherAssumption, FoundBelongs
<1> QED  BY <1>1, AlwaysInv, PTL DEF Spec, FoundIsRight
=============================================================================
