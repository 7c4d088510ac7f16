--------------------------- MODULE EventDispatcher ---------------------------
(***************************************************************************)
(* How events find the state machine of their call                         *)
(* (core/events/event_dispatcher.c) while machines come and go             *)
(* (core/events/statemachine.c): the table queues[] of slots, queuesLock,  *)
(* the two dispatcher threads, the machine threads and ed_shutdown_all.    *)
(*                                                                         *)
(* The table is locked to search it, to take a slot and to write an id     *)
(* into a slot; filling a new slot in, using a position that was found and *)
(* releasing a slot happen without the lock.  What a machine does with an  *)
(* event is left to CallMachine: here it goes on or ends.  Sleeping and    *)
(* waking are left to MessageHandover.                                     *)
(*                                                                         *)
(* A call is named by its number, which is also its call id.  The SIP call *)
(* ids come from another generator and run over the same numbers.          *)
(***************************************************************************)
EXTENDS Naturals, FiniteSets

CONSTANTS
  MaxCalls,   (* bound of config.core.events.dispatcher.maxCalls          *)
  Calls       (* bound of the model: calls there are in all               *)

ASSUME DispatcherAssumption ==
  /\ MaxCalls \in Nat \ {0}
  /\ Calls \in Nat \ {0}

VARIABLES
  queues,       (* the slots; as many as the configuration says           *)
  queuesLock,   (* the threads that hold it: at most one                  *)
  dpc,          (* where each dispatcher is in its loop                   *)
  devt,         (* the call of the event it dispatches                    *)
  dpos,         (* its local variable pos                                 *)
  mpc,          (* where the machine of each call is; "none" before       *)
                (* its thread runs, "dead" after                          *)
  mpos,         (* its queueId                                            *)
  outgoing,     (* the calls that the GUI made                            *)
  created,      (* number of calls so far                                 *)
  guiKnows,     (* calls whose id the GUI has                             *)
  sipKnows,     (* calls about which the SIP stack reports events         *)
  crashed       (* a thread used a slot that is not there                 *)

dispatchers == <<dpc, devt, dpos>>
machines    == <<mpc, mpos>>
world       == <<outgoing, created, guiKnows, sipKnows>>
vars == <<queues, queuesLock, dispatchers, machines, world, crashed>>

Call == 1 .. Calls
Pos  == DOMAIN queues
NoId == 0

Gui == "gui"                       \* EVT_DP_GUI_EVTS_ID
Sip == "sip"                       \* EVT_DP_SIP_EVTS_ID
Dispatcher == {Gui, Sip}

\* stat: free; raw, allocated but not filled in; live; dying, its pool
\* released but the slot still in the table.  A free slot keeps the ids: that
\* is the memory malloc may hand out again.
Slot == [stat : {"free", "raw", "live", "dying"},
         callId : {NoId} \cup Call, sipCallId : {NoId} \cup Call,
         doShutdown : BOOLEAN,
         eventPool : SUBSET (Dispatcher \X Call)]

EmptySlot == [stat |-> "free", callId |-> NoId, sipCallId |-> NoId,
              doShutdown |-> FALSE, eventPool |-> {}]

Used(p) == queues[p].stat # "free"

\* the id that the SIP stack has for the call
SipId(c) == Calls + 1 - c

Min(S) == CHOOSE x \in S : \A y \in S : x <= y

-----------------------------------------------------------------------------
Init ==
  /\ \E maxCalls \in 1 .. MaxCalls :
       queues = [p \in 0 .. maxCalls - 1 |-> EmptySlot]
  /\ queuesLock = {}
  /\ dpc = [d \in Dispatcher |-> "idle"]
  /\ devt = [d \in Dispatcher |-> NoId]
  /\ dpos = [d \in Dispatcher |-> 0]
  /\ mpc = [c \in Call |-> "none"] /\ mpos = [c \in Call |-> 0]
  /\ outgoing = {} /\ created = 0 /\ guiKnows = {} /\ sipKnows = {}
  /\ crashed = FALSE

\* Dispatcher d goes from a to b.
Goes(d, a, b) == ~crashed /\ dpc[d] = a /\ dpc' = [dpc EXCEPT ![d] = b]

\* Its local variables are dead when it comes back for the next event.
Done(d, a) ==
  /\ Goes(d, a, "idle")
  /\ devt' = [devt EXCEPT ![d] = NoId]
  /\ dpos' = [dpos EXCEPT ![d] = 0]

\* An event is taken from the message pool: makeCall or an INVITE ...
ReceiveNewCall(d) ==
  /\ created < Calls
  /\ Goes(d, "idle", "create")
  /\ created' = created + 1
  /\ devt' = [devt EXCEPT ![d] = created']
  /\ outgoing' = IF d = Gui THEN outgoing \cup {created'} ELSE outgoing
  /\ guiKnows' = IF d = Gui THEN guiKnows \cup {created'} ELSE guiKnows
  /\ sipKnows' = IF d = Sip THEN sipKnows \cup {created'} ELSE sipKnows
  /\ UNCHANGED <<queues, queuesLock, dpos, machines, crashed>>

\* ... or one for a call that GUI or SIP stack know, over or not.
ReceiveEvent(d) ==
  /\ Goes(d, "idle", "find")
  /\ \E c \in IF d = Gui THEN guiKnows ELSE sipKnows :
       devt' = [devt EXCEPT ![d] = c]
  /\ UNCHANGED <<queues, queuesLock, dpos, machines, world, crashed>>

-----------------------------------------------------------------------------
\* Plausible mistake in CreateSearch: the table is searched without the lock.
CreateSearch_unlocked(d) ==
  /\ Goes(d, "create", "take")
  /\ \E p \in Pos : ~Used(p) /\ dpos' = [dpos EXCEPT ![d] = Min({q \in Pos : ~Used(q)})]
  /\ UNCHANGED <<queues, queuesLock, devt, machines, world, crashed>>

\* create_queue: lock and search; a full table refuses the call
CreateSearch(d) ==
  /\ queuesLock = {}
  /\ \/ /\ \A p \in Pos : Used(p)
        /\ Done(d, "create")
        /\ UNCHANGED queuesLock
     \/ /\ \E p \in Pos : ~Used(p)
        /\ Goes(d, "create", "take") /\ UNCHANGED devt
        /\ queuesLock' = {<<"dispatcher", d>>}
        /\ dpos' = [dpos EXCEPT ![d] = Min({p \in Pos : ~Used(p)})]
  /\ UNCHANGED <<queues, machines, world, crashed>>

\* malloc and unlock: the fields hold what the memory held
CreateTake(d) ==
  /\ Goes(d, "take", "fill")
  /\ \E old \in {queues[dpos[d]], EmptySlot} :
       queues' = [queues EXCEPT ![dpos[d]] = [old EXCEPT !.stat = "raw"]]
  /\ queuesLock' = {}
  /\ UNCHANGED <<devt, dpos, machines, world, crashed>>

\* the assignments after the unlock
CreateFill(d) ==
  /\ Goes(d, "fill", "start")
  /\ queues' = [queues EXCEPT ![dpos[d]] =
                 [EmptySlot EXCEPT !.stat = "live",
                   !.callId    = IF d = Gui THEN devt[d] ELSE NoId,
                   !.sipCallId = IF d = Sip THEN SipId(devt[d]) ELSE NoId]]
  /\ UNCHANGED <<queuesLock, devt, dpos, machines, world, crashed>>

\* enqueue_event and start_thread.  The machine starts with this event.
StartMachine(d) ==
  /\ Done(d, "start")
  /\ mpc' = [mpc EXCEPT ![devt[d]] = "initial"]
  /\ mpos' = [mpos EXCEPT ![devt[d]] = dpos[d]]
  /\ UNCHANGED <<queues, queuesLock, world, crashed>>

-----------------------------------------------------------------------------
\* Plausible mistake in Matches: one loop for both kinds of id.
Matches_callId(d, p) ==
  /\ Used(p)
  /\ queues[p].callId = IF d = Gui THEN devt[d] ELSE SipId(devt[d])

Matches(d, p) ==
  /\ Used(p)
  /\ IF d = Gui THEN queues[p].callId = devt[d]
                ELSE queues[p].sipCallId = SipId(devt[d])

\* Plausible mistake in Find: the result of the search is not checked.
Find_unchecked(d) ==
  /\ queuesLock = {}
  /\ Goes(d, "find", "put")
  /\ \/ /\ \A p \in Pos : ~Matches(d, p)
        /\ dpos' = [dpos EXCEPT ![d] = MaxCalls]
     \/ /\ \E p \in Pos : Matches(d, p)
        /\ dpos' = [dpos EXCEPT ![d] = Min({p \in Pos : Matches(d, p)})]
  /\ UNCHANGED <<queues, queuesLock, devt, machines, world, crashed>>

\* find_pos_by_call_id, find_pos_by_sip_call_id: lock, search, unlock.  An
\* event without a machine is dropped.
Find(d) ==
  /\ queuesLock = {}
  /\ \/ /\ \A p \in Pos : ~Matches(d, p)
        /\ Done(d, "find")
     \/ /\ \E p \in Pos : Matches(d, p)
        /\ Goes(d, "find", "put") /\ UNCHANGED devt
        /\ dpos' = [dpos EXCEPT ![d] = Min({p \in Pos : Matches(d, p)})]
  /\ UNCHANGED <<queues, queuesLock, machines, world, crashed>>

\* enqueue_event, wherever the position leads by now
Put(d) ==
  /\ Goes(d, "put", "wake")
  /\ IF queues[dpos[d]].stat = "live"
     THEN /\ queues' = [queues EXCEPT ![dpos[d]].eventPool =
                          @ \cup {<<d, devt[d]>>}]
          /\ UNCHANGED crashed
     ELSE crashed' = TRUE /\ UNCHANGED queues
  /\ UNCHANGED <<queuesLock, devt, dpos, machines, world>>

\* wake_machine; again by position
Wake(d) ==
  /\ Done(d, "wake")
  /\ crashed' = (queues[dpos[d]].stat # "live")
  /\ UNCHANGED <<queues, queuesLock, machines, world>>

-----------------------------------------------------------------------------
\* The machine of call c goes from a to b.
Moves(c, a, b) == ~crashed /\ mpc[c] = a /\ mpc' = [mpc EXCEPT ![c] = b]

\* INITIAL of an outgoing call; checking.OnEntry takes the lock to enqueue the
\* verdict on the account, into its own slot
Check(c) ==
  /\ c \in outgoing /\ queuesLock = {}
  /\ Moves(c, "initial", "checking") \/ Moves(c, "initial", "ending")
  /\ UNCHANGED <<queues, queuesLock, dispatchers, mpos, world, crashed>>

\* Plausible mistake in LockToInvite: the lock is forgotten.
LockToInvite_forgotten(c) ==
  /\ Moves(c, "checking", "inviting")
  /\ UNCHANGED <<queues, queuesLock, dispatchers, mpos, world, crashed>>

\* inviting.OnEntry: the lock is taken before the INVITE is sent ...
LockToInvite(c) ==
  /\ queuesLock = {}
  /\ \/ Moves(c, "checking", "inviting") /\ queuesLock' = {<<"machine", c>>}
     \/ Moves(c, "checking", "ending") /\ UNCHANGED queuesLock
  /\ UNCHANGED <<queues, dispatchers, mpos, world, crashed>>

\* ... and from here on answers may arrive.  If it cannot be sent the handler
\* returns without unlocking.
SendInvite(c) ==
  /\ \/ Moves(c, "inviting", "invited") /\ sipKnows' = sipKnows \cup {c}
     \/ Moves(c, "inviting", "ending") /\ UNCHANGED sipKnows
  /\ UNCHANGED <<queues, queuesLock, dispatchers, mpos, outgoing, created,
                 guiKnows, crashed>>

\* Plausible mistake in SetSipCallId: the unlock is forgotten.
SetSipCallId_locked(c) ==
  /\ Moves(c, "invited", "up")
  /\ queues' = [queues EXCEPT ![mpos[c]].sipCallId = SipId(c)]
  /\ UNCHANGED <<queuesLock, dispatchers, mpos, world, crashed>>

SetSipCallId(c) ==
  /\ Moves(c, "invited", "up")
  /\ queues' = [queues EXCEPT ![mpos[c]].sipCallId = SipId(c)]
  /\ queuesLock' = {}
  /\ UNCHANGED <<dispatchers, mpos, world, crashed>>

\* Plausible mistake in SetCallId: the SIP call id takes the place of the own.
SetCallId_sip(c) ==
  /\ c \notin outgoing /\ queuesLock = {}
  /\ Moves(c, "initial", "announcing")
  /\ queues' = [queues EXCEPT ![mpos[c]].callId = SipId(c)]
  /\ UNCHANGED <<queuesLock, dispatchers, mpos, world, crashed>>

\* INITIAL of an incoming call: the id goes into the slot under the lock ...
SetCallId(c) ==
  /\ c \notin outgoing /\ queuesLock = {}
  /\ \/ /\ Moves(c, "initial", "announcing")
        /\ queues' = [queues EXCEPT ![mpos[c]].callId = c]
     \/ Moves(c, "initial", "ending") /\ UNCHANGED queues
  /\ UNCHANGED <<queuesLock, dispatchers, mpos, world, crashed>>

\* ... and then to the GUI
Announce(c) ==
  /\ Moves(c, "announcing", "up") \/ Moves(c, "announcing", "ending")
  /\ guiKnows' = guiKnows \cup {c}
  /\ UNCHANGED <<queues, queuesLock, dispatchers, mpos, outgoing, created,
                 sipKnows, crashed>>

\* An event is handled: the call goes on or ends.  After it, and when it
\* wakes up, the machine looks at doShutdown.
HandleEvent(c) ==
  /\ ~crashed /\ mpc[c] = "up"
  /\ \E e \in queues[mpos[c]].eventPool :
       queues' = [queues EXCEPT ![mpos[c]].eventPool = @ \ {e}]
  /\ mpc' \in {mpc, [mpc EXCEPT ![c] = "ending"]}
  /\ UNCHANGED <<queuesLock, dispatchers, mpos, world, crashed>>

SeeShutdown(c) ==
  /\ queues[mpos[c]].doShutdown
  /\ Moves(c, "up", "ending") \/ Moves(c, "checking", "ending")
  /\ UNCHANGED <<queues, queuesLock, dispatchers, mpos, world, crashed>>

\* destroy_queue: the pool is released ...
DisposePool(c) ==
  /\ Moves(c, "ending", "leaving")
  /\ queues' = [queues EXCEPT ![mpos[c]].stat = "dying",
                              ![mpos[c]].eventPool = {}]
  /\ UNCHANGED <<queuesLock, dispatchers, mpos, world, crashed>>

\* ... then the slot; neither under the lock
FreeSlot(c) ==
  /\ Moves(c, "leaving", "dead")
  /\ queues' = [queues EXCEPT ![mpos[c]].stat = "free",
                              ![mpos[c]].doShutdown = FALSE]
  /\ mpos' = [mpos EXCEPT ![c] = 0]
  /\ UNCHANGED <<queuesLock, dispatchers, world, crashed>>

-----------------------------------------------------------------------------
\* ed_shutdown_all: every slot in the table is marked, filled in or not.
ed_shutdown_all ==
  /\ ~crashed /\ queuesLock = {}
  /\ \E p \in Pos : Used(p) /\ ~queues[p].doShutdown
  /\ queues' = [p \in Pos |-> IF Used(p)
                              THEN [queues[p] EXCEPT !.doShutdown = TRUE]
                              ELSE queues[p]]
  /\ UNCHANGED <<queuesLock, dispatchers, machines, world, crashed>>

-----------------------------------------------------------------------------
DispatcherStep(d) ==
  \/ CreateSearch(d) \/ CreateTake(d) \/ CreateFill(d) \/ StartMachine(d)
  \/ Find(d) \/ Put(d) \/ Wake(d)

MachineStep(c) ==
  \/ Check(c) \/ LockToInvite(c) \/ SendInvite(c) \/ SetSipCallId(c)
  \/ SetCallId(c) \/ Announce(c)
  \/ HandleEvent(c) \/ SeeShutdown(c) \/ DisposePool(c) \/ FreeSlot(c)

Next ==
  \/ \E d \in Dispatcher : ReceiveNewCall(d) \/ ReceiveEvent(d) \/ DispatcherStep(d)
  \/ \E c \in Call : MachineStep(c)
  \/ ed_shutdown_all

Spec == Init /\ [][Next]_vars

\* Every thread runs, and a free lock is given to everyone who keeps asking.
FairSpec ==
  /\ Spec
  /\ \A d \in Dispatcher : SF_vars(DispatcherStep(d))
  /\ \A c \in Call : SF_vars(MachineStep(c))

-----------------------------------------------------------------------------
TypeOK ==
  /\ queues \in [Pos -> Slot]
  /\ queuesLock \in SUBSET (({"dispatcher"} \X Dispatcher) \cup ({"machine"} \X Call))
  /\ dpc \in [Dispatcher -> {"idle", "create", "take", "fill", "start", "find",
                             "put", "wake"}]
  /\ devt \in [Dispatcher -> Call \cup {NoId}]
  /\ dpos \in [Dispatcher -> Pos]
  /\ mpc \in [Call -> {"none", "initial", "checking", "inviting", "invited",
                       "announcing", "up", "ending", "leaving", "dead"}]
  /\ mpos \in [Call -> Pos]
  /\ outgoing \in SUBSET Call /\ guiKnows \in SUBSET Call
  /\ sipKnows \in SUBSET Call
  /\ created \in 0 .. Calls
  /\ crashed \in BOOLEAN

Running(c) == mpc[c] \notin {"none", "dead"}

\* A dispatcher that is creating a slot.
Creating(d) == dpc[d] \in {"take", "fill", "start"}

\* A slot belongs to one machine from its start until it has released the
\* slot itself, and to one creating dispatcher before that: nobody takes or
\* releases the slot of another call, although slots are released without the
\* lock under which they are taken.
OwnSlot ==
  /\ \A c \in Call : Running(c) =>
       /\ queues[mpos[c]].stat = IF mpc[c] = "leaving" THEN "dying" ELSE "live"
       /\ \A o \in Call \ {c} : Running(o) => mpos[o] # mpos[c]
       /\ \A d \in Dispatcher : Creating(d) => dpos[d] # mpos[c]
  /\ dpos[Gui] = dpos[Sip] => ~(Creating(Gui) /\ Creating(Sip))

\* An id leads to one machine at most.
UniqueIds ==
  \A p, q \in Pos :
    /\ p # q
    /\ queues[p].stat \in {"live", "dying"} /\ queues[q].stat \in {"live", "dying"}
    => /\ queues[p].callId # NoId => queues[p].callId # queues[q].callId
       /\ queues[p].sipCallId # NoId => queues[p].sipCallId # queues[q].sipCallId

\* An event is dropped for want of a machine only if the call was refused or
\* is over.  In particular an answer cannot come before the slot carries the
\* SIP call id (statemachine.c:97) and the GUI cannot name an incoming call
\* before the slot carries its call id (statemachine.c:281).
NothingMissed ==
  [][\A d \in Dispatcher :
       dpc[d] = "find" /\ dpc'[d] = "idle" => ~Running(devt[d])]_vars

\* What a search finds is the slot of the machine of that call, as long as it
\* does not find one that is not filled in yet.
FoundIsRight ==
  [][\A d \in Dispatcher :
       dpc[d] = "find" /\ dpc'[d] = "put" /\ queues[dpos'[d]].stat # "raw"
         => Running(devt[d]) /\ mpos[devt[d]] = dpos'[d]]_vars

\* A machine that is on its way out has taken queuesLock with it.
Leaked == \E c \in Call : <<"machine", c>> \in queuesLock
                         /\ mpc[c] \in {"ending", "leaving", "dead"}

\* The dispatchers come back for the next event, unless an INVITE could not
\* be sent (statemachine.c:109 returns with the lock) or the process crashed.
NotStuckUnlessLeaked ==
  \A d \in Dispatcher : dpc[d] # "idle" ~> dpc[d] = "idle" \/ crashed \/ Leaked

\* doxygen.dox:20, "Every call has its own statemachine, so parallel calls are
\* no problem": a call whose INVITE cannot be sent does not hold up the others.
ParallelCalls ==
  \A d \in Dispatcher : dpc[d] # "idle" ~> dpc[d] = "idle" \/ crashed
=============================================================================
