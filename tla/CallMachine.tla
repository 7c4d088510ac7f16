----------------------------- MODULE CallMachine -----------------------------
(***************************************************************************)
(* One call: the state machine thread of core/events/statemachine.c with   *)
(* its event pool, its transactions (core/events/transaction_info.c), the  *)
(* GUI and the other party (peer), as the SIP stack reports it.            *)
(*                                                                         *)
(* A handler is one step, but for the one that puts an event into the pool *)
(* itself.  Events are names; what a handler reads of a SIP event beside   *)
(* its kind is whether it carries a dialog id and the id of which          *)
(* transaction.  How events find the slot of the call is the subject of    *)
(* EventDispatcher.                                                        *)
(*                                                                         *)
(* The pool is a queue as long as enqueue and dequeue take turns.  The     *)
(* machine takes neither poolLock to dequeue nor to enqueue its verdict on *)
(* the account, so that a dispatcher can run into it: the pool is damaged  *)
(* then, and may give any event, stale memory or none (MessageHandover has *)
(* the single statements).                                                 *)
(***************************************************************************)
EXTENDS Naturals, Sequences

CONSTANTS
  MaxEvents,  (* config.core.events.dispatcher.maxEvents                  *)
  MaxInputs   (* bound of the model: events that GUI, SIP stack and       *)
              (* shutdown offer after the first, and that a damaged pool  *)
              (* makes up                                                 *)

ASSUME CallAssumption ==
  /\ MaxEvents \in Nat \ {0}
  /\ MaxInputs \in Nat

VARIABLES
  curState,      (* sm_state                                              *)
  pc,            (* where sm_start is: see Pc                             *)
  errorOccurred,
  pool,          (* eventPool of the slot, <<>> once it is damaged        *)
  damaged,       (* two threads were in eventPool at the same time        *)
  doShutdown,    (* of the slot, set by ed_shutdown_all                   *)
  waking,        (* threads between what they did and its signal          *)
  dialogId,      (* callInfo.dialogId, 0 or Dialog                        *)
  transactions,  (* callInfo.transactions: <<id, type>> of those in use   *)
  out,           (* history: what the machine told the GUI and the SIP    *)
                 (* stack, in order                                       *)
  peer,          (* the other party: see Peer                             *)
  inputs         (* number of events offered so far                       *)

callInfo == <<dialogId, transactions>>
machine  == <<curState, pc, errorOccurred>>
slot     == <<damaged, doShutdown, waking>>
vars == <<machine, pool, slot, callInfo, out, peer, inputs>>

Dialog == 1                   \* the id the SIP stack gives to the dialog

State == {"INITIAL", "CHECKING", "INVITING", "RINGING", "CONNECTING",
          "CONNECTED", "TERMINATING", "FINAL"}

\* "verdict": in sm_checking_state_on_entry, before its enqueue.  "check": a
\* handler has returned.  "sleepy": found the pool empty, not yet waiting.
\* "asleep": waits for wakeUp.  "woken": the wait is over.
Pc == {"loop", "verdict", "check", "sleepy", "asleep", "woken", "stopped"}

\* who signals wakeUp: the dispatcher thread of either kind of events, and
\* ed_shutdown_all
Dispatcher == {"gui", "sip"}
Waker == Dispatcher \cup {"shutdown"}

GuiEvent == {"GUI_END_CALL", "GUI_ACCEPT_CALL"}

\* SIPLISTENER_RECEIVE: "100" to "2xx" are responses with that status code,
\* "183" any other provisional one, "REFUSED" one with 300 to 699, CLOSED is
\* EXOSIP_CALL_CLOSED, CANCEL the same with status 487.
Response == {"100", "180", "183", "2xx", "REFUSED", "RELEASED"}
SipEvent == Response \cup {"INVITE", "ACK", "CANCEL", "CLOSED"}

Verdict == {"ACCOUNT_OK", "ACCOUNT_ERROR"}

Event == GuiEvent \cup SipEvent \cup Verdict \cup {"GUI_MAKE_CALL"}

\* unaware: no INVITE reached it.  alerted: it has our INVITE.  calling: we
\* have its INVITE.  talking: it takes the call for established.
\* left: it did so and the call is over.  gone: the call is over, or the SIP
\* stack gave it up, before it came to that.
Peer == {"unaware", "alerted", "calling", "talking", "left", "gone"}

\* the other party when the call ends for it
Over == IF peer \in {"talking", "left"} THEN "left" ELSE "gone"

Has(seq, x) == \E i \in DOMAIN seq : seq[i] = x

-----------------------------------------------------------------------------
\* transaction_info.c.  The table has MAX_TRANSACTION_COUNT = 10 entries and
\* entries are never cleared; a call has at most two transaction ids.
TransactionId(e) == CASE e = "RELEASED" -> 0
                      [] e = "CLOSED" -> 2
                      [] OTHER -> 1

DialogIdOf(e) == IF e \in {"100", "REFUSED", "RELEASED"} THEN 0 ELSE Dialog

found(type, table) == \E t \in table : t[2] = type

Known(e) == \E t \in transactions : t[1] = TransactionId(e)

\* The event of an unknown transaction registers it, and leaves the dialog
\* alone.
update_transaction_and_dialog(e, type) ==
  /\ transactions' = IF TransactionId(e) < 1 \/ Known(e)
                     THEN transactions
                     ELSE transactions \cup {<<TransactionId(e), type>>}
  /\ dialogId' = IF TransactionId(e) >= 1 /\ Known(e) /\ DialogIdOf(e) # 0
                 THEN DialogIdOf(e) ELSE dialogId

-----------------------------------------------------------------------------
Init ==
  /\ curState = "INITIAL" /\ pc = "loop" /\ errorOccurred = FALSE
  /\ damaged = FALSE /\ doShutdown = FALSE /\ waking = {}
  /\ dialogId = 0 /\ transactions = {}
  /\ out = <<>>
  /\ inputs = 0
  /\ \/ pool = <<"GUI_MAKE_CALL">> /\ peer = "unaware"
     \/ pool = <<"INVITE">> /\ peer = "calling"

\* queue_front_and_dequeue gives e; a damaged pool may give anything
Takes(e) == IF damaged THEN inputs < MaxInputs
                       ELSE pool # <<>> /\ Head(pool) = e

\* in state s: e is the trigger of the handler
Handles(s, e) ==
  /\ pc = "loop" /\ curState = s
  /\ Takes(e)

\* the handler returns 1
Goto(s, outs) ==
  /\ curState' = s
  /\ out' = out \o outs
  /\ pc' = IF s = "FINAL" THEN "stopped" ELSE "check"
  /\ UNCHANGED errorOccurred

\* The handler returns 0 having done outs: a callback queue is full, the SIP
\* stack refuses, the account is gone.  Nobody is told, nothing undone.
Fail(outs) ==
  /\ errorOccurred' = TRUE
  /\ pc' = "stopped"
  /\ out' = out \o outs
  /\ UNCHANGED curState

\* what the handlers of queued events have in common
Consume ==
  /\ IF damaged THEN UNCHANGED pool /\ inputs' = inputs + 1
                ELSE pool' = Tail(pool) /\ UNCHANGED inputs
  /\ UNCHANGED slot

-----------------------------------------------------------------------------
\* sm_initial_state, GUI.makeCall, up to the enqueue of
\* sm_checking_state_on_entry
MakeCall ==
  /\ Handles("INITIAL", "GUI_MAKE_CALL")
  /\ Consume
  /\ pc' = "verdict"
  /\ dialogId' = 0
  /\ UNCHANGED <<curState, errorOccurred, transactions, out, peer>>

\* Plausible mistake in GiveVerdict: the full pool is not noticed.
GiveVerdict_unchecked ==
  /\ pc = "verdict"
  /\ \/ \E verdict \in Verdict : pool' = Append(pool, verdict)
     \/ Len(pool) = MaxEvents /\ UNCHANGED pool
  /\ Goto("CHECKING", <<>>)
  /\ UNCHANGED <<slot, callInfo, peer, inputs>>

\* sm_checking_state_on_entry puts its verdict on the account into the pool,
\* behind what came in meanwhile, and signals nobody: the machine is awake.
\* It fails if the dispatchers have filled the pool since the dequeue.
GiveVerdict ==
  /\ pc = "verdict"
  /\ \/ /\ damaged \/ Len(pool) < MaxEvents
        /\ \E verdict \in Verdict :
             pool' = IF damaged THEN pool ELSE Append(pool, verdict)
        /\ Goto("CHECKING", <<>>)
     \/ /\ damaged \/ Len(pool) = MaxEvents
        /\ Fail(<<>>) /\ UNCHANGED pool
  /\ UNCHANGED <<slot, callInfo, peer, inputs>>

\* sm_initial_state, INVITE: an unknown callee is not answered at all
Invited ==
  /\ Handles("INITIAL", "INVITE")
  /\ Consume
  /\ \/ Fail(<<>>) /\ UNCHANGED <<callInfo, peer>>
     \/ /\ dialogId' = DialogIdOf("INVITE")
        /\ transactions' = {<<TransactionId("INVITE"), "INVITE_TRANSACTION">>}
        /\ \/ Goto("RINGING", <<"INCOMING", "180">>)
           \/ Fail(<<"INCOMING">>)
        /\ UNCHANGED peer

\* sm_checking_state; sm_inviting_state_on_entry
AccountOK ==
  /\ Handles("CHECKING", "ACCOUNT_OK")
  /\ Consume
  /\ \/ Goto("INVITING", <<"INVITE">>) /\ peer' = "alerted"
     \/ Fail(<<>>) /\ UNCHANGED peer
  /\ UNCHANGED callInfo

AccountError ==
  /\ Handles("CHECKING", "ACCOUNT_ERROR")
  /\ Consume
  /\ Goto("TERMINATING", <<"CALL_FAILED">>) \/ Fail(<<>>)
  /\ UNCHANGED <<callInfo, peer>>

\* sm_inviting_state, SipListener.receive
StatusOf(e) == CASE e = "180"           -> "RINGING"
                 [] e \in {"100", "183"} -> "TRYING"
                 [] e = "REFUSED"       -> "DECLINED"
                 [] e = "RELEASED"      -> "UNREACHABLE"

InvitingResponse(e) ==
  /\ e \in Response \ {"2xx"}
  /\ Handles("INVITING", e)
  /\ Consume
  /\ update_transaction_and_dialog(e, "INVITE_TRANSACTION")
  /\ \/ Goto(IF e \in {"REFUSED", "RELEASED"} THEN "TERMINATING" ELSE "INVITING",
             <<StatusOf(e)>>)
     \/ Fail(<<>>)
  /\ UNCHANGED peer

\* Plausible mistake in InvitingAnswered: the GUI is told before the ACK.
InvitingAnswered_early ==
  /\ Handles("INVITING", "2xx")
  /\ Consume
  /\ update_transaction_and_dialog("2xx", "INVITE_TRANSACTION")
  /\ \/ dialogId' # 0 /\ Goto("CONNECTED", <<"ACCEPTED", "ACK">>)
     \/ Fail(<<"ACCEPTED">>)
  /\ UNCHANGED peer

\* The ACK needs the dialog: without it the SIP stack cannot build it.
InvitingAnswered ==
  /\ Handles("INVITING", "2xx")
  /\ Consume
  /\ update_transaction_and_dialog("2xx", "INVITE_TRANSACTION")
  /\ \/ dialogId' # 0 /\ Goto("CONNECTED", <<"ACK", "ACCEPTED">>)
     \/ dialogId' # 0 /\ Fail(<<"ACK">>)
     \/ Fail(<<>>)
  /\ UNCHANGED peer

\* Plausible mistake in InvitingEndCall: without a dialog the machine waits on.
InvitingEndCall_waits ==
  /\ Handles("INVITING", "GUI_END_CALL")
  /\ Consume
  /\ \/ dialogId # 0 /\ Goto("TERMINATING", <<"CANCEL">>) /\ peer' = Over
     \/ dialogId = 0 /\ Goto("INVITING", <<>>) /\ UNCHANGED peer
  /\ UNCHANGED callInfo

\* sm_inviting_state, GUI.endCall: CANCEL if a dialog is known
InvitingEndCall ==
  /\ Handles("INVITING", "GUI_END_CALL")
  /\ Consume
  /\ \/ dialogId # 0 /\ Goto("TERMINATING", <<"CANCEL">>) /\ peer' = Over
     \/ dialogId # 0 /\ Fail(<<>>) /\ UNCHANGED peer
     \/ dialogId = 0 /\ Goto("TERMINATING", <<>>) /\ UNCHANGED peer
  /\ UNCHANGED callInfo

\* Plausible mistake in AcceptCall: connected without waiting for the ACK.
AcceptCall_eager ==
  /\ Handles("RINGING", "GUI_ACCEPT_CALL")
  /\ Consume
  /\ Goto("CONNECTED", <<"200", "ACCEPTED">>)
  /\ UNCHANGED <<callInfo, peer>>

\* sm_ringing_state and sm_connecting_state.  A 200 reaches the peer some
\* time later, see PeerAcknowledges.
AcceptCall ==
  \E s \in {"RINGING", "CONNECTING"} :
    /\ Handles(s, "GUI_ACCEPT_CALL")
    /\ Consume
    /\ \/ found("INVITE_TRANSACTION", transactions) /\ Goto("CONNECTING", <<"200">>)
       \/ Fail(<<>>)
    /\ UNCHANGED <<callInfo, peer>>

DeclineCall ==
  \E s \in {"RINGING", "CONNECTING"} :
    /\ Handles(s, "GUI_END_CALL")
    /\ Consume
    /\ \/ Goto("TERMINATING", <<"DECLINE">>) /\ peer' = Over
       \/ Fail(<<>>) /\ UNCHANGED peer
    /\ UNCHANGED callInfo

Cancelled ==
  \E s \in {"RINGING", "CONNECTING"} :
    /\ Handles(s, "CANCEL")
    /\ Consume
    /\ Goto("TERMINATING", <<"CANCELLED">>) \/ Fail(<<>>)
    /\ UNCHANGED <<callInfo, peer>>

Acknowledged ==
  /\ Handles("CONNECTING", "ACK")
  /\ Consume
  /\ Goto("CONNECTED", <<"ACCEPTED">>) \/ Fail(<<>>)
  /\ UNCHANGED <<callInfo, peer>>

\* Plausible mistake in HangUp: the other party is not told.
HangUp_silent ==
  /\ Handles("CONNECTED", "GUI_END_CALL")
  /\ Consume
  /\ Goto("TERMINATING", <<>>)
  /\ UNCHANGED <<callInfo, peer>>

\* sm_connected_state
HangUp ==
  /\ Handles("CONNECTED", "GUI_END_CALL")
  /\ Consume
  /\ \/ Goto("TERMINATING", <<"BYE">>) /\ peer' = Over
     \/ Fail(<<>>) /\ UNCHANGED peer
  /\ UNCHANGED callInfo

\* Plausible mistake in RemoteHangUp: the transition is forgotten.
RemoteHangUp_stays(e) ==
  /\ e \in {"CLOSED", "CANCEL"}
  /\ Handles("CONNECTED", e)
  /\ Consume
  /\ update_transaction_and_dialog(e, "BYE_TRANSACTION")
  /\ Goto("CONNECTED", <<>>)
  /\ UNCHANGED peer

\* Any EXOSIP_CALL_CLOSED passes for a BYE here; one with status 487 does not
\* come with a transaction of its own.
RemoteHangUp(e) ==
  /\ e \in {"CLOSED", "CANCEL"}
  /\ Handles("CONNECTED", e)
  /\ Consume
  /\ update_transaction_and_dialog(e, "BYE_TRANSACTION")
  /\ IF found("BYE_TRANSACTION", transactions')
     THEN Goto("TERMINATING", <<>>) ELSE Fail(<<>>)
  /\ UNCHANGED peer

\* Plausible mistakes in Terminate: the state is not left, or left in silence.
Terminate_again ==
  /\ pc = "loop" /\ curState = "TERMINATING"
  /\ Goto("TERMINATING", <<"TERMINATED">>)
  /\ UNCHANGED <<pool, slot, callInfo, peer, inputs>>

Terminate_silent ==
  /\ pc = "loop" /\ curState = "TERMINATING"
  /\ Goto("FINAL", <<>>)
  /\ UNCHANGED <<pool, slot, callInfo, peer, inputs>>

\* sm_terminating_state, which sm_start enters without an event
Terminate ==
  /\ pc = "loop" /\ curState = "TERMINATING"
  /\ Goto("FINAL", <<"TERMINATED">>) \/ Fail(<<>>)
  /\ UNCHANGED <<pool, slot, callInfo, peer, inputs>>

\* the default cases of the handlers, and SIP events that match no case
Handled(s) ==
  CASE s = "INITIAL"    -> {"GUI_MAKE_CALL", "INVITE"}
    [] s = "CHECKING"   -> {"ACCOUNT_OK", "ACCOUNT_ERROR"}
    [] s = "INVITING"   -> Response \cup {"GUI_END_CALL"}
    [] s \in {"RINGING", "CONNECTING"} -> GuiEvent \cup {"CANCEL"} \cup
                           (IF s = "CONNECTING" THEN {"ACK"} ELSE {})
    [] s = "CONNECTED"  -> {"GUI_END_CALL", "CLOSED", "CANCEL"}

IgnoreEvent ==
  \E e \in Event :
    /\ pc = "loop" /\ curState \notin {"TERMINATING", "FINAL"}
    /\ Takes(e) /\ e \notin Handled(curState)
    /\ Consume
    /\ Goto(curState, <<>>)
    /\ IF curState = "INVITING" /\ e \in SipEvent
       THEN update_transaction_and_dialog(e, "INVITE_TRANSACTION")
       ELSE UNCHANGED callInfo
    /\ UNCHANGED peer

\* A damaged pool gives no event at all: the machine stops, or worse.
TakeNothing ==
  /\ pc = "loop" /\ curState # "TERMINATING"
  /\ damaged
  /\ Fail(<<>>)
  /\ UNCHANGED <<pool, slot, callInfo, peer, inputs>>

-----------------------------------------------------------------------------
\* The machine goes from pc a to b, in sm_start.
Moves(a, b) ==
  /\ pc = a /\ pc' = b
  /\ UNCHANGED <<curState, errorOccurred, pool, callInfo, out, peer, inputs>>

\* the flag is read once per event, and once per wake-up
CheckShutdown ==
  \E p \in {"check", "woken"} :
    Moves(p, IF doShutdown THEN "stopped" ELSE "loop") /\ UNCHANGED slot

\* while (!queue_is_empty(eventPool)) ends ...
GoToSleep ==
  /\ pool = <<>> /\ curState # "TERMINATING"
  /\ Moves("loop", "sleepy") /\ UNCHANGED slot

\* ... and the machine locks wakeUpLock and waits, whatever came since
FallAsleep == Moves("sleepy", "asleep") /\ UNCHANGED slot

\* POSIX lets pthread_cond_wait return without a signal.
SpuriousWakeUp == Moves("asleep", "woken") /\ UNCHANGED slot

\* wake_machine: a signal reaches a machine that waits, and is lost otherwise.
Signal(w) ==
  /\ w \in waking /\ waking' = waking \ {w}
  /\ IF pc = "asleep" THEN Moves("asleep", "woken") ELSE Moves(pc, pc)
  /\ UNCHANGED <<damaged, doShutdown>>

MachineStep ==
  \/ MakeCall \/ GiveVerdict \/ Invited \/ AccountOK \/ AccountError
  \/ (\E e \in Response : InvitingResponse(e))
  \/ InvitingAnswered \/ InvitingEndCall
  \/ AcceptCall \/ DeclineCall \/ Cancelled \/ Acknowledged
  \/ HangUp \/ (\E e \in SipEvent : RemoteHangUp(e))
  \/ Terminate \/ IgnoreEvent \/ TakeNothing
  \/ CheckShutdown \/ GoToSleep \/ FallAsleep

-----------------------------------------------------------------------------
\* The machine is in the pool itself: it dequeues, or enqueues its verdict.
InPool == \/ pc = "loop" /\ curState # "TERMINATING"
          \/ pc = "verdict" /\ Len(pool) < MaxEvents

\* Plausible mistake in Offer: nobody looks whether the pool is full.
Offer_unbounded(d, e) ==
  /\ inputs < MaxInputs /\ inputs' = inputs + 1
  /\ d \notin waking /\ pc # "stopped" /\ ~damaged
  /\ pool' = Append(pool, e)
  /\ waking' = waking \cup {d}
  /\ UNCHANGED <<machine, damaged, doShutdown, callInfo, out>>

\* A dispatcher comes with an event for this call.  A full pool drops it, and
\* a machine that has stopped has no pool any more; an event that fits is
\* enqueued under poolLock, and a signal will follow.  The machine does not
\* take that lock.
Offer(d, e) ==
  /\ inputs < MaxInputs /\ inputs' = inputs + 1
  /\ d \notin waking
  /\ \/ /\ pc = "stopped" \/ damaged \/ Len(pool) = MaxEvents
        /\ UNCHANGED <<pool, damaged, waking>>
     \/ /\ pc # "stopped" /\ (damaged \/ Len(pool) < MaxEvents)
        /\ pool' = IF damaged THEN pool ELSE Append(pool, e)
        /\ waking' = waking \cup {d}
        /\ UNCHANGED damaged
     \/ /\ InPool /\ ~damaged
        /\ pool' = <<>> /\ damaged' = TRUE
        /\ waking' = waking \cup {d}
  /\ UNCHANGED <<machine, doShutdown, callInfo, out>>

\* The GUI knows its own calls at once and the others once they are announced.
GuiEvents ==
  /\ pc # "stopped"
  /\ curState = "INITIAL" => peer = "unaware"
  /\ \E e \in GuiEvent : Offer("gui", e)
  /\ UNCHANGED peer

\* ed_shutdown_all, for this call
Shutdown ==
  /\ inputs < MaxInputs /\ inputs' = inputs + 1
  /\ pc # "stopped" /\ ~doShutdown
  /\ doShutdown' = TRUE /\ waking' = waking \cup {"shutdown"}
  /\ UNCHANGED <<machine, pool, damaged, callInfo, out, peer>>

\* The called party: provisional answers, the final one (which it repeats
\* until the ACK), or none until the SIP stack gives up.
PeerRings    == peer = "alerted" /\ UNCHANGED peer
                /\ \E e \in {"100", "180", "183"} : Offer("sip", e)
PeerAnswers  == \/ peer = "alerted" /\ peer' = "talking" /\ Offer("sip", "2xx")
                \/ /\ peer = "talking" /\ Has(out, "INVITE") /\ ~Has(out, "ACK")
                   /\ UNCHANGED peer /\ Offer("sip", "2xx")
PeerRefuses  == peer = "alerted" /\ peer' = "gone" /\ Offer("sip", "REFUSED")
TimesOut     == peer = "alerted" /\ peer' = "gone" /\ Offer("sip", "RELEASED")

\* The calling party: it may cancel until it has seen our 200, whose ACK may
\* have to be repeated.
PeerCancels  == peer = "calling" /\ peer' = "gone" /\ Offer("sip", "CANCEL")
PeerAcknowledges ==
  /\ peer \in {"calling", "talking"} /\ Has(out, "200")
  /\ peer' = "talking"
  /\ Offer("sip", "ACK")

PeerHangsUp  == peer = "talking" /\ peer' = "left" /\ Offer("sip", "CLOSED")

\* The SIP stack forgets a call some time after it ended.
StackReleases ==
  /\ peer \in {"gone", "left"} /\ UNCHANGED peer
  /\ Offer("sip", "RELEASED")

PeerStep == PeerRings \/ PeerAnswers \/ PeerRefuses \/ TimesOut \/ PeerCancels
            \/ PeerAcknowledges \/ PeerHangsUp \/ StackReleases

Next == \/ MachineStep \/ SpuriousWakeUp
        \/ \E w \in Waker : Signal(w)
        \/ GuiEvents \/ Shutdown \/ PeerStep

Spec == Init /\ [][Next]_vars

\* The machine, the dispatchers and whoever shuts down have threads of their
\* own.  Neither the user nor the other party owes them anything, and nothing
\* owes the machine a spurious wake-up.
FairSpec == /\ Spec
            /\ WF_vars(MachineStep)
            /\ \A w \in Waker : WF_vars(Signal(w))

-----------------------------------------------------------------------------
\* The call as CallLifecycle sees it.
Life == INSTANCE CallLifecycle
          WITH st <- IF pc = "stopped" /\ curState # "FINAL" THEN "ABORTED"
                                                             ELSE curState

TypeOK ==
  /\ curState \in State
  /\ pc \in Pc
  /\ errorOccurred \in BOOLEAN
  /\ damaged \in BOOLEAN /\ doShutdown \in BOOLEAN
  /\ waking \in SUBSET Waker
  /\ pool \in Seq(Event) /\ Len(pool) <= MaxEvents
  /\ damaged => pool = <<>>
  /\ dialogId \in {0, Dialog}
  /\ transactions \in SUBSET ({1, 2} \X {"INVITE_TRANSACTION", "BYE_TRANSACTION"})
  /\ out \in Seq(Life!Output)
  /\ peer \in Peer
  /\ inputs \in 0 .. MaxInputs

\* The call was not cut short by an error or by a shutdown.
Regular == ~errorOccurred /\ ~doShutdown

\* The life of a call as the rest of the program may rely on it: whatever is
\* in the pool, every step is one of CallLifecycle, outputs included, or
\* changes nothing of it.
ImplementsLifecycle == Life!Spec

\* The GUI sees the call advance and never go back, is told one outcome and
\* one TERMINATED, and the SIP stack is asked for nothing after the call was
\* ended, whatever order the events of the user and of the other party mix in.
Orderly == Life!Orderly

\* A machine that ran to its end told the GUI so, as its last word.  Errors
\* and shutdowns are the exception, also between TERMINATING and FINAL.
GuiLearnsEnd ==
  pc = "stopped" /\ Regular => out # <<>> /\ out[Len(out)] = "TERMINATED"

\* The GUI shows a call as accepted only if the other party takes it for
\* established too, or did so and has left it meanwhile; never if it refused,
\* cancelled or did not answer.  A damaged pool may hold an ACK nobody sent.
AcceptedOnlyIfAnswered ==
  Has(out, "ACCEPTED") /\ ~damaged => peer \in {"talking", "left"}

\* No regular end leaves the other party with a call that nobody here knows
\* of, except a hang-up before a dialog is known: statemachine.c:492 counts on
\* the timeout of the INVITE there.
NobodyStranded ==
  pc = "stopped" /\ Regular /\ ~damaged /\ peer \notin {"unaware", "gone", "left"}
    => dialogId = 0

\* Nobody signals for the verdict on the account.  Unless an enqueue ran into
\* that of the verdict, or into a dequeue, it is in the pool of a machine that
\* waits for it, whatever was enqueued before it, and the machine is awake.
VerdictIsComing ==
  curState = "CHECKING" /\ pc # "stopped" /\ ~damaged
    => /\ \E i \in DOMAIN pool : pool[i] \in Verdict
       /\ pc \in {"loop", "check"}

\* The machine sleeps on something it should see to, and no signal is due: it
\* came between the test of the pool and the wait (MessageHandover, Delivered).
Overslept ==
  pc = "asleep" /\ (pool # <<>> \/ doShutdown) /\ waking = {}

\* e comes after one of es in the pool
Behind(es, e) ==
  \E i, j \in DOMAIN pool : i < j /\ pool[i] \in es /\ pool[j] = e

\* The machine will meet a hang-up of the user in a state that heeds it, or
\* one of the other party: it is in that state, or what is ahead of the event
\* in the pool leads there.
HangUpIsHeeded ==
  \/ Has(pool, "GUI_END_CALL") /\ curState \notin {"INITIAL", "CHECKING"}
  \/ Behind(Verdict, "GUI_END_CALL") /\ curState = "CHECKING"

RemoteHangUpIsHeeded ==
  \/ Has(pool, "CLOSED") /\ curState = "CONNECTED"
  \/ Behind({"ACK"}, "CLOSED") /\ curState = "CONNECTING"
  \/ Behind({"2xx"}, "CLOSED") /\ curState = "INVITING"

\* A hang-up of the user that reached the pool ends the call.  One ahead of
\* the verdict is met in CHECKING and ignored, one that came just before the
\* machine fell asleep is met when the next event wakes it, and one in a
\* damaged pool may be lost.
HangUpEndsCall ==
  HangUpIsHeeded ~> (pc = "stopped" \/ damaged \/ []Overslept)

\* So does the BYE of the other party, of an established call or of one that
\* is about to be.
RemoteHangUpEndsCall ==
  RemoteHangUpIsHeeded ~> (pc = "stopped" \/ damaged \/ []Overslept)

\* statemachine.c:482, "trying and/or ringing received - dialog is
\* established": when the GUI was told that it rings, the machine knows the
\* dialog that a hang-up will have to cancel.
DialogKnownWhenRinging ==
  curState = "INVITING" /\ Has(out, "RINGING") => dialogId # 0
=============================================================================
