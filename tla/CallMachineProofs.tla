-------------------------- MODULE CallMachineProofs --------------------------
(***************************************************************************)
(* Proofs about CallLifecycle, and about CallMachine for a pool of any     *)
(* size and any number of events from outside: that the machine is a call  *)
(* in the sense of CallLifecycle, and what GUI and other party know of it. *)
(***************************************************************************)
EXTENDS CallMachine, TLAPS, SequenceTheorems

Transaction == {1, 2} \X {"INVITE_TRANSACTION", "BYE_TRANSACTION"}

\* What a handler may change beside the pool.
HandlerTypes == /\ curState \in State
                /\ pc \in Pc
                /\ errorOccurred \in BOOLEAN
                /\ out \in Seq(Life!Output)

USE CallAssumption DEF CallAssumption

-----------------------------------------------------------------------------
(* Sequences *)

LEMMA HasAppended ==
  ASSUME NEW S, NEW seq \in Seq(S), NEW x \in S, NEW y
  PROVE  Has(Append(seq, x), y) <=> Has(seq, y) \/ x = y
<1>1. /\ Append(seq, x) \in Seq(S)
      /\ Len(Append(seq, x)) = Len(seq) + 1
      /\ \A i \in 1 .. Len(seq) : Append(seq, x)[i] = seq[i]
      /\ Append(seq, x)[Len(seq) + 1] = x
  BY AppendProperties
<1>2. /\ DOMAIN Append(seq, x) = 1 .. Len(seq) + 1
      /\ DOMAIN seq = 1 .. Len(seq) /\ Len(seq) \in Nat
  BY <1>1, LenProperties
<1> QED  BY <1>1, <1>2 DEF Has

LEMMA HasHeadOrTail ==
  ASSUME NEW S, NEW seq \in Seq(S), seq # <<>>, NEW y
  PROVE  Has(seq, y) <=> Has(Tail(seq), y) \/ Head(seq) = y
<1>1. /\ Tail(seq) \in Seq(S) /\ Len(Tail(seq)) = Len(seq) - 1
      /\ \A i \in 1 .. Len(Tail(seq)) : Tail(seq)[i] = seq[i + 1]
      /\ Head(seq) = seq[1]
  BY HeadTailProperties
<1>2. /\ DOMAIN Tail(seq) = 1 .. Len(seq) - 1
      /\ DOMAIN seq = 1 .. Len(seq) /\ Len(seq) \in Nat \ {0}
  BY <1>1, LenProperties, EmptySeq
<1>3. ASSUME Has(seq, y), Head(seq) # y
      PROVE  Has(Tail(seq), y)
  <2>1. PICK i \in 1 .. Len(seq) : seq[i] = y
    BY <1>2, <1>3 DEF Has
  <2>2. i - 1 \in 1 .. Len(seq) - 1 /\ (i - 1) + 1 = i
    BY <1>1, <1>2, <1>3, <2>1
  <2>3. Tail(seq)[i - 1] = y
    BY <1>1, <2>1, <2>2
  <2> QED  BY <1>2, <2>2, <2>3 DEF Has
<1>4. ASSUME Has(Tail(seq), y)
      PROVE  Has(seq, y)
  <2>1. PICK i \in 1 .. Len(seq) - 1 : Tail(seq)[i] = y
    BY <1>2, <1>4 DEF Has
  <2>2. i + 1 \in 1 .. Len(seq) /\ seq[i + 1] = y
    BY <1>1, <1>2, <2>1
  <2> QED  BY <1>2, <2>2 DEF Has
<1>5. Head(seq) = y => Has(seq, y)
  BY <1>1, <1>2 DEF Has
<1> QED  BY <1>3, <1>4, <1>5

-----------------------------------------------------------------------------
(* Type correctness *)

\* What the pool is like, and what dispatchers change of the slot.
PoolTypes == pool \in Seq(Event) /\ Len(pool) <= MaxEvents /\ (damaged => pool = <<>>)
SlotTypes == damaged \in BOOLEAN /\ doShutdown \in BOOLEAN /\ waking \in SUBSET Waker

LEMMA ConsumeTypes ==
  ASSUME TypeOK, NEW e, Takes(e), Consume
  PROVE  PoolTypes' /\ SlotTypes' /\ inputs' \in 0 .. MaxInputs
<1>1. CASE damaged
  BY <1>1 DEF TypeOK, Takes, Consume, slot, PoolTypes, SlotTypes
<1>2. CASE ~damaged
  <2>1. pool # <<>> /\ pool' = Tail(pool) /\ UNCHANGED <<slot, inputs>>
    BY <1>2 DEF Takes, Consume
  <2>2. pool' \in Seq(Event) /\ Len(pool') = Len(pool) - 1 /\ Len(pool) \in Nat
    BY <2>1, HeadTailProperties, LenProperties DEF TypeOK
  <2> QED  BY <1>2, <2>1, <2>2 DEF TypeOK, slot, PoolTypes, SlotTypes
<1> QED  BY <1>1, <1>2

LEMMA OutTypes ==
  ASSUME out \in Seq(Life!Output), NEW outs \in Seq(Life!Output),
         out' = out \o outs
  PROVE  out' \in Seq(Life!Output)
BY ConcatProperties

LEMMA GotoTypes ==
  ASSUME TypeOK, NEW s \in State, NEW outs \in Seq(Life!Output), Goto(s, outs)
  PROVE  HandlerTypes'
BY OutTypes DEF TypeOK, Goto, HandlerTypes, Pc

LEMMA FailTypes ==
  ASSUME TypeOK, NEW outs \in Seq(Life!Output), Fail(outs)
  PROVE  HandlerTypes'
BY OutTypes DEF TypeOK, Fail, HandlerTypes, Pc

LEMMA UpdateTypes ==
  ASSUME TypeOK, NEW e \in SipEvent,
         NEW type \in {"INVITE_TRANSACTION", "BYE_TRANSACTION"},
         update_transaction_and_dialog(e, type)
  PROVE  dialogId' \in {0, Dialog} /\ transactions' \in SUBSET Transaction
<1>1. TransactionId(e) \in {0, 1, 2} /\ DialogIdOf(e) \in {0, Dialog}
  BY DEF TransactionId, DialogIdOf
<1>2. TransactionId(e) >= 1 => <<TransactionId(e), type>> \in Transaction
  BY <1>1 DEF Transaction
<1> QED  BY <1>1, <1>2 DEF TypeOK, update_transaction_and_dialog, Transaction

\* All outputs of the handlers are words of CallLifecycle.
LEMMA OutputsTyped ==
  /\ <<>> \in Seq(Life!Output)
  /\ \A x \in Life!Output : <<x>> \in Seq(Life!Output)
  /\ \A x, y \in Life!Output : <<x, y>> \in Seq(Life!Output)
OBVIOUS

LEMMA OfferTypes ==
  ASSUME TypeOK, NEW d \in Dispatcher, NEW e \in Event, Offer(d, e)
  PROVE  /\ HandlerTypes' /\ PoolTypes' /\ SlotTypes'
         /\ dialogId' \in {0, Dialog} /\ transactions' \in SUBSET Transaction
         /\ inputs' \in 0 .. MaxInputs
<1>1. Append(pool, e) \in Seq(Event) /\ Len(Append(pool, e)) = Len(pool) + 1
      /\ Len(pool) \in Nat
  BY AppendProperties, LenProperties DEF TypeOK
<1>2. <<>> \in Seq(Event) /\ Len(<<>>) = 0
  OBVIOUS
<1>3. PoolTypes'
  <2>1. \/ UNCHANGED <<pool, damaged>>
        \/ ~damaged /\ pool' = Append(pool, e) /\ Len(pool) < MaxEvents /\ UNCHANGED damaged
        \/ pool' = <<>> /\ damaged'
    BY DEF Offer
  <2>2. CASE UNCHANGED <<pool, damaged>>
    BY <2>2 DEF TypeOK, PoolTypes
  <2>3. CASE /\ ~damaged /\ UNCHANGED damaged
             /\ pool' = Append(pool, e) /\ Len(pool) < MaxEvents
    BY <1>1, <2>3 DEF PoolTypes
  <2>4. CASE pool' = <<>>
    BY <1>2, <2>4 DEF PoolTypes
  <2> QED  BY <2>1, <2>2, <2>3, <2>4
<1>4. SlotTypes'
  BY DEF TypeOK, Offer, SlotTypes, Waker, Dispatcher
<1> QED
  BY <1>3, <1>4 DEF TypeOK, Offer, HandlerTypes, Transaction, machine, callInfo

LEMMA TypeStep ==
  ASSUME TypeOK, [Next]_vars
  PROVE  TypeOK'
<1> USE OutputsTyped, ConsumeTypes, GotoTypes, FailTypes
        DEF Handles, State, Life!Output, Life!GuiOutput, Life!SipOutput,
            Life!Goodbye
<1>1. ASSUME HandlerTypes', PoolTypes', SlotTypes',
             dialogId' \in {0, Dialog}, transactions' \in SUBSET Transaction,
             peer' \in Peer, inputs' \in 0 .. MaxInputs
      PROVE  TypeOK'
  BY <1>1 DEF TypeOK, HandlerTypes, PoolTypes, SlotTypes, Transaction
<1>2. UNCHANGED callInfo =>
        dialogId' \in {0, Dialog} /\ transactions' \in SUBSET Transaction
  BY DEF callInfo, TypeOK, Transaction
<1>3. UNCHANGED <<slot, inputs>> => SlotTypes' /\ inputs' \in 0 .. MaxInputs
  BY DEF TypeOK, slot, SlotTypes
<1>4. peer \in Peer /\ Over \in Peer
      /\ \A p \in {"unaware", "alerted", "calling", "talking", "left", "gone"} : p \in Peer
  BY DEF TypeOK, Peer, Over
<1>5. CASE MakeCall
  <2>1. HandlerTypes'
    BY <1>5 DEF MakeCall, HandlerTypes, TypeOK, Pc
  <2> QED
    BY <1>1, <1>4, <1>5, <2>1 DEF MakeCall, TypeOK, Transaction
<1>25. CASE GiveVerdict
  <2>1. PoolTypes'
    <3>1. \A v \in Verdict : /\ Append(pool, v) \in Seq(Event)
                              /\ Len(Append(pool, v)) = Len(pool) + 1
      BY AppendProperties DEF TypeOK, Event
    <3>2. Len(pool) \in Nat
      BY LenProperties DEF TypeOK
    <3> QED  BY <1>25, <3>1, <3>2 DEF GiveVerdict, TypeOK, PoolTypes, slot
  <2>2. HandlerTypes'
    BY <1>25 DEF GiveVerdict
  <2> QED  BY <1>1, <1>2, <1>3, <1>25, <2>1, <2>2 DEF GiveVerdict, TypeOK
<1>6. CASE Invited
  <2>1. HandlerTypes'
    BY <1>6 DEF Invited
  <2>2. dialogId' \in {0, Dialog} /\ transactions' \in SUBSET Transaction
    BY <1>2, <1>6 DEF Invited, DialogIdOf, TransactionId, Transaction
  <2> QED  BY <1>1, <1>4, <1>6, <2>1, <2>2 DEF Invited
<1>7. CASE AccountOK
  <2>1. HandlerTypes'
    BY <1>7 DEF AccountOK
  <2> QED  BY <1>1, <1>2, <1>4, <1>7, <2>1 DEF AccountOK
<1>8. CASE AccountError
  <2>1. HandlerTypes'
    BY <1>8 DEF AccountError
  <2> QED  BY <1>1, <1>2, <1>4, <1>8, <2>1 DEF AccountError
<1>9. CASE InvitingEndCall
  <2>1. HandlerTypes'
    BY <1>9 DEF InvitingEndCall
  <2> QED  BY <1>1, <1>2, <1>4, <1>9, <2>1 DEF InvitingEndCall
<1>10. CASE AcceptCall
  <2>1. HandlerTypes'
    BY <1>10 DEF AcceptCall
  <2> QED  BY <1>1, <1>2, <1>4, <1>10, <2>1 DEF AcceptCall
<1>11. CASE DeclineCall
  <2>1. HandlerTypes'
    BY <1>11 DEF DeclineCall
  <2> QED  BY <1>1, <1>2, <1>4, <1>11, <2>1 DEF DeclineCall
<1>12. CASE Cancelled
  <2>1. HandlerTypes'
    BY <1>12 DEF Cancelled
  <2> QED  BY <1>1, <1>2, <1>4, <1>12, <2>1 DEF Cancelled
<1>13. CASE Acknowledged
  <2>1. HandlerTypes'
    BY <1>13 DEF Acknowledged
  <2> QED  BY <1>1, <1>2, <1>4, <1>13, <2>1 DEF Acknowledged
<1>14. CASE HangUp
  <2>1. HandlerTypes'
    BY <1>14 DEF HangUp
  <2> QED  BY <1>1, <1>2, <1>4, <1>14, <2>1 DEF HangUp
<1>15. ASSUME NEW e \in Response, InvitingResponse(e)
       PROVE  TypeOK'
  <2>1. HandlerTypes'
    BY <1>15 DEF InvitingResponse, StatusOf, Response
  <2>2. dialogId' \in {0, Dialog} /\ transactions' \in SUBSET Transaction
    BY <1>15, UpdateTypes DEF InvitingResponse, SipEvent
  <2> QED  BY <1>1, <1>4, <1>15, <2>1, <2>2 DEF InvitingResponse
<1>16. CASE InvitingAnswered
  <2>1. HandlerTypes'
    BY <1>16 DEF InvitingAnswered
  <2>2. dialogId' \in {0, Dialog} /\ transactions' \in SUBSET Transaction
    BY <1>16, UpdateTypes DEF InvitingAnswered, SipEvent, Response
  <2> QED  BY <1>1, <1>4, <1>16, <2>1, <2>2 DEF InvitingAnswered
<1>17. ASSUME NEW e \in SipEvent, RemoteHangUp(e)
       PROVE  TypeOK'
  <2>1. HandlerTypes'
    BY <1>17 DEF RemoteHangUp
  <2>2. dialogId' \in {0, Dialog} /\ transactions' \in SUBSET Transaction
    BY <1>17, UpdateTypes DEF RemoteHangUp, SipEvent, Response
  <2> QED  BY <1>1, <1>4, <1>17, <2>1, <2>2 DEF RemoteHangUp
<1>18. CASE Terminate
  <2>1. HandlerTypes'
    BY <1>18 DEF Terminate
  <2> QED  BY <1>1, <1>2, <1>3, <1>18, <2>1 DEF Terminate, TypeOK, PoolTypes, slot
<1>19. CASE IgnoreEvent
  <2>0. PICK e \in Event :
          /\ Takes(e) /\ Consume /\ Goto(curState, <<>>)
          /\ IF curState = "INVITING" /\ e \in SipEvent
             THEN update_transaction_and_dialog(e, "INVITE_TRANSACTION")
             ELSE UNCHANGED callInfo
          /\ UNCHANGED peer
    BY <1>19 DEF IgnoreEvent
  <2>1. HandlerTypes'
    BY <2>0 DEF TypeOK
  <2>2. dialogId' \in {0, Dialog} /\ transactions' \in SUBSET Transaction
    BY <1>2, <2>0, UpdateTypes
  <2> QED  BY <1>1, <1>4, <2>0, <2>1, <2>2
<1>26. CASE TakeNothing
  <2>1. HandlerTypes'
    BY <1>26 DEF TakeNothing
  <2> QED  BY <1>1, <1>2, <1>3, <1>26, <2>1 DEF TakeNothing, TypeOK, PoolTypes, slot
<1>20. ASSUME NEW a \in Pc, NEW b \in Pc, Moves(a, b), SlotTypes',
              damaged' = damaged
       PROVE  TypeOK'
  BY <1>1, <1>2, <1>20 DEF Moves, TypeOK, HandlerTypes, PoolTypes
<1>27. CASE CheckShutdown \/ GoToSleep \/ FallAsleep \/ SpuriousWakeUp
  <2>1. UNCHANGED slot /\ SlotTypes'
    BY <1>27 DEF CheckShutdown, GoToSleep, FallAsleep, SpuriousWakeUp, TypeOK,
       SlotTypes, slot
  <2>2. PICK a \in Pc, b \in Pc : Moves(a, b)
    BY <1>27 DEF CheckShutdown, GoToSleep, FallAsleep, SpuriousWakeUp, Pc
  <2> QED  BY <1>20, <2>1, <2>2 DEF slot
<1>28. ASSUME NEW w \in Waker, Signal(w)
       PROVE  TypeOK'
  <2>1. SlotTypes' /\ damaged' = damaged
    BY <1>28 DEF Signal, TypeOK, SlotTypes
  <2>2. PICK a \in Pc, b \in Pc : Moves(a, b)
    BY <1>28 DEF Signal, TypeOK, Pc
  <2> QED  BY <1>20, <2>1, <2>2
<1>21. CASE GuiEvents
  BY <1>1, <1>4, <1>21, OfferTypes DEF GuiEvents, Event, Dispatcher
<1>22. CASE Shutdown
  BY <1>1, <1>2, <1>22 DEF Shutdown, TypeOK, HandlerTypes, PoolTypes, SlotTypes,
     machine, Waker
<1>23. CASE PeerStep
  <2>1. peer' \in Peer
    BY <1>4, <1>23 DEF PeerStep, PeerRings, PeerAnswers, PeerRefuses, TimesOut,
       PeerCancels, PeerAcknowledges, PeerHangsUp, StackReleases
  <2>2. PICK e \in Event : Offer("sip", e)
    BY <1>23 DEF PeerStep, PeerRings, PeerAnswers, PeerRefuses, TimesOut,
       PeerCancels, PeerAcknowledges, PeerHangsUp, StackReleases, Event,
       SipEvent, Response
  <2> QED  BY <1>1, <2>1, <2>2, OfferTypes DEF Dispatcher
<1>24. CASE UNCHANGED vars
  BY <1>24 DEF vars, machine, slot, callInfo, TypeOK
<1> QED
  BY <1>5, <1>6, <1>7, <1>8, <1>9, <1>10, <1>11, <1>12, <1>13, <1>14,
     <1>15, <1>16, <1>17, <1>18, <1>19, <1>21, <1>22, <1>23, <1>24,
     <1>25, <1>26, <1>27, <1>28
     DEF Next, MachineStep

LEMMA TypeInit ==
  ASSUME Init
  PROVE  TypeOK
<1>1. pool \in Seq(Event) /\ Len(pool) <= MaxEvents
  <2>1. pool = <<"GUI_MAKE_CALL">> \/ pool = <<"INVITE">>
    BY DEF Init
  <2>2. "GUI_MAKE_CALL" \in Event /\ "INVITE" \in Event
    BY DEF Event, SipEvent
  <2>3. /\ <<"GUI_MAKE_CALL">> \in Seq(Event) /\ Len(<<"GUI_MAKE_CALL">>) = 1
        /\ <<"INVITE">> \in Seq(Event) /\ Len(<<"INVITE">>) = 1
    BY <2>2
  <2>4. Len(pool) = 1 /\ pool \in Seq(Event)
    BY <2>1, <2>3
  <2> QED  BY <2>4
<1>2. curState \in State /\ peer \in Peer
  BY DEF Init, State, Peer
<1>3. errorOccurred \in BOOLEAN /\ SlotTypes /\ ~damaged
  BY DEF Init, SlotTypes
<1>4. out \in Seq(Life!Output)
  BY OutputsTyped DEF Init
<1>5. /\ pc \in Pc
      /\ dialogId \in {0, Dialog} /\ transactions \in SUBSET Transaction
      /\ inputs \in 0 .. MaxInputs
  BY DEF Init, Pc, Transaction
<1> QED
  BY <1>1, <1>2, <1>3, <1>4, <1>5 DEF TypeOK, SlotTypes, Transaction

\* Every variable keeps its type, the pool its bound: nothing is put into a
\* full pool, the verdict of the machine itself included.
THEOREM TypeCorrect == Spec => []TypeOK
BY TypeInit, TypeStep, PTL DEF Spec

-----------------------------------------------------------------------------
(* Refinement *)

\* The state of the abstract call.
Stage == IF pc = "stopped" /\ curState # "FINAL" THEN "ABORTED" ELSE curState

PcFits == /\ curState = "FINAL" => pc = "stopped"
          /\ pc = "verdict" => curState = "INITIAL"

LEMMA StoryExtended ==
  ASSUME TypeOK
  PROVE  /\ out \o <<>> = out
         /\ \A x \in Life!Output : out \o <<x>> = Append(out, x)
BY ConcatEmptySeq, AppendIsConcat DEF TypeOK

\* A handler that succeeds makes the abstract transition of the same outputs.
LEMMA GotoIsTransition ==
  ASSUME NEW s, NEW t, NEW outs, pc = "loop", curState = s, Goto(t, outs)
  PROVE  Life!Transition(s, outs, t)
BY DEF Goto, Life!Transition

\* One that fails aborts the call, having said nothing or the first of two
\* outputs.
LEMMA FailIsAbort ==
  ASSUME TypeOK, pc # "stopped", curState # "FINAL", NEW outs, Fail(outs),
         \/ outs = <<>>
         \/ curState = "INITIAL" /\ outs = <<"INCOMING">>
         \/ curState = "INVITING" /\ outs = <<"ACK">>
  PROVE  Life!Abort
<1>1. Stage = curState /\ Stage' = "ABORTED" /\ curState # "ABORTED"
  BY DEF Fail, Stage, TypeOK, State
<1>2. "INCOMING" \in Life!Output /\ "ACK" \in Life!Output
  BY DEF Life!Output, Life!GuiOutput, Life!SipOutput
<1> QED  BY <1>1, <1>2, StoryExtended DEF Fail, Stage, Life!Abort

LEMMA StepIsStep ==
  ASSUME TypeOK, PcFits, [Next]_vars
  PROVE  PcFits' /\ [Life!Next]_(Life!vars)
<1> USE FailIsAbort DEF Handles
<1>0. Life!Abort => Life!Next
  BY DEF Life!Next
<1>1. CASE MakeCall
  BY <1>1 DEF MakeCall, PcFits, Life!vars
<1>19. CASE GiveVerdict
  <2>1. CASE Goto("CHECKING", <<>>)
    BY <1>19, <2>1 DEF GiveVerdict, Goto, PcFits, Life!Next, Life!MakeCall,
       Life!Transition
  <2>2. CASE Fail(<<>>)
    BY <1>0, <1>19, <2>2 DEF GiveVerdict, Fail, PcFits
  <2> QED  BY <1>19, <2>1, <2>2 DEF GiveVerdict
<1>20. CASE TakeNothing
  BY <1>0, <1>20 DEF TakeNothing, Fail, PcFits
<1>2. CASE Invited
  BY <1>0, <1>2, GotoIsTransition
     DEF Invited, Goto, Fail, PcFits, Life!Next, Life!Invited
<1>3. CASE AccountOK
  BY <1>0, <1>3, GotoIsTransition
     DEF AccountOK, Goto, Fail, PcFits, Life!Next, Life!AccountOK
<1>4. CASE AccountError
  BY <1>0, <1>4, GotoIsTransition
     DEF AccountError, Goto, Fail, PcFits, Life!Next, Life!AccountError
<1>5. CASE InvitingAnswered
  BY <1>0, <1>5, GotoIsTransition
     DEF InvitingAnswered, Goto, Fail, PcFits, Life!Next, Life!Answered
<1>6. CASE InvitingEndCall
  BY <1>0, <1>6, GotoIsTransition
     DEF InvitingEndCall, Goto, Fail, PcFits, Life!Next, Life!GiveUp
<1>7. CASE AcceptCall
  BY <1>0, <1>7, GotoIsTransition
     DEF AcceptCall, Goto, Fail, PcFits, Life!Next, Life!Accept, Life!AcceptAgain
<1>8. CASE DeclineCall
  BY <1>0, <1>8, GotoIsTransition
     DEF DeclineCall, Goto, Fail, PcFits, Life!Next, Life!Decline
<1>9. CASE Cancelled
  BY <1>0, <1>9, GotoIsTransition
     DEF Cancelled, Goto, Fail, PcFits, Life!Next, Life!Cancelled
<1>10. CASE Acknowledged
  BY <1>0, <1>10, GotoIsTransition
     DEF Acknowledged, Goto, Fail, PcFits, Life!Next, Life!Acknowledged
<1>11. CASE HangUp
  BY <1>0, <1>11, GotoIsTransition
     DEF HangUp, Goto, Fail, PcFits, Life!Next, Life!HangUp
<1>12. ASSUME NEW e \in SipEvent, RemoteHangUp(e)
       PROVE  PcFits' /\ [Life!Next]_(Life!vars)
  BY <1>0, <1>12, GotoIsTransition
     DEF RemoteHangUp, Goto, Fail, PcFits, Life!Next, Life!RemoteHangUp
<1>13. CASE Terminate
  BY <1>0, <1>13, GotoIsTransition
     DEF Terminate, Goto, Fail, PcFits, Life!Next, Life!Terminate
<1>14. ASSUME NEW e \in Response, InvitingResponse(e)
      PROVE  PcFits' /\ [Life!Next]_(Life!vars)
  BY <1>0, <1>14, GotoIsTransition
     DEF InvitingResponse, StatusOf, Response, Goto, Fail, PcFits,
         Life!Next, Life!Provisional, Life!Unsuccessful
<1>15. CASE IgnoreEvent
  BY <1>15, StoryExtended DEF IgnoreEvent, Goto, PcFits, Life!vars
<1>16. CASE CheckShutdown \/ GoToSleep \/ FallAsleep \/ SpuriousWakeUp
  <2>1. out' = out /\ curState' = curState /\ curState # "FINAL"
        /\ pc # "stopped" /\ pc' # "verdict" /\ curState # "ABORTED"
    BY <1>16 DEF CheckShutdown, GoToSleep, FallAsleep, SpuriousWakeUp, Moves,
       PcFits, TypeOK, State
  <2> QED  BY <1>0, <2>1 DEF Life!Abort, Life!vars, PcFits
<1>17. CASE (\E w \in Waker : Signal(w)) \/ GuiEvents \/ Shutdown \/ PeerStep
  <2>1. /\ UNCHANGED <<curState, out>>
        /\ pc' = pc \/ (pc = "asleep" /\ pc' = "woken")
    BY <1>17 DEF Signal, Moves, GuiEvents, Shutdown, PeerStep, PeerRings,
       PeerAnswers, PeerRefuses, TimesOut, PeerCancels, PeerAcknowledges,
       PeerHangsUp, StackReleases, Offer, machine
  <2> QED  BY <2>1 DEF Life!vars, PcFits
<1>18. CASE UNCHANGED vars
  BY <1>18 DEF vars, machine, Life!vars, PcFits
<1> QED
  BY <1>1, <1>2, <1>3, <1>4, <1>5, <1>6, <1>7, <1>8, <1>9, <1>10, <1>11,
     <1>12, <1>13, <1>14, <1>15, <1>16, <1>17, <1>18, <1>19, <1>20
     DEF Next, MachineStep

\* Every step of the machine, of its users and of the other party is a step
\* of CallLifecycle or none of its business, whatever is in the pool.
THEOREM MachineImplementsLifecycle == Spec => ImplementsLifecycle
<1>1. Init => PcFits /\ Life!Init
  BY DEF Init, PcFits, Life!Init
<1>2. Spec => [](TypeOK /\ PcFits)
  BY <1>1, TypeCorrect, StepIsStep, PTL DEF Spec
<1> QED
  BY <1>1, <1>2, StepIsStep, PTL DEF Spec, ImplementsLifecycle, Life!Spec

-----------------------------------------------------------------------------
(* A call that follows CallLifecycle tells an orderly story, however often *)
(* it is told that it rings: Told bounds what may have been said by the    *)
(* time a state is reached, and every output of the state may follow       *)
(* everything said before.                                                 *)

Preparing == {"INVITE", "TRYING", "RINGING"}
Alerting  == {"INCOMING", "180"}
Answering == Alerting \cup {"200"}
Talking   == Preparing \cup Answering \cup {"ACK", "ACCEPTED"}

\* What may have left the machine in state s.
Said(s) == CASE s \in {"INITIAL", "CHECKING"} -> {}
             [] s = "INVITING"    -> Preparing
             [] s = "RINGING"     -> Alerting
             [] s = "CONNECTING"  -> Answering
             [] s = "CONNECTED"   -> Talking
             [] s = "TERMINATING" -> Life!Output \ {"TERMINATED"}
             [] OTHER             -> Life!Output

States == {"INITIAL", "CHECKING", "INVITING", "RINGING", "CONNECTING",
           "CONNECTED", "TERMINATING", "FINAL", "ABORTED"}

OrderlySeq(seq) == \A i, j \in DOMAIN seq : i < j => Life!MayFollow(seq[i], seq[j])

\* An orderly sequence over S.
Story(seq, S) == seq \in Seq(S) /\ OrderlySeq(seq)

Told == Stage \in States /\ Story(out, Said(Stage))

USE DEF Preparing, Alerting, Answering, Talking, Life!Output, Life!GuiOutput,
        Life!SipOutput, Life!Goodbye

\* One more output that may follow all of those said keeps a story orderly.
LEMMA StoryGrows ==
  ASSUME NEW S, NEW T, S \subseteq T, NEW seq, Story(seq, S),
         NEW y \in T, \A x \in S : Life!MayFollow(x, y)
  PROVE  Story(Append(seq, y), T)
<1>1. seq \in Seq(S) /\ Len(seq) \in Nat /\ DOMAIN seq = 1 .. Len(seq)
      /\ \A i \in 1 .. Len(seq) : seq[i] \in S
  BY LenProperties, ElementOfSeq DEF Story
<1>2. seq \in Seq(T)
  BY <1>1, SeqMonotonic
<1>3. /\ Append(seq, y) \in Seq(T)
      /\ Len(Append(seq, y)) = Len(seq) + 1
      /\ \A i \in 1 .. Len(seq) : Append(seq, y)[i] = seq[i]
      /\ Append(seq, y)[Len(seq) + 1] = y
  BY <1>2, AppendProperties
<1>4. DOMAIN Append(seq, y) = 1 .. Len(seq) + 1
  BY <1>3, LenProperties
<1>5. ASSUME NEW i \in 1 .. Len(seq) + 1, NEW j \in 1 .. Len(seq) + 1, i < j
      PROVE  Life!MayFollow(Append(seq, y)[i], Append(seq, y)[j])
  <2>1. i \in 1 .. Len(seq) /\ Append(seq, y)[i] = seq[i]
    BY <1>1, <1>3, <1>5
  <2>2. CASE j = Len(seq) + 1
    BY <1>1, <1>3, <2>1, <2>2
  <2>3. CASE j \in 1 .. Len(seq)
    BY <1>1, <1>3, <1>5, <2>1, <2>3 DEF Story, OrderlySeq
  <2> QED  BY <1>1, <2>2, <2>3
<1> QED  BY <1>3, <1>4, <1>5 DEF Story, OrderlySeq

LEMMA StoryWidens ==
  ASSUME NEW S, NEW T, S \subseteq T, NEW seq, Story(seq, S)
  PROVE  Story(seq, T)
BY SeqMonotonic DEF Story

LEMMA TransitionMeans ==
  ASSUME NEW s, NEW t, NEW outs
  PROVE  Life!Transition(s, outs, t) <=> Stage = s /\ Stage' = t /\ out' = out \o outs
BY DEF Life!Transition, Stage

LEMMA AbortMeans ==
  Life!Abort => /\ Stage' = "ABORTED"
                /\ \/ out' = out
                   \/ Stage = "INITIAL" /\ out' = Append(out, "INCOMING")
                   \/ Stage = "INVITING" /\ out' = Append(out, "ACK")
BY DEF Life!Abort, Stage

\* The same for the outputs of a transition, of which there are two at most.
LEMMA Transitions ==
  ASSUME NEW s \in States, NEW t \in States, Told
  PROVE  /\ Life!Transition(s, <<>>, t) /\ Said(s) \subseteq Said(t) => Told'
         /\ \A x \in Said(t) :
              /\ Life!Transition(s, <<x>>, t)
              /\ Said(s) \subseteq Said(t)
              /\ \A z \in Said(s) : Life!MayFollow(z, x)
              => Told'
         /\ \A x, y \in Said(t) :
              /\ Life!Transition(s, <<x, y>>, t)
              /\ Said(s) \subseteq Said(t)
              /\ \A z \in Said(s) : Life!MayFollow(z, x) /\ Life!MayFollow(z, y)
              /\ Life!MayFollow(x, y)
              => Told'
<1>1. ASSUME Stage = s
      PROVE  out \in Seq(Said(s)) /\ Story(out, Said(s)) /\ out \o <<>> = out
  BY <1>1, ConcatEmptySeq DEF Told, Story
<1>3. ASSUME Life!Transition(s, <<>>, t), Said(s) \subseteq Said(t)
      PROVE  Told'
  BY <1>1, <1>3, TransitionMeans, StoryWidens DEF Told
<1>4. ASSUME NEW x \in Said(t), Life!Transition(s, <<x>>, t),
             Said(s) \subseteq Said(t), \A z \in Said(s) : Life!MayFollow(z, x)
      PROVE  Told'
  <2>1. Stage = s /\ Stage' = t /\ out' = out \o <<x>>
    BY <1>4, TransitionMeans
  <2>2. out \in Seq(Said(t))
    BY <1>1, <1>4, <2>1, SeqMonotonic
  <2>3. Story(Append(out, x), Said(t))
    BY <1>1, <1>4, <2>1, StoryGrows
  <2>4. out' = Append(out, x)
    BY <2>1, <2>2, AppendIsConcat
  <2> QED  BY <2>1, <2>3, <2>4 DEF Told
<1>5. ASSUME NEW x \in Said(t), NEW y \in Said(t), Life!Transition(s, <<x, y>>, t),
             Said(s) \subseteq Said(t),
             \A z \in Said(s) : Life!MayFollow(z, x) /\ Life!MayFollow(z, y),
             Life!MayFollow(x, y)
      PROVE  Told'
  <2>0. Stage = s /\ Stage' = t /\ out' = out \o <<x, y>>
    BY <1>5, TransitionMeans
  <2>1. out' = Append(Append(out, x), y)
    <3>1. out \in Seq(Said(t))
      BY <1>1, <1>5, <2>0, SeqMonotonic
    <3>2. out \o <<x, y>> = Append(Append(out, x), y)
      BY <3>1, <1>5
    <3> QED  BY <2>0, <3>2
  <2>2. Story(Append(out, x), Said(s) \cup {x})
    BY <1>1, <1>5, <2>0, StoryGrows
  <2>3. Story(Append(Append(out, x), y), Said(t))
    BY <1>5, <2>2, StoryGrows
  <2> QED  BY <2>0, <2>1, <2>3 DEF Told
<1> QED  BY <1>3, <1>4, <1>5

LEMMA LifeInductive ==
  /\ Life!Init => Told
  /\ Told /\ [Life!Next]_(Life!vars) => Told'
<1>1. Life!Init => Told
  <2>1. Life!Init => Stage = "INITIAL" /\ out = <<>>
    BY DEF Life!Init, Stage
  <2> QED  BY <2>1, EmptySeq DEF Told, Story, OrderlySeq, Said, States
<1>2. ASSUME Told, [Life!Next]_(Life!vars)
      PROVE  Told'
  <2> USE <1>2 DEF States, Said, Life!MayFollow, Life!Stage
  <2>1. CASE Life!MakeCall
    BY <2>1, Transitions DEF Life!MakeCall
  <2>2. CASE Life!AccountError
    BY <2>2, Transitions, ZenonT(40) DEF Life!AccountError
  <2>3. CASE Life!AccountOK
    BY <2>3, Transitions DEF Life!AccountOK
  <2>4. CASE Life!Provisional
    BY <2>4, Transitions DEF Life!Provisional
  <2>5. CASE Life!Answered
    <3>1. /\ Life!Transition("INVITING", <<"ACK", "ACCEPTED">>, "CONNECTED")
          /\ Stage = "INVITING"
      BY <2>5, TransitionMeans DEF Life!Answered
    <3>2. /\ {"ACK", "ACCEPTED"} \subseteq Said("CONNECTED")
          /\ Said("INVITING") \subseteq Said("CONNECTED")
      OBVIOUS
    <3>3. /\ \A z \in Said("INVITING") : Life!MayFollow(z, "ACK") /\ Life!MayFollow(z, "ACCEPTED")
          /\ Life!MayFollow("ACK", "ACCEPTED")
      OBVIOUS
    <3>4. "INVITING" \in States /\ "CONNECTED" \in States
      OBVIOUS
    <3> HIDE DEF States, Said, Life!MayFollow, Life!Stage
    <3> QED  BY <3>1, <3>2, <3>3, <3>4, Transitions
  <2>6. CASE Life!Unsuccessful
    <3>1. PICK x \in {"DECLINED", "UNREACHABLE"} :
            Life!Transition("INVITING", <<x>>, "TERMINATING")
      BY <2>6 DEF Life!Unsuccessful
    <3>2. /\ "INVITING" \in States /\ "TERMINATING" \in States
          /\ {x} \subseteq Said("TERMINATING") /\ Said("INVITING") \subseteq Said("TERMINATING")
          /\ \A z \in Said("INVITING") : Life!MayFollow(z, x)
      OBVIOUS
    <3> HIDE DEF States, Said, Life!MayFollow, Life!Stage
    <3> QED  BY <3>1, <3>2, Transitions
  <2>7. CASE Life!GiveUp
    BY <2>7, Transitions, ZenonT(40) DEF Life!GiveUp
  <2>8. CASE Life!Invited
    <3>1. Life!Transition("INITIAL", <<"INCOMING", "180">>, "RINGING")
      BY <2>8 DEF Life!Invited
    <3>2. /\ "INITIAL" \in States /\ "RINGING" \in States
          /\ {"INCOMING", "180"} \subseteq Said("RINGING") /\ Said("INITIAL") \subseteq Said("RINGING")
          /\ \A z \in Said("INITIAL") : Life!MayFollow(z, "INCOMING") /\ Life!MayFollow(z, "180")
          /\ Life!MayFollow("INCOMING", "180")
      OBVIOUS
    <3> HIDE DEF States, Said, Life!MayFollow, Life!Stage
    <3> QED  BY <3>1, <3>2, Transitions
  <2>9. CASE Life!Accept
    <3>1. Life!Transition("RINGING", <<"200">>, "CONNECTING")
      BY <2>9 DEF Life!Accept
    <3>2. /\ "RINGING" \in States /\ "CONNECTING" \in States
          /\ {"200"} \subseteq Said("CONNECTING") /\ Said("RINGING") \subseteq Said("CONNECTING")
          /\ \A z \in Said("RINGING") : Life!MayFollow(z, "200")
      OBVIOUS
    <3> HIDE DEF States, Said, Life!MayFollow, Life!Stage
    <3> QED  BY <3>1, <3>2, Transitions
  <2>10. CASE Life!AcceptAgain
    <3>1. Life!Transition("CONNECTING", <<"200">>, "CONNECTING")
      BY <2>10 DEF Life!AcceptAgain
    <3>2. /\ "CONNECTING" \in States /\ "CONNECTING" \in States
          /\ {"200"} \subseteq Said("CONNECTING") /\ Said("CONNECTING") \subseteq Said("CONNECTING")
          /\ \A z \in Said("CONNECTING") : Life!MayFollow(z, "200")
      OBVIOUS
    <3> HIDE DEF States, Said, Life!MayFollow, Life!Stage
    <3> QED  BY <3>1, <3>2, Transitions
  <2>11. CASE Life!Acknowledged
    <3>1. Life!Transition("CONNECTING", <<"ACCEPTED">>, "CONNECTED")
      BY <2>11 DEF Life!Acknowledged
    <3>2. /\ "CONNECTING" \in States /\ "CONNECTED" \in States
          /\ {"ACCEPTED"} \subseteq Said("CONNECTED") /\ Said("CONNECTING") \subseteq Said("CONNECTED")
          /\ \A z \in Said("CONNECTING") : Life!MayFollow(z, "ACCEPTED")
      OBVIOUS
    <3> HIDE DEF States, Said, Life!MayFollow, Life!Stage
    <3> QED  BY <3>1, <3>2, Transitions
  <2>12. CASE Life!Decline
    <3>1. PICK s \in {"RINGING", "CONNECTING"} :
            Life!Transition(s, <<"DECLINE">>, "TERMINATING")
      BY <2>12 DEF Life!Decline
    <3>2. /\ Stage = s /\ s \in States /\ "TERMINATING" \in States
          /\ "DECLINE" \in Said("TERMINATING")
          /\ Said(s) \subseteq Said("TERMINATING")
          /\ \A z \in Said(s) : Life!MayFollow(z, "DECLINE")
      BY <3>1, TransitionMeans
    <3> HIDE DEF States, Said, Life!MayFollow, Life!Stage
    <3> QED  BY <3>1, <3>2, Transitions
  <2>13. CASE Life!Cancelled
    <3>1. PICK s \in {"RINGING", "CONNECTING"} :
            Life!Transition(s, <<"CANCELLED">>, "TERMINATING")
      BY <2>13 DEF Life!Cancelled
    <3>2. /\ Stage = s /\ s \in States /\ "TERMINATING" \in States
          /\ "CANCELLED" \in Said("TERMINATING")
          /\ Said(s) \subseteq Said("TERMINATING")
          /\ \A z \in Said(s) : Life!MayFollow(z, "CANCELLED")
      BY <3>1, TransitionMeans
    <3> HIDE DEF States, Said, Life!MayFollow, Life!Stage
    <3> QED  BY <3>1, <3>2, Transitions
  <2>14. CASE Life!HangUp
    <3>1. Life!Transition("CONNECTED", <<"BYE">>, "TERMINATING")
      BY <2>14 DEF Life!HangUp
    <3>2. /\ "CONNECTED" \in States /\ "TERMINATING" \in States
          /\ {"BYE"} \subseteq Said("TERMINATING") /\ Said("CONNECTED") \subseteq Said("TERMINATING")
          /\ \A z \in Said("CONNECTED") : Life!MayFollow(z, "BYE")
      OBVIOUS
    <3> HIDE DEF States, Said, Life!MayFollow, Life!Stage
    <3> QED  BY <3>1, <3>2, Transitions
  <2>15. CASE Life!RemoteHangUp
    BY <2>15, Transitions DEF Life!RemoteHangUp
  <2>16. CASE Life!Terminate
    <3>1. Life!Transition("TERMINATING", <<"TERMINATED">>, "FINAL")
      BY <2>16 DEF Life!Terminate
    <3>2. /\ "TERMINATING" \in States /\ "FINAL" \in States
          /\ {"TERMINATED"} \subseteq Said("FINAL") /\ Said("TERMINATING") \subseteq Said("FINAL")
          /\ \A z \in Said("TERMINATING") : Life!MayFollow(z, "TERMINATED")
      OBVIOUS
    <3> HIDE DEF States, Said, Life!MayFollow, Life!Stage
    <3> QED  BY <3>1, <3>2, Transitions
  <2>17. CASE Life!Abort
    <3>1. Stage' = "ABORTED" /\ Said("ABORTED") = Life!Output /\ Said(Stage) \subseteq Life!Output
      BY <2>17, AbortMeans DEF Told
    <3>2. CASE out' = out
      BY <3>1, <3>2, StoryWidens DEF Told
    <3>3. CASE Stage = "INITIAL" /\ out' = Append(out, "INCOMING")
      BY <3>1, <3>3, StoryGrows DEF Told
    <3>4. CASE Stage = "INVITING" /\ out' = Append(out, "ACK")
      <4>1. \A z \in Said("INVITING") : Life!MayFollow(z, "ACK")
        OBVIOUS
      <4>2. Story(out, Said("INVITING")) /\ "ACK" \in Life!Output
            /\ Said("INVITING") \subseteq Life!Output
        BY <3>4 DEF Told
      <4>3. Story(out', Life!Output)
        BY <3>4, <4>1, <4>2, StoryGrows
      <4> QED  BY <3>1, <4>3 DEF Told
    <3> QED  BY <2>17, <3>2, <3>3, <3>4, AbortMeans
  <2>18. CASE UNCHANGED (Life!vars)
    BY <2>18 DEF Life!vars, Stage, Told
  <2> QED
    BY <2>1, <2>2, <2>3, <2>4, <2>5, <2>6, <2>7, <2>8, <2>9, <2>10, <2>11,
       <2>12, <2>13, <2>14, <2>15, <2>16, <2>17, <2>18 DEF Life!Next
<1> QED  BY <1>1, <1>2

\* A call of CallLifecycle advances in the eyes of the GUI and never goes
\* back, and nothing is asked of the SIP stack after its end.
THEOREM LifecycleIsOrderly == Life!Spec => []Life!Orderly
<1>1. Told => Life!Orderly
  BY DEF Told, Story, OrderlySeq, Life!Orderly
<1> QED  BY <1>1, LifeInductive, PTL DEF Life!Spec

HIDE DEF Preparing, Alerting, Answering, Talking, Life!Output, Life!GuiOutput,
         Life!SipOutput, Life!Goodbye

\* The GUI sees the call advance and never go back, and nothing is asked of
\* the SIP stack once the call was ended, whatever order events mix in.
THEOREM MachineIsOrderly == Spec => []Orderly
BY MachineImplementsLifecycle, LifecycleIsOrderly, PTL
   DEF ImplementsLifecycle, Orderly

-----------------------------------------------------------------------------
(* What the GUI and the other party may rely on *)

Final == {"REFUSED", "RELEASED", "CLOSED", "CANCEL"}

\* Events in the pool are not ahead of the other party.
PoolIsTruthful ==
  /\ \A e \in {"2xx", "ACK"} : Has(pool, e) => peer \in {"talking", "left"}
  /\ \A e \in Final : Has(pool, e) => peer \in {"gone", "left"}

\* Before the INVITE is sent the other party knows of nothing.
NobodyKnowsYet ==
  /\ curState = "INITIAL" /\ pc # "stopped"
       => \/ /\ pc = "loop" /\ pool # <<>>
             /\ \/ Head(pool) = "INVITE"
                \/ Head(pool) = "GUI_MAKE_CALL" /\ peer = "unaware"
          \/ pc = "verdict" /\ peer = "unaware"
  /\ pc = "verdict" => curState = "INITIAL"
  /\ curState = "CHECKING" => peer = "unaware"

\* Once the machine is terminating, nobody is left behind.
EndIsSettled ==
  curState \in {"TERMINATING", "FINAL"}
    => peer \in {"unaware", "gone", "left"} \/ dialogId = 0

\* The only regular way to stop is through TERMINATING, having said so.
Ends == /\ pc = "stopped" /\ Regular => curState = "FINAL"
        /\ GuiLearnsEnd

\* What holds of a call whose pool is not damaged.
Sound == /\ PoolIsTruthful /\ NobodyKnowsYet /\ EndIsSettled
         /\ AcceptedOnlyIfAnswered /\ VerdictIsComing

Inv == TypeOK /\ Ends /\ (~damaged => Sound)

LEMMA Consumed ==
  ASSUME TypeOK, pool # <<>>, pool' = Tail(pool)
  PROVE  /\ \A y : Has(pool', y) => Has(pool, y)
         /\ \A y : Has(pool, y) => Has(pool', y) \/ Head(pool) = y
         /\ Has(pool, Head(pool))
BY HasHeadOrTail DEF TypeOK

LEMMA Offered ==
  ASSUME TypeOK, NEW d, NEW e \in Event, Offer(d, e), ~damaged'
  PROVE  /\ UNCHANGED <<machine, doShutdown, callInfo, out>>
         /\ \A y : Has(pool', y) => Has(pool, y) \/ y = e
         /\ \A y : Has(pool, y) => Has(pool', y)
         /\ pool # <<>> => pool' # <<>> /\ Head(pool') = Head(pool)
<1>1. \A y : Has(Append(pool, e), y) <=> Has(pool, y) \/ e = y
  BY HasAppended DEF TypeOK
<1>2. pool # <<>> => Append(pool, e) # <<>> /\ Head(Append(pool, e)) = Head(pool)
  BY AppendProperties, HeadTailProperties, EmptySeq DEF TypeOK
<1> QED  BY <1>1, <1>2 DEF Offer

\* An output other than ACCEPTED does not tell the GUI that it was accepted.
LEMMA NotAccepted ==
  ASSUME TypeOK
  PROVE  /\ out' = out \o <<>> => (Has(out', "ACCEPTED") <=> Has(out, "ACCEPTED"))
         /\ \A x \in Life!Output \ {"ACCEPTED"} :
              out' = out \o <<x>>
                => (Has(out', "ACCEPTED") <=> Has(out, "ACCEPTED"))
         /\ out' = out \o <<"INCOMING", "180">>
              => (Has(out', "ACCEPTED") <=> Has(out, "ACCEPTED"))
<1>0. out \in Seq(Life!Output)
  BY DEF TypeOK
<1>1. ASSUME NEW x \in Life!Output \ {"ACCEPTED"}, out' = out \o <<x>>
      PROVE  Has(out', "ACCEPTED") <=> Has(out, "ACCEPTED")
  <2>1. out' = Append(out, x)
    BY <1>1, StoryExtended
  <2>2. Has(Append(out, x), "ACCEPTED") <=> Has(out, "ACCEPTED")
    BY <1>0, <1>1, HasAppended
  <2> QED  BY <2>1, <2>2
<1>2. ASSUME out' = out \o <<"INCOMING", "180">>
      PROVE  Has(out', "ACCEPTED") <=> Has(out, "ACCEPTED")
  <2>1. out' = Append(Append(out, "INCOMING"), "180")
    BY <1>0, <1>2
  <2>2. "INCOMING" \in Life!Output /\ "180" \in Life!Output
    BY DEF Life!Output, Life!GuiOutput, Life!SipOutput
  <2>3. Append(out, "INCOMING") \in Seq(Life!Output)
    BY <1>0, <2>2, AppendProperties
  <2>4. Has(Append(out, "INCOMING"), "ACCEPTED") <=> Has(out, "ACCEPTED")
    BY <1>0, <2>2, HasAppended
  <2>5. Has(Append(Append(out, "INCOMING"), "180"), "ACCEPTED")
          <=> Has(Append(out, "INCOMING"), "ACCEPTED")
    BY <2>2, <2>3, HasAppended, ZenonT(40)
  <2> QED  BY <2>1, <2>4, <2>5
<1>3. out \o <<>> = out
  BY StoryExtended
<1> QED  BY <1>1, <1>2, <1>3

\* A handler that leaves the other party alone, or ends the call for it.
LEMMA HandlerKeepsTruth ==
  ASSUME Inv, ~damaged, pool # <<>>, pool' = Tail(pool), peer' \in {peer, Over}
  PROVE  PoolIsTruthful'
<1>1. \A y : Has(pool', y) => Has(pool, y)
  BY Consumed DEF Inv
<1> QED  BY <1>1 DEF Inv, Sound, PoolIsTruthful, Final, Over

\* A handler that goes on has not stopped, one that fails is not regular.
LEMMA EndsStep ==
  ASSUME TypeOK, Ends, PcFits, [Next]_vars
  PROVE  Ends'
<1> USE DEF Ends, Regular, GuiLearnsEnd
<1>1. ASSUME pc' # "stopped" \/ errorOccurred' \/ doShutdown'
      PROVE  Ends'
  BY <1>1
<1>2. \A s, outs : Goto(s, outs) /\ s # "FINAL" => pc' # "stopped"
  BY DEF Goto
<1>3. \A outs : Fail(outs) => errorOccurred'
  BY DEF Fail
<1>4. CASE MakeCall \/ GiveVerdict \/ Invited \/ AccountOK \/ AccountError
  BY <1>1, <1>2, <1>3, <1>4 DEF MakeCall, GiveVerdict, Invited, AccountOK, AccountError
<1>5. CASE \/ \E e \in Response : InvitingResponse(e)
           \/ InvitingAnswered \/ InvitingEndCall
  BY <1>1, <1>2, <1>3, <1>5 DEF InvitingResponse, InvitingAnswered, InvitingEndCall
<1>6. CASE AcceptCall \/ DeclineCall \/ Cancelled \/ Acknowledged
  BY <1>1, <1>2, <1>3, <1>6 DEF AcceptCall, DeclineCall, Cancelled, Acknowledged
<1>7. CASE \/ HangUp \/ \E e \in SipEvent : RemoteHangUp(e)
           \/ IgnoreEvent \/ TakeNothing
  BY <1>1, <1>2, <1>3, <1>7 DEF HangUp, RemoteHangUp, IgnoreEvent, TakeNothing
<1>8. CASE Terminate
  <2>1. CASE Goto("FINAL", <<"TERMINATED">>)
    <3>1. out' = Append(out, "TERMINATED") /\ "TERMINATED" \in Life!Output
      BY <2>1, StoryExtended DEF Goto, Life!Output, Life!GuiOutput
    <3>2. out' # <<>> /\ out'[Len(out')] = "TERMINATED"
      BY <3>1, AppendProperties, EmptySeq DEF TypeOK
    <3> QED  BY <2>1, <3>2 DEF Goto
  <2>2. CASE Fail(<<>>)
    BY <1>1, <1>3, <2>2
  <2> QED  BY <1>8, <2>1, <2>2 DEF Terminate
<1>9. CASE CheckShutdown
  BY <1>1, <1>9 DEF CheckShutdown, Moves, slot
<1>10. CASE GoToSleep \/ FallAsleep \/ SpuriousWakeUp
  BY <1>1, <1>10 DEF GoToSleep, FallAsleep, SpuriousWakeUp, Moves
<1>11. CASE (\E w \in Waker : Signal(w)) \/ GuiEvents \/ Shutdown \/ PeerStep
           \/ UNCHANGED vars
  <2>1. UNCHANGED <<curState, errorOccurred, out>>
        /\ (doShutdown' = doShutdown \/ doShutdown')
        /\ (pc' = pc \/ pc' = "woken")
    BY <1>11 DEF Signal, Moves, GuiEvents, Shutdown, PeerStep, PeerRings,
       PeerAnswers, PeerRefuses, TimesOut, PeerCancels, PeerAcknowledges,
       PeerHangsUp, StackReleases, Offer, machine, slot, vars
  <2> QED  BY <1>1, <2>1
<1> QED
  BY <1>4, <1>5, <1>6, <1>7, <1>8, <1>9, <1>10, <1>11 DEF Next, MachineStep

LEMMA SoundStep ==
  ASSUME Inv, ~damaged, ~damaged', [Next]_vars
  PROVE  Sound'
<1> USE DEF Handles, Takes, Consume, Life!Output, Life!GuiOutput,
        Life!SipOutput, Life!Goodbye
<1>0. TypeOK /\ TypeOK' /\ Sound
  BY TypeStep DEF Inv
<1>1. CASE MakeCall
  <2>1. peer' = peer /\ peer = "unaware" /\ pool # <<>> /\ pool' = Tail(pool)
        /\ curState = "INITIAL" /\ curState' = "INITIAL" /\ pc' = "verdict"
        /\ out' = out
    BY <1>0, <1>1 DEF MakeCall, Sound, NobodyKnowsYet
  <2>2. PoolIsTruthful'
    BY <2>1, HandlerKeepsTruth
  <2> QED
    BY <1>0, <2>1, <2>2 DEF Sound, NobodyKnowsYet, EndIsSettled,
       AcceptedOnlyIfAnswered, VerdictIsComing
<1>2. CASE GiveVerdict
  <2>1. peer' = peer /\ peer = "unaware" /\ curState = "INITIAL"
    BY <1>0, <1>2 DEF GiveVerdict, Sound, NobodyKnowsYet
  <2>2. CASE Goto("CHECKING", <<>>)
    <3>1. PICK v \in Verdict : pool' = Append(pool, v)
      BY <1>2, <2>2 DEF GiveVerdict, Fail, Goto
    <3>2. v \in Event
      BY DEF Event
    <3>3. \A y : Has(pool', y) <=> Has(pool, y) \/ v = y
      BY <1>0, <3>1, <3>2, HasAppended DEF TypeOK
    <3>4. PoolIsTruthful'
      BY <1>0, <2>1, <3>3 DEF Sound, PoolIsTruthful, Verdict, Final
    <3>5. curState' = "CHECKING" /\ pc' = "check" /\ out' = out
      BY <1>0, <2>2, StoryExtended DEF Goto
    <3>6. VerdictIsComing'
      BY <3>3, <3>5 DEF VerdictIsComing, Has
    <3> QED
      BY <1>0, <2>1, <3>4, <3>5, <3>6 DEF Sound, NobodyKnowsYet, EndIsSettled,
         AcceptedOnlyIfAnswered
  <2>3. CASE Fail(<<>>)
    <3>1. pool' = pool /\ pc' = "stopped" /\ curState' = curState /\ out' = out
      BY <1>0, <1>2, <2>3, StoryExtended DEF GiveVerdict, Fail, Goto
    <3> QED
      BY <1>0, <2>1, <3>1 DEF Sound, PoolIsTruthful, NobodyKnowsYet,
         EndIsSettled, AcceptedOnlyIfAnswered, VerdictIsComing
  <2> QED  BY <1>2, <2>2, <2>3 DEF GiveVerdict
<1>3. CASE Invited
  <2>2. PoolIsTruthful'
    BY <1>3, HandlerKeepsTruth DEF Invited
  <2>3. NobodyKnowsYet' /\ EndIsSettled'
    BY <1>0, <1>3 DEF Invited, Sound, NobodyKnowsYet,
       EndIsSettled, callInfo, Goto, Fail
  <2>4. AcceptedOnlyIfAnswered'
    BY <1>0, <1>3, NotAccepted DEF Invited, Sound, Goto, Fail,
       AcceptedOnlyIfAnswered
  <2>5. VerdictIsComing'
    BY <1>3 DEF Invited, Goto, Fail, VerdictIsComing
  <2> QED  BY <2>2, <2>3, <2>4, <2>5 DEF Sound
<1>4. CASE AccountOK
  <2>2. PoolIsTruthful'
    <3>1. peer = "unaware" /\ pool # <<>> /\ pool' = Tail(pool)
      BY <1>0, <1>4 DEF AccountOK, Sound, NobodyKnowsYet
    <3>2. \A y \in {"2xx", "ACK"} \cup Final : ~Has(pool, y)
      BY <1>0, <3>1 DEF Sound, PoolIsTruthful
    <3> QED  BY <1>0, <3>1, <3>2, Consumed DEF PoolIsTruthful
  <2>3. NobodyKnowsYet' /\ EndIsSettled'
    BY <1>0, <1>4 DEF AccountOK, Sound, NobodyKnowsYet,
       EndIsSettled, callInfo, Goto, Fail
  <2>4. AcceptedOnlyIfAnswered'
    BY <1>0, <1>4, NotAccepted DEF AccountOK, Sound, Goto, Fail,
       AcceptedOnlyIfAnswered, NobodyKnowsYet
  <2>5. VerdictIsComing'
    BY <1>4 DEF AccountOK, Goto, Fail, VerdictIsComing
  <2> QED  BY <2>2, <2>3, <2>4, <2>5 DEF Sound
<1>5. CASE AccountError
  <2>2. PoolIsTruthful'
    BY <1>5, HandlerKeepsTruth DEF AccountError
  <2>3. NobodyKnowsYet' /\ EndIsSettled'
    BY <1>0, <1>5 DEF AccountError, Sound, NobodyKnowsYet,
       EndIsSettled, callInfo, Goto, Fail
  <2>4. AcceptedOnlyIfAnswered'
    BY <1>0, <1>5, NotAccepted DEF AccountError, Sound, Goto, Fail,
       AcceptedOnlyIfAnswered
  <2>5. VerdictIsComing'
    BY <1>5 DEF AccountError, Goto, Fail, VerdictIsComing
  <2> QED  BY <2>2, <2>3, <2>4, <2>5 DEF Sound
<1>6. CASE InvitingAnswered
  <2>2. PoolIsTruthful'
    BY <1>6, HandlerKeepsTruth DEF InvitingAnswered
  <2>3. NobodyKnowsYet' /\ EndIsSettled'
    BY <1>0, <1>6 DEF InvitingAnswered, Sound, NobodyKnowsYet,
       EndIsSettled, callInfo, Goto, Fail
  <2>4. AcceptedOnlyIfAnswered'
    BY <1>0, <1>6, NotAccepted, Consumed DEF InvitingAnswered, Sound, Goto, Fail,
       AcceptedOnlyIfAnswered, PoolIsTruthful
  <2>5. VerdictIsComing'
    BY <1>6 DEF InvitingAnswered, Goto, Fail, VerdictIsComing
  <2> QED  BY <2>2, <2>3, <2>4, <2>5 DEF Sound
<1>7. CASE InvitingEndCall
  <2>2. PoolIsTruthful'
    BY <1>7, HandlerKeepsTruth DEF InvitingEndCall
  <2>3. NobodyKnowsYet' /\ EndIsSettled'
    BY <1>0, <1>7 DEF InvitingEndCall, Sound, NobodyKnowsYet,
       EndIsSettled, callInfo, Goto, Fail, Over
  <2>4. AcceptedOnlyIfAnswered'
    BY <1>0, <1>7, NotAccepted DEF InvitingEndCall, Sound, Goto, Fail,
       AcceptedOnlyIfAnswered, Over
  <2>5. VerdictIsComing'
    BY <1>7 DEF InvitingEndCall, Goto, Fail, VerdictIsComing
  <2> QED  BY <2>2, <2>3, <2>4, <2>5 DEF Sound
<1>8. CASE AcceptCall
  <2>2. PoolIsTruthful'
    BY <1>8, HandlerKeepsTruth DEF AcceptCall
  <2>3. NobodyKnowsYet' /\ EndIsSettled'
    BY <1>0, <1>8 DEF AcceptCall, Sound, NobodyKnowsYet,
       EndIsSettled, callInfo, Goto, Fail
  <2>4. AcceptedOnlyIfAnswered'
    BY <1>0, <1>8, NotAccepted DEF AcceptCall, Sound, Goto, Fail,
       AcceptedOnlyIfAnswered
  <2>5. VerdictIsComing'
    BY <1>8 DEF AcceptCall, Goto, Fail, VerdictIsComing
  <2> QED  BY <2>2, <2>3, <2>4, <2>5 DEF Sound
<1>9. CASE DeclineCall
  <2>2. PoolIsTruthful'
    BY <1>9, HandlerKeepsTruth DEF DeclineCall
  <2>3. NobodyKnowsYet' /\ EndIsSettled'
    BY <1>0, <1>9 DEF DeclineCall, Sound, NobodyKnowsYet,
       EndIsSettled, callInfo, Goto, Fail, Over
  <2>4. AcceptedOnlyIfAnswered'
    BY <1>0, <1>9, NotAccepted DEF DeclineCall, Sound, Goto, Fail,
       AcceptedOnlyIfAnswered, Over
  <2>5. VerdictIsComing'
    BY <1>9 DEF DeclineCall, Goto, Fail, VerdictIsComing
  <2> QED  BY <2>2, <2>3, <2>4, <2>5 DEF Sound
<1>10. CASE Cancelled
  <2>2. PoolIsTruthful'
    BY <1>10, HandlerKeepsTruth DEF Cancelled
  <2>3. NobodyKnowsYet' /\ EndIsSettled'
    BY <1>0, <1>10, Consumed DEF Cancelled, Sound, NobodyKnowsYet,
       EndIsSettled, callInfo, Goto, Fail, PoolIsTruthful, Final
  <2>4. AcceptedOnlyIfAnswered'
    BY <1>0, <1>10, NotAccepted DEF Cancelled, Sound, Goto, Fail,
       AcceptedOnlyIfAnswered
  <2>5. VerdictIsComing'
    BY <1>10 DEF Cancelled, Goto, Fail, VerdictIsComing
  <2> QED  BY <2>2, <2>3, <2>4, <2>5 DEF Sound
<1>11. CASE Acknowledged
  <2>2. PoolIsTruthful'
    BY <1>11, HandlerKeepsTruth DEF Acknowledged
  <2>3. NobodyKnowsYet' /\ EndIsSettled'
    BY <1>0, <1>11 DEF Acknowledged, Sound, NobodyKnowsYet,
       EndIsSettled, callInfo, Goto, Fail
  <2>4. AcceptedOnlyIfAnswered'
    BY <1>0, <1>11, NotAccepted, Consumed DEF Acknowledged, Sound, Goto, Fail,
       AcceptedOnlyIfAnswered, PoolIsTruthful
  <2>5. VerdictIsComing'
    BY <1>11 DEF Acknowledged, Goto, Fail, VerdictIsComing
  <2> QED  BY <2>2, <2>3, <2>4, <2>5 DEF Sound
<1>12. CASE HangUp
  <2>2. PoolIsTruthful'
    BY <1>12, HandlerKeepsTruth DEF HangUp
  <2>3. NobodyKnowsYet' /\ EndIsSettled'
    BY <1>0, <1>12 DEF HangUp, Sound, NobodyKnowsYet,
       EndIsSettled, callInfo, Goto, Fail, Over
  <2>4. AcceptedOnlyIfAnswered'
    BY <1>0, <1>12, NotAccepted DEF HangUp, Sound, Goto, Fail,
       AcceptedOnlyIfAnswered, Over
  <2>5. VerdictIsComing'
    BY <1>12 DEF HangUp, Goto, Fail, VerdictIsComing
  <2> QED  BY <2>2, <2>3, <2>4, <2>5 DEF Sound
<1>13. ASSUME NEW e \in SipEvent, RemoteHangUp(e)
      PROVE  Sound'
  <2>2. PoolIsTruthful'
    BY <1>13, HandlerKeepsTruth DEF RemoteHangUp
  <2>3. NobodyKnowsYet' /\ EndIsSettled'
    BY <1>0, <1>13, Consumed DEF RemoteHangUp, Sound, NobodyKnowsYet,
       EndIsSettled, callInfo, Goto, Fail, PoolIsTruthful, Final
  <2>4. AcceptedOnlyIfAnswered'
    BY <1>0, <1>13, NotAccepted DEF RemoteHangUp, Sound, Goto, Fail,
       AcceptedOnlyIfAnswered
  <2>5. VerdictIsComing'
    BY <1>13 DEF RemoteHangUp, Goto, Fail, VerdictIsComing
  <2> QED  BY <2>2, <2>3, <2>4, <2>5 DEF Sound
<1>14. ASSUME NEW e \in Response, InvitingResponse(e)
      PROVE  Sound'
  <2>2. PoolIsTruthful'
    BY <1>14, HandlerKeepsTruth DEF InvitingResponse, StatusOf, Response
  <2>3. NobodyKnowsYet' /\ EndIsSettled'
    BY <1>0, <1>14, Consumed DEF InvitingResponse, StatusOf, Response, Sound, NobodyKnowsYet,
       EndIsSettled, callInfo, Goto, Fail, PoolIsTruthful, Final
  <2>4. AcceptedOnlyIfAnswered'
    BY <1>0, <1>14, NotAccepted DEF InvitingResponse, StatusOf, Response, Sound, Goto, Fail,
       AcceptedOnlyIfAnswered
  <2>5. VerdictIsComing'
    BY <1>14 DEF InvitingResponse, StatusOf, Response, Goto, Fail, VerdictIsComing
  <2> QED  BY <2>2, <2>3, <2>4, <2>5 DEF Sound
<1>15. CASE IgnoreEvent
  <2>1. /\ pc = "loop" /\ pc' = "check" /\ curState' = curState /\ peer' = peer
        /\ out' = out /\ pool # <<>> /\ pool' = Tail(pool)
        /\ Head(pool) \notin Handled(curState)
        /\ curState \notin {"TERMINATING", "FINAL"}
    BY <1>0, <1>15, StoryExtended DEF IgnoreEvent, Goto
  <2>2. PoolIsTruthful'
    BY <2>1, HandlerKeepsTruth
  <2>3. NobodyKnowsYet' /\ EndIsSettled' /\ AcceptedOnlyIfAnswered'
    BY <1>0, <2>1 DEF Sound, NobodyKnowsYet, EndIsSettled, Handled,
       AcceptedOnlyIfAnswered
  <2>4. VerdictIsComing'
    <3>1. ASSUME curState = "CHECKING", NEW y \in Verdict, Has(pool, y)
          PROVE  Has(pool', y)
      BY <1>0, <2>1, <3>1, Consumed DEF Handled, Verdict
    <3> QED  BY <1>0, <2>1, <3>1 DEF Sound, VerdictIsComing, Has
  <2> QED  BY <2>2, <2>3, <2>4 DEF Sound
<1>16. CASE Terminate
  <2>1. UNCHANGED <<pool, callInfo, peer>> /\ pc = "loop" /\ curState = "TERMINATING"
        /\ curState' \in {"TERMINATING", "FINAL"} /\ pc' = "stopped"
    BY <1>16 DEF Terminate, Goto, Fail
  <2>2. Has(out', "ACCEPTED") <=> Has(out, "ACCEPTED")
    BY <1>0, <1>16, NotAccepted DEF Terminate, Goto, Fail
  <2> QED
    BY <1>0, <2>1, <2>2 DEF Sound, PoolIsTruthful, NobodyKnowsYet,
       EndIsSettled, AcceptedOnlyIfAnswered, VerdictIsComing, callInfo
<1>17. CASE TakeNothing
  BY <1>17 DEF TakeNothing
<1>18. CASE CheckShutdown \/ GoToSleep \/ FallAsleep \/ SpuriousWakeUp
           \/ (\E w \in Waker : Signal(w)) \/ Shutdown \/ UNCHANGED vars
  <2>1. UNCHANGED <<curState, pool, callInfo, out, peer>>
    BY <1>18 DEF CheckShutdown, GoToSleep, FallAsleep, SpuriousWakeUp, Signal,
       Moves, Shutdown, vars, machine
  <2>2. \/ pc' = pc
        \/ pc = "check" /\ pc' \in {"loop", "stopped"}
        \/ pc \in {"sleepy", "asleep", "woken"} /\ pc' \in {"loop", "asleep", "woken", "stopped"}
        \/ pc = "loop" /\ pc' = "sleepy" /\ pool = <<>>
    BY <1>18 DEF CheckShutdown, GoToSleep, FallAsleep, SpuriousWakeUp, Signal,
       Moves, Shutdown, vars, machine
  <2>3. PoolIsTruthful' /\ EndIsSettled' /\ AcceptedOnlyIfAnswered'
    BY <1>0, <2>1 DEF Sound, PoolIsTruthful, EndIsSettled,
       AcceptedOnlyIfAnswered, callInfo
  <2>4. NobodyKnowsYet'
    BY <1>0, <2>1, <2>2 DEF Sound, NobodyKnowsYet
  <2>5. VerdictIsComing'
    <3>1. pool = <<>> => ~\E i \in DOMAIN pool : pool[i] \in Verdict
      OBVIOUS
    <3>2. CASE pc' \in {"loop", "check", "stopped"}
      BY <1>0, <2>1, <2>2, <3>2 DEF Sound, VerdictIsComing
    <3>3. CASE pc' \in {"sleepy", "asleep", "woken"}
      BY <1>0, <2>1, <2>2, <3>1, <3>3 DEF Sound, VerdictIsComing
    <3>4. CASE pc' = "verdict"
      BY <1>0, <2>1, <2>2, <3>4 DEF Sound, VerdictIsComing, NobodyKnowsYet
    <3> QED  BY <1>0, <3>2, <3>3, <3>4 DEF TypeOK, Pc
  <2> QED  BY <2>3, <2>4, <2>5 DEF Sound
<1>19. ASSUME NEW d, NEW e \in Event, Offer(d, e),
              \/ peer' = peer
              \/ peer \in {"alerted", "calling"} /\ peer' = "gone"
              \/ peer \in {"alerted", "calling", "talking"} /\ peer' = "talking"
              \/ peer = "talking" /\ peer' = "left",
              e \in {"2xx", "ACK"} => peer' \in {"talking", "left"},
              e \in Final => peer' \in {"gone", "left"}
       PROVE  Sound'
  <2>1. /\ UNCHANGED <<machine, doShutdown, callInfo, out>>
        /\ \A y : Has(pool', y) => Has(pool, y) \/ y = e
        /\ \A y : Has(pool, y) => Has(pool', y)
        /\ pool # <<>> => pool' # <<>> /\ Head(pool') = Head(pool)
    BY <1>0, <1>19, Offered
  <2>2. PoolIsTruthful'
    BY <1>0, <1>19, <2>1 DEF Sound, PoolIsTruthful, Final
  <2>3. NobodyKnowsYet' /\ EndIsSettled' /\ AcceptedOnlyIfAnswered'
    BY <1>0, <1>19, <2>1 DEF Sound, NobodyKnowsYet, EndIsSettled, machine,
       callInfo, AcceptedOnlyIfAnswered
  <2>4. VerdictIsComing'
    BY <1>0, <2>1 DEF Sound, VerdictIsComing, Has, machine
  <2> QED  BY <2>2, <2>3, <2>4 DEF Sound
<1>20. CASE GuiEvents
  BY <1>19, <1>20 DEF GuiEvents, GuiEvent, Event, Final
<1>21. CASE PeerStep
  BY <1>19, <1>21 DEF PeerStep, PeerRings, PeerAnswers, PeerRefuses, TimesOut,
     PeerCancels, PeerAcknowledges, PeerHangsUp, StackReleases, Event,
     SipEvent, Response, Final
<1> QED
  BY <1>1, <1>2, <1>3, <1>4, <1>5, <1>6, <1>7, <1>8, <1>9, <1>10, <1>11, <1>12, <1>13, <1>14, <1>15, <1>16, <1>17, <1>18, <1>20, <1>21
     DEF Next, MachineStep

LEMMA InvStep ==
  ASSUME Inv, PcFits, [Next]_vars
  PROVE  Inv'
<1>1. damaged => damaged'
  BY DEF Next, MachineStep, MakeCall, GiveVerdict, Invited, AccountOK,
     AccountError, InvitingResponse, InvitingAnswered, InvitingEndCall,
     AcceptCall, DeclineCall, Cancelled, Acknowledged, HangUp, RemoteHangUp,
     Terminate, IgnoreEvent, TakeNothing, CheckShutdown, GoToSleep, FallAsleep,
     SpuriousWakeUp, Signal, GuiEvents, Shutdown, PeerStep, PeerRings,
     PeerAnswers, PeerRefuses, TimesOut, PeerCancels, PeerAcknowledges,
     PeerHangsUp, StackReleases, Offer, Consume, slot, vars
<1>2. TypeOK' /\ Ends'
  BY TypeStep, EndsStep DEF Inv
<1> QED  BY <1>1, <1>2, SoundStep DEF Inv

LEMMA InvHolds == Spec => []Inv
<1>1. ASSUME Init
      PROVE  Inv
  <2>1. TypeOK /\ out = <<>> /\ pc = "loop" /\ curState = "INITIAL"
    BY <1>1, TypeInit DEF Init
  <2>2. ASSUME NEW e \in Event, pool = <<e>>
        PROVE  pool # <<>> /\ Head(pool) = e /\ \A y : Has(pool, y) => y = e
    BY <2>2 DEF Has
  <2>3. \A y : ~Has(out, y)
    BY <2>1 DEF Has
  <2>4. Ends
    BY <2>1 DEF Ends, GuiLearnsEnd
  <2>5. PoolIsTruthful /\ NobodyKnowsYet
    <3>1. CASE pool = <<"GUI_MAKE_CALL">> /\ peer = "unaware"
      <4>1. pool # <<>> /\ Head(pool) = "GUI_MAKE_CALL"
            /\ \A y : Has(pool, y) => y = "GUI_MAKE_CALL"
        BY <2>2, <3>1 DEF Event
      <4> QED  BY <2>1, <3>1, <4>1 DEF PoolIsTruthful, Final, NobodyKnowsYet
    <3>2. CASE pool = <<"INVITE">>
      <4>1. pool # <<>> /\ Head(pool) = "INVITE"
            /\ \A y : Has(pool, y) => y = "INVITE"
        BY <2>2, <3>2 DEF Event, SipEvent
      <4> QED  BY <2>1, <3>2, <4>1 DEF PoolIsTruthful, Final, NobodyKnowsYet
    <3> QED  BY <1>1, <3>1, <3>2 DEF Init
  <2> QED
    BY <2>1, <2>3, <2>4, <2>5 DEF Inv, Sound, EndIsSettled,
       AcceptedOnlyIfAnswered, VerdictIsComing
<1>2. Init => PcFits
  BY DEF Init, PcFits
<1>3. Inv /\ PcFits /\ [Next]_vars => Inv' /\ PcFits'
  BY InvStep, StepIsStep DEF Inv
<1> QED  BY <1>1, <1>2, <1>3, PTL DEF Spec

\* The GUI shows a call as accepted only if the other party took it for
\* established, never if it refused, cancelled or gave up, however many events
\* were dropped or late; unless two threads were in the pool at once.
THEOREM AcceptedMeansAnswered == Spec => []AcceptedOnlyIfAnswered
<1>1. Inv => AcceptedOnlyIfAnswered
  BY DEF Inv, Sound, AcceptedOnlyIfAnswered
<1> QED  BY <1>1, InvHolds, PTL

\* A machine that ran to its end told the GUI so, as its last word.
THEOREM EndIsTold == Spec => []GuiLearnsEnd
<1>1. Inv => GuiLearnsEnd
  BY DEF Inv, Ends
<1> QED  BY <1>1, InvHolds, PTL

\* No regular end strands the other party in a call with a known dialog: a
\* pool that is not damaged never announces an end that did not happen, and
\* every way out of a call with a dialog tells the other party.
THEOREM NobodyIsStranded == Spec => []NobodyStranded
<1>1. Inv => NobodyStranded
  BY DEF Inv, Sound, Ends, EndIsSettled, NobodyStranded
<1> QED  BY <1>1, InvHolds, PTL

\* A machine that checks the account is awake and its verdict in the pool,
\* whatever dispatchers put there meanwhile, until it takes it out: as long as
\* no enqueue overlapped with that of the verdict or with a dequeue.
THEOREM VerdictStays == Spec => []VerdictIsComing
<1>1. Inv => VerdictIsComing
  BY DEF Inv, Sound, VerdictIsComing
<1> QED  BY <1>1, InvHolds, PTL
=============================================================================
