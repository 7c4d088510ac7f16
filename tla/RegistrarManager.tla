--------------------------- MODULE RegistrarManager ---------------------------
(***************************************************************************)
(* core/sip_output/registrar_manager.c: the threads that register an       *)
(* account, refresh it until told to stop, and unregister it; the table    *)
(* accInfos[] that they share with the SIP dispatcher, which brings the    *)
(* answers of the registrar.                                               *)
(*                                                                         *)
(* What a thread does while it holds accInfoLock is one step: it waits for *)
(* nobody there.  Most of the table is read and written without that lock, *)
(* and each such access that another thread can tell apart is a step.  A   *)
(* wait with a timeout may end at any time.  Left out: the user events     *)
(* (texts for the user), the fields of an account, failing mutexes.        *)
(***************************************************************************)
EXTENDS Naturals, FiniteSets

CONSTANTS
  Account,      (* the accounts of account management                     *)
  NoAccount,    (* -1                                                     *)
  MaxAccounts,  (* maxAccountIdAmount: size of accInfos[]                 *)
  Thread,       (* the threads of thread management that serve accounts   *)
  RegIds        (* bound of the model: registrations eXosip tells apart   *)

ASSUME RegistrarAssumption ==
  /\ NoAccount \notin Account
  /\ MaxAccounts \in Nat \ {0}
  /\ RegIds \in Nat \ {0}

VARIABLES
  accInfos,   (* the table                                                *)
  thr,        (* each thread: where it is, its accountId, pos and regId   *)
  pending,    (* REGISTERs without an answer: <<regId, for what>>         *)
  shown,      (* what the GUI was last told of each account               *)
  granted,    (* history: regIds whose first REGISTER the registrar took  *)
  shared,     (* history: two threads worked on one entry that they did   *)
              (* not mean to share                                        *)
  crossed     (* history: an answer came while a thread that had stopped  *)
              (* waiting was clearing its flags                           *)

history == <<granted, shared, crossed>>
vars == <<accInfos, thr, pending, shown, history>>

Pos == 1 .. MaxAccounts
NoRegId == 0
RegId == 1 .. RegIds
Purpose == {"reg", "refresh", "unreg"}

\* waitingOn holds the flags waitingOnRegOK, -RefreshOK and -UnregOK.
AccInfo == [accountId : Account \cup {NoAccount}, regId : RegId \cup {NoRegId},
            isRegistered : BOOLEAN, isRefreshed : BOOLEAN,
            eventArrived : BOOLEAN, doShutdown : BOOLEAN, isShutdown : BOOLEAN,
            waitingOn : SUBSET Purpose, informGui : BOOLEAN]

Cleared == [accountId |-> NoAccount, regId |-> NoRegId,
            isRegistered |-> FALSE, isRefreshed |-> FALSE,
            eventArrived |-> FALSE, doShutdown |-> FALSE, isShutdown |-> FALSE,
            waitingOn |-> {}, informGui |-> TRUE]

\* Registration threads: register, waitReg, clearReg, judgeReg, keep,
\* sleep, waitRefresh, judgeRefresh, stop, leave.  Unregistration threads:
\* unregister, waitStop, look, ask, waitUnreg, report, clearStatus, clearFlags.
Registering   == {"waitReg", "clearReg", "judgeReg", "keep", "sleep",
                  "waitRefresh", "judgeRefresh", "stop", "leave"}
Unregistering == {"waitStop", "look", "ask", "waitUnreg", "report",
                  "clearStatus", "clearFlags"}

NoThread == [pc |-> "free", acc |-> NoAccount, pos |-> 1, regId |-> NoRegId]

Entry(t) == accInfos[thr[t].pos]
Used(p)  == accInfos[p].accountId # NoAccount
Smallest(S) == CHOOSE x \in S : \A y \in S : x <= y

\* find_acc_by_id, find_empty_acc_info, find_acc_by_regid
find_acc_by_id(a) == {p \in Pos : accInfos[p].accountId = a}
find_empty_acc_info == {p \in Pos : ~Used(p)}
find_acc_by_regid(r) == {p \in Pos : accInfos[p].regId = r}

\* An id that no registration, answer on its way or thread refers to.
FreeRegIds == {r \in RegId : /\ find_acc_by_regid(r) = {}
                             /\ \A q \in pending : q[1] # r
                             /\ \A t \in Thread : thr[t].regId # r}

-----------------------------------------------------------------------------
Init ==
  /\ accInfos = [p \in Pos |-> Cleared]
  /\ thr = [t \in Thread |-> NoThread]
  /\ pending = {}
  /\ shown = [a \in Account |-> FALSE]
  /\ granted = {} /\ shared = FALSE /\ crossed = FALSE

Goes(t, from, to) ==
  /\ thr[t].pc = from
  /\ thr' = IF to = "free" THEN [thr EXCEPT ![t] = NoThread]
                           ELSE [thr EXCEPT ![t].pc = to]

\* assignments to the entry of t
Writes(t, entry) == accInfos' = [accInfos EXCEPT ![thr[t].pos] = entry]

\* go_change_reg_status: the callback is lost when its queue is full
Tells(t, registered) == shown' = [shown EXCEPT ![thr[t].acc] = registered]
MayTell(t, registered) == Tells(t, registered) \/ UNCHANGED shown

-----------------------------------------------------------------------------
\* The GUI asks; autoregistration_thread does so for some of the accounts.
\* Without a free thread nothing happens.
Starts(t, a, what) ==
  /\ thr[t].pc = "free"
  /\ thr' = [thr EXCEPT ![t].pc = what, ![t].acc = a]
  /\ UNCHANGED <<accInfos, pending, shown, history>>

rm_register_account(t, a)   == Starts(t, a, "register")
rm_unregister_account(t, a) == Starts(t, a, "unregister")

\* unregisterall_thread: the accounts that are registered at this moment get
\* an unregistration thread each, as long as there are any left
rm_unregister_all ==
  LET Free == {t \in Thread : thr[t].pc = "free"}
      Up   == {p \in Pos : Used(p) /\ accInfos[p].isRegistered}
  IN /\ \E p \in Pos : Used(p)
     /\ accInfos' = [p \in Pos |-> IF Used(p)
                                   THEN [accInfos[p] EXCEPT !.informGui = FALSE]
                                   ELSE accInfos[p]]
     /\ \E T \in SUBSET Free :
          \E f \in [T -> Up] :
            /\ \A t, u \in T : f[t] = f[u] => t = u
            /\ T = Free \/ Cardinality(T) = Cardinality(Up)
            /\ thr' = [t \in Thread |->
                         IF t \in T
                         THEN [NoThread EXCEPT !.pc = "unregister",
                                               !.acc = accInfos[f[t]].accountId]
                         ELSE thr[t]]
     /\ UNCHANGED <<pending, shown, history>>

-----------------------------------------------------------------------------
\* registration_thread up to the unlock.  The account may be blocked, the
\* table full ...
RegisterRefused(t) ==
  /\ find_acc_by_id(thr[t].acc) # {} \/ find_empty_acc_info = {}
  /\ Goes(t, "register", "free")
  /\ MayTell(t, FALSE)
  /\ UNCHANGED <<accInfos, pending, history>>

\* ... the account not be usable or the REGISTER not be sent: the entry that
\* was taken is cleared ...
RegisterFails(t) ==
  /\ find_acc_by_id(thr[t].acc) = {} /\ find_empty_acc_info # {}
  /\ Goes(t, "register", "free")
  /\ MayTell(t, FALSE)
  /\ accInfos' = [accInfos EXCEPT ![Smallest(find_empty_acc_info)] = Cleared]
  /\ UNCHANGED <<pending, history>>

\* Plausible mistake in RegisterSent: the account is not looked up first.
RegisterSent_unblocked(t) ==
  /\ find_empty_acc_info # {} /\ FreeRegIds # {}
  /\ thr[t].pc = "register"
  /\ LET p == Smallest(find_empty_acc_info)
         r == Smallest(FreeRegIds)
     IN /\ accInfos' = [accInfos EXCEPT ![p].accountId = thr[t].acc,
                                        ![p].isRegistered = FALSE,
                                        ![p].regId = r,
                                        ![p].waitingOn = @ \cup {"reg"}]
        /\ thr' = [thr EXCEPT ![t].pc = "waitReg", ![t].pos = p, ![t].regId = r]
        /\ pending' = pending \cup {<<r, "reg">>}
        /\ granted' = granted \ {r}
        /\ shared' = (shared \/ \E u \in Thread : /\ thr[u].pc \in Unregistering
                                                  /\ thr[u].pos = p)
  /\ UNCHANGED <<shown, crossed>>

\* ... or the REGISTER goes out, and the entry says what it waits for.
RegisterSent(t) ==
  /\ find_acc_by_id(thr[t].acc) = {}
  /\ find_empty_acc_info # {} /\ FreeRegIds # {}
  /\ thr[t].pc = "register"
  /\ LET p == Smallest(find_empty_acc_info)
         r == Smallest(FreeRegIds)
     IN /\ accInfos' = [accInfos EXCEPT ![p].accountId = thr[t].acc,
                                        ![p].isRegistered = FALSE,
                                        ![p].regId = r,
                                        ![p].waitingOn = @ \cup {"reg"}]
        /\ thr' = [thr EXCEPT ![t].pc = "waitReg", ![t].pos = p, ![t].regId = r]
        /\ pending' = pending \cup {<<r, "reg">>}
        /\ granted' = granted \ {r}
        /\ shared' = (shared \/ \E u \in Thread : /\ thr[u].pc \in Unregistering
                                                  /\ thr[u].pos = p)
  /\ UNCHANGED <<shown, crossed>>

\* The wait ends by the flag or by the timeout.  eventArrived is cleared, then
\* the flag for the answer: an answer may come in between.
WaitReg(t) ==
  /\ Goes(t, "waitReg", "clearReg")
  /\ Writes(t, [Entry(t) EXCEPT !.eventArrived = FALSE])
  /\ UNCHANGED <<pending, shown, history>>

\* Plausible mistake in ClearReg: the flag stays set.
ClearReg_kept(t) ==
  /\ Goes(t, "clearReg", "judgeReg")
  /\ UNCHANGED <<accInfos, pending, shown, history>>

ClearReg(t) ==
  /\ Goes(t, "clearReg", "judgeReg")
  /\ Writes(t, [Entry(t) EXCEPT !.waitingOn = @ \ {"reg"}])
  /\ UNCHANGED <<pending, shown, history>>

\* Plausible mistake in JudgeReg: any answer will do.
JudgeReg_blind(t) ==
  /\ Goes(t, "judgeReg", "keep") /\ Tells(t, TRUE)
  /\ UNCHANGED <<accInfos, pending, history>>

JudgeReg(t) ==
  /\ \/ Entry(t).isRegistered /\ Goes(t, "judgeReg", "keep") /\ Tells(t, TRUE)
     \/ Goes(t, "judgeReg", "leave") /\ UNCHANGED shown
  /\ UNCHANGED <<accInfos, pending, history>>

\* The loop that keeps the registration: nobody wants it to end, sleep(1),
\* and look again.
Sleep(t) ==
  /\ ~Entry(t).doShutdown
  /\ Goes(t, "keep", "sleep")
  /\ UNCHANGED <<accInfos, pending, shown, history>>

Wake(t) ==
  /\ Goes(t, "sleep", "keep")
  /\ UNCHANGED <<accInfos, pending, shown, history>>

\* The registration is about to expire: waitingOnRefreshOK, then REGISTER.
\* doShutdown may have been set during the sleep.
SendRefresh(t) ==
  /\ Writes(t, [Entry(t) EXCEPT !.waitingOn = @ \cup {"refresh"}])
  /\ \/ Goes(t, "sleep", "waitRefresh")
        /\ pending' = pending \cup {<<thr[t].regId, "refresh">>}
     \/ Goes(t, "sleep", "leave") /\ UNCHANGED pending
  /\ UNCHANGED <<shown, history>>

WaitRefresh(t) ==
  /\ Goes(t, "waitRefresh", "judgeRefresh")
  /\ UNCHANGED <<accInfos, pending, shown, history>>

\* Plausible mistake in JudgeRefresh: eventArrived is not cleared.
JudgeRefresh_arrived(t) ==
  /\ \/ /\ Entry(t).isRefreshed
        /\ Goes(t, "judgeRefresh", "keep")
        /\ Writes(t, [Entry(t) EXCEPT !.isRefreshed = FALSE,
                                      !.waitingOn = @ \ {"refresh"}])
     \/ ~Entry(t).isRefreshed /\ Goes(t, "judgeRefresh", "leave")
        /\ UNCHANGED accInfos
  /\ UNCHANGED <<pending, shown, history>>

JudgeRefresh(t) ==
  /\ \/ /\ Entry(t).isRefreshed
        /\ Goes(t, "judgeRefresh", "keep")
        /\ Writes(t, [Entry(t) EXCEPT !.isRefreshed = FALSE,
                                      !.eventArrived = FALSE,
                                      !.waitingOn = @ \ {"refresh"}])
     \/ ~Entry(t).isRefreshed /\ Goes(t, "judgeRefresh", "leave")
        /\ UNCHANGED accInfos
  /\ UNCHANGED <<pending, shown, history>>

\* An unregistration thread wants the account: doShutdown is taken back ...
Stop(t) ==
  /\ Entry(t).doShutdown
  /\ Goes(t, "keep", "stop")
  /\ Writes(t, [Entry(t) EXCEPT !.doShutdown = FALSE])
  /\ UNCHANGED <<pending, shown, history>>

\* Plausible mistake in Stopped: the other thread is not told.
Stopped_silent(t) ==
  /\ Goes(t, "stop", "free")
  /\ UNCHANGED <<accInfos, pending, shown, history>>

\* ... and isShutdown set, by two assignments.
Stopped(t) ==
  /\ Goes(t, "stop", "free")
  /\ Writes(t, [Entry(t) EXCEPT !.isShutdown = TRUE])
  /\ UNCHANGED <<pending, shown, history>>

\* leave_reg_thrd_with_error, with an entry to clear
leave_reg_thrd_with_error(t) ==
  /\ Goes(t, "leave", "free")
  /\ MayTell(t, FALSE)
  /\ Writes(t, Cleared)
  /\ UNCHANGED <<pending, history>>

-----------------------------------------------------------------------------
\* unregistration_thread: there is nobody to stop, or another thread does.
UnregisterRefused(t) ==
  /\ \A p \in find_acc_by_id(thr[t].acc) :
       accInfos[p].doShutdown \/ accInfos[p].isShutdown
  /\ Goes(t, "unregister", "free")
  /\ UNCHANGED <<accInfos, pending, shown, history>>

\* Plausible mistake in StopKeeper: pos is used though no entry was found.
StopKeeper_unfound(t) ==
  /\ thr[t].pc = "unregister"
  /\ find_acc_by_id(thr[t].acc) = {}
  /\ thr' = [thr EXCEPT ![t].pc = "waitStop", ![t].pos = 0]
  /\ UNCHANGED <<accInfos, pending, shown, history>>

StopKeeper(t) ==
  /\ thr[t].pc = "unregister"
  /\ \E p \in find_acc_by_id(thr[t].acc) :
       /\ ~accInfos[p].doShutdown /\ ~accInfos[p].isShutdown
       /\ accInfos' = [accInfos EXCEPT ![p].doShutdown = TRUE]
       /\ thr' = [thr EXCEPT ![t].pc = "waitStop", ![t].pos = p]
       /\ shared' = (shared \/ \E u \in Thread : /\ thr[u].pc \in Unregistering
                                                 /\ thr[u].pos = p)
  /\ UNCHANGED <<pending, shown, granted, crossed>>

WaitStop(t) ==
  /\ Entry(t).isShutdown \/ Entry(t).accountId = NoAccount
  /\ Goes(t, "waitStop", "look")
  /\ UNCHANGED <<accInfos, pending, shown, history>>

\* An account that is not registered is left alone.
Look(t) ==
  /\ IF Entry(t).isRegistered /\ Entry(t).accountId # NoAccount
     THEN Goes(t, "look", "ask") ELSE Goes(t, "look", "free")
  /\ UNCHANGED <<accInfos, pending, shown, history>>

\* A REGISTER that cannot be sent ends the thread and leaves the entry as it
\* is, with isShutdown.
Ask(t) ==
  /\ Writes(t, [Entry(t) EXCEPT !.eventArrived = FALSE,
                                !.waitingOn = @ \cup {"unreg"}])
  /\ \/ /\ Entry(t).regId # NoRegId
        /\ Goes(t, "ask", "waitUnreg")
        /\ pending' = pending \cup {<<Entry(t).regId, "unreg">>}
     \/ Goes(t, "ask", "free") /\ UNCHANGED pending
  /\ UNCHANGED <<shown, history>>

WaitUnreg(t) ==
  /\ Goes(t, "waitUnreg", "report")
  /\ Writes(t, [Entry(t) EXCEPT !.eventArrived = FALSE,
                                !.waitingOn = @ \ {"unreg"}])
  /\ UNCHANGED <<pending, shown, history>>

\* The GUI is told whatever the answer was.  clear_account_info begins, not
\* under the lock, with the accountId: the entry can be taken from now on.
\* If the GUI cannot be told the thread ends and leaves the entry as it is.
Report(t) ==
  /\ \/ /\ Goes(t, "report", "clearStatus")
        /\ IF Entry(t).informGui THEN Tells(t, FALSE) ELSE UNCHANGED shown
        /\ Writes(t, [Entry(t) EXCEPT !.accountId = NoAccount])
     \/ /\ Entry(t).informGui
        /\ Goes(t, "report", "free") /\ UNCHANGED <<accInfos, shown>>
  /\ UNCHANGED <<pending, history>>

ClearStatus(t) ==
  /\ Goes(t, "clearStatus", "clearFlags")
  /\ Writes(t, [Entry(t) EXCEPT !.isRegistered = FALSE, !.isRefreshed = FALSE,
                                !.regId = NoRegId])
  /\ UNCHANGED <<pending, shown, history>>

ClearFlags(t) ==
  /\ Goes(t, "clearFlags", "free")
  /\ Writes(t, [Cleared EXCEPT !.accountId = Entry(t).accountId,
                               !.isRegistered = Entry(t).isRegistered,
                               !.isRefreshed = Entry(t).isRefreshed,
                               !.regId = Entry(t).regId])
  /\ UNCHANGED <<pending, shown, history>>

-----------------------------------------------------------------------------
\* What the answer to a REGISTER means is decided by the first flag that is
\* set; a failed unregistration leaves the account registered.  The events that
\* eXosip never sends are left out.
Judged(e, success) ==
  CASE "reg" \in e.waitingOn     -> [e EXCEPT !.isRegistered = success]
    [] "reg" \notin e.waitingOn /\ "refresh" \in e.waitingOn
         -> [e EXCEPT !.isRegistered = @ /\ success, !.isRefreshed = success]
    [] e.waitingOn = {"unreg"}   -> [e EXCEPT !.isRegistered = ~success]
    [] OTHER                     -> e

\* rm_receive_register_event: answer to the REGISTER q
rm_receive_register_event(q, success) ==
  /\ q \in pending
  /\ pending' = pending \ {q}
  /\ LET Found == find_acc_by_regid(q[1])
     IN IF Found = {} THEN UNCHANGED accInfos
        ELSE accInfos' = [accInfos EXCEPT ![Smallest(Found)] =
                            [Judged(@, success) EXCEPT !.eventArrived = TRUE]]
  /\ granted' = IF q[2] = "reg" /\ success THEN granted \cup {q[1]} ELSE granted
  /\ crossed' = (crossed \/ \E t \in Thread : /\ thr[t].pc \in {"clearReg", "judgeReg"}
                                              /\ thr[t].regId = q[1])
  /\ UNCHANGED <<thr, shown, shared>>

\* The request or its answer is lost, and the SIP stack gives up.
Lost(q) ==
  /\ q \in pending
  /\ pending' = pending \ {q}
  /\ UNCHANGED <<accInfos, thr, shown, history>>

-----------------------------------------------------------------------------
ThreadStep(t) ==
  \/ RegisterRefused(t) \/ RegisterFails(t) \/ RegisterSent(t)
  \/ WaitReg(t) \/ ClearReg(t) \/ JudgeReg(t)
  \/ Sleep(t) \/ Wake(t) \/ SendRefresh(t) \/ WaitRefresh(t) \/ JudgeRefresh(t)
  \/ Stop(t) \/ Stopped(t) \/ leave_reg_thrd_with_error(t)
  \/ UnregisterRefused(t) \/ StopKeeper(t) \/ WaitStop(t) \/ Look(t) \/ Ask(t)
  \/ WaitUnreg(t) \/ Report(t) \/ ClearStatus(t) \/ ClearFlags(t)

Next ==
  \/ \E t \in Thread, a \in Account :
       rm_register_account(t, a) \/ rm_unregister_account(t, a)
  \/ rm_unregister_all
  \/ \E t \in Thread : ThreadStep(t)
  \/ \E q \in pending, success \in BOOLEAN : rm_receive_register_event(q, success)
  \/ \E q \in pending : Lost(q)

Spec == Init /\ [][Next]_vars

\* Every thread runs.  Nothing makes the registrar answer or the user ask.
FairSpec == Spec /\ \A t \in Thread : WF_vars(ThreadStep(t))

-----------------------------------------------------------------------------
TypeOK ==
  /\ accInfos \in [Pos -> AccInfo]
  /\ thr \in [Thread -> [pc : {"free", "register", "unregister"}
                              \cup Registering \cup Unregistering,
                         acc : Account \cup {NoAccount}, pos : Pos,
                         regId : RegId \cup {NoRegId}]]
  /\ pending \in SUBSET (RegId \X Purpose)
  /\ shown \in [Account -> BOOLEAN]
  /\ granted \in SUBSET RegId
  /\ shared \in BOOLEAN /\ crossed \in BOOLEAN

\* A registration thread is alone in charge of its account and of its entry,
\* from the first REGISTER to its end ("we want exclusive responsibility for
\* this account"), although nobody but itself keeps the others off the entry
\* once the lock is released.
OneKeeper ==
  ~shared => \A t \in Thread : thr[t].pc \in Registering =>
    /\ Entry(t).accountId = thr[t].acc
    /\ Entry(t).regId = thr[t].regId
    /\ ~Entry(t).isShutdown
    /\ \A u \in Thread \ {t} : thr[u].pc \in Registering =>
         thr[u].acc # thr[t].acc /\ thr[u].pos # thr[t].pos

\* While a thread waits for the answer to its REGISTER the entry leads the
\* answer to it: the registration id is there and the first flag that is set
\* is the one of this request.  (Answers are told apart by these flags alone.)
AnswerWillFit ==
  ~shared => \A t \in Thread :
    /\ thr[t].pc = "waitReg"     => "reg" \in Entry(t).waitingOn
    /\ thr[t].pc = "waitRefresh" => /\ "refresh" \in Entry(t).waitingOn
                                    /\ "reg" \notin Entry(t).waitingOn
    /\ thr[t].pc = "waitUnreg"   => /\ Entry(t).waitingOn = {"unreg"}
                                    /\ Entry(t).accountId = thr[t].acc

\* A thread does not take an answer for arrived that is still on its way.
\* eventArrived is cleared before waitingOnRegOK, so the answer to a first
\* REGISTER may come in between and be taken for that of the next one.
ArrivedMeansAnswered ==
  ~shared /\ ~crossed => \A t \in Thread :
    /\ thr[t].pc = "waitReg" /\ <<thr[t].regId, "reg">> \in pending
         => ~Entry(t).eventArrived
    /\ thr[t].pc = "waitRefresh" /\ <<thr[t].regId, "refresh">> \in pending
         => ~Entry(t).eventArrived

\* The GUI is told that an account is registered only if the registrar took
\* the REGISTER that was sent for it.
RegisteredOnlyIfGranted ==
  [][\A a \in Account : ~shown[a] /\ shown'[a] =>
       \/ \E t \in Thread : thr[t].acc = a /\ thr[t].regId \in granted
       \/ shared]_vars

\* An unregistration comes to an end, whatever the registrar does and
\* whatever the registration thread is doing when it is asked to stop.
UnregistrationEnds ==
  \A t \in Thread : thr[t].pc \in Unregistering ~> thr[t].pc = "free" \/ shared

\* The file header, "Multiple (un-)registration attempts by the GUI for the
\* same account are blocked."  doShutdown is taken back before isShutdown is
\* set, so that a second attempt gets through in between.
Blocked ==
  \A t, u \in Thread :
    /\ t # u /\ thr[t].pc \in Unregistering /\ thr[u].pc \in Unregistering
    => thr[t].acc # thr[u].acc
=============================================================================
