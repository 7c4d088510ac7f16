----------------------- MODULE RegistrarManagerProofs -----------------------
(***************************************************************************)
(* Proofs about RegistrarManager for any number of accounts, entries,      *)
(* threads and registration ids.  All but the types is said of a table in  *)
(* which no two threads share an entry that they did not mean to share.    *)
(***************************************************************************)
EXTENDS RegistrarManager, TLAPS, WellFoundedInduction

\* Registration thread t keeps the entry at p, unregistration thread u works
\* on it.
Keeps(t, p)  == thr[t].pc \in Registering /\ thr[t].pos = p
WorksOn(u, p) == thr[u].pc \in Unregistering /\ thr[u].pos = p
Kept(p) == \E t \in Thread : Keeps(t, p)

\* Every thread that runs serves an account, and a registration thread has a
\* registration id.
Serves ==
  \A t \in Thread : /\ thr[t].pc # "free" => thr[t].acc \in Account
                    /\ thr[t].pc \in Registering => thr[t].regId \in RegId

\* eXosip tells registrations apart, and so does the table.
RegIdsDiffer ==
  \A p, q \in Pos : p # q /\ accInfos[p].regId # NoRegId
                    => accInfos[p].regId # accInfos[q].regId

Keeper(t) ==
  /\ Entry(t).accountId = thr[t].acc
  /\ Entry(t).regId = thr[t].regId
  /\ ~Entry(t).isShutdown

Keepers ==
  /\ \A t \in Thread : thr[t].pc \in Registering => Keeper(t)
  /\ \A t, u \in Thread : t # u /\ thr[t].pc \in Registering
                          /\ thr[u].pc \in Registering
                          => thr[t].acc # thr[u].acc /\ thr[t].pos # thr[u].pos

\* Unregistration threads do not meet each other, and meet a registration
\* thread only while they wait for it.
Parted ==
  /\ \A u, v \in Thread : u # v /\ thr[u].pc \in Unregistering
                          /\ thr[v].pc \in Unregistering
                          => thr[u].pos # thr[v].pos
  /\ \A u \in Thread : thr[u].pc \in Unregistering \ {"waitStop"}
                       => ~Kept(thr[u].pos)

\* An entry without a registration thread is one that was shut down; a free
\* one is clean, unless it is still being cleared.
Cleaning(p) == \E u \in Thread : thr[u].pc \in {"clearStatus", "clearFlags"}
                                 /\ thr[u].pos = p
Clean(e) ==
  /\ e.regId = NoRegId /\ ~e.isRegistered /\ ~e.isRefreshed
  /\ ~e.eventArrived /\ ~e.isShutdown /\ e.waitingOn = {}
Abandoned ==
  \A p \in Pos :
    /\ Used(p) /\ ~Kept(p) => accInfos[p].isShutdown
    /\ ~Used(p) /\ ~Cleaning(p) => Clean(accInfos[p])

\* What an unregistration thread knows of its entry.
Unregisters ==
  \A u \in Thread :
    /\ thr[u].pc \in {"waitStop", "look"} =>
         /\ Entry(u).accountId \in {thr[u].acc, NoAccount}
         /\ ~Kept(thr[u].pos) => Entry(u).waitingOn = {}
    /\ thr[u].pc \in {"ask", "waitUnreg", "report"} =>
         Entry(u).accountId = thr[u].acc
    /\ thr[u].pc = "ask"       => Entry(u).waitingOn = {}
    /\ thr[u].pc = "waitUnreg" => Entry(u).waitingOn = {"unreg"}
    /\ thr[u].pc \in {"clearStatus", "clearFlags"} =>
         Entry(u).accountId = NoAccount
    /\ thr[u].pc = "clearFlags" =>
         /\ Entry(u).regId = NoRegId
         /\ ~Entry(u).isRegistered /\ ~Entry(u).isRefreshed

\* What a registration thread waits for, and which answers are on their way:
\* none but that of its last request, as it waits for one at a time.
First    == {"waitReg", "clearReg", "judgeReg"}
Settled  == {"keep", "sleep", "stop"}
Renewing == {"waitRefresh", "judgeRefresh"}

Asks(r) == {q \in pending : q[1] = r}

Waits ==
  \A t \in Thread :
    /\ thr[t].pc \in {"waitReg", "clearReg"}     => Entry(t).waitingOn = {"reg"}
    /\ thr[t].pc \in Settled \cup {"judgeReg"}   => Entry(t).waitingOn = {}
    /\ thr[t].pc \in Renewing                    => Entry(t).waitingOn = {"refresh"}
    /\ thr[t].pc \in First \cup Settled          => ~Entry(t).isRefreshed

Requests ==
  \A t \in Thread :
    /\ thr[t].pc \in First =>
         /\ Asks(thr[t].regId) \subseteq {<<thr[t].regId, "reg">>}
         /\ Entry(t).isRegistered => /\ Asks(thr[t].regId) = {}
                                     /\ thr[t].regId \in granted
    /\ thr[t].pc \in Settled => Asks(thr[t].regId) = {}
    /\ thr[t].pc \in Renewing =>
         /\ Asks(thr[t].regId) \subseteq {<<thr[t].regId, "refresh">>}
         /\ Entry(t).isRefreshed => Asks(thr[t].regId) = {}

Arrivals ==
  \A t \in Thread :
    /\ thr[t].pc = "waitReg" \/ thr[t].pc \in Renewing =>
         (Entry(t).eventArrived => Asks(thr[t].regId) = {})
    /\ thr[t].pc \in {"clearReg", "judgeReg"} \cup Settled =>
         ~Entry(t).eventArrived

Typed    == TypeOK /\ Serves /\ RegIdsDiffer
Division == Keepers /\ Parted /\ Abandoned /\ Unregisters
Answers  == Waits /\ Requests
Inv == Typed /\ (~shared => Division /\ Answers /\ (~crossed => Arrivals))

-----------------------------------------------------------------------------
LEMMA SmallestIsIn ==
  ASSUME NEW S \in SUBSET Nat, S # {}
  PROVE  Smallest(S) \in S
<1>1. PICK x \in S : \A y \in S : ~(<<y, x>> \in OpToRel(<, Nat))
  BY NatLessThanWellFounded, WFMin
<1>2. ASSUME NEW y \in S
      PROVE  x <= y
  <2>1. y < x => <<y, x>> \in OpToRel(<, Nat)
    BY DEF OpToRel
  <2>2. ~(y < x)
    BY <1>1, <2>1, Zenon
  <2> QED  BY <2>2
<1> QED  BY <1>2 DEF Smallest

\* The searches find what they look for.
LEMMA SearchFinds ==
  ASSUME RegistrarAssumption
  PROVE  /\ find_empty_acc_info # {} =>
              /\ Smallest(find_empty_acc_info) \in Pos
              /\ ~Used(Smallest(find_empty_acc_info))
         /\ FreeRegIds # {} => Smallest(FreeRegIds) \in FreeRegIds
         /\ \A r : find_acc_by_regid(r) # {} =>
              /\ Smallest(find_acc_by_regid(r)) \in Pos
              /\ accInfos[Smallest(find_acc_by_regid(r))].regId = r
<1>1. find_empty_acc_info \in SUBSET Nat /\ FreeRegIds \in SUBSET Nat
      /\ \A r : find_acc_by_regid(r) \in SUBSET Nat
  BY DEF find_empty_acc_info, FreeRegIds, find_acc_by_regid, Pos, RegId
<1>2. find_empty_acc_info # {}
        => Smallest(find_empty_acc_info) \in find_empty_acc_info
  BY <1>1, SmallestIsIn
<1>3. FreeRegIds # {} => Smallest(FreeRegIds) \in FreeRegIds
  BY <1>1, SmallestIsIn
<1>4. ASSUME NEW r, find_acc_by_regid(r) # {}
      PROVE  Smallest(find_acc_by_regid(r)) \in find_acc_by_regid(r)
  BY <1>1, <1>4, SmallestIsIn
<1> QED  BY <1>2, <1>3, <1>4 DEF find_empty_acc_info, find_acc_by_regid

-----------------------------------------------------------------------------
(* Types.                                                                  *)

Place == {"free", "register", "unregister"} \cup Registering \cup Unregistering

\* A move of a thread: its account, entry and registration id stay, or the
\* thread ends.
LEMMA Move ==
  ASSUME TypeOK, Serves, NEW t \in Thread, NEW from, NEW to \in Place,
         Goes(t, from, to), from # "free", to \in Registering => from \in Registering
  PROVE  /\ thr' \in [Thread -> [pc : Place, acc : Account \cup {NoAccount},
                                 pos : Pos, regId : RegId \cup {NoRegId}]]
         /\ Serves'
         /\ thr[t].pc = from /\ thr'[t].pc = to
         /\ \A u \in Thread : u # t => thr'[u] = thr[u]
         /\ to # "free" => /\ thr'[t].acc = thr[t].acc /\ thr'[t].pos = thr[t].pos
                           /\ thr'[t].regId = thr[t].regId
<1> USE DEF TypeOK, Goes
<1>1. thr[t] \in [pc : Place, acc : Account \cup {NoAccount},
                  pos : Pos, regId : RegId \cup {NoRegId}]
  BY DEF Place
<1>2. CASE to = "free"
  <2>1. thr' = [thr EXCEPT ![t] = NoThread] /\ NoThread.pc = "free"
    BY <1>2 DEF NoThread
  <2>2. NoThread.pos = 1 /\ 1 \in Pos
    BY RegistrarAssumption DEF NoThread, Pos, RegistrarAssumption
  <2>3. NoThread \in [pc : Place, acc : Account \cup {NoAccount},
                      pos : Pos, regId : RegId \cup {NoRegId}]
    BY <2>2 DEF NoThread, Place
  <2>4. Serves'
    BY <2>1 DEF Serves, Registering
  <2> HIDE DEF NoThread
  <2> QED  BY <1>2, <2>1, <2>3, <2>4 DEF Place
<1>3. CASE to # "free"
  <2>1. thr' = [thr EXCEPT ![t].pc = to]
    BY <1>3
  <2>2. thr'[t] = [thr[t] EXCEPT !.pc = to]
    BY <2>1
  <2>3. /\ thr'[t].pc = to /\ thr'[t].acc = thr[t].acc
        /\ thr'[t].pos = thr[t].pos /\ thr'[t].regId = thr[t].regId
        /\ thr'[t] \in [pc : Place, acc : Account \cup {NoAccount},
                        pos : Pos, regId : RegId \cup {NoRegId}]
    BY <1>1, <2>2
  <2>4. \A u \in Thread : u # t => thr'[u] = thr[u]
    BY <2>1
  <2>5. Serves'
    BY <2>3, <2>4 DEF Serves
  <2> QED  BY <1>3, <2>1, <2>3, <2>4, <2>5 DEF Place
<1> QED  BY <1>2, <1>3

\* Where a move leads.
LEMMA GoesPc ==
  ASSUME TypeOK, NEW t \in Thread, NEW from, NEW to, Goes(t, from, to)
  PROVE  thr[t].pc = from /\ thr'[t].pc = to
<1>1. thr[t] \in [pc : Place, acc : Account \cup {NoAccount},
                  pos : Pos, regId : RegId \cup {NoRegId}]
  BY DEF TypeOK, Place
<1>2. NoThread.pc = "free"
  BY DEF NoThread
<1>3. CASE to = "free"
  <2>1. thr' = [thr EXCEPT ![t] = NoThread]
    BY <1>3 DEF Goes
  <2> QED  BY <1>2, <1>3, <2>1 DEF TypeOK, Goes
<1>4. CASE to # "free"
  <2>1. thr' = [thr EXCEPT ![t].pc = to]
    BY <1>4 DEF Goes
  <2> QED  BY <1>1, <2>1 DEF TypeOK, Goes
<1> QED  BY <1>3, <1>4

\* A write to an entry, which leaves its registration id or clears it.
LEMMA EntryWritten ==
  ASSUME TypeOK, RegIdsDiffer, NEW t \in Thread, NEW e \in AccInfo, Writes(t, e),
         e.regId \in {Entry(t).regId, NoRegId}
  PROVE  /\ accInfos' \in [Pos -> AccInfo] /\ RegIdsDiffer'
         /\ accInfos'[thr[t].pos] = e
         /\ \A p \in Pos : p # thr[t].pos => accInfos'[p] = accInfos[p]
<1>1. /\ accInfos \in [Pos -> AccInfo] /\ thr[t].pos \in Pos
      /\ accInfos' = [accInfos EXCEPT ![thr[t].pos] = e]
  BY DEF TypeOK, Writes
<1>2. /\ accInfos' \in [Pos -> AccInfo]
      /\ accInfos'[thr[t].pos] = e
      /\ \A p \in Pos : p # thr[t].pos => accInfos'[p] = accInfos[p]
  BY <1>1
<1>3. \A p \in Pos : accInfos'[p].regId \in {accInfos[p].regId, NoRegId}
  BY <1>1, <1>2 DEF Entry
<1>4. RegIdsDiffer'
  BY <1>3 DEF RegIdsDiffer
<1> QED  BY <1>2, <1>4

\* The steps of a registration thread between its first REGISTER and its end.
Keeping(t) ==
  \/ WaitReg(t) \/ ClearReg(t) \/ JudgeReg(t)
  \/ Sleep(t) \/ Wake(t) \/ SendRefresh(t) \/ WaitRefresh(t) \/ JudgeRefresh(t)
  \/ Stop(t)

\* What they have in common.
LEMMA KeepingTyped ==
  ASSUME Typed, NEW t \in Thread, Keeping(t)
  PROVE  /\ Typed'
         /\ thr[t].pc \in Registering /\ thr'[t].pc \in Registering
         /\ \A u \in Thread : u # t => thr'[u] = thr[u]
         /\ thr'[t].acc = thr[t].acc /\ thr'[t].pos = thr[t].pos
         /\ thr'[t].regId = thr[t].regId
         /\ \A p \in Pos : p # thr[t].pos => accInfos'[p] = accInfos[p]
         /\ Entry(t)'.accountId = Entry(t).accountId
         /\ Entry(t)'.regId = Entry(t).regId
         /\ Entry(t)'.isShutdown = Entry(t).isShutdown
         /\ UNCHANGED history
<1>1. \E from \in Registering : \E to \in Registering : Goes(t, from, to)
  BY DEF Keeping, WaitReg, ClearReg, JudgeReg, Sleep, Wake, SendRefresh,
         WaitRefresh, JudgeRefresh, Stop, Registering
<1>2. Entry(t) \in AccInfo /\ thr[t].pos \in Pos
  BY DEF Typed, TypeOK, Entry
<1>3. \/ UNCHANGED accInfos
      \/ \E e \in AccInfo : /\ Writes(t, e)
                            /\ e.accountId = Entry(t).accountId
                            /\ e.regId = Entry(t).regId
                            /\ e.isShutdown = Entry(t).isShutdown
  <2>1. CASE WaitReg(t)
    <3> DEFINE e == [Entry(t) EXCEPT !.eventArrived = FALSE]
    <3>1. /\ e \in AccInfo /\ e.accountId = Entry(t).accountId
          /\ e.regId = Entry(t).regId /\ e.isShutdown = Entry(t).isShutdown
      BY <1>2 DEF AccInfo, Purpose
    <3> HIDE DEF e
    <3>2. Writes(t, e)
      BY <2>1 DEF WaitReg, e
    <3> QED  BY <3>1, <3>2
  <2>2. CASE ClearReg(t)
    <3> DEFINE e == [Entry(t) EXCEPT !.waitingOn = @ \ {"reg"}]
    <3>1. /\ e \in AccInfo /\ e.accountId = Entry(t).accountId
          /\ e.regId = Entry(t).regId /\ e.isShutdown = Entry(t).isShutdown
      BY <1>2 DEF AccInfo, Purpose
    <3> HIDE DEF e
    <3>2. Writes(t, e)
      BY <2>2 DEF ClearReg, e
    <3> QED  BY <3>1, <3>2
  <2>3. CASE SendRefresh(t)
    <3> DEFINE e == [Entry(t) EXCEPT !.waitingOn = @ \cup {"refresh"}]
    <3>1. /\ e \in AccInfo /\ e.accountId = Entry(t).accountId
          /\ e.regId = Entry(t).regId /\ e.isShutdown = Entry(t).isShutdown
      BY <1>2 DEF AccInfo, Purpose
    <3> HIDE DEF e
    <3>2. Writes(t, e)
      BY <2>3 DEF SendRefresh, e
    <3> QED  BY <3>1, <3>2
  <2>4. CASE JudgeRefresh(t)
    <3> DEFINE e == [Entry(t) EXCEPT !.isRefreshed = FALSE,
                                !.eventArrived = FALSE,
                                !.waitingOn = @ \ {"refresh"}]
    <3>1. /\ e \in AccInfo /\ e.accountId = Entry(t).accountId
          /\ e.regId = Entry(t).regId /\ e.isShutdown = Entry(t).isShutdown
      BY <1>2 DEF AccInfo, Purpose
    <3> HIDE DEF e
    <3>2. Writes(t, e) \/ UNCHANGED accInfos
      BY <2>4 DEF JudgeRefresh, e
    <3> QED  BY <3>1, <3>2
  <2>5. CASE Stop(t)
    <3> DEFINE e == [Entry(t) EXCEPT !.doShutdown = FALSE]
    <3>1. /\ e \in AccInfo /\ e.accountId = Entry(t).accountId
          /\ e.regId = Entry(t).regId /\ e.isShutdown = Entry(t).isShutdown
      BY <1>2 DEF AccInfo, Purpose
    <3> HIDE DEF e
    <3>2. Writes(t, e)
      BY <2>5 DEF Stop, e
    <3> QED  BY <3>1, <3>2
  <2>6. CASE JudgeReg(t) \/ Sleep(t) \/ Wake(t) \/ WaitRefresh(t)
    BY <2>6 DEF JudgeReg, Sleep, Wake, WaitRefresh
  <2> QED  BY <2>1, <2>2, <2>3, <2>4, <2>5, <2>6 DEF Keeping
<1>4. /\ thr' \in [Thread -> [pc : Place, acc : Account \cup {NoAccount},
                              pos : Pos, regId : RegId \cup {NoRegId}]]
      /\ Serves'
      /\ thr[t].pc \in Registering /\ thr'[t].pc \in Registering
      /\ \A u \in Thread : u # t => thr'[u] = thr[u]
      /\ thr'[t].acc = thr[t].acc /\ thr'[t].pos = thr[t].pos
      /\ thr'[t].regId = thr[t].regId
  <2>1. PICK from \in Registering, to \in Registering : Goes(t, from, to)
    BY <1>1
  <2>2. from # "free" /\ to # "free" /\ to \in Place
    BY DEF Registering, Place
  <2> QED  BY <2>1, <2>2, Move DEF Typed
<1>5. /\ accInfos' \in [Pos -> AccInfo] /\ RegIdsDiffer'
      /\ \A p \in Pos : p # thr[t].pos => accInfos'[p] = accInfos[p]
      /\ Entry(t)'.accountId = Entry(t).accountId
      /\ Entry(t)'.regId = Entry(t).regId
      /\ Entry(t)'.isShutdown = Entry(t).isShutdown
  <2>1. CASE UNCHANGED accInfos
    BY <1>4, <2>1 DEF Typed, TypeOK, RegIdsDiffer, Entry
  <2>2. CASE \E e \in AccInfo : /\ Writes(t, e)
                                /\ e.accountId = Entry(t).accountId
                                /\ e.regId = Entry(t).regId
                                /\ e.isShutdown = Entry(t).isShutdown
    BY <1>4, <2>2, EntryWritten DEF Typed, Entry
  <2> QED  BY <1>3, <2>1, <2>2
<1>6. /\ UNCHANGED history
      /\ pending' \in SUBSET (RegId \X Purpose)
      /\ shown' \in [Account -> BOOLEAN]
  <2>1. thr[t].regId \in RegId
    BY <1>4 DEF Typed, Serves
  <2>2. UNCHANGED history
    BY DEF Keeping, WaitReg, ClearReg, JudgeReg, Sleep, Wake, SendRefresh,
           WaitRefresh, JudgeRefresh, Stop, history
  <2>3. pending' \in {pending, pending \cup {<<thr[t].regId, "refresh">>}}
    BY DEF Keeping, WaitReg, ClearReg, JudgeReg, Sleep, Wake, SendRefresh,
           WaitRefresh, JudgeRefresh, Stop
  <2>4. shown' \in {shown, [shown EXCEPT ![thr[t].acc] = TRUE]}
    BY DEF Keeping, WaitReg, ClearReg, JudgeReg, Sleep, Wake, SendRefresh,
           WaitRefresh, JudgeRefresh, Stop, Tells
  <2>5. <<thr[t].regId, "refresh">> \in RegId \X Purpose
    BY <2>1 DEF Purpose
  <2>6. pending' \in SUBSET (RegId \X Purpose)
    BY <2>3, <2>5 DEF Typed, TypeOK
  <2>7. shown' \in [Account -> BOOLEAN]
    BY <2>4 DEF Typed, TypeOK
  <2> QED  BY <2>2, <2>6, <2>7
<1>7. TypeOK'
  BY <1>4, <1>5, <1>6 DEF TypeOK, Typed, Place, history
<1> QED  BY <1>4, <1>5, <1>6, <1>7 DEF Typed

\* The steps of an unregistration thread on its entry.
Undoing(u) ==
  \/ WaitStop(u) \/ Look(u) \/ Ask(u) \/ WaitUnreg(u) \/ Report(u)
  \/ ClearStatus(u) \/ ClearFlags(u)

LEMMA UndoingTyped ==
  ASSUME Typed, NEW u \in Thread, Undoing(u)
  PROVE  /\ Typed'
         /\ thr[u].pc \in Unregistering
         /\ thr'[u].pc \in {"free"} \cup Unregistering
         /\ \A t \in Thread : t # u => thr'[t] = thr[t]
         /\ thr'[u].pc # "free" => /\ thr'[u].acc = thr[u].acc
                                   /\ thr'[u].pos = thr[u].pos
         /\ \A p \in Pos : p # thr[u].pos => accInfos'[p] = accInfos[p]
         /\ UNCHANGED history
<1>1. \E from \in Unregistering, to \in {"free"} \cup Unregistering :
        Goes(u, from, to)
  BY DEF Undoing, WaitStop, Look, Ask, WaitUnreg, Report, ClearStatus,
         ClearFlags, Unregistering
<1>2. Entry(u) \in AccInfo /\ thr[u].pos \in Pos
  BY DEF Typed, TypeOK, Entry
<1>3. /\ thr' \in [Thread -> [pc : Place, acc : Account \cup {NoAccount},
                              pos : Pos, regId : RegId \cup {NoRegId}]]
      /\ Serves'
      /\ thr[u].pc \in Unregistering
      /\ thr'[u].pc \in {"free"} \cup Unregistering
      /\ \A t \in Thread : t # u => thr'[t] = thr[t]
      /\ thr'[u].pc # "free" => /\ thr'[u].acc = thr[u].acc
                                /\ thr'[u].pos = thr[u].pos
  <2>1. PICK from \in Unregistering, to \in {"free"} \cup Unregistering :
          Goes(u, from, to)
    BY <1>1
  <2>2. from # "free" /\ to \in Place /\ to \notin Registering
    BY DEF Registering, Unregistering, Place
  <2> QED  BY <2>1, <2>2, Move DEF Typed
<1>4. \/ UNCHANGED accInfos
      \/ \E e \in AccInfo : Writes(u, e) /\ e.regId \in {Entry(u).regId, NoRegId}
  <2>1. CASE WaitStop(u) \/ Look(u)
    BY <2>1 DEF WaitStop, Look
  <2>2. CASE Ask(u)
    <3> DEFINE e == [Entry(u) EXCEPT !.eventArrived = FALSE,
                                     !.waitingOn = @ \cup {"unreg"}]
    <3>1. e \in AccInfo /\ e.regId = Entry(u).regId
      BY <1>2 DEF AccInfo, Purpose
    <3> HIDE DEF e
    <3>2. Writes(u, e)
      BY <2>2 DEF Ask, e
    <3> QED  BY <3>1, <3>2
  <2>3. CASE WaitUnreg(u)
    <3> DEFINE e == [Entry(u) EXCEPT !.eventArrived = FALSE,
                                     !.waitingOn = @ \ {"unreg"}]
    <3>1. e \in AccInfo /\ e.regId = Entry(u).regId
      BY <1>2 DEF AccInfo
    <3> HIDE DEF e
    <3>2. Writes(u, e)
      BY <2>3 DEF WaitUnreg, e
    <3> QED  BY <3>1, <3>2
  <2>4. CASE Report(u)
    <3> DEFINE e == [Entry(u) EXCEPT !.accountId = NoAccount]
    <3>1. e \in AccInfo /\ e.regId = Entry(u).regId
      BY <1>2 DEF AccInfo
    <3> HIDE DEF e
    <3>2. Writes(u, e) \/ UNCHANGED accInfos
      BY <2>4 DEF Report, e
    <3> QED  BY <3>1, <3>2
  <2>5. CASE ClearStatus(u)
    <3> DEFINE e == [Entry(u) EXCEPT !.isRegistered = FALSE,
                                     !.isRefreshed = FALSE, !.regId = NoRegId]
    <3>1. e \in AccInfo /\ e.regId = NoRegId
      BY <1>2 DEF AccInfo
    <3> HIDE DEF e
    <3>2. Writes(u, e)
      BY <2>5 DEF ClearStatus, e
    <3> QED  BY <3>1, <3>2
  <2>6. CASE ClearFlags(u)
    <3> DEFINE e == [Cleared EXCEPT !.accountId = Entry(u).accountId,
                                    !.isRegistered = Entry(u).isRegistered,
                                    !.isRefreshed = Entry(u).isRefreshed,
                                    !.regId = Entry(u).regId]
    <3>1. e \in AccInfo /\ e.regId = Entry(u).regId
      BY <1>2 DEF AccInfo, Cleared
    <3> HIDE DEF e
    <3>2. Writes(u, e)
      BY <2>6 DEF ClearFlags, e
    <3> QED  BY <3>1, <3>2
  <2> QED  BY <2>1, <2>2, <2>3, <2>4, <2>5, <2>6 DEF Undoing
<1>5. /\ accInfos' \in [Pos -> AccInfo] /\ RegIdsDiffer'
      /\ \A p \in Pos : p # thr[u].pos => accInfos'[p] = accInfos[p]
  <2>1. CASE UNCHANGED accInfos
    BY <2>1 DEF Typed, TypeOK, RegIdsDiffer
  <2>2. CASE \E e \in AccInfo : /\ Writes(u, e)
                                /\ e.regId \in {Entry(u).regId, NoRegId}
    BY <2>2, EntryWritten DEF Typed
  <2> QED  BY <1>4, <2>1, <2>2
<1>6. UNCHANGED history
  BY DEF Undoing, WaitStop, Look, Ask, WaitUnreg, Report, ClearStatus,
         ClearFlags, history
<1>7. pending' \in SUBSET (RegId \X Purpose)
  <2>1. CASE Ask(u)
    <3>1. Entry(u).regId # NoRegId => <<Entry(u).regId, "unreg">> \in RegId \X Purpose
      BY <1>2 DEF AccInfo, Purpose
    <3>2. \/ pending' = pending
          \/ /\ Entry(u).regId # NoRegId
             /\ pending' = pending \cup {<<Entry(u).regId, "unreg">>}
      BY <2>1 DEF Ask
    <3> QED  BY <3>1, <3>2 DEF Typed, TypeOK
  <2>2. CASE ~Ask(u)
    BY <2>2 DEF Undoing, WaitStop, Look, WaitUnreg, Report, ClearStatus,
                ClearFlags, Typed, TypeOK
  <2> QED  BY <2>1, <2>2
<1>8. shown' \in [Account -> BOOLEAN]
  <2>1. shown' \in {shown, [shown EXCEPT ![thr[u].acc] = FALSE]}
    BY DEF Undoing, WaitStop, Look, Ask, WaitUnreg, Report, ClearStatus,
           ClearFlags, Tells
  <2> QED  BY <2>1 DEF Typed, TypeOK
<1>9. TypeOK'
  BY <1>3, <1>5, <1>6, <1>7, <1>8 DEF TypeOK, Typed, Place, history
<1> QED  BY <1>3, <1>5, <1>6, <1>9 DEF Typed

\* A registration thread ends: it was told to stop, or it failed.
Ending(t) == Stopped(t) \/ leave_reg_thrd_with_error(t)

LEMMA EndingTyped ==
  ASSUME Typed, NEW t \in Thread, Ending(t)
  PROVE  /\ Typed'
         /\ thr[t].pc \in Registering /\ thr'[t].pc = "free"
         /\ \A u \in Thread : u # t => thr'[u] = thr[u]
         /\ \A p \in Pos : p # thr[t].pos => accInfos'[p] = accInfos[p]
         /\ \/ /\ thr[t].pc = "stop"
               /\ accInfos'[thr[t].pos] = [Entry(t) EXCEPT !.isShutdown = TRUE]
            \/ /\ thr[t].pc = "leave" /\ accInfos'[thr[t].pos] = Cleared
         /\ UNCHANGED <<pending, history>>
<1>1. \E from \in {"stop", "leave"} : Goes(t, from, "free")
  BY DEF Ending, Stopped, leave_reg_thrd_with_error
<1>2. Entry(t) \in AccInfo /\ thr[t].pos \in Pos /\ Cleared \in AccInfo
  BY DEF Typed, TypeOK, Entry, Cleared, AccInfo
<1>3. /\ thr' \in [Thread -> [pc : Place, acc : Account \cup {NoAccount},
                              pos : Pos, regId : RegId \cup {NoRegId}]]
      /\ Serves'
      /\ thr[t].pc \in Registering /\ thr'[t].pc = "free"
      /\ \A u \in Thread : u # t => thr'[u] = thr[u]
  <2>1. PICK from \in {"stop", "leave"} : Goes(t, from, "free")
    BY <1>1
  <2>2. from # "free" /\ "free" \in Place /\ from \in Registering
        /\ "free" \notin Registering
    BY DEF Registering, Place
  <2> QED  BY <2>1, <2>2, Move DEF Typed
<1>4. \E e \in AccInfo :
        /\ Writes(t, e) /\ e.regId \in {Entry(t).regId, NoRegId}
        /\ \/ thr[t].pc = "stop" /\ e = [Entry(t) EXCEPT !.isShutdown = TRUE]
           \/ thr[t].pc = "leave" /\ e = Cleared
  <2>1. CASE Stopped(t)
    <3> DEFINE e == [Entry(t) EXCEPT !.isShutdown = TRUE]
    <3>1. e \in AccInfo /\ e.regId = Entry(t).regId
      BY <1>2 DEF AccInfo
    <3> QED  BY <2>1, <3>1 DEF Stopped, Goes
  <2>2. CASE leave_reg_thrd_with_error(t)
    <3>1. Cleared.regId = NoRegId
      BY DEF Cleared
    <3> QED  BY <1>2, <2>2, <3>1 DEF leave_reg_thrd_with_error, Goes
  <2> QED  BY <2>1, <2>2 DEF Ending
<1>5. /\ accInfos' \in [Pos -> AccInfo] /\ RegIdsDiffer'
      /\ \A p \in Pos : p # thr[t].pos => accInfos'[p] = accInfos[p]
      /\ \/ /\ thr[t].pc = "stop"
            /\ accInfos'[thr[t].pos] = [Entry(t) EXCEPT !.isShutdown = TRUE]
         \/ /\ thr[t].pc = "leave" /\ accInfos'[thr[t].pos] = Cleared
  BY <1>4, EntryWritten DEF Typed
<1>6. UNCHANGED <<pending, history>>
  BY DEF Ending, Stopped, leave_reg_thrd_with_error, history
<1>7. shown' \in [Account -> BOOLEAN]
  <2>1. shown' \in {shown, [shown EXCEPT ![thr[t].acc] = FALSE]}
    BY DEF Ending, Stopped, leave_reg_thrd_with_error, MayTell, Tells
  <2> QED  BY <2>1 DEF Typed, TypeOK
<1>8. TypeOK'
  BY <1>3, <1>5, <1>6, <1>7 DEF TypeOK, Typed, Place, history
<1> QED  BY <1>3, <1>5, <1>6, <1>8 DEF Typed

\* A registration thread takes entry p and sends REGISTER with id r.
Takes(t, p, r) ==
  /\ thr[t].pc = "register" /\ thr'[t].pc = "waitReg"
  /\ thr'[t].acc = thr[t].acc /\ thr'[t].pos = p /\ thr'[t].regId = r
  /\ \A u \in Thread : u # t => thr'[u] = thr[u]
  /\ ~Used(p)
  /\ \A q \in Pos : accInfos[q].accountId # thr[t].acc
  /\ r \in FreeRegIds
  /\ accInfos'[p] = [[[[accInfos[p] EXCEPT !.accountId = thr[t].acc]
                                    EXCEPT !.isRegistered = FALSE]
                                    EXCEPT !.regId = r]
                                    EXCEPT !.waitingOn = @ \cup {"reg"}]
  /\ \A q \in Pos : q # p => accInfos'[q] = accInfos[q]
  /\ pending' = pending \cup {<<r, "reg">>}
  /\ granted' = granted \ {r}
  /\ shared' = (shared \/ \E u \in Thread : WorksOn(u, p))
  /\ UNCHANGED <<shown, crossed>>

LEMMA RegisterTyped ==
  ASSUME RegistrarAssumption, Typed, NEW t \in Thread, RegisterSent(t)
  PROVE  Typed' /\ \E p \in Pos, r \in RegId : Takes(t, p, r)
<1> USE DEF Typed
<1> DEFINE p == Smallest(find_empty_acc_info)
           r == Smallest(FreeRegIds)
<1>1. p \in Pos /\ ~Used(p) /\ r \in FreeRegIds
  BY SearchFinds DEF RegisterSent
<1>2. r \in RegId
  BY <1>1 DEF FreeRegIds
<1> HIDE DEF p, r
<1>3. /\ accInfos \in [Pos -> AccInfo]
      /\ thr \in [Thread -> [pc : Place, acc : Account \cup {NoAccount},
                             pos : Pos, regId : RegId \cup {NoRegId}]]
  BY DEF TypeOK, Place
<1>4. thr[t].pc = "register" /\ thr[t].acc \in Account
  BY DEF RegisterSent, Serves
<1>5. thr' = [thr EXCEPT ![t] = [[[thr[t] EXCEPT !.pc = "waitReg"]
                                         EXCEPT !.pos = p] EXCEPT !.regId = r]]
  BY <1>3 DEF RegisterSent, p, r
<1>6. /\ thr'[t].pc = "waitReg" /\ thr'[t].acc = thr[t].acc
      /\ thr'[t].pos = p /\ thr'[t].regId = r
      /\ \A u \in Thread : u # t => thr'[u] = thr[u]
      /\ thr' \in [Thread -> [pc : Place, acc : Account \cup {NoAccount},
                              pos : Pos, regId : RegId \cup {NoRegId}]]
  <2>1. thr[t] \in [pc : Place, acc : Account \cup {NoAccount},
                    pos : Pos, regId : RegId \cup {NoRegId}]
    BY <1>3
  <2>2. "waitReg" \in Place
    BY DEF Place, Registering
  <2> DEFINE new == [[[thr[t] EXCEPT !.pc = "waitReg"]
                              EXCEPT !.pos = p] EXCEPT !.regId = r]
  <2>3. /\ new.pc = "waitReg" /\ new.acc = thr[t].acc
        /\ new.pos = p /\ new.regId = r
        /\ new \in [pc : Place, acc : Account \cup {NoAccount},
                    pos : Pos, regId : RegId \cup {NoRegId}]
    BY <1>1, <1>2, <2>1, <2>2
  <2> HIDE DEF new
  <2>4. thr' = [thr EXCEPT ![t] = new]
    BY <1>5 DEF new
  <2> QED  BY <1>3, <2>3, <2>4
<1>7. Serves'
  BY <1>2, <1>4, <1>6 DEF Serves
<1> DEFINE e == [[[[accInfos[p] EXCEPT !.accountId = thr[t].acc]
                                EXCEPT !.isRegistered = FALSE]
                                EXCEPT !.regId = r]
                                EXCEPT !.waitingOn = @ \cup {"reg"}]
<1>8. accInfos' = [accInfos EXCEPT ![p] = e]
  <2>1. accInfos' = [accInfos EXCEPT ![p].accountId = thr[t].acc,
                                     ![p].isRegistered = FALSE,
                                     ![p].regId = r,
                                     ![p].waitingOn = @ \cup {"reg"}]
    BY DEF RegisterSent, p, r
  <2>2. DOMAIN accInfos = Pos
    BY <1>3
  <2> QED  BY <1>1, <2>1, <2>2
<1>9. e \in AccInfo /\ e.regId = r
  <2>1. accInfos[p] \in AccInfo
    BY <1>1, <1>3
  <2> QED  BY <1>2, <1>4, <2>1 DEF AccInfo, Purpose
<1>10. /\ accInfos' \in [Pos -> AccInfo] /\ accInfos'[p] = e
       /\ \A q \in Pos : q # p => accInfos'[q] = accInfos[q]
  <2> HIDE DEF e
  <2> QED  BY <1>1, <1>3, <1>8, <1>9
<1>11. RegIdsDiffer'
  <2>1. \A q \in Pos : accInfos[q].regId # r
    BY <1>1 DEF FreeRegIds, find_acc_by_regid
  <2>2. accInfos'[p].regId = r
    BY <1>9, <1>10
  <2>3. \A q \in Pos : q # p => accInfos'[q].regId = accInfos[q].regId
    BY <1>10
  <2> QED  BY <2>1, <2>2, <2>3 DEF RegIdsDiffer
<1>12. /\ pending' = pending \cup {<<r, "reg">>}
       /\ granted' = granted \ {r}
       /\ shared' = (shared \/ \E u \in Thread : WorksOn(u, p))
       /\ UNCHANGED <<shown, crossed>>
  BY DEF RegisterSent, WorksOn, p, r
<1>13. /\ pending' \in SUBSET (RegId \X Purpose) /\ granted' \in SUBSET RegId
       /\ shared' \in BOOLEAN
  <2>1. <<r, "reg">> \in RegId \X Purpose
    BY <1>2 DEF Purpose
  <2>2. shared' \in BOOLEAN
    BY <1>12 DEF TypeOK
  <2> QED  BY <1>12, <2>1, <2>2 DEF TypeOK
<1>14. TypeOK'
  BY <1>6, <1>10, <1>12, <1>13 DEF TypeOK, Place
<1>15. \A q \in Pos : accInfos[q].accountId # thr[t].acc
  BY DEF RegisterSent, find_acc_by_id
<1>16. Takes(t, p, r)
  BY <1>1, <1>4, <1>6, <1>10, <1>12, <1>15 DEF Takes
<1> QED  BY <1>1, <1>2, <1>7, <1>11, <1>14, <1>16

\* An unregistration thread finds its entry p and asks for its end.
Finds(u, p) ==
  /\ thr[u].pc = "unregister" /\ thr'[u].pc = "waitStop"
  /\ thr'[u].acc = thr[u].acc /\ thr'[u].pos = p
  /\ \A t \in Thread : t # u => thr'[t] = thr[t]
  /\ accInfos[p].accountId = thr[u].acc /\ ~accInfos[p].isShutdown
  /\ accInfos'[p] = [accInfos[p] EXCEPT !.doShutdown = TRUE]
  /\ \A q \in Pos : q # p => accInfos'[q] = accInfos[q]
  /\ shared' = (shared \/ \E v \in Thread : WorksOn(v, p))
  /\ UNCHANGED <<pending, shown, granted, crossed>>

LEMMA FindsTyped ==
  ASSUME Typed, NEW u \in Thread, StopKeeper(u)
  PROVE  Typed' /\ \E p \in Pos : Finds(u, p)
<1> USE DEF Typed
<1>1. PICK p \in find_acc_by_id(thr[u].acc) :
        /\ ~accInfos[p].isShutdown
        /\ accInfos' = [accInfos EXCEPT ![p].doShutdown = TRUE]
        /\ thr' = [thr EXCEPT ![u].pc = "waitStop", ![u].pos = p]
        /\ shared' = (shared \/ \E v \in Thread : WorksOn(v, p))
  BY DEF StopKeeper, WorksOn
<1>2. p \in Pos /\ accInfos[p].accountId = thr[u].acc
  BY DEF find_acc_by_id
<1>3. /\ accInfos \in [Pos -> AccInfo]
      /\ thr \in [Thread -> [pc : Place, acc : Account \cup {NoAccount},
                             pos : Pos, regId : RegId \cup {NoRegId}]]
  BY DEF TypeOK, Place
<1>4. thr[u].pc = "unregister" /\ UNCHANGED <<pending, shown, granted, crossed>>
  BY DEF StopKeeper
<1> DEFINE new == [[thr[u] EXCEPT !.pc = "waitStop"] EXCEPT !.pos = p]
           e   == [accInfos[p] EXCEPT !.doShutdown = TRUE]
<1>5. /\ new.pc = "waitStop" /\ new.acc = thr[u].acc /\ new.pos = p
      /\ new.regId = thr[u].regId
      /\ new \in [pc : Place, acc : Account \cup {NoAccount},
                  pos : Pos, regId : RegId \cup {NoRegId}]
  <2>1. thr[u] \in [pc : Place, acc : Account \cup {NoAccount},
                    pos : Pos, regId : RegId \cup {NoRegId}]
    BY <1>3
  <2>2. "waitStop" \in Place
    BY DEF Place, Unregistering
  <2> QED  BY <1>2, <2>1, <2>2
<1>6. e \in AccInfo /\ e.regId = accInfos[p].regId
  <2>1. accInfos[p] \in AccInfo
    BY <1>2, <1>3
  <2> QED  BY <2>1 DEF AccInfo
<1>7. thr' = [thr EXCEPT ![u] = new] /\ accInfos' = [accInfos EXCEPT ![p] = e]
  BY <1>1, <1>2, <1>3
<1> HIDE DEF new, e
<1>8. /\ thr' \in [Thread -> [pc : Place, acc : Account \cup {NoAccount},
                              pos : Pos, regId : RegId \cup {NoRegId}]]
      /\ thr'[u] = new /\ \A t \in Thread : t # u => thr'[t] = thr[t]
      /\ accInfos' \in [Pos -> AccInfo] /\ accInfos'[p] = e
      /\ \A q \in Pos : q # p => accInfos'[q] = accInfos[q]
  BY <1>2, <1>3, <1>5, <1>6, <1>7
<1>9. Serves'
  BY <1>4, <1>5, <1>8 DEF Serves, Registering
<1>10. RegIdsDiffer'
  BY <1>6, <1>8 DEF RegIdsDiffer
<1>11. shared' \in BOOLEAN
  BY <1>1 DEF TypeOK
<1>12. TypeOK'
  BY <1>4, <1>8, <1>11 DEF TypeOK, Place
<1>13. Finds(u, p)
  BY <1>1, <1>2, <1>4, <1>5, <1>8 DEF Finds, e
<1> QED  BY <1>2, <1>9, <1>10, <1>12, <1>13

\* Steps that concern no thread on an entry: a request of the GUI, and one
\* that comes to nothing.
Outside == {"free", "register", "unregister"}
Aside ==
  \/ \E t \in Thread, a \in Account :
       rm_register_account(t, a) \/ rm_unregister_account(t, a)
  \/ rm_unregister_all
  \/ \E t \in Thread :
       RegisterRefused(t) \/ RegisterFails(t) \/ UnregisterRefused(t)

AsideEffect ==
  /\ \A t \in Thread : \/ thr'[t] = thr[t]
                       \/ thr[t].pc \in Outside /\ thr'[t].pc \in Outside
  /\ \A p \in Pos : \/ accInfos'[p] = accInfos[p]
                    \/ accInfos'[p] = [accInfos[p] EXCEPT !.informGui = FALSE]
                    \/ ~Used(p) /\ accInfos'[p] = Cleared
  /\ UNCHANGED <<pending, history>>

LEMMA AsideTyped ==
  ASSUME RegistrarAssumption, Typed, Aside
  PROVE  Typed' /\ AsideEffect
<1> USE DEF Typed
<1>1. /\ accInfos \in [Pos -> AccInfo]
      /\ thr \in [Thread -> [pc : Place, acc : Account \cup {NoAccount},
                             pos : Pos, regId : RegId \cup {NoRegId}]]
  BY DEF TypeOK, Place
<1>2. ASSUME NEW t \in Thread, NEW a \in Account, NEW what \in {"register", "unregister"},
             Starts(t, a, what)
      PROVE  Typed' /\ AsideEffect
  <2> DEFINE new == [[thr[t] EXCEPT !.pc = what] EXCEPT !.acc = a]
  <2>1. /\ new.pc = what /\ new.acc = a
        /\ new \in [pc : Place, acc : Account \cup {NoAccount},
                    pos : Pos, regId : RegId \cup {NoRegId}]
    <3>1. thr[t] \in [pc : Place, acc : Account \cup {NoAccount},
                      pos : Pos, regId : RegId \cup {NoRegId}]
      BY <1>1
    <3>2. what \in Place
      BY DEF Place
    <3> QED  BY <3>1, <3>2
  <2>2. /\ thr' = [thr EXCEPT ![t] = new] /\ thr[t].pc = "free"
        /\ UNCHANGED <<accInfos, pending, shown, history>>
    BY <1>1, <1>2 DEF Starts
  <2> HIDE DEF new
  <2>3. /\ thr' \in [Thread -> [pc : Place, acc : Account \cup {NoAccount},
                                pos : Pos, regId : RegId \cup {NoRegId}]]
        /\ thr'[t] = new /\ \A u \in Thread : u # t => thr'[u] = thr[u]
    BY <1>1, <2>1, <2>2
  <2>4. Serves'
    BY <2>1, <2>3 DEF Serves, Registering
  <2>5. TypeOK'
    BY <2>2, <2>3 DEF TypeOK, Place, history
  <2>6. RegIdsDiffer'
    BY <2>2 DEF RegIdsDiffer
  <2>7. AsideEffect
    BY <2>1, <2>2, <2>3 DEF AsideEffect, Outside
  <2> QED  BY <2>4, <2>5, <2>6, <2>7
<1>3. CASE rm_unregister_all
  <2>1. PICK T \in SUBSET {t \in Thread : thr[t].pc = "free"} :
          \E f \in [T -> {p \in Pos : Used(p) /\ accInfos[p].isRegistered}] :
            thr' = [t \in Thread |->
                      IF t \in T
                      THEN [NoThread EXCEPT !.pc = "unregister",
                                            !.acc = accInfos[f[t]].accountId]
                      ELSE thr[t]]
    BY <1>3 DEF rm_unregister_all
  <2>2. PICK f \in [T -> {p \in Pos : Used(p) /\ accInfos[p].isRegistered}] :
            thr' = [t \in Thread |->
                      IF t \in T
                      THEN [NoThread EXCEPT !.pc = "unregister",
                                            !.acc = accInfos[f[t]].accountId]
                      ELSE thr[t]]
    BY <2>1
  <2>3. ASSUME NEW t \in T
        PROVE  /\ thr[t].pc = "free" /\ thr'[t].pc = "unregister"
               /\ thr'[t].acc \in Account
               /\ thr'[t] \in [pc : Place, acc : Account \cup {NoAccount},
                               pos : Pos, regId : RegId \cup {NoRegId}]
    <3>1. f[t] \in Pos /\ accInfos[f[t]].accountId # NoAccount
      BY DEF Used
    <3>2. accInfos[f[t]].accountId \in Account
      BY <1>1, <3>1 DEF AccInfo
    <3>3. thr'[t] = [[NoThread EXCEPT !.pc = "unregister"]
                               EXCEPT !.acc = accInfos[f[t]].accountId]
      BY <2>1, <2>2
    <3>4. 1 \in Pos /\ "unregister" \in Place
      BY DEF Pos, RegistrarAssumption, Place
    <3> QED  BY <2>1, <3>2, <3>3, <3>4 DEF NoThread
  <2>4. \A t \in Thread : t \notin T => thr'[t] = thr[t]
    BY <2>2
  <2>5. thr' \in [Thread -> [pc : Place, acc : Account \cup {NoAccount},
                             pos : Pos, regId : RegId \cup {NoRegId}]]
    <3>1. thr' = [t \in Thread |-> thr'[t]]
      BY <2>2
    <3>2. \A t \in Thread : thr'[t] \in [pc : Place, acc : Account \cup {NoAccount},
                                         pos : Pos, regId : RegId \cup {NoRegId}]
      BY <1>1, <2>3, <2>4
    <3> QED  BY <3>1, <3>2
  <2>6. Serves'
    BY <2>3, <2>4 DEF Serves, Registering
  <2>7. accInfos' = [p \in Pos |-> IF Used(p)
                                   THEN [accInfos[p] EXCEPT !.informGui = FALSE]
                                   ELSE accInfos[p]]
        /\ UNCHANGED <<pending, shown, history>>
    BY <1>3 DEF rm_unregister_all
  <2>8. \A p \in Pos :
          /\ [accInfos[p] EXCEPT !.informGui = FALSE] \in AccInfo
          /\ [accInfos[p] EXCEPT !.informGui = FALSE].regId = accInfos[p].regId
    <3> TAKE p \in Pos
    <3>1. accInfos[p] \in AccInfo
      BY <1>1
    <3> QED  BY <3>1 DEF AccInfo
  <2>9. /\ accInfos' \in [Pos -> AccInfo]
        /\ \A p \in Pos : accInfos'[p].regId = accInfos[p].regId
        /\ \A p \in Pos : \/ accInfos'[p] = accInfos[p]
                          \/ accInfos'[p] = [accInfos[p] EXCEPT !.informGui = FALSE]
    BY <1>1, <2>7, <2>8
  <2>10. RegIdsDiffer'
    BY <2>9 DEF RegIdsDiffer
  <2>11. TypeOK'
    BY <2>5, <2>7, <2>9 DEF TypeOK, Place, history
  <2>12. AsideEffect
    BY <2>3, <2>4, <2>7, <2>9 DEF AsideEffect, Outside
  <2> QED  BY <2>6, <2>10, <2>11, <2>12
<1>4. ASSUME NEW t \in Thread,
             RegisterRefused(t) \/ RegisterFails(t) \/ UnregisterRefused(t)
      PROVE  Typed' /\ AsideEffect
  <2>1. \E from \in {"register", "unregister"} : Goes(t, from, "free")
    BY <1>4 DEF RegisterRefused, RegisterFails, UnregisterRefused
  <2>2. /\ thr' \in [Thread -> [pc : Place, acc : Account \cup {NoAccount},
                                pos : Pos, regId : RegId \cup {NoRegId}]]
        /\ Serves' /\ thr[t].pc \in Outside /\ thr'[t].pc = "free"
        /\ \A u \in Thread : u # t => thr'[u] = thr[u]
    <3>1. PICK from \in {"register", "unregister"} : Goes(t, from, "free")
      BY <2>1
    <3>2. "free" \in Place /\ "free" \notin Registering /\ from # "free"
      BY DEF Place, Registering
    <3> QED  BY <3>1, <3>2, Move DEF Outside
  <2>3. \/ UNCHANGED accInfos
        \/ \E p \in Pos : ~Used(p) /\ accInfos' = [accInfos EXCEPT ![p] = Cleared]
    BY <1>4, SearchFinds DEF RegisterRefused, RegisterFails, UnregisterRefused
  <2>4. /\ accInfos' \in [Pos -> AccInfo]
        /\ \A p \in Pos : accInfos'[p].regId \in {accInfos[p].regId, NoRegId}
        /\ \A p \in Pos : \/ accInfos'[p] = accInfos[p]
                          \/ ~Used(p) /\ accInfos'[p] = Cleared
    <3>1. Cleared \in AccInfo /\ Cleared.regId = NoRegId
      BY DEF Cleared, AccInfo
    <3> QED  BY <1>1, <2>3, <3>1
  <2>5. RegIdsDiffer'
    BY <2>4 DEF RegIdsDiffer
  <2>6. /\ UNCHANGED <<pending, history>>
        /\ shown' \in {shown, [shown EXCEPT ![thr[t].acc] = FALSE]}
    BY <1>4 DEF RegisterRefused, RegisterFails, UnregisterRefused, MayTell, Tells
  <2>7. shown' \in [Account -> BOOLEAN]
    BY <2>6 DEF TypeOK
  <2>8. TypeOK'
    BY <2>2, <2>4, <2>6, <2>7 DEF TypeOK, Place, history
  <2>9. AsideEffect
    BY <2>2, <2>4, <2>6 DEF AsideEffect, Outside
  <2> QED  BY <2>2, <2>5, <2>8, <2>9
<1> QED
  BY <1>2, <1>3, <1>4 DEF Aside, rm_register_account, rm_unregister_account

\* An answer moves the three flags that stand for the registration, and no
\* other field.
LEMMA JudgedFields ==
  ASSUME NEW e \in AccInfo, NEW success \in BOOLEAN
  PROVE  LET j == [Judged(e, success) EXCEPT !.eventArrived = TRUE]
         IN /\ j \in AccInfo /\ j.eventArrived
            /\ j.accountId = e.accountId /\ j.regId = e.regId
            /\ j.isShutdown = e.isShutdown /\ j.waitingOn = e.waitingOn
            /\ "reg" \in e.waitingOn => /\ j.isRegistered = success
                                        /\ j.isRefreshed = e.isRefreshed
            /\ e.waitingOn = {} => /\ j.isRegistered = e.isRegistered
                                   /\ j.isRefreshed = e.isRefreshed
<1>1. /\ e.waitingOn \in SUBSET Purpose /\ e.isRegistered \in BOOLEAN
      /\ e.isRefreshed \in BOOLEAN
  BY DEF AccInfo
<1>2. CASE "reg" \in e.waitingOn
  <2>1. Judged(e, success) = [e EXCEPT !.isRegistered = success]
    BY <1>2 DEF Judged
  <2> QED  BY <1>2, <2>1 DEF AccInfo
<1>3. CASE "reg" \notin e.waitingOn /\ "refresh" \in e.waitingOn
  <2>1. Judged(e, success) = [e EXCEPT !.isRegistered = @ /\ success,
                                       !.isRefreshed = success]
    BY <1>3 DEF Judged
  <2>2. (e.isRegistered /\ success) \in BOOLEAN
    OBVIOUS
  <2> QED  BY <1>3, <2>1, <2>2 DEF AccInfo
<1>4. CASE e.waitingOn = {"unreg"}
  <2>1. Judged(e, success) = [e EXCEPT !.isRegistered = ~success]
    BY <1>4 DEF Judged
  <2> QED  BY <1>4, <2>1 DEF AccInfo
<1>5. CASE /\ "reg" \notin e.waitingOn /\ "refresh" \notin e.waitingOn
           /\ e.waitingOn # {"unreg"}
  <2>1. Judged(e, success) = e
    BY <1>5 DEF Judged
  <2> QED  BY <1>5, <2>1 DEF AccInfo
<1> QED  BY <1>2, <1>3, <1>4, <1>5

AnswerEffect(q, success) ==
  /\ q \in pending /\ q \in RegId \X Purpose /\ pending' = pending \ {q}
  /\ UNCHANGED <<thr, shown, shared>>
  /\ \A p \in Pos :
       \/ accInfos'[p] = accInfos[p]
       \/ /\ accInfos[p].regId = q[1]
          /\ accInfos'[p] = [Judged(accInfos[p], success) EXCEPT !.eventArrived = TRUE]
  /\ granted \subseteq granted'
  /\ q[2] = "reg" /\ success => q[1] \in granted'
  /\ crossed' = (crossed \/ \E t \in Thread : /\ thr[t].pc \in {"clearReg", "judgeReg"}
                                              /\ thr[t].regId = q[1])

LEMMA AnswerTyped ==
  ASSUME RegistrarAssumption, Typed, NEW q \in pending, NEW success \in BOOLEAN,
         rm_receive_register_event(q, success)
  PROVE  Typed' /\ AnswerEffect(q, success)
<1> USE DEF Typed
<1>1. /\ accInfos \in [Pos -> AccInfo] /\ q \in RegId \X Purpose
      /\ q[1] \in RegId
  BY DEF TypeOK
<1> DEFINE Judge(p) == [Judged(accInfos[p], success) EXCEPT !.eventArrived = TRUE]
<1>2. \/ UNCHANGED accInfos
      \/ \E p \in Pos : /\ accInfos[p].regId = q[1]
                        /\ accInfos' = [accInfos EXCEPT ![p] = Judge(p)]
  <2>1. CASE find_acc_by_regid(q[1]) = {}
    BY <2>1 DEF rm_receive_register_event
  <2>2. CASE find_acc_by_regid(q[1]) # {}
    <3> DEFINE p == Smallest(find_acc_by_regid(q[1]))
    <3>1. p \in Pos /\ accInfos[p].regId = q[1]
      BY <2>2, SearchFinds
    <3>2. accInfos' = [accInfos EXCEPT ![p] = Judge(p)]
      BY <1>1, <2>2, <3>1 DEF rm_receive_register_event
    <3> QED  BY <3>1, <3>2
  <2> QED  BY <2>1, <2>2
<1>3. \A p \in Pos : Judge(p) \in AccInfo /\ Judge(p).regId = accInfos[p].regId
  BY <1>1, JudgedFields
<1> HIDE DEF Judge
<1>4. /\ accInfos' \in [Pos -> AccInfo]
      /\ \A p \in Pos : accInfos'[p].regId = accInfos[p].regId
      /\ \A p \in Pos : \/ accInfos'[p] = accInfos[p]
                        \/ accInfos[p].regId = q[1] /\ accInfos'[p] = Judge(p)
  BY <1>1, <1>2, <1>3
<1>5. RegIdsDiffer'
  BY <1>4 DEF RegIdsDiffer
<1>6. /\ pending' = pending \ {q} /\ UNCHANGED <<thr, shown, shared>>
      /\ granted' = IF q[2] = "reg" /\ success THEN granted \cup {q[1]} ELSE granted
      /\ crossed' = (crossed \/ \E t \in Thread : /\ thr[t].pc \in {"clearReg", "judgeReg"}
                                                  /\ thr[t].regId = q[1])
  BY DEF rm_receive_register_event
<1>7. granted' \in SUBSET RegId /\ crossed' \in BOOLEAN
  <2>1. granted' \in SUBSET RegId
    BY <1>1, <1>6 DEF TypeOK
  <2>2. crossed' \in BOOLEAN
    BY <1>6 DEF TypeOK
  <2> QED  BY <2>1, <2>2
<1>8. Serves'
  BY <1>6 DEF Serves
<1>9. TypeOK'
  BY <1>4, <1>6, <1>7 DEF TypeOK
<1>10. AnswerEffect(q, success)
  BY <1>1, <1>4, <1>6 DEF AnswerEffect, Judge
<1> QED  BY <1>5, <1>8, <1>9, <1>10

LEMMA NextTyped ==
  ASSUME RegistrarAssumption, Typed, [Next]_vars
  PROVE  Typed'
<1>1. ASSUME NEW q \in pending, Lost(q)
      PROVE  Typed'
  BY <1>1 DEF Lost, Typed, TypeOK, Serves, RegIdsDiffer, history
<1>2. CASE UNCHANGED vars
  BY <1>2 DEF vars, Typed, TypeOK, Serves, RegIdsDiffer, history
<1>3. CASE Aside
  BY <1>3, AsideTyped
<1>4. ASSUME NEW t \in Thread, Keeping(t) \/ Undoing(t) \/ Ending(t)
                               \/ RegisterSent(t) \/ StopKeeper(t)
      PROVE  Typed'
  BY <1>4, KeepingTyped, UndoingTyped, EndingTyped, RegisterTyped, FindsTyped
<1> QED
  BY <1>1, <1>2, <1>3, <1>4, AnswerTyped
  DEF Next, ThreadStep, Aside, Keeping, Undoing, Ending

-----------------------------------------------------------------------------
(* Who works on which entry.  An accountId says that an entry is in use.   *)

LEMMA PlacesDiffer ==
  /\ Registering \cap Unregistering = {}
  /\ Registering \cap Outside = {} /\ Unregistering \cap Outside = {}
  /\ "free" \in Outside /\ First \cup Settled \cup Renewing \cup {"leave"} = Registering
BY DEF Registering, Unregistering, Outside, First, Settled, Renewing

LEMMA KeptIsUsed ==
  ASSUME RegistrarAssumption, Typed, Keepers, NEW p \in Pos, Kept(p)
  PROVE  Used(p) /\ ~accInfos[p].isShutdown
BY PlacesDiffer DEF RegistrarAssumption, Typed, Serves, Keepers, Keeper, Kept,
   Keeps, Used, Entry, Outside

LEMMA KeepingDivides ==
  ASSUME RegistrarAssumption, Typed, Division, NEW t \in Thread, Keeping(t)
  PROVE  Division'
<1> USE DEF Division
<1>1. /\ thr[t].pc \in Registering /\ thr'[t].pc \in Registering
      /\ \A u \in Thread : u # t => thr'[u] = thr[u]
      /\ thr'[t].acc = thr[t].acc /\ thr'[t].pos = thr[t].pos
      /\ thr'[t].regId = thr[t].regId
      /\ \A p \in Pos : p # thr[t].pos => accInfos'[p] = accInfos[p]
      /\ Entry(t)'.accountId = Entry(t).accountId
      /\ Entry(t)'.regId = Entry(t).regId
      /\ Entry(t)'.isShutdown = Entry(t).isShutdown
  BY KeepingTyped
<1>2. \A u \in Thread : thr[u].pos \in Pos
  BY DEF Typed, TypeOK
<1>3. Keepers'
  BY <1>1, <1>2 DEF Keepers, Keeper, Entry
<1>4. \A p : Kept(p)' <=> Kept(p)
  BY <1>1 DEF Kept, Keeps
<1>5. \A u \in Thread : thr'[u].pc \in Unregistering => u # t /\ thr'[u] = thr[u]
  BY <1>1, PlacesDiffer
<1>6. Parted'
  BY <1>4, <1>5 DEF Parted
<1>7. ASSUME NEW p \in Pos, p = thr[t].pos
      PROVE  Kept(p) /\ Used(p) /\ Used(p)'
  <2>1. Kept(p)
    BY <1>1, <1>7 DEF Kept, Keeps
  <2>2. Used(p)
    BY <2>1, KeptIsUsed
  <2> QED  BY <1>1, <1>7, <2>1, <2>2 DEF Used, Entry
<1>8. \A p : Cleaning(p) => Cleaning(p)'
  BY <1>1 DEF Cleaning, Registering
<1>9. Abandoned'
  <2> SUFFICES ASSUME NEW p \in Pos
               PROVE  /\ Used(p)' /\ ~Kept(p)' => accInfos'[p].isShutdown
                      /\ ~Used(p)' /\ ~Cleaning(p)' => Clean(accInfos'[p])
    BY DEF Abandoned
  <2>1. CASE p = thr[t].pos
    BY <1>4, <1>7, <2>1
  <2>2. CASE p # thr[t].pos
    BY <1>1, <1>4, <1>8, <2>2 DEF Abandoned, Used
  <2> QED  BY <2>1, <2>2
<1>10. Unregisters'
  <2> SUFFICES ASSUME NEW u \in Thread, thr'[u].pc \in Unregistering
               PROVE  Unregisters!(u)'
    BY DEF Unregisters, Unregistering
  <2>1. u # t /\ thr'[u] = thr[u] /\ thr[u].pc \in Unregistering
    BY <1>5
  <2>2. CASE thr[u].pos # thr[t].pos
    <3>1. Entry(u)' = Entry(u)
      BY <1>1, <1>2, <2>1, <2>2 DEF Entry
    <3> QED  BY <1>4, <2>1, <3>1 DEF Unregisters
  <2>3. CASE thr[u].pos = thr[t].pos
    <3>1. thr[u].pc = "waitStop"
      BY <1>2, <1>7, <2>1, <2>3 DEF Parted
    <3>2. Entry(u)'.accountId = Entry(u).accountId
      BY <1>1, <2>1, <2>3 DEF Entry
    <3> QED  BY <1>2, <1>4, <1>7, <2>1, <2>3, <3>1, <3>2 DEF Unregisters
  <2> QED  BY <2>2, <2>3
<1> QED  BY <1>3, <1>6, <1>9, <1>10

LEMMA UndoingDivides ==
  ASSUME RegistrarAssumption, Typed, Division, NEW u \in Thread, Undoing(u)
  PROVE  /\ Division'
         /\ \A t \in Thread : thr[t].pc \in Registering
                             => thr'[t] = thr[t] /\ Entry(t)' = Entry(t)
         /\ \A t \in Thread : thr'[t].pc \in Registering => thr'[t] = thr[t]
<1> USE DEF Division
<1> DEFINE p == thr[u].pos
<1>1. /\ thr[u].pc \in Unregistering /\ thr'[u].pc \in {"free"} \cup Unregistering
      /\ \A t \in Thread : t # u => thr'[t] = thr[t]
      /\ thr'[u].pc # "free" => thr'[u].acc = thr[u].acc /\ thr'[u].pos = p
      /\ \A q \in Pos : q # p => accInfos'[q] = accInfos[q]
  BY UndoingTyped
<1>2. /\ \A t \in Thread : thr[t].pos \in Pos
      /\ accInfos \in [Pos -> AccInfo] /\ Entry(u) \in AccInfo
      /\ thr[u].acc \in Account /\ thr[u].acc # NoAccount
  BY <1>1 DEF Typed, TypeOK, Serves, Entry, RegistrarAssumption, Unregistering
<1>3. \A t \in Thread : thr'[t].pc \in Registering => t # u /\ thr'[t] = thr[t]
  BY <1>1, PlacesDiffer
<1>4. \A t \in Thread : thr[t].pc \in Registering => t # u /\ thr'[t] = thr[t]
  BY <1>1, PlacesDiffer
<1>5. \A q : Kept(q)' <=> Kept(q)
  BY <1>3, <1>4 DEF Kept, Keeps
<1>6. CASE WaitStop(u) \/ Look(u)
  <2>1. UNCHANGED accInfos
    BY <1>6 DEF WaitStop, Look
  <2>2. Keepers'
    BY <1>3, <2>1 DEF Keepers, Keeper, Entry
  <2>3. thr'[u].pc = "look" => ~Kept(p)
    <3>1. CASE WaitStop(u)
      <4>1. Entry(u).isShutdown \/ ~Used(p)
        BY <3>1 DEF WaitStop, Entry, Used
      <4> QED  BY <1>2, <4>1, KeptIsUsed DEF Entry
    <3>2. CASE Look(u)
      BY <3>2 DEF Look, Goes, Typed, TypeOK, NoThread
    <3> QED  BY <1>6, <3>1, <3>2
  <2>4. /\ thr[u].pc \in {"waitStop", "look"}
        /\ thr'[u].pc \in {"free", "look", "ask"}
        /\ thr'[u].pc = "ask" => thr[u].pc = "look" /\ Entry(u).accountId # NoAccount
    BY <1>6 DEF WaitStop, Look, Goes, Typed, TypeOK, NoThread
  <2>5. Parted'
    BY <1>1, <1>5, <2>3, <2>4 DEF Parted, Unregistering
  <2>6. \A q : Cleaning(q) <=> Cleaning(q)'
    BY <1>1, <2>4 DEF Cleaning
  <2>7. Abandoned'
    BY <1>5, <2>1, <2>6 DEF Abandoned, Used
  <2>8. Unregisters'
    <3>1. \A t \in Thread : t # u => Entry(t)' = Entry(t)
      BY <1>1, <2>1 DEF Entry
    <3>2. thr'[u].pc # "free" => Entry(u)' = Entry(u)
      BY <1>1, <2>1 DEF Entry
    <3>3. thr'[u].pc = "ask" => ~Kept(p)
      BY <2>4 DEF Parted, Unregistering
    <3> QED
      BY <1>1, <1>5, <2>3, <2>4, <3>1, <3>2, <3>3 DEF Unregisters
  <2>9. \A t \in Thread : thr[t].pc \in Registering => Entry(t)' = Entry(t)
    BY <1>4, <2>1 DEF Entry
  <2> QED  BY <1>3, <1>4, <2>2, <2>5, <2>7, <2>8, <2>9
<1>7. CASE Ask(u) \/ WaitUnreg(u) \/ Report(u) \/ ClearStatus(u) \/ ClearFlags(u)
  <2>1. /\ thr[u].pc \in Unregistering \ {"waitStop"}
        /\ thr'[u].pc \in {"free"} \cup (Unregistering \ {"waitStop"})
    <3>1. /\ Ask(u) => Goes(u, "ask", "waitUnreg") \/ Goes(u, "ask", "free")
          /\ WaitUnreg(u) => Goes(u, "waitUnreg", "report")
          /\ Report(u) => Goes(u, "report", "clearStatus") \/ Goes(u, "report", "free")
          /\ ClearStatus(u) => Goes(u, "clearStatus", "clearFlags")
          /\ ClearFlags(u) => Goes(u, "clearFlags", "free")
      BY DEF Ask, WaitUnreg, Report, ClearStatus, ClearFlags
    <3> QED  BY <1>7, <3>1, GoesPc DEF Typed, Unregistering
  <2>2. ~Kept(p)
    BY <2>1 DEF Parted
  <2>3. \A t \in Thread : thr[t].pc \in Registering \cup Unregistering /\ t # u
                          => thr[t].pos # p
    <3>1. \A t \in Thread : thr[t].pc \in Registering => thr[t].pos # p
      BY <2>2 DEF Kept, Keeps
    <3>2. thr[u].pc \in Unregistering
      BY <1>1
    <3>3. \A t \in Thread : thr[t].pc \in Unregistering /\ t # u => thr[t].pos # p
      BY <3>2, Zenon DEF Parted
    <3> QED  BY <3>1, <3>3
  <2>4. \A t \in Thread : thr[t].pc \in Registering \cup Unregistering /\ t # u
                          => Entry(t)' = Entry(t)
    BY <1>1, <1>2, <2>3 DEF Entry
  <2>5. Keepers'
    BY <1>3, <2>4 DEF Keepers, Keeper
  <2>6. Parted'
    <3>1. \A v \in Thread : thr'[v].pc \in Unregistering
            => thr[v].pc \in Unregistering /\ thr'[v].pos = thr[v].pos
      <4>1. "free" \notin Unregistering
        BY DEF Unregistering
      <4> QED  BY <1>1, <4>1
    <3>2. \A v \in Thread : thr'[v].pc \in Unregistering \ {"waitStop"}
            => ~Kept(thr[v].pos)
      BY <1>1, <2>1, <2>2 DEF Parted
    <3> QED  BY <1>5, <3>1, <3>2 DEF Parted
  <2>7. \A q \in Pos : q # p => (Cleaning(q) <=> Cleaning(q)')
    BY <1>1 DEF Cleaning
  <2>8. /\ thr'[u].pc \in Unregistering => Unregisters!(u)'
        /\ accInfos'[p].accountId # NoAccount => accInfos'[p].isShutdown
        /\ accInfos'[p].accountId = NoAccount =>
             thr'[u].pc \in {"clearStatus", "clearFlags"} \/ Clean(accInfos'[p])
    <3>1. Used(p) => Entry(u).isShutdown
      BY <1>2, <2>2 DEF Abandoned, Entry
    <3>2. CASE Ask(u)
      <4>1. accInfos'[p] = [Entry(u) EXCEPT !.eventArrived = FALSE,
                                            !.waitingOn = @ \cup {"unreg"}]
        BY <1>2, <3>2 DEF Ask, Writes
      <4>2. /\ accInfos'[p].accountId = Entry(u).accountId
            /\ accInfos'[p].isShutdown = Entry(u).isShutdown
            /\ accInfos'[p].waitingOn = Entry(u).waitingOn \cup {"unreg"}
        BY <1>2, <4>1 DEF AccInfo
      <4>3. thr[u].pc = "ask" /\ thr'[u].pc \in {"free", "waitUnreg"}
        BY <3>2 DEF Ask, Goes, Typed, TypeOK, NoThread
      <4>4. Entry(u).accountId = thr[u].acc /\ Entry(u).waitingOn = {}
        BY <4>3 DEF Unregisters
      <4> QED
        BY <1>1, <1>2, <3>1, <4>2, <4>3, <4>4 DEF Entry, Used, Unregisters,
                                                  Unregistering
    <3>3. CASE WaitUnreg(u)
      <4>1. accInfos'[p] = [Entry(u) EXCEPT !.eventArrived = FALSE,
                                            !.waitingOn = @ \ {"unreg"}]
        BY <1>2, <3>3 DEF WaitUnreg, Writes
      <4>2. /\ accInfos'[p].accountId = Entry(u).accountId
            /\ accInfos'[p].isShutdown = Entry(u).isShutdown
        BY <1>2, <4>1 DEF AccInfo
      <4>3. thr[u].pc = "waitUnreg" /\ thr'[u].pc = "report"
        BY <3>3 DEF WaitUnreg, Goes, Typed, TypeOK
      <4>4. Entry(u).accountId = thr[u].acc
        BY <4>3 DEF Unregisters
      <4> QED
        BY <1>1, <1>2, <3>1, <4>2, <4>3, <4>4 DEF Entry, Used, Unregisters
    <3>4. CASE Report(u)
      <4>1. thr[u].pc = "report" /\ thr'[u].pc \in {"free", "clearStatus"}
        <5>1. Goes(u, "report", "clearStatus") \/ Goes(u, "report", "free")
          BY <3>4 DEF Report
        <5> QED  BY <5>1, GoesPc DEF Typed
      <4>2. Entry(u).accountId = thr[u].acc
        BY <4>1 DEF Unregisters
      <4>3. CASE thr'[u].pc = "free"
        <5>1. UNCHANGED accInfos
          <6>1. ~Goes(u, "report", "clearStatus")
            BY <4>3, GoesPc DEF Typed
          <6> QED  BY <3>4, <6>1 DEF Report
        <5> QED  BY <1>2, <3>1, <4>2, <4>3, <5>1 DEF Entry, Used, Unregistering
      <4>4. CASE thr'[u].pc = "clearStatus"
        <5>1. accInfos'[p] = [Entry(u) EXCEPT !.accountId = NoAccount]
          <6>1. ~Goes(u, "report", "free")
            BY <4>4, GoesPc DEF Typed
          <6> QED  BY <1>2, <3>4, <6>1 DEF Report, Writes
        <5>2. accInfos'[p].accountId = NoAccount
          BY <1>2, <5>1 DEF AccInfo
        <5> QED  BY <1>1, <4>4, <5>2 DEF Entry, Unregisters
      <4> QED  BY <4>1, <4>3, <4>4
    <3>5. CASE ClearStatus(u)
      <4>1. accInfos'[p] = [Entry(u) EXCEPT !.isRegistered = FALSE,
                                  !.isRefreshed = FALSE, !.regId = NoRegId]
        BY <1>2, <3>5 DEF ClearStatus, Writes
      <4>2. thr[u].pc = "clearStatus" /\ thr'[u].pc = "clearFlags"
        BY <3>5 DEF ClearStatus, Goes, Typed, TypeOK
      <4>3. Entry(u).accountId = NoAccount
        BY <4>2 DEF Unregisters
      <4>4. /\ accInfos'[p].accountId = NoAccount /\ accInfos'[p].regId = NoRegId
            /\ ~accInfos'[p].isRegistered /\ ~accInfos'[p].isRefreshed
        BY <1>2, <4>1, <4>3 DEF AccInfo
      <4> QED  BY <1>1, <4>2, <4>4 DEF Entry, Unregisters
    <3>6. CASE ClearFlags(u)
      <4>1. accInfos'[p] = [Cleared EXCEPT !.accountId = Entry(u).accountId,
                                           !.isRegistered = Entry(u).isRegistered,
                                           !.isRefreshed = Entry(u).isRefreshed,
                                           !.regId = Entry(u).regId]
        BY <1>2, <3>6 DEF ClearFlags, Writes
      <4>2. thr[u].pc = "clearFlags" /\ thr'[u].pc = "free"
        BY <3>6 DEF ClearFlags, Goes, Typed, TypeOK, NoThread
      <4>3. /\ Entry(u).accountId = NoAccount /\ Entry(u).regId = NoRegId
            /\ ~Entry(u).isRegistered /\ ~Entry(u).isRefreshed
        BY <4>2 DEF Unregisters
      <4>4. accInfos'[p].accountId = NoAccount /\ Clean(accInfos'[p])
        BY <4>1, <4>3 DEF Cleared, Clean
      <4> QED  BY <4>2, <4>4 DEF Unregistering
    <3> QED  BY <1>7, <3>2, <3>3, <3>4, <3>5, <3>6
  <2>9. Abandoned'
    <3> SUFFICES ASSUME NEW q \in Pos
                 PROVE  /\ Used(q)' /\ ~Kept(q)' => accInfos'[q].isShutdown
                        /\ ~Used(q)' /\ ~Cleaning(q)' => Clean(accInfos'[q])
      BY DEF Abandoned
    <3>1. CASE q = p
      <4>1. thr'[u].pc \in {"clearStatus", "clearFlags"} => Cleaning(q)'
        BY <1>1, <3>1 DEF Cleaning
      <4> QED  BY <2>8, <3>1, <4>1 DEF Used
    <3>2. CASE q # p
      BY <1>1, <1>5, <2>7, <3>2 DEF Abandoned, Used
    <3> QED  BY <3>1, <3>2
  <2>10. Unregisters'
    <3> SUFFICES ASSUME NEW v \in Thread, thr'[v].pc \in Unregistering
                 PROVE  Unregisters!(v)'
      BY DEF Unregisters, Unregistering
    <3>1. CASE v = u
      BY <2>8, <3>1
    <3>2. CASE v # u
      <4>1. thr'[v] = thr[v] /\ Entry(v)' = Entry(v)
        BY <1>1, <2>4, <3>2
      <4> QED  BY <1>5, <4>1 DEF Unregisters
    <3> QED  BY <3>1, <3>2
  <2> QED  BY <1>3, <1>4, <2>4, <2>5, <2>6, <2>9, <2>10
<1> QED  BY <1>6, <1>7 DEF Undoing

LEMMA EndingDivides ==
  ASSUME RegistrarAssumption, Typed, Division, Waits, NEW t \in Thread, Ending(t)
  PROVE  Division'
<1> USE DEF Division
<1> DEFINE p == thr[t].pos
<1>1. /\ thr[t].pc \in Registering /\ thr'[t].pc = "free"
      /\ \A u \in Thread : u # t => thr'[u] = thr[u]
      /\ \A q \in Pos : q # p => accInfos'[q] = accInfos[q]
  BY EndingTyped
<1>2. /\ \A u \in Thread : thr[u].pos \in Pos
      /\ Entry(t) \in AccInfo
  BY DEF Typed, TypeOK, Entry
<1>3. \A u \in Thread : thr'[u].pc \in Registering \cup Unregistering
                        => u # t /\ thr'[u] = thr[u]
  BY <1>1, PlacesDiffer DEF Outside
<1>4. \A u \in Thread : u # t /\ thr[u].pc \in Registering => thr[u].pos # p
  BY <1>1 DEF Keepers
<1>5. Kept(p) /\ Used(p)
  <2>1. Kept(p)
    BY <1>1 DEF Kept, Keeps
  <2> QED  BY <1>2, <2>1, KeptIsUsed
<1>6. \A q : Kept(q)' <=> Kept(q) /\ q # p
  <2>1. \A q : Kept(q)' => Kept(q) /\ q # p
    BY <1>3, <1>4 DEF Kept, Keeps
  <2>2. \A q : q # p /\ Kept(q) => Kept(q)'
    BY <1>1 DEF Kept, Keeps
  <2> QED  BY <2>1, <2>2
<1>7. \/ /\ thr[t].pc = "stop" /\ Entry(t).waitingOn = {}
         /\ accInfos'[p].accountId = Entry(t).accountId
         /\ accInfos'[p].waitingOn = {} /\ accInfos'[p].isShutdown
      \/ /\ accInfos'[p].accountId = NoAccount
         /\ accInfos'[p].waitingOn = {} /\ Clean(accInfos'[p])
  <2>1. CASE thr[t].pc = "stop"
    <3>1. accInfos'[p] = [Entry(t) EXCEPT !.isShutdown = TRUE]
      BY <2>1, EndingTyped
    <3>2. Entry(t).waitingOn = {}
      BY <2>1 DEF Waits, Settled
    <3> QED  BY <1>2, <2>1, <3>1, <3>2 DEF AccInfo
  <2>2. CASE thr[t].pc # "stop"
    <3>1. accInfos'[p] = Cleared
      BY <2>2, EndingTyped
    <3> QED  BY <3>1 DEF Cleared, Clean
  <2> QED  BY <2>1, <2>2
<1>8. Keepers'
  BY <1>1, <1>2, <1>3, <1>4 DEF Keepers, Keeper, Entry
<1>9. Parted'
  <2>1. \A q : Kept(q)' => Kept(q)
    BY <1>6
  <2> QED  BY <1>3, <2>1 DEF Parted
<1>10. Abandoned'
  <2> SUFFICES ASSUME NEW q \in Pos
               PROVE  /\ Used(q)' /\ ~Kept(q)' => accInfos'[q].isShutdown
                      /\ ~Used(q)' /\ ~Cleaning(q)' => Clean(accInfos'[q])
    BY DEF Abandoned
  <2>1. CASE q = p
    BY <1>5, <1>7, <2>1 DEF Used, Entry
  <2>2. CASE q # p
    <3>1. Cleaning(q) => Cleaning(q)'
      BY <1>1 DEF Cleaning, Registering
    <3> QED  BY <1>1, <1>6, <2>2, <3>1 DEF Abandoned, Used
  <2> QED  BY <2>1, <2>2
<1>11. Unregisters'
  <2> SUFFICES ASSUME NEW u \in Thread, thr'[u].pc \in Unregistering
               PROVE  Unregisters!(u)'
    BY DEF Unregisters, Unregistering
  <2>1. u # t /\ thr'[u] = thr[u] /\ thr[u].pc \in Unregistering
    BY <1>3
  <2>2. CASE thr[u].pos # p
    <3>1. Entry(u)' = Entry(u)
      BY <1>1, <1>2, <2>1, <2>2 DEF Entry
    <3> QED  BY <1>6, <2>1, <2>2, <3>1 DEF Unregisters
  <2>3. CASE thr[u].pos = p
    <3>1. thr[u].pc = "waitStop"
      BY <1>5, <2>1, <2>3 DEF Parted
    <3>2. Entry(u).accountId \in {thr[u].acc, NoAccount}
      BY <3>1 DEF Unregisters
    <3>3. /\ Entry(u)'.accountId \in {thr[u].acc, NoAccount}
          /\ Entry(u)'.waitingOn = {}
      BY <1>7, <2>1, <2>3, <3>2 DEF Entry
    <3> QED  BY <2>1, <3>1, <3>3 DEF Unregisters
  <2> QED  BY <2>2, <2>3
<1> QED  BY <1>8, <1>9, <1>10, <1>11

\* An entry that is taken while nobody works on it is a clean one.
LEMMA TakenFields ==
  ASSUME RegistrarAssumption, Typed, Division, ~shared',
         NEW t \in Thread, NEW p \in Pos, NEW r \in RegId, Takes(t, p, r)
  PROVE  /\ ~Kept(p) /\ \A u \in Thread : ~WorksOn(u, p)
         /\ accInfos'[p].accountId = thr[t].acc /\ accInfos'[p].regId = r
         /\ accInfos'[p].waitingOn = {"reg"} /\ ~accInfos'[p].isShutdown
         /\ ~accInfos'[p].isRegistered /\ ~accInfos'[p].isRefreshed
         /\ ~accInfos'[p].eventArrived
<1>1. ~Kept(p)
  BY KeptIsUsed DEF Takes, Division
<1>2. \A u \in Thread : ~WorksOn(u, p)
  BY DEF Takes
<1>3. Clean(accInfos[p])
  <2>1. ~Cleaning(p)
    BY <1>2 DEF Cleaning, WorksOn, Unregistering
  <2> QED  BY <2>1 DEF Division, Abandoned, Takes
<1>4. accInfos[p] \in AccInfo
  BY DEF Typed, TypeOK
<1> DEFINE e == [[[[accInfos[p] EXCEPT !.accountId = thr[t].acc]
                                EXCEPT !.isRegistered = FALSE]
                                EXCEPT !.regId = r]
                                EXCEPT !.waitingOn = @ \cup {"reg"}]
<1>5. /\ e.accountId = thr[t].acc /\ e.regId = r
      /\ e.waitingOn = {"reg"} /\ ~e.isShutdown
      /\ ~e.isRegistered /\ ~e.isRefreshed /\ ~e.eventArrived
  BY <1>3, <1>4 DEF AccInfo, Clean
<1>6. accInfos'[p] = e
  BY DEF Takes
<1> HIDE DEF e
<1> QED  BY <1>1, <1>2, <1>5, <1>6

LEMMA RegisterDivides ==
  ASSUME RegistrarAssumption, Typed, Division, ~shared',
         NEW t \in Thread, NEW p \in Pos, NEW r \in RegId, Takes(t, p, r)
  PROVE  Division'
<1> USE DEF Division
<1>1. /\ ~Kept(p) /\ \A u \in Thread : ~WorksOn(u, p)
      /\ accInfos'[p].accountId = thr[t].acc /\ accInfos'[p].regId = r
      /\ ~accInfos'[p].isShutdown
  BY TakenFields
<1>2. /\ thr[t].pc = "register" /\ thr'[t].pc = "waitReg"
      /\ thr'[t].acc = thr[t].acc /\ thr'[t].pos = p /\ thr'[t].regId = r
      /\ \A u \in Thread : u # t => thr'[u] = thr[u]
      /\ \A q \in Pos : q # p => accInfos'[q] = accInfos[q]
      /\ \A q \in Pos : accInfos[q].accountId # thr[t].acc
  BY DEF Takes
<1>3. \A u \in Thread : thr[u].pos \in Pos
  BY DEF Typed, TypeOK
<1>4. \A u \in Thread : u # t /\ thr[u].pc \in Registering \cup Unregistering
        => thr'[u] = thr[u] /\ thr[u].pos # p /\ Entry(u)' = Entry(u)
  BY <1>1, <1>2, <1>3 DEF Kept, Keeps, WorksOn, Entry
<1>5. thr[t].pc \notin Registering \cup Unregistering
      /\ thr'[t].pc \in Registering /\ thr'[t].pc \notin Unregistering
  BY <1>2 DEF Registering, Unregistering
<1>6. Keepers'
  <2>1. Keeper(t)'
    BY <1>1, <1>2 DEF Keeper, Entry
  <2>2. ASSUME NEW u \in Thread, u # t, thr'[u].pc \in Registering
        PROVE  Keeper(u)' /\ thr'[u].acc # thr'[t].acc /\ thr'[u].pos # thr'[t].pos
    <3>1. /\ thr'[u] = thr[u] /\ thr[u].pc \in Registering
          /\ thr[u].pos # p /\ Entry(u)' = Entry(u)
      BY <1>2, <1>4, <2>2
    <3>2. Keeper(u)
      BY <3>1 DEF Keepers
    <3>3. thr[u].acc # thr[t].acc
      BY <1>2, <1>3, <3>2 DEF Keeper, Entry
    <3> QED  BY <1>2, <3>1, <3>2, <3>3 DEF Keeper
  <2>3. \A u \in Thread : u # t => thr'[u] = thr[u]
    BY <1>2
  <2> QED  BY <2>1, <2>2, <2>3 DEF Keepers
<1>7. \A q : q # p => (Kept(q)' <=> Kept(q))
  BY <1>2, <1>5 DEF Kept, Keeps
<1>8. Kept(p)'
  BY <1>2, <1>5 DEF Kept, Keeps
<1>9. Parted'
  <2>1. \A u \in Thread : thr'[u].pc \in Unregistering
          => /\ u # t /\ thr'[u] = thr[u] /\ thr[u].pc \in Unregistering
             /\ thr[u].pos # p
    BY <1>2, <1>4, <1>5
  <2> QED  BY <1>7, <2>1 DEF Parted
<1>10. \A q : Cleaning(q) => Cleaning(q)'
  BY <1>2 DEF Cleaning
<1>11. Abandoned'
  <2> SUFFICES ASSUME NEW q \in Pos
               PROVE  /\ Used(q)' /\ ~Kept(q)' => accInfos'[q].isShutdown
                      /\ ~Used(q)' /\ ~Cleaning(q)' => Clean(accInfos'[q])
    BY DEF Abandoned
  <2>1. CASE q = p
    <3>1. Used(p)'
      <4>1. thr[t].acc \in Account
        BY <1>2 DEF Typed, Serves
      <4> QED  BY <1>1, <4>1 DEF Used, RegistrarAssumption
    <3> QED  BY <1>8, <2>1, <3>1
  <2>2. CASE q # p
    BY <1>2, <1>7, <1>10, <2>2 DEF Abandoned, Used
  <2> QED  BY <2>1, <2>2
<1>12. Unregisters'
  <2> SUFFICES ASSUME NEW u \in Thread, thr'[u].pc \in Unregistering
               PROVE  Unregisters!(u)'
    BY DEF Unregisters, Unregistering
  <2>1. u # t /\ thr'[u] = thr[u] /\ thr[u].pos # p /\ Entry(u)' = Entry(u)
    BY <1>2, <1>4, <1>5
  <2> QED  BY <1>7, <2>1 DEF Unregisters
<1> QED  BY <1>6, <1>9, <1>11, <1>12

LEMMA FindsDivides ==
  ASSUME RegistrarAssumption, Typed, Division, ~shared',
         NEW u \in Thread, NEW p \in Pos, Finds(u, p)
  PROVE  /\ Division'
         /\ \A t \in Thread : thr[t].pc \in Registering =>
              /\ thr'[t] = thr[t]
              /\ \E b \in BOOLEAN : Entry(t)' = [Entry(t) EXCEPT !.doShutdown = b]
<1> USE DEF Division
<1>1. /\ thr[u].pc = "unregister" /\ thr'[u].pc = "waitStop"
      /\ thr'[u].acc = thr[u].acc /\ thr'[u].pos = p
      /\ \A t \in Thread : t # u => thr'[t] = thr[t]
      /\ accInfos[p].accountId = thr[u].acc /\ ~accInfos[p].isShutdown
      /\ accInfos'[p] = [accInfos[p] EXCEPT !.doShutdown = TRUE]
      /\ \A q \in Pos : q # p => accInfos'[q] = accInfos[q]
      /\ \A v \in Thread : ~WorksOn(v, p)
  BY DEF Finds
<1>2. /\ \A t \in Thread : thr[t].pos \in Pos
      /\ accInfos \in [Pos -> AccInfo] /\ thr[u].acc \in Account
  BY <1>1 DEF Typed, TypeOK, Serves
<1>3. \A q \in Pos : \E b \in BOOLEAN : accInfos'[q] = [accInfos[q] EXCEPT !.doShutdown = b]
  <2> TAKE q \in Pos
  <2>1. CASE q = p
    BY <1>1, <2>1
  <2>2. CASE q # p
    <3>1. accInfos[q] \in AccInfo
      BY <1>2
    <3>2. accInfos[q] = [accInfos[q] EXCEPT !.doShutdown = accInfos[q].doShutdown]
          /\ accInfos[q].doShutdown \in BOOLEAN
      BY <3>1 DEF AccInfo
    <3>3. accInfos'[q] = accInfos[q]
      BY <1>1, <2>2
    <3> QED  BY <3>2, <3>3
  <2> QED  BY <2>1, <2>2
<1>4. \A q \in Pos : /\ accInfos'[q].accountId = accInfos[q].accountId
                     /\ accInfos'[q].regId = accInfos[q].regId
                     /\ accInfos'[q].isShutdown = accInfos[q].isShutdown
                     /\ accInfos'[q].waitingOn = accInfos[q].waitingOn
                     /\ accInfos'[q].isRegistered = accInfos[q].isRegistered
                     /\ accInfos'[q].isRefreshed = accInfos[q].isRefreshed
                     /\ accInfos'[q].eventArrived = accInfos[q].eventArrived
  <2> TAKE q \in Pos
  <2>1. accInfos[q] \in AccInfo
    BY <1>2
  <2> QED  BY <1>3, <2>1 DEF AccInfo
<1>5. /\ thr[u].pc \notin Registering \cup Unregistering
      /\ thr'[u].pc \in Unregistering \ Registering
  BY <1>1 DEF Registering, Unregistering
<1>6. \A t \in Thread : thr[t].pc \in Registering \cup Unregistering
                        => t # u /\ thr'[t] = thr[t]
  BY <1>1, <1>5
<1>7. \A t \in Thread : thr'[t].pc \in Registering => t # u /\ thr'[t] = thr[t]
  BY <1>1, <1>5
<1>8. \A q : Kept(q)' <=> Kept(q)
  BY <1>6, <1>7 DEF Kept, Keeps
<1>9. Kept(p)
  BY <1>1, <1>2 DEF Abandoned, Used, RegistrarAssumption
<1>10. Keepers'
  BY <1>2, <1>4, <1>7 DEF Keepers, Keeper, Entry
<1>11. Parted'
  <2>1. ASSUME NEW v \in Thread, v # u, thr'[v].pc \in Unregistering
        PROVE  /\ thr'[v] = thr[v] /\ thr[v].pc \in Unregistering /\ thr[v].pos # p
    BY <1>1, <2>1 DEF WorksOn
  <2> QED  BY <1>1, <1>8, <2>1 DEF Parted
<1>12. \A q : Cleaning(q) => Cleaning(q)'
  BY <1>1 DEF Cleaning
<1>13. Abandoned'
  BY <1>4, <1>8, <1>12 DEF Abandoned, Used, Clean
<1>14. Unregisters'
  <2> SUFFICES ASSUME NEW v \in Thread, thr'[v].pc \in Unregistering
               PROVE  Unregisters!(v)'
    BY DEF Unregisters, Unregistering
  <2>1. CASE v = u
    <3>1. Entry(v)'.accountId = thr'[v].acc /\ Kept(thr[v].pos)' = Kept(thr[v].pos)'
      BY <1>1, <1>4, <2>1 DEF Entry
    <3>2. thr'[v].pos = p /\ thr'[v].pc = "waitStop"
      BY <1>1, <2>1
    <3>3. Kept(p)'
      BY <1>8, <1>9
    <3> QED  BY <3>1, <3>2, <3>3 DEF Unregisters, Kept, Keeps
  <2>2. CASE v # u
    <3>1. thr'[v] = thr[v]
      BY <1>1, <2>2
    <3>2. /\ Entry(v)'.accountId = Entry(v).accountId
          /\ Entry(v)'.regId = Entry(v).regId
          /\ Entry(v)'.waitingOn = Entry(v).waitingOn
          /\ Entry(v)'.isRegistered = Entry(v).isRegistered
          /\ Entry(v)'.isRefreshed = Entry(v).isRefreshed
      BY <1>2, <1>4, <3>1 DEF Entry
    <3> QED  BY <1>8, <3>1, <3>2 DEF Unregisters
  <2> QED  BY <2>1, <2>2
<1>15. \A t \in Thread : thr[t].pc \in Registering =>
         /\ thr'[t] = thr[t]
         /\ \E b \in BOOLEAN : Entry(t)' = [Entry(t) EXCEPT !.doShutdown = b]
  BY <1>2, <1>3, <1>6 DEF Entry
<1> QED  BY <1>10, <1>11, <1>13, <1>14, <1>15

\* What answers look at in an entry.
Same(e, d) ==
  /\ e.accountId = d.accountId /\ e.regId = d.regId
  /\ e.isShutdown = d.isShutdown /\ e.waitingOn = d.waitingOn
  /\ e.isRegistered = d.isRegistered /\ e.isRefreshed = d.isRefreshed
  /\ e.eventArrived = d.eventArrived

LEMMA AsideDivides ==
  ASSUME RegistrarAssumption, Typed, Division, AsideEffect
  PROVE  /\ Division'
         /\ \A t \in Thread : thr[t].pc \in Registering =>
              thr'[t] = thr[t] /\ Same(Entry(t)', Entry(t))
         /\ \A t \in Thread : thr'[t].pc \in Registering => thr'[t] = thr[t]
<1> USE DEF Division
<1>1. \A t \in Thread : thr[t].pc \in Registering \cup Unregistering
                        => thr'[t] = thr[t]
  BY PlacesDiffer DEF AsideEffect
<1>2. \A t \in Thread : thr'[t].pc \in Registering \cup Unregistering
                        => thr'[t] = thr[t]
  BY PlacesDiffer DEF AsideEffect
<1>3. /\ \A t \in Thread : thr[t].pos \in Pos
      /\ accInfos \in [Pos -> AccInfo]
  BY DEF Typed, TypeOK
<1>4. ASSUME NEW q \in Pos
      PROVE  /\ accInfos'[q].accountId = accInfos[q].accountId
             /\ \/ Same(accInfos'[q], accInfos[q])
                \/ /\ ~Used(q) /\ Clean(accInfos'[q])
  <2>1. CASE accInfos'[q] = accInfos[q]
    BY <2>1 DEF Same
  <2>2. CASE accInfos'[q] = [accInfos[q] EXCEPT !.informGui = FALSE]
    <3>1. accInfos[q] \in AccInfo
      BY <1>3
    <3> QED  BY <2>2, <3>1 DEF Same, AccInfo
  <2>3. CASE ~Used(q) /\ accInfos'[q] = Cleared
    BY <2>3 DEF Cleared, Clean, Used
  <2> QED  BY <2>1, <2>2, <2>3 DEF AsideEffect
<1>5. \A q : Kept(q)' <=> Kept(q)
  BY <1>1, <1>2 DEF Kept, Keeps
<1>6. \A q : Cleaning(q) => Cleaning(q)'
  BY <1>1 DEF Cleaning, Unregistering
<1>7. \A t \in Thread : thr[t].pc \in Registering =>
        thr'[t] = thr[t] /\ Same(Entry(t)', Entry(t))
  <2> TAKE t \in Thread
  <2> HAVE thr[t].pc \in Registering
  <2>1. Kept(thr[t].pos)
    BY DEF Kept, Keeps
  <2>2. Used(thr[t].pos)
    BY <1>3, <2>1, KeptIsUsed
  <2> QED  BY <1>1, <1>3, <1>4, <2>2 DEF Entry
<1>8. Keepers'
  BY <1>2, <1>7 DEF Keepers, Keeper, Same
<1>9. Parted'
  BY <1>2, <1>5 DEF Parted
<1>10. Abandoned'
  <2> SUFFICES ASSUME NEW q \in Pos
               PROVE  /\ Used(q)' /\ ~Kept(q)' => accInfos'[q].isShutdown
                      /\ ~Used(q)' /\ ~Cleaning(q)' => Clean(accInfos'[q])
    BY DEF Abandoned
  <2>1. CASE Same(accInfos'[q], accInfos[q])
    <3>1. /\ Used(q) /\ ~Kept(q) => accInfos[q].isShutdown
          /\ ~Used(q) /\ ~Cleaning(q) => Clean(accInfos[q])
      BY DEF Abandoned
    <3> QED  BY <1>5, <1>6, <2>1, <3>1 DEF Used, Same, Clean
  <2>2. CASE ~Used(q) /\ Clean(accInfos'[q])
    BY <1>4, <2>2 DEF Used
  <2> QED  BY <1>4, <2>1, <2>2
<1>11. Unregisters'
  <2> SUFFICES ASSUME NEW u \in Thread, thr'[u].pc \in Unregistering
               PROVE  Unregisters!(u)'
    BY DEF Unregisters, Unregistering
  <2>1. thr'[u] = thr[u] /\ thr[u].pos \in Pos
    BY <1>2, <1>3
  <2>2. /\ Entry(u)'.accountId = Entry(u).accountId
        /\ \/ Same(Entry(u)', Entry(u))
           \/ Entry(u).accountId = NoAccount /\ Clean(Entry(u)')
    BY <1>4, <2>1 DEF Entry, Used
  <2>3. CASE Same(Entry(u)', Entry(u))
    BY <1>5, <2>1, <2>3 DEF Unregisters, Same
  <2>4. CASE Entry(u).accountId = NoAccount /\ Clean(Entry(u)')
    <3>1. Entry(u)'.accountId = NoAccount
      BY <2>2, <2>4
    <3>2. thr[u].acc # NoAccount
      BY <2>1 DEF Typed, Serves, RegistrarAssumption, Unregistering
    <3>3. thr[u].pc \notin {"ask", "waitUnreg", "report"}
      BY <2>4, <3>2 DEF Unregisters
    <3> QED  BY <2>1, <2>4, <3>1, <3>3 DEF Clean
  <2> QED  BY <2>2, <2>3, <2>4
<1> QED  BY <1>2, <1>7, <1>8, <1>9, <1>10, <1>11

LEMMA AnswerDivides ==
  ASSUME RegistrarAssumption, Typed, Division, NEW q, NEW success \in BOOLEAN,
         AnswerEffect(q, success)
  PROVE  Division'
<1> USE DEF Division
<1>1. thr' = thr /\ accInfos \in [Pos -> AccInfo]
      /\ \A t \in Thread : thr[t].pos \in Pos
  BY DEF AnswerEffect, Typed, TypeOK
<1>2. ASSUME NEW p \in Pos
      PROVE  /\ accInfos'[p].accountId = accInfos[p].accountId
             /\ accInfos'[p].regId = accInfos[p].regId
             /\ accInfos'[p].isShutdown = accInfos[p].isShutdown
             /\ accInfos'[p].waitingOn = accInfos[p].waitingOn
             /\ accInfos[p].regId = NoRegId => accInfos'[p] = accInfos[p]
  <2>1. CASE accInfos'[p] = accInfos[p]
    BY <2>1
  <2>2. CASE /\ accInfos[p].regId = q[1]
             /\ accInfos'[p] = [Judged(accInfos[p], success) EXCEPT !.eventArrived = TRUE]
    <3>1. q[1] # NoRegId
      BY DEF AnswerEffect, RegId, NoRegId
    <3>2. accInfos[p] \in AccInfo
      BY <1>1
    <3> QED  BY <2>2, <3>1, <3>2, JudgedFields
  <2> QED  BY <2>1, <2>2 DEF AnswerEffect
<1>3. (\A p : Kept(p)' <=> Kept(p)) /\ (\A p : Cleaning(p)' <=> Cleaning(p))
  BY <1>1 DEF Kept, Keeps, Cleaning
<1>4. Keepers'
  BY <1>1, <1>2 DEF Keepers, Keeper, Entry
<1>5. Parted'
  BY <1>1, <1>3 DEF Parted
<1>6. Abandoned'
  BY <1>2, <1>3 DEF Abandoned, Used, Clean
<1>7. Unregisters'
  <2> SUFFICES ASSUME NEW u \in Thread
               PROVE  Unregisters!(u)'
    BY DEF Unregisters
  <2>1. /\ thr'[u] = thr[u] /\ Entry(u)'.accountId = Entry(u).accountId
        /\ Entry(u)'.regId = Entry(u).regId
        /\ Entry(u)'.waitingOn = Entry(u).waitingOn
        /\ Entry(u).regId = NoRegId => Entry(u)' = Entry(u)
    BY <1>1, <1>2 DEF Entry
  <2> QED  BY <1>3, <2>1 DEF Unregisters
<1> QED  BY <1>4, <1>5, <1>6, <1>7

-----------------------------------------------------------------------------
(* Answers.  A registration thread that does nothing keeps its knowledge of *)
(* its entry and of the answers on their way, as long as nobody else        *)
(* touches them.                                                            *)

Left(t) ==
  /\ thr'[t] = thr[t] /\ Same(Entry(t)', Entry(t))
  /\ Asks(thr[t].regId)' \subseteq Asks(thr[t].regId)
  /\ thr[t].regId \in granted => thr[t].regId \in granted'

LEMMA LeftAlone ==
  ASSUME NEW t \in Thread, Left(t)
  PROVE  /\ Waits!(t) => Waits!(t)'
         /\ Requests!(t) => Requests!(t)'
         /\ Arrivals!(t) => Arrivals!(t)'
<1> DEFINE r == thr[t].regId
<1>1. thr'[t] = thr[t] /\ Asks(r)' \subseteq Asks(r)
  BY DEF Left, Asks
<1>2. Waits!(t) => Waits!(t)'
  BY <1>1 DEF Left, Same
<1>3. Requests!(t) => Requests!(t)'
  BY <1>1 DEF Left, Same
<1>4. Arrivals!(t) => Arrivals!(t)'
  BY <1>1 DEF Left, Same
<1> QED  BY <1>2, <1>3, <1>4

\* When the other registration threads are left alone it is enough to look at
\* one of them.
LEMMA OneAnswers ==
  ASSUME Answers, NEW t \in Thread,
         \A u \in Thread : u # t /\ thr'[u].pc \in Registering
                           => thr[u].pc \in Registering /\ Left(u),
         Waits!(t)', Requests!(t)'
  PROVE  Answers' /\ (Arrivals /\ Arrivals!(t)' => Arrivals')
<1>1. ASSUME NEW u \in Thread, thr'[u].pc \notin Registering
      PROVE  Waits!(u)' /\ Requests!(u)' /\ Arrivals!(u)'
  BY <1>1 DEF Registering, First, Settled, Renewing
<1>2. ASSUME NEW u \in Thread, u # t
      PROVE  Waits!(u)' /\ Requests!(u)' /\ (Arrivals => Arrivals!(u)')
  <2>1. CASE thr'[u].pc \in Registering
    <3>1. Left(u)
      BY <1>2, <2>1
    <3>2. Waits!(u) /\ Requests!(u) /\ (Arrivals => Arrivals!(u))
      BY DEF Answers, Waits, Requests, Arrivals
    <3> QED  BY <3>1, <3>2, LeftAlone
  <2>2. CASE thr'[u].pc \notin Registering
    BY <1>1, <2>2
  <2> QED  BY <2>1, <2>2
<1>3. Waits' /\ Requests'
  BY <1>2 DEF Waits, Requests
<1>4. ASSUME Arrivals, Arrivals!(t)'
      PROVE  Arrivals'
  BY <1>2, <1>4 DEF Arrivals
<1> QED  BY <1>3, <1>4 DEF Answers

\* The registration threads that do not act keep their entries to themselves.
LEMMA OthersLeft ==
  ASSUME RegistrarAssumption, Typed, Keepers, NEW t \in Thread, NEW r \in RegId,
         thr[t].pc \in Registering => r = thr[t].regId,
         \A u \in Thread : u # t => thr'[u] = thr[u],
         \A u \in Thread : u # t /\ thr[u].pc \in Registering
                           => thr[u].regId # r /\ Same(Entry(u)', Entry(u)),
         pending' \in {pending, pending \cup {<<r, "reg">>},
                       pending \cup {<<r, "refresh">>}, pending \cup {<<r, "unreg">>}},
         granted \subseteq granted' \cup {r}
  PROVE  \A u \in Thread : u # t /\ thr'[u].pc \in Registering
                           => thr[u].pc \in Registering /\ Left(u)
<1> SUFFICES ASSUME NEW u \in Thread, u # t, thr'[u].pc \in Registering
             PROVE  thr[u].pc \in Registering /\ Left(u)
  OBVIOUS
<1>1. /\ thr'[u] = thr[u] /\ thr[u].pc \in Registering
      /\ thr[u].regId # r /\ Same(Entry(u)', Entry(u))
  OBVIOUS
<1>2. \A q \in pending' : q[1] = thr[u].regId => q \in pending
  BY <1>1
<1>3. Asks(thr[u].regId)' \subseteq Asks(thr[u].regId)
  BY <1>1, <1>2 DEF Asks
<1> QED  BY <1>1, <1>3 DEF Left

LEMMA IdsOfKeepersDiffer ==
  ASSUME Typed, Keepers, NEW t \in Thread, NEW u \in Thread, t # u,
         thr[t].pc \in Registering, thr[u].pc \in Registering
  PROVE  thr[t].regId # thr[u].regId
<1>1. /\ thr[t].pos \in Pos /\ thr[u].pos \in Pos /\ thr[t].pos # thr[u].pos
      /\ Entry(t).regId = thr[t].regId /\ Entry(u).regId = thr[u].regId
  BY DEF Typed, TypeOK, Keepers, Keeper
<1>2. thr[t].regId # NoRegId
  BY DEF Typed, Serves, RegId, NoRegId
<1> QED  BY <1>1, <1>2 DEF Typed, RegIdsDiffer, Entry

\* A step of t leaves the other registration threads alone, if it only writes
\* to its own entry and sends requests with its own id.
LEMMA KeepingLeaves ==
  ASSUME RegistrarAssumption, Typed, Keepers, NEW t \in Thread, Keeping(t)
  PROVE  \A u \in Thread : u # t /\ thr'[u].pc \in Registering
                           => thr[u].pc \in Registering /\ Left(u)
<1>1. /\ thr[t].pc \in Registering /\ thr[t].regId \in RegId
      /\ \A u \in Thread : u # t => thr'[u] = thr[u]
      /\ \A p \in Pos : p # thr[t].pos => accInfos'[p] = accInfos[p]
      /\ UNCHANGED history
  BY KeepingTyped DEF Typed, Serves
<1>2. pending' \in {pending, pending \cup {<<thr[t].regId, "refresh">>}}
  BY DEF Keeping, WaitReg, ClearReg, JudgeReg, Sleep, Wake, SendRefresh,
         WaitRefresh, JudgeRefresh, Stop
<1>3. \A u \in Thread : u # t /\ thr[u].pc \in Registering
        => thr[u].regId # thr[t].regId
  BY <1>1, IdsOfKeepersDiffer
<1>4. \A u \in Thread : u # t /\ thr[u].pc \in Registering
        => Same(Entry(u)', Entry(u))
  <2> SUFFICES ASSUME NEW u \in Thread, u # t, thr[u].pc \in Registering
               PROVE  Entry(u)' = Entry(u)
    BY DEF Same
  <2>1. thr[u].pos \in Pos /\ thr[u].pos # thr[t].pos
    BY <1>1 DEF Keepers, Typed, TypeOK
  <2> QED  BY <1>1, <2>1 DEF Entry
<1>5. granted \subseteq granted' \cup {thr[t].regId}
  BY <1>1 DEF history
<1> QED  BY <1>1, <1>2, <1>3, <1>4, <1>5, OthersLeft

LEMMA KeepingAnswers ==
  ASSUME RegistrarAssumption, Typed, Keepers, Answers, NEW t \in Thread, Keeping(t)
  PROVE  Answers' /\ (Arrivals => Arrivals')
<1> DEFINE r == thr[t].regId
<1>1. /\ thr[t].pc \in Registering /\ r \in RegId
      /\ thr'[t].pos = thr[t].pos /\ thr'[t].regId = r
      /\ UNCHANGED history
  BY KeepingTyped DEF Typed, Serves
<1>2. /\ Entry(t) \in AccInfo /\ thr[t].pos \in Pos
      /\ accInfos \in [Pos -> AccInfo]
  BY DEF Typed, TypeOK, Entry
<1>3. /\ Waits!(t) /\ Requests!(t) /\ (Arrivals => Arrivals!(t))
  BY DEF Answers, Waits, Requests, Arrivals
<1>4. Asks(thr[t].regId)' = {q \in pending' : q[1] = r}
  BY <1>1 DEF Asks
<1>5. \A e \in AccInfo : Writes(t, e) => Entry(t)' = e
  BY <1>1, <1>2 DEF Writes, Entry
<1>6. UNCHANGED pending => Asks(thr[t].regId)' = Asks(r)
  BY <1>4 DEF Asks
<1>7. UNCHANGED accInfos => Entry(t)' = Entry(t)
  BY <1>1 DEF Entry
<1> SUFFICES Waits!(t)' /\ Requests!(t)' /\ (Arrivals => Arrivals!(t)')
  BY KeepingLeaves, OneAnswers
<1>8. ASSUME NEW from, NEW to, Goes(t, from, to)
      PROVE  thr[t].pc = from /\ thr'[t].pc = to
  BY <1>8, GoesPc DEF Typed
<1> HIDE DEF r
<1>9. CASE WaitReg(t)
  <2> DEFINE e == [Entry(t) EXCEPT !.eventArrived = FALSE]
  <2>1. /\ e \in AccInfo /\ e.waitingOn = Entry(t).waitingOn /\ ~e.eventArrived
        /\ e.isRegistered = Entry(t).isRegistered
        /\ e.isRefreshed = Entry(t).isRefreshed
    BY <1>2 DEF AccInfo
  <2> HIDE DEF e
  <2>2. Entry(t)' = e
    BY <1>5, <1>9, <2>1 DEF WaitReg, e
  <2>3. thr[t].pc = "waitReg" /\ thr'[t].pc = "clearReg"
    BY <1>8, <1>9 DEF WaitReg
  <2>4. UNCHANGED pending
    BY <1>9 DEF WaitReg
  <2> QED
    BY <1>1, <1>3, <1>6, <2>1, <2>2, <2>3, <2>4 DEF First, Settled, Renewing, history, r
<1>10. CASE ClearReg(t)
  <2> DEFINE e == [Entry(t) EXCEPT !.waitingOn = @ \ {"reg"}]
  <2>1. /\ e \in AccInfo /\ e.waitingOn = Entry(t).waitingOn \ {"reg"}
        /\ e.eventArrived = Entry(t).eventArrived
        /\ e.isRegistered = Entry(t).isRegistered
        /\ e.isRefreshed = Entry(t).isRefreshed
    BY <1>2 DEF AccInfo
  <2> HIDE DEF e
  <2>2. Entry(t)' = e
    BY <1>5, <1>10, <2>1 DEF ClearReg, e
  <2>3. thr[t].pc = "clearReg" /\ thr'[t].pc = "judgeReg"
    BY <1>8, <1>10 DEF ClearReg
  <2>4. UNCHANGED pending
    BY <1>10 DEF ClearReg
  <2> QED
    BY <1>1, <1>3, <1>6, <2>1, <2>2, <2>3, <2>4 DEF First, Settled, Renewing, history, r
<1>11. CASE JudgeReg(t)
  <2>1. /\ thr[t].pc = "judgeReg"
        /\ \/ thr'[t].pc = "keep" /\ Entry(t).isRegistered
           \/ thr'[t].pc = "leave"
    BY <1>8, <1>11 DEF JudgeReg
  <2>2. UNCHANGED pending /\ Entry(t)' = Entry(t)
    BY <1>7, <1>11 DEF JudgeReg
  <2> QED
    BY <1>3, <1>6, <2>1, <2>2 DEF First, Settled, Renewing, r
<1>12. CASE Sleep(t) \/ Wake(t)
  <2>1. thr[t].pc \in {"keep", "sleep"} /\ thr'[t].pc \in {"keep", "sleep"}
    BY <1>8, <1>12 DEF Sleep, Wake
  <2>2. UNCHANGED pending /\ Entry(t)' = Entry(t)
    BY <1>7, <1>12 DEF Sleep, Wake
  <2> QED
    BY <1>3, <1>6, <2>1, <2>2 DEF First, Settled, Renewing, r
<1>13. CASE SendRefresh(t)
  <2> DEFINE e == [Entry(t) EXCEPT !.waitingOn = @ \cup {"refresh"}]
  <2>1. /\ e \in AccInfo /\ e.waitingOn = Entry(t).waitingOn \cup {"refresh"}
        /\ e.eventArrived = Entry(t).eventArrived
        /\ e.isRefreshed = Entry(t).isRefreshed
    BY <1>2 DEF AccInfo, Purpose
  <2> HIDE DEF e
  <2>2. Entry(t)' = e
    BY <1>5, <1>13, <2>1 DEF SendRefresh, e
  <2>3. /\ thr[t].pc = "sleep"
        /\ \/ /\ thr'[t].pc = "waitRefresh"
              /\ pending' = pending \cup {<<r, "refresh">>}
           \/ thr'[t].pc = "leave"
    BY <1>8, <1>13 DEF SendRefresh, r
  <2>4. CASE thr'[t].pc = "leave"
    BY <2>4 DEF First, Settled, Renewing
  <2>5. CASE thr'[t].pc = "waitRefresh"
    <3>1. Asks(r) = {}
      BY <1>3, <2>3 DEF Settled, r
    <3>2. Asks(thr[t].regId)' \subseteq {<<r, "refresh">>}
      BY <1>4, <2>3, <2>5, <3>1 DEF Asks
    <3> QED
      BY <1>1, <1>3, <2>1, <2>2, <2>3, <2>5, <3>2 DEF First, Settled, Renewing
  <2> QED  BY <2>3, <2>4, <2>5
<1>14. CASE WaitRefresh(t)
  <2>1. thr[t].pc = "waitRefresh" /\ thr'[t].pc = "judgeRefresh"
    BY <1>8, <1>14 DEF WaitRefresh
  <2>2. UNCHANGED pending /\ Entry(t)' = Entry(t)
    BY <1>7, <1>14 DEF WaitRefresh
  <2> QED
    BY <1>1, <1>3, <1>6, <2>1, <2>2 DEF First, Settled, Renewing, r
<1>15. CASE JudgeRefresh(t)
  <2> DEFINE e == [Entry(t) EXCEPT !.isRefreshed = FALSE,
                                   !.eventArrived = FALSE,
                                   !.waitingOn = @ \ {"refresh"}]
  <2>1. /\ e \in AccInfo /\ e.waitingOn = Entry(t).waitingOn \ {"refresh"}
        /\ ~e.eventArrived /\ ~e.isRefreshed
    BY <1>2 DEF AccInfo
  <2> HIDE DEF e
  <2>2. /\ thr[t].pc = "judgeRefresh"
        /\ \/ thr'[t].pc = "keep" /\ Entry(t).isRefreshed /\ Writes(t, e)
           \/ thr'[t].pc = "leave"
    BY <1>8, <1>15 DEF JudgeRefresh, e
  <2>3. UNCHANGED pending
    BY <1>15 DEF JudgeRefresh
  <2>4. CASE thr'[t].pc = "leave"
    BY <2>4 DEF First, Settled, Renewing
  <2>5. CASE thr'[t].pc = "keep"
    <3>1. Entry(t)' = e /\ Entry(t).isRefreshed
      BY <1>5, <2>1, <2>2, <2>5
    <3> QED
      BY <1>3, <1>6, <2>1, <2>2, <2>3, <2>5, <3>1 DEF First, Settled, Renewing, r
  <2> QED  BY <2>2, <2>4, <2>5
<1>16. CASE Stop(t)
  <2> DEFINE e == [Entry(t) EXCEPT !.doShutdown = FALSE]
  <2>1. /\ e \in AccInfo /\ e.waitingOn = Entry(t).waitingOn
        /\ e.eventArrived = Entry(t).eventArrived
        /\ e.isRefreshed = Entry(t).isRefreshed
    BY <1>2 DEF AccInfo
  <2> HIDE DEF e
  <2>2. Entry(t)' = e
    BY <1>5, <1>16, <2>1 DEF Stop, e
  <2>3. thr[t].pc = "keep" /\ thr'[t].pc = "stop"
    BY <1>8, <1>16 DEF Stop
  <2>4. UNCHANGED pending
    BY <1>16 DEF Stop
  <2> QED
    BY <1>3, <1>6, <2>1, <2>2, <2>3, <2>4 DEF First, Settled, Renewing, r
<1> QED
  BY <1>9, <1>10, <1>11, <1>12, <1>13, <1>14, <1>15, <1>16 DEF Keeping

LEMMA AllAnswer ==
  ASSUME Answers,
         \A u \in Thread : thr'[u].pc \in Registering
                           => thr[u].pc \in Registering /\ Left(u)
  PROVE  Answers' /\ (Arrivals => Arrivals')
<1>1. ASSUME NEW u \in Thread, thr'[u].pc \notin Registering
      PROVE  Waits!(u)' /\ Requests!(u)' /\ Arrivals!(u)'
  BY <1>1 DEF Registering, First, Settled, Renewing
<1>2. ASSUME NEW u \in Thread
      PROVE  Waits!(u)' /\ Requests!(u)' /\ (Arrivals => Arrivals!(u)')
  <2>1. CASE thr'[u].pc \in Registering
    <3>1. Left(u)
      BY <2>1
    <3>2. Waits!(u) /\ Requests!(u) /\ (Arrivals => Arrivals!(u))
      BY DEF Answers, Waits, Requests, Arrivals
    <3> QED  BY <3>1, <3>2, LeftAlone
  <2>2. CASE thr'[u].pc \notin Registering
    BY <1>1, <2>2
  <2> QED  BY <2>1, <2>2
<1>3. Waits' /\ Requests'
  BY <1>2 DEF Waits, Requests
<1>4. ASSUME Arrivals
      PROVE  Arrivals'
  BY <1>2, <1>4 DEF Arrivals
<1> QED  BY <1>3, <1>4 DEF Answers

LEMMA UndoingAnswers ==
  ASSUME RegistrarAssumption, Typed, Division, Answers, NEW u \in Thread, Undoing(u)
  PROVE  Answers' /\ (Arrivals => Arrivals')
<1> SUFFICES ASSUME NEW t \in Thread, thr'[t].pc \in Registering
             PROVE  thr[t].pc \in Registering /\ Left(t)
  BY AllAnswer
<1>1. thr'[t] = thr[t] /\ thr[t].pc \in Registering /\ Entry(t)' = Entry(t)
  BY UndoingDivides
<1>2. UNCHANGED history
  BY UndoingTyped
<1>3. \A q \in pending' : q[1] = thr[t].regId => q \in pending
  <2>1. CASE Ask(u)
    <3>1. \/ pending' = pending
          \/ /\ Entry(u).regId # NoRegId
             /\ pending' = pending \cup {<<Entry(u).regId, "unreg">>}
      BY <2>1 DEF Ask
    <3>2. thr[u].pc = "ask"
      BY <2>1 DEF Ask, Goes
    <3>3. ~Kept(thr[u].pos)
      BY <3>2 DEF Division, Parted, Unregistering
    <3>4. thr[t].pos # thr[u].pos /\ thr[t].pos \in Pos /\ thr[u].pos \in Pos
      BY <1>1, <3>3 DEF Kept, Keeps, Typed, TypeOK
    <3>5. Entry(t).regId = thr[t].regId
      BY <1>1 DEF Division, Keepers, Keeper
    <3>6. Entry(u).regId # NoRegId => Entry(u).regId # thr[t].regId
      BY <3>4, <3>5 DEF Typed, RegIdsDiffer, Entry
    <3> QED  BY <3>1, <3>6
  <2>2. CASE ~Ask(u)
    BY <2>2 DEF Undoing, WaitStop, Look, WaitUnreg, Report, ClearStatus, ClearFlags
  <2> QED  BY <2>1, <2>2
<1>4. Asks(thr[t].regId)' \subseteq Asks(thr[t].regId)
  BY <1>1, <1>3 DEF Asks
<1> QED  BY <1>1, <1>2, <1>4 DEF Left, Same, history

LEMMA EndingAnswers ==
  ASSUME Typed, Division, Answers, NEW t \in Thread, Ending(t)
  PROVE  Answers' /\ (Arrivals => Arrivals')
<1>1. /\ thr[t].pc \in Registering /\ thr'[t].pc = "free"
      /\ \A u \in Thread : u # t => thr'[u] = thr[u]
      /\ \A p \in Pos : p # thr[t].pos => accInfos'[p] = accInfos[p]
      /\ UNCHANGED <<pending, history>>
  BY EndingTyped
<1> SUFFICES ASSUME NEW u \in Thread, thr'[u].pc \in Registering
             PROVE  thr[u].pc \in Registering /\ Left(u)
  BY AllAnswer
<1>2. thr'[u] = thr[u] /\ u # t /\ thr[u].pc \in Registering
  BY <1>1, PlacesDiffer
<1>3. thr[u].pos \in Pos /\ thr[u].pos # thr[t].pos
  BY <1>1, <1>2 DEF Typed, TypeOK, Division, Keepers
<1>4. Entry(u)' = Entry(u)
  BY <1>1, <1>2, <1>3 DEF Entry
<1>5. Asks(thr[u].regId)' = Asks(thr[u].regId)
  BY <1>1, <1>2 DEF Asks
<1> QED  BY <1>1, <1>2, <1>4, <1>5 DEF Left, Same, history

LEMMA RegisterAnswers ==
  ASSUME RegistrarAssumption, Typed, Division, Answers, ~shared',
         NEW t \in Thread, NEW p \in Pos, NEW r \in RegId, Takes(t, p, r)
  PROVE  Answers' /\ (Arrivals => Arrivals')
<1>1. /\ thr[t].pc = "register" /\ thr'[t].pc = "waitReg"
      /\ thr'[t].pos = p /\ thr'[t].regId = r
      /\ \A u \in Thread : u # t => thr'[u] = thr[u]
      /\ r \in FreeRegIds
      /\ \A q \in Pos : q # p => accInfos'[q] = accInfos[q]
      /\ pending' = pending \cup {<<r, "reg">>}
      /\ granted' = granted \ {r}
  BY DEF Takes
<1>2. thr[t].pc \notin Registering
  BY <1>1 DEF Registering
<1>3. /\ \A u \in Thread : thr[u].regId # r
      /\ \A q \in pending : q[1] # r
  BY <1>1 DEF FreeRegIds
<1>4. ~Kept(p) /\ \A u \in Thread : thr[u].pos \in Pos
  BY TakenFields DEF Typed, TypeOK
<1>5. \A u \in Thread : u # t /\ thr'[u].pc \in Registering
                        => thr[u].pc \in Registering /\ Left(u)
  <2> SUFFICES ASSUME NEW u \in Thread, u # t, thr'[u].pc \in Registering
               PROVE  thr[u].pc \in Registering /\ Left(u)
    OBVIOUS
  <2>1. thr'[u] = thr[u] /\ thr[u].pc \in Registering
    BY <1>1
  <2>2. Entry(u)' = Entry(u)
    BY <1>1, <1>4, <2>1 DEF Kept, Keeps, Entry
  <2>3. thr[u].regId # r
    BY <1>3
  <2>4. \A q \in pending' : q[1] = thr[u].regId => q \in pending
    BY <1>1, <2>3
  <2>5. Asks(thr[u].regId)' \subseteq Asks(thr[u].regId)
    BY <2>1, <2>4 DEF Asks
  <2> QED  BY <1>1, <2>1, <2>2, <2>3, <2>5 DEF Left, Same
<1>6. /\ Entry(t)'.waitingOn = {"reg"} /\ ~Entry(t)'.isRegistered
      /\ ~Entry(t)'.isRefreshed /\ ~Entry(t)'.eventArrived
  BY <1>1, TakenFields DEF Entry
<1>7. Asks(thr[t].regId)' \subseteq {<<r, "reg">>}
  BY <1>1, <1>3 DEF Asks
<1>8. Waits!(t)' /\ Requests!(t)' /\ Arrivals!(t)'
  BY <1>1, <1>6, <1>7 DEF First, Settled, Renewing
<1> QED  BY <1>5, <1>8, OneAnswers

LEMMA FindsAnswers ==
  ASSUME RegistrarAssumption, Typed, Division, Answers, ~shared',
         NEW u \in Thread, NEW p \in Pos, Finds(u, p)
  PROVE  Answers' /\ (Arrivals => Arrivals')
<1> SUFFICES ASSUME NEW t \in Thread, thr'[t].pc \in Registering
             PROVE  thr[t].pc \in Registering /\ Left(t)
  BY AllAnswer
<1>1. /\ thr'[u].pc = "waitStop" /\ \A v \in Thread : v # u => thr'[v] = thr[v]
      /\ UNCHANGED <<pending, granted>>
  BY DEF Finds
<1>2. thr'[t] = thr[t] /\ thr[t].pc \in Registering
  BY <1>1 DEF Registering
<1>3. \E b \in BOOLEAN : Entry(t)' = [Entry(t) EXCEPT !.doShutdown = b]
  BY <1>2, FindsDivides
<1>4. Entry(t) \in AccInfo
  BY DEF Typed, TypeOK, Entry
<1>5. Same(Entry(t)', Entry(t))
  BY <1>3, <1>4 DEF Same, AccInfo
<1>6. Asks(thr[t].regId)' = Asks(thr[t].regId)
  BY <1>1, <1>2 DEF Asks
<1> QED  BY <1>1, <1>2, <1>5, <1>6 DEF Left

LEMMA AsideAnswers ==
  ASSUME RegistrarAssumption, Typed, Division, Answers, AsideEffect
  PROVE  Answers' /\ (Arrivals => Arrivals')
<1> SUFFICES ASSUME NEW t \in Thread, thr'[t].pc \in Registering
             PROVE  thr[t].pc \in Registering /\ Left(t)
  BY AllAnswer
<1>1. thr'[t] = thr[t] /\ thr[t].pc \in Registering /\ Same(Entry(t)', Entry(t))
  BY AsideDivides
<1>2. UNCHANGED <<pending, history>>
  BY DEF AsideEffect
<1>3. Asks(thr[t].regId)' = Asks(thr[t].regId)
  BY <1>1, <1>2 DEF Asks
<1> QED  BY <1>1, <1>2, <1>3 DEF Left, history

LEMMA LostAnswers ==
  ASSUME Typed, Answers, NEW q \in pending, Lost(q)
  PROVE  Answers' /\ (Arrivals => Arrivals')
<1> SUFFICES ASSUME NEW t \in Thread, thr'[t].pc \in Registering
             PROVE  thr[t].pc \in Registering /\ Left(t)
  BY AllAnswer
<1>1. UNCHANGED <<accInfos, thr, history>> /\ pending' \subseteq pending
  BY DEF Lost
<1>2. Asks(thr[t].regId)' \subseteq Asks(thr[t].regId)
  BY <1>1 DEF Asks
<1> QED  BY <1>1, <1>2 DEF Left, Same, Entry, history

\* An answer reaches the thread that waits for it: there is no other one of
\* its registration under way, and the flag says what it was asked for.
LEMMA AnswerAnswers ==
  ASSUME RegistrarAssumption, Typed, Division, Answers, NEW q,
         NEW success \in BOOLEAN, AnswerEffect(q, success)
  PROVE  Answers' /\ (Arrivals /\ ~crossed' => Arrivals')
<1>1. /\ thr' = thr /\ q \in pending /\ pending' = pending \ {q}
      /\ granted \subseteq granted'
      /\ q[2] = "reg" /\ success => q[1] \in granted'
      /\ crossed' = (crossed \/ \E t \in Thread : /\ thr[t].pc \in {"clearReg", "judgeReg"}
                                                  /\ thr[t].regId = q[1])
  BY DEF AnswerEffect
<1>2. ASSUME NEW t \in Thread, thr[t].pc \in Registering
      PROVE  Waits!(t)' /\ Requests!(t)' /\ (Arrivals /\ ~crossed' => Arrivals!(t)')
  <2> DEFINE r == thr[t].regId
  <2>1. thr'[t] = thr[t] /\ thr[t].pos \in Pos /\ Entry(t) \in AccInfo
    BY <1>1 DEF Typed, TypeOK, Entry
  <2>2. Entry(t).regId = r
    BY <1>2 DEF Division, Keepers, Keeper
  <2>3. \/ Entry(t)' = Entry(t)
        \/ /\ r = q[1]
           /\ Entry(t)' = [Judged(Entry(t), success) EXCEPT !.eventArrived = TRUE]
    BY <2>1, <2>2 DEF AnswerEffect, Entry
  <2>4. Asks(r)' = Asks(r) \ {q}
    BY <1>1 DEF Asks
  <2>5. Waits!(t) /\ Requests!(t) /\ (Arrivals => Arrivals!(t))
    BY DEF Answers, Waits, Requests, Arrivals
  <2>6. CASE Entry(t)' = Entry(t)
    <3>1. Left(t)
      BY <1>1, <2>1, <2>4, <2>6 DEF Left, Same
    <3> QED  BY <2>5, <3>1, LeftAlone
  <2>7. CASE /\ r = q[1]
             /\ Entry(t)' = [Judged(Entry(t), success) EXCEPT !.eventArrived = TRUE]
    <3>1. q \in Asks(r)
      BY <1>1, <2>7 DEF Asks
    <3>2. thr[t].pc \notin Settled
      BY <2>5, <3>1
    <3>3. CASE thr[t].pc \in First
      <4>1. q = <<r, "reg">> /\ Asks(r)' = {} /\ ~Entry(t).isRegistered
        BY <2>4, <2>5, <3>1, <3>3
      <4>2. Entry(t).waitingOn \in {{"reg"}, {}}
        BY <2>5, <3>3 DEF First
      <4>3. /\ Entry(t)'.waitingOn = Entry(t).waitingOn
            /\ Entry(t)'.isRefreshed = Entry(t).isRefreshed
            /\ Entry(t)'.isRegistered => success \/ Entry(t).isRegistered
        BY <2>1, <2>7, <4>2, JudgedFields
      <4>4. Entry(t)'.isRegistered => r \in granted'
        BY <1>1, <2>7, <4>1, <4>3
      <4>5. /\ thr'[t].regId = r /\ thr'[t].pc = thr[t].pc
            /\ ~Entry(t).isRefreshed
        BY <2>1, <2>5, <3>3
      <4>6. Asks(thr[t].regId)' = {}
        BY <4>1, <4>5
      <4>7. Waits!(t)'
        BY <2>5, <3>2, <3>3, <4>3, <4>5 DEF First, Settled, Renewing
      <4>8. Requests!(t)'
        BY <3>3, <4>4, <4>5, <4>6 DEF First, Settled, Renewing
      <4>9. ASSUME ~crossed'
            PROVE  Arrivals!(t)'
        <5>1. thr[t].pc = "waitReg"
          BY <1>1, <2>7, <3>3, <4>9 DEF First
        <5> QED  BY <4>5, <4>6, <5>1 DEF Settled
      <4> QED  BY <4>7, <4>8, <4>9
    <3>4. CASE thr[t].pc \in Renewing
      <4>1. Asks(r)' = {}
        BY <2>4, <2>5, <3>1, <3>4
      <4>2. Entry(t)'.waitingOn = Entry(t).waitingOn
        BY <2>1, <2>7, JudgedFields
      <4>3. thr'[t].pc = thr[t].pc /\ Asks(thr[t].regId)' = {}
        BY <2>1, <4>1
      <4>4. Waits!(t)'
        BY <2>5, <3>4, <4>2, <4>3 DEF First, Settled, Renewing
      <4>5. Requests!(t)' /\ Arrivals!(t)'
        BY <3>4, <4>3 DEF First, Settled, Renewing
      <4> QED  BY <4>4, <4>5
    <3>5. CASE thr[t].pc = "leave"
      BY <2>1, <3>5 DEF First, Settled, Renewing
    <3> QED  BY <1>2, <3>2, <3>3, <3>4, <3>5, PlacesDiffer
  <2> QED  BY <2>3, <2>6, <2>7
<1>3. ASSUME NEW t \in Thread, thr[t].pc \notin Registering
      PROVE  Waits!(t)' /\ Requests!(t)' /\ Arrivals!(t)'
  BY <1>1, <1>3 DEF Registering, First, Settled, Renewing
<1>4. Waits' /\ Requests'
  BY <1>2, <1>3 DEF Waits, Requests
<1>5. ASSUME Arrivals, ~crossed'
      PROVE  Arrivals'
  BY <1>2, <1>3, <1>5 DEF Arrivals
<1> QED  BY <1>4, <1>5 DEF Answers

-----------------------------------------------------------------------------
LEMMA InitInv ==
  ASSUME RegistrarAssumption, Init
  PROVE  Inv
<1>1. \A t \in Thread : thr[t] = NoThread
  BY DEF Init
<1>2. /\ NoThread.pc = "free" /\ NoThread.acc = NoAccount
      /\ NoThread.pos = 1 /\ NoThread.regId = NoRegId /\ 1 \in Pos
  BY DEF NoThread, Pos, RegistrarAssumption
<1>3. NoThread \in [pc : {"free", "register", "unregister"}
                           \cup Registering \cup Unregistering,
                    acc : Account \cup {NoAccount}, pos : Pos,
                    regId : RegId \cup {NoRegId}]
  BY <1>2 DEF NoThread
<1>4. \A p \in Pos : accInfos[p] = Cleared
  BY DEF Init
<1>5. Cleared \in AccInfo /\ Clean(Cleared) /\ Cleared.accountId = NoAccount
  BY DEF Cleared, AccInfo, Clean
<1>6. TypeOK
  BY <1>3, <1>5 DEF Init, TypeOK
<1>7. \A t \in Thread : thr[t].pc = "free"
  BY <1>1, <1>2
<1>8. Serves /\ RegIdsDiffer
  BY <1>4, <1>5, <1>7 DEF Serves, RegIdsDiffer, Clean, Registering
<1>9. Keepers /\ Parted /\ Unregisters
  BY <1>7 DEF Keepers, Parted, Unregisters, Registering, Unregistering
<1>10. Abandoned
  BY <1>4, <1>5 DEF Abandoned, Used
<1>11. Waits /\ Requests /\ Arrivals
  BY <1>7 DEF Waits, Requests, Arrivals, First, Settled, Renewing
<1> QED  BY <1>6, <1>8, <1>9, <1>10, <1>11 DEF Inv, Typed, Division, Answers

LEMMA NextInv ==
  ASSUME RegistrarAssumption, Inv, [Next]_vars
  PROVE  Inv'
<1>1. Typed /\ Typed'
  BY NextTyped DEF Inv
<1> SUFFICES ASSUME ~shared'
             PROVE  Division' /\ Answers' /\ (~crossed' => Arrivals')
  BY <1>1 DEF Inv
<1> DEFINE Goal == Division' /\ Answers' /\ (~crossed' => Arrivals')
<1>2. ASSUME ~shared
      PROVE  Division /\ Answers /\ (~crossed => Arrivals)
  BY <1>2 DEF Inv
<1>3. CASE UNCHANGED vars
  <2>1. UNCHANGED <<accInfos, thr, pending, granted, shared, crossed>>
    BY <1>3 DEF vars, history
  <2>2. Division'
    BY <1>2, <2>1 DEF Division, Keepers, Keeper, Entry, Parted, Abandoned,
       Unregisters, Kept, Keeps, Cleaning, Used
  <2>3. Answers'
    BY <1>2, <2>1 DEF Answers, Waits, Requests, Asks, Entry
  <2>4. ~crossed' => Arrivals'
    BY <1>2, <2>1 DEF Arrivals, Asks, Entry
  <2> QED  BY <2>2, <2>3, <2>4
<1>4. CASE Aside
  <2>1. AsideEffect
    BY <1>1, <1>4, AsideTyped
  <2>2. ~shared /\ (~crossed' => ~crossed)
    BY <2>1 DEF AsideEffect, history
  <2> QED  BY <1>1, <1>2, <2>1, <2>2, AsideDivides, AsideAnswers
<1>5. ASSUME NEW t \in Thread, Keeping(t)
      PROVE  Goal
  <2>1. ~shared /\ (~crossed' => ~crossed)
    BY <1>1, <1>5, KeepingTyped DEF history
  <2>2. Keepers
    BY <1>2, <2>1 DEF Division
  <2> QED  BY <1>1, <1>2, <1>5, <2>1, <2>2, KeepingDivides, KeepingAnswers
<1>6. ASSUME NEW u \in Thread, Undoing(u)
      PROVE  Goal
  <2>1. ~shared /\ (~crossed' => ~crossed)
    BY <1>1, <1>6, UndoingTyped DEF history
  <2> QED  BY <1>1, <1>2, <1>6, <2>1, UndoingDivides, UndoingAnswers
<1>7. ASSUME NEW t \in Thread, Ending(t)
      PROVE  Goal
  <2>1. ~shared /\ (~crossed' => ~crossed)
    BY <1>1, <1>7, EndingTyped DEF history
  <2>2. Waits
    BY <1>2, <2>1 DEF Answers
  <2> QED  BY <1>1, <1>2, <1>7, <2>1, <2>2, EndingDivides, EndingAnswers
<1>8. ASSUME NEW t \in Thread, RegisterSent(t)
      PROVE  Goal
  <2>1. PICK p \in Pos, r \in RegId : Takes(t, p, r)
    BY <1>1, <1>8, RegisterTyped
  <2>2. ~shared /\ (~crossed' => ~crossed)
    BY <2>1 DEF Takes
  <2> QED  BY <1>1, <1>2, <2>1, <2>2, RegisterDivides, RegisterAnswers
<1>9. ASSUME NEW u \in Thread, StopKeeper(u)
      PROVE  Goal
  <2>1. PICK p \in Pos : Finds(u, p)
    BY <1>1, <1>9, FindsTyped
  <2>2. ~shared /\ (~crossed' => ~crossed)
    BY <2>1 DEF Finds
  <2> QED  BY <1>1, <1>2, <2>1, <2>2, FindsDivides, FindsAnswers
<1>10. ASSUME NEW q \in pending, NEW success \in BOOLEAN,
              rm_receive_register_event(q, success)
       PROVE  Goal
  <2>1. AnswerEffect(q, success)
    BY <1>1, <1>10, AnswerTyped
  <2>2. ~shared /\ (~crossed' => ~crossed)
    BY <2>1 DEF AnswerEffect
  <2> QED  BY <1>1, <1>2, <2>1, <2>2, AnswerDivides, AnswerAnswers
<1>11. ASSUME NEW q \in pending, Lost(q)
       PROVE  Goal
  <2>1. UNCHANGED <<accInfos, thr, granted, shared, crossed>>
    BY <1>11 DEF Lost, history
  <2>2. Division'
    BY <1>2, <2>1 DEF Division, Keepers, Keeper, Entry, Parted, Abandoned,
       Unregisters, Kept, Keeps, Cleaning, Used
  <2> QED  BY <1>1, <1>2, <1>11, <2>1, <2>2, LostAnswers
<1> QED
  BY <1>3, <1>4, <1>5, <1>6, <1>7, <1>8, <1>9, <1>10, <1>11
  DEF Next, ThreadStep, Aside, Keeping, Undoing, Ending

LEMMA AlwaysInv == Spec => []Inv
<1>1. Init => Inv
  BY InitInv, RegistrarAssumption
<1>2. Inv /\ [Next]_vars => Inv'
  BY NextInv, RegistrarAssumption
<1> QED  BY <1>1, <1>2, PTL DEF Spec

-----------------------------------------------------------------------------
\* The variables keep their types: no search of the table leads outside of it.
THEOREM TypeCorrect == Spec => []TypeOK
<1>1. Inv => TypeOK
  BY DEF Inv, Typed
<1> QED  BY <1>1, AlwaysInv, PTL

\* Whatever becomes of the lock on the table, a registration thread is alone
\* in charge of its account and of its entry until it ends (find_acc_by_id and
\* find_empty_acc_info before the first REGISTER).
THEOREM KeepersAreAlone == Spec => []OneKeeper
<1>1. Inv => OneKeeper
  BY DEF Inv, Division, Keepers, Keeper, OneKeeper
<1> QED  BY <1>1, AlwaysInv, PTL

\* The entry of a thread that waits for an answer leads the answer to it: the
\* first flag that rm_receive_register_event looks at is the one of its request.
THEOREM AnswersFit == Spec => []AnswerWillFit
<1>1. Inv => AnswerWillFit
  BY DEF Inv, Division, Unregisters, Answers, Waits, Renewing, AnswerWillFit
<1> QED  BY <1>1, AlwaysInv, PTL

\* eventArrived is not set for an answer that is still on its way.
THEOREM FlagIsHonest == Spec => []ArrivedMeansAnswered
<1>1. ASSUME Inv, ~shared, ~crossed, NEW t \in Thread
      PROVE  /\ thr[t].pc = "waitReg" /\ <<thr[t].regId, "reg">> \in pending
                  => ~Entry(t).eventArrived
             /\ thr[t].pc = "waitRefresh" /\ <<thr[t].regId, "refresh">> \in pending
                  => ~Entry(t).eventArrived
  <2>1. /\ <<thr[t].regId, "reg">> \in pending => Asks(thr[t].regId) # {}
        /\ <<thr[t].regId, "refresh">> \in pending => Asks(thr[t].regId) # {}
    BY DEF Asks
  <2> QED  BY <1>1, <2>1 DEF Inv, Arrivals, Renewing
<1>2. Inv => ArrivedMeansAnswered
  BY <1>1 DEF ArrivedMeansAnswered
<1> QED  BY <1>2, AlwaysInv, PTL

\* The GUI is told that an account is registered only after the registrar took
\* the REGISTER of the thread that says so.
THEOREM ToldIsGranted == Spec => RegisteredOnlyIfGranted
<1>1. ASSUME Inv, [Next]_vars, NEW a \in Account, ~shown[a], shown'[a]
      PROVE  \/ \E t \in Thread : thr[t].acc = a /\ thr[t].regId \in granted
             \/ shared
  <2>1. shown \in [Account -> BOOLEAN]
    BY <1>1 DEF Inv, Typed, TypeOK
  <2>2. \E t \in Thread : JudgeReg(t)
    <3>1. ASSUME NEW t \in Thread, ThreadStep(t), ~JudgeReg(t)
          PROVE  shown' \in {shown, [shown EXCEPT ![thr[t].acc] = FALSE]}
      BY <3>1 DEF ThreadStep, RegisterRefused, RegisterFails, RegisterSent,
         WaitReg, ClearReg, Sleep, Wake, SendRefresh, WaitRefresh, JudgeRefresh,
         Stop, Stopped, leave_reg_thrd_with_error, UnregisterRefused, StopKeeper,
         WaitStop, Look, Ask, WaitUnreg, Report, ClearStatus, ClearFlags,
         MayTell, Tells
    <3>2. ASSUME NEW t \in Thread, ThreadStep(t), ~JudgeReg(t)
          PROVE  FALSE
      BY <1>1, <2>1, <3>1, <3>2
    <3>3. \/ UNCHANGED vars \/ rm_unregister_all
          \/ \E t \in Thread, b \in Account :
               rm_register_account(t, b) \/ rm_unregister_account(t, b)
          \/ \E q \in pending, success \in BOOLEAN :
               rm_receive_register_event(q, success)
          \/ \E q \in pending : Lost(q)
          => UNCHANGED shown
      BY DEF vars, rm_unregister_all, rm_register_account, rm_unregister_account,
             Starts, rm_receive_register_event, Lost
    <3> QED  BY <1>1, <3>2, <3>3 DEF Next
  <2>3. PICK t \in Thread : JudgeReg(t)
    BY <2>2
  <2>4. /\ Entry(t).isRegistered /\ thr[t].pc = "judgeReg"
        /\ shown' = [shown EXCEPT ![thr[t].acc] = TRUE]
    BY <1>1, <2>3 DEF JudgeReg, Goes, Tells
  <2>5. thr[t].acc = a
    BY <1>1, <2>1, <2>4
  <2>6. ~shared => thr[t].regId \in granted
    BY <1>1, <2>4 DEF Inv, Answers, Requests, First
  <2> QED  BY <2>5, <2>6
<1>2. Inv /\ [Next]_vars
        => [\A a \in Account : ~shown[a] /\ shown'[a] =>
              \/ \E t \in Thread : thr[t].acc = a /\ thr[t].regId \in granted
              \/ shared]_vars
  BY <1>1
<1> QED  BY <1>2, AlwaysInv, PTL DEF Spec, RegisteredOnlyIfGranted
=============================================================================
