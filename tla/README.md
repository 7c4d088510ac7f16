# Verification of the PartiSIPation core

TLA+ models, TLC runs and TLAPS proofs about the core daemon of PartiSIPation,
the SIP user agent in `src/trunk/core/`. The daemon keeps the calls and the
registrations; a GUI (the Java example in `src/trunk/gui/`) talks to it over
XML-RPC, the network over eXosip. All paths below are relative to
`src/trunk/core/`.

- [Inventory of the system](#inventory)
- [Modules](#modules)
- [Runs](#runs)
- [Proofs](#proofs)
- [What the checks found](#findings)
- [Not modelled](#not-modelled)

To repeat: `tlc -config X.cfg M` for each run of `PROJECT.json`, `tlapm M.tla`
for each of `RingQueueProofs`, `MessageHandoverProofs`, `CallMachineProofs`,
`EventDispatcherProofs`, `RegistrarManagerProofs`, `ProgramProofs`,
`AccountsProofs` and `GuiLinkProofs`.

<a id="inventory"></a>
## Inventory of the system

| component | source | state | operations | modelled by |
|---|---|---|---|---|
| bounded queue | `util/queue/queue.c` | ring of pointers, `size`, `front`, `rear` | create, enqueue, front, dequeue, make_empty | `BoundedFifo`, `RingQueue` |
| message hand-over | `event_dispatch`/`dispatch` in `core/events/event_dispatcher.c`; `go_*` in `core/gui_output/gui_callback_sender.c`; the pool of a machine | a queue, its lock, `wakeUpLock`, a condition variable | hand over, take, sleep, wake | `MessageHandover` |
| call state machine | `core/events/statemachine.c`, `transaction_info.c` | `curState`, `callInfo` (dialog, transactions), event pool, `doShutdown` | a handler per state and event | `CallLifecycle`, `CallMachine` |
| event dispatcher | `core/events/event_dispatcher.c` | table `queues[]` of slots, `queuesLock`, two dispatcher threads | create and destroy a slot, route an event, shut all down | `EventDispatcher` |
| registrar manager | `core/sip_output/registrar_manager.c` | `accInfos[]`, `accInfoLock`, a thread per (un)registration | register, refresh, unregister, receive the answers | `RegistrarManager` |
| GUI callback sender | `core/gui_output/gui_callback_sender.c` | six queues and workers | one per callback | `MessageHandover`, `GuiLink` |
| thread management | `util/threads/thread_management.c` | `threads[]`, `activeThreads`, two locks, `shuttingDown` | start, add, terminate, join all, destroy | `ThreadManagement` |
| program start and end | `partisipation_core.c` | none of its own | init, wait and destroy, in order | `Program` |
| account management | `accounts/account_management.c`, `util/list/list.c` | linked list, id counter | create, set, delete, get, get all, save | `AccountTable`, `Accounts` |
| configuration | `util/config/xml/` | `config`, the file | read at the start, write with every change of the accounts | `Configuration`, `Accounts` |
| GUI registration and polling | `core/gui_input/registration_receiver.c`, `polling_gui.c` | `guiURL`, `shutdownPolling` | register, unregister, poll | `GuiLink` |
| XML-RPC callbacks | `remote/callback/xmlrpc/gui_callback.c` | `callbackEnv` | one per callback; a fault unregisters the GUI | `GuiLink` |
| SIP stack adapter | `sipstack/eXosip/` | `listenerIsActive` | send requests and answers, map events | environment of `CallMachine` and `RegistrarManager`, `Program` |
| XML-RPC server | `remote/server/xmlrpc/` | none | one request after the other | environment of the others |
| call id generator, logger | `core/callIDs/`, `util/logging/` | a counter; a file and its lock | | not modelled |

### How they interact

The XML-RPC server thread (a request of the GUI) and the SIP listener thread
call `event_dispatch`, which puts an event into the queue of the GUI dispatcher
or of the SIP dispatcher. Each dispatcher thread takes one event at a time.
`makeCall` and `INVITE` make it take a slot of `queues[]` and start a state
machine thread; every other event of a call is routed by call id (GUI) or SIP
call id (SIP) to the slot, put into the pool of its machine, and the machine is
woken. Registration events go to the registrar manager. A machine acts on the
SIP stack by direct calls, and on the GUI by handing a message to one of six
callback workers. `ed_shutdown_all` marks the slots; the machines see the mark
after the next event or when they are woken. A slot is released by its machine.

All threads are started and listed by the thread management: dispatchers,
listener, callback workers and XML-RPC server when the program starts, machines
and registration threads by the dispatchers, a poller with each registration of
a GUI. `main` waits for them and takes the parts down. The callback workers, the
pollers and the XML-RPC server share the address of the GUI and the XML-RPC
client; a callback that fails unregisters the GUI, which ends all calls and
registrations. The accounts are changed by the XML-RPC server thread alone, and
read by machines of incoming calls and by the automatic registration.

### What is hard

- Threads share `queues[]`, the rings and their conditions, and not every access
  is under the lock that the others use: workers dequeue without the lock of
  the senders, test for emptiness outside of `wakeUpLock`, slots are filled in
  and freed outside of `queuesLock`, positions are used after the search.
- Events of user and other party are independent: every mix reaches a machine
  in every state. Pools overflow and drop events silently.
- A handler fails in the middle (callback queue full, SIP stack refuses,
  account gone) and nothing is undone.
- Registrations wait for answers that come late, never, or twice.
- Shutdown races with everything that starts: threads are started by helper
  threads that run whenever they like.
- The list of accounts, the address of the GUI and the XML-RPC environment are
  shared without any lock.
- The configuration file is written in place, while the daemon may be killed.

### What makes each component correct

- *queue*: first in, first out, refuses when full, whatever the position of its
  indices (`ImplementsFifo`).
- *hand-over*: accepted messages are handled, in order, once
  (`Delivered`), or at least nothing else than the two known races may lose one
  (`Accounted`, `HandledOrRaced`).
- *state machine*: tells GUI and SIP stack a consistent story (`Orderly`), ends
  when a party hangs up, tells the GUI of its end, leaves nobody in a call that
  it has forgotten.
- *dispatcher*: one machine per slot, one slot per id, events reach the machine
  of their call, and the dispatchers do not get stuck.
- *registrar manager*: one thread keeps an account (`OneKeeper`, `Blocked`), an
  answer is taken for what it answers (`AnswerWillFit`, `ArrivedMeansAnswered`),
  the GUI is told of a registration that exists (`RegisteredOnlyIfGranted`), and
  an unregistration ends (`UnregistrationEnds`).
- *threads*: a successful wait means that those waited for are gone
  (`JoinIsABarrier`), after the destruction nothing starts
  (`LateOnlyIfOvertaken`), and the destruction ends (`DestroyEnds`).
- *program*: a thread finds the parts that it needs (`NeededIsUp`).
- *accounts*: the list is a table with unique ids (`ImplementsTable`), the file
  holds what a restart needs (`FileIsCurrent`, `SettingsStay`), and readers are
  safe as long as nobody deletes (`FaultsHaveCause`).
- *GUI link*: a GUI that answers stays registered (`LiveGuiStays`), a dead one is
  dropped (`DeadGuiIsDropped`), pollers end (`PollersEnd`).

`PROJECT.json` lists every hazard at its line with the properties that cover it.

<a id="modules"></a>
## Modules

**`RingQueue`** is `queue.c`, function by function, `result` being the return
value of the latest call. `malloc` leaves the array as it is, so slots hold
`Garbage`. **`BoundedFifo`** is what `queue.h` promises. `RingQueue` implements
it with `contents` the occupied slots in order (`Contents`). One caller at a
time. `queue_is_element` is not modelled: nothing calls it (and it compares the
first `size` slots of the array, wherever `front` is).

**`MessageHandover`** is the scheme by which eight worker threads and all state
machines get their messages. The statements of `queue_enqueue` and
`queue_front_and_dequeue` are steps (`size++` and `size--` are a load and a
store each), because the worker runs them without the lock of the senders.
`spc` and `wpc` say where senders and worker are. `signalUnderLock` tells the
two variants apart: dispatchers and callback workers are signalled before the
lock is released, machines after. It is chosen in `Init`, so that every run
covers both. `accepted`, `handled`, `overlapped` and `missed` are history
variables. Lock and condition variable are those of POSIX: a signal that finds
nobody waiting is lost, a wait may end without one (`SpuriousWakeUp`).
The data race on `size` is modelled as the interleavings of loads and stores.
What a compiler or processor may do beyond that is not.

**`CallLifecycle`** is what a call promises: the states, and the words it says to
GUI and SIP stack at each transition, with no pool, dialog or other party.
**`CallMachine`** is the machine itself: one action per handler, its guard the state
and the event at the head of the pool; the event pool with its limit; `transactions`
and `dialogId` as `update_transaction_and_dialog` keeps them; the failures of each
handler (`Fail`); `CheckShutdown`, `GoToSleep`, `FallAsleep` as the loop of
`sm_start`, which tests the pool, then takes `wakeUpLock` and waits, whatever came
in between; `Offer` and `Signal` as `enqueue_event` and `wake_machine`, which wakes
a machine only if it waits. Around it are the GUI (`GuiEvents`) and the other party
(`Peer*`), which act whenever SIP lets them, and `StackReleases`, the event with
which eXosip forgets a call. SIP events are classes: `"183"` stands for every other
provisional response, `"REFUSED"` for 300 to 699. `out` is the history of outputs.
Handlers of one call never run concurrently, so a handler is one step, but for the
one that touches the pool in the middle: `MakeCall` goes as far as
`sm_checking_state_on_entry`, and `GiveVerdict` enqueues its verdict, behind what
came meanwhile, or fails on a full pool. The machine dequeues without a lock and
enqueues under `queuesLock`, while dispatchers enqueue under `poolLock`. An enqueue
that meets the machine in the pool (`InPool`) leaves it `damaged`: from then on it
may hold any event, or none, and the machine may take anything, stop on an error
(`TakeNothing`) or go to sleep. How the single statements bring this about is in
`MessageHandover`. That an event reaches the pool of the right machine is the
subject of `EventDispatcher`. `peer` tells `left`, which was in an established call,
from `gone`, which never was. In `CONNECTED` every `EXOSIP_CALL_CLOSED` is taken for
a BYE, also one with status 487.

**`EventDispatcher`** is the table of slots with two dispatchers, a machine per
call and `ed_shutdown_all`. Steps are what happens between taking and releasing
`queuesLock`; what happens outside of it is a step of its own: filling in a
slot (`CreateFill`), using a position (`Put`, `Wake`), releasing a slot
(`DisposePool`, `FreeSlot`). A freed slot keeps its ids, because the next
`malloc` may return the same memory (`CreateTake` chooses between that and a
clean block). A thread that uses a slot which is not live sets `crashed`, and
the process stops: the code dereferences a null, freed or unwritten pointer
there. What a machine does with an event is reduced to going on or ending; call
ids and SIP call ids run over the same numbers, so that mixing them up shows.

**`RegistrarManager`** is the table `accInfos[]` and the threads that work on it:
registration threads (send, wait, refresh until `doShutdown`), unregistration
threads (set `doShutdown`, wait for `isShutdown`, send, wait, clear), the thread
that unregisters all, and `rm_receive_register_event` for the answers. What is
done under `accInfoLock` is one step. Most of the table is used without it, and
there each access that another thread can notice is a step: `eventArrived` is
cleared before the flag that says which answer is expected, `doShutdown` before
`isShutdown` is set, an entry is cleared from `accountId` on. A wait with a
timeout may end at any time. A REGISTER gets at most one answer (retries with
credentials are switched off: `eXosip_automatic_action` is commented out), which
may be lost. Each REGISTER for a new registration has a registration id of its
own; `RegIds` bounds how many are told apart. Three history variables: `granted`
(what the registrar took), `shared` (two threads came to work on one entry) and
`crossed` (an answer came while a thread was clearing its flags after a timeout).

**`ThreadManagement`** is `thread_management.c`. `start_thread` only creates a
helper, which is somewhere in `add_thread` (`helper`) until the thread itself
runs (`thread`) and is listed (`threads`, `activeThreads`); `main` says where
`tm_join_active_threads` or `tm_destroy` is. A section under `thrManLock` is one
step, except that the helper's lock and unlock are two, because `tm_destroy` can
find the lock held. `join_threads` reads the table without the lock, an entry per
step. `pthread_create` may fail, and is counted then, with the entry as it was
or with the id of no thread (`Dead`). **`Program`** extends it with `main`: the
init and destroy functions in their order (`InitOrder`, `DestroyOrder`), each of
which may fail, with the threads that they start. Two dispatchers are one thread
there, and six workers; calls start when the dispatcher likes. Time does not
pass: that `main` sleeps three seconds guarantees nothing.

**`Configuration`** has what `cw_save_config` writes and what `cr_init` reads, as
functions on sequences of tags: which element holds which settings
(`Attributes`), the types and conversions of these, the nesting that the
handlers keep in the `within*` flags (`Parent`). Values are texts, members of
the constant `Text`; a number is named by its digits in full. What the writer
does to them are constants: `Printed`, because `int_to_str` has ten bytes and
cuts a longer number, and `Recoded`, because the texts are written in UTF-8 into
a document that declares ISO-8859-1, so that others come back; all that is
assumed is that numbers of at most nine characters (`Short`) and ASCII texts
(`Ascii`) come back as they were. `Writable` are the values of a setting that the
document has a form for.
**`AccountTable`** is what the GUI may expect of the accounts. **`Accounts`** is
the list node by node (`heap`, `head`, `tail`) with the requests of the GUI, one
after the other; the file, which is empty between `fopen` and the last write
(`Torn`), and is parsed at each start; and readers that count, copy and use the
list one access per step. `name` stands for the eight texts of an account. A
fault stops the daemon, with its kind and the reader (or node) in `fault`. The
texts that `am_account_set` frees and replaces while a machine compares them are
not separate from their node. Ids of accounts stay below 10^9, so that the writer
prints them in full (`MaxId` bounds them in the runs).

**`GuiLink`** is the address of the GUI and everything that uses it:
`gi_register_gui` and `gi_unregister_gui` statement by statement, a callback
(test the URL, begin the call, end it, look for a fault, read the answer, look
again), `xmlrpc_error_occurred` (log, clear the fault, look for the URL, copy it,
unregister) and the pollers. A call takes its time: in between anything may
happen, also that another GUI registers. `callbackEnv` is one for all threads, so
a fault has no owner in the code. Two history variables speak of the registered
GUI, from its registration on: `failed`, it failed a call; `crossed`, there was a
fault of an earlier GUI, raised by a call that began before or not yet dealt with
at the registration. An access to freed
memory, or a call through NULL, ends the model (`misused`). Requests of the GUI
are served one after the other; a library that served them at once would add
interleavings. `xmlrpc_env_clean` and `xmlrpc_env_init` are one step, and the
fault with its text one flag.

| module | variables | in the code |
|---|---|---|
| `CallMachine` | `pc` | where the loop of `sm_start` is |
| | `pool`, `damaged` | `queues[pos]->eventPool`; two threads were in it at once |
| | `waking` | threads that have enqueued or marked and will signal |
| | `dialogId`, `transactions` | `callInfo` |
| `EventDispatcher` | `queues[p].stat` | NULL / allocated / filled in / pool disposed |
| | `dpc`, `devt`, `dpos` | a dispatcher: where it is, its message, its `pos` |
| | `mpc`, `mpos` | a machine thread: where it is, its `queueId` |
| | `guiKnows`, `sipKnows` | the ids that the GUI and eXosip can name |
| `RegistrarManager` | `accInfos[p].waitingOn` | `waitingOnRegOK`, `waitingOnRefreshOK`, `waitingOnUnregOK` |
| | `thr` | the threads: where each is, its `accountId`, `pos`, `regId` |
| | `pending`, `shown` | requests on their way, what the GUI was told last |
| `ThreadManagement` | `managing` | locks and memory before `tm_init`, between, after `tm_destroy` |
| | `awaited`, `overtaken`, `failed` | history: whom `main` waited for, helpers that `tm_destroy` overtook, failed creations |
| `Program` | `phase`, `k` | where `main` is |
| | `up` | the parts that are initialised |
| `Accounts` | `request` | what the XML-RPC server thread has still to do: save, write |
| | `reader` | local variables of `am_get_all_accounts` and its caller |
| | `unsaved`, `fresh` | history: accounts changed since the last save, accounts without texts |
| `GuiLink` | `thread` | where each thread is, and the URL it compares with |
| | `freed` | `guiURL` points to memory that was given back |
| | `failed`, `crossed` | history: faults since the registration |

The definitions commented as plausible mistakes (`queue_succ_late`,
`HangUp_silent`, ...) belong to no specification. Each replaces the definition
after it to see that a property notices.

The `MC*` modules extend a module for model checking; the `.cfg` files give
the bounds.

<a id="runs"></a>
## Runs

| run | checks | shows |
|---|---|---|
| `ring` | `IndicesAgree`, `ImplementsFifo` | three slots, two elements: all positions of `front`, full and empty |
| `handover` | `TypeOK`, `Accounted`, `HandledOrRaced` | two senders, three messages, two slots, both variants: the ring fills, wraps and refuses; the two races are the only ways to lose, reorder or delay a message |
| `call` | `TypeOK`, `Orderly`, `GuiLearnsEnd`, `AcceptedOnlyIfAnswered`, `NobodyStranded`, `VerdictIsComing`, `ImplementsLifecycle`, `HangUpEndsCall`, `RemoteHangUpEndsCall` | one call with a pool of two and six events from outside |
| `dispatcher` | `TypeOK`, `OwnSlot`, `UniqueIds`, `NothingMissed`, `FoundIsRight`, `NotStuckUnlessLeaked` | two slots, two calls, both dispatchers |
| `registrar` | `TypeOK`, `OneKeeper`, `AnswerWillFit`, `ArrivedMeansAnswered`, `RegisteredOnlyIfGranted`, `UnregistrationEnds` | one account, three threads, two registration ids: a registration, an unregistration and another attempt of either kind meet |
| `program` | `TypeOK`, `LateOnlyIfOvertaken`, `NeededIsUp`, `JoinIsABarrier`, `DestroyEnds` | start and end with all kinds of threads and one call, one failing `pthread_create`, a list with a place too few |
| `accounts` | `TypeOK`, `FileIsCurrent`, `ImplementsTable`, `FaultsHaveCause`, `SettingsStay` | up to three accounts, one reader, crashes and restarts, two files written by hand |
| `gui` | `TypeOK`, `LiveGuiStays`, `DeadGuiIsDropped`, `PollersEnd` | two GUIs, of which one may die, the server thread, two pollers, a worker beside the first of them |
| `handover_sleep`, `call_dialog`, `dispatcher_leak`, `registrar_blocked` | one property each | the code violates a sentence of its documentation, see [below](#findings) |

**Bounds.** `Capacity`, `MaxEvents` and `MaxCalls` are parameters of the program,
small here. `MaxMsg`, `MaxInputs` and `Calls` bound the runs and are guards in the
modules: at the bound the environment has nothing more to say, which is why deadlock
is not checked where a system at rest may stay so. A ring of three slots wraps from
every offset; two concurrent senders and one worker are all the roles there are, and
each message beyond the capacity only repeats the wrap. A call needs at most four
events beside the first from start to end (say ringing, answer, acknowledge, hang
up), so six leave room for two more anywhere, and a damaged pool, which makes up
events of the same number, for the way to `CONNECTED`; two places in the pool make
it overflow. Two calls are enough for anything that concerns a pair of slots or ids,
since each property names at most two. In `registrar` two positions for one account
show that the second is never taken; a third thread is the second attempt that the
code wants to block. Its constraint `Apart` stops where two threads came to share an
entry. Nothing is missed by that: `shared` stays true, every property is conditional
on `~shared` or true of itself as soon as it holds, the liveness property too. In
`program` the five threads are one of each kind, and the list has four places, so
that `NoFreePos` happens; a second call would be another copy of the first. In
`accounts` the reader's array has `MaxAmount` = 2 places and there are three nodes,
so that the list can grow past it; three ids allow a duplicate beside a new one; one
unsaved account at a time (`MaxUnsaved`) and one renaming are bounds of the model.
The nodes are interchangeable, and no property is liveness, so symmetry is sound.
One of the two files that it may find first has a flag, a number and a log level
that are not in the document type, a number of ten digits, and texts that are not
ASCII: a tilde stands for such a character, two tildes for what it is read as,
however often (that a second restart changes it again is not told apart). Readers
read neither settings nor characters, so the constraint `ReadersApart` lets them
work where these are plain. In `gui` the GUI before and the GUI after meet, with a
poller each; a third could only repeat that. The constraint `Apart` keeps the worker
and the second poller from being at work at once: the two pollers meet each other
and the server, the worker meets the first poller and the server. It only keeps a
worker from taking up a message and a poller from being started, which no fairness
asks for, so liveness is not affected.

**Fairness.** Each thread of the program gets a turn when it can run: weak fairness
for senders, workers, machines, the threads of the registrar manager, `main` and
every thread that has begun a callback, a poll or an unregistration. Where threads
compete for `queuesLock`, strong fairness says that a thread which finds the lock
free again and again gets it at some time; POSIX does not promise it, the mutexes of
Linux give it in practice, and without it no thread that needs a contended lock
could be shown to advance. Nothing is assumed of the user, the other party, the GUI
or the network: no new event ever has to come, and no spurious wake-up.

What the two properties of hanging up promise, and what not. `HangUpEndsCall`
starts where the hang-up will be heeded (`HangUpIsHeeded`): one ahead of the
verdict on the account is dropped by `sm_checking_state`, and the INVITE goes out
all the same. `RemoteHangUpEndsCall` covers a BYE in `CONNECTED`, or behind the ACK
or the 2xx that lead there; one that overtakes the ACK, or whose ACK was lost, is
ignored. Both end in the stop of the machine, in a damaged pool, or in
`[]Overslept`: the event came between the test of the pool and the wait, and no
other follows. That is the race of `handover_sleep`; the next event wakes the
machine.

<a id="proofs"></a>
## Proofs

All theorems hold for every value of the constants under the named assumptions
of the modules (`CallAssumption`: the pool has a place; `QueueAssumption`: the
capacity is positive, pointers are distinguishable from null and from garbage;
`HandoverAssumption`, `DispatcherAssumption`, `RegistrarAssumption`: bounds are
positive, the null values are no members of the sets they are used with;
`TextAssumption`: the texts that the program writes are texts;
`ConversionAssumption`: short numbers and ASCII texts are written as they are;
`AccountAssumption`: names are texts and stay so when they are read again,
memory is finite, and a file that the daemon finds at its first start has accounts
with different ids, or is torn; `GuiAssumption`: the threads are different ones).
Every safety invariant, action property and refinement that a passing run checks is
a theorem; each run shows on its instance what the theorem says of all.

`RingQueueProofs` assumes a capacity of at least two in its theorems; for one
the claims are false: `front` starts at 1 (`queue.c:47`), so a queue of one
element, which `maxevents = 1` in the configuration makes, first reads outside
of its array.

- `RingInvariant`: `TypeOK`, `IndicesAgree` and `OccupiedIsWritten`. Together
  they are inductive: a dequeue keeps the ring consistent because the indices
  agree, and it returns an element because occupied slots are written. The
  arithmetic of going around the ring is in lemmas about `Index` and
  `queue_succ`.
- `RingImplementsFifo`: `Spec => ImplementsFifo`. An enqueue appends to
  `Contents`, a dequeue takes its head.

`MessageHandoverProofs`, for any senders and messages and any capacity of at
least two

- `TypeCorrect`, and `NothingLost` (`Accounted`). The property speaks of moments
  at which nobody is in the queue; the invariant has to say what the ring holds
  in the middle of an enqueue and of a dequeue, which are several steps each.
  `Queued` is the number of messages as it will be when both are through, and
  `Agree` says that what a thread loaded of `size` is still its value, that
  `rear` and `front` enclose that many messages, and that these follow the
  handled ones. This needs that the lock works (`Exclusive`), because `Agree` is
  false as soon as two senders are in the queue, and that no enqueue met a
  dequeue: the worker has no lock, and `overlapped` is where the claim ends.

`CallMachineProofs`, of `CallLifecycle` first

- `LifecycleIsOrderly` (`CallLifecycle` as `Life`). That the words said so far are in order is not
  inductive: the invariant adds, per state, which words can have been said
  there (nothing in `CHECKING`, at most ringing in `INVITING`, and so on).
- `TypeCorrect`; its interesting part is that the pool keeps its bound.
- `MachineImplementsLifecycle`: each handler maps to its transition, each
  failure to `Abort`, everything else stutters. It needs `TypeOK` and that a
  machine in `FINAL` has stopped.
- `MachineIsOrderly` follows from the refinement and the theorem about
  `CallLifecycle`, instantiated for the machine.
- `AcceptedMeansAnswered`, `EndIsTold`, `NobodyIsStranded`, `VerdictStays` come
  from one inductive invariant `Inv`. All but the second speak of a pool that is
  not damaged. Beside the properties the invariant says that the
  pool is never ahead of the other party (`PoolIsTruthful`: an answer in the
  pool means that it was given, an end that it happened), that nobody outside
  knows of a call before its INVITE is sent (`NobodyKnowsYet`), that a machine
  in `TERMINATING` has ended the call for the other party or knew no dialog
  (`EndIsSettled`), and that a regular stop is in `FINAL` (`StopsInFinal`). None of
  the properties is inductive alone: `AcceptedOnlyIfAnswered` needs that the ACK
  in the pool is real, `NobodyStranded` that a CANCEL or BYE event is.

`EventDispatcherProofs`, for any number of slots and calls

- `TypeCorrect`, `SlotsAreExclusive`, `IdsAreUnique`, `NoEventMisses`,
  `RightMachineFound`, from one inductive invariant. That slots are exclusive
  rests on what is done under `queuesLock` (`LockHeld`: a dispatcher that takes a
  slot, a machine that sends its INVITE) and on what a creating dispatcher has
  made of its slot so far (`InTheMaking`). For the ids it adds that a call is new
  to the side that did not bring it until its slot carries the id (`Fresh`),
  that the slot of a machine carries the ids of its call and no other as soon
  as somebody can use them (`Named`), and that a filled slot has an owner
  (`Owned`). The two action properties follow: a search that finds nothing
  contradicts `Named`, one that finds the slot of another call contradicts
  `Named` and `Owned`. That `Min` returns a member of
  a set of positions is proved from the well-founded order of the naturals.

`RegistrarManagerProofs`, for any number of accounts, entries, threads and
registration ids

- `TypeCorrect`, `KeepersAreAlone`, `AnswersFit`, `FlagIsHonest`,
  `ToldIsGranted`. The types hold always (`Typed`, with the fact that no two
  entries have one registration id). All else holds until an unregistration and
  a registration thread have come to share an entry (`shared`). The invariant
  then divides the table (`Division`): each registration thread has an entry of
  its own with its account and its id (`Keepers`); unregistration threads meet
  neither each other nor, once they go past `waitStop`, a registration thread
  (`Parted`); an entry in use without a registration thread was shut down, a
  free one that nobody cleans is clean (`Abandoned`, `Unregisters`). So an entry
  that is taken has none of the flags of its former owner, and `Answers` can say
  what the flags mean: a registration thread waits for one answer at a time,
  only that one is on its way, and `isRegistered` stands for an answer that
  came (`Waits`, `Requests`). `Arrivals` says the same of `eventArrived`, as long
  as no answer came between the clearing of the two flags (`crossed`).

`ProgramProofs`, of `ThreadManagement` first (`ThreadAssumption`: finitely many
threads, which can be told apart from 0 and from a dead id, and a list with a place)

- `TypeCorrect`, `LateAreOvertaken`, `WaitIsABarrier`, for the thread management
  with an environment that starts and ends threads, waits and destroys at any
  time. One inductive invariant `Inv` for all three. Its core is counting:
  at most `activeThreads` threads run (`Counted`; failed creations count, so it is
  no equality), and each running thread has an entry, which is its only one
  (`Tabled`). So `activeThreads` = 0 at the end means that nothing runs but what
  was `overtaken`, and only helpers past their test can still start something:
  those are `overtaken` too (`Late`). `Waited` says that an awaited thread that is still listed
  stands at an entry that `join_threads` has not passed yet; at the end of the
  table there is none.

and of `Program` (`ProgramAssumption`: the kinds of threads are distinct)

- `ProgramTypeCorrect`, `ProgramLateAreOvertaken`, `ProgramWaitIsABarrier`: each
  step of `Program` keeps `Inv`, being a step of `ThreadManagement` or the end of
  the process.
- `PartsAreUp`: `NeededIsUp`, for any number of calls. Added to `Inv` are: what
  is up while `main` brings the parts up and waits, and that worker and server are
  not started yet (`ComingUp`, `Joining`), that a thread which runs has had a
  helper (`Helped`), and that no awaited thread works once parts are taken down,
  by the barrier (`Destroying`).

`AccountsProofs`, for any memory, files, names, ids and any number of readers

- `LayoutIsParsed`: the reader makes of a document that the writer wrote what was
  written, for every sequence of accounts and every text of the settings. It
  follows the nesting from the inside out: a part of the document is read in the
  same way wherever it stands (`Reads`), so parts can be put one after the other
  (`ReadOn`) and into an element (`ReadAround`). Only the list of accounts needs an
  induction over its length, which `Smallest` makes by the least counterexample.
- `TypeCorrect`, `FileStaysCurrent`. What is inductive is not the shape of `Chain`,
  the walk along `next`, but that some sequence of nodes without repetition agrees
  with `head`, `tail` and every link, and that no other node is allocated
  (`IsList`). `ChainIsList` says that the walk then returns this sequence. `Added`,
  `Removed`, `Kept` and `LinkedIsList` are `add_node`, `del_node`, a change of an
  attribute and the list that `cr_init` builds; `Removed` has the cases of
  `del_node`: the only node, the first, the last, one in the middle.
- `FaultsNeedChange` (`FaultsHaveCause`). The invariant `Reading` says that a reader
  whose list nobody shortened stands at its place in the list as it was, followed
  by what was created since (`InTheList`), and `Named` that an account without a
  name was not filled in since it was created.
- `ListIsTable` (`ImplementsTable`): each request maps to the same request to the
  table, what only a reader or the file sees to a stutter. That a new id is free
  needs `Numbered`: until the GUI overwrites an id, ids are distinct, the counter
  is above them, and the file, from which the next start counts, has distinct
  ids too.
- `SettingsAreKept` (`SettingsStay`), for any first file: the reader tests nothing,
  so the property speaks of the values that the writer has a form for
  (`Writable`), setting by setting. The others are why it is no more general: an
  unknown level becomes -1, is written as `LOG_FAILURE` and read as that, a number
  of ten digits loses one, a text that is not ASCII is read as another. The
  invariant `Remembered` is that file and memory mean the same for such values;
  `ReadAgain` that one of them survives being written.

`GuiLinkProofs`, for any number of GUIs, callback workers and pollers

- `TypeCorrect`: a thread is only where its program can be, with the URL and the
  reason that belong there.
- `LiveGuiIsKept` (`LiveGuiStays`), from the invariant `Inv`: the server leaves no URL
  in use while it changes it, and frees the one that it compared
  (`ServerOwnsURL`); all others drop the GUI because of a fault (`OnlyFaultsDrop`);
  while there is a fault, or somebody handles one, the registered GUI has failed
  a call or met a fault of an earlier one (`FaultsAreOfTheGui`).

Only model-checked: liveness (`HandledOrRaced`, `HangUpEndsCall`,
`RemoteHangUpEndsCall`, `NotStuckUnlessLeaked`, `UnregistrationEnds`,
`DestroyEnds`, `DeadGuiIsDropped`, `PollersEnd`), which is out of reach of the
prover.

<a id="findings"></a>
## What the checks found

Each is a run that must end in a violation, with the sentence of the
documentation that it contradicts in `PROJECT.json`.

- `handover_sleep`: the worker tests for emptiness, then locks and waits
  without a second test. A message that comes in between stays until the next.
- `call_dialog`: `update_transaction_and_dialog` drops the dialog id of the first
  event of a transaction. If the callee rings at once and then the user hangs
  up, no CANCEL is sent.
- `dispatcher_leak`: if the INVITE cannot be sent, the machine returns with
  `queuesLock` held, and both dispatchers stop at the next search.
- `registrar_blocked`: the registration thread takes `doShutdown` back before it
  sets `isShutdown`; a second unregistration that looks in between is not
  blocked, and two threads unregister the account and clear its entry.

Seen on the way, without a run of their own. The models have the steps that
lead there, unless the text says otherwise.

*Hand-over and dispatcher.* The worker dequeues without the lock of the senders:
an enqueue raises `size` before it writes the slot, so the worker can take a slot
that is not written yet; in `Program` this is why a dispatcher or worker may end
(`TakesGarbage`). A position found for one call is used when the slot may belong
to another (`event_dispatcher.c:401`). A search can find a slot that is not
filled in (`event_dispatcher.c:98` unlocks before the ids are assigned), which is
why `FoundIsRight` excepts raw slots. A dispatcher can use a slot that its machine
has just freed, which ends in `crashed`. `create_queue` clears a mark that
`ed_shutdown_all` set after the slot became visible (`event_dispatcher.c:109`).

*Registrar manager.* An unregistration that cannot be sent or reported leaves
its entry with `isShutdown`, so that the account can be neither registered nor
unregistered again; an entry is cleared without `accInfoLock`, so that a new
registration can lose its flags (`shared`). SIP stack and callbacks are called
with `accInfoLock` held.

*Threads and program.* A helper that passed its test just before `tm_destroy`
set the flag uses a destroyed lock and freed memory (`AddTooLate`). A failed
`pthread_create` is counted for ever, and `tm_destroy` never returns. `main` waits
only for threads that are listed three seconds after the start; others lose their
parts under them. Dispatchers and listener work before the callback queues
exist. A thread reads `haveCleaner[]` after it has left the list. Helpers, and
threads that ended before the wait, are never joined (not modelled: memory).

*Accounts and configuration.* Readers use accounts that the GUI deletes, without
a lock. An incoming call between the creation of an account and its first user
name compares with NULL, and so does `am_account_get`. A list of exactly the
maximum length is refused, which happens to leave room for one creation during
the copy. Ids are given again after a restart when the highest was deleted, and
an `"id"` that the GUI sets can be that of another account. A new account is
saved with the texts of another, because genx keeps the value before for a NULL.
`fclose(NULL)` follows a failed `fopen`. A crash during the write leaves a file
with which the daemon does not start. A flag that is neither `true` nor `false`
becomes -1 and is written as `true`, an unknown log level as `LOG_FAILURE`. A
number of ten digits is written without its last one (`config_writer.c:26`), and a
text that is not ASCII changes with each save and restart, being written in UTF-8
under the declaration of ISO-8859-1 (`config_writer.c:79`).

*GUI link.* A refused unregistration stops the pollers all the same. A new
registration adds a second poller, and a poller that starts takes back the order
to stop. With one XML-RPC environment a thread handles or clears the fault of
another: a GUI that answers is dropped, or the result of a failed call is read.
An unregistration on request and one after a fault can free the address twice. A
GUI that registers while a fault is handled, or while a call to the GUI before
is under way that then fails, is dropped in place of the old one. A GUI
whose poller could not be started is told `ERROR` but stays registered; one that
answers `false` to a poll loses its poller but stays registered.

*Logger* (not modelled). `log_message` keeps `logFileLock` when the log file
cannot be opened (`logger.c:98`).

<a id="not-modelled"></a>
## Not modelled

- The order of callbacks across workers: `incomingCall` and `changeCallStatus` of
  one call have a queue and a worker each, and nothing orders them.
- What is in the pool of a machine after two threads were in it at once:
  `CallMachine` lets it give anything.
- The call id generator, a counter under a lock: `EventDispatcher` numbers calls.
- The logger, and the marshalling of XML-RPC and SIP messages: sequential
  conversion of data, most of it by third-party libraries. Volume and DTMF are
  stubs that do nothing.
- The shutdown message of the dispatchers and of the callback workers: they
  would end on one (`doShutdown`), but nothing ever sends it, `ed_destroy` and
  `go_destroy` included.
- What a thread does after an access to freed memory or a destroyed lock: the
  models stop there.
- The RTP test program, the example GUI, the Perl tool and the pthread demos: not
  part of the daemon.
