------------------------------- MODULE Accounts -------------------------------
(* The accounts of the daemon (accounts/account_management.c), the linked  *)
(* list that holds them (util/list/list.c) and the file that keeps them    *)
(* (Configuration).  The GUI sends one request after the other; threads of *)
(* the core read the list meanwhile, without a lock: autoregistration      *)
(* threads and the machines of incoming calls, both through                *)
(* am_get_all_accounts.  One attribute, name, stands for the eight texts   *)
(* of an account.  What the program does after a fault (an access to freed *)
(* or foreign memory or through NULL) is not modelled: fault says that it  *)
(* came to that, and the daemon is started again.                          *)
EXTENDS Integers, FiniteSets, Configuration

CONSTANTS Node,     \* the memory for nodes of the list and their accounts
          NULL,     \* the null pointer
          Free,     \* a node that is not allocated
          Reader,   \* threads of the core that read the accounts
          Name,     \* values of name, as text
          Empty,    \* the empty text
          Unset,    \* name of a new account (NULL)
          Torn,     \* a file that is not written to its end
          Files,    \* files that the daemon may find at its first start
          MaxAmount, \* config...maxAccountIdAmount
          MaxId,    \* bound of the account ids, which are printed in full
          MaxUnsaved \* bound of the accounts that are set and not saved

Id == 1..MaxId
File == [text : [Setting -> Text], accounts : Seq([id : Id, name : Name])]

\* A file that the daemon finds was written by it, or by hand to its likeness.
ASSUME AccountAssumption ==
  /\ MaxAmount \in Nat \ {0} /\ MaxId \in Nat
  /\ Name \subseteq Text /\ \A v \in Name : Recoded[v] \in Name
  /\ Empty \in Name /\ Unset \notin Name /\ NULL \notin Node /\ IsFiniteSet(Node)
  /\ Free \notin [id : Id, name : Name \cup {Unset},
                  prev : Node \cup {NULL}, next : Node \cup {NULL}]
  /\ Torn \notin File
  /\ \A f \in Files \ {Torn} :
        /\ f \in File
        /\ \A i, j \in DOMAIN f.accounts :
              f.accounts[i].id = f.accounts[j].id => i = j

VARIABLES up, head, tail, heap, id,  \* the daemon runs; list.c; the id counter
          config,   \* the settings
          file,     \* the texts of the settings and accounts on the disk
          request,  \* what is left to do of the request of the GUI
          reader,   \* the reading threads
          fault,    \* how an access went wrong: a kind and a thread
          renamed,  \* the GUI has set an attribute "id"
          unsaved,  \* nodes whose account was changed since the last save
          fresh     \* nodes whose account was created and not named since

list == <<head, tail, heap>>
vars == <<up, head, tail, heap, id, config, file, request, reader, fault,
          renamed, unsaved, fresh>>

NoConfig == <<>>   \* the settings before the file was read
Allocated == {p \in Node : heap[p] # Free}

\* The nodes from head along next.
Chain ==
  LET from[k \in 0..Cardinality(Node)] ==
        [p \in Node \cup {NULL} |->
           IF p = NULL \/ k = 0 THEN <<>>
           ELSE IF heap[p] = Free THEN <<p>>
           ELSE <<p>> \o from[k - 1][heap[p].next]]
  IN from[Cardinality(Node)][head]

\* The accounts in the order of the list.
Contents ==
  LET c == Chain
  IN [i \in DOMAIN c |-> [id |-> heap[c[i]].id, name |-> heap[c[i]].name]]

get_node(n) ==
  LET hit == SelectInSeq(Contents, LAMBDA a : a.id = n)
  IN IF hit = 0 THEN NULL ELSE Chain[hit]

\* Plausible mistake in am_get_max_id: the last account has the highest id.
am_get_max_id_last == IF tail = NULL THEN 0 ELSE heap[tail].id

am_get_max_id ==
  Max({a.id : a \in Range(Contents)} \cup {0})

Resting == [pc |-> "idle", at |-> NULL, len |-> 0, got |-> <<>>, byName |-> FALSE,
            created |-> 0, deleted |-> FALSE]

Init ==
  /\ up = FALSE /\ head = NULL /\ tail = NULL /\ heap = [p \in Node |-> Free]
  /\ id = 0 /\ config = NoConfig /\ file \in Files
  /\ request = "none" /\ reader = [r \in Reader |-> Resting]
  /\ fault = <<"none", NULL>> /\ renamed = FALSE
  /\ unsaved = {} /\ fresh = {}
-----------------------------------------------------------------------------
(* Start and end                                                           *)

\* add_node for each element that parse_account sees: a list of these cells.
Linked(cells, accounts) ==
  [p \in Node |->
     IF p \notin Range(cells) THEN Free
     ELSE LET i == CHOOSE i \in DOMAIN cells : cells[i] = p
          IN [id |-> accounts[i].id, name |-> accounts[i].name,
              prev |-> IF i = 1 THEN NULL ELSE cells[i - 1],
              next |-> IF i = Len(cells) THEN NULL ELSE cells[i + 1]]]

\* cr_init refuses a torn file, and main ends.
cr_init ==
  /\ ~up /\ file # Torn
  /\ LET read == Parsed(Layout(file.text, file.accounts), NoConfig)
     IN /\ config' = read.config
        /\ \E cells \in [DOMAIN read.accounts -> Node] :
              /\ IsInjective(cells)
              /\ heap' = Linked(cells, read.accounts)
              /\ head' = IF cells = <<>> THEN NULL ELSE Head(cells)
              /\ tail' = IF cells = <<>> THEN NULL ELSE Last(cells)
  /\ id' = am_get_max_id'
  /\ up' = TRUE /\ fault' = <<"none", NULL>>
  /\ UNCHANGED <<file, request, reader, renamed, unsaved, fresh>>

\* The memory is gone; a file that was being written stays as far as it got.
Gone ==
  /\ up' = FALSE /\ head' = NULL /\ tail' = NULL /\ heap' = [p \in Node |-> Free]
  /\ id' = 0 /\ request' = "none" /\ reader' = [r \in Reader |-> Resting]
  /\ unsaved' = {} /\ fresh' = {}
  /\ UNCHANGED <<config, file, renamed>>

\* The end of the program, by cr_destroy or without it: nothing is saved.
Crash == up /\ Gone /\ UNCHANGED fault

Fault(kind, who) == Gone /\ fault' = <<kind, who>>
-----------------------------------------------------------------------------
(* Requests of the GUI                                                     *)

Serves == up /\ request = "none"

add_node(p, account) ==
  /\ head' = IF head = NULL THEN p ELSE head
  /\ tail' = p
  /\ heap' = [q \in Node |->
                IF q = p THEN [id |-> account.id, name |-> account.name,
                               prev |-> tail, next |-> NULL]
                ELSE IF q = tail THEN [heap[q] EXCEPT !.next = p] ELSE heap[q]]

am_account_create ==
  /\ Serves /\ id < MaxId
  /\ \E p \in Node \ Allocated :
        /\ add_node(p, [id |-> id + 1, name |-> Unset])
        /\ fresh' = fresh \cup {p} /\ unsaved' = unsaved \cup {p}
  /\ id' = id + 1
  /\ reader' = [r \in Reader |->
                  [reader[r] EXCEPT !.created = IF @ < 2 THEN @ + 1 ELSE @]]
  /\ request' = "save"
  /\ UNCHANGED <<up, config, file, fault, renamed>>

\* Plausible mistake in del_node: the new head keeps its prev.
del_node_head(dn) ==
  LET n == heap[dn]
      relinked == [q \in Node |->
                     IF q = n.prev THEN [heap[q] EXCEPT !.next = n.next]
                     ELSE IF q = n.next /\ dn # head
                          THEN [heap[q] EXCEPT !.prev = n.prev]
                     ELSE heap[q]]
  IN /\ head' = IF dn = head THEN n.next ELSE head
     /\ tail' = IF dn = tail THEN n.prev ELSE tail
     /\ heap' = [relinked EXCEPT ![dn] = Free]

\* The list without the node dn, whose memory is given back.
del_node(dn) ==
  LET n == heap[dn]
      alone == Len(Chain) = 1
      relinked == [q \in Node |->
                     IF q = n.prev THEN [heap[q] EXCEPT !.next = n.next]
                     ELSE IF q = n.next THEN [heap[q] EXCEPT !.prev = n.prev]
                     ELSE heap[q]]
  IN /\ head' = IF alone THEN NULL ELSE IF dn = head THEN n.next ELSE head
     /\ tail' = IF alone THEN NULL ELSE IF dn = tail THEN n.prev ELSE tail
     /\ heap' = [relinked EXCEPT ![dn] = Free]

\* Plausible mistake in am_account_delete: the file is not written.
am_account_delete_unsaved ==
  /\ Serves
  /\ \E n \in Id :
        LET dn == get_node(n)
        IN /\ dn # NULL /\ del_node(dn)
           /\ reader' = [r \in Reader |-> [reader[r] EXCEPT !.deleted = TRUE]]
           /\ unsaved' = unsaved \ {dn} /\ fresh' = fresh \ {dn}
  /\ UNCHANGED <<up, id, config, file, request, fault, renamed>>

\* An unknown id deletes nothing, and the file is written all the same.
am_account_delete ==
  /\ Serves
  /\ \E n \in Id :
        LET dn == get_node(n)
        IN IF dn = NULL THEN UNCHANGED <<list, reader, unsaved, fresh>>
           ELSE /\ del_node(dn)
                /\ reader' = [r \in Reader |-> [reader[r] EXCEPT !.deleted = TRUE]]
                /\ unsaved' = unsaved \ {dn} /\ fresh' = fresh \ {dn}
  /\ request' = "save"
  /\ UNCHANGED <<up, id, config, file, fault, renamed>>

\* A value of NULL is stored as the empty text.
Stored(v) == IF v = Unset THEN Empty ELSE v

am_account_set ==
  /\ Serves /\ Cardinality(unsaved) < MaxUnsaved
  /\ \E n \in Id, v \in Name \cup {Unset} :
        LET p == get_node(n)
        IN /\ p # NULL
           /\ heap' = [heap EXCEPT ![p].name = Stored(v)]
           /\ unsaved' = unsaved \cup {p} /\ fresh' = fresh \ {p}
  /\ UNCHANGED <<up, head, tail, id, config, file, request, reader, fault, renamed>>

\* The counter id takes no notice of an id that is set (once, as a bound).
SetId ==
  /\ Serves /\ Cardinality(unsaved) < MaxUnsaved /\ ~renamed
  /\ \E n, m \in Id :
        LET p == get_node(n)
        IN /\ p # NULL
           /\ heap' = [heap EXCEPT ![p].id = m]
           /\ unsaved' = unsaved \cup {p}
  /\ renamed' = TRUE
  /\ UNCHANGED <<up, head, tail, id, config, file, request, reader, fault, fresh>>

\* strncpy from an attribute that was never set.
am_account_get ==
  /\ Serves
  /\ \E p \in Range(Chain) : /\ p = get_node(heap[p].id) /\ heap[p].name = Unset
                             /\ Fault("unset", p)

am_account_save ==
  /\ Serves /\ request' = "save"
  /\ UNCHANGED <<up, list, id, config, file, reader, fault, renamed, unsaved, fresh>>

\* fopen with "w" empties the file.
OpenFile ==
  /\ up /\ request = "save"
  /\ file' = Torn /\ request' = "write"
  /\ UNCHANGED <<up, list, id, config, reader, fault, renamed, unsaved, fresh>>

\* fclose of the NULL that fopen returned.
OpenFails == up /\ request = "save" /\ Fault("close", NULL)

\* genx writes, for a value of NULL, what the attribute held before.
Held(accounts) ==
  {[i \in DOMAIN accounts |-> [id |-> accounts[i].id, name |-> Recoded[names[i]]]] :
     names \in {f \in [DOMAIN accounts -> Name] :
                  \A i \in DOMAIN accounts : accounts[i].name \in {f[i], Unset}}}

WriteFile ==
  /\ up /\ request = "write"
  /\ \E held \in Held(Contents) : file' = [text |-> Texts(config), accounts |-> held]
  /\ request' = "none" /\ unsaved' = {}
  /\ UNCHANGED <<up, list, id, config, reader, fault, renamed, fresh>>
-----------------------------------------------------------------------------
(* The readers: am_get_all_accounts and the use of what it returns         *)

Step(r, change) ==
  /\ reader' = [reader EXCEPT ![r] = change]
  /\ UNCHANGED <<up, list, id, config, file, request, fault, renamed, unsaved, fresh>>

At(r, pc) == up /\ reader[r].pc = pc

BeginCount(r) ==
  /\ At(r, "idle")
  /\ Step(r, [Resting EXCEPT !.pc = "count", !.at = head])

\* get_length
Count(r) ==
  /\ At(r, "count") /\ reader[r].at # NULL
  /\ IF heap[reader[r].at] = Free THEN Fault("freed", r)
     ELSE Step(r, [reader[r] EXCEPT !.at = heap[@].next, !.len = @ + 1])

\* Plausible mistake in Fits: a list of exactly the maximum length is copied.
Fits_full(len) == len <= MaxAmount

Fits(len) == len < MaxAmount

Counted(r) ==
  /\ At(r, "count") /\ reader[r].at = NULL
  /\ IF Fits(reader[r].len)
     THEN Step(r, [reader[r] EXCEPT !.pc = "copy", !.at = head])
     ELSE Step(r, Resting)

Copy(r) ==
  /\ At(r, "copy") /\ reader[r].at # NULL
  /\ IF heap[reader[r].at] = Free THEN Fault("freed", r)
     ELSE IF Len(reader[r].got) = MaxAmount THEN Fault("past", r)
     ELSE Step(r, [reader[r] EXCEPT !.got = Append(@, reader[r].at),
                                    !.at = heap[@].next])

Copied(r) ==
  /\ At(r, "copy") /\ reader[r].at = NULL
  /\ \E byName \in BOOLEAN :
        Step(r, [reader[r] EXCEPT !.pc = "use", !.byName = byName])

\* The account at the front: its id is taken (autoregistration_thread), or its
\* name is compared (am_get_account_by_callee_uri).
Use(r) ==
  /\ At(r, "use") /\ reader[r].len > 0
  /\ LET got == reader[r].got
     IN IF got = <<>> THEN Fault("missing", r)
        ELSE IF heap[Head(got)] = Free THEN Fault("freed", r)
        ELSE IF reader[r].byName /\ heap[Head(got)].name = Unset
             THEN Fault("unset", Head(got))
        ELSE \/ Step(r, [reader[r] EXCEPT !.got = Tail(@), !.len = @ - 1])
             \/ reader[r].byName /\ Step(r, Resting)  \* that of the callee

Used(r) == At(r, "use") /\ reader[r].len = 0 /\ Step(r, Resting)
-----------------------------------------------------------------------------
GuiStep == \/ am_account_create \/ am_account_delete \/ am_account_set \/ SetId
           \/ am_account_get \/ am_account_save
           \/ OpenFile \/ OpenFails \/ WriteFile
ReaderStep(r) == \/ BeginCount(r) \/ Count(r) \/ Counted(r) \/ Copy(r)
                 \/ Copied(r) \/ Use(r) \/ Used(r)

Next == cr_init \/ Crash \/ GuiStep \/ \E r \in Reader : ReaderStep(r)

Spec == Init /\ [][Next]_vars
-----------------------------------------------------------------------------
(* Properties                                                              *)

\* The variables have their types, and the links of the list agree: next
\* leads from head to tail, prev the same way back, and every node that is
\* not on this way has been given back.
TypeOK ==
  /\ up \in BOOLEAN /\ renamed \in BOOLEAN /\ id \in 0..MaxId
  /\ request \in {"none", "save", "write"}
  /\ \A p \in Allocated : heap[p].id \in Id /\ heap[p].name \in Name \cup {Unset}
  /\ LET nodes == Chain
     IN /\ Range(nodes) = Allocated
        /\ head = IF nodes = <<>> THEN NULL ELSE Head(nodes)
        /\ tail = IF nodes = <<>> THEN NULL ELSE Last(nodes)
        /\ \A i \in DOMAIN nodes :
              heap[nodes[i]].prev = IF i = 1 THEN NULL ELSE nodes[i - 1]

\* The list, with its next and prev links and the counter of ids, behaves as
\* the table of accounts that the GUI and the core see: accounts in the order
\* of their creation, a new id for each that is created, and no account that
\* changes or disappears with another (add_node, get_node, del_node).
Table ==
  INSTANCE AccountTable WITH
    table <- IF up THEN Contents ELSE <<>>
ImplementsTable == Table!Spec

\* The file has a text as it was read at the start, or as it was written since.
InFile(name, text) == name = Unset \/ text \in {name, Recoded[name]}

\* Between two requests the file holds exactly the accounts of the list, in
\* its order, and every text that was not set since, as far as the encoding
\* leaves it; so these, and no others, are there after a crash.
FileIsCurrent ==
  up /\ request = "none" =>
    /\ file # Torn
    /\ LET nodes == Chain
           saved == file.accounts
       IN /\ Len(saved) = Len(nodes)
          /\ \A i \in DOMAIN nodes :
                nodes[i] \in unsaved
                \/ /\ saved[i].id = heap[nodes[i]].id
                   /\ InFile(heap[nodes[i]].name, saved[i].name)

\* Without a lock the readers are safe as long as the GUI leaves the list
\* alone: they meet freed memory, or pointers that were not copied, only if
\* an account was deleted while they read, run past the end of their array
\* only if one was deleted or two were created, and meet a missing text only
\* in an account that was created and not filled in yet.
FaultsHaveCause ==
  [][LET kind == fault'[1]
         who == fault'[2]
     IN Gone /\ kind # "none" =>
          /\ kind \in {"freed", "missing"} => reader[who].deleted
          /\ kind = "past" => reader[who].deleted \/ reader[who].created = 2
          /\ kind = "unset" => who \in fresh]_<<up, fault>>

\* The settings are written with the accounts, at every request that changes
\* one.  After a restart each setting whose value the document has a form for
\* means the same as before, whatever became of the others.
SettingsStay ==
  [][config' # config /\ config # NoConfig =>
       \A s \in Setting : config[s] \in Writable(s) =>
                             Meaning(s, config'[s]) = Meaning(s, config[s])]_config
=============================================================================
