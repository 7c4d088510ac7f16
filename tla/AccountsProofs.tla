---------------------------- MODULE AccountsProofs ----------------------------
(* Proofs about Accounts and Configuration, for memory, readers, names,    *)
(* ids and files of any number: what the configuration reader makes of a   *)
(* document that the writer wrote, and what holds of the list of accounts, *)
(* of the file and of the readers in every reachable state.                *)
EXTENDS Accounts, NaturalsInduction, SequenceTheorems, FiniteSetTheorems, TLAPS

\* A property of numbers that holds whenever it holds for all smaller ones.
LEMMA Smallest ==
  ASSUME NEW S \in SUBSET Nat, S # {}
  PROVE  \E n \in S : \A m \in S : n <= m
<1>1. PICK n \in S : \A m \in S : ~(<<m, n>> \in OpToRel(<, Nat))
  BY NatLessThanWellFounded, WFMin
<1>2. ASSUME NEW m \in S
      PROVE  n <= m
  <2>1. m < n => <<m, n>> \in OpToRel(<, Nat)
    BY DEF OpToRel
  <2>2. ~(m < n)
    BY <1>1, <2>1, Zenon
  <2> QED  BY <2>2
<1> QED  BY <1>2

-----------------------------------------------------------------------------
(* Reading a document *)

First(settings) == [within |-> {}, config |-> settings, accounts |-> <<>>]

\* The tags s take the reader from r to t.
Trace(f, s, r, t) ==
  /\ f = [k \in 0 .. Len(s) |-> f[k]]
  /\ f[0] = r /\ f[Len(s)] = t
  /\ \A k \in 1 .. Len(s) : f[k] = Handle(f[k - 1], s[k])

Reads(T, s, r, t) == s \in Seq(T) /\ \E f : Trace(f, s, r, t)

LEMMA ParsedIsRead ==
  ASSUME NEW T, NEW s, NEW settings, NEW t, Reads(T, s, First(settings), t)
  PROVE  Parsed(s, settings) = t
<1> DEFINE D == 0 .. Len(s)
           Is(f) == f = [k \in 0 .. Len(s) |->
                           IF k = 0 THEN [within |-> {}, config |-> settings, accounts |-> <<>>]
                           ELSE Handle(f[k - 1], s[k])]
           h == CHOOSE f : Is(f)
<1>0. Len(s) \in Nat
  BY LenProperties DEF Reads
<1>1. PICK g : Trace(g, s, First(settings), t)
  BY DEF Reads
<1>2. Is(g)
  BY <1>0, <1>1 DEF Trace, First
<1>3. Is(h)
  BY <1>2
<1>4. Parsed(s, settings) = h[Len(s)]
  BY DEF Parsed
<1> HIDE DEF h
<1>5. \A k \in D : h[k] = g[k]
  <2> DEFINE Bad == {k \in D : h[k] # g[k]}
  <2> SUFFICES ASSUME Bad # {}
               PROVE  FALSE
    OBVIOUS
  <2>0. Bad \in SUBSET Nat
    BY <1>0
  <2>1. PICK k \in Bad : \A m \in Bad : k <= m
    BY <2>0, Smallest
  <2>2. CASE k = 0
    BY <1>0, <1>2, <1>3, <2>2
  <2>3. CASE k # 0
    <3>1. k - 1 \in D /\ k - 1 \notin Bad /\ k \in D
      BY <1>0, <2>1, <2>3
    <3>2. h[k - 1] = g[k - 1]
      BY <3>1
    <3>3. h[k] = Handle(h[k - 1], s[k]) /\ g[k] = Handle(g[k - 1], s[k])
      BY <1>2, <1>3, <2>3, <3>1
    <3> QED  BY <2>1, <3>2, <3>3
  <2> QED  BY <2>2, <2>3
<1> QED  BY <1>0, <1>1, <1>4, <1>5 DEF Trace

LEMMA ReadNone ==
  ASSUME NEW T, NEW r
  PROVE  Reads(T, <<>>, r, r)
<1> DEFINE f == [k \in 0 .. 0 |-> r]
<1>1. <<>> \in Seq(T) /\ Len(<<>>) = 0
  BY EmptySeq
<1>2. Trace(f, <<>>, r, r)
  BY <1>1 DEF Trace
<1> QED  BY <1>1, <1>2 DEF Reads

LEMMA ReadTag ==
  ASSUME NEW T, NEW tag \in T, NEW r
  PROVE  Reads(T, <<tag>>, r, Handle(r, tag))
<1> DEFINE f == [k \in 0 .. 1 |-> IF k = 0 THEN r ELSE Handle(r, tag)]
<1>1. <<tag>> \in Seq(T) /\ Len(<<tag>>) = 1 /\ <<tag>>[1] = tag
  OBVIOUS
<1>2. Trace(f, <<tag>>, r, Handle(r, tag))
  BY <1>1 DEF Trace
<1> QED  BY <1>1, <1>2 DEF Reads

LEMMA ReadOn ==
  ASSUME NEW T, NEW s, NEW u, NEW r, NEW t, NEW v,
         Reads(T, s, r, t), Reads(T, u, t, v)
  PROVE  Reads(T, s \o u, r, v)
<1>1. PICK f : Trace(f, s, r, t)
  BY DEF Reads
<1>2. PICK g : Trace(g, u, t, v)
  BY DEF Reads
<1> DEFINE m == Len(s)
           n == Len(u)
           h == [k \in 0 .. Len(s \o u) |-> IF k <= m THEN f[k] ELSE g[k - m]]
<1>3. /\ s \in Seq(T) /\ u \in Seq(T) /\ s \o u \in Seq(T) /\ m \in Nat /\ n \in Nat
      /\ Len(s \o u) = m + n
      /\ \A k \in 1 .. m + n : (s \o u)[k] = IF k <= m THEN s[k] ELSE u[k - m]
  BY LenProperties, ConcatProperties DEF Reads
<1>4. h[0] = r /\ h[m + n] = v
  BY <1>1, <1>2, <1>3 DEF Trace
<1>5. ASSUME NEW k \in 1 .. m + n
      PROVE  h[k] = Handle(h[k - 1], (s \o u)[k])
  <2>1. CASE k <= m
    <3>1. k \in 1 .. m /\ h[k] = f[k] /\ h[k - 1] = f[k - 1] /\ (s \o u)[k] = s[k]
      BY <1>3, <1>5, <2>1
    <3> QED  BY <1>1, <3>1 DEF Trace
  <2>2. CASE k > m /\ k # m + 1
    <3>1. /\ k - m \in 1 .. n /\ h[k] = g[k - m] /\ h[k - 1] = g[(k - m) - 1]
          /\ (s \o u)[k] = u[k - m]
      BY <1>3, <1>5, <2>2
    <3> QED  BY <1>2, <3>1 DEF Trace
  <2>3. CASE k = m + 1
    <3>1. 1 \in 1 .. n /\ h[k] = g[1] /\ h[k - 1] = f[m] /\ (s \o u)[k] = u[1]
      BY <1>3, <1>5, <2>3
    <3>2. g[1] = Handle(g[1 - 1], u[1])
      BY <1>2, <3>1 DEF Trace
    <3> QED  BY <1>1, <1>2, <3>1, <3>2 DEF Trace
  <2> QED  BY <1>3, <2>1, <2>2, <2>3
<1> QED  BY <1>3, <1>4, <1>5 DEF Reads, Trace

\* The reader inside of the elements W, with the settings of the elements S of
\* these texts.
Known(text, S) == [s \in {x \in Setting : x[1] \in S} |-> Read(TypeOf(s), text[s])]
Inside(text, W, S, accounts) ==
  [within |-> W, config |-> Known(text, S), accounts |-> accounts]

Leaf(text, name) ==
  Element(name, [a \in DOMAIN Attributes[name] |-> text[<<name, a>>]])

LEMMA NothingMore ==
  ASSUME NEW text, NEW S
  PROVE  With(Known(text, S), <<>>) = Known(text, S)
<1>1. DOMAIN <<>> = {}
  OBVIOUS
<1> QED  BY <1>1 DEF With, Known

LEMMA ReadAround ==
  ASSUME NEW T, NEW text, NEW W, NEW V, NEW S, NEW S2, NEW a, NEW b, NEW name, NEW inner,
         name \notin DOMAIN Attributes, name # "account", name \notin W, V = W \cup {name},
         name = "config" \/ (name \in DOMAIN Parent /\ Parent[name] \in W),
         Start(name, <<>>) \in T, End(name) \in T,
         Reads(T, inner, Inside(text, V, S, a), Inside(text, V, S2, b))
  PROVE  Reads(T, Around(name, inner), Inside(text, W, S, a), Inside(text, W, S2, b))
<1> DEFINE r == Inside(text, W, S, a)
           t == Inside(text, V, S2, b)
<1>1. Handle(r, Start(name, <<>>)) = Inside(text, V, S, a)
  BY NothingMore DEF Handle, Start, cr_elem_start, Expected, Outermost, Assigned, Inside
<1>2. Handle(t, End(name)) = Inside(text, W, S2, b)
  BY DEF Handle, End, cr_elem_end, Expected, Outermost, Inside
<1>3. Reads(T, <<Start(name, <<>>)>>, r, Inside(text, V, S, a))
  BY <1>1, ReadTag
<1>4. Reads(T, <<End(name)>>, t, Inside(text, W, S2, b))
  BY <1>2, ReadTag
<1>5. Reads(T, <<Start(name, <<>>)>> \o inner, r, t)
  BY <1>3, ReadOn
<1>6. Reads(T, (<<Start(name, <<>>)>> \o inner) \o <<End(name)>>, r, Inside(text, W, S2, b))
  BY <1>4, <1>5, ReadOn
<1> QED  BY <1>6 DEF Around

LEMMA TwoTags ==
  ASSUME NEW x, NEW y
  PROVE  <<x>> \o <<y>> = <<x, y>>
<1>1. <<x>> \in Seq({x, y}) /\ <<y>> \in Seq({x, y}) /\ <<x, y>> \in Seq({x, y})
  OBVIOUS
<1>2. <<x>> \o <<y>> \in Seq({x, y})
  BY <1>1, ConcatProperties
<1>3. Len(<<x>> \o <<y>>) = Len(<<x, y>>)
  BY <1>1, ConcatProperties
<1>4. \A i \in 1 .. Len(<<x, y>>) : (<<x>> \o <<y>>)[i] = <<x, y>>[i]
  BY <1>1, ConcatProperties
<1> QED  BY <1>1, <1>2, <1>3, <1>4, SeqEqual

LEMMA ReadLeaf ==
  ASSUME NEW T, NEW text, NEW W, NEW S, NEW S2, NEW a, NEW name \in DOMAIN Attributes,
         name # "account", name \notin W, S2 = S \cup {name},
         name \in DOMAIN Parent, Parent[name] \in W,
         Start(name, [x \in DOMAIN Attributes[name] |-> text[<<name, x>>]]) \in T,
         End(name) \in T
  PROVE  Reads(T, Leaf(text, name), Inside(text, W, S, a), Inside(text, W, S2, a))
<1> DEFINE attr == [x \in DOMAIN Attributes[name] |-> text[<<name, x>>]]
           r == Inside(text, W, S, a)
           t == Inside(text, W \cup {name}, S2, a)
<1>1. With(Known(text, S), Assigned(Start(name, attr))) = Known(text, S2)
  <2>1. Assigned(Start(name, attr))
          = [s \in {x \in Setting : x[1] = name} |-> Read(TypeOf(s), text[s])]
    <3>1. {<<name, x>> : x \in DOMAIN attr} \cap Setting = {x \in Setting : x[1] = name}
      BY DEF Setting
    <3>2. ASSUME NEW s \in {<<name, x>> : x \in DOMAIN attr}
          PROVE  attr[s[2]] = text[s]
      OBVIOUS
    <3> QED  BY <3>1, <3>2 DEF Assigned, Start
  <2> QED  BY <2>1 DEF With, Known
<1>2. Handle(r, Start(name, attr)) = t
  <2> HIDE DEF attr
  <2> QED  BY <1>1 DEF Handle, Start, cr_elem_start, Expected, Inside
<1>3. Handle(t, End(name)) = Inside(text, W, S2, a)
  BY DEF Handle, End, cr_elem_end, Expected, Inside
<1>4. Reads(T, <<Start(name, attr)>>, r, t)
  BY <1>2, ReadTag
<1>5. Reads(T, <<End(name)>>, t, Inside(text, W, S2, a))
  BY <1>3, ReadTag
<1>6. Reads(T, <<Start(name, attr)>> \o <<End(name)>>, r, Inside(text, W, S2, a))
  BY <1>4, <1>5, ReadOn
<1> QED  BY <1>6, TwoTags DEF Leaf, Element

\* What FlattenSeq computes on its way.
LEMMA Flattened ==
  ASSUME NEW seqs, NEW n \in Nat \ {0}, Len(seqs) = n
  PROVE  \E f : /\ f[1] = seqs[1] /\ FlattenSeq(seqs) = f[n]
                /\ \A i \in 2 .. n : f[i] = f[i - 1] \o seqs[i]
<1> DEFINE Is(f, m) == f = [i \in 1 .. m |-> IF i = 1 THEN seqs[i] ELSE f[i - 1] \o seqs[i]]
           Bad == {m \in 1 .. n : ~\E f : Is(f, m)}
           h == CHOOSE f : Is(f, n)
<1>1. Bad = {}
  <2> SUFFICES ASSUME Bad # {}
               PROVE  FALSE
    OBVIOUS
  <2>0. Bad \in SUBSET Nat
    <3> HIDE DEF Is
    <3> QED  OBVIOUS
  <2>1. PICK m \in Bad : \A k \in Bad : m <= k
    <3> HIDE DEF Bad
    <3> QED  BY <2>0, Smallest
  <2>a. m \in 1 .. n
    OBVIOUS
  <2>2. CASE m = 1
    <3> DEFINE g == [i \in 1 .. 1 |-> seqs[i]]
    <3>1. Is(g, 1)
      OBVIOUS
    <3> QED  BY <2>1, <2>2, <3>1
  <2>3. CASE m # 1
    <3>0. m \in Nat /\ m > 1 /\ m - 1 \in 1 .. n
      BY <2>a, <2>3
    <3>1. m - 1 \notin Bad
      <4> HIDE DEF Bad
      <4> QED  BY <2>1, <3>0
    <3>2. PICK f : Is(f, m - 1)
      BY <3>0, <3>1
    <3> DEFINE g == [i \in 1 .. m |-> IF i < m THEN f[i] ELSE f[m - 1] \o seqs[m]]
    <3>3. \A i \in 1 .. m - 1 : f[i] = IF i = 1 THEN seqs[i] ELSE f[i - 1] \o seqs[i]
      BY <3>2
    <3>4. \A i \in 1 .. m : g[i] = IF i = 1 THEN seqs[i] ELSE g[i - 1] \o seqs[i]
      <4> TAKE i \in 1 .. m
      <4>1. CASE i < m
        <5>1. i \in 1 .. m - 1 /\ g[i] = f[i]
          BY <3>0, <4>1
        <5>2. i # 1 => g[i - 1] = f[i - 1]
          BY <3>0, <4>1
        <5> QED  BY <3>3, <5>1, <5>2
      <4>2. CASE i = m
        BY <3>0, <4>2
      <4> QED  BY <3>0, <4>1, <4>2
    <3>5. Is(g, m)
      <4>1. g = [i \in 1 .. m |-> g[i]]
        OBVIOUS
      <4> HIDE DEF g
      <4> QED  BY <3>4, <4>1
    <3> QED  BY <2>1, <3>5
  <2> QED  BY <2>2, <2>3
<1>2. Is(h, n)
  <2>1. n \in 1 .. n
    OBVIOUS
  <2>2. \E f : Is(f, n)
    <3> HIDE DEF Is
    <3> QED  BY <1>1, <2>1
  <2> QED  BY <2>2
<1>3. FlattenSeq(seqs) = h[n]
  BY DEF FlattenSeq
<1> HIDE DEF h
<1>4. h[1] = seqs[1]
  <2>1. 1 \in 1 .. n
    OBVIOUS
  <2> QED  BY <1>2, <2>1
<1>5. ASSUME NEW i \in 2 .. n
      PROVE  h[i] = h[i - 1] \o seqs[i]
  <2>1. i \in 1 .. n /\ i # 1
    OBVIOUS
  <2> QED  BY <1>2, <2>1
<1> QED  BY <1>3, <1>4, <1>5

LEMMA ReadAccount ==
  ASSUME NEW T, NEW text, NEW W, NEW S, NEW a, NEW account,
         "list" \in W, "account" \notin W,
         Start("account", account) \in T, End("account") \in T
  PROVE  Reads(T, Element("account", account), Inside(text, W, S, a),
               Inside(text, W, S, Append(a, account)))
<1> DEFINE r == Inside(text, W, S, a)
           t == Inside(text, W, S, Append(a, account))
<1>0. "account" \in DOMAIN Parent /\ Parent["account"] = "list"
  BY DEF Parent
<1>1. Handle(r, Start("account", account)) = t
  BY <1>0 DEF Handle, Start, cr_elem_start, Expected, Inside
<1>2. Handle(t, End("account")) = t
  BY <1>0 DEF Handle, End, cr_elem_end, Expected, Inside
<1>3. Reads(T, <<Start("account", account)>>, r, t)
  BY <1>1, ReadTag
<1>4. Reads(T, <<End("account")>>, t, t)
  BY <1>2, ReadTag
<1>5. Reads(T, <<Start("account", account)>> \o <<End("account")>>, r, t)
  BY <1>3, <1>4, ReadOn
<1> QED  BY <1>5, TwoTags DEF Element

LEMMA ReadAccounts ==
  ASSUME NEW T, NEW text, NEW W, NEW S, NEW A, NEW accounts \in Seq(A),
         "list" \in W, "account" \notin W, End("account") \in T,
         \A i \in 1 .. Len(accounts) : Start("account", accounts[i]) \in T
  PROVE  Reads(T, FlattenSeq([i \in DOMAIN accounts |-> Element("account", accounts[i])]),
               Inside(text, W, S, <<>>), Inside(text, W, S, accounts))
<1> DEFINE n == Len(accounts)
           seqs == [i \in DOMAIN accounts |-> Element("account", accounts[i])]
           To(i) == Inside(text, W, S, SubSeq(accounts, 1, i))
<1>1. n \in Nat /\ DOMAIN accounts = 1 .. n /\ Len(seqs) = n
  BY LenProperties
<1>2. CASE n = 0
  <2>1. accounts = <<>>
    BY <1>2, EmptySeq
  <2>2. FlattenSeq(seqs) = <<>>
    BY <1>1, <1>2 DEF FlattenSeq
  <2> QED  BY <2>1, <2>2, ReadNone
<1>3. CASE n # 0
  <2>1. PICK f : /\ f[1] = seqs[1] /\ FlattenSeq(seqs) = f[n]
                 /\ \A i \in 2 .. n : f[i] = f[i - 1] \o seqs[i]
    <3>1. n \in Nat \ {0} /\ Len(seqs) = n
      BY <1>1, <1>3
    <3> HIDE DEF seqs, n
    <3> QED  BY <3>1, Flattened
  <2> DEFINE Bad == {i \in 1 .. n : ~Reads(T, f[i], Inside(text, W, S, <<>>), To(i))}
  <2>2. Bad = {}
    <3> SUFFICES ASSUME Bad # {}
                 PROVE  FALSE
      OBVIOUS
    <3>0. Bad \in SUBSET Nat
      BY <1>1
    <3>1. PICK i \in Bad : \A k \in Bad : i <= k
      BY <3>0, Smallest
    <3>2. i \in 1 .. n /\ seqs[i] = Element("account", accounts[i])
      BY <1>1
    <3>3. SubSeq(accounts, 1, i) = Append(SubSeq(accounts, 1, i - 1), accounts[i])
      BY <1>1, <3>2, SubSeqRecursiveSecond
    <3>4. Reads(T, seqs[i], To(i - 1), To(i))
      BY <3>2, <3>3, ReadAccount
    <3>5. CASE i = 1
      <4>1. SubSeq(accounts, 1, i - 1) = <<>>
        BY <3>5, SubSeqEmpty
      <4>2. Reads(T, f[i], Inside(text, W, S, <<>>), To(i))
        BY <2>1, <3>4, <3>5, <4>1
      <4> QED  BY <3>1, <4>2
    <3>6. CASE i # 1
      <4>1. i - 1 \in 1 .. n /\ i - 1 \notin Bad /\ i \in 2 .. n
        BY <1>1, <3>1, <3>2, <3>6
      <4>2. Reads(T, f[i - 1], Inside(text, W, S, <<>>), To(i - 1))
        BY <4>1
      <4>3. Reads(T, f[i - 1] \o seqs[i], Inside(text, W, S, <<>>), To(i))
        BY <3>4, <4>2, ReadOn
      <4> QED  BY <2>1, <3>1, <4>1, <4>3
    <3> QED  BY <3>5, <3>6
  <2>3. Reads(T, f[n], Inside(text, W, S, <<>>), To(n))
    BY <1>1, <1>3, <2>2
  <2>4. SubSeq(accounts, 1, n) = accounts
    BY SubSeqFull
  <2> QED  BY <2>1, <2>3, <2>4
<1> QED  BY <1>2, <1>3

LEMMA Elements ==
  /\ DOMAIN Attributes =
        {"accountmanagement", "dispatcher", "registrarmanager", "xmlrpcclient",
         "xmlrpcserver", "exosipadapter", "console", "file", "threads"}
  /\ DOMAIN Parent =
        {"accounts", "accountmanagement", "list", "account", "core", "events",
         "dispatcher", "sipoutput", "registrarmanager", "remote", "callback",
         "xmlrpcclient", "server", "xmlrpcserver", "sipstack", "exosipadapter",
         "util", "logging", "simplelogger", "console", "file", "threadmanagement",
         "threads"}
  /\ Parent["accounts"] = "config"
  /\ Parent["accountmanagement"] = "accounts"
  /\ Parent["list"] = "accounts"
  /\ Parent["account"] = "list"
  /\ Parent["core"] = "config"
  /\ Parent["events"] = "core"
  /\ Parent["dispatcher"] = "events"
  /\ Parent["sipoutput"] = "core"
  /\ Parent["registrarmanager"] = "sipoutput"
  /\ Parent["remote"] = "config"
  /\ Parent["callback"] = "remote"
  /\ Parent["xmlrpcclient"] = "callback"
  /\ Parent["server"] = "remote"
  /\ Parent["xmlrpcserver"] = "server"
  /\ Parent["sipstack"] = "config"
  /\ Parent["exosipadapter"] = "sipstack"
  /\ Parent["util"] = "config"
  /\ Parent["logging"] = "util"
  /\ Parent["simplelogger"] = "logging"
  /\ Parent["console"] = "simplelogger"
  /\ Parent["file"] = "simplelogger"
  /\ Parent["threadmanagement"] = "util"
  /\ Parent["threads"] = "threadmanagement"
  BY DEF Attributes, Parent

\* What the writer writes the reader reads: all settings, each through its two
\* conversions, and all accounts (cw_save_config, cr_init).
THEOREM LayoutIsParsed ==
  ASSUME NEW text, NEW A, NEW accounts \in Seq(A)
  PROVE  Parsed(Layout(text, accounts), <<>>)
           = [within |-> {}, accounts |-> accounts,
              config |-> [s \in Setting |-> Read(TypeOf(s), text[s])]]
<1> DEFINE Of(name) == Leaf(text, name)
           List == FlattenSeq([i \in DOMAIN accounts |-> Element("account", accounts[i])])
           Names == DOMAIN Parent \cup {"config"}
           T == {Start(n, <<>>) : n \in Names} \cup {End(n) : n \in Names}
                \cup {Start(n, [x \in DOMAIN Attributes[n] |-> text[<<n, x>>]]) :
                        n \in DOMAIN Attributes}
                \cup {Start("account", accounts[i]) : i \in DOMAIN accounts}
           Goes(tags, W, S, read, S2, read2) ==
             Reads(T, tags, Inside(text, W, S, read), Inside(text, W, S2, read2))
           Top1 == Around("accounts", Of("accountmanagement") \o Around("list", List))
           Top2 == Around("core", Around("events", Of("dispatcher"))
                                  \o Around("sipoutput", Of("registrarmanager")))
           Top3 == Around("remote", Around("callback", Of("xmlrpcclient"))
                                    \o Around("server", Of("xmlrpcserver")))
           Top4 == Around("sipstack", Of("exosipadapter"))
           Top5 == Around("util", Around("logging", Around("simplelogger",
                                                           Of("console") \o Of("file")))
                                  \o Around("threadmanagement", Of("threads")))
           S0 == {}
           S1 == {"accountmanagement"}
           S2 == S1 \cup {"dispatcher"}
           S3 == S2 \cup {"registrarmanager"}
           S4 == S3 \cup {"xmlrpcclient"}
           S5 == S4 \cup {"xmlrpcserver"}
           S6 == S5 \cup {"exosipadapter"}
           S7 == S6 \cup {"console"}
           S8 == S7 \cup {"file"}
           S9 == S8 \cup {"threads"}
<1>a. /\ \A n \in Names : Start(n, <<>>) \in T /\ End(n) \in T
      /\ \A n \in DOMAIN Attributes :
            Start(n, [x \in DOMAIN Attributes[n] |-> text[<<n, x>>]]) \in T
      /\ \A i \in DOMAIN accounts : Start("account", accounts[i]) \in T
  OBVIOUS
<1>b. DOMAIN accounts = 1 .. Len(accounts)
  BY LenProperties
<1> HIDE DEF T, List
<1>1. Goes(Top1, {"config"}, S0, <<>>, S1, accounts)
  <2>1. Goes(Of("accountmanagement"), {"config", "accounts"}, S0, <<>>, S1, <<>>)
    BY Elements, <1>a, ReadLeaf
  <2>2. Goes(Around("list", List), {"config", "accounts"}, S1, <<>>, S1, accounts)
    <3>1. Goes(List, {"config", "accounts", "list"}, S1, <<>>, S1, accounts)
      BY Elements, <1>a, <1>b, ReadAccounts DEF List
    <3> QED  BY <3>1, Elements, <1>a, ReadAround
  <2>3. Goes(Of("accountmanagement") \o Around("list", List),
             {"config", "accounts"}, S0, <<>>, S1, accounts)
    BY <2>1, <2>2, ReadOn
  <2> QED  BY <2>3, Elements, <1>a, ReadAround
<1>2. Goes(Top2, {"config"}, S1, accounts, S3, accounts)
  <2>1. Goes(Around("events", Of("dispatcher")),
             {"config", "core"}, S1, accounts, S2, accounts)
    <3>1. Goes(Of("dispatcher"), {"config", "core", "events"}, S1, accounts, S2, accounts)
      BY Elements, <1>a, ReadLeaf
    <3> QED  BY <3>1, Elements, <1>a, ReadAround
  <2>2. Goes(Around("sipoutput", Of("registrarmanager")),
             {"config", "core"}, S2, accounts, S3, accounts)
    <3>1. Goes(Of("registrarmanager"),
               {"config", "core", "sipoutput"}, S2, accounts, S3, accounts)
      BY Elements, <1>a, ReadLeaf
    <3> QED  BY <3>1, Elements, <1>a, ReadAround
  <2>3. Goes(Around("events", Of("dispatcher"))
             \o Around("sipoutput", Of("registrarmanager")),
             {"config", "core"}, S1, accounts, S3, accounts)
    BY <2>1, <2>2, ReadOn
  <2> QED  BY <2>3, Elements, <1>a, ReadAround
<1>3. Goes(Top1 \o Top2, {"config"}, S0, <<>>, S3, accounts)
  BY <1>1, <1>2, ReadOn
<1>4. Goes(Top3, {"config"}, S3, accounts, S5, accounts)
  <2>1. Goes(Around("callback", Of("xmlrpcclient")),
             {"config", "remote"}, S3, accounts, S4, accounts)
    <3>1. Goes(Of("xmlrpcclient"),
               {"config", "remote", "callback"}, S3, accounts, S4, accounts)
      BY Elements, <1>a, ReadLeaf
    <3> QED  BY <3>1, Elements, <1>a, ReadAround
  <2>2. Goes(Around("server", Of("xmlrpcserver")),
             {"config", "remote"}, S4, accounts, S5, accounts)
    <3>1. Goes(Of("xmlrpcserver"),
               {"config", "remote", "server"}, S4, accounts, S5, accounts)
      BY Elements, <1>a, ReadLeaf
    <3> QED  BY <3>1, Elements, <1>a, ReadAround
  <2>3. Goes(Around("callback", Of("xmlrpcclient")) \o Around("server", Of("xmlrpcserver")),
             {"config", "remote"}, S3, accounts, S5, accounts)
    BY <2>1, <2>2, ReadOn
  <2> QED  BY <2>3, Elements, <1>a, ReadAround
<1>5. Goes(Top1 \o Top2 \o Top3, {"config"}, S0, <<>>, S5, accounts)
  BY <1>3, <1>4, ReadOn
<1>6. Goes(Top4, {"config"}, S5, accounts, S6, accounts)
  <2>1. Goes(Of("exosipadapter"), {"config", "sipstack"}, S5, accounts, S6, accounts)
    BY Elements, <1>a, ReadLeaf
  <2> QED  BY <2>1, Elements, <1>a, ReadAround
<1>7. Goes(Top1 \o Top2 \o Top3 \o Top4, {"config"}, S0, <<>>, S6, accounts)
  BY <1>5, <1>6, ReadOn
<1>8. Goes(Top5, {"config"}, S6, accounts, S9, accounts)
  <2>1. Goes(Around("logging", Around("simplelogger", Of("console") \o Of("file"))),
             {"config", "util"}, S6, accounts, S8, accounts)
    <3>1. Goes(Around("simplelogger", Of("console") \o Of("file")),
               {"config", "util", "logging"}, S6, accounts, S8, accounts)
      <4>1. Goes(Of("console"),
                 {"config", "util", "logging", "simplelogger"}, S6, accounts, S7, accounts)
        BY Elements, <1>a, ReadLeaf
      <4>2. Goes(Of("file"),
                 {"config", "util", "logging", "simplelogger"}, S7, accounts, S8, accounts)
        BY Elements, <1>a, ReadLeaf
      <4>3. Goes(Of("console") \o Of("file"),
                 {"config", "util", "logging", "simplelogger"}, S6, accounts, S8, accounts)
        BY <4>1, <4>2, ReadOn
      <4> QED  BY <4>3, Elements, <1>a, ReadAround
    <3> QED  BY <3>1, Elements, <1>a, ReadAround, SMTT(30)
  <2>2. Goes(Around("threadmanagement", Of("threads")),
             {"config", "util"}, S8, accounts, S9, accounts)
    <3>1. Goes(Of("threads"),
               {"config", "util", "threadmanagement"}, S8, accounts, S9, accounts)
      BY Elements, <1>a, ReadLeaf
    <3> QED  BY <3>1, Elements, <1>a, ReadAround
  <2>3. Goes(Around("logging", Around("simplelogger", Of("console") \o Of("file")))
             \o Around("threadmanagement", Of("threads")),
             {"config", "util"}, S6, accounts, S9, accounts)
    BY <2>1, <2>2, ReadOn
  <2> QED  BY <2>3, Elements, <1>a, ReadAround
<1>9. Goes(Top1 \o Top2 \o Top3 \o Top4 \o Top5, {"config"}, S0, <<>>, S9, accounts)
  BY <1>7, <1>8, ReadOn
<1>x. Goes(Around("config", Top1 \o Top2 \o Top3 \o Top4 \o Top5), {}, S0, <<>>, S9, accounts)
  <2> DEFINE W == {}
             V == {"config"}
             inner == Top1 \o Top2 \o Top3 \o Top4 \o Top5
  <2>1. /\ "config" \notin W /\ V = W \cup {"config"} /\ "config" # "account"
        /\ "config" \notin DOMAIN Attributes
    BY Elements
  <2>2. Start("config", <<>>) \in T /\ End("config") \in T
    BY <1>a
  <2>3. Reads(T, inner, Inside(text, V, S0, <<>>), Inside(text, V, S9, accounts))
    BY <1>9
  <2> HIDE DEF S0, S9, inner, V, W
  <2>4. Reads(T, Around("config", inner), Inside(text, W, S0, <<>>), Inside(text, W, S9, accounts))
    BY <2>1, <2>2, <2>3, ReadAround
  <2> QED  BY <2>4 DEF inner, W
<1>y. Layout(text, accounts) = Around("config", Top1 \o Top2 \o Top3 \o Top4 \o Top5)
  BY DEF Layout, Leaf, List
<1>z. Inside(text, {}, S0, <<>>) = First(<<>>)
  <2>1. Known(text, {}) = [i \in 1 .. 0 |-> i]
    <3>1. {x \in Setting : x[1] \in {}} = 1 .. 0
      OBVIOUS
    <3> QED  BY <3>1 DEF Known
  <2>2. [i \in 1 .. 0 |-> i] = <<>>
    OBVIOUS
  <2> QED  BY <2>1, <2>2 DEF Inside, First
<1>w. Inside(text, {}, S9, accounts)
       = [within |-> {}, accounts |-> accounts,
          config |-> [s \in Setting |-> Read(TypeOf(s), text[s])]]
  <2>1. \A s \in Setting : s[1] \in S9
    BY Elements DEF Setting
  <2> QED  BY <2>1 DEF Inside, Known
<1> QED  BY <1>x, <1>y, <1>z, <1>w, ParsedIsRead

-----------------------------------------------------------------------------
(* The list *)

Cell == [id : Id, name : Name \cup {Unset},
         prev : Node \cup {NULL}, next : Node \cup {NULL}]

\* The nodes c, in this order, are a list between first and last in the memory h,
\* and all that is allocated there.
IsList(c, first, last, h) ==
  /\ c \in Seq(Node) /\ h \in [Node -> Cell \cup {Free}]
  /\ \A i, j \in 1 .. Len(c) : c[i] = c[j] => i = j
  /\ \A i \in 1 .. Len(c) : h[c[i]] # Free
  /\ \A p \in Node : h[p] # Free => \E i \in 1 .. Len(c) : c[i] = p
  /\ first = IF Len(c) = 0 THEN NULL ELSE c[1]
  /\ last = IF Len(c) = 0 THEN NULL ELSE c[Len(c)]
  /\ \A i \in 1 .. Len(c) :
       /\ h[c[i]].prev = IF i = 1 THEN NULL ELSE c[i - 1]
       /\ h[c[i]].next = IF i = Len(c) THEN NULL ELSE c[i + 1]

\* Chain, of these variables.
ChainOf(first, h) ==
  LET from[k \in 0 .. Cardinality(Node)] ==
        [p \in Node \cup {NULL} |->
           IF p = NULL \/ k = 0 THEN <<>>
           ELSE IF h[p] = Free THEN <<p>>
           ELSE <<p>> \o from[k - 1][h[p].next]]
  IN from[Cardinality(Node)][first]

LEMMA CardinalityOfNode == Cardinality(Node) \in Nat
  BY AccountAssumption, FS_CardinalityType

LEMMA CellsAreRecords == Free \notin Cell
  BY AccountAssumption DEF Cell

LEMMA ListIsSmall ==
  ASSUME NEW c, NEW first, NEW last, NEW h, IsList(c, first, last, h)
  PROVE  Len(c) \in Nat /\ DOMAIN c = 1 .. Len(c) /\ Len(c) <= Cardinality(Node)
<1>1. Len(c) \in Nat /\ DOMAIN c = 1 .. Len(c) /\ c \in [1 .. Len(c) -> Node]
  BY LenProperties DEF IsList
<1>2. c \in Injection(1 .. Len(c), Node)
  BY <1>1 DEF IsList, Injection, IsInjective
<1>3. Cardinality(1 .. Len(c)) <= Cardinality(Node)
  BY <1>2, AccountAssumption, FS_Injection
<1>4. Cardinality(1 .. Len(c)) = Len(c)
  BY <1>1, FS_Interval
<1> QED  BY <1>1, <1>3, <1>4

\* The way along the next pointers: k nodes at most, from any node.
LEMMA ChainIsList ==
  ASSUME NEW c, NEW first, NEW last, NEW h, IsList(c, first, last, h)
  PROVE  ChainOf(first, h) = c
<1> DEFINE N == Cardinality(Node)
           n == Len(c)
           Is(f) == f = [k \in 0 .. N |->
                           [p \in Node \cup {NULL} |->
                              IF p = NULL \/ k = 0 THEN <<>>
                              ELSE IF h[p] = Free THEN <<p>>
                              ELSE <<p>> \o f[k - 1][h[p].next]]]
           from == CHOOSE f : Is(f)
           Upto(a, b) == IF a < b THEN a ELSE b
           Place(p) == CHOOSE i \in 1 .. n : c[i] = p
           g == [k \in 0 .. N |->
                   [p \in Node \cup {NULL} |->
                      IF p = NULL \/ k = 0 THEN <<>>
                      ELSE IF h[p] = Free THEN <<p>>
                      ELSE SubSeq(c, Place(p), Upto(Place(p) + k - 1, n))]]
<1>1. n \in Nat /\ N \in Nat /\ n <= N /\ c \in Seq(Node) /\ NULL \notin Node
  BY CardinalityOfNode, ListIsSmall, AccountAssumption DEF IsList
<1>2. ASSUME NEW i \in 1 .. n
      PROVE  c[i] \in Node /\ h[c[i]] # Free /\ Place(c[i]) = i
  BY <1>1, <1>2, LenProperties DEF IsList
<1>3. Is(g)
  <2>1. ASSUME NEW k \in 0 .. N, NEW p \in Node \cup {NULL}
        PROVE  g[k][p] = IF p = NULL \/ k = 0 THEN <<>>
                         ELSE IF h[p] = Free THEN <<p>>
                         ELSE <<p>> \o g[k - 1][h[p].next]
    <3>1. CASE p = NULL \/ k = 0 \/ h[p] = Free
      BY <2>1, <3>1
    <3>2. CASE p # NULL /\ k # 0 /\ h[p] # Free
      <4>1. PICK i \in 1 .. n : c[i] = p
        BY <3>2 DEF IsList
      <4>2. k - 1 \in 0 .. N /\ k \in 1 .. N
        BY <1>1, <2>1, <3>2
      <4>3. g[k][p] = SubSeq(c, i, Upto(i + k - 1, n))
        BY <1>2, <2>1, <3>2, <4>1
      <4>4. CASE i = n \/ k = 1
        <5>1. g[k][p] = SubSeq(c, i, i)
          <6>1. Upto(i + k - 1, n) = i
            BY <1>1, <4>1, <4>2, <4>4
          <6> QED  BY <4>3, <6>1
        <5>2. g[k - 1][h[p].next] = <<>>
          <6>1. CASE i = n
            BY <1>1, <4>1, <4>2, <6>1 DEF IsList
          <6>2. CASE k = 1 /\ i # n
            <7>1. h[p].next = c[i + 1] /\ c[i + 1] \in Node
              BY <1>1, <1>2, <4>1, <6>2 DEF IsList
            <7> QED  BY <1>1, <4>2, <6>2, <7>1
          <6> QED  BY <4>4, <6>1, <6>2
        <5>3. SubSeq(c, i, i) = <<c[i]>>
          <6>1. i \in i .. n /\ i \in Int /\ i + 1 \in Int /\ i < i + 1
            BY <1>1, <4>1
          <6>2. SubSeq(c, i, i) = <<c[i]>> \o SubSeq(c, i + 1, i)
            BY <1>1, <4>1, <6>1, SubSeqRecursiveFirst
          <6>3. SubSeq(c, i + 1, i) = <<>>
            BY <6>1, SubSeqEmpty
          <6>4. <<c[i]>> \in Seq(Node)
            BY <1>2, <4>1
          <6> QED  BY <6>2, <6>3, <6>4, ConcatEmptySeq
        <5>4. <<p>> \in Seq(Node)
          BY <1>2, <4>1
        <5> QED  BY <5>4, <3>2, <4>1, <5>1, <5>2, <5>3, ConcatEmptySeq
      <4>5. CASE i # n /\ k # 1
        <5>1. h[p].next = c[i + 1] /\ i + 1 \in 1 .. n /\ k - 1 # 0
          BY <1>1, <4>1, <4>2, <4>5 DEF IsList
        <5>2. c[i + 1] \in Node /\ h[c[i + 1]] # Free /\ Place(c[i + 1]) = i + 1
          BY <1>2, <5>1
        <5>3. g[k - 1][c[i + 1]] = SubSeq(c, i + 1, Upto((i + 1) + (k - 1) - 1, n))
          BY <1>1, <4>2, <5>1, <5>2
        <5>4. (i + 1) + (k - 1) - 1 = i + k - 1 /\ Upto(i + k - 1, n) \in i .. n
          BY <1>1, <4>1, <4>2, <4>5
        <5>5. SubSeq(c, i, Upto(i + k - 1, n)) = <<c[i]>> \o SubSeq(c, i + 1, Upto(i + k - 1, n))
          <6> DEFINE u == Upto(i + k - 1, n)
          <6> HIDE DEF u
          <6>1. u \in i .. n
            BY <5>4 DEF u
          <6> QED  BY <1>1, <4>1, <6>1, SubSeqRecursiveFirst DEF u
        <5> QED  BY <3>2, <4>1, <4>3, <5>1, <5>3, <5>4, <5>5
      <4> QED  BY <4>4, <4>5
    <3> QED  BY <3>1, <3>2
  <2> HIDE DEF Place, Upto
  <2>2. g = [k \in 0 .. N |-> [p \in Node \cup {NULL} |-> g[k][p]]]
    OBVIOUS
  <2> HIDE DEF g
  <2> QED  BY <2>1, <2>2
<1>4. Is(from)
  BY <1>3
<1>5. ChainOf(first, h) = from[N][first]
  BY DEF ChainOf
<1> HIDE DEF from, g
<1>6. \A k \in 0 .. N : from[k] = g[k]
  <2> DEFINE Bad == {k \in 0 .. N : from[k] # g[k]}
  <2> SUFFICES ASSUME Bad # {}
               PROVE  FALSE
    OBVIOUS
  <2>0. Bad \in SUBSET Nat
    BY <1>1
  <2>1. PICK k \in Bad : \A m \in Bad : k <= m
    <3> HIDE DEF Bad
    <3> QED  BY <2>0, Smallest
  <2>2. k \in 0 .. N
    BY <2>1
  <2>3. CASE k = 0
    <3>1. from[k] = [p \in Node \cup {NULL} |-> <<>>] /\ g[k] = [p \in Node \cup {NULL} |-> <<>>]
      BY <1>3, <1>4, <2>2, <2>3, SMTT(30)
    <3> QED  BY <2>1, <3>1
  <2>4. CASE k # 0
    <3>1. k - 1 \in 0 .. N /\ k - 1 \notin Bad
      BY <1>1, <2>1, <2>2, <2>4
    <3>2. from[k - 1] = g[k - 1]
      BY <3>1
    <3>3. from[k] = g[k]
      <4>1. \A f : Is(f) => f[k] = [p \in Node \cup {NULL} |->
                                      IF p = NULL \/ k = 0 THEN <<>>
                                      ELSE IF h[p] = Free THEN <<p>>
                                      ELSE <<p>> \o f[k - 1][h[p].next]]
        BY <2>2
      <4> HIDE DEF Is
      <4> QED  BY <1>3, <1>4, <3>2, <4>1
    <3> QED  BY <2>1, <3>3
  <2> QED  BY <2>3, <2>4
<1>7. g[N][first] = c
  <2>1. CASE n = 0
    <3>1. first = NULL /\ c = <<>>
      BY <1>1, <2>1, EmptySeq DEF IsList
    <3> QED  BY <1>1, <3>1 DEF g
  <2>2. CASE n # 0
    <3>1. first = c[1] /\ 1 \in 1 .. n
      BY <1>1, <2>2 DEF IsList
    <3>2. first \in Node /\ h[first] # Free /\ Place(first) = 1
      BY <1>2, <3>1
    <3>3. Upto(1 + N - 1, n) = n /\ N # 0
      BY <1>1, <2>2
    <3>4. g[N][first] = SubSeq(c, 1, n)
      <4>1. N \in 0 .. N /\ first \in Node \cup {NULL} /\ first # NULL
        BY <1>1, <3>2
      <4> HIDE DEF Place, Upto
      <4> QED  BY <3>2, <3>3, <4>1 DEF g
    <3> QED  BY <1>1, <3>4, SubSeqFull
  <2> QED  BY <2>1, <2>2
<1> QED  BY <1>1, <1>5, <1>6, <1>7

LEMMA NoNodes == IsList(<<>>, NULL, NULL, [p \in Node |-> Free])
<1>1. <<>> \in Seq(Node) /\ Len(<<>>) = 0
  BY EmptySeq
<1> QED  BY <1>1 DEF IsList

\* add_node puts a node at the end.
LEMMA Added ==
  ASSUME NEW c, NEW first, NEW last, NEW h, IsList(c, first, last, h),
         NEW p \in Node, h[p] = Free, NEW i \in Id, NEW v \in Name \cup {Unset},
         NEW h2, h2 = [q \in Node |-> h2[q]],
         h2[p] = [id |-> i, name |-> v, prev |-> last, next |-> NULL],
         \A q \in Node \ {p} : h2[q] = IF q = last THEN [h[q] EXCEPT !.next = p] ELSE h[q]
  PROVE  /\ IsList(Append(c, p), IF first = NULL THEN p ELSE first, p, h2)
         /\ \A q \in Node \ {p} : /\ (h2[q] = Free) <=> (h[q] = Free)
                                  /\ h[q] # Free => h2[q].id = h[q].id /\ h2[q].name = h[q].name
         /\ h2[p] # Free /\ h2[p].id = i /\ h2[p].name = v
<1> DEFINE n == Len(c)
           d == Append(c, p)
           new == [id |-> i, name |-> v, prev |-> last, next |-> NULL]
<1>1. /\ n \in Nat /\ c \in Seq(Node) /\ NULL \notin Node
      /\ d \in Seq(Node) /\ Len(d) = n + 1 /\ d[n + 1] = p
      /\ \A j \in 1 .. n : d[j] = c[j] /\ c[j] \in Node
  BY ListIsSmall, AppendProperties, AccountAssumption, LenProperties DEF IsList
<1>2. last \in Node \cup {NULL} /\ (n # 0 => last = c[n]) /\ (n = 0 => last = NULL)
  BY <1>1 DEF IsList
<1>3. new \in Cell /\ new # Free
  BY <1>2, CellsAreRecords DEF Cell
<1>4. ASSUME NEW q \in Node \ {p}
      PROVE  /\ h2[q] \in Cell \cup {Free}
             /\ (h2[q] = Free) <=> (h[q] = Free)
             /\ h[q] # Free => /\ h2[q].id = h[q].id /\ h2[q].name = h[q].name
                               /\ h2[q].prev = h[q].prev
                               /\ h2[q].next = IF q = last THEN p ELSE h[q].next
  <2>1. CASE q # last
    BY <2>1 DEF IsList
  <2>2. CASE q = last
    <3>1. n # 0 /\ h[q] # Free
      BY <1>1, <1>2, <2>2 DEF IsList
    <3>2. h[q] \in Cell
      BY <3>1 DEF IsList
    <3>3. h2[q] = [h[q] EXCEPT !.next = p]
      BY <2>2
    <3>4. [h[q] EXCEPT !.next = p] \in Cell
      BY <3>2 DEF Cell
    <3>5. /\ h2[q].id = h[q].id /\ h2[q].name = h[q].name
          /\ h2[q].prev = h[q].prev /\ h2[q].next = p
      BY <3>2, <3>3 DEF Cell
    <3> QED  BY <2>2, <3>1, <3>3, <3>4, <3>5, CellsAreRecords
  <2> QED  BY <2>1, <2>2
<1>5. /\ h2 = [q \in Node |-> h2[q]] /\ h2[p] = new
      /\ new.id = i /\ new.name = v /\ new.prev = last /\ new.next = NULL
  OBVIOUS
<1>6. \A j \in 1 .. n : c[j] # p /\ h[c[j]] # Free
  BY DEF IsList
<1> HIDE DEF new
<1>7. h2 \in [Node -> Cell \cup {Free}]
  BY <1>3, <1>4, <1>5
<1>8. \A j, k \in 1 .. n + 1 : d[j] = d[k] => j = k
  BY <1>1, <1>6 DEF IsList
<1>9. ASSUME NEW j \in 1 .. n + 1
      PROVE  /\ h2[d[j]] # Free
             /\ h2[d[j]].prev = IF j = 1 THEN NULL ELSE d[j - 1]
             /\ h2[d[j]].next = IF j = n + 1 THEN NULL ELSE d[j + 1]
  <2>1. CASE j = n + 1
    BY <1>1, <1>2, <1>3, <1>5, <2>1
  <2>2. CASE j # n + 1
    <3>1. j \in 1 .. n /\ d[j] = c[j] /\ c[j] \in Node \ {p} /\ h[c[j]] # Free
      BY <1>1, <1>6, <2>2
    <3>2. h2[d[j]] # Free /\ h2[d[j]].prev = h[c[j]].prev
      BY <1>4, <3>1
    <3>3. h[c[j]].prev = IF j = 1 THEN NULL ELSE d[j - 1]
      BY <1>1, <3>1 DEF IsList
    <3>4. h2[d[j]].next = IF j = n THEN p ELSE h[c[j]].next
      <4>1. c[j] = last <=> j = n
        <5>1. n # 0 /\ n \in 1 .. n /\ last = c[n]
          BY <1>1, <1>2, <3>1
        <5>2. c[j] = c[n] => j = n
          BY <3>1, <5>1 DEF IsList
        <5> QED  BY <5>1, <5>2
      <4> QED  BY <1>4, <3>1, <4>1
    <3>5. j # n => h[c[j]].next = d[j + 1]
      BY <1>1, <3>1 DEF IsList
    <3> QED  BY <1>1, <2>2, <3>2, <3>3, <3>4, <3>5
  <2> QED  BY <2>1, <2>2
<1>10. ASSUME NEW q \in Node, h2[q] # Free
       PROVE  \E j \in 1 .. n + 1 : d[j] = q
  <2>1. CASE q = p
    BY <1>1, <2>1
  <2>2. CASE q # p
    <3>1. PICK j \in 1 .. n : c[j] = q
      BY <1>4, <1>10, <2>2 DEF IsList
    <3> QED  BY <1>1, <3>1
  <2> QED  BY <2>1, <2>2
<1>11. /\ (IF first = NULL THEN p ELSE first) = IF Len(d) = 0 THEN NULL ELSE d[1]
       /\ p = IF Len(d) = 0 THEN NULL ELSE d[Len(d)]
  <2>1. first = IF n = 0 THEN NULL ELSE c[1]
    BY DEF IsList
  <2> HIDE DEF d
  <2> QED  BY <1>1, <2>1
<1>12. IsList(d, IF first = NULL THEN p ELSE first, p, h2)
  <2> DEFINE m == Len(d)
  <2> HIDE DEF d
  <2>0. m = n + 1
    BY <1>1
  <2>1. \A j, k \in 1 .. m : d[j] = d[k] => j = k
    BY <1>8, <2>0
  <2>2. \A j \in 1 .. m :
          /\ h2[d[j]] # Free
          /\ h2[d[j]].prev = IF j = 1 THEN NULL ELSE d[j - 1]
          /\ h2[d[j]].next = IF j = m THEN NULL ELSE d[j + 1]
    <3> HIDE DEF m, n
    <3> QED  BY <1>9, <2>0
  <2>3. \A q \in Node : h2[q] # Free => \E j \in 1 .. m : d[j] = q
    BY <1>10, <2>0
  <2>4. d \in Seq(Node)
    BY <1>1
  <2> DEFINE e == IF first = NULL THEN p ELSE first
  <2>5. /\ e = IF m = 0 THEN NULL ELSE d[1]
        /\ p = IF m = 0 THEN NULL ELSE d[m]
    BY <1>11
  <2> HIDE DEF e, n
  <2>6. IsList(d, e, p, h2)
    BY <1>7, <2>1, <2>2, <2>3, <2>4, <2>5 DEF IsList
  <2> QED  BY <2>6 DEF e
<1> QED  BY <1>3, <1>4, <1>5, <1>12

\* A change of the texts of accounts, or of an id.
LEMMA Kept ==
  ASSUME NEW c, NEW first, NEW last, NEW h, IsList(c, first, last, h),
         NEW h2 \in [Node -> Cell \cup {Free}],
         \A q \in Node : /\ (h2[q] = Free) <=> (h[q] = Free)
                         /\ h[q] # Free => h2[q].prev = h[q].prev /\ h2[q].next = h[q].next
  PROVE  IsList(c, first, last, h2)
<1>1. \A i \in 1 .. Len(c) : c[i] \in Node
  BY ListIsSmall, LenProperties DEF IsList
<1> QED  BY <1>1 DEF IsList

\* add_node for all accounts of the file, one after the other (parse_account).
LEMMA LinkedIsList ==
  ASSUME NEW c \in Seq(Node), NEW accounts \in Seq([id : Id, name : Name]),
         Len(c) = Len(accounts), \A i, j \in 1 .. Len(c) : c[i] = c[j] => i = j
  PROVE  /\ IsList(c, IF c = <<>> THEN NULL ELSE Head(c), IF c = <<>> THEN NULL ELSE Last(c),
                   Linked(c, accounts))
         /\ \A i \in 1 .. Len(c) : /\ Linked(c, accounts)[c[i]].id = accounts[i].id
                                   /\ Linked(c, accounts)[c[i]].name = accounts[i].name
<1> DEFINE n == Len(c)
           h == Linked(c, accounts)
           of(i) == [id |-> accounts[i].id, name |-> accounts[i].name,
                     prev |-> IF i = 1 THEN NULL ELSE c[i - 1],
                     next |-> IF i = n THEN NULL ELSE c[i + 1]]
<1>1. n \in Nat /\ DOMAIN c = 1 .. n /\ \A i \in 1 .. n : c[i] \in Node
  BY LenProperties
<1>2. \A i \in 1 .. n : accounts[i].id \in Id /\ accounts[i].name \in Name
  <2>1. accounts \in [1 .. n -> [id : Id, name : Name]]
    BY LenProperties
  <2> QED  BY <2>1
<1>3. ASSUME NEW i \in 1 .. n
      PROVE  of(i) \in Cell
  <2>1. i # 1 => c[i - 1] \in Node
    BY <1>1
  <2>2. i # n => c[i + 1] \in Node
    <3>1. i # n => i + 1 \in 1 .. n
      <4> HIDE DEF n
      <4> QED  BY <1>1
    <3> QED  BY <1>1, <3>1
  <2> QED  BY <1>2, <2>1, <2>2 DEF Cell
<1>4. ASSUME NEW i \in 1 .. n
      PROVE  h[c[i]] = of(i)
  <2>1. c[i] \in Range(c) /\ c[i] \in Node
    BY <1>1 DEF Range
  <2>2. (CHOOSE j \in DOMAIN c : c[j] = c[i]) = i
    BY <1>1
  <2> QED  BY <2>1, <2>2 DEF Linked
<1>5. ASSUME NEW p \in Node, \A i \in 1 .. n : c[i] # p
      PROVE  h[p] = Free
  <2>1. p \notin Range(c)
    BY <1>1, <1>5 DEF Range
  <2> QED  BY <2>1 DEF Linked
<1>6. h = [p \in Node |-> h[p]]
  BY DEF Linked
<1>7. \A i \in 1 .. n : /\ of(i).id = accounts[i].id /\ of(i).name = accounts[i].name
                        /\ of(i).prev = IF i = 1 THEN NULL ELSE c[i - 1]
                        /\ of(i).next = IF i = n THEN NULL ELSE c[i + 1]
  OBVIOUS
<1>8. c = <<>> <=> n = 0
  BY EmptySeq
<1>9. n # 0 => Head(c) = c[1] /\ Last(c) = c[n]
  BY <1>8, HeadTailProperties DEF Last
<1> HIDE DEF h, of
<1>10. \A p \in Node : h[p] \in Cell \cup {Free}
  BY <1>3, <1>4, <1>5
<1>11. \A i \in 1 .. n : h[c[i]] # Free
  BY <1>3, <1>4, CellsAreRecords
<1>12. IsList(c, IF n = 0 THEN NULL ELSE c[1], IF n = 0 THEN NULL ELSE c[n], h)
  BY <1>1, <1>4, <1>5, <1>6, <1>7, <1>10, <1>11, ZenonT(40) DEF IsList
<1> QED  BY <1>4, <1>7, <1>8, <1>9, <1>12 DEF h

\* The sequence c without its i-th element.
Without(c, i) == [j \in 1 .. Len(c) - 1 |-> IF j < i THEN c[j] ELSE c[j + 1]]

\* del_node closes the gap that a node leaves, at either end as in the middle.
LEMMA Removed ==
  ASSUME NEW c, NEW first, NEW last, NEW h, IsList(c, first, last, h),
         NEW i \in 1 .. Len(c), NEW p, p = c[i], NEW h2,
         h2 = [[q \in Node |->
                  IF q = h[p].prev THEN [h[q] EXCEPT !.next = h[p].next]
                  ELSE IF q = h[p].next THEN [h[q] EXCEPT !.prev = h[p].prev]
                  ELSE h[q]] EXCEPT ![p] = Free]
  PROVE  /\ IsList(Without(c, i),
                   IF Len(c) = 1 THEN NULL ELSE IF p = first THEN h[p].next ELSE first,
                   IF Len(c) = 1 THEN NULL ELSE IF p = last THEN h[p].prev ELSE last, h2)
         /\ \A q \in Node \ {p} : /\ (h2[q] = Free) <=> (h[q] = Free)
                                  /\ h[q] # Free => h2[q].id = h[q].id /\ h2[q].name = h[q].name
         /\ p \in Node /\ h[p] # Free /\ h2[p] = Free
<1> DEFINE n == Len(c)
           d == Without(c, i)
<1>1. /\ n \in Nat \ {0} /\ i \in 1 .. n /\ c \in Seq(Node) /\ NULL \notin Node
      /\ \A j \in 1 .. n : c[j] \in Node /\ h[c[j]] # Free /\ h[c[j]] \in Cell
  BY ListIsSmall, AccountAssumption, LenProperties DEF IsList
<1>2. /\ \A j \in 1 .. n : h[c[j]].prev = IF j = 1 THEN NULL ELSE c[j - 1]
      /\ \A j \in 1 .. n : h[c[j]].next = IF j = n THEN NULL ELSE c[j + 1]
      /\ \A j, k \in 1 .. n : c[j] = c[k] => j = k
      /\ \A q \in Node : h[q] # Free => \E j \in 1 .. n : c[j] = q
      /\ first = (IF n = 0 THEN NULL ELSE c[1]) /\ last = (IF n = 0 THEN NULL ELSE c[n])
      /\ h \in [Node -> Cell \cup {Free}]
  BY DEF IsList
<1>3. d \in Seq(Node) /\ Len(d) = n - 1
      /\ \A j \in 1 .. n - 1 : d[j] = IF j < i THEN c[j] ELSE c[j + 1]
  <2> HIDE DEF n
  <2>1. \A j \in 1 .. n - 1 : (IF j < i THEN c[j] ELSE c[j + 1]) \in Node
    BY <1>1
  <2>2. d = [j \in 1 .. n - 1 |-> IF j < i THEN c[j] ELSE c[j + 1]]
    BY DEF Without, n
  <2>3. n - 1 \in Nat /\ d \in [1 .. n - 1 -> Node] /\ DOMAIN d = 1 .. n - 1
    BY <1>1, <2>1, <2>2
  <2>4. d \in Seq(Node)
    BY <2>3, SeqDef
  <2>5. Len(d) = n - 1
    BY <2>3, <2>4, LenProperties
  <2> QED  BY <2>2, <2>4, <2>5
<1>0. n \in Nat \ {0}
  BY <1>1
<1> HIDE DEF n, d
<1>4. h[p].prev \in Node \cup {NULL} /\ h[p].next \in Node \cup {NULL}
  BY <1>1 DEF Cell
<1>5. ASSUME NEW q \in Node \ {p}
      PROVE  /\ h2[q] \in Cell \cup {Free}
             /\ (h2[q] = Free) <=> (h[q] = Free)
             /\ h[q] # Free => /\ h2[q].id = h[q].id /\ h2[q].name = h[q].name
                               /\ h2[q].next = IF q = h[p].prev THEN h[p].next ELSE h[q].next
                               /\ h2[q].prev = IF q = h[p].next THEN h[p].prev ELSE h[q].prev
  <2>0. h2[q] = IF q = h[p].prev THEN [h[q] EXCEPT !.next = h[p].next]
                ELSE IF q = h[p].next THEN [h[q] EXCEPT !.prev = h[p].prev]
                ELSE h[q]
    OBVIOUS
  <2>1. CASE q # h[p].prev /\ q # h[p].next
    BY <1>2, <2>0, <2>1
  <2>2. CASE q = h[p].prev
    <3>1. i # 1 /\ q = c[i - 1] /\ i - 1 \in 1 .. n
      <4>1. h[p].prev = IF i = 1 THEN NULL ELSE c[i - 1]
        BY <1>1, <1>2
      <4>2. i # 1
        BY <1>1, <2>2, <4>1
      <4> QED  BY <1>1, <2>2, <4>1, <4>2
    <3>2. h[q] \in Cell /\ h[q] # Free
      BY <1>1, <3>1
    <3>3. q # h[p].next
      <4>1. i # n => i + 1 \in 1 .. n /\ i + 1 # i - 1
        BY <1>1
      <4>2. h[p].next = IF i = n THEN NULL ELSE c[i + 1]
        BY <1>2, <1>1
      <4> QED  BY <1>1, <1>2, <3>1, <4>1, <4>2
    <3>4. [h[q] EXCEPT !.next = h[p].next] \in Cell
      BY <1>4, <3>2 DEF Cell
    <3>5. /\ h2[q].id = h[q].id /\ h2[q].name = h[q].name
          /\ h2[q].prev = h[q].prev /\ h2[q].next = h[p].next
      BY <2>0, <2>2, <3>2 DEF Cell
    <3> QED  BY <2>0, <2>2, <3>2, <3>3, <3>4, <3>5, CellsAreRecords
  <2>3. CASE q = h[p].next /\ q # h[p].prev
    <3>1. i # n /\ q = c[i + 1] /\ i + 1 \in 1 .. n
      BY <1>1, <1>2, <2>3
    <3>2. h[q] \in Cell /\ h[q] # Free
      BY <1>1, <3>1
    <3>4. [h[q] EXCEPT !.prev = h[p].prev] \in Cell
      BY <1>4, <3>2 DEF Cell
    <3>5. /\ h2[q].id = h[q].id /\ h2[q].name = h[q].name
          /\ h2[q].prev = h[p].prev /\ h2[q].next = h[q].next
      BY <2>0, <2>3, <3>2 DEF Cell
    <3> QED  BY <2>0, <2>3, <3>2, <3>4, <3>5, CellsAreRecords
  <2> QED  BY <2>1, <2>2, <2>3
<1>6. /\ h2 = [q \in Node |-> h2[q]] /\ p \in Node /\ h[p] # Free /\ h2[p] = Free
  BY <1>1
<1>7. h2 \in [Node -> Cell \cup {Free}]
  BY <1>5, <1>6
<1>8. \A j, k \in 1 .. n - 1 : d[j] = d[k] => j = k
  <2> DEFINE of(j) == IF j < i THEN j ELSE j + 1
  <2>1. \A j, k \in 1 .. n - 1 : of(j) \in 1 .. n /\ (of(j) = of(k) => j = k)
    BY <1>0, <1>1
  <2>2. \A j \in 1 .. n - 1 : d[j] = c[of(j)]
    BY <1>3
  <2> HIDE DEF of
  <2> QED  BY <1>2, <2>1, <2>2
<1>9. ASSUME NEW j \in 1 .. n - 1
      PROVE  /\ h2[d[j]] # Free
             /\ h2[d[j]].prev = IF j = 1 THEN NULL ELSE d[j - 1]
             /\ h2[d[j]].next = IF j = n - 1 THEN NULL ELSE d[j + 1]
  <2> DEFINE m == IF j < i THEN j ELSE j + 1
  <2>1. m \in 1 .. n /\ m # i /\ d[j] = c[m]
    BY <1>1, <1>3
  <2>2. c[m] \in Node \ {p} /\ h[c[m]] # Free
    BY <1>1, <1>2, <2>1
  <2>3. /\ h2[c[m]] # Free
        /\ h2[c[m]].next = IF c[m] = h[p].prev THEN h[p].next ELSE h[c[m]].next
        /\ h2[c[m]].prev = IF c[m] = h[p].next THEN h[p].prev ELSE h[c[m]].prev
    BY <1>5, <2>2, SMTT(30)
  <2>4. c[m] = h[p].prev <=> m + 1 = i
    <3>1. i # 1 => i - 1 \in 1 .. n
      BY <1>1
    <3>2. h[p].prev = IF i = 1 THEN NULL ELSE c[i - 1]
      BY <1>1, <1>2
    <3>3. m + 1 = i => m = i - 1
      BY <1>1, <2>1
    <3>4. m = i - 1 => m + 1 = i
      BY <1>1, <2>1
    <3> HIDE DEF m
    <3> QED  BY <1>1, <1>2, <2>1, <2>2, <3>1, <3>2, <3>3, <3>4
  <2>5. c[m] = h[p].next <=> m = i + 1
    <3>1. i # n => i + 1 \in 1 .. n
      BY <1>1
    <3>2. h[p].next = IF i = n THEN NULL ELSE c[i + 1]
      BY <1>1, <1>2
    <3> HIDE DEF m
    <3> QED  BY <1>1, <1>2, <2>1, <2>2, <3>1, <3>2
  <2>6. h2[c[m]].next = IF j = n - 1 THEN NULL ELSE d[j + 1]
    <3>1. CASE m + 1 = i
      <4>1. j = i - 1 /\ j < i
        BY <1>1, <2>1, <3>1
      <4>2. h[p].next = IF i = n THEN NULL ELSE c[i + 1]
        BY <1>1, <1>2
      <4>3. i # n => d[j + 1] = c[i + 1]
        BY <1>1, <1>3, <4>1
      <4>4. j = n - 1 <=> i = n
        BY <1>1, <4>1
      <4> QED  BY <2>3, <2>4, <3>1, <4>2, <4>3, <4>4
    <3>2. CASE m + 1 # i
      <4>1. h2[c[m]].next = IF m = n THEN NULL ELSE c[m + 1]
        BY <1>2, <2>1, <2>3, <2>4, <3>2
      <4>2. m = n <=> j = n - 1
        BY <1>1, <2>1, <3>2
      <4>3. j # n - 1 => d[j + 1] = c[m + 1]
        <5>1. j # n - 1 => j + 1 \in 1 .. n - 1
          BY <1>0
        <5>2. j + 1 < i <=> j < i
          BY <1>1, <3>2
        <5> QED  BY <1>3, <5>1, <5>2
      <4> QED  BY <4>1, <4>2, <4>3
    <3> QED  BY <3>1, <3>2
  <2>7. h2[c[m]].prev = IF j = 1 THEN NULL ELSE d[j - 1]
    <3>1. CASE m = i + 1
      <4>1. j = i
        BY <1>1, <2>1, <3>1
      <4>2. h[p].prev = IF i = 1 THEN NULL ELSE c[i - 1]
        BY <1>1, <1>2
      <4>3. i # 1 => d[j - 1] = c[i - 1]
        BY <1>1, <1>3, <4>1
      <4> QED  BY <2>3, <2>5, <3>1, <4>1, <4>2, <4>3
    <3>2. CASE m # i + 1
      <4>1. h2[c[m]].prev = IF m = 1 THEN NULL ELSE c[m - 1]
        BY <1>2, <2>1, <2>3, <2>5, <3>2
      <4>2. m = 1 <=> j = 1
        BY <1>1, <2>1, <3>2
      <4>3. j # 1 => d[j - 1] = c[m - 1]
        <5>1. j # 1 => j - 1 \in 1 .. n - 1
          BY <1>1
        <5>2. j # 1 => (j - 1 < i <=> j < i)
          BY <1>1, <3>2
        <5>3. j < i => j - 1 = m - 1
          BY <1>1
        <5>4. ~(j < i) => (j - 1) + 1 = m - 1
          BY <1>1
        <5> HIDE DEF m
        <5> QED  BY <1>3, <5>1, <5>2, <5>3, <5>4
      <4> QED  BY <4>1, <4>2, <4>3
    <3> QED  BY <3>1, <3>2
  <2> HIDE DEF m
  <2> QED  BY <2>1, <2>3, <2>6, <2>7
<1>10. ASSUME NEW q \in Node, h2[q] # Free
       PROVE  \E j \in 1 .. n - 1 : d[j] = q
  <2>1. q # p /\ h[q] # Free
    BY <1>5, <1>6, <1>10
  <2>2. PICK k \in 1 .. n : c[k] = q
    BY <1>2, <2>1
  <2>3. k # i
    BY <2>1, <2>2
  <2>4. CASE k < i
    <3>1. k \in 1 .. n - 1 /\ d[k] = q
      BY <1>1, <1>3, <2>2, <2>4
    <3> QED  BY <3>1
  <2>5. CASE k > i
    <3>1. k - 1 \in 1 .. n - 1 /\ ~(k - 1 < i) /\ (k - 1) + 1 = k
      BY <1>1, <2>5
    <3>2. d[k - 1] = q
      BY <1>3, <2>2, <3>1
    <3> QED  BY <3>1, <3>2
  <2> QED  BY <1>1, <2>3, <2>4, <2>5
<1> DEFINE e == IF n = 1 THEN NULL ELSE IF p = first THEN h[p].next ELSE first
           f == IF n = 1 THEN NULL ELSE IF p = last THEN h[p].prev ELSE last
<1>11. e = IF n - 1 = 0 THEN NULL ELSE d[1]
  <2>1. CASE n = 1
    BY <2>1
  <2>2. CASE n # 1
    <3>1. n - 1 # 0 /\ 1 \in 1 .. n - 1 /\ 1 \in 1 .. n /\ n # 0 /\ (1 < i <=> 1 # i)
      BY <1>1, <2>2
    <3>2. p = first <=> i = 1
      BY <1>1, <1>2, <3>1
    <3>3. i = 1 => h[p].next = c[2] /\ d[1] = c[2]
      BY <1>2, <1>3, <2>2, <3>1
    <3>4. i # 1 => d[1] = c[1]
      BY <1>3, <3>1
    <3> QED  BY <1>2, <2>2, <3>1, <3>2, <3>3, <3>4
  <2> QED  BY <2>1, <2>2
<1>12. f = IF n - 1 = 0 THEN NULL ELSE d[n - 1]
  <2>1. CASE n = 1
    BY <2>1
  <2>2. CASE n # 1
    <3>1. n - 1 # 0 /\ n - 1 \in 1 .. n - 1 /\ n \in 1 .. n /\ n # 0 /\ (n - 1) + 1 = n
          /\ (n - 1 < i <=> n = i)
      BY <1>1, <2>2
    <3>2. p = last <=> i = n
      BY <1>1, <1>2, <3>1
    <3>3. i = n => h[p].prev = c[n - 1] /\ d[n - 1] = c[n - 1]
      BY <1>2, <1>3, <2>2, <3>1
    <3>4. i # n => d[n - 1] = c[n]
      BY <1>3, <3>1
    <3> QED  BY <1>2, <2>2, <3>1, <3>2, <3>3, <3>4
  <2> QED  BY <2>1, <2>2
<1>13. IsList(d, e, f, h2)
  <2> DEFINE m == n - 1
  <2> HIDE DEF m, e, f
  <2>0. m = Len(d)
    BY <1>3 DEF m
  <2>1. \A j, k \in 1 .. m : d[j] = d[k] => j = k
    BY <1>8 DEF m
  <2>2. \A j \in 1 .. m :
          /\ h2[d[j]] # Free
          /\ h2[d[j]].prev = IF j = 1 THEN NULL ELSE d[j - 1]
          /\ h2[d[j]].next = IF j = m THEN NULL ELSE d[j + 1]
    BY <1>9 DEF m
  <2>3. \A q \in Node : h2[q] # Free => \E j \in 1 .. m : d[j] = q
    BY <1>10 DEF m
  <2>4. /\ e = IF m = 0 THEN NULL ELSE d[1]
        /\ f = IF m = 0 THEN NULL ELSE d[m]
    BY <1>11, <1>12 DEF m
  <2>5. d \in Seq(Node)
    BY <1>3
  <2> HIDE DEF d
  <2>6. \A j, k \in 1 .. Len(d) : d[j] = d[k] => j = k
    BY <2>0, <2>1
  <2>7. \A j \in 1 .. Len(d) : h2[d[j]] # Free
    BY <2>0, <2>2
  <2>8. \A j \in 1 .. Len(d) :
          /\ h2[d[j]].prev = IF j = 1 THEN NULL ELSE d[j - 1]
          /\ h2[d[j]].next = IF j = Len(d) THEN NULL ELSE d[j + 1]
    BY <2>0, <2>2
  <2>9. \A q \in Node : h2[q] # Free => \E j \in 1 .. Len(d) : d[j] = q
    BY <2>0, <2>3
  <2>10. /\ e = IF Len(d) = 0 THEN NULL ELSE d[1]
         /\ f = IF Len(d) = 0 THEN NULL ELSE d[Len(d)]
    BY <2>0, <2>4
  <2> QED  BY <1>7, <2>5, <2>6, <2>7, <2>8, <2>9, <2>10, Zenon DEF IsList
<1> QED  BY <1>5, <1>6, <1>13 DEF d, n

-----------------------------------------------------------------------------
(* The list of the daemon, step by step *)

ListOK == IsList(Chain, head, tail, heap)

LEMMA ChainNow ==
  ASSUME NEW c, IsList(c, head, tail, heap)
  PROVE  Chain = c
<1>1. Chain = ChainOf(head, heap)
  BY DEF Chain, ChainOf
<1> QED  BY <1>1, ChainIsList

LEMMA ChainNext ==
  ASSUME NEW c, IsList(c, head', tail', heap')
  PROVE  Chain' = c /\ ListOK'
<1>1. Chain' = ChainOf(head', heap')
  BY DEF Chain, ChainOf
<1>2. Chain' = c
  BY <1>1, ChainIsList
<1> QED  BY <1>2 DEF ListOK

LEMMA ListStays ==
  ASSUME ListOK, UNCHANGED list
  PROVE  ListOK' /\ Chain' = Chain
<1>1. IsList(Chain, head', tail', heap')
  BY DEF list, ListOK
<1> QED  BY <1>1, ChainNext

\* The nodes of a list, and no others, are allocated.
LEMMA NodesOf ==
  ASSUME NEW c, NEW first, NEW last, NEW h, IsList(c, first, last, h)
  PROVE  /\ Len(c) \in Nat /\ DOMAIN c = 1 .. Len(c) /\ c \in Seq(Node)
         /\ \A i \in 1 .. Len(c) : /\ c[i] \in Node /\ h[c[i]] # Free /\ h[c[i]] \in Cell
                                   /\ h[c[i]].id \in Id /\ h[c[i]].name \in Name \cup {Unset}
         /\ \A i, j \in 1 .. Len(c) : c[i] = c[j] => i = j
         /\ \A p \in Node : h[p] # Free => \E i \in 1 .. Len(c) : c[i] = p
         /\ h \in [Node -> Cell \cup {Free}]
<1>1. Len(c) \in Nat /\ DOMAIN c = 1 .. Len(c) /\ c \in [1 .. Len(c) -> Node]
  BY ListIsSmall, LenProperties DEF IsList
<1>2. ASSUME NEW i \in 1 .. Len(c)
      PROVE  /\ c[i] \in Node /\ h[c[i]] # Free /\ h[c[i]] \in Cell
             /\ h[c[i]].id \in Id /\ h[c[i]].name \in Name \cup {Unset}
  <2>0. c[i] \in Node
    BY <1>1
  <2>1. h[c[i]] # Free /\ h[c[i]] \in Cell
    BY <2>0 DEF IsList
  <2> QED  BY <2>0, <2>1 DEF Cell
<1> QED  BY <1>1, <1>2 DEF IsList

LEMMA NodesOfList ==
  ASSUME ListOK
  PROVE  /\ Len(Chain) \in Nat /\ DOMAIN Chain = 1 .. Len(Chain) /\ Chain \in Seq(Node)
         /\ \A i \in 1 .. Len(Chain) : /\ Chain[i] \in Node /\ heap[Chain[i]] # Free
                                       /\ heap[Chain[i]] \in Cell
                                       /\ heap[Chain[i]].id \in Id
                                       /\ heap[Chain[i]].name \in Name \cup {Unset}
         /\ \A i, j \in 1 .. Len(Chain) : Chain[i] = Chain[j] => i = j
         /\ \A p \in Node : heap[p] # Free => \E i \in 1 .. Len(Chain) : Chain[i] = p
         /\ heap \in [Node -> Cell \cup {Free}]
  BY NodesOf DEF ListOK

\* Contents, of these nodes.
ContentsIn(c, h) == [i \in DOMAIN c |-> [id |-> h[c[i]].id, name |-> h[c[i]].name]]
Account == [id : Id, name : Name \cup {Unset}]

LEMMA ContentsOf ==
  ASSUME NEW c, NEW first, NEW last, NEW h, IsList(c, first, last, h)
  PROVE  /\ ContentsIn(c, h) \in Seq(Account)
         /\ Len(ContentsIn(c, h)) = Len(c) /\ DOMAIN ContentsIn(c, h) = 1 .. Len(c)
         /\ \A i \in 1 .. Len(c) :
              /\ ContentsIn(c, h)[i] = [id |-> h[c[i]].id, name |-> h[c[i]].name]
              /\ ContentsIn(c, h)[i].id = h[c[i]].id /\ ContentsIn(c, h)[i].name = h[c[i]].name
<1> DEFINE n == Len(c)
           of(i) == [id |-> h[c[i]].id, name |-> h[c[i]].name]
           s == ContentsIn(c, h)
<1>1. n \in Nat /\ DOMAIN c = 1 .. n
  BY NodesOf
<1>2. s = [i \in 1 .. n |-> of(i)]
  BY <1>1 DEF ContentsIn
<1>3. ASSUME NEW i \in 1 .. n
      PROVE  of(i) \in Account
  BY NodesOf DEF Account
<1>4. \A i \in 1 .. n : of(i).id = h[c[i]].id /\ of(i).name = h[c[i]].name
  OBVIOUS
<1> HIDE DEF n, of, s
<1>5. s \in [1 .. n -> Account]
  BY <1>2, <1>3
<1>6. s \in Seq(Account)
  BY <1>1, <1>5, SeqDef
<1>7. Len(s) = n
  BY <1>1, <1>5, <1>6, LenProperties
<1> QED  BY <1>2, <1>4, <1>5, <1>6, <1>7 DEF n, of, s

LEMMA ContentsOfList ==
  ASSUME ListOK
  PROVE  /\ Contents \in Seq(Account)
         /\ Len(Contents) = Len(Chain) /\ DOMAIN Contents = 1 .. Len(Chain)
         /\ \A i \in 1 .. Len(Chain) :
              /\ Contents[i] = [id |-> heap[Chain[i]].id, name |-> heap[Chain[i]].name]
              /\ Contents[i].id = heap[Chain[i]].id /\ Contents[i].name = heap[Chain[i]].name
<1>1. Contents = ContentsIn(Chain, heap)
  BY DEF Contents, ContentsIn
<1> QED  BY <1>1, ContentsOf DEF ListOK

\* The same of the list after a step.
LEMMA NextList ==
  ASSUME ListOK'
  PROVE  /\ Len(Chain') \in Nat /\ DOMAIN Chain' = 1 .. Len(Chain') /\ Chain' \in Seq(Node)
         /\ \A i \in 1 .. Len(Chain') : /\ Chain'[i] \in Node /\ heap'[Chain'[i]] # Free
                                        /\ heap'[Chain'[i]] \in Cell
                                        /\ heap'[Chain'[i]].id \in Id
                                        /\ heap'[Chain'[i]].name \in Name \cup {Unset}
         /\ \A i, j \in 1 .. Len(Chain') : Chain'[i] = Chain'[j] => i = j
         /\ \A p \in Node : heap'[p] # Free => \E i \in 1 .. Len(Chain') : Chain'[i] = p
         /\ Contents' \in Seq(Account)
         /\ Len(Contents') = Len(Chain') /\ DOMAIN Contents' = 1 .. Len(Chain')
         /\ \A i \in 1 .. Len(Chain') :
              /\ Contents'[i] = [id |-> heap'[Chain'[i]].id, name |-> heap'[Chain'[i]].name]
              /\ Contents'[i].id = heap'[Chain'[i]].id
              /\ Contents'[i].name = heap'[Chain'[i]].name
<1>1. Contents' = ContentsIn(Chain', heap')
  BY DEF Contents, ContentsIn
<1>2. IsList(Chain', head', tail', heap')
  BY DEF ListOK
<1> QED  BY <1>1, <1>2, ContentsOf, NodesOf

\* The first element that passes a test.
LEMMA SmallestIsMin ==
  ASSUME NEW S \in SUBSET Nat, S # {}
  PROVE  Min(S) \in S /\ \A m \in S : Min(S) <= m
<1>1. \E n \in S : \A m \in S : n <= m
  BY Smallest
<1> QED  BY <1>1 DEF Min

\* get_node finds the first account with an id.
LEMMA NodeFound ==
  ASSUME ListOK, NEW n
  PROVE  \/ get_node(n) = NULL /\ \A i \in 1 .. Len(Chain) : heap[Chain[i]].id # n
         \/ \E i \in 1 .. Len(Chain) :
              /\ get_node(n) = Chain[i] /\ heap[Chain[i]].id = n /\ get_node(n) # NULL
              /\ SelectInSeq(Contents, LAMBDA a : a.id = n) = i
<1> DEFINE I == {i \in 1 .. Len(Contents) : Contents[i].id = n}
           hit == SelectInSeq(Contents, LAMBDA a : a.id = n)
<1>1. hit = IF I # {} THEN Min(I) ELSE 0
  BY DEF SelectInSeq
<1>2. get_node(n) = IF hit = 0 THEN NULL ELSE Chain[hit]
  BY DEF get_node
<1>3. I = {i \in 1 .. Len(Chain) : heap[Chain[i]].id = n} /\ I \in SUBSET Nat
  BY ContentsOfList, NodesOfList
<1> HIDE DEF hit, I
<1>4. CASE I = {}
  BY <1>1, <1>2, <1>3, <1>4
<1>5. CASE I # {}
  <2>1. Min(I) \in I
    BY <1>3, <1>5, SmallestIsMin
  <2>2. hit \in 1 .. Len(Chain) /\ hit # 0 /\ heap[Chain[hit]].id = n /\ Chain[hit] \in Node
    BY <1>1, <1>3, <1>5, <2>1, NodesOfList
  <2> QED  BY <1>2, <2>2, AccountAssumption DEF hit
<1> QED  BY <1>4, <1>5

LEMMA LargestIsMax ==
  ASSUME NEW S \in SUBSET Nat, NEW n \in Nat, S # {}, \A m \in S : m <= n
  PROVE  Max(S) \in S /\ \A m \in S : m <= Max(S)
<1> DEFINE D == {n - m : m \in S}
<1>1. D \in SUBSET Nat /\ D # {}
  <2>1. \A m \in S : n - m \in Nat
    OBVIOUS
  <2> QED  BY <2>1
<1>2. PICK d \in D : \A e \in D : d <= e
  <2> HIDE DEF D
  <2> QED  BY <1>1, Smallest
<1>3. PICK m \in S : d = n - m
  BY <1>2
<1>4. \A k \in S : m >= k
  <2> TAKE k \in S
  <2>1. n - k \in D
    OBVIOUS
  <2>2. n - m <= n - k
    BY <1>2, <1>3, <2>1
  <2> QED  BY <2>2
<1>5. Max(S) \in S /\ \A k \in S : Max(S) >= k
  BY <1>4 DEF Max
<1> QED  BY <1>5

\* A step leaves the account in a node, or the node free.
SameAccount(q) ==
  /\ (heap'[q] = Free) <=> (heap[q] = Free)
  /\ heap[q] # Free => heap'[q].id = heap[q].id /\ heap'[q].name = heap[q].name

LEMMA CreateAppends ==
  ASSUME ListOK, id \in 0 .. MaxId, am_account_create
  PROVE  \E p \in Node :
           /\ ListOK' /\ Chain' = Append(Chain, p) /\ heap[p] = Free
           /\ heap'[p] # Free /\ heap'[p].id = id + 1 /\ heap'[p].name = Unset
           /\ \A q \in Node \ {p} : SameAccount(q)
           /\ fresh' = fresh \cup {p} /\ unsaved' = unsaved \cup {p}
<1>1. PICK p \in Node \ Allocated :
        /\ add_node(p, [id |-> id + 1, name |-> Unset])
        /\ fresh' = fresh \cup {p} /\ unsaved' = unsaved \cup {p}
  BY DEF am_account_create
<1> DEFINE first == IF head = NULL THEN p ELSE head
<1>2. /\ head' = first /\ tail' = p
      /\ heap' = [q \in Node |->
                    IF q = p THEN [id |-> id + 1, name |-> Unset, prev |-> tail, next |-> NULL]
                    ELSE IF q = tail THEN [heap[q] EXCEPT !.next = p] ELSE heap[q]]
  BY <1>1 DEF add_node
<1>3. heap[p] = Free /\ p \in Node
  BY <1>1 DEF Allocated
<1>4. id + 1 \in Id /\ Unset \in Name \cup {Unset} /\ IsList(Chain, head, tail, heap)
  BY AccountAssumption DEF am_account_create, Id, ListOK
<1>5. /\ IsList(Append(Chain, p), first, p, heap')
      /\ \A q \in Node \ {p} : /\ (heap'[q] = Free) <=> (heap[q] = Free)
                               /\ heap[q] # Free => /\ heap'[q].id = heap[q].id
                                                    /\ heap'[q].name = heap[q].name
      /\ heap'[p] # Free /\ heap'[p].id = id + 1 /\ heap'[p].name = Unset
  <2> DEFINE i == id + 1
  <2>1. /\ i \in Id /\ heap' = [q \in Node |-> heap'[q]]
        /\ heap'[p] = [id |-> i, name |-> Unset, prev |-> tail, next |-> NULL]
        /\ \A q \in Node \ {p} :
              heap'[q] = IF q = tail THEN [heap[q] EXCEPT !.next = p] ELSE heap[q]
    BY <1>2, <1>3, <1>4
  <2> HIDE DEF i
  <2>2. /\ IsList(Append(Chain, p), IF head = NULL THEN p ELSE head, p, heap')
        /\ \A q \in Node \ {p} : /\ (heap'[q] = Free) <=> (heap[q] = Free)
                                 /\ heap[q] # Free => /\ heap'[q].id = heap[q].id
                                                      /\ heap'[q].name = heap[q].name
        /\ heap'[p] # Free /\ heap'[p].id = i /\ heap'[p].name = Unset
    BY <1>3, <1>4, <2>1, Added, SMTT(30)
  <2> QED  BY <2>2 DEF i
<1>6. ListOK' /\ Chain' = Append(Chain, p)
  BY <1>2, <1>5, ChainNext
<1> QED  BY <1>1, <1>3, <1>5, <1>6 DEF SameAccount

LEMMA DeleteTakesOut ==
  ASSUME ListOK, am_account_delete
  PROVE  \/ UNCHANGED <<list, reader, unsaved, fresh>>
         \/ \E n \in Id, i \in 1 .. Len(Chain), p \in Node :
              /\ p = Chain[i] /\ heap[p].id = n
              /\ i = SelectInSeq(Contents, LAMBDA a : a.id = n)
              /\ ListOK' /\ Chain' = Without(Chain, i) /\ heap'[p] = Free
              /\ \A q \in Node \ {p} : SameAccount(q)
              /\ fresh' = fresh \ {p} /\ unsaved' = unsaved \ {p}
              /\ reader' = [r \in Reader |-> [reader[r] EXCEPT !.deleted = TRUE]]
<1>1. PICK n \in Id :
        LET dn == get_node(n)
        IN IF dn = NULL THEN UNCHANGED <<list, reader, unsaved, fresh>>
           ELSE /\ del_node(dn)
                /\ reader' = [r \in Reader |-> [reader[r] EXCEPT !.deleted = TRUE]]
                /\ unsaved' = unsaved \ {dn} /\ fresh' = fresh \ {dn}
  BY DEF am_account_delete
<1>2. CASE get_node(n) = NULL
  BY <1>1, <1>2
<1>3. CASE get_node(n) # NULL
  <2>1. PICK i \in 1 .. Len(Chain) :
          /\ get_node(n) = Chain[i] /\ heap[Chain[i]].id = n
          /\ SelectInSeq(Contents, LAMBDA a : a.id = n) = i
    BY <1>3, NodeFound
  <2> DEFINE p == Chain[i]
             first == IF Len(Chain) = 1 THEN NULL ELSE IF p = head THEN heap[p].next ELSE head
             last == IF Len(Chain) = 1 THEN NULL ELSE IF p = tail THEN heap[p].prev ELSE tail
  <2>2. /\ del_node(p) /\ fresh' = fresh \ {p} /\ unsaved' = unsaved \ {p}
        /\ reader' = [r \in Reader |-> [reader[r] EXCEPT !.deleted = TRUE]]
    BY <1>1, <1>3, <2>1
  <2>3. /\ head' = first /\ tail' = last
        /\ heap' = [[q \in Node |->
                       IF q = heap[p].prev THEN [heap[q] EXCEPT !.next = heap[p].next]
                       ELSE IF q = heap[p].next THEN [heap[q] EXCEPT !.prev = heap[p].prev]
                       ELSE heap[q]] EXCEPT ![p] = Free]
    BY <2>2 DEF del_node
  <2>4. /\ IsList(Without(Chain, i), first, last, heap')
        /\ \A q \in Node \ {p} : /\ (heap'[q] = Free) <=> (heap[q] = Free)
                                 /\ heap[q] # Free => /\ heap'[q].id = heap[q].id
                                                      /\ heap'[q].name = heap[q].name
        /\ p \in Node /\ heap'[p] = Free
    <3> HIDE DEF p
    <3>1. p = Chain[i] /\ IsList(Chain, head, tail, heap)
      BY DEF ListOK, p
    <3> QED  BY <2>3, <3>1, Removed
  <2>5. ListOK' /\ Chain' = Without(Chain, i)
    BY <2>3, <2>4, ChainNext
  <2> HIDE DEF first, last
  <2> QED  BY <2>1, <2>2, <2>4, <2>5 DEF SameAccount
<1> QED  BY <1>2, <1>3

\* A request that changes an account where it is.
Overwrites(p, n, v) ==
  /\ head' = head /\ tail' = tail
  /\ heap' = [heap EXCEPT ![p] = [heap[p] EXCEPT !.id = n, !.name = v]]

Overwritten(p, n, v) ==
  /\ ListOK' /\ Chain' = Chain /\ p \in Node
  /\ \A q \in Node \ {p} : SameAccount(q)
  /\ heap'[p] # Free /\ heap'[p].id = n /\ heap'[p].name = v

\* Such a request leaves the list and the other accounts as they are.
LEMMA ChangeStays ==
  ASSUME ListOK, NEW i \in 1 .. Len(Chain),
         NEW n \in Id, NEW v \in Name \cup {Unset}, Overwrites(Chain[i], n, v)
  PROVE  Overwritten(Chain[i], n, v)
<1> DEFINE p == Chain[i]
           new == [heap[p] EXCEPT !.id = n, !.name = v]
<1>1. p \in Node /\ heap[p] \in Cell /\ heap[p] # Free /\ heap \in [Node -> Cell \cup {Free}]
  BY NodesOfList
<1>2. /\ new \in Cell /\ new.id = n /\ new.name = v
      /\ new.prev = heap[p].prev /\ new.next = heap[p].next
  BY <1>1 DEF Cell
<1>3. head' = head /\ tail' = tail /\ heap' = [heap EXCEPT ![p] = new]
  BY DEF Overwrites
<1> HIDE DEF p, new
<1>4. new # Free
  BY <1>2, CellsAreRecords
<1>5. heap' \in [Node -> Cell \cup {Free}] /\ heap'[p] = new
      /\ \A q \in Node \ {p} : heap'[q] = heap[q]
  BY <1>1, <1>2, <1>3
<1>6. \A q \in Node : /\ (heap'[q] = Free) <=> (heap[q] = Free)
                      /\ heap[q] # Free => /\ heap'[q].prev = heap[q].prev
                                           /\ heap'[q].next = heap[q].next
  BY <1>1, <1>2, <1>4, <1>5
<1>7. IsList(Chain, head', tail', heap')
  BY <1>3, <1>5, <1>6, Kept DEF ListOK
<1> QED  BY <1>1, <1>2, <1>4, <1>5, <1>7, ChainNext DEF SameAccount, Overwritten, p

LEMMA SetNameStays ==
  ASSUME ListOK, am_account_set
  PROVE  \E n \in Id, v \in Name, i \in 1 .. Len(Chain), p \in Node :
           /\ p = Chain[i] /\ heap[p].id = n
           /\ i = SelectInSeq(Contents, LAMBDA a : a.id = n)
           /\ ListOK' /\ Chain' = Chain
           /\ \A q \in Node \ {p} : SameAccount(q)
           /\ heap'[p] # Free /\ heap'[p].id = heap[p].id /\ heap'[p].name = v
           /\ fresh' = fresh \ {p} /\ unsaved' = unsaved \cup {p}
<1>1. PICK n \in Id, v \in Name \cup {Unset} :
        LET p == get_node(n)
        IN /\ p # NULL
           /\ heap' = [heap EXCEPT ![p].name = Stored(v)]
           /\ unsaved' = unsaved \cup {p} /\ fresh' = fresh \ {p}
  BY DEF am_account_set
<1>2. PICK i \in 1 .. Len(Chain) :
        /\ get_node(n) = Chain[i] /\ heap[Chain[i]].id = n
        /\ SelectInSeq(Contents, LAMBDA a : a.id = n) = i
  BY <1>1, NodeFound
<1> DEFINE p == Chain[i]
           w == Stored(v)
<1>3. w \in Name
  BY AccountAssumption DEF Stored
<1>4. p \in Node /\ heap[p] \in Cell /\ heap \in [Node -> Cell \cup {Free}]
  BY NodesOfList
<1> DEFINE new == [heap[p] EXCEPT !.id = n, !.name = w]
<1>5. heap' = [heap EXCEPT ![p] = new]
  <2>1. heap' = [heap EXCEPT ![p].name = w]
    BY <1>1, <1>2
  <2>2. [heap[p] EXCEPT !.name = w] = new
    BY <1>2, <1>4 DEF Cell
  <2> HIDE DEF w, p, new
  <2> QED  BY <2>1, <2>2
<1>6. head' = head /\ tail' = tail
  BY DEF am_account_set
<1>7. /\ ListOK' /\ Chain' = Chain /\ p \in Node
      /\ \A q \in Node \ {p} : SameAccount(q)
      /\ heap'[p] # Free /\ heap'[p].id = n /\ heap'[p].name = w
  <2>1. Overwrites(p, n, w)
    BY <1>5, <1>6 DEF Overwrites
  <2> HIDE DEF w
  <2>2. Overwritten(p, n, w)
    BY <1>3, <2>1, ChangeStays
  <2> QED  BY <2>2 DEF Overwritten
<1>8. unsaved' = unsaved \cup {p} /\ fresh' = fresh \ {p}
  BY <1>1, <1>2
<1> HIDE DEF w
<1> QED  BY <1>2, <1>3, <1>7, <1>8

LEMMA SetIdStays ==
  ASSUME ListOK, SetId
  PROVE  \E n, m \in Id, i \in 1 .. Len(Chain), p \in Node :
           /\ p = Chain[i] /\ heap[p].id = n
           /\ i = SelectInSeq(Contents, LAMBDA a : a.id = n)
           /\ ListOK' /\ Chain' = Chain
           /\ \A q \in Node \ {p} : SameAccount(q)
           /\ heap'[p] # Free /\ heap'[p].id = m /\ heap'[p].name = heap[p].name
           /\ unsaved' = unsaved \cup {p}
<1>1. PICK n \in Id, m \in Id :
        LET p == get_node(n)
        IN /\ p # NULL
           /\ heap' = [heap EXCEPT ![p].id = m]
           /\ unsaved' = unsaved \cup {p}
  BY DEF SetId
<1>2. PICK i \in 1 .. Len(Chain) :
        /\ get_node(n) = Chain[i] /\ heap[Chain[i]].id = n
        /\ SelectInSeq(Contents, LAMBDA a : a.id = n) = i
  BY <1>1, NodeFound
<1> DEFINE p == Chain[i]
           w == heap[p].name
<1>3. /\ w \in Name \cup {Unset} /\ p \in Node
      /\ heap[p] \in Cell /\ heap \in [Node -> Cell \cup {Free}]
  BY NodesOfList
<1> DEFINE new == [heap[p] EXCEPT !.id = m, !.name = w]
<1>5. heap' = [heap EXCEPT ![p] = new]
  <2>1. heap' = [heap EXCEPT ![p].id = m]
    BY <1>1, <1>2
  <2>2. [heap[p] EXCEPT !.id = m] = new
    BY <1>2, <1>3 DEF Cell
  <2> HIDE DEF w, p, new
  <2> QED  BY <2>1, <2>2
<1>6. head' = head /\ tail' = tail
  BY DEF SetId
<1>7. /\ ListOK' /\ Chain' = Chain /\ p \in Node
      /\ \A q \in Node \ {p} : SameAccount(q)
      /\ heap'[p] # Free /\ heap'[p].id = m /\ heap'[p].name = w
  <2>1. Overwrites(p, m, w)
    BY <1>5, <1>6 DEF Overwrites
  <2> HIDE DEF w
  <2>2. Overwritten(p, m, w)
    BY <1>3, <2>1, ChangeStays
  <2> QED  BY <2>2 DEF Overwritten
<1>8. unsaved' = unsaved \cup {p}
  BY <1>1, <1>2
<1> QED  BY <1>2, <1>7, <1>8

\* The end of the program, for whatever reason.
LEMMA GoneIsEmpty ==
  ASSUME Gone
  PROVE  ListOK' /\ Chain' = <<>> /\ \A p \in Node : heap'[p] = Free
<1>1. IsList(<<>>, head', tail', heap')
  BY NoNodes DEF Gone
<1> QED  BY <1>1, ChainNext DEF Gone

\* cr_init makes a list of the accounts of the file, and reads its settings.
LEMMA StartLoads ==
  ASSUME cr_init, file \in File \cup {Torn}
  PROVE  /\ file.accounts \in Seq([id : Id, name : Name]) /\ file.text \in [Setting -> Text]
         /\ ListOK' /\ Len(Chain') = Len(file.accounts)
         /\ \A i \in 1 .. Len(Chain') : /\ heap'[Chain'[i]].id = file.accounts[i].id
                                        /\ heap'[Chain'[i]].name = file.accounts[i].name
         /\ config' = [s \in Setting |-> Read(TypeOf(s), file.text[s])]
         /\ id' \in 0 .. MaxId /\ \A p \in Node : heap'[p] # Free => heap'[p].id <= id'
<1> DEFINE text == file.text
           accounts == file.accounts
           n == Len(accounts)
<1>1. accounts \in Seq([id : Id, name : Name]) /\ text \in [Setting -> Text]
  BY DEF cr_init, File
<1>2. Parsed(Layout(text, accounts), NoConfig)
        = [within |-> {}, accounts |-> accounts,
           config |-> [s \in Setting |-> Read(TypeOf(s), text[s])]]
  <2> HIDE DEF text, accounts
  <2> QED  BY <1>1, LayoutIsParsed DEF NoConfig
<1>3. /\ config' = [s \in Setting |-> Read(TypeOf(s), text[s])]
      /\ \E cells \in [DOMAIN accounts -> Node] :
            /\ IsInjective(cells)
            /\ heap' = Linked(cells, accounts)
            /\ head' = IF cells = <<>> THEN NULL ELSE Head(cells)
            /\ tail' = IF cells = <<>> THEN NULL ELSE Last(cells)
  BY <1>2 DEF cr_init
<1>4. n \in Nat /\ DOMAIN accounts = 1 .. n
  BY <1>1, LenProperties
<1> HIDE DEF text, accounts, n
<1>5. PICK cells \in [1 .. n -> Node] :
        /\ IsInjective(cells)
        /\ heap' = Linked(cells, accounts)
        /\ head' = IF cells = <<>> THEN NULL ELSE Head(cells)
        /\ tail' = IF cells = <<>> THEN NULL ELSE Last(cells)
  BY <1>3, <1>4
<1>6. cells \in Seq(Node) /\ Len(cells) = n
  <2>1. cells \in Seq(Node)
    BY <1>4, SeqDef
  <2> QED  BY <1>4, <2>1, LenProperties
<1>7. \A i, j \in 1 .. Len(cells) : cells[i] = cells[j] => i = j
  BY <1>5, <1>6 DEF IsInjective
<1>8. /\ IsList(cells, IF cells = <<>> THEN NULL ELSE Head(cells),
                IF cells = <<>> THEN NULL ELSE Last(cells), Linked(cells, accounts))
      /\ \A i \in 1 .. Len(cells) : /\ Linked(cells, accounts)[cells[i]].id = accounts[i].id
                                    /\ Linked(cells, accounts)[cells[i]].name = accounts[i].name
  BY <1>1, <1>6, <1>7, LinkedIsList DEF n
<1>9. ListOK' /\ Chain' = cells
  BY <1>5, <1>8, ChainNext
<1>10. id' \in 0 .. MaxId /\ \A p \in Node : heap'[p] # Free => heap'[p].id <= id'
  <2> DEFINE S == {a.id : a \in Range(Contents')} \cup {0}
  <2>1. id' = Max(S)
    BY DEF cr_init, am_get_max_id
  <2>2. S = {heap'[Chain'[i]].id : i \in 1 .. Len(Chain')} \cup {0}
    BY <1>9, NextList DEF Range
  <2>3. S \in SUBSET Nat /\ S # {} /\ MaxId \in Nat /\ \A m \in S : m <= MaxId
    <3>1. \A i \in 1 .. Len(Chain') : heap'[Chain'[i]].id \in 1 .. MaxId
      BY <1>9, NextList DEF Id
    <3>2. MaxId \in Nat
      BY AccountAssumption
    <3>3. ASSUME NEW m \in S
          PROVE  m \in Nat /\ m <= MaxId
      BY <2>2, <3>1, <3>2, <3>3
    <3>4. 0 \in S
      OBVIOUS
    <3> HIDE DEF S
    <3> QED  BY <3>2, <3>3, <3>4
  <2> HIDE DEF S
  <2>4. Max(S) \in S /\ \A m \in S : m <= Max(S)
    BY <2>3, LargestIsMax
  <2>5. \A p \in Node : heap'[p] # Free => heap'[p].id \in S
    BY <1>9, <2>2, NextList
  <2>6. Max(S) \in Nat /\ Max(S) <= MaxId
    BY <2>3, <2>4
  <2>7. id' \in 0 .. MaxId
    BY <2>1, <2>3, <2>6
  <2>8. \A p \in Node : heap'[p] # Free => heap'[p].id <= id'
    BY <2>1, <2>4, <2>5
  <2> QED  BY <2>7, <2>8
<1> QED  BY <1>1, <1>3, <1>5, <1>6, <1>8, <1>9, <1>10 DEF text, accounts, n

-----------------------------------------------------------------------------
(* The types, the list and the file *)

LEMMA TypesOfSettings ==
  \A s \in Setting : TypeOf(s) \in {"int", "string", "bool", "level"}
<1> SUFFICES ASSUME NEW s \in Setting
             PROVE  TypeOf(s) \in {"int", "string", "bool", "level"}
  OBVIOUS
<1>1. PICK e \in DOMAIN Attributes : s \in {<<e, a>> : a \in DOMAIN Attributes[e]}
  BY DEF Setting
<1>2. PICK a \in DOMAIN Attributes[e] : s = <<e, a>>
  BY <1>1
<1>3. TypeOf(s) = Attributes[e][a]
  BY <1>2 DEF TypeOf
<1>4. Attributes[e][a] \in {"int", "string", "bool", "level"}
  <2>1. e \in {"accountmanagement", "dispatcher", "registrarmanager", "xmlrpcclient",
               "xmlrpcserver", "exosipadapter", "console", "file", "threads"}
    BY Elements
  <2>2. CASE e \in {"accountmanagement", "dispatcher", "registrarmanager"}
    BY <2>2 DEF Attributes
  <2>3. CASE e \in {"xmlrpcclient", "xmlrpcserver", "exosipadapter"}
    BY <2>3 DEF Attributes
  <2>4. CASE e \in {"console", "file", "threads"}
    BY <2>4 DEF Attributes
  <2> QED  BY <2>1, <2>2, <2>3, <2>4
<1> QED  BY <1>3, <1>4

LEMMA ReadIsText ==
  ASSUME NEW s \in Setting, NEW text \in Text
  PROVE  Read(TypeOf(s), text) \in Text
<1>1. parse_bool(text) \in Text
  BY TextAssumption DEF parse_bool
<1>2. parse_loglevel_val(text) \in Text
  BY TextAssumption DEF parse_loglevel_val, None
<1>3. parse_int(text) \in Text
  BY TextAssumption DEF parse_int
<1>4. TypeOf(s) \in {"int", "string", "bool", "level"}
  BY TypesOfSettings
<1> QED  BY <1>1, <1>2, <1>3, <1>4 DEF Read

LEMMA WrittenIsText ==
  ASSUME NEW s \in Setting, NEW value \in Text
  PROVE  Written(TypeOf(s), value) \in Text
<1>1. bool_to_str(value) \in Text
  BY TextAssumption DEF bool_to_str
<1>2. loglevel_to_str(value) \in Text
  BY TextAssumption DEF loglevel_to_str
<1>3. Printed[value] \in Text /\ Recoded[value] \in Text
  BY ConversionAssumption
<1>4. TypeOf(s) \in {"int", "string", "bool", "level"}
  BY TypesOfSettings
<1> QED  BY <1>1, <1>2, <1>3, <1>4 DEF Written

LEMMA HeldOf ==
  ASSUME ListOK, NEW held \in Held(Contents)
  PROVE  /\ held \in Seq([id : Id, name : Name]) /\ Len(held) = Len(Chain)
         /\ DOMAIN held = 1 .. Len(Chain)
         /\ \A i \in 1 .. Len(Chain) : /\ held[i].id = heap[Chain[i]].id
                                       /\ InFile(heap[Chain[i]].name, held[i].name)
<1> DEFINE n == Len(Chain)
<1>1. n \in Nat /\ DOMAIN Contents = 1 .. n
  BY NodesOfList, ContentsOfList
<1>2. PICK names \in [1 .. n -> Name] :
        /\ held = [i \in 1 .. n |-> [id |-> Contents[i].id, name |-> Recoded[names[i]]]]
        /\ \A i \in 1 .. n : Contents[i].name \in {names[i], Unset}
  BY <1>1 DEF Held
<1>3. \A i \in 1 .. n : /\ Contents[i].id = heap[Chain[i]].id /\ heap[Chain[i]].id \in Id
                        /\ Contents[i].name = heap[Chain[i]].name
  BY ContentsOfList, NodesOfList
<1> HIDE DEF n
<1>4. \A i \in 1 .. n : held[i] = [id |-> heap[Chain[i]].id, name |-> Recoded[names[i]]]
  BY <1>2, <1>3
<1>a. \A i \in 1 .. n : Recoded[names[i]] \in Name
  BY <1>2, AccountAssumption
<1>5. held \in [1 .. n -> [id : Id, name : Name]]
  BY <1>2, <1>3, <1>a
<1>6. held \in Seq([id : Id, name : Name])
  BY <1>1, <1>5, SeqDef
<1>7. Len(held) = n /\ DOMAIN held = 1 .. n
  BY <1>1, <1>5, <1>6, LenProperties
<1>8. \A i \in 1 .. n : held[i].id = heap[Chain[i]].id /\ held[i].name = Recoded[names[i]]
  <2> TAKE i \in 1 .. n
  <2>1. held[i] = [id |-> heap[Chain[i]].id, name |-> Recoded[names[i]]]
    BY <1>4
  <2> QED  BY <2>1
<1>9. \A i \in 1 .. n : InFile(heap[Chain[i]].name, held[i].name)
  BY <1>2, <1>3, <1>8 DEF InFile
<1> QED  BY <1>6, <1>7, <1>8, <1>9 DEF n

Typed ==
  /\ up \in BOOLEAN /\ renamed \in BOOLEAN /\ id \in 0 .. MaxId
  /\ request \in {"none", "save", "write"}
  /\ file \in File \cup {Torn}
  /\ up => config \in [Setting -> Text]

core == <<up, list, id, config, file, request, fault, renamed, unsaved, fresh>>

\* A reader changes nothing but its own state, unless the daemon ends.
LEMMA ReaderChanges ==
  ASSUME NEW r \in Reader, ReaderStep(r)
  PROVE  Gone \/ UNCHANGED core
  BY DEF ReaderStep, BeginCount, Count, Counted, Copy, Copied, Use, Used, Step, Fault, core

LEMMA EndsTyped ==
  ASSUME Typed, Gone
  PROVE  Typed'
<1>1. 0 \in 0 .. MaxId
  BY AccountAssumption
<1> QED  BY <1>1 DEF Typed, Gone

LEMMA TypedStep ==
  ASSUME Typed, ListOK, Next
  PROVE  Typed'
<1>1. CASE cr_init
  <2>1. id' \in 0 .. MaxId /\ config' = [s \in Setting |-> Read(TypeOf(s), file.text[s])]
    BY <1>1, StartLoads DEF Typed
  <2>2. file.text \in [Setting -> Text]
    BY <1>1, StartLoads DEF Typed
  <2>3. config' \in [Setting -> Text]
    BY <2>1, <2>2, ReadIsText
  <2> QED  BY <1>1, <2>1, <2>3 DEF Typed, cr_init
<1>2. CASE Crash
  BY <1>2, EndsTyped DEF Crash
<1>3. CASE am_account_create
  <2>1. id + 1 \in 0 .. MaxId
    BY <1>3, AccountAssumption DEF Typed, am_account_create
  <2> QED  BY <1>3, <2>1 DEF Typed, am_account_create
<1>4. CASE am_account_delete
  BY <1>4 DEF Typed, am_account_delete
<1>5. CASE am_account_set
  BY <1>5 DEF Typed, am_account_set
<1>6. CASE SetId
  BY <1>6 DEF Typed, SetId
<1>7. CASE am_account_get
  BY <1>7, EndsTyped DEF am_account_get, Fault
<1>8. CASE am_account_save
  BY <1>8 DEF Typed, am_account_save
<1>9. CASE OpenFile
  BY <1>9 DEF Typed, OpenFile
<1>10. CASE OpenFails
  BY <1>10, EndsTyped DEF OpenFails, Fault
<1>11. CASE WriteFile
  <2>1. PICK held \in Held(Contents) : file' = [text |-> Texts(config), accounts |-> held]
    BY <1>11 DEF WriteFile
  <2>2. held \in Seq([id : Id, name : Name])
    BY HeldOf
  <2>3. config \in [Setting -> Text]
    BY <1>11 DEF Typed, WriteFile
  <2>4. Texts(config) \in [Setting -> Text]
    BY <2>3, WrittenIsText DEF Texts
  <2>5. file' \in File
    BY <2>1, <2>2, <2>4 DEF File
  <2> QED  BY <1>11, <2>5 DEF Typed, WriteFile
<1>12. ASSUME NEW r \in Reader, ReaderStep(r)
       PROVE  Typed'
  BY <1>12, ReaderChanges, EndsTyped DEF Typed, core
<1> QED
  BY <1>1, <1>2, <1>3, <1>4, <1>5, <1>6, <1>7, <1>8, <1>9, <1>10, <1>11, <1>12
     DEF Next, GuiStep

LEMMA ListStep ==
  ASSUME Typed, ListOK, Next
  PROVE  ListOK'
<1>1. CASE cr_init
  BY <1>1, StartLoads DEF Typed
<1>2. CASE Gone
  BY <1>2, GoneIsEmpty
<1>3. CASE am_account_create
  BY <1>3, CreateAppends DEF Typed
<1>4. CASE am_account_delete
  BY <1>4, DeleteTakesOut, ListStays
<1>5. CASE am_account_set
  BY <1>5, SetNameStays
<1>6. CASE SetId
  BY <1>6, SetIdStays
<1>7. CASE UNCHANGED list
  BY <1>7, ListStays
<1>8. ASSUME NEW r \in Reader, ReaderStep(r)
      PROVE  ListOK'
  BY <1>2, <1>7, <1>8, ReaderChanges DEF core
<1> QED
  BY <1>1, <1>2, <1>3, <1>4, <1>5, <1>6, <1>7, <1>8
     DEF Next, GuiStep, Crash, am_account_get, am_account_save, OpenFile, OpenFails,
         WriteFile, Fault

LEMMA FileStep ==
  ASSUME Typed, ListOK, FileIsCurrent, Next
  PROVE  FileIsCurrent'
<1>0. ListOK'
  BY ListStep
<1> DEFINE Current(nodes, saved) ==
             /\ Len(saved) = Len(nodes)
             /\ \A i \in 1 .. Len(nodes) :
                   nodes[i] \in unsaved
                   \/ /\ saved[i].id = heap[nodes[i]].id
                      /\ InFile(heap[nodes[i]].name, saved[i].name)
           Next2(nodes, saved) ==
             /\ Len(saved) = Len(nodes)
             /\ \A i \in 1 .. Len(nodes) :
                   nodes[i] \in unsaved'
                   \/ /\ saved[i].id = heap'[nodes[i]].id
                      /\ InFile(heap'[nodes[i]].name, saved[i].name)
<1>1. up /\ request = "none" => file # Torn /\ Current(Chain, file.accounts)
  BY NodesOfList DEF FileIsCurrent
<1>2. SUFFICES ASSUME up' /\ request' = "none"
               PROVE  file' # Torn /\ Next2(Chain', file'.accounts)
  BY <1>0, NextList DEF FileIsCurrent
<1>3. CASE cr_init
  <2>1. file' = file /\ file # Torn
    BY <1>3 DEF cr_init
  <2>2. /\ Len(Chain') = Len(file.accounts)
        /\ \A i \in 1 .. Len(Chain') : /\ heap'[Chain'[i]].id = file.accounts[i].id
                                       /\ heap'[Chain'[i]].name = file.accounts[i].name
    BY <1>3, StartLoads DEF Typed
  <2> QED  BY <2>1, <2>2 DEF InFile
<1>4. CASE am_account_set
  <2>1. PICK p \in Node : /\ Chain' = Chain /\ unsaved' = unsaved \cup {p}
                          /\ \A q \in Node \ {p} : SameAccount(q)
    BY <1>4, SetNameStays
  <2>2. file' = file /\ file # Torn /\ Current(Chain, file.accounts)
    BY <1>1, <1>4 DEF am_account_set, Serves
  <2>3. \A i \in 1 .. Len(Chain) :
          Chain[i] # p => /\ heap'[Chain[i]].id = heap[Chain[i]].id
                          /\ heap'[Chain[i]].name = heap[Chain[i]].name
    BY <2>1, NodesOfList DEF SameAccount
  <2> QED  BY <2>1, <2>2, <2>3
<1>5. CASE SetId
  <2>1. PICK p \in Node : /\ Chain' = Chain /\ unsaved' = unsaved \cup {p}
                          /\ \A q \in Node \ {p} : SameAccount(q)
    BY <1>5, SetIdStays
  <2>2. file' = file /\ file # Torn /\ Current(Chain, file.accounts)
    BY <1>1, <1>5 DEF SetId, Serves
  <2>3. \A i \in 1 .. Len(Chain) :
          Chain[i] # p => /\ heap'[Chain[i]].id = heap[Chain[i]].id
                          /\ heap'[Chain[i]].name = heap[Chain[i]].name
    BY <2>1, NodesOfList DEF SameAccount
  <2> QED  BY <2>1, <2>2, <2>3
<1>6. CASE WriteFile
  <2>1. PICK held \in Held(Contents) : file' = [text |-> Texts(config), accounts |-> held]
    BY <1>6 DEF WriteFile
  <2>2. UNCHANGED list
    BY <1>6 DEF WriteFile
  <2>3. Chain' = Chain /\ heap' = heap
    BY <2>2, ListStays DEF list
  <2>4. /\ held \in Seq([id : Id, name : Name]) /\ Len(held) = Len(Chain)
        /\ \A i \in 1 .. Len(Chain) : /\ held[i].id = heap[Chain[i]].id
                                      /\ InFile(heap[Chain[i]].name, held[i].name)
    BY HeldOf
  <2>5. file'.accounts = held
    BY <2>1
  <2>6. file' \in File /\ Torn \notin File
    <3>1. config \in [Setting -> Text]
      BY <1>6 DEF Typed, WriteFile
    <3>2. Texts(config) \in [Setting -> Text]
      BY <3>1, WrittenIsText DEF Texts
    <3> QED  BY <2>1, <2>4, <3>2, AccountAssumption DEF File
  <2> QED  BY <2>3, <2>4, <2>5, <2>6
<1>7. CASE UNCHANGED core
  <2>1. UNCHANGED list /\ up /\ request = "none" /\ file' = file
    BY <1>2, <1>7 DEF core
  <2>2. Chain' = Chain /\ heap' = heap /\ unsaved' = unsaved
    BY <1>7, <2>1, ListStays DEF list, core
  <2> QED  BY <1>1, <2>1, <2>2
<1>8. CASE Gone
  BY <1>2, <1>8 DEF Gone
<1>9. CASE \/ am_account_create \/ am_account_delete \/ am_account_save \/ OpenFile
  BY <1>2, <1>9 DEF am_account_create, am_account_delete, am_account_save, OpenFile
<1>10. ASSUME NEW r \in Reader, ReaderStep(r)
       PROVE  file' # Torn /\ Next2(Chain', file'.accounts)
  BY <1>7, <1>8, <1>10, ReaderChanges
<1> HIDE DEF Next2, Current
<1> QED
  BY <1>3, <1>4, <1>5, <1>6, <1>8, <1>9, <1>10
     DEF Next, GuiStep, Crash, am_account_get, OpenFails, Fault

LEMMA ListImpliesTypes ==
  ASSUME Typed, ListOK
  PROVE  TypeOK
<1>1. \A p \in Allocated : heap[p].id \in Id /\ heap[p].name \in Name \cup {Unset}
  BY NodesOfList DEF Allocated
<1>2. Range(Chain) = Allocated
  BY NodesOfList DEF Allocated, Range
<1>3. /\ Chain = <<>> <=> Len(Chain) = 0
      /\ Len(Chain) # 0 => Head(Chain) = Chain[1] /\ Last(Chain) = Chain[Len(Chain)]
  <2>1. Chain = <<>> <=> Len(Chain) = 0
    BY NodesOfList, EmptySeq
  <2> QED  BY <2>1, NodesOfList, HeadTailProperties DEF Last
<1>4. /\ head = IF Chain = <<>> THEN NULL ELSE Head(Chain)
      /\ tail = IF Chain = <<>> THEN NULL ELSE Last(Chain)
  BY <1>3 DEF ListOK, IsList
<1>5. \A i \in DOMAIN Chain : heap[Chain[i]].prev = IF i = 1 THEN NULL ELSE Chain[i - 1]
  BY NodesOfList DEF ListOK, IsList
<1> QED  BY <1>1, <1>2, <1>4, <1>5 DEF Typed, TypeOK

LEMMA InitIsEmpty ==
  ASSUME Init
  PROVE  ListOK /\ Chain = <<>> /\ Typed /\ FileIsCurrent
<1>1. IsList(<<>>, head, tail, heap)
  BY NoNodes DEF Init
<1>2. Chain = <<>>
  BY <1>1, ChainNow
<1>3. 0 \in 0 .. MaxId /\ file \in File \cup {Torn}
  BY AccountAssumption DEF Init
<1> QED  BY <1>1, <1>2, <1>3 DEF Init, ListOK, Typed, FileIsCurrent

\* What every step keeps.
SafeList == Typed /\ ListOK /\ FileIsCurrent

LEMMA SafeListStep == SafeList /\ [Next]_vars => SafeList'
<1> SUFFICES ASSUME SafeList, [Next]_vars
             PROVE  SafeList'
  OBVIOUS
<1>1. CASE Next
  BY <1>1, TypedStep, ListStep, FileStep DEF SafeList
<1>2. CASE UNCHANGED vars
  <2>1. UNCHANGED list
    BY <1>2 DEF vars, list
  <2>2. ListOK' /\ Chain' = Chain
    BY <2>1, ListStays DEF SafeList
  <2> QED  BY <1>2, <2>2 DEF SafeList, vars, list, Typed, FileIsCurrent
<1> QED  BY <1>1, <1>2

LEMMA AlwaysSafeList == Spec => []SafeList
<1>1. Init => SafeList
  BY InitIsEmpty DEF SafeList
<1> QED  BY <1>1, SafeListStep, PTL DEF Spec

\* In every state the variables have their types and the links of the list agree in
\* both directions, whatever was created, deleted, renamed or lost (add_node, del_node).
THEOREM TypeCorrect == Spec => []TypeOK
<1>1. SafeList => TypeOK
  BY ListImpliesTypes DEF SafeList
<1> QED  BY <1>1, AlwaysSafeList, PTL

\* Between two requests the file is that of the accounts in memory (am_account_save).
THEOREM FileStaysCurrent == Spec => []FileIsCurrent
<1>1. SafeList => FileIsCurrent
  BY DEF SafeList
<1> QED  BY <1>1, AlwaysSafeList, PTL

-----------------------------------------------------------------------------
(* The readers *)

ReaderState ==
  [pc : {"idle", "count", "copy", "use"}, at : Node \cup {NULL}, len : Nat,
   got : Seq(Node), byName : BOOLEAN, created : 0 .. 2, deleted : BOOLEAN]

\* The node after the first k.
After(c, k) == IF k < Len(c) THEN c[k + 1] ELSE NULL

\* The list c has become longer by what was created since r counted it, at most.
Few(r, c) == r.created < 2 => Len(c) <= r.len + r.created

\* Unless an account was deleted meanwhile, a reader is at its place in the list, or
\* past the end that the list had, and has copied what it counted at least.
InTheList(c, h, r) ==
  r.deleted
  \/ /\ r.pc \in {"idle", "count"} => r.got = <<>>
     /\ r.pc \in {"count", "copy"} => r.len <= Len(c)
     /\ r.pc = "count" => r.at = After(c, r.len) \/ (r.at = NULL /\ Few(r, c))
     /\ r.pc = "copy" =>
          /\ r.created < 2 => r.len < MaxAmount /\ Few(r, c)
          /\ \/ Len(r.got) <= Len(c) /\ r.at = After(c, Len(r.got))
             \/ r.at = NULL /\ Len(r.got) >= r.len
     /\ r.pc = "use" => Len(r.got) >= r.len
     /\ \A i \in 1 .. Len(r.got) : h[r.got[i]] # Free

LEMMA RestingIsReader ==
  /\ Resting \in ReaderState /\ Resting.pc = "idle" /\ Resting.got = <<>>
  /\ \A c, h : InTheList(c, h, Resting)
<1>1. <<>> \in Seq(Node) /\ Len(<<>>) = 0
  BY EmptySeq
<1>2. /\ Resting.pc = "idle" /\ Resting.got = <<>> /\ Resting.deleted = FALSE
      /\ Resting \in ReaderState
  BY <1>1 DEF Resting, ReaderState
<1> QED  BY <1>1, <1>2 DEF InTheList

LEMMA AfterIsNext ==
  ASSUME NEW c, NEW first, NEW last, NEW h, IsList(c, first, last, h), NEW k \in Nat
  PROVE  /\ After(c, k) = NULL <=> k >= Len(c)
         /\ k < Len(c) => /\ After(c, k) \in Node /\ h[After(c, k)] # Free
                          /\ h[After(c, k)].next = After(c, k + 1)
         /\ first = After(c, 0)
<1>1. Len(c) \in Nat /\ NULL \notin Node
  BY NodesOf, AccountAssumption
<1>2. CASE k < Len(c)
  <2>1. k + 1 \in 1 .. Len(c) /\ After(c, k) = c[k + 1]
    BY <1>1, <1>2 DEF After
  <2>2. c[k + 1] \in Node /\ h[c[k + 1]] # Free
    BY <2>1, NodesOf
  <2>3. h[c[k + 1]].next = IF k + 1 = Len(c) THEN NULL ELSE c[(k + 1) + 1]
    BY <2>1 DEF IsList
  <2>4. h[After(c, k)].next = After(c, k + 1)
    BY <1>1, <1>2, <2>1, <2>3 DEF After
  <2>5. first = After(c, 0)
    BY <1>1, <1>2 DEF After, IsList
  <2> QED  BY <1>1, <1>2, <2>1, <2>2, <2>4, <2>5
<1>3. CASE k >= Len(c)
  <2>1. first = After(c, 0)
    BY <1>1 DEF After, IsList
  <2> QED  BY <1>1, <1>3, <2>1 DEF After
<1> QED  BY <1>1, <1>2, <1>3

\* An account more, at the end.
LEMMA ReaderKeepsPlace ==
  ASSUME NEW c, NEW first, NEW last, NEW h, IsList(c, first, last, h),
         NEW p \in Node, h[p] = Free, NEW h2, \A q \in Node : h[q] # Free => h2[q] # Free,
         NEW r \in ReaderState, InTheList(c, h, r),
         NEW r2, r2 = [r EXCEPT !.created = IF @ < 2 THEN @ + 1 ELSE @]
  PROVE  r2 \in ReaderState /\ InTheList(Append(c, p), h2, r2)
<1> DEFINE d == Append(c, p)
           n == Len(c)
<1>1. /\ n \in Nat /\ Len(d) = n + 1 /\ \A k \in 1 .. n : d[k] = c[k]
      /\ c \in Seq(Node)
  BY NodesOf, AppendProperties
<1>2. /\ r.len \in Nat /\ r.created \in 0 .. 2 /\ r.got \in Seq(Node)
      /\ r2.pc = r.pc /\ r2.at = r.at /\ r2.len = r.len /\ r2.got = r.got
      /\ r2.deleted = r.deleted
      /\ r2.created = IF r.created < 2 THEN r.created + 1 ELSE r.created
  BY DEF ReaderState
<1>3. r2 \in ReaderState
  <2>1. (IF r.created < 2 THEN r.created + 1 ELSE r.created) \in 0 .. 2
    BY <1>2
  <2> QED  BY <2>1 DEF ReaderState
<1> HIDE DEF d, n
<1>4. Len(r.got) \in Nat /\ \A i \in 1 .. Len(r.got) : r.got[i] \in Node
  BY <1>2, LenProperties
<1>5. ASSUME NEW k \in Nat, k < n
      PROVE  After(d, k) = After(c, k)
  BY <1>1, <1>5 DEF After, n
<1>6. \A k \in Nat : k >= n => After(c, k) = NULL
  BY <1>1 DEF After, n
<1>7. Few(r, c) => Few(r2, d)
  BY <1>1, <1>2 DEF Few, n
<1>8. r.len = n => Few(r2, d)
  BY <1>1, <1>2 DEF Few, n
<1>9. InTheList(d, h2, r2)
  <2>1. SUFFICES ASSUME ~r.deleted
                 PROVE  InTheList(d, h2, r2)
    BY <1>2 DEF InTheList
  <2>2. r.pc \in {"idle", "count"} => r.got = <<>>
    BY <2>1 DEF InTheList
  <2>3. r.pc \in {"count", "copy"} => r.len <= Len(d) /\ r.len <= n
    BY <1>1, <1>2, <2>1 DEF InTheList, n
  <2>4. r.pc = "count" => r.at = After(d, r.len) \/ (r.at = NULL /\ Few(r2, d))
    BY <1>2, <1>1, <1>5, <1>6, <1>7, <1>8, <2>1, <2>3 DEF InTheList
  <2>5. r.pc = "copy" =>
          /\ r2.created < 2 => r.len < MaxAmount /\ Few(r2, d)
          /\ \/ Len(r.got) <= Len(d) /\ r.at = After(d, Len(r.got))
             \/ r.at = NULL /\ Len(r.got) >= r.len
    <3> SUFFICES ASSUME r.pc = "copy"
                 PROVE  /\ r2.created < 2 => r.len < MaxAmount /\ Few(r2, d)
                        /\ \/ Len(r.got) <= Len(d) /\ r.at = After(d, Len(r.got))
                           \/ r.at = NULL /\ Len(r.got) >= r.len
      OBVIOUS
    <3>1. /\ r.created < 2 => r.len < MaxAmount /\ Few(r, c)
          /\ \/ Len(r.got) <= n /\ r.at = After(c, Len(r.got))
             \/ r.at = NULL /\ Len(r.got) >= r.len
      BY <2>1 DEF InTheList, n
    <3>2. r2.created < 2 => r.len < MaxAmount /\ Few(r2, d)
      BY <1>2, <1>7, <3>1
    <3>3. CASE Len(r.got) <= n /\ r.at = After(c, Len(r.got))
      BY <1>1, <1>2, <1>4, <1>5, <1>6, <2>3, <3>2, <3>3
    <3>4. CASE r.at = NULL /\ Len(r.got) >= r.len
      BY <3>2, <3>4
    <3> QED  BY <3>1, <3>3, <3>4
  <2>6. r.pc = "use" => Len(r.got) >= r.len
    BY <2>1 DEF InTheList
  <2>7. \A i \in 1 .. Len(r.got) : h2[r.got[i]] # Free
    BY <1>4, <2>1 DEF InTheList
  <2> QED  BY <1>2, <2>2, <2>3, <2>4, <2>5, <2>6, <2>7 DEF InTheList
<1> QED  BY <1>3, <1>9 DEF d

\* A change of accounts where they are.
LEMMA ReaderSeesSame ==
  ASSUME NEW c, NEW h, NEW r \in ReaderState, InTheList(c, h, r),
         NEW h2, \A q \in Node : h[q] # Free => h2[q] # Free
  PROVE  InTheList(c, h2, r)
<1>1. \A i \in 1 .. Len(r.got) : r.got[i] \in Node
  BY LenProperties DEF ReaderState
<1> QED  BY <1>1 DEF InTheList

Reading ==
  /\ reader \in [Reader -> ReaderState]
  /\ \A r \in Reader : InTheList(Chain, heap, reader[r])
  /\ ~up => \A r \in Reader : reader[r] = Resting

Named ==
  /\ \A p \in Node : heap[p] # Free /\ heap[p].name = Unset => p \in fresh
  /\ up => fault = <<"none", NULL>>

\* What a fault of this kind, of this thread or node, shows.
Caused(kind, who) ==
  /\ kind \in {"freed", "missing"} => reader[who].deleted
  /\ kind = "past" => reader[who].deleted \/ reader[who].created = 2
  /\ kind = "unset" => who \in fresh

\* A step of a reader leads to its next place, or to a fault that has its cause.
LEMMA OwnStep ==
  ASSUME ListOK, Reading, Named, NEW r \in Reader, ReaderStep(r)
  PROVE  \/ \E new : Step(r, new) /\ new \in ReaderState /\ InTheList(Chain, heap, new)
         \/ \E kind, who : Fault(kind, who) /\ Caused(kind, who)
<1> DEFINE R == reader[r]
           c == Chain
           Goes(new) == Step(r, new) /\ new \in ReaderState /\ InTheList(c, heap, new)
           Fails(kind, who) == Fault(kind, who) /\ Caused(kind, who)
           n == Len(c)
<1>1. R \in ReaderState /\ InTheList(c, heap, R)
  BY DEF Reading
<1>2. n \in Nat /\ c \in Seq(Node) /\ IsList(c, head, tail, heap)
  BY NodesOfList DEF ListOK
<1>3. /\ R.pc \in {"idle", "count", "copy", "use"} /\ R.at \in Node \cup {NULL}
      /\ R.len \in Nat /\ R.got \in Seq(Node) /\ R.created \in 0 .. 2
      /\ R.deleted \in BOOLEAN /\ R.byName \in BOOLEAN
  BY <1>1 DEF ReaderState
<1>4. /\ Len(R.got) \in Nat /\ \A i \in 1 .. Len(R.got) : R.got[i] \in Node
      /\ R.got = <<>> <=> Len(R.got) = 0
      /\ R.got # <<>> => /\ Head(R.got) = R.got[1] /\ Tail(R.got) \in Seq(Node)
                         /\ Len(Tail(R.got)) = Len(R.got) - 1
                         /\ \A i \in 1 .. Len(Tail(R.got)) : Tail(R.got)[i] = R.got[i + 1]
  <2>1. R.got = <<>> <=> Len(R.got) = 0
    BY <1>3, EmptySeq
  <2> QED  BY <1>3, <2>1, LenProperties, HeadTailProperties
<1>5. \A p \in Node : heap[p] # Free => heap[p].next \in Node \cup {NULL}
  BY NodesOfList DEF Cell
<1>6. \A k \in Nat : /\ After(c, k) = NULL <=> k >= n
                     /\ k < n => /\ After(c, k) \in Node /\ heap[After(c, k)] # Free
                                 /\ heap[After(c, k)].next = After(c, k + 1)
                     /\ head = After(c, 0)
  BY <1>2, AfterIsNext
<1>a. head \in Node \cup {NULL}
  BY <1>2 DEF IsList
<1>b. InTheList(c, heap, Resting) /\ Resting \in ReaderState
  BY RestingIsReader
<1>c. MaxAmount \in Nat
  BY AccountAssumption
<1> HIDE DEF R, c, n
<1>7. CASE BeginCount(r)
  <2> DEFINE new == [Resting EXCEPT !.pc = "count", !.at = head]
  <2>1. Step(r, new)
    BY <1>7 DEF BeginCount
  <2>2. new \in ReaderState
    BY <1>a, <1>b DEF ReaderState
  <2>3. /\ new.pc = "count" /\ new.at = head /\ new.len = 0 /\ new.got = <<>>
        /\ new.deleted = FALSE /\ new.created = 0
    BY DEF Resting
  <2> HIDE DEF new
  <2>4. InTheList(c, heap, new)
    <3>1. Len(<<>>) = 0 /\ head = After(c, 0) /\ 0 <= Len(c)
      BY <1>2, <1>6, EmptySeq DEF n
    <3> QED  BY <2>3, <3>1 DEF InTheList
  <2> QED  BY <2>1, <2>2, <2>4 DEF c
<1>8. CASE Count(r)
  <2>1. R.pc = "count" /\ R.at # NULL /\ R.at \in Node
    BY <1>3, <1>8 DEF Count, At, R
  <2>2. CASE heap[R.at] = Free
    <3>1. Fault("freed", r)
      BY <1>8, <2>2 DEF Count, R
    <3>2. R.deleted
      <4> SUFFICES ASSUME ~R.deleted
                   PROVE  FALSE
        OBVIOUS
      <4>1. R.at = After(c, R.len) /\ R.len <= n
        BY <1>1, <2>1 DEF InTheList, n
      <4> QED  BY <1>2, <1>3, <1>6, <2>1, <2>2, <4>1
    <3> QED  BY <3>1, <3>2 DEF Caused, R
  <2>3. CASE heap[R.at] # Free
    <3> DEFINE new == [R EXCEPT !.at = heap[@].next, !.len = @ + 1]
    <3>1. Step(r, new)
      BY <1>8, <2>3 DEF Count, R
    <3>2. new \in ReaderState
      <4>1. R.len + 1 \in Nat /\ heap[R.at].next \in Node \cup {NULL}
        BY <1>3, <1>5, <2>1, <2>3
      <4> QED  BY <1>1, <4>1 DEF ReaderState
    <3>3. /\ new.pc = "count" /\ new.at = heap[R.at].next /\ new.len = R.len + 1
          /\ new.got = R.got /\ new.deleted = R.deleted
      BY <1>1, <2>1 DEF ReaderState
    <3> HIDE DEF new
    <3>4. InTheList(c, heap, new)
      <4> SUFFICES ASSUME ~R.deleted
                   PROVE  InTheList(c, heap, new)
        BY <3>3 DEF InTheList
      <4>1. R.at = After(c, R.len) /\ R.got = <<>>
        BY <1>1, <2>1 DEF InTheList
      <4>2. R.len < n /\ new.at = After(c, R.len + 1) /\ R.len + 1 <= n
        BY <1>2, <1>3, <1>6, <2>1, <3>3, <4>1
      <4> QED  BY <1>4, <3>3, <4>1, <4>2 DEF InTheList, n
    <3> QED  BY <3>1, <3>2, <3>4 DEF c
  <2> QED  BY <2>2, <2>3
<1>9. CASE Counted(r)
  <2>1. R.pc = "count" /\ R.at = NULL
    BY <1>9 DEF Counted, At, R
  <2>2. CASE Fits(R.len)
    <3> DEFINE new == [R EXCEPT !.pc = "copy", !.at = head]
    <3>1. Step(r, new)
      BY <1>9, <2>2 DEF Counted, R
    <3>2. new \in ReaderState
      BY <1>1, <1>a DEF ReaderState
    <3>3. /\ new.pc = "copy" /\ new.at = head /\ new.len = R.len /\ new.created = R.created
          /\ new.got = R.got /\ new.deleted = R.deleted
      BY <1>1, <2>1 DEF ReaderState
    <3> HIDE DEF new
    <3>4. InTheList(c, heap, new)
      <4> SUFFICES ASSUME ~R.deleted
                   PROVE  InTheList(c, heap, new)
        BY <3>3 DEF InTheList
      <4>1. /\ R.at = After(c, R.len) \/ Few(R, c)
            /\ R.got = <<>> /\ R.len <= n
        BY <1>1, <2>1 DEF InTheList, n
      <4>2. Few(new, c)
        BY <1>2, <1>3, <1>6, <2>1, <3>3, <4>1 DEF Few, n
      <4>3. R.len < MaxAmount /\ Len(R.got) = 0 /\ head = After(c, 0) /\ 0 <= n
        BY <1>2, <1>4, <1>6, <2>2, <4>1 DEF Fits
      <4> QED  BY <3>3, <4>1, <4>2, <4>3 DEF InTheList, n
    <3> QED  BY <3>1, <3>2, <3>4 DEF c
  <2>3. CASE ~Fits(R.len)
    <3>1. Step(r, Resting)
      BY <1>9, <2>3 DEF Counted, R
    <3> QED  BY <1>b, <3>1 DEF c
  <2> QED  BY <2>2, <2>3
<1>10. CASE Copy(r)
  <2>1. R.pc = "copy" /\ R.at # NULL /\ R.at \in Node
    BY <1>3, <1>10 DEF Copy, At, R
  <2>0. ASSUME ~R.deleted
        PROVE  /\ R.at = After(c, Len(R.got)) /\ Len(R.got) < n /\ heap[R.at] # Free
               /\ heap[R.at].next = After(c, Len(R.got) + 1) /\ R.len <= n
               /\ R.created < 2 => R.len < MaxAmount /\ Few(R, c)
               /\ \A i \in 1 .. Len(R.got) : heap[R.got[i]] # Free
    <3>1. /\ R.at = After(c, Len(R.got)) /\ R.len <= n
          /\ R.created < 2 => R.len < MaxAmount /\ Few(R, c)
          /\ \A i \in 1 .. Len(R.got) : heap[R.got[i]] # Free
      BY <1>1, <2>0, <2>1 DEF InTheList, n
    <3> QED  BY <1>2, <1>4, <1>6, <2>1, <3>1
  <2>2. CASE heap[R.at] = Free
    <3>1. Fault("freed", r)
      BY <1>10, <2>2 DEF Copy, R
    <3> QED  BY <2>0, <2>2, <3>1 DEF Caused, R
  <2>3. CASE heap[R.at] # Free /\ Len(R.got) = MaxAmount
    <3>1. Fault("past", r)
      BY <1>10, <2>3 DEF Copy, R
    <3>2. R.deleted \/ R.created = 2
      <4> SUFFICES ASSUME ~R.deleted, R.created # 2
                   PROVE  FALSE
        OBVIOUS
      <4>1. Len(R.got) < n /\ R.len < MaxAmount /\ n <= R.len + R.created /\ R.created <= 1
        BY <1>3, <2>0 DEF Few, n
      <4> QED  BY <1>2, <1>3, <1>4, <1>c, <2>3, <4>1
    <3> QED  BY <3>1, <3>2 DEF Caused, R
  <2>4. CASE heap[R.at] # Free /\ Len(R.got) # MaxAmount
    <3> DEFINE new == [R EXCEPT !.got = Append(@, R.at), !.at = heap[@].next]
    <3>1. Step(r, new)
      BY <1>10, <2>4 DEF Copy, R
    <3>0. /\ Append(R.got, R.at) \in Seq(Node)
          /\ Len(Append(R.got, R.at)) = Len(R.got) + 1
          /\ \A i \in 1 .. Len(R.got) : Append(R.got, R.at)[i] = R.got[i]
          /\ Append(R.got, R.at)[Len(R.got) + 1] = R.at
      BY <1>3, <2>1, AppendProperties
    <3>2. new \in ReaderState
      BY <1>1, <1>5, <2>1, <2>4, <3>0 DEF ReaderState
    <3>3. /\ new.pc = "copy" /\ new.at = heap[R.at].next /\ new.len = R.len
          /\ new.created = R.created
          /\ new.got = Append(R.got, R.at) /\ new.deleted = R.deleted
      BY <1>1, <2>1 DEF ReaderState
    <3> HIDE DEF new
    <3>4. InTheList(c, heap, new)
      <4> SUFFICES ASSUME ~R.deleted
                   PROVE  InTheList(c, heap, new)
        BY <3>3 DEF InTheList
      <4>1. \A i \in 1 .. Len(new.got) : heap[new.got[i]] # Free
        BY <1>4, <2>0, <2>4, <3>0, <3>3
      <4>2. Len(new.got) <= n /\ new.at = After(c, Len(new.got))
        BY <1>2, <1>4, <2>0, <3>0, <3>3
      <4>3. new.created < 2 => new.len < MaxAmount /\ Few(new, c)
        BY <2>0, <3>3 DEF Few
      <4>4. new.len <= n
        BY <2>0, <3>3
      <4> QED  BY <3>3, <4>1, <4>2, <4>3, <4>4 DEF InTheList, n
    <3> QED  BY <3>1, <3>2, <3>4 DEF c
  <2> QED  BY <2>2, <2>3, <2>4
<1>11. CASE Copied(r)
  <2>1. R.pc = "copy" /\ R.at = NULL
    BY <1>11 DEF Copied, At, R
  <2>2. PICK byName \in BOOLEAN : Step(r, [R EXCEPT !.pc = "use", !.byName = byName])
    BY <1>11 DEF Copied, R
  <2> DEFINE new == [R EXCEPT !.pc = "use", !.byName = byName]
  <2>3. new \in ReaderState
    BY <1>1 DEF ReaderState
  <2>4. new.pc = "use" /\ new.len = R.len /\ new.got = R.got /\ new.deleted = R.deleted
    BY <1>1 DEF ReaderState
  <2> HIDE DEF new
  <2>5. InTheList(c, heap, new)
    <3> SUFFICES ASSUME ~R.deleted
                 PROVE  InTheList(c, heap, new)
      BY <2>4 DEF InTheList
    <3>1. /\ R.len <= n
          /\ \A i \in 1 .. Len(R.got) : heap[R.got[i]] # Free
          /\ \/ Len(R.got) <= n /\ R.at = After(c, Len(R.got))
             \/ Len(R.got) >= R.len
      BY <1>1, <2>1 DEF InTheList, n
    <3>2. Len(R.got) >= R.len
      BY <1>2, <1>3, <1>4, <1>6, <2>1, <3>1
    <3> QED  BY <2>4, <3>1, <3>2 DEF InTheList
  <2> QED  BY <2>2, <2>3, <2>5 DEF c, new
<1>12. CASE Use(r)
  <2>1. R.pc = "use" /\ R.len > 0
    BY <1>12 DEF Use, At, R
  <2>0. ~R.deleted => /\ Len(R.got) >= R.len
                      /\ \A i \in 1 .. Len(R.got) : heap[R.got[i]] # Free
    BY <1>1, <2>1 DEF InTheList
  <2>2. CASE R.got = <<>>
    <3>1. Fault("missing", r)
      BY <1>12, <2>2 DEF Use, R
    <3>2. R.deleted
      BY <1>3, <1>4, <2>0, <2>1, <2>2
    <3> QED  BY <3>1, <3>2 DEF Caused, R
  <2>3. CASE R.got # <<>> /\ heap[Head(R.got)] = Free
    <3>1. Fault("freed", r)
      BY <1>12, <2>3 DEF Use, R
    <3>2. R.deleted
      BY <1>4, <2>0, <2>3
    <3> QED  BY <3>1, <3>2 DEF Caused, R
  <2>4. CASE /\ R.got # <<>> /\ heap[Head(R.got)] # Free
             /\ R.byName /\ heap[Head(R.got)].name = Unset
    <3>1. Fault("unset", Head(R.got))
      BY <1>12, <2>4 DEF Use, R
    <3>2. Head(R.got) \in Node
      BY <1>4, <2>4
    <3>3. Head(R.got) \in fresh
      BY <2>4, <3>2 DEF Named
    <3> QED  BY <3>1, <3>3 DEF Caused
  <2>5. CASE /\ R.got # <<>> /\ heap[Head(R.got)] # Free
             /\ ~(R.byName /\ heap[Head(R.got)].name = Unset)
    <3> DEFINE new == [R EXCEPT !.got = Tail(@), !.len = @ - 1]
    <3>1. Step(r, new) \/ Step(r, Resting)
      BY <1>12, <2>5 DEF Use, R
    <3>2. new \in ReaderState
      <4>1. R.len - 1 \in Nat
        BY <1>3, <2>1
      <4> QED  BY <1>1, <1>4, <2>5, <4>1 DEF ReaderState
    <3>3. /\ new.pc = "use" /\ new.len = R.len - 1 /\ new.got = Tail(R.got)
          /\ new.deleted = R.deleted
      BY <1>1, <2>1 DEF ReaderState
    <3> HIDE DEF new
    <3>4. InTheList(c, heap, new)
      <4> SUFFICES ASSUME ~R.deleted
                   PROVE  InTheList(c, heap, new)
        BY <3>3 DEF InTheList
      <4>1. Len(new.got) >= new.len
        BY <1>3, <1>4, <2>0, <2>5, <3>3
      <4>2. ASSUME NEW i \in 1 .. Len(new.got)
            PROVE  heap[new.got[i]] # Free
        <5>1. i + 1 \in 1 .. Len(R.got) /\ new.got[i] = R.got[i + 1]
          BY <1>4, <2>5, <3>3, <4>2
        <5> QED  BY <2>0, <5>1
      <4> QED  BY <3>3, <4>1, <4>2 DEF InTheList
    <3> QED  BY <1>b, <3>1, <3>2, <3>4 DEF c
  <2> QED  BY <2>2, <2>3, <2>4, <2>5
<1>13. CASE Used(r)
  <2>1. Step(r, Resting)
    BY <1>13 DEF Used
  <2> QED  BY <1>b, <2>1 DEF c
<1> QED
  BY <1>7, <1>8, <1>9, <1>10, <1>11, <1>12, <1>13 DEF ReaderStep

\* What every step keeps, of the readers too.
SafeAccounts == SafeList /\ Reading /\ Named

LEMMA EndsSafe ==
  ASSUME Gone
  PROVE  Reading' /\ (\A p \in Node : heap'[p] = Free) /\ ~up'
<1>1. reader' = [r \in Reader |-> Resting] /\ ~up' /\ (\A p \in Node : heap'[p] = Free)
  BY DEF Gone
<1> QED  BY <1>1, RestingIsReader DEF Reading

LEMMA AccountsStep ==
  ASSUME SafeAccounts, Next
  PROVE  Reading' /\ Named'
<1>0. ListOK /\ Reading /\ Named /\ id \in 0 .. MaxId /\ Typed
  BY DEF SafeAccounts, SafeList, Typed
<1>a. /\ reader \in [Reader -> ReaderState]
      /\ \A r \in Reader : reader[r] \in ReaderState /\ InTheList(Chain, heap, reader[r])
  BY <1>0 DEF Reading
<1>1. CASE cr_init
  <2>1. ~up /\ up' /\ reader' = reader /\ fault' = <<"none", NULL>>
    BY <1>1 DEF cr_init
  <2>2. Reading'
    BY <1>0, <1>a, <2>1, RestingIsReader DEF Reading
  <2>3. /\ ListOK' /\ Len(Chain') = Len(file.accounts)
        /\ \A i \in 1 .. Len(Chain') : heap'[Chain'[i]].name = file.accounts[i].name
        /\ file.accounts \in Seq([id : Id, name : Name])
    BY <1>0, <1>1, StartLoads DEF Typed
  <2>4. \A i \in 1 .. Len(Chain') : heap'[Chain'[i]].name # Unset
    <3> TAKE i \in 1 .. Len(Chain')
    <3>1. file.accounts[i] \in [id : Id, name : Name]
      BY <2>3, LenProperties
    <3> QED  BY <2>3, <3>1, AccountAssumption
  <2>5. \A p \in Node : heap'[p] # Free => heap'[p].name # Unset
    BY <2>3, <2>4, NextList
  <2> QED  BY <2>1, <2>2, <2>5 DEF Named
<1>2. CASE Gone
  BY <1>2, EndsSafe DEF Named
<1>3. CASE am_account_create
  <2>1. PICK p \in Node :
          /\ Chain' = Append(Chain, p) /\ heap[p] = Free
          /\ heap'[p] # Free /\ heap'[p].name = Unset
          /\ \A q \in Node \ {p} : SameAccount(q)
          /\ fresh' = fresh \cup {p}
    BY <1>0, <1>3, CreateAppends
  <2>2. /\ up /\ up' = up /\ fault' = fault
        /\ reader' = [r \in Reader |->
                        [reader[r] EXCEPT !.created = IF @ < 2 THEN @ + 1 ELSE @]]
    BY <1>3 DEF am_account_create, Serves
  <2>3. \A q \in Node : heap[q] # Free => heap'[q] # Free
    BY <2>1 DEF SameAccount
  <2>4. ASSUME NEW r \in Reader
        PROVE  reader'[r] \in ReaderState /\ InTheList(Chain', heap', reader'[r])
    <3>1. reader'[r] = [reader[r] EXCEPT !.created = IF @ < 2 THEN @ + 1 ELSE @]
      BY <2>2
    <3>2. IsList(Chain, head, tail, heap)
      BY <1>0 DEF ListOK
    <3>3. reader'[r] \in ReaderState /\ InTheList(Append(Chain, p), heap', reader'[r])
      BY <1>a, <2>1, <2>3, <3>1, <3>2, ReaderKeepsPlace
    <3> QED  BY <2>1, <3>3
  <2>5. reader' \in [Reader -> ReaderState]
    BY <2>2, <2>4
  <2>6. Named'
    BY <1>0, <2>1, <2>2 DEF Named, SameAccount
  <2> QED  BY <2>2, <2>4, <2>5, <2>6 DEF Reading
<1>4. CASE am_account_delete
  <2>1. up /\ up' = up /\ fault' = fault
    BY <1>4 DEF am_account_delete, Serves
  <2>2. CASE UNCHANGED <<list, reader, unsaved, fresh>>
    <3>1. Chain' = Chain /\ heap' = heap /\ reader' = reader /\ fresh' = fresh
      BY <1>0, <2>2, ListStays DEF list
    <3> QED  BY <1>0, <2>1, <3>1 DEF Reading, Named
  <2>3. CASE \E p \in Node :
               /\ heap'[p] = Free
               /\ \A q \in Node \ {p} : SameAccount(q)
               /\ fresh' = fresh \ {p}
               /\ reader' = [r \in Reader |-> [reader[r] EXCEPT !.deleted = TRUE]]
    <3>1. PICK p \in Node :
            /\ heap'[p] = Free
            /\ \A q \in Node \ {p} : SameAccount(q)
            /\ fresh' = fresh \ {p}
            /\ reader' = [r \in Reader |-> [reader[r] EXCEPT !.deleted = TRUE]]
      BY <2>3
    <3>2. ASSUME NEW r \in Reader
          PROVE  reader'[r] \in ReaderState /\ InTheList(Chain', heap', reader'[r])
      <4>1. reader'[r] = [reader[r] EXCEPT !.deleted = TRUE]
        BY <3>1
      <4>2. reader'[r] \in ReaderState /\ reader'[r].deleted
        BY <1>a, <4>1 DEF ReaderState
      <4> QED  BY <4>2 DEF InTheList
    <3>3. reader' \in [Reader -> ReaderState]
      BY <3>1, <3>2
    <3>4. Named'
      BY <1>0, <2>1, <3>1 DEF Named, SameAccount
    <3> QED  BY <2>1, <3>2, <3>3, <3>4 DEF Reading
  <2> QED  BY <1>0, <1>4, <2>2, <2>3, DeleteTakesOut
<1>5. CASE am_account_set
  <2>1. PICK v \in Name, p \in Node :
          /\ Chain' = Chain
          /\ \A q \in Node \ {p} : SameAccount(q)
          /\ heap'[p] # Free /\ heap'[p].name = v
          /\ fresh' = fresh \ {p}
    BY <1>0, <1>5, SetNameStays
  <2>2. up /\ up' = up /\ fault' = fault /\ reader' = reader
    BY <1>5 DEF am_account_set, Serves
  <2>3. \A q \in Node : heap[q] # Free => heap'[q] # Free
    BY <2>1 DEF SameAccount
  <2>4. \A r \in Reader : InTheList(Chain', heap', reader'[r])
    BY <1>a, <2>1, <2>2, <2>3, ReaderSeesSame
  <2>5. Named'
    BY <1>0, <2>1, <2>2, AccountAssumption DEF Named, SameAccount
  <2> QED  BY <1>a, <2>2, <2>4, <2>5 DEF Reading
<1>6. CASE SetId
  <2>1. PICK p \in Node :
          /\ Chain' = Chain
          /\ \A q \in Node \ {p} : SameAccount(q)
          /\ heap[p] # Free /\ heap'[p] # Free /\ heap'[p].name = heap[p].name
    <3>1. PICK i \in 1 .. Len(Chain), p \in Node :
            /\ p = Chain[i] /\ Chain' = Chain
            /\ \A q \in Node \ {p} : SameAccount(q)
            /\ heap'[p] # Free /\ heap'[p].name = heap[p].name
      BY <1>0, <1>6, SetIdStays
    <3>2. heap[p] # Free
      BY <1>0, <3>1, NodesOfList
    <3> QED  BY <3>1, <3>2
  <2>2. up /\ up' = up /\ fault' = fault /\ reader' = reader /\ fresh' = fresh
    BY <1>6 DEF SetId, Serves
  <2>3. \A q \in Node : heap[q] # Free => heap'[q] # Free
    BY <2>1 DEF SameAccount
  <2>4. \A r \in Reader : InTheList(Chain', heap', reader'[r])
    BY <1>a, <2>1, <2>2, <2>3, ReaderSeesSame
  <2>5. Named'
    BY <1>0, <2>1, <2>2 DEF Named, SameAccount
  <2> QED  BY <1>a, <2>2, <2>4, <2>5 DEF Reading
<1>7. CASE UNCHANGED <<up, list, reader, fault, fresh>>
  <2>1. Chain' = Chain /\ heap' = heap
    BY <1>0, <1>7, ListStays DEF list
  <2> QED  BY <1>0, <1>7, <2>1 DEF Reading, Named
<1>8. ASSUME NEW r \in Reader, ReaderStep(r)
      PROVE  Reading' /\ Named'
  <2>1. CASE \E new : Step(r, new) /\ new \in ReaderState /\ InTheList(Chain, heap, new)
    <3>1. PICK new : Step(r, new) /\ new \in ReaderState /\ InTheList(Chain, heap, new)
      BY <2>1
    <3>2. /\ UNCHANGED list /\ reader' = [reader EXCEPT ![r] = new]
          /\ up' = up /\ fault' = fault /\ fresh' = fresh
      BY <3>1 DEF Step
    <3>3. Chain' = Chain /\ heap' = heap
      BY <1>0, <3>2, ListStays DEF list
    <3>4. up
      BY <1>8 DEF ReaderStep, BeginCount, Count, Counted, Copy, Copied, Use, Used, At
    <3> QED  BY <1>0, <1>a, <3>1, <3>2, <3>3, <3>4 DEF Reading, Named
  <2>2. CASE \E kind, who : Fault(kind, who)
    BY <1>2, <2>2 DEF Fault
  <2> QED  BY <1>0, <1>8, <2>1, <2>2, OwnStep
<1> QED
  BY <1>1, <1>2, <1>3, <1>4, <1>5, <1>6, <1>7, <1>8
     DEF Next, GuiStep, Crash, am_account_get, am_account_save, OpenFile, OpenFails,
         WriteFile, Fault

LEMMA SafeAccountsStep == SafeAccounts /\ [Next]_vars => SafeAccounts'
<1> SUFFICES ASSUME SafeAccounts, [Next]_vars
             PROVE  SafeAccounts'
  OBVIOUS
<1>1. SafeList'
  BY SafeListStep DEF SafeAccounts
<1>2. CASE Next
  BY <1>1, <1>2, AccountsStep DEF SafeAccounts
<1>3. CASE UNCHANGED vars
  <2>1. UNCHANGED list
    BY <1>3 DEF vars, list
  <2>2. Chain' = Chain
    BY <2>1, ListStays DEF SafeAccounts, SafeList
  <2> QED  BY <1>1, <1>3, <2>2 DEF SafeAccounts, vars, Reading, Named
<1> QED  BY <1>2, <1>3

LEMMA AlwaysSafeAccounts == Spec => []SafeAccounts
<1>1. Init => SafeAccounts
  <2> SUFFICES ASSUME Init
               PROVE  SafeAccounts
    OBVIOUS
  <2>1. Reading /\ Named
    BY RestingIsReader DEF Init, Reading, Named
  <2> QED  BY <2>1, InitIsEmpty DEF SafeAccounts, SafeList
<1> QED  BY <1>1, SafeAccountsStep, PTL DEF Spec

\* A reader meets freed memory or a missing pointer only if an account was deleted while
\* it read, runs past its array only if one was deleted or two were created, and misses
\* a text only in an account that was not filled in yet (am_get_all_accounts, get_length).
THEOREM FaultsNeedChange == Spec => FaultsHaveCause
<1>1. SafeAccounts /\ [Next]_vars =>
        [LET kind == fault'[1]
             who == fault'[2]
         IN Gone /\ kind # "none" =>
              /\ kind \in {"freed", "missing"} => reader[who].deleted
              /\ kind = "past" => reader[who].deleted \/ reader[who].created = 2
              /\ kind = "unset" => who \in fresh]_<<up, fault>>
  <2> SUFFICES ASSUME SafeAccounts, [Next]_vars, Gone, fault'[1] # "none",
                      ~(UNCHANGED <<up, fault>>)
               PROVE  Caused(fault'[1], fault'[2])
    BY DEF Caused
  <2>0. ListOK /\ Reading /\ Named
    BY DEF SafeAccounts, SafeList
  <2>1. Next
    BY DEF vars
  <2>2. up' = FALSE
    BY DEF Gone
  <2>3. CASE Crash
    <3>1. up /\ fault' = fault
      BY <2>3 DEF Crash
    <3> QED  BY <2>0, <3>1 DEF Named
  <2>4. CASE am_account_get
    <3>1. PICK p \in Range(Chain) : heap[p].name = Unset /\ Fault("unset", p)
      BY <2>4 DEF am_account_get
    <3>2. p \in Node /\ heap[p] # Free
      BY <2>0, NodesOfList DEF Range
    <3>3. p \in fresh
      BY <2>0, <3>1, <3>2 DEF Named
    <3>4. fault' = <<"unset", p>>
      BY <3>1 DEF Fault
    <3> QED  BY <3>3, <3>4 DEF Caused
  <2>5. CASE OpenFails
    <3>1. fault' = <<"close", NULL>>
      BY <2>5 DEF OpenFails, Fault
    <3> QED  BY <3>1 DEF Caused
  <2>6. ASSUME NEW r \in Reader, ReaderStep(r)
        PROVE  Caused(fault'[1], fault'[2])
    <3>1. CASE \E new : Step(r, new)
      <4>1. up' = up /\ fault' = fault
        BY <3>1 DEF Step
      <4> QED  BY <4>1
    <3>2. CASE \E kind, who : Fault(kind, who) /\ Caused(kind, who)
      <4>1. PICK kind, who : Fault(kind, who) /\ Caused(kind, who)
        BY <3>2
      <4>2. fault' = <<kind, who>>
        BY <4>1 DEF Fault
      <4> QED  BY <4>1, <4>2
    <3> QED  BY <2>0, <2>6, <3>1, <3>2, OwnStep
  <2>7. CASE \/ cr_init \/ am_account_create \/ am_account_delete \/ am_account_set \/ SetId
             \/ am_account_save \/ OpenFile \/ WriteFile
    BY <2>2, <2>7 DEF cr_init, am_account_create, am_account_delete, am_account_set, SetId,
         am_account_save, OpenFile, WriteFile, Serves
  <2> QED  BY <2>1, <2>3, <2>4, <2>5, <2>6, <2>7 DEF Next, GuiStep
<1> QED  BY <1>1, AlwaysSafeAccounts, PTL DEF Spec, FaultsHaveCause

-----------------------------------------------------------------------------
(* The table of accounts *)

\* Until the GUI overwrites an id, no two accounts share one: the counter is
\* above the ids in use, and the file that may be read again has no id twice.
Numbered ==
  ~renamed =>
    /\ \A p, q \in Node :
          heap[p] # Free /\ heap[q] # Free /\ heap[p].id = heap[q].id => p = q
    /\ \A p \in Node : heap[p] # Free => heap[p].id <= id
    /\ file # Torn =>
          \A i, j \in DOMAIN file.accounts :
             file.accounts[i].id = file.accounts[j].id => i = j

LEMMA NumberedStep ==
  ASSUME Typed, ListOK, Numbered, Next
  PROVE  Numbered'
<1>1. SUFFICES ASSUME ~renamed'
               PROVE  /\ \A p, q \in Node :
                            heap'[p] # Free /\ heap'[q] # Free /\ heap'[p].id = heap'[q].id
                              => p = q
                      /\ \A p \in Node : heap'[p] # Free => heap'[p].id <= id'
                      /\ file' # Torn =>
                            \A i, j \in DOMAIN file'.accounts :
                               file'.accounts[i].id = file'.accounts[j].id => i = j
  BY DEF Numbered
<1>2. CASE cr_init
  <2>1. /\ file.accounts \in Seq([id : Id, name : Name])
        /\ ListOK' /\ Len(Chain') = Len(file.accounts)
        /\ \A i \in 1 .. Len(Chain') : heap'[Chain'[i]].id = file.accounts[i].id
        /\ \A p \in Node : heap'[p] # Free => heap'[p].id <= id'
    BY <1>2, StartLoads DEF Typed
  <2>2. file' = file /\ file # Torn /\ ~renamed
    BY <1>1, <1>2 DEF cr_init
  <2>3. DOMAIN file.accounts = 1 .. Len(Chain')
    BY <2>1, LenProperties
  <2>4. \A i, j \in 1 .. Len(Chain') : file.accounts[i].id = file.accounts[j].id => i = j
    BY <2>2, <2>3 DEF Numbered
  <2>5. ASSUME NEW p \in Node, NEW q \in Node,
               heap'[p] # Free, heap'[q] # Free, heap'[p].id = heap'[q].id
        PROVE  p = q
    <3>1. PICK i \in 1 .. Len(Chain'), j \in 1 .. Len(Chain') : Chain'[i] = p /\ Chain'[j] = q
      BY <2>1, <2>5, NextList
    <3>2. file.accounts[i].id = file.accounts[j].id
      BY <2>1, <2>5, <3>1
    <3> QED  BY <2>4, <3>1, <3>2
  <2> QED  BY <2>1, <2>2, <2>3, <2>4, <2>5
<1>3. CASE Gone
  <2>1. ~renamed /\ file' = file /\ \A p \in Node : heap'[p] = Free
    BY <1>1, <1>3 DEF Gone
  <2> QED  BY <2>1 DEF Numbered
<1>4. CASE am_account_create
  <2>1. PICK p \in Node :
          /\ heap[p] = Free /\ heap'[p] # Free /\ heap'[p].id = id + 1
          /\ \A q \in Node \ {p} : SameAccount(q)
    BY <1>4, CreateAppends DEF Typed
  <2>2. ~renamed /\ file' = file /\ id' = id + 1 /\ id \in Nat
    BY <1>1, <1>4 DEF am_account_create, Typed
  <2>3. \A q \in Node \ {p} :
          heap'[q] # Free => heap[q] # Free /\ heap'[q].id = heap[q].id /\ heap[q].id <= id
    BY <2>1, <2>2 DEF SameAccount, Numbered
  <2>4. \A q \in Node : heap[q] # Free => heap[q].id \in Nat
    BY NodesOfList DEF Id
  <2>5. \A q \in Node \ {p} : heap'[q] # Free => heap'[q].id <= id' /\ heap'[q].id # id + 1
    BY <2>2, <2>3, <2>4
  <2>6. heap'[p].id <= id'
    BY <2>1, <2>2
  <2>7. \A q, r \in Node \ {p} :
          heap'[q] # Free /\ heap'[r] # Free /\ heap'[q].id = heap'[r].id => q = r
    BY <2>2, <2>3 DEF Numbered
  <2> QED  BY <2>1, <2>2, <2>5, <2>6, <2>7 DEF Numbered
<1>5. CASE \E p \in Node :
             /\ heap'[p] = Free \/ (heap[p] # Free /\ heap'[p].id = heap[p].id)
             /\ \A q \in Node \ {p} : SameAccount(q)
             /\ id' = id /\ file' = file /\ renamed' = renamed
  BY <1>1, <1>5 DEF SameAccount, Numbered
<1>6. CASE am_account_delete
  <2>1. id' = id /\ file' = file /\ renamed' = renamed
    BY <1>6 DEF am_account_delete
  <2>2. CASE UNCHANGED <<list, reader, unsaved, fresh>>
    BY <1>1, <2>1, <2>2 DEF list, Numbered
  <2> QED  BY <1>5, <1>6, <2>1, <2>2, DeleteTakesOut
<1>7. CASE am_account_set
  <2>1. PICK i \in 1 .. Len(Chain), p \in Node :
          /\ p = Chain[i] /\ \A q \in Node \ {p} : SameAccount(q)
          /\ heap'[p] # Free /\ heap'[p].id = heap[p].id
    BY <1>7, SetNameStays
  <2>2. heap[p] # Free
    BY <2>1, NodesOfList
  <2>3. id' = id /\ file' = file /\ renamed' = renamed
    BY <1>7 DEF am_account_set
  <2> QED  BY <1>5, <2>1, <2>2, <2>3
<1>8. CASE SetId
  BY <1>1, <1>8 DEF SetId
<1>9. CASE WriteFile
  <2>1. PICK held \in Held(Contents) : file' = [text |-> Texts(config), accounts |-> held]
    BY <1>9 DEF WriteFile
  <2>2. heap' = heap /\ id' = id /\ ~renamed /\ file'.accounts = held
    BY <1>1, <1>9, <2>1 DEF WriteFile, list
  <2>3. /\ DOMAIN held = 1 .. Len(Chain)
        /\ \A i \in 1 .. Len(Chain) : held[i].id = heap[Chain[i]].id
    BY HeldOf
  <2>4. ASSUME NEW i \in 1 .. Len(Chain), NEW j \in 1 .. Len(Chain), held[i].id = held[j].id
        PROVE  i = j
    <3>1. Chain[i] \in Node /\ Chain[j] \in Node /\ heap[Chain[i]] # Free /\ heap[Chain[j]] # Free
      BY NodesOfList
    <3>2. Chain[i] = Chain[j]
      BY <2>2, <2>3, <2>4, <3>1 DEF Numbered
    <3> QED  BY <3>2, NodesOfList
  <2> QED  BY <2>2, <2>3, <2>4 DEF Numbered
<1>10. CASE OpenFile
  <2>1. heap' = heap /\ id' = id /\ ~renamed /\ file' = Torn
    BY <1>1, <1>10 DEF OpenFile, list
  <2> QED  BY <2>1 DEF Numbered
<1>11. CASE UNCHANGED <<list, id, file, renamed>>
  BY <1>1, <1>11 DEF list, Numbered
<1>12. ASSUME NEW r \in Reader, ReaderStep(r)
       PROVE  Gone \/ UNCHANGED <<list, id, file, renamed>>
  BY <1>12, ReaderChanges DEF core
<1> QED
  BY <1>2, <1>3, <1>4, <1>6, <1>7, <1>8, <1>9, <1>10, <1>11, <1>12
     DEF Next, GuiStep, Crash, am_account_get, am_account_save, OpenFails, Fault

LEMMA AlwaysNumbered == Spec => []Numbered
<1>1. Init => Numbered
  <2> SUFFICES ASSUME Init
               PROVE  Numbered
    OBVIOUS
  <2>1. file # Torn => file \in Files \ {Torn}
    BY DEF Init
  <2>2. \A p \in Node : heap[p] = Free
    BY DEF Init
  <2> QED  BY <2>1, <2>2, AccountAssumption DEF Numbered
<1>2. SafeList /\ Numbered /\ [Next]_vars => Numbered'
  <2>1. SafeList /\ Numbered /\ Next => Numbered'
    BY NumberedStep DEF SafeList
  <2>2. Numbered /\ UNCHANGED vars => Numbered'
    BY DEF vars, Numbered
  <2> QED  BY <2>1, <2>2
<1> QED  BY <1>1, <1>2, AlwaysSafeList, PTL DEF Spec

\* A sequence without its i-th element.
LEMMA RemovedAt ==
  ASSUME NEW S, NEW s \in Seq(S), NEW i \in 1 .. Len(s)
  PROVE  /\ RemoveAt(s, i) \in Seq(S) /\ Len(RemoveAt(s, i)) = Len(s) - 1
         /\ \A j \in 1 .. Len(s) - 1 :
               RemoveAt(s, i)[j] = IF j < i THEN s[j] ELSE s[j + 1]
<1> DEFINE n == Len(s)
           front == SubSeq(s, 1, i - 1)
           back == SubSeq(s, i + 1, n)
<1>1. n \in Nat /\ i \in 1 .. n /\ RemoveAt(s, i) = front \o back
  BY LenProperties DEF RemoveAt
<1>2. /\ front \in Seq(S) /\ Len(front) = i - 1
      /\ \A j \in 1 .. i - 1 : front[j] = s[j]
  <2>1. \A j \in 1 .. i - 1 : s[j] \in S
    BY <1>1, LenProperties
  <2>2. /\ front \in Seq(S)
        /\ Len(front) = IF 1 <= i - 1 THEN i - 1 - 1 + 1 ELSE 0
        /\ \A j \in 1 .. i - 1 - 1 + 1 : front[j] = s[1 + j - 1]
    BY <1>1, <2>1, SubSeqProperties
  <2> QED  BY <1>1, <2>2
<1>3. /\ back \in Seq(S) /\ Len(back) = n - i
      /\ \A j \in 1 .. n - i : back[j] = s[i + j]
  <2>1. \A j \in i + 1 .. n : s[j] \in S
    BY <1>1, LenProperties
  <2>2. /\ back \in Seq(S)
        /\ Len(back) = IF i + 1 <= n THEN n - (i + 1) + 1 ELSE 0
        /\ \A j \in 1 .. n - (i + 1) + 1 : back[j] = s[i + 1 + j - 1]
    BY <1>1, <2>1, SubSeqProperties
  <2> QED  BY <1>1, <2>2
<1> HIDE DEF n, front, back
<1>4. /\ front \o back \in Seq(S) /\ Len(front \o back) = n - 1
      /\ \A j \in 1 .. n - 1 :
            (front \o back)[j] = IF j <= i - 1 THEN front[j] ELSE back[j - (i - 1)]
  BY <1>1, <1>2, <1>3, ConcatProperties
<1>5. ASSUME NEW j \in 1 .. n - 1
      PROVE  (front \o back)[j] = IF j < i THEN s[j] ELSE s[j + 1]
  <2>1. CASE j < i
    BY <1>1, <1>2, <1>4, <2>1
  <2>2. CASE ~(j < i)
    <3>1. j - (i - 1) \in 1 .. n - i /\ i + (j - (i - 1)) = j + 1
      BY <1>1, <2>2
    <3>2. back[j - (i - 1)] = s[j + 1]
      BY <1>3, <3>1
    <3> QED  BY <1>1, <1>4, <2>2, <3>2
  <2> QED  BY <2>1, <2>2
<1> QED  BY <1>1, <1>4, <1>5 DEF n

\* Accounts with different ids have as many ids as there are accounts.
LEMMA IdsCount ==
  ASSUME NEW S, NEW s \in Seq(S),
         \A i, j \in 1 .. Len(s) : s[i].id = s[j].id => i = j
  PROVE  Cardinality({a.id : a \in Range(s)}) = Len(s)
<1> DEFINE n == Len(s)
           T == {a.id : a \in Range(s)}
           f == [i \in 1 .. n |-> s[i].id]
<1>1. n \in Nat /\ DOMAIN s = 1 .. n
  BY LenProperties
<1>2. T = {s[i].id : i \in 1 .. n}
  BY <1>1 DEF Range
<1>3. f \in Bijection(1 .. n, T)
  <2>1. f \in [1 .. n -> T]
    BY <1>2
  <2>2. \A i, j \in 1 .. n : f[i] = f[j] => i = j
    OBVIOUS
  <2>3. \A t \in T : \E i \in 1 .. n : f[i] = t
    BY <1>2
  <2> HIDE DEF f, T, n
  <2> QED  BY <2>1, <2>2, <2>3 DEF Bijection, Injection, Surjection, IsInjective
<1>4. IsFiniteSet(1 .. n) /\ Cardinality(1 .. n) = n
  BY <1>1, FS_Interval
<1> HIDE DEF f, T, n
<1>5. Cardinality(T) = Cardinality(1 .. n)
  BY <1>3, <1>4, FS_Bijection DEF ExistsBijection
<1> QED  BY <1>4, <1>5 DEF T, n

\* The contents of the list after each request.
LEMMA SameContents ==
  ASSUME ListOK, ListOK', Chain' = Chain,
         \A i \in 1 .. Len(Chain) : SameAccount(Chain[i])
  PROVE  Contents' = Contents
<1>1. /\ Contents \in Seq(Account) /\ Contents' \in Seq(Account)
      /\ Len(Contents) = Len(Chain) /\ Len(Contents') = Len(Chain)
  BY ContentsOfList, NextList
<1>2. ASSUME NEW i \in 1 .. Len(Chain)
      PROVE  Contents'[i] = Contents[i]
  <2>1. heap[Chain[i]] # Free
    BY NodesOfList
  <2>2. heap'[Chain[i]].id = heap[Chain[i]].id /\ heap'[Chain[i]].name = heap[Chain[i]].name
    BY <2>1 DEF SameAccount
  <2> QED  BY <2>2, ContentsOfList, NextList
<1> QED  BY <1>1, <1>2, SeqEqual

LEMMA GrownContents ==
  ASSUME ListOK, ListOK', NEW p \in Node, Chain' = Append(Chain, p), heap[p] = Free,
         \A q \in Node \ {p} : SameAccount(q)
  PROVE  Contents' = Append(Contents, [id |-> heap'[p].id, name |-> heap'[p].name])
<1> DEFINE n == Len(Chain)
           a == [id |-> heap'[p].id, name |-> heap'[p].name]
<1>1. /\ n \in Nat /\ Chain \in Seq(Node) /\ Len(Chain') = n + 1 /\ Chain'[n + 1] = p
      /\ \A i \in 1 .. n : Chain'[i] = Chain[i]
  BY NodesOfList, AppendProperties
<1>2. /\ Contents \in Seq(Account) /\ Contents' \in Seq(Account)
      /\ Len(Contents) = n /\ Len(Contents') = n + 1
  BY <1>1, ContentsOfList, NextList
<1>3. Contents'[n + 1] = a /\ a \in Account
  <2>1. n + 1 \in 1 .. Len(Chain')
    BY <1>1
  <2>2. heap'[p].id \in Id /\ heap'[p].name \in Name \cup {Unset}
    BY <1>1, <2>1, NextList
  <2> QED  BY <1>1, <2>1, <2>2, NextList DEF Account
<1>4. ASSUME NEW i \in 1 .. n
      PROVE  Contents'[i] = Contents[i]
  <2>1. Chain[i] \in Node \ {p} /\ heap[Chain[i]] # Free
    BY NodesOfList
  <2>2. heap'[Chain[i]].id = heap[Chain[i]].id /\ heap'[Chain[i]].name = heap[Chain[i]].name
    BY <2>1 DEF SameAccount
  <2>3. i \in 1 .. Len(Chain')
    BY <1>1
  <2> QED  BY <1>1, <2>2, <2>3, ContentsOfList, NextList
<1> HIDE DEF a, n
<1>5. /\ Append(Contents, a) \in Seq(Account) /\ Len(Append(Contents, a)) = n + 1
      /\ Append(Contents, a)[n + 1] = a
      /\ \A i \in 1 .. n : Append(Contents, a)[i] = Contents[i]
  BY <1>2, <1>3, AppendProperties
<1>6. ASSUME NEW i \in 1 .. n + 1
      PROVE  Contents'[i] = Append(Contents, a)[i]
  <2>1. i \in 1 .. n \/ i = n + 1
    BY <1>1
  <2> QED  BY <1>3, <1>4, <1>5, <2>1
<1>7. Contents' = Append(Contents, a)
  BY <1>2, <1>5, <1>6, SeqEqual
<1> QED  BY <1>7 DEF a

LEMMA ShrunkContents ==
  ASSUME ListOK, ListOK', NEW i \in 1 .. Len(Chain), Chain' = Without(Chain, i),
         \A q \in Node \ {Chain[i]} : SameAccount(q)
  PROVE  Contents' = RemoveAt(Contents, i)
<1> DEFINE n == Len(Chain)
           at(j) == IF j < i THEN j ELSE j + 1
<1>1. n \in Nat /\ i \in 1 .. n /\ Contents \in Seq(Account) /\ Len(Contents) = n
  BY NodesOfList, ContentsOfList
<1>2. /\ RemoveAt(Contents, i) \in Seq(Account) /\ Len(RemoveAt(Contents, i)) = n - 1
      /\ \A j \in 1 .. n - 1 : RemoveAt(Contents, i)[j] = Contents[at(j)]
  BY <1>1, RemovedAt
<1>3. Len(Chain') = n - 1 /\ \A j \in 1 .. n - 1 : Chain'[j] = Chain[at(j)]
  <2>1. DOMAIN Chain' = 1 .. n - 1 /\ \A j \in 1 .. n - 1 : Chain'[j] = Chain[at(j)]
    BY DEF Without
  <2>2. n - 1 \in Nat /\ Len(Chain') \in Nat /\ DOMAIN Chain' = 1 .. Len(Chain')
    BY <1>1, NextList
  <2>3. Chain' \in Seq(Node)
    BY NextList
  <2> HIDE DEF n
  <2>4. Len(Chain') = n - 1
    <3>1. 1 .. Len(Chain') = 1 .. n - 1
      BY <2>1, <2>2
    <3>2. \A x \in Nat : x \in 1 .. Len(Chain') <=> x \in 1 .. n - 1
      BY <3>1
    <3>3. Len(Chain') <= n - 1
      BY <2>2, <3>2
    <3>4. n - 1 <= Len(Chain')
      BY <2>2, <3>2
    <3> QED  BY <2>2, <3>3, <3>4
  <2> QED  BY <2>1, <2>4
<1>4. Contents' \in Seq(Account) /\ Len(Contents') = n - 1
  BY <1>3, NextList
<1>5. ASSUME NEW j \in 1 .. n - 1
      PROVE  Contents'[j] = Contents[at(j)]
  <2> DEFINE q == Chain[at(j)]
  <2>1. at(j) \in 1 .. n /\ at(j) # i
    BY <1>1
  <2>2. q \in Node /\ heap[q] # Free /\ q # Chain[i]
    BY <2>1, NodesOfList
  <2>3. heap'[q].id = heap[q].id /\ heap'[q].name = heap[q].name
    BY <2>2 DEF SameAccount
  <2>4. Contents[at(j)] = [id |-> heap[q].id, name |-> heap[q].name]
    BY <2>1, ContentsOfList
  <2>5. Contents'[j] = [id |-> heap'[q].id, name |-> heap'[q].name]
    <3>1. j \in 1 .. Len(Chain') /\ Chain'[j] = q
      BY <1>3
    <3> HIDE DEF q
    <3> QED  BY <3>1, NextList
  <2> QED  BY <2>3, <2>4, <2>5
<1> HIDE DEF n, at
<1> QED  BY <1>2, <1>4, <1>5, SeqEqual

LEMMA ChangedContents ==
  ASSUME ListOK, ListOK', Chain' = Chain, NEW i \in 1 .. Len(Chain),
         \A q \in Node \ {Chain[i]} : SameAccount(q)
  PROVE  Contents' = [Contents EXCEPT ![i] = [id |-> heap'[Chain[i]].id,
                                              name |-> heap'[Chain[i]].name]]
<1> DEFINE a == [id |-> heap'[Chain[i]].id, name |-> heap'[Chain[i]].name]
           n == Len(Chain)
<1>1. /\ n \in Nat /\ i \in 1 .. n /\ Contents \in Seq(Account) /\ Len(Contents) = n
      /\ Contents' \in Seq(Account) /\ Len(Contents') = n
  BY NodesOfList, ContentsOfList, NextList
<1>2. Contents'[i] = a /\ a \in Account
  BY NextList DEF Account
<1>3. ASSUME NEW j \in 1 .. n, j # i
      PROVE  Contents'[j] = Contents[j]
  <2>1. Chain[j] \in Node \ {Chain[i]} /\ heap[Chain[j]] # Free
    BY <1>3, NodesOfList
  <2>2. heap'[Chain[j]].id = heap[Chain[j]].id /\ heap'[Chain[j]].name = heap[Chain[j]].name
    BY <2>1 DEF SameAccount
  <2> QED  BY <2>2, ContentsOfList, NextList, SMTT(30)
<1> HIDE DEF a, n
<1>4. /\ [Contents EXCEPT ![i] = a] \in Seq(Account)
      /\ Len([Contents EXCEPT ![i] = a]) = n
      /\ \A j \in 1 .. n : [Contents EXCEPT ![i] = a][j] = IF j = i THEN a ELSE Contents[j]
  BY <1>1, <1>2, ExceptSeq
<1>5. Contents' = [Contents EXCEPT ![i] = a]
  BY <1>1, <1>2, <1>3, <1>4, SeqEqual
<1> QED  BY <1>5 DEF a

\* Every step of the daemon is one of the table of accounts, or leaves it as it is.
LEMMA TableStep ==
  ASSUME Typed, ListOK, ListOK', Numbered, Next
  PROVE  Table!Next \/ UNCHANGED Table!vars
<1> DEFINE now == IF up THEN Contents ELSE <<>>
           then == IF up' THEN Contents' ELSE <<>>
<1>a. ASSUME then = now, renamed' = renamed
      PROVE  UNCHANGED Table!vars
  BY <1>a DEF Table!vars
<1>b. ASSUME NEW n \in Id, NEW i \in 1 .. Len(Chain), up, heap[Chain[i]].id = n,
             i = SelectInSeq(Contents, LAMBDA a : a.id = n)
      PROVE  /\ n \in Table!Ids /\ Table!First(n) = i
             /\ Contents[i] = [id |-> n, name |-> heap[Chain[i]].name]
  <2>1. now = Contents
    BY <1>b
  <2>2. i \in DOMAIN Contents /\ Contents[i].id = n
        /\ Contents[i] = [id |-> n, name |-> heap[Chain[i]].name]
    BY <1>b, ContentsOfList
  <2>3. n \in Table!Ids
    BY <2>1, <2>2 DEF Table!Ids, Table!Range
  <2>4. Table!First(n) = i
    BY <1>b, <2>1 DEF Table!First, Table!SelectInSeq, SelectInSeq, Table!Min, Min
  <2> QED  BY <2>2, <2>3, <2>4
<1>1. CASE cr_init
  <2>1. ~up /\ up' /\ renamed' = renamed
    BY <1>1 DEF cr_init
  <2>2. /\ file.accounts \in Seq([id : Id, name : Name]) /\ file # Torn
        /\ Len(Chain') = Len(file.accounts)
        /\ \A i \in 1 .. Len(Chain') : /\ heap'[Chain'[i]].id = file.accounts[i].id
                                       /\ heap'[Chain'[i]].name = file.accounts[i].name
    BY <1>1, StartLoads DEF Typed, cr_init
  <2>3. Contents' = file.accounts
    <3>1. DOMAIN file.accounts = 1 .. Len(Chain') /\ Len(Chain') \in Nat
      BY <2>2, LenProperties
    <3>2. ASSUME NEW i \in 1 .. Len(Chain')
          PROVE  Contents'[i] = file.accounts[i]
      <4>1. file.accounts[i] \in [id : Id, name : Name]
        BY <2>2, <3>1, LenProperties, ZenonT(40)
      <4>2. file.accounts[i] = [id |-> file.accounts[i].id, name |-> file.accounts[i].name]
        BY <4>1
      <4> QED  BY <2>2, <4>2, NextList
    <3>3. file.accounts \in Seq(Account)
      <4>1. [id : Id, name : Name] \subseteq Account
        BY DEF Account
      <4> QED  BY <2>2, <4>1, SeqMonotonic
    <3> QED  BY <2>2, <3>2, <3>3, NextList, SeqEqual
  <2>4. renamed \/ Cardinality({a.id : a \in Range(Contents')}) = Len(Contents')
    <3>1. CASE ~renamed
      <4>1. \A i, j \in 1 .. Len(file.accounts) :
               file.accounts[i].id = file.accounts[j].id => i = j
        BY <2>2, <3>1, LenProperties DEF Numbered
      <4> QED  BY <2>2, <2>3, <4>1, IdsCount
    <3> QED  BY <3>1
  <2>5. now = <<>> /\ then = Contents'
    BY <2>1
  <2>6. Table!Cardinality({a.id : a \in Range(Contents')})
          = Cardinality({a.id : a \in Range(Contents')})
    BY DEF Table!Cardinality, Cardinality
  <2>7. Table!Load
    BY <2>1, <2>2, <2>3, <2>4, <2>5, <2>6 DEF Table!Load, Table!Ids, Table!Range, Range
  <2> QED  BY <2>7 DEF Table!Next
<1>2. CASE Gone
  <2>1. then = <<>> /\ renamed' = renamed
    BY <1>2 DEF Gone
  <2>2. Table!Lose
    BY <2>1 DEF Table!Lose
  <2> QED  BY <2>2 DEF Table!Next
<1>3. CASE am_account_create
  <2>1. up /\ up' /\ renamed' = renamed
    BY <1>3 DEF am_account_create, Serves
  <2>2. PICK p \in Node :
          /\ Chain' = Append(Chain, p) /\ heap[p] = Free
          /\ heap'[p].id = id + 1 /\ heap'[p].name = Unset
          /\ \A q \in Node \ {p} : SameAccount(q)
    BY <1>3, CreateAppends DEF Typed
  <2>3. Contents' = Append(Contents, [id |-> id + 1, name |-> Unset])
    BY <2>2, GrownContents
  <2>4. now = Contents /\ then = Contents'
    BY <2>1
  <2>5. id + 1 \in Id /\ id \in Nat
    BY <1>3, AccountAssumption DEF am_account_create, Id, Typed
  <2>6. id + 1 \in Table!Ids => renamed
    <3>1. SUFFICES ASSUME ~renamed, NEW i \in 1 .. Len(Chain), Contents[i].id = id + 1
                   PROVE  FALSE
      BY <2>4, ContentsOfList DEF Table!Ids, Table!Range
    <3>2. /\ Chain[i] \in Node /\ heap[Chain[i]] # Free
          /\ heap[Chain[i]].id = id + 1
      BY <3>1, NodesOfList, ContentsOfList
    <3>3. heap[Chain[i]].id <= id
      BY <3>1, <3>2 DEF Numbered
    <3> QED  BY <2>5, <3>2, <3>3
  <2>7. Len(Contents') = Len(Contents) + 1
    BY <2>2, ContentsOfList, NextList, NodesOfList, AppendProperties
  <2>8. Table!Create
    BY <2>1, <2>3, <2>4, <2>5, <2>6, <2>7 DEF Table!Create
  <2> QED  BY <2>8 DEF Table!Next
<1>4. CASE am_account_delete
  <2>1. up /\ up' /\ renamed' = renamed
    BY <1>4 DEF am_account_delete, Serves
  <2>2. now = Contents /\ then = Contents'
    BY <2>1
  <2>3. CASE UNCHANGED <<list, reader, unsaved, fresh>>
    <3>1. Chain' = Chain /\ heap' = heap
      BY <2>3, ListStays DEF list
    <3>2. Contents' = Contents
      BY <3>1, SameContents, NodesOfList DEF SameAccount
    <3> QED  BY <1>a, <2>1, <2>2, <3>2
  <2>4. CASE \E n \in Id, i \in 1 .. Len(Chain), p \in Node :
               /\ p = Chain[i] /\ heap[p].id = n
               /\ i = SelectInSeq(Contents, LAMBDA a : a.id = n)
               /\ Chain' = Without(Chain, i)
               /\ \A q \in Node \ {p} : SameAccount(q)
    <3>1. PICK n \in Id, i \in 1 .. Len(Chain) :
            /\ heap[Chain[i]].id = n
            /\ i = SelectInSeq(Contents, LAMBDA a : a.id = n)
            /\ Chain' = Without(Chain, i)
            /\ \A q \in Node \ {Chain[i]} : SameAccount(q)
      BY <2>4
    <3>2. n \in Table!Ids /\ Table!First(n) = i
      BY <1>b, <2>1, <3>1
    <3>3. Contents' = RemoveAt(Contents, i) /\ Len(Contents') = Len(Contents) - 1
      BY <3>1, ShrunkContents, RemovedAt, ContentsOfList
    <3>4. Table!Delete
      BY <2>1, <2>2, <3>2, <3>3 DEF Table!Delete, Table!RemoveAt, RemoveAt
    <3> QED  BY <3>4 DEF Table!Next
  <2> QED  BY <1>4, <2>3, <2>4, DeleteTakesOut
<1>5. CASE am_account_set
  <2>1. up /\ up' /\ renamed' = renamed
    BY <1>5 DEF am_account_set, Serves
  <2>2. now = Contents /\ then = Contents'
    BY <2>1
  <2>3. PICK n \in Id, v \in Name, i \in 1 .. Len(Chain) :
          /\ heap[Chain[i]].id = n
          /\ i = SelectInSeq(Contents, LAMBDA a : a.id = n)
          /\ Chain' = Chain
          /\ \A q \in Node \ {Chain[i]} : SameAccount(q)
          /\ heap'[Chain[i]].id = heap[Chain[i]].id /\ heap'[Chain[i]].name = v
    <3>1. PICK n \in Id, v \in Name, i \in 1 .. Len(Chain), p \in Node :
            /\ p = Chain[i] /\ heap[p].id = n
            /\ i = SelectInSeq(Contents, LAMBDA a : a.id = n)
            /\ Chain' = Chain /\ \A q \in Node \ {p} : SameAccount(q)
            /\ heap'[p].id = heap[p].id /\ heap'[p].name = v
      BY <1>5, SetNameStays, ZenonT(40)
    <3> QED  BY <3>1
  <2>4. /\ n \in Table!Ids /\ Table!First(n) = i
        /\ Contents[i] = [id |-> n, name |-> heap[Chain[i]].name]
    BY <1>b, <2>1, <2>3
  <2>5. Contents' = [Contents EXCEPT ![i] = [id |-> n, name |-> v]]
    BY <2>3, ChangedContents
  <2>6. [Contents[i] EXCEPT !.name = v] = [id |-> n, name |-> v]
    BY <2>4
  <2>7. Contents' = [Contents EXCEPT ![i].name = v]
    BY <2>5, <2>6
  <2>8. Len(Contents') = Len(Contents)
    BY <2>3, ContentsOfList, NextList
  <2>9. Table!SetName
    BY <2>1, <2>2, <2>3, <2>4, <2>7, <2>8 DEF Table!SetName
  <2> QED  BY <2>9 DEF Table!Next
<1>6. CASE SetId
  <2>1. up /\ up' /\ renamed' = TRUE
    BY <1>6 DEF SetId, Serves
  <2>2. now = Contents /\ then = Contents'
    BY <2>1
  <2>3. PICK n \in Id, m \in Id, i \in 1 .. Len(Chain) :
          /\ heap[Chain[i]].id = n
          /\ i = SelectInSeq(Contents, LAMBDA a : a.id = n)
          /\ Chain' = Chain
          /\ \A q \in Node \ {Chain[i]} : SameAccount(q)
          /\ heap'[Chain[i]].id = m /\ heap'[Chain[i]].name = heap[Chain[i]].name
    <3>1. PICK n \in Id, m \in Id, i \in 1 .. Len(Chain), p \in Node :
            /\ p = Chain[i] /\ heap[p].id = n
            /\ i = SelectInSeq(Contents, LAMBDA a : a.id = n)
            /\ Chain' = Chain /\ \A q \in Node \ {p} : SameAccount(q)
            /\ heap'[p].id = m /\ heap'[p].name = heap[p].name
      BY <1>6, SetIdStays, ZenonT(40)
    <3> QED  BY <3>1
  <2>4. /\ n \in Table!Ids /\ Table!First(n) = i
        /\ Contents[i] = [id |-> n, name |-> heap[Chain[i]].name]
    BY <1>b, <2>1, <2>3
  <2>5. Contents' = [Contents EXCEPT ![i] = [id |-> m, name |-> heap[Chain[i]].name]]
    BY <2>3, ChangedContents
  <2>6. [Contents[i] EXCEPT !.id = m] = [id |-> m, name |-> heap[Chain[i]].name]
    BY <2>4
  <2>7. Contents' = [Contents EXCEPT ![i].id = m]
    BY <2>5, <2>6
  <2>8. Len(Contents') = Len(Contents)
    BY <2>3, ContentsOfList, NextList
  <2>9. Table!SetId
    BY <2>1, <2>2, <2>3, <2>4, <2>7, <2>8 DEF Table!SetId
  <2> QED  BY <2>9 DEF Table!Next
<1>7. CASE UNCHANGED <<up, list, renamed>>
  <2>1. Chain' = Chain /\ heap' = heap
    BY <1>7, ListStays DEF list
  <2>2. Contents' = Contents
    BY <2>1, SameContents, NodesOfList DEF SameAccount
  <2> QED  BY <1>7, <1>a, <2>2
<1>8. ASSUME NEW r \in Reader, ReaderStep(r)
      PROVE  Gone \/ UNCHANGED <<up, list, renamed>>
  BY <1>8, ReaderChanges DEF core
<1> QED
  BY <1>1, <1>2, <1>3, <1>4, <1>5, <1>6, <1>7, <1>8
     DEF Next, GuiStep, Crash, am_account_get, am_account_save, OpenFile, OpenFails,
         WriteFile, Fault

\* The doubly linked list, with its counter of ids and the file it is read from, is a
\* table of accounts in the order of their creation: a request reaches the one account
\* that it names, and no two accounts share an id unless the GUI made them (list.c,
\* account_management.c).
THEOREM ListIsTable == Spec => ImplementsTable
<1>1. Init => Table!Init
  BY DEF Init, Table!Init
<1>2. SafeList /\ SafeList' /\ Numbered /\ [Next]_vars => [Table!Next]_(Table!vars)
  <2>1. SafeList /\ SafeList' /\ Numbered /\ Next => Table!Next \/ UNCHANGED Table!vars
    BY TableStep DEF SafeList
  <2>2. SafeList /\ UNCHANGED vars => UNCHANGED Table!vars
    <3> SUFFICES ASSUME ListOK, UNCHANGED vars
                 PROVE  UNCHANGED Table!vars
      BY DEF SafeList
    <3>1. heap' = heap /\ up' = up /\ renamed' = renamed /\ UNCHANGED list
      BY DEF vars, list
    <3>2. Chain' = Chain
      BY <3>1, ListStays
    <3>3. Contents' = Contents
      BY <3>1, <3>2 DEF Contents
    <3> QED  BY <3>1, <3>3 DEF Table!vars
  <2> QED  BY <2>1, <2>2
<1> QED  BY <1>1, <1>2, AlwaysSafeList, AlwaysNumbered, PTL DEF Spec, ImplementsTable, Table!Spec

-----------------------------------------------------------------------------
(* The settings *)

\* A value that the document has a form for means the same when it is read again.
LEMMA ReadAgain ==
  ASSUME NEW s \in Setting, NEW value \in Writable(s)
  PROVE  Meaning(s, Read(TypeOf(s), Written(TypeOf(s), value))) = Meaning(s, value)
<1>1. TypeOf(s) \in {"int", "string", "bool", "level"}
  BY TypesOfSettings
<1>2. CASE TypeOf(s) = "bool"
  <2>1. Read(TypeOf(s), Written(TypeOf(s), value)) = parse_bool(bool_to_str(value))
    BY <1>2 DEF Read, Written
  <2>2. parse_bool(bool_to_str(value)) = IF value = "0" THEN "0" ELSE "1"
    BY DEF parse_bool, bool_to_str
  <2> QED  BY <1>2, <2>1, <2>2 DEF Meaning
<1>3. CASE TypeOf(s) = "level"
  BY <1>3 DEF Read, Written, Meaning, Writable, parse_loglevel_val, loglevel_to_str
<1>4. CASE TypeOf(s) = "int"
  <2>1. value \in Short /\ Read(TypeOf(s), Written(TypeOf(s), value)) = parse_int(Printed[value])
    BY <1>4 DEF Read, Written, Writable
  <2>2. Printed[value] = value /\ value \in Decimal
    BY <2>1, ConversionAssumption
  <2> QED  BY <1>4, <2>1, <2>2 DEF Meaning, parse_int
<1>5. CASE TypeOf(s) = "string"
  <2>1. value \in Ascii /\ Read(TypeOf(s), Written(TypeOf(s), value)) = Recoded[value]
    BY <1>5 DEF Read, Written, Writable
  <2>2. Recoded[value] = value
    BY <2>1, ConversionAssumption
  <2> QED  BY <1>5, <2>1, <2>2 DEF Meaning
<1> QED  BY <1>1, <1>2, <1>3, <1>4, <1>5

\* Memory and file agree on what the settings mean that the file has a form for.
Remembered ==
  config # NoConfig /\ file # Torn =>
    \A s \in Setting : config[s] \in Writable(s) =>
       Meaning(s, Read(TypeOf(s), file.text[s])) = Meaning(s, config[s])

LEMMA RememberedStep ==
  ASSUME Typed, ListOK, Remembered, Next
  PROVE  Remembered'
<1>1. CASE cr_init
  <2>1. config' = [s \in Setting |-> Read(TypeOf(s), file.text[s])] /\ file' = file
    BY <1>1, StartLoads DEF Typed, cr_init
  <2>2. \A s \in Setting : config'[s] = Read(TypeOf(s), file.text[s])
    BY <2>1
  <2> QED  BY <2>1, <2>2 DEF Remembered
<1>2. CASE UNCHANGED <<config, file>>
  BY <1>2 DEF Remembered
<1>3. CASE OpenFile
  BY <1>3 DEF Remembered, OpenFile
<1>4. CASE WriteFile
  <2>1. PICK held \in Held(Contents) : file' = [text |-> Texts(config), accounts |-> held]
    BY <1>4 DEF WriteFile
  <2>2. config' = config /\ file'.text = Texts(config)
    BY <1>4, <2>1 DEF WriteFile
  <2>3. \A s \in Setting : file'.text[s] = Written(TypeOf(s), config[s])
    BY <2>2 DEF Texts
  <2> QED  BY <2>2, <2>3, ReadAgain DEF Remembered
<1>5. ASSUME NEW r \in Reader, ReaderStep(r)
      PROVE  UNCHANGED <<config, file>>
  BY <1>5, ReaderChanges DEF core, Gone
<1> QED
  BY <1>1, <1>2, <1>3, <1>4, <1>5
     DEF Next, GuiStep, Crash, Gone, Fault, OpenFails, am_account_create, am_account_delete,
         am_account_set, SetId, am_account_get, am_account_save

\* The settings are written with every change of an account and read again at every
\* start.  However often that happens, a setting whose value the document has a form
\* for (a flag, a level that the reader knows, a number of at most nine characters, a
\* text in ASCII) keeps its meaning, whatever the other settings of the file, of the
\* accounts or of memory are (cw_save_config, cr_init).
THEOREM SettingsAreKept == Spec => SettingsStay
<1>1. Init => Remembered
  BY DEF Init, Remembered
<1>2. SafeList /\ Remembered /\ [Next]_vars => Remembered'
  <2>1. SafeList /\ Remembered /\ Next => Remembered'
    BY RememberedStep DEF SafeList
  <2>2. Remembered /\ UNCHANGED vars => Remembered'
    BY DEF vars, Remembered
  <2> QED  BY <2>1, <2>2
<1>3. SafeList /\ Remembered /\ [Next]_vars =>
        [config' # config /\ config # NoConfig =>
           \A s \in Setting : config[s] \in Writable(s) =>
                                 Meaning(s, config'[s]) = Meaning(s, config[s])]_config
  <2> SUFFICES ASSUME SafeList, Remembered, [Next]_vars, config' # config, config # NoConfig,
                      NEW s \in Setting, config[s] \in Writable(s)
               PROVE  Meaning(s, config'[s]) = Meaning(s, config[s])
    OBVIOUS
  <2>1. CASE cr_init
    <3>1. config' = [t \in Setting |-> Read(TypeOf(t), file.text[t])] /\ file # Torn
      BY <2>1, StartLoads DEF SafeList, Typed, cr_init
    <3> QED  BY <3>1 DEF Remembered
  <2>2. ASSUME NEW r \in Reader, ReaderStep(r)
        PROVE  config' = config
    BY <2>2, ReaderChanges DEF core, Gone
  <2> QED
    BY <2>1, <2>2
       DEF Next, GuiStep, Crash, Gone, Fault, OpenFails, am_account_create, am_account_delete,
           am_account_set, SetId, am_account_get, am_account_save, OpenFile, WriteFile, vars
<1> QED  BY <1>1, <1>2, <1>3, AlwaysSafeList, PTL DEF Spec, SettingsStay
===============================================================================
