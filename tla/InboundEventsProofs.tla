------------------------ MODULE InboundEventsProofs ------------------------
(***************************************************************************)
(* Proofs about InboundEvents, for any handlers, buses, workers, messages  *)
(* and restarts:                                                           *)
(*                                                                         *)
(*   EventTypeCorrect    the variables keep their types;                   *)
(*   HandlersInOrder     registration order, at most once each;            *)
(*   RemovedStaySilent   no message after Unsubscribe;                     *)
(*   ForeignLeavesNoTrace  a payload that names another AGV is refused;    *)
(*   PolicyCorrect       dispositions say what the accepted messages say;  *)
(*   EveryHandlerServed  nobody is missed, under the conditions below.     *)
(*                                                                         *)
(* All rest on Base, which says where a handler can be listed (ListsOK)    *)
(* and that each message has one worker (WorkOK).                          *)
(***************************************************************************)
EXTENDS InboundEvents, SequenceTheorems, TLAPS

-----------------------------------------------------------------------------
(***************************************************************************)
(* The invariants.                                                         *)
(***************************************************************************)
\* In registrations r, handler x comes before handler y.
Earlier(r, x, y) ==
    \E p, q \in 1 .. Len(r) : p < q /\ r[p][1] = x /\ r[q][1] = y

InOrder(r, s) == \A x, y \in 1 .. Len(s) : x < y => Earlier(r, s[x], s[y])

\* No handler is registered twice.
Once(r) == \A p, q \in 1 .. Len(r) : r[p][1] = r[q][1] => p = q

\* Handler h was registered for event e, by Subscribe if e is not typed.
Known(r, h, e) ==
    \E c \in Calls : /\ <<h, e, c>> \in ToSet(r)
                     /\ c = "Subscribe" \/ e \in Channels

\* The list s for event e: in order, and of handlers registered for e.
ListOK(r, s, e) == InOrder(r, s) /\ \A h \in ToSet(s) : Known(r, h, e)

\* The handlers' lists: of the client until it has a bus, and then of the buses.
ListsOK ==
    /\ Once(registered)
    /\ \A ch \in Channels : ListOK(registered, direct[ch], ch)
    /\ \A b \in Buses, e \in Events : ListOK(registered, subs[b][e], e)
    /\ bus = None => \A b \in Buses, e \in Events : subs[b][e] = << >>
    /\ bus # None => \A ch \in Channels : direct[ch] = << >>
    /\ \A b, c \in Buses, e \in Events :
         b # c => ToSet(subs[b][e]) \cap ToSet(subs[c][e]) = {}

Busy(t) == t.pc # "idle"

\* Each message has one worker until it is done with.
WorkOK ==
    /\ \A w \in Workers : Busy(work[w]) => work[w].i \in 1 .. n /\ fate[work[w].i] = "running"
    /\ \A w, v \in Workers : Busy(work[w]) /\ Busy(work[v]) /\ w # v => work[w].i # work[v].i
    /\ \A w \in Workers : work[w].pc \in {"invoke", "publish"} => called[work[w].i] = << >>
    /\ \A w \in Workers : work[w].pc = "publish" => work[w].b \in Buses
    /\ \A i \in Ids : i > n => /\ called[i] = << >> /\ input[i] = None
                               /\ disp[i] = "" /\ fate[i] = "none"

Base == TypeOK /\ ListsOK /\ WorkOK

\* The handlers that were called, c, and those that will be, s.
Continues(r, c, s) ==
    InOrder(r, s) /\ \A x \in ToSet(c), y \in ToSet(s) : Earlier(r, x, y)

OrderOK ==
    /\ \A i \in Ids : InOrder(registered, called[i])
    /\ \A w \in Workers : work[w].pc = "call" =>
         Continues(registered, called[work[w].i], work[w].todo)

\* A handler that was removed is on no list.
SilentLists ==
    /\ \A h \in removed : ~IsFresh(h)
    /\ \A ch \in Channels : ToSet(direct[ch]) \cap removed = {}
    /\ \A b \in Buses, e \in Events : ToSet(subs[b][e]) \cap removed = {}

SilentOK ==
    /\ SilentLists
    /\ \A i \in Ids : silent[i] \subseteq removed
    /\ \A w \in Workers : work[w].pc = "call" =>
         ToSet(work[w].todo) \cap silent[work[w].i] = {}
    /\ RemovedIsSilent

\* The payload of message m names another AGV, and that matters.
NamesAnother(m) == StrictIdentity /\ m.hasHeader /\ (m.mfr = "other" \/ m.sn = "other")
Foreign(m) == m # None /\ NamesAnother(m)

\* A worker publishes the event of its message, and so calls its handlers.
ForeignOK ==
    /\ \A w \in Workers : Busy(work[w]) /\ Foreign(input[work[w].i]) => work[w].ev = "decode"
    /\ \A w \in Workers : work[w].pc = "call" =>
         \A h \in ToSet(work[w].todo) : Known(registered, h, work[w].ev)
    /\ \A i \in Ids : Foreign(input[i]) =>
         disp[i] = "" /\ \A h \in ToSet(called[i]) : Known(registered, h, "decode")

\* Of the first m messages inp with dispositions d, those accepted for key k.
Accepted(d, inp, m, k) ==
    {j \in 1 .. m : d[j] = "accept" /\ inp[j].agv = k[1] /\ inp[j].ch = k[2]}

\* The watermark l of a key is the highest header ID of the messages a that
\* were accepted for it.
Watermark(l, a, inp) ==
    IF l = None THEN a = {}
    ELSE (\A j \in a : inp[j].headerId <= l) /\ \E j \in a : inp[j].headerId = l

\* What a disposition x says of header ID hid, given the accepted messages a.
Says(x, hid, a, inp) ==
    /\ x = "accept" => \A j \in a : hid > inp[j].headerId
    /\ x = "stale" => \E j \in a : hid < inp[j].headerId
    /\ x = "duplicate" => /\ \A j \in a : ~(hid < inp[j].headerId)
                          /\ \E j \in a : ~(hid > inp[j].headerId)

Sound(d, inp, i) ==
    Says(d[i], inp[i].headerId, Accepted(d, inp, i - 1, <<inp[i].agv, inp[i].ch>>), inp)

PolicyOK ==
    /\ \A i \in 1 .. n : disp[i] # "" => input[i] \in Inputs /\ Sound(disp, input, i)
    /\ \A k \in AGVs \X Channels : Watermark(last[k], Accepted(disp, input, n, k), input)

\* The handlers for event e with bus u, subscriptions s and lists d.
Listed(u, s, d, e) ==
    IF u # None THEN ToSet(s[u][e])
    ELSE IF e \in Channels THEN ToSet(d[e]) ELSE {}

\* A worker with task t will reach the handlers o that it has not called yet.
Reaches(t, o, c, u, s, d) ==
    /\ t.pc = "invoke" => o \subseteq Listed(u, s, d, t.ev)
    /\ t.pc = "publish" => o \subseteq ToSet(s[t.b][t.ev])
    /\ t.pc = "call" => o \subseteq ToSet(c) \cup ToSet(t.todo)

\* Until the client is stopped every handler is on its list, and what is owed
\* is called, to be called, or still to be found.
AllListed ==
    starts = 0 \/ phase = "started" =>
      /\ stopUnsubs = {}
      /\ \A e \in Events : Registered(e) \subseteq Listed(bus, subs, direct, e)

OwedOK ==
    /\ starts = 0 => phase = "stopped"
    /\ AllListed
    /\ phase # "started" => \A i \in Ids : fate[i] = "running" => owed[i] = {}
    /\ \A w \in Workers : Busy(work[w]) =>
         Reaches(work[w], owed[work[w].i], called[work[w].i], bus, subs, direct)
    /\ NobodyMissed

-----------------------------------------------------------------------------
(***************************************************************************)
(* Sequences.                                                              *)
(***************************************************************************)
LEMMA ElementsAppend ==
    ASSUME NEW S, NEW s \in Seq(S), NEW x \in S
    PROVE  /\ Append(s, x) \in Seq(S) /\ Len(Append(s, x)) = Len(s) + 1
           /\ \A k \in 1 .. Len(s) : Append(s, x)[k] = s[k]
           /\ Append(s, x)[Len(s) + 1] = x
           /\ ToSet(Append(s, x)) = ToSet(s) \cup {x}
<1>1. /\ Append(s, x) \in Seq(S) /\ Len(Append(s, x)) = Len(s) + 1
      /\ \A k \in 1 .. Len(s) : Append(s, x)[k] = s[k]
      /\ Append(s, x)[Len(s) + 1] = x
    OBVIOUS
<1> DEFINE r == Append(s, x)
<1>2. /\ DOMAIN r = 1 .. Len(s) + 1 /\ DOMAIN s = 1 .. Len(s) /\ Len(s) \in Nat
      /\ \A k \in 1 .. Len(s) : r[k] = s[k]
      /\ r[Len(s) + 1] = x
    BY <1>1
<1> HIDE DEF r
<1>3. ToSet(r) = ToSet(s) \cup {x}
    BY <1>2 DEF ToSet
<1> QED BY <1>1, <1>3 DEF r

LEMMA ElementsConcat ==
    ASSUME NEW S, NEW s \in Seq(S), NEW r \in Seq(S)
    PROVE  ToSet(s \o r) = ToSet(s) \cup ToSet(r)
<1> DEFINE c == s \o r
<1>1. /\ DOMAIN c = 1 .. Len(s) + Len(r) /\ DOMAIN s = 1 .. Len(s)
      /\ DOMAIN r = 1 .. Len(r) /\ Len(s) \in Nat /\ Len(r) \in Nat
      /\ \A k \in 1 .. Len(s) : c[k] = s[k]
      /\ \A k \in 1 .. Len(r) : c[Len(s) + k] = r[k]
    OBVIOUS
<1> HIDE DEF c
<1>2. ASSUME NEW y \in ToSet(c) PROVE y \in ToSet(s) \cup ToSet(r)
    <2>1. PICK k \in 1 .. Len(s) + Len(r) : y = c[k]
        BY <1>1 DEF ToSet
    <2>2. CASE k <= Len(s)
        BY <1>1, <2>1, <2>2 DEF ToSet
    <2>3. CASE k > Len(s)
        <3>1. k - Len(s) \in 1 .. Len(r) /\ Len(s) + (k - Len(s)) = k
            BY <1>1, <2>1, <2>3
        <3> QED BY <1>1, <2>1, <3>1 DEF ToSet
    <2> QED BY <1>1, <2>1, <2>2, <2>3
<1>3. ToSet(s) \subseteq ToSet(c) /\ ToSet(r) \subseteq ToSet(c)
    BY <1>1, SMTT(30) DEF ToSet
<1> QED BY <1>2, <1>3 DEF c

LEMMA ElementsEmpty == ToSet(<< >>) = {} /\ \A S : << >> \in Seq(S)
BY DEF ToSet

LEMMA Elements ==
    ASSUME NEW S, NEW s \in Seq(S)
    PROVE  /\ ToSet(s) \subseteq S
           /\ \A x \in ToSet(s) : \E k \in 1 .. Len(s) : s[k] = x
           /\ \A k \in 1 .. Len(s) : s[k] \in ToSet(s)
<1>1. DOMAIN s = 1 .. Len(s) /\ \A k \in 1 .. Len(s) : s[k] \in S
    OBVIOUS
<1> QED BY <1>1 DEF ToSet

LEMMA ElementsHead ==
    ASSUME NEW S, NEW s \in Seq(S), s # << >>
    PROVE  /\ Head(s) \in S /\ Tail(s) \in Seq(S) /\ Len(s) \in Nat \ {0}
           /\ s[1] = Head(s) /\ Len(Tail(s)) = Len(s) - 1
           /\ \A k \in 1 .. Len(s) - 1 : Tail(s)[k] = s[k + 1]
           /\ ToSet(s) = {Head(s)} \cup ToSet(Tail(s))
<1> DEFINE t == Tail(s)
<1>1. /\ Head(s) \in S /\ t \in Seq(S) /\ Len(s) \in Nat \ {0}
      /\ s[1] = Head(s) /\ Len(t) = Len(s) - 1
      /\ \A k \in 1 .. Len(s) - 1 : t[k] = s[k + 1]
    BY EmptySeq, HeadTailProperties
<1>2. DOMAIN t = 1 .. Len(s) - 1 /\ DOMAIN s = 1 .. Len(s)
    BY <1>1
<1> HIDE DEF t
<1>3. ToSet(s) \subseteq {Head(s)} \cup ToSet(t)
    <2> SUFFICES ASSUME NEW k \in 1 .. Len(s), k # 1 PROVE s[k] \in ToSet(t)
        BY <1>1, <1>2 DEF ToSet
    <2>1. k - 1 \in 1 .. Len(s) - 1 /\ (k - 1) + 1 = k
        BY <1>1
    <2> QED BY <1>1, <1>2, <2>1 DEF ToSet
<1>4. {Head(s)} \cup ToSet(t) \subseteq ToSet(s)
    BY <1>1, <1>2, SMTT(30) DEF ToSet
<1> QED BY <1>1, <1>3, <1>4 DEF t

\* What is left of a list of subscriptions.
LEMMA WithoutAt ==
    ASSUME NEW S, NEW s \in Seq(S), NEW h, h \in ToSet(s)
    PROVE  \E i \in 1 .. Len(s) :
             /\ s[i] = h
             /\ Without(s, h) \in Seq(S) /\ Len(Without(s, h)) = Len(s) - 1
             /\ \A k \in 1 .. Len(s) - 1 :
                  Without(s, h)[k] = IF k < i THEN s[k] ELSE s[k + 1]
<1> DEFINE at == {i \in 1 .. Len(s) : s[i] = h}
           i == CHOOSE j \in at : TRUE
<1>1. i \in 1 .. Len(s) /\ s[i] = h /\ at # {}
    BY Elements
<1>2. Without(s, h) = SubSeq(s, 1, i - 1) \o SubSeq(s, i + 1, Len(s))
    BY <1>1 DEF Without, RemoveAt
<1> HIDE DEF at, i
<1> DEFINE a == SubSeq(s, 1, i - 1)
           b == SubSeq(s, i + 1, Len(s))
<1>3. Len(s) \in Nat /\ \A k \in 1 .. Len(s) : s[k] \in S
    OBVIOUS
<1>4. /\ a \in Seq(S) /\ Len(a) = i - 1
      /\ \A k \in 1 .. i - 1 : a[k] = s[k]
    BY <1>1, <1>3, SubSeqProperties
<1>5. /\ b \in Seq(S) /\ Len(b) = Len(s) - i
      /\ \A k \in 1 .. Len(s) - i : b[k] = s[i + k]
    <2>1. i + 1 \in Int /\ Len(s) \in Int /\ \A k \in i + 1 .. Len(s) : s[k] \in S
        BY <1>1, <1>3
    <2>2. /\ b \in Seq(S) /\ Len(b) = IF i + 1 <= Len(s) THEN Len(s) - (i + 1) + 1 ELSE 0
          /\ \A k \in 1 .. Len(s) - (i + 1) + 1 : b[k] = s[(i + 1) + k - 1]
        BY <2>1, SubSeqProperties
    <2> HIDE DEF b
    <2> QED BY <1>1, <1>3, <2>2, SMTT(30)
<1> HIDE DEF a, b
<1>6. /\ a \o b \in Seq(S) /\ Len(a \o b) = Len(a) + Len(b)
      /\ \A k \in 1 .. Len(a) + Len(b) : (a \o b)[k] = IF k <= Len(a) THEN a[k] ELSE b[k - Len(a)]
    BY <1>4, <1>5, ConcatProperties
<1>7. Without(s, h) = a \o b
    BY <1>2 DEF a, b
<1> DEFINE w == a \o b
<1>8. w \in Seq(S) /\ Len(w) = Len(s) - 1
    BY <1>1, <1>3, <1>4, <1>5, <1>6
<1>9. ASSUME NEW k \in 1 .. Len(s) - 1
      PROVE  w[k] = IF k < i THEN s[k] ELSE s[k + 1]
    <2> HIDE DEF w
    <2>1. /\ k \in 1 .. Len(a) + Len(b)
          /\ w[k] = IF k <= Len(a) THEN a[k] ELSE b[k - Len(a)]
        BY <1>1, <1>3, <1>4, <1>5, <1>6 DEF w
    <2>2. CASE k < i
        BY <1>1, <1>4, <2>1, <2>2
    <2>3. CASE ~(k < i)
        <3>1. k - (i - 1) \in 1 .. Len(s) - i /\ i + (k - (i - 1)) = k + 1
            BY <1>1, <1>3, <2>3
        <3> QED BY <1>1, <1>4, <1>5, <2>1, <2>3, <3>1
    <2> QED BY <2>2, <2>3
<1> QED BY <1>1, <1>7, <1>8, <1>9

LEMMA WithoutOther ==
    ASSUME NEW S, NEW s \in Seq(S), NEW h, h \notin ToSet(s)
    PROVE  Without(s, h) = s
BY DEF Without, ToSet

LEMMA WithoutElements ==
    ASSUME NEW S, NEW s \in Seq(S), NEW h
    PROVE  /\ Without(s, h) \in Seq(S)
           /\ ToSet(Without(s, h)) \subseteq ToSet(s)
           /\ ToSet(s) \subseteq ToSet(Without(s, h)) \cup {h}
<1>1. CASE h \notin ToSet(s)
    BY <1>1, WithoutOther
<1>2. CASE h \in ToSet(s)
    <2> DEFINE w == Without(s, h)
    <2>1. PICK i \in 1 .. Len(s) :
             /\ s[i] = h
             /\ w \in Seq(S) /\ Len(w) = Len(s) - 1
             /\ \A k \in 1 .. Len(s) - 1 :
                  w[k] = IF k < i THEN s[k] ELSE s[k + 1]
        BY <1>2, WithoutAt
    <2>2. DOMAIN w = 1 .. Len(s) - 1 /\ DOMAIN s = 1 .. Len(s) /\ Len(s) \in Nat
        BY <2>1
    <2> HIDE DEF w
    <2>3. ToSet(w) \subseteq ToSet(s)
        BY <2>1, <2>2, SMTT(30) DEF ToSet
    <2>4. ASSUME NEW k \in 1 .. Len(s), s[k] # h PROVE s[k] \in ToSet(w)
        <3>1. CASE k < i
            BY <2>1, <2>2, <3>1 DEF ToSet
        <3>2. CASE k > i
            <4>1. k - 1 \in 1 .. Len(s) - 1 /\ ~(k - 1 < i) /\ (k - 1) + 1 = k
                BY <2>1, <2>2, <3>2
            <4> QED BY <2>1, <2>2, <4>1 DEF ToSet
        <3> QED BY <2>1, <2>4, <3>1, <3>2
    <2>5. ToSet(s) \subseteq ToSet(w) \cup {h}
        BY <2>2, <2>4 DEF ToSet
    <2> QED BY <2>1, <2>3, <2>5 DEF w
<1> QED BY <1>1, <1>2

-----------------------------------------------------------------------------
(***************************************************************************)
(* Registrations.                                                          *)
(***************************************************************************)
Entries == Handlers \X Events \X Calls

LEMMA EntryFacts ==
    ASSUME NEW r \in Seq(Entries)
    PROVE  /\ Len(r) \in Nat
           /\ \A p \in 1 .. Len(r) :
                /\ r[p] \in ToSet(r) /\ r[p][1] \in Handlers
                /\ r[p] = <<r[p][1], r[p][2], r[p][3]>>
<1>1. \A p \in 1 .. Len(r) : r[p] \in Entries /\ r[p] \in ToSet(r)
    BY Elements
<1>2. \A x \in Entries : x[1] \in Handlers /\ x = <<x[1], x[2], x[3]>>
    BY DEF Entries
<1>3. Len(r) \in Nat
    OBVIOUS
<1> QED BY <1>1, <1>2, <1>3

\* A registration more changes nothing about the others.
LEMMA RegisterKeeps ==
    ASSUME NEW r \in Seq(Entries), NEW z \in Entries
    PROVE  /\ \A x, y : Earlier(r, x, y) => Earlier(Append(r, z), x, y)
           /\ \A s : InOrder(r, s) => InOrder(Append(r, z), s)
           /\ \A h, e : Known(r, h, e) => Known(Append(r, z), h, e)
           /\ \A s, e : ListOK(r, s, e) => ListOK(Append(r, z), s, e)
<1> DEFINE a == Append(r, z)
<1>1. /\ Len(r) \in Nat /\ Len(a) = Len(r) + 1
      /\ \A k \in 1 .. Len(r) : a[k] = r[k]
      /\ ToSet(a) = ToSet(r) \cup {z}
    BY ElementsAppend
<1> HIDE DEF a
<1>2. \A x, y : Earlier(r, x, y) => Earlier(a, x, y)
    BY <1>1 DEF Earlier
<1>3. \A s : InOrder(r, s) => InOrder(a, s)
    BY <1>2 DEF InOrder
<1>4. \A h, e : Known(r, h, e) => Known(a, h, e)
    BY <1>1 DEF Known
<1>5. \A s, e : ListOK(r, s, e) => ListOK(a, s, e)
    BY <1>3, <1>4 DEF ListOK
<1> QED BY <1>2, <1>3, <1>4, <1>5 DEF a

\* A fresh handler is registered once, after all the others.
LEMMA RegisterFresh ==
    ASSUME NEW r \in Seq(Entries), NEW z \in Entries, Once(r),
           \A x \in ToSet(r) : x[1] # z[1]
    PROVE  /\ Once(Append(r, z))
           /\ \A x \in ToSet(r) : Earlier(Append(r, z), x[1], z[1])
<1> DEFINE a == Append(r, z)
<1>1. /\ Len(r) \in Nat /\ Len(a) = Len(r) + 1
      /\ \A k \in 1 .. Len(r) : a[k] = r[k] /\ r[k][1] # z[1]
      /\ a[Len(r) + 1] = z
      /\ \A x \in ToSet(r) : \E k \in 1 .. Len(r) : r[k] = x
    BY ElementsAppend, EntryFacts, Elements
<1> HIDE DEF a
<1>2. Once(a)
    <2> SUFFICES ASSUME NEW p \in 1 .. Len(a), NEW q \in 1 .. Len(a),
                        a[p][1] = a[q][1]
                 PROVE  p = q
        BY DEF Once
    <2>1. (p \in 1 .. Len(r) \/ p = Len(r) + 1) /\ (q \in 1 .. Len(r) \/ q = Len(r) + 1)
        BY <1>1
    <2> QED BY <1>1, <2>1 DEF Once
<1>3. ASSUME NEW x \in ToSet(r) PROVE Earlier(a, x[1], z[1])
    <2>1. PICK k \in 1 .. Len(r) : r[k] = x
        BY <1>1
    <2>2. k \in 1 .. Len(a) /\ Len(r) + 1 \in 1 .. Len(a) /\ k < Len(r) + 1
        BY <1>1, <2>1
    <2>3. a[k][1] = x[1] /\ a[Len(r) + 1][1] = z[1]
        BY <1>1, <2>1
    <2> QED BY <2>2, <2>3 DEF Earlier
<1> QED BY <1>2, <1>3 DEF a

LEMMA NotEarlier ==
    ASSUME NEW r, Once(r), NEW x, Earlier(r, x, x), Len(r) \in Nat
    PROVE  FALSE
BY DEF Once, Earlier

LEMMA InOrderEmpty == \A r : InOrder(r, << >>)
BY DEF InOrder

LEMMA InOrderAppend ==
    ASSUME NEW r, NEW S, NEW s \in Seq(S), NEW x \in S, InOrder(r, s),
           \A y \in ToSet(s) : Earlier(r, y, x)
    PROVE  InOrder(r, Append(s, x))
<1> DEFINE a == Append(s, x)
<1>1. /\ Len(s) \in Nat /\ Len(a) = Len(s) + 1
      /\ \A k \in 1 .. Len(s) : a[k] = s[k] /\ s[k] \in ToSet(s)
      /\ a[Len(s) + 1] = x
    BY ElementsAppend, Elements
<1> HIDE DEF a
<1> SUFFICES ASSUME NEW j \in 1 .. Len(a), NEW k \in 1 .. Len(a), j < k
             PROVE  Earlier(r, a[j], a[k])
    BY DEF InOrder, a
<1>2. j \in 1 .. Len(s) /\ (k \in 1 .. Len(s) \/ k = Len(s) + 1)
    BY <1>1
<1> QED BY <1>1, <1>2 DEF InOrder

LEMMA InOrderTail ==
    ASSUME NEW r, NEW S, NEW s \in Seq(S), s # << >>, InOrder(r, s)
    PROVE  /\ InOrder(r, Tail(s))
           /\ \A y \in ToSet(Tail(s)) : Earlier(r, Head(s), y)
<1> DEFINE t == Tail(s)
<1>1. /\ Len(s) \in Nat \ {0} /\ s[1] = Head(s) /\ Len(t) = Len(s) - 1
      /\ t \in Seq(S)
      /\ \A k \in 1 .. Len(s) - 1 : t[k] = s[k + 1]
    BY ElementsHead
<1>2. \A y \in ToSet(t) : \E k \in 1 .. Len(t) : t[k] = y
    BY <1>1, Elements
<1> HIDE DEF t
<1>3. InOrder(r, t)
    <2> SUFFICES ASSUME NEW j \in 1 .. Len(t), NEW k \in 1 .. Len(t), j < k
                 PROVE  Earlier(r, t[j], t[k])
        BY DEF InOrder
    <2>1. j + 1 \in 1 .. Len(s) /\ k + 1 \in 1 .. Len(s) /\ j + 1 < k + 1
        BY <1>1
    <2> QED BY <1>1, <2>1 DEF InOrder
<1>4. ASSUME NEW y \in ToSet(t) PROVE Earlier(r, Head(s), y)
    <2>1. PICK k \in 1 .. Len(t) : t[k] = y
        BY <1>2
    <2>2. 1 \in 1 .. Len(s) /\ k + 1 \in 1 .. Len(s) /\ 1 < k + 1
        BY <1>1
    <2> QED BY <1>1, <2>1, <2>2 DEF InOrder
<1> QED BY <1>3, <1>4 DEF t

LEMMA InOrderWithout ==
    ASSUME NEW r, NEW S, NEW s \in Seq(S), NEW h, InOrder(r, s)
    PROVE  InOrder(r, Without(s, h))
<1>1. CASE h \notin ToSet(s)
    BY <1>1, WithoutOther
<1>2. CASE h \in ToSet(s)
    <2> DEFINE w == Without(s, h)
    <2>1. PICK i \in 1 .. Len(s) :
             /\ w \in Seq(S) /\ Len(w) = Len(s) - 1
             /\ \A k \in 1 .. Len(s) - 1 :
                  w[k] = IF k < i THEN s[k] ELSE s[k + 1]
        BY <1>2, WithoutAt
    <2>2. Len(s) \in Nat
        OBVIOUS
    <2> HIDE DEF w
    <2> SUFFICES ASSUME NEW j \in 1 .. Len(w), NEW k \in 1 .. Len(w), j < k
                 PROVE  Earlier(r, w[j], w[k])
        BY DEF InOrder, w
    <2>3. PICK x \in 1 .. Len(s), y \in 1 .. Len(s) : x < y /\ w[j] = s[x] /\ w[k] = s[y]
        <3>1. CASE k < i
            <4>1. /\ j \in 1 .. Len(s) /\ k \in 1 .. Len(s)
                  /\ w[j] = s[j] /\ w[k] = s[k]
                BY <2>1, <2>2, <3>1, SMTT(30)
            <4> QED BY <4>1
        <3>2. CASE j < i /\ ~(k < i)
            <4>1. /\ j \in 1 .. Len(s) /\ k + 1 \in 1 .. Len(s) /\ j < k + 1
                  /\ w[j] = s[j] /\ w[k] = s[k + 1]
                BY <2>1, <2>2, <3>2
            <4> QED BY <4>1
        <3>3. CASE ~(j < i)
            <4>1. j + 1 \in 1 .. Len(s) /\ k + 1 \in 1 .. Len(s) /\ j + 1 < k + 1
                BY <2>1, <2>2
            <4>2. w[j] = s[j + 1]
                BY <2>1, <2>2, <3>3
            <4>3. w[k] = s[k + 1]
                BY <2>1, <2>2, <3>3
            <4> QED BY <4>1, <4>2, <4>3
        <3> QED BY <3>1, <3>2, <3>3
    <2> QED BY <2>3 DEF InOrder
<1> QED BY <1>1, <1>2

\* A handler is on a list once, so that Without removes it.
LEMMA WithoutRemoves ==
    ASSUME NEW r \in Seq(Entries), NEW S, NEW s \in Seq(S), NEW h, Once(r), InOrder(r, s)
    PROVE  h \notin ToSet(Without(s, h))
<1>1. CASE h \notin ToSet(s)
    BY <1>1, WithoutOther
<1>2. CASE h \in ToSet(s)
    <2> DEFINE w == Without(s, h)
    <2>1. PICK i \in 1 .. Len(s) :
             /\ s[i] = h
             /\ w \in Seq(S) /\ Len(w) = Len(s) - 1
             /\ \A k \in 1 .. Len(s) - 1 :
                  w[k] = IF k < i THEN s[k] ELSE s[k + 1]
        BY <1>2, WithoutAt
    <2>2. Len(s) \in Nat /\ Len(r) \in Nat
        OBVIOUS
    <2>3. ASSUME NEW k \in 1 .. Len(s), k # i, s[k] = h PROVE FALSE
        <3>1. Earlier(r, h, h)
            BY <2>1, <2>2, <2>3 DEF InOrder
        <3> QED BY <2>2, <3>1, NotEarlier
    <2>4. \A x \in ToSet(w) : \E k \in 1 .. Len(s) - 1 : w[k] = x
        BY <2>1, Elements
    <2> HIDE DEF w
    <2>5. ASSUME NEW k \in 1 .. Len(s) - 1 PROVE w[k] # h
        <3>1. CASE k < i
            BY <2>1, <2>2, <2>3, <3>1
        <3>2. CASE ~(k < i)
            <4>1. k + 1 \in 1 .. Len(s) /\ k + 1 # i
                BY <2>1, <2>2, <3>2
            <4> QED BY <2>1, <2>3, <3>2, <4>1
        <3> QED BY <3>1, <3>2
    <2> QED BY <2>4, <2>5 DEF w
<1> QED BY <1>1, <1>2

-----------------------------------------------------------------------------
(***************************************************************************)
(* What the steps do to the lists and the workers.                         *)
(***************************************************************************)
Tasks ==
    [pc : {"idle", "invoke", "publish", "call"}, i : 0 .. MaxMsgs,
     ev : Events, b : Buses \cup {None}, todo : Seq(Handlers)]

LEMMA TypeFacts ==
    ASSUME TypeOK
    PROVE  /\ work \in [Workers -> Tasks] /\ registered \in Seq(Entries)
           /\ \A ch \in Channels : direct[ch] \in Seq(Handlers) /\ ch \in Events
           /\ \A b \in Buses, e \in Events : subs[b][e] \in Seq(Handlers)
           /\ bus # None => bus \in Buses
           /\ None \notin Buses /\ None \notin Nat
           /\ "decode" \in Events \ Channels /\ "custom" \in Events \ Channels
           /\ MaxMsgs \in Nat /\ n \in Nat /\ n <= MaxMsgs
<1>1. work \in [Workers -> Tasks]
    BY DEF TypeOK, Tasks
<1>2. registered \in Seq(Entries)
    BY DEF TypeOK, Entries
<1>3. MaxMsgs \in Nat /\ n \in Nat /\ n <= MaxMsgs
    <2>1. MaxMsgs \in Nat /\ n \in 0 .. MaxMsgs
        BY ConstantsAssumption DEF TypeOK
    <2> QED BY <2>1
<1>4. None \notin Buses /\ None \notin Nat
    BY ConstantsAssumption
<1>5. "decode" \in Events \ Channels /\ "custom" \in Events \ Channels
    BY ConstantsAssumption DEF Events
<1>6. /\ \A ch \in Channels : direct[ch] \in Seq(Handlers) /\ ch \in Events
      /\ \A b \in Buses, e \in Events : subs[b][e] \in Seq(Handlers)
      /\ bus # None => bus \in Buses
    <2>1. \A ch \in Channels : ch \in Events
        BY DEF Events
    <2>2. \A ch \in Channels : direct[ch] \in Seq(Handlers)
        BY DEF TypeOK
    <2>3. \A b \in Buses, e \in Events : subs[b][e] \in Seq(Handlers)
        BY DEF TypeOK
    <2>4. bus # None => bus \in Buses
        BY DEF TypeOK
    <2> QED BY <2>1, <2>2, <2>3, <2>4
<1> QED BY <1>1, <1>2, <1>3, <1>4, <1>5, <1>6

\* List e of bus b becomes v, and the others stay.
ListBecomes(b, e, v) ==
    /\ subs' \in [Buses -> [Events -> Seq(Handlers)]]
    /\ subs'[b][e] = v
    /\ \A c \in Buses, f \in Events : c # b \/ f # e => subs'[c][f] = subs[c][f]

LEMMA ListSet ==
    ASSUME TypeOK, NEW b \in Buses, NEW e \in Events, NEW v \in Seq(Handlers),
           subs' = [subs EXCEPT ![b][e] = v]
    PROVE  ListBecomes(b, e, v)
BY DEF TypeOK, ListBecomes

\* work' differs from work in worker w only, which goes to u.
Moves(w, u) ==
    /\ work' \in [Workers -> Tasks] /\ work'[w] = u
    /\ \A v \in Workers : v # w => work'[v] = work[v]

LEMMA Moved ==
    ASSUME TypeOK, NEW w \in Workers, NEW u \in Tasks, work' = [work EXCEPT ![w] = u]
    PROVE  Moves(w, u)
BY TypeFacts DEF Moves

LEMMA IdleTask ==
    /\ Idle \in Tasks /\ Idle.pc = "idle" /\ Idle.i = 0 /\ Idle.todo = << >>
    /\ Idle.b = None /\ Idle.ev = "custom"
<1>1. << >> \in Seq(Handlers) /\ 0 \in 0 .. MaxMsgs
    BY ConstantsAssumption
<1> QED BY <1>1 DEF Idle, Tasks, Events

LEMMA NextId ==
    ASSUME TypeOK, n < MaxMsgs
    PROVE  /\ n + 1 \in Ids /\ n + 1 > n /\ n + 1 \in 0 .. MaxMsgs /\ n + 1 \notin 1 .. n
           /\ 1 .. n \subseteq Ids /\ 1 .. n + 1 = (1 .. n) \cup {n + 1}
BY TypeFacts DEF Ids

LEMMA BusyId ==
    ASSUME TypeOK, WorkOK, NEW w \in Workers, Busy(work[w])
    PROVE  work[w].i \in Ids /\ work[w].i \in 1 .. n /\ fate[work[w].i] = "running"
<1>1. work[w].i \in 1 .. n /\ fate[work[w].i] = "running"
    BY DEF WorkOK
<1> QED BY <1>1, TypeFacts DEF Ids

LEMMA ReceiveMoves ==
    ASSUME TypeOK, NEW w \in Workers, NEW m \in Inputs, Receive(w, m)
    PROVE  /\ work[w] = Idle /\ \E u : Moves(w, u)
           /\ work'[w].pc = "invoke" /\ work'[w].i = n + 1
           /\ work'[w].ev = IF Undecodable(m) THEN "decode" ELSE m.ch
<1> DEFINE e == IF Undecodable(m) THEN "decode" ELSE m.ch
           u == [Idle EXCEPT !.pc = "invoke", !.i = n + 1, !.ev = e]
<1>1. m.ch \in Channels /\ e \in Events
    BY ConstantsAssumption DEF AllInputs, Events
<1>2. n + 1 \in 0 .. MaxMsgs
    BY NextId DEF Receive
<1> HIDE DEF e
<1>3. u \in Tasks /\ u.pc = "invoke" /\ u.i = n + 1 /\ u.ev = e
    BY <1>1, <1>2, IdleTask DEF Tasks
<1>4. work' = [work EXCEPT ![w] = u]
    BY DEF Receive, e
<1> HIDE DEF u
<1>5. Moves(w, u)
    BY <1>3, <1>4, Moved
<1> QED BY <1>3, <1>5 DEF Moves, Receive, e

LEMMA EmitMoves ==
    ASSUME TypeOK, NEW w \in Workers, Emit(w)
    PROVE  /\ work[w] = Idle /\ \E u : Moves(w, u)
           /\ work'[w].pc = "publish" /\ work'[w].i = n + 1
           /\ work'[w].ev = "custom" /\ work'[w].b = bus
<1> DEFINE u == [Idle EXCEPT !.pc = "publish", !.i = n + 1, !.ev = "custom", !.b = bus]
<1>1. bus \in Buses /\ n + 1 \in 0 .. MaxMsgs /\ "custom" \in Events
    BY NextId, TypeFacts DEF Emit
<1>2. u \in Tasks /\ u.pc = "publish" /\ u.i = n + 1 /\ u.ev = "custom" /\ u.b = bus
    BY <1>1, IdleTask DEF Tasks
<1>3. work' = [work EXCEPT ![w] = u]
    BY DEF Emit
<1> HIDE DEF u
<1>4. Moves(w, u)
    BY <1>2, <1>3, Moved
<1> QED BY <1>2, <1>4 DEF Moves, Emit

\* Invoke, by what it finds.
LEMMA InvokeMoves ==
    ASSUME TypeOK, NEW w \in Workers, Invoke(w)
    PROVE  /\ \E u : Moves(w, u)
           /\ work[w].pc = "invoke" /\ work'[w].i = work[w].i /\ work'[w].ev = work[w].ev
           /\ bus # None => work'[w].pc = "publish" /\ work'[w].b = bus
           /\ bus = None => /\ work'[w].pc = "call"
                            /\ work'[w].todo = IF work[w].ev \in Channels
                                               THEN direct[work[w].ev] ELSE << >>
<1>1. work[w] \in Tasks /\ work[w].pc = "invoke"
    BY TypeFacts DEF Invoke
<1>2. CASE bus # None
    <2> DEFINE u == [work[w] EXCEPT !.pc = "publish", !.b = bus]
    <2>1. u \in Tasks /\ u.pc = "publish" /\ u.b = bus /\ u.i = work[w].i /\ u.ev = work[w].ev
        BY <1>1, <1>2, TypeFacts DEF Tasks
    <2>2. work' = [work EXCEPT ![w] = u]
        BY <1>2 DEF Invoke
    <2> HIDE DEF u
    <2>3. Moves(w, u)
        BY <2>1, <2>2, Moved
    <2> QED BY <1>1, <1>2, <2>1, <2>3 DEF Moves
<1>3. CASE bus = None
    <2> DEFINE v == IF work[w].ev \in Channels THEN direct[work[w].ev] ELSE << >>
               u == [work[w] EXCEPT !.pc = "call", !.todo = v]
    <2>1. v \in Seq(Handlers)
        BY TypeFacts, ElementsEmpty
    <2>2. work' = [work EXCEPT ![w] = u]
        BY <1>3 DEF Invoke
    <2> HIDE DEF v
    <2>3. u \in Tasks /\ u.pc = "call" /\ u.todo = v /\ u.i = work[w].i /\ u.ev = work[w].ev
        BY <1>1, <2>1 DEF Tasks
    <2> HIDE DEF u
    <2>4. Moves(w, u)
        BY <2>2, <2>3, Moved
    <2> QED BY <1>1, <1>3, <2>3, <2>4 DEF Moves, v
<1> QED BY <1>2, <1>3

LEMMA PublishMoves ==
    ASSUME TypeOK, WorkOK, NEW w \in Workers, Publish(w)
    PROVE  /\ \E u : Moves(w, u)
           /\ work[w].pc = "publish" /\ work'[w].pc = "call" /\ work'[w].i = work[w].i
           /\ work'[w].ev = work[w].ev
           /\ work[w].b \in Buses /\ work[w].ev \in Events
           /\ work'[w].todo = subs[work[w].b][work[w].ev]
<1> DEFINE v == subs[work[w].b][work[w].ev]
           u == [work[w] EXCEPT !.pc = "call", !.todo = v]
<1>1. /\ work[w] \in Tasks /\ work[w].pc = "publish" /\ work[w].b \in Buses
      /\ work[w].ev \in Events
    BY TypeFacts DEF Publish, WorkOK, Tasks
<1>2. v \in Seq(Handlers)
    BY <1>1, TypeFacts
<1>3. work' = [work EXCEPT ![w] = u]
    BY DEF Publish, TypeOK
<1> HIDE DEF v
<1>4. u \in Tasks /\ u.pc = "call" /\ u.todo = v /\ u.i = work[w].i /\ u.ev = work[w].ev
    BY <1>1, <1>2 DEF Tasks
<1> HIDE DEF u
<1>5. Moves(w, u)
    BY <1>3, <1>4, Moved
<1> QED BY <1>1, <1>4, <1>5 DEF Moves, v

LEMMA CallMoves ==
    ASSUME TypeOK, WorkOK, NEW w \in Workers, CallHandler(w)
    PROVE  /\ \E u : Moves(w, u)
           /\ work[w].pc = "call" /\ work'[w].pc = "call" /\ work'[w].i = work[w].i
           /\ work'[w].ev = work[w].ev
           /\ work[w].i \in Ids /\ work[w].todo \in Seq(Handlers) /\ work[w].todo # << >>
           /\ Head(work[w].todo) \in Handlers
           /\ called[work[w].i] \in Seq(Handlers)
           /\ called' = [called EXCEPT ![work[w].i] =
                           Append(called[work[w].i], Head(work[w].todo))]
           /\ work'[w].todo = IF Head(work[w].todo) \in Failing THEN << >>
                              ELSE Tail(work[w].todo)
<1> DEFINE v == IF Head(work[w].todo) \in Failing THEN << >> ELSE Tail(work[w].todo)
           u == [work[w] EXCEPT !.todo = v]
<1>1. /\ work[w] \in Tasks /\ work[w].pc = "call" /\ work[w].todo # << >>
      /\ work[w].todo \in Seq(Handlers)
    BY TypeFacts DEF CallHandler, Tasks
<1>2. v \in Seq(Handlers) /\ Head(work[w].todo) \in Handlers
    BY <1>1, ElementsHead, ElementsEmpty
<1>3. work[w].i \in Ids
    BY <1>1, BusyId DEF Busy
<1>4. /\ work' = [work EXCEPT ![w] = u]
      /\ called' = [called EXCEPT ![work[w].i] =
                      Append(called[work[w].i], Head(work[w].todo))]
    BY TypeFacts DEF CallHandler
<1>5. called[work[w].i] \in Seq(Handlers)
    BY <1>3 DEF TypeOK
<1> HIDE DEF v
<1>6. u \in Tasks /\ u.pc = "call" /\ u.todo = v /\ u.i = work[w].i /\ u.ev = work[w].ev
    BY <1>1, <1>2 DEF Tasks
<1> HIDE DEF u
<1>7. Moves(w, u)
    BY <1>4, <1>6, Moved
<1> QED BY <1>1, <1>2, <1>3, <1>4, <1>5, <1>6, <1>7 DEF Moves, v

LEMMA FinishMoves ==
    ASSUME TypeOK, WorkOK, NEW w \in Workers, Finish(w)
    PROVE  /\ \E u : Moves(w, u)
           /\ work[w].pc = "call" /\ work[w].todo = << >> /\ work'[w] = Idle
           /\ work[w].i \in Ids
<1>1. Moves(w, Idle)
    BY IdleTask, Moved DEF Finish
<1>2. work[w].i \in Ids
    BY BusyId DEF Busy, Finish
<1> QED BY <1>1, <1>2 DEF Moves, Finish

-----------------------------------------------------------------------------
(***************************************************************************)
(* The types.                                                              *)
(***************************************************************************)
LEMMA RegisterTypes ==
    ASSUME TypeOK, NEW h \in Handlers, NEW e \in Events, NEW c \in Calls
    PROVE  <<h, e, c>> \in Entries /\ Append(registered, <<h, e, c>>) \in Seq(Entries)
<1>1. <<h, e, c>> \in Entries
    BY DEF Entries
<1> QED BY <1>1, TypeFacts, ElementsAppend

\* What UseEventBus does to the lists of the bus.
LEMMA Migrates ==
    ASSUME TypeOK, NEW b \in Buses, UseEventBus(b)
    PROVE  /\ subs' \in [Buses -> [Events -> Seq(Handlers)]]
           /\ \A ch \in Channels : subs'[b][ch] = subs[b][ch] \o direct[ch]
           /\ \A e \in Events \ Channels : subs'[b][e] = subs[b][e]
           /\ \A c \in Buses, e \in Events : c # b => subs'[c][e] = subs[c][e]
           /\ direct' = [ch \in Channels |-> << >>] /\ bus' = b
<1>1. /\ subs' = [subs EXCEPT ![b] =
                   [e \in Events |-> IF e \in Channels THEN subs[b][e] \o direct[e]
                                     ELSE subs[b][e]]]
      /\ direct' = [ch \in Channels |-> << >>] /\ bus' = b
    BY DEF UseEventBus, Migrate, TypeOK
<1>2. \A e \in Events : (IF e \in Channels THEN subs[b][e] \o direct[e]
                         ELSE subs[b][e]) \in Seq(Handlers)
    <2>1. ASSUME NEW ch \in Channels PROVE subs[b][ch] \o direct[ch] \in Seq(Handlers)
        BY TypeFacts, ConcatProperties
    <2> QED BY <2>1, TypeFacts
<1>3. subs \in [Buses -> [Events -> Seq(Handlers)]] /\ Channels \subseteq Events
    BY DEF TypeOK, Events
<1> QED BY <1>1, <1>2, <1>3

LEMMA AppendToBus ==
    ASSUME TypeOK, NEW h \in Handlers, NEW e \in Events, bus # None,
           subs' = [subs EXCEPT ![bus][e] = Append(@, h)],
           busUnsubs' = busUnsubs \cup {<<bus, e, h>>}
    PROVE  /\ bus \in Buses /\ busUnsubs' \subseteq Subs
           /\ ListBecomes(bus, e, Append(subs[bus][e], h))
<1>1. subs[bus][e] \in Seq(Handlers) /\ bus \in Buses
    BY TypeFacts
<1>2. Append(subs[bus][e], h) \in Seq(Handlers)
    BY <1>1, ElementsAppend
<1>3. subs' = [subs EXCEPT ![bus][e] = Append(subs[bus][e], h)]
    BY <1>1 DEF TypeOK
<1>4. <<bus, e, h>> \in Subs /\ busUnsubs \subseteq Subs
    BY <1>1 DEF TypeOK, Subs
<1> QED BY <1>1, <1>2, <1>3, <1>4, ListSet

LEMMA OnLists ==
    ASSUME TypeOK, NEW h \in Handlers, NEW ch \in Channels, On(h, ch)
    PROVE  /\ bus # None =>
                /\ ListBecomes(bus, ch, Append(subs[bus][ch], h))
                /\ direct' = direct /\ busUnsubs' \subseteq Subs
           /\ bus = None =>
                /\ direct' \in [Channels -> Seq(Handlers)]
                /\ direct'[ch] = Append(direct[ch], h)
                /\ \A c \in Channels : c # ch => direct'[c] = direct[c]
                /\ UNCHANGED <<subs, busUnsubs>>
<1>0. ch \in Events /\ direct[ch] \in Seq(Handlers)
    BY TypeFacts
<1>1. CASE bus # None
    <2>1. /\ subs' = [subs EXCEPT ![bus][ch] = Append(@, h)]
          /\ busUnsubs' = busUnsubs \cup {<<bus, ch, h>>} /\ direct' = direct
        BY <1>1 DEF On
    <2> QED BY <1>0, <1>1, <2>1, AppendToBus
<1>2. CASE bus = None
    <2>1. /\ direct' = [direct EXCEPT ![ch] = Append(direct[ch], h)]
          /\ UNCHANGED <<subs, busUnsubs>>
        BY <1>2 DEF On, TypeOK
    <2>2. Append(direct[ch], h) \in Seq(Handlers)
        BY <1>0, ElementsAppend
    <2> QED BY <1>2, <2>1, <2>2 DEF TypeOK
<1> QED BY <1>1, <1>2

LEMMA PlatformTypes ==
    ASSUME TypeOK, NEW h \in Handlers,
           \/ \E ch \in Channels : On(h, ch)
           \/ \E e \in Events : Subscribe(h, e)
    PROVE  TypeOK'
<1>1. ASSUME NEW ch \in Channels, On(h, ch) PROVE TypeOK'
    <2>1. registered' \in Seq(Handlers \X Events \X Calls)
        BY <1>1, RegisterTypes, TypeFacts DEF On, Entries
    <2>2. CASE bus # None
        BY <1>1, <2>1, <2>2, OnLists DEF On, TypeOK, client, message, ListBecomes
    <2>3. CASE bus = None
        BY <1>1, <2>1, <2>3, OnLists DEF On, TypeOK, client, message
    <2> QED BY <2>2, <2>3
<1>2. ASSUME NEW e \in Events, Subscribe(h, e) PROVE TypeOK'
    <2>1. registered' \in Seq(Handlers \X Events \X Calls)
        BY <1>2, RegisterTypes DEF Subscribe, Entries
    <2>2. ListBecomes(bus, e, Append(subs[bus][e], h)) /\ busUnsubs' \subseteq Subs
        BY <1>2, AppendToBus DEF Subscribe
    <2> QED BY <1>2, <2>1, <2>2 DEF Subscribe, TypeOK, client, message, ListBecomes
<1> QED BY <1>1, <1>2

LEMMA RemoveTypes ==
    ASSUME TypeOK, NEW b \in Buses, NEW e \in Events, NEW h \in Handlers,
           Unsubscribe(b, e, h) \/ StopUnsubscribe(b, e, h)
    PROVE  /\ TypeOK'
           /\ ListBecomes(b, e, Without(subs[b][e], h))
<1>1. Without(subs[b][e], h) \in Seq(Handlers)
    BY TypeFacts, WithoutElements
<1>2. subs' = [subs EXCEPT ![b][e] = Without(subs[b][e], h)]
    BY DEF Unsubscribe, StopUnsubscribe, TypeOK
<1>3. ListBecomes(b, e, Without(subs[b][e], h))
    BY <1>1, <1>2, ListSet
<1>4. CASE Unsubscribe(b, e, h)
    <2>1. owed' \in [Ids -> SUBSET Handlers] /\ removed' \subseteq Handlers
        BY <1>4 DEF Unsubscribe, TypeOK
    <2> QED BY <1>3, <1>4, <2>1 DEF Unsubscribe, TypeOK, client, message, ListBecomes
<1>5. CASE StopUnsubscribe(b, e, h)
    BY <1>3, <1>5 DEF StopUnsubscribe, TypeOK, message, ListBecomes
<1> QED BY <1>3, <1>4, <1>5

LEMMA BusTypes ==
    ASSUME TypeOK, NEW b \in Buses, UseEventBus(b)
    PROVE  TypeOK'
<1>1. \A ch \in Channels : Removals(b, ch, direct[ch]) \subseteq Subs
    <2> SUFFICES ASSUME NEW ch \in Channels, NEW h \in ToSet(direct[ch])
                 PROVE  <<b, ch, h>> \in Subs
        BY DEF Removals
    <2>1. h \in Handlers /\ ch \in Events
        BY TypeFacts, Elements
    <2> QED BY <2>1 DEF Subs
<1>2. busUnsubs' \subseteq Subs
    BY <1>1, ZenonT(60) DEF UseEventBus, Migrate, TypeOK
<1>3. direct' \in [Channels -> Seq(Handlers)]
    BY Migrates, ElementsEmpty
<1> QED BY <1>2, <1>3, Migrates DEF UseEventBus, TypeOK, client, message

LEMMA ClassifyTypes ==
    ASSUME NEW prev \in Nat \cup {None}, NEW hid \in Nat
    PROVE  /\ Classify(prev, hid).disp \in {"accept", "stale", "duplicate"}
           /\ Classify(prev, hid).last \in Nat
           /\ Classify(prev, hid).disp = "accept" =>
                /\ Classify(prev, hid).last = hid
                /\ prev # None => hid > prev
           /\ Classify(prev, hid).disp # "accept" =>
                Classify(prev, hid).last = prev /\ prev # None
           /\ Classify(prev, hid).disp = "stale" => hid < prev
           /\ Classify(prev, hid).disp = "duplicate" => hid = prev
<1>1. CASE prev = None \/ hid > prev
    BY <1>1 DEF Classify
<1>2. CASE ~(prev = None \/ hid > prev)
    BY <1>2 DEF Classify
<1> QED BY <1>1, <1>2

\* What Receive notes about the message.
LEMMA ReceiveNotes ==
    ASSUME TypeOK, NEW w \in Workers, NEW m \in Inputs, Receive(w, m)
    PROVE  /\ n' = n + 1 /\ n < MaxMsgs /\ n + 1 \in Ids
           /\ <<m.agv, m.ch>> \in AGVs \X Channels /\ m.headerId \in Nat
           /\ input' = [input EXCEPT ![n + 1] = m]
           /\ Classified(m) =>
                LET c == Classify(last[<<m.agv, m.ch>>], m.headerId) IN
                /\ disp' = [disp EXCEPT ![n + 1] = c.disp]
                /\ last' = [last EXCEPT ![<<m.agv, m.ch>>] = c.last]
           /\ ~Classified(m) => UNCHANGED <<disp, last>>
<1>1. m \in AllInputs
    BY ConstantsAssumption
<1>2. <<m.agv, m.ch>> \in AGVs \X Channels /\ m.headerId \in Nat
    BY <1>1 DEF AllInputs
<1>3. n < MaxMsgs /\ n' = n + 1 /\ input' = [input EXCEPT ![n + 1] = m]
    BY DEF Receive
<1> QED BY <1>2, <1>3, NextId DEF Receive

LEMMA ArrivalTypes ==
    ASSUME TypeOK, NEW w \in Workers, Emit(w) \/ \E m \in Inputs : Receive(w, m)
    PROVE  TypeOK'
<1>0. \A e : Registered(e) \subseteq Handlers
    <2>1. \A x \in ToSet(registered) : x \in Entries
        BY TypeFacts, Elements
    <2> QED BY <2>1 DEF Registered, Entries
<1>1. ASSUME NEW m \in Inputs, Receive(w, m) PROVE TypeOK'
    <2>1. work' \in [Workers -> Tasks] /\ n' \in 0 .. MaxMsgs
        BY <1>1, ReceiveMoves, ReceiveNotes, NextId DEF Moves
    <2>2. input' \in [Ids -> Inputs \cup {None}]
        <3>1. input \in [Ids -> Inputs \cup {None}] /\ input' = [input EXCEPT ![n + 1] = m]
            BY <1>1, ReceiveNotes DEF TypeOK
        <3> QED BY <3>1
    <2>3. /\ disp' \in [Ids -> {"", "accept", "stale", "duplicate"}]
          /\ last' \in [AGVs \X Channels -> Nat \cup {None}]
        <3>1. CASE ~Classified(m)
            BY <1>1, <3>1, ReceiveNotes DEF TypeOK
        <3>2. CASE Classified(m)
            <4> DEFINE k == <<m.agv, m.ch>>
                       c == Classify(last[k], m.headerId)
            <4>1. k \in AGVs \X Channels /\ last[k] \in Nat \cup {None} /\ m.headerId \in Nat
                BY <1>1, ReceiveNotes DEF TypeOK
            <4>2. c.disp \in {"accept", "stale", "duplicate"} /\ c.last \in Nat
                BY <4>1, ClassifyTypes
            <4>3. /\ disp' = [disp EXCEPT ![n + 1] = c.disp]
                  /\ last' = [last EXCEPT ![k] = c.last]
                BY <1>1, <3>2, ReceiveNotes
            <4> HIDE DEF k, c
            <4> QED BY <4>1, <4>2, <4>3 DEF TypeOK
        <3> QED BY <3>1, <3>2
    <2>4. /\ fate' \in [Ids -> {"none", "running", "done", "decode"}]
          /\ owed' \in [Ids -> SUBSET Handlers] /\ silent' \in [Ids -> SUBSET Handlers]
        BY <1>0, <1>1 DEF Receive, TypeOK
    <2> QED BY <1>1, <2>1, <2>2, <2>3, <2>4 DEF Receive, TypeOK, Tasks, client, handlers
<1>2. CASE Emit(w)
    <2>1. work' \in [Workers -> Tasks] /\ n' \in 0 .. MaxMsgs
        BY <1>2, EmitMoves, NextId DEF Moves, Emit
    <2>2. /\ fate' \in [Ids -> {"none", "running", "done", "decode"}]
          /\ owed' \in [Ids -> SUBSET Handlers] /\ silent' \in [Ids -> SUBSET Handlers]
        BY <1>0, <1>2 DEF Emit, TypeOK
    <2> QED BY <1>2, <2>1, <2>2 DEF Emit, TypeOK, Tasks, client, handlers
<1> QED BY <1>1, <1>2

LEMMA WorkerTypes ==
    ASSUME TypeOK, WorkOK, NEW w \in Workers, Worker(w)
    PROVE  TypeOK'
<1>1. CASE Invoke(w)
    <2>1. work' \in [Workers -> Tasks]
        BY <1>1, InvokeMoves DEF Moves
    <2> QED BY <1>1, <2>1 DEF Invoke, TypeOK, Tasks, client, handlers, message
<1>2. CASE Publish(w)
    <2>1. work' \in [Workers -> Tasks]
        BY <1>2, PublishMoves DEF Moves
    <2> QED BY <1>2, <2>1 DEF Publish, TypeOK, Tasks, client, handlers, message
<1>3. CASE CallHandler(w)
    <2>1. work' \in [Workers -> Tasks]
        BY <1>3, CallMoves DEF Moves
    <2>2. called' \in [Ids -> Seq(Handlers)]
        <3> DEFINE i == work[w].i
                   s == Append(called[i], Head(work[w].todo))
        <3>1. i \in Ids /\ s \in Seq(Handlers) /\ called' = [called EXCEPT ![i] = s]
            BY <1>3, CallMoves, ElementsAppend
        <3> HIDE DEF i, s
        <3> QED BY <3>1 DEF TypeOK
    <2> QED BY <1>3, <2>1, <2>2 DEF CallHandler, TypeOK, Tasks, client, handlers, message
<1>4. CASE Finish(w)
    <2>1. work' \in [Workers -> Tasks]
        BY <1>4, FinishMoves DEF Moves
    <2>2. fate' \in [Ids -> {"none", "running", "done", "decode"}]
        BY <1>4 DEF Finish, TypeOK
    <2> QED BY <1>4, <2>1, <2>2 DEF Finish, TypeOK, Tasks, client, handlers, message
<1> QED BY <1>1, <1>2, <1>3, <1>4 DEF Worker

LEMMA StopTypes ==
    ASSUME TypeOK, Start \/ StopLock \/ StopTransport \/ StopEnd
    PROVE  TypeOK'
<1>1. CASE Start
    <2>1. starts' \in 0 .. MaxStarts /\ phase' \in Phases
        <3>1. MaxStarts \in Nat /\ starts \in 0 .. MaxStarts /\ starts < MaxStarts
            BY <1>1, ConstantsAssumption DEF Start, TypeOK
        <3> QED BY <1>1, <3>1 DEF Start, Phases
    <2> QED BY <1>1, <2>1 DEF Start, TypeOK, handlers, message
<1>2. CASE StopLock
    <2>1. owed' \in [Ids -> SUBSET Handlers]
        BY <1>2 DEF StopLock, TypeOK
    <2> QED BY <1>2, <2>1 DEF StopLock, TypeOK, Phases, message
<1>3. CASE StopTransport \/ StopEnd
    BY <1>3 DEF StopTransport, StopEnd, TypeOK, Phases, handlers, message
<1> QED BY <1>1, <1>2, <1>3

LEMMA TypeStep ==
    ASSUME TypeOK, WorkOK, [Next]_vars
    PROVE  TypeOK'
<1>1. CASE UNCHANGED vars
    BY <1>1 DEF vars, client, handlers, message, TypeOK
<1> QED BY <1>1, PlatformTypes, RemoveTypes, BusTypes, ArrivalTypes, WorkerTypes,
           StopTypes DEF Next

-----------------------------------------------------------------------------
(***************************************************************************)
(* The lists.                                                              *)
(***************************************************************************)
LEMMA EmptyList == \A r, e : ListOK(r, << >>, e)
BY InOrderEmpty, ElementsEmpty DEF ListOK

LEMMA AppendedList ==
    ASSUME NEW r \in Seq(Entries), Once(r),
           NEW h \in Handlers, NEW e \in Events, NEW c \in Calls,
           c = "Subscribe" \/ e \in Channels, \A x \in ToSet(r) : x[1] # h,
           NEW s \in Seq(Handlers), ListOK(r, s, e)
    PROVE  ListOK(Append(r, <<h, e, c>>), Append(s, h), e)
<1> DEFINE z == <<h, e, c>>
           a == Append(r, z)
<1>1. z \in Entries /\ z[1] = h
    BY DEF Entries
<1>2. /\ \A x \in ToSet(r) : Earlier(a, x[1], h)
      /\ InOrder(a, s) /\ \A y \in ToSet(s) : Known(a, y, e)
    BY <1>1, RegisterFresh, RegisterKeeps DEF ListOK
<1>3. \A y \in ToSet(s) : \E d : <<y, e, d>> \in ToSet(r)
    BY DEF ListOK, Known
<1>4. ToSet(a) = ToSet(r) \cup {z} /\ ToSet(Append(s, h)) = ToSet(s) \cup {h}
    BY <1>1, ElementsAppend
<1> HIDE DEF a
<1>5. \A y \in ToSet(s) : Earlier(a, y, h)
    BY <1>2, <1>3
<1>6. InOrder(a, Append(s, h))
    BY <1>2, <1>5, InOrderAppend
<1>7. Known(a, h, e)
    BY <1>4 DEF Known
<1> QED BY <1>2, <1>4, <1>6, <1>7 DEF ListOK, a

LEMMA FreshUnlisted ==
    ASSUME NEW h, IsFresh(h), NEW s, NEW e, ListOK(registered, s, e)
    PROVE  h \notin ToSet(s)
<1>1. ASSUME h \in ToSet(s) PROVE FALSE
    <2>1. PICK c : <<h, e, c>> \in ToSet(registered)
        BY <1>1 DEF ListOK, Known
    <2> QED BY <2>1 DEF IsFresh
<1> QED BY <1>1

LEMMA ShorterList ==
    ASSUME NEW r, NEW s \in Seq(Handlers), NEW h, NEW e, ListOK(r, s, e)
    PROVE  ListOK(r, Without(s, h), e)
BY InOrderWithout, WithoutElements DEF ListOK

\* UseEventBus moves the lists to the bus, or has nothing to move.
LEMMA MigratedLists ==
    ASSUME TypeOK, ListsOK, NEW b \in Buses, UseEventBus(b)
    PROVE  /\ bus = None => /\ \A ch \in Channels : subs'[b][ch] = direct[ch]
                            /\ \A c \in Buses, e \in Events :
                                 c # b \/ e \notin Channels => subs'[c][e] = << >>
           /\ bus # None => \A c \in Buses, e \in Events : subs'[c][e] = subs[c][e]
           /\ \A ch \in Channels : direct'[ch] = << >>
           /\ bus' = b /\ b # None
<1>1. \A ch \in Channels : direct[ch] \in Seq(Handlers) /\ ch \in Events
    BY TypeFacts
<1>2. \A ch \in Channels : subs[b][ch] \in Seq(Handlers)
    BY TypeFacts
<1>3. CASE bus = None
    <2>1. \A c \in Buses, e \in Events : subs[c][e] = << >>
        BY <1>3 DEF ListsOK
    <2>2. \A ch \in Channels : << >> \o direct[ch] = direct[ch]
        BY <1>1, ConcatEmptySeq
    <2>3. \A ch \in Channels : subs'[b][ch] = direct[ch]
        <3> SUFFICES ASSUME NEW ch \in Channels PROVE subs'[b][ch] = direct[ch]
            OBVIOUS
        <3>1. subs[b][ch] = << >> /\ subs'[b][ch] = subs[b][ch] \o direct[ch]
            BY <1>1, <2>1, Migrates
        <3> QED BY <2>2, <3>1
    <2>4. \A c \in Buses, e \in Events :
            c # b \/ e \notin Channels => subs'[c][e] = << >>
        BY <2>1, Migrates, ZenonT(60)
    <2>5. (\A ch \in Channels : direct'[ch] = << >>) /\ bus' = b
        BY Migrates
    <2> QED BY <1>3, <2>3, <2>4, <2>5, TypeFacts
<1>4. CASE bus # None
    <2>1. \A ch \in Channels : direct[ch] = << >>
        BY <1>4 DEF ListsOK
    <2>2. \A ch \in Channels : subs[b][ch] \o << >> = subs[b][ch]
        BY <1>2, ConcatEmptySeq
    <2>3. \A ch \in Channels : subs'[b][ch] = subs[b][ch]
        BY <2>1, <2>2, Migrates, ZenonT(60)
    <2> QED BY <1>4, <2>3, Migrates, TypeFacts, ZenonT(60)
<1> QED BY <1>3, <1>4

LEMMA RegisterLists ==
    ASSUME TypeOK, ListsOK, NEW h \in Handlers,
           \/ \E ch \in Channels : On(h, ch)
           \/ \E e \in Events : Subscribe(h, e)
    PROVE  ListsOK'
<1>0. registered \in Seq(Entries) /\ Once(registered)
    BY TypeFacts DEF ListsOK
<1>1. ASSUME NEW e \in Events, NEW c \in Calls, IsFresh(h),
             c = "Subscribe" \/ e \in Channels,
             registered' = Append(registered, <<h, e, c>>)
      PROVE  /\ Once(registered')
             /\ \A s, f : ListOK(registered, s, f) => ListOK(registered', s, f)
             /\ \A s \in Seq(Handlers) : ListOK(registered, s, e) =>
                  ListOK(registered', Append(s, h), e)
    <2>1. <<h, e, c>> \in Entries /\ <<h, e, c>>[1] = h /\ \A x \in ToSet(registered) : x[1] # h
        BY <1>1 DEF Entries, IsFresh
    <2> QED BY <1>0, <1>1, <2>1, RegisterFresh, RegisterKeeps, AppendedList
\* The bus gets the handler.
<1>2. ASSUME NEW e \in Events, IsFresh(h), bus \in Buses, bus # None, bus' = bus,
             Once(registered'), direct' = direct,
             \A s, f : ListOK(registered, s, f) => ListOK(registered', s, f),
             \A s \in Seq(Handlers) : ListOK(registered, s, e) =>
                  ListOK(registered', Append(s, h), e),
             ListBecomes(bus, e, Append(subs[bus][e], h))
      PROVE  ListsOK'
    <2>1. \A b \in Buses, f \in Events : ListOK(registered', subs'[b][f], f)
        <3> SUFFICES ASSUME NEW b \in Buses, NEW f \in Events
                     PROVE  ListOK(registered', subs'[b][f], f)
            OBVIOUS
        <3>1. ListOK(registered, subs[b][f], f) /\ subs[b][f] \in Seq(Handlers)
            BY TypeFacts DEF ListsOK
        <3>2. CASE b = bus /\ f = e
            BY <1>2, <3>1, <3>2 DEF ListBecomes
        <3>3. CASE b # bus \/ f # e
            BY <1>2, <3>1, <3>3 DEF ListBecomes
        <3> QED BY <3>2, <3>3
    <2>2. \A ch \in Channels : ListOK(registered', direct'[ch], ch) /\ direct'[ch] = << >>
        BY <1>2 DEF ListsOK
    <2>3. \A b \in Buses : h \notin ToSet(subs[b][e])
        BY <1>2, FreshUnlisted DEF ListsOK
    <2>4. ToSet(subs'[bus][e]) = ToSet(subs[bus][e]) \cup {h}
        BY <1>2, TypeFacts, ElementsAppend DEF ListBecomes
    <2>5. ASSUME NEW b \in Buses, NEW c \in Buses, NEW f \in Events, b # c
          PROVE  ToSet(subs'[b][f]) \cap ToSet(subs'[c][f]) = {}
        <3>1. ToSet(subs[b][f]) \cap ToSet(subs[c][f]) = {}
            BY <2>5 DEF ListsOK
        <3>2. CASE f # e \/ (b # bus /\ c # bus)
            <4>1. subs'[b][f] = subs[b][f] /\ subs'[c][f] = subs[c][f]
                BY <1>2, <3>2 DEF ListBecomes
            <4> QED BY <3>1, <4>1
        <3>3. CASE f = e /\ b = bus
            <4>1. subs'[c][f] = subs[c][f] /\ h \notin ToSet(subs[c][f])
                BY <1>2, <2>3, <2>5, <3>3 DEF ListBecomes
            <4> QED BY <2>4, <3>1, <3>3, <4>1
        <3>4. CASE f = e /\ c = bus
            <4>1. subs'[b][f] = subs[b][f] /\ h \notin ToSet(subs[b][f])
                BY <1>2, <2>3, <2>5, <3>4 DEF ListBecomes
            <4> QED BY <2>4, <3>1, <3>4, <4>1
        <3> QED BY <3>2, <3>3, <3>4
    <2> QED BY <1>2, <2>1, <2>2, <2>5 DEF ListsOK
<1>3. ASSUME NEW ch \in Channels, On(h, ch) PROVE ListsOK'
    <2>1. /\ "On" \in Calls /\ IsFresh(h) /\ bus' = bus
          /\ registered' = Append(registered, <<h, ch, "On">>) /\ ch \in Events
        BY <1>3, TypeFacts DEF On
    <2>2. /\ Once(registered')
          /\ \A s, f : ListOK(registered, s, f) => ListOK(registered', s, f)
          /\ \A s \in Seq(Handlers) : ListOK(registered, s, ch) =>
               ListOK(registered', Append(s, h), ch)
        BY <1>1, <2>1
    <2>3. CASE bus # None
        BY <1>2, <1>3, <2>1, <2>2, <2>3, OnLists, TypeFacts
    <2>4. CASE bus = None
        <3>1. /\ direct'[ch] = Append(direct[ch], h) /\ subs' = subs
              /\ \A c \in Channels : c # ch => direct'[c] = direct[c]
            BY <1>3, <2>4, OnLists
        <3>2. \A c \in Channels : ListOK(registered', direct'[c], c)
            BY <2>2, <3>1, TypeFacts DEF ListsOK
        <3>3. \A b \in Buses, f \in Events : ListOK(registered', subs'[b][f], f)
            BY <2>2, <3>1 DEF ListsOK
        <3>4. \A b \in Buses, e \in Events : subs'[b][e] = << >>
            BY <2>4, <3>1 DEF ListsOK
        <3>5. \A b, c \in Buses, e \in Events :
                 b # c => ToSet(subs'[b][e]) \cap ToSet(subs'[c][e]) = {}
            BY <3>4, ElementsEmpty
        <3> QED BY <2>1, <2>2, <2>4, <3>2, <3>3, <3>4, <3>5 DEF ListsOK
    <2> QED BY <2>3, <2>4
<1>4. ASSUME NEW e \in Events, Subscribe(h, e) PROVE ListsOK'
    <2>1. /\ "Subscribe" \in Calls /\ IsFresh(h) /\ bus' = bus /\ bus # None
          /\ direct' = direct
          /\ registered' = Append(registered, <<h, e, "Subscribe">>)
        BY <1>4 DEF Subscribe
    <2>2. /\ Once(registered')
          /\ \A s, f : ListOK(registered, s, f) => ListOK(registered', s, f)
          /\ \A s \in Seq(Handlers) : ListOK(registered, s, e) =>
               ListOK(registered', Append(s, h), e)
        BY <1>1, <2>1
    <2>3. ListBecomes(bus, e, Append(subs[bus][e], h))
        BY <1>4, AppendToBus DEF Subscribe
    <2> QED BY <1>2, <2>1, <2>2, <2>3, TypeFacts
<1> QED BY <1>3, <1>4

LEMMA RemoveLists ==
    ASSUME TypeOK, ListsOK, NEW b \in Buses, NEW e \in Events, NEW h \in Handlers,
           Unsubscribe(b, e, h) \/ StopUnsubscribe(b, e, h)
    PROVE  ListsOK'
<1> DEFINE s == subs[b][e]
<1>1. /\ ListBecomes(b, e, Without(s, h)) /\ s \in Seq(Handlers)
      /\ UNCHANGED <<registered, direct, bus>>
    BY RemoveTypes, TypeFacts DEF Unsubscribe, StopUnsubscribe
<1>2. /\ ListOK(registered, Without(s, h), e) /\ ToSet(Without(s, h)) \subseteq ToSet(s)
    BY <1>1, ShorterList, WithoutElements DEF ListsOK
<1>3. \A c \in Buses, f \in Events :
        /\ ListOK(registered, subs'[c][f], f)
        /\ ToSet(subs'[c][f]) \subseteq ToSet(subs[c][f])
    BY <1>1, <1>2 DEF ListBecomes, ListsOK
<1>4. bus = None => \A c \in Buses, f \in Events : subs'[c][f] = << >>
    <2>1. bus = None => Without(s, h) = << >>
        BY <1>1, ElementsEmpty, WithoutOther DEF ListsOK
    <2> QED BY <1>1, <2>1 DEF ListBecomes, ListsOK
<1>5. \A c, d \in Buses, f \in Events :
        c # d => ToSet(subs'[c][f]) \cap ToSet(subs'[d][f]) = {}
    <2> SUFFICES ASSUME NEW c \in Buses, NEW d \in Buses, NEW f \in Events, c # d
                 PROVE  ToSet(subs'[c][f]) \cap ToSet(subs'[d][f]) = {}
        OBVIOUS
    <2>1. ToSet(subs[c][f]) \cap ToSet(subs[d][f]) = {}
        BY DEF ListsOK
    <2> QED BY <1>3, <2>1
<1> QED BY <1>1, <1>3, <1>4, <1>5 DEF ListsOK

LEMMA BusLists ==
    ASSUME TypeOK, ListsOK, NEW b \in Buses, UseEventBus(b)
    PROVE  ListsOK'
<1>0. registered' = registered /\ bus' = b /\ b # None
    BY MigratedLists DEF UseEventBus
<1>1. \A ch \in Channels : direct'[ch] = << >>
    BY MigratedLists
<1>2. CASE bus # None
    <2>1. \A c \in Buses, e \in Events : subs'[c][e] = subs[c][e]
        BY <1>2, MigratedLists
    <2> QED BY <1>0, <1>1, <2>1, EmptyList DEF ListsOK
<1>3. CASE bus = None
    <2>1. /\ \A ch \in Channels : subs'[b][ch] = direct[ch]
          /\ \A c \in Buses, e \in Events : c # b \/ e \notin Channels => subs'[c][e] = << >>
        BY <1>3, MigratedLists
    <2>2. \A c \in Buses, e \in Events : ListOK(registered, subs'[c][e], e)
        BY <2>1, EmptyList DEF ListsOK
    <2>3. \A c, d \in Buses, e \in Events :
            c # d => ToSet(subs'[c][e]) \cap ToSet(subs'[d][e]) = {}
        BY <2>1, ElementsEmpty
    <2> QED BY <1>0, <1>1, <2>2, <2>3, EmptyList DEF ListsOK
<1> QED BY <1>2, <1>3

LEMMA ListsStep ==
    ASSUME TypeOK, ListsOK, [Next]_vars
    PROVE  ListsOK'
<1>1. CASE UNCHANGED <<registered, handlers>>
    BY <1>1, SMTT(30) DEF handlers, ListsOK
<1>2. CASE UNCHANGED vars
    BY <1>1, <1>2, SMTT(30) DEF vars
<1>3. ASSUME NEW w \in Workers, \/ Worker(w) \/ Emit(w) \/ \E m \in Inputs : Receive(w, m)
      PROVE ListsOK'
    BY <1>1, <1>3 DEF Worker, Emit, Receive, Invoke, Publish, CallHandler, Finish
<1>4. CASE Start \/ StopLock \/ StopTransport \/ StopEnd
    <2>1. UNCHANGED <<registered, bus, direct, subs>>
        BY <1>4 DEF Start, StopLock, StopTransport, StopEnd, handlers
    <2> QED BY <2>1 DEF ListsOK
<1> QED BY <1>2, <1>3, <1>4, RegisterLists, RemoveLists, BusLists DEF Next

-----------------------------------------------------------------------------
(***************************************************************************)
(* The workers and their messages.                                         *)
(***************************************************************************)
LEMMA OwnIds ==
    ASSUME WorkOK, NEW w \in Workers, NEW v \in Workers, Busy(work[w]), Busy(work[v]), w # v
    PROVE  work[w].i # work[v].i
BY DEF WorkOK

\* Worker w begins with a new message.
LEMMA ArrivalWork ==
    ASSUME TypeOK, WorkOK, NEW w \in Workers,
           Emit(w) \/ \E m \in Inputs : Receive(w, m)
    PROVE  WorkOK'
<1>1. /\ n < MaxMsgs /\ n' = n + 1 /\ called' = called
      /\ fate' = [fate EXCEPT ![n + 1] = "running"]
    BY DEF Emit, Receive
<1>2. /\ n + 1 \in Ids /\ n + 1 \notin 1 .. n /\ 1 .. n' = (1 .. n) \cup {n + 1}
      /\ n + 1 > n
    BY <1>1, NextId
<1>3. /\ \E u : Moves(w, u)
      /\ work'[w].pc \in {"invoke", "publish"} /\ work'[w].i = n + 1
      /\ work'[w].pc = "publish" => work'[w].b \in Buses
    BY ReceiveMoves, EmitMoves, TypeFacts DEF Emit
<1>4. \A v \in Workers : v # w => work'[v] = work[v]
    BY <1>3 DEF Moves
<1>5. fate'[n + 1] = "running" /\ \A i \in Ids : i # n + 1 => fate'[i] = fate[i]
    BY <1>1, <1>2 DEF TypeOK
<1>6. called[n + 1] = << >>
    BY <1>2 DEF WorkOK
<1>7. \A i \in Ids : i # n + 1 => input'[i] = input[i] /\ disp'[i] = disp[i]
    <2>1. CASE Emit(w)
        BY <2>1 DEF Emit
    <2>2. ASSUME NEW m \in Inputs, Receive(w, m), Classified(m)
          PROVE  \A i \in Ids : i # n + 1 => input'[i] = input[i] /\ disp'[i] = disp[i]
        BY <2>2, ReceiveNotes, ZenonT(60) DEF TypeOK
    <2>3. ASSUME NEW m \in Inputs, Receive(w, m), ~Classified(m)
          PROVE  \A i \in Ids : i # n + 1 => input'[i] = input[i] /\ disp'[i] = disp[i]
        BY <2>3, ReceiveNotes, ZenonT(60) DEF TypeOK
    <2> QED BY <2>1, <2>2, <2>3
<1>8. \A v \in Workers : Busy(work[v]) => work[v].i \in Ids /\ work[v].i # n + 1
    BY <1>2, BusyId
<1>9. \A v \in Workers : Busy(work'[v]) =>
        work'[v].i \in 1 .. n' /\ fate'[work'[v].i] = "running"
    <2> SUFFICES ASSUME NEW v \in Workers, Busy(work'[v])
                 PROVE  work'[v].i \in 1 .. n' /\ fate'[work'[v].i] = "running"
        OBVIOUS
    <2>1. CASE v = w
        BY <1>2, <1>3, <1>5, <2>1
    <2>2. CASE v # w
        BY <1>2, <1>4, <1>5, <1>8, <2>2, BusyId
    <2> QED BY <2>1, <2>2
<1>10. \A v, y \in Workers : Busy(work'[v]) /\ Busy(work'[y]) /\ v # y =>
         work'[v].i # work'[y].i
    <2> SUFFICES ASSUME NEW v \in Workers, NEW y \in Workers, v # y,
                        Busy(work'[v]), Busy(work'[y])
                 PROVE  work'[v].i # work'[y].i
        OBVIOUS
    <2>1. CASE v = w
        <3>1. work'[y] = work[y]
            BY <1>4, <2>1
        <3>2. Busy(work[y])
            BY <3>1
        <3> QED BY <1>3, <1>8, <2>1, <3>1, <3>2
    <2>2. CASE y = w
        <3>1. work'[v] = work[v]
            BY <1>4, <2>2
        <3>2. Busy(work[v])
            BY <3>1
        <3> QED BY <1>3, <1>8, <2>2, <3>1, <3>2
    <2>3. CASE v # w /\ y # w
        <3>1. work'[v] = work[v] /\ work'[y] = work[y]
            BY <1>4, <2>3
        <3>2. Busy(work[v]) /\ Busy(work[y])
            BY <3>1
        <3> QED BY <3>1, <3>2, OwnIds
    <2> QED BY <2>1, <2>2, <2>3
<1>11. \A v \in Workers : work'[v].pc \in {"invoke", "publish"} =>
         called'[work'[v].i] = << >>
    BY <1>1, <1>3, <1>4, <1>6, ZenonT(60) DEF WorkOK
<1>12. \A v \in Workers : work'[v].pc = "publish" => work'[v].b \in Buses
    BY <1>3, <1>4 DEF WorkOK
<1>13. \A i \in Ids : i > n' => /\ called'[i] = << >> /\ input'[i] = None
                                /\ disp'[i] = "" /\ fate'[i] = "none"
    <2> SUFFICES ASSUME NEW i \in Ids, i > n + 1
                 PROVE  /\ called'[i] = << >> /\ input'[i] = None
                        /\ disp'[i] = "" /\ fate'[i] = "none"
        BY <1>1
    <2>1. i > n /\ i # n + 1
        BY TypeFacts DEF Ids
    <2> QED BY <1>1, <1>5, <1>7, <2>1 DEF WorkOK
<1> QED BY <1>9, <1>10, <1>11, <1>12, <1>13 DEF WorkOK

\* Worker w goes on with its message.
LEMMA OngoingWork ==
    ASSUME TypeOK, WorkOK, NEW w \in Workers, NEW u, Moves(w, u),
           Busy(work[w]), Busy(work'[w]), work'[w].i = work[w].i,
           UNCHANGED <<n, input, disp, fate>>,
           \A i \in Ids : i # work[w].i => called'[i] = called[i],
           work'[w].pc \in {"invoke", "publish"} => called' = called
                                                 /\ work[w].pc = "invoke",
           work'[w].pc = "publish" => work'[w].b \in Buses
    PROVE  WorkOK'
<1>1. \A v \in Workers : v # w => work'[v] = work[v]
    BY DEF Moves
<1>2. \A v \in Workers : Busy(work'[v]) <=> Busy(work[v])
    BY <1>1
<1>3. \A v \in Workers : work'[v].i = work[v].i
    BY <1>1
<1>4. \A v \in Workers : work'[v].pc \in {"invoke", "publish"} =>
         called'[work'[v].i] = << >>
    <2> SUFFICES ASSUME NEW v \in Workers, work'[v].pc \in {"invoke", "publish"}
                 PROVE  called'[work[v].i] = << >>
        BY <1>3
    <2>1. CASE v = w
        BY <2>1 DEF WorkOK
    <2>2. CASE v # w
        <3>1. work[v].pc \in {"invoke", "publish"} /\ Busy(work[v])
            BY <1>1, <2>2 DEF Busy
        <3>2. work[v].i \in Ids /\ work[v].i # work[w].i
            BY <2>2, <3>1, BusyId DEF WorkOK
        <3> QED BY <3>1, <3>2 DEF WorkOK
    <2> QED BY <2>1, <2>2
<1>5. \A v \in Workers : work'[v].pc = "publish" => work'[v].b \in Buses
    BY <1>1 DEF WorkOK
<1>6. \A i \in Ids : i > n => called'[i] = << >>
    <2>1. work[w].i \in 1 .. n
        BY BusyId
    <2> QED BY <2>1, TypeFacts DEF WorkOK, Ids
<1>7. \A v \in Workers : Busy(work'[v]) =>
        work'[v].i \in 1 .. n /\ fate[work'[v].i] = "running"
    BY <1>2, <1>3, ZenonT(60) DEF WorkOK
<1>8. \A v, y \in Workers : Busy(work'[v]) /\ Busy(work'[y]) /\ v # y =>
         work'[v].i # work'[y].i
    <2> SUFFICES ASSUME NEW v \in Workers, NEW y \in Workers, v # y,
                        Busy(work'[v]), Busy(work'[y])
                 PROVE  work'[v].i # work'[y].i
        OBVIOUS
    <2>1. Busy(work[v]) /\ Busy(work[y])
        BY <1>2
    <2> QED BY <1>3, <2>1, OwnIds
<1> QED BY <1>4, <1>5, <1>6, <1>7, <1>8 DEF WorkOK

LEMMA WorkerWork ==
    ASSUME TypeOK, WorkOK, NEW w \in Workers, Worker(w)
    PROVE  WorkOK'
<1>1. CASE Invoke(w)
    <2>1. UNCHANGED <<n, input, disp, fate, called>>
        BY <1>1 DEF Invoke, message
    <2> QED BY <1>1, <2>1, InvokeMoves, OngoingWork, TypeFacts DEF Busy
<1>2. CASE Publish(w)
    <2>1. UNCHANGED <<n, input, disp, fate, called>>
        BY <1>2 DEF Publish, message
    <2> QED BY <1>2, <2>1, PublishMoves, OngoingWork DEF Busy
<1>3. CASE CallHandler(w)
    <2>1. UNCHANGED <<n, input, disp, fate>>
        BY <1>3 DEF CallHandler, message
    <2>2. \A i \in Ids : i # work[w].i => called'[i] = called[i]
        BY <1>3, CallMoves DEF TypeOK
    <2> QED BY <1>3, <2>1, <2>2, CallMoves, OngoingWork DEF Busy
<1>4. CASE Finish(w)
    <2>1. /\ UNCHANGED <<n, input, disp, called>> /\ Busy(work[w])
          /\ \A i \in Ids : i # work[w].i => fate'[i] = fate[i]
        BY <1>4, FinishMoves DEF Finish, message, Busy, TypeOK
    <2>2. work'[w].pc = "idle" /\ \A v \in Workers : v # w => work'[v] = work[v]
        BY <1>4, FinishMoves, IdleTask DEF Moves
    <2>3. \A v \in Workers : Busy(work[v]) => work[v].i \in Ids
        BY BusyId
    <2>4. work[w].i \in 1 .. n
        BY <2>1, BusyId
    <2>5. \A v \in Workers : Busy(work'[v]) => v # w /\ Busy(work[v]) /\ work'[v] = work[v]
        BY <2>2 DEF Busy
    <2>6. \A v \in Workers : Busy(work'[v]) =>
            work'[v].i \in 1 .. n /\ fate'[work'[v].i] = "running"
        <3> SUFFICES ASSUME NEW v \in Workers, Busy(work'[v])
                     PROVE  work'[v].i \in 1 .. n /\ fate'[work'[v].i] = "running"
            OBVIOUS
        <3>1. v # w /\ Busy(work[v]) /\ work'[v] = work[v]
            BY <2>5
        <3>2. work[v].i \in Ids /\ work[v].i # work[w].i
            BY <2>1, <2>3, <3>1, OwnIds
        <3>3. work[v].i \in 1 .. n /\ fate[work[v].i] = "running"
            BY <3>1, BusyId
        <3> QED BY <2>1, <3>1, <3>2, <3>3
    <2>7. \A v, y \in Workers : Busy(work'[v]) /\ Busy(work'[y]) /\ v # y =>
            work'[v].i # work'[y].i
        <3> SUFFICES ASSUME NEW v \in Workers, NEW y \in Workers, v # y,
                            Busy(work'[v]), Busy(work'[y])
                     PROVE  work'[v].i # work'[y].i
            OBVIOUS
        <3>1. Busy(work[v]) /\ Busy(work[y]) /\ work'[v] = work[v] /\ work'[y] = work[y]
            BY <2>5
        <3> QED BY <3>1, OwnIds
    <2>8. \A v \in Workers : work'[v].pc \in {"invoke", "publish"} =>
            called[work'[v].i] = << >>
        BY <2>2, ZenonT(60) DEF WorkOK
    <2>9. \A v \in Workers : work'[v].pc = "publish" => work'[v].b \in Buses
        BY <2>2 DEF WorkOK
    <2>10. \A i \in Ids : i > n => fate'[i] = "none"
        BY <2>1, <2>4, TypeFacts DEF WorkOK, Ids
    <2> QED BY <2>1, <2>6, <2>7, <2>8, <2>9, <2>10 DEF WorkOK
<1> QED BY <1>1, <1>2, <1>3, <1>4 DEF Worker

LEMMA WorkStep ==
    ASSUME TypeOK, WorkOK, [Next]_vars
    PROVE  WorkOK'
<1>1. CASE UNCHANGED <<work, n, input, disp, fate, called>>
    BY <1>1 DEF WorkOK
<1>2. CASE UNCHANGED vars
    BY <1>1, <1>2 DEF vars, message
<1>3. ASSUME NEW h \in Handlers, \/ \E ch \in Channels : On(h, ch)
                                 \/ \E e \in Events : Subscribe(h, e)
      PROVE  WorkOK'
    BY <1>1, <1>3 DEF On, Subscribe, message
<1>4. ASSUME NEW b \in Buses,
             \/ UseEventBus(b)
             \/ \E e \in Events, h \in Handlers :
                  Unsubscribe(b, e, h) \/ StopUnsubscribe(b, e, h)
      PROVE  WorkOK'
    BY <1>1, <1>4 DEF UseEventBus, Unsubscribe, StopUnsubscribe, message
<1>5. CASE Start \/ StopLock \/ StopTransport \/ StopEnd
    BY <1>1, <1>5 DEF Start, StopLock, StopTransport, StopEnd, message
<1> QED BY <1>2, <1>3, <1>4, <1>5, ArrivalWork, WorkerWork DEF Next

-----------------------------------------------------------------------------
LEMMA BaseInit ==
    ASSUME Init
    PROVE  Base
<1>1. << >> \in Seq(Handlers) /\ << >> \in Seq(Entries) /\ ToSet(<< >>) = {}
    BY ElementsEmpty
<1>2. 0 \in 0 .. MaxMsgs /\ 0 \in 0 .. MaxStarts
    BY ConstantsAssumption
<1>3. work \in [Workers -> Tasks] /\ \A w \in Workers : work[w].pc = "idle"
    BY IdleTask DEF Init
<1>4. /\ direct \in [Channels -> Seq(Handlers)]
      /\ subs \in [Buses -> [Events -> Seq(Handlers)]]
      /\ called \in [Ids -> Seq(Handlers)]
    BY <1>1 DEF Init
<1>5. /\ last \in [AGVs \X Channels -> Nat \cup {None}]
      /\ input \in [Ids -> Inputs \cup {None}]
      /\ owed \in [Ids -> SUBSET Handlers] /\ silent \in [Ids -> SUBSET Handlers]
    BY DEF Init
<1>6. TypeOK
    BY <1>1, <1>2, <1>3, <1>4, <1>5 DEF Init, TypeOK, Tasks, Phases, Entries, Subs
<1>7. ListsOK
    <2>1. Once(registered)
        <3>1. registered = << >>
            BY DEF Init
        <3>2. Len(<< >>) = 0 /\ 1 .. 0 = {}
            OBVIOUS
        <3> QED BY <3>1, <3>2 DEF Once
    <2>2. /\ \A ch \in Channels : direct[ch] = << >>
          /\ \A b \in Buses, e \in Events : subs[b][e] = << >>
        BY DEF Init
    <2> QED BY <1>1, <2>1, <2>2, EmptyList DEF ListsOK
<1>8. WorkOK
    BY <1>3 DEF Init, WorkOK, Busy
<1> QED BY <1>6, <1>7, <1>8 DEF Base

LEMMA BaseStep ==
    ASSUME Base, [Next]_vars
    PROVE  Base'
BY TypeStep, ListsStep, WorkStep DEF Base

LEMMA BaseAlways == Spec => []Base
<1>1. Init => Base
    BY BaseInit
<1>2. Base /\ [Next]_vars => Base'
    BY BaseStep
<1> QED BY <1>1, <1>2, PTL DEF Spec

\* The variables of the inbound model keep their types.
THEOREM EventTypeCorrect == Spec => []TypeOK
<1>1. Base => TypeOK
    BY DEF Base
<1> QED BY <1>1, BaseAlways, PTL

-----------------------------------------------------------------------------
(***************************************************************************)
(* The order of the calls.                                                 *)
(***************************************************************************)
\* What the platform does leaves workers and messages as they are.
LEMMA PlatformStep ==
    ASSUME TypeOK,
           \/ \E h \in Handlers : \/ \E ch \in Channels : On(h, ch)
                                  \/ \E e \in Events : Subscribe(h, e)
           \/ \E b \in Buses : UseEventBus(b)
           \/ \E b \in Buses, e \in Events, h \in Handlers :
                Unsubscribe(b, e, h) \/ StopUnsubscribe(b, e, h)
           \/ Start \/ StopLock \/ StopTransport \/ StopEnd
           \/ UNCHANGED vars
    PROVE  /\ UNCHANGED <<work, message, called, fate>>
           /\ \/ registered' = registered
              \/ \E z \in Entries : registered' = Append(registered, z)
<1>1. ASSUME NEW h \in Handlers, NEW ch \in Channels, On(h, ch)
      PROVE  /\ UNCHANGED <<work, message, called, fate>>
             /\ \E z \in Entries : registered' = Append(registered, z)
    <2>1. <<h, ch, "On">> \in Entries
        BY <1>1, TypeFacts DEF Entries, On
    <2> QED BY <1>1, <2>1 DEF On
<1>2. ASSUME NEW h \in Handlers, NEW e \in Events, Subscribe(h, e)
      PROVE  /\ UNCHANGED <<work, message, called, fate>>
             /\ \E z \in Entries : registered' = Append(registered, z)
    <2>1. <<h, e, "Subscribe">> \in Entries
        BY <1>2, SMTT(30) DEF Entries, Subscribe
    <2> QED BY <1>2, <2>1 DEF Subscribe
<1>3. ASSUME \/ \E b \in Buses : UseEventBus(b)
             \/ \E b \in Buses, e \in Events, h \in Handlers :
                  Unsubscribe(b, e, h) \/ StopUnsubscribe(b, e, h)
      PROVE  UNCHANGED <<work, message, called, fate, registered>>
    BY <1>3 DEF UseEventBus, Unsubscribe, StopUnsubscribe
<1>4. ASSUME Start \/ StopLock \/ StopTransport \/ StopEnd \/ UNCHANGED vars
      PROVE  UNCHANGED <<work, message, called, fate, registered>>
    BY <1>4 DEF Start, StopLock, StopTransport, StopEnd, vars
<1> QED BY <1>1, <1>2, <1>3, <1>4

\* Workers other than w see neither its task nor its message change.
LEMMA OthersUndisturbed ==
    ASSUME TypeOK, WorkOK, NEW w \in Workers, Worker(w),
           NEW v \in Workers, v # w, Busy(work'[v])
    PROVE  /\ work'[v] = work[v] /\ work[v].i \in Ids
           /\ called'[work[v].i] = called[work[v].i]
<1>1. /\ Busy(work[w]) /\ \E u : Moves(w, u)
      /\ \A i \in Ids : i # work[w].i => called'[i] = called[i]
    <2>1. CASE Invoke(w)
        BY <2>1, InvokeMoves DEF Invoke, Busy
    <2>2. CASE Publish(w)
        BY <2>2, PublishMoves DEF Publish, Busy
    <2>3. CASE CallHandler(w)
        BY <2>3, CallMoves DEF TypeOK, Busy
    <2>4. CASE Finish(w)
        BY <2>4, FinishMoves DEF Finish, Busy
    <2> QED BY <2>1, <2>2, <2>3, <2>4 DEF Worker
<1>2. work'[v] = work[v]
    BY <1>1 DEF Moves
<1>3. Busy(work[v])
    BY <1>2
<1>4. work[v].i \in Ids /\ work[v].i # work[w].i
    BY <1>1, <1>3, BusyId, OwnIds
<1> QED BY <1>1, <1>2, <1>4

LEMMA OrderStep ==
    ASSUME Base, OrderOK, [Next]_vars
    PROVE  OrderOK'
<1>0. TypeOK /\ ListsOK /\ WorkOK /\ registered \in Seq(Entries)
    BY TypeFacts DEF Base
<1>1. ASSUME UNCHANGED <<work, message, called, fate>>,
             \/ registered' = registered
             \/ \E z \in Entries : registered' = Append(registered, z)
      PROVE  OrderOK'
    <2>1. CASE registered' = registered
        BY <1>1, <2>1 DEF OrderOK
    <2>2. CASE \E z \in Entries : registered' = Append(registered, z)
        <3>1. /\ \A x, y : Earlier(registered, x, y) => Earlier(registered', x, y)
              /\ \A s : InOrder(registered, s) => InOrder(registered', s)
            BY <1>0, <2>2, RegisterKeeps
        <3>2. \A c, s : Continues(registered, c, s) => Continues(registered', c, s)
            BY <3>1 DEF Continues
        <3> QED BY <1>1, <3>1, <3>2 DEF OrderOK
    <2> QED BY <1>1, <2>1, <2>2
<1>2. ASSUME NEW w \in Workers, Emit(w) \/ \E m \in Inputs : Receive(w, m)
      PROVE  OrderOK'
    <2>1. UNCHANGED <<registered, called>>
        BY <1>2 DEF Emit, Receive
    <2>2. \A v \in Workers : work'[v].pc = "call" => work'[v] = work[v]
        <3>1. work'[w].pc # "call" /\ \E u : Moves(w, u)
            BY <1>0, <1>2, ReceiveMoves, EmitMoves
        <3> QED BY <3>1 DEF Moves
    <2> QED BY <2>1, <2>2 DEF OrderOK
\* Worker w makes a step.
<1>3. ASSUME NEW w \in Workers, Worker(w), registered' = registered,
             \A i \in Ids : InOrder(registered, called'[i]),
             work'[w].pc = "call" =>
               Continues(registered, called'[work'[w].i], work'[w].todo)
      PROVE  OrderOK'
    <2>1. ASSUME NEW v \in Workers, v # w, work'[v].pc = "call"
          PROVE  Continues(registered, called'[work'[v].i], work'[v].todo)
        <3>1. /\ work'[v] = work[v] /\ called'[work[v].i] = called[work[v].i]
            BY <1>0, <1>3, <2>1, OthersUndisturbed DEF Busy
        <3> QED BY <2>1, <3>1 DEF OrderOK
    <2> QED BY <1>3, <2>1 DEF OrderOK
\* What it finds on a list, for a message that nobody got yet.
<1>4. ASSUME NEW s, InOrder(registered, s) PROVE Continues(registered, << >>, s)
    BY <1>4, ElementsEmpty DEF Continues
<1>5. ASSUME NEW w \in Workers, Invoke(w) PROVE OrderOK'
    <2>1. /\ UNCHANGED <<registered, called>> /\ called[work[w].i] = << >>
          /\ work'[w].i = work[w].i
        BY <1>0, <1>5, InvokeMoves DEF Invoke, WorkOK
    <2>2. work'[w].pc = "call" => InOrder(registered, work'[w].todo)
        BY <1>0, <1>5, InvokeMoves, InOrderEmpty DEF ListsOK, ListOK
    <2> QED BY <1>3, <1>4, <1>5, <2>1, <2>2 DEF Worker, OrderOK
<1>6. ASSUME NEW w \in Workers, Publish(w) PROVE OrderOK'
    <2>1. /\ UNCHANGED <<registered, called>> /\ called[work[w].i] = << >>
          /\ work'[w].i = work[w].i
        BY <1>0, <1>6, PublishMoves DEF Publish, WorkOK
    <2>2. InOrder(registered, work'[w].todo)
        BY <1>0, <1>6, PublishMoves DEF ListsOK, ListOK
    <2> QED BY <1>3, <1>4, <1>6, <2>1, <2>2 DEF Worker, OrderOK
<1>7. ASSUME NEW w \in Workers, CallHandler(w) PROVE OrderOK'
    <2> DEFINE i == work[w].i
               s == work[w].todo
               c == called[i]
               d == Append(c, Head(s))
    <2>1. /\ i \in Ids /\ s \in Seq(Handlers) /\ s # << >> /\ Head(s) \in Handlers
          /\ c \in Seq(Handlers) /\ called' = [called EXCEPT ![i] = d]
          /\ work'[w].i = i /\ work'[w].todo = IF Head(s) \in Failing THEN << >> ELSE Tail(s)
          /\ work[w].pc = "call"
        BY <1>0, <1>7, CallMoves
    <2>2. registered' = registered /\ called \in [Ids -> Seq(Handlers)]
        BY <1>0, <1>7 DEF CallHandler, TypeOK
    <2>3. InOrder(registered, c) /\ Continues(registered, c, s)
        BY <2>1 DEF OrderOK
    <2> HIDE DEF i, s, c
    <2>4. /\ ToSet(s) = {Head(s)} \cup ToSet(Tail(s))
          /\ ToSet(d) = ToSet(c) \cup {Head(s)}
        BY <2>1, ElementsHead, ElementsAppend
    <2>5. InOrder(registered, d)
        BY <2>1, <2>3, <2>4, InOrderAppend DEF Continues
    <2>6. InOrder(registered, Tail(s)) /\ \A y \in ToSet(Tail(s)) : Earlier(registered, Head(s), y)
        BY <2>1, <2>3, InOrderTail DEF Continues
    <2>7. Continues(registered, d, Tail(s)) /\ Continues(registered, d, << >>)
        BY <2>3, <2>4, <2>6, InOrderEmpty, ElementsEmpty DEF Continues
    <2> HIDE DEF d
    <2>8. called'[i] = d /\ \A j \in Ids : j # i => called'[j] = called[j]
        BY <2>1, <2>2
    <2>9. \A j \in Ids : InOrder(registered, called'[j])
        BY <2>5, <2>8 DEF OrderOK
    <2>10. Continues(registered, called'[work'[w].i], work'[w].todo)
        BY <2>1, <2>7, <2>8
    <2> QED BY <1>3, <1>7, <2>2, <2>9, <2>10 DEF Worker
<1>8. ASSUME NEW w \in Workers, Finish(w) PROVE OrderOK'
    <2>1. UNCHANGED <<registered, called>> /\ work'[w].pc = "idle"
        BY <1>0, <1>8, FinishMoves, IdleTask DEF Finish
    <2> QED BY <1>3, <1>8, <2>1 DEF Worker, OrderOK
<1>9. ASSUME NEW w \in Workers, Worker(w) PROVE OrderOK'
    BY <1>5, <1>6, <1>7, <1>8, <1>9 DEF Worker
<1> QED BY <1>0, <1>1, <1>2, <1>9, PlatformStep DEF Next

\* A message is given to its handlers in the order of their registration, at
\* most once to each, also while UseEventBus moves them to a bus.
THEOREM HandlersInOrder == Spec => []CalledInOrder
<1>1. Init => Base /\ OrderOK
    <2> SUFFICES ASSUME Init PROVE Base /\ OrderOK
        OBVIOUS
    <2>1. \A w \in Workers : work[w].pc = "idle"
        BY IdleTask DEF Init
    <2>2. \A i \in Ids : called[i] = << >>
        BY DEF Init
    <2> QED BY <2>1, <2>2, BaseInit, InOrderEmpty DEF OrderOK
<1>2. (Base /\ OrderOK) /\ [Next]_vars => (Base /\ OrderOK)'
    BY BaseStep, OrderStep
<1>3. OrderOK => CalledInOrder
    BY DEF OrderOK, InOrder, Earlier, CalledInOrder
<1> QED BY <1>1, <1>2, <1>3, PTL DEF Spec

-----------------------------------------------------------------------------
(***************************************************************************)
(* Removed handlers.                                                       *)
(***************************************************************************)
\* A handler is registered for one event.
LEMMA OneEvent ==
    ASSUME NEW r \in Seq(Entries), Once(r), NEW h, NEW e, NEW f, Known(r, h, e), Known(r, h, f)
    PROVE  e = f
<1>1. PICK c : <<h, e, c>> \in ToSet(r)
    BY DEF Known
<1>2. PICK d : <<h, f, d>> \in ToSet(r)
    BY DEF Known
<1>3. PICK p \in 1 .. Len(r) : r[p] = <<h, e, c>>
    BY <1>1, Elements
<1>4. PICK q \in 1 .. Len(r) : r[q] = <<h, f, d>>
    BY <1>2, Elements
<1>5. p = q
    BY <1>3, <1>4 DEF Once
<1> QED BY <1>3, <1>4, <1>5

\* Unsubscribe takes the handler off the only list it was on.
LEMMA UnsubscribeUnlists ==
    ASSUME Base, NEW b \in Buses, NEW e \in Events, NEW h \in Handlers, Unsubscribe(b, e, h)
    PROVE  /\ ~IsFresh(h)
           /\ \A ch \in Channels : h \notin ToSet(direct[ch])
           /\ \A c \in Buses, f \in Events :
                h \notin ToSet(subs'[c][f]) /\ ToSet(subs'[c][f]) \subseteq ToSet(subs[c][f])
<1>0. TypeOK /\ ListsOK /\ registered \in Seq(Entries) /\ Once(registered)
    BY TypeFacts DEF Base, ListsOK
<1> DEFINE s == subs[b][e]
<1>1. /\ s \in Seq(Handlers) /\ h \in ToSet(s) /\ ListOK(registered, s, e)
      /\ ListBecomes(b, e, Without(s, h))
    BY <1>0, TypeFacts, RemoveTypes DEF ListsOK, Unsubscribe
<1>2. Known(registered, h, e)
    BY <1>1 DEF ListOK
<1>3. ~IsFresh(h)
    BY <1>0, <1>1, FreshUnlisted
<1>4. bus # None
    BY <1>0, <1>1, ElementsEmpty DEF ListsOK
<1>5. \A ch \in Channels : h \notin ToSet(direct[ch])
    BY <1>0, <1>4, ElementsEmpty DEF ListsOK
<1>6. h \notin ToSet(Without(s, h)) /\ ToSet(Without(s, h)) \subseteq ToSet(s)
    BY <1>0, <1>1, WithoutRemoves, WithoutElements DEF ListOK
<1>7. ASSUME NEW c \in Buses, NEW f \in Events
      PROVE  h \notin ToSet(subs'[c][f]) /\ ToSet(subs'[c][f]) \subseteq ToSet(subs[c][f])
    <2>1. CASE c = b /\ f = e
        BY <1>1, <1>6, <2>1 DEF ListBecomes
    <2>2. CASE f # e
        <3>1. subs'[c][f] = subs[c][f]
            BY <1>1, <2>2 DEF ListBecomes
        <3>2. ListOK(registered, subs[c][f], f)
            BY <1>0 DEF ListsOK
        <3> QED BY <1>0, <1>2, <2>2, <3>1, <3>2, OneEvent DEF ListOK
    <2>3. CASE c # b /\ f = e
        <3>1. subs'[c][f] = subs[c][f]
            BY <1>1, <2>3 DEF ListBecomes
        <3>2. ToSet(subs[c][e]) \cap ToSet(s) = {}
            BY <1>0, <2>3 DEF ListsOK
        <3> QED BY <1>1, <2>3, <3>1, <3>2
    <2> QED BY <2>1, <2>2, <2>3
<1> QED BY <1>3, <1>5, <1>7

LEMMA SilentListsStep ==
    ASSUME Base, SilentLists, [Next]_vars
    PROVE  SilentLists' /\ removed \subseteq removed'
<1>0. TypeOK /\ ListsOK /\ WorkOK
    BY DEF Base
<1>1. ASSUME UNCHANGED <<registered, removed>>,
             \A ch \in Channels : ToSet(direct'[ch]) \cap removed = {},
             \A b \in Buses, e \in Events : ToSet(subs'[b][e]) \cap removed = {}
      PROVE  SilentLists' /\ removed \subseteq removed'
    BY <1>1 DEF SilentLists, IsFresh
<1>2. ASSUME UNCHANGED <<registered, removed, direct, subs>>
      PROVE  SilentLists' /\ removed \subseteq removed'
    BY <1>1, <1>2 DEF SilentLists
<1>3. ASSUME NEW h \in Handlers, NEW z \in Entries, IsFresh(h), removed' = removed,
             registered' = Append(registered, z)
      PROVE  h \notin removed /\ \A g \in removed : ~IsFresh(g)'
    <2>1. ToSet(registered') = ToSet(registered) \cup {z}
        BY <1>0, <1>3, TypeFacts, ElementsAppend
    <2> QED BY <1>3, <2>1 DEF SilentLists, IsFresh
<1>a. ASSUME NEW h \in Handlers, h \notin removed, NEW b \in Buses, NEW e \in Events,
              NEW s, ToSet(s) = ToSet(subs[b][e]) \cup {h}, ListBecomes(b, e, s)
       PROVE  \A c \in Buses, f \in Events : ToSet(subs'[c][f]) \cap removed = {}
    <2> SUFFICES ASSUME NEW c \in Buses, NEW f \in Events
                 PROVE  ToSet(subs'[c][f]) \cap removed = {}
        OBVIOUS
    <2>1. ToSet(subs[c][f]) \cap removed = {}
        BY DEF SilentLists
    <2>2. CASE c = b /\ f = e
        <3>1. ToSet(subs'[c][f]) = ToSet(subs[c][f]) \cup {h}
            BY <1>a, <2>2 DEF ListBecomes
        <3> QED BY <1>a, <2>1, <3>1
    <2>3. CASE c # b \/ f # e
        BY <1>a, <2>1, <2>3 DEF ListBecomes
    <2> QED BY <2>2, <2>3
<1>4. ASSUME NEW h \in Handlers, NEW ch \in Channels, On(h, ch)
      PROVE  SilentLists' /\ removed \subseteq removed'
    <2>1. /\ <<h, ch, "On">> \in Entries /\ IsFresh(h) /\ removed' = removed
          /\ registered' = Append(registered, <<h, ch, "On">>) /\ ch \in Events
        BY <1>0, <1>4, TypeFacts DEF Entries, On
    <2>2. h \notin removed /\ \A g \in removed : ~IsFresh(g)'
        BY <1>3, <2>1
    <2>3. CASE bus # None
        <3>1. /\ ListBecomes(bus, ch, Append(subs[bus][ch], h)) /\ direct' = direct
              /\ bus \in Buses /\ subs[bus][ch] \in Seq(Handlers)
            BY <1>0, <1>4, <2>1, <2>3, OnLists, TypeFacts
        <3>2. ToSet(Append(subs[bus][ch], h)) = ToSet(subs[bus][ch]) \cup {h}
            BY <3>1, ElementsAppend
        <3>3. \A b \in Buses, e \in Events : ToSet(subs'[b][e]) \cap removed = {}
            BY <1>a, <2>1, <2>2, <3>1, <3>2
        <3> QED BY <2>1, <2>2, <3>1, <3>3 DEF SilentLists
    <2>4. CASE bus = None
        <3>1. /\ direct'[ch] = Append(direct[ch], h) /\ subs' = subs
              /\ direct[ch] \in Seq(Handlers)
              /\ \A c \in Channels : c # ch => direct'[c] = direct[c]
            BY <1>0, <1>4, <2>4, OnLists, TypeFacts
        <3>2. ToSet(Append(direct[ch], h)) = ToSet(direct[ch]) \cup {h}
            BY <3>1, ElementsAppend
        <3>3. \A c \in Channels : ToSet(direct'[c]) \cap removed = {}
            BY <2>2, <3>1, <3>2 DEF SilentLists
        <3> QED BY <2>1, <2>2, <3>1, <3>3 DEF SilentLists
    <2> QED BY <2>3, <2>4
<1>5. ASSUME NEW h \in Handlers, NEW e \in Events, Subscribe(h, e)
      PROVE  SilentLists' /\ removed \subseteq removed'
    <2>1. /\ <<h, e, "Subscribe">> \in Entries /\ IsFresh(h) /\ removed' = removed
          /\ registered' = Append(registered, <<h, e, "Subscribe">>) /\ direct' = direct
          /\ bus \in Buses /\ subs[bus][e] \in Seq(Handlers)
          /\ ListBecomes(bus, e, Append(subs[bus][e], h))
        BY <1>0, <1>5, TypeFacts, AppendToBus DEF Entries, Subscribe
    <2>2. h \notin removed /\ \A g \in removed : ~IsFresh(g)'
        BY <1>3, <2>1
    <2>3. ToSet(Append(subs[bus][e], h)) = ToSet(subs[bus][e]) \cup {h}
        BY <2>1, ElementsAppend
    <2>4. \A b \in Buses, f \in Events : ToSet(subs'[b][f]) \cap removed = {}
        BY <1>a, <2>1, <2>2, <2>3
    <2> QED BY <2>1, <2>2, <2>4 DEF SilentLists
<1>6. ASSUME NEW b \in Buses, UseEventBus(b)
      PROVE  SilentLists' /\ removed \subseteq removed'
    <2>1. UNCHANGED <<registered, removed>> /\ \A ch \in Channels : direct'[ch] = << >>
        BY <1>0, <1>6, MigratedLists DEF UseEventBus
    <2>2. \A c \in Buses, e \in Events : ToSet(subs'[c][e]) \cap removed = {}
        <3>1. CASE bus = None
            BY <1>0, <1>6, <3>1, MigratedLists, ElementsEmpty DEF SilentLists
        <3>2. CASE bus # None
            BY <1>0, <1>6, <3>2, MigratedLists DEF SilentLists
        <3> QED BY <3>1, <3>2
    <2> QED BY <1>1, <2>1, <2>2, ElementsEmpty
<1>7. ASSUME NEW b \in Buses, NEW e \in Events, NEW h \in Handlers, Unsubscribe(b, e, h)
      PROVE  SilentLists' /\ removed \subseteq removed'
    <2>1. removed' = removed \cup {h} /\ UNCHANGED <<registered, direct>>
        BY <1>7 DEF Unsubscribe
    <2>2. \A g \in removed' : ~IsFresh(g)'
        BY <1>7, <2>1, UnsubscribeUnlists DEF SilentLists, IsFresh
    <2>3. \A ch \in Channels : ToSet(direct'[ch]) \cap removed' = {}
        BY <1>7, <2>1, UnsubscribeUnlists DEF SilentLists
    <2>4. \A c \in Buses, f \in Events : ToSet(subs'[c][f]) \cap removed' = {}
        BY <1>7, <2>1, UnsubscribeUnlists DEF SilentLists
    <2> QED BY <2>1, <2>2, <2>3, <2>4 DEF SilentLists
<1>8. ASSUME NEW b \in Buses, NEW e \in Events, NEW h \in Handlers, StopUnsubscribe(b, e, h)
      PROVE  SilentLists' /\ removed \subseteq removed'
    <2>1. UNCHANGED <<registered, removed, direct>>
        BY <1>8 DEF StopUnsubscribe
    <2>2. /\ ListBecomes(b, e, Without(subs[b][e], h))
          /\ ToSet(Without(subs[b][e], h)) \subseteq ToSet(subs[b][e])
        BY <1>0, <1>8, RemoveTypes, TypeFacts, WithoutElements
    <2>3. \A c \in Buses, f \in Events : ToSet(subs'[c][f]) \subseteq ToSet(subs[c][f])
        BY <2>2 DEF ListBecomes
    <2>4. \A c \in Buses, f \in Events : ToSet(subs'[c][f]) \cap removed = {}
        BY <2>3 DEF SilentLists
    <2> QED BY <1>1, <2>1, <2>4 DEF SilentLists
<1>9. ASSUME NEW w \in Workers, \/ Worker(w) \/ Emit(w) \/ \E m \in Inputs : Receive(w, m)
      PROVE  SilentLists' /\ removed \subseteq removed'
    BY <1>2, <1>9 DEF Worker, Emit, Receive, Invoke, Publish, CallHandler, Finish, handlers
<1>10. CASE Start \/ StopLock \/ StopTransport \/ StopEnd \/ UNCHANGED vars
    BY <1>2, <1>10 DEF Start, StopLock, StopTransport, StopEnd, vars, handlers
<1> QED BY <1>4, <1>5, <1>6, <1>7, <1>8, <1>9, <1>10 DEF Next


LEMMA SilentStep ==
    ASSUME Base, SilentOK, [Next]_vars
    PROVE  SilentOK'
<1>0. TypeOK /\ ListsOK /\ WorkOK
    BY DEF Base
<1>1. SilentLists' /\ removed \subseteq removed'
    BY SilentListsStep DEF SilentOK
<1>2. ASSUME UNCHANGED <<work, message, called>> PROVE SilentOK'
    BY <1>1, <1>2 DEF SilentOK, RemovedIsSilent, message
<1>3. ASSUME NEW w \in Workers, Emit(w) \/ \E m \in Inputs : Receive(w, m)
      PROVE  SilentOK'
    <2>1. /\ called' = called /\ silent' = [silent EXCEPT ![n + 1] = removed] /\ n < MaxMsgs
          /\ removed' = removed
        BY <1>3 DEF Emit, Receive
    <2>2. n + 1 \in Ids /\ called[n + 1] = << >> /\ n + 1 \notin 1 .. n
        BY <1>0, <2>1, NextId DEF WorkOK
    <2>3. silent'[n + 1] = removed /\ \A i \in Ids : i # n + 1 => silent'[i] = silent[i]
        BY <1>0, <2>1, <2>2 DEF TypeOK
    <2>4. \A i \in Ids : silent'[i] \subseteq removed'
        BY <2>1, <2>3 DEF SilentOK
    <2>5. RemovedIsSilent'
        BY <2>1, <2>2, <2>3, ElementsEmpty DEF SilentOK, RemovedIsSilent
    <2>6. \A v \in Workers : work'[v].pc = "call" => work'[v] = work[v]
        <3>1. work'[w].pc # "call" /\ \E u : Moves(w, u)
            BY <1>0, <1>3, ReceiveMoves, EmitMoves
        <3> QED BY <3>1 DEF Moves
    <2>7. ASSUME NEW v \in Workers, work'[v].pc = "call"
          PROVE  ToSet(work'[v].todo) \cap silent'[work'[v].i] = {}
        <3>1. work'[v] = work[v] /\ work[v].pc = "call"
            BY <2>6, <2>7
        <3>2. work[v].i \in Ids /\ work[v].i # n + 1
            BY <1>0, <2>2, <3>1, BusyId DEF Busy
        <3> QED BY <2>3, <3>1, <3>2 DEF SilentOK
    <2> QED BY <1>1, <2>4, <2>5, <2>7 DEF SilentOK
\* Worker w makes a step.
<1>4. ASSUME NEW w \in Workers, Worker(w), UNCHANGED <<silent, removed>>,
             \A i \in Ids : ToSet(called'[i]) \cap silent[i] = {},
             work'[w].pc = "call" => ToSet(work'[w].todo) \cap silent[work'[w].i] = {}
      PROVE  SilentOK'
    <2>1. ASSUME NEW v \in Workers, v # w, work'[v].pc = "call"
          PROVE  ToSet(work'[v].todo) \cap silent[work'[v].i] = {}
        <3>1. work'[v] = work[v]
            BY <1>0, <1>4, <2>1, OthersUndisturbed DEF Busy
        <3> QED BY <2>1, <3>1 DEF SilentOK
    <2> QED BY <1>1, <1>4, <2>1 DEF SilentOK, RemovedIsSilent
<1>5. ASSUME NEW w \in Workers, Invoke(w) PROVE SilentOK'
    <2>1. UNCHANGED <<silent, removed, called>> /\ work'[w].i = work[w].i /\ work[w].i \in Ids
        BY <1>0, <1>5, InvokeMoves, BusyId DEF Invoke, message, Busy
    <2>2. work'[w].pc = "call" => ToSet(work'[w].todo) \cap removed = {}
        BY <1>0, <1>5, InvokeMoves, ElementsEmpty DEF SilentOK, SilentLists
    <2>3. silent[work[w].i] \subseteq removed
        BY <2>1 DEF SilentOK
    <2> QED BY <1>4, <1>5, <2>1, <2>2, <2>3 DEF Worker, SilentOK, RemovedIsSilent
<1>6. ASSUME NEW w \in Workers, Publish(w) PROVE SilentOK'
    <2>1. UNCHANGED <<silent, removed, called>> /\ work'[w].i = work[w].i /\ work[w].i \in Ids
        BY <1>0, <1>6, PublishMoves, BusyId DEF Publish, message, Busy
    <2>2. ToSet(work'[w].todo) \cap removed = {}
        BY <1>0, <1>6, PublishMoves DEF SilentOK, SilentLists
    <2>3. silent[work[w].i] \subseteq removed
        BY <2>1 DEF SilentOK
    <2> QED BY <1>4, <1>6, <2>1, <2>2, <2>3 DEF Worker, SilentOK, RemovedIsSilent
<1>7. ASSUME NEW w \in Workers, CallHandler(w) PROVE SilentOK'
    <2> DEFINE i == work[w].i
               s == work[w].todo
               c == called[i]
               d == Append(c, Head(s))
    <2>1. /\ i \in Ids /\ s \in Seq(Handlers) /\ s # << >> /\ Head(s) \in Handlers
          /\ c \in Seq(Handlers) /\ called' = [called EXCEPT ![i] = d]
          /\ work'[w].i = i /\ work'[w].todo = IF Head(s) \in Failing THEN << >> ELSE Tail(s)
          /\ work[w].pc = "call"
        BY <1>0, <1>7, CallMoves
    <2>2. UNCHANGED <<silent, removed>> /\ called \in [Ids -> Seq(Handlers)]
        BY <1>0, <1>7 DEF CallHandler, message, TypeOK
    <2>3. ToSet(c) \cap silent[i] = {} /\ ToSet(s) \cap silent[i] = {}
        BY <2>1 DEF SilentOK, RemovedIsSilent
    <2> HIDE DEF i, s, c
    <2>4. /\ ToSet(s) = {Head(s)} \cup ToSet(Tail(s))
          /\ ToSet(d) = ToSet(c) \cup {Head(s)}
        BY <2>1, ElementsHead, ElementsAppend
    <2> HIDE DEF d
    <2>5. called'[i] = d /\ \A j \in Ids : j # i => called'[j] = called[j]
        BY <2>1, <2>2
    <2>6. \A j \in Ids : ToSet(called'[j]) \cap silent[j] = {}
        BY <2>3, <2>4, <2>5 DEF SilentOK, RemovedIsSilent
    <2>7. ToSet(work'[w].todo) \cap silent[work'[w].i] = {}
        BY <2>1, <2>3, <2>4, ElementsEmpty
    <2> QED BY <1>4, <1>7, <2>2, <2>6, <2>7 DEF Worker
<1>8. ASSUME NEW w \in Workers, Finish(w) PROVE SilentOK'
    <2>1. UNCHANGED <<silent, removed, called>> /\ work'[w].pc = "idle"
        BY <1>0, <1>8, FinishMoves, IdleTask DEF Finish, message
    <2> QED BY <1>4, <1>8, <2>1 DEF Worker, SilentOK, RemovedIsSilent
<1>9. ASSUME NEW w \in Workers, Worker(w) PROVE SilentOK'
    BY <1>5, <1>6, <1>7, <1>8, <1>9 DEF Worker
<1> QED BY <1>0, <1>2, <1>3, <1>9, PlatformStep DEF Next

\* A handler whose Unsubscribe has returned gets no message that arrives later.
THEOREM RemovedStaySilent == Spec => []RemovedIsSilent
<1>1. Init => Base /\ SilentOK
    <2> SUFFICES ASSUME Init PROVE Base /\ SilentOK
        OBVIOUS
    <2>1. \A w \in Workers : work[w].pc = "idle"
        BY IdleTask DEF Init
    <2>2. removed = {} /\ \A i \in Ids : silent[i] = {}
        BY DEF Init
    <2> QED BY <2>1, <2>2, BaseInit DEF SilentOK, SilentLists, RemovedIsSilent
<1>2. (Base /\ SilentOK) /\ [Next]_vars => (Base /\ SilentOK)'
    BY BaseStep, SilentStep
<1>3. SilentOK => RemovedIsSilent
    BY DEF SilentOK
<1> QED BY <1>1, <1>2, <1>3, PTL DEF Spec

-----------------------------------------------------------------------------
(***************************************************************************)
(* Payloads that name another AGV.                                         *)
(***************************************************************************)
LEMMA AnotherIsRefused ==
    ASSUME NEW m, NamesAnother(m)
    PROVE  Undecodable(m) /\ ~Classified(m)
<1>1. <<m.mfr, m.sn>> # <<"", "">> /\ (m.mfr # "own" \/ m.sn # "own") /\ StrictIdentity
    BY DEF NamesAnother
<1>2. Mismatch(m)
    BY <1>1 DEF Mismatch
<1>3. m.hasHeader
    BY DEF NamesAnother
<1> QED BY <1>2, <1>3, Zenon DEF Undecodable, Classified

LEMMA ForeignStep ==
    ASSUME Base, ForeignOK, [Next]_vars
    PROVE  ForeignOK'
<1>0. TypeOK /\ ListsOK /\ WorkOK /\ registered \in Seq(Entries)
    BY TypeFacts DEF Base
<1>1. ASSUME UNCHANGED <<work, message, called, fate>>,
             \/ registered' = registered
             \/ \E z \in Entries : registered' = Append(registered, z)
      PROVE  ForeignOK'
    <2>1. \A h, e : Known(registered, h, e) => Known(registered', h, e)
        BY <1>0, <1>1, RegisterKeeps
    <2>2. UNCHANGED <<work, input, disp, called>>
        BY <1>1 DEF message
    <2> QED BY <2>1, <2>2 DEF ForeignOK, Foreign
<1>2. ASSUME NEW w \in Workers, Emit(w) \/ \E m \in Inputs : Receive(w, m)
      PROVE  ForeignOK'
    <2>1. /\ UNCHANGED <<registered, called>> /\ n < MaxMsgs
          /\ \E u : Moves(w, u)
          /\ work'[w].i = n + 1 /\ work'[w].pc # "call"
        BY <1>0, <1>2, ReceiveMoves, EmitMoves DEF Emit, Receive
    <2>2. n + 1 \in Ids /\ n + 1 \notin 1 .. n /\ n + 1 > n
        BY <1>0, <2>1, NextId
    <2>3. called[n + 1] = << >> /\ disp[n + 1] = "" /\ input[n + 1] = None
        BY <1>0, <2>2 DEF WorkOK
    <2>4. /\ \A i \in Ids : i # n + 1 => input'[i] = input[i] /\ disp'[i] = disp[i]
          /\ Foreign(input'[n + 1]) => disp'[n + 1] = "" /\ work'[w].ev = "decode"
        <3>1. CASE Emit(w)
            <4>1. UNCHANGED <<input, disp>>
                BY <3>1 DEF Emit
            <4> QED BY <2>3, <4>1 DEF Foreign
        <3>2. ASSUME NEW m \in Inputs, Receive(w, m)
              PROVE  /\ \A i \in Ids : i # n + 1 => input'[i] = input[i] /\ disp'[i] = disp[i]
                     /\ Foreign(input'[n + 1]) => disp'[n + 1] = "" /\ work'[w].ev = "decode"
            <4>1. input' = [input EXCEPT ![n + 1] = m]
                BY <1>0, <3>2, ReceiveNotes
            <4>2. \A i \in Ids : i # n + 1 => disp'[i] = disp[i]
                BY <1>0, <3>2, ReceiveNotes DEF TypeOK
            <4>3. input'[n + 1] = m /\ \A i \in Ids : i # n + 1 => input'[i] = input[i]
                BY <1>0, <2>2, <4>1 DEF TypeOK
            <4>4. ASSUME Foreign(input'[n + 1]) PROVE disp'[n + 1] = "" /\ work'[w].ev = "decode"
                <5>1. NamesAnother(m)
                    BY <4>3, <4>4 DEF Foreign
                <5>2. Undecodable(m) /\ ~Classified(m)
                    BY <5>1, AnotherIsRefused
                <5>3. disp' = disp
                    BY <1>0, <3>2, <5>2, ReceiveNotes
                <5> QED BY <1>0, <2>3, <3>2, <5>2, <5>3, ReceiveMoves
            <4> QED BY <4>2, <4>3, <4>4
        <3> QED BY <1>2, <3>1, <3>2
    <2>5. \A i \in Ids : i # n + 1 => (Foreign(input'[i]) <=> Foreign(input[i]))
        BY <2>4 DEF Foreign
    <2>6. \A v \in Workers : v # w => work'[v] = work[v]
        BY <2>1 DEF Moves
    <2>7. ASSUME NEW v \in Workers, Busy(work'[v]), Foreign(input'[work'[v].i])
          PROVE  work'[v].ev = "decode"
        <3>1. CASE v = w
            BY <2>1, <2>4, <2>7, <3>1
        <3>2. CASE v # w
            <4>1. work'[v] = work[v]
                BY <2>6, <3>2
            <4>2. Busy(work[v])
                BY <2>7, <4>1
            <4>3. work[v].i \in Ids /\ work[v].i # n + 1
                BY <1>0, <2>2, <4>2, BusyId
            <4>4. Foreign(input[work[v].i])
                BY <2>5, <2>7, <4>1, <4>3
            <4> QED BY <4>1, <4>2, <4>4 DEF ForeignOK
        <3> QED BY <3>1, <3>2
    <2>8. ASSUME NEW v \in Workers, work'[v].pc = "call"
          PROVE  \A h \in ToSet(work'[v].todo) : Known(registered, h, work'[v].ev)
        BY <2>1, <2>6, <2>8 DEF ForeignOK
    <2>9. ASSUME NEW i \in Ids, Foreign(input'[i])
          PROVE  disp'[i] = "" /\ \A h \in ToSet(called[i]) : Known(registered, h, "decode")
        <3>1. CASE i = n + 1
            BY <2>3, <2>4, <2>9, <3>1, ElementsEmpty
        <3>2. CASE i # n + 1
            BY <2>4, <2>5, <2>9, <3>2 DEF ForeignOK
        <3> QED BY <3>1, <3>2
    <2> QED BY <2>1, <2>7, <2>8, <2>9 DEF ForeignOK
\* Worker w makes a step.
<1>3. ASSUME NEW w \in Workers, Worker(w), UNCHANGED <<registered, input, disp>>,
             Busy(work[w]), Busy(work'[w]) => /\ work'[w].i = work[w].i
                                              /\ work'[w].ev = work[w].ev,
             work'[w].pc = "call" =>
               \A h \in ToSet(work'[w].todo) : Known(registered, h, work[w].ev),
             \A i \in Ids : \A h \in ToSet(called'[i]) :
               h \in ToSet(called[i]) \/ (i = work[w].i /\ Known(registered, h, work[w].ev))
      PROVE  ForeignOK'
    <2>1. \A i : Foreign(input'[i]) <=> Foreign(input[i])
        BY <1>3 DEF Foreign
    <2>2. ASSUME NEW v \in Workers, Busy(work'[v])
          PROVE  Busy(work[v]) /\ work'[v].i = work[v].i /\ work'[v].ev = work[v].ev
        <3>1. CASE v = w
            BY <1>3, <2>2, <3>1
        <3>2. CASE v # w
            <4>1. work'[v] = work[v]
                BY <1>0, <1>3, <2>2, <3>2, OthersUndisturbed
            <4> QED BY <2>2, <4>1
        <3> QED BY <3>1, <3>2
    <2>3. ASSUME NEW v \in Workers, Busy(work'[v]), Foreign(input'[work'[v].i])
          PROVE  work'[v].ev = "decode"
        BY <2>1, <2>2, <2>3 DEF ForeignOK
    <2>4. ASSUME NEW v \in Workers, work'[v].pc = "call"
          PROVE  \A h \in ToSet(work'[v].todo) : Known(registered, h, work'[v].ev)
        <3>1. CASE v = w
            BY <1>3, <2>4, <3>1 DEF Busy
        <3>2. CASE v # w
            <4>1. work'[v] = work[v]
                BY <1>0, <1>3, <2>4, <3>2, OthersUndisturbed DEF Busy
            <4> QED BY <2>4, <4>1 DEF ForeignOK
        <3> QED BY <3>1, <3>2
    <2>5. ASSUME NEW i \in Ids, Foreign(input[i])
          PROVE  disp[i] = "" /\ \A h \in ToSet(called'[i]) : Known(registered, h, "decode")
        <3>1. disp[i] = "" /\ \A h \in ToSet(called[i]) : Known(registered, h, "decode")
            BY <2>5 DEF ForeignOK
        <3>2. i = work[w].i => work[w].ev = "decode"
            BY <1>3, <2>5 DEF ForeignOK
        <3> QED BY <1>3, <3>1, <3>2
    <2> QED BY <1>3, <2>1, <2>3, <2>4, <2>5 DEF ForeignOK
<1>4. ASSUME NEW w \in Workers, Invoke(w) PROVE ForeignOK'
    <2>1. UNCHANGED <<registered, input, disp, called>>
        BY <1>4 DEF Invoke, message
    <2>2. work'[w].pc = "call" =>
            \A h \in ToSet(work'[w].todo) : Known(registered, h, work[w].ev)
        BY <1>0, <1>4, InvokeMoves, ElementsEmpty DEF ListsOK, ListOK
    <2> QED BY <1>0, <1>3, <1>4, <2>1, <2>2, InvokeMoves DEF Worker, Busy
<1>5. ASSUME NEW w \in Workers, Publish(w) PROVE ForeignOK'
    <2>1. UNCHANGED <<registered, input, disp, called>>
        BY <1>5 DEF Publish, message
    <2>2. \A h \in ToSet(work'[w].todo) : Known(registered, h, work[w].ev)
        BY <1>0, <1>5, PublishMoves DEF ListsOK, ListOK
    <2> QED BY <1>0, <1>3, <1>5, <2>1, <2>2, PublishMoves DEF Worker, Busy
<1>6. ASSUME NEW w \in Workers, CallHandler(w) PROVE ForeignOK'
    <2> DEFINE i == work[w].i
               s == work[w].todo
               c == called[i]
               d == Append(c, Head(s))
    <2>1. /\ i \in Ids /\ s \in Seq(Handlers) /\ s # << >> /\ Head(s) \in Handlers
          /\ c \in Seq(Handlers) /\ called' = [called EXCEPT ![i] = d]
          /\ work'[w].i = i /\ work'[w].todo = IF Head(s) \in Failing THEN << >> ELSE Tail(s)
          /\ work[w].pc = "call" /\ work'[w].pc = "call" /\ work'[w].ev = work[w].ev
        BY <1>0, <1>6, CallMoves
    <2>2. UNCHANGED <<registered, input, disp>> /\ called \in [Ids -> Seq(Handlers)]
        BY <1>0, <1>6 DEF CallHandler, message, TypeOK
    <2>3. \A h \in ToSet(s) : Known(registered, h, work[w].ev)
        BY <2>1 DEF ForeignOK
    <2> HIDE DEF i, s, c
    <2>4. /\ ToSet(s) = {Head(s)} \cup ToSet(Tail(s))
          /\ ToSet(d) = ToSet(c) \cup {Head(s)}
        BY <2>1, ElementsHead, ElementsAppend
    <2> HIDE DEF d
    <2>5. called'[i] = d /\ \A j \in Ids : j # i => called'[j] = called[j]
        BY <2>1, <2>2
    <2>6. \A h \in ToSet(work'[w].todo) : Known(registered, h, work[w].ev)
        BY <2>1, <2>3, <2>4, ElementsEmpty
    <2>7. \A j \in Ids : \A h \in ToSet(called'[j]) :
            h \in ToSet(called[j]) \/ (j = i /\ Known(registered, h, work[w].ev))
        BY <2>3, <2>4, <2>5 DEF c
    <2>8. Busy(work[w]) /\ Busy(work'[w]) /\ Worker(w)
        BY <1>6, <2>1 DEF Busy, Worker
    <2> QED BY <1>3, <2>1, <2>2, <2>6, <2>7, <2>8 DEF i
<1>7. ASSUME NEW w \in Workers, Finish(w) PROVE ForeignOK'
    <2>1. /\ UNCHANGED <<registered, input, disp, called>> /\ work'[w].pc = "idle"
          /\ work[w].pc = "call"
        BY <1>0, <1>7, FinishMoves, IdleTask DEF Finish, message
    <2> QED BY <1>3, <1>7, <2>1 DEF Worker, Busy
<1>8. ASSUME NEW w \in Workers, Worker(w) PROVE ForeignOK'
    BY <1>4, <1>5, <1>6, <1>7, <1>8 DEF Worker
<1> QED BY <1>0, <1>1, <1>2, <1>8, PlatformStep DEF Next

\* A payload that names another AGV reaches no handler of its channel, only
\* those of EventDecodeFailed, and leaves no trace in the policy.
THEOREM ForeignLeavesNoTrace == Spec => []ForeignIgnored
<1>1. Init => Base /\ ForeignOK
    <2> SUFFICES ASSUME Init PROVE Base /\ ForeignOK
        OBVIOUS
    <2>1. \A w \in Workers : work[w].pc = "idle"
        BY IdleTask DEF Init
    <2>2. \A i \in Ids : input[i] = None
        BY DEF Init
    <2> QED BY <2>1, <2>2, BaseInit DEF ForeignOK, Foreign, Busy
<1>2. (Base /\ ForeignOK) /\ [Next]_vars => (Base /\ ForeignOK)'
    BY BaseStep, ForeignStep
<1>3. Base /\ ForeignOK => ForeignIgnored
    <2> SUFFICES ASSUME Base, ForeignOK, NEW i \in 1 .. n, input[i] # None, StrictIdentity,
                        input[i].hasHeader, input[i].mfr = "other" \/ input[i].sn = "other"
                 PROVE  /\ disp[i] = ""
                        /\ \A h \in ToSet(called[i]) :
                             <<h, "decode", "Subscribe">> \in ToSet(registered)
        BY DEF ForeignIgnored
    <2>1. i \in Ids /\ "decode" \notin Channels
        BY TypeFacts DEF Base, Ids
    <2>2. Foreign(input[i])
        BY DEF Foreign, NamesAnother
    <2> QED BY <2>1, <2>2 DEF ForeignOK, Known
<1> QED BY <1>1, <1>2, <1>3, PTL DEF Spec

-----------------------------------------------------------------------------
(***************************************************************************)
(* The header policy.                                                      *)
(***************************************************************************)
LEMMA SeenIds ==
    ASSUME TypeOK
    PROVE  1 .. n \subseteq Ids
BY TypeFacts DEF Ids

LEMMA EarlierIds ==
    ASSUME NEW m \in Nat, NEW i \in 1 .. m
    PROVE  i - 1 \in Nat /\ 1 .. i - 1 \subseteq 1 .. m /\ 1 .. m \subseteq 1 .. m + 1
OBVIOUS

LEMMA SaysPast ==
    ASSUME NEW x, NEW hid, NEW a, NEW inp, NEW inp2, \A j \in a : inp2[j] = inp[j],
           Says(x, hid, a, inp)
    PROVE  Says(x, hid, a, inp2)
BY DEF Says

LEMMA WatermarkPast ==
    ASSUME NEW l, NEW a, NEW inp, NEW inp2, \A j \in a : inp2[j] = inp[j],
           Watermark(l, a, inp)
    PROVE  Watermark(l, a, inp2)
BY DEF Watermark

\* Classify compares with the watermark only, which stands for all that was
\* accepted.
LEMMA ClassifySays ==
    ASSUME NEW l \in Nat \cup {None}, NEW hid \in Nat, NEW a, NEW inp,
           \A j \in a : inp[j].headerId \in Nat, Watermark(l, a, inp), None \notin Nat
    PROVE  Says(Classify(l, hid).disp, hid, a, inp)
<1>1. CASE l = None
    BY <1>1 DEF Watermark, Classify, Says
<1>2. CASE l \in Nat
    <2>1. l # None /\ \A j \in a : inp[j].headerId <= l
        BY <1>2 DEF Watermark
    <2>2. PICK j \in a : inp[j].headerId = l
        BY <1>2 DEF Watermark
    <2>3. CASE hid > l
        <3>1. Classify(l, hid).disp = "accept"
            BY <2>3 DEF Classify
        <3>2. \A i \in a : hid > inp[i].headerId
            BY <1>2, <2>1, <2>3
        <3> QED BY <3>1, <3>2 DEF Says
    <2>4. CASE hid = l
        <3>1. Classify(l, hid).disp = "duplicate"
            BY <1>2, <2>1, <2>4 DEF Classify
        <3>2. /\ \A i \in a : ~(hid < inp[i].headerId)
              /\ ~(hid > inp[j].headerId)
            BY <1>2, <2>1, <2>2, <2>4
        <3> QED BY <3>1, <3>2 DEF Says
    <2>5. CASE hid < l
        <3>1. Classify(l, hid).disp = "stale"
            BY <1>2, <2>1, <2>5 DEF Classify
        <3> QED BY <2>2, <2>5, <3>1 DEF Says
    <2> QED BY <1>2, <2>3, <2>4, <2>5
<1> QED BY <1>1, <1>2

\* The watermark goes with what is accepted.
LEMMA ClassifyMarks ==
    ASSUME NEW l \in Nat \cup {None}, NEW hid \in Nat, NEW a, NEW inp, NEW i, i \notin a,
           inp[i].headerId = hid, None \notin Nat,
           \A j \in a : inp[j].headerId \in Nat, Watermark(l, a, inp)
    PROVE  /\ Classify(l, hid).disp = "accept" =>
                Watermark(Classify(l, hid).last, a \cup {i}, inp)
           /\ Classify(l, hid).disp # "accept" => Watermark(Classify(l, hid).last, a, inp)
<1> DEFINE c == Classify(l, hid)
<1>1. CASE c.disp = "accept"
    <2>1. c.last = hid /\ (l # None => hid > l)
        BY <1>1, ClassifyTypes
    <2>2. \A j \in a : inp[j].headerId <= hid
        <3>1. CASE l = None
            BY <3>1 DEF Watermark
        <3>2. CASE l # None
            BY <2>1, <3>2 DEF Watermark
        <3> QED BY <3>1, <3>2
    <2>3. hid # None /\ \A j \in a \cup {i} : inp[j].headerId <= hid
        BY <2>2
    <2> QED BY <1>1, <2>1, <2>3 DEF Watermark
<1>2. CASE c.disp # "accept"
    BY <1>2, ClassifyTypes
<1> QED BY <1>1, <1>2

\* The messages go on, the dispositions and the policy are as they were.
LEMMA PolicyKeeps ==
    ASSUME Base, PolicyOK, n < MaxMsgs, n' = n + 1, last' = last,
           \A j \in 1 .. n : disp'[j] = disp[j] /\ input'[j] = input[j],
           disp'[n + 1] = ""
    PROVE  PolicyOK'
<1>0. n \in Nat /\ 1 .. n + 1 = (1 .. n) \cup {n + 1}
    BY TypeFacts, NextId DEF Base
<1>1. ASSUME NEW i \in 1 .. n', disp'[i] # ""
      PROVE  input'[i] \in Inputs /\ Sound(disp', input', i)
    <2>1. i \in 1 .. n /\ i - 1 \in Nat /\ 1 .. i - 1 \subseteq 1 .. n
        <3>1. i \in 1 .. n
            BY <1>0, <1>1
        <3> QED BY <1>0, <3>1, EarlierIds
    <2>2. input'[i] = input[i] /\ disp'[i] = disp[i] /\ input[i] \in Inputs /\ Sound(disp, input, i)
        BY <1>1, <2>1 DEF PolicyOK
    <2> DEFINE k == <<input[i].agv, input[i].ch>>
               a == Accepted(disp, input, i - 1, k)
    <2>3. Accepted(disp', input', i - 1, k) = a
        <3>1. \A j \in 1 .. i - 1 : disp'[j] = disp[j] /\ input'[j] = input[j]
            BY <2>1
        <3> QED BY <3>1 DEF Accepted
    <2>4. a \subseteq 1 .. n
        BY <2>1 DEF Accepted
    <2>5. Says(disp[i], input[i].headerId, a, input)
        BY <2>2 DEF Sound
    <2> HIDE DEF a, k
    <2>6. Says(disp[i], input[i].headerId, a, input')
        BY <2>4, <2>5, SaysPast
    <2> QED BY <2>2, <2>3, <2>6 DEF Sound, k
<1>2. ASSUME NEW k \in AGVs \X Channels
      PROVE  Watermark(last'[k], Accepted(disp', input', n', k), input')
    <2> DEFINE a == Accepted(disp, input, n, k)
    <2>1. Accepted(disp', input', n, k) = a
        BY DEF Accepted
    <2>2. Accepted(disp', input', n + 1, k) = a
        BY <1>0, <2>1 DEF Accepted
    <2>3. a \subseteq 1 .. n
        BY DEF Accepted
    <2>4. Watermark(last[k], a, input)
        BY DEF PolicyOK
    <2> HIDE DEF a
    <2>5. Watermark(last[k], a, input')
        BY <2>3, <2>4, WatermarkPast
    <2> QED BY <2>2, <2>5
<1> QED BY <1>1, <1>2 DEF PolicyOK

\* A message is classified.
LEMMA PolicyClassifies ==
    ASSUME Base, PolicyOK, NEW m \in Inputs, n < MaxMsgs, n' = n + 1,
           <<m.agv, m.ch>> \in AGVs \X Channels, m.headerId \in Nat,
           input' = [input EXCEPT ![n + 1] = m],
           disp' = [disp EXCEPT ![n + 1] = Classify(last[<<m.agv, m.ch>>], m.headerId).disp],
           last' = [last EXCEPT ![<<m.agv, m.ch>>] =
                      Classify(last[<<m.agv, m.ch>>], m.headerId).last]
    PROVE  PolicyOK'
<1> DEFINE q == <<m.agv, m.ch>>
           c == Classify(last[q], m.headerId)
<1>0. /\ n \in Nat /\ 1 .. n + 1 = (1 .. n) \cup {n + 1} /\ n + 1 \in Ids /\ n + 1 \notin 1 .. n
      /\ 1 .. n \subseteq Ids /\ None \notin Nat
    BY TypeFacts, NextId DEF Base
<1>1. /\ input'[n + 1] = m /\ disp'[n + 1] = c.disp /\ last'[q] = c.last
      /\ \A j \in 1 .. n : disp'[j] = disp[j] /\ input'[j] = input[j]
      /\ \A k \in AGVs \X Channels : k # q => last'[k] = last[k]
      /\ last[q] \in Nat \cup {None}
    BY <1>0 DEF Base, TypeOK
<1>2. /\ q \in AGVs \X Channels /\ q[1] = m.agv /\ q[2] = m.ch
      /\ \A k \in AGVs \X Channels : k[1] = m.agv /\ k[2] = m.ch => k = q
    OBVIOUS
<1> HIDE DEF q
<1>3. ASSUME NEW k
      PROVE  LET a == Accepted(disp, input, n, k) IN
             /\ Accepted(disp', input', n, k) = a /\ a \subseteq 1 .. n
             /\ \A j \in a : input'[j] = input[j] /\ input[j].headerId \in Nat
    <2> DEFINE a == Accepted(disp, input, n, k)
    <2>1. Accepted(disp', input', n, k) = a
        BY <1>1 DEF Accepted
    <2>2. a \subseteq 1 .. n /\ \A j \in a : disp[j] = "accept"
        BY DEF Accepted
    <2>3. \A j \in a : input[j] \in Inputs
        BY <2>2 DEF PolicyOK
    <2>4. \A x \in Inputs : x.headerId \in Nat
        BY ConstantsAssumption DEF AllInputs
    <2> HIDE DEF a
    <2>5. \A j \in a : input'[j] = input[j] /\ input[j].headerId \in Nat
        BY <1>1, <2>2, <2>3, <2>4
    <2> QED BY <2>1, <2>2, <2>5 DEF a
<1> DEFINE a == Accepted(disp, input, n, q)
<1>4. /\ Accepted(disp', input', n, q) = a /\ a \subseteq 1 .. n /\ n + 1 \notin a
      /\ \A j \in a : input'[j] = input[j] /\ input'[j].headerId \in Nat
    BY <1>0, <1>3
<1>5. Watermark(last[q], a, input')
    <2>1. Watermark(last[q], a, input)
        BY <1>2 DEF PolicyOK
    <2> HIDE DEF a
    <2> QED BY <1>4, <2>1, WatermarkPast, ZenonT(60)
<1>6. Says(c.disp, m.headerId, a, input')
    <2> HIDE DEF a
    <2> QED BY <1>0, <1>1, <1>4, <1>5, ClassifySays
<1>7. /\ c.disp = "accept" => Watermark(c.last, a \cup {n + 1}, input')
      /\ c.disp # "accept" => Watermark(c.last, a, input')
    <2> HIDE DEF a
    <2>1. input'[n + 1].headerId = m.headerId /\ m.headerId \in Nat
        BY <1>1
    <2>2. \A j \in a : input'[j].headerId \in Nat
        BY <1>4
    <2> QED BY <1>0, <1>1, <1>4, <1>5, <2>1, <2>2, ClassifyMarks, ZenonT(60)
<1> HIDE DEF c
<1>8. ASSUME NEW i \in 1 .. n', disp'[i] # ""
      PROVE  input'[i] \in Inputs /\ Sound(disp', input', i)
    <2>1. CASE i = n + 1
        <3>1. i - 1 = n /\ input'[i] = m /\ disp'[i] = c.disp
            BY <1>0, <1>1, <2>1
        <3> HIDE DEF a
        <3>2. Says(disp'[i], input'[i].headerId, Accepted(disp', input', i - 1, q), input')
            BY <1>4, <1>6, <3>1
        <3> QED BY <3>1, <3>2 DEF Sound, q
    <2>2. CASE i # n + 1
        <3>1. i \in 1 .. n /\ i - 1 \in Nat /\ 1 .. i - 1 \subseteq 1 .. n
            <4>1. i \in 1 .. n
                BY <1>0, <1>8, <2>2
            <4> QED BY <1>0, <4>1, EarlierIds
        <3>2. input'[i] = input[i] /\ disp'[i] = disp[i] /\ input[i] \in Inputs /\ Sound(disp, input, i)
            BY <1>1, <1>8, <3>1 DEF PolicyOK
        <3> DEFINE k == <<input[i].agv, input[i].ch>>
                   b == Accepted(disp, input, i - 1, k)
        <3>3. Accepted(disp', input', i - 1, k) = b
            <4>1. \A j \in 1 .. i - 1 : disp'[j] = disp[j] /\ input'[j] = input[j]
                BY <1>1, <3>1
            <4> QED BY <4>1 DEF Accepted
        <3>4. b \subseteq 1 .. n
            BY <3>1 DEF Accepted
        <3>5. Says(disp[i], input[i].headerId, b, input)
            BY <3>2 DEF Sound
        <3> HIDE DEF b, k
        <3>6. Says(disp[i], input[i].headerId, b, input')
            <4>1. \A j \in b : input'[j] = input[j]
                BY <1>1, <3>4
            <4> QED BY <3>5, <4>1, SaysPast
        <3> QED BY <3>2, <3>3, <3>6 DEF Sound, k
    <2> QED BY <2>1, <2>2
<1>9. ASSUME NEW k \in AGVs \X Channels
      PROVE  Watermark(last'[k], Accepted(disp', input', n', k), input')
    <2>1. CASE k = q
        <3>1. c.disp = "accept" => Accepted(disp', input', n + 1, q) = a \cup {n + 1}
            BY <1>0, <1>1, <1>2, <1>4 DEF Accepted
        <3>2. c.disp # "accept" => Accepted(disp', input', n + 1, q) = a
            BY <1>0, <1>1, <1>4 DEF Accepted
        <3> HIDE DEF a
        <3> QED BY <1>1, <1>7, <2>1, <3>1, <3>2
    <2>2. CASE k # q
        <3> DEFINE b == Accepted(disp, input, n, k)
        <3>1. /\ Accepted(disp', input', n, k) = b
              /\ \A j \in b : input'[j] = input[j]
            BY <1>3
        <3>2. ~(m.agv = k[1] /\ m.ch = k[2])
            BY <1>2, <2>2
        <3>3. Accepted(disp', input', n + 1, k) = b
            BY <1>0, <1>1, <3>1, <3>2 DEF Accepted
        <3>4. Watermark(last[k], b, input) /\ last'[k] = last[k]
            BY <1>1, <2>2 DEF PolicyOK
        <3> HIDE DEF b
        <3>5. Watermark(last[k], b, input')
            BY <3>1, <3>4, WatermarkPast, ZenonT(60)
        <3> QED BY <3>3, <3>4, <3>5
    <2> QED BY <2>1, <2>2
<1> QED BY <1>8, <1>9 DEF PolicyOK

LEMMA PolicyStep ==
    ASSUME Base, PolicyOK, [Next]_vars
    PROVE  PolicyOK'
<1>0. TypeOK /\ WorkOK
    BY DEF Base
<1>1. ASSUME UNCHANGED <<n, input, disp, last>> PROVE PolicyOK'
    BY <1>1 DEF PolicyOK
<1>2. ASSUME UNCHANGED message PROVE PolicyOK'
    BY <1>1, <1>2 DEF message
<1>3. ASSUME NEW w \in Workers, Emit(w) PROVE PolicyOK'
    <2>1. n < MaxMsgs /\ n' = n + 1 /\ UNCHANGED <<input, disp, last>>
        BY <1>3 DEF Emit
    <2>2. disp[n + 1] = ""
        BY <1>0, <2>1, NextId DEF WorkOK
    <2> QED BY <2>1, <2>2, PolicyKeeps
<1>4. ASSUME NEW w \in Workers, NEW m \in Inputs, Receive(w, m) PROVE PolicyOK'
    <2>1. CASE Classified(m)
        BY <1>0, <1>4, <2>1, ReceiveNotes, PolicyClassifies
    <2>2. CASE ~Classified(m)
        <3>1. /\ n < MaxMsgs /\ n' = n + 1 /\ UNCHANGED <<disp, last>>
              /\ input' = [input EXCEPT ![n + 1] = m]
            BY <1>0, <1>4, <2>2, ReceiveNotes
        <3>2. /\ disp[n + 1] = "" /\ n + 1 \notin 1 .. n /\ 1 .. n \subseteq Ids
            BY <1>0, <3>1, NextId DEF WorkOK
        <3>3. \A j \in 1 .. n : input'[j] = input[j]
            BY <1>0, <3>1, <3>2 DEF TypeOK
        <3> QED BY <3>1, <3>2, <3>3, PolicyKeeps
    <2> QED BY <2>1, <2>2
<1>5. ASSUME NEW w \in Workers, Worker(w) PROVE PolicyOK'
    BY <1>2, <1>5 DEF Worker, Invoke, Publish, CallHandler, Finish
<1> QED BY <1>0, <1>2, <1>3, <1>4, <1>5, PlatformStep DEF Next

\* HeaderSequencePolicy: each disposition is what the messages accepted for
\* its AGV and channel say, though the policy remembers one number of them.
THEOREM PolicyCorrect == Spec => []DispositionSound
<1>1. Init => Base /\ PolicyOK
    <2> SUFFICES ASSUME Init PROVE Base /\ PolicyOK
        OBVIOUS
    <2>0. 1 .. 0 = {}
        OBVIOUS
    <2>1. n = 0 /\ \A k \in AGVs \X Channels : last[k] = None
        BY DEF Init
    <2>2. \A k : Accepted(disp, input, 0, k) = {}
        BY <2>0 DEF Accepted
    <2> QED BY <2>0, <2>1, <2>2, BaseInit DEF PolicyOK, Watermark
<1>2. (Base /\ PolicyOK) /\ [Next]_vars => (Base /\ PolicyOK)'
    BY BaseStep, PolicyStep
<1>3. Base /\ PolicyOK => DispositionSound
    <2> SUFFICES ASSUME Base, PolicyOK, NEW i \in 1 .. n, disp[i] # ""
                 PROVE  LET before == {j \in 1 .. i - 1 :
                                         /\ disp[j] = "accept"
                                         /\ input[j].agv = input[i].agv
                                         /\ input[j].ch = input[i].ch}
                            Above(j) == input[i].headerId > input[j].headerId
                            Below(j) == input[i].headerId < input[j].headerId
                        IN  CASE disp[i] = "accept"    -> \A j \in before : Above(j)
                              [] disp[i] = "stale"     -> \E j \in before : Below(j)
                              [] disp[i] = "duplicate" -> /\ \A j \in before : ~Below(j)
                                                          /\ \E j \in before : ~Above(j)
        BY DEF DispositionSound
    <2> DEFINE a == {j \in 1 .. i - 1 : /\ disp[j] = "accept"
                                        /\ input[j].agv = input[i].agv
                                        /\ input[j].ch = input[i].ch}
    <2>1. i \in Ids
        BY SeenIds DEF Base
    <2>2. disp[i] \in {"accept", "stale", "duplicate"}
        BY <2>1 DEF Base, TypeOK
    <2>3. a = Accepted(disp, input, i - 1, <<input[i].agv, input[i].ch>>)
        BY DEF Accepted
    <2>4. Sound(disp, input, i)
        BY DEF PolicyOK
    <2> HIDE DEF a
    <2>5. Says(disp[i], input[i].headerId, a, input)
        BY <2>3, <2>4 DEF Sound
    <2>6. CASE disp[i] = "accept"
        BY <2>5, <2>6 DEF Says, a
    <2>7. CASE disp[i] = "stale"
        BY <2>5, <2>7 DEF Says, a
    <2>8. CASE disp[i] = "duplicate"
        BY <2>5, <2>8 DEF Says, a
    <2> QED BY <2>2, <2>6, <2>7, <2>8
<1> QED BY <1>1, <1>2, <1>3, PTL DEF Spec

-----------------------------------------------------------------------------
(***************************************************************************)
(* Nobody is missed, if no handler returns an error, there is one bus, and *)
(* the client is not started again after Stop.                             *)
(***************************************************************************)
\* Only handlers that are not owed anything any more go off the lists.
LEMMA OwedKept ==
    ASSUME Base, OwedOK, NEW gone,
           UNCHANGED <<phase, starts, stopUnsubs, work, called, fate>>,
           \A i \in Ids : owed'[i] \subseteq owed[i] \ gone,
           \A e \in Events : Listed(bus, subs, direct, e)
                               \subseteq Listed(bus', subs', direct', e) \cup gone,
           \A b \in Buses, e \in Events :
             ToSet(subs[b][e]) \subseteq ToSet(subs'[b][e]) \cup gone,
           starts = 0 \/ phase = "started" =>
             \A e \in Events : Registered(e)' \subseteq Listed(bus', subs', direct', e)
    PROVE  OwedOK'
<1>0. TypeOK /\ WorkOK /\ work \in [Workers -> Tasks]
    BY TypeFacts DEF Base
<1>1. ASSUME NEW w \in Workers, Busy(work[w])
      PROVE  Reaches(work[w], owed'[work[w].i], called[work[w].i], bus', subs', direct')
    <2>1. work[w].i \in Ids /\ work[w].ev \in Events
        BY <1>0, <1>1, BusyId DEF Tasks
    <2>2. work[w].pc = "publish" => work[w].b \in Buses
        BY <1>0 DEF WorkOK
    <2>3. Reaches(work[w], owed[work[w].i], called[work[w].i], bus, subs, direct)
        BY <1>1 DEF OwedOK
    <2>4. owed'[work[w].i] \subseteq owed[work[w].i] \ gone
        BY <2>1
    <2>5. work[w].pc = "invoke" =>
            owed'[work[w].i] \subseteq Listed(bus', subs', direct', work[w].ev)
        BY <2>1, <2>3, <2>4 DEF Reaches
    <2>6. work[w].pc = "publish" =>
            owed'[work[w].i] \subseteq ToSet(subs'[work[w].b][work[w].ev])
        BY <2>1, <2>2, <2>3, <2>4 DEF Reaches
    <2>7. work[w].pc = "call" =>
            owed'[work[w].i] \subseteq ToSet(called[work[w].i]) \cup ToSet(work[w].todo)
        BY <2>3, <2>4 DEF Reaches
    <2> QED BY <2>5, <2>6, <2>7 DEF Reaches
<1>2. AllListed'
    BY DEF OwedOK, AllListed
<1>3. NobodyMissed'
    BY DEF OwedOK, NobodyMissed
<1>4. phase # "started" => \A i \in Ids : fate[i] = "running" => owed'[i] = {}
    BY DEF OwedOK
<1> QED BY <1>1, <1>2, <1>3, <1>4 DEF OwedOK

LEMMA RegisteredMore ==
    ASSUME TypeOK, NEW h \in Handlers, NEW e \in Events, NEW c \in Calls,
           registered' = Append(registered, <<h, e, c>>), removed' = removed
    PROVE  \A f \in Events : Registered(f)' \subseteq Registered(f) \cup (IF f = e THEN {h} ELSE {})
<1>1. ToSet(registered') = ToSet(registered) \cup {<<h, e, c>>}
    BY RegisterTypes, TypeFacts, ElementsAppend, SMTT(30)
<1> QED BY <1>1 DEF Registered

\* A handler is registered, and its list gets it.
LEMMA RegisterOwed ==
    ASSUME Base, OwedOK, NEW h \in Handlers, NEW e \in Events, NEW c \in Calls,
           registered' = Append(registered, <<h, e, c>>), removed' = removed,
           UNCHANGED <<phase, starts, stopUnsubs, work, called, fate, owed>>,
           \A f \in Events : Listed(bus, subs, direct, f) \subseteq Listed(bus', subs', direct', f),
           h \in Listed(bus', subs', direct', e),
           \A b \in Buses, f \in Events : ToSet(subs[b][f]) \subseteq ToSet(subs'[b][f])
    PROVE  OwedOK'
<1>1. ASSUME starts = 0 \/ phase = "started", NEW f \in Events
      PROVE  Registered(f)' \subseteq Listed(bus', subs', direct', f)
    <2>1. Registered(f)' \subseteq Registered(f) \cup (IF f = e THEN {h} ELSE {})
        BY RegisteredMore DEF Base
    <2>2. Registered(f) \subseteq Listed(bus, subs, direct, f)
        BY <1>1 DEF OwedOK, AllListed
    <2> QED BY <2>1, <2>2
<1>2. /\ \A i \in Ids : owed'[i] \subseteq owed[i] \ {}
      /\ \A f \in Events : Listed(bus, subs, direct, f)
                             \subseteq Listed(bus', subs', direct', f) \cup {}
      /\ \A b \in Buses, f \in Events : ToSet(subs[b][f]) \subseteq ToSet(subs'[b][f]) \cup {}
    OBVIOUS
<1> QED BY <1>1, <1>2, OwedKept

LEMMA BusGrows ==
    ASSUME TypeOK, NEW h \in Handlers, NEW e \in Events, bus \in Buses, bus # None, bus' = bus,
           ListBecomes(bus, e, Append(subs[bus][e], h))
    PROVE  /\ \A f \in Events : Listed(bus, subs, direct, f) \subseteq Listed(bus', subs', direct', f)
           /\ h \in Listed(bus', subs', direct', e)
           /\ \A b \in Buses, f \in Events : ToSet(subs[b][f]) \subseteq ToSet(subs'[b][f])
<1>1. ToSet(subs'[bus][e]) = ToSet(subs[bus][e]) \cup {h}
    BY TypeFacts, ElementsAppend DEF ListBecomes
<1>2. \A b \in Buses, f \in Events : ToSet(subs[b][f]) \subseteq ToSet(subs'[b][f])
    <2> SUFFICES ASSUME NEW b \in Buses, NEW f \in Events
                 PROVE  ToSet(subs[b][f]) \subseteq ToSet(subs'[b][f])
        OBVIOUS
    <2>1. CASE b = bus /\ f = e
        BY <1>1, <2>1
    <2>2. CASE b # bus \/ f # e
        BY <2>2 DEF ListBecomes
    <2> QED BY <2>1, <2>2
<1> QED BY <1>1, <1>2 DEF Listed

LEMMA PlatformOwed ==
    ASSUME Base, OwedOK, NEW h \in Handlers,
           \/ \E ch \in Channels : On(h, ch)
           \/ \E e \in Events : Subscribe(h, e)
    PROVE  OwedOK'
<1>0. TypeOK /\ ListsOK
    BY DEF Base
<1>1. ASSUME NEW e \in Events, Subscribe(h, e) PROVE OwedOK'
    <2>1. /\ "Subscribe" \in Calls /\ bus # None /\ bus' = bus /\ bus \in Buses
          /\ registered' = Append(registered, <<h, e, "Subscribe">>) /\ removed' = removed
          /\ UNCHANGED <<phase, starts, stopUnsubs, work, called, fate, owed>>
        BY <1>0, <1>1, TypeFacts DEF Subscribe, client
    <2>2. ListBecomes(bus, e, Append(subs[bus][e], h))
        BY <1>0, <1>1, AppendToBus DEF Subscribe
    <2> QED BY <1>0, <2>1, <2>2, BusGrows, RegisterOwed
<1>2. ASSUME NEW ch \in Channels, On(h, ch) PROVE OwedOK'
    <2>1. /\ "On" \in Calls /\ bus' = bus /\ ch \in Events
          /\ registered' = Append(registered, <<h, ch, "On">>) /\ removed' = removed
          /\ UNCHANGED <<phase, starts, stopUnsubs, work, called, fate, owed>>
        BY <1>0, <1>2, TypeFacts DEF On, client
    <2>2. CASE bus # None
        <3>1. bus \in Buses /\ ListBecomes(bus, ch, Append(subs[bus][ch], h))
            BY <1>0, <1>2, <2>2, OnLists, TypeFacts
        <3> QED BY <1>0, <2>1, <2>2, <3>1, BusGrows, RegisterOwed
    <2>3. CASE bus = None
        <3>1. /\ direct'[ch] = Append(direct[ch], h) /\ subs' = subs
              /\ direct[ch] \in Seq(Handlers)
              /\ \A c \in Channels : c # ch => direct'[c] = direct[c]
            BY <1>0, <1>2, <2>3, OnLists, TypeFacts
        <3>2. ToSet(direct'[ch]) = ToSet(direct[ch]) \cup {h}
            BY <3>1, ElementsAppend
        <3>3. /\ \A f \in Events : Listed(bus, subs, direct, f)
                                     \subseteq Listed(bus', subs', direct', f)
              /\ h \in Listed(bus', subs', direct', ch)
            BY <2>1, <2>3, <3>1, <3>2 DEF Listed
        <3> QED BY <2>1, <3>1, <3>3, RegisterOwed
    <2> QED BY <2>2, <2>3
<1> QED BY <1>1, <1>2

LEMMA UnsubscribeOwed ==
    ASSUME Base, OwedOK, NEW b \in Buses, NEW e \in Events, NEW h \in Handlers,
           Unsubscribe(b, e, h)
    PROVE  OwedOK'
<1>0. TypeOK
    BY DEF Base
<1>1. /\ UNCHANGED <<phase, starts, stopUnsubs, bus, direct, work, called, fate, registered>>
      /\ \A i \in Ids : owed'[i] = owed[i] \ {h}
      /\ removed' = removed \cup {h}
    BY DEF Unsubscribe, client
<1>2. /\ ListBecomes(b, e, Without(subs[b][e], h))
      /\ ToSet(subs[b][e]) \subseteq ToSet(Without(subs[b][e], h)) \cup {h}
    BY <1>0, RemoveTypes, TypeFacts, WithoutElements
<1>3. \A c \in Buses, f \in Events : ToSet(subs[c][f]) \subseteq ToSet(subs'[c][f]) \cup {h}
    <2> SUFFICES ASSUME NEW c \in Buses, NEW f \in Events
                 PROVE  ToSet(subs[c][f]) \subseteq ToSet(subs'[c][f]) \cup {h}
        OBVIOUS
    <2>1. CASE c = b /\ f = e
        BY <1>2, <2>1 DEF ListBecomes
    <2>2. CASE c # b \/ f # e
        BY <1>2, <2>2 DEF ListBecomes
    <2> QED BY <2>1, <2>2
<1>4. \A f \in Events : Listed(bus, subs, direct, f)
                          \subseteq Listed(bus', subs', direct', f) \cup {h}
    BY <1>0, <1>1, <1>3, TypeFacts DEF Listed
<1>5. ASSUME starts = 0 \/ phase = "started", NEW f \in Events
      PROVE  Registered(f)' \subseteq Listed(bus', subs', direct', f)
    <2>1. Registered(f)' = Registered(f) \ {h}
        BY <1>1 DEF Registered
    <2>2. Registered(f) \subseteq Listed(bus, subs, direct, f)
        BY <1>5 DEF OwedOK, AllListed
    <2> QED BY <1>4, <2>1, <2>2
<1>6. \A i \in Ids : owed'[i] \subseteq owed[i] \ {h}
    BY <1>1
<1> QED BY <1>1, <1>3, <1>4, <1>5, <1>6, OwedKept

\* The lists move to the only bus, or are there.
LEMMA BusOwed ==
    ASSUME Base, OwedOK, NEW b, Buses = {b}, UseEventBus(b)
    PROVE  OwedOK'
<1>0. TypeOK /\ ListsOK
    BY DEF Base
<1>1. UNCHANGED <<phase, starts, stopUnsubs, work, called, fate, owed, registered, removed>>
    BY DEF UseEventBus, client
<1>2. /\ \A e \in Events : Listed(bus, subs, direct, e)
                             \subseteq Listed(bus', subs', direct', e)
      /\ \A c \in Buses, e \in Events : ToSet(subs[c][e]) \subseteq ToSet(subs'[c][e])
    <2>1. CASE bus # None
        <3>1. bus' = bus /\ \A c \in Buses, e \in Events : subs'[c][e] = subs[c][e]
            BY <1>0, <2>1, MigratedLists, TypeFacts
        <3> QED BY <1>0, <2>1, <3>1, TypeFacts DEF Listed
    <2>2. CASE bus = None
        <3>1. /\ bus' = b /\ b # None /\ \A ch \in Channels : subs'[b][ch] = direct[ch]
            BY <1>0, <2>2, MigratedLists
        <3>2. \A c \in Buses, e \in Events : ToSet(subs[c][e]) = {}
            BY <1>0, <2>2, ElementsEmpty DEF ListsOK
        <3> QED BY <2>2, <3>1, <3>2 DEF Listed
    <2> QED BY <2>1, <2>2
<1>3. ASSUME starts = 0 \/ phase = "started", NEW f \in Events
      PROVE  Registered(f)' \subseteq Listed(bus', subs', direct', f)
    <2>1. Registered(f)' = Registered(f)
        BY <1>1 DEF Registered
    <2>2. Registered(f) \subseteq Listed(bus, subs, direct, f)
        BY <1>3 DEF OwedOK, AllListed
    <2> QED BY <1>2, <2>1, <2>2
<1>4. /\ \A i \in Ids : owed'[i] \subseteq owed[i] \ {}
      /\ \A e \in Events : Listed(bus, subs, direct, e)
                             \subseteq Listed(bus', subs', direct', e) \cup {}
      /\ \A c \in Buses, e \in Events : ToSet(subs[c][e]) \subseteq ToSet(subs'[c][e]) \cup {}
    BY <1>1, <1>2
<1> QED BY <1>1, <1>3, <1>4, OwedKept


\* Once Stop has begun nothing is owed for the messages that are being handled.
LEMMA StopOwed ==
    ASSUME Base, OwedOK, MaxStarts = 1,
           \/ Start \/ StopLock \/ StopTransport \/ StopEnd
           \/ \E b \in Buses, e \in Events, h \in Handlers : StopUnsubscribe(b, e, h)
    PROVE  OwedOK'
<1>0. TypeOK /\ WorkOK /\ starts \in 0 .. MaxStarts
    BY DEF Base, TypeOK
\* Nothing is owed after the step.
<1>1. ASSUME UNCHANGED <<work, called, fate>>, starts' # 0, phase' # "started",
             \A i \in Ids : owed'[i] = IF fate[i] = "running" THEN {} ELSE owed[i]
      PROVE  OwedOK'
    <2>1. ASSUME NEW w \in Workers, Busy(work[w])
          PROVE  Reaches(work[w], owed'[work[w].i], called[work[w].i], bus', subs', direct')
        <3>1. work[w].i \in Ids /\ fate[work[w].i] = "running"
            BY <1>0, <2>1, BusyId
        <3>2. owed'[work[w].i] = {}
            BY <1>1, <3>1
        <3> QED BY <3>2 DEF Reaches
    <2>2. NobodyMissed'
        <3> SUFFICES ASSUME NEW i \in Ids, fate[i] \in {"done", "decode"}
                     PROVE  owed'[i] \subseteq ToSet(called[i])
            BY <1>1 DEF NobodyMissed
        <3>1. owed'[i] = owed[i]
            BY <1>1
        <3> QED BY <3>1 DEF OwedOK, NobodyMissed
    <2>3. AllListed'
        BY <1>1 DEF AllListed
    <2> QED BY <1>1, <2>1, <2>2, <2>3 DEF OwedOK
<1>2. CASE StopLock
    <2>1. /\ UNCHANGED <<work, called, fate>> /\ starts' # 0 /\ phase' # "started"
          /\ \A i \in Ids : owed'[i] = IF fate[i] = "running" THEN {} ELSE owed[i]
        BY <1>2 DEF StopLock, OwedOK
    <2> QED BY <1>1, <2>1
<1>3. ASSUME \/ StopTransport \/ StopEnd
             \/ \E b \in Buses, e \in Events, h \in Handlers : StopUnsubscribe(b, e, h)
      PROVE  OwedOK'
    <2>1. starts # 0 /\ phase # "started"
        BY <1>3 DEF StopTransport, StopEnd, StopUnsubscribe, OwedOK, AllListed
    <2>2. UNCHANGED <<work, called, fate, owed, starts>> /\ phase' # "started"
        BY <1>3, <2>1 DEF StopTransport, StopEnd, StopUnsubscribe
    <2>3. \A i \in Ids : owed'[i] = IF fate[i] = "running" THEN {} ELSE owed[i]
        BY <2>1, <2>2 DEF OwedOK
    <2> QED BY <1>1, <2>1, <2>2, <2>3
<1>4. CASE Start
    <2>1. /\ UNCHANGED <<stopUnsubs, bus, direct, subs, work, called, fate, owed,
                         registered, removed>>
          /\ phase = "stopped" /\ phase' = "started" /\ starts' = starts + 1
        BY <1>4 DEF Start, handlers
    <2>2. starts = 0 /\ starts' # 0
        BY <1>0, <1>4, <2>1 DEF Start
    <2>3. AllListed'
        BY <2>1, <2>2 DEF OwedOK, AllListed, Registered
    <2>4. NobodyMissed'
        BY <2>1 DEF OwedOK, NobodyMissed
    <2> QED BY <2>1, <2>2, <2>3, <2>4 DEF OwedOK
<1> QED BY <1>2, <1>3, <1>4

\* A message that arrives is owed to the handlers that are on its list.
LEMMA ArrivalOwed ==
    ASSUME Base, OwedOK, NEW w \in Workers, Emit(w) \/ \E m \in Inputs : Receive(w, m)
    PROVE  OwedOK'
<1>0. TypeOK /\ WorkOK
    BY DEF Base
<1>1. /\ UNCHANGED <<phase, starts, stopUnsubs, bus, direct, subs, called, registered, removed>>
      /\ n < MaxMsgs /\ fate' = [fate EXCEPT ![n + 1] = "running"]
      /\ work'[w].i = n + 1 /\ \E u : Moves(w, u)
    BY <1>0, ReceiveMoves, EmitMoves DEF Emit, Receive, client, handlers
<1>2. n + 1 \in Ids /\ n + 1 \notin 1 .. n
    BY <1>0, <1>1, NextId
<1>3. \E e \in Events :
        /\ owed' = [owed EXCEPT ![n + 1] = IF phase = "started" THEN Registered(e) ELSE {}]
        /\ \/ work'[w].pc = "invoke" /\ work'[w].ev = e
           \/ /\ work'[w].pc = "publish" /\ work'[w].ev = e
              /\ work'[w].b = bus /\ bus # None
    <2>1. CASE Emit(w)
        <3>1. "custom" \in Events /\ bus # None
            BY <1>0, <2>1, TypeFacts DEF Emit
        <3> QED BY <1>0, <2>1, <3>1, EmitMoves DEF Emit
    <2>2. ASSUME NEW m \in Inputs, Receive(w, m)
          PROVE  \E e \in Events :
                   /\ owed' = [owed EXCEPT ![n + 1] = IF phase = "started" THEN Registered(e)
                                                      ELSE {}]
                   /\ work'[w].pc = "invoke" /\ work'[w].ev = e
        <3> DEFINE e == IF Undecodable(m) THEN "decode" ELSE m.ch
        <3>1. m.ch \in Channels
            BY ConstantsAssumption DEF AllInputs
        <3>2. e \in Events
            BY <1>0, <3>1, TypeFacts
        <3>3. work'[w].pc = "invoke" /\ work'[w].ev = e
            BY <1>0, <2>2, ReceiveMoves
        <3>4. owed' = [owed EXCEPT ![n + 1] = IF phase = "started" THEN Registered(e) ELSE {}]
            BY <2>2 DEF Receive
        <3> HIDE DEF e
        <3> QED BY <3>2, <3>3, <3>4
    <2> QED BY <2>1, <2>2
<1>4. PICK e \in Events :
        /\ owed' = [owed EXCEPT ![n + 1] = IF phase = "started" THEN Registered(e) ELSE {}]
        /\ \/ work'[w].pc = "invoke" /\ work'[w].ev = e
           \/ /\ work'[w].pc = "publish" /\ work'[w].ev = e
              /\ work'[w].b = bus /\ bus # None
    BY <1>3
<1>5. /\ owed'[n + 1] = IF phase = "started" THEN Registered(e) ELSE {}
      /\ \A i \in Ids : i # n + 1 => owed'[i] = owed[i] /\ fate'[i] = fate[i]
      /\ fate'[n + 1] = "running"
    BY <1>0, <1>1, <1>2, <1>4 DEF TypeOK
<1>6. AllListed'
    BY <1>1 DEF OwedOK, AllListed, Registered
<1>7. NobodyMissed'
    <2> SUFFICES ASSUME NEW i \in Ids, fate'[i] \in {"done", "decode"}
                 PROVE  owed'[i] \subseteq ToSet(called[i])
        BY <1>1 DEF NobodyMissed
    <2>1. i # n + 1
        BY <1>5
    <2> QED BY <1>5, <2>1 DEF OwedOK, NobodyMissed
<1>8. phase # "started" => \A i \in Ids : fate'[i] = "running" => owed'[i] = {}
    BY <1>5 DEF OwedOK
<1>9. owed'[n + 1] \subseteq Listed(bus, subs, direct, e)
    BY <1>5 DEF OwedOK, AllListed
<1>10. Reaches(work'[w], owed'[n + 1], called[n + 1], bus, subs, direct)
    BY <1>4, <1>9 DEF Reaches, Listed
<1>11. ASSUME NEW v \in Workers, v # w, Busy(work'[v])
       PROVE  Reaches(work'[v], owed'[work'[v].i], called[work'[v].i], bus, subs, direct)
    <2>1. work'[v] = work[v]
        BY <1>1, <1>11 DEF Moves
    <2>2. Busy(work[v])
        BY <1>11, <2>1
    <2>3. work[v].i \in Ids /\ work[v].i # n + 1
        BY <1>0, <1>2, <2>2, BusyId
    <2> QED BY <1>5, <2>1, <2>2, <2>3 DEF OwedOK
<1>12. \A v \in Workers : Busy(work'[v]) =>
         Reaches(work'[v], owed'[work'[v].i], called[work'[v].i], bus, subs, direct)
    BY <1>1, <1>10, <1>11
<1> QED BY <1>1, <1>6, <1>7, <1>8, <1>12 DEF OwedOK

\* The worker finds the handlers, and calls them all.
LEMMA WorkerOwed ==
    ASSUME Base, OwedOK, Failing = {}, NEW w \in Workers, Worker(w)
    PROVE  OwedOK'
<1>0. TypeOK /\ WorkOK
    BY DEF Base
<1>1. UNCHANGED <<phase, starts, stopUnsubs, bus, direct, subs, registered, removed, owed>>
    BY DEF Worker, Invoke, Publish, CallHandler, Finish, client, handlers
<1>2. AllListed'
    BY <1>1 DEF OwedOK, AllListed, Registered
<1>3. ASSUME Busy(work'[w]) =>
               Reaches(work'[w], owed[work'[w].i], called'[work'[w].i], bus, subs, direct),
             \A i \in Ids : fate'[i] = "running" => fate[i] = "running",
             NobodyMissed'
      PROVE  OwedOK'
    <2>1. ASSUME NEW v \in Workers, v # w, Busy(work'[v])
          PROVE  Reaches(work'[v], owed[work'[v].i], called'[work'[v].i], bus, subs, direct)
        <3>1. work'[v] = work[v] /\ called'[work[v].i] = called[work[v].i]
            BY <1>0, <2>1, OthersUndisturbed
        <3>2. Busy(work[v])
            BY <2>1, <3>1
        <3> QED BY <3>1, <3>2 DEF OwedOK
    <2>2. \A v \in Workers : Busy(work'[v]) =>
            Reaches(work'[v], owed[work'[v].i], called'[work'[v].i], bus, subs, direct)
        BY <1>3, <2>1
    <2> QED BY <1>1, <1>2, <1>3, <2>2 DEF OwedOK
<1>4. CASE Invoke(w)
    <2>1. /\ UNCHANGED <<called, fate>> /\ work'[w].i = work[w].i /\ work[w].pc = "invoke"
          /\ work'[w].ev = work[w].ev
        BY <1>0, <1>4, InvokeMoves DEF Invoke
    <2>2. owed[work[w].i] \subseteq Listed(bus, subs, direct, work[w].ev)
        BY <2>1 DEF OwedOK, Reaches, Busy
    <2>3. Reaches(work'[w], owed[work'[w].i], called[work'[w].i], bus, subs, direct)
        <3>1. CASE bus # None
            BY <1>0, <1>4, <2>1, <2>2, <3>1, InvokeMoves DEF Reaches, Listed
        <3>2. CASE bus = None
            BY <1>0, <1>4, <2>1, <2>2, <3>2, InvokeMoves, ElementsEmpty DEF Reaches, Listed
        <3> QED BY <3>1, <3>2
    <2> QED BY <1>1, <1>3, <2>1, <2>3 DEF OwedOK, NobodyMissed
<1>5. CASE Publish(w)
    <2>1. /\ UNCHANGED <<called, fate>> /\ work'[w].i = work[w].i /\ work[w].pc = "publish"
          /\ work'[w].pc = "call" /\ work'[w].todo = subs[work[w].b][work[w].ev]
        BY <1>0, <1>5, PublishMoves DEF Publish
    <2>2. owed[work[w].i] \subseteq ToSet(subs[work[w].b][work[w].ev])
        BY <2>1 DEF OwedOK, Reaches, Busy
    <2>3. Reaches(work'[w], owed[work'[w].i], called[work'[w].i], bus, subs, direct)
        BY <2>1, <2>2 DEF Reaches
    <2> QED BY <1>1, <1>3, <2>1, <2>3 DEF OwedOK, NobodyMissed
<1>6. CASE CallHandler(w)
    <2> DEFINE i == work[w].i
               s == work[w].todo
               c == called[i]
               d == Append(c, Head(s))
    <2>1. /\ i \in Ids /\ s \in Seq(Handlers) /\ s # << >> /\ Head(s) \in Handlers
          /\ c \in Seq(Handlers) /\ called' = [called EXCEPT ![i] = d]
          /\ work'[w].i = i /\ work'[w].todo = Tail(s)
          /\ work[w].pc = "call" /\ work'[w].pc = "call"
        BY <1>0, <1>6, CallMoves
    <2>2. fate' = fate /\ called \in [Ids -> Seq(Handlers)]
        BY <1>0, <1>6 DEF CallHandler, TypeOK
    <2>3. owed[i] \subseteq ToSet(c) \cup ToSet(s)
        BY <2>1 DEF OwedOK, Reaches, Busy
    <2>4. NobodyMissed
        BY DEF OwedOK
    <2> HIDE DEF i, s
    <2>5. /\ ToSet(s) = {Head(s)} \cup ToSet(Tail(s))
          /\ ToSet(d) = ToSet(c) \cup {Head(s)}
        BY <2>1, ElementsHead, ElementsAppend
    <2> HIDE DEF d
    <2>6. called'[i] = d /\ \A j \in Ids : j # i => called'[j] = called[j]
        BY <2>1, <2>2
    <2>7. Reaches(work'[w], owed[work'[w].i], called'[work'[w].i], bus, subs, direct)
        <3>1. owed[i] \subseteq ToSet(d) \cup ToSet(Tail(s))
            BY <2>3, <2>5
        <3> QED BY <2>1, <2>6, <3>1 DEF Reaches
    <2>8. NobodyMissed'
        <3> SUFFICES ASSUME NEW j \in Ids, fate[j] \in {"done", "decode"}
                     PROVE  owed[j] \subseteq ToSet(called'[j])
            BY <1>1, <2>2 DEF NobodyMissed
        <3>1. owed[j] \subseteq ToSet(called[j])
            BY <2>4 DEF NobodyMissed
        <3>2. ToSet(called[j]) \subseteq ToSet(called'[j])
            BY <2>5, <2>6
        <3> QED BY <3>1, <3>2
    <2> QED BY <1>3, <2>2, <2>7, <2>8
<1>7. CASE Finish(w)
    <2> DEFINE i == work[w].i
    <2>1. /\ called' = called /\ work'[w].pc = "idle" /\ i \in Ids
          /\ work[w].pc = "call" /\ work[w].todo = << >>
          /\ \A j \in Ids : j # i => fate'[j] = fate[j]
          /\ fate'[i] # "running"
        BY <1>0, <1>7, FinishMoves, IdleTask DEF Finish, TypeOK
    <2>2. owed[i] \subseteq ToSet(called[i])
        BY <2>1, ElementsEmpty DEF OwedOK, Reaches, Busy
    <2>3. NobodyMissed
        BY DEF OwedOK
    <2> HIDE DEF i
    <2>4. NobodyMissed'
        <3> SUFFICES ASSUME NEW j \in Ids, fate'[j] \in {"done", "decode"}
                     PROVE  owed[j] \subseteq ToSet(called[j])
            BY <1>1, <2>1 DEF NobodyMissed
        <3>1. CASE j = i
            BY <2>2, <3>1
        <3>2. CASE j # i
            BY <2>1, <2>3, <3>2 DEF NobodyMissed
        <3> QED BY <3>1, <3>2
    <2>5. \A j \in Ids : fate'[j] = "running" => fate[j] = "running"
        BY <2>1
    <2> QED BY <1>3, <2>1, <2>4, <2>5 DEF Busy
<1> QED BY <1>4, <1>5, <1>6, <1>7 DEF Worker

LEMMA OwedStep ==
    ASSUME Base, OwedOK, Failing = {}, NEW b, Buses = {b}, MaxStarts = 1, [Next]_vars
    PROVE  OwedOK'
<1>1. CASE UNCHANGED vars
    BY <1>1 DEF vars, client, handlers, OwedOK, AllListed, NobodyMissed, Registered
<1>2. ASSUME NEW c \in Buses, UseEventBus(c) PROVE OwedOK'
    BY <1>2, BusOwed
<1>3. ASSUME NEW w \in Workers, Worker(w) PROVE OwedOK'
    BY <1>3, WorkerOwed
<1> QED BY <1>1, <1>2, <1>3, PlatformOwed, UnsubscribeOwed, StopOwed, ArrivalOwed DEF Next

\* A message has been given to every handler that was registered when it
\* arrived and not removed meanwhile, whatever the platform registers, removes
\* or attaches at the same time, UseEventBus included.
THEOREM EveryHandlerServed ==
    ASSUME Failing = {}, NEW b, Buses = {b}, MaxStarts = 1
    PROVE  Spec => []NobodyMissed
<1>1. Init => Base /\ OwedOK
    <2> SUFFICES ASSUME Init PROVE Base /\ OwedOK
        OBVIOUS
    <2>1. /\ phase = "stopped" /\ starts = 0 /\ stopUnsubs = {}
          /\ \A i \in Ids : owed[i] = {} /\ fate[i] = "none"
          /\ \A w \in Workers : ~Busy(work[w])
        BY IdleTask DEF Init, Busy
    <2>2. AllListed
        <3>1. registered = << >>
            BY DEF Init
        <3>2. \A e \in Events : Registered(e) = {}
            BY <3>1, ElementsEmpty DEF Registered
        <3> QED BY <2>1, <3>2 DEF AllListed
    <2> QED BY <2>1, <2>2, BaseInit DEF OwedOK, NobodyMissed
<1>2. (Base /\ OwedOK) /\ [Next]_vars => (Base /\ OwedOK)'
    BY BaseStep, OwedStep
<1>3. OwedOK => NobodyMissed
    BY DEF OwedOK
<1> QED BY <1>1, <1>2, <1>3, PTL DEF Spec
=============================================================================
