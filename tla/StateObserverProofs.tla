------------------------- MODULE StateObserverProofs -------------------------
(***************************************************************************)
(* Proofs about StateObserver, for any interface name, AGVs, states, scope *)
(* and topics of other publishers: a lane belongs to one AGV, and the      *)
(* facts of Apply tell whoever follows them the state of each.             *)
(***************************************************************************)
EXTENDS StateObserver, Integers, FiniteSets, FiniteSetTheorems, SequenceTheorems, TLAPS

\* Parse counts the segments of a topic from the front, classifyInbound from
\* the end.  On a topic that Parse accepts they find the same AGV.
LEMMA KeyIsIdentity ==
    ASSUME NEW t, Parses(t)
    PROVE  ShardKey(t) = Identity(t)
BY SMT DEF Parses, ShardKey, Identity

Routed == \A x \in routed : x[1] = x[2]

LEMMA ReceiveRouted ==
    ASSUME Routed, NEW t, NEW s, Receive(t, s)
    PROVE  Routed'
<1>1. Parses(t) => ShardKey(t) = Identity(t)
    BY KeyIsIdentity
<1>2. routed' \subseteq routed \cup {<<Identity(t), ShardKey(t)>>}
      /\ (Parses(t) \/ routed' = routed)
    BY DEF Receive, Classify, Deliver, Observe
<1> QED BY <1>1, <1>2 DEF Routed

\* classifyInbound and Resolver.Parse: the lane of a message that reaches the
\* callbacks belongs to the AGV the message is about, and to no other, whatever
\* names AGVs have and whatever topics other publishers use.
THEOREM LanesAreVehicles == Spec => []ShardIsVehicle
<1>1. Init => Routed
    BY DEF Init, Routed
<1>2. Routed /\ [Next]_vars => Routed'
  <2> SUFFICES ASSUME Routed, [Next]_vars PROVE Routed'
      OBVIOUS
  <2>1. ASSUME NEW a \in AGVs, NEW ch \in Channels, NEW s \in States, Send(a, ch, s)
        PROVE  Routed'
      BY <2>1, ReceiveRouted DEF Send
  <2>2. ASSUME NEW t \in StrayTopics, NEW s \in States, Stray(t, s) PROVE Routed'
      BY <2>2, ReceiveRouted DEF Stray
  <2>3. CASE UNCHANGED routed
      BY <2>3 DEF Routed
  <2> QED BY <2>1, <2>2, <2>3 DEF Next, Forget, vars
<1>3. Routed => ShardIsVehicle
    BY DEF Routed, ShardIsVehicle
<1> QED BY <1>1, <1>2, <1>3, PTL DEF Spec

-----------------------------------------------------------------------------
(***************************************************************************)
(* Induction, on sets: the loops of Apply and of its reader are recursive  *)
(* functions, and what they compute is shown by it.                        *)
(***************************************************************************)
\* Induction up to n.  A set that misses n but has the successor of each of its
\* elements would be in bijection with itself without 0.
LEMMA CountUp ==
    ASSUME NEW n \in Nat, NEW S, S \subseteq 0 .. n, 0 \in S,
           \A k \in 0 .. n - 1 : k \in S => k + 1 \in S
    PROVE  n \in S
<1> SUFFICES ASSUME n \notin S PROVE FALSE
    OBVIOUS
<1> DEFINE T == S \ {0}
           next == [k \in S |-> k + 1]
<1>1. IsFiniteSet(S)
    <2>1. IsFiniteSet(0 .. n)
        BY FS_Interval
    <2> QED BY <2>1, FS_Subset
<1>2. IsFiniteSet(T) /\ Cardinality(S) \in Nat /\ Cardinality(T) = Cardinality(S) - 1
    BY <1>1, FS_RemoveElement, FS_CardinalityType
<1>3. next \in [S -> T]
    <2> SUFFICES ASSUME NEW k \in S PROVE k + 1 \in T
        OBVIOUS
    <2>1. k \in 0 .. n /\ k # n
        OBVIOUS
    <2> QED BY <2>1
<1>4. PICK x \in S, y \in S : x # y /\ next[x] = next[y]
    <2>1. Cardinality(T) < Cardinality(S)
        BY <1>2
    <2> HIDE DEF T, next
    <2> QED BY <1>1, <1>2, <1>3, <2>1, FS_PigeonHole
<1>5. x \in Nat /\ y \in Nat
    OBVIOUS
<1> QED BY <1>4, <1>5

\* A loop of n rounds on X, and a run of it from x.
IsLoop(step, n, X) == \A i \in 1 .. n, y \in X : step[<<i, y>>] \in X
HasRun(step, n, X, x) ==
    \E g \in [0 .. n -> X] :
        g[0] = x /\ \A i \in 1 .. n : g[i] = step[<<i, g[i - 1]>>]

\* Every loop runs.
LEMMA LoopRuns ==
    ASSUME NEW n \in Nat, NEW X, NEW x \in X, NEW step, IsLoop(step, n, X)
    PROVE  HasRun(step, n, X, x)
<1> DEFINE Runs(k, g) == g[0] = x /\ \A i \in 1 .. k : g[i] = step[<<i, g[i - 1]>>]
           S == {k \in 0 .. n : \E g \in [0 .. k -> X] : Runs(k, g)}
<1>1. 0 \in S
    <2> DEFINE h == [i \in 0 .. 0 |-> x]
    <2>1. h \in [0 .. 0 -> X] /\ h[0] = x /\ 1 .. 0 = {} /\ 0 \in 0 .. n
        OBVIOUS
    <2> HIDE DEF h
    <2> QED BY <2>1
<1>2. ASSUME NEW k \in 0 .. n - 1, k \in S PROVE k + 1 \in S
    <2>1. PICK g \in [0 .. k -> X] : Runs(k, g)
        BY <1>2
    <2> DEFINE y == step[<<k + 1, g[k]>>]
               h == [i \in 0 .. k + 1 |-> IF i = k + 1 THEN y ELSE g[i]]
    <2>2. g[k] \in X /\ k + 1 \in 1 .. n /\ k \in Nat
        OBVIOUS
    <2>3. y \in X
        BY <2>2 DEF IsLoop
    <2>4. h \in [0 .. k + 1 -> X]
        <3> SUFFICES ASSUME NEW i \in 0 .. k + 1
                     PROVE  (IF i = k + 1 THEN y ELSE g[i]) \in X
            OBVIOUS
        <3>1. i # k + 1 => i \in 0 .. k
            BY <2>2
        <3> QED BY <2>3, <3>1
    <2>5. h[0] = x
        BY <2>1, <2>2
    <2>6. ASSUME NEW i \in 1 .. k + 1 PROVE h[i] = step[<<i, h[i - 1]>>]
        <3>1. CASE i = k + 1
            <4>1. h[i] = y /\ h[i - 1] = g[k]
                BY <3>1, <2>2
            <4> QED BY <3>1, <4>1
        <3>2. CASE i \in 1 .. k
            <4>1. h[i] = g[i] /\ h[i - 1] = g[i - 1]
                BY <3>2, <2>2
            <4> QED BY <3>2, <4>1, <2>1
        <3> QED BY <3>1, <3>2, <2>2
    <2>7. k + 1 \in 0 .. n
        OBVIOUS
    <2> HIDE DEF h, y
    <2> QED BY <2>4, <2>5, <2>6, <2>7
<1>3. S \subseteq 0 .. n
    OBVIOUS
<1> HIDE DEF S
<1>4. n \in S
    BY <1>1, <1>2, <1>3, CountUp
<1> QED BY <1>4 DEF S, HasRun

\* A value that some rounds of a loop set to v and the others leave alone.
SetIn(n, val, hit, v) ==
    \A i \in 1 .. n : val[i] = IF i \in hit THEN v ELSE val[i - 1]
SetAtEnd(n, val, hit, v) ==
    val[n] = IF hit \cap (1 .. n) = {} THEN val[0] ELSE v

LEMMA LastWins ==
    ASSUME NEW n \in Nat, NEW val, NEW hit, NEW v, SetIn(n, val, hit, v)
    PROVE  SetAtEnd(n, val, hit, v)
<1> DEFINE S == {k \in 0 .. n : val[k] = IF hit \cap (1 .. k) = {} THEN val[0] ELSE v}
<1>1. 0 \in S
    OBVIOUS
<1>2. ASSUME NEW k \in 0 .. n - 1, k \in S PROVE k + 1 \in S
    <2>1. k + 1 \in 1 .. n /\ (k + 1) - 1 = k /\ k + 1 \in 0 .. n
        OBVIOUS
    <2>2. val[k + 1] = IF k + 1 \in hit THEN v ELSE val[k]
        BY <2>1 DEF SetIn
    <2>3. 1 .. k + 1 = (1 .. k) \cup {k + 1}
        OBVIOUS
    <2> QED BY <1>2, <2>1, <2>2, <2>3
<1>3. S \subseteq 0 .. n
    OBVIOUS
<1> HIDE DEF S
<1>4. n \in S
    BY <1>1, <1>2, <1>3, CountUp
<1> QED BY <1>4 DEF S, SetAtEnd

\* What each round of a loop keeps holds in all of them.
LEMMA LoopStays ==
    ASSUME NEW n \in Nat, NEW X, NEW h, h[0] \in X,
           \A i \in 1 .. n : h[i - 1] \in X => h[i] \in X
    PROVE  \A k \in 0 .. n : h[k] \in X
<1> SUFFICES ASSUME NEW m \in 0 .. n PROVE h[m] \in X
    OBVIOUS
<1> DEFINE S == {k \in 0 .. m : h[k] \in X}
<1>1. 0 \in S /\ S \subseteq 0 .. m /\ m \in Nat
    OBVIOUS
<1>2. ASSUME NEW k \in 0 .. m - 1, k \in S PROVE k + 1 \in S
    <2>1. k + 1 \in 1 .. n /\ (k + 1) - 1 = k /\ k + 1 \in 0 .. m
        OBVIOUS
    <2> QED BY <1>2, <2>1
<1> HIDE DEF S
<1>3. m \in S
    BY <1>1, <1>2, CountUp
<1> QED BY <1>3 DEF S

-----------------------------------------------------------------------------
(***************************************************************************)
(* Facts and pictures.                                                     *)
(***************************************************************************)
\* The provers do not see that "" is a STRING.
Text == STRING \cup {""}

Pictures == [node : Text, order : Text, update : Nat, status : [ActionIds -> Text]]

AllFacts ==
    [kind : {"LastNodeChanged", "OrderIdChanged"}, id : Text,
     prev : Text, next : Text]
    \cup [kind : {"OrderUpdateChanged"}, id : Text, prev : Nat, next : Nat]
    \cup [kind : {"ActionTransitioned"}, id : ActionIds,
          prev : Text, next : Text]

\* A fact changes what it is about and nothing else.
Told(p, f, q) ==
    /\ q.node = IF f.kind = "LastNodeChanged" THEN f.next ELSE p.node
    /\ q.order = IF f.kind = "OrderIdChanged" THEN f.next ELSE p.order
    /\ q.update = IF f.kind = "OrderUpdateChanged" THEN f.next ELSE p.update
    /\ \A x \in ActionIds :
         q.status[x] = IF f.kind = "ActionTransitioned" /\ f.id = x
                       THEN f.next ELSE p.status[x]

LEMMA LearnOne ==
    ASSUME NEW p \in Pictures, NEW f \in AllFacts
    PROVE  Learn(p, f) \in Pictures /\ Told(p, f, Learn(p, f))
<1>1. CASE f.kind = "LastNodeChanged"
    BY <1>1 DEF Learn, Pictures, AllFacts, Told
<1>2. CASE f.kind = "OrderIdChanged"
    BY <1>2 DEF Learn, Pictures, AllFacts, Told
<1>3. CASE f.kind = "OrderUpdateChanged"
    BY <1>3 DEF Learn, Pictures, AllFacts, Told
<1>4. CASE f.kind = "ActionTransitioned"
    <2>1. Learn(p, f) = [p EXCEPT !.status[f.id] = f.next]
        BY <1>4 DEF Learn
    <2>2. f.id \in ActionIds /\ f.next \in Text
        BY <1>4 DEF AllFacts
    <2> QED BY <1>4, <2>1, <2>2 DEF Pictures, Told
<1> QED BY <1>1, <1>2, <1>3, <1>4 DEF AllFacts

\* Follow is a run over the facts.
LEMMA FollowRuns ==
    ASSUME NEW p \in Pictures, NEW facts \in Seq(AllFacts)
    PROVE  \E g : /\ \A i \in 0 .. Len(facts) : g[i] \in Pictures
                  /\ g[0] = p
                  /\ \A i \in 1 .. Len(facts) : g[i] = Learn(g[i - 1], facts[i])
                  /\ Follow(p, facts) = g[Len(facts)]
<1> DEFINE n == Len(facts)
           step == [c \in (1 .. n) \X Pictures |-> Learn(c[2], facts[c[1]])]
           Body(r) == [i \in 0 .. n |-> IF i = 0 THEN p ELSE Learn(r[i - 1], facts[i])]
           h == CHOOSE r : r = Body(r)
<1>1. n \in Nat /\ \A i \in 1 .. n : facts[i] \in AllFacts
    OBVIOUS
<1>2. ASSUME NEW i \in 1 .. n, NEW q \in Pictures
      PROVE  step[<<i, q>>] = Learn(q, facts[i]) /\ step[<<i, q>>] \in Pictures
    BY <1>1, LearnOne
<1>3. PICK g \in [0 .. n -> Pictures] :
        g[0] = p /\ \A i \in 1 .. n : g[i] = step[<<i, g[i - 1]>>]
    <2>1. IsLoop(step, n, Pictures)
        BY <1>2 DEF IsLoop
    <2> HIDE DEF step, n, h
    <2> QED BY <1>1, <2>1, LoopRuns DEF HasRun
<1>4. g = Body(g)
    <2>1. ASSUME NEW i \in 1 .. n PROVE g[i] = Learn(g[i - 1], facts[i])
        <3>1. g[i - 1] \in Pictures
            BY <1>1
        <3> QED BY <1>2, <1>3, <3>1
    <2>2. \A i \in 0 .. n : i = 0 \/ i \in 1 .. n
        BY <1>1
    <2> HIDE DEF n
    <2> QED BY <1>3, <2>1, <2>2
<1>5. h = Body(h)
    BY <1>4
<1>6. Follow(p, facts) = h[n]
    BY DEF Follow
<1> HIDE DEF h, n
<1>7. h[0] = p /\ \A i \in 1 .. n : h[i] = Learn(h[i - 1], facts[i])
    BY <1>1, <1>5
<1>8. \A i \in 1 .. n : h[i - 1] \in Pictures => h[i] \in Pictures
    BY <1>1, <1>7, LearnOne
<1>9. \A i \in 0 .. n : h[i] \in Pictures
    BY <1>1, <1>7, <1>8, LoopStays
<1> QED BY <1>6, <1>7, <1>9 DEF n

-----------------------------------------------------------------------------
\* What a sequence of facts says of a kind of fact, and of an action.
Said(facts) == {facts[i] : i \in 1 .. Len(facts)}
OfKind(facts, k) == {f \in Said(facts) : f.kind = k}
About(facts, x) == {f \in OfKind(facts, "ActionTransitioned") : f.id = x}

\* The facts F agree on v, if there are any, and new is what they make of old.
Agree(F, v) == \A f \in F : f.next = v
Settles(F, v, old, new) == Agree(F, v) => new = IF F = {} THEN old ELSE v

Ends(facts, v, p, q) ==
    /\ Settles(OfKind(facts, "LastNodeChanged"), v, p.node, q.node)
    /\ Settles(OfKind(facts, "OrderIdChanged"), v, p.order, q.order)
    /\ Settles(OfKind(facts, "OrderUpdateChanged"), v, p.update, q.update)
    /\ \A x \in ActionIds : Settles(About(facts, x), v, p.status[x], q.status[x])

\* If the facts of a kind, or about an action, agree, the reader ends with what
\* they say; if there are none, with what it knew.
LEMMA FollowSettles ==
    ASSUME NEW p \in Pictures, NEW facts \in Seq(AllFacts), NEW v
    PROVE  Follow(p, facts) \in Pictures /\ Ends(facts, v, p, Follow(p, facts))
<1> DEFINE n == Len(facts)
           Rounds(k) == {i \in 1 .. n : facts[i].kind = k}
<1>1. PICK g : /\ \A i \in 0 .. n : g[i] \in Pictures
               /\ g[0] = p
               /\ \A i \in 1 .. n : g[i] = Learn(g[i - 1], facts[i])
               /\ Follow(p, facts) = g[n]
    BY FollowRuns
<1>2. n \in Nat /\ \A i \in 1 .. n : facts[i] \in AllFacts /\ i - 1 \in 0 .. n
    OBVIOUS
<1>3. \A i \in 1 .. n : facts[i] \in Said(facts)
    BY DEF Said
<1> HIDE DEF n
<1>4. \A i \in 1 .. n : Told(g[i - 1], facts[i], g[i])
    <2> SUFFICES ASSUME NEW i \in 1 .. n PROVE Told(g[i - 1], facts[i], g[i])
        OBVIOUS
    <2>1. facts[i] \in AllFacts /\ g[i - 1] \in Pictures /\ g[i] = Learn(g[i - 1], facts[i])
        BY <1>1, <1>2
    <2> QED BY <2>1, LearnOne
<1>5. Follow(p, facts) \in Pictures
    BY <1>1, <1>2
<1>6. Settles(OfKind(facts, "LastNodeChanged"), v, p.node, g[n].node)
    <2> SUFFICES ASSUME Agree(OfKind(facts, "LastNodeChanged"), v)
                 PROVE  g[n].node = IF OfKind(facts, "LastNodeChanged") = {} THEN p.node ELSE v
        BY DEF Settles
    <2> DEFINE val == [i \in 0 .. n |-> g[i].node]
               hit == Rounds("LastNodeChanged")
    <2>1. SetIn(n, val, hit, v)
        BY <1>2, <1>3, <1>4 DEF SetIn, Told, Agree, OfKind
    <2>2. hit \cap (1 .. n) = hit /\ val[n] = g[n].node /\ val[0] = p.node
        BY <1>1, <1>2
    <2>3. hit = {} <=> OfKind(facts, "LastNodeChanged") = {}
        BY DEF OfKind, Said, n
    <2> HIDE DEF val, hit
    <2>4. SetAtEnd(n, val, hit, v)
        BY <1>2, <2>1, LastWins
    <2> QED BY <2>2, <2>3, <2>4 DEF SetAtEnd
<1>7. Settles(OfKind(facts, "OrderIdChanged"), v, p.order, g[n].order)
    <2> SUFFICES ASSUME Agree(OfKind(facts, "OrderIdChanged"), v)
                 PROVE  g[n].order = IF OfKind(facts, "OrderIdChanged") = {} THEN p.order ELSE v
        BY DEF Settles
    <2> DEFINE val == [i \in 0 .. n |-> g[i].order]
               hit == Rounds("OrderIdChanged")
    <2>1. SetIn(n, val, hit, v)
        BY <1>2, <1>3, <1>4 DEF SetIn, Told, Agree, OfKind
    <2>2. hit \cap (1 .. n) = hit /\ val[n] = g[n].order /\ val[0] = p.order
        BY <1>1, <1>2
    <2>3. hit = {} <=> OfKind(facts, "OrderIdChanged") = {}
        BY DEF OfKind, Said, n
    <2> HIDE DEF val, hit
    <2>4. SetAtEnd(n, val, hit, v)
        BY <1>2, <2>1, LastWins
    <2> QED BY <2>2, <2>3, <2>4 DEF SetAtEnd
<1>8. Settles(OfKind(facts, "OrderUpdateChanged"), v, p.update, g[n].update)
    <2> SUFFICES ASSUME Agree(OfKind(facts, "OrderUpdateChanged"), v)
                 PROVE  g[n].update = IF OfKind(facts, "OrderUpdateChanged") = {} THEN p.update ELSE v
        BY DEF Settles
    <2> DEFINE val == [i \in 0 .. n |-> g[i].update]
               hit == Rounds("OrderUpdateChanged")
    <2>1. SetIn(n, val, hit, v)
        BY <1>2, <1>3, <1>4 DEF SetIn, Told, Agree, OfKind
    <2>2. hit \cap (1 .. n) = hit /\ val[n] = g[n].update /\ val[0] = p.update
        BY <1>1, <1>2
    <2>3. hit = {} <=> OfKind(facts, "OrderUpdateChanged") = {}
        BY DEF OfKind, Said, n
    <2> HIDE DEF val, hit
    <2>4. SetAtEnd(n, val, hit, v)
        BY <1>2, <2>1, LastWins
    <2> QED BY <2>2, <2>3, <2>4 DEF SetAtEnd
<1>9. ASSUME NEW x \in ActionIds
      PROVE  Settles(About(facts, x), v, p.status[x], g[n].status[x])
    <2> SUFFICES ASSUME Agree(About(facts, x), v)
                 PROVE  g[n].status[x] = IF About(facts, x) = {} THEN p.status[x] ELSE v
        BY DEF Settles
    <2> DEFINE val == [i \in 0 .. n |-> g[i].status[x]]
               hit == {i \in Rounds("ActionTransitioned") : facts[i].id = x}
    <2>1. SetIn(n, val, hit, v)
        BY <1>2, <1>3, <1>4 DEF SetIn, Told, Agree, About, OfKind
    <2>2. hit \cap (1 .. n) = hit /\ val[n] = g[n].status[x] /\ val[0] = p.status[x]
        BY <1>1, <1>2
    <2>3. hit = {} <=> About(facts, x) = {}
        BY DEF About, OfKind, Said, n
    <2> HIDE DEF val, hit
    <2>4. SetAtEnd(n, val, hit, v)
        BY <1>2, <2>1, LastWins
    <2> QED BY <2>2, <2>3, <2>4 DEF SetAtEnd
<1> QED BY <1>1, <1>5, <1>6, <1>7, <1>8, <1>9 DEF Ends

-----------------------------------------------------------------------------
\* States that report an action at most once.
Reports ==
    {s \in [node : Text, order : Text, update : Nat, actions : Seq(ActionStates)] :
        \A i, j \in 1 .. Len(s.actions) :
          s.actions[i].id \in ActionIds
          /\ (s.actions[i].id = s.actions[j].id => i = j)}

LEMMA SentAreReports == States \subseteq Reports /\ Empty \in Reports
<1>1. ASSUME NEW s \in States PROVE s \in Reports
    <2>1. s \in StateType
        BY ObserverAssumption
    <2>2. \A i, j \in 1 .. Len(s.actions) : s.actions[i].id = s.actions[j].id => i = j
        BY ObserverAssumption
    <2>3. \A i \in 1 .. Len(s.actions) : s.actions[i].id \in ActionIds
        BY DEF ActionIds
    <2> QED BY <2>1, <2>2, <2>3 DEF Reports, StateType, Text
<1>2. Empty \in Reports
    <2>1. << >> \in Seq(ActionStates) /\ Len(<< >>) = 0 /\ 1 .. 0 = {}
        OBVIOUS
    <2> QED BY <2>1 DEF Empty, Reports, Text
<1> QED BY <1>1, <1>2

LEMMA ReportType ==
    ASSUME NEW p \in Reports
    PROVE  /\ Len(p.actions) \in Nat
           /\ \A i \in 1 .. Len(p.actions) :
                p.actions[i].id \in ActionIds /\ p.actions[i].status \in Text
<1>1. p.actions \in Seq(ActionStates)
    BY DEF Reports
<1>2. ASSUME NEW i \in 1 .. Len(p.actions)
      PROVE  p.actions[i].id \in ActionIds /\ p.actions[i].status \in Text
    <2>1. p.actions[i] \in ActionStates
        BY <1>1
    <2> QED BY <2>1 DEF Reports, ActionStates, Text
<1> QED BY <1>1, <1>2

\* prevActions holds the status that the state reports.
LEMMA StatusReported ==
    ASSUME NEW p \in Reports, NEW i \in 1 .. Len(p.actions)
    PROVE  Entries(p, p.actions[i].id) = {i}
           /\ StatusIn(p, p.actions[i].id) = p.actions[i].status
<1>1. Entries(p, p.actions[i].id) = {i}
    BY DEF Entries, Reports
<1>2. i \in Nat
    BY ReportType
<1>3. (CHOOSE k \in {i} : \A j \in {i} : j <= k) = i
    BY <1>2
<1> QED BY <1>1, <1>3 DEF StatusIn

LEMMA StatusInType ==
    ASSUME NEW p \in Reports, NEW x
    PROVE  StatusIn(p, x) \in Text
<1>1. CASE Entries(p, x) = {}
    BY <1>1 DEF StatusIn, Text
<1>2. ASSUME NEW i \in Entries(p, x) PROVE StatusIn(p, x) \in Text
    <2>1. i \in 1 .. Len(p.actions) /\ p.actions[i].id = x
        BY DEF Entries
    <2>2. p.actions[i].status \in Text
        BY <2>1, ReportType
    <2> QED BY <2>1, <2>2, StatusReported
<1> QED BY <1>1, <1>2

LEMMA SaidOfBoth ==
    ASSUME NEW T, NEW a \in Seq(T), NEW b \in Seq(T)
    PROVE  Said(a \o b) = Said(a) \cup Said(b)
<1>1. Len(a \o b) = Len(a) + Len(b) /\ Len(a) \in Nat /\ Len(b) \in Nat
    OBVIOUS
<1>2. ASSUME NEW i \in 1 .. Len(a \o b) PROVE (a \o b)[i] \in Said(a) \cup Said(b)
    <2>1. CASE i <= Len(a)
        BY <2>1 DEF Said
    <2>2. CASE i > Len(a)
        <3>1. (a \o b)[i] = b[i - Len(a)] /\ i - Len(a) \in 1 .. Len(b)
            BY <2>2, <1>1
        <3> QED BY <3>1 DEF Said
    <2> QED BY <2>1, <2>2, <1>1
<1>3. ASSUME NEW i \in 1 .. Len(a) PROVE a[i] \in Said(a \o b)
    <2>1. (a \o b)[i] = a[i] /\ i \in 1 .. Len(a \o b)
        BY <1>1
    <2> QED BY <2>1 DEF Said
<1>4. ASSUME NEW i \in 1 .. Len(b) PROVE b[i] \in Said(a \o b)
    <2>1. (a \o b)[Len(a) + i] = b[i] /\ Len(a) + i \in 1 .. Len(a \o b)
        BY <1>1
    <2> QED BY <2>1 DEF Said
<1> QED BY <1>2, <1>3, <1>4 DEF Said

\* The loop over the actions says what its rounds say.
LEMMA SaidOfActions ==
    ASSUME NEW p \in Reports, NEW s \in Reports
    PROVE  /\ Transitions(p, s.actions) \in Seq(AllFacts)
           /\ Said(Transitions(p, s.actions)) =
                UNION {Said(Transition(p, s.actions[k])) : k \in 1 .. Len(s.actions)}
<1> DEFINE as == s.actions
           n == Len(as)
           X == Seq(AllFacts)
           step == [c \in (1 .. n) \X X |-> c[2] \o Transition(p, as[c[1]])]
           Body(r) == [i \in 0 .. n |->
                         IF i = 0 THEN << >> ELSE r[i - 1] \o Transition(p, as[i])]
           h == CHOOSE r : r = Body(r)
<1>1. n \in Nat /\ \A i \in 1 .. n : as[i].id \in ActionIds /\ as[i].status \in Text
    BY ReportType
<1>2. ASSUME NEW i \in 1 .. n PROVE Transition(p, as[i]) \in X
    <2>1. Fact("ActionTransitioned", as[i].id, StatusIn(p, as[i].id), as[i].status) \in AllFacts
        BY <1>1, StatusInType DEF Fact, AllFacts
    <2> QED BY <2>1 DEF Transition
<1>3. ASSUME NEW i \in 1 .. n, NEW q \in X
      PROVE  step[<<i, q>>] = q \o Transition(p, as[i]) /\ step[<<i, q>>] \in X
    <2>1. step[<<i, q>>] = q \o Transition(p, as[i])
        OBVIOUS
    <2>2. q \o Transition(p, as[i]) \in X
        <3>1. Transition(p, as[i]) \in X
            BY <1>2
        <3> QED BY <3>1
    <2> QED BY <2>1, <2>2
<1>4. PICK g \in [0 .. n -> X] :
        g[0] = << >> /\ \A i \in 1 .. n : g[i] = step[<<i, g[i - 1]>>]
    <2>1. << >> \in X
        OBVIOUS
    <2> HIDE DEF step, n, h, X
    <2>2. IsLoop(step, n, X)
        BY <1>3 DEF IsLoop
    <2> QED BY <1>1, <2>1, <2>2, LoopRuns DEF HasRun
<1>5. g = Body(g)
    <2>1. ASSUME NEW i \in 1 .. n PROVE g[i] = g[i - 1] \o Transition(p, as[i])
        <3>1. g[i - 1] \in X
            BY <1>1
        <3> QED BY <1>3, <1>4, <3>1
    <2>2. \A i \in 0 .. n : i = 0 \/ i \in 1 .. n
        BY <1>1
    <2> HIDE DEF n, X
    <2> QED BY <1>4, <2>1, <2>2
<1>6. h = Body(h)
    BY <1>5
<1>7. Transitions(p, s.actions) = h[n]
    BY DEF Transitions
<1> HIDE DEF h, n, X
<1>8. h[0] = << >> /\ \A i \in 1 .. n : h[i] = h[i - 1] \o Transition(p, as[i])
    BY <1>1, <1>6
<1>9. \A i \in 0 .. n : h[i] \in X
    <2>1. << >> \in X
        BY DEF X
    <2>2. ASSUME NEW i \in 1 .. n, h[i - 1] \in X PROVE h[i] \in X
        <3>1. Transition(p, as[i]) \in X
            BY <1>2
        <3>2. h[i - 1] \o Transition(p, as[i]) \in X
            BY <2>2, <3>1 DEF X
        <3> QED BY <1>8, <3>2
    <2> QED BY <1>1, <1>8, <2>1, <2>2, LoopStays
<1> DEFINE Rounds(k) == UNION {Said(Transition(p, as[i])) : i \in 1 .. k}
           S == {k \in 0 .. n : Said(h[k]) = Rounds(k)}
<1>10. 0 \in S
    BY <1>1, <1>8 DEF Said
<1>11. ASSUME NEW k \in 0 .. n - 1, k \in S PROVE k + 1 \in S
    <2>1. k + 1 \in 1 .. n /\ (k + 1) - 1 = k /\ k \in 0 .. n /\ k + 1 \in 0 .. n
          /\ 1 .. k + 1 = (1 .. k) \cup {k + 1}
        BY <1>1
    <2>2. h[k + 1] = h[k] \o Transition(p, as[k + 1])
        BY <1>8, <2>1
    <2>3. Said(h[k + 1]) = Said(h[k]) \cup Said(Transition(p, as[k + 1]))
        BY <1>2, <1>9, <2>1, <2>2, SaidOfBoth DEF X
    <2>4. Rounds(k + 1) = Rounds(k) \cup Said(Transition(p, as[k + 1]))
        BY <2>1
    <2> QED BY <1>11, <2>1, <2>3, <2>4
<1>12. S \subseteq 0 .. n
    OBVIOUS
<1>13. n \in S
    <2> HIDE DEF S
    <2> QED BY <1>1, <1>10, <1>11, <1>12, CountUp
<1>14. n \in 0 .. n
    BY <1>1
<1> QED BY <1>7, <1>9, <1>13, <1>14 DEF X, n

-----------------------------------------------------------------------------
\* What the picture must say once the last state is s.
Shows(pic, s) ==
    /\ pic.node = s.node /\ pic.order = s.order /\ pic.update = s.update
    /\ \A k \in 1 .. Len(s.actions) : pic.status[s.actions[k].id] = s.actions[k].status

Previous(s) == IF s = None THEN Empty ELSE s

LEMMA SaidOfFew == Said(<< >>) = {} /\ \A f : Said(<<f>>) = {f}
<1>1. Len(<< >>) = 0 /\ 1 .. 0 = {} /\ 1 .. 1 = {1}
    OBVIOUS
<1>2. ASSUME NEW f PROVE Said(<<f>>) = {f}
    <2>1. Len(<<f>>) = 1 /\ <<f>>[1] = f
        OBVIOUS
    <2> QED BY <1>1, <2>1 DEF Said
<1> QED BY <1>1, <1>2 DEF Said

LEMMA SaidOfChange ==
    ASSUME NEW kind, NEW old, NEW new
    PROVE  Said(Changed(kind, old, new)) =
             IF old = new THEN {} ELSE {Fact(kind, "", old, new)}
BY SaidOfFew DEF Changed

LEMMA SaidOfTransition ==
    ASSUME NEW p, NEW a
    PROVE  Said(Transition(p, a)) =
             IF Entries(p, a.id) # {} /\ StatusIn(p, a.id) = a.status THEN {}
             ELSE {Fact("ActionTransitioned", a.id, StatusIn(p, a.id), a.status)}
BY SaidOfFew DEF Transition

\* The facts of Apply, part by part.
LEMMA SaidOfApply ==
    ASSUME NEW prv \in States \cup {None}, NEW s \in States
    PROVE  LET p == Previous(prv) IN
           /\ Apply(prv, s) \in Seq(AllFacts)
           /\ Said(Apply(prv, s)) =
                (IF p.node = s.node THEN {}
                 ELSE {Fact("LastNodeChanged", "", p.node, s.node)})
                \cup (IF p.order = s.order THEN {}
                      ELSE {Fact("OrderIdChanged", "", p.order, s.order)})
                \cup (IF p.update = s.update THEN {}
                      ELSE {Fact("OrderUpdateChanged", "", p.update, s.update)})
                \cup UNION {Said(Transition(p, s.actions[k])) : k \in 1 .. Len(s.actions)}
<1> DEFINE p == Previous(prv)
           C1 == Changed("LastNodeChanged", p.node, s.node)
           C2 == Changed("OrderIdChanged", p.order, s.order)
           C3 == Changed("OrderUpdateChanged", p.update, s.update)
           C4 == Transitions(p, s.actions)
<1>1. p \in Reports /\ s \in Reports
    BY SentAreReports DEF Previous
<1>2. Apply(prv, s) = C1 \o C2 \o C3 \o C4
    BY DEF Apply, Previous
<1>3. C1 \in Seq(AllFacts) /\ C2 \in Seq(AllFacts) /\ C3 \in Seq(AllFacts)
    <2>1. /\ Fact("LastNodeChanged", "", p.node, s.node) \in AllFacts
          /\ Fact("OrderIdChanged", "", p.order, s.order) \in AllFacts
          /\ Fact("OrderUpdateChanged", "", p.update, s.update) \in AllFacts
        BY <1>1 DEF Reports, Fact, AllFacts, Text
    <2> HIDE DEF p
    <2>2. << >> \in Seq(AllFacts) /\ \A f \in AllFacts : <<f>> \in Seq(AllFacts)
        OBVIOUS
    <2> QED BY <2>1, <2>2 DEF Changed
<1>4. C4 \in Seq(AllFacts)
    BY <1>1, SaidOfActions
<1>5. Said(C4) = UNION {Said(Transition(p, s.actions[k])) : k \in 1 .. Len(s.actions)}
    BY <1>1, SaidOfActions
<1>6. Said(C1 \o C2 \o C3 \o C4) = Said(C1) \cup Said(C2) \cup Said(C3) \cup Said(C4)
    <2> HIDE DEF C1, C2, C3, C4
    <2>1. C1 \o C2 \in Seq(AllFacts) /\ C1 \o C2 \o C3 \in Seq(AllFacts)
        BY <1>3
    <2>2. Said(C1 \o C2) = Said(C1) \cup Said(C2)
        BY <1>3, SaidOfBoth
    <2>3. Said((C1 \o C2) \o C3) = Said(C1 \o C2) \cup Said(C3)
        BY <1>3, <2>1, SaidOfBoth
    <2>4. Said(((C1 \o C2) \o C3) \o C4) = Said((C1 \o C2) \o C3) \cup Said(C4)
        BY <1>4, <2>1, SaidOfBoth
    <2> QED BY <2>2, <2>3, <2>4
<1>7. C1 \o C2 \o C3 \o C4 \in Seq(AllFacts)
    <2> HIDE DEF C1, C2, C3, C4
    <2>1. C1 \o C2 \in Seq(AllFacts) /\ C1 \o C2 \o C3 \in Seq(AllFacts)
        BY <1>3
    <2> QED BY <1>4, <2>1
<1> HIDE DEF p
<1>8. /\ Said(C1) = IF p.node = s.node THEN {}
                    ELSE {Fact("LastNodeChanged", "", p.node, s.node)}
      /\ Said(C2) = IF p.order = s.order THEN {}
                    ELSE {Fact("OrderIdChanged", "", p.order, s.order)}
      /\ Said(C3) = IF p.update = s.update THEN {}
                    ELSE {Fact("OrderUpdateChanged", "", p.update, s.update)}
    BY SaidOfChange
<1> HIDE DEF C1, C2, C3, C4
<1>9. /\ Apply(prv, s) \in Seq(AllFacts)
      /\ Said(Apply(prv, s)) = Said(C1) \cup Said(C2) \cup Said(C3) \cup Said(C4)
    BY <1>2, <1>6, <1>7
<1> QED BY <1>5, <1>8, <1>9 DEF p

\* facts.Apply: a picture that shows the state before shows the state after.
LEMMA FactsTellTheChange ==
    ASSUME NEW prv \in States \cup {None}, NEW s \in States, NEW pic \in Pictures,
           Shows(pic, Previous(prv))
    PROVE  LET q == Follow(pic, Apply(prv, s)) IN q \in Pictures /\ Shows(q, s)
<1> DEFINE p == Previous(prv)
           F == Apply(prv, s)
           q == Follow(pic, F)
           Nodes == IF p.node = s.node THEN {}
                    ELSE {Fact("LastNodeChanged", "", p.node, s.node)}
           Orders == IF p.order = s.order THEN {}
                     ELSE {Fact("OrderIdChanged", "", p.order, s.order)}
           Updates == IF p.update = s.update THEN {}
                      ELSE {Fact("OrderUpdateChanged", "", p.update, s.update)}
           Actions == UNION {Said(Transition(p, s.actions[k])) : k \in 1 .. Len(s.actions)}
<1>1. p \in Reports /\ s \in Reports
    BY SentAreReports DEF Previous
<1>2. F \in Seq(AllFacts)
    BY SaidOfApply
<1>3. Said(F) = Nodes \cup Orders \cup Updates \cup Actions
    BY SaidOfApply
<1>4. \A f \in Actions : \E k \in 1 .. Len(s.actions) :
        /\ f.kind = "ActionTransitioned"
        /\ f.id = s.actions[k].id /\ f.next = s.actions[k].status
    <2> SUFFICES ASSUME NEW k \in 1 .. Len(s.actions),
                        NEW f \in Said(Transition(p, s.actions[k]))
                 PROVE  /\ f.kind = "ActionTransitioned"
                        /\ f.id = s.actions[k].id /\ f.next = s.actions[k].status
        OBVIOUS
    <2> DEFINE a == s.actions[k]
    <2> HIDE DEF p, a
    <2>1. Said(Transition(p, a)) =
            IF Entries(p, a.id) # {} /\ StatusIn(p, a.id) = a.status THEN {}
            ELSE {Fact("ActionTransitioned", a.id, StatusIn(p, a.id), a.status)}
        BY SaidOfTransition
    <2> QED BY <2>1 DEF Fact, a
<1> HIDE DEF p
<1>5. /\ \A f \in Nodes : f.kind = "LastNodeChanged" /\ f.next = s.node
      /\ \A f \in Orders : f.kind = "OrderIdChanged" /\ f.next = s.order
      /\ \A f \in Updates : f.kind = "OrderUpdateChanged" /\ f.next = s.update
    <2>1. ASSUME NEW f \in Nodes PROVE f.kind = "LastNodeChanged" /\ f.next = s.node
        <3>1. f = Fact("LastNodeChanged", "", p.node, s.node)
            OBVIOUS
        <3> QED BY <3>1 DEF Fact
    <2>2. ASSUME NEW f \in Orders PROVE f.kind = "OrderIdChanged" /\ f.next = s.order
        <3>1. f = Fact("OrderIdChanged", "", p.order, s.order)
            OBVIOUS
        <3> QED BY <3>1 DEF Fact
    <2>3. ASSUME NEW f \in Updates PROVE f.kind = "OrderUpdateChanged" /\ f.next = s.update
        <3>1. f = Fact("OrderUpdateChanged", "", p.update, s.update)
            OBVIOUS
        <3> QED BY <3>1 DEF Fact
    <2> QED BY <2>1, <2>2, <2>3
<1>6. /\ Nodes = {} => p.node = s.node
      /\ Orders = {} => p.order = s.order
      /\ Updates = {} => p.update = s.update
    OBVIOUS
<1>7. \A f \in Actions : f.kind = "ActionTransitioned"
    BY <1>4
<1>8. q \in Pictures
    BY <1>2, FollowSettles
<1> HIDE DEF F, q, Nodes, Orders, Updates, Actions
<1>9. /\ pic.node = p.node /\ pic.order = p.order /\ pic.update = p.update
      /\ \A k \in 1 .. Len(p.actions) : pic.status[p.actions[k].id] = p.actions[k].status
    BY DEF Shows, p
<1>10. q.node = s.node
    <2>1. OfKind(F, "LastNodeChanged") = Nodes
        BY <1>3, <1>5, <1>7 DEF OfKind
    <2>2. Settles(OfKind(F, "LastNodeChanged"), s.node, pic.node, q.node)
        BY <1>2, FollowSettles DEF q, Ends
    <2> QED BY <1>9, <1>5, <1>6, <2>1, <2>2 DEF Settles, Agree
<1>11. q.order = s.order
    <2>1. OfKind(F, "OrderIdChanged") = Orders
        BY <1>3, <1>5, <1>7 DEF OfKind
    <2>2. Settles(OfKind(F, "OrderIdChanged"), s.order, pic.order, q.order)
        BY <1>2, FollowSettles DEF q, Ends
    <2> QED BY <1>9, <1>5, <1>6, <2>1, <2>2 DEF Settles, Agree
<1>12. q.update = s.update
    <2>1. OfKind(F, "OrderUpdateChanged") = Updates
        BY <1>3, <1>5, <1>7 DEF OfKind
    <2>2. Settles(OfKind(F, "OrderUpdateChanged"), s.update, pic.update, q.update)
        BY <1>2, FollowSettles DEF q, Ends
    <2> QED BY <1>9, <1>5, <1>6, <2>1, <2>2 DEF Settles, Agree
<1>13. ASSUME NEW k \in 1 .. Len(s.actions)
       PROVE  q.status[s.actions[k].id] = s.actions[k].status
    <2> DEFINE a == s.actions[k]
    <2>1. a.id \in ActionIds
        BY <1>1, ReportType
    <2>2. Settles(About(F, a.id), a.status, pic.status[a.id], q.status[a.id])
        BY <1>2, <2>1, FollowSettles DEF q, Ends
    <2>3. Agree(About(F, a.id), a.status)
        <3> SUFFICES ASSUME NEW f \in About(F, a.id) PROVE f.next = a.status
            BY DEF Agree
        <3>1. f.kind = "ActionTransitioned" /\ f.id = a.id /\ f \in Actions
            BY <1>3, <1>5 DEF About, OfKind
        <3>2. PICK j \in 1 .. Len(s.actions) :
                f.id = s.actions[j].id /\ f.next = s.actions[j].status
            BY <1>4, <3>1
        <3>3. j = k
            BY <1>1, <3>1, <3>2 DEF Reports
        <3> QED BY <3>2, <3>3
    <2>4. CASE Entries(p, a.id) # {} /\ StatusIn(p, a.id) = a.status
        <3>1. PICK i \in 1 .. Len(p.actions) : p.actions[i].id = a.id
            BY <2>4 DEF Entries
        <3>2. pic.status[a.id] = a.status
            BY <1>1, <1>9, <2>4, <3>1, StatusReported
        <3> QED BY <2>2, <2>3, <3>2 DEF Settles
    <2>5. CASE ~(Entries(p, a.id) # {} /\ StatusIn(p, a.id) = a.status)
        <3> DEFINE f == Fact("ActionTransitioned", a.id, StatusIn(p, a.id), a.status)
        <3>1. f \in Said(Transition(p, a))
            BY <2>5, SaidOfTransition
        <3>2. f \in About(F, a.id)
            BY <1>3, <3>1 DEF About, OfKind, Fact, Actions
        <3> QED BY <2>2, <2>3, <3>2 DEF Settles
    <2> QED BY <2>4, <2>5
<1> QED BY <1>8, <1>10, <1>11, <1>12, <1>13 DEF Shows, q, F

-----------------------------------------------------------------------------
(***************************************************************************)
(* The route of a state message, and the picture it changes.               *)
(***************************************************************************)
ObserverInv ==
    /\ sent \in [AGVs -> States \cup {None}]
    /\ prev \in [Ids -> States \cup {None}]
    /\ picture \in [Ids -> Pictures]
    /\ \A i \in Ids : Shows(picture[i], Previous(prev[i]))
    /\ \A a \in AGVs : Addressable(a) /\ prev[Id(a)] # None =>
         prev[Id(a)] = sent[a] /\ IsState(Build(a.mfr, a.sn, "state"))

Joined(a, b, c) ==
    /\ Len(c) = Len(a) + Len(b)
    /\ \A k \in 1 .. Len(a) : c[k] = a[k]
    /\ \A k \in 1 .. Len(b) : c[Len(a) + k] = b[k]

LEMMA ConcatJoins ==
    ASSUME NEW T, NEW a \in Seq(T), NEW b \in Seq(T)
    PROVE  a \o b \in Seq(T) /\ Joined(a, b, a \o b)
<1>1. /\ a \o b \in Seq(T) /\ Len(a \o b) = Len(a) + Len(b)
      /\ Len(a) \in Nat /\ Len(b) \in Nat
    OBVIOUS
<1>2. ASSUME NEW k \in 1 .. Len(a) PROVE (a \o b)[k] = a[k]
    OBVIOUS
<1>3. ASSUME NEW k \in 1 .. Len(b) PROVE (a \o b)[Len(a) + k] = b[k]
    BY <1>1
<1> QED BY <1>1, <1>2, <1>3 DEF Joined

\* Build, Parse: a topic of five segments has one for each of its parts.
LEMMA FiveSegments ==
    ASSUME NEW mfr \in Seq(STRING) \ {<< >>}, NEW sn \in Seq(STRING) \ {<< >>}, NEW ch,
           Len(Build(mfr, sn, ch)) = 5
    PROVE  /\ Len(mfr) = 1 /\ Len(sn) = 1
           /\ Identity(Build(mfr, sn, ch)) = <<mfr[1], sn[1]>>
           /\ Build(mfr, sn, ch)[5] = ch
<1> DEFINE T == STRING \cup {ch}
<1>1. /\ Interface \in Seq(T) /\ Version \in Seq(T) /\ mfr \in Seq(T) /\ sn \in Seq(T)
      /\ <<ch>> \in Seq(T)
    BY ObserverAssumption
<1>2. Len(Interface) >= 1 /\ Len(Version) >= 1 /\ Len(mfr) >= 1 /\ Len(sn) >= 1
    BY ObserverAssumption
<1> HIDE DEF T
<1> DEFINE x == Interface \o Version
           y == x \o mfr
           z == y \o sn
           t == z \o <<ch>>
<1>3. x \in Seq(T) /\ Joined(Interface, Version, x)
    BY <1>1, ConcatJoins
<1> HIDE DEF x
<1>4. y \in Seq(T) /\ Joined(x, mfr, y)
    BY <1>1, <1>3, ConcatJoins
<1> HIDE DEF y
<1>5. z \in Seq(T) /\ Joined(y, sn, z)
    BY <1>1, <1>4, ConcatJoins
<1> HIDE DEF z
<1>6. Joined(z, <<ch>>, t)
    BY <1>1, <1>5, ConcatJoins
<1> HIDE DEF t
<1>7. Build(mfr, sn, ch) = t
    BY DEF Build, t, z, y, x
<1>8. /\ Len(Interface) \in Nat /\ Len(Version) \in Nat /\ Len(mfr) \in Nat /\ Len(sn) \in Nat
      /\ Len(x) \in Nat /\ Len(y) \in Nat /\ Len(z) \in Nat
    BY <1>1, <1>3, <1>4, <1>5
<1>9. /\ Len(x) = Len(Interface) + Len(Version) /\ Len(y) = Len(x) + Len(mfr)
      /\ Len(z) = Len(y) + Len(sn) /\ Len(z) + Len(<<ch>>) = 5 /\ Len(<<ch>>) = 1
    BY <1>3, <1>4, <1>5, <1>6, <1>7 DEF Joined
<1>10. Len(mfr) = 1 /\ Len(sn) = 1 /\ Len(x) = 2 /\ Len(y) = 3 /\ Len(z) = 4
    <2>1. ASSUME NEW i \in Nat, NEW v \in Nat, NEW m \in Nat, NEW n \in Nat,
                 i >= 1, v >= 1, m >= 1, n >= 1, ((i + v) + m) + n + 1 = 5
          PROVE  i = 1 /\ v = 1 /\ m = 1 /\ n = 1
        BY <2>1
    <2>2. ((Len(Interface) + Len(Version)) + Len(mfr)) + Len(sn) + 1 = 5
        BY <1>8, <1>9
    <2>3. Len(Interface) = 1 /\ Len(Version) = 1 /\ Len(mfr) = 1 /\ Len(sn) = 1
        BY <1>2, <1>8, <2>1, <2>2
    <2> QED BY <1>9, <2>3
<1>11. y[3] = mfr[1]
    BY <1>4, <1>10 DEF Joined
<1>12. z[3] = y[3] /\ z[4] = sn[1]
    BY <1>5, <1>10 DEF Joined
<1>13. t[3] = z[3] /\ t[4] = z[4] /\ t[5] = ch
    BY <1>6, <1>10 DEF Joined
<1> QED BY <1>7, <1>10, <1>11, <1>12, <1>13 DEF Identity

\* The last segment of a topic is its channel.
LEMMA ChannelIsLast ==
    ASSUME NEW mfr \in Seq(STRING) \cup {Plus}, NEW sn \in Seq(STRING) \cup {Plus}, NEW ch
    PROVE  Build(mfr, sn, ch)[Len(Build(mfr, sn, ch))] = ch
<1> DEFINE T == STRING \cup {ch, "+"}
           y == Interface \o Version \o mfr \o sn
<1>1. /\ Interface \in Seq(T) /\ Version \in Seq(T) /\ mfr \in Seq(T) /\ sn \in Seq(T)
      /\ <<ch>> \in Seq(T)
    <2>1. Plus \in Seq(T)
        BY DEF Plus
    <2>2. \A n \in Seq(STRING) : n \in Seq(T)
        OBVIOUS
    <2> QED BY <2>1, <2>2, ObserverAssumption
<1> HIDE DEF T
<1>2. y \in Seq(T)
    BY <1>1
<1> HIDE DEF y
<1>3. Len(y \o <<ch>>) = Len(y) + 1 /\ (y \o <<ch>>)[Len(y) + 1] = ch
    BY <1>1, <1>2
<1> QED BY <1>3 DEF Build, y

\* What is delivered as a state of an AGV came from the state topic of that AGV.
LEMMA StateRoute ==
    ASSUME NEW a \in AGVs, NEW ch \in Channels, IsState(Build(a.mfr, a.sn, ch))
    PROVE  /\ Addressable(a) /\ Identity(Build(a.mfr, a.sn, ch)) = Id(a)
           /\ ch = "state"
<1> DEFINE t == Build(a.mfr, a.sn, ch)
           f == SubscriptionFilter(Scope.mfr, Scope.sn, "state")
<1>1. a.mfr \in Seq(STRING) \ {<< >>} /\ a.sn \in Seq(STRING) \ {<< >>}
    BY ObserverAssumption
<1>2. Len(t) = 5
    BY DEF IsState, Parses
<1>3. Addressable(a) /\ Identity(t) = Id(a) /\ t[5] = ch
    BY <1>1, <1>2, FiveSegments DEF Addressable, Id
<1>4. f[Len(f)] = "state"
    <2> DEFINE m == IF Scope.mfr = Unset THEN Plus ELSE Scope.mfr
               n == IF Scope.sn = Unset THEN Plus ELSE Scope.sn
    <2>1. m \in Seq(STRING) \cup {Plus} /\ n \in Seq(STRING) \cup {Plus}
        BY ObserverAssumption
    <2>2. f = Build(m, n, "state")
        BY DEF SubscriptionFilter
    <2> HIDE DEF m, n, f
    <2> QED BY <2>1, <2>2, ChannelIsLast
<1>5. Len(f) = 5 /\ f[5] \in {"+", "#", t[5]}
    <2> HIDE DEF t, f
    <2>1. MatchFilter(f, t)
        BY DEF IsState, t, f
    <2> QED BY <1>2, <2>1 DEF MatchFilter
<1> QED BY <1>3, <1>4, <1>5

LEMMA NamesAreIds ==
    ASSUME NEW a \in AGVs, NEW b \in AGVs, Addressable(a), Addressable(b), Id(a) = Id(b)
    PROVE  a = b
<1>1. ASSUME NEW c \in AGVs, Addressable(c)
      PROVE  c = [mfr |-> <<Id(c)[1]>>, sn |-> <<Id(c)[2]>>]
    <2>1. c \in [mfr : Seq(STRING) \ {<< >>}, sn : Seq(STRING) \ {<< >>}]
        BY ObserverAssumption
    <2>2. c.mfr = <<c.mfr[1]>> /\ c.sn = <<c.sn[1]>>
        BY <1>1, <2>1 DEF Addressable
    <2> QED BY <2>1, <2>2 DEF Id
<1> QED BY <1>1

LEMMA NothingShown == NoPicture \in Pictures /\ Shows(NoPicture, Empty)
<1>1. NoPicture \in Pictures
    BY DEF NoPicture, Pictures, Text
<1>2. Len(<< >>) = 0 /\ 1 .. 0 = {}
    OBVIOUS
<1>3. Empty.actions = << >>
    BY DEF Empty
<1>4. \A k \in 1 .. Len(Empty.actions) :
        NoPicture.status[Empty.actions[k].id] = Empty.actions[k].status
    BY <1>2, <1>3
<1>5. /\ NoPicture.node = Empty.node /\ NoPicture.order = Empty.order
      /\ NoPicture.update = Empty.update
    BY DEF NoPicture, Empty
<1> QED BY <1>1, <1>4, <1>5 DEF Shows

\* A message that is not a state of an AGV changes nothing, and one that is
\* changes what is known about that AGV alone.
LEMMA ReceiveOthers ==
    ASSUME NEW t, NEW s, Receive(t, s), ~(IsState(t) /\ Identity(t) \in Ids)
    PROVE  prev' = prev /\ picture' = picture
BY DEF Receive, Deliver

LEMMA ReceiveState ==
    ASSUME NEW t, NEW s \in States, Receive(t, s), IsState(t), Identity(t) \in Ids,
           ObserverInv
    PROVE  /\ prev' = [prev EXCEPT ![Identity(t)] = s]
           /\ prev' \in [Ids -> States \cup {None}]
           /\ picture' \in [Ids -> Pictures]
           /\ \A i \in Ids : Shows(picture'[i], Previous(prev'[i]))
<1> DEFINE j == Identity(t)
           q == Follow(picture[j], Apply(prev[j], s))
<1>1. prev' = [prev EXCEPT ![j] = s] /\ picture' = [picture EXCEPT ![j] = q]
    BY DEF Receive, Classify, Deliver, Observe
<1>2. q \in Pictures /\ Shows(q, s)
    <2>1. /\ prev[j] \in States \cup {None} /\ picture[j] \in Pictures
          /\ Shows(picture[j], Previous(prev[j]))
        BY DEF ObserverInv
    <2> QED BY <2>1, FactsTellTheChange
<1>3. Previous(s) = s
    BY ObserverAssumption DEF Previous
<1> HIDE DEF j, q
<1>4. j \in Ids /\ j = Identity(t)
    BY DEF j
<1>5. prev' \in [Ids -> States \cup {None}] /\ picture' \in [Ids -> Pictures]
    BY <1>1, <1>2, <1>4 DEF ObserverInv
<1>6. ASSUME NEW i \in Ids PROVE Shows(picture'[i], Previous(prev'[i]))
    <2>1. CASE i = j
        <3>1. picture'[i] = q /\ prev'[i] = s
            BY <1>1, <2>1 DEF ObserverInv
        <3> QED BY <1>2, <1>3, <3>1
    <2>2. CASE i # j
        <3>1. picture'[i] = picture[i] /\ prev'[i] = prev[i]
            BY <1>1, <2>2 DEF ObserverInv
        <3> QED BY <3>1 DEF ObserverInv
    <2> QED BY <2>1, <2>2
<1> QED BY <1>1, <1>4, <1>5, <1>6

LEMMA SendKeeps ==
    ASSUME ObserverInv, NEW a \in AGVs, NEW ch \in Channels, NEW s \in States, Send(a, ch, s)
    PROVE  ObserverInv'
<1> DEFINE t == Build(a.mfr, a.sn, ch)
<1>1. Receive(t, s) /\ sent' = IF ch = "state" THEN [sent EXCEPT ![a] = s] ELSE sent
    BY DEF Send
<1>2. sent' \in [AGVs -> States \cup {None}]
    BY <1>1 DEF ObserverInv
<1>3. CASE IsState(t)
    <2>1. Addressable(a) /\ Identity(t) = Id(a) /\ ch = "state" /\ Id(a) \in Ids
        BY <1>3, StateRoute DEF Ids
    <2>2. /\ prev' = [prev EXCEPT ![Id(a)] = s] /\ prev' \in [Ids -> States \cup {None}]
          /\ picture' \in [Ids -> Pictures]
          /\ \A i \in Ids : Shows(picture'[i], Previous(prev'[i]))
        BY <1>1, <1>3, <2>1, ReceiveState
    <2>3. ASSUME NEW b \in AGVs, Addressable(b), prev'[Id(b)] # None
          PROVE  prev'[Id(b)] = sent'[b] /\ IsState(Build(b.mfr, b.sn, "state"))
        <3>1. CASE a = b
            BY <1>1, <1>3, <2>1, <2>2, <3>1 DEF ObserverInv
        <3>2. CASE a # b
            <4>1. Id(a) # Id(b) /\ Id(b) \in Ids
                BY <2>1, <2>3, <3>2, NamesAreIds DEF Ids
            <4>2. prev'[Id(b)] = prev[Id(b)] /\ sent'[b] = sent[b]
                BY <1>1, <2>2, <3>2, <4>1 DEF ObserverInv
            <4> QED BY <2>3, <4>2 DEF ObserverInv
        <3> QED BY <3>1, <3>2
    <2> QED BY <1>2, <2>2, <2>3 DEF ObserverInv
<1>4. CASE ~IsState(t)
    <2>1. prev' = prev /\ picture' = picture
        BY <1>1, <1>4, ReceiveOthers
    <2>2. ASSUME NEW b \in AGVs, Addressable(b), prev[Id(b)] # None
          PROVE  prev[Id(b)] = sent'[b]
        <3>1. IsState(Build(b.mfr, b.sn, "state")) /\ prev[Id(b)] = sent[b]
            BY <2>2 DEF ObserverInv
        <3>2. ~(a = b /\ ch = "state")
            BY <1>4, <3>1
        <3>3. sent'[b] = sent[b]
            BY <1>1, <3>2 DEF ObserverInv
        <3> QED BY <3>1, <3>3
    <2> QED BY <1>2, <2>1, <2>2 DEF ObserverInv
<1> QED BY <1>3, <1>4

LEMMA StrayKeeps ==
    ASSUME ObserverInv, NEW t \in StrayTopics, NEW s \in States, Stray(t, s)
    PROVE  ObserverInv'
<1>1. ~(IsState(t) /\ Identity(t) \in Ids)
    BY ObserverAssumption
<1>2. UNCHANGED <<sent, prev, picture>>
    BY <1>1, ReceiveOthers DEF Stray
<1> QED BY <1>2 DEF ObserverInv

LEMMA ForgetKeeps ==
    ASSUME ObserverInv, NEW j \in Ids, Forget(j)
    PROVE  ObserverInv'
<1>1. /\ prev' = [prev EXCEPT ![j] = None]
      /\ picture' = [picture EXCEPT ![j] = NoPicture] /\ sent' = sent
    BY DEF Forget
<1>2. ASSUME NEW i \in Ids PROVE Shows(picture'[i], Previous(prev'[i]))
    <2>1. CASE i = j
        <3>1. picture'[i] = NoPicture /\ Previous(prev'[i]) = Empty
            BY <1>1, <2>1 DEF ObserverInv, Previous
        <3> QED BY <3>1, NothingShown
    <2>2. CASE i # j
        <3>1. picture'[i] = picture[i] /\ prev'[i] = prev[i]
            BY <1>1, <2>2 DEF ObserverInv
        <3> QED BY <3>1 DEF ObserverInv
    <2> QED BY <2>1, <2>2
<1>3. ASSUME NEW b \in AGVs, Addressable(b), prev'[Id(b)] # None
      PROVE  prev'[Id(b)] = sent'[b] /\ IsState(Build(b.mfr, b.sn, "state"))
    <2>1. Id(b) \in Ids
        BY <1>3 DEF Ids
    <2>2. prev'[Id(b)] = prev[Id(b)]
        BY <1>1, <1>3, <2>1 DEF ObserverInv
    <2> QED BY <1>1, <1>3, <2>2 DEF ObserverInv
<1>4. /\ sent' \in [AGVs -> States \cup {None}]
      /\ prev' \in [Ids -> States \cup {None}]
      /\ picture' \in [Ids -> Pictures]
    BY <1>1, NothingShown DEF ObserverInv
<1> QED BY <1>2, <1>3, <1>4 DEF ObserverInv

LEMMA StartsEmpty == Init => ObserverInv
<1> SUFFICES ASSUME Init PROVE ObserverInv
    OBVIOUS
<1>1. ASSUME NEW i \in Ids PROVE Shows(picture[i], Previous(prev[i])) /\ prev[i] = None
    <2>1. picture[i] = NoPicture /\ prev[i] = None
        BY DEF Init
    <2> QED BY <2>1, NothingShown DEF Previous
<1>2. \A a \in AGVs : Addressable(a) => Id(a) \in Ids
    BY DEF Ids
<1>3. /\ sent \in [AGVs -> States \cup {None}]
      /\ prev \in [Ids -> States \cup {None}]
      /\ picture \in [Ids -> Pictures]
    BY NothingShown DEF Init
<1> QED BY <1>1, <1>2, <1>3 DEF ObserverInv

\* facts.Apply, SubscriptionFilter, Parse: whoever follows the facts knows of an
\* AGV what its last state said, for any AGVs and states, however they interleave,
\* whatever else is sent on other topics and whenever an AGV is forgotten.
THEOREM FactsTellTheState == Spec => []PictureFollows
<1>1. Init => ObserverInv
    BY StartsEmpty
<1>2. ObserverInv /\ [Next]_vars => ObserverInv'
  <2> SUFFICES ASSUME ObserverInv, [Next]_vars PROVE ObserverInv'
      OBVIOUS
  <2>1. CASE \E a \in AGVs, ch \in Channels, s \in States : Send(a, ch, s)
      BY <2>1, SendKeeps
  <2>2. CASE \E t \in StrayTopics, s \in States : Stray(t, s)
      BY <2>2, StrayKeeps
  <2>3. CASE \E i \in Ids : Forget(i)
      BY <2>3, ForgetKeeps
  <2>4. CASE UNCHANGED vars
      BY <2>4 DEF vars, ObserverInv
  <2> QED BY <2>1, <2>2, <2>3, <2>4 DEF Next
<1>3. ObserverInv => PictureFollows
  <2> SUFFICES ASSUME ObserverInv, NEW a \in AGVs, Addressable(a), prev[Id(a)] # None
               PROVE  LET p == picture[Id(a)]
                          s == sent[a]
                      IN  /\ s # None
                          /\ <<p.node, p.order, p.update>> = <<s.node, s.order, s.update>>
                          /\ \A k \in 1 .. Len(s.actions) :
                               p.status[s.actions[k].id] = s.actions[k].status
      BY DEF PictureFollows
  <2>1. Id(a) \in Ids /\ prev[Id(a)] = sent[a]
      BY DEF ObserverInv, Ids
  <2>2. Shows(picture[Id(a)], sent[a])
      BY <2>1 DEF ObserverInv, Previous
  <2> QED BY <2>1, <2>2 DEF Shows
<1> QED BY <1>1, <1>2, <1>3, PTL DEF Spec
=============================================================================
