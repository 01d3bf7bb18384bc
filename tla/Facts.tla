-------------------------------- MODULE Facts --------------------------------
(***************************************************************************)
(* facts.Apply (facts/facts.go): what changed between two states of an     *)
(* AGV.  A state is its node, order, order update and action states; the   *)
(* last are a sequence of [id, status].  Action types, and the order ID    *)
(* that goes with an update, are left out.                                 *)
(***************************************************************************)
EXTENDS Naturals, Sequences

CONSTANT None       \* no state, prev = nil

Empty == [node |-> "", order |-> "", update |-> 0, actions |-> << >>]

Fact(kind, id, prev, next) ==
    [kind |-> kind, id |-> id, prev |-> prev, next |-> next]

Changed(kind, prev, next) ==
    IF prev = next THEN << >> ELSE <<Fact(kind, "", prev, next)>>

\* prevActions: the entry for an action in state s, the last if there are several.
Entries(s, id) == {i \in 1 .. Len(s.actions) : s.actions[i].id = id}
StatusIn(s, id) ==
    LET at == Entries(s, id)
    IN  IF at = {} THEN ""
        ELSE s.actions[CHOOSE i \in at : \A j \in at : j <= i].status

\* The facts about one action state of next.
Transition(prev, a) ==
    IF Entries(prev, a.id) # {} /\ StatusIn(prev, a.id) = a.status THEN << >>
    ELSE <<Fact("ActionTransitioned", a.id, StatusIn(prev, a.id), a.status)>>

\* The loop over next.ActionStates.
Transitions(prev, actions) ==
    LET out[i \in 0 .. Len(actions)] ==
          IF i = 0 THEN << >> ELSE out[i - 1] \o Transition(prev, actions[i])
    IN  out[Len(actions)]

\* Mutant: the update is compared only if the order is the same.
MutApply(prev, next) ==
    LET p == IF prev = None THEN Empty ELSE prev IN
    Changed("LastNodeChanged", p.node, next.node)
    \o Changed("OrderIdChanged", p.order, next.order)
    \o (IF p.order = next.order
        THEN Changed("OrderUpdateChanged", p.update, next.update) ELSE << >>)
    \o Transitions(p, next.actions)

Apply(prev, next) ==
    LET p == IF prev = None THEN Empty ELSE prev IN
    Changed("LastNodeChanged", p.node, next.node)
    \o Changed("OrderIdChanged", p.order, next.order)
    \o Changed("OrderUpdateChanged", p.update, next.update)
    \o Transitions(p, next.actions)
=============================================================================
