------------------------------ MODULE AtLeastOnce ------------------------------
(***************************************************************************)
(* What the consumer group promises about the events the broker has        *)
(* stored: nothing is handled that was not sent, what was handled stays    *)
(* so, and every message is handled in the end, perhaps more than once.    *)
(***************************************************************************)
CONSTANT Messages

VARIABLES sent,     \* the messages the broker has stored
          handled   \* those that were given to an event handler

Init == sent = {} /\ handled = {}

Send(m) ==
  /\ m \notin sent
  /\ sent' = sent \cup {m}
  /\ UNCHANGED handled

Handle(m) ==
  /\ m \in sent
  /\ handled' = handled \cup {m}
  /\ UNCHANGED sent

Next == \E m \in Messages : Send(m) \/ Handle(m)

Spec == Init /\ [][Next]_<<sent, handled>>

Delivery == \A m \in Messages : m \in sent ~> m \in handled

FairSpec == Spec /\ Delivery
================================================================================
