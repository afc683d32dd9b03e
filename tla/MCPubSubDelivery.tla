--------------------------- MODULE MCPubSubDelivery ---------------------------
(* Instances of PubSubDelivery for TLC.  Dead-letter limits and retention bounds are scaled
   down from 5..100 attempts and 100,000 messages so that both are reached. *)
EXTENDS PubSubDelivery

OneKey == {"k"}

Base == [ordered |-> TRUE, push |-> FALSE, separate |-> FALSE, limit |-> 1, retry |-> <<>>, retain |-> 2]

PulledOrdered == Base
Pushed        == [Base EXCEPT !.push = TRUE]
Separating    == [Base EXCEPT !.separate = TRUE, !.limit = 2, !.retry = <<1, 2>>, !.retain = 3]
Unordered     == [Base EXCEPT !.ordered = FALSE]

Everything == {PulledOrdered, Pushed, Separating, Unordered}
Tight == {[Base EXCEPT !.limit = NoLimit]}
Sizes == {1, 2}
OneSize == {2}
===============================================================================
