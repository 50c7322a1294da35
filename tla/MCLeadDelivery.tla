--------------------------- MODULE MCLeadDelivery ---------------------------
(* LeadDelivery on small instances: a lead that is refused, one that       *)
(* nobody is known to have written and that stays parked, and one that     *)
(* goes out when its author is known.                                      *)
EXTENDS LeadDelivery

CONSTANTS p1, p2, a1

OnePusher == {p1}
TwoPushers == {p1, p2}
OneAuthor == {a1}
SameAuthor == [l \in Leads |-> a1]
Nobody == {}
First == {1}
Second == {2}
Third == {3}
=============================================================================
