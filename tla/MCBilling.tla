------------------------------ MODULE MCBilling ------------------------------
(***************************************************************************)
(* An instance of SubscriptionBilling for TLC: a subscription of the 31st  *)
(* of January 2028, a leap year.                                           *)
(***************************************************************************)
EXTENDS SubscriptionBilling

Monthly == {[duration |-> 1, unit |-> "MONTH"]}
January31 == [month |-> 28 * 12, day |-> 31]
March31 == [month |-> 28 * 12 + 2, day |-> 31]
=============================================================================
