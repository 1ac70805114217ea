------------------------------ MODULE MCBuyerSDK -------------------------------
(***************************************************************************)
(* The calls of the buyer b on a small contract: a1 is the only admin, s   *)
(* the supplier, y the oracle and the treasury.                            *)
(***************************************************************************)
EXTENDS MCAgroasysEscrow, BuyerSDK

CONSTANTS c1, c2

TwoCalls == {c1, c2}

\* A smaller order without fees.
SmallOrder ==
  [supplier |-> s, ricardianHash |-> h, total |-> 3, logistics |-> 0, platformFees |-> 0,
   firstTranche |-> 1, secondTranche |-> 2]

\* With the default deadline, with one of its own, and one the SDK refuses.
SomeParams ==
  {[order |-> GoodOrder, deadline |-> 0], [order |-> SmallOrder, deadline |-> 1]}
  \cup {[order |-> o, deadline |-> 0] : o \in BadOrders}

OrdersTried == OneWayOrders \cup {SmallOrder}

\* Enough for both orders.
BuyerFunds == [a \in Accounts |-> IF a = b THEN 13 ELSE 0]

CallSymmetry == Permutations(TwoCalls)

===============================================================================
