--------------------------- MODULE MCAgroasysEscrow ---------------------------
(***************************************************************************)
(* Small instances of AgroasysEscrow.  a1 and a2 are the admins, b and s   *)
(* trade with each other, y is the oracle and the treasury.                *)
(***************************************************************************)
EXTENDS AgroasysEscrow, TLC

CONSTANTS a1, a2, b, s, y, h

FiveAccounts == {a1, a2, b, s, y}

FourAccounts == {a1, b, s, y}

OneAdmin == {a1}

TwoAdmins == {a1, a2}

OneHash == {h}

\* The parts of an order have different sizes, so that a mix-up shows.
GoodOrder ==
  [supplier |-> s, ricardianHash |-> h, total |-> 10,
   logistics |-> 1, platformFees |-> 2, firstTranche |-> 3, secondTranche |-> 4]

\* What createTrade refuses: a wrong sum, an empty tranche, no supplier, no hash.
BadOrders ==
  {[GoodOrder EXCEPT !.total = 9],
   [GoodOrder EXCEPT !.total = 6, !.secondTranche = 0],
   [GoodOrder EXCEPT !.supplier = ZeroAddress],
   [GoodOrder EXCEPT !.ricardianHash = ZeroHash]}

SingleOrder == {GoodOrder}

OneWayOrders == {GoodOrder} \cup BadOrders

\* b can pay one good order.
Balances == [a \in Accounts |-> IF a = b THEN 10 ELSE 0]

NoProposals == [k \in Kinds |-> 0]

OnePayoutUpdate == [oracle |-> 0, admin |-> 0, payout |-> 1]

AdminSymmetry == Permutations(TwoAdmins)

===============================================================================
