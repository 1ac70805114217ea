----------------------------- MODULE TradeCustody -----------------------------
(***************************************************************************)
(* What the escrow promises about the money of one trade, without clocks,  *)
(* roles, claims or disputes: a deposit of fees and two tranches is        *)
(* refunded in full, or its fees and first tranche are released and then,  *)
(* once, the second tranche goes either to the supplier or to the buyer.   *)
(* Fees are all the treasury ever gets (contracts/src/AgroasysEscrow.sol,  *)
(* lines 10-21).                                                           *)
(***************************************************************************)
EXTENDS Naturals

CONSTANTS
  Trades,    \* identifiers of trades
  Amounts    \* the amounts a deposit may be made of, natural numbers

VARIABLE books   \* the money of each trade: its terms and where it is

\* The books of a trade that does not exist yet.
NoBooks ==
  [fees |-> 0, first |-> 0, second |-> 0,
   held |-> 0, toBuyer |-> 0, toSupplier |-> 0, toTreasury |-> 0]

Init == books = [t \in Trades |-> NoBooks]

Deposit(t) ==
  /\ books[t] = NoBooks
  /\ \E fees \in Amounts, first, second \in Amounts \ {0} :
       books' = [books EXCEPT ![t] =
         [fees |-> fees, first |-> first, second |-> second,
          held |-> fees + first + second,
          toBuyer |-> 0, toSupplier |-> 0, toTreasury |-> 0]]

\* Nothing of the deposit of trade t has left yet.
Untouched(t) ==
  /\ books[t].held > 0
  /\ books[t].held = books[t].fees + books[t].first + books[t].second

Refund(t) ==
  /\ Untouched(t)
  /\ books' = [books EXCEPT ![t].held = 0, ![t].toBuyer = books[t].held]

Release(t) ==
  /\ Untouched(t)
  /\ books' = [books EXCEPT ![t].held = books[t].second,
                            ![t].toSupplier = books[t].first,
                            ![t].toTreasury = books[t].fees]

\* Only the second tranche is left, and it leaves for good.
Settle(t) ==
  /\ books[t].held > 0
  /\ books[t].held = books[t].second
  /\ \/ books' = [books EXCEPT ![t].held = 0,
                               ![t].toSupplier = books[t].toSupplier + books[t].second]
     \/ books' = [books EXCEPT ![t].held = 0, ![t].toBuyer = books[t].second]

Next == \E t \in Trades : Deposit(t) \/ Refund(t) \/ Release(t) \/ Settle(t)

Spec == Init /\ [][Next]_books

===============================================================================
