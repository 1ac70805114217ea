-------------------------- MODULE MCEscrowGovernance --------------------------
(***************************************************************************)
(* A small instance of EscrowGovernance.  a1 and a2 deploy the contract as *)
(* its admins; x, the first oracle and the treasury, may become an admin,  *)
(* and an admin the oracle or the payout receiver.                         *)
(***************************************************************************)
EXTENDS EscrowGovernance, TLC

CONSTANTS a1, a2, x

ThreeAccounts == {a1, a2, x}

TwoAdmins == {a1, a2}

\* One proposal of each kind; the oracle's may be an emergency one.
OneOfEachKind == [oracle |-> 1, admin |-> 1, payout |-> 1]

\* No constant tells the admins of the constructor apart.
TwoAdminSymmetry == Permutations(TwoAdmins)

===============================================================================
