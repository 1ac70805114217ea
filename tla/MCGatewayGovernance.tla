------------------------- MODULE MCGatewayGovernance --------------------------
(***************************************************************************)
(* A small instance of GatewayGovernance: two admins who queue, sign and   *)
(* call, an address x that is oracle and treasury and an address y that    *)
(* proposals name.  The contract is met in four situations between which   *)
(* every method is callable.                                               *)
(***************************************************************************)
EXTENDS GatewayGovernance, TLC

CONSTANTS a1, a2, x, y, e1, e2

FourAccounts == {a1, a2, x, y}

TwoAdmins == {a1, a2}

OnlyY == {y}

TwoActions == 1 .. 2

OneExecutor == {e1}

TwoExecutors == {e1, e2}

OneOfEach == [oracle |-> 1, admin |-> 1, payout |-> 1]

\* A proposal for y made at time t with timelock d and approved by some admins.
Made(t, d, approvedBy) ==
  [target |-> y, approvedBy |-> approvedBy, approvalCount |-> Cardinality(approvedBy),
   executed |-> FALSE, cancelled |-> FALSE, createdAt |-> t, eta |-> t + d,
   expiresAt |-> t + GovernanceProposalTTL, fastTrack |-> (d = 0)]

Found(oracle, admin, payout) ==
  [k \in Kinds |-> [id \in ProposalIds |->
     CASE k = "oracle" -> oracle [] k = "admin" -> admin [] k = "payout" -> payout]]

\* It is time 3: a proposal made at 3 is open, one made at 2 is at the end of its
\* timelock and of its life, one made at 1 has expired.
FourSituations ==
  \* Running; a payout receiver update waits for its second approval.
  {[now |-> 3, paused |-> FALSE, claimsPaused |-> FALSE, oracleActive |-> TRUE,
    approvedUnpause |-> {}, proposals |-> Found(Made(1, 1, {a}), Made(3, 1, {a}), Made(3, 1, {a}))] : a \in TwoAdmins}
  \cup
  \* Incident; the oracle is disabled and its replacement waits for an approval.
  {[now |-> 3, paused |-> TRUE, claimsPaused |-> TRUE, oracleActive |-> FALSE,
    approvedUnpause |-> {}, proposals |-> Found(Made(3, 0, {a}), Made(1, 1, {a}), NoProposal)] : a \in TwoAdmins}
  \cup
  \* Recovery; an unpause is proposed, a payout receiver update can be executed.
  {[now |-> 3, paused |-> TRUE, claimsPaused |-> FALSE, oracleActive |-> TRUE,
    approvedUnpause |-> {a}, proposals |-> Found(NoProposal, NoProposal, Made(2, 1, TwoAdmins))] : a \in TwoAdmins}
  \cup
  \* Paused; an oracle update can be executed, a payout receiver update expired.
  {[now |-> 3, paused |-> TRUE, claimsPaused |-> FALSE, oracleActive |-> TRUE,
    approvedUnpause |-> {}, proposals |-> Found(Made(2, 1, TwoAdmins), Made(2, 1, TwoAdmins), Made(1, 1, {a}))] : a \in TwoAdmins}

\* Nothing tells the two admins, or the two executors, apart.
InstanceSymmetry == Permutations(TwoAdmins) \cup Permutations(TwoExecutors)

===============================================================================
