---------------------------- MODULE TradeLifecycle ----------------------------
(***************************************************************************)
(* The life of one trade of contracts/src/AgroasysEscrow.sol as the other  *)
(* services see it: its status, the milestones that have been executed for *)
(* it, whether its dispute window is over, and the two switches that stop  *)
(* it.  Amounts, accounts and clocks are left out.  AgroasysEscrow         *)
(* implements this module for each of its trades, and OracleService runs   *)
(* against it.                                                             *)
(***************************************************************************)

VARIABLES
  status,        \* status of the trade, NONE before it is created
  done,          \* the milestones that were executed on-chain
  windowOver,    \* the dispute window has passed
  paused,
  oracleActive

tradeVars  == <<status, done, windowOver>>
switchVars == <<paused, oracleActive>>
chainVars  == <<tradeVars, switchVars>>

\* The milestones, by the names that the oracle service has for them.
TriggerTypes == {"RELEASE_STAGE_1", "CONFIRM_ARRIVAL", "FINALIZE_TRADE"}

Statuses == {"NONE", "LOCKED", "IN_TRANSIT", "ARRIVAL_CONFIRMED", "FROZEN", "CLOSED"}

\* The status a milestone requires, and the one it leads to.
Before(type) ==
  CASE type = "RELEASE_STAGE_1" -> "LOCKED"
    [] type = "CONFIRM_ARRIVAL" -> "IN_TRANSIT"
    [] type = "FINALIZE_TRADE"  -> "ARRIVAL_CONFIRMED"

After(type) ==
  CASE type = "RELEASE_STAGE_1" -> "IN_TRANSIT"
    [] type = "CONFIRM_ARRIVAL" -> "ARRIVAL_CONFIRMED"
    [] type = "FINALIZE_TRADE"  -> "CLOSED"

LifecycleInit ==
  /\ status = "NONE"
  /\ done = {}
  /\ windowOver = FALSE
  /\ paused = FALSE
  /\ oracleActive = TRUE

Create ==
  /\ ~paused
  /\ status = "NONE"
  /\ status' = "LOCKED"
  /\ UNCHANGED <<done, windowOver, switchVars>>

\* The contract accepts a transaction that asks for this milestone.
Accepts(type) ==
  /\ ~paused
  /\ status = Before(type)
  /\ IF type = "FINALIZE_TRADE" THEN windowOver ELSE oracleActive

Milestone(type) ==
  /\ Accepts(type)
  /\ status' = After(type)
  /\ done' = done \cup {type}
  /\ UNCHANGED <<windowOver, switchVars>>

\* The buyer's two timeouts.
Withdraw ==
  /\ ~paused
  /\ status \in {"LOCKED", "IN_TRANSIT"}
  /\ status' = "CLOSED"
  /\ UNCHANGED <<done, windowOver, switchVars>>

Dispute ==
  /\ ~paused
  /\ status = "ARRIVAL_CONFIRMED"
  /\ ~windowOver
  /\ status' = "FROZEN"
  /\ UNCHANGED <<done, windowOver, switchVars>>

\* The admins' quorum decides a dispute, either way.
Decide ==
  /\ ~paused
  /\ status = "FROZEN"
  /\ status' = "CLOSED"
  /\ UNCHANGED <<done, windowOver, switchVars>>

WindowPasses ==
  /\ "CONFIRM_ARRIVAL" \in done
  /\ ~windowOver
  /\ windowOver' = TRUE
  /\ UNCHANGED <<status, done, switchVars>>

\* Pauses, unpauses, the oracle kill switch and its governance recovery.
Switch ==
  /\ paused' \in BOOLEAN
  /\ oracleActive' \in BOOLEAN
  /\ switchVars' # switchVars
  /\ UNCHANGED tradeVars

LifecycleNext ==
  \/ Create
  \/ \E type \in TriggerTypes : Milestone(type)
  \/ Withdraw
  \/ Dispute
  \/ Decide
  \/ WindowPasses
  \/ Switch

LifecycleSpec == LifecycleInit /\ [][LifecycleNext]_chainVars

===============================================================================
