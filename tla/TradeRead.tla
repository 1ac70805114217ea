------------------------------ MODULE TradeRead -------------------------------
(***************************************************************************)
(* gateway/src/core/tradeReadService.ts: the trades as the dashboard shows *)
(* them.  A record is made from one query of the indexer's tables; amounts *)
(* and wording are left out, and so is the compliance status, which        *)
(* Compliance models.                                                      *)
(***************************************************************************)
EXTENDS Indexer

\* Any other status is answered by an error.
mapTradeStatus(status) ==
  [LOCKED |-> "locked", IN_TRANSIT |-> "stage_1", ARRIVAL_CONFIRMED |-> "stage_2",
   FROZEN |-> "disputed", CLOSED |-> "completed"][status]

EventStages ==
  [TradeLocked |-> "Lock", FundsReleasedStage1 |-> "Stage 1 Release",
   PlatformFeesPaidStage1 |-> "Platform Fee Settlement", ArrivalConfirmed |-> "Arrival Confirmed",
   FinalTrancheReleased |-> "Final Settlement", DisputeOpenedByBuyer |-> "Dispute Opened",
   TradeCancelledAfterLockTimeout |-> "Lock Timeout Refund",
   InTransitTimeoutRefunded |-> "Transit Timeout Refund",
   DisputePayout |-> "Dispute Payout", ClaimableAccrued |-> "Claim Accrued"]

mapEventStage(name) == EventStages[name]

mapEventActor(name) ==
  CASE name \in {"TradeLocked", "DisputeOpenedByBuyer", "TradeCancelledAfterLockTimeout",
                 "InTransitTimeoutRefunded"} -> "Buyer"
    [] name \in {"FundsReleasedStage1", "ArrivalConfirmed", "FinalTrancheReleased"} -> "Oracle"
    [] name \in {"PlatformFeesPaidStage1", "ClaimableAccrued"} -> "Treasury"
    [] OTHER -> "Governance"

\* The event rows of a trade.
EventsOfTrade(t) ==
  {row \in store.events : row.table = "tradeEvents" /\ row.trade = t}

\* The entries of the rows with one timestamp, in any order.
EntriesAt(rows, time) ==
  FoldSet(LAMBDA row, entries :
            Append(entries, [stage |-> mapEventStage(row.name), actor |-> mapEventActor(row.name),
                             timestamp |-> time]),
          <<>>, {row \in rows : row.time = time})

\* Sorted by timestamp alone.
mapTimeline(rows) ==
  FoldLeft(LAMBDA entries, time : entries \o EntriesAt(rows, time), <<>>, <<1, 2, 3, 4, 5>>)

\* The record of a trade; lockedAt is when the transaction was made that it names.
mapTradeRecord(t) ==
  LET timeline == mapTimeline(EventsOfTrade(t))
      locks    == SelectSeq(timeline, LAMBDA entry : entry.stage = "Lock")
  IN [id        |-> t,
      status    |-> mapTradeStatus(store.trades[t].status),
      timeline  |-> timeline,
      lockedAt  |-> Head(locks \o timeline).timestamp,
      updatedAt |-> Last(timeline).timestamp]

\* A page of the trades, newest first.
listTrades(limit, offset) ==
  LET rows == SetToSortSeq({t \in TradeIds : store.trades[t] # None}, >)
  IN [i \in 1 .. Max({0, Min({limit, Len(rows) - offset})}) |-> mapTradeRecord(rows[offset + i])]

getTradeDetail(t) == IF store.trades[t] = None THEN None ELSE mapTradeRecord(t)

------------------------------------------------------------------------------

\* The status that the stages which are milestones lead to; the others leave it.
Milestones ==
  [Lock |-> "locked"] @@ ("Stage 1 Release" :> "stage_1") @@ ("Arrival Confirmed" :> "stage_2")
  @@ ("Final Settlement" :> "completed") @@ ("Dispute Opened" :> "disputed")
  @@ ("Lock Timeout Refund" :> "completed") @@ ("Transit Timeout Refund" :> "completed")

TellsTheTrade(shown) ==
  LET stages     == [i \in DOMAIN shown.timeline |-> shown.timeline[i].stage]
      milestones == SelectSeq(stages, LAMBDA stage : stage \in DOMAIN Milestones)
      occurred   == {key \in processed :
                       key.trade = shown.id /\ key.name \in DOMAIN EventStages}
  IN /\ shown.status = Milestones[Last(milestones)]
     /\ shown.lockedAt = 1
     /\ Len(stages) = Cardinality(occurred)
     /\ \A i \in 2 .. Len(stages) : shown.timeline[i - 1].timestamp <= shown.timeline[i].timestamp

\* However the blocks are cut into batches, no event is lost or stored twice, and the
\* dashboard tells each trade as it went: its record is there as soon as the trade is
\* indexed, it names the transaction that locked the
\* trade, its timeline holds every event of the trade in the order of their blocks, and
\* its status is the one to which the last milestone of the timeline leads, although
\* status and events are stored by different handlers and in different batches
\* (indexer/main.ts, tradeReadService.ts:245-432).  The list and the trade's own page agree.
DashboardTellsTheTrade ==
  /\ EveryEventHasItsRow
  /\ LET list == listTrades(Cardinality(TradeIds), 0)
     IN /\ Len(list) = Cardinality({t \in TradeIds : asOf.status[t] # "NONE"})
        /\ \A n \in DOMAIN list : TellsTheTrade(list[n]) /\ list[n] = getTradeDetail(list[n].id)

===============================================================================
