---------------------------- MODULE Reconciliation ----------------------------
(***************************************************************************)
(* reconciliation/src: workers that compare the indexed trades with the    *)
(* trades of the contract, run by run.  A run is known by its key; workers *)
(* that are started with a key already in use look at the run's row first. *)
(* A trade is read from the index with its page and from the chain later.  *)
(***************************************************************************)
EXTENDS Treasury, Listing

CONSTANTS
  RunKeys,
  Workers,
  ReconcileBatchSize,
  MaxTradesPerRun,
  MaxAttempts       \* bound on the number of attempts at a run

\* The rows of reconcile_runs; completedAt and expected belong to a run that is completed.
RunRow ==
  [status : {"RUNNING", "FAILED"}, driftCount : Nat, attempts : Nat \ {0}]
  \cup [status : {"COMPLETED"}, driftCount : Nat, attempts : Nat \ {0}, completedAt : Nat,
         expected : {None} \cup SUBSET TradeIds]

\* What the contract answers of a trade it knows.
OnchainTrade == [status : Statuses, arrived : BOOLEAN, terms : {Terms[t] : t \in TradeIds}]

\* The contract's addresses are checksummed.
Checksummed(address) == [account |-> address.account, form |-> "checksum"]

ASSUME ReconciliationAssumption ==
  /\ ReconcileBatchSize \in Nat \ {0} /\ MaxTradesPerRun \in Nat \ {0}
  /\ None \notin RunKeys \cup RunRow \cup OnchainTrade
  /\ \A t \in TradeIds :
       LET terms == Terms[t]
       IN /\ terms = [buyer |-> Checksummed(terms.buyer), supplier |-> Checksummed(terms.supplier),
                      amounts |-> terms.amounts, hash |-> terms.hash]
          /\ terms.buyer # None /\ terms.supplier # None
          /\ IsFiniteSet(DOMAIN terms.amounts)

VARIABLES
  runs,             \* reconcile_runs, by key
  scope,            \* reconcile_run_trades: the trades each run has looked at
  drifts,           \* reconcile_drifts: the findings of each run
  working           \* what each worker is doing

reconciliationVars == <<runs, scope, drifts, working>>

ReconciliationInit ==
  /\ runs = [k \in RunKeys |-> None]
  /\ scope = [k \in RunKeys |-> {}]
  /\ drifts = [k \in RunKeys |-> {}]
  /\ working = [w \in Workers |-> NoCall]

------------------------------------------------------------------------------
(* Comparison of a trade *)

normalizeAddressOrNull(address) ==
  IF address.form = "invalid" THEN None ELSE [address EXCEPT !.form = "checksum"]

Finding(code, field, severity) == [code |-> code, field |-> field, severity |-> severity]

invalidAddressFinding(source, field) ==
  Finding(IF source = "indexed" THEN "INDEXED_INVALID_ADDRESS" ELSE "ONCHAIN_INVALID_ADDRESS",
          field, "CRITICAL")

compareAmounts(indexed, onchain) ==
  {Finding("AMOUNT_MISMATCH", field, "CRITICAL") :
     field \in {f \in DOMAIN indexed.amounts : indexed.amounts[f] # onchain.amounts[f]}}

CompareParty(indexed, onchain, field) ==
  LET i == normalizeAddressOrNull(indexed[field])
      o == normalizeAddressOrNull(onchain[field])
      invalid == {s \in {"indexed", "onchain"} : (IF s = "indexed" THEN i ELSE o) = None}
  IN IF invalid = {} /\ i # o
     THEN {Finding("PARTICIPANT_MISMATCH", field, "CRITICAL")}
     ELSE {invalidAddressFinding(s, field) : s \in invalid}

\* onchain is None when the contract does not know the trade.
classifyDrifts(indexed, onchain, readError) ==
  IF readError THEN {Finding("ONCHAIN_READ_ERROR", "tradeLookup", "CRITICAL")}
  ELSE IF onchain = None THEN {Finding("ONCHAIN_TRADE_MISSING", "tradePresence", "CRITICAL")}
  ELSE   (IF onchain.status # indexed.status
          THEN {Finding("STATUS_MISMATCH", "status", "HIGH")} ELSE {})
    \cup CompareParty(indexed.terms, onchain.terms, "buyer")
    \cup CompareParty(indexed.terms, onchain.terms, "supplier")
    \cup compareAmounts(indexed.terms, onchain.terms)
    \cup (IF onchain.terms.hash # indexed.terms.hash
          THEN {Finding("HASH_MISMATCH", "ricardianHash", "CRITICAL")} ELSE {})
    \cup (IF onchain.arrived # indexed.arrived
          THEN {Finding("ARRIVAL_TIMESTAMP_MISMATCH", "arrivalTimestamp", "MEDIUM")} ELSE {})

\* The contract's answer, in which addresses are checksummed.
getTrade(t) ==
  IF chain.status[t] = "NONE" THEN None
  ELSE [status |-> chain.status[t], arrived |-> chain.arrived[t], terms |-> Terms[t]]

------------------------------------------------------------------------------
(* A run *)

\* The indexed trades, oldest first.
IndexedTrades == Ordered({t \in TradeIds : store.trades[t] # None}, <)

fetchTrades(limit, offset) ==
  LET ids == IndexedTrades
  IN [i \in 1 .. Min({limit, Max({Len(ids) - offset, 0})}) |->
        [trade |-> ids[offset + i], row |-> store.trades[ids[offset + i]]]]

\* createRun inserts the row, or finds the one that exists; a run that is COMPLETED, or
\* that somebody has left RUNNING, is skipped.  A FAILED run is taken up again.  ticks is
\* ghost: it tells whether the chain or the index has moved since.
reconcileOnce(w, k) ==
  /\ working[w] = NoCall
  /\ runs[k] # None => runs[k].status = "FAILED" /\ runs[k].attempts < MaxAttempts
  /\ runs' = [runs EXCEPT ![k] = IF runs[k] = None THEN [status |-> "RUNNING", driftCount |-> 0, attempts |-> 1]
                                 ELSE [runs[k] EXCEPT !.attempts = @ + 1]]
  /\ working' = [working EXCEPT ![w] =
       [pc |-> "fetch", key |-> k, offset |-> 0, total |-> 0, driftCount |-> 0, page |-> <<>>,
        last |-> FALSE, ticks |-> <<mined, Len(pending)>>]]
  /\ UNCHANGED <<scope, drifts>>

\* Mutant: the next page starts one trade too late.
fetchIndexed_skip(w) ==
  /\ working[w].pc = "fetch"
  /\ LET job   == working[w]
         limit == Min({ReconcileBatchSize, MaxTradesPerRun - job.total})
         page  == fetchTrades(limit, job.offset)
     IN working' = [working EXCEPT ![w] =
          [job EXCEPT !.pc = IF page = <<>> THEN "complete" ELSE "check",
                      !.page = page, !.offset = @ + limit + 1, !.last = Len(page) < limit]]
  /\ UNCHANGED <<runs, scope, drifts>>

fetchIndexed(w) ==
  /\ working[w].pc = "fetch"
  /\ LET job   == working[w]
         limit == Min({ReconcileBatchSize, MaxTradesPerRun - job.total})
         page  == fetchTrades(limit, job.offset)
     IN working' = [working EXCEPT ![w] =
          [job EXCEPT !.pc = IF page = <<>> THEN "complete" ELSE "check",
                      !.page = page, !.offset = @ + Len(page), !.last = Len(page) < limit]]
  /\ UNCHANGED <<runs, scope, drifts>>

\* The next trade of the page is noted, read from the chain and compared.  The findings
\* of a key are kept, whichever attempt made them.
checkTrade(w) ==
  /\ working[w].pc = "check"
  /\ \E readFails \in BOOLEAN :
       LET job      == working[w]
           item     == Head(job.page)
           findings == classifyDrifts(item.row, getTrade(item.trade), readFails)
           total    == job.total + 1
           done     == Len(job.page) = 1
       IN /\ scope' = [scope EXCEPT ![job.key] = @ \cup {item.trade}]
          /\ drifts' = [drifts EXCEPT ![job.key] = @ \cup {[trade |-> item.trade, finding |-> f] : f \in findings}]
          /\ working' = [working EXCEPT ![w] =
               [job EXCEPT !.page = Tail(@), !.total = total,
                           !.driftCount = @ + Cardinality(findings),
                           !.pc = IF ~done THEN "check"
                                  ELSE IF job.last \/ total >= MaxTradesPerRun THEN "complete" ELSE "fetch"]]
  /\ UNCHANGED runs

\* expected is ghost: the trades whose status differs now, None unless neither the chain
\* nor the index has moved during the attempt.
completeRun(w) ==
  /\ working[w].pc = "complete"
  /\ LET job   == working[w]
         quiet == job.ticks = <<mined, Len(pending)>>
         Differs(t) == store.trades[t] # None /\ store.trades[t].status # chain.status[t]
     IN runs' = [runs EXCEPT ![job.key] =
          [status |-> "COMPLETED", driftCount |-> job.driftCount, attempts |-> @.attempts,
           completedAt |-> 1 + Cardinality({k \in RunKeys : runs[k] # None /\ runs[k].status = "COMPLETED"}),
           expected |-> IF quiet THEN {t \in TradeIds : Differs(t)} ELSE None]]
  /\ working' = [working EXCEPT ![w] = NoCall]
  /\ UNCHANGED <<scope, drifts>>

\* A request or a statement fails: the run is marked FAILED.
failRun(w) ==
  /\ working[w] # NoCall
  /\ runs' = [runs EXCEPT ![working[w].key] =
       [status |-> "FAILED", driftCount |-> @.driftCount, attempts |-> @.attempts]]
  /\ working' = [working EXCEPT ![w] = NoCall]
  /\ UNCHANGED <<scope, drifts>>

\* The process stops: the run stays RUNNING, and every later attempt skips it.
workerCrash(w) ==
  /\ working[w] # NoCall
  /\ working' = [working EXCEPT ![w] = NoCall]
  /\ UNCHANGED <<runs, scope, drifts>>

ReconciliationStep ==
  \E w \in Workers :
    \/ \E k \in RunKeys : reconcileOnce(w, k)
    \/ fetchIndexed(w)
    \/ checkTrade(w)
    \/ completeRun(w)
    \/ failRun(w)
    \/ workerCrash(w)

------------------------------------------------------------------------------
(* The report of a run *)

\* The run that is asked for, or the one that was completed last; None when there is none.
resolveRunKey(requested) ==
  LET completed == {k \in RunKeys : runs[k] # None /\ runs[k].status = "COMPLETED"}
      asked     == {k \in RunKeys : k = requested /\ runs[k] # None}
      latest    == {k \in completed :
                      \A other \in completed : runs[other].completedAt <= runs[k].completedAt}
      found     == IF requested = None THEN latest ELSE asked
  IN IF found = {} THEN None ELSE CHOOSE k \in found : TRUE

fetchDriftSummaries(k, t) == {d.finding.code : d \in {x \in drifts[k] : x.trade = t}}

fetchRunTradeScope(k) == scope[k]

fetchTreasuryLedgerStates(trades) ==
  {[trade |-> ledger[e].trade, entry |-> e, payoutState |-> getLatestPayoutState(e)] :
     e \in {x \in EntryKeys : ledger[x].trade \in trades}}

\* A row for every ledger entry of a trade in the run's scope, and one for every trade
\* of the scope or of the findings that has no entry.
reportInput(k) ==
  LET known  == {d.trade : d \in drifts[k]}
      inScope == IF fetchRunTradeScope(k) # {} THEN fetchRunTradeScope(k) ELSE known
      rows   == fetchTreasuryLedgerStates(inScope)
      bare   == (inScope \cup known) \ {r.trade : r \in rows}
  IN rows \cup {[trade |-> t, entry |-> None, payoutState |-> None] : t \in bare}

buildReconciliationReportRows(k) ==
  {[trade |-> r.trade, entry |-> r.entry, payoutState |-> r.payoutState,
    verdict |-> IF fetchDriftSummaries(k, r.trade) = {} THEN "MATCH" ELSE "MISMATCH"] : r \in reportInput(k)}

\* The report of a run, without rows when there is none.
buildReconciliationReport(requested) ==
  LET k     == resolveRunKey(requested)
      rows  == IF k = None THEN {} ELSE buildReconciliationReportRows(k)
      match == {r \in rows : r.verdict = "MATCH"}
  IN [runKey |-> k, rows |-> rows,
      matchCount |-> Cardinality(match), mismatchCount |-> Cardinality(rows \ match)]

------------------------------------------------------------------------------
(* What a run promises *)

\* The report of a run that completed while neither the chain nor the index moved tells a
\* MISMATCH for every trade whose status differs, whatever failed before it, and, if
\* nothing failed, a MATCH for every other trade: addresses that differ in case, terms
\* copied from an event and the paging of trades neither hide a difference nor invent
\* one.  Its counts say so too, and without a key it is the report of a completed run.
QuietRunIsExact ==
  \A k \in RunKeys :
    LET run     == runs[k]
        report  == buildReconciliationReport(k)
        Row(t, v) == \E r \in report.rows : r.trade = t /\ r.verdict = v
        ReadFailed(t) == "ONCHAIN_READ_ERROR" \in fetchDriftSummaries(k, t)
    IN (run # None /\ run.status = "COMPLETED") =>
         /\ buildReconciliationReport(None).runKey # None
         /\ run.expected # None =>
              /\ report.mismatchCount >= Cardinality(run.expected)
              /\ \A t \in TradeIds :
                   /\ t \in run.expected => Row(t, "MISMATCH")
                   /\ (run.attempts = 1 /\ t \in scope[k] \ run.expected /\ ~ReadFailed(t))
                        => Row(t, "MATCH")

===============================================================================
