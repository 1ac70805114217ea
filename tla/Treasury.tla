------------------------------- MODULE Treasury -------------------------------
(***************************************************************************)
(* treasury/src: the ledger of fees.  Ingestion calls page through the fee *)
(* events of the indexer by offset and keep the offset reached; operators  *)
(* move the payout of an entry through its states.  Calls run side by      *)
(* side, and each of their database statements is a step of its own.       *)
(***************************************************************************)
EXTENDS Indexer

CONSTANTS
  IngestCalls,      \* ingestions that may be under way at the same time
  PayoutCalls,      \* payout transitions that may be under way at the same time
  IngestBatchSize,
  IngestMaxEvents,
  MaxIngestions,    \* bound on the number of ingestions
  MaxTransitions    \* bound on the number of payout transitions

PayoutStates == {"PENDING_REVIEW", "READY_FOR_PAYOUT", "PROCESSING", "PAID", "CANCELLED"}

ASSUME TreasuryAssumption ==
  /\ IngestBatchSize \in Nat \ {0} /\ IngestMaxEvents \in Nat \ {0}
  /\ None \notin PayoutStates

VARIABLES
  ledger,           \* the entries there are, by entry key
  payouts,          \* the payout states of each entry, oldest first
  nextOffset,       \* treasury_ingestion_state
  ingesting,        \* ingestions under way
  paying,           \* payout transitions under way
  ingestions, transitions,
  borders           \* ghost: the offsets at which pages have ended

treasuryVars == <<ledger, payouts, nextOffset, ingesting, paying, ingestions, transitions, borders>>

Components == {"LOGISTICS", "PLATFORM_FEE"}

EntryKeys == DOMAIN ledger

NoCall == [pc |-> "idle"]

TreasuryInit ==
  /\ ledger = <<>>
  /\ payouts = <<>>
  /\ nextOffset = 0
  /\ ingesting = [c \in IngestCalls |-> NoCall]
  /\ paying = [c \in PayoutCalls |-> NoCall]
  /\ ingestions = 0
  /\ transitions = 0
  /\ borders = {}

------------------------------------------------------------------------------
(* Ingestion *)

\* The fee events are ordered by block alone, so that the database may return those of one
\* block in any order, and in another order the next time.
FeeEvents == {row \in store.events :
                row.name \in {"FundsReleasedStage1", "PlatformFeesPaidStage1"}}

BlockOf(row) == row.block

Orders == {o \in SetToSeqs(FeeEvents) : \A i, j \in DOMAIN o : i < j => BlockOf(o[i]) <= BlockOf(o[j])}

fetchTreasuryEvents(limit, offset) ==
  {SubSeq(o, offset + 1, Min({offset + limit, Len(o)})) : o \in Orders}

ComponentOf(row) == IF row.name = "FundsReleasedStage1" THEN "LOGISTICS" ELSE "PLATFORM_FEE"

buildEntryKey(row) == <<row.id, ComponentOf(row)>>

Entry(row) == [trade |-> row.trade, component |-> ComponentOf(row)]

\* POST /ingest: the offset is read once, at the start.
ingestOnce(c) ==
  /\ ingesting[c] = NoCall
  /\ ingestions < MaxIngestions
  /\ ingestions' = ingestions + 1
  /\ ingesting' = [ingesting EXCEPT ![c] =
                     [pc |-> "fetch", offset |-> nextOffset, fetched |-> 0, page |-> <<>>, last |-> FALSE]]
  /\ UNCHANGED <<ledger, payouts, nextOffset, paying, transitions, borders>>

fetchPage(c) ==
  /\ ingesting[c].pc = "fetch"
  /\ LET call  == ingesting[c]
         limit == Min({IngestBatchSize, IngestMaxEvents - call.fetched})
     IN \E page \in IF limit = 0 THEN {<<>>} ELSE fetchTreasuryEvents(limit, call.offset) :
          /\ ingesting' = [ingesting EXCEPT ![c] =
               [pc |-> IF page = <<>> THEN "save" ELSE "store",
                offset |-> call.offset + Len(page), fetched |-> call.fetched + Len(page),
                page |-> page, last |-> Len(page) < limit]]
          /\ borders' = borders \cup {call.offset + Len(page)}
  /\ UNCHANGED <<ledger, payouts, nextOffset, paying, ingestions, transitions>>

\* Mutant: a first payout state is added whenever the entry is stored.
upsertLedgerEntryWithInitialState_always(row) ==
  LET key     == buildEntryKey(row)
      earlier == IF key \in DOMAIN payouts THEN payouts[key] ELSE <<>>
  IN /\ ledger' = (key :> Entry(row)) @@ ledger
     /\ payouts' = (key :> Append(earlier, "PENDING_REVIEW")) @@ payouts

\* One transaction: the entry is inserted or overwritten with the same values, and a
\* first payout state is added only to an entry that has none.
upsertLedgerEntryWithInitialState(row) ==
  LET key == buildEntryKey(row)
  IN /\ ledger' = [k \in EntryKeys \cup {key} |-> IF k = key THEN Entry(row) ELSE ledger[k]]
     /\ payouts' = [k \in DOMAIN payouts \cup {key} |->
                      IF k \in DOMAIN payouts THEN payouts[k] ELSE <<"PENDING_REVIEW">>]

\* The next event of the page; one without a transaction hash is passed over.
ingestEvent(c) ==
  /\ ingesting[c].pc = "store"
  /\ LET call == ingesting[c]
         row  == Head(call.page)
         done == Len(call.page) = 1
     IN /\ IF row.hash THEN upsertLedgerEntryWithInitialState(row) ELSE UNCHANGED <<ledger, payouts>>
        /\ ingesting' = [ingesting EXCEPT ![c] =
             [call EXCEPT !.page = Tail(@),
                          !.pc = IF ~done THEN "store" ELSE IF call.last THEN "save" ELSE "fetch"]]
  /\ UNCHANGED <<nextOffset, paying, ingestions, transitions, borders>>

setIngestionOffset(c) ==
  /\ ingesting[c].pc = "save"
  /\ nextOffset' = ingesting[c].offset
  /\ ingesting' = [ingesting EXCEPT ![c] = NoCall]
  /\ UNCHANGED <<ledger, payouts, paying, ingestions, transitions, borders>>

\* Mutant: the offset reached is saved also when the ingestion fails.
ingestFails_saved(c) ==
  /\ ingesting[c] # NoCall
  /\ nextOffset' = ingesting[c].offset
  /\ ingesting' = [ingesting EXCEPT ![c] = NoCall]
  /\ UNCHANGED <<ledger, payouts, paying, ingestions, transitions, borders>>

\* A request to the indexer or the database fails, or the process stops: what was
\* stored stays, the offset is not saved.
ingestFails(c) ==
  /\ ingesting[c] # NoCall
  /\ ingesting' = [ingesting EXCEPT ![c] = NoCall]
  /\ UNCHANGED <<ledger, payouts, nextOffset, paying, ingestions, transitions, borders>>

------------------------------------------------------------------------------
(* Payouts *)

AllowedTransitions ==
  [PENDING_REVIEW   |-> {"READY_FOR_PAYOUT", "CANCELLED"},
   READY_FOR_PAYOUT |-> {"PROCESSING", "CANCELLED"},
   PROCESSING       |-> {"PAID", "CANCELLED"},
   PAID             |-> {},
   CANCELLED        |-> {}]

assertValidTransition(current, next) == next \in AllowedTransitions[current]

getLatestPayoutState(k) == Last(payouts[k])

getLedgerEntryById(k) == ledger[k]

\* The entries, each joined with its latest payout state, of one trade or of all and in
\* one state or in any.  The pages that limit and offset cut out of them are left out.
getLedgerEntries(trade, state) ==
  {[key |-> k, entry |-> getLedgerEntryById(k), latestState |-> getLatestPayoutState(k)] :
     k \in {x \in EntryKeys :
              /\ x \in DOMAIN payouts
              /\ trade # None => ledger[x].trade = trade
              /\ state # None => getLatestPayoutState(x) = state}}

\* GET /entries; a state that is none of the payout states is refused.
listEntries(trade, state) ==
  IF state \in PayoutStates \cup {None} THEN getLedgerEntries(trade, state) ELSE {}

\* GET /export, as JSON or as CSV, of at most 5000 entries.
exportEntries == getLedgerEntries(None, None)

\* POST /entries/:entryId/state up to its check of the latest state.
appendStateCheck(c) ==
  /\ paying[c] = NoCall
  /\ transitions < MaxTransitions
  /\ transitions' = transitions + 1
  /\ \E k \in EntryKeys, state \in PayoutStates :
       /\ assertValidTransition(getLatestPayoutState(k), state)
       /\ paying' = [paying EXCEPT ![c] = [pc |-> "append", entry |-> k, state |-> state]]
  /\ UNCHANGED <<ledger, payouts, nextOffset, ingesting, ingestions, borders>>

\* Its second statement inserts whatever the first one has found to be valid.
appendPayoutState(c) ==
  /\ paying[c].pc = "append"
  /\ payouts' = [payouts EXCEPT ![paying[c].entry] = Append(@, paying[c].state)]
  /\ paying' = [paying EXCEPT ![c] = NoCall]
  /\ UNCHANGED <<ledger, nextOffset, ingesting, ingestions, transitions, borders>>

IngestionStep ==
  \E c \in IngestCalls :
    \/ ingestOnce(c)
    \/ fetchPage(c)
    \/ ingestEvent(c)
    \/ setIngestionOffset(c)
    \/ ingestFails(c)

PayoutStep == \E c \in PayoutCalls : appendStateCheck(c) \/ appendPayoutState(c)

------------------------------------------------------------------------------
(* What the ledger promises *)

CountedUpTo(row) == Cardinality({r \in FeeEvents : BlockOf(r) <= BlockOf(row)})

CountedBefore(row) == Cardinality({r \in FeeEvents : BlockOf(r) < BlockOf(row)})

\* A page has ended among the fees of the row's block.  The next page, in another order of
\* them, may repeat one of them and pass over another.
BlockIsCut(row) == \E b \in borders : CountedBefore(row) < b /\ b < CountedUpTo(row)

\* Ingestions of any page size that overlap, fail half-way or start again from an older
\* offset never lose a fee: whichever events the saved offset has passed are exported, and
\* listed under their trade in exactly one payout state, except those without a transaction
\* hash and those of a block among whose fees a page has ended.  (The offset has passed an
\* event when no more fee events than the offset are in its block or an earlier one.)
NoFeeBehindTheOffset ==
  LET States(row) == {s \in PayoutStates :
                        \E e \in listEntries(row.trade, s) : e.key = buildEntryKey(row)}
  IN \A row \in FeeEvents :
       (row.hash /\ CountedUpTo(row) <= nextOffset /\ ~BlockIsCut(row)) =>
         /\ \E e \in exportEntries : e.key = buildEntryKey(row)
         /\ Cardinality(States(row)) = 1

\* No race of ingestions or operators makes a payout skip a state: every state of an
\* entry after its one PENDING_REVIEW is a legal successor of a state it had before, so
\* that a PAID entry was READY_FOR_PAYOUT and PROCESSING first.
PayoutNeverSkips ==
  /\ DOMAIN payouts = EntryKeys
  /\ \A k \in EntryKeys :
       /\ payouts[k] # <<>> /\ payouts[k][1] = "PENDING_REVIEW"
       /\ \A i \in 2 .. Len(payouts[k]) :
            \E j \in 1 .. i - 1 : payouts[k][i] \in AllowedTransitions[payouts[k][j]]

===============================================================================
