---------------------------- MODULE ReadSideProofs ----------------------------
(***************************************************************************)
(* Theorems about the services that read the chain, for any trades,        *)
(* blocks, batches, pages and calls: the scenarios' bounds are left out,   *)
(* and everything starts from an empty chain.  First the treasury beside   *)
(* the chain and the indexer, then the reconciliation's audit beside all   *)
(* three.                                                                  *)
(***************************************************************************)
EXTENDS Reconciliation, ListingProofs, WellFoundedInduction

ChainStep == TradeTransaction \/ DisputeTransaction \/ GovernanceTransaction

-------------------------------------------------------------------------------
(* The treasury beside the chain and the indexer *)

treasuryAndIndex == <<chainVars, indexerVars, treasuryVars>>

TreasuryNext ==
  \/ ChainStep /\ UNCHANGED <<indexerVars, treasuryVars>>
  \/ processBatch /\ UNCHANGED treasuryVars
  \/ (IngestionStep \/ PayoutStep) /\ UNCHANGED <<chainVars, indexerVars>>

TreasurySpec == EventsInit /\ IndexerInit /\ TreasuryInit /\ [][TreasuryNext]_treasuryAndIndex

-------------------------------------------------------------------------------
(* The contract as its events tell it *)

MadeDispute ==
  [subject : TradeIds, outcome : Outcomes, approvals : Nat, executed : BOOLEAN, cancelled : BOOLEAN]

MadeUpdate ==
  [subject : {None}, outcome : {None}, approvals : Nat, executed : BOOLEAN, cancelled : BOOLEAN]

Contract ==
  [status   : [TradeIds -> Statuses],
   arrived  : [TradeIds -> BOOLEAN],
   disputes : [ProposalIds -> MadeDispute \cup {None}],
   updates  : [UpdateKinds -> [ProposalIds -> MadeUpdate \cup {None}]]]

\* A dispute is open only while its trade is frozen, a trade has at most one open dispute,
\* and the trade of a dispute that was executed is closed.  Only a trade on its way has arrived.
ChainInv ==
  /\ chain \in Contract
  /\ \A p \in ProposalIds : IsOpen(chain.disputes[p]) => chain.status[chain.disputes[p].subject] = "FROZEN"
  /\ \A p, q \in ProposalIds :
       IsOpen(chain.disputes[p]) /\ IsOpen(chain.disputes[q])
         /\ chain.disputes[p].subject = chain.disputes[q].subject => p = q
  /\ \A p \in ProposalIds : chain.disputes[p] # None /\ chain.disputes[p].executed =>
                              chain.status[chain.disputes[p].subject] = "CLOSED"
  /\ \A t \in TradeIds : chain.status[t] = "NONE" => ~chain.arrived[t]

-------------------------------------------------------------------------------
(* What one event tells: how the contract may have changed from u to v *)

\* The events that leave what the tables show of a trade or the contract as it was.
Noted(u, e, v) ==
  /\ e.name \in {"ClaimableAccrued", "PlatformFeesPaidStage1", "DisputePayout"}
  /\ e.trade \in TradeIds /\ u.status[e.trade] # "NONE"
  /\ v = u

Announced(u, e, v) == e.name \in Announcements /\ v = u

Locked(u, e, v) ==
  /\ e.name = "TradeLocked"
  /\ e.trade \in TradeIds /\ u.status[e.trade] = "NONE" /\ ~u.arrived[e.trade]
  /\ Decided(u, e.trade) = {}
  /\ e.terms = Terms[e.trade]
  /\ v = [u EXCEPT !.status[e.trade] = "LOCKED"]

\* The status that a trade has after an event of this name.
StatusAfter ==
  [FundsReleasedStage1 |-> "IN_TRANSIT", ArrivalConfirmed |-> "ARRIVAL_CONFIRMED",
   DisputeOpenedByBuyer |-> "FROZEN", FinalTrancheReleased |-> "CLOSED",
   TradeCancelledAfterLockTimeout |-> "CLOSED", InTransitTimeoutRefunded |-> "CLOSED"]

Moved(u, e, v) ==
  /\ e.name \in DOMAIN StatusAfter
  /\ e.trade \in TradeIds /\ u.status[e.trade] # "NONE"
  /\ Decided(u, e.trade) = {}
  /\ v = [u EXCEPT !.status[e.trade] = StatusAfter[e.name],
                   !.arrived[e.trade] = IF e.name = "ArrivalConfirmed" THEN TRUE ELSE @]

DisputeMade(u, e, v) ==
  /\ e.name = "DisputeSolutionProposed"
  /\ e.trade \in TradeIds /\ u.status[e.trade] # "NONE"
  /\ e.proposal \in ProposalIds /\ u.disputes[e.proposal] = None
  /\ v = [u EXCEPT !.disputes[e.proposal] = Proposed(e.trade, e.outcome)]

DisputeCounted(u, e, v) ==
  /\ e.name = "DisputeApproved" /\ e.approvals \in Nat
  /\ e.proposal \in ProposalIds /\ u.disputes[e.proposal] # None
  /\ v = [u EXCEPT !.disputes[e.proposal].approvals = e.approvals]

DisputeCancelled(u, e, v) ==
  /\ e.name = "DisputeProposalExpiredCancelled"
  /\ e.proposal \in ProposalIds /\ u.disputes[e.proposal] # None
  /\ v = [u EXCEPT !.disputes[e.proposal].cancelled = TRUE]

DisputeExecuted(u, e, v) ==
  /\ e.name = "DisputeFinalized"
  /\ e.proposal \in ProposalIds /\ u.disputes[e.proposal] # None
  /\ u.status[u.disputes[e.proposal].subject] = "FROZEN"
  /\ v = [u EXCEPT !.disputes[e.proposal].executed = TRUE,
                   !.status[u.disputes[e.proposal].subject] = "CLOSED"]

UpdateMade(u, e, v) ==
  \E kind \in UpdateKinds :
    /\ e.name = NameOf(kind, "propose")
    /\ e.proposal \in ProposalIds /\ u.updates[kind][e.proposal] = None
    /\ v = [u EXCEPT !.updates[kind][e.proposal] = Proposed(None, None)]

UpdateCounted(u, e, v) ==
  \E kind \in UpdateKinds :
    /\ e.name = NameOf(kind, "approve") /\ e.approvals \in Nat
    /\ e.proposal \in ProposalIds /\ u.updates[kind][e.proposal] # None
    /\ v = [u EXCEPT !.updates[kind][e.proposal].approvals = e.approvals]

UpdateCancelled(u, e, v) ==
  \E kind \in UpdateKinds :
    /\ e.name = NameOf(kind, "cancel")
    /\ e.proposal \in ProposalIds /\ u.updates[kind][e.proposal] # None
    /\ v = [u EXCEPT !.updates[kind][e.proposal].cancelled = TRUE]

\* The event does not tell which update it was.
UpdateExecuted(u, e, v) ==
  \E kind \in UpdateKinds, p \in ProposalIds :
    /\ e.name = NameOf(kind, "execute")
    /\ u.updates[kind][p] # None
    /\ v = [u EXCEPT !.updates[kind][p].executed = TRUE]

Tells(u, e, v) ==
  \/ Noted(u, e, v) \/ Announced(u, e, v) \/ Locked(u, e, v) \/ Moved(u, e, v)
  \/ DisputeMade(u, e, v) \/ DisputeCounted(u, e, v) \/ DisputeCancelled(u, e, v)
  \/ DisputeExecuted(u, e, v)
  \/ UpdateMade(u, e, v) \/ UpdateCounted(u, e, v) \/ UpdateCancelled(u, e, v)
  \/ UpdateExecuted(u, e, v)

EventNames ==
  Announcements \cup DOMAIN StatusAfter
    \cup {"ClaimableAccrued", "PlatformFeesPaidStage1", "DisputePayout", "TradeLocked",
          "DisputeSolutionProposed", "DisputeApproved", "DisputeFinalized",
          "DisputeProposalExpiredCancelled"}
    \cup {NameOf(kind, step) : kind \in UpdateKinds, step \in {"propose", "approve", "execute", "cancel"}}

EmittedEvent ==
  [id : {None} \cup (Nat \X Nat), name : EventNames, trade : TradeIds \cup {None},
   proposal : ProposalIds \cup {None}, approvals : Nat \cup {None},
   outcome : Outcomes \cup {None}, terms : {Terms[t] : t \in TradeIds} \cup {None},
   hash : BOOLEAN, time : Nat \cup {None}, block : Nat \cup {None}]

\* One state of the contract before each event and after the last: those through which the
\* events lead from u to v.
LeadBy(views, u, events, v) ==
  /\ events \in Seq(EmittedEvent)
  /\ views \in [0 .. Len(events) -> Contract]
  /\ views[0] = u /\ views[Len(events)] = v
  /\ \A i \in 1 .. Len(events) : Tells(views[i - 1], events[i], views[i])

Lead(u, events, v) == \E views : LeadBy(views, u, events, v)

\* Nothing in Tells depends on the id or the block of an event.
LEMMA IdIsNotTold ==
  ASSUME NEW u, NEW v, NEW e \in EmittedEvent, NEW n, Tells(u, e, v),
         n.name = e.name /\ n.trade = e.trade /\ n.proposal = e.proposal,
         n.approvals = e.approvals /\ n.outcome = e.outcome /\ n.terms = e.terms
  PROVE  Tells(u, n, v)
<1>1. /\ n.name = e.name /\ n.trade = e.trade /\ n.proposal = e.proposal
      /\ n.approvals = e.approvals /\ n.outcome = e.outcome /\ n.terms = e.terms
  OBVIOUS
<1>2. Noted(u, e, v) => Noted(u, n, v)
  BY <1>1 DEF Noted
<1>3. Announced(u, e, v) => Announced(u, n, v)
  BY <1>1 DEF Announced
<1>4. Locked(u, e, v) => Locked(u, n, v)
  BY <1>1 DEF Locked
<1>5. Moved(u, e, v) => Moved(u, n, v)
  BY <1>1 DEF Moved
<1>6. DisputeMade(u, e, v) => DisputeMade(u, n, v)
  BY <1>1 DEF DisputeMade
<1>7. DisputeCounted(u, e, v) => DisputeCounted(u, n, v)
  BY <1>1 DEF DisputeCounted
<1>8. DisputeCancelled(u, e, v) => DisputeCancelled(u, n, v)
  BY <1>1 DEF DisputeCancelled
<1>9. DisputeExecuted(u, e, v) => DisputeExecuted(u, n, v)
  BY <1>1 DEF DisputeExecuted
<1>10. UpdateMade(u, e, v) => UpdateMade(u, n, v)
  BY <1>1 DEF UpdateMade
<1>11. UpdateCounted(u, e, v) => UpdateCounted(u, n, v)
  BY <1>1 DEF UpdateCounted
<1>12. UpdateCancelled(u, e, v) => UpdateCancelled(u, n, v)
  BY <1>1 DEF UpdateCancelled
<1>13. UpdateExecuted(u, e, v) => UpdateExecuted(u, n, v)
  BY <1>1 DEF UpdateExecuted
<1> QED
  BY <1>2, <1>3, <1>4, <1>5, <1>6, <1>7, <1>8, <1>9, <1>10, <1>11, <1>12, <1>13
     DEF Tells

\* No event tells nothing, and one event tells what it tells.
LEMMA LeadByNone ==
  ASSUME NEW u \in Contract
  PROVE  Lead(u, <<>>, u)
<1>1. LeadBy([i \in 0 .. 0 |-> u], u, <<>>, u)
  BY DEF LeadBy
<1> QED
  BY <1>1 DEF Lead

LEMMA LeadByOne ==
  ASSUME NEW u \in Contract, NEW v \in Contract, NEW e \in EmittedEvent, Tells(u, e, v)
  PROVE  Lead(u, <<e>>, v)
<1>1. LeadBy([i \in 0 .. 1 |-> IF i = 0 THEN u ELSE v], u, <<e>>, v)
  BY DEF LeadBy
<1> QED
  BY <1>1 DEF Lead

\* What two sequences of events tell one after the other.
LEMMA LeadByBoth ==
  ASSUME NEW u, NEW v, NEW w, NEW s, NEW t, Lead(u, s, v), Lead(v, t, w)
  PROVE  Lead(u, s \o t, w)
<1>1. PICK f : LeadBy(f, u, s, v)
  BY DEF Lead
<1>2. PICK g : LeadBy(g, v, t, w)
  BY DEF Lead
<1> DEFINE events == s \o t
           h == [i \in 0 .. Len(events) |-> IF i <= Len(s) THEN f[i] ELSE g[i - Len(s)]]
<1>3. /\ events \in Seq(EmittedEvent) /\ Len(events) = Len(s) + Len(t)
      /\ Len(s) \in Nat /\ Len(t) \in Nat
      /\ \A i \in 1 .. Len(s) : events[i] = s[i]
      /\ \A i \in 1 .. Len(t) : events[Len(s) + i] = t[i]
  BY <1>1, <1>2 DEF LeadBy
<1>4. /\ f \in [0 .. Len(s) -> Contract] /\ g \in [0 .. Len(t) -> Contract]
      /\ f[Len(s)] = v /\ g[0] = v /\ f[0] = u /\ g[Len(t)] = w
  BY <1>1, <1>2 DEF LeadBy
<1> HIDE DEF events
<1>5. h \in [0 .. Len(events) -> Contract] /\ h[0] = u
  BY <1>3, <1>4
<1>6. h[Len(events)] = w
  BY <1>3, <1>4
<1>7. ASSUME NEW i \in 1 .. Len(events)
      PROVE  Tells(h[i - 1], events[i], h[i])
  <2>1. CASE i <= Len(s)
    <3>1. h[i - 1] = f[i - 1] /\ h[i] = f[i] /\ events[i] = s[i]
      BY <1>3, <2>1
    <3> QED BY <1>1, <1>3, <2>1, <3>1 DEF LeadBy
  <2>2. CASE i > Len(s)
    <3> DEFINE j == i - Len(s)
    <3>1. j \in 1 .. Len(t) /\ i = Len(s) + j
      BY <1>3, <2>2
    <3>2. h[i] = g[j] /\ events[i] = t[j]
      BY <1>3, <3>1
    <3>3. h[i - 1] = g[j - 1]
      <4>1. i - 1 \in 0 .. Len(events) /\ i - 1 - Len(s) = j - 1
        BY <1>3, <3>1
      <4>2. CASE j = 1
        BY <1>4, <3>1, <4>1, <4>2
      <4>3. CASE j # 1
        <5>1. ~(i - 1 <= Len(s))
          BY <1>3, <3>1, <4>3
        <5> QED BY <4>1, <5>1
      <4> QED BY <4>2, <4>3
    <3>4. Tells(g[j - 1], t[j], g[j])
      BY <1>2, <3>1 DEF LeadBy
    <3> QED BY <3>2, <3>3, <3>4
  <2> QED BY <1>3, <2>1, <2>2
<1>8. LeadBy(h, u, events, w)
  BY <1>3, <1>5, <1>6, <1>7 DEF LeadBy
<1> QED BY <1>8 DEF Lead, events

\* Numbering the events of a transaction changes nothing of what they tell.
LEMMA LeadNumbered ==
  ASSUME NEW u, NEW v, NEW events, NEW k \in Nat, NEW block \in Nat, Lead(u, events, v)
  PROVE  /\ Lead(u, Numbered(events, k, block), v) /\ Len(Numbered(events, k, block)) = Len(events)
         /\ \A i \in DOMAIN Numbered(events, k, block) :
              /\ Numbered(events, k, block)[i].id = <<k, i>>
              /\ Numbered(events, k, block)[i].block = block
<1>1. PICK f : LeadBy(f, u, events, v)
  BY DEF Lead
<1> DEFINE n == Numbered(events, k, block)
           With(e, i) == [e EXCEPT !.id = <<k, i>>, !.block = block]
<1>2. events \in Seq(EmittedEvent) /\ DOMAIN events = 1 .. Len(events) /\ Len(events) \in Nat
  BY <1>1 DEF LeadBy
<1>3. ASSUME NEW i \in 1 .. Len(events), NEW e \in EmittedEvent
      PROVE  /\ With(e, i) \in EmittedEvent /\ With(e, i).id = <<k, i>> /\ With(e, i).block = block
             /\ With(e, i).name = e.name /\ With(e, i).trade = e.trade
             /\ With(e, i).proposal = e.proposal /\ With(e, i).approvals = e.approvals
             /\ With(e, i).outcome = e.outcome /\ With(e, i).terms = e.terms
  <2> DEFINE x == <<k, i>>
             m == [e EXCEPT !.id = x, !.block = block]
  <2>1. x \in Nat \X Nat
    BY <1>2
  <2> HIDE DEF x
  <2>2. m \in EmittedEvent /\ m.id = x /\ m.block = block
    BY <2>1 DEF EmittedEvent
  <2>3. /\ m.name = e.name /\ m.trade = e.trade /\ m.proposal = e.proposal
        /\ m.approvals = e.approvals /\ m.outcome = e.outcome /\ m.terms = e.terms
    BY DEF EmittedEvent
  <2> QED BY <2>2, <2>3 DEF x
<1>4. n = [i \in 1 .. Len(events) |-> With(events[i], i)]
  BY <1>2 DEF Numbered
<1> HIDE DEF n
<1>5. n \in Seq(EmittedEvent) /\ Len(n) = Len(events)
  <2> HIDE DEF With
  <2> QED BY <1>2, <1>3, <1>4
<1>6. ASSUME NEW i \in 1 .. Len(n)
      PROVE  Tells(f[i - 1], n[i], f[i])
  <2>1. n[i] = With(events[i], i) /\ events[i] \in EmittedEvent
    <3> HIDE DEF With
    <3> QED BY <1>2, <1>4, <1>5
  <2>2. Tells(f[i - 1], events[i], f[i])
    BY <1>1, <1>5 DEF LeadBy
  <2> HIDE DEF With
  <2> QED BY <1>3, <1>5, <2>1, <2>2, IdIsNotTold
<1>7. LeadBy(f, u, n, v)
  BY <1>1, <1>5, <1>6 DEF LeadBy
<1>8. ASSUME NEW i \in 1 .. Len(events)
      PROVE  n[i].id = <<k, i>> /\ n[i].block = block
  <2>1. n[i] = With(events[i], i) /\ events[i] \in EmittedEvent
    <3> HIDE DEF With
    <3> QED BY <1>2, <1>4
  <2> QED
    <3> HIDE DEF With
    <3> QED BY <1>3, <2>1
<1>9. DOMAIN n = 1 .. Len(events)
  <2> HIDE DEF With
  <2> QED BY <1>4
<1> QED BY <1>5, <1>7, <1>8, <1>9 DEF Lead, n

LEMMA LeadByTwo ==
  ASSUME NEW u \in Contract, NEW v \in Contract, NEW w \in Contract,
         NEW a \in EmittedEvent, NEW b \in EmittedEvent, Tells(u, a, v), Tells(v, b, w)
  PROVE  Lead(u, <<a, b>>, w)
<1> DEFINE views == [i \in 0 .. 2 |-> IF i = 0 THEN u ELSE IF i = 1 THEN v ELSE w]
           events == <<a, b>>
<1>1. events \in Seq(EmittedEvent) /\ Len(events) = 2 /\ events[1] = a /\ events[2] = b
  OBVIOUS
<1>2. views \in [0 .. 2 -> Contract] /\ views[0] = u /\ views[1] = v /\ views[2] = w
  OBVIOUS
<1> HIDE DEF views, events
<1>3. \A i \in 1 .. 2 : Tells(views[i - 1], events[i], views[i])
  <2> SUFFICES ASSUME NEW i \in 1 .. 2 PROVE Tells(views[i - 1], events[i], views[i])
    OBVIOUS
  <2>1. i = 1 \/ i = 2
    OBVIOUS
  <2> QED BY <1>1, <1>2, <2>1
<1>4. LeadBy(views, u, events, w)
  BY <1>1, <1>2, <1>3 DEF LeadBy
<1> QED BY <1>4 DEF Lead, events

LEMMA LeadByThree ==
  ASSUME NEW u \in Contract, NEW v \in Contract, NEW w \in Contract, NEW x \in Contract,
         NEW a \in EmittedEvent, NEW b \in EmittedEvent, NEW c \in EmittedEvent,
         Tells(u, a, v), Tells(v, b, w), Tells(w, c, x)
  PROVE  Lead(u, <<a, b, c>>, x)
<1> DEFINE views == [i \in 0 .. 3 |-> IF i = 0 THEN u ELSE IF i = 1 THEN v ELSE IF i = 2 THEN w ELSE x]
           events == <<a, b, c>>
<1>1. events \in Seq(EmittedEvent) /\ Len(events) = 3
      /\ events[1] = a /\ events[2] = b /\ events[3] = c
  OBVIOUS
<1>2. views \in [0 .. 3 -> Contract]
      /\ views[0] = u /\ views[1] = v /\ views[2] = w /\ views[3] = x
  OBVIOUS
<1> HIDE DEF views, events
<1>3. \A i \in 1 .. 3 : Tells(views[i - 1], events[i], views[i])
  <2> SUFFICES ASSUME NEW i \in 1 .. 3 PROVE Tells(views[i - 1], events[i], views[i])
    OBVIOUS
  <2>1. i = 1 \/ i = 2 \/ i = 3
    OBVIOUS
  <2> QED BY <1>1, <1>2, <2>1
<1>4. LeadBy(views, u, events, x)
  BY <1>1, <1>2, <1>3 DEF LeadBy
<1> QED BY <1>4 DEF Lead, events

-------------------------------------------------------------------------------
(* The transactions: what their events tell, and that ChainInv is invariant *)

\* A transaction whose events tell what it has done.
Mined ==
  \E tx : /\ tx = [events |-> tx.events, after |-> tx.after, block |-> tx.block, last |-> tx.last]
          /\ tx.block = NextBlock /\ tx.last \in BOOLEAN
          /\ \A i \in DOMAIN tx.events :
               tx.events[i].id = <<mined + 1, i>> /\ tx.events[i].block = tx.block
          /\ pending' = Append(pending, tx)
          /\ tx.after = chain'
          /\ Lead(chain, tx.events, chain')
          /\ Len(tx.events) > 0

\* The next transaction and its block have numbers.
Dated == mined \in Nat /\ NextBlock \in Nat

LEMMA TransactionIsMined ==
  ASSUME Dated, NEW next, NEW events, Transaction(next, events),
         Lead(chain, events, next), events # <<>>
  PROVE  Mined
<1> DEFINE n == Numbered(events, mined + 1, NextBlock)
<1>1. PICK last \in BOOLEAN :
        /\ pending' = Append(pending, [events |-> n, after |-> next, block |-> NextBlock, last |-> last])
        /\ chain' = next
  BY DEF Transaction
<1>2. /\ Lead(chain, n, next) /\ Len(n) = Len(events)
      /\ \A i \in DOMAIN n : n[i].id = <<mined + 1, i>> /\ n[i].block = NextBlock
  <2>1. mined + 1 \in Nat /\ NextBlock \in Nat
    BY DEF Dated
  <2> QED BY <2>1, LeadNumbered
<1>3. events \in Seq(EmittedEvent)
  BY DEF Lead, LeadBy
<1>4. Len(events) > 0
  BY <1>3
<1> HIDE DEF n
<1> DEFINE tx == [events |-> n, after |-> next, block |-> NextBlock, last |-> last]
<1>5. /\ tx.events = n /\ tx.after = next /\ tx.block = NextBlock /\ tx.last = last
      /\ tx = [events |-> tx.events, after |-> tx.after, block |-> tx.block, last |-> tx.last]
  OBVIOUS
<1>6. pending' = Append(pending, tx)
  BY <1>1
<1> HIDE DEF tx
<1> QED BY <1>1, <1>2, <1>4, <1>5, <1>6 DEF Mined, Dated

LEMMA EventTyped ==
  ASSUME NEW name \in EventNames
  PROVE  /\ Event(name) \in EmittedEvent
         /\ Event(name).name = name
  BY DEF Event, EmittedEvent

\* The events of a trade are dated while it is not closed.
LEMMA OfTradeTyped ==
  ASSUME chain \in Contract, NEW t \in TradeIds, chain.status[t] # "CLOSED", NEW name \in EventNames
  PROVE  /\ OfTrade(name, t) \in EmittedEvent
         /\ OfTrade(name, t).name = name /\ OfTrade(name, t).trade = t
<1>1. Moment(t) \in Nat
  BY DEF Moment, Contract, Statuses
<1>2. OfTrade(name, t) = [Event(name) EXCEPT !.trade = t, !.time = Moment(t)]
  BY DEF OfTrade
<1> QED BY <1>1, <1>2 DEF Event, EmittedEvent

LEMMA OfProposalTyped ==
  ASSUME NEW p \in ProposalIds, NEW approvals \in Nat \cup {None}, NEW name \in EventNames
  PROVE  /\ OfProposal(name, p, approvals) \in EmittedEvent
         /\ OfProposal(name, p, approvals).name = name
         /\ OfProposal(name, p, approvals).proposal = p
         /\ OfProposal(name, p, approvals).approvals = approvals
  BY DEF OfProposal, Event, EmittedEvent

\* Only a closed trade has a dispute that was executed.
LEMMA Undecided ==
  ASSUME ChainInv, NEW t \in TradeIds, chain.status[t] # "CLOSED"
  PROVE  Decided(chain, t) = {}
  BY DEF ChainInv, Decided

\* A trade that is neither frozen nor closed has no open and no executed dispute, and may
\* take any other status.
LEMMA MovingKeepsChainInv ==
  ASSUME ChainInv, NEW t \in TradeIds, chain.status[t] \notin {"FROZEN", "CLOSED"},
         NEW s \in Statuses \ {"NONE"}, NEW arrived \in BOOLEAN,
         chain' = [chain EXCEPT !.status[t] = s, !.arrived[t] = arrived]
  PROVE  ChainInv'
<1>1. /\ chain' \in Contract /\ UNCHANGED chain.disputes
      /\ chain'.status = [chain.status EXCEPT ![t] = s]
      /\ chain'.arrived = [chain.arrived EXCEPT ![t] = arrived]
  BY DEF ChainInv, Contract
<1>2. chain.status \in [TradeIds -> Statuses] /\ chain.arrived \in [TradeIds -> BOOLEAN]
      /\ chain.disputes \in [ProposalIds -> MadeDispute \cup {None}]
  BY DEF ChainInv, Contract
<1>3. \A p \in ProposalIds : chain.disputes[p] # None => chain.disputes[p].subject \in TradeIds
  BY <1>2 DEF MadeDispute
<1>4. \A p \in ProposalIds : IsOpen(chain.disputes[p]) => chain'.status[chain.disputes[p].subject] = "FROZEN"
  BY <1>1, <1>2, <1>3 DEF ChainInv, IsOpen
<1>5. \A p \in ProposalIds : chain.disputes[p] # None /\ chain.disputes[p].executed =>
                               chain'.status[chain.disputes[p].subject] = "CLOSED"
  BY <1>1, <1>2, <1>3 DEF ChainInv
<1>6. \A u \in TradeIds : chain'.status[u] = "NONE" => ~chain'.arrived[u]
  BY <1>1, <1>2 DEF ChainInv
<1> QED BY <1>1, <1>4, <1>5, <1>6 DEF ChainInv

\* The same for the transactions that leave it open whether the trade has arrived.
LEMMA StatusSetKeepsChainInv ==
  ASSUME ChainInv, NEW t \in TradeIds, chain.status[t] \notin {"FROZEN", "CLOSED"},
         NEW s \in Statuses \ {"NONE"}, chain' = StatusSet(t, s)
  PROVE  ChainInv'
<1>1. chain.arrived[t] \in BOOLEAN
  BY DEF ChainInv, Contract
<1>2. chain' = [chain EXCEPT !.status[t] = s, !.arrived[t] = chain.arrived[t]]
  BY DEF StatusSet, ChainInv, Contract
<1> QED BY <1>1, <1>2, MovingKeepsChainInv

\* What StatusSet makes of the contract, told by the event of the transaction.
LEMMA StatusSetIsTold ==
  ASSUME ChainInv, NEW t \in TradeIds, chain.status[t] \notin {"NONE", "CLOSED"},
         NEW e \in EmittedEvent, e.name \in DOMAIN StatusAfter, e.name # "ArrivalConfirmed",
         e.trade = t
  PROVE  /\ StatusSet(t, StatusAfter[e.name]) \in Contract
         /\ Tells(chain, e, StatusSet(t, StatusAfter[e.name]))
<1>1. StatusAfter[e.name] \in Statuses
  BY DEF StatusAfter, Statuses
<1> DEFINE s == StatusAfter[e.name]
<1>2. StatusSet(t, s) \in Contract
  BY <1>1 DEF StatusSet, ChainInv, Contract
<1>3. StatusSet(t, s) = [chain EXCEPT !.status[t] = s, !.arrived[t] = chain.arrived[t]]
  BY DEF StatusSet, ChainInv, Contract
<1>4. Moved(chain, e, StatusSet(t, s))
  BY <1>3, Undecided DEF Moved
<1> QED BY <1>2, <1>4 DEF Tells

LEMMA createTradeIsTold ==
  ASSUME ChainInv, Dated, NEW t \in TradeIds, createTrade(t)
  PROVE  ChainInv' /\ Mined
<1> DEFINE e == [OfTrade("TradeLocked", t) EXCEPT !.terms = Terms[t]]
<1>1. chain.status[t] = "NONE" /\ Transaction(StatusSet(t, "LOCKED"), <<e>>)
  BY DEF createTrade, Accepts
<1>2. e \in EmittedEvent /\ e.name = "TradeLocked" /\ e.trade = t /\ e.terms = Terms[t]
  <2>1. /\ OfTrade("TradeLocked", t) \in EmittedEvent
        /\ OfTrade("TradeLocked", t).name = "TradeLocked" /\ OfTrade("TradeLocked", t).trade = t
    <3>1. "TradeLocked" \in EventNames /\ chain.status[t] # "CLOSED" /\ chain \in Contract
      BY <1>1 DEF ChainInv, EventNames
    <3> QED BY <3>1, OfTradeTyped
  <2> QED BY <2>1 DEF EmittedEvent
<1> HIDE DEF e
<1>3. Locked(chain, e, StatusSet(t, "LOCKED"))
  BY <1>1, <1>2, Undecided DEF Locked, StatusSet, ChainInv
<1>4. chain \in Contract /\ StatusSet(t, "LOCKED") \in Contract
  BY DEF StatusSet, ChainInv, Contract, Statuses
<1>5. Lead(chain, <<e>>, StatusSet(t, "LOCKED"))
  BY <1>2, <1>3, <1>4, LeadByOne DEF Tells
<1>6. Mined
  BY <1>1, <1>5, TransactionIsMined
<1>7. ChainInv'
  BY <1>1, StatusSetKeepsChainInv DEF Transaction, Statuses
<1> QED BY <1>6, <1>7

LEMMA releaseFundsStage1IsTold ==
  ASSUME ChainInv, Dated, NEW t \in TradeIds, releaseFundsStage1(t)
  PROVE  ChainInv' /\ Mined
<1> DEFINE after == StatusSet(t, "IN_TRANSIT")
<1>1. PICK evm \in BOOLEAN :
        Transaction(after,
          <<[OfTrade("ClaimableAccrued", t) EXCEPT !.hash = evm],
            [OfTrade("ClaimableAccrued", t) EXCEPT !.hash = evm],
            [OfTrade("ClaimableAccrued", t) EXCEPT !.hash = evm],
            [OfTrade("FundsReleasedStage1", t) EXCEPT !.hash = evm],
            [OfTrade("PlatformFeesPaidStage1", t) EXCEPT !.hash = evm]>>)
  BY DEF releaseFundsStage1
<1> DEFINE accrued == [OfTrade("ClaimableAccrued", t) EXCEPT !.hash = evm]
           released == [OfTrade("FundsReleasedStage1", t) EXCEPT !.hash = evm]
           paid == [OfTrade("PlatformFeesPaidStage1", t) EXCEPT !.hash = evm]
           events == <<accrued, accrued, accrued, released, paid>>
<1>2. chain \in Contract /\ chain.status[t] = "LOCKED"
  BY DEF releaseFundsStage1, Accepts, ChainInv
<1>3. ASSUME NEW name \in EventNames
      PROVE  /\ [OfTrade(name, t) EXCEPT !.hash = evm] \in EmittedEvent
             /\ [OfTrade(name, t) EXCEPT !.hash = evm].name = name
             /\ [OfTrade(name, t) EXCEPT !.hash = evm].trade = t
  <2>1. OfTrade(name, t) \in EmittedEvent /\ OfTrade(name, t).name = name /\ OfTrade(name, t).trade = t
    BY <1>2, OfTradeTyped
  <2> QED BY <2>1 DEF EmittedEvent
<1>4. /\ accrued \in EmittedEvent /\ accrued.name = "ClaimableAccrued" /\ accrued.trade = t
      /\ released \in EmittedEvent /\ released.name = "FundsReleasedStage1" /\ released.trade = t
      /\ paid \in EmittedEvent /\ paid.name = "PlatformFeesPaidStage1" /\ paid.trade = t
  <2>1. /\ "ClaimableAccrued" \in EventNames /\ "FundsReleasedStage1" \in EventNames
        /\ "PlatformFeesPaidStage1" \in EventNames
    BY DEF EventNames, StatusAfter
  <2> QED BY <1>3, <2>1
<1> HIDE DEF accrued, released, paid
<1>5. after \in Contract /\ Tells(chain, released, after)
  <2>1. "FundsReleasedStage1" \in DOMAIN StatusAfter
        /\ StatusAfter["FundsReleasedStage1"] = "IN_TRANSIT"
    BY DEF StatusAfter
  <2> QED BY <1>2, <1>4, <2>1, StatusSetIsTold
<1>6. Tells(chain, accrued, chain)
  BY <1>2, <1>4 DEF Tells, Noted
<1>7. Tells(after, paid, after)
  BY <1>2, <1>4 DEF Tells, Noted, StatusSet, Contract
<1> HIDE DEF after
<1>8. LeadBy([i \in 0 .. 5 |-> IF i < 4 THEN chain ELSE after], chain, events, after)
  <2> DEFINE views == [i \in 0 .. 5 |-> IF i < 4 THEN chain ELSE after]
  <2>1. events \in Seq(EmittedEvent) /\ Len(events) = 5
    BY <1>4
  <2>2. views \in [0 .. 5 -> Contract] /\ views[0] = chain /\ views[5] = after
    BY <1>2, <1>5
  <2>3. Tells(views[0], events[1], views[1]) /\ Tells(views[1], events[2], views[2])
        /\ Tells(views[2], events[3], views[3])
    BY <1>6
  <2>4. Tells(views[3], events[4], views[4]) /\ Tells(views[4], events[5], views[5])
    BY <1>5, <1>7
  <2>5. \A i \in 1 .. 5 : Tells(views[i - 1], events[i], views[i])
    <3> SUFFICES ASSUME NEW i \in 1 .. 5 PROVE Tells(views[i - 1], events[i], views[i])
      OBVIOUS
    <3>1. i = 1 \/ i = 2 \/ i = 3 \/ i = 4 \/ i = 5
      OBVIOUS
    <3> HIDE DEF views, events
    <3> QED BY <2>3, <2>4, <3>1
  <2> QED BY <2>1, <2>2, <2>5 DEF LeadBy
<1>9. Lead(chain, events, after)
  BY <1>8 DEF Lead
<1>10. Transaction(after, events) /\ events # <<>>
  BY <1>1 DEF accrued, released, paid
<1> HIDE DEF events
<1>11. Mined
  BY <1>9, <1>10, TransactionIsMined
<1>12. ChainInv'
  BY <1>2, <1>10, StatusSetKeepsChainInv DEF Transaction, Statuses, after
<1> QED BY <1>11, <1>12

LEMMA confirmArrivalIsTold ==
  ASSUME ChainInv, Dated, NEW t \in TradeIds, confirmArrival(t)
  PROVE  ChainInv' /\ Mined
<1> DEFINE e == OfTrade("ArrivalConfirmed", t)
           after == [StatusSet(t, "ARRIVAL_CONFIRMED") EXCEPT !.arrived[t] = TRUE]
<1>1. chain.status[t] = "IN_TRANSIT" /\ chain \in Contract /\ Transaction(after, <<e>>)
  BY DEF confirmArrival, Accepts, ChainInv
<1>2. e \in EmittedEvent /\ e.name = "ArrivalConfirmed" /\ e.trade = t
  <2>1. "ArrivalConfirmed" \in EventNames
    BY DEF EventNames, StatusAfter
  <2> QED BY <1>1, <2>1, OfTradeTyped
<1> HIDE DEF e
<1>3. after = [chain EXCEPT !.status[t] = "ARRIVAL_CONFIRMED", !.arrived[t] = TRUE]
  BY <1>1 DEF StatusSet, Contract
<1> HIDE DEF after
<1>4. after \in Contract
  BY <1>1, <1>3 DEF Contract, Statuses
<1>5. Moved(chain, e, after)
  BY <1>1, <1>2, <1>3, Undecided DEF Moved, StatusAfter
<1>6. Lead(chain, <<e>>, after)
  BY <1>1, <1>2, <1>4, <1>5, LeadByOne DEF Tells
<1>7. Mined
  BY <1>1, <1>6, TransactionIsMined
<1>8. chain' = after
  BY <1>1 DEF Transaction
<1>9. ChainInv'
  BY <1>1, <1>3, <1>8, MovingKeepsChainInv DEF Statuses
<1> QED BY <1>7, <1>9

LEMMA openDisputeIsTold ==
  ASSUME ChainInv, Dated, NEW t \in TradeIds, openDispute(t)
  PROVE  ChainInv' /\ Mined
<1> DEFINE e == OfTrade("DisputeOpenedByBuyer", t)
<1>1. chain.status[t] = "ARRIVAL_CONFIRMED" /\ chain \in Contract
      /\ Transaction(StatusSet(t, "FROZEN"), <<e>>)
  BY DEF openDispute, Accepts, ChainInv
<1>2. e \in EmittedEvent /\ e.name = "DisputeOpenedByBuyer" /\ e.trade = t
  <2>1. "DisputeOpenedByBuyer" \in EventNames
    BY DEF EventNames, StatusAfter
  <2> QED BY <1>1, <2>1, OfTradeTyped
<1> HIDE DEF e
<1>3. StatusAfter[e.name] = "FROZEN" /\ e.name \in DOMAIN StatusAfter
  BY <1>2 DEF StatusAfter
<1>4. StatusSet(t, "FROZEN") \in Contract /\ Tells(chain, e, StatusSet(t, "FROZEN"))
  BY <1>1, <1>2, <1>3, StatusSetIsTold
<1>5. Mined
  BY <1>1, <1>2, <1>4, LeadByOne, TransactionIsMined
<1>6. ChainInv'
  BY <1>1, StatusSetKeepsChainInv DEF Transaction, Statuses
<1> QED BY <1>5, <1>6

\* The three settlements without a dispute.
LEMMA SettleIsTold ==
  ASSUME ChainInv, Dated, NEW t \in TradeIds,
         NEW before \in {"LOCKED", "IN_TRANSIT", "ARRIVAL_CONFIRMED"},
         NEW name \in {"FinalTrancheReleased", "TradeCancelledAfterLockTimeout", "InTransitTimeoutRefunded"},
         Settle(t, before, name)
  PROVE  ChainInv' /\ Mined
<1> DEFINE accrued == OfTrade("ClaimableAccrued", t)
           e == OfTrade(name, t)
           after == StatusSet(t, "CLOSED")
<1>1. chain.status[t] = before /\ chain \in Contract /\ Transaction(after, <<accrued, e>>)
  BY DEF Settle, Accepts, ChainInv
<1>2. /\ accrued \in EmittedEvent /\ accrued.name = "ClaimableAccrued" /\ accrued.trade = t
      /\ e \in EmittedEvent /\ e.name = name /\ e.trade = t
  <2>1. "ClaimableAccrued" \in EventNames /\ name \in EventNames
    BY DEF EventNames, StatusAfter
  <2> QED BY <1>1, <2>1, OfTradeTyped
<1> HIDE DEF e, accrued
<1>3. StatusAfter[e.name] = "CLOSED" /\ e.name \in DOMAIN StatusAfter /\ e.name # "ArrivalConfirmed"
  BY <1>2 DEF StatusAfter
<1>4. after \in Contract /\ Tells(chain, e, after)
  BY <1>1, <1>2, <1>3, StatusSetIsTold
<1>5. Tells(chain, accrued, chain)
  BY <1>1, <1>2 DEF Tells, Noted
<1> HIDE DEF after
<1>6. Lead(chain, <<accrued, e>>, after)
  BY <1>1, <1>2, <1>4, <1>5, LeadByTwo
<1>7. Mined
  <2>1. <<accrued, e>> # <<>>
    OBVIOUS
  <2> QED BY <1>1, <1>6, <2>1, TransactionIsMined
<1>8. ChainInv'
  BY <1>1, StatusSetKeepsChainInv DEF Transaction, Statuses, after
<1> QED BY <1>7, <1>8

LEMMA TradeTransactionIsTold ==
  ASSUME ChainInv, Dated, TradeTransaction
  PROVE  ChainInv' /\ Mined
<1> PICK t \in TradeIds :
      \/ createTrade(t)
      \/ releaseFundsStage1(t)
      \/ confirmArrival(t)
      \/ openDispute(t)
      \/ finalizeAfterDisputeWindow(t)
      \/ cancelLockedTradeAfterTimeout(t)
      \/ refundInTransitAfterTimeout(t)
  BY DEF TradeTransaction
<1> QED
  BY createTradeIsTold, releaseFundsStage1IsTold, confirmArrivalIsTold, openDisputeIsTold, SettleIsTold
     DEF finalizeAfterDisputeWindow, cancelLockedTradeAfterTimeout, refundInTransitAfterTimeout

\* What an open proposal's row becomes when it is approved, executed or cancelled.
LEMMA RowsStayRows ==
  ASSUME NEW S, NEW O, NEW row \in [subject : S, outcome : O, approvals : Nat,
                                    executed : BOOLEAN, cancelled : BOOLEAN],
         NEW n \in Nat, NEW b \in BOOLEAN
  PROVE  /\ [row EXCEPT !.approvals = n] \in [subject : S, outcome : O, approvals : Nat,
                                              executed : BOOLEAN, cancelled : BOOLEAN]
         /\ [row EXCEPT !.executed = b] \in [subject : S, outcome : O, approvals : Nat,
                                             executed : BOOLEAN, cancelled : BOOLEAN]
         /\ [row EXCEPT !.cancelled = b] \in [subject : S, outcome : O, approvals : Nat,
                                              executed : BOOLEAN, cancelled : BOOLEAN]
  OBVIOUS

LEMMA NoneIsNoRow == None \notin MadeDispute /\ None \notin MadeUpdate
<1>1. MadeDispute \subseteq Proposal /\ MadeUpdate \subseteq Proposal
  BY DEF MadeDispute, MadeUpdate, Proposal
<1> QED BY <1>1, EventsAssumption

\* A step that changes the disputes of one frozen trade, and may close the trade.
DisputesChange(t, s, D) ==
  /\ t \in TradeIds /\ chain.status[t] = "FROZEN" /\ s \in {"FROZEN", "CLOSED"}
  /\ D \in [ProposalIds -> MadeDispute \cup {None}]
  /\ \A q \in ProposalIds : D[q] # None =>
       /\ D[q].subject # t => D[q] = chain.disputes[q]
       /\ D[q].subject = t => (IsOpen(D[q]) => s = "FROZEN") /\ (D[q].executed => s = "CLOSED")
  /\ \A q, r \in ProposalIds :
       IsOpen(D[q]) /\ IsOpen(D[r]) /\ D[q].subject = t /\ D[r].subject = t => q = r
  /\ chain' = [chain EXCEPT !.disputes = D, !.status[t] = s]

LEMMA DisputesKeepChainInv ==
  ASSUME ChainInv, NEW t, NEW s, NEW D, DisputesChange(t, s, D)
  PROVE  ChainInv'
<1> USE DEF DisputesChange
<1>1. chain.status \in [TradeIds -> Statuses] /\ chain.arrived \in [TradeIds -> BOOLEAN]
      /\ chain.disputes \in [ProposalIds -> MadeDispute \cup {None}]
  BY DEF ChainInv, Contract
<1>2. /\ chain' \in Contract
      /\ chain'.status = [chain.status EXCEPT ![t] = s] /\ chain'.arrived = chain.arrived
      /\ chain'.disputes = D
  BY DEF ChainInv, Contract, Statuses
<1>3. \A q \in ProposalIds : D[q] # None => D[q].subject \in TradeIds
  BY DEF MadeDispute
<1>4. ASSUME NEW q \in ProposalIds, IsOpen(D[q])
      PROVE  chain'.status[D[q].subject] = "FROZEN"
  BY <1>1, <1>2, <1>3, <1>4 DEF ChainInv, IsOpen
<1>5. ASSUME NEW q \in ProposalIds, D[q] # None, D[q].executed
      PROVE  chain'.status[D[q].subject] = "CLOSED"
  BY <1>1, <1>2, <1>3, <1>5 DEF ChainInv
<1>6. ASSUME NEW q \in ProposalIds, NEW r \in ProposalIds, IsOpen(D[q]), IsOpen(D[r]),
             D[q].subject = D[r].subject
      PROVE  q = r
  BY <1>6 DEF ChainInv, IsOpen
<1>7. \A u \in TradeIds : chain'.status[u] = "NONE" => ~chain'.arrived[u]
  BY <1>1, <1>2 DEF ChainInv
<1> QED BY <1>2, <1>4, <1>5, <1>6, <1>7 DEF ChainInv

\* The only dispute of a frozen trade that is not cancelled is its open one.
LEMMA TheOpenDispute ==
  ASSUME ChainInv, NEW p \in ProposalIds, IsOpen(chain.disputes[p])
  PROVE  /\ chain.disputes[p] \in MadeDispute /\ chain.disputes[p].subject \in TradeIds
         /\ chain.status[chain.disputes[p].subject] = "FROZEN"
         /\ \A q \in ProposalIds \ {p} :
              chain.disputes[q] # None /\ chain.disputes[q].subject = chain.disputes[p].subject =>
                ~IsOpen(chain.disputes[q]) /\ ~chain.disputes[q].executed
<1>1. chain.disputes[p] \in MadeDispute /\ chain.disputes[p].subject \in TradeIds
  BY DEF ChainInv, Contract, IsOpen, MadeDispute
<1>2. chain.status[chain.disputes[p].subject] = "FROZEN"
  BY DEF ChainInv
<1>3. ASSUME NEW q \in ProposalIds \ {p}, chain.disputes[q] # None,
             chain.disputes[q].subject = chain.disputes[p].subject
      PROVE  ~IsOpen(chain.disputes[q]) /\ ~chain.disputes[q].executed
  BY <1>2, <1>3 DEF ChainInv
<1> QED BY <1>1, <1>2, <1>3

LEMMA cancelExpiredDisputeProposalIsTold ==
  ASSUME ChainInv, Dated, NEW p \in ProposalIds, cancelExpiredDisputeProposal(p)
  PROVE  ChainInv' /\ Mined
<1> DEFINE e == [OfProposal("DisputeProposalExpiredCancelled", p, None)
                   EXCEPT !.trade = chain.disputes[p].subject]
           after == [chain EXCEPT !.disputes[p].cancelled = TRUE]
           row == [chain.disputes[p] EXCEPT !.cancelled = TRUE]
<1>1. IsOpen(chain.disputes[p]) /\ Transaction(after, <<e>>) /\ chain \in Contract
  BY DEF cancelExpiredDisputeProposal, ChainInv
<1>2. chain.disputes[p] \in MadeDispute
  BY <1>1 DEF IsOpen, Contract
<1>3. e \in EmittedEvent /\ e.name = "DisputeProposalExpiredCancelled" /\ e.proposal = p
  <2>1. "DisputeProposalExpiredCancelled" \in EventNames
    BY DEF EventNames
  <2>2. chain.disputes[p].subject \in TradeIds
    BY <1>2 DEF MadeDispute
  <2>3. \A name \in EventNames : /\ OfProposal(name, p, None) \in EmittedEvent
                                 /\ OfProposal(name, p, None).name = name
                                 /\ OfProposal(name, p, None).proposal = p
    BY DEF OfProposal, Event, EmittedEvent
  <2>4. /\ OfProposal("DisputeProposalExpiredCancelled", p, None) \in EmittedEvent
        /\ OfProposal("DisputeProposalExpiredCancelled", p, None).name = "DisputeProposalExpiredCancelled"
        /\ OfProposal("DisputeProposalExpiredCancelled", p, None).proposal = p
    BY <2>1, <2>3
  <2> QED BY <2>2, <2>4 DEF EmittedEvent
<1> HIDE DEF e
<1>4. row \in MadeDispute /\ row.subject = chain.disputes[p].subject
      /\ row.executed = chain.disputes[p].executed /\ ~IsOpen(row)
  BY <1>2 DEF MadeDispute, IsOpen
<1>5. after = [chain EXCEPT !.disputes[p] = row]
  BY <1>1 DEF Contract
<1>6. DisputeCancelled(chain, e, after)
  BY <1>1, <1>3 DEF DisputeCancelled, IsOpen
<1> HIDE DEF row
<1>7. after \in Contract
  BY <1>1, <1>4, <1>5 DEF Contract
<1> HIDE DEF after
<1>8. Mined
  BY <1>1, <1>3, <1>6, <1>7, LeadByOne, TransactionIsMined DEF Tells
<1>9. ChainInv'
  <2> DEFINE t == chain.disputes[p].subject
             D == [chain.disputes EXCEPT ![p] = row]
  <2>1. /\ t \in TradeIds /\ chain.status[t] = "FROZEN"
        /\ \A q \in ProposalIds \ {p} : chain.disputes[q] # None /\ chain.disputes[q].subject = t =>
             ~IsOpen(chain.disputes[q]) /\ ~chain.disputes[q].executed
    BY <1>1, TheOpenDispute
  <2>2. D \in [ProposalIds -> MadeDispute \cup {None}] /\ D[p] = row
        /\ \A q \in ProposalIds \ {p} : D[q] = chain.disputes[q]
    BY <1>1, <1>4 DEF Contract
  <2>3. ~row.executed
    BY <1>1, <1>4 DEF IsOpen
  <2>4. chain' = [chain EXCEPT !.disputes = D, !.status[t] = "FROZEN"]
    <3>1. chain' = [chain EXCEPT !.disputes = D]
      BY <1>1, <1>5 DEF Transaction
    <3>2. chain.status = [chain.status EXCEPT ![t] = "FROZEN"]
      BY <1>1, <2>1 DEF Contract
    <3> QED BY <1>1, <3>1, <3>2 DEF Contract
  <2>5. row.subject = t
    BY <1>4
  <2> HIDE DEF D, t
  <2>6. \A q \in ProposalIds : D[q] # None =>
          /\ D[q].subject # t => D[q] = chain.disputes[q]
          /\ D[q].subject = t => (IsOpen(D[q]) => "FROZEN" = "FROZEN") /\ (D[q].executed => "FROZEN" = "CLOSED")
    BY <1>4, <2>1, <2>2, <2>3, <2>5
  <2>7. \A q, r \in ProposalIds :
          IsOpen(D[q]) /\ IsOpen(D[r]) /\ D[q].subject = t /\ D[r].subject = t => q = r
    BY <1>4, <2>1, <2>2 DEF IsOpen
  <2>8. DisputesChange(t, "FROZEN", D)
    BY <2>1, <2>2, <2>4, <2>6, <2>7 DEF DisputesChange
  <2> QED BY <2>8, DisputesKeepChainInv
<1> QED BY <1>8, <1>9

LEMMA OfDisputeTyped ==
  ASSUME chain \in Contract, NEW p \in ProposalIds, NEW row \in MadeDispute,
         chain.status[row.subject] # "CLOSED", NEW name \in EventNames
  PROVE  /\ OfDispute(name, p, row) \in EmittedEvent
         /\ OfDispute(name, p, row).name = name /\ OfDispute(name, p, row).trade = row.subject
         /\ OfDispute(name, p, row).proposal = p /\ OfDispute(name, p, row).outcome = row.outcome
<1>1. row.subject \in TradeIds /\ row.outcome \in Outcomes
  BY DEF MadeDispute
<1> DEFINE e == OfTrade(name, row.subject)
<1>2. e \in EmittedEvent /\ e.name = name /\ e.trade = row.subject
  BY <1>1, OfTradeTyped
<1>3. OfDispute(name, p, row) = [e EXCEPT !.proposal = p, !.outcome = row.outcome]
  BY DEF OfDispute
<1> HIDE DEF e
<1> QED BY <1>1, <1>2, <1>3 DEF EmittedEvent

\* What a decided dispute is told by.
LEMMA ExecutionIsTold ==
  ASSUME chain \in Contract, NEW u \in Contract, NEW p \in ProposalIds, NEW row \in MadeDispute,
         u.disputes[p] = row, u.status[row.subject] = "FROZEN", chain.status[row.subject] = "FROZEN"
  PROVE  LET v == [u EXCEPT !.disputes[p].executed = TRUE, !.status[row.subject] = "CLOSED"]
         IN v \in Contract /\ Lead(u, Execution(p, row), v)
<1> DEFINE v == [u EXCEPT !.disputes[p].executed = TRUE, !.status[row.subject] = "CLOSED"]
           t == row.subject
           accrued == OfTrade("ClaimableAccrued", t)
           paid == OfDispute("DisputePayout", p, row)
           final == OfDispute("DisputeFinalized", p, row)
<1>1. t \in TradeIds /\ row.outcome \in Outcomes /\ row # None
  BY NoneIsNoRow DEF MadeDispute
<1>2. /\ accrued \in EmittedEvent /\ accrued.name = "ClaimableAccrued" /\ accrued.trade = t
      /\ paid \in EmittedEvent /\ paid.name = "DisputePayout" /\ paid.trade = t
      /\ final \in EmittedEvent /\ final.name = "DisputeFinalized" /\ final.proposal = p
  <2>1. /\ "ClaimableAccrued" \in EventNames /\ "DisputePayout" \in EventNames
        /\ "DisputeFinalized" \in EventNames
    BY DEF EventNames
  <2>2. chain.status[t] # "CLOSED"
    OBVIOUS
  <2> QED BY <1>1, <2>1, <2>2, OfTradeTyped, OfDisputeTyped
<1>4. Tells(u, accrued, u) /\ Tells(u, paid, u)
  BY <1>1, <1>2 DEF Tells, Noted
<1>5. Tells(u, final, v)
  BY <1>1, <1>2 DEF Tells, DisputeExecuted
<1>6. v \in Contract
  <2>1. [u.disputes[p] EXCEPT !.executed = TRUE] \in MadeDispute
    BY DEF MadeDispute
  <2>2. v = [u EXCEPT !.disputes = [u.disputes EXCEPT ![p] = [u.disputes[p] EXCEPT !.executed = TRUE]],
                      !.status = [u.status EXCEPT ![row.subject] = "CLOSED"]]
    BY DEF Contract
  <2> QED BY <1>1, <2>1, <2>2 DEF Contract, Statuses
<1> HIDE DEF accrued, paid, final, v
<1>7. Lead(u, <<accrued, paid, final>>, v)
  BY <1>2, <1>4, <1>5, <1>6, LeadByThree
<1>8. Execution(p, row) = <<accrued, paid, final>>
  BY DEF Execution, accrued, paid, final
<1> QED BY <1>6, <1>7, <1>8 DEF v

LEMMA OneAndMore ==
  ASSUME NEW e, NEW s, NEW S, e \in S, s \in Seq(S)
  PROVE  <<e>> \o s # <<>>
<1>1. <<e>> \in Seq(S)
  OBVIOUS
<1>2. Len(<<e>> \o s) = 1 + Len(s) /\ Len(s) \in Nat
  BY <1>1
<1> QED BY <1>2

LEMMA approveDisputeSolutionIsTold ==
  ASSUME ChainInv, Dated, NEW p \in ProposalIds, approveDisputeSolution(p)
  PROVE  ChainInv' /\ Mined
<1> DEFINE row     == [chain.disputes[p] EXCEPT !.approvals = @ + 1]
           decided == row.approvals >= Quorum
           result  == [row EXCEPT !.executed = decided]
           t       == row.subject
           s       == IF decided THEN "CLOSED" ELSE "FROZEN"
           after   == [chain EXCEPT !.disputes[p] = result,
                                    !.status[t] = IF decided THEN "CLOSED" ELSE @]
           e       == OfProposal("DisputeApproved", p, row.approvals)
           more    == IF decided THEN Execution(p, row) ELSE <<>>
           u       == [chain EXCEPT !.disputes[p] = row]
<1>1. IsOpen(chain.disputes[p]) /\ Transaction(after, <<e>> \o more) /\ chain \in Contract
  BY DEF approveDisputeSolution, ChainInv
<1>2. /\ chain.disputes[p] \in MadeDispute /\ chain.disputes[p].subject \in TradeIds
      /\ chain.status[chain.disputes[p].subject] = "FROZEN"
      /\ \A q \in ProposalIds \ {p} :
           chain.disputes[q] # None /\ chain.disputes[q].subject = chain.disputes[p].subject =>
             ~IsOpen(chain.disputes[q]) /\ ~chain.disputes[q].executed
  BY <1>1, TheOpenDispute
<1>3. /\ row \in MadeDispute /\ row.subject = chain.disputes[p].subject /\ ~row.executed
      /\ row.approvals = chain.disputes[p].approvals + 1 /\ row.approvals \in Nat
      /\ row # None
  BY <1>1, <1>2, NoneIsNoRow DEF MadeDispute, IsOpen
<1>4. e \in EmittedEvent /\ e.name = "DisputeApproved" /\ e.proposal = p /\ e.approvals = row.approvals
  <2>1. \A name \in EventNames : \A n \in Nat :
          /\ OfProposal(name, p, n) \in EmittedEvent /\ OfProposal(name, p, n).name = name
          /\ OfProposal(name, p, n).proposal = p /\ OfProposal(name, p, n).approvals = n
    BY DEF OfProposal, Event, EmittedEvent
  <2>2. "DisputeApproved" \in EventNames
    BY DEF EventNames
  <2> QED BY <1>3, <2>1, <2>2
<1> HIDE DEF e
<1>5. u \in Contract /\ u.disputes[p] = row /\ u.status = chain.status
  BY <1>1, <1>3 DEF Contract
<1>6. Tells(chain, e, u)
  <2>1. u = [chain EXCEPT !.disputes[p].approvals = e.approvals]
    <3>1. row = [chain.disputes[p] EXCEPT !.approvals = row.approvals]
      BY <1>2 DEF MadeDispute
    <3> HIDE DEF row
    <3> QED BY <1>1, <1>4, <3>1 DEF Contract
  <2> QED BY <1>1, <1>3, <1>4, <2>1 DEF Tells, DisputeCounted, IsOpen
<1>7. Lead(chain, <<e>>, u)
  BY <1>1, <1>4, <1>5, <1>6, LeadByOne
<1>8. after \in Contract /\ Lead(u, more, after)
  <2>1. CASE decided
    <3> DEFINE v == [u EXCEPT !.disputes[p].executed = TRUE, !.status[t] = "CLOSED"]
    <3>1. v \in Contract /\ Lead(u, Execution(p, row), v)
      BY <1>1, <1>2, <1>3, <1>5, ExecutionIsTold
    <3>2. v = after
      <4>1. result = [row EXCEPT !.executed = TRUE]
        BY <2>1
      <4> HIDE DEF row, decided, result, t
      <4>2. u = [chain EXCEPT !.disputes = [chain.disputes EXCEPT ![p] = row]]
        BY <1>1 DEF Contract
      <4>3. u.disputes = [chain.disputes EXCEPT ![p] = row] /\ u.disputes[p] = row
            /\ u.status = chain.status
        BY <1>1, <1>5 DEF Contract
      <4>4. v = [chain EXCEPT !.disputes = [chain.disputes EXCEPT ![p] = result],
                              !.status = [chain.status EXCEPT ![t] = "CLOSED"]]
        BY <1>1, <4>1, <4>3 DEF Contract
      <4>5. after = [chain EXCEPT !.disputes = [chain.disputes EXCEPT ![p] = result],
                                  !.status = [chain.status EXCEPT ![t] = "CLOSED"]]
        BY <1>1, <2>1 DEF Contract
      <4> QED BY <4>4, <4>5
    <3> QED BY <2>1, <3>1, <3>2
  <2>2. CASE ~decided
    <3>1. result = row
      <4>1. decided \in BOOLEAN /\ row.executed \in BOOLEAN
        BY <1>3, EventsAssumption DEF MadeDispute
      <4>2. decided = row.executed
        BY <1>3, <2>2, <4>1
      <4> HIDE DEF row, decided
      <4> QED BY <1>3, <4>2 DEF MadeDispute
    <3>2. after = u
      <4> HIDE DEF row, decided, result, t
      <4> QED BY <1>1, <2>2, <3>1 DEF Contract
    <3> QED BY <1>5, <2>2, <3>2, LeadByNone
  <2> QED BY <2>1, <2>2
<1>9. Lead(chain, <<e>> \o more, after) /\ <<e>> \o more # <<>>
  <2>1. more \in Seq(EmittedEvent)
    BY <1>8 DEF Lead, LeadBy
  <2> HIDE DEF more, after, u
  <2> QED BY <1>4, <1>7, <1>8, <2>1, LeadByBoth, OneAndMore
<1> DEFINE events == <<e>> \o more
<1>10. Mined
  <2>1. Transaction(after, events) /\ Lead(chain, events, after) /\ events # <<>>
    BY <1>1, <1>9
  <2> HIDE DEF events, after
  <2> QED BY <2>1, TransactionIsMined
<1>11. ChainInv'
  <2> DEFINE D == [chain.disputes EXCEPT ![p] = result]
  <2>1. decided \in BOOLEAN
    BY <1>3, EventsAssumption
  <2>2. /\ result \in MadeDispute /\ result.subject = t /\ result.executed = decided
        /\ (IsOpen(result) => ~decided)
    BY <1>3, <2>1 DEF MadeDispute, IsOpen
  <2>3. D \in [ProposalIds -> MadeDispute \cup {None}] /\ D[p] = result
        /\ \A q \in ProposalIds \ {p} : D[q] = chain.disputes[q]
    BY <1>1, <2>2 DEF Contract
  <2>4. chain' = after
    BY <1>1 DEF Transaction
  <2>5. t \in TradeIds /\ chain.status[t] = "FROZEN" /\ s \in {"FROZEN", "CLOSED"}
    BY <1>2, <1>3
  <2>6. chain' = [chain EXCEPT !.disputes = D, !.status[t] = s]
    <3> HIDE DEF result, t, decided
    <3> QED BY <1>1, <2>4, <2>5 DEF Contract
  <2>7. \A q \in ProposalIds \ {p} :
          chain.disputes[q] # None /\ chain.disputes[q].subject = t =>
            ~IsOpen(chain.disputes[q]) /\ ~chain.disputes[q].executed
    BY <1>2, <1>3
  <2>8. s = IF decided THEN "CLOSED" ELSE "FROZEN"
    OBVIOUS
  <2> HIDE DEF D, t, s, result, decided, after, row, more, u, events
  <2>9. \A q \in ProposalIds : D[q] # None =>
          /\ D[q].subject # t => D[q] = chain.disputes[q]
          /\ D[q].subject = t => (IsOpen(D[q]) => s = "FROZEN") /\ (D[q].executed => s = "CLOSED")
    BY <2>2, <2>3, <2>7, <2>8
  <2>10. \A q, r \in ProposalIds :
           IsOpen(D[q]) /\ IsOpen(D[r]) /\ D[q].subject = t /\ D[r].subject = t => q = r
    BY <2>3, <2>7 DEF IsOpen
  <2>11. DisputesChange(t, s, D)
    BY <2>3, <2>5, <2>6, <2>9, <2>10 DEF DisputesChange
  <2> QED BY <2>11, DisputesKeepChainInv
<1> QED BY <1>10, <1>11

\* A nonempty set in a well-founded order has a member that none is before.
LEMMA SmallestByOrder ==
  \A R, Q, U : IsWellFoundedOn(R, Q) /\ U \subseteq Q /\ U # {} =>
    \E x \in U : \A y \in U : ~(<<y, x>> \in R)
  BY WFMin

\* The least element of a nonempty set of numbers.
LEMMA LeastNumber ==
  ASSUME NEW T \in SUBSET Nat, T # {}
  PROVE  \E n \in T : \A m \in T : n <= m
<1> DEFINE R == {ss \in Nat \X Nat : ss[1] < ss[2]}
<1>1. IsWellFoundedOn(R, Nat)
  BY NatLessThanWellFounded, Zenon DEF OpToRel
<1>2. \E n \in T : \A m \in T : ~(<<m, n>> \in R)
  <2>1. T \subseteq Nat
    OBVIOUS
  <2> HIDE DEF R
  <2> QED BY <1>1, <2>1, SmallestByOrder, Zenon
<1>3. PICK n \in T : \A m \in T : ~(<<m, n>> \in R)
  BY <1>2, Zenon
<1>4. ASSUME NEW m \in T
      PROVE  n <= m
  <2>1. m \in Nat /\ n \in Nat /\ (m < n => <<m, n>> \in R)
    OBVIOUS
  <2>2. ~(<<m, n>> \in R)
    BY <1>3
  <2> HIDE DEF R
  <2> QED BY <2>1, <2>2
<1> QED BY <1>4

\* The number that the contract gives to its next proposal is free.
LEMMA FirstFreeIsFree ==
  ASSUME NEW rows, NEW p \in ProposalIds, rows[p] = None
  PROVE  FirstFree(rows) \in ProposalIds /\ rows[FirstFree(rows)] = None
<1> DEFINE Free == {q \in ProposalIds : rows[q] = None}
<1>1. PICK n \in Free : \A m \in Free : n <= m
  <2>1. Free \in SUBSET Nat /\ Free # {}
    BY EventsAssumption
  <2> HIDE DEF Free
  <2> QED BY <2>1, LeastNumber
<1>2. \A q \in ProposalIds : q < n => rows[q] # None
  BY <1>1, EventsAssumption
<1> QED BY <1>1, <1>2 DEF FirstFree

\* The part of proposeDisputeSolution that cancels the trade's open dispute, if there is one.
Expired(t) == {q \in ProposalIds : IsOpen(chain.disputes[q]) /\ chain.disputes[q].subject = t}

Cleaned(t) ==
  [q \in ProposalIds |-> IF q \in Expired(t) THEN [chain.disputes[q] EXCEPT !.cancelled = TRUE]
                                             ELSE chain.disputes[q]]

CancelEvent(t, q) == [OfProposal("DisputeProposalExpiredCancelled", q, None) EXCEPT !.trade = t]

Cancellation(t) ==
  IF Expired(t) = {} THEN <<>> ELSE <<CancelEvent(t, CHOOSE q \in Expired(t) : TRUE)>>

LEMMA CancellationIsTold ==
  ASSUME ChainInv, NEW t \in TradeIds, chain.status[t] = "FROZEN"
  PROVE  LET u == [chain EXCEPT !.disputes = Cleaned(t)]
         IN /\ u \in Contract /\ u.status = chain.status /\ u.disputes = Cleaned(t)
            /\ Lead(chain, Cancellation(t), u)
            /\ \A q \in ProposalIds :
                 /\ chain.disputes[q] = None => Cleaned(t)[q] = None
                 /\ Cleaned(t)[q] # None =>
                      /\ Cleaned(t)[q].subject # t => Cleaned(t)[q] = chain.disputes[q]
                      /\ Cleaned(t)[q].subject = t =>
                           ~IsOpen(Cleaned(t)[q]) /\ ~Cleaned(t)[q].executed
<1> DEFINE u == [chain EXCEPT !.disputes = Cleaned(t)]
<1>1. chain \in Contract /\ chain.disputes \in [ProposalIds -> MadeDispute \cup {None}]
  BY DEF ChainInv, Contract
<1>2. ASSUME NEW q \in Expired(t)
      PROVE  /\ [chain.disputes[q] EXCEPT !.cancelled = TRUE] \in MadeDispute
             /\ [chain.disputes[q] EXCEPT !.cancelled = TRUE].subject = t
             /\ ~IsOpen([chain.disputes[q] EXCEPT !.cancelled = TRUE])
             /\ ~[chain.disputes[q] EXCEPT !.cancelled = TRUE].executed
             /\ q \in ProposalIds /\ chain.disputes[q] # None /\ chain.disputes[q] \in MadeDispute
  BY <1>1 DEF Expired, IsOpen, MadeDispute
<1>3. Cleaned(t) \in [ProposalIds -> MadeDispute \cup {None}]
  BY <1>1, <1>2 DEF Cleaned
<1>4. u \in Contract /\ u.status = chain.status /\ u.disputes = Cleaned(t)
  BY <1>1, <1>3 DEF Contract
<1>5. ASSUME NEW q \in ProposalIds
      PROVE  /\ chain.disputes[q] = None => Cleaned(t)[q] = None
             /\ Cleaned(t)[q] # None =>
                  /\ Cleaned(t)[q].subject # t => Cleaned(t)[q] = chain.disputes[q]
                  /\ Cleaned(t)[q].subject = t => ~IsOpen(Cleaned(t)[q]) /\ ~Cleaned(t)[q].executed
  <2>1. CASE q \in Expired(t)
    <3>1. Cleaned(t)[q] = [chain.disputes[q] EXCEPT !.cancelled = TRUE]
      BY <2>1 DEF Cleaned
    <3> QED BY <1>2, <2>1, <3>1
  <2>2. CASE q \notin Expired(t)
    <3>1. Cleaned(t)[q] = chain.disputes[q]
      BY <2>2 DEF Cleaned
    <3>2. chain.disputes[q] # None /\ chain.disputes[q].subject = t =>
            ~IsOpen(chain.disputes[q]) /\ ~chain.disputes[q].executed
      BY <2>2 DEF Expired, ChainInv
    <3> QED BY <3>1, <3>2
  <2> QED BY <2>1, <2>2
<1>6. Lead(chain, Cancellation(t), u)
  <2>1. CASE Expired(t) = {}
    <3>1. Cleaned(t) = chain.disputes
      BY <1>1, <2>1 DEF Cleaned
    <3>2. u = chain
      BY <1>1, <3>1 DEF Contract
    <3>3. Cancellation(t) = <<>>
      BY <2>1 DEF Cancellation
    <3> HIDE DEF u
    <3> QED BY <1>1, <3>2, <3>3, LeadByNone
  <2>2. CASE Expired(t) # {}
    <3> DEFINE c == CHOOSE q \in Expired(t) : TRUE
               e == CancelEvent(t, c)
    <3>1. c \in Expired(t)
      BY <2>2
    <3> HIDE DEF c
    <3>2. \A q \in Expired(t) : q = c
      BY <3>1 DEF Expired, ChainInv
    <3>3. Cleaned(t) = [chain.disputes EXCEPT ![c] = [chain.disputes[c] EXCEPT !.cancelled = TRUE]]
      BY <1>1, <3>1, <3>2 DEF Cleaned
    <3>4. u = [chain EXCEPT !.disputes[c].cancelled = TRUE]
      BY <1>1, <3>3 DEF Contract
    <3>5. e \in EmittedEvent /\ e.name = "DisputeProposalExpiredCancelled" /\ e.proposal = c
      <4>1. \A name \in EventNames : \A q \in ProposalIds :
              /\ OfProposal(name, q, None) \in EmittedEvent
              /\ OfProposal(name, q, None).name = name /\ OfProposal(name, q, None).proposal = q
        BY DEF OfProposal, Event, EmittedEvent
      <4>2. "DisputeProposalExpiredCancelled" \in EventNames
        BY DEF EventNames
      <4>3. /\ OfProposal("DisputeProposalExpiredCancelled", c, None) \in EmittedEvent
            /\ OfProposal("DisputeProposalExpiredCancelled", c, None).name = "DisputeProposalExpiredCancelled"
            /\ OfProposal("DisputeProposalExpiredCancelled", c, None).proposal = c
        BY <1>2, <3>1, <4>1, <4>2
      <4> QED BY <4>3 DEF CancelEvent, EmittedEvent
    <3> HIDE DEF e
    <3>6. Tells(chain, e, u)
      BY <1>2, <3>1, <3>4, <3>5 DEF Tells, DisputeCancelled
    <3>7. Cancellation(t) = <<e>>
      BY <2>2 DEF Cancellation, c, e
    <3> HIDE DEF u
    <3> QED BY <1>1, <1>4, <3>5, <3>6, <3>7, LeadByOne
  <2> QED BY <2>1, <2>2
<1> QED BY <1>4, <1>5, <1>6

LEMMA proposeDisputeSolutionIsTold ==
  ASSUME ChainInv, Dated, NEW t \in TradeIds, NEW outcome \in Outcomes,
         proposeDisputeSolution(t, outcome)
  PROVE  ChainInv' /\ Mined
<1> DEFINE p       == FirstFree(chain.disputes)
           row     == Proposed(t, outcome)
           decided == Quorum = 1
           result  == [row EXCEPT !.executed = decided]
           s       == IF decided THEN "CLOSED" ELSE "FROZEN"
           D       == [Cleaned(t) EXCEPT ![p] = result]
           after   == [chain EXCEPT !.disputes = D, !.status[t] = IF decided THEN "CLOSED" ELSE @]
           e       == OfDispute("DisputeSolutionProposed", p, row)
           more    == IF decided THEN Execution(p, row) ELSE <<>>
           u       == [chain EXCEPT !.disputes = Cleaned(t)]
           v       == [u EXCEPT !.disputes[p] = row]
<1>1. /\ chain.status[t] = "FROZEN" /\ chain \in Contract
      /\ \E q \in ProposalIds : chain.disputes[q] = None
  BY DEF proposeDisputeSolution, Accepts, ChainInv
<1>2. Transaction(after, Cancellation(t) \o <<e>> \o more)
  BY DEF proposeDisputeSolution, Cancellation, CancelEvent, Cleaned, Expired
<1>3. p \in ProposalIds /\ chain.disputes[p] = None
  BY <1>1, FirstFreeIsFree
<1> HIDE DEF p
<1>4. /\ row \in MadeDispute /\ row.subject = t /\ row.outcome = outcome /\ ~row.executed
      /\ row = Proposed(t, outcome)
  BY DEF Proposed, MadeDispute
<1>5. /\ u \in Contract /\ u.status = chain.status /\ u.disputes = Cleaned(t)
      /\ Lead(chain, Cancellation(t), u)
      /\ \A q \in ProposalIds :
           /\ chain.disputes[q] = None => Cleaned(t)[q] = None
           /\ Cleaned(t)[q] # None =>
                /\ Cleaned(t)[q].subject # t => Cleaned(t)[q] = chain.disputes[q]
                /\ Cleaned(t)[q].subject = t => ~IsOpen(Cleaned(t)[q]) /\ ~Cleaned(t)[q].executed
  BY <1>1, CancellationIsTold
<1>6. e \in EmittedEvent /\ e.name = "DisputeSolutionProposed" /\ e.trade = t /\ e.proposal = p
      /\ e.outcome = outcome
  <2>1. "DisputeSolutionProposed" \in EventNames
    BY DEF EventNames
  <2>2. chain.status[row.subject] # "CLOSED"
    BY <1>1, <1>4
  <2> HIDE DEF row
  <2> QED BY <1>1, <1>3, <1>4, <2>1, <2>2, OfDisputeTyped
<1> HIDE DEF e, row
<1>7. /\ result \in MadeDispute /\ result.subject = t /\ result.executed = decided
      /\ (IsOpen(result) => ~decided)
  <2>1. decided \in BOOLEAN
    OBVIOUS
  <2> HIDE DEF decided
  <2> QED BY <1>4, <2>1 DEF MadeDispute, IsOpen
<1>8. ~decided => result = row
  <2>1. decided \in BOOLEAN /\ row.executed \in BOOLEAN
    BY <1>4 DEF MadeDispute
  <2> HIDE DEF decided
  <2>2. ~decided => decided = row.executed
    BY <1>4, <2>1
  <2> QED BY <1>4, <2>2 DEF MadeDispute
<1>9. decided => result = [row EXCEPT !.executed = TRUE]
  OBVIOUS
<1> HIDE DEF result, u
<1>10. /\ v \in Contract /\ v.disputes = [Cleaned(t) EXCEPT ![p] = row]
       /\ v.disputes[p] = row /\ v.status = chain.status
  BY <1>3, <1>4, <1>5 DEF Contract
<1>11. Tells(u, e, v)
  <2>1. u.disputes[p] = None /\ u.status[t] # "NONE"
    BY <1>1, <1>3, <1>5
  <2>2. DisputeMade(u, e, v)
    BY <1>3, <1>4, <1>6, <2>1 DEF DisputeMade
  <2> QED BY <2>2 DEF Tells
<1> HIDE DEF v
<1>12. Lead(u, <<e>>, v)
  BY <1>5, <1>6, <1>10, <1>11, LeadByOne
<1>13. after \in Contract /\ Lead(v, more, after)
  <2> HIDE DEF decided
  <2>1. CASE decided
    <3> DEFINE w == [v EXCEPT !.disputes[p].executed = TRUE, !.status[row.subject] = "CLOSED"]
    <3>1. w \in Contract /\ Lead(v, Execution(p, row), w)
      BY <1>1, <1>3, <1>4, <1>10, ExecutionIsTold
    <3>2. w = [v EXCEPT !.disputes = [v.disputes EXCEPT ![p] = result],
                        !.status = [v.status EXCEPT ![t] = "CLOSED"]]
      BY <1>4, <1>9, <1>10, <2>1 DEF Contract
    <3>3. [v.disputes EXCEPT ![p] = result] = D
      BY <1>3, <1>5, <1>10 DEF Contract
    <3>4. v = [chain EXCEPT !.disputes = v.disputes]
      BY <1>1, <1>5, <1>10 DEF v, u, Contract
    <3>5. after = [chain EXCEPT !.disputes = D, !.status = [chain.status EXCEPT ![t] = "CLOSED"]]
      BY <1>1, <2>1 DEF Contract
    <3> DEFINE st == [chain.status EXCEPT ![t] = "CLOSED"]
    <3>6. w = [v EXCEPT !.disputes = D, !.status = st]
      BY <1>10, <3>2, <3>3
    <3>7. after = [chain EXCEPT !.disputes = D, !.status = st]
      BY <3>5
    <3> HIDE DEF D, w, after, st
    <3>8. v.arrived = chain.arrived /\ v.updates = chain.updates
      BY <1>1, <3>4 DEF Contract
    <3>9. w = [status |-> st, arrived |-> chain.arrived, disputes |-> D, updates |-> chain.updates]
      BY <1>10, <3>6, <3>8 DEF Contract
    <3>10. after = [status |-> st, arrived |-> chain.arrived, disputes |-> D, updates |-> chain.updates]
      BY <1>1, <3>7 DEF Contract
    <3>11. w = after
      BY <3>9, <3>10
    <3> QED BY <2>1, <3>1, <3>11
  <2>2. CASE ~decided
    <3>1. D = v.disputes
      BY <1>8, <1>10, <2>2
    <3>2. after = v
      <4>1. v = [chain EXCEPT !.disputes = v.disputes]
        BY <1>1, <1>5, <1>10 DEF v, u, Contract
      <4> HIDE DEF D
      <4> QED BY <1>1, <2>2, <3>1, <4>1 DEF Contract
    <3> QED BY <1>10, <2>2, <3>2, LeadByNone
  <2> QED BY <2>1, <2>2
<1> HIDE DEF more, after, D
<1>14. Lead(chain, Cancellation(t) \o <<e>>, v)
  BY <1>5, <1>12, LeadByBoth
<1> DEFINE events == Cancellation(t) \o <<e>> \o more
<1>15. Lead(chain, events, after) /\ events # <<>>
  <2>1. Lead(chain, (Cancellation(t) \o <<e>>) \o more, after)
    BY <1>13, <1>14, LeadByBoth
  <2>2. Cancellation(t) \in Seq(EmittedEvent) /\ <<e>> \in Seq(EmittedEvent)
        /\ more \in Seq(EmittedEvent)
    BY <1>5, <1>12, <1>13 DEF Lead, LeadBy
  <2>3. Len(events) = Len(Cancellation(t)) + 1 + Len(more)
    BY <2>2
  <2>4. Len(Cancellation(t)) \in Nat /\ Len(more) \in Nat
    BY <2>2
  <2> QED BY <2>1, <2>3, <2>4
<1>16. Mined
  <2>1. Transaction(after, events)
    BY <1>2 DEF after, more, D, result, row, e, p
  <2> HIDE DEF events
  <2> QED BY <1>15, <2>1, TransactionIsMined
<1>17. ChainInv'
  <2>1. D \in [ProposalIds -> MadeDispute \cup {None}] /\ D[p] = result
        /\ \A q \in ProposalIds \ {p} : D[q] = Cleaned(t)[q]
    BY <1>3, <1>5, <1>7 DEF D, Contract
  <2>2. chain' = [chain EXCEPT !.disputes = D, !.status[t] = s]
    <3>1. chain' = after
      BY <1>2 DEF Transaction, after
    <3> HIDE DEF decided
    <3> QED BY <1>1, <3>1 DEF Contract, after
  <2>3. s \in {"FROZEN", "CLOSED"} /\ s = IF decided THEN "CLOSED" ELSE "FROZEN"
    OBVIOUS
  <2> HIDE DEF s, decided, events
  <2>4. \A q \in ProposalIds : D[q] # None =>
          /\ D[q].subject # t => D[q] = chain.disputes[q]
          /\ D[q].subject = t => (IsOpen(D[q]) => s = "FROZEN") /\ (D[q].executed => s = "CLOSED")
    <3> SUFFICES ASSUME NEW q \in ProposalIds, D[q] # None
                 PROVE /\ D[q].subject # t => D[q] = chain.disputes[q]
                       /\ D[q].subject = t =>
                            (IsOpen(D[q]) => s = "FROZEN") /\ (D[q].executed => s = "CLOSED")
      OBVIOUS
    <3>1. CASE q = p
      BY <1>7, <2>1, <2>3, <3>1
    <3>2. CASE q # p
      BY <1>5, <2>1, <2>3, <3>2
    <3> QED BY <3>1, <3>2
  <2>5. \A q, r \in ProposalIds :
          IsOpen(D[q]) /\ IsOpen(D[r]) /\ D[q].subject = t /\ D[r].subject = t => q = r
    BY <1>5, <2>1 DEF IsOpen
  <2>6. DisputesChange(t, s, D)
    BY <1>1, <2>1, <2>2, <2>3, <2>4, <2>5 DEF DisputesChange
  <2> QED BY <2>6, DisputesKeepChainInv
<1> QED BY <1>16, <1>17

LEMMA DisputeTransactionIsTold ==
  ASSUME ChainInv, Dated, DisputeTransaction
  PROVE  ChainInv' /\ Mined
BY proposeDisputeSolutionIsTold, approveDisputeSolutionIsTold, cancelExpiredDisputeProposalIsTold
   DEF DisputeTransaction

\* A step that changes the updates only.
LEMMA UpdatesKeepChainInv ==
  ASSUME ChainInv, NEW kind \in UpdateKinds, NEW p \in ProposalIds, NEW row \in MadeUpdate,
         chain' = [chain EXCEPT !.updates[kind] = [chain.updates[kind] EXCEPT ![p] = row]]
  PROVE  ChainInv'
<1>1. chain' \in Contract
  BY DEF ChainInv, Contract
<1>2. UNCHANGED <<chain.status, chain.arrived, chain.disputes>>
  BY DEF ChainInv, Contract
<1> QED BY <1>1, <1>2 DEF ChainInv

LEMMA UpdateTyped ==
  ASSUME NEW kind \in UpdateKinds, NEW step \in {"propose", "approve", "execute", "cancel"}
  PROVE  NameOf(kind, step) \in EventNames
BY DEF EventNames

\* The row of an update that has been proposed.
LEMMA UpdateRowTyped ==
  ASSUME ChainInv, NEW kind \in UpdateKinds, NEW p \in ProposalIds, IsOpen(chain.updates[kind][p])
  PROVE  chain \in Contract /\ chain.updates[kind][p] # None /\ chain.updates[kind][p] \in MadeUpdate
BY DEF ChainInv, Contract, IsOpen

LEMMA proposeUpdateIsTold ==
  ASSUME ChainInv, Dated, NEW kind \in UpdateKinds, proposeUpdate(kind)
  PROVE  ChainInv' /\ Mined
<1> DEFINE p     == FirstFree(chain.updates[kind])
           row   == Proposed(None, None)
           after == [chain EXCEPT !.updates[kind] = [chain.updates[kind] EXCEPT ![p] = row]]
           made  == OfProposal(NameOf(kind, "propose"), p, None)
           told  == OfProposal(NameOf(kind, "approve"), p, 1)
<1>1. chain \in Contract /\ \E q \in ProposalIds : chain.updates[kind][q] = None
  BY DEF proposeUpdate, ChainInv
<1>2. p \in ProposalIds /\ chain.updates[kind][p] = None
  BY <1>1, FirstFreeIsFree
<1>3. Transaction([chain EXCEPT !.updates[kind][p] = row], <<made, told>>)
  BY DEF proposeUpdate
<1> HIDE DEF p
<1>4. [chain EXCEPT !.updates[kind][p] = row] = after
  BY <1>1 DEF Contract
<1>5. row \in MadeUpdate /\ row.approvals = 1 /\ row = Proposed(None, None) /\ row # None
  <2>1. row \in MadeUpdate /\ row.approvals = 1 /\ row = Proposed(None, None)
    BY DEF Proposed, MadeUpdate
  <2> HIDE DEF row
  <2> QED BY <2>1, NoneIsNoRow
<1>6. /\ made \in EmittedEvent /\ made.name = NameOf(kind, "propose") /\ made.proposal = p
      /\ told \in EmittedEvent /\ told.name = NameOf(kind, "approve") /\ told.proposal = p
      /\ told.approvals = 1
  <2>1. NameOf(kind, "propose") \in EventNames /\ NameOf(kind, "approve") \in EventNames
    BY UpdateTyped
  <2> QED BY <1>2, <2>1 DEF OfProposal, Event, EmittedEvent
<1> HIDE DEF made, told, row
<1>7. /\ after \in Contract /\ after.updates[kind][p] = row
      /\ after = [after EXCEPT !.updates[kind][p].approvals = 1]
  <2>1. after \in Contract /\ after.updates[kind][p] = row
    BY <1>1, <1>2, <1>5 DEF Contract
  <2>2. row = [row EXCEPT !.approvals = 1]
    BY <1>5 DEF MadeUpdate
  <2> HIDE DEF after
  <2> QED BY <1>2, <2>1, <2>2 DEF Contract
<1>8. Tells(chain, made, after)
  <2>1. UpdateMade(chain, made, after)
    BY <1>2, <1>4, <1>5, <1>6 DEF UpdateMade
  <2> QED BY <2>1 DEF Tells
<1> HIDE DEF after
<1>9. Tells(after, told, after)
  <2>1. UpdateCounted(after, told, after)
    BY <1>2, <1>5, <1>6, <1>7 DEF UpdateCounted
  <2> QED BY <2>1 DEF Tells
<1>10. Mined
  <2>1. Lead(chain, <<made, told>>, after)
    BY <1>1, <1>6, <1>7, <1>8, <1>9, LeadByTwo
  <2>2. <<made, told>> # <<>>
    OBVIOUS
  <2> QED BY <1>3, <1>4, <2>1, <2>2, TransactionIsMined
<1>11. ChainInv'
  <2>1. chain' = [chain EXCEPT !.updates[kind] = [chain.updates[kind] EXCEPT ![p] = row]]
    BY <1>3, <1>4 DEF Transaction, after
  <2> QED BY <1>2, <1>5, <2>1, UpdatesKeepChainInv
<1> QED BY <1>10, <1>11

\* The three transactions that change the row of one update and tell one event.
LEMMA UpdateChangeIsTold ==
  ASSUME ChainInv, Dated, NEW kind \in UpdateKinds, NEW p \in ProposalIds,
         NEW row \in MadeUpdate, NEW e \in EmittedEvent, NEW after,
         after = [chain EXCEPT !.updates[kind] = [chain.updates[kind] EXCEPT ![p] = row]],
         Transaction(after, <<e>>), Tells(chain, e, after)
  PROVE  ChainInv' /\ Mined
<1>1. chain \in Contract /\ after \in Contract
  BY DEF ChainInv, Contract
<1>2. Lead(chain, <<e>>, after)
  BY <1>1, LeadByOne
<1>3. Mined
  BY <1>2, TransactionIsMined
<1>4. chain' = after
  BY DEF Transaction
<1> QED BY <1>3, <1>4, UpdatesKeepChainInv

LEMMA approveUpdateIsTold ==
  ASSUME ChainInv, Dated, NEW kind \in UpdateKinds, NEW p \in ProposalIds,
         approveUpdate(kind, p)
  PROVE  ChainInv' /\ Mined
<1> DEFINE approvals == chain.updates[kind][p].approvals + 1
           row   == [chain.updates[kind][p] EXCEPT !.approvals = approvals]
           after == [chain EXCEPT !.updates[kind] = [chain.updates[kind] EXCEPT ![p] = row]]
           e     == OfProposal(NameOf(kind, "approve"), p, approvals)
<1>1. /\ chain \in Contract /\ chain.updates[kind][p] # None /\ chain.updates[kind][p] \in MadeUpdate
      /\ Transaction([chain EXCEPT !.updates[kind][p].approvals = approvals], <<e>>)
  BY UpdateRowTyped DEF approveUpdate
<1>2. approvals \in Nat /\ row \in MadeUpdate
  BY <1>1 DEF MadeUpdate
<1>3. e \in EmittedEvent /\ e.name = NameOf(kind, "approve") /\ e.proposal = p /\ e.approvals = approvals
  <2>1. NameOf(kind, "approve") \in EventNames
    BY UpdateTyped
  <2> HIDE DEF approvals
  <2> QED BY <1>2, <2>1 DEF OfProposal, Event, EmittedEvent
<1> HIDE DEF e, approvals
<1>4. [chain EXCEPT !.updates[kind][p].approvals = approvals] = after
  BY <1>1 DEF Contract
<1>5. UpdateCounted(chain, e, [chain EXCEPT !.updates[kind][p].approvals = approvals])
  BY <1>1, <1>2, <1>3 DEF UpdateCounted
<1>6. Tells(chain, e, after) /\ Transaction(after, <<e>>)
  BY <1>1, <1>4, <1>5 DEF Tells
<1> HIDE DEF row
<1>7. after = [chain EXCEPT !.updates[kind] = [chain.updates[kind] EXCEPT ![p] = row]]
  OBVIOUS
<1> HIDE DEF after
<1> QED BY <1>2, <1>3, <1>6, <1>7, UpdateChangeIsTold

LEMMA executeUpdateIsTold ==
  ASSUME ChainInv, Dated, NEW kind \in UpdateKinds, NEW p \in ProposalIds,
         executeUpdate(kind, p)
  PROVE  ChainInv' /\ Mined
<1> DEFINE row   == [chain.updates[kind][p] EXCEPT !.executed = TRUE]
           after == [chain EXCEPT !.updates[kind] = [chain.updates[kind] EXCEPT ![p] = row]]
           e     == Event(NameOf(kind, "execute"))
<1>1. /\ chain \in Contract /\ chain.updates[kind][p] # None /\ chain.updates[kind][p] \in MadeUpdate
      /\ Transaction([chain EXCEPT !.updates[kind][p].executed = TRUE], <<e>>)
  BY UpdateRowTyped DEF executeUpdate
<1>2. row \in MadeUpdate
  BY <1>1 DEF MadeUpdate
<1>3. e \in EmittedEvent /\ e.name = NameOf(kind, "execute")
  BY UpdateTyped, EventTyped
<1> HIDE DEF e
<1>4. [chain EXCEPT !.updates[kind][p].executed = TRUE] = after
  BY <1>1 DEF Contract
<1>5. UpdateExecuted(chain, e, [chain EXCEPT !.updates[kind][p].executed = TRUE])
  BY <1>1, <1>3 DEF UpdateExecuted
<1>6. Tells(chain, e, after) /\ Transaction(after, <<e>>)
  BY <1>1, <1>4, <1>5 DEF Tells
<1> HIDE DEF row
<1>7. after = [chain EXCEPT !.updates[kind] = [chain.updates[kind] EXCEPT ![p] = row]]
  OBVIOUS
<1> HIDE DEF after
<1> QED BY <1>2, <1>3, <1>6, <1>7, UpdateChangeIsTold

LEMMA cancelExpiredUpdateIsTold ==
  ASSUME ChainInv, Dated, NEW kind \in UpdateKinds, NEW p \in ProposalIds,
         cancelExpiredUpdate(kind, p)
  PROVE  ChainInv' /\ Mined
<1> DEFINE row   == [chain.updates[kind][p] EXCEPT !.cancelled = TRUE]
           after == [chain EXCEPT !.updates[kind] = [chain.updates[kind] EXCEPT ![p] = row]]
           e     == OfProposal(NameOf(kind, "cancel"), p, None)
<1>1. /\ chain \in Contract /\ chain.updates[kind][p] # None /\ chain.updates[kind][p] \in MadeUpdate
      /\ Transaction([chain EXCEPT !.updates[kind][p].cancelled = TRUE], <<e>>)
  BY UpdateRowTyped DEF cancelExpiredUpdate
<1>2. row \in MadeUpdate
  BY <1>1 DEF MadeUpdate
<1>3. e \in EmittedEvent /\ e.name = NameOf(kind, "cancel") /\ e.proposal = p
  <2>1. NameOf(kind, "cancel") \in EventNames
    BY UpdateTyped
  <2> QED BY <2>1 DEF OfProposal, Event, EmittedEvent
<1> HIDE DEF e
<1>4. [chain EXCEPT !.updates[kind][p].cancelled = TRUE] = after
  BY <1>1 DEF Contract
<1>5. UpdateCancelled(chain, e, [chain EXCEPT !.updates[kind][p].cancelled = TRUE])
  BY <1>1, <1>3 DEF UpdateCancelled
<1>6. Tells(chain, e, after) /\ Transaction(after, <<e>>)
  BY <1>1, <1>4, <1>5 DEF Tells
<1> HIDE DEF row
<1>7. after = [chain EXCEPT !.updates[kind] = [chain.updates[kind] EXCEPT ![p] = row]]
  OBVIOUS
<1> HIDE DEF after
<1> QED BY <1>2, <1>3, <1>6, <1>7, UpdateChangeIsTold

LEMMA announceIsTold ==
  ASSUME ChainInv, Dated, NEW name \in Announcements, announce(name)
  PROVE  ChainInv' /\ Mined
<1> DEFINE e == Event(name)
<1>1. chain \in Contract /\ Transaction(chain, <<e>>)
  BY DEF ChainInv, announce
<1>2. e \in EmittedEvent /\ e.name = name
  BY EventTyped DEF EventNames
<1> HIDE DEF e
<1>3. Tells(chain, e, chain)
  BY <1>2 DEF Tells, Announced
<1>4. Mined
  BY <1>1, <1>2, <1>3, LeadByOne, TransactionIsMined
<1>5. chain' = chain
  BY <1>1 DEF Transaction
<1> QED BY <1>4, <1>5 DEF ChainInv

\* Whatever happens on-chain is told by the events of the transaction that it makes.
LEMMA ChainStepIsTold ==
  ASSUME ChainInv, Dated, ChainStep
  PROVE  ChainInv' /\ Mined
BY TradeTransactionIsTold, DisputeTransactionIsTold, proposeUpdateIsTold, approveUpdateIsTold,
   executeUpdateIsTold, cancelExpiredUpdateIsTold, announceIsTold
   DEF ChainStep, GovernanceTransaction

-------------------------------------------------------------------------------
(* The handlers: what they make of a row, and what is read back *)

TableNames == {"trades", "disputes", "oracle", "admin"}

Ids == [trades |-> TradeIds, disputes |-> ProposalIds, oracle |-> ProposalIds, admin |-> ProposalIds]

Rows == [trades |-> TradeRow, disputes |-> DisputeRow, oracle |-> UpdateRow, admin |-> UpdateRow]

IsTables(w) ==
  /\ w = [x \in TableNames \cup {"events"} |-> w[x]]
  /\ \A table \in TableNames : w[table] \in [Ids[table] -> Rows[table] \cup {None}]

\* The batch with rows n has entered an event, and no row of it reads otherwise than in w
\* but this one.
Entered(w, n, e) ==
  /\ IsTables(n)
  /\ \E events : n.events = w.events \cup {EventRow(events, e)}

Kept(w, n, e) ==
  /\ Entered(w, n, e)
  /\ \A table \in TableNames : \A x \in Ids[table] : getOrLoad(n, table, x) = getOrLoad(w, table, x)

Put(w, n, e, table, id, row) ==
  /\ Entered(w, n, e)
  /\ \A x \in Ids[table] : getOrLoad(n, table, x) = IF x = id THEN row ELSE getOrLoad(w, table, x)
  /\ \A other \in TableNames \ {table} :
       \A x \in Ids[other] : getOrLoad(n, other, x) = getOrLoad(w, other, x)

\* An absent row is told from every row.
LEMMA RowsAreThere ==
  ASSUME NEW table \in TableNames, NEW row \in Rows[table]
  PROVE  row # None
BY RowAssumption DEF TableNames, Rows

LEMMA Loaded ==
  ASSUME NEW w, IsTables(w), IsTables(store), NEW table \in TableNames, NEW id \in Ids[table]
  PROVE  getOrLoad(w, table, id) \in Rows[table] \cup {None}
BY DEF IsTables, getOrLoad

\* An event that is only recorded.
LEMMA InsertKeeps ==
  ASSUME NEW w, IsTables(w), NEW events, NEW e
  PROVE  Kept(w, Insert(events, w, e), e)
<1> DEFINE n == Insert(events, w, e)
           row == EventRow(events, e)
<1>1. n = [w EXCEPT !.events = w.events \cup {row}]
  BY DEF Insert
<1> HIDE DEF row
<1>2. /\ w = [x \in TableNames \cup {"events"} |-> w[x]]
      /\ "events" \notin TableNames
  BY DEF IsTables, TableNames
<1>3. n = [x \in TableNames \cup {"events"} |-> n[x]]
  BY <1>1, <1>2
<1>4. \A table \in TableNames : n[table] = w[table]
  BY <1>1, <1>2
<1>5. n.events = w.events \cup {row}
  BY <1>1, <1>2
<1> HIDE DEF n
<1>6. Entered(w, n, e)
  BY <1>3, <1>4, <1>5 DEF Entered, IsTables, row
<1> QED BY <1>4, <1>6 DEF Kept, getOrLoad, n

\* A row that is put into the batch, and the event recorded.
LEMMA InsertPuts ==
  ASSUME NEW w, IsTables(w), NEW events, NEW e, NEW table \in TableNames,
         NEW id \in Ids[table], NEW row \in Rows[table]
  PROVE  Put(w, Insert(events, [w EXCEPT ![table][id] = row], e), e, table, id, row)
<1> DEFINE m == [w EXCEPT ![table][id] = row]
           n == Insert(events, m, e)
<1>1. w = [x \in TableNames \cup {"events"} |-> w[x]]
  BY DEF IsTables
<1>2. /\ m = [x \in TableNames \cup {"events"} |-> m[x]]
      /\ m[table] = [w[table] EXCEPT ![id] = row]
      /\ \A other \in TableNames \cup {"events"} : other # table => m[other] = w[other]
  BY <1>1
<1> HIDE DEF m
<1>3. IsTables(m)
  <2> SUFFICES ASSUME NEW other \in TableNames
               PROVE  m[other] \in [Ids[other] -> Rows[other] \cup {None}]
    BY <1>2 DEF IsTables
  <2>1. CASE other = table
    BY <1>2, <2>1 DEF IsTables
  <2>2. CASE other # table
    BY <1>2, <2>2 DEF IsTables
  <2> QED BY <2>1, <2>2
<1>4. Kept(m, n, e)
  BY <1>3, InsertKeeps
<1>5. m.events = w.events
  BY <1>2 DEF TableNames
<1> HIDE DEF n
<1>6. Entered(w, n, e)
  BY <1>4, <1>5 DEF Kept, Entered
<1>7. \A x \in Ids[table] : getOrLoad(m, table, x) = IF x = id THEN row ELSE getOrLoad(w, table, x)
  <2>1. w[table] \in [Ids[table] -> Rows[table] \cup {None}] /\ row # None
    BY RowsAreThere DEF IsTables
  <2> QED BY <1>2, <2>1 DEF getOrLoad
<1>8. \A other \in TableNames \ {table} :
        \A x \in Ids[other] : getOrLoad(m, other, x) = getOrLoad(w, other, x)
  BY <1>2 DEF getOrLoad
<1> QED BY <1>4, <1>6, <1>7, <1>8 DEF Put, Kept, n, m

\* What a handler does whose row there is.
LEMMA ChangePuts ==
  ASSUME NEW w, IsTables(w), NEW events, NEW e, NEW table \in TableNames,
         NEW id \in Ids[table], NEW row \in Rows[table], getOrLoad(w, table, id) # None
  PROVE  Put(w, Change(w, table, id, events, e, row), e, table, id, row)
<1>1. Change(w, table, id, events, e, row) = Insert(events, [w EXCEPT ![table][id] = row], e)
  BY DEF Change
<1> QED BY <1>1, InsertPuts

-------------------------------------------------------------------------------
(* Which handler an event gets *)

LEMMA HandlesNoted ==
  ASSUME NEW w, NEW e, e.name \in {"ClaimableAccrued", "PlatformFeesPaidStage1", "DisputePayout"}
  PROVE  handle(w, e) = OnTrade(w, e, TradeOf(w, e))
<1>1. CASE e.name = "ClaimableAccrued"
  BY <1>1 DEF handle, handleClaimableAccrued
<1>2. CASE e.name = "PlatformFeesPaidStage1"
  BY <1>2 DEF handle, handlePlatformFeesPaidStage1
<1>3. CASE e.name = "DisputePayout"
  BY <1>3 DEF handle, handleDisputePayout
<1> QED BY <1>1, <1>2, <1>3

LEMMA HandlesMoved ==
  ASSUME NEW w, NEW e, e.name \in DOMAIN StatusAfter
  PROVE  handle(w, e) = IF e.name = "ArrivalConfirmed"
                        THEN OnTrade(w, e, [TradeOf(w, e) EXCEPT !.status = "ARRIVAL_CONFIRMED",
                                                                 !.arrived = TRUE])
                        ELSE WithStatus(w, e, StatusAfter[e.name])
<1>1. CASE e.name = "FundsReleasedStage1"
  BY <1>1 DEF handle, handleFundsReleasedStage1, StatusAfter
<1>2. CASE e.name = "ArrivalConfirmed"
  BY <1>2 DEF handle, handleArrivalConfirmed, StatusAfter
<1>3. CASE e.name = "DisputeOpenedByBuyer"
  BY <1>3 DEF handle, handleDisputeOpenedByBuyer, StatusAfter
<1>4. CASE e.name = "FinalTrancheReleased"
  BY <1>4 DEF handle, handleFinalTrancheReleased, StatusAfter
<1>5. CASE e.name = "TradeCancelledAfterLockTimeout"
  BY <1>5 DEF handle, handleTradeCancelledAfterLockTimeout, StatusAfter
<1>6. CASE e.name = "InTransitTimeoutRefunded"
  BY <1>6 DEF handle, handleInTransitTimeoutRefunded, StatusAfter
<1> QED BY <1>1, <1>2, <1>3, <1>4, <1>5, <1>6 DEF StatusAfter

LEMMA HandlesTradeAndDisputes ==
  ASSUME NEW w, NEW e
  PROVE  /\ e.name = "TradeLocked" => handle(w, e) = handleTradeLocked(w, e)
         /\ e.name = "DisputeSolutionProposed" => handle(w, e) = handleDisputeSolutionProposed(w, e)
         /\ e.name = "DisputeApproved" => handle(w, e) = handleDisputeApproved(w, e)
         /\ e.name = "DisputeFinalized" => handle(w, e) = handleDisputeFinalized(w, e)
         /\ e.name = "DisputeProposalExpiredCancelled" =>
              handle(w, e) = handleDisputeProposalExpiredCancelled(w, e)
<1>1. CASE e.name = "TradeLocked"
  BY <1>1 DEF handle
<1>2. CASE e.name = "DisputeSolutionProposed"
  BY <1>2 DEF handle
<1>3. CASE e.name = "DisputeApproved"
  BY <1>3 DEF handle
<1>4. CASE e.name = "DisputeFinalized"
  BY <1>4 DEF handle
<1>5. CASE e.name = "DisputeProposalExpiredCancelled"
  BY <1>5 DEF handle
<1> QED BY <1>1, <1>2, <1>3, <1>4, <1>5

\* The handlers of oracle updates and of admin additions do the same with their tables.
LEMMA HandlesUpdates ==
  ASSUME NEW w, NEW e, NEW kind \in UpdateKinds
  PROVE  /\ e.name = NameOf(kind, "propose") =>
              \E events : handle(w, e) = Insert(events, [w EXCEPT ![kind][e.proposal] = NewProposal], e)
         /\ e.name = NameOf(kind, "approve") => \E events : handle(w, e) = OnApproval(w, kind, events, e)
         /\ e.name = NameOf(kind, "cancel") => \E events : handle(w, e) = OnCancellation(w, kind, events, e)
         /\ e.name = NameOf(kind, "execute") => \E events : handle(w, e) = Insert(events, w, e)
<1>1. CASE kind = "oracle"
  <2>1. CASE e.name = "OracleUpdateProposed"
    BY <1>1, <2>1 DEF handle, handleOracleUpdateProposed, NameOf
  <2>2. CASE e.name = "OracleUpdateApproved"
    BY <1>1, <2>2 DEF handle, handleOracleUpdateApproved, NameOf
  <2>3. CASE e.name = "OracleUpdateProposalExpiredCancelled"
    BY <1>1, <2>3 DEF handle, handleOracleUpdateProposalExpiredCancelled, NameOf
  <2>4. CASE e.name = "OracleUpdated"
    BY <1>1, <2>4 DEF handle, handleOracleUpdated, NameOf
  <2> QED BY <1>1, <2>1, <2>2, <2>3, <2>4 DEF NameOf
<1>2. CASE kind = "admin"
  <2>1. CASE e.name = "AdminAddProposed"
    BY <1>2, <2>1 DEF handle, handleAdminAddProposed, NameOf
  <2>2. CASE e.name = "AdminAddApproved"
    BY <1>2, <2>2 DEF handle, handleAdminAddApproved, NameOf
  <2>3. CASE e.name = "AdminAddProposalExpiredCancelled"
    BY <1>2, <2>3 DEF handle, handleAdminAddProposalExpiredCancelled, NameOf
  <2>4. CASE e.name = "AdminAdded"
    BY <1>2, <2>4 DEF handle, handleAdminAdded, NameOf
  <2> QED BY <1>2, <2>1, <2>2, <2>3, <2>4 DEF NameOf
<1> QED BY <1>1, <1>2 DEF UpdateKinds

LEMMA HandlesAnnouncements ==
  ASSUME NEW w, NEW e, e.name \in Announcements
  PROVE  \E events : handle(w, e) = Insert(events, w, e)
<1>1. CASE e.name \in {"Paused", "UnpauseProposed", "UnpauseApproved", "UnpauseProposalCancelled",
                       "Unpaused"}
  BY <1>1 DEF handle, handlePaused, handleUnpauseProposed, handleUnpauseApproved,
              handleUnpauseProposalCancelled, handleUnpaused
<1>2. CASE e.name \in {"ClaimsPaused", "ClaimsUnpaused", "Claimed", "TreasuryClaimed",
                       "OracleDisabledEmergency"}
  BY <1>2 DEF handle, handleClaimsPaused, handleClaimsUnpaused, handleClaimed,
              handleTreasuryClaimed, handleOracleDisabledEmergency
<1>3. CASE e.name \in {"TreasuryPayoutAddressUpdateProposed", "TreasuryPayoutAddressUpdateApproved",
                       "TreasuryPayoutAddressUpdated",
                       "TreasuryPayoutAddressUpdateProposalExpiredCancelled"}
  BY <1>3 DEF handle, handleTreasuryPayoutAddressUpdateProposed,
              handleTreasuryPayoutAddressUpdateApproved, handleTreasuryPayoutAddressUpdated,
              handleTreasuryPayoutAddressUpdateProposalExpiredCancelled
<1> QED BY <1>1, <1>2, <1>3 DEF Announcements

-------------------------------------------------------------------------------
(* What is read back is what the events have told *)

\* What the handlers read, from the batch or else from the store, shows the contract u.
Seen(w, u) ==
  /\ \A t \in TradeIds : TradeAgrees(getOrLoad(w, "trades", t), u, t)
  /\ \A p \in ProposalIds : /\ ProposalAgrees(getOrLoad(w, "disputes", p), u.disputes[p])
                            /\ ExecutionAgrees(getOrLoad(w, "disputes", p), u.disputes[p])
  /\ \A kind \in UpdateKinds, p \in ProposalIds :
       ProposalAgrees(getOrLoad(w, kind, p), u.updates[kind][p])

LEMMA TablesOfIds ==
  /\ "trades" \in TableNames /\ Ids["trades"] = TradeIds /\ Rows["trades"] = TradeRow
  /\ "disputes" \in TableNames /\ Ids["disputes"] = ProposalIds /\ Rows["disputes"] = DisputeRow
  /\ UpdateKinds \subseteq TableNames
  /\ \A kind \in UpdateKinds : Ids[kind] = ProposalIds /\ Rows[kind] = UpdateRow
  /\ "trades" \notin UpdateKinds /\ "disputes" \notin UpdateKinds
BY DEF TableNames, Ids, Rows, UpdateKinds

LEMMA KeptShows ==
  ASSUME NEW w, NEW n, NEW e, NEW u, Seen(w, u), Kept(w, n, e)
  PROVE  Entered(w, n, e) /\ Seen(n, u)
BY TablesOfIds DEF Kept, Seen

\* A row of a trade that is put: the other rows agree as before, unless a dispute was decided.
TradeChanges(u, v, t, row) ==
  /\ u \in Contract /\ v \in Contract /\ t \in TradeIds
  /\ TradeAgrees(row, v, t)
  /\ v.disputes = u.disputes /\ v.updates = u.updates
  /\ \A other \in TradeIds \ {t} : /\ v.status[other] = u.status[other]
                                    /\ v.arrived[other] = u.arrived[other]

LEMMA TradePutShows ==
  ASSUME NEW w, NEW n, NEW e, NEW u, NEW v, NEW t, NEW row,
         Seen(w, u), Put(w, n, e, "trades", t, row), TradeChanges(u, v, t, row)
  PROVE  Entered(w, n, e) /\ Seen(n, v)
<1> USE DEF TradeChanges
<1>1. \A other \in TradeIds : Decided(v, other) = Decided(u, other)
  BY DEF Decided
<1>2. ASSUME NEW x \in TradeIds
      PROVE  TradeAgrees(getOrLoad(n, "trades", x), v, x)
  <2>1. getOrLoad(n, "trades", x) = IF x = t THEN row ELSE getOrLoad(w, "trades", x)
    BY TablesOfIds DEF Put
  <2>2. CASE x = t
    BY <2>1, <2>2
  <2>3. CASE x # t
    <3>1. TradeAgrees(getOrLoad(w, "trades", x), u, x)
      BY DEF Seen
    <3> QED BY <1>1, <2>1, <2>3, <3>1 DEF TradeAgrees
  <2> QED BY <2>2, <2>3
<1>3. \A p \in ProposalIds : getOrLoad(n, "disputes", p) = getOrLoad(w, "disputes", p)
  BY TablesOfIds DEF Put
<1>4. \A kind \in UpdateKinds, p \in ProposalIds : getOrLoad(n, kind, p) = getOrLoad(w, kind, p)
  BY TablesOfIds DEF Put
<1> QED BY <1>2, <1>3, <1>4 DEF Put, Seen

\* A row of a dispute that is put; the trades' rows must agree with what the contract is now.
DisputeChanges(u, v, p, row) ==
  /\ u \in Contract /\ v \in Contract /\ p \in ProposalIds
  /\ ProposalAgrees(row, v.disputes[p]) /\ ExecutionAgrees(row, v.disputes[p])
  /\ \A other \in ProposalIds \ {p} : v.disputes[other] = u.disputes[other]
  /\ v.updates = u.updates
  /\ \A t \in TradeIds : \A any : TradeAgrees(any, u, t) => TradeAgrees(any, v, t)

LEMMA DisputePutShows ==
  ASSUME NEW w, NEW n, NEW e, NEW u, NEW v, NEW p, NEW row,
         Seen(w, u), Put(w, n, e, "disputes", p, row), DisputeChanges(u, v, p, row)
  PROVE  Entered(w, n, e) /\ Seen(n, v)
<1> USE DEF DisputeChanges
<1>1. \A t \in TradeIds : getOrLoad(n, "trades", t) = getOrLoad(w, "trades", t)
  BY TablesOfIds DEF Put
<1>2. ASSUME NEW x \in ProposalIds
      PROVE  /\ ProposalAgrees(getOrLoad(n, "disputes", x), v.disputes[x])
             /\ ExecutionAgrees(getOrLoad(n, "disputes", x), v.disputes[x])
  <2>1. getOrLoad(n, "disputes", x) = IF x = p THEN row ELSE getOrLoad(w, "disputes", x)
    BY TablesOfIds DEF Put
  <2> QED BY <2>1 DEF Seen
<1>3. \A kind \in UpdateKinds, q \in ProposalIds : getOrLoad(n, kind, q) = getOrLoad(w, kind, q)
  BY TablesOfIds DEF Put
<1> QED BY <1>1, <1>2, <1>3 DEF Put, Seen

\* A row of an update that is put.
UpdateChanges(u, v, kind, p, row) ==
  /\ u \in Contract /\ v \in Contract /\ kind \in UpdateKinds /\ p \in ProposalIds
  /\ ProposalAgrees(row, v.updates[kind][p])
  /\ \A k \in UpdateKinds : \A q \in ProposalIds :
       k # kind \/ q # p => v.updates[k][q] = u.updates[k][q]
  /\ v.status = u.status /\ v.arrived = u.arrived /\ v.disputes = u.disputes

LEMMA UpdatePutShows ==
  ASSUME NEW w, NEW n, NEW e, NEW u, NEW v, NEW kind, NEW p, NEW row,
         Seen(w, u), Put(w, n, e, kind, p, row), UpdateChanges(u, v, kind, p, row)
  PROVE  Entered(w, n, e) /\ Seen(n, v)
<1> USE DEF UpdateChanges
<1>1. \A t \in TradeIds : getOrLoad(n, "trades", t) = getOrLoad(w, "trades", t)
  BY TablesOfIds DEF Put
<1>2. \A q \in ProposalIds : getOrLoad(n, "disputes", q) = getOrLoad(w, "disputes", q)
  BY TablesOfIds DEF Put
<1>3. ASSUME NEW k \in UpdateKinds, NEW q \in ProposalIds
      PROVE  ProposalAgrees(getOrLoad(n, k, q), v.updates[k][q])
  <2>1. ProposalAgrees(getOrLoad(w, k, q), u.updates[k][q])
    BY DEF Seen
  <2>2. CASE k = kind
    <3>1. getOrLoad(n, kind, q) = IF q = p THEN row ELSE getOrLoad(w, kind, q)
      BY TablesOfIds DEF Put
    <3> QED BY <2>1, <2>2, <3>1
  <2>3. CASE k # kind
    <3>1. getOrLoad(n, k, q) = getOrLoad(w, k, q)
      BY <2>3, TablesOfIds DEF Put
    <3> QED BY <2>1, <2>3, <3>1
  <2> QED BY <2>2, <2>3
<1>4. \A t \in TradeIds : Decided(v, t) = Decided(u, t)
  BY DEF Decided
<1>5. \A t \in TradeIds : TradeAgrees(getOrLoad(n, "trades", t), v, t)
  BY <1>1, <1>4 DEF Seen, TradeAgrees
<1> QED BY <1>2, <1>3, <1>5 DEF Put, Seen

\* What holds when an event is handled, w being what the batch has so far and the event
\* telling that the contract goes from u to v.
Handling(w, u, e, v) ==
  /\ IsTables(w) /\ IsTables(store)
  /\ u \in Contract /\ v \in Contract /\ e \in EmittedEvent
  /\ Seen(w, u)

\* What the handler must achieve.
Handled(w, e, v) == Entered(w, handle(w, e), e) /\ Seen(handle(w, e), v)

\* A trade that the contract has is in the tables.
LEMMA TradeIsThere ==
  ASSUME NEW w, NEW u, NEW e, NEW v, Handling(w, u, e, v), e.trade \in TradeIds,
         u.status[e.trade] # "NONE"
  PROVE  /\ TradeOf(w, e) \in TradeRow /\ TradeOf(w, e) # None
         /\ TradeOf(w, e).status = IF Decided(u, e.trade) # {} THEN "FROZEN" ELSE u.status[e.trade]
         /\ TradeOf(w, e).arrived = u.arrived[e.trade]
         /\ TradeOf(w, e).terms = Lowered(Terms[e.trade])
<1>1. getOrLoad(w, "trades", e.trade) \in TradeRow \cup {None}
  BY TablesOfIds, Loaded DEF Handling
<1>2. TradeAgrees(getOrLoad(w, "trades", e.trade), u, e.trade)
  BY DEF Handling, Seen
<1> QED BY <1>1, <1>2 DEF TradeAgrees, TradeOf

LEMMA NotedIsHandled ==
  ASSUME NEW w, NEW u, NEW e, NEW v, Handling(w, u, e, v), Noted(u, e, v)
  PROVE  Handled(w, e, v)
<1> DEFINE n == handle(w, e)
           row == TradeOf(w, e)
<1>1. e.trade \in TradeIds /\ u.status[e.trade] # "NONE" /\ v = u
  BY DEF Noted
<1>2. row \in TradeRow /\ row # None /\ row = getOrLoad(w, "trades", e.trade)
  BY <1>1, TradeIsThere DEF TradeOf
<1>3. n = Change(w, "trades", e.trade, "tradeEvents", e, row)
  BY HandlesNoted DEF Noted, OnTrade
<1> HIDE DEF n, row
<1>4. Put(w, n, e, "trades", e.trade, row)
  BY <1>1, <1>2, <1>3, ChangePuts, TablesOfIds DEF Handling
<1>5. Kept(w, n, e)
  <2> SUFFICES ASSUME NEW table \in TableNames, NEW x \in Ids[table]
               PROVE  getOrLoad(n, table, x) = getOrLoad(w, table, x)
    BY <1>4 DEF Put, Kept
  <2>1. CASE table = "trades"
    BY <1>2, <1>4, <2>1 DEF Put
  <2>2. CASE table # "trades"
    BY <1>4, <2>2 DEF Put
  <2> QED BY <2>1, <2>2
<1> QED BY <1>1, <1>5, KeptShows DEF Handling, Handled, n

LEMMA LockedIsHandled ==
  ASSUME NEW w, NEW u, NEW e, NEW v, Handling(w, u, e, v), Locked(u, e, v)
  PROVE  Handled(w, e, v)
<1> DEFINE n == handle(w, e)
           t == e.trade
           row == [status |-> "LOCKED", arrived |-> FALSE, terms |-> Lowered(Terms[t])]
<1>1. /\ e.name = "TradeLocked" /\ t \in TradeIds /\ ~u.arrived[t] /\ Decided(u, t) = {}
      /\ e.terms = Terms[t] /\ v = [u EXCEPT !.status[t] = "LOCKED"]
  BY DEF Locked
<1>2. row \in TradeRow
  BY <1>1 DEF TradeRow, Statuses
<1>3. n = Insert("tradeEvents", [w EXCEPT !["trades"][t] = row], e)
  BY <1>1, HandlesTradeAndDisputes DEF handleTradeLocked
<1>4. row.status = "LOCKED" /\ row.arrived = FALSE /\ row.terms = Lowered(Terms[t])
  OBVIOUS
<1> HIDE DEF n, t, row
<1>5. Put(w, n, e, "trades", t, row)
  BY <1>1, <1>2, <1>3, InsertPuts, TablesOfIds DEF Handling
<1>6. /\ v.status = [u.status EXCEPT ![t] = "LOCKED"] /\ v.arrived = u.arrived
      /\ v.disputes = u.disputes /\ v.updates = u.updates
      /\ u.status \in [TradeIds -> Statuses] /\ u.arrived[t] \in BOOLEAN
  BY <1>1 DEF Handling, Contract
<1>7. TradeAgrees(row, v, t)
  <2>1. Decided(v, t) = {}
    BY <1>1, <1>6 DEF Decided
  <2>2. row # None
    BY <1>2, RowsAreThere, TablesOfIds
  <2>3. v.status[t] = "LOCKED" /\ v.arrived[t] = FALSE /\ t \in TradeIds
    BY <1>1, <1>6
  <2> HIDE DEF t, row
  <2> QED BY <1>4, <2>1, <2>2, <2>3 DEF TradeAgrees
<1>8. \A other \in TradeIds \ {t} : v.status[other] = u.status[other] /\ v.arrived[other] = u.arrived[other]
  BY <1>6
<1>9. TradeChanges(u, v, t, row)
  BY <1>1, <1>6, <1>7, <1>8 DEF Handling, TradeChanges
<1> QED BY <1>5, <1>9, TradePutShows DEF Handling, Handled, n

LEMMA MovedIsHandled ==
  ASSUME NEW w, NEW u, NEW e, NEW v, Handling(w, u, e, v), Moved(u, e, v)
  PROVE  Handled(w, e, v)
<1> DEFINE n == handle(w, e)
           t == e.trade
           old == TradeOf(w, e)
           row == IF e.name = "ArrivalConfirmed"
                  THEN [old EXCEPT !.status = "ARRIVAL_CONFIRMED", !.arrived = TRUE]
                  ELSE [old EXCEPT !.status = StatusAfter[e.name]]
<1>1. /\ e.name \in DOMAIN StatusAfter /\ t \in TradeIds /\ u.status[t] # "NONE"
      /\ Decided(u, t) = {}
      /\ v = [u EXCEPT !.status[t] = StatusAfter[e.name],
                       !.arrived[t] = IF e.name = "ArrivalConfirmed" THEN TRUE ELSE @]
  BY DEF Moved
<1>2. /\ old \in TradeRow /\ old # None /\ old = getOrLoad(w, "trades", t)
      /\ old.arrived = u.arrived[t] /\ old.terms = Lowered(Terms[t])
  BY <1>1, TradeIsThere DEF TradeOf
<1>3. n = Change(w, "trades", t, "tradeEvents", e, row)
  BY <1>1, HandlesMoved DEF OnTrade, WithStatus
<1>4. StatusAfter[e.name] \in Statuses \ {"NONE"}
      /\ (e.name = "ArrivalConfirmed" => StatusAfter[e.name] = "ARRIVAL_CONFIRMED")
  BY <1>1 DEF StatusAfter, Statuses
<1> DEFINE s == StatusAfter[e.name]
<1> HIDE DEF n, t, old, s
<1>5. row \in TradeRow /\ row.status = s /\ row.terms = Lowered(Terms[t])
      /\ row.arrived = IF e.name = "ArrivalConfirmed" THEN TRUE ELSE u.arrived[t]
  <2>1. CASE e.name = "ArrivalConfirmed"
    <3>1. row = [old EXCEPT !.status = "ARRIVAL_CONFIRMED", !.arrived = TRUE]
      BY <2>1
    <3> HIDE DEF row
    <3> QED BY <1>2, <1>4, <2>1, <3>1 DEF TradeRow, s, Statuses
  <2>2. CASE e.name # "ArrivalConfirmed"
    <3>1. row = [old EXCEPT !.status = s]
      BY <2>2 DEF s
    <3> HIDE DEF row
    <3>2. s \in Statuses
      BY <1>4 DEF s
    <3> QED BY <1>2, <2>2, <3>1, <3>2 DEF TradeRow
  <2> QED BY <2>1, <2>2
<1> HIDE DEF row
<1>6. Put(w, n, e, "trades", t, row)
  BY <1>1, <1>2, <1>3, <1>5, ChangePuts, TablesOfIds DEF Handling
<1>7. /\ v.status = [u.status EXCEPT ![t] = s]
      /\ v.arrived = [u.arrived EXCEPT ![t] = IF e.name = "ArrivalConfirmed" THEN TRUE ELSE u.arrived[t]]
      /\ v.disputes = u.disputes /\ v.updates = u.updates
      /\ u.status \in [TradeIds -> Statuses] /\ u.arrived \in [TradeIds -> BOOLEAN]
  BY <1>1 DEF Handling, Contract, s
<1>8. TradeAgrees(row, v, t)
  <2>1. Decided(v, t) = {}
    BY <1>1, <1>7 DEF Decided
  <2>2. row # None
    BY <1>5, RowsAreThere, TablesOfIds
  <2>3. s # "NONE"
    BY <1>4 DEF s
  <2>4. v.status[t] = s /\ v.arrived[t] = IF e.name = "ArrivalConfirmed" THEN TRUE ELSE u.arrived[t]
    <3>1. t \in TradeIds
      BY <1>1
    <3>2. v.status[t] = s
      BY <1>7, <3>1
    <3>3. v.arrived[t] = IF e.name = "ArrivalConfirmed" THEN TRUE ELSE u.arrived[t]
      BY <1>7, <3>1
    <3> QED BY <3>2, <3>3
  <2>5. v.status[t] # "NONE" /\ row.status = v.status[t] /\ row.arrived = v.arrived[t]
    BY <1>5, <2>3, <2>4
  <2> QED BY <1>5, <2>1, <2>2, <2>5 DEF TradeAgrees
<1>9. \A other \in TradeIds \ {t} : v.status[other] = u.status[other] /\ v.arrived[other] = u.arrived[other]
  BY <1>7
<1>10. TradeChanges(u, v, t, row)
  BY <1>1, <1>7, <1>8, <1>9 DEF Handling, TradeChanges
<1> QED BY <1>6, <1>10, TradePutShows DEF Handling, Handled, n

\* A dispute that the contract has is in the tables.
LEMMA DisputeIsThere ==
  ASSUME NEW w, NEW u, NEW e, NEW v, Handling(w, u, e, v), e.proposal \in ProposalIds,
         u.disputes[e.proposal] # None
  PROVE  /\ u.disputes[e.proposal] \in MadeDispute
         /\ ProposalOf(w, "disputes", e) \in DisputeRow /\ ProposalOf(w, "disputes", e) # None
         /\ ProposalOf(w, "disputes", e).approvals = u.disputes[e.proposal].approvals
         /\ ProposalOf(w, "disputes", e).cancelled = u.disputes[e.proposal].cancelled
         /\ ProposalOf(w, "disputes", e).executed = u.disputes[e.proposal].executed
<1>1. getOrLoad(w, "disputes", e.proposal) \in DisputeRow \cup {None}
  BY TablesOfIds, Loaded DEF Handling
<1>2. /\ ProposalAgrees(getOrLoad(w, "disputes", e.proposal), u.disputes[e.proposal])
      /\ ExecutionAgrees(getOrLoad(w, "disputes", e.proposal), u.disputes[e.proposal])
  BY DEF Handling, Seen
<1>3. u.disputes[e.proposal] \in MadeDispute
  BY DEF Handling, Contract
<1> QED BY <1>1, <1>2, <1>3 DEF ProposalAgrees, ExecutionAgrees, ProposalOf

\* A dispute that stays what it is to its trade.
Undone(u, v, p) ==
  /\ u \in Contract /\ v \in Contract /\ p \in ProposalIds
  /\ v.status = u.status /\ v.arrived = u.arrived
  /\ \A other \in ProposalIds \ {p} : v.disputes[other] = u.disputes[other]
  /\ u.disputes[p] = None \/ ~u.disputes[p].executed => v.disputes[p] = None \/ ~v.disputes[p].executed
  /\ u.disputes[p] # None /\ u.disputes[p].executed =>
       /\ v.disputes[p] # None /\ v.disputes[p].executed
       /\ v.disputes[p].subject = u.disputes[p].subject

LEMMA SameTrades ==
  ASSUME NEW u, NEW v, NEW p, Undone(u, v, p)
  PROVE  \A t \in TradeIds : \A any : TradeAgrees(any, u, t) => TradeAgrees(any, v, t)
<1> USE DEF Undone
<1>1. ASSUME NEW t \in TradeIds
      PROVE  Decided(v, t) = Decided(u, t)
  <2> SUFFICES ASSUME NEW q \in ProposalIds
               PROVE  (v.disputes[q] # None /\ v.disputes[q].subject = t /\ v.disputes[q].executed)
                        <=> (u.disputes[q] # None /\ u.disputes[q].subject = t /\ u.disputes[q].executed)
    BY DEF Decided
  <2>1. CASE q = p
    BY <2>1
  <2>2. CASE q # p
    BY <2>2
  <2> QED BY <2>1, <2>2
<1> QED BY <1>1 DEF TradeAgrees

LEMMA DisputeMadeIsHandled ==
  ASSUME NEW w, NEW u, NEW e, NEW v, Handling(w, u, e, v), DisputeMade(u, e, v)
  PROVE  Handled(w, e, v)
<1> DEFINE n == handle(w, e)
           t == e.trade
           p == e.proposal
           old == TradeOf(w, e)
           row == [trade |-> t, outcome |-> DisputeStatusEnum(e.outcome), approvals |-> 1,
                   executed |-> FALSE, cancelled |-> FALSE]
           m == [w EXCEPT !["trades"][t] = old]
           new == Proposed(t, e.outcome)
<1>1. /\ e.name = "DisputeSolutionProposed" /\ t \in TradeIds /\ u.status[t] # "NONE"
      /\ p \in ProposalIds /\ u.disputes[p] = None
      /\ v = [u EXCEPT !.disputes[p] = new]
  BY DEF DisputeMade
<1>2. old \in TradeRow /\ old # None /\ old = getOrLoad(w, "trades", t)
  BY <1>1, TradeIsThere DEF TradeOf
<1>3. n = Insert("disputeEvents", [m EXCEPT !["disputes"][p] = row], e)
  <2>1. n = handleDisputeSolutionProposed(w, e)
    BY <1>1, HandlesTradeAndDisputes
  <2> QED BY <1>2, <2>1 DEF handleDisputeSolutionProposed
<1>4. row \in DisputeRow /\ row.approvals = 1 /\ row.executed = FALSE /\ row.cancelled = FALSE
  BY <1>1 DEF DisputeRow, DisputeStatusEnum, Outcomes
<1>5. /\ new \in Proposal /\ new # None /\ new.approvals = 1 /\ new.executed = FALSE
      /\ new.cancelled = FALSE
  <2>1. e.outcome \in Outcomes \cup {None}
    BY DEF Handling, EmittedEvent
  <2>2. /\ new \in Proposal /\ new.approvals = 1 /\ new.executed = FALSE /\ new.cancelled = FALSE
    BY <1>1, <2>1 DEF Proposed, Proposal
  <2> HIDE DEF new
  <2> QED BY <2>2, EventsAssumption
<1> HIDE DEF n, t, p, old, row, new
<1>6. /\ IsTables(m) /\ m.events = w.events
      /\ \A table \in TableNames : \A x \in Ids[table] : getOrLoad(m, table, x) = getOrLoad(w, table, x)
  <2>1. w = [x \in TableNames \cup {"events"} |-> w[x]]
        /\ w["trades"] \in [TradeIds -> TradeRow \cup {None}]
    BY TablesOfIds DEF Handling, IsTables
  <2>2. /\ m = [x \in TableNames \cup {"events"} |-> m[x]]
        /\ m["trades"] = [w["trades"] EXCEPT ![t] = old]
        /\ \A other \in TableNames \cup {"events"} : other # "trades" => m[other] = w[other]
    BY <2>1, TablesOfIds
  <2> HIDE DEF m
  <2>3. m["trades"] \in [TradeIds -> TradeRow \cup {None}]
    BY <1>1, <1>2, <2>1, <2>2
  <2>4. IsTables(m)
    <3> SUFFICES ASSUME NEW other \in TableNames
                 PROVE  m[other] \in [Ids[other] -> Rows[other] \cup {None}]
      BY <2>2 DEF IsTables
    <3>1. CASE other = "trades"
      BY <2>3, <3>1, TablesOfIds
    <3>2. CASE other # "trades"
      BY <2>2, <3>2 DEF IsTables, Handling
    <3> QED BY <3>1, <3>2
  <2>5. ASSUME NEW table \in TableNames, NEW x \in Ids[table]
        PROVE  getOrLoad(m, table, x) = getOrLoad(w, table, x)
    <3>1. CASE table = "trades"
      <4>1. x \in TradeIds
        BY <3>1, TablesOfIds
      <4>2. m[table][x] = IF x = t THEN old ELSE w[table][x]
        BY <1>1, <2>1, <2>2, <3>1, <4>1
      <4> QED BY <1>2, <3>1, <4>2 DEF getOrLoad
    <3>2. CASE table # "trades"
      BY <2>2, <3>2 DEF getOrLoad
    <3> QED BY <3>1, <3>2
  <2>6. m.events = w.events
    BY <2>2
  <2> QED BY <2>4, <2>5, <2>6
<1> HIDE DEF m
<1>7. Put(m, n, e, "disputes", p, row)
  BY <1>1, <1>3, <1>4, <1>6, InsertPuts, TablesOfIds DEF p
<1>8. Put(w, n, e, "disputes", p, row)
  <2>1. Entered(w, n, e)
    BY <1>6, <1>7 DEF Put, Entered
  <2> QED BY <1>6, <1>7, <2>1, TablesOfIds DEF Put
<1>9. /\ v.disputes = [u.disputes EXCEPT ![p] = new]
      /\ v.status = u.status /\ v.arrived = u.arrived /\ v.updates = u.updates
      /\ v.disputes[p] = new
      /\ \A other \in ProposalIds \ {p} : v.disputes[other] = u.disputes[other]
  BY <1>1 DEF Handling, Contract
<1>10. row # None
  BY <1>4, RowsAreThere, TablesOfIds
<1>11. ProposalAgrees(row, v.disputes[p]) /\ ExecutionAgrees(row, v.disputes[p])
  BY <1>4, <1>5, <1>9, <1>10 DEF ProposalAgrees, ExecutionAgrees
<1>12. \A x \in TradeIds : \A any : TradeAgrees(any, u, x) => TradeAgrees(any, v, x)
  <2>1. u.disputes[p] = None /\ ~v.disputes[p].executed
    BY <1>1, <1>5, <1>9 DEF p
  <2>2. Undone(u, v, p)
    BY <1>1, <1>9, <2>1 DEF Handling, Undone, p
  <2> QED BY <2>2, SameTrades
<1>13. DisputeChanges(u, v, p, row)
  BY <1>1, <1>9, <1>11, <1>12 DEF Handling, DisputeChanges, p
<1> QED BY <1>8, <1>13, DisputePutShows DEF Handling, Handled, n

\* A handler that changes the row of a dispute.
RowOfDispute(u, v, p, row, new) ==
  /\ row \in DisputeRow /\ new \in MadeDispute
  /\ p \in ProposalIds /\ u.disputes[p] # None
  /\ v.disputes = [u.disputes EXCEPT ![p] = new] /\ v.updates = u.updates
  /\ row.approvals = new.approvals /\ row.cancelled = new.cancelled /\ row.executed = new.executed
  /\ \A t \in TradeIds : \A any : TradeAgrees(any, u, t) => TradeAgrees(any, v, t)

LEMMA DisputeChangeIsHandled ==
  ASSUME NEW w, NEW u, NEW e, NEW v, NEW row, NEW new, Handling(w, u, e, v),
         handle(w, e) = Change(w, "disputes", e.proposal, "disputeEvents", e, row),
         RowOfDispute(u, v, e.proposal, row, new)
  PROVE  Handled(w, e, v)
<1> USE DEF RowOfDispute
<1> DEFINE n == handle(w, e)
           p == e.proposal
<1>1. getOrLoad(w, "disputes", p) # None /\ p \in ProposalIds
  BY DisputeIsThere DEF ProposalOf
<1>2. Put(w, n, e, "disputes", p, row)
  BY <1>1, ChangePuts, TablesOfIds DEF Handling
<1>3. row # None /\ new # None
  BY RowsAreThere, TablesOfIds, NoneIsNoRow
<1>4. v.disputes[p] = new /\ \A other \in ProposalIds \ {p} : v.disputes[other] = u.disputes[other]
  BY <1>1 DEF Handling, Contract
<1>5. ProposalAgrees(row, v.disputes[p]) /\ ExecutionAgrees(row, v.disputes[p])
  BY <1>3, <1>4 DEF ProposalAgrees, ExecutionAgrees
<1>6. DisputeChanges(u, v, p, row)
  BY <1>1, <1>4, <1>5 DEF Handling, DisputeChanges
<1> QED BY <1>2, <1>6, DisputePutShows DEF Handling, Handled

LEMMA DisputeCountedIsHandled ==
  ASSUME NEW w, NEW u, NEW e, NEW v, Handling(w, u, e, v), DisputeCounted(u, e, v)
  PROVE  Handled(w, e, v)
<1> DEFINE p == e.proposal
           old == ProposalOf(w, "disputes", e)
           row == [old EXCEPT !.approvals = e.approvals]
           new == [u.disputes[p] EXCEPT !.approvals = e.approvals]
<1>1. /\ e.name = "DisputeApproved" /\ e.approvals \in Nat
      /\ p \in ProposalIds /\ u.disputes[p] # None
      /\ v = [u EXCEPT !.disputes[p].approvals = e.approvals]
  BY DEF DisputeCounted
<1>2. /\ u.disputes[p] \in MadeDispute /\ old \in DisputeRow
      /\ old.cancelled = u.disputes[p].cancelled /\ old.executed = u.disputes[p].executed
  BY <1>1, DisputeIsThere
<1>3. handle(w, e) = Change(w, "disputes", p, "disputeEvents", e, row)
  BY <1>1, HandlesTradeAndDisputes DEF handleDisputeApproved, OnApproval
<1> HIDE DEF old
<1>4. /\ row \in DisputeRow /\ row.approvals = e.approvals
      /\ row.cancelled = u.disputes[p].cancelled /\ row.executed = u.disputes[p].executed
  BY <1>1, <1>2 DEF DisputeRow
<1>5. /\ new \in MadeDispute /\ new.approvals = e.approvals /\ new.subject = u.disputes[p].subject
      /\ new.cancelled = u.disputes[p].cancelled /\ new.executed = u.disputes[p].executed
  BY <1>1, <1>2 DEF MadeDispute
<1>6. v.disputes = [u.disputes EXCEPT ![p] = new]
      /\ v.status = u.status /\ v.arrived = u.arrived /\ v.updates = u.updates
  BY <1>1 DEF Handling, Contract
<1> HIDE DEF p, row, new
<1>7. v.disputes[p] = new /\ new # None
      /\ \A other \in ProposalIds \ {p} : v.disputes[other] = u.disputes[other]
  BY <1>1, <1>5, <1>6, NoneIsNoRow DEF Handling, Contract
<1>8. \A t \in TradeIds : \A any : TradeAgrees(any, u, t) => TradeAgrees(any, v, t)
  <2>1. u.disputes[p].executed = v.disputes[p].executed /\ u.disputes[p].subject = v.disputes[p].subject
    BY <1>5, <1>7
  <2>2. Undone(u, v, p)
    BY <1>1, <1>6, <1>7, <2>1 DEF Handling, Undone, p
  <2> QED BY <2>2, SameTrades
<1>9. RowOfDispute(u, v, p, row, new)
  BY <1>1, <1>4, <1>5, <1>6, <1>8 DEF RowOfDispute, p
<1> QED BY <1>3, <1>9, DisputeChangeIsHandled DEF p

LEMMA DisputeCancelledIsHandled ==
  ASSUME NEW w, NEW u, NEW e, NEW v, Handling(w, u, e, v), DisputeCancelled(u, e, v)
  PROVE  Handled(w, e, v)
<1> DEFINE p == e.proposal
           old == ProposalOf(w, "disputes", e)
           row == [old EXCEPT !.cancelled = TRUE]
           new == [u.disputes[p] EXCEPT !.cancelled = TRUE]
<1>1. /\ e.name = "DisputeProposalExpiredCancelled"
      /\ p \in ProposalIds /\ u.disputes[p] # None
      /\ v = [u EXCEPT !.disputes[p].cancelled = TRUE]
  BY DEF DisputeCancelled
<1>2. /\ u.disputes[p] \in MadeDispute /\ old \in DisputeRow
      /\ old.approvals = u.disputes[p].approvals /\ old.executed = u.disputes[p].executed
  BY <1>1, DisputeIsThere
<1>3. handle(w, e) = Change(w, "disputes", p, "disputeEvents", e, row)
  BY <1>1, HandlesTradeAndDisputes DEF handleDisputeProposalExpiredCancelled, OnCancellation
<1> HIDE DEF old
<1>4. /\ row \in DisputeRow /\ row.cancelled = TRUE
      /\ row.approvals = u.disputes[p].approvals /\ row.executed = u.disputes[p].executed
  BY <1>1, <1>2 DEF DisputeRow
<1>5. /\ new \in MadeDispute /\ new.cancelled = TRUE /\ new.subject = u.disputes[p].subject
      /\ new.approvals = u.disputes[p].approvals /\ new.executed = u.disputes[p].executed
  BY <1>1, <1>2 DEF MadeDispute
<1>6. v.disputes = [u.disputes EXCEPT ![p] = new]
      /\ v.status = u.status /\ v.arrived = u.arrived /\ v.updates = u.updates
  BY <1>1 DEF Handling, Contract
<1> HIDE DEF p, row, new
<1>7. v.disputes[p] = new /\ new # None
      /\ \A other \in ProposalIds \ {p} : v.disputes[other] = u.disputes[other]
  BY <1>1, <1>5, <1>6, NoneIsNoRow DEF Handling, Contract
<1>8. \A t \in TradeIds : \A any : TradeAgrees(any, u, t) => TradeAgrees(any, v, t)
  <2>1. u.disputes[p].executed = v.disputes[p].executed /\ u.disputes[p].subject = v.disputes[p].subject
    BY <1>5, <1>7
  <2>2. Undone(u, v, p)
    BY <1>1, <1>6, <1>7, <2>1 DEF Handling, Undone, p
  <2> QED BY <2>2, SameTrades
<1>9. RowOfDispute(u, v, p, row, new)
  BY <1>1, <1>4, <1>5, <1>6, <1>8 DEF RowOfDispute, p
<1> QED BY <1>3, <1>9, DisputeChangeIsHandled DEF p

\* The row of the trade stays FROZEN when its dispute is executed.
LEMMA DisputeExecutedIsHandled ==
  ASSUME NEW w, NEW u, NEW e, NEW v, Handling(w, u, e, v), DisputeExecuted(u, e, v)
  PROVE  Handled(w, e, v)
<1> DEFINE p == e.proposal
           old == ProposalOf(w, "disputes", e)
           row == [old EXCEPT !.executed = TRUE]
           new == [u.disputes[p] EXCEPT !.executed = TRUE]
           s == u.disputes[p].subject
<1>1. /\ e.name = "DisputeFinalized"
      /\ p \in ProposalIds /\ u.disputes[p] # None /\ u.status[s] = "FROZEN"
      /\ v = [u EXCEPT !.disputes[p].executed = TRUE, !.status[s] = "CLOSED"]
  BY DEF DisputeExecuted
<1>2. /\ u.disputes[p] \in MadeDispute /\ old \in DisputeRow
      /\ old.approvals = u.disputes[p].approvals /\ old.cancelled = u.disputes[p].cancelled
  BY <1>1, DisputeIsThere
<1>3. handle(w, e) = Change(w, "disputes", p, "disputeEvents", e, row)
  BY <1>1, HandlesTradeAndDisputes DEF handleDisputeFinalized
<1> HIDE DEF old
<1>4. /\ row \in DisputeRow /\ row.executed = TRUE
      /\ row.approvals = u.disputes[p].approvals /\ row.cancelled = u.disputes[p].cancelled
  BY <1>1, <1>2 DEF DisputeRow
<1>5. /\ new \in MadeDispute /\ new.executed = TRUE /\ new.subject = s
      /\ new.approvals = u.disputes[p].approvals /\ new.cancelled = u.disputes[p].cancelled
      /\ s \in TradeIds
  BY <1>1, <1>2 DEF MadeDispute
<1>6. v.disputes = [u.disputes EXCEPT ![p] = new] /\ v.status = [u.status EXCEPT ![s] = "CLOSED"]
      /\ v.arrived = u.arrived /\ v.updates = u.updates
  BY <1>1 DEF Handling, Contract
<1> HIDE DEF p, row, new, s
<1>7. v.disputes[p] = new /\ new # None
      /\ (\A other \in ProposalIds \ {p} : v.disputes[other] = u.disputes[other])
      /\ v.status[s] = "CLOSED" /\ (\A t \in TradeIds \ {s} : v.status[t] = u.status[t])
  BY <1>1, <1>5, <1>6, NoneIsNoRow DEF Handling, Contract
<1>8. ASSUME NEW t \in TradeIds, NEW any, TradeAgrees(any, u, t)
      PROVE  TradeAgrees(any, v, t)
  <2>1. CASE t = s
    <3>1. Decided(v, t) # {}
      <4>1. v.disputes[p] # None /\ v.disputes[p].subject = t /\ v.disputes[p].executed
        BY <1>5, <1>7, <2>1
      <4>2. p \in Decided(v, t)
        BY <1>1, <4>1 DEF Decided, p
      <4> QED BY <4>2
    <3>2. any # None /\ any.status = "FROZEN" /\ any.arrived = u.arrived[t] /\ any.terms = Lowered(Terms[t])
      BY <1>1, <1>8, <2>1 DEF TradeAgrees, s
    <3> QED BY <1>6, <1>7, <2>1, <3>1, <3>2 DEF TradeAgrees
  <2>2. CASE t # s
    <3>1. u.disputes[p].subject # t /\ new.subject # t
      BY <1>5, <2>2 DEF s
    <3>2. Decided(v, t) = Decided(u, t)
      <4> SUFFICES ASSUME NEW q \in ProposalIds
                   PROVE  (v.disputes[q] # None /\ v.disputes[q].subject = t /\ v.disputes[q].executed)
                            <=> (u.disputes[q] # None /\ u.disputes[q].subject = t /\ u.disputes[q].executed)
        BY DEF Decided
      <4>1. CASE q = p
        BY <1>7, <3>1, <4>1
      <4>2. CASE q # p
        BY <1>7, <4>2
      <4> QED BY <4>1, <4>2
    <3> QED BY <1>6, <1>7, <1>8, <2>2, <3>2 DEF TradeAgrees
  <2> QED BY <2>1, <2>2
<1>9. RowOfDispute(u, v, p, row, new)
  BY <1>1, <1>4, <1>5, <1>6, <1>8 DEF RowOfDispute, p
<1> QED BY <1>3, <1>9, DisputeChangeIsHandled DEF p

\* An update that the contract has is in the tables.
LEMMA UpdateIsThere ==
  ASSUME NEW w, NEW u, NEW e, NEW v, Handling(w, u, e, v), NEW kind \in UpdateKinds,
         e.proposal \in ProposalIds, u.updates[kind][e.proposal] # None
  PROVE  /\ u.updates[kind][e.proposal] \in MadeUpdate
         /\ ProposalOf(w, kind, e) \in UpdateRow /\ ProposalOf(w, kind, e) # None
         /\ ProposalOf(w, kind, e).approvals = u.updates[kind][e.proposal].approvals
         /\ ProposalOf(w, kind, e).cancelled = u.updates[kind][e.proposal].cancelled
<1>1. getOrLoad(w, kind, e.proposal) \in UpdateRow \cup {None}
  BY TablesOfIds, Loaded DEF Handling
<1>2. ProposalAgrees(getOrLoad(w, kind, e.proposal), u.updates[kind][e.proposal])
  BY DEF Handling, Seen
<1>3. u.updates[kind][e.proposal] \in MadeUpdate
  BY DEF Handling, Contract
<1> QED BY <1>1, <1>2, <1>3 DEF ProposalAgrees, ProposalOf

\* A handler that puts the row of an update.
RowOfUpdate(u, v, kind, p, row, new) ==
  /\ kind \in UpdateKinds /\ p \in ProposalIds
  /\ row \in UpdateRow /\ new # None
  /\ v.updates = [u.updates EXCEPT ![kind] = [u.updates[kind] EXCEPT ![p] = new]]
  /\ v.status = u.status /\ v.arrived = u.arrived /\ v.disputes = u.disputes
  /\ row.approvals = new.approvals /\ row.cancelled = new.cancelled

LEMMA UpdateChangeIsHandled ==
  ASSUME NEW w, NEW u, NEW e, NEW v, NEW kind, NEW row, NEW new, Handling(w, u, e, v),
         Put(w, handle(w, e), e, kind, e.proposal, row),
         RowOfUpdate(u, v, kind, e.proposal, row, new)
  PROVE  Handled(w, e, v)
<1> USE DEF RowOfUpdate
<1> DEFINE n == handle(w, e)
           p == e.proposal
<1>1. row # None
  BY RowsAreThere, TablesOfIds
<1>2. v.updates[kind][p] = new
      /\ \A k \in UpdateKinds : \A q \in ProposalIds :
           k # kind \/ q # p => v.updates[k][q] = u.updates[k][q]
  BY DEF Handling, Contract
<1>3. ProposalAgrees(row, v.updates[kind][p])
  BY <1>1, <1>2 DEF ProposalAgrees
<1>4. UpdateChanges(u, v, kind, p, row)
  BY <1>2, <1>3 DEF Handling, UpdateChanges
<1> QED BY <1>4, UpdatePutShows DEF Handling, Handled

LEMMA UpdateMadeIsHandled ==
  ASSUME NEW w, NEW u, NEW e, NEW v, Handling(w, u, e, v), UpdateMade(u, e, v)
  PROVE  Handled(w, e, v)
<1> DEFINE p == e.proposal
           new == Proposed(None, None)
<1>1. PICK kind \in UpdateKinds :
        /\ e.name = NameOf(kind, "propose") /\ p \in ProposalIds
        /\ v = [u EXCEPT !.updates[kind][p] = new]
  BY DEF UpdateMade
<1>2. PICK events : handle(w, e) = Insert(events, [w EXCEPT ![kind][p] = NewProposal], e)
  BY <1>1, HandlesUpdates
<1>3. NewProposal \in UpdateRow /\ NewProposal.approvals = 1 /\ NewProposal.cancelled = FALSE
  BY DEF NewProposal, UpdateRow
<1>4. new # None /\ new.approvals = 1 /\ new.cancelled = FALSE
  <2>1. new \in MadeUpdate /\ new.approvals = 1 /\ new.cancelled = FALSE
    BY DEF Proposed, MadeUpdate
  <2> HIDE DEF new
  <2> QED BY <2>1, NoneIsNoRow
<1> HIDE DEF new
<1>5. Put(w, handle(w, e), e, kind, p, NewProposal)
  BY <1>1, <1>2, <1>3, InsertPuts, TablesOfIds DEF Handling
<1>6. /\ v.updates = [u.updates EXCEPT ![kind] = [u.updates[kind] EXCEPT ![p] = new]]
      /\ v.status = u.status /\ v.arrived = u.arrived /\ v.disputes = u.disputes
  BY <1>1 DEF Handling, Contract
<1>7. RowOfUpdate(u, v, kind, p, NewProposal, new)
  BY <1>1, <1>3, <1>4, <1>6 DEF RowOfUpdate
<1> QED BY <1>5, <1>7, UpdateChangeIsHandled

LEMMA UpdateCountedIsHandled ==
  ASSUME NEW w, NEW u, NEW e, NEW v, Handling(w, u, e, v), UpdateCounted(u, e, v)
  PROVE  Handled(w, e, v)
<1> DEFINE p == e.proposal
<1>1. PICK kind \in UpdateKinds :
        /\ e.name = NameOf(kind, "approve") /\ e.approvals \in Nat
        /\ p \in ProposalIds /\ u.updates[kind][p] # None
        /\ v = [u EXCEPT !.updates[kind][p].approvals = e.approvals]
  BY DEF UpdateCounted
<1> DEFINE old == ProposalOf(w, kind, e)
           row == [old EXCEPT !.approvals = e.approvals]
           new == [u.updates[kind][p] EXCEPT !.approvals = e.approvals]
<1>2. PICK events : handle(w, e) = OnApproval(w, kind, events, e)
  BY <1>1, HandlesUpdates
<1>3. /\ u.updates[kind][p] \in MadeUpdate /\ old \in UpdateRow /\ old # None
      /\ old.cancelled = u.updates[kind][p].cancelled
  BY <1>1, UpdateIsThere
<1>4. handle(w, e) = Change(w, kind, p, events, e, row) /\ getOrLoad(w, kind, p) # None
  BY <1>2, <1>3 DEF OnApproval, ProposalOf
<1> HIDE DEF old
<1>5. /\ row \in UpdateRow /\ row.approvals = e.approvals
      /\ row.cancelled = u.updates[kind][p].cancelled
  BY <1>1, <1>3 DEF UpdateRow
<1>6. /\ new \in MadeUpdate /\ new.approvals = e.approvals
      /\ new.cancelled = u.updates[kind][p].cancelled
  BY <1>1, <1>3 DEF MadeUpdate
<1>7. /\ v.updates = [u.updates EXCEPT ![kind] = [u.updates[kind] EXCEPT ![p] = new]]
      /\ v.status = u.status /\ v.arrived = u.arrived /\ v.disputes = u.disputes
  BY <1>1 DEF Handling, Contract
<1> HIDE DEF row, new
<1>8. Put(w, handle(w, e), e, kind, p, row)
  BY <1>1, <1>4, <1>5, ChangePuts, TablesOfIds DEF Handling
<1>9. RowOfUpdate(u, v, kind, p, row, new)
  BY <1>1, <1>5, <1>6, <1>7, NoneIsNoRow DEF RowOfUpdate
<1> QED BY <1>8, <1>9, UpdateChangeIsHandled

LEMMA UpdateCancelledIsHandled ==
  ASSUME NEW w, NEW u, NEW e, NEW v, Handling(w, u, e, v), UpdateCancelled(u, e, v)
  PROVE  Handled(w, e, v)
<1> DEFINE p == e.proposal
<1>1. PICK kind \in UpdateKinds :
        /\ e.name = NameOf(kind, "cancel")
        /\ p \in ProposalIds /\ u.updates[kind][p] # None
        /\ v = [u EXCEPT !.updates[kind][p].cancelled = TRUE]
  BY DEF UpdateCancelled
<1> DEFINE old == ProposalOf(w, kind, e)
           row == [old EXCEPT !.cancelled = TRUE]
           new == [u.updates[kind][p] EXCEPT !.cancelled = TRUE]
<1>2. PICK events : handle(w, e) = OnCancellation(w, kind, events, e)
  BY <1>1, HandlesUpdates
<1>3. /\ u.updates[kind][p] \in MadeUpdate /\ old \in UpdateRow /\ old # None
      /\ old.approvals = u.updates[kind][p].approvals
  BY <1>1, UpdateIsThere
<1>4. handle(w, e) = Change(w, kind, p, events, e, row) /\ getOrLoad(w, kind, p) # None
  BY <1>2, <1>3 DEF OnCancellation, ProposalOf
<1> HIDE DEF old
<1>5. /\ row \in UpdateRow /\ row.cancelled = TRUE
      /\ row.approvals = u.updates[kind][p].approvals
  BY <1>1, <1>3 DEF UpdateRow
<1>6. /\ new \in MadeUpdate /\ new.cancelled = TRUE
      /\ new.approvals = u.updates[kind][p].approvals
  BY <1>1, <1>3 DEF MadeUpdate
<1>7. /\ v.updates = [u.updates EXCEPT ![kind] = [u.updates[kind] EXCEPT ![p] = new]]
      /\ v.status = u.status /\ v.arrived = u.arrived /\ v.disputes = u.disputes
  BY <1>1 DEF Handling, Contract
<1> HIDE DEF row, new
<1>8. Put(w, handle(w, e), e, kind, p, row)
  BY <1>1, <1>4, <1>5, ChangePuts, TablesOfIds DEF Handling
<1>9. RowOfUpdate(u, v, kind, p, row, new)
  BY <1>1, <1>5, <1>6, <1>7, NoneIsNoRow DEF RowOfUpdate
<1> QED BY <1>8, <1>9, UpdateChangeIsHandled

\* The tables are not asked whether an update was executed.
LEMMA UpdateExecutedIsHandled ==
  ASSUME NEW w, NEW u, NEW e, NEW v, Handling(w, u, e, v), UpdateExecuted(u, e, v)
  PROVE  Handled(w, e, v)
<1>1. PICK kind \in UpdateKinds, p \in ProposalIds :
        /\ e.name = NameOf(kind, "execute") /\ u.updates[kind][p] # None
        /\ v = [u EXCEPT !.updates[kind][p].executed = TRUE]
  BY DEF UpdateExecuted
<1> DEFINE n == handle(w, e)
           new == [u.updates[kind][p] EXCEPT !.executed = TRUE]
<1>2. PICK events : n = Insert(events, w, e)
  BY <1>1, HandlesUpdates
<1>3. Kept(w, n, e)
  BY <1>2, InsertKeeps DEF Handling
<1>4. Entered(w, n, e) /\ Seen(n, u)
  BY <1>3, KeptShows DEF Handling
<1> HIDE DEF n
<1>5. u.updates[kind][p] \in MadeUpdate
  BY <1>1 DEF Handling, Contract
<1>6. /\ new \in MadeUpdate /\ new.approvals = u.updates[kind][p].approvals
      /\ new.cancelled = u.updates[kind][p].cancelled
  BY <1>5 DEF MadeUpdate
<1>7. /\ v.updates = [u.updates EXCEPT ![kind] = [u.updates[kind] EXCEPT ![p] = new]]
      /\ v.status = u.status /\ v.arrived = u.arrived /\ v.disputes = u.disputes
  BY <1>1 DEF Handling, Contract
<1> HIDE DEF new
<1>8. /\ v.updates[kind][p] = new /\ new # None
      /\ \A k \in UpdateKinds : \A q \in ProposalIds :
           k # kind \/ q # p => v.updates[k][q] = u.updates[k][q]
  BY <1>6, <1>7, NoneIsNoRow DEF Handling, Contract
<1>9. ASSUME NEW k \in UpdateKinds, NEW q \in ProposalIds
      PROVE  ProposalAgrees(getOrLoad(n, k, q), v.updates[k][q])
  <2>1. ProposalAgrees(getOrLoad(n, k, q), u.updates[k][q])
    BY <1>4 DEF Seen
  <2>2. CASE k = kind /\ q = p
    BY <1>1, <1>6, <1>8, <2>1, <2>2 DEF ProposalAgrees
  <2>3. CASE ~(k = kind /\ q = p)
    BY <1>8, <2>1, <2>3
  <2> QED BY <2>2, <2>3
<1>10. \A t \in TradeIds : Decided(v, t) = Decided(u, t)
  BY <1>7 DEF Decided
<1>11. Seen(n, v)
  BY <1>4, <1>7, <1>9, <1>10 DEF Seen, TradeAgrees
<1> QED BY <1>4, <1>11 DEF Handled, n

LEMMA AnnouncedIsHandled ==
  ASSUME NEW w, NEW u, NEW e, NEW v, Handling(w, u, e, v), Announced(u, e, v)
  PROVE  Handled(w, e, v)
<1>1. PICK events : handle(w, e) = Insert(events, w, e)
  BY HandlesAnnouncements DEF Announced
<1>2. Kept(w, handle(w, e), e)
  BY <1>1, InsertKeeps DEF Handling
<1> QED BY <1>2, KeptShows DEF Handling, Handled, Announced

\* Every handler does what its event tells: what is read back of the batch and the store is
\* the contract after the event, and the event is recorded.
LEMMA EventIsHandled ==
  ASSUME NEW w, NEW u, NEW e, NEW v, Handling(w, u, e, v), Tells(u, e, v)
  PROVE  Handled(w, e, v)
BY NotedIsHandled, AnnouncedIsHandled, LockedIsHandled, MovedIsHandled, DisputeMadeIsHandled,
   DisputeCountedIsHandled, DisputeCancelledIsHandled, DisputeExecutedIsHandled,
   UpdateMadeIsHandled, UpdateCountedIsHandled, UpdateCancelledIsHandled, UpdateExecutedIsHandled
   DEF Tells

\* A batch without rows.
LEMMA EmptyTablesTyped == IsTables(EmptyTables) /\ EmptyTables.events = {}
<1>1. /\ EmptyTables = [x \in TableNames \cup {"events"} |-> EmptyTables[x]]
      /\ EmptyTables["trades"] = [t \in TradeIds |-> None]
      /\ EmptyTables["disputes"] = [p \in ProposalIds |-> None]
      /\ EmptyTables["oracle"] = [p \in ProposalIds |-> None]
      /\ EmptyTables["admin"] = [p \in ProposalIds |-> None]
      /\ EmptyTables.events = {}
  BY DEF EmptyTables, TableNames
<1>2. \A table \in TableNames : EmptyTables[table] = [id \in Ids[table] |-> None]
  BY <1>1 DEF TableNames, Ids
<1> QED BY <1>1, <1>2 DEF IsTables

\* A batch that is saved is what was read.
LEMMA SavedShows ==
  ASSUME NEW w, NEW u, IsTables(w), IsTables(store), Seen(w, u)
  PROVE  IsTables(Saved(w)) /\ Show(Saved(w), u) /\ Saved(w).events = store.events \cup w.events
<1>1. ASSUME NEW table \in TableNames
      PROVE  /\ Upserted(w, table) \in [Ids[table] -> Rows[table] \cup {None}]
             /\ \A x \in Ids[table] : Upserted(w, table)[x] = getOrLoad(w, table, x)
  <2>1. DOMAIN store[table] = Ids[table]
    BY DEF IsTables
  <2>2. \A x \in Ids[table] : getOrLoad(w, table, x) \in Rows[table] \cup {None}
    BY Loaded
  <2> QED BY <2>1, <2>2 DEF Upserted
<1> DEFINE n == Saved(w)
<1>2. /\ n = [x \in TableNames \cup {"events"} |-> n[x]]
      /\ n["trades"] = Upserted(w, "trades") /\ n["disputes"] = Upserted(w, "disputes")
      /\ n["oracle"] = Upserted(w, "oracle") /\ n["admin"] = Upserted(w, "admin")
      /\ n.events = store.events \cup w.events
  BY DEF Saved, TableNames
<1> HIDE DEF n
<1>3. \A table \in TableNames : n[table] = Upserted(w, table)
  BY <1>2 DEF TableNames
<1>4. IsTables(n)
  BY <1>1, <1>2, <1>3 DEF IsTables
<1>5. Show(n, u)
  <2>1. \A t \in TradeIds : n["trades"][t] = getOrLoad(w, "trades", t)
    BY <1>1, <1>3, TablesOfIds
  <2>2. \A p \in ProposalIds : n["disputes"][p] = getOrLoad(w, "disputes", p)
    BY <1>1, <1>3, TablesOfIds
  <2>3. \A kind \in UpdateKinds, p \in ProposalIds : n[kind][p] = getOrLoad(w, kind, p)
    BY <1>1, <1>3, TablesOfIds
  <2>4. \A p \in ProposalIds : /\ ProposalAgrees(n["oracle"][p], u.updates["oracle"][p])
                               /\ ProposalAgrees(n["admin"][p], u.updates["admin"][p])
    BY <2>3 DEF Seen, UpdateKinds
  <2> QED BY <2>1, <2>2, <2>4 DEF Seen, Show
<1> QED BY <1>2, <1>4, <1>5 DEF n

-------------------------------------------------------------------------------
(* The batches *)

MadeTransaction == [events : Seq(EmittedEvent), after : Contract, block : Nat, last : BOOLEAN]

\* The contract before the i-th transaction, first being what it was before the first one.
Before(first, txs, i) == IF i = 1 THEN first ELSE txs[i - 1].after

\* The transactions that are still to be processed tell how the contract became what it is.
PendingInv ==
  /\ pending \in Seq(MadeTransaction)
  /\ asOf \in Contract
  /\ \A i \in 1 .. Len(pending) :
       /\ Len(pending[i].events) > 0
       /\ Lead(Before(asOf, pending, i), pending[i].events, pending[i].after)
  /\ chain = Before(asOf, pending, Len(pending) + 1)

StoreInv == IsTables(store) /\ Show(store, asOf) /\ EveryEventHasItsRow

\* Seen, of the rows s of the store.
SeenIn(s, w, u) ==
  LET Reads(table, id) == IF w[table][id] # None THEN w[table][id] ELSE s[table][id] IN
  /\ \A t \in TradeIds : TradeAgrees(Reads("trades", t), u, t)
  /\ \A p \in ProposalIds : /\ ProposalAgrees(Reads("disputes", p), u.disputes[p])
                            /\ ExecutionAgrees(Reads("disputes", p), u.disputes[p])
  /\ \A kind \in UpdateKinds, p \in ProposalIds :
       ProposalAgrees(Reads(kind, p), u.updates[kind][p])

\* The events of the transactions up to this event of this one.
DoneKeys(txs, tx, event) ==
  (UNION {KeysOf(txs[i]) : i \in 1 .. tx - 1})
    \cup {KeyOf(txs[tx].events[j]) : j \in 1 .. event - 1}

\* The batch has handled the events up to where it is, and what it reads shows the contract
\* as it was between these events and the next.
BatchInv ==
  /\ batch.size \in 0 .. Len(pending)
  /\ batch.tx \in 1 .. batch.size + 1
  /\ IsTables(batch.rows)
  /\ {KeyOf(row) : row \in batch.rows.events} = DoneKeys(pending, batch.tx, batch.event)
  /\ batch.tx <= batch.size =>
       /\ batch.event \in 1 .. Len(pending[batch.tx].events)
       /\ \E views : /\ LeadBy(views, Before(asOf, pending, batch.tx),
                               pending[batch.tx].events, pending[batch.tx].after)
                     /\ SeenIn(store, batch.rows, views[batch.event - 1])
  /\ batch.tx > batch.size =>
       batch.event = 1 /\ SeenIn(store, batch.rows, Before(asOf, pending, batch.tx))

IndexInv == mined \in Nat /\ ChainInv /\ PendingInv /\ StoreInv /\ BatchInv

LEMMA SeenIsSeenIn ==
  ASSUME NEW w, NEW u
  PROVE  Seen(w, u) <=> SeenIn(store, w, u)
BY DEF Seen, SeenIn, getOrLoad

\* A transaction more changes nothing of those before it.
LEMMA AppendKeepsBefore ==
  ASSUME NEW first, NEW txs \in Seq(MadeTransaction), NEW tx \in MadeTransaction, NEW i \in 1 .. Len(txs) + 1
  PROVE  /\ Before(first, Append(txs, tx), i) = Before(first, txs, i)
         /\ i <= Len(txs) => Append(txs, tx)[i] = txs[i]
<1>1. Len(txs) \in Nat /\ \A j \in 1 .. Len(txs) : Append(txs, tx)[j] = txs[j]
  OBVIOUS
<1>2. CASE i = 1
  BY <1>1, <1>2 DEF Before
<1>3. CASE i # 1
  <2>1. i - 1 \in 1 .. Len(txs)
    BY <1>1, <1>3
  <2> QED BY <1>1, <1>3, <2>1 DEF Before
<1> QED BY <1>1, <1>2, <1>3

\* Numbers are given on.
LEMMA IndexedIsDated == IndexInv => Dated
<1> SUFFICES ASSUME IndexInv PROVE Dated
  OBVIOUS
<1>1. mined \in Nat /\ pending \in Seq(MadeTransaction)
  BY DEF IndexInv, PendingInv
<1>2. CASE pending # <<>>
  <2> DEFINE tx == pending[Len(pending)]
  <2>1. tx \in MadeTransaction
    BY <1>1, <1>2
  <2> HIDE DEF tx
  <2>2. tx.block \in Nat
    BY <2>1 DEF MadeTransaction
  <2> QED BY <1>1, <2>2 DEF Dated, NextBlock, tx
<1>3. CASE pending = <<>>
  BY <1>1, <1>3 DEF Dated, NextBlock
<1> QED BY <1>2, <1>3

LEMMA MiningKeepsIndexInv ==
  ASSUME IndexInv, ChainStep, UNCHANGED indexerVars, mined' = mined + 1
  PROVE  IndexInv'
<1>1. ChainInv' /\ Mined
  BY ChainStepIsTold, IndexedIsDated DEF IndexInv
<1>2. PICK tx : /\ tx = [events |-> tx.events, after |-> tx.after, block |-> tx.block, last |-> tx.last]
                /\ tx.block \in Nat /\ tx.last \in BOOLEAN
                /\ pending' = Append(pending, tx)
                /\ tx.after = chain'
                /\ Lead(chain, tx.events, chain')
                /\ Len(tx.events) > 0
  BY <1>1, IndexedIsDated DEF Mined, Dated
<1>3. tx \in MadeTransaction
  <2>1. tx.events \in Seq(EmittedEvent)
    BY <1>2 DEF Lead, LeadBy
  <2>2. tx.after \in Contract
    BY <1>1, <1>2 DEF ChainInv
  <2> QED BY <1>2, <2>1, <2>2 DEF MadeTransaction
<1> DEFINE L == Len(pending)
<1>4. /\ pending \in Seq(MadeTransaction) /\ pending' \in Seq(MadeTransaction) /\ L \in Nat /\ Len(pending') = L + 1
      /\ \A i \in 1 .. L : pending'[i] = pending[i]
      /\ pending'[L + 1] = tx
      /\ \A i \in 1 .. L + 1 : Before(asOf, pending', i) = Before(asOf, pending, i)
      /\ asOf' = asOf /\ store' = store /\ batch' = batch /\ processed' = processed
  BY <1>2, <1>3, AppendKeepsBefore DEF IndexInv, PendingInv, indexerVars
<1> HIDE DEF L
<1>5. PendingInv'
  <2>1. \A i \in 1 .. L + 1 :
          /\ Len(pending'[i].events) > 0
          /\ Lead(Before(asOf, pending', i), pending'[i].events, pending'[i].after)
    <3> SUFFICES ASSUME NEW i \in 1 .. L + 1
                 PROVE  /\ Len(pending'[i].events) > 0
                        /\ Lead(Before(asOf, pending', i), pending'[i].events, pending'[i].after)
      OBVIOUS
    <3>1. CASE i = L + 1
      <4>1. Before(asOf, pending', i) = chain
        BY <1>4, <3>1 DEF IndexInv, PendingInv, L
      <4> QED BY <1>2, <1>4, <3>1, <4>1
    <3>2. CASE i # L + 1
      <4>1. i \in 1 .. L
        BY <1>4, <3>2
      <4> QED BY <1>4, <4>1 DEF IndexInv, PendingInv, L
    <3> QED BY <3>1, <3>2
  <2>2. chain' = Before(asOf, pending', L + 2)
    BY <1>2, <1>4 DEF Before
  <2>3. Len(pending') + 1 = L + 2
    BY <1>4
  <2>4. asOf \in Contract
    BY DEF IndexInv, PendingInv
  <2> QED BY <1>4, <2>1, <2>2, <2>3, <2>4 DEF PendingInv
<1>6. BatchInv'
  <2>1. /\ batch.size \in 0 .. L /\ batch.tx \in 1 .. batch.size + 1
        /\ batch.size \in Nat /\ batch.tx \in Nat
    BY <1>4 DEF IndexInv, BatchInv, L
  <2>2. batch.tx <= batch.size => pending'[batch.tx] = pending[batch.tx]
    BY <1>4, <2>1
  <2>3. Before(asOf, pending', batch.tx) = Before(asOf, pending, batch.tx)
    BY <1>4, <2>1
  <2>4. DoneKeys(pending', batch.tx, batch.event) = DoneKeys(pending, batch.tx, batch.event)
    <3>1. \A i \in 1 .. batch.tx - 1 : pending'[i] = pending[i]
      BY <1>4, <2>1
    <3>2. CASE batch.tx <= batch.size
      BY <2>2, <3>1, <3>2 DEF DoneKeys
    <3>3. CASE batch.tx > batch.size
      <4>1. batch.event = 1
        BY <3>3 DEF IndexInv, BatchInv
      <4>2. 1 .. batch.event - 1 = {}
        BY <4>1
      <4> QED BY <3>1, <4>2 DEF DoneKeys
    <3> QED BY <2>1, <3>2, <3>3
  <2>5. batch.size \in 0 .. Len(pending')
    BY <1>4, <2>1
  <2>6. IsTables(batch.rows)
        /\ {KeyOf(row) : row \in batch.rows.events} = DoneKeys(pending', batch.tx, batch.event)
    BY <2>4 DEF IndexInv, BatchInv
  <2>7. batch.tx <= batch.size =>
          /\ batch.event \in 1 .. Len(pending'[batch.tx].events)
          /\ \E views : /\ LeadBy(views, Before(asOf, pending', batch.tx),
                                  pending'[batch.tx].events, pending'[batch.tx].after)
                        /\ SeenIn(store, batch.rows, views[batch.event - 1])
    BY <2>2, <2>3 DEF IndexInv, BatchInv
  <2>8. batch.tx > batch.size =>
          batch.event = 1 /\ SeenIn(store, batch.rows, Before(asOf, pending', batch.tx))
    BY <2>3 DEF IndexInv, BatchInv
  <2> QED BY <1>4, <2>1, <2>5, <2>6, <2>7, <2>8 DEF BatchInv
<1>7. StoreInv'
  BY <1>4 DEF IndexInv, StoreInv, EveryEventHasItsRow
<1>8. mined' \in Nat
  BY DEF IndexInv
<1> QED BY <1>1, <1>5, <1>6, <1>7, <1>8 DEF IndexInv

\* Every transaction is counted.
LEMMA ChainStepsUp == ChainStep => mined' = mined + 1
<1>1. TradeTransaction => mined' = mined + 1
  BY DEF TradeTransaction, createTrade, releaseFundsStage1, confirmArrival, openDispute, Settle,
         finalizeAfterDisputeWindow, cancelLockedTradeAfterTimeout, refundInTransitAfterTimeout,
         Transaction
<1>2. DisputeTransaction => mined' = mined + 1
  BY DEF DisputeTransaction, proposeDisputeSolution, approveDisputeSolution,
         cancelExpiredDisputeProposal, Transaction
<1>3. GovernanceTransaction => mined' = mined + 1
  BY DEF GovernanceTransaction, proposeUpdate, approveUpdate, executeUpdate, cancelExpiredUpdate,
         announce, Transaction
<1> QED BY <1>1, <1>2, <1>3 DEF ChainStep

\* They read what the store has.
LEMMA EmptyTablesShow ==
  ASSUME NEW s, NEW u, IsTables(s), Show(s, u)
  PROVE  IsTables(EmptyTables) /\ SeenIn(s, EmptyTables, u) /\ EmptyTables.events = {}
<1>1. IsTables(EmptyTables) /\ EmptyTables.events = {}
  BY EmptyTablesTyped
<1>2. ASSUME NEW table \in TableNames, NEW x \in Ids[table]
      PROVE  EmptyTables[table][x] = None
  BY DEF EmptyTables, TableNames, Ids
<1>3. SeenIn(s, EmptyTables, u)
  BY <1>2, TablesOfIds DEF SeenIn, Show, UpdateKinds
<1> QED BY <1>1, <1>3

\* A batch that has not begun.
LEMMA NoBatchHasNoRows ==
  ASSUME IndexInv
  PROVE  /\ IsTables(EmptyTables)
         /\ SeenIn(store, EmptyTables, Before(asOf, pending, 1))
         /\ {KeyOf(row) : row \in EmptyTables.events} = DoneKeys(pending, 1, 1)
<1>1. IsTables(EmptyTables) /\ SeenIn(store, EmptyTables, asOf) /\ EmptyTables.events = {}
  BY EmptyTablesShow DEF IndexInv, StoreInv
<1>2. DoneKeys(pending, 1, 1) = {}
  <2>1. 1 .. 1 - 1 = {}
    OBVIOUS
  <2> QED BY <2>1 DEF DoneKeys
<1> QED BY <1>1, <1>2 DEF Before

LEMMA StartingKeepsBatchInv ==
  ASSUME IndexInv, startBatch, UNCHANGED pending
  PROVE  BatchInv'
<1>1. PICK n \in 1 .. Len(pending) : batch' = [NoBatch EXCEPT !.size = n]
  BY DEF startBatch
<1>2. /\ batch'.rows = EmptyTables /\ batch'.size = n /\ batch'.tx = 1 /\ batch'.event = 1
      /\ store' = store /\ asOf' = asOf /\ pending' = pending
  BY <1>1 DEF NoBatch, startBatch
<1>3. pending \in Seq(MadeTransaction) /\ Len(pending) \in Nat
  BY DEF IndexInv, PendingInv
<1>4. pending[1] \in MadeTransaction /\ pending[1].events \in Seq(EmittedEvent) /\ Len(pending[1].events) \in Nat
  <2>1. 1 \in 1 .. Len(pending)
    BY <1>1, <1>3
  <2>2. pending[1] \in MadeTransaction
    BY <1>3, <2>1
  <2> QED BY <2>2 DEF MadeTransaction
<1>5. Len(pending[1].events) > 0 /\ Lead(Before(asOf, pending, 1), pending[1].events, pending[1].after)
  BY <1>1, <1>3 DEF IndexInv, PendingInv
<1>6. PICK views : LeadBy(views, Before(asOf, pending, 1), pending[1].events, pending[1].after)
  BY <1>5 DEF Lead
<1>7. SeenIn(store, EmptyTables, views[1 - 1])
  <2>1. views[0] = Before(asOf, pending, 1)
    BY <1>6 DEF LeadBy
  <2> QED BY <2>1, NoBatchHasNoRows
<1>8. batch'.event \in 1 .. Len(pending[1].events)
  BY <1>2, <1>4, <1>5
<1>9. batch'.tx <= batch'.size /\ ~(batch'.tx > batch'.size)
      /\ batch'.tx \in 1 .. batch'.size + 1 /\ batch'.size \in 0 .. Len(pending')
  BY <1>1, <1>2, <1>3
<1> QED BY <1>2, <1>6, <1>7, <1>8, <1>9, NoBatchHasNoRows DEF BatchInv

LEMMA FailingKeepsBatchInv ==
  ASSUME IndexInv, batchFails, UNCHANGED pending
  PROVE  BatchInv'
<1>1. /\ batch'.rows = EmptyTables /\ batch'.size = 0 /\ batch'.tx = 1 /\ batch'.event = 1
      /\ store' = store /\ asOf' = asOf /\ pending' = pending
  BY DEF NoBatch, batchFails
<1>2. Len(pending) \in Nat
  BY DEF IndexInv, PendingInv
<1> QED BY <1>1, <1>2, NoBatchHasNoRows DEF BatchInv

\* The next event of the batch is handled.
LEMMA NextEventIsHandled ==
  ASSUME IndexInv, batch.tx <= batch.size
  PROVE  LET i      == batch.tx
             j      == batch.event
             events == pending[i].events
             e      == events[j]
             n      == handle(batch.rows, e)
         IN /\ i \in 1 .. Len(pending) /\ i \in Nat /\ j \in Nat
            /\ j \in 1 .. Len(events) /\ Len(events) \in Nat
            /\ Entered(batch.rows, n, e)
            /\ \E views : /\ LeadBy(views, Before(asOf, pending, i), events, pending[i].after)
                          /\ SeenIn(store, n, views[j])
<1> DEFINE i      == batch.tx
           j      == batch.event
           events == pending[i].events
           e      == events[j]
           n      == handle(batch.rows, e)
<1>1. /\ batch.size \in 0 .. Len(pending) /\ i \in 1 .. batch.size + 1 /\ IsTables(batch.rows)
      /\ i <= batch.size /\ j \in 1 .. Len(events)
  BY DEF IndexInv, BatchInv
<1>2. PICK views : /\ LeadBy(views, Before(asOf, pending, i), events, pending[i].after)
                   /\ SeenIn(store, batch.rows, views[j - 1])
  BY <1>1 DEF IndexInv, BatchInv
<1>3. pending \in Seq(MadeTransaction) /\ Len(pending) \in Nat
  BY DEF IndexInv, PendingInv
<1>4. i \in 1 .. Len(pending) /\ i \in Nat /\ j \in Nat /\ Len(events) \in Nat
  <2>1. i \in 1 .. Len(pending)
    BY <1>1, <1>3
  <2>2. events \in Seq(EmittedEvent)
    BY <1>2 DEF LeadBy
  <2> QED BY <1>1, <2>1, <2>2
<1> HIDE DEF i, j, events
<1>5. e \in EmittedEvent /\ views[j - 1] \in Contract /\ views[j] \in Contract
      /\ Tells(views[j - 1], e, views[j])
  <2>1. /\ events \in Seq(EmittedEvent) /\ views \in [0 .. Len(events) -> Contract]
        /\ \A k \in 1 .. Len(events) : Tells(views[k - 1], events[k], views[k])
    BY <1>2 DEF LeadBy
  <2>2. e \in EmittedEvent
    BY <1>1, <2>1
  <2>3. j - 1 \in 0 .. Len(events) /\ j \in 0 .. Len(events)
    BY <1>1, <1>4
  <2> QED BY <1>1, <2>1, <2>2, <2>3
<1> HIDE DEF e, n
<1>6. Entered(batch.rows, n, e) /\ Seen(n, views[j])
  <2> DEFINE u == views[j - 1]
             v == views[j]
  <2>1. Handling(batch.rows, u, e, v)
    BY <1>1, <1>2, <1>5, SeenIsSeenIn DEF Handling, IndexInv, StoreInv
  <2>2. Tells(u, e, v)
    BY <1>5
  <2> HIDE DEF u, v
  <2>3. Handled(batch.rows, e, v)
    BY <2>1, <2>2, EventIsHandled
  <2> QED BY <2>3 DEF Handled, v, n
<1>7. SeenIn(store, n, views[j])
  BY <1>6, SeenIsSeenIn
<1> QED BY <1>1, <1>2, <1>4, <1>6, <1>7 DEF e, n, events, i, j

\* The next event of the batch.
LEMMA HandlingKeepsBatchInv ==
  ASSUME IndexInv, handleEvent, UNCHANGED pending
  PROVE  BatchInv'
<1> DEFINE i      == batch.tx
           j      == batch.event
           events == pending[i].events
           e      == events[j]
           n      == handle(batch.rows, e)
           last   == j = Len(events)
<1>1. /\ i <= batch.size
      /\ batch'.rows = n /\ batch'.size = batch.size
      /\ batch'.tx = IF last THEN i + 1 ELSE i
      /\ batch'.event = IF last THEN 1 ELSE j + 1
      /\ store' = store /\ asOf' = asOf /\ pending' = pending
  BY DEF handleEvent
<1>2. /\ batch.size \in 0 .. Len(pending) /\ i \in 1 .. batch.size + 1 /\ IsTables(batch.rows)
      /\ {KeyOf(row) : row \in batch.rows.events} = DoneKeys(pending, i, j)
      /\ j \in 1 .. Len(events)
  BY <1>1 DEF IndexInv, BatchInv
<1>3. /\ i \in 1 .. Len(pending) /\ i \in Nat /\ j \in Nat /\ Len(events) \in Nat
      /\ Entered(batch.rows, n, e)
  BY <1>1, NextEventIsHandled
<1>4. PICK views : /\ LeadBy(views, Before(asOf, pending, i), events, pending[i].after)
                   /\ SeenIn(store, n, views[j])
  BY <1>1, NextEventIsHandled
<1>5. pending \in Seq(MadeTransaction) /\ Len(pending) \in Nat
  BY DEF IndexInv, PendingInv
<1> HIDE DEF i, j, events, e, n
<1>6. IsTables(n)
  BY <1>3 DEF Entered
<1>7. {KeyOf(row) : row \in n.events} = DoneKeys(pending, i, j) \cup {KeyOf(e)}
  <2>1. PICK table : n.events = batch.rows.events \cup {EventRow(table, e)}
    BY <1>3 DEF Entered
  <2>2. KeyOf(EventRow(table, e)) = KeyOf(e)
    BY DEF KeyOf, EventRow
  <2>3. {KeyOf(row) : row \in n.events} =
          {KeyOf(row) : row \in batch.rows.events} \cup {KeyOf(EventRow(table, e))}
    BY <2>1
  <2> QED BY <1>2, <2>2, <2>3
<1>8. CASE ~last
  <2>1. /\ batch'.tx = i /\ batch'.event = j + 1 /\ j + 1 \in 1 .. Len(events)
        /\ j + 1 - 1 = j
    BY <1>1, <1>2, <1>3, <1>8
  <2>2. DoneKeys(pending, i, j + 1) = DoneKeys(pending, i, j) \cup {KeyOf(e)}
    <3>1. 1 .. (j + 1) - 1 = (1 .. j - 1) \cup {j}
      BY <1>2, <1>3
    <3> QED BY <3>1 DEF DoneKeys, e, events
  <2>3. SeenIn(store, n, views[j + 1 - 1])
    BY <1>4, <1>6, <2>1
  <2> QED BY <1>1, <1>2, <1>3, <1>4, <1>6, <1>7, <2>1, <2>2, <2>3 DEF BatchInv, events
<1>9. CASE last
  <2>1. batch'.tx = i + 1 /\ batch'.event = 1 /\ i + 1 \in 1 .. batch.size + 1
    BY <1>1, <1>2, <1>3, <1>9
  <2>2. DoneKeys(pending, i + 1, 1) = DoneKeys(pending, i, j) \cup {KeyOf(e)}
    <3>1. 1 .. (i + 1) - 1 = (1 .. i - 1) \cup {i} /\ 1 .. 1 - 1 = {}
      BY <1>3
    <3>2. KeysOf(pending[i]) = {KeyOf(events[k]) : k \in 1 .. j - 1} \cup {KeyOf(e)}
      <4>1. DOMAIN events = 1 .. Len(events)
        BY <1>4 DEF LeadBy
      <4>2. DOMAIN events = (1 .. j - 1) \cup {j}
        BY <1>2, <1>3, <1>9, <4>1
      <4> QED BY <4>2 DEF KeysOf, e, events
    <3>3. DoneKeys(pending, i + 1, 1) = UNION {KeysOf(pending[k]) : k \in (1 .. i - 1) \cup {i}}
      BY <3>1 DEF DoneKeys
    <3>4. UNION {KeysOf(pending[k]) : k \in (1 .. i - 1) \cup {i}} =
            (UNION {KeysOf(pending[k]) : k \in 1 .. i - 1}) \cup KeysOf(pending[i])
      OBVIOUS
    <3> QED BY <3>2, <3>3, <3>4 DEF DoneKeys, events
  <2>3. SeenIn(store, n, Before(asOf, pending, i + 1))
    <3>1. views[j] = pending[i].after
      BY <1>4, <1>9 DEF LeadBy
    <3>2. Before(asOf, pending, i + 1) = pending[i].after
      BY <1>3 DEF Before
    <3> QED BY <1>4, <1>6, <3>1, <3>2
  <2>4. CASE i + 1 <= batch.size
    <3> DEFINE next == pending[i + 1].events
    <3>1. i + 1 \in 1 .. Len(pending)
      BY <1>2, <1>3, <1>5, <2>4
    <3>2. Len(next) > 0 /\ Lead(Before(asOf, pending, i + 1), next, pending[i + 1].after)
      BY <3>1 DEF IndexInv, PendingInv
    <3>3. PICK more : LeadBy(more, Before(asOf, pending, i + 1), next, pending[i + 1].after)
      BY <3>2 DEF Lead
    <3>4. more[0] = Before(asOf, pending, i + 1) /\ Len(next) \in Nat
      BY <3>3 DEF LeadBy
    <3>5. SeenIn(store, n, more[1 - 1])
      BY <2>3, <3>4
    <3>6. batch'.event \in 1 .. Len(next)
      BY <2>1, <3>2, <3>4
    <3>7. ~(i + 1 > batch.size)
      BY <1>2, <1>3, <2>4
    <3> QED BY <1>1, <1>2, <1>4, <1>6, <1>7, <2>1, <2>2, <3>3, <3>5, <3>6, <3>7 DEF BatchInv
  <2>5. CASE ~(i + 1 <= batch.size)
    BY <1>1, <1>2, <1>4, <1>6, <1>7, <2>1, <2>2, <2>3, <2>5 DEF BatchInv
  <2> QED BY <2>4, <2>5
<1> QED BY <1>8, <1>9

\* The batch is saved: its rows, its events and how far the processor is, at once.
LEMMA SavingKeepsIndexInv ==
  ASSUME IndexInv, saveBatch, UNCHANGED <<chain, mined>>
  PROVE  IndexInv'
<1> DEFINE m == batch.size
           w == batch.rows
           L == Len(pending)
<1>1. /\ m > 0 /\ batch.tx > m
      /\ store' = Saved(w) /\ asOf' = pending[m].after
      /\ processed' = processed \cup UNION {KeysOf(pending[i]) : i \in 1 .. m}
      /\ pending' = SubSeq(pending, m + 1, L)
      /\ batch' = NoBatch
  BY DEF saveBatch
<1>2. /\ pending \in Seq(MadeTransaction) /\ L \in Nat /\ m \in 1 .. L /\ batch.tx = m + 1
      /\ IsTables(w) /\ batch.event = 1
      /\ {KeyOf(row) : row \in w.events} = DoneKeys(pending, m + 1, 1)
      /\ SeenIn(store, w, Before(asOf, pending, m + 1))
  <2>1. pending \in Seq(MadeTransaction) /\ L \in Nat
    BY DEF IndexInv, PendingInv
  <2>2. m \in 1 .. L /\ batch.tx = m + 1
    <3>1. m \in 0 .. L /\ batch.tx \in 1 .. m + 1
      BY DEF IndexInv, BatchInv
    <3> HIDE DEF m, L
    <3> QED BY <1>1, <2>1, <3>1
  <2>3. batch.event = 1 /\ SeenIn(store, w, Before(asOf, pending, batch.tx))
        /\ IsTables(w)
        /\ {KeyOf(row) : row \in w.events} = DoneKeys(pending, batch.tx, batch.event)
    BY <1>1 DEF IndexInv, BatchInv
  <2> HIDE DEF m, w, L
  <2> QED BY <2>1, <2>2, <2>3
<1> HIDE DEF m, w, L
<1>3. /\ pending' \in Seq(MadeTransaction) /\ Len(pending') = L - m
      /\ \A i \in 1 .. L - m : pending'[i] = pending[i + m]
  BY <1>1, <1>2 DEF L
<1>4. ASSUME NEW i \in 1 .. L - m + 1
      PROVE  Before(asOf', pending', i) = Before(asOf, pending, i + m)
  <2>1. CASE i = 1
    BY <1>1, <1>2, <2>1 DEF Before
  <2>2. CASE i # 1
    <3>1. PICK k \in Nat : k = i + m
      BY <1>2
    <3>2. i - 1 \in 1 .. L - m /\ k # 1 /\ (i - 1) + m = k - 1
      BY <1>2, <2>2, <3>1
    <3>3. pending'[i - 1] = pending[k - 1]
      BY <1>3, <3>2
    <3>4. Before(asOf', pending', i) = pending'[i - 1].after
      BY <2>2 DEF Before
    <3>5. Before(asOf, pending, k) = pending[k - 1].after
      BY <3>2 DEF Before
    <3> QED BY <3>1, <3>3, <3>4, <3>5
  <2> QED BY <2>1, <2>2
<1>5. PendingInv'
  <2>1. asOf' \in Contract
    <3>1. pending[m] \in MadeTransaction
      BY <1>2 DEF L
    <3> QED BY <1>1, <3>1 DEF MadeTransaction
  <2>2. ASSUME NEW i \in 1 .. L - m
        PROVE  /\ Len(pending'[i].events) > 0
               /\ Lead(Before(asOf', pending', i), pending'[i].events, pending'[i].after)
    <3>1. i + m \in 1 .. L /\ i \in 1 .. L - m + 1
      BY <1>2
    <3>2. /\ Len(pending[i + m].events) > 0
          /\ Lead(Before(asOf, pending, i + m), pending[i + m].events, pending[i + m].after)
      BY <3>1 DEF IndexInv, PendingInv, L
    <3>3. pending'[i] = pending[i + m] /\ Before(asOf', pending', i) = Before(asOf, pending, i + m)
      BY <1>3, <1>4, <3>1
    <3> QED BY <3>2, <3>3
  <2>3. chain' = Before(asOf', pending', L - m + 1)
    <3>1. L - m + 1 \in 1 .. L - m + 1 /\ (L - m + 1) + m = L + 1
      BY <1>2
    <3>2. chain = Before(asOf, pending, L + 1)
      BY DEF IndexInv, PendingInv, L
    <3> QED BY <1>4, <3>1, <3>2
  <2> QED BY <1>3, <2>1, <2>2, <2>3 DEF PendingInv
<1>6. StoreInv'
  <2> DEFINE u == Before(asOf, pending, m + 1)
  <2>1. u = asOf' /\ Seen(w, u)
    BY <1>1, <1>2, SeenIsSeenIn DEF Before
  <2> HIDE DEF u
  <2>2. IsTables(Saved(w)) /\ Show(Saved(w), u) /\ Saved(w).events = store.events \cup w.events
    BY <1>2, <2>1, SavedShows DEF IndexInv, StoreInv
  <2>3. {KeyOf(row) : row \in w.events} = UNION {KeysOf(pending[i]) : i \in 1 .. m}
    <3>1. 1 .. (m + 1) - 1 = 1 .. m /\ 1 .. 1 - 1 = {}
      BY <1>2
    <3> QED BY <1>2, <3>1 DEF DoneKeys
  <2>4. {KeyOf(row) : row \in store'.events} =
          {KeyOf(row) : row \in store.events} \cup {KeyOf(row) : row \in w.events}
    BY <1>1, <2>2
  <2>5. EveryEventHasItsRow'
    BY <1>1, <2>3, <2>4 DEF EveryEventHasItsRow, IndexInv, StoreInv
  <2> QED BY <1>1, <2>1, <2>2, <2>5 DEF StoreInv
<1>7. BatchInv'
  <2>1. /\ batch'.rows = EmptyTables /\ batch'.size = 0 /\ batch'.tx = 1 /\ batch'.event = 1
    BY <1>1 DEF NoBatch
  <2>2. IsTables(store') /\ Show(store', asOf')
    BY <1>6 DEF StoreInv
  <2>3. IsTables(EmptyTables) /\ SeenIn(store', EmptyTables, asOf') /\ EmptyTables.events = {}
    BY <2>2, <1>1, EmptyTablesShow
  <2>4. DoneKeys(pending', 1, 1) = {}
    <3>1. 1 .. 1 - 1 = {}
      OBVIOUS
    <3> QED BY <3>1 DEF DoneKeys
  <2>5. Len(pending') \in Nat
    BY <1>2, <1>3
  <2> QED BY <2>1, <2>3, <2>4, <2>5 DEF BatchInv, Before
<1>8. ChainInv'
  BY DEF IndexInv, ChainInv
<1> QED BY <1>5, <1>6, <1>7, <1>8 DEF IndexInv

\* Every step of the chain and of the indexer, and every step of the others.
LEMMA IndexInvInductive == IndexInv /\ [TreasuryNext]_treasuryAndIndex => IndexInv'
<1> SUFFICES ASSUME IndexInv, [TreasuryNext]_treasuryAndIndex
             PROVE  IndexInv'
  OBVIOUS
<1>1. CASE ChainStep /\ UNCHANGED indexerVars
  BY <1>1, MiningKeepsIndexInv, ChainStepsUp
<1>2. CASE UNCHANGED <<chainVars, store, asOf, processed>> /\ BatchInv'
  <2>1. UNCHANGED <<chain, pending, mined, store, asOf, processed>>
    BY <1>2 DEF chainVars
  <2>2. PendingInv' /\ StoreInv' /\ ChainInv'
    BY <2>1 DEF IndexInv, PendingInv, StoreInv, ChainInv, EveryEventHasItsRow
  <2> QED BY <1>2, <2>1, <2>2 DEF IndexInv
<1>3. CASE processBatch
  <2>1. CASE startBatch /\ UNCHANGED chainVars
    <3>1. BatchInv'
      BY <2>1, StartingKeepsBatchInv DEF chainVars
    <3> QED BY <1>2, <2>1, <3>1 DEF startBatch
  <2>2. CASE handleEvent /\ UNCHANGED chainVars
    <3>1. BatchInv'
      BY <2>2, HandlingKeepsBatchInv DEF chainVars
    <3> QED BY <1>2, <2>2, <3>1 DEF handleEvent
  <2>3. CASE saveBatch /\ UNCHANGED <<chain, mined>>
    BY <2>3, SavingKeepsIndexInv
  <2>4. CASE batchFails /\ UNCHANGED chainVars
    <3>1. BatchInv'
      BY <2>4, FailingKeepsBatchInv DEF chainVars
    <3> QED BY <1>2, <2>4, <3>1 DEF batchFails
  <2> QED BY <1>3, <2>1, <2>2, <2>3, <2>4 DEF processBatch
<1>4. CASE UNCHANGED <<chainVars, indexerVars>>
  <2>1. BatchInv'
    BY <1>4 DEF IndexInv, BatchInv, chainVars, indexerVars
  <2> QED BY <1>2, <1>4, <2>1 DEF indexerVars
<1> QED BY <1>1, <1>3, <1>4 DEF TreasuryNext, treasuryAndIndex

\* At first the contract and the tables are empty.
LEMMA IndexInvInitially == EventsInit /\ IndexerInit => IndexInv
<1> SUFFICES ASSUME EventsInit, IndexerInit
             PROVE  IndexInv
  OBVIOUS
<1>1. /\ chain.status = [t \in TradeIds |-> "NONE"]
      /\ chain.arrived = [t \in TradeIds |-> FALSE]
      /\ chain.disputes = [p \in ProposalIds |-> None]
      /\ chain.updates = [k \in UpdateKinds |-> [p \in ProposalIds |-> None]]
      /\ chain \in Contract
  BY DEF EventsInit, Contract, Statuses
<1>2. ChainInv
  BY <1>1 DEF ChainInv, IsOpen
<1>3. pending = <<>> /\ mined = 0 /\ store = EmptyTables /\ batch = NoBatch /\ asOf = chain
      /\ processed = {}
  BY DEF EventsInit, IndexerInit
<1>4. PendingInv
  <2>1. pending \in Seq(MadeTransaction) /\ Len(pending) = 0
    BY <1>3
  <2> QED BY <1>1, <1>3, <2>1 DEF PendingInv, Before
<1>5. /\ IsTables(EmptyTables) /\ EmptyTables.events = {}
      /\ \A t \in TradeIds : EmptyTables.trades[t] = None
      /\ \A p \in ProposalIds : /\ EmptyTables.disputes[p] = None
                                /\ EmptyTables.oracle[p] = None /\ EmptyTables.admin[p] = None
  BY EmptyTablesTyped DEF EmptyTables
<1>6. Show(EmptyTables, chain)
  BY <1>1, <1>5 DEF Show, TradeAgrees, ProposalAgrees, ExecutionAgrees, UpdateKinds
<1>7. StoreInv
  BY <1>3, <1>5, <1>6 DEF StoreInv, EveryEventHasItsRow
<1>8. BatchInv
  <2>1. SeenIn(store, EmptyTables, asOf)
    BY <1>7, EmptyTablesShow DEF StoreInv
  <2>2. /\ batch.rows = EmptyTables /\ batch.size = 0 /\ batch.tx = 1 /\ batch.event = 1
    BY <1>3 DEF NoBatch
  <2>3. DoneKeys(pending, 1, 1) = {}
    <3>1. 1 .. 1 - 1 = {}
      OBVIOUS
    <3> QED BY <3>1 DEF DoneKeys
  <2>4. Len(pending) = 0
    BY <1>3
  <2> QED BY <1>5, <2>1, <2>2, <2>3, <2>4 DEF BatchInv, Before
<1> QED BY <1>2, <1>3, <1>4, <1>7, <1>8 DEF IndexInv

\* However the blocks are cut into batches, and whichever batches fail half-way
\* (processor.run with its one database transaction), the tables show the contract as it was
\* at the last block processed, and every event up to there.
THEOREM TablesShowTheChainHolds == TreasurySpec => []TablesShowTheChain
<1>1. IndexInv => TablesShowTheChain
  BY DEF IndexInv, StoreInv, TablesShowTheChain
<1> QED BY <1>1, IndexInvInitially, IndexInvInductive, PTL DEF TreasurySpec

-------------------------------------------------------------------------------
(* The payouts *)

\* A state that may come next in a history, whichever of its states a call has seen.
Follows(history, state) ==
  \E i \in 1 .. Len(history) : state \in AllowedTransitions[history[i]]

LegalHistory(history) ==
  /\ history \in Seq(PayoutStates)
  /\ history # <<>> /\ history[1] = "PENDING_REVIEW"
  /\ \A i \in 2 .. Len(history) :
       \E j \in 1 .. i - 1 : history[i] \in AllowedTransitions[history[j]]

PayoutCall == [pc : {"append"}, entry : EntryKeys, state : PayoutStates]

\* Every entry has a legal history, and what a call is about to append follows from a
\* state that stays in the history, whatever other calls have appended since.
PayoutInv ==
  /\ DOMAIN payouts = EntryKeys
  /\ \A k \in EntryKeys : LegalHistory(payouts[k])
  /\ paying \in [PayoutCalls -> {NoCall} \cup PayoutCall]
  /\ \A c \in PayoutCalls : paying[c] # NoCall => Follows(payouts[paying[c].entry], paying[c].state)

\* The history with which upsertLedgerEntryWithInitialState starts an entry is legal.
LEMMA FirstState == LegalHistory(<<"PENDING_REVIEW">>)
BY DEF LegalHistory, PayoutStates

\* appendPayoutState keeps a history legal, and what could follow before can follow still.
LEMMA Appended ==
  ASSUME NEW history, LegalHistory(history),
         NEW state \in PayoutStates, Follows(history, state)
  PROVE  /\ LegalHistory(Append(history, state))
         /\ \A other : Follows(history, other) => Follows(Append(history, state), other)
<1> DEFINE longer == Append(history, state)
<1>1. /\ history \in Seq(PayoutStates) /\ longer \in Seq(PayoutStates)
      /\ Len(longer) = Len(history) + 1 /\ Len(history) \in Nat \ {0}
      /\ \A i \in 1 .. Len(history) : longer[i] = history[i]
      /\ longer[Len(history) + 1] = state
  BY DEF LegalHistory
<1> HIDE DEF longer
<1>2. \A other : Follows(history, other) => Follows(longer, other)
  BY <1>1 DEF Follows
<1>3. ASSUME NEW i \in 2 .. Len(longer)
      PROVE  \E j \in 1 .. i - 1 : longer[i] \in AllowedTransitions[longer[j]]
  <2>1. CASE i = Len(history) + 1
    <3>1. PICK j \in 1 .. Len(history) : state \in AllowedTransitions[history[j]]
      BY DEF Follows
    <3> QED BY <1>1, <2>1, <3>1
  <2>2. CASE i # Len(history) + 1
    <3>1. i \in 2 .. Len(history)
      BY <1>1, <2>2
    <3>2. PICK j \in 1 .. i - 1 : history[i] \in AllowedTransitions[history[j]]
      BY <3>1 DEF LegalHistory
    <3>3. longer[i] = history[i] /\ longer[j] = history[j]
      BY <1>1, <3>1
    <3> QED BY <3>2, <3>3
  <2> QED BY <2>1, <2>2
<1>4. longer # <<>> /\ longer[1] = "PENDING_REVIEW"
  BY <1>1 DEF LegalHistory
<1> QED BY <1>1, <1>2, <1>3, <1>4 DEF LegalHistory, longer

\* A fee event that is stored, for the first time or again: an entry that exists keeps its
\* history, and one that does not gets its first state.
LEMMA StoringKeepsHistories ==
  ASSUME PayoutInv, NEW row, upsertLedgerEntryWithInitialState(row), UNCHANGED paying
  PROVE  PayoutInv'
<1> DEFINE key == buildEntryKey(row)
<1>1. EntryKeys' = EntryKeys \cup {key} /\ DOMAIN payouts' = DOMAIN payouts \cup {key}
  BY DEF upsertLedgerEntryWithInitialState, EntryKeys
<1>2. \A k \in EntryKeys' : payouts'[k] = IF k \in EntryKeys THEN payouts[k] ELSE <<"PENDING_REVIEW">>
  BY <1>1 DEF upsertLedgerEntryWithInitialState, PayoutInv
<1> HIDE DEF key
<1>3. \A k \in EntryKeys' : LegalHistory(payouts'[k])
  BY <1>2, FirstState DEF PayoutInv
<1>4. paying' \in [PayoutCalls -> {NoCall} \cup PayoutCall']
  BY <1>1 DEF PayoutInv, PayoutCall
<1>5. \A c \in PayoutCalls : paying'[c] # NoCall => Follows(payouts'[paying'[c].entry], paying'[c].state)
  <2> SUFFICES ASSUME NEW c \in PayoutCalls, paying[c] # NoCall
               PROVE  Follows(payouts'[paying[c].entry], paying[c].state)
    OBVIOUS
  <2>1. paying[c].entry \in EntryKeys
    BY DEF PayoutInv, PayoutCall
  <2> QED BY <1>1, <1>2, <2>1 DEF PayoutInv
<1> QED BY <1>1, <1>3, <1>4, <1>5 DEF PayoutInv

\* The two statements of POST /entries/:entryId/state.
LEMMA PayingKeepsHistories ==
  ASSUME PayoutInv, PayoutStep
  PROVE  PayoutInv'
<1> PICK c \in PayoutCalls : appendStateCheck(c) \/ appendPayoutState(c)
  BY DEF PayoutStep
<1>1. CASE appendStateCheck(c)
  <2>1. PICK k \in EntryKeys, state \in PayoutStates :
          /\ assertValidTransition(getLatestPayoutState(k), state)
          /\ paying' = [paying EXCEPT ![c] = [pc |-> "append", entry |-> k, state |-> state]]
    BY <1>1 DEF appendStateCheck
  <2>2. UNCHANGED <<ledger, payouts>> /\ EntryKeys' = EntryKeys
    BY <1>1 DEF appendStateCheck, EntryKeys
  <2>3. Follows(payouts[k], state)
    <3>1. payouts[k] \in Seq(PayoutStates) /\ payouts[k] # <<>>
      BY DEF PayoutInv, LegalHistory
    <3>2. Len(payouts[k]) \in 1 .. Len(payouts[k])
      BY <3>1
    <3> QED BY <2>1, <3>2 DEF Follows, assertValidTransition, getLatestPayoutState, Last
  <2>4. paying' \in [PayoutCalls -> {NoCall} \cup PayoutCall]
    BY <2>1 DEF PayoutInv, PayoutCall
  <2>5. \A d \in PayoutCalls : paying'[d] # NoCall => Follows(payouts[paying'[d].entry], paying'[d].state)
    BY <2>1, <2>3 DEF PayoutInv
  <2> QED BY <2>2, <2>4, <2>5 DEF PayoutInv, PayoutCall
<1>2. CASE appendPayoutState(c)
  <2> DEFINE k == paying[c].entry
             state == paying[c].state
  <2>1. paying[c] # NoCall /\ k \in EntryKeys /\ state \in PayoutStates
    BY <1>2 DEF appendPayoutState, PayoutInv, PayoutCall, NoCall
  <2>2. /\ payouts' = [payouts EXCEPT ![k] = Append(@, state)]
        /\ paying' = [paying EXCEPT ![c] = NoCall]
        /\ UNCHANGED ledger /\ EntryKeys' = EntryKeys
    BY <1>2 DEF appendPayoutState, EntryKeys
  <2>3. Follows(payouts[k], state)
    BY <2>1 DEF PayoutInv
  <2> HIDE DEF k, state
  <2>4. /\ DOMAIN payouts' = EntryKeys /\ payouts'[k] = Append(payouts[k], state)
        /\ \A other \in EntryKeys \ {k} : payouts'[other] = payouts[other]
    BY <2>1, <2>2 DEF PayoutInv
  <2>5. \A other \in EntryKeys : LegalHistory(payouts'[other])
    BY <2>1, <2>3, <2>4, Appended DEF PayoutInv
  <2>6. paying' \in [PayoutCalls -> {NoCall} \cup PayoutCall]
    BY <2>2 DEF PayoutInv
  <2>7. ASSUME NEW d \in PayoutCalls, paying'[d] # NoCall
        PROVE  Follows(payouts'[paying'[d].entry], paying'[d].state)
    <3>1. paying'[d] = paying[d]
      BY <2>2, <2>7 DEF PayoutInv
    <3>2. paying[d].entry \in EntryKeys /\ Follows(payouts[paying[d].entry], paying[d].state)
      BY <3>1, <2>7 DEF PayoutInv, PayoutCall
    <3>3. LegalHistory(payouts[k])
      BY <2>1 DEF PayoutInv
    <3>4. CASE paying[d].entry = k
      BY <2>1, <2>3, <2>4, <3>1, <3>2, <3>3, <3>4, Appended
    <3>5. CASE paying[d].entry # k
      BY <2>4, <3>1, <3>2, <3>5
    <3> QED BY <3>4, <3>5
  <2> QED BY <2>2, <2>4, <2>5, <2>6, <2>7 DEF PayoutInv, PayoutCall
<1> QED BY <1>1, <1>2

\* Every step of the treasury, and of what it reads.
LEMMA PayoutInvInductive == PayoutInv /\ [TreasuryNext]_treasuryAndIndex => PayoutInv'
<1> SUFFICES ASSUME PayoutInv, [TreasuryNext]_treasuryAndIndex
             PROVE  PayoutInv'
  OBVIOUS
<1>1. CASE UNCHANGED <<ledger, payouts, paying>>
  BY <1>1 DEF PayoutInv, PayoutCall, EntryKeys
<1>2. CASE IngestionStep
  <2> PICK c \in IngestCalls : ingestOnce(c) \/ fetchPage(c) \/ ingestEvent(c)
                               \/ setIngestionOffset(c) \/ ingestFails(c)
    BY <1>2 DEF IngestionStep
  <2>1. CASE ingestEvent(c) /\ Head(ingesting[c].page).hash
    <3>1. upsertLedgerEntryWithInitialState(Head(ingesting[c].page)) /\ UNCHANGED paying
      BY <2>1 DEF ingestEvent
    <3> QED BY <3>1, StoringKeepsHistories
  <2>2. CASE ~(ingestEvent(c) /\ Head(ingesting[c].page).hash)
    <3>1. UNCHANGED <<ledger, payouts, paying>>
      BY <2>2 DEF ingestOnce, fetchPage, ingestEvent, setIngestionOffset, ingestFails
    <3> QED BY <1>1, <3>1
  <2> QED BY <2>1, <2>2
<1>3. CASE PayoutStep
  BY <1>3, PayingKeepsHistories
<1>4. [TreasuryNext]_treasuryAndIndex =>
        IngestionStep \/ PayoutStep \/ UNCHANGED <<ledger, payouts, paying>>
  BY DEF TreasuryNext, treasuryAndIndex, treasuryVars
<1> QED BY <1>1, <1>2, <1>3, <1>4

\* No payout skips a state, however the calls of POST /ingest and of
\* POST /entries/:entryId/state overlap, whose check and insert are two statements.
THEOREM PayoutNeverSkipsHolds == TreasurySpec => []PayoutNeverSkips
<1>1. TreasuryInit => PayoutInv
  BY DEF TreasuryInit, PayoutInv, EntryKeys
<1>2. PayoutInv => PayoutNeverSkips
  BY DEF PayoutInv, PayoutNeverSkips, LegalHistory
<1> QED BY <1>1, <1>2, PayoutInvInductive, PTL DEF TreasurySpec

-------------------------------------------------------------------------------
(* The fees: counting the fee events up to a block *)

\* The fees of the blocks up to b, and of those before b.
FeesUpTo(fees, b) == {row \in fees : BlockOf(row) <= b}

FeesBefore(fees, b) == {row \in fees : BlockOf(row) < b}

\* Finitely many fees, of blocks up to h.
Countable(fees, h) == IsFiniteSet(fees) /\ \A row \in fees : BlockOf(row) \in 1 .. h

\* Fees ordered by block alone.
BlocksInOrder(o) == \A i, j \in DOMAIN o : i < j => BlockOf(o[i]) <= BlockOf(o[j])

\* There are finitely many of them up to any block.
LEMMA SomeAreCountable ==
  ASSUME NEW fees, NEW h, Countable(fees, h), NEW b
  PROVE  /\ Cardinality(FeesUpTo(fees, b)) \in Nat
         /\ Cardinality(FeesBefore(fees, b)) \in Nat
<1>1. IsFiniteSet(FeesUpTo(fees, b)) /\ IsFiniteSet(FeesBefore(fees, b))
  BY FS_Subset DEF FeesUpTo, FeesBefore, Countable
<1> QED BY <1>1, FS_CardinalityType

\* Where a fee may stand in an order of the fees: behind those of earlier blocks, and before
\* those of later ones.
LEMMA PlaceOfFee ==
  ASSUME NEW fees, NEW h \in Nat, Countable(fees, h), NEW o \in SetToSeqs(fees), BlocksInOrder(o)
  PROVE  /\ Cardinality(fees) \in Nat /\ o \in [1 .. Cardinality(fees) -> fees]
         /\ \A row \in fees : \E i \in 1 .. Cardinality(fees) : o[i] = row
         /\ \A i \in 1 .. Cardinality(fees) :
              /\ i <= Cardinality(FeesUpTo(fees, BlockOf(o[i])))
              /\ Cardinality(FeesBefore(fees, BlockOf(o[i]))) < i
<1> DEFINE n == Cardinality(fees)
<1>1. IsFiniteSet(fees) /\ n \in Nat /\ \A row \in fees : BlockOf(row) \in 1 .. h
  BY FS_CardinalityType DEF Countable
<1>2. o \in [1 .. n -> fees] /\ \A i, j \in 1 .. n : i # j => o[i] # o[j]
  BY DEF SetToSeqs
<1> HIDE DEF n
<1>3. ASSUME NEW row \in fees PROVE \E i \in 1 .. n : o[i] = row
  <2>1. o \in Injection(1 .. n, fees)
    BY <1>2 DEF Injection, IsInjective
  <2>2. IsFiniteSet(1 .. n) /\ Cardinality(1 .. n) = n
    BY <1>1, FS_Interval
  <2>3. o \in Surjection(1 .. n, fees)
    BY <1>1, <2>1, <2>2, FS_Injection DEF n
  <2> QED BY <2>3 DEF Surjection
<1>4. ASSUME NEW i \in 1 .. n
      PROVE  i <= Cardinality(FeesUpTo(fees, BlockOf(o[i])))
  <2> DEFINE T == FeesUpTo(fees, BlockOf(o[i]))
             f == [j \in 1 .. i |-> o[j]]
  <2>1. IsFiniteSet(T)
    BY <1>1, FS_Subset DEF FeesUpTo
  <2>2. IsFiniteSet(1 .. i) /\ Cardinality(1 .. i) = i /\ i \in Nat
    BY <1>1, FS_Interval
  <2>3. ASSUME NEW j \in 1 .. i PROVE o[j] \in T
    <3>1. j \in 1 .. n /\ i \in 1 .. n /\ j \in Nat
      BY <1>1
    <3>2. BlockOf(o[j]) <= BlockOf(o[i])
      <4>1. CASE j < i
        BY <1>2, <3>1, <4>1 DEF BlocksInOrder
      <4>2. CASE j = i
        BY <1>1, <1>2, <4>2
      <4> QED BY <2>2, <4>1, <4>2
    <3> QED BY <1>2, <3>1, <3>2 DEF FeesUpTo
  <2> HIDE DEF T
  <2>4. f \in Injection(1 .. i, T)
    <3>1. f \in [1 .. i -> T]
      BY <2>3
    <3>2. \A j \in 1 .. i : j \in 1 .. n
      BY <1>1
    <3> QED BY <1>2, <3>1, <3>2 DEF Injection, IsInjective
  <2> HIDE DEF f
  <2> QED BY <2>1, <2>2, <2>4, FS_Injection DEF T
<1>5. ASSUME NEW i \in 1 .. n
      PROVE  Cardinality(FeesBefore(fees, BlockOf(o[i]))) < i
  <2> DEFINE T == FeesBefore(fees, BlockOf(o[i]))
             f == [row \in T |-> CHOOSE j \in 1 .. i - 1 : o[j] = row]
  <2>1. i \in Nat \ {0} /\ i - 1 \in Nat /\ BlockOf(o[i]) \in Nat
    BY <1>1, <1>2
  <2>2. IsFiniteSet(1 .. i - 1) /\ Cardinality(1 .. i - 1) = i - 1
    <3> DEFINE k == i - 1
    <3>1. k \in Nat
      BY <2>1
    <3> HIDE DEF k
    <3>2. IsFiniteSet(1 .. k) /\ Cardinality(1 .. k) = k
      BY <3>1, FS_Interval
    <3> QED BY <3>2 DEF k
  <2>3. ASSUME NEW row \in T PROVE \E j \in 1 .. i - 1 : o[j] = row
    <3>1. row \in fees /\ BlockOf(row) < BlockOf(o[i]) /\ BlockOf(row) \in Nat
      BY <1>1 DEF FeesBefore
    <3>2. PICK j \in 1 .. n : o[j] = row
      BY <1>3, <3>1
    <3>3. ~(i < j)
      BY <1>2, <2>1, <3>1, <3>2 DEF BlocksInOrder
    <3>4. i # j
      BY <2>1, <3>1, <3>2
    <3> QED BY <1>1, <2>1, <3>2, <3>3, <3>4
  <2> HIDE DEF T
  <2>4. f \in Injection(T, 1 .. i - 1)
    <3>1. \A row \in T : f[row] \in 1 .. i - 1 /\ o[f[row]] = row
      BY <2>3
    <3>2. f \in [T -> 1 .. i - 1]
      BY <3>1
    <3> QED BY <3>1, <3>2 DEF Injection, IsInjective
  <2> HIDE DEF f
  <2>5. Cardinality(T) <= i - 1 /\ IsFiniteSet(T)
    BY <2>2, <2>4, FS_Injection
  <2>6. Cardinality(T) \in Nat
    BY <2>5, FS_CardinalityType
  <2> QED BY <2>1, <2>5, <2>6 DEF T
<1> QED BY <1>1, <1>2, <1>3, <1>4, <1>5 DEF n

\* How many fees are in the block of a fee or an earlier one, and in an earlier one.
CountedWith(fees, row) == Cardinality(FeesUpTo(fees, BlockOf(row)))

CountedAhead(fees, row) == Cardinality(FeesBefore(fees, BlockOf(row)))

\* The first b fees end among those of the block of this one.
CutBy(fees, row, b) == CountedAhead(fees, row) < b /\ b < CountedWith(fees, row)

\* A fee is among the n that follow the first k.
OnPage(o, k, n, row) == \E i \in 1 .. n : o[k + i] = row

\* A page that begins between blocks holds the fees that were not behind its beginning and
\* are behind its end.
LEMMA PageCovers ==
  ASSUME NEW fees, NEW h \in Nat, Countable(fees, h), NEW o \in SetToSeqs(fees), BlocksInOrder(o),
         NEW k \in Nat, NEW n \in Nat, NEW row \in fees, ~CutBy(fees, row, k),
         CountedWith(fees, row) <= k + n
  PROVE  CountedWith(fees, row) <= k \/ OnPage(o, k, n, row)
<1> DEFINE upTo == CountedWith(fees, row)
           ahead == CountedAhead(fees, row)
<1>1. upTo \in Nat /\ ahead \in Nat
  BY SomeAreCountable DEF CountedWith, CountedAhead
<1>2. PICK i \in 1 .. Cardinality(fees) : o[i] = row
  BY PlaceOfFee
<1>3. i \in Nat /\ i <= upTo /\ ahead < i
  BY <1>2, PlaceOfFee DEF CountedWith, CountedAhead
<1>4. ~(ahead < k /\ k < upTo)
  BY DEF CutBy
<1> HIDE DEF upTo, ahead
<1>5. CASE i <= k
  <2>1. upTo <= k
    BY <1>1, <1>3, <1>4, <1>5
  <2> QED BY <2>1 DEF upTo
<1>6. CASE ~(i <= k)
  <2>1. i - k \in 1 .. n /\ k + (i - k) = i
    BY <1>1, <1>3, <1>6 DEF upTo
  <2> QED BY <1>2, <2>1 DEF OnPage
<1> QED BY <1>5, <1>6

-------------------------------------------------------------------------------
(* The rows of the fee events *)

\* The events of the transactions that follow the n-th are numbered, and in one block.
NumberedFrom(txs, n) ==
  \A i \in 1 .. Len(txs) : \A j \in DOMAIN txs[i].events :
    txs[i].events[j].id = <<n + i, j>> /\ txs[i].events[j].block = txs[i].block

\* Their blocks are later than those of the first n, and none of them goes on behind its
\* last transaction.
BlocksFrom(txs, n) ==
  /\ \A i \in 1 .. Len(txs) : txs[i].block \in n + 1 .. n + i
  /\ \A i, j \in 1 .. Len(txs) : i < j /\ txs[i].last => txs[j].block > n + i

\* An event has one row.
OneRowPerId(rows) == \A row, other \in rows : row.id = other.id => row = other

\* The transactions processed and the blocks they are in come before the pending ones, a
\* batch ends where a block does, and no two rows have one number.
FeeInv ==
  /\ Len(pending) <= mined
  /\ NumberedFrom(pending, mined - Len(pending)) /\ BlocksFrom(pending, mined - Len(pending))
  /\ batch.size > 0 => pending[batch.size].last
  /\ \A key \in processed : key.id[1] \in 1 .. mined - Len(pending)
  /\ \A row \in store.events : BlockOf(row) \in 1 .. mined - Len(pending)
  /\ \A row \in batch.rows.events :
       /\ BlockOf(row) \in Nat /\ BlockOf(row) > mined - Len(pending)
       /\ BlockOf(row) <= (mined - Len(pending)) + batch.size
  /\ IsFiniteSet(store.events \cup batch.rows.events)
  /\ OneRowPerId(store.events \cup batch.rows.events)

\* A transaction: it has the next number, and the block of the one before or a later one.
LEMMA MiningKeepsFeeInv ==
  ASSUME IndexInv, FeeInv, ChainStep, UNCHANGED indexerVars, mined' = mined + 1
  PROVE  FeeInv'
<1>1. pending \in Seq(MadeTransaction) /\ Len(pending) \in Nat /\ mined \in Nat
  BY DEF IndexInv, PendingInv
<1>2. PICK tx : /\ tx.block = NextBlock
                /\ \A i \in DOMAIN tx.events :
                     tx.events[i].id = <<mined + 1, i>> /\ tx.events[i].block = tx.block
                /\ pending' = Append(pending, tx)
  BY ChainStepIsTold, IndexedIsDated DEF Mined, IndexInv
<1> DEFINE L == Len(pending)
           d == mined - L
<1>3. /\ Len(pending') = L + 1 /\ pending'[L + 1] = tx /\ \A i \in 1 .. L : pending'[i] = pending[i]
  BY <1>1, <1>2
<1>4. UNCHANGED <<store, batch, processed>>
  BY DEF indexerVars
<1>5. L \in Nat /\ d \in Nat /\ d + (L + 1) = mined + 1 /\ mined' - Len(pending') = d
      /\ Len(pending') <= mined'
  BY <1>1, <1>3 DEF FeeInv
<1>6. NumberedFrom(pending, d) /\ BlocksFrom(pending, d)
  BY DEF FeeInv
<1>7. tx.block = IF L > 0 /\ ~pending[L].last THEN pending[L].block ELSE d + (L + 1)
  <2>1. pending # <<>> <=> L > 0
    BY <1>1
  <2> QED BY <1>2, <1>5, <2>1 DEF NextBlock
<1>8. batch.size \in 0 .. L
  BY DEF IndexInv, BatchInv
<1> HIDE DEF L, d
<1>9. NumberedFrom(pending', d)
  <2> SUFFICES ASSUME NEW i \in 1 .. L + 1, NEW j \in DOMAIN pending'[i].events
               PROVE  /\ pending'[i].events[j].id = <<d + i, j>>
                      /\ pending'[i].events[j].block = pending'[i].block
    BY <1>3 DEF NumberedFrom
  <2>1. CASE i = L + 1
    BY <1>2, <1>3, <1>5, <2>1
  <2>2. CASE i # L + 1
    <3>1. i \in 1 .. L /\ pending'[i] = pending[i]
      BY <1>3, <1>5, <2>2
    <3> QED BY <1>6, <3>1 DEF NumberedFrom, L
  <2> QED BY <2>1, <2>2
<1>10. \A i \in 1 .. L : pending[i].block \in d + 1 .. d + i
  BY <1>6 DEF BlocksFrom, L
<1>11. BlocksFrom(pending', d)
  <2>1. tx.block \in d + 1 .. d + (L + 1)
    <3>1. L > 0 => pending[L].block \in d + 1 .. d + L
      BY <1>5, <1>10
    <3> QED BY <1>5, <1>7, <3>1
  <2>2. ASSUME NEW i \in 1 .. L + 1 PROVE pending'[i].block \in d + 1 .. d + i
    <3>1. CASE i = L + 1
      BY <1>3, <2>1, <3>1
    <3>2. CASE i # L + 1
      <4>1. i \in 1 .. L
        BY <1>5, <3>2
      <4> QED BY <1>3, <1>10, <4>1
    <3> QED BY <3>1, <3>2
  <2>3. ASSUME NEW i \in 1 .. L + 1, NEW j \in 1 .. L + 1, i < j, pending'[i].last
        PROVE  pending'[j].block > d + i
    <3>1. i \in 1 .. L /\ pending[i].last
      BY <1>3, <1>5, <2>3
    <3>2. CASE j # L + 1
      <4>1. j \in 1 .. L
        BY <1>5, <3>2
      <4> QED BY <1>3, <1>6, <2>3, <3>1, <4>1 DEF BlocksFrom, L
    <3>3. CASE j = L + 1
      <4>1. CASE i = L
        <5>1. tx.block = d + (L + 1)
          BY <1>7, <3>1, <4>1
        <5> QED BY <1>3, <1>5, <3>3, <4>1, <5>1
      <4>2. CASE i # L
        <5>1. L \in 1 .. L /\ i < L /\ L > 0
          BY <1>5, <3>1, <4>2
        <5>2. pending[L].block > d + i
          BY <1>6, <3>1, <5>1 DEF BlocksFrom, L
        <5>3. d + (L + 1) > d + i
          BY <1>5, <5>1
        <5> QED BY <1>3, <1>7, <3>3, <5>2, <5>3
      <4> QED BY <4>1, <4>2
    <3> QED BY <3>2, <3>3
  <2> QED BY <1>3, <2>2, <2>3 DEF BlocksFrom
<1>12. batch'.size > 0 => pending'[batch'.size].last
  <2>1. batch.size > 0 => batch.size \in 1 .. L
    BY <1>5, <1>8
  <2> QED BY <1>3, <1>4, <2>1 DEF FeeInv
<1>13. /\ \A key \in processed : key.id[1] \in 1 .. d
       /\ \A row \in store.events : BlockOf(row) \in 1 .. d
       /\ \A row \in batch.rows.events :
            BlockOf(row) \in Nat /\ BlockOf(row) > d /\ BlockOf(row) <= d + batch.size
       /\ IsFiniteSet(store.events \cup batch.rows.events)
       /\ OneRowPerId(store.events \cup batch.rows.events)
  BY DEF FeeInv, L, d
<1> QED BY <1>4, <1>5, <1>9, <1>11, <1>12, <1>13 DEF FeeInv, OneRowPerId, BlockOf

\* The events before the next one of the batch have other ids.
LEMMA NextIdIsNew ==
  ASSUME IndexInv, FeeInv, batch.tx <= batch.size,
         NEW row \in store.events \cup batch.rows.events
  PROVE  row.id # pending[batch.tx].events[batch.event].id
<1> DEFINE i == batch.tx
           j == batch.event
           d == mined - Len(pending)
<1>1. /\ i \in 1 .. Len(pending) /\ i \in Nat /\ j \in Nat /\ j \in 1 .. Len(pending[i].events)
  BY NextEventIsHandled
<1>2. pending \in Seq(MadeTransaction) /\ Len(pending) \in Nat /\ mined \in Nat /\ Len(pending) <= mined
  BY DEF IndexInv, PendingInv, FeeInv
<1>3. \A k \in 1 .. Len(pending) : pending[k].events \in Seq(EmittedEvent)
  <2> SUFFICES ASSUME NEW k \in 1 .. Len(pending) PROVE pending[k].events \in Seq(EmittedEvent)
    OBVIOUS
  <2>1. pending[k] \in MadeTransaction
    BY <1>2
  <2> QED BY <2>1 DEF MadeTransaction
<1>4. \A k \in 1 .. Len(pending) : \A m \in DOMAIN pending[k].events : pending[k].events[m].id = <<d + k, m>>
  BY DEF FeeInv, NumberedFrom
<1>5. d \in Nat
  BY <1>2
<1> HIDE DEF d, i, j
<1>6. pending[i].events[j].id = <<d + i, j>>
  BY <1>1, <1>3, <1>4
<1>7. CASE row \in store.events
  <2>1. KeyOf(row) \in processed
    BY <1>7 DEF IndexInv, StoreInv, EveryEventHasItsRow
  <2>2. KeyOf(row).id[1] \in 1 .. d
    BY <2>1 DEF FeeInv, d
  <2>3. row.id[1] \in 1 .. d
    BY <2>2 DEF KeyOf
  <2>4. <<d + i, j>>[1] = d + i
    OBVIOUS
  <2>5. d + i \notin 1 .. d
    BY <1>1, <1>5
  <2>6. row.id # <<d + i, j>>
    BY <2>3, <2>4, <2>5
  <2> QED BY <1>6, <2>6 DEF i, j
<1>8. CASE row \in batch.rows.events
  <2>1. KeyOf(row) \in DoneKeys(pending, i, j)
    BY <1>8 DEF IndexInv, BatchInv, i, j
  <2>2. KeyOf(row).id = row.id
    BY DEF KeyOf
  <2>3. CASE KeyOf(row) \in UNION {KeysOf(pending[k]) : k \in 1 .. i - 1}
    <3>1. PICK k \in 1 .. i - 1 : KeyOf(row) \in KeysOf(pending[k])
      BY <2>3
    <3>2. PICK m \in DOMAIN pending[k].events : KeyOf(row) = KeyOf(pending[k].events[m])
      BY <3>1 DEF KeysOf
    <3>3. k \in 1 .. Len(pending) /\ k \in Nat /\ k < i
      BY <1>1, <1>2
    <3>4. pending[k].events[m].id = <<d + k, m>>
      BY <1>4, <3>3
    <3>5. row.id = <<d + k, m>>
      BY <2>2, <3>2, <3>4 DEF KeyOf
    <3>6. d + k # d + i
      BY <1>1, <1>5, <3>3
    <3> QED BY <1>6, <3>5, <3>6 DEF i, j
  <2>4. CASE KeyOf(row) \in {KeyOf(pending[i].events[m]) : m \in 1 .. j - 1}
    <3>1. PICK m \in 1 .. j - 1 : KeyOf(row) = KeyOf(pending[i].events[m])
      BY <2>4
    <3>2. m \in DOMAIN pending[i].events /\ m # j
      BY <1>1, <1>3
    <3>3. row.id = <<d + i, m>>
      <4>1. pending[i].events[m].id = <<d + i, m>>
        BY <1>1, <1>4, <3>2
      <4> QED BY <2>2, <3>1, <4>1 DEF KeyOf
    <3> QED BY <1>6, <3>2, <3>3 DEF i, j
  <2> QED BY <2>1, <2>3, <2>4 DEF DoneKeys
<1> QED BY <1>7, <1>8

\* The steps of a batch before its transaction commits: an event handled has a row of its own.
LEMMA BatchStepsKeepFeeInv ==
  ASSUME IndexInv, FeeInv, startBatch \/ handleEvent \/ batchFails, UNCHANGED chainVars
  PROVE  FeeInv'
<1> DEFINE d == mined - Len(pending)
<1>1. UNCHANGED <<pending, mined, store, processed>>
  BY DEF chainVars, startBatch, handleEvent, batchFails
<1>2. /\ \A row \in batch.rows.events :
           BlockOf(row) \in Nat /\ BlockOf(row) > d /\ BlockOf(row) <= d + batch.size
      /\ IsFiniteSet(store.events \cup batch.rows.events)
      /\ OneRowPerId(store.events \cup batch.rows.events)
      /\ batch.size > 0 => pending[batch.size].last
  BY DEF FeeInv
<1>3. IsFiniteSet(store.events)
  BY <1>2, FS_Subset
<1>4. /\ batch'.size > 0 => pending[batch'.size].last
      /\ \A row \in batch'.rows.events :
           BlockOf(row) \in Nat /\ BlockOf(row) > d /\ BlockOf(row) <= d + batch'.size
      /\ IsFiniteSet(store.events \cup batch'.rows.events)
      /\ OneRowPerId(store.events \cup batch'.rows.events)
  <2>1. CASE startBatch \/ batchFails
    <3>1. batch'.rows.events = {}
      BY <2>1, EmptyTablesTyped DEF startBatch, batchFails, NoBatch
    <3>2. batch'.size > 0 => pending[batch'.size].last
      BY <2>1 DEF startBatch, batchFails, NoBatch
    <3>3. OneRowPerId(store.events)
      BY <1>2 DEF OneRowPerId
    <3> QED BY <1>3, <3>1, <3>2, <3>3
  <2>2. CASE handleEvent
    <3> DEFINE tx == pending[batch.tx]
               e == tx.events[batch.event]
               old == store.events \cup batch.rows.events
    <3>1. batch.tx <= batch.size /\ batch'.rows = handle(batch.rows, e) /\ batch'.size = batch.size
      BY <2>2 DEF handleEvent
    <3>2. PICK table : batch'.rows.events = batch.rows.events \cup {EventRow(table, e)}
      BY <3>1, NextEventIsHandled DEF Entered
    <3>3. \A row \in old : row.id # e.id
      BY <3>1, NextIdIsNew
    <3>4. e.block \in Nat /\ e.block > d /\ e.block <= d + batch.size
      <4>1. /\ batch.tx \in 1 .. Len(pending) /\ batch.event \in 1 .. Len(tx.events)
            /\ Len(pending) \in Nat /\ mined \in Nat /\ Len(pending) <= mined
            /\ batch.size \in Nat /\ batch.tx \in Nat /\ pending \in Seq(MadeTransaction)
        BY <3>1, NextEventIsHandled DEF IndexInv, PendingInv, BatchInv, FeeInv
      <4>2. tx \in MadeTransaction
        BY <4>1
      <4>3. batch.event \in DOMAIN tx.events
        BY <4>1, <4>2 DEF MadeTransaction
      <4>4. e.block = tx.block
        BY <4>1, <4>3 DEF FeeInv, NumberedFrom
      <4>5. tx.block \in d + 1 .. d + batch.tx
        BY <4>1 DEF FeeInv, BlocksFrom
      <4>6. d \in Nat
        BY <4>1
      <4> HIDE DEF d, tx, e
      <4> QED BY <3>1, <4>1, <4>4, <4>5, <4>6
    <3> DEFINE new == EventRow(table, e)
    <3>5. new.id = e.id /\ BlockOf(new) = e.block
      BY DEF EventRow, BlockOf
    <3>6. store.events \cup batch'.rows.events = old \cup {new}
      BY <3>2
    <3>7. batch'.rows.events = batch.rows.events \cup {new}
      BY <3>2
    <3> HIDE DEF e, old, new, d
    <3>8. OneRowPerId(old \cup {new})
      <4>1. OneRowPerId(old)
        BY <1>2 DEF old
      <4> QED BY <3>3, <3>5, <4>1 DEF OneRowPerId
    <3>9. IsFiniteSet(old \cup {new})
      <4>1. IsFiniteSet(old)
        BY <1>2 DEF old
      <4> QED BY <4>1, FS_AddElement
    <3>10. batch'.size > 0 => pending[batch'.size].last
      BY <1>2, <3>1
    <3>11. ASSUME NEW row \in batch'.rows.events
           PROVE  BlockOf(row) \in Nat /\ BlockOf(row) > d /\ BlockOf(row) <= d + batch'.size
      <4>1. CASE row = new
        BY <3>1, <3>4, <3>5, <4>1
      <4>2. CASE row \in batch.rows.events
        BY <1>2, <3>1, <4>2
      <4> QED BY <3>7, <4>1, <4>2
    <3> QED BY <3>6, <3>8, <3>9, <3>10, <3>11
  <2> QED BY <2>1, <2>2
<1> QED BY <1>1, <1>4 DEF FeeInv, BlockOf, OneRowPerId

\* saveBatch: the blocks of the batch, all of them complete, are those processed last.
LEMMA SavingKeepsFeeInv ==
  ASSUME IndexInv, FeeInv, saveBatch, UNCHANGED <<chain, mined>>
  PROVE  FeeInv'
<1> DEFINE m == batch.size
           L == Len(pending)
           d == mined - L
<1>1. /\ m > 0 /\ batch.tx > m
      /\ store' = Saved(batch.rows)
      /\ processed' = processed \cup UNION {KeysOf(pending[i]) : i \in 1 .. m}
      /\ pending' = SubSeq(pending, m + 1, L)
      /\ batch' = NoBatch
  BY DEF saveBatch
<1>2. pending \in Seq(MadeTransaction) /\ L \in Nat /\ m \in 1 .. L /\ mined \in Nat /\ L <= mined /\ d \in Nat
  <2>1. pending \in Seq(MadeTransaction) /\ L \in Nat /\ mined \in Nat /\ L <= mined
    BY DEF IndexInv, PendingInv, FeeInv
  <2>2. m \in 0 .. L
    BY DEF IndexInv, BatchInv
  <2> HIDE DEF m, L
  <2> QED BY <1>1, <2>1, <2>2
<1>3. NumberedFrom(pending, d) /\ BlocksFrom(pending, d) /\ pending[m].last
  BY <1>1 DEF FeeInv
<1>4. /\ \A key \in processed : key.id[1] \in 1 .. d
      /\ \A row \in store.events : BlockOf(row) \in 1 .. d
      /\ \A row \in batch.rows.events :
           BlockOf(row) \in Nat /\ BlockOf(row) > d /\ BlockOf(row) <= d + m
  BY DEF FeeInv
<1>5. IsFiniteSet(store.events \cup batch.rows.events) /\ OneRowPerId(store.events \cup batch.rows.events)
  BY DEF FeeInv
<1> HIDE DEF m, L, d
<1>6. /\ Len(pending') = L - m /\ \A i \in 1 .. L - m : pending'[i] = pending[i + m]
  BY <1>1, <1>2 DEF L
<1>7. Len(pending') <= mined' /\ mined' - Len(pending') = d + m
  BY <1>2, <1>6 DEF d
<1>8. NumberedFrom(pending', d + m)
  <2> SUFFICES ASSUME NEW i \in 1 .. L - m, NEW j \in DOMAIN pending'[i].events
               PROVE  /\ pending'[i].events[j].id = <<(d + m) + i, j>>
                      /\ pending'[i].events[j].block = pending'[i].block
    BY <1>6 DEF NumberedFrom
  <2> PICK k \in Nat : k = i + m
    BY <1>2
  <2>1. k \in 1 .. L /\ pending'[i] = pending[k] /\ (d + m) + i = d + k
    BY <1>2, <1>6
  <2>2. pending[k].events[j].id = <<d + k, j>> /\ pending[k].events[j].block = pending[k].block
    BY <1>3, <2>1 DEF NumberedFrom, L
  <2> QED BY <2>1, <2>2
<1>9. BlocksFrom(pending', d + m)
  <2>1. ASSUME NEW i \in 1 .. L - m
        PROVE  pending'[i].block \in (d + m) + 1 .. (d + m) + i
    <3> PICK k \in Nat : k = i + m
      BY <1>2
    <3>1. k \in 1 .. L /\ m < k /\ pending'[i] = pending[k] /\ (d + m) + i = d + k
      BY <1>2, <1>6
    <3>2. pending[k].block \in d + 1 .. d + k /\ pending[k].block > d + m
      BY <1>2, <1>3, <3>1 DEF BlocksFrom, L
    <3> QED BY <1>2, <3>1, <3>2
  <2>2. ASSUME NEW i \in 1 .. L - m, NEW j \in 1 .. L - m, i < j, pending'[i].last
        PROVE  pending'[j].block > (d + m) + i
    <3> PICK k \in Nat, l \in Nat : k = i + m /\ l = j + m
      BY <1>2
    <3>1. /\ k \in 1 .. L /\ l \in 1 .. L /\ k < l /\ (d + m) + i = d + k
          /\ pending'[i] = pending[k] /\ pending'[j] = pending[l]
      <4>1. k \in 1 .. L /\ l \in 1 .. L /\ k < l /\ (d + m) + i = d + k
        BY <1>2, <2>2
      <4>2. pending'[i] = pending[k]
        BY <1>6
      <4>3. pending'[j] = pending[l]
        BY <1>6
      <4> QED BY <4>1, <4>2, <4>3
    <3>2. pending[l].block > d + k
      BY <1>3, <2>2, <3>1 DEF BlocksFrom, L
    <3> QED BY <3>1, <3>2
  <2> QED BY <1>6, <2>1, <2>2 DEF BlocksFrom
<1>10. \A key \in processed' : key.id[1] \in 1 .. d + m
  <2> SUFFICES ASSUME NEW key \in processed' PROVE key.id[1] \in 1 .. d + m
    OBVIOUS
  <2>1. CASE key \in processed
    BY <1>2, <1>4, <2>1
  <2>2. CASE key \notin processed
    <3>1. PICK i \in 1 .. m : key \in KeysOf(pending[i])
      BY <1>1, <2>2
    <3>2. PICK j \in DOMAIN pending[i].events : key = KeyOf(pending[i].events[j])
      BY <3>1 DEF KeysOf
    <3>3. i \in 1 .. L /\ i \in Nat
      BY <1>2
    <3>4. pending[i].events[j].id = <<d + i, j>>
      BY <1>3, <3>3 DEF NumberedFrom, L
    <3>5. key.id[1] = d + i
      BY <3>2, <3>4 DEF KeyOf
    <3> QED BY <1>2, <3>5
  <2> QED BY <2>1, <2>2
<1>11. batch'.rows.events = {} /\ batch'.size = 0 /\ store'.events = store.events \cup batch.rows.events
  BY <1>1, EmptyTablesTyped DEF NoBatch, Saved
<1>12. \A row \in store'.events : BlockOf(row) \in 1 .. d + m
  <2>1. ASSUME NEW row \in store.events PROVE BlockOf(row) \in 1 .. d + m
    BY <1>2, <1>4
  <2>2. ASSUME NEW row \in batch.rows.events PROVE BlockOf(row) \in 1 .. d + m
    BY <1>2, <1>4
  <2> QED BY <1>11, <2>1, <2>2
<1>13. store'.events \cup batch'.rows.events = store.events \cup batch.rows.events
  BY <1>11
<1>14. IsFiniteSet(store'.events \cup batch'.rows.events) /\ OneRowPerId(store'.events \cup batch'.rows.events)
  BY <1>5, <1>13
<1>15. /\ batch'.size > 0 => pending'[batch'.size].last
       /\ \A row \in batch'.rows.events :
            BlockOf(row) \in Nat /\ BlockOf(row) > d + m /\ BlockOf(row) <= (d + m) + batch'.size
  BY <1>11
<1> QED BY <1>7, <1>8, <1>9, <1>10, <1>12, <1>14, <1>15 DEF FeeInv, BlockOf, OneRowPerId

\* Every step of the chain and of the indexer.
LEMMA FeeInvInductive == IndexInv /\ FeeInv /\ [TreasuryNext]_treasuryAndIndex => FeeInv'
<1> SUFFICES ASSUME IndexInv, FeeInv, [TreasuryNext]_treasuryAndIndex
             PROVE  FeeInv'
  OBVIOUS
<1>1. CASE ChainStep /\ UNCHANGED indexerVars
  BY <1>1, MiningKeepsFeeInv, ChainStepsUp
<1>2. CASE processBatch
  BY <1>2, BatchStepsKeepFeeInv, SavingKeepsFeeInv DEF processBatch
<1>3. CASE UNCHANGED <<chainVars, indexerVars>>
  BY <1>3 DEF FeeInv, chainVars, indexerVars
<1> QED BY <1>1, <1>2, <1>3 DEF TreasuryNext, treasuryAndIndex

\* At first there are no events.
LEMMA FeeInvInitially == EventsInit /\ IndexerInit => FeeInv
<1> SUFFICES ASSUME EventsInit, IndexerInit
             PROVE  FeeInv
  OBVIOUS
<1>1. /\ pending = <<>> /\ mined = 0 /\ processed = {} /\ store.events = {} /\ batch.rows.events = {}
      /\ batch.size = 0
  BY EmptyTablesTyped DEF EventsInit, IndexerInit, NoBatch
<1>2. Len(pending) = 0
  BY <1>1
<1>3. NumberedFrom(pending, mined - Len(pending)) /\ BlocksFrom(pending, mined - Len(pending))
  BY <1>2 DEF NumberedFrom, BlocksFrom
<1>4. IsFiniteSet(store.events \cup batch.rows.events) /\ OneRowPerId(store.events \cup batch.rows.events)
  BY <1>1, FS_EmptySet DEF OneRowPerId
<1> QED BY <1>1, <1>2, <1>3, <1>4 DEF FeeInv

\* The fees indexed can be counted, and those of the batch under way are of later blocks.
LEMMA LaterFeesFollow ==
  ASSUME IndexInv, FeeInv
  PROVE  \E d \in Nat : /\ Countable(FeeEvents, d)
                        /\ \A row \in batch.rows.events : BlockOf(row) \in Nat /\ BlockOf(row) > d
<1> DEFINE d == mined - Len(pending)
<1>1. d \in Nat
  BY DEF IndexInv, PendingInv, FeeInv
<1>2. /\ \A row \in store.events : BlockOf(row) \in 1 .. d
      /\ \A row \in batch.rows.events : BlockOf(row) \in Nat /\ BlockOf(row) > d
      /\ IsFiniteSet(store.events \cup batch.rows.events)
  BY DEF FeeInv
<1> HIDE DEF d
<1>3. FeeEvents \subseteq store.events
  BY DEF FeeEvents
<1>4. IsFiniteSet(FeeEvents)
  BY <1>2, <1>3, FS_Subset
<1> QED BY <1>1, <1>2, <1>3, <1>4 DEF Countable

-------------------------------------------------------------------------------
(* The ingestions *)

\* Whether a reader at this offset is past the fee, when pages have ended at these places.
Behind(fees, cuts, row, offset) ==
  row.hash /\ CountedWith(fees, row) <= offset /\ \A b \in cuts : ~CutBy(fees, row, b)

\* Of the fees behind an offset none is missing but those of the page still to be stored.
Covers(fees, cuts, keys, offset, page) ==
  \A row \in fees : Behind(fees, cuts, row, offset) =>
    buildEntryKey(row) \in keys \/ \E i \in 1 .. Len(page) : page[i] = row

IngestCall ==
  [pc : {"fetch", "store", "save"}, offset : Nat, fetched : Nat, page : Seq(FeeEvents), last : BOOLEAN]

\* An offset, saved or of a call, is where some page has ended, and so never beyond the fees;
\* a call is storing while it has a page.
IngestInv ==
  /\ \A k \in EntryKeys : \E row \in FeeEvents : k = buildEntryKey(row) /\ ledger[k] = Entry(row)
  /\ borders \subseteq Nat /\ \A b \in borders : b <= Cardinality(FeeEvents)
  /\ nextOffset \in {0} \cup borders
  /\ Covers(FeeEvents, borders, EntryKeys, nextOffset, <<>>)
  /\ ingesting \in [IngestCalls -> {NoCall} \cup IngestCall]
  /\ \A c \in IngestCalls : ingesting[c] # NoCall =>
       /\ ingesting[c].offset \in {0} \cup borders /\ ingesting[c].fetched <= IngestMaxEvents
       /\ ingesting[c].pc = "store" <=> ingesting[c].page # <<>>
       /\ Covers(FeeEvents, borders, EntryKeys, ingesting[c].offset, ingesting[c].page)

\* The fees indexed can be counted.
FeesCountable == \E d \in Nat : Countable(FeeEvents, d)

LEMMA FeesAreCountable == IndexInv /\ FeeInv => FeesCountable
BY LaterFeesFollow DEF FeesCountable

LEMMA FeesAreCountableNext == (IndexInv /\ FeeInv)' => FeesCountable'
BY FeesAreCountable, PTL

LEMMA FinitelyManyFees ==
  ASSUME FeesCountable
  PROVE  IsFiniteSet(FeeEvents) /\ Cardinality(FeeEvents) \in Nat
BY FS_CardinalityType DEF FeesCountable, Countable

\* An offset is nowhere beyond the fees indexed.
LEMMA OffsetsReachFees ==
  ASSUME IngestInv, FeesCountable, NEW offset \in {0} \cup borders
  PROVE  offset \in Nat /\ offset <= Cardinality(FeeEvents)
<1> DEFINE n == Cardinality(FeeEvents)
<1>1. n \in Nat
  BY FinitelyManyFees
<1>2. borders \subseteq Nat /\ \A b \in borders : b <= n
  BY DEF IngestInv
<1> HIDE DEF n
<1>3. offset \in Nat /\ offset <= n
  BY <1>1, <1>2
<1> QED BY <1>3 DEF n

\* The smaller of two numbers.
LEMMA MinOfTwo ==
  ASSUME NEW a \in Nat, NEW b \in Nat
  PROVE  Min({a, b}) = IF a <= b THEN a ELSE b
<1> DEFINE m == IF a <= b THEN a ELSE b
<1>1. m \in {a, b} /\ \A y \in {a, b} : m <= y
  OBVIOUS
<1>2. \A x \in {a, b} : (\A y \in {a, b} : x <= y) => x = m
  OBVIOUS
<1> HIDE DEF m
<1>3. Min({a, b}) = m
  BY <1>1, <1>2 DEF Min
<1> QED BY <1>3 DEF m

\* What a query returns, whichever order the database has chosen.
LEMMA PageFetched ==
  ASSUME FeesCountable, NEW offset \in Nat, offset <= Cardinality(FeeEvents), NEW limit \in Nat,
         NEW page \in IF limit = 0 THEN {<<>>} ELSE fetchTreasuryEvents(limit, offset)
  PROVE  /\ page \in Seq(FeeEvents) /\ Len(page) <= limit
         /\ offset + Len(page) <= Cardinality(FeeEvents)
         /\ \A row \in FeeEvents :
              ~CutBy(FeeEvents, row, offset) /\ CountedWith(FeeEvents, row) <= offset + Len(page) =>
                CountedWith(FeeEvents, row) <= offset \/ \E i \in 1 .. Len(page) : page[i] = row
<1>1. CASE limit = 0
  <2>1. page = <<>> /\ Len(page) = 0
    BY <1>1
  <2>2. offset + Len(page) = offset
    BY <2>1
  <2> QED BY <1>1, <2>1, <2>2
<1>2. CASE limit # 0
  <2> DEFINE n == Cardinality(FeeEvents)
  <2>1. PICK d \in Nat : Countable(FeeEvents, d)
    BY DEF FeesCountable
  <2>2. n \in Nat
    BY FinitelyManyFees
  <2>3. PICK o \in Orders : page = SubSeq(o, offset + 1, Min({offset + limit, Len(o)}))
    BY <1>2 DEF fetchTreasuryEvents
  <2>4. o \in SetToSeqs(FeeEvents) /\ BlocksInOrder(o)
    BY DEF Orders, BlocksInOrder
  <2>5. o \in [1 .. n -> FeeEvents]
    BY <2>1, <2>4, PlaceOfFee
  <2> PICK a \in Nat : a = offset + limit
    OBVIOUS
  <2> HIDE DEF n
  <2>6. o \in Seq(FeeEvents) /\ Len(o) = n
    BY <2>2, <2>5
  <2> DEFINE m == IF a <= n THEN a ELSE n
  <2>7. Min({offset + limit, Len(o)}) = m
    <3>1. Min({a, n}) = m
      BY <2>2, MinOfTwo
    <3> QED BY <2>6, <3>1
  <2>8. m \in Nat /\ m >= offset /\ m <= n /\ m - offset <= limit
    BY <2>2 DEF n
  <2> HIDE DEF m
  <2> PICK b \in Nat : b = offset + 1
    OBVIOUS
  <2>9. page = SubSeq(o, b, m)
    BY <2>3, <2>7
  <2>10. page \in Seq(FeeEvents) /\ Len(page) = m - offset
         /\ \A i \in 1 .. m - offset : page[i] = o[offset + i]
    <3>1. \A i \in b .. m : i \in 1 .. Len(o)
      BY <2>2, <2>6, <2>8
    <3>2. Len(page) = m - offset
      BY <2>2, <2>6, <2>8, <2>9
    <3>3. page \in Seq(FeeEvents)
      BY <2>6, <2>8, <2>9, <3>1
    <3>4. \A i \in 1 .. m - offset : page[i] = o[i + b - 1] /\ i + b - 1 = offset + i
      BY <2>6, <2>8, <2>9, <3>1
    <3> QED BY <3>2, <3>3, <3>4
  <2>11. offset + Len(page) <= n /\ Len(page) <= limit /\ Len(page) \in Nat
    BY <2>2, <2>8, <2>10
  <2>12. ASSUME NEW row \in FeeEvents, ~CutBy(FeeEvents, row, offset),
                CountedWith(FeeEvents, row) <= offset + Len(page)
         PROVE  CountedWith(FeeEvents, row) <= offset \/ \E i \in 1 .. Len(page) : page[i] = row
    <3> PICK k \in Nat : k = Len(page)
      BY <2>11
    <3>1. CountedWith(FeeEvents, row) <= offset \/ OnPage(o, offset, k, row)
      BY <2>1, <2>4, <2>12, PageCovers
    <3> QED BY <2>10, <3>1 DEF OnPage
  <2> QED BY <2>10, <2>11, <2>12 DEF n
<1> QED BY <1>1, <1>2

\* The fees of blocks processed later are behind no offset that could be reached before.
LEMMA CoversGrows ==
  ASSUME NEW fees, NEW more, NEW d \in Nat, Countable(fees, d), fees \subseteq more, IsFiniteSet(more),
         \A row \in more \ fees : BlockOf(row) \in Nat /\ BlockOf(row) > d,
         NEW cuts, NEW keys, NEW page, NEW offset \in Nat, offset <= Cardinality(fees)
  PROVE  /\ offset <= Cardinality(more)
         /\ Covers(fees, cuts, keys, offset, page) => Covers(more, cuts, keys, offset, page)
<1>1. /\ IsFiniteSet(fees) /\ Cardinality(fees) \in Nat /\ Cardinality(more) \in Nat
      /\ Cardinality(fees) <= Cardinality(more)
  <2>1. Cardinality(fees) <= Cardinality(more) /\ IsFiniteSet(fees)
    BY FS_Subset
  <2> QED BY <2>1, FS_CardinalityType
<1>2. \A row \in fees : BlockOf(row) \in 1 .. d
  BY DEF Countable
<1>3. ASSUME NEW row \in fees
      PROVE  /\ FeesUpTo(more, BlockOf(row)) = FeesUpTo(fees, BlockOf(row))
             /\ FeesBefore(more, BlockOf(row)) = FeesBefore(fees, BlockOf(row))
  <2>1. \A other \in more : BlockOf(other) <= BlockOf(row) \/ BlockOf(other) < BlockOf(row) => other \in fees
    BY <1>2
  <2> QED BY <2>1 DEF FeesUpTo, FeesBefore
<1>4. ASSUME NEW row \in more \ fees PROVE ~(CountedWith(more, row) <= offset)
  <2> DEFINE upTo == FeesUpTo(more, BlockOf(row))
             both == fees \cup {row}
  <2>1. both \subseteq upTo /\ IsFiniteSet(upTo)
    <3>1. \A other \in fees : BlockOf(other) <= BlockOf(row)
      BY <1>2
    <3>2. BlockOf(row) <= BlockOf(row)
      OBVIOUS
    <3>3. IsFiniteSet(upTo)
      BY FS_Subset DEF FeesUpTo
    <3> QED BY <3>1, <3>2, <3>3 DEF FeesUpTo
  <2>2. Cardinality(both) = Cardinality(fees) + 1
    BY <1>1, FS_AddElement
  <2> HIDE DEF both, upTo
  <2>3. Cardinality(both) <= Cardinality(upTo)
    BY <2>1, FS_Subset
  <2>4. Cardinality(upTo) \in Nat
    BY <2>1, FS_CardinalityType
  <2> QED BY <1>1, <2>2, <2>3, <2>4 DEF CountedWith, upTo
<1>5. ASSUME Covers(fees, cuts, keys, offset, page) PROVE Covers(more, cuts, keys, offset, page)
  <2> SUFFICES ASSUME NEW row \in more, Behind(more, cuts, row, offset)
               PROVE  buildEntryKey(row) \in keys \/ \E i \in 1 .. Len(page) : page[i] = row
    BY <1>5 DEF Covers
  <2>1. row \in fees
    BY <1>4 DEF Behind
  <2>2. Behind(fees, cuts, row, offset)
    BY <1>3, <2>1 DEF Behind, CutBy, CountedWith, CountedAhead
  <2> QED BY <1>5, <2>1, <2>2 DEF Covers
<1> QED BY <1>1, <1>5

\* What is stored later only covers more, and what is cut later need not be covered.
LEMMA CoversKeys ==
  ASSUME NEW fees, NEW cuts, NEW keys, NEW more, keys \subseteq more, NEW offset, NEW page,
         Covers(fees, cuts, keys, offset, page)
  PROVE  Covers(fees, cuts, more, offset, page)
BY DEF Covers

LEMMA CoversCuts ==
  ASSUME NEW fees, NEW cuts, NEW more, cuts \subseteq more, NEW keys, NEW offset, NEW page,
         Covers(fees, cuts, keys, offset, page)
  PROVE  Covers(fees, more, keys, offset, page)
BY DEF Covers, Behind

\* A call that begins has the saved offset and no page.
LEMMA ingestOnceKeepsIngestInv ==
  ASSUME IngestInv, NEW c \in IngestCalls, ingestOnce(c), UNCHANGED store
  PROVE  IngestInv'
<1> DEFINE call == [pc |-> "fetch", offset |-> nextOffset, fetched |-> 0, page |-> <<>>, last |-> FALSE]
<1>1. ingesting' = [ingesting EXCEPT ![c] = call] /\ UNCHANGED <<ledger, nextOffset, borders>>
  BY DEF ingestOnce
<1>2. /\ call \in IngestCall /\ call.pc = "fetch" /\ call.offset = nextOffset /\ call.page = <<>>
      /\ call.fetched = 0
  BY DEF IngestCall, IngestInv
<1>3. EntryKeys' = EntryKeys /\ FeeEvents' = FeeEvents
  BY <1>1 DEF EntryKeys, FeeEvents
<1>4. IngestMaxEvents \in Nat
  BY TreasuryAssumption
<1> HIDE DEF call
<1>5. ingesting' \in [IngestCalls -> {NoCall} \cup IngestCall]
  BY <1>1, <1>2 DEF IngestInv
<1>6. \A other \in IngestCalls \ {c} : ingesting'[other] = ingesting[other]
  BY <1>1 DEF IngestInv
<1>7. ingesting'[c] = call
  BY <1>1 DEF IngestInv
<1>8. ASSUME NEW other \in IngestCalls, ingesting'[other] # NoCall
      PROVE  /\ ingesting'[other].offset \in {0} \cup borders
             /\ ingesting'[other].fetched <= IngestMaxEvents
             /\ ingesting'[other].pc = "store" <=> ingesting'[other].page # <<>>
             /\ Covers(FeeEvents, borders, EntryKeys, ingesting'[other].offset, ingesting'[other].page)
  <2>1. CASE other = c
    BY <1>2, <1>4, <1>7, <2>1 DEF IngestInv
  <2>2. CASE other # c
    BY <1>6, <1>8, <2>2 DEF IngestInv
  <2> QED BY <2>1, <2>2
<1> QED BY <1>1, <1>3, <1>5, <1>8 DEF IngestInv, IngestCall

\* A page is empty when it has no fees.
LEMMA EmptyPage ==
  ASSUME NEW S, NEW s \in Seq(S)
  PROVE  s = <<>> <=> Len(s) = 0
OBVIOUS

\* A page fetched: the fees that its end has passed and its beginning had not are on it.
LEMMA fetchPageKeepsIngestInv ==
  ASSUME IngestInv, FeesCountable, NEW c \in IngestCalls, fetchPage(c), UNCHANGED store
  PROVE  IngestInv'
<1> DEFINE call  == ingesting[c]
           limit == Min({IngestBatchSize, IngestMaxEvents - call.fetched})
<1>1. call.pc = "fetch" /\ UNCHANGED <<ledger, nextOffset>>
  BY DEF fetchPage
<1>2. PICK page \in IF limit = 0 THEN {<<>>} ELSE fetchTreasuryEvents(limit, call.offset) :
        /\ ingesting' = [ingesting EXCEPT ![c] =
             [pc |-> IF page = <<>> THEN "save" ELSE "store",
              offset |-> call.offset + Len(page), fetched |-> call.fetched + Len(page),
              page |-> page, last |-> Len(page) < limit]]
        /\ borders' = borders \cup {call.offset + Len(page)}
  BY DEF fetchPage
<1>3. /\ call \in IngestCall /\ call # NoCall
      /\ call.offset \in Nat /\ call.fetched \in Nat
      /\ call.offset \in {0} \cup borders /\ call.offset <= Cardinality(FeeEvents)
      /\ call.fetched <= IngestMaxEvents
      /\ call.page = <<>>
      /\ Covers(FeeEvents, borders, EntryKeys, call.offset, <<>>)
  <2>1. call # NoCall
    BY <1>1 DEF NoCall
  <2>2. call \in IngestCall
    BY <2>1 DEF IngestInv
  <2>3. call.page = <<>>
    BY <1>1, <2>1 DEF IngestInv
  <2>4. call.offset \in {0} \cup borders /\ call.fetched <= IngestMaxEvents
        /\ Covers(FeeEvents, borders, EntryKeys, call.offset, call.page)
    BY <2>1 DEF IngestInv
  <2>5. call.offset <= Cardinality(FeeEvents)
    BY <2>4, OffsetsReachFees
  <2>6. call.offset \in Nat /\ call.fetched \in Nat
    BY <2>2 DEF IngestCall
  <2> HIDE DEF call
  <2> QED BY <2>1, <2>2, <2>3, <2>4, <2>5, <2>6
<1> HIDE DEF call
<1>4. IngestBatchSize \in Nat /\ IngestMaxEvents \in Nat
  BY TreasuryAssumption
<1>5. limit \in Nat /\ limit <= IngestMaxEvents - call.fetched
  <2> PICK left \in Nat : left = IngestMaxEvents - call.fetched
    BY <1>3, <1>4
  <2>1. limit = IF IngestBatchSize <= left THEN IngestBatchSize ELSE left
    BY <1>4, MinOfTwo
  <2> HIDE DEF limit
  <2> QED BY <1>4, <2>1
<1> HIDE DEF limit
<1>6. /\ page \in Seq(FeeEvents) /\ Len(page) <= limit
      /\ call.offset + Len(page) <= Cardinality(FeeEvents)
      /\ \A row \in FeeEvents :
           ~CutBy(FeeEvents, row, call.offset) /\ CountedWith(FeeEvents, row) <= call.offset + Len(page) =>
             CountedWith(FeeEvents, row) <= call.offset \/ \E i \in 1 .. Len(page) : page[i] = row
  <2> PICK offset \in Nat : offset = call.offset
    BY <1>3
  <2>1. offset <= Cardinality(FeeEvents)
    BY <1>3
  <2>2. page \in IF limit = 0 THEN {<<>>} ELSE fetchTreasuryEvents(limit, offset)
    OBVIOUS
  <2> QED BY <1>5, <2>1, <2>2, PageFetched
<1> PICK n \in Nat : n = Len(page)
  BY <1>6
<1> DEFINE new == [pc |-> IF page = <<>> THEN "save" ELSE "store",
                   offset |-> call.offset + Len(page), fetched |-> call.fetched + Len(page),
                   page |-> page, last |-> Len(page) < limit]
<1>7. /\ new.offset = call.offset + n /\ new.fetched = call.fetched + n /\ new.page = page
      /\ new.pc = "store" <=> page # <<>>
      /\ new \in IngestCall
  <2>1. new.pc \in {"fetch", "store", "save"} /\ new.pc = "store" <=> page # <<>>
    OBVIOUS
  <2>2. call.offset + Len(page) \in Nat /\ call.fetched + Len(page) \in Nat /\ (Len(page) < limit) \in BOOLEAN
    BY <1>3, <1>5
  <2> QED BY <1>6, <2>1, <2>2 DEF IngestCall
<1>8. ingesting' = [ingesting EXCEPT ![c] = new]
  BY <1>2
<1> HIDE DEF new
<1>9. /\ new.offset \in {0} \cup borders' /\ new.fetched <= IngestMaxEvents
      /\ borders \subseteq borders' /\ borders' \subseteq Nat
      /\ \A b \in borders' : b <= Cardinality(FeeEvents)
  <2>1. borders \subseteq Nat /\ \A b \in borders : b <= Cardinality(FeeEvents)
    BY DEF IngestInv
  <2>2. borders' = borders \cup {new.offset} /\ new.offset \in Nat /\ new.offset <= Cardinality(FeeEvents)
    BY <1>2, <1>3, <1>6, <1>7
  <2>3. new.fetched <= IngestMaxEvents
    BY <1>3, <1>4, <1>5, <1>6, <1>7
  <2> QED BY <2>1, <2>2, <2>3
<1>10. Covers(FeeEvents, borders', EntryKeys, new.offset, new.page)
  <2> SUFFICES ASSUME NEW row \in FeeEvents, Behind(FeeEvents, borders', row, new.offset)
               PROVE  buildEntryKey(row) \in EntryKeys \/ \E i \in 1 .. Len(new.page) : new.page[i] = row
    BY DEF Covers
  <2>1. CountedWith(FeeEvents, row) <= call.offset + Len(page) /\ row.hash
    BY <1>7 DEF Behind
  <2>2. \A b \in borders : ~CutBy(FeeEvents, row, b)
    BY <1>9 DEF Behind
  <2>3. ~CutBy(FeeEvents, row, call.offset)
    <3>1. CASE call.offset = 0
      <4>1. CountedAhead(FeeEvents, row) \in Nat
        BY SomeAreCountable DEF FeesCountable, CountedAhead
      <4> QED BY <3>1, <4>1 DEF CutBy
    <3> QED BY <1>3, <2>2, <3>1
  <2>4. CASE CountedWith(FeeEvents, row) <= call.offset
    <3>1. Behind(FeeEvents, borders, row, call.offset)
      BY <2>1, <2>2, <2>4 DEF Behind
    <3>2. ~ \E i \in 1 .. Len(<<>>) : <<>>[i] = row
      OBVIOUS
    <3> QED BY <1>3, <3>1, <3>2 DEF Covers
  <2>5. CASE \E i \in 1 .. Len(page) : page[i] = row
    BY <1>7, <2>5
  <2> QED BY <1>6, <2>1, <2>3, <2>4, <2>5
<1>11. EntryKeys' = EntryKeys /\ FeeEvents' = FeeEvents
  BY <1>1 DEF EntryKeys, FeeEvents
<1>12. ingesting' \in [IngestCalls -> {NoCall} \cup IngestCall]
  BY <1>7, <1>8 DEF IngestInv
<1>13. ASSUME NEW other \in IngestCalls, ingesting'[other] # NoCall
       PROVE  /\ ingesting'[other].offset \in {0} \cup borders'
              /\ ingesting'[other].fetched <= IngestMaxEvents
              /\ ingesting'[other].pc = "store" <=> ingesting'[other].page # <<>>
              /\ Covers(FeeEvents, borders', EntryKeys, ingesting'[other].offset, ingesting'[other].page)
  <2>1. CASE other = c
    <3>1. ingesting'[other] = new
      BY <1>8, <2>1 DEF IngestInv
    <3> QED BY <1>7, <1>9, <1>10, <3>1
  <2>2. CASE other # c
    <3>1. ingesting'[other] = ingesting[other]
      BY <1>8, <2>2 DEF IngestInv
    <3>2. ingesting[other] # NoCall
      BY <1>13, <3>1
    <3>3. Covers(FeeEvents, borders', EntryKeys, ingesting[other].offset, ingesting[other].page)
      BY <1>9, <3>2, CoversCuts DEF IngestInv
    <3> QED BY <1>9, <3>1, <3>2, <3>3 DEF IngestInv
  <2> QED BY <2>1, <2>2
<1>14. nextOffset \in {0} \cup borders' /\ Covers(FeeEvents, borders', EntryKeys, nextOffset, <<>>)
  BY <1>9, CoversCuts DEF IngestInv
<1> QED BY <1>1, <1>9, <1>11, <1>12, <1>13, <1>14 DEF IngestInv, IngestCall

\* The next event of a page: its entry is there afterwards, if it has a transaction hash.
LEMMA ingestEventKeepsIngestInv ==
  ASSUME IngestInv, NEW c \in IngestCalls, ingestEvent(c), UNCHANGED store
  PROVE  IngestInv'
<1> DEFINE call == ingesting[c]
           row  == Head(call.page)
           done == Len(call.page) = 1
           new  == [call EXCEPT !.page = Tail(call.page),
                                !.pc = IF ~done THEN "store" ELSE IF call.last THEN "save" ELSE "fetch"]
<1>1. /\ call.pc = "store" /\ UNCHANGED <<nextOffset, borders>>
      /\ IF row.hash THEN upsertLedgerEntryWithInitialState(row) ELSE UNCHANGED <<ledger, payouts>>
      /\ ingesting' = [ingesting EXCEPT ![c] = new]
  BY DEF ingestEvent
<1>2. /\ call \in IngestCall /\ call # NoCall /\ call.page \in Seq(FeeEvents) /\ call.page # <<>>
      /\ call.offset \in {0} \cup borders /\ call.fetched <= IngestMaxEvents
      /\ Covers(FeeEvents, borders, EntryKeys, call.offset, call.page)
  <2>1. call # NoCall
    BY <1>1 DEF NoCall
  <2>2. call \in IngestCall
    BY <2>1 DEF IngestInv
  <2>3. call.page # <<>>
    BY <1>1, <2>1 DEF IngestInv
  <2> QED BY <2>1, <2>2, <2>3 DEF IngestInv, IngestCall
<1> DEFINE rest == Tail(call.page)
<1>3. /\ rest \in Seq(FeeEvents) /\ row \in FeeEvents /\ row = call.page[1]
      /\ Len(rest) = Len(call.page) - 1 /\ Len(call.page) \in Nat \ {0}
      /\ \A i \in 1 .. Len(rest) : rest[i] = call.page[i + 1]
  <2> DEFINE page == call.page
  <2>1. page \in Seq(FeeEvents) /\ page # <<>>
    BY <1>2
  <2> HIDE DEF page
  <2>2. Len(page) \in Nat \ {0} /\ 1 \in 1 .. Len(page) /\ Head(page) = page[1]
    BY <2>1
  <2>3. page[1] \in FeeEvents
    BY <2>1, <2>2
  <2>4. Tail(page) \in Seq(FeeEvents) /\ Len(Tail(page)) = Len(page) - 1
    BY <2>1
  <2>5. \A i \in 1 .. Len(Tail(page)) : Tail(page)[i] = page[i + 1]
    BY <2>1
  <2> QED BY <2>2, <2>3, <2>4, <2>5 DEF page
<1>4. /\ new.page = rest /\ new.offset = call.offset /\ new.fetched = call.fetched
      /\ new.pc = IF ~done THEN "store" ELSE IF call.last THEN "save" ELSE "fetch"
      /\ new \in IngestCall
  <2> HIDE DEF rest, done
  <2>1. new = [call EXCEPT !.page = rest,
                           !.pc = IF ~done THEN "store" ELSE IF call.last THEN "save" ELSE "fetch"]
    BY DEF rest
  <2> HIDE DEF new, call
  <2> QED BY <1>2, <1>3, <2>1 DEF IngestCall
<1>5. new.pc = "store" <=> new.page # <<>>
  <2> PICK n \in Nat : n = Len(call.page)
    BY <1>3
  <2>3. Len(rest) = n - 1 /\ (done <=> n = 1) /\ n # 0
    BY <1>3
  <2>4. rest = <<>> <=> Len(rest) = 0
    BY <1>3, EmptyPage
  <2>1. CASE done
    <3>1. rest = <<>>
      BY <2>1, <2>3, <2>4
    <3> QED BY <1>4, <2>1, <3>1
  <2>2. CASE ~done
    <3>1. rest # <<>>
      BY <2>2, <2>3, <2>4
    <3> QED BY <1>4, <2>2, <3>1
  <2> QED BY <2>1, <2>2
<1> HIDE DEF call, row, done, new, rest
<1>6. FeeEvents' = FeeEvents
  BY DEF FeeEvents
<1>7. /\ EntryKeys \subseteq EntryKeys'
      /\ row.hash => buildEntryKey(row) \in EntryKeys'
      /\ \A k \in EntryKeys' : \E other \in FeeEvents : k = buildEntryKey(other) /\ ledger'[k] = Entry(other)
  <2>1. CASE row.hash
    <3> DEFINE key == buildEntryKey(row)
    <3>1. ledger' = [k \in EntryKeys \cup {key} |-> IF k = key THEN Entry(row) ELSE ledger[k]]
      BY <1>1, <2>1 DEF upsertLedgerEntryWithInitialState
    <3> HIDE DEF key
    <3>2. EntryKeys' = EntryKeys \cup {key}
      BY <3>1 DEF EntryKeys
    <3>3. ASSUME NEW k \in EntryKeys'
          PROVE  \E other \in FeeEvents : k = buildEntryKey(other) /\ ledger'[k] = Entry(other)
      <4>1. CASE k = key
        BY <1>3, <3>1, <3>2, <4>1 DEF key
      <4>2. CASE k # key
        <5>1. k \in EntryKeys /\ ledger'[k] = ledger[k]
          BY <3>1, <3>2, <4>2
        <5> QED BY <5>1 DEF IngestInv
      <4> QED BY <4>1, <4>2
    <3> QED BY <3>2, <3>3 DEF key
  <2>2. CASE ~row.hash
    <3>1. ledger' = ledger
      BY <1>1, <2>2
    <3>2. EntryKeys' = EntryKeys
      BY <3>1 DEF EntryKeys
    <3> QED BY <2>2, <3>1, <3>2 DEF IngestInv
  <2> QED BY <2>1, <2>2
<1>8. Covers(FeeEvents, borders, EntryKeys', new.offset, new.page)
  <2>1. Covers(FeeEvents, borders, EntryKeys, call.offset, call.page)
    BY <1>2
  <2>2. ASSUME NEW fee \in FeeEvents, Behind(FeeEvents, borders, fee, new.offset)
        PROVE  buildEntryKey(fee) \in EntryKeys' \/ \E i \in 1 .. Len(new.page) : new.page[i] = fee
    <3>1. Behind(FeeEvents, borders, fee, call.offset) /\ fee.hash
      BY <1>4, <2>2 DEF Behind
    <3>2. CASE buildEntryKey(fee) \in EntryKeys
      BY <1>7, <3>2
    <3>3. ASSUME NEW i \in 1 .. Len(call.page), call.page[i] = fee
          PROVE  buildEntryKey(fee) \in EntryKeys' \/ \E k \in 1 .. Len(new.page) : new.page[k] = fee
      <4>1. CASE i = 1
        BY <1>3, <1>7, <3>1, <3>3, <4>1
      <4>2. CASE i # 1
        <5> PICK k \in Nat : k = i - 1
          BY <1>3, <4>2
        <5>1. k \in 1 .. Len(rest) /\ k + 1 = i
          BY <1>3, <4>2
        <5>2. rest[k] = fee
          BY <1>3, <3>3, <5>1
        <5> QED BY <1>4, <5>1, <5>2
      <4> QED BY <4>1, <4>2
    <3> QED BY <2>1, <3>1, <3>2, <3>3 DEF Covers
  <2> QED BY <2>2 DEF Covers
<1>9. Covers(FeeEvents, borders, EntryKeys', nextOffset, <<>>)
  BY <1>7, CoversKeys DEF IngestInv
<1>10. ingesting' \in [IngestCalls -> {NoCall} \cup IngestCall]
  BY <1>1, <1>4 DEF IngestInv
<1>11. ASSUME NEW other \in IngestCalls, ingesting'[other] # NoCall
       PROVE  /\ ingesting'[other].offset \in {0} \cup borders
              /\ ingesting'[other].fetched <= IngestMaxEvents
              /\ ingesting'[other].pc = "store" <=> ingesting'[other].page # <<>>
              /\ Covers(FeeEvents, borders, EntryKeys', ingesting'[other].offset, ingesting'[other].page)
  <2>1. CASE other = c
    <3>1. ingesting'[other] = new
      BY <1>1, <2>1 DEF IngestInv
    <3> QED BY <1>2, <1>4, <1>5, <1>8, <3>1
  <2>2. CASE other # c
    <3>1. ingesting'[other] = ingesting[other]
      BY <1>1, <2>2 DEF IngestInv
    <3>2. ingesting[other] # NoCall
      BY <1>11, <3>1
    <3>3. Covers(FeeEvents, borders, EntryKeys', ingesting[other].offset, ingesting[other].page)
      BY <1>7, <3>2, CoversKeys DEF IngestInv
    <3> QED BY <3>1, <3>2, <3>3 DEF IngestInv
  <2> QED BY <2>1, <2>2
<1> QED BY <1>1, <1>6, <1>7, <1>9, <1>10, <1>11 DEF IngestInv, IngestCall

\* A call that ends, with its offset saved or without.
LEMMA CallEndsKeepsIngestInv ==
  ASSUME IngestInv, NEW c \in IngestCalls, setIngestionOffset(c) \/ ingestFails(c), UNCHANGED store
  PROVE  IngestInv'
<1>1. ingesting' = [ingesting EXCEPT ![c] = NoCall] /\ UNCHANGED <<ledger, borders>>
  BY DEF setIngestionOffset, ingestFails
<1>2. EntryKeys' = EntryKeys /\ FeeEvents' = FeeEvents
  BY <1>1 DEF EntryKeys, FeeEvents
<1>3. nextOffset' \in {0} \cup borders /\ Covers(FeeEvents, borders, EntryKeys, nextOffset', <<>>)
  <2>1. CASE setIngestionOffset(c)
    <3>1. ingesting[c].pc = "save" /\ nextOffset' = ingesting[c].offset
      BY <2>1 DEF setIngestionOffset
    <3>2. ingesting[c] # NoCall /\ ingesting[c] \in IngestCall
      BY <3>1 DEF NoCall, IngestInv
    <3>3. ingesting[c].page = <<>>
      BY <3>1, <3>2 DEF IngestInv
    <3> QED BY <3>1, <3>2, <3>3 DEF IngestInv
  <2>2. CASE ingestFails(c)
    BY <2>2 DEF ingestFails, IngestInv
  <2> QED BY <2>1, <2>2
<1>4. ingesting' \in [IngestCalls -> {NoCall} \cup IngestCall]
  BY <1>1 DEF IngestInv
<1>5. \A other \in IngestCalls : ingesting'[other] # NoCall => ingesting'[other] = ingesting[other]
  BY <1>1 DEF IngestInv
<1> QED BY <1>1, <1>2, <1>3, <1>4, <1>5 DEF IngestInv, IngestCall

\* The indexer goes on: there are more fees, of later blocks.
LEMMA IndexingKeepsIngestInv ==
  ASSUME IngestInv, IndexInv, FeeInv, FeesCountable', processBatch, UNCHANGED treasuryVars
  PROVE  IngestInv'
<1>1. UNCHANGED <<ledger, nextOffset, ingesting, borders>> /\ EntryKeys' = EntryKeys
  BY DEF treasuryVars, EntryKeys
<1>2. CASE UNCHANGED store
  <2>1. FeeEvents' = FeeEvents
    BY <1>2 DEF FeeEvents
  <2> QED BY <1>1, <2>1 DEF IngestInv, IngestCall
<1>3. CASE saveBatch
  <2>1. PICK d \in Nat : /\ Countable(FeeEvents, d)
                         /\ \A row \in batch.rows.events : BlockOf(row) \in Nat /\ BlockOf(row) > d
    BY LaterFeesFollow
  <2>2. store'.events = store.events \cup batch.rows.events
    BY <1>3 DEF saveBatch, Saved
  <2>3. FeeEvents \subseteq FeeEvents'
    BY <2>2 DEF FeeEvents
  <2>4. IsFiniteSet(FeeEvents')
    BY DEF FeesCountable, Countable
  <2>5. ASSUME NEW row \in FeeEvents' \ FeeEvents
        PROVE  BlockOf(row) \in Nat /\ BlockOf(row) > d
    <3>1. row \in batch.rows.events
      BY <2>2 DEF FeeEvents
    <3> QED BY <2>1, <3>1
  <2> DEFINE fees == FeeEvents
             more == FeeEvents'
  <2>6. Cardinality(fees) \in Nat
    BY <2>1, FS_CardinalityType DEF Countable
  <2>7. ASSUME NEW offset \in Nat, offset <= Cardinality(fees), NEW page
        PROVE  /\ offset <= Cardinality(more)
               /\ Covers(fees, borders, EntryKeys, offset, page) => Covers(more, borders, EntryKeys, offset, page)
    <3>1. /\ Countable(fees, d) /\ fees \subseteq more /\ IsFiniteSet(more)
          /\ \A row \in more \ fees : BlockOf(row) \in Nat /\ BlockOf(row) > d
      BY <2>1, <2>3, <2>4, <2>5
    <3> HIDE DEF fees, more
    <3> QED BY <2>7, <3>1, CoversGrows
  <2>8. IngestCall \subseteq IngestCall'
    BY <2>3 DEF IngestCall
  <2>9. /\ \A k \in EntryKeys : \E row \in more : k = buildEntryKey(row) /\ ledger[k] = Entry(row)
        /\ \A b \in borders : b <= Cardinality(more)
        /\ Covers(more, borders, EntryKeys, nextOffset, <<>>)
    <3>1. borders \subseteq Nat /\ \A b \in borders : b <= Cardinality(fees)
      BY DEF IngestInv
    <3>2. nextOffset \in Nat /\ nextOffset <= Cardinality(fees)
      BY <2>6, <3>1 DEF IngestInv
    <3>3. Covers(fees, borders, EntryKeys, nextOffset, <<>>)
      BY DEF IngestInv
    <3>4. \A k \in EntryKeys : \E row \in more : k = buildEntryKey(row) /\ ledger[k] = Entry(row)
      BY <2>3 DEF IngestInv
    <3> HIDE DEF fees, more
    <3> QED BY <2>7, <3>1, <3>2, <3>3, <3>4
  <2>10. ASSUME NEW c \in IngestCalls, ingesting[c] # NoCall
        PROVE  Covers(more, borders, EntryKeys, ingesting[c].offset, ingesting[c].page)
    <3>1. ingesting[c].offset \in Nat /\ ingesting[c].offset <= Cardinality(fees)
      <4>1. ingesting[c].offset \in {0} \cup borders
        BY <2>10 DEF IngestInv
      <4>2. FeesCountable
        BY <2>1 DEF FeesCountable
      <4> QED BY <4>1, <4>2, OffsetsReachFees
    <3>2. Covers(fees, borders, EntryKeys, ingesting[c].offset, ingesting[c].page)
      BY <2>10 DEF IngestInv
    <3> HIDE DEF fees, more
    <3> QED BY <2>7, <3>1, <3>2
  <2>11. ingesting \in [IngestCalls -> {NoCall} \cup IngestCall']
    BY <2>8 DEF IngestInv
  <2> HIDE DEF fees
  <2>12. ASSUME NEW c \in IngestCalls, ingesting[c] # NoCall
         PROVE  /\ ingesting[c].offset \in {0} \cup borders /\ ingesting[c].fetched <= IngestMaxEvents
               /\ ingesting[c].pc = "store" <=> ingesting[c].page # <<>>
    BY <2>12 DEF IngestInv
  <2>13. borders \subseteq Nat /\ nextOffset \in {0} \cup borders
    BY DEF IngestInv
  <2> QED BY <1>1, <2>9, <2>10, <2>11, <2>12, <2>13 DEF IngestInv
<1>4. processBatch => UNCHANGED store \/ saveBatch
  BY DEF processBatch, startBatch, handleEvent, batchFails
<1> QED BY <1>2, <1>3, <1>4

\* Every step of the treasury, and of what it reads.
LEMMA IngestInvInductive ==
  IndexInv /\ FeeInv /\ IngestInv /\ FeesCountable /\ FeesCountable' /\ [TreasuryNext]_treasuryAndIndex
    => IngestInv'
<1> SUFFICES ASSUME IndexInv, FeeInv, IngestInv, FeesCountable, FeesCountable',
                    [TreasuryNext]_treasuryAndIndex
             PROVE  IngestInv'
  OBVIOUS
<1>1. CASE UNCHANGED <<store, ledger, nextOffset, ingesting, borders>>
  <2>1. EntryKeys' = EntryKeys /\ FeeEvents' = FeeEvents
    BY <1>1 DEF EntryKeys, FeeEvents
  <2> QED BY <1>1, <2>1 DEF IngestInv, IngestCall
<1>2. CASE processBatch /\ UNCHANGED treasuryVars
  BY <1>2, IndexingKeepsIngestInv
<1>3. CASE IngestionStep /\ UNCHANGED store
  <2>1. PICK c \in IngestCalls : ingestOnce(c) \/ fetchPage(c) \/ ingestEvent(c)
                                 \/ setIngestionOffset(c) \/ ingestFails(c)
    BY <1>3 DEF IngestionStep
  <2>2. CASE ingestOnce(c)
    BY <1>3, <2>2, ingestOnceKeepsIngestInv
  <2>3. CASE fetchPage(c)
    BY <1>3, <2>3, fetchPageKeepsIngestInv
  <2>4. CASE ingestEvent(c)
    BY <1>3, <2>4, ingestEventKeepsIngestInv
  <2>5. CASE setIngestionOffset(c) \/ ingestFails(c)
    BY <1>3, <2>5, CallEndsKeepsIngestInv
  <2> QED BY <2>1, <2>2, <2>3, <2>4, <2>5
<1>4. PayoutStep => UNCHANGED <<ledger, nextOffset, ingesting, borders>>
  BY DEF PayoutStep, appendStateCheck, appendPayoutState
<1>5. UNCHANGED indexerVars => UNCHANGED store
  BY DEF indexerVars
<1>6. UNCHANGED treasuryVars => UNCHANGED <<ledger, nextOffset, ingesting, borders>>
  BY DEF treasuryVars
<1> QED BY <1>1, <1>2, <1>3, <1>4, <1>5, <1>6 DEF TreasuryNext, treasuryAndIndex

\* At first nothing is behind the offset.
LEMMA IngestInvInitially == EventsInit /\ IndexerInit /\ TreasuryInit => IngestInv
<1> SUFFICES ASSUME EventsInit, IndexerInit, TreasuryInit
             PROVE  IngestInv
  OBVIOUS
<1>1. store.events = {}
  BY EmptyTablesTyped DEF IndexerInit
<1>2. FeeEvents = {}
  BY <1>1 DEF FeeEvents
<1>3. Cardinality(FeeEvents) = 0
  BY <1>2, FS_EmptySet
<1>4. EntryKeys = {} /\ borders = {} /\ nextOffset = 0 /\ ingesting = [c \in IngestCalls |-> NoCall]
  BY DEF TreasuryInit, EntryKeys
<1>5. Covers(FeeEvents, borders, EntryKeys, nextOffset, <<>>)
  BY <1>2 DEF Covers
<1> QED BY <1>3, <1>4, <1>5 DEF IngestInv

\* A fee in the ledger is exported, and listed under its trade in its latest state alone.
LEMMA StoredIsListed ==
  ASSUME PayoutInv, FeeInv, IngestInv, NEW row \in FeeEvents, buildEntryKey(row) \in EntryKeys
  PROVE  /\ \E e \in exportEntries : e.key = buildEntryKey(row)
         /\ Cardinality({s \in PayoutStates :
                           \E e \in listEntries(row.trade, s) : e.key = buildEntryKey(row)}) = 1
<1> DEFINE key == buildEntryKey(row)
           latest == getLatestPayoutState(key)
           states == {s \in PayoutStates : \E e \in listEntries(row.trade, s) : e.key = key}
<1>1. key \in EntryKeys /\ key \in DOMAIN payouts
  BY DEF PayoutInv
<1>2. latest \in PayoutStates
  <2>1. payouts[key] \in Seq(PayoutStates) /\ payouts[key] # <<>>
    BY <1>1 DEF PayoutInv, LegalHistory
  <2> DEFINE h == payouts[key]
  <2> HIDE DEF h
  <2>2. h[Len(h)] \in PayoutStates
    BY <2>1 DEF h
  <2> QED BY <2>2 DEF h, getLatestPayoutState, Last
<1>3. ledger[key].trade = row.trade
  <2>1. PICK other \in FeeEvents : key = buildEntryKey(other) /\ ledger[key] = Entry(other)
    BY <1>1 DEF IngestInv
  <2>2. other.id = row.id
    BY <2>1 DEF buildEntryKey
  <2>3. other = row
    BY <2>2 DEF FeeEvents, FeeInv, OneRowPerId
  <2> QED BY <2>1, <2>3 DEF Entry
<1>4. None \notin PayoutStates
  BY TreasuryAssumption
<1> HIDE DEF key, latest
<1>5. \E e \in exportEntries : e.key = key
  <2> DEFINE e == [key |-> key, entry |-> getLedgerEntryById(key),
                 latestState |-> getLatestPayoutState(key)]
  <2>1. e \in exportEntries /\ e.key = key
    BY <1>1 DEF exportEntries, getLedgerEntries
  <2> QED BY <2>1
<1>6. ASSUME NEW s \in PayoutStates
      PROVE  (\E e \in listEntries(row.trade, s) : e.key = key) <=> s = latest
  <2>1. listEntries(row.trade, s) = getLedgerEntries(row.trade, s)
    BY DEF listEntries
  <2>2. ASSUME NEW e \in getLedgerEntries(row.trade, s), e.key = key PROVE s = latest
    BY <1>4, <1>6, <2>2 DEF getLedgerEntries, latest
  <2>3. ASSUME s = latest PROVE \E e \in getLedgerEntries(row.trade, s) : e.key = key
    <3> DEFINE e == [key |-> key, entry |-> getLedgerEntryById(key),
                 latestState |-> getLatestPayoutState(key)]
    <3>1. e \in getLedgerEntries(row.trade, s) /\ e.key = key
      BY <1>1, <1>3, <2>3 DEF getLedgerEntries, latest
    <3> QED BY <3>1
  <2> QED BY <2>1, <2>2, <2>3
<1>7. states = {latest}
  BY <1>2, <1>6
<1>8. Cardinality({latest}) = 1
  BY FS_Singleton
<1> QED BY <1>5, <1>7, <1>8 DEF key

\* Behind the saved offset no page is left to be stored.
LEMMA BehindIsListed == PayoutInv /\ FeeInv /\ IngestInv => NoFeeBehindTheOffset
<1> SUFFICES ASSUME PayoutInv, FeeInv, IngestInv,
                    NEW row \in FeeEvents, row.hash, CountedUpTo(row) <= nextOffset, ~BlockIsCut(row)
             PROVE  /\ \E e \in exportEntries : e.key = buildEntryKey(row)
                    /\ Cardinality({s \in PayoutStates :
                         \E e \in listEntries(row.trade, s) : e.key = buildEntryKey(row)}) = 1
  BY DEF NoFeeBehindTheOffset
<1>1. Behind(FeeEvents, borders, row, nextOffset)
  BY DEF Behind, CutBy, CountedWith, CountedAhead, FeesUpTo, FeesBefore, BlockIsCut, CountedUpTo,
         CountedBefore
<1>2. Covers(FeeEvents, borders, EntryKeys, nextOffset, <<>>)
  BY DEF IngestInv
<1>3. ~ \E i \in 1 .. Len(<<>>) : <<>>[i] = row
  OBVIOUS
<1>4. buildEntryKey(row) \in EntryKeys
  BY <1>1, <1>2, <1>3 DEF Covers
<1> QED BY <1>4, StoredIsListed

\* Ingestions of any page size that overlap, fail half-way or start again from an older offset
\* (ingestOnce, which saves the offset it reached only at its end) lose no fee: a fee event
\* with a transaction hash that the saved offset has passed is exported, and listed under its
\* trade in exactly one payout state, unless a page has ended among the fees of its block.
THEOREM NoFeeBehindTheOffsetHolds == TreasurySpec => []NoFeeBehindTheOffset
<1>1. TreasuryInit => PayoutInv
  BY DEF TreasuryInit, PayoutInv, EntryKeys
<1>2. IndexInv /\ FeeInv => FeesCountable
  BY FeesAreCountable
<1> QED BY <1>1, <1>2, IndexInvInitially, IndexInvInductive, FeeInvInitially, FeeInvInductive,
           FeesAreCountableNext, IngestInvInitially, IngestInvInductive, PayoutInvInductive,
           BehindIsListed, PTL DEF TreasurySpec

-------------------------------------------------------------------------------
(* The contract moves on: what an index that is behind can still know *)

StatusNumber ==
  [NONE |-> 0, LOCKED |-> 1, IN_TRANSIT |-> 2, ARRIVAL_CONFIRMED |-> 3, FROZEN |-> 4, CLOSED |-> 5]

\* From u to v each trade has moved on, or is as it was.
Precedes(u, v) ==
  \A t \in TradeIds :
    \/ u.status[t] = v.status[t] /\ u.arrived[t] = v.arrived[t]
    \/ StatusNumber[u.status[t]] < StatusNumber[v.status[t]]

LEMMA PrecedesItself ==
  ASSUME NEW u
  PROVE  Precedes(u, u)
BY DEF Precedes

LEMMA PrecedesOnward ==
  ASSUME NEW u \in Contract, NEW v \in Contract, NEW w \in Contract, Precedes(u, v), Precedes(v, w)
  PROVE  Precedes(u, w)
<1> SUFFICES ASSUME NEW t \in TradeIds
             PROVE  \/ u.status[t] = w.status[t] /\ u.arrived[t] = w.arrived[t]
                    \/ StatusNumber[u.status[t]] < StatusNumber[w.status[t]]
  BY DEF Precedes
<1>1. /\ u.status[t] \in Statuses /\ v.status[t] \in Statuses /\ w.status[t] \in Statuses
  BY DEF Contract
<1>2. \A s \in Statuses : StatusNumber[s] \in Int
  BY DEF Statuses, StatusNumber
<1>3. /\ StatusNumber[u.status[t]] \in Int /\ StatusNumber[v.status[t]] \in Int
      /\ StatusNumber[w.status[t]] \in Int
  BY <1>1, <1>2
<1>4. /\ \/ u.status[t] = v.status[t] /\ u.arrived[t] = v.arrived[t]
         \/ StatusNumber[u.status[t]] < StatusNumber[v.status[t]]
      /\ \/ v.status[t] = w.status[t] /\ v.arrived[t] = w.arrived[t]
         \/ StatusNumber[v.status[t]] < StatusNumber[w.status[t]]
  BY DEF Precedes
<1> QED
  BY <1>3, <1>4

LEMMA OneTradeMoves ==
  ASSUME NEW u \in Contract, NEW t \in TradeIds, NEW s \in Statuses, NEW v,
         v.status = [u.status EXCEPT ![t] = s],
         \A x \in TradeIds \ {t} : v.arrived[x] = u.arrived[x],
         StatusNumber[u.status[t]] < StatusNumber[s]
  PROVE  Precedes(u, v)
BY DEF Contract, Precedes

LEMMA NoTradeMoves ==
  ASSUME NEW u, NEW v, v.status = u.status, v.arrived = u.arrived
  PROVE  Precedes(u, v)
BY DEF Precedes

LEMMA TradesMoveOn ==
  ASSUME ChainInv, TradeTransaction
  PROVE  Precedes(chain, chain')
<1>1. PICK t \in TradeIds :
        \/ createTrade(t)
        \/ releaseFundsStage1(t)
        \/ confirmArrival(t)
        \/ openDispute(t)
        \/ finalizeAfterDisputeWindow(t)
        \/ cancelLockedTradeAfterTimeout(t)
        \/ refundInTransitAfterTimeout(t)
  BY DEF TradeTransaction
<1>2. chain \in Contract
  BY DEF ChainInv
<1>3. ASSUME NEW after \in Statuses, chain' = StatusSet(t, after),
             StatusNumber[chain.status[t]] < StatusNumber[after]
      PROVE  Precedes(chain, chain')
  <2>1. chain'.status = [chain.status EXCEPT ![t] = after] /\ chain'.arrived = chain.arrived
    BY <1>2, <1>3 DEF StatusSet, Contract
  <2> QED
    BY <1>2, <1>3, <2>1, OneTradeMoves
<1>4. CASE createTrade(t)
  <2>1. chain' = StatusSet(t, "LOCKED") /\ chain.status[t] = "NONE"
    BY <1>4 DEF createTrade, Accepts, Transaction
  <2> QED
    BY <1>3, <2>1 DEF StatusNumber, Statuses
<1>5. CASE releaseFundsStage1(t)
  <2>1. chain' = StatusSet(t, "IN_TRANSIT") /\ chain.status[t] = "LOCKED"
    BY <1>5 DEF releaseFundsStage1, Accepts, Transaction
  <2> QED
    BY <1>3, <2>1 DEF StatusNumber, Statuses
<1>6. CASE confirmArrival(t)
  <2>1. /\ chain' = [StatusSet(t, "ARRIVAL_CONFIRMED") EXCEPT !.arrived[t] = TRUE]
        /\ chain.status[t] = "IN_TRANSIT"
    BY <1>6 DEF confirmArrival, Accepts, Transaction
  <2>2. /\ chain'.status = [chain.status EXCEPT ![t] = "ARRIVAL_CONFIRMED"]
        /\ \A x \in TradeIds \ {t} : chain'.arrived[x] = chain.arrived[x]
    BY <1>2, <2>1 DEF StatusSet, Contract
  <2>3. "ARRIVAL_CONFIRMED" \in Statuses
    BY DEF Statuses
  <2>4. StatusNumber[chain.status[t]] < StatusNumber["ARRIVAL_CONFIRMED"]
    BY <2>1 DEF StatusNumber
  <2> QED
    BY <1>2, <2>2, <2>3, <2>4, OneTradeMoves
<1>7. CASE openDispute(t)
  <2>1. chain' = StatusSet(t, "FROZEN") /\ chain.status[t] = "ARRIVAL_CONFIRMED"
    BY <1>7 DEF openDispute, Accepts, Transaction
  <2> QED
    BY <1>3, <2>1 DEF StatusNumber, Statuses
<1>8. CASE finalizeAfterDisputeWindow(t) \/ cancelLockedTradeAfterTimeout(t) \/ refundInTransitAfterTimeout(t)
  <2>1. /\ chain' = StatusSet(t, "CLOSED")
        /\ chain.status[t] \in {"LOCKED", "IN_TRANSIT", "ARRIVAL_CONFIRMED"}
    BY <1>8 DEF finalizeAfterDisputeWindow, cancelLockedTradeAfterTimeout, refundInTransitAfterTimeout,
                Settle, Accepts, Transaction
  <2> QED
    BY <1>3, <2>1 DEF StatusNumber, Statuses
<1> QED
  BY <1>1, <1>4, <1>5, <1>6, <1>7, <1>8

LEMMA DisputesMoveOn ==
  ASSUME ChainInv, DisputeTransaction
  PROVE  Precedes(chain, chain')
<1>1. chain \in Contract
  BY DEF ChainInv
<1>2. ASSUME NEW t \in TradeIds, chain.status[t] = "FROZEN", NEW decided \in BOOLEAN,
             chain'.status = [chain.status EXCEPT ![t] = IF decided THEN "CLOSED" ELSE @],
             chain'.arrived = chain.arrived
      PROVE  Precedes(chain, chain')
  <2>1. CASE decided
    <3>1. chain'.status = [chain.status EXCEPT ![t] = "CLOSED"]
      BY <1>2, <2>1
    <3>2. "CLOSED" \in Statuses
      BY DEF Statuses
    <3>3. StatusNumber[chain.status[t]] < StatusNumber["CLOSED"]
      BY <1>2 DEF StatusNumber
    <3>4. \A x \in TradeIds \ {t} : chain'.arrived[x] = chain.arrived[x]
      BY <1>2
    <3> QED
      BY <1>1, <3>1, <3>2, <3>3, <3>4, OneTradeMoves
  <2>2. CASE ~decided
    <3>1. chain'.status = chain.status
      BY <1>1, <1>2, <2>2 DEF Contract
    <3> QED
      BY <1>2, <3>1, NoTradeMoves
  <2> QED
    BY <2>1, <2>2
<1>3. ASSUME NEW t \in TradeIds, NEW outcome \in Outcomes, proposeDisputeSolution(t, outcome)
      PROVE  Precedes(chain, chain')
  <2>1. chain.status[t] = "FROZEN"
    BY <1>3 DEF proposeDisputeSolution, Accepts
  <2>2. PICK rows : chain' = [chain EXCEPT !.disputes = rows,
                                           !.status[t] = IF Quorum = 1 THEN "CLOSED" ELSE @]
    BY <1>3 DEF proposeDisputeSolution, Transaction
  <2>3. /\ chain'.status = [chain.status EXCEPT ![t] = IF Quorum = 1 THEN "CLOSED" ELSE @]
        /\ chain'.arrived = chain.arrived
    BY <1>1, <2>2 DEF Contract
  <2> QED
    BY <1>2, <2>1, <2>3
<1>4. ASSUME NEW p \in ProposalIds, approveDisputeSolution(p)
      PROVE  Precedes(chain, chain')
  <2> DEFINE t == chain.disputes[p].subject
             row == [chain.disputes[p] EXCEPT !.approvals = @ + 1]
             decided == row.approvals >= Quorum
  <2>1. chain.disputes[p] \in MadeDispute /\ chain.status[t] = "FROZEN"
    BY <1>1, <1>4 DEF approveDisputeSolution, IsOpen, ChainInv, Contract
  <2>2. t \in TradeIds /\ row.subject = t
    BY <2>1 DEF MadeDispute
  <2>3. chain' = [chain EXCEPT !.disputes[p] = [row EXCEPT !.executed = decided],
                               !.status[row.subject] = IF decided THEN "CLOSED" ELSE @]
    BY <1>4 DEF approveDisputeSolution, Transaction
  <2> HIDE DEF row, decided
  <2>4. /\ chain'.status = [chain.status EXCEPT ![t] = IF decided THEN "CLOSED" ELSE @]
        /\ chain'.arrived = chain.arrived
    BY <1>1, <2>2, <2>3 DEF Contract
  <2>5. decided \in BOOLEAN
    BY DEF decided
  <2> HIDE DEF t
  <2> QED
    BY <1>2, <2>1, <2>2, <2>4, <2>5
<1>5. ASSUME NEW p \in ProposalIds, cancelExpiredDisputeProposal(p)
      PROVE  Precedes(chain, chain')
  <2>1. chain' = [chain EXCEPT !.disputes[p].cancelled = TRUE]
    BY <1>5 DEF cancelExpiredDisputeProposal, Transaction
  <2>2. chain'.status = chain.status /\ chain'.arrived = chain.arrived
    BY <1>1, <2>1 DEF Contract
  <2> QED
    BY <2>2, NoTradeMoves
<1> QED
  BY <1>3, <1>4, <1>5 DEF DisputeTransaction

LEMMA GovernanceMovesNoTrade ==
  ASSUME ChainInv, GovernanceTransaction
  PROVE  Precedes(chain, chain')
<1>1. chain \in Contract
  BY DEF ChainInv
<1>2. ASSUME NEW updates, chain' = [chain EXCEPT !.updates = updates]
      PROVE  Precedes(chain, chain')
  <2>1. chain'.status = chain.status /\ chain'.arrived = chain.arrived
    BY <1>1, <1>2 DEF Contract
  <2> QED
    BY <2>1, NoTradeMoves
<1>3. \/ chain' = chain
      \/ \E updates : chain' = [chain EXCEPT !.updates = updates]
  <2>1. ASSUME NEW kind \in UpdateKinds, proposeUpdate(kind)
        PROVE  \E updates : chain' = [chain EXCEPT !.updates = updates]
    BY <2>1, Zenon DEF proposeUpdate, Transaction
  <2>2. ASSUME NEW kind \in UpdateKinds, NEW p \in ProposalIds,
               approveUpdate(kind, p) \/ executeUpdate(kind, p) \/ cancelExpiredUpdate(kind, p)
        PROVE  \E updates : chain' = [chain EXCEPT !.updates = updates]
    BY <2>2, Zenon DEF approveUpdate, executeUpdate, cancelExpiredUpdate, Transaction
  <2>3. ASSUME NEW name \in Announcements, announce(name)
        PROVE  chain' = chain
    BY <2>3 DEF announce, Transaction
  <2> QED
    BY <2>1, <2>2, <2>3, Zenon DEF GovernanceTransaction
<1> QED
  BY <1>2, <1>3, PrecedesItself

LEMMA ChainMovesOn ==
  ASSUME ChainInv, ChainStep
  PROVE  Precedes(chain, chain')
BY TradesMoveOn, DisputesMoveOn, GovernanceMovesNoTrade DEF ChainStep

\* What the contract v was once: its disputes that were executed closed their trades.
IsPast(u, v) ==
  /\ Precedes(u, v)
  /\ \A p \in ProposalIds : u.disputes[p] # None /\ u.disputes[p].executed =>
                              u.status[u.disputes[p].subject] = "CLOSED"

\* The contract has been as the tables show it, and as each transaction waiting tells.
BehindInv ==
  /\ IsPast(asOf, chain)
  /\ \A i \in 1 .. Len(pending) : IsPast(pending[i].after, chain)

LEMMA PastStays ==
  ASSUME ChainInv, ChainInv', Precedes(chain, chain'), NEW u \in Contract, IsPast(u, chain)
  PROVE  IsPast(u, chain')
BY PrecedesOnward DEF IsPast, ChainInv

LEMMA MiningKeepsBehindInv ==
  ASSUME IndexInv, BehindInv, ChainStep, UNCHANGED indexerVars
  PROVE  BehindInv'
<1>1. ChainInv /\ ChainInv' /\ Mined
  BY ChainStepIsTold, IndexedIsDated DEF IndexInv
<1>2. Precedes(chain, chain')
  BY <1>1, ChainMovesOn
<1>3. PICK tx : pending' = Append(pending, tx) /\ tx.after = chain'
  BY <1>1 DEF Mined
<1>4. pending \in Seq(MadeTransaction) /\ asOf \in Contract /\ asOf' = asOf
  BY DEF IndexInv, PendingInv, indexerVars
<1>5. /\ Len(pending') = Len(pending) + 1 /\ Len(pending) \in Nat
      /\ \A i \in 1 .. Len(pending) : pending'[i] = pending[i] /\ pending[i] \in MadeTransaction
      /\ pending'[Len(pending) + 1] = tx
  BY <1>3, <1>4
<1>6. IsPast(asOf', chain')
  BY <1>1, <1>2, <1>4, PastStays DEF BehindInv
<1>7. ASSUME NEW i \in 1 .. Len(pending')
      PROVE  IsPast(pending'[i].after, chain')
  <2>1. CASE i \in 1 .. Len(pending)
    <3>1. pending[i].after \in Contract /\ IsPast(pending[i].after, chain)
      BY <1>5, <2>1 DEF MadeTransaction, BehindInv
    <3>2. IsPast(pending[i].after, chain')
      BY <1>1, <1>2, <3>1, PastStays
    <3> QED
      BY <1>5, <2>1, <3>2
  <2>2. CASE i = Len(pending) + 1
    <3>1. IsPast(chain', chain')
      BY <1>1, PrecedesItself DEF IsPast, ChainInv
    <3> QED
      BY <1>3, <1>5, <2>2, <3>1
  <2> QED
    BY <1>5, <2>1, <2>2
<1> QED
  BY <1>6, <1>7 DEF BehindInv

LEMMA SavingKeepsBehindInv ==
  ASSUME IndexInv, BehindInv, saveBatch, UNCHANGED <<chain, mined>>
  PROVE  BehindInv'
<1> DEFINE m == batch.size
<1>1. m \in 1 .. Len(pending) /\ pending \in Seq(MadeTransaction) /\ Len(pending) \in Nat
  BY DEF saveBatch, IndexInv, PendingInv, BatchInv
<1>2. asOf' = pending[m].after /\ pending' = SubSeq(pending, m + 1, Len(pending))
  BY DEF saveBatch
<1> HIDE DEF m
<1>3. Len(pending') = Len(pending) - m /\ \A i \in 1 .. Len(pending') : pending'[i] = pending[m + i]
  BY <1>1, <1>2
<1>4. \A i \in 1 .. Len(pending') : m + i \in 1 .. Len(pending)
  BY <1>1, <1>3
<1> QED
  BY <1>1, <1>2, <1>3, <1>4 DEF BehindInv

LEMMA BehindInvInductive == IndexInv /\ BehindInv /\ [TreasuryNext]_treasuryAndIndex => BehindInv'
<1> SUFFICES ASSUME IndexInv, BehindInv, [TreasuryNext]_treasuryAndIndex
             PROVE  BehindInv'
  OBVIOUS
<1>1. CASE ChainStep /\ UNCHANGED indexerVars
  BY <1>1, MiningKeepsBehindInv
<1>2. CASE saveBatch /\ UNCHANGED <<chain, mined>>
  BY <1>2, SavingKeepsBehindInv
<1>3. CASE UNCHANGED <<chain, pending, asOf>>
  BY <1>3 DEF BehindInv
<1> QED
  BY <1>1, <1>2, <1>3
     DEF TreasuryNext, processBatch, startBatch, handleEvent, batchFails, treasuryAndIndex,
         chainVars, indexerVars

LEMMA BehindInvInitially == EventsInit /\ IndexerInit => BehindInv
<1> SUFFICES ASSUME EventsInit, IndexerInit
             PROVE  BehindInv
  OBVIOUS
<1>1. asOf = chain /\ pending = <<>> /\ \A p \in ProposalIds : chain.disputes[p] = None
  BY DEF EventsInit, IndexerInit
<1>2. 1 .. Len(pending) = {}
  BY <1>1
<1> QED
  BY <1>1, <1>2, PrecedesItself DEF BehindInv, IsPast

-------------------------------------------------------------------------------
(* The comparison of a trade *)

\* What the index says of a trade, where both say the same of its status.
LEMMA SameStatus ==
  ASSUME IndexInv, BehindInv, NEW t \in TradeIds, store.trades[t] # None,
         store.trades[t].status = chain.status[t]
  PROVE  /\ chain.status[t] # "NONE"
         /\ store.trades[t].arrived = chain.arrived[t]
         /\ store.trades[t].terms = Lowered(Terms[t])
<1>1. /\ TradeAgrees(store.trades[t], asOf, t)
      /\ asOf \in Contract /\ chain \in Contract
  BY DEF IndexInv, StoreInv, Show, PendingInv, ChainInv
<1>2. /\ asOf.status[t] # "NONE"
      /\ store.trades[t].status = IF Decided(asOf, t) # {} THEN "FROZEN" ELSE asOf.status[t]
      /\ store.trades[t].arrived = asOf.arrived[t]
      /\ store.trades[t].terms = Lowered(Terms[t])
  BY <1>1 DEF TradeAgrees
<1>3. /\ asOf.status[t] \in Statuses /\ chain.status[t] \in Statuses
      /\ \/ asOf.status[t] = chain.status[t] /\ asOf.arrived[t] = chain.arrived[t]
         \/ StatusNumber[asOf.status[t]] < StatusNumber[chain.status[t]]
  BY <1>1 DEF BehindInv, IsPast, Precedes, Contract
<1>4. CASE Decided(asOf, t) # {}
  <2>1. PICK p \in ProposalIds : /\ asOf.disputes[p] # None /\ asOf.disputes[p].executed
                                 /\ asOf.disputes[p].subject = t
    BY <1>4 DEF Decided
  <2>2. asOf.status[t] = "CLOSED"
    BY <2>1 DEF BehindInv, IsPast
  <2>3. chain.status[t] # "FROZEN"
    BY <1>3, <2>2 DEF StatusNumber
  <2> QED
    BY <1>2, <1>4, <2>3
<1>5. CASE Decided(asOf, t) = {}
  <2>1. asOf.status[t] = chain.status[t]
    BY <1>2, <1>5
  <2>2. ~(StatusNumber[asOf.status[t]] < StatusNumber[chain.status[t]])
    BY <1>3, <2>1 DEF Statuses, StatusNumber
  <2> QED
    BY <1>2, <1>3, <2>1, <2>2
<1> QED
  BY <1>4, <1>5

\* Letters of another case are all that the indexer changes of the terms.
LEMMA LoweredTerms ==
  ASSUME NEW terms, NEW b, NEW p, NEW a, NEW h,
         terms = [buyer |-> b, supplier |-> p, amounts |-> a, hash |-> h]
  PROVE  /\ Lowered(terms) = [buyer |-> toLowerCase(b), supplier |-> toLowerCase(p), amounts |-> a, hash |-> h]
         /\ terms.buyer = b /\ terms.supplier = p
<1>1. Lowered(terms) = [terms EXCEPT !.buyer = toLowerCase(b), !.supplier = toLowerCase(p)]
  BY DEF Lowered
<1>2. [terms EXCEPT !.buyer = toLowerCase(b)]
        = [buyer |-> toLowerCase(b), supplier |-> p, amounts |-> a, hash |-> h]
  OBVIOUS
<1> DEFINE half == [buyer |-> toLowerCase(b), supplier |-> p, amounts |-> a, hash |-> h]
<1>3. [half EXCEPT !.supplier = toLowerCase(p)]
        = [buyer |-> toLowerCase(b), supplier |-> toLowerCase(p), amounts |-> a, hash |-> h]
  OBVIOUS
<1> QED
  BY <1>1, <1>2, <1>3

LEMMA NormalizedAddress ==
  ASSUME NEW c
  PROVE  LET a == [account |-> c, form |-> "checksum"]
         IN  normalizeAddressOrNull(a) = a /\ normalizeAddressOrNull(toLowerCase(a)) = a
<1> DEFINE a == [account |-> c, form |-> "checksum"]
           l == [account |-> c, form |-> "lower"]
<1>1. toLowerCase(a) = l
  BY DEF toLowerCase
<1>2. normalizeAddressOrNull(a) = a
  BY DEF normalizeAddressOrNull
<1>3. normalizeAddressOrNull(l) = a
  BY DEF normalizeAddressOrNull
<1> QED
  BY <1>1, <1>2, <1>3

\* Findings are about a trade that the contract has moved on, or a read that failed.
LEMMA NothingToFind ==
  ASSUME IndexInv, BehindInv, NEW t \in TradeIds, store.trades[t] # None,
         store.trades[t].status = chain.status[t]
  PROVE  classifyDrifts(store.trades[t], getTrade(t), FALSE) = {}
<1> DEFINE row   == store.trades[t]
           terms == Terms[t]
           told  == [status |-> chain.status[t], arrived |-> chain.arrived[t], terms |-> terms]
<1>1. /\ chain.status[t] # "NONE" /\ row.arrived = chain.arrived[t]
      /\ row.terms = Lowered(terms)
  BY SameStatus
<1>2. told \in OnchainTrade /\ getTrade(t) = told /\ told # None
  BY <1>1, ReconciliationAssumption DEF IndexInv, ChainInv, Contract, OnchainTrade, getTrade
<1>3. /\ terms = [buyer |-> Checksummed(terms.buyer), supplier |-> Checksummed(terms.supplier),
                  amounts |-> terms.amounts, hash |-> terms.hash]
      /\ terms.buyer # None /\ terms.supplier # None
  BY ReconciliationAssumption
<1> HIDE DEF terms
<1>4. /\ terms.buyer = Checksummed(terms.buyer)
      /\ terms.supplier = Checksummed(terms.supplier)
  <2> DEFINE b == Checksummed(terms.buyer)
             p == Checksummed(terms.supplier)
  <2>1. terms = [buyer |-> b, supplier |-> p, amounts |-> terms.amounts, hash |-> terms.hash]
    BY <1>3
  <2> HIDE DEF b, p
  <2>2. terms.buyer = b /\ terms.supplier = p
    BY <2>1
  <2> QED
    BY <2>2 DEF b, p
<1>5. row.terms = [buyer |-> toLowerCase(terms.buyer), supplier |-> toLowerCase(terms.supplier),
                   amounts |-> terms.amounts, hash |-> terms.hash]
  <2>1. Lowered(terms) = [buyer |-> toLowerCase(Checksummed(terms.buyer)),
                          supplier |-> toLowerCase(Checksummed(terms.supplier)),
                          amounts |-> terms.amounts, hash |-> terms.hash]
    BY <1>3, LoweredTerms
  <2> QED
    BY <1>1, <1>4, <2>1
<1>6. ASSUME NEW a, a = Checksummed(a)
      PROVE  normalizeAddressOrNull(a) = a /\ normalizeAddressOrNull(toLowerCase(a)) = a
  <2>1. a = [account |-> a.account, form |-> "checksum"]
    BY <1>6 DEF Checksummed
  <2> QED
    BY <2>1, NormalizedAddress
<1>7. /\ normalizeAddressOrNull(terms.buyer) = terms.buyer
      /\ normalizeAddressOrNull(toLowerCase(terms.buyer)) = terms.buyer
      /\ normalizeAddressOrNull(terms.supplier) = terms.supplier
      /\ normalizeAddressOrNull(toLowerCase(terms.supplier)) = terms.supplier
  BY <1>4, <1>6
<1>8. CompareParty(row.terms, terms, "buyer") = {}
  BY <1>3, <1>5, <1>7 DEF CompareParty
<1>9. CompareParty(row.terms, terms, "supplier") = {}
  BY <1>3, <1>5, <1>7 DEF CompareParty
<1>10. compareAmounts(row.terms, terms) = {}
  BY <1>5 DEF compareAmounts
<1>11. row.terms.hash = terms.hash
  BY <1>5
<1>12. told.terms = terms /\ told.status = row.status /\ told.arrived = row.arrived
  BY <1>1
<1> HIDE DEF told, row
<1>13. classifyDrifts(row, told, FALSE) = {}
  BY <1>2, <1>8, <1>9, <1>10, <1>11, <1>12 DEF classifyDrifts
<1> QED
  BY <1>2, <1>13 DEF row

LEMMA SomethingToFind ==
  ASSUME NEW t \in TradeIds, store.trades[t].status # chain.status[t], NEW readFails \in BOOLEAN
  PROVE  classifyDrifts(store.trades[t], getTrade(t), readFails) # {}
<1> DEFINE row == store.trades[t]
           told == getTrade(t)
<1>1. CASE readFails
  BY <1>1 DEF classifyDrifts
<1>2. CASE ~readFails /\ told = None
  BY <1>2 DEF classifyDrifts
<1>3. CASE ~readFails /\ told # None
  <2>1. told.status = chain.status[t]
    BY <1>3 DEF getTrade
  <2>2. told.status # row.status
    BY <2>1
  <2>3. Finding("STATUS_MISMATCH", "status", "HIGH") \in classifyDrifts(row, told, readFails)
    BY <1>3, <2>2, Zenon DEF classifyDrifts
  <2> QED
    BY <2>3
<1> QED
  BY <1>1, <1>2, <1>3

LEMMA UnreadIsSaid ==
  ASSUME NEW row, NEW told, NEW f \in classifyDrifts(row, told, TRUE)
  PROVE  f.code = "ONCHAIN_READ_ERROR"
BY DEF classifyDrifts, Finding

\* The image of a finite set is finite, and no larger.
LEMMA Images ==
  ASSUME NEW S, IsFiniteSet(S), NEW f
  PROVE  /\ IsFiniteSet({f[x] : x \in S})
         /\ Cardinality({f[x] : x \in S}) <= Cardinality(S)
<1> DEFINE T == {f[x] : x \in S}
           g == [x \in S |-> f[x]]
<1>1. g \in Surjection(S, T)
  BY DEF Surjection
<1> QED
  BY <1>1, FS_Surjection

LEMMA FinitelyManyFindings ==
  ASSUME NEW row \in TradeRow, NEW told, NEW readFails \in BOOLEAN
  PROVE  IsFiniteSet(classifyDrifts(row, told, readFails))
<1>1. PICK x \in TradeIds : row.terms = Lowered(Terms[x])
  BY DEF TradeRow
<1>2. row.terms.amounts = Terms[x].amounts
  <2>1. Terms[x] = [buyer |-> Checksummed(Terms[x].buyer), supplier |-> Checksummed(Terms[x].supplier),
                    amounts |-> Terms[x].amounts, hash |-> Terms[x].hash]
    BY ReconciliationAssumption
  <2>2. Lowered(Terms[x]).amounts = Terms[x].amounts
    BY <2>1, LoweredTerms
  <2> QED
    BY <1>1, <2>2
<1>3. IsFiniteSet(compareAmounts(row.terms, told.terms))
  <2> DEFINE Fields == {f \in DOMAIN row.terms.amounts :
                          row.terms.amounts[f] # told.terms.amounts[f]}
             found == [f \in Fields |-> Finding("AMOUNT_MISMATCH", f, "CRITICAL")]
  <2>1. IsFiniteSet(Fields)
    BY <1>2, ReconciliationAssumption, FS_Subset
  <2>2. compareAmounts(row.terms, told.terms) = {found[f] : f \in Fields}
    BY DEF compareAmounts
  <2> HIDE DEF Fields, found
  <2> QED
    BY <2>1, <2>2, Images
<1>4. ASSUME NEW i, NEW o, NEW field
      PROVE  IsFiniteSet(CompareParty(i, o, field))
  <2> DEFINE a == normalizeAddressOrNull(i[field])
             b == normalizeAddressOrNull(o[field])
             invalid == {s \in {"indexed", "onchain"} : (IF s = "indexed" THEN a ELSE b) = None}
             found == [s \in invalid |-> invalidAddressFinding(s, field)]
  <2>1. IsFiniteSet({"indexed", "onchain"})
    <3>1. {"indexed", "onchain"} = {"indexed"} \cup {"onchain"}
      OBVIOUS
    <3>2. IsFiniteSet({"indexed"}) /\ IsFiniteSet({"onchain"})
      BY FS_Singleton
    <3> QED
      BY <3>1, <3>2, FS_Union
  <2>2. IsFiniteSet(invalid)
    BY <2>1, FS_Subset
  <2>3. IsFiniteSet({found[s] : s \in invalid})
    BY <2>2, Images
  <2>4. {found[s] : s \in invalid} = {invalidAddressFinding(s, field) : s \in invalid}
    OBVIOUS
  <2>5. \/ CompareParty(i, o, field) = {Finding("PARTICIPANT_MISMATCH", field, "CRITICAL")}
        \/ CompareParty(i, o, field) = {invalidAddressFinding(s, field) : s \in invalid}
    BY DEF CompareParty
  <2> QED
    BY <2>3, <2>4, <2>5, FS_Singleton
<1>5. \A c, e : IsFiniteSet(IF c THEN {e} ELSE {})
  BY FS_Singleton, FS_EmptySet
<1>6. CASE readFails
  BY <1>6, FS_Singleton DEF classifyDrifts
<1>7. CASE ~readFails /\ told = None
  BY <1>7, FS_Singleton DEF classifyDrifts
<1>8. CASE ~readFails /\ told # None
  <2> DEFINE s == IF told.status # row.status THEN {Finding("STATUS_MISMATCH", "status", "HIGH")} ELSE {}
             b == CompareParty(row.terms, told.terms, "buyer")
             p == CompareParty(row.terms, told.terms, "supplier")
             a == compareAmounts(row.terms, told.terms)
             h == IF told.terms.hash # row.terms.hash
                  THEN {Finding("HASH_MISMATCH", "ricardianHash", "CRITICAL")} ELSE {}
             r == IF told.arrived # row.arrived
                  THEN {Finding("ARRIVAL_TIMESTAMP_MISMATCH", "arrivalTimestamp", "MEDIUM")} ELSE {}
  <2>1. classifyDrifts(row, told, readFails) = s \cup b \cup p \cup a \cup h \cup r
    BY <1>8 DEF classifyDrifts
  <2>2. /\ IsFiniteSet(s) /\ IsFiniteSet(b) /\ IsFiniteSet(p) /\ IsFiniteSet(a)
        /\ IsFiniteSet(h) /\ IsFiniteSet(r)
    BY <1>3, <1>4, <1>5
  <2> HIDE DEF s, b, p, a, h, r
  <2> QED
    BY <2>1, <2>2, FS_Union
<1> QED
  BY <1>6, <1>7, <1>8

-------------------------------------------------------------------------------
(* The audit beside the treasury, the chain and the indexer *)

AuditNext ==
  \/ TreasuryNext /\ UNCHANGED reconciliationVars
  \/ ReconciliationStep /\ UNCHANGED treasuryAndIndex

AuditSpec ==
  /\ EventsInit /\ IndexerInit /\ TreasuryInit /\ ReconciliationInit
  /\ [][AuditNext]_<<treasuryAndIndex, reconciliationVars>>

PageItem == [trade : TradeIds, row : TradeRow]

\* A worker has a page exactly while it checks trades, and never goes past the limit of a run.
Job ==
  {job \in [pc : {"fetch", "check", "complete"}, key : RunKeys, offset : Nat, total : Nat,
            driftCount : Nat, page : Seq(PageItem), last : BOOLEAN, ticks : Nat \X Nat] :
     /\ job.pc = "check" <=> job.page # <<>>
     /\ job.total + Len(job.page) <= MaxTradesPerRun
     /\ job.pc = "fetch" => job.total < MaxTradesPerRun}

AuditTypes ==
  /\ runs \in [RunKeys -> RunRow \cup {None}]
  /\ scope \in [RunKeys -> SUBSET TradeIds]
  /\ drifts = [k \in RunKeys |-> drifts[k]]
  /\ \A k \in RunKeys : \A d \in drifts[k] : d.trade \in TradeIds
  /\ working \in [Workers -> Job \cup {NoCall}]

LEMMA JobIsNoNoCall == \A job \in Job : job # NoCall
BY DEF Job, NoCall

LEMMA RowIsThere == \A row \in RunRow : row # None
BY ReconciliationAssumption

LEMMA ListType ==
  ASSUME NEW X, NEW m \in Nat, NEW f \in [1 .. m -> X]
  PROVE  f \in Seq(X) /\ Len(f) = m
<1>1. f \in Seq(X)
  OBVIOUS
<1>2. DOMAIN f = 1 .. m
  OBVIOUS
<1> QED
  BY <1>1, <1>2

\* The pages of the trades in their order.
LEMMA IndexedList ==
  ASSUME IndexInv, IsFiniteSet(TradeIds)
  PROVE  LET ids == IndexedTrades
             S   == {t \in TradeIds : store.trades[t] # None}
             n   == Cardinality(S)
         IN /\ n \in Nat /\ n <= Cardinality(TradeIds)
            /\ ids \in [1 .. n -> S] /\ ids \in Seq(TradeIds) /\ Len(ids) = n
            /\ \A t \in S : \E i \in 1 .. n : ids[i] = t
            /\ \A i \in 1 .. n : ids[i] \in TradeIds /\ store.trades[ids[i]] \in TradeRow
<1> DEFINE S == {t \in TradeIds : store.trades[t] # None}
           n == Cardinality(S)
           ids == IndexedTrades
<1>1. IsFiniteSet(S) /\ n <= Cardinality(TradeIds) /\ n \in Nat
  BY FS_Subset, FS_CardinalityType
<1>2. S \in SUBSET Nat /\ S \subseteq TradeIds
  BY EventsAssumption
<1>3. \A t \in S : store.trades[t] \in TradeRow
  BY DEF IndexInv, StoreInv, IsTables, Ids, Rows, TableNames
<1> HIDE DEF n
<1>4. Lists(ids, n, S, Less)
  BY <1>1, <1>2, OrderedNumbers DEF IndexedTrades, n
<1> HIDE DEF S, ids
<1>5. ids \in [1 .. n -> S] /\ \A t \in S : \E i \in 1 .. n : ids[i] = t
  BY <1>4 DEF Lists
<1>6. ids \in Seq(TradeIds) /\ Len(ids) = n
  <2>1. ids \in [1 .. n -> TradeIds]
    BY <1>2, <1>5
  <2> QED
    BY <1>1, <2>1, ListType
<1> QED
  BY <1>1, <1>2, <1>3, <1>5, <1>6 DEF S, n, ids

LEMMA MaxWithZero ==
  ASSUME NEW a \in Int
  PROVE  Max({a, 0}) = IF a >= 0 THEN a ELSE 0
<1> DEFINE m == IF a >= 0 THEN a ELSE 0
<1>1. m \in {a, 0} /\ \A y \in {a, 0} : m >= y
  OBVIOUS
<1>2. \A x \in {a, 0} : (\A y \in {a, 0} : x >= y) => x = m
  OBVIOUS
<1> HIDE DEF m
<1>3. Max({a, 0}) = m
  BY <1>1, <1>2 DEF Max
<1> QED
  BY <1>3 DEF m

LEMMA TradesFetched ==
  ASSUME IndexInv, IsFiniteSet(TradeIds), NEW limit \in Nat, NEW offset \in Nat
  PROVE  LET page == fetchTrades(limit, offset)
             ids  == IndexedTrades
         IN /\ page \in Seq(PageItem) /\ Len(page) \in Nat /\ Len(page) <= limit /\ Len(ids) \in Nat
            /\ offset <= Len(ids) => offset + Len(page) <= Len(ids)
            /\ Len(page) < limit /\ offset <= Len(ids) => offset + Len(page) = Len(ids)
            /\ \A i \in 1 .. Len(page) :
                 /\ offset + i \in 1 .. Len(ids)
                 /\ page[i] = [trade |-> ids[offset + i], row |-> store.trades[ids[offset + i]]]
<1> DEFINE ids  == IndexedTrades
           page == fetchTrades(limit, offset)
           rest == IF Len(ids) - offset >= 0 THEN Len(ids) - offset ELSE 0
           m    == IF limit <= rest THEN limit ELSE rest
<1>1. /\ Len(ids) \in Nat
      /\ \A i \in 1 .. Len(ids) : ids[i] \in TradeIds /\ store.trades[ids[i]] \in TradeRow
  BY IndexedList
<1> HIDE DEF ids
<1>2. rest \in Nat /\ m \in Nat
  BY <1>1
<1>3. Max({Len(ids) - offset, 0}) = rest
  BY <1>1, MaxWithZero
<1>4. Min({limit, rest}) = m
  BY <1>2, MinOfTwo
<1>5. page = [i \in 1 .. m |-> [trade |-> ids[offset + i], row |-> store.trades[ids[offset + i]]]]
  BY <1>3, <1>4 DEF fetchTrades, ids
<1>6. \A i \in 1 .. m : offset + i \in 1 .. Len(ids)
  BY <1>1
<1>7. /\ m <= limit
      /\ offset <= Len(ids) => offset + m <= Len(ids)
      /\ m < limit /\ offset <= Len(ids) => offset + m = Len(ids)
  BY <1>1
<1> HIDE DEF m, rest, page
<1>8. \A i \in 1 .. m : page[i] \in PageItem
  BY <1>1, <1>5, <1>6 DEF PageItem
<1>9. page \in Seq(PageItem) /\ Len(page) = m
  <2>1. page \in [1 .. m -> PageItem]
    BY <1>5, <1>8
  <2> QED
    BY <1>2, <2>1, ListType
<1> QED
  BY <1>1, <1>2, <1>5, <1>6, <1>7, <1>9 DEF page, ids

-------------------------------------------------------------------------------
(* What the workers know while neither the chain nor the index moves *)

Unmoved(job) == job.ticks = <<mined, Len(pending)>>

Differs(t) == store.trades[t] # None /\ store.trades[t].status # chain.status[t]

Known(k, t) == \E d \in drifts[k] : d.trade = t

\* The findings of the key are real, or tell that the contract could not be read.
Warranted(k) == \A d \in drifts[k] : Differs(d.trade) \/ d.finding.code = "ONCHAIN_READ_ERROR"

Completed == {k \in RunKeys : runs[k] # None /\ runs[k].status = "COMPLETED"}

\* The chain and the index never come back to where they were.
TickInv ==
  \A w \in Workers : working[w] # NoCall =>
    LET ticks == working[w].ticks
    IN ticks[1] <= mined /\ (ticks[1] = mined => Len(pending) <= ticks[2])

\* A run that is attempted for the first time is RUNNING, and has one worker; one that was
\* never attempted has found nothing.
OwnInv ==
  /\ \A w \in Workers : working[w] # NoCall =>
       /\ runs[working[w].key] # None
       /\ runs[working[w].key].attempts = 1 =>
            /\ runs[working[w].key].status = "RUNNING"
            /\ \A v \in Workers : working[v] # NoCall /\ working[v].key = working[w].key => v = w
  /\ \A k \in RunKeys : runs[k] = None => drifts[k] = {}

\* The trades before the page are dealt with, the page follows them, and nothing follows the
\* page of a worker that will not ask for another.
Covered(job) ==
  LET ids == IndexedTrades
  IN /\ job.offset = job.total + Len(job.page) /\ job.offset <= Len(ids)
     /\ \A i \in 1 .. Len(job.page) :
          job.page[i] = [trade |-> ids[job.total + i], row |-> store.trades[ids[job.total + i]]]
     /\ \A i \in 1 .. job.total : Differs(ids[i]) => Known(job.key, ids[i])
     /\ job.pc = "check" /\ job.last => job.offset = Len(ids)
     /\ job.pc = "complete" => job.total = Len(ids)
     /\ runs[job.key].attempts = 1 => Warranted(job.key)

CoverInv == \A w \in Workers, job \in Job : working[w] = job /\ Unmoved(job) => Covered(job)

\* What was found of a run that is exact.
ResultInv ==
  \A k \in Completed : runs[k].expected # None =>
    /\ \A t \in runs[k].expected : Known(k, t)
    /\ runs[k].attempts = 1 =>
         \A d \in drifts[k] : d.trade \in runs[k].expected \/ d.finding.code = "ONCHAIN_READ_ERROR"

CompletedInv ==
  /\ IsFiniteSet(Completed)
  /\ \E n \in Nat : \A k \in Completed : runs[k].completedAt <= n

AuditInv == AuditTypes /\ TickInv /\ OwnInv /\ CoverInv /\ ResultInv /\ CompletedInv

LEMMA SameTradesListed ==
  ASSUME UNCHANGED store
  PROVE  IndexedTrades' = IndexedTrades
<1> DEFINE S == {t \in TradeIds : store.trades[t] # None}
<1>1. S' = S
  OBVIOUS
<1> HIDE DEF S
<1>2. /\ IndexedTrades = [i \in 1 .. Cardinality(S) |->
                           CHOOSE x \in S : Cardinality({y \in S : y < x}) = i - 1]
      /\ IndexedTrades' = [i \in 1 .. Cardinality(S') |->
                           CHOOSE x \in S' : Cardinality({y \in S' : y < x}) = i - 1]
  BY DEF IndexedTrades, Ordered, S
<1> QED
  BY <1>1, <1>2

\* What is covered stays so when more is found, but for a run at its first attempt.
LEMMA CoveredStays ==
  ASSUME UNCHANGED <<chain, mined, pending, store>>, NEW job \in Job, Covered(job),
         drifts[job.key] \subseteq drifts'[job.key],
         runs'[job.key].attempts = 1 =>
           runs[job.key].attempts = 1 /\ drifts'[job.key] = drifts[job.key]
  PROVE  Covered(job)'
<1>1. IndexedTrades' = IndexedTrades
  BY SameTradesListed
<1>0. \A t : Differs(t)' <=> Differs(t)
  BY DEF Differs
<1>2. \A t : Known(job.key, t) => Known(job.key, t)'
  BY DEF Known
<1>3. runs'[job.key].attempts = 1 /\ Warranted(job.key) => Warranted(job.key)'
  BY <1>0 DEF Warranted
<1> QED
  BY <1>0, <1>1, <1>2, <1>3 DEF Covered

\* The other workers go on as they were.
LEMMA OthersCovered ==
  ASSUME CoverInv, UNCHANGED <<chain, mined, pending, store>>, NEW v \in Workers, NEW job \in Job,
         working[v] = job, drifts[job.key] \subseteq drifts'[job.key],
         runs'[job.key].attempts = 1 =>
           runs[job.key].attempts = 1 /\ drifts'[job.key] = drifts[job.key]
  PROVE  Unmoved(job)' => Covered(job)'
<1>1. Unmoved(job)' => Covered(job)
  BY DEF Unmoved, CoverInv
<1> QED
  BY <1>1, CoveredStays

-------------------------------------------------------------------------------
(* A worker's steps *)

LEMMA JobTyped ==
  ASSUME NEW job \in Job
  PROVE  /\ job.pc \in {"fetch", "check", "complete"} /\ job.key \in RunKeys
         /\ job.offset \in Nat /\ job.total \in Nat /\ job.driftCount \in Nat
         /\ job.page \in Seq(PageItem) /\ Len(job.page) \in Nat /\ job.last \in BOOLEAN
         /\ job.ticks \in Nat \X Nat
         /\ job.pc = "check" <=> job.page # <<>>
         /\ job.total + Len(job.page) <= MaxTradesPerRun
         /\ job.pc = "fetch" => job.total < MaxTradesPerRun
         /\ job # NoCall
BY JobIsNoNoCall DEF Job

LEMMA JobIs ==
  ASSUME NEW pc \in {"fetch", "check", "complete"}, NEW k \in RunKeys, NEW offset \in Nat,
         NEW total \in Nat, NEW driftCount \in Nat, NEW page \in Seq(PageItem), NEW last \in BOOLEAN,
         NEW ticks \in Nat \X Nat,
         pc = "check" <=> page # <<>>, total + Len(page) <= MaxTradesPerRun,
         pc = "fetch" => total < MaxTradesPerRun
  PROVE  [pc |-> pc, key |-> k, offset |-> offset, total |-> total, driftCount |-> driftCount,
          page |-> page, last |-> last, ticks |-> ticks] \in Job
BY DEF Job

\* A worker that goes on with its run leaves the rest as it is.
LEMMA GoingOn ==
  ASSUME AuditInv, UNCHANGED <<chainVars, indexerVars>>,
         NEW w \in Workers, NEW job \in Job, working[w] = job, NEW next \in Job,
         next.key = job.key, next.ticks = job.ticks,
         working' = [working EXCEPT ![w] = next],
         UNCHANGED runs,
         scope' \in [RunKeys -> SUBSET TradeIds],
         drifts' = [k \in RunKeys |-> drifts'[k]],
         \A k \in RunKeys \ {job.key} : drifts'[k] = drifts[k],
         drifts[job.key] \subseteq drifts'[job.key],
         \A d \in drifts'[job.key] : d.trade \in TradeIds,
         Unmoved(job) /\ Covered(job) => Covered(next)'
  PROVE  AuditInv'
<1>1. /\ working'[w] = next /\ working' \in [Workers -> Job \cup {NoCall}]
      /\ \A v \in Workers \ {w} : working'[v] = working[v]
      /\ job \in Job /\ job.key \in RunKeys /\ job # NoCall /\ next # NoCall
  BY JobTyped DEF AuditInv, AuditTypes
<1>2. AuditTypes'
  BY <1>1 DEF AuditInv, AuditTypes
<1>3. mined' = mined /\ pending' = pending
  BY DEF chainVars
<1>4. TickInv'
  BY <1>1, <1>3 DEF AuditInv, TickInv
<1>5. OwnInv'
  <2>1. \A v \in Workers : /\ working'[v] # NoCall <=> working[v] # NoCall
                           /\ working'[v] # NoCall => working'[v].key = working[v].key
    BY <1>1
  <2>2. \A v \in Workers : working'[v] # NoCall =>
          /\ runs'[working'[v].key] # None
          /\ runs'[working'[v].key].attempts = 1 =>
               /\ runs'[working'[v].key].status = "RUNNING"
               /\ \A u \in Workers : working'[u] # NoCall /\ working'[u].key = working'[v].key => u = v
    BY <2>1 DEF AuditInv, OwnInv
  <2>3. runs[job.key] # None
    BY <1>1 DEF AuditInv, OwnInv
  <2>4. \A k \in RunKeys : runs'[k] = None => drifts'[k] = {}
    BY <2>3 DEF AuditInv, OwnInv
  <2> QED
    BY <2>2, <2>4 DEF OwnInv
<1>6. CoverInv'
  <2> SUFFICES ASSUME NEW v \in Workers, NEW own \in Job, working'[v] = own, Unmoved(own)'
               PROVE  Covered(own)'
    BY DEF CoverInv, Job, PageItem
  <2>1. CASE v = w
    <3>1. own = next
      BY <1>1, <2>1
    <3>2. Unmoved(job)
      BY <1>3, <3>1 DEF Unmoved
    <3> QED
      BY <3>1, <3>2 DEF AuditInv, CoverInv
  <2>2. CASE v # w
    <3>1. working[v] = own /\ own.key \in RunKeys /\ own # NoCall
      BY <1>1, <2>2, JobTyped
    <3>2. runs[own.key].attempts = 1 => own.key # job.key
      BY <1>1, <2>2, <3>1 DEF AuditInv, OwnInv
    <3>3. drifts[own.key] \subseteq drifts'[own.key]
      BY <3>1
    <3>4. UNCHANGED <<chain, mined, pending, store>>
      BY DEF chainVars, indexerVars
    <3> QED
      BY <3>1, <3>2, <3>3, <3>4, OthersCovered DEF AuditInv
  <2> QED
    BY <2>1, <2>2
<1>7. Completed' = Completed
  BY DEF Completed
<1>8. ResultInv'
  <2> SUFFICES ASSUME NEW k \in Completed, runs[k].expected # None
               PROVE  /\ \A t \in runs[k].expected : \E d \in drifts'[k] : d.trade = t
                      /\ runs[k].attempts = 1 =>
                           \A d \in drifts'[k] : \/ d.trade \in runs[k].expected
                                                 \/ d.finding.code = "ONCHAIN_READ_ERROR"
    BY <1>7 DEF ResultInv, Known
  <2>1. k \in RunKeys /\ runs[k].status = "COMPLETED"
    BY DEF Completed
  <2>2. drifts[k] \subseteq drifts'[k]
    BY <2>1
  <2>3. runs[k].attempts = 1 => drifts'[k] = drifts[k]
    <3>1. runs[k].attempts = 1 => k # job.key
      BY <1>1, <2>1 DEF AuditInv, OwnInv
    <3> QED
      BY <2>1, <3>1
  <2> QED
    BY <2>2, <2>3 DEF AuditInv, ResultInv, Known
<1>9. CompletedInv'
  BY <1>7 DEF AuditInv, CompletedInv
<1> QED
  BY <1>2, <1>4, <1>5, <1>6, <1>8, <1>9 DEF AuditInv

\* A worker that ends leaves the others alone, whatever it writes into the row of its run.
LEMMA Ending ==
  ASSUME AuditInv, UNCHANGED <<chainVars, indexerVars>>,
         NEW w \in Workers, NEW job \in Job, working[w] = job,
         NEW row \in RunRow, row.attempts = runs[job.key].attempts,
         runs' = [runs EXCEPT ![job.key] = row],
         working' = [working EXCEPT ![w] = NoCall],
         UNCHANGED <<scope, drifts>>
  PROVE  AuditTypes' /\ TickInv' /\ OwnInv' /\ CoverInv'
<1>1. /\ working'[w] = NoCall /\ working' \in [Workers -> Job \cup {NoCall}]
      /\ \A v \in Workers \ {w} : working'[v] = working[v]
      /\ job \in Job /\ job.key \in RunKeys /\ job # NoCall
  BY JobTyped DEF AuditInv, AuditTypes
<1>2. /\ runs'[job.key] = row /\ row # None /\ runs' \in [RunKeys -> RunRow \cup {None}]
      /\ \A k \in RunKeys \ {job.key} : runs'[k] = runs[k]
  BY <1>1, RowIsThere DEF AuditInv, AuditTypes
<1>3. AuditTypes'
  BY <1>1, <1>2 DEF AuditInv, AuditTypes
<1>4. TickInv'
  BY <1>1 DEF AuditInv, TickInv, chainVars
<1>5. ASSUME NEW v \in Workers, working'[v] # NoCall
      PROVE  /\ v # w /\ working'[v] = working[v] /\ working[v] # NoCall
             /\ working[v] \in Job /\ working[v].key \in RunKeys
             /\ runs[working[v].key].attempts = 1 => working[v].key # job.key
  <2>1. v # w /\ working'[v] = working[v] /\ working[v] # NoCall
    BY <1>1, <1>5
  <2>2. working[v] \in Job /\ working[v].key \in RunKeys
    BY <2>1, JobTyped DEF AuditInv, AuditTypes
  <2> QED
    BY <1>1, <2>1, <2>2 DEF AuditInv, OwnInv
<1>6. OwnInv'
  <2>1. ASSUME NEW v \in Workers, working'[v] # NoCall
        PROVE  /\ runs'[working'[v].key] # None
               /\ runs'[working'[v].key].attempts = 1 =>
                    /\ runs'[working'[v].key].status = "RUNNING"
                    /\ \A u \in Workers : working'[u] # NoCall /\ working'[u].key = working'[v].key => u = v
    BY <1>2, <1>5, <2>1 DEF AuditInv, OwnInv
  <2>2. \A k \in RunKeys : runs'[k] = None => drifts'[k] = {}
    BY <1>2 DEF AuditInv, OwnInv
  <2> QED
    BY <2>1, <2>2 DEF OwnInv
<1>7. CoverInv'
  <2> SUFFICES ASSUME NEW v \in Workers, NEW own \in Job, working'[v] = own, Unmoved(own)'
               PROVE  Covered(own)'
    BY DEF CoverInv, Job, PageItem
  <2>1. own # NoCall
    BY JobTyped
  <2>2. working[v] = own /\ own.key \in RunKeys /\ (runs[own.key].attempts = 1 => own.key # job.key)
    BY <1>5, <2>1
  <2>3. runs'[own.key].attempts = 1 => runs[own.key].attempts = 1
    BY <1>2, <2>2
  <2>4. UNCHANGED <<chain, mined, pending, store>>
    BY DEF chainVars, indexerVars
  <2> QED
    BY <2>2, <2>3, <2>4, OthersCovered DEF AuditInv
<1> QED
  BY <1>3, <1>4, <1>6, <1>7

LEMMA reconcileOnceKeeps ==
  ASSUME IndexInv, IsFiniteSet(TradeIds), AuditInv, UNCHANGED <<chainVars, indexerVars>>,
         NEW w \in Workers, NEW k \in RunKeys, reconcileOnce(w, k)
  PROVE  AuditInv'
<1> DEFINE row  == IF runs[k] = None THEN [status |-> "RUNNING", driftCount |-> 0, attempts |-> 1]
                   ELSE [runs[k] EXCEPT !.attempts = @ + 1]
           next == [pc |-> "fetch", key |-> k, offset |-> 0, total |-> 0, driftCount |-> 0, page |-> <<>>,
                    last |-> FALSE, ticks |-> <<mined, Len(pending)>>]
<1>1. /\ runs' = [runs EXCEPT ![k] = row] /\ working' = [working EXCEPT ![w] = next]
      /\ UNCHANGED <<scope, drifts>> /\ working[w] = NoCall
      /\ runs[k] # None => runs[k].status = "FAILED"
  <2>1. runs' = [runs EXCEPT ![k] = row]
    BY Zenon DEF reconcileOnce
  <2> HIDE DEF row, next
  <2>2. /\ UNCHANGED <<scope, drifts>> /\ working[w] = NoCall
        /\ runs[k] # None => runs[k].status = "FAILED"
    BY DEF reconcileOnce
  <2>3. working' = [working EXCEPT ![w] = next]
    BY Zenon DEF reconcileOnce, next
  <2> QED
    BY <2>1, <2>2, <2>3
<1>2. next \in Job /\ next # NoCall
  <2>1. mined \in Nat /\ Len(pending) \in Nat
    BY DEF IndexInv, PendingInv
  <2>2. MaxTradesPerRun \in Nat \ {0}
    BY ReconciliationAssumption
  <2>3. <<>> \in Seq(PageItem) /\ Len(<<>>) = 0
    OBVIOUS
  <2>4. next \in Job
    BY <2>1, <2>2, <2>3 DEF Job
  <2> QED
    BY <2>4, JobTyped
<1>3. /\ row \in RunRow /\ row # None /\ row.status \in {"RUNNING", "FAILED"}
      /\ row.attempts = 1 => runs[k] = None
  <2>1. CASE runs[k] = None
    BY <2>1, RowIsThere DEF RunRow
  <2>2. CASE runs[k] # None
    <3>1. runs[k] \in [status : {"RUNNING", "FAILED"}, driftCount : Nat, attempts : Nat \ {0}]
      BY <1>1, <2>2 DEF AuditInv, AuditTypes, RunRow
    <3>2. /\ row \in [status : {"RUNNING", "FAILED"}, driftCount : Nat, attempts : Nat \ {0}]
          /\ row.attempts # 1
      BY <2>2, <3>1
    <3> QED
      BY <2>2, <3>2, RowIsThere DEF RunRow
  <2> QED
    BY <2>1, <2>2
<1> HIDE DEF row
<1>4. /\ runs'[k] = row /\ runs' \in [RunKeys -> RunRow \cup {None}]
      /\ \A x \in RunKeys \ {k} : runs'[x] = runs[x]
  BY <1>1, <1>3 DEF AuditInv, AuditTypes
<1>5. /\ working'[w] = next /\ working' \in [Workers -> Job \cup {NoCall}]
      /\ \A v \in Workers \ {w} : working'[v] = working[v]
  BY <1>1, <1>2 DEF AuditInv, AuditTypes
<1>6. AuditTypes'
  BY <1>1, <1>4, <1>5 DEF AuditInv, AuditTypes
<1>7. TickInv'
  <2>1. mined \in Nat /\ Len(pending) \in Nat
    BY DEF IndexInv, PendingInv
  <2> QED
    BY <1>5, <2>1 DEF AuditInv, TickInv, chainVars
<1>8. ASSUME NEW v \in Workers, v # w, working'[v] # NoCall
      PROVE  /\ working'[v] = working[v] /\ working[v] # NoCall
             /\ working[v] \in Job /\ working[v].key \in RunKeys
             /\ runs'[working[v].key].attempts = 1 =>
                  working[v].key # k /\ runs[working[v].key].attempts = 1
             /\ runs'[working[v].key] # None
  <2>1. working'[v] = working[v] /\ working[v] # NoCall
    BY <1>5, <1>8
  <2>2. working[v] \in Job /\ working[v].key \in RunKeys /\ runs[working[v].key] # None
    BY <2>1, JobTyped DEF AuditInv, AuditTypes, OwnInv
  <2> QED
    BY <1>3, <1>4, <2>1, <2>2
<1>9. OwnInv'
  <2>1. ASSUME NEW v \in Workers, working'[v] # NoCall
        PROVE  /\ runs'[working'[v].key] # None
               /\ runs'[working'[v].key].attempts = 1 =>
                    /\ runs'[working'[v].key].status = "RUNNING"
                    /\ \A u \in Workers : working'[u] # NoCall /\ working'[u].key = working'[v].key => u = v
    <3>1. CASE v = w
      <4>1. working'[v].key = k /\ runs'[k] = row
        BY <1>4, <1>5, <3>1
      <4>2. row.attempts = 1 => row.status = "RUNNING"
        BY <1>3 DEF row
      <4>3. row.attempts = 1 => \A u \in Workers : working'[u] # NoCall /\ working'[u].key = k => u = w
        BY <1>4, <1>8
      <4> QED
        BY <1>3, <3>1, <4>1, <4>2, <4>3
    <3>2. CASE v # w
      <4>1. /\ working'[v] = working[v] /\ working[v].key \in RunKeys
            /\ runs'[working[v].key] # None
        BY <1>8, <2>1, <3>2
      <4>2. ASSUME runs'[working[v].key].attempts = 1
            PROVE  /\ runs'[working[v].key].status = "RUNNING"
                   /\ \A u \in Workers : working'[u] # NoCall /\ working'[u].key = working[v].key => u = v
        <5>1. working[v].key # k /\ runs[working[v].key].attempts = 1 /\ working[v] # NoCall
          BY <1>8, <2>1, <3>2, <4>2
        <5>2. runs'[working[v].key] = runs[working[v].key]
          BY <1>4, <4>1, <5>1
        <5>3. next.key = k
          OBVIOUS
        <5> QED
          BY <1>5, <5>1, <5>2, <5>3 DEF AuditInv, OwnInv
      <4> QED
        BY <4>1, <4>2
    <3> QED
      BY <3>1, <3>2
  <2>2. \A x \in RunKeys : runs'[x] = None => drifts'[x] = {}
    BY <1>1, <1>3, <1>4 DEF AuditInv, OwnInv
  <2> QED
    BY <2>1, <2>2 DEF OwnInv
<1>10. CoverInv'
  <2> SUFFICES ASSUME NEW v \in Workers, NEW own \in Job, working'[v] = own, Unmoved(own)'
               PROVE  Covered(own)'
    BY DEF CoverInv, Job, PageItem
  <2>1. CASE v = w
    <3>1. /\ own.key = k /\ own.offset = 0 /\ own.total = 0 /\ own.page = <<>> /\ own.pc = "fetch"
      BY <1>5, <2>1
    <3>2. runs'[k].attempts = 1 => drifts'[k] = {}
      BY <1>1, <1>3, <1>4 DEF AuditInv, OwnInv
    <3>3. runs'[k].attempts = 1 => Warranted(k)'
      BY <3>2 DEF Warranted
    <3>4. Len(IndexedTrades') \in Nat
      <4>1. IndexedTrades' = IndexedTrades
        BY SameTradesListed DEF indexerVars
      <4> QED
        BY <4>1, IndexedList
    <3> QED
      BY <3>1, <3>3, <3>4 DEF Covered
  <2>2. CASE v # w
    <3>1. own # NoCall
      BY JobTyped
    <3>2. working[v] = own /\ (runs'[own.key].attempts = 1 => runs[own.key].attempts = 1)
      BY <1>8, <2>2, <3>1
    <3>3. UNCHANGED <<chain, mined, pending, store>>
      BY DEF chainVars, indexerVars
    <3> QED
      BY <1>1, <3>2, <3>3, OthersCovered DEF AuditInv
  <2> QED
    BY <2>1, <2>2
<1>11. Completed' = Completed /\ k \notin Completed
  BY <1>1, <1>3, <1>4 DEF Completed
<1>12. \A x \in Completed : runs'[x] = runs[x]
  BY <1>4, <1>11 DEF Completed
<1>13. ResultInv'
  BY <1>1, <1>11, <1>12 DEF AuditInv, ResultInv, Known
<1>14. CompletedInv'
  BY <1>11, <1>12 DEF AuditInv, CompletedInv
<1> QED
  BY <1>6, <1>7, <1>9, <1>10, <1>13, <1>14 DEF AuditInv

LEMMA FirstAndRest ==
  ASSUME NEW X, NEW s \in Seq(X), s # <<>>
  PROVE  /\ Len(s) \in Nat \ {0} /\ Head(s) = s[1] /\ s[1] \in X
         /\ Tail(s) \in Seq(X) /\ Len(Tail(s)) = Len(s) - 1
         /\ \A i \in 1 .. Len(s) - 1 : Tail(s)[i] = s[i + 1]
         /\ Tail(s) = <<>> <=> Len(s) = 1
<1>1. Len(s) \in Nat \ {0} /\ Head(s) = s[1]
  OBVIOUS
<1>2. s[1] \in X
  BY <1>1
<1>3. Tail(s) \in Seq(X) /\ Len(Tail(s)) = Len(s) - 1
  BY <1>1
<1>4. \A i \in 1 .. Len(s) - 1 : Tail(s)[i] = s[i + 1]
  BY <1>1
<1>5. Tail(s) = <<>> <=> Len(Tail(s)) = 0
  BY <1>3, EmptyPage
<1> QED
  BY <1>1, <1>2, <1>3, <1>4, <1>5

LEMMA fetchIndexedKeeps ==
  ASSUME IndexInv, IsFiniteSet(TradeIds), AuditInv, UNCHANGED <<chainVars, indexerVars>>,
         NEW w \in Workers, working[w] # NoCall, fetchIndexed(w)
  PROVE  AuditInv'
<1> DEFINE ids == IndexedTrades
<1>1. PICK job \in Job : working[w] = job
  BY DEF AuditInv, AuditTypes
<1> DEFINE rest  == MaxTradesPerRun - job.total
           limit == IF ReconcileBatchSize <= rest THEN ReconcileBatchSize ELSE rest
<1>2. /\ job.pc = "fetch" /\ job.key \in RunKeys /\ job.offset \in Nat /\ job.total \in Nat
      /\ job.driftCount \in Nat /\ job.ticks \in Nat \X Nat /\ job.page = <<>>
      /\ job.total < MaxTradesPerRun /\ ReconcileBatchSize \in Nat \ {0} /\ MaxTradesPerRun \in Nat
  BY <1>1, JobTyped, ReconciliationAssumption DEF fetchIndexed
<1>3. limit \in Nat \ {0} /\ rest \in Nat /\ limit <= rest /\ rest + job.total = MaxTradesPerRun
  BY <1>2
<1>4. Min({ReconcileBatchSize, rest}) = limit
  BY <1>2, <1>3, MinOfTwo
<1> HIDE DEF limit
<1>6. LET fetched == fetchTrades(limit, job.offset)
      IN /\ fetched \in Seq(PageItem) /\ Len(fetched) \in Nat /\ Len(fetched) <= limit /\ Len(ids) \in Nat
         /\ job.offset <= Len(ids) => job.offset + Len(fetched) <= Len(ids)
         /\ Len(fetched) < limit /\ job.offset <= Len(ids) => job.offset + Len(fetched) = Len(ids)
         /\ \A i \in 1 .. Len(fetched) :
              /\ job.offset + i \in 1 .. Len(ids)
              /\ fetched[i] = [trade |-> ids[job.offset + i], row |-> store.trades[ids[job.offset + i]]]
  <2>1. limit \in Nat
    BY <1>3
  <2> QED
    BY <1>2, <2>1, TradesFetched
<1>0. PICK page : /\ page = fetchTrades(limit, job.offset)
                  /\ page \in Seq(PageItem) /\ Len(page) \in Nat /\ Len(page) <= limit /\ Len(ids) \in Nat
                  /\ job.offset <= Len(ids) => job.offset + Len(page) <= Len(ids)
                  /\ Len(page) < limit /\ job.offset <= Len(ids) => job.offset + Len(page) = Len(ids)
                  /\ \A i \in 1 .. Len(page) :
                       /\ job.offset + i \in 1 .. Len(ids)
                       /\ page[i] = [trade |-> ids[job.offset + i],
                                     row |-> store.trades[ids[job.offset + i]]]
  BY <1>6, Zenon
<1> DEFINE pc   == IF page = <<>> THEN "complete" ELSE "check"
           last == Len(page) < limit
           next == [pc |-> pc, key |-> job.key, offset |-> job.offset + Len(page), total |-> job.total,
                    driftCount |-> job.driftCount, page |-> page, last |-> last, ticks |-> job.ticks]
<1>5. working' = [working EXCEPT ![w] = next] /\ UNCHANGED <<runs, scope, drifts>>
  <2>1. PICK paged : paged = [job EXCEPT !.pc = pc, !.page = page, !.offset = @ + Len(page), !.last = last]
    OBVIOUS
  <2>2. paged = next
    <3> HIDE DEF pc, last
    <3> QED
      BY <2>1 DEF Job
  <2> HIDE DEF next
  <2> QED
    BY <1>0, <1>1, <1>4, <2>1, <2>2 DEF fetchIndexed
<1> HIDE DEF rest
<1> HIDE DEF ids
<1>7. next \in Job
  <2>1. job.total + Len(page) <= MaxTradesPerRun
    BY <1>2, <1>3, <1>0
  <2>2. pc \in {"fetch", "check", "complete"} /\ (pc = "check" <=> page # <<>>) /\ pc # "fetch"
    OBVIOUS
  <2>3. last \in BOOLEAN /\ job.offset + Len(page) \in Nat
    BY <1>2, <1>0
  <2> HIDE DEF pc, last
  <2> QED
    BY <1>2, <1>0, <2>1, <2>2, <2>3, JobIs
<1>8. /\ next.pc = pc /\ next.key = job.key
      /\ next.offset = job.offset + Len(page) /\ next.total = job.total
      /\ next.page = page /\ next.last = last /\ next.ticks = job.ticks
  OBVIOUS
<1> HIDE DEF next
<1>9. ASSUME Covered(job)
      PROVE  Covered(next)'
  <2>1. /\ job.offset = job.total /\ job.offset <= Len(ids)
        /\ \A i \in 1 .. job.total : Differs(ids[i]) => Known(job.key, ids[i])
        /\ runs[job.key].attempts = 1 => Warranted(job.key)
    BY <1>2, <1>9 DEF Covered, ids
  <2>2. Covered(next)
    <3>1. page = <<>> => Len(page) = 0
      OBVIOUS
    <3>2. next.offset = next.total + Len(next.page) /\ next.offset <= Len(ids)
      BY <1>2, <1>0, <1>8, <2>1
    <3>3. \A i \in 1 .. Len(next.page) :
            next.page[i] = [trade |-> ids[next.total + i], row |-> store.trades[ids[next.total + i]]]
      BY <1>0, <1>8, <2>1
    <3>4. next.pc = "check" /\ next.last => next.offset = Len(ids)
      BY <1>0, <1>8, <2>1
    <3>5. next.pc = "complete" => next.total = Len(ids)
      <4>1. next.pc = "complete" => page = <<>>
        BY <1>8
      <4> QED
        BY <1>2, <1>3, <1>0, <1>8, <2>1, <3>1, <4>1
    <3> QED
      BY <1>8, <2>1, <3>2, <3>3, <3>4, <3>5 DEF Covered, ids
  <2>3. UNCHANGED <<chain, mined, pending, store>>
    BY DEF chainVars, indexerVars
  <2> QED
    BY <1>5, <1>7, <2>2, <2>3, CoveredStays
<1> QED
  BY <1>1, <1>2, <1>5, <1>7, <1>8, <1>9, GoingOn DEF AuditInv, AuditTypes

LEMMA checkTradeKeeps ==
  ASSUME IndexInv, BehindInv, IsFiniteSet(TradeIds), Cardinality(TradeIds) <= MaxTradesPerRun,
         AuditInv, UNCHANGED <<chainVars, indexerVars>>,
         NEW w \in Workers, working[w] # NoCall, checkTrade(w)
  PROVE  AuditInv'
<1>1. PICK job \in Job : working[w] = job
  BY DEF AuditInv, AuditTypes
<1>2. PICK readFails \in BOOLEAN :
        LET own   == working[w]
            first == Head(own.page)
            made  == classifyDrifts(first.row, getTrade(first.trade), readFails)
            sum   == own.total + 1
            done  == Len(own.page) = 1
        IN /\ scope' = [scope EXCEPT ![own.key] = @ \cup {first.trade}]
           /\ drifts' = [drifts EXCEPT ![own.key] = @ \cup {[trade |-> first.trade, finding |-> f] : f \in made}]
           /\ working' = [working EXCEPT ![w] =
                [own EXCEPT !.page = Tail(@), !.total = sum,
                            !.driftCount = @ + Cardinality(made),
                            !.pc = IF ~done THEN "check"
                                   ELSE IF own.last \/ sum >= MaxTradesPerRun THEN "complete" ELSE "fetch"]]
  BY DEF checkTrade
<1> DEFINE item  == Head(job.page)
           total == job.total + 1
           pc    == IF ~(Len(job.page) = 1) THEN "check"
                    ELSE IF job.last \/ total >= MaxTradesPerRun THEN "complete" ELSE "fetch"
<1>0. PICK findings : findings = classifyDrifts(item.row, getTrade(item.trade), readFails)
  OBVIOUS
<1> DEFINE found == {[trade |-> item.trade, finding |-> f] : f \in findings}
           next  == [pc |-> pc, key |-> job.key, offset |-> job.offset, total |-> total,
                     driftCount |-> job.driftCount + Cardinality(findings), page |-> Tail(job.page),
                     last |-> job.last, ticks |-> job.ticks]
<1>3. /\ job.pc = "check" /\ job.key \in RunKeys /\ job.offset \in Nat /\ job.total \in Nat
      /\ job.driftCount \in Nat /\ job.ticks \in Nat \X Nat /\ job.last \in BOOLEAN
      /\ job.page \in Seq(PageItem) /\ job.page # <<>>
      /\ job.total + Len(job.page) <= MaxTradesPerRun /\ MaxTradesPerRun \in Nat
  BY <1>1, JobTyped, ReconciliationAssumption DEF checkTrade
<1>4. /\ Len(job.page) \in Nat \ {0} /\ item = job.page[1] /\ item \in PageItem
      /\ Tail(job.page) \in Seq(PageItem) /\ Len(Tail(job.page)) = Len(job.page) - 1
      /\ \A i \in 1 .. Len(job.page) - 1 : Tail(job.page)[i] = job.page[i + 1]
      /\ Tail(job.page) = <<>> <=> Len(job.page) = 1
  BY <1>3, FirstAndRest
<1>5. item.trade \in TradeIds /\ item.row \in TradeRow
  BY <1>4 DEF PageItem
<1>6. IsFiniteSet(findings) /\ Cardinality(findings) \in Nat
  <2>1. IsFiniteSet(findings)
    BY <1>0, <1>5, FinitelyManyFindings
  <2> QED
    BY <2>1, FS_CardinalityType
<1>7. /\ scope' = [scope EXCEPT ![job.key] = @ \cup {item.trade}]
      /\ drifts' = [drifts EXCEPT ![job.key] = @ \cup found]
      /\ working' = [working EXCEPT ![w] = next]
  <2>1. PICK checked : checked = [job EXCEPT !.page = Tail(@), !.total = total,
                                             !.driftCount = @ + Cardinality(findings), !.pc = pc]
    OBVIOUS
  <2>2. checked = next
    <3> HIDE DEF pc, total
    <3> QED
      BY <2>1 DEF Job
  <2> HIDE DEF next
  <2> QED
    <3>1. working' = [working EXCEPT ![w] = checked]
      BY <1>0, <1>1, <1>2, <2>1
    <3>2. scope' = [scope EXCEPT ![job.key] = @ \cup {item.trade}]
      BY <1>1, <1>2
    <3>3. drifts' = [drifts EXCEPT ![job.key] = @ \cup found]
      BY <1>0, <1>1, <1>2
    <3> QED
      BY <2>2, <3>1, <3>2, <3>3
<1>8. next \in Job
  <2>1. total \in Nat /\ total + Len(Tail(job.page)) <= MaxTradesPerRun
    BY <1>3, <1>4
  <2>2. pc \in {"fetch", "check", "complete"} /\ (pc = "check" <=> Tail(job.page) # <<>>)
    BY <1>4
  <2>3. pc = "fetch" => total < MaxTradesPerRun
    BY <1>3, <2>1
  <2>4. job.driftCount + Cardinality(findings) \in Nat
    BY <1>3, <1>6
  <2> HIDE DEF total, pc
  <2> QED
    BY <1>3, <1>4, <2>1, <2>2, <2>3, <2>4, JobIs
<1>9. /\ next.pc = pc /\ next.key = job.key /\ next.offset = job.offset /\ next.total = total
      /\ next.page = Tail(job.page) /\ next.last = job.last /\ next.ticks = job.ticks
  OBVIOUS
<1> HIDE DEF next, found
<1>10. /\ drifts' = [k \in RunKeys |-> drifts'[k]]
       /\ \A k \in RunKeys \ {job.key} : drifts'[k] = drifts[k]
       /\ drifts'[job.key] = drifts[job.key] \cup found
       /\ scope' \in [RunKeys -> SUBSET TradeIds]
  BY <1>3, <1>5, <1>7 DEF AuditInv, AuditTypes
<1>11. \A d \in found : d.trade = item.trade /\ d.finding \in findings
  BY DEF found
<1>12. \A d \in drifts'[job.key] : d.trade \in TradeIds
  BY <1>3, <1>5, <1>10, <1>11 DEF AuditInv, AuditTypes
<1>13. UNCHANGED runs
  BY DEF checkTrade
<1>14. ASSUME Covered(job)
       PROVE  Covered(next)'
  <2>0. PICK ids : ids = IndexedTrades
    OBVIOUS
  <2>1. /\ Len(ids) \in Nat /\ Len(ids) <= MaxTradesPerRun
        /\ \A t \in TradeIds : store.trades[t] # None => \E i \in 1 .. Len(ids) : ids[i] = t
        /\ \A i \in 1 .. Len(ids) : ids[i] \in TradeIds /\ store.trades[ids[i]] # None
    <3>1. \A row \in TradeRow : row # None
      BY RowAssumption
    <3>2. Cardinality(TradeIds) \in Nat
      BY FS_CardinalityType
    <3> DEFINE S == {t \in TradeIds : store.trades[t] # None}
               n == Cardinality(S)
    <3>3. /\ n \in Nat /\ n <= Cardinality(TradeIds) /\ Len(ids) = n
          /\ \A t \in S : \E i \in 1 .. n : ids[i] = t
          /\ \A i \in 1 .. n : ids[i] \in TradeIds /\ store.trades[ids[i]] \in TradeRow
      BY <2>0, IndexedList
    <3> HIDE DEF n
    <3> QED
      BY <1>3, <3>1, <3>2, <3>3
  <2>2. /\ job.offset = job.total + Len(job.page) /\ job.offset <= Len(ids)
        /\ \A i \in 1 .. Len(job.page) :
             job.page[i] = [trade |-> ids[job.total + i], row |-> store.trades[ids[job.total + i]]]
        /\ \A i \in 1 .. job.total : Differs(ids[i]) => Known(job.key, ids[i])
        /\ job.last => job.offset = Len(ids)
        /\ runs[job.key].attempts = 1 => Warranted(job.key)
    BY <1>3, <1>14, <2>0 DEF Covered
  <2>3. item.trade = ids[total] /\ item.row = store.trades[ids[total]] /\ total \in 1 .. Len(ids)
    <3>1. job.page[1] = [trade |-> ids[job.total + 1], row |-> store.trades[ids[job.total + 1]]]
      BY <1>4, <2>2
    <3>2. total \in 1 .. Len(ids)
      BY <1>3, <1>4, <2>1, <2>2
    <3> QED
      BY <1>4, <3>1, <3>2
  <2>4. /\ IndexedTrades' = ids /\ \A t : Differs(t)' <=> Differs(t)
        /\ \A t : Known(job.key, t) => Known(job.key, t)'
    <3>1. store' = store /\ chain' = chain
      BY DEF chainVars, indexerVars
    <3> QED
      BY <1>10, <2>0, <3>1, SameTradesListed DEF Differs, Known
  <2>11. Len(next.page) = Len(job.page) - 1 /\ Len(next.page) \in Nat
    BY <1>4, <1>9
  <2>12. next.total = job.total + 1 /\ next.offset = job.offset /\ job.total \in Nat
    BY <1>3, <1>9
  <2>5. next.offset = next.total + Len(next.page) /\ next.offset <= Len(ids)
    <3>1. Len(job.page) \in Nat /\ job.offset = job.total + Len(job.page) /\ job.offset <= Len(ids)
      BY <1>4, <2>2
    <3> HIDE DEF total, pc, item
    <3> QED
      BY <2>11, <2>12, <3>1
  <2>6. \A i \in 1 .. Len(next.page) :
          next.page[i] = [trade |-> ids[next.total + i], row |-> store'.trades[ids[next.total + i]]]
    <3> SUFFICES ASSUME NEW i \in 1 .. Len(next.page)
                 PROVE  next.page[i] = [trade |-> ids[next.total + i], row |-> store'.trades[ids[next.total + i]]]
      OBVIOUS
    <3>1. i + 1 \in 1 .. Len(job.page) /\ next.page[i] = job.page[i + 1]
      BY <1>4, <1>9, <2>11
    <3>2. job.total + (i + 1) = next.total + i
      BY <2>11, <2>12
    <3>3. store' = store
      BY DEF indexerVars
    <3> QED
      BY <2>2, <3>1, <3>2, <3>3
  <2>7. \A i \in 1 .. next.total : Differs(ids[i])' => Known(job.key, ids[i])'
    <3> SUFFICES ASSUME NEW i \in 1 .. total, Differs(ids[i])
                 PROVE  Known(job.key, ids[i])'
      BY <1>9, <2>4
    <3>1. CASE i \in 1 .. job.total
      BY <2>2, <2>4, <3>1
    <3>2. CASE i = total
      <4>1. item.trade = ids[i] /\ findings # {}
        BY <1>0, <1>5, <2>3, <3>2, SomethingToFind DEF Differs
      <4>2. \E d \in found : d.trade = ids[i]
        <5>1. PICK f : f \in findings
          BY <4>1
        <5>2. [trade |-> item.trade, finding |-> f] \in found
          BY <5>1 DEF found
        <5> QED
          BY <1>11, <4>1, <5>2
      <4> QED
        BY <1>10, <4>2 DEF Known
    <3> QED
      BY <1>3, <3>1, <3>2
  <2>8. next.pc = "check" /\ next.last => next.offset = Len(ids)
    BY <1>9, <2>2
  <2>9. next.pc = "complete" => next.total = Len(ids)
    <3> SUFFICES ASSUME next.pc = "complete"
                 PROVE  total = Len(ids)
      BY <1>9
    <3>1. Len(job.page) = 1 /\ (job.last \/ total >= MaxTradesPerRun)
      BY <1>9
    <3> QED
      BY <1>3, <2>1, <2>2, <2>3, <3>1
  <2>10. runs'[job.key].attempts = 1 => Warranted(job.key)'
    <3> SUFFICES ASSUME runs[job.key].attempts = 1, NEW d \in drifts'[job.key]
                 PROVE  Differs(d.trade) \/ d.finding.code = "ONCHAIN_READ_ERROR"
      BY <1>13, <2>4 DEF Warranted
    <3>1. CASE d \in drifts[job.key]
      BY <2>2, <3>1 DEF Warranted
    <3>2. CASE d \in found /\ ~Differs(item.trade)
      <4>1. d.finding \in findings
        BY <1>11, <3>2
      <4>2. readFails
        <5>1. item.row = store.trades[item.trade] /\ store.trades[item.trade] # None
          BY <2>1, <2>3
        <5>2. store.trades[item.trade].status = chain.status[item.trade]
          BY <3>2, <5>1 DEF Differs
        <5>3. ~readFails => findings = {}
          BY <1>0, <1>5, <5>1, <5>2, NothingToFind
        <5> QED
          BY <4>1, <5>3
      <4> QED
        BY <1>0, <4>1, <4>2, UnreadIsSaid
    <3>3. CASE d \in found /\ Differs(item.trade)
      BY <1>11, <3>3
    <3> QED
      BY <1>10, <3>1, <3>2, <3>3
  <2> QED
    BY <1>9, <2>4, <2>5, <2>6, <2>7, <2>8, <2>9, <2>10 DEF Covered
<1> QED
  BY <1>1, <1>3, <1>7, <1>8, <1>9, <1>10, <1>12, <1>13, <1>14, GoingOn

LEMMA completeRunKeeps ==
  ASSUME IndexInv, IsFiniteSet(TradeIds), AuditInv, UNCHANGED <<chainVars, indexerVars>>,
         NEW w \in Workers, working[w] # NoCall, completeRun(w)
  PROVE  AuditInv'
<1>1. PICK job \in Job : working[w] = job
  BY DEF AuditInv, AuditTypes
<1> DEFINE expected == IF Unmoved(job) THEN {t \in TradeIds : Differs(t)} ELSE None
           at       == 1 + Cardinality(Completed)
           row      == [status |-> "COMPLETED", driftCount |-> job.driftCount,
                        attempts |-> runs[job.key].attempts, completedAt |-> at, expected |-> expected]
<1>2. /\ runs' = [runs EXCEPT ![job.key] = row] /\ working' = [working EXCEPT ![w] = NoCall]
      /\ UNCHANGED <<scope, drifts>> /\ job.pc = "complete"
  BY <1>1 DEF completeRun, Unmoved, Differs, Completed
<1>3. job.key \in RunKeys /\ job # NoCall /\ job.driftCount \in Nat
  BY JobTyped
<1>4. runs[job.key] # None /\ runs[job.key].attempts \in Nat \ {0}
  <2>1. runs[job.key] # None
    BY <1>1, <1>3 DEF AuditInv, OwnInv
  <2> QED
    BY <1>3, <2>1 DEF AuditInv, AuditTypes, RunRow
<1>5. IsFiniteSet(Completed) /\ at \in Nat
  BY FS_CardinalityType DEF AuditInv, CompletedInv
<1>6. expected \in {None} \cup SUBSET TradeIds
  OBVIOUS
<1> HIDE DEF expected, at
<1>7. row \in RunRow /\ row # None
  <2>1. row \in RunRow
    BY <1>3, <1>4, <1>5, <1>6 DEF RunRow
  <2> QED
    BY <2>1, RowIsThere
<1>8. /\ row.status = "COMPLETED" /\ row.attempts = runs[job.key].attempts
      /\ row.completedAt = at /\ row.expected = expected
  OBVIOUS
<1>0. PICK new : new = row
  OBVIOUS
<1> HIDE DEF row
<1>9. AuditTypes' /\ TickInv' /\ OwnInv' /\ CoverInv'
  BY <1>1, <1>2, <1>7, <1>8, Ending
<1>10. /\ runs'[job.key] = row /\ \A k \in RunKeys \ {job.key} : runs'[k] = runs[k]
  BY <1>2, <1>3 DEF AuditInv, AuditTypes
<1>11. Completed' = Completed \cup {job.key}
  BY <1>3, <1>7, <1>8, <1>10 DEF Completed
<1>12. ResultInv'
  <2> SUFFICES ASSUME NEW k \in Completed', runs'[k].expected # None
               PROVE  /\ \A t \in runs'[k].expected : Known(k, t)
                      /\ runs'[k].attempts = 1 =>
                           \A d \in drifts[k] : \/ d.trade \in runs'[k].expected
                                                \/ d.finding.code = "ONCHAIN_READ_ERROR"
    BY <1>2 DEF ResultInv, Known
  <2>1. CASE k # job.key
    <3>1. k \in Completed /\ runs'[k] = runs[k]
      BY <1>10, <1>11, <2>1 DEF Completed
    <3> QED
      BY <3>1 DEF AuditInv, ResultInv
  <2>2. CASE k = job.key
    <3>1. runs'[k] = row /\ expected # None
      BY <1>8, <1>10, <2>2
    <3>2. Unmoved(job) /\ expected = {t \in TradeIds : Differs(t)}
      BY <3>1 DEF expected
    <3>3. Covered(job)
      BY <1>1, <3>2 DEF AuditInv, CoverInv
    <3>4. PICK ids : ids = IndexedTrades
      OBVIOUS
    <3>5. /\ job.total = Len(ids)
          /\ \A i \in 1 .. Len(ids) : Differs(ids[i]) => Known(k, ids[i])
          /\ runs[k].attempts = 1 => Warranted(k)
      BY <1>2, <2>2, <3>3, <3>4 DEF Covered
    <3>6. \A t \in TradeIds : store.trades[t] # None => \E i \in 1 .. Len(ids) : ids[i] = t
      <4> DEFINE S == {t \in TradeIds : store.trades[t] # None}
                 n == Cardinality(S)
      <4>1. Len(ids) = n /\ \A t \in S : \E i \in 1 .. n : ids[i] = t
        BY <3>4, IndexedList
      <4> HIDE DEF n
      <4> QED
        BY <4>1
    <3>7. \A t \in expected : Known(k, t)
      BY <3>2, <3>5, <3>6 DEF Differs
    <3>8. ASSUME row.attempts = 1, NEW d \in drifts[k]
          PROVE  d.trade \in expected \/ d.finding.code = "ONCHAIN_READ_ERROR"
      <4>1. Differs(d.trade) \/ d.finding.code = "ONCHAIN_READ_ERROR"
        BY <1>8, <2>2, <3>5, <3>8 DEF Warranted
      <4>2. d.trade \in TradeIds
        BY <1>3, <2>2 DEF AuditInv, AuditTypes
      <4> QED
        BY <3>2, <4>1, <4>2
    <3> QED
      BY <1>8, <3>1, <3>7, <3>8
  <2> QED
    BY <2>1, <2>2
<1>13. CompletedInv'
  <2>1. IsFiniteSet(Completed')
    BY <1>5, <1>11, FS_AddElement
  <2>2. PICK n \in Nat : \A k \in Completed : runs[k].completedAt <= n
    BY DEF AuditInv, CompletedInv
  <2>3. \A k \in Completed : runs[k].completedAt \in Nat
    BY DEF AuditInv, AuditTypes, Completed, RunRow
  <2>4. \A k \in Completed' : runs'[k].completedAt <= n + at
    <3> SUFFICES ASSUME NEW k \in Completed'
                 PROVE  runs'[k].completedAt <= n + at
      OBVIOUS
    <3>1. CASE k = job.key
      BY <1>5, <1>8, <1>10, <3>1
    <3>2. CASE k # job.key
      <4>1. k \in Completed /\ runs'[k] = runs[k]
        BY <1>10, <1>11, <3>2 DEF Completed
      <4> QED
        BY <1>5, <2>2, <2>3, <4>1
    <3> QED
      BY <3>1, <3>2
  <2>5. n + at \in Nat
    BY <1>5
  <2> QED
    BY <2>1, <2>4, <2>5 DEF CompletedInv
<1> QED
  BY <1>9, <1>12, <1>13 DEF AuditInv

\* A run that is no longer, or still not, completed has no result.
LEMMA FewerResults ==
  ASSUME AuditInv, UNCHANGED <<scope, drifts>>,
         Completed' \subseteq Completed, \A k \in Completed' : runs'[k] = runs[k]
  PROVE  ResultInv' /\ CompletedInv'
<1>1. IsFiniteSet(Completed')
  BY FS_Subset DEF AuditInv, CompletedInv
<1> QED
  BY <1>1 DEF AuditInv, ResultInv, CompletedInv, Known

LEMMA failRunKeeps ==
  ASSUME AuditInv, UNCHANGED <<chainVars, indexerVars>>,
         NEW w \in Workers, working[w] # NoCall, failRun(w)
  PROVE  AuditInv'
<1>1. PICK job \in Job : working[w] = job
  BY DEF AuditInv, AuditTypes
<1> DEFINE row == [status |-> "FAILED", driftCount |-> runs[job.key].driftCount,
                   attempts |-> runs[job.key].attempts]
<1>2. /\ runs' = [runs EXCEPT ![job.key] = row] /\ working' = [working EXCEPT ![w] = NoCall]
      /\ UNCHANGED <<scope, drifts>>
  BY <1>1 DEF failRun
<1>3. job.key \in RunKeys /\ job # NoCall
  BY JobTyped
<1>4. row \in RunRow /\ row.attempts = runs[job.key].attempts /\ row.status = "FAILED"
  <2>1. runs[job.key] # None
    BY <1>1, <1>3 DEF AuditInv, OwnInv
  <2>2. runs[job.key].driftCount \in Nat /\ runs[job.key].attempts \in Nat \ {0}
    BY <1>3, <2>1 DEF AuditInv, AuditTypes, RunRow
  <2> QED
    BY <2>2 DEF RunRow
<1> HIDE DEF row
<1>5. AuditTypes' /\ TickInv' /\ OwnInv' /\ CoverInv'
  BY <1>1, <1>2, <1>4, Ending
<1>6. runs'[job.key] = row /\ \A k \in RunKeys \ {job.key} : runs'[k] = runs[k]
  BY <1>2, <1>3 DEF AuditInv, AuditTypes
<1>7. Completed' \subseteq Completed /\ \A k \in Completed' : runs'[k] = runs[k]
  BY <1>3, <1>4, <1>6 DEF Completed
<1>8. ResultInv' /\ CompletedInv'
  BY <1>2, <1>7, FewerResults
<1> QED
  BY <1>5, <1>8 DEF AuditInv

LEMMA workerCrashKeeps ==
  ASSUME AuditInv, UNCHANGED <<chainVars, indexerVars>>,
         NEW w \in Workers, working[w] # NoCall, workerCrash(w)
  PROVE  AuditInv'
<1>1. PICK job \in Job : working[w] = job
  BY DEF AuditInv, AuditTypes
<1>2. job.key \in RunKeys /\ job # NoCall
  BY JobTyped
<1>3. working' = [working EXCEPT ![w] = NoCall] /\ UNCHANGED <<runs, scope, drifts>>
  BY DEF workerCrash
<1>4. runs[job.key] \in RunRow /\ runs' = [runs EXCEPT ![job.key] = runs[job.key]]
  <2>1. runs[job.key] # None
    BY <1>1, <1>2 DEF AuditInv, OwnInv
  <2> QED
    BY <1>2, <1>3, <2>1 DEF AuditInv, AuditTypes
<1>5. AuditTypes' /\ TickInv' /\ OwnInv' /\ CoverInv'
  BY <1>1, <1>3, <1>4, Ending
<1>6. ResultInv' /\ CompletedInv'
  BY <1>3, FewerResults DEF Completed
<1> QED
  BY <1>5, <1>6 DEF AuditInv

\* A step of the chain or of the index: what a worker knew is no longer of now, unless the
\* trades and the contract are as they were.
LEMMA MovingKeeps ==
  ASSUME IndexInv, AuditInv, [TreasuryNext]_treasuryAndIndex, UNCHANGED reconciliationVars
  PROVE  AuditInv'
<1>1. UNCHANGED <<runs, scope, drifts, working>>
  BY DEF reconciliationVars
<1>2. AuditTypes'
  BY <1>1 DEF AuditInv, AuditTypes
<1>3. OwnInv'
  BY <1>1 DEF AuditInv, OwnInv
<1>4. ResultInv' /\ CompletedInv'
  BY <1>1, FewerResults DEF Completed
<1>5. mined \in Nat /\ pending \in Seq(MadeTransaction) /\ Len(pending) \in Nat
  BY DEF IndexInv, PendingInv
<1>6. \/ mined' = mined + 1
      \/ mined' = mined /\ Len(pending') \in Nat /\ Len(pending') < Len(pending)
      \/ UNCHANGED <<chain, mined, pending, store>>
  <2>1. CASE ChainStep
    BY <2>1, ChainStepsUp
  <2>2. CASE saveBatch /\ UNCHANGED <<chain, mined>>
    <3>1. batch.size \in 1 .. Len(pending)
      BY <2>2 DEF saveBatch, IndexInv, BatchInv
    <3>2. pending' = SubSeq(pending, batch.size + 1, Len(pending))
      BY <2>2 DEF saveBatch
    <3>3. Len(pending') = Len(pending) - batch.size
      BY <1>5, <3>1, <3>2
    <3> QED
      BY <1>5, <2>2, <3>1, <3>3
  <2>3. CASE UNCHANGED <<chain, mined, pending, store>>
    BY <2>3
  <2> QED
    BY <2>1, <2>2, <2>3
       DEF TreasuryNext, processBatch, startBatch, handleEvent, batchFails, treasuryAndIndex,
           chainVars, indexerVars
<1>7. ASSUME NEW w \in Workers, NEW job \in Job, working[w] = job
      PROVE  /\ job # NoCall /\ job.ticks \in Nat \X Nat
             /\ job.ticks[1] <= mined /\ (job.ticks[1] = mined => Len(pending) <= job.ticks[2])
  <2>1. job # NoCall /\ job.ticks \in Nat \X Nat
    BY JobTyped
  <2> QED
    BY <1>7, <2>1 DEF AuditInv, TickInv
<1>8. ASSUME NEW w \in Workers, NEW job \in Job, working[w] = job
      PROVE  /\ job.ticks[1] <= mined' /\ (job.ticks[1] = mined' => Len(pending') <= job.ticks[2])
             /\ Unmoved(job)' => Unmoved(job) /\ UNCHANGED <<chain, mined, pending, store>>
  <2>1. /\ job.ticks[1] \in Nat /\ job.ticks[2] \in Nat
        /\ job.ticks[1] <= mined /\ (job.ticks[1] = mined => Len(pending) <= job.ticks[2])
    BY <1>7, <1>8
  <2>2. Unmoved(job)' => job.ticks[1] = mined' /\ job.ticks[2] = Len(pending')
    BY DEF Unmoved
  <2>3. UNCHANGED <<mined, pending>> => (Unmoved(job)' <=> Unmoved(job))
    BY DEF Unmoved
  <2> QED
    BY <1>5, <1>6, <2>1, <2>2, <2>3
<1>9. TickInv'
  <2>1. \A w \in Workers : working[w] # NoCall => working[w] \in Job
    BY DEF AuditInv, AuditTypes
  <2> QED
    BY <1>1, <1>8, <2>1 DEF TickInv
<1>10. CoverInv'
  <2> SUFFICES ASSUME NEW w \in Workers, NEW job \in Job, working[w] = job, Unmoved(job)'
               PROVE  Covered(job)'
    BY <1>1 DEF CoverInv, Job, PageItem
  <2>1. UNCHANGED <<chain, mined, pending, store>>
    BY <1>8
  <2>2. drifts[job.key] \subseteq drifts'[job.key]
    BY <1>1
  <2> QED
    BY <1>1, <2>1, <2>2, OthersCovered DEF AuditInv
<1> QED
  BY <1>2, <1>3, <1>4, <1>9, <1>10 DEF AuditInv

LEMMA AuditInvInductive ==
  ASSUME IsFiniteSet(TradeIds), Cardinality(TradeIds) <= MaxTradesPerRun
  PROVE  IndexInv /\ BehindInv /\ AuditInv /\ [AuditNext]_<<treasuryAndIndex, reconciliationVars>> => AuditInv'
<1> SUFFICES ASSUME IndexInv, BehindInv, AuditInv, [AuditNext]_<<treasuryAndIndex, reconciliationVars>>
             PROVE  AuditInv'
  OBVIOUS
<1>1. CASE [TreasuryNext]_treasuryAndIndex /\ UNCHANGED reconciliationVars
  BY <1>1, MovingKeeps
<1>2. CASE ReconciliationStep /\ UNCHANGED treasuryAndIndex
  <2>1. UNCHANGED <<chainVars, indexerVars>>
    BY <1>2 DEF treasuryAndIndex
  <2>2. PICK w \in Workers :
          \/ \E k \in RunKeys : reconcileOnce(w, k)
          \/ fetchIndexed(w)
          \/ checkTrade(w)
          \/ completeRun(w)
          \/ failRun(w)
          \/ workerCrash(w)
    BY <1>2 DEF ReconciliationStep
  <2>3. fetchIndexed(w) \/ checkTrade(w) \/ completeRun(w) \/ failRun(w) \/ workerCrash(w)
          => working[w] # NoCall
    <3>1. working[w] = NoCall => working[w].pc = "idle"
      BY DEF NoCall
    <3>2. failRun(w) \/ workerCrash(w) => working[w] # NoCall
      BY DEF failRun, workerCrash
    <3>3. fetchIndexed(w) \/ checkTrade(w) \/ completeRun(w) => working[w].pc \in {"fetch", "check", "complete"}
      BY DEF fetchIndexed, checkTrade, completeRun
    <3> QED
      BY <3>1, <3>2, <3>3
  <2> QED
    BY <2>1, <2>2, <2>3, reconcileOnceKeeps, fetchIndexedKeeps, checkTradeKeeps, completeRunKeeps,
       failRunKeeps, workerCrashKeeps
<1> QED
  BY <1>1, <1>2 DEF AuditNext

LEMMA AuditInvInitially == ReconciliationInit => AuditInv
<1> SUFFICES ASSUME ReconciliationInit
             PROVE  AuditInv
  OBVIOUS
<1>1. /\ runs = [k \in RunKeys |-> None] /\ scope = [k \in RunKeys |-> {}]
      /\ drifts = [k \in RunKeys |-> {}] /\ working = [w \in Workers |-> NoCall]
  BY DEF ReconciliationInit
<1>2. AuditTypes /\ OwnInv /\ TickInv
  BY <1>1 DEF AuditTypes, OwnInv, TickInv
<1>3. CoverInv
  BY <1>1, JobIsNoNoCall DEF CoverInv
<1>4. Completed = {}
  BY <1>1 DEF Completed
<1>5. ResultInv /\ CompletedInv
  BY <1>4, FS_EmptySet DEF ResultInv, CompletedInv
<1> QED
  BY <1>2, <1>3, <1>5 DEF AuditInv

-------------------------------------------------------------------------------
(* The report *)

LedgerInv == IsFiniteSet(EntryKeys)

LEMMA LedgerInvInductive == LedgerInv /\ [AuditNext]_<<treasuryAndIndex, reconciliationVars>> => LedgerInv'
<1> SUFFICES ASSUME LedgerInv, [AuditNext]_<<treasuryAndIndex, reconciliationVars>>
             PROVE  LedgerInv'
  OBVIOUS
<1>1. ASSUME NEW row, upsertLedgerEntryWithInitialState(row)
      PROVE  LedgerInv'
  <2>1. DOMAIN ledger' = EntryKeys \cup {buildEntryKey(row)}
    BY <1>1 DEF upsertLedgerEntryWithInitialState
  <2> QED
    BY <2>1, FS_AddElement DEF LedgerInv, EntryKeys
<1>2. CASE UNCHANGED ledger
  BY <1>2 DEF LedgerInv, EntryKeys
<1>3. ASSUME NEW c \in IngestCalls, ingestEvent(c)
      PROVE  LedgerInv'
  BY <1>1, <1>2, <1>3 DEF ingestEvent
<1>4. CASE UNCHANGED treasuryAndIndex
  BY <1>2, <1>4 DEF treasuryAndIndex, treasuryVars
<1>5. CASE TreasuryNext
  <2>1. CASE UNCHANGED treasuryVars
    BY <1>2, <2>1 DEF treasuryVars
  <2>2. CASE IngestionStep
    BY <1>2, <1>3, <2>2 DEF IngestionStep, ingestOnce, fetchPage, setIngestionOffset, ingestFails
  <2>3. CASE PayoutStep
    BY <1>2, <2>3 DEF PayoutStep, appendStateCheck, appendPayoutState
  <2> QED
    BY <1>5, <2>1, <2>2, <2>3 DEF TreasuryNext
<1> QED
  BY <1>4, <1>5 DEF AuditNext

LEMMA SummariesTell ==
  ASSUME NEW k, NEW t
  PROVE  fetchDriftSummaries(k, t) = {} <=> ~Known(k, t)
BY DEF fetchDriftSummaries, Known

LEMMA EveryTradeIsReported ==
  ASSUME NEW k \in RunKeys, NEW t, t \in scope[k] \/ Known(k, t)
  PROVE  \E r \in buildReconciliationReportRows(k) :
           r.trade = t /\ r.verdict = IF Known(k, t) THEN "MISMATCH" ELSE "MATCH"
<1> DEFINE known   == {d.trade : d \in drifts[k]}
           inScope == IF fetchRunTradeScope(k) # {} THEN fetchRunTradeScope(k) ELSE known
           rows    == fetchTreasuryLedgerStates(inScope)
           bare    == (inScope \cup known) \ {r.trade : r \in rows}
<1>1. t \in inScope \cup known
  BY DEF fetchRunTradeScope, Known
<1>2. reportInput(k) = rows \cup {[trade |-> x, entry |-> None, payoutState |-> None] : x \in bare}
  BY DEF reportInput
<1> HIDE DEF rows
<1>3. \E r \in reportInput(k) : r.trade = t
  <2>1. CASE t \in bare
    <3>1. [trade |-> t, entry |-> None, payoutState |-> None] \in reportInput(k)
      BY <1>2, <2>1
    <3> QED
      BY <3>1
  <2>2. CASE t \notin bare
    BY <1>1, <1>2, <2>2
  <2> QED
    BY <2>1, <2>2
<1>4. PICK r \in reportInput(k) : r.trade = t
  BY <1>3
<1> DEFINE told == [trade |-> r.trade, entry |-> r.entry, payoutState |-> r.payoutState,
                    verdict |-> IF fetchDriftSummaries(k, r.trade) = {} THEN "MATCH" ELSE "MISMATCH"]
<1>5. told \in buildReconciliationReportRows(k)
  BY DEF buildReconciliationReportRows
<1>6. told.trade = t /\ told.verdict = IF Known(k, t) THEN "MISMATCH" ELSE "MATCH"
  BY <1>4, SummariesTell
<1> QED
  BY <1>5, <1>6

LEMMA ReportIsFinite ==
  ASSUME AuditTypes, LedgerInv, IsFiniteSet(TradeIds), NEW k \in RunKeys
  PROVE  IsFiniteSet(buildReconciliationReportRows(k))
<1> DEFINE known   == {d.trade : d \in drifts[k]}
           inScope == IF fetchRunTradeScope(k) # {} THEN fetchRunTradeScope(k) ELSE known
           entries == {x \in EntryKeys : ledger[x].trade \in inScope}
           ofEntry == [e \in entries |-> [trade |-> ledger[e].trade, entry |-> e,
                                           payoutState |-> getLatestPayoutState(e)]]
           rows    == fetchTreasuryLedgerStates(inScope)
           bare    == (inScope \cup known) \ {r.trade : r \in rows}
           ofTrade == [t \in bare |-> [trade |-> t, entry |-> None, payoutState |-> None]]
           input   == reportInput(k)
           told    == [r \in input |->
                         [trade |-> r.trade, entry |-> r.entry, payoutState |-> r.payoutState,
                          verdict |-> IF fetchDriftSummaries(k, r.trade) = {} THEN "MATCH" ELSE "MISMATCH"]]
<1>1. known \subseteq TradeIds /\ inScope \subseteq TradeIds
  BY DEF AuditTypes, fetchRunTradeScope
<1>2. IsFiniteSet(rows)
  <2>1. IsFiniteSet(entries)
    BY FS_Subset DEF LedgerInv
  <2>2. rows = {ofEntry[e] : e \in entries}
    BY DEF fetchTreasuryLedgerStates
  <2> HIDE DEF entries, ofEntry, rows
  <2> QED
    BY <2>1, <2>2, Images
<1>3. IsFiniteSet({ofTrade[t] : t \in bare})
  <2>1. IsFiniteSet(bare)
    <3>1. bare \subseteq TradeIds
      BY <1>1
    <3> HIDE DEF bare
    <3> QED
      BY <3>1, FS_Subset
  <2> HIDE DEF bare, ofTrade
  <2> QED
    BY <2>1, Images
<1>4. IsFiniteSet(input)
  <2>1. input = rows \cup {ofTrade[t] : t \in bare}
    BY DEF reportInput
  <2> HIDE DEF input, rows, ofTrade, bare
  <2> QED
    BY <1>2, <1>3, <2>1, FS_Union
<1>5. buildReconciliationReportRows(k) = {told[r] : r \in input}
  BY DEF buildReconciliationReportRows
<1> HIDE DEF input, told
<1> QED
  BY <1>4, <1>5, Images

\* A key that is asked for is answered with its run, and no key with a run that is completed.
LEMMA RunFound ==
  ASSUME NEW k \in RunKeys, runs[k] # None
  PROVE  resolveRunKey(k) = k
<1>1. k # None
  BY ReconciliationAssumption
<1>2. {x \in RunKeys : x = k /\ runs[x] # None} = {k}
  OBVIOUS
<1> QED
  BY <1>1, <1>2 DEF resolveRunKey

LEMMA LatestFound ==
  ASSUME AuditTypes, CompletedInv, Completed # {}
  PROVE  resolveRunKey(None) # None
<1> DEFINE latest == {k \in Completed : \A other \in Completed : runs[other].completedAt <= runs[k].completedAt}
           Bounds == {n \in Nat : \A k \in Completed : runs[k].completedAt <= n}
<1>1. \A k \in Completed : runs[k].completedAt \in Nat
  BY DEF AuditTypes, Completed, RunRow
<1>2. Bounds # {} /\ Bounds \in SUBSET Nat
  BY DEF CompletedInv
<1>3. PICK n \in Bounds : \A m \in Bounds : n <= m
  BY <1>2, LeastNumber
<1>4. PICK k \in Completed : runs[k].completedAt = n
  <2> SUFFICES ASSUME \A k \in Completed : runs[k].completedAt # n
               PROVE  FALSE
    OBVIOUS
  <2>1. \A k \in Completed : runs[k].completedAt < n
    BY <1>1, <1>3
  <2>2. n - 1 \in Nat
    BY <1>1, <1>3, <2>1
  <2>3. n - 1 \in Bounds
    BY <1>1, <1>3, <2>1, <2>2
  <2> HIDE DEF Bounds
  <2>4. n \in Nat /\ n <= n - 1
    BY <1>2, <1>3, <2>3
  <2> QED
    BY <2>4
<1>5. k \in latest
  BY <1>3, <1>4
<1>6. latest # {} /\ latest \subseteq RunKeys
  BY <1>5 DEF Completed
<1>7. resolveRunKey(None) = CHOOSE x \in latest : TRUE
  BY <1>6 DEF resolveRunKey, Completed
<1> HIDE DEF latest
<1>8. resolveRunKey(None) \in RunKeys
  BY <1>6, <1>7
<1> QED
  BY <1>8, ReconciliationAssumption

LEMMA MismatchesCounted ==
  ASSUME NEW rows, IsFiniteSet(rows), NEW trades, IsFiniteSet(trades),
         \A t \in trades : \E r \in rows : r.trade = t /\ r.verdict = "MISMATCH"
  PROVE  Cardinality(rows \ {r \in rows : r.verdict = "MATCH"}) >= Cardinality(trades)
<1> DEFINE mismatches == rows \ {r \in rows : r.verdict = "MATCH"}
           tradeOf == [r \in mismatches |-> r.trade]
           named == {tradeOf[r] : r \in mismatches}
<1>1. IsFiniteSet(mismatches)
  BY FS_Subset
<1>2. trades \subseteq named
  <2> SUFFICES ASSUME NEW t \in trades
               PROVE  \E r \in mismatches : tradeOf[r] = t
    OBVIOUS
  <2>1. PICK r \in rows : r.trade = t /\ r.verdict = "MISMATCH"
    OBVIOUS
  <2>2. r \in mismatches
    BY <2>1
  <2> QED
    BY <2>1, <2>2
<1> HIDE DEF mismatches, tradeOf
<1>3. IsFiniteSet(named) /\ Cardinality(named) <= Cardinality(mismatches)
  BY <1>1, Images
<1> HIDE DEF named
<1>4. Cardinality(trades) <= Cardinality(named)
  BY <1>2, <1>3, FS_Subset
<1>5. Cardinality(trades) \in Nat /\ Cardinality(named) \in Nat /\ Cardinality(mismatches) \in Nat
  BY <1>1, <1>3, FS_CardinalityType
<1>6. Cardinality(mismatches) >= Cardinality(trades)
  BY <1>3, <1>4, <1>5
<1> QED
  BY <1>6 DEF mismatches

LEMMA QuietReport ==
  ASSUME IsFiniteSet(TradeIds), AuditInv, LedgerInv
  PROVE  QuietRunIsExact
<1> SUFFICES ASSUME NEW k \in RunKeys, runs[k] # None, runs[k].status = "COMPLETED"
             PROVE  /\ buildReconciliationReport(None).runKey # None
                    /\ runs[k].expected # None =>
                         /\ buildReconciliationReport(k).mismatchCount >= Cardinality(runs[k].expected)
                         /\ \A t \in TradeIds :
                              /\ t \in runs[k].expected =>
                                   \E r \in buildReconciliationReport(k).rows : r.trade = t /\ r.verdict = "MISMATCH"
                              /\ (runs[k].attempts = 1 /\ t \in scope[k] \ runs[k].expected
                                     /\ ~("ONCHAIN_READ_ERROR" \in fetchDriftSummaries(k, t)))
                                   => \E r \in buildReconciliationReport(k).rows : r.trade = t /\ r.verdict = "MATCH"
  BY DEF QuietRunIsExact
<1>1. k \in Completed
  BY DEF Completed
<1>2. buildReconciliationReport(None).runKey # None
  <2>1. resolveRunKey(None) # None
    BY <1>1, LatestFound DEF AuditInv
  <2> QED
    BY <2>1 DEF buildReconciliationReport
<1> DEFINE rows == buildReconciliationReportRows(k)
<1>3. /\ buildReconciliationReport(k).rows = rows
      /\ buildReconciliationReport(k).mismatchCount = Cardinality(rows \ {r \in rows : r.verdict = "MATCH"})
  <2>1. resolveRunKey(k) = k /\ k # None
    BY RunFound, ReconciliationAssumption
  <2> HIDE DEF rows
  <2> QED
    BY <2>1 DEF buildReconciliationReport, rows
<1> HIDE DEF rows
<1>4. ASSUME runs[k].expected # None
      PROVE  /\ Cardinality(rows \ {r \in rows : r.verdict = "MATCH"}) >= Cardinality(runs[k].expected)
             /\ \A t \in TradeIds :
                  /\ t \in runs[k].expected => \E r \in rows : r.trade = t /\ r.verdict = "MISMATCH"
                  /\ (runs[k].attempts = 1 /\ t \in scope[k] \ runs[k].expected
                         /\ ~("ONCHAIN_READ_ERROR" \in fetchDriftSummaries(k, t)))
                       => \E r \in rows : r.trade = t /\ r.verdict = "MATCH"
  <2>1. runs[k].expected \in SUBSET TradeIds
    BY <1>4 DEF AuditInv, AuditTypes, RunRow
  <2>2. IsFiniteSet(runs[k].expected)
    BY <2>1, FS_Subset
  <2>3. ASSUME NEW t \in runs[k].expected
        PROVE  \E r \in rows : r.trade = t /\ r.verdict = "MISMATCH"
    <3>1. Known(k, t)
      BY <1>1, <1>4, <2>3 DEF AuditInv, ResultInv
    <3> QED
      BY <3>1, EveryTradeIsReported DEF rows
  <2>4. ASSUME runs[k].attempts = 1, NEW t \in scope[k] \ runs[k].expected,
               ~("ONCHAIN_READ_ERROR" \in fetchDriftSummaries(k, t))
        PROVE  \E r \in rows : r.trade = t /\ r.verdict = "MATCH"
    <3>1. ~Known(k, t)
      <4> SUFFICES ASSUME NEW d \in drifts[k], d.trade = t
                   PROVE  FALSE
        BY DEF Known
      <4>1. d.finding.code = "ONCHAIN_READ_ERROR"
        BY <1>1, <1>4, <2>4 DEF AuditInv, ResultInv
      <4> QED
        BY <2>4, <4>1 DEF fetchDriftSummaries
    <3> QED
      BY <2>4, <3>1, EveryTradeIsReported DEF rows
  <2>5. IsFiniteSet(rows)
    BY ReportIsFinite DEF AuditInv, rows
  <2>6. Cardinality(rows \ {r \in rows : r.verdict = "MATCH"}) >= Cardinality(runs[k].expected)
    BY <2>2, <2>3, <2>5, MismatchesCounted
  <2> QED
    BY <2>3, <2>4, <2>6
<1> QED
  BY <1>2, <1>3, <1>4

LEMMA IndexInvAudited ==
  IndexInv /\ BehindInv /\ [AuditNext]_<<treasuryAndIndex, reconciliationVars>> => IndexInv' /\ BehindInv'
<1> SUFFICES ASSUME IndexInv, BehindInv, [AuditNext]_<<treasuryAndIndex, reconciliationVars>>
             PROVE  IndexInv' /\ BehindInv'
  OBVIOUS
<1>1. [TreasuryNext]_treasuryAndIndex
  BY DEF AuditNext
<1> QED
  BY <1>1, IndexInvInductive, BehindInvInductive

\* Whatever the workers, the chain and the indexer do in between, whatever fails and whoever
\* crashes: the report of a run that was completed (completeRun) while neither the chain nor
\* the index moved names every trade whose status differs, and at the first attempt no other
\* that it could read.  As long as there are no more trades than a run may look at.
THEOREM QuietRunIsExactHolds ==
  ASSUME IsFiniteSet(TradeIds), Cardinality(TradeIds) <= MaxTradesPerRun
  PROVE  AuditSpec => []QuietRunIsExact
<1>1. EventsInit /\ IndexerInit /\ TreasuryInit /\ ReconciliationInit
        => IndexInv /\ BehindInv /\ AuditInv /\ LedgerInv
  <2>1. TreasuryInit => LedgerInv
    <3> SUFFICES ASSUME TreasuryInit
                 PROVE  LedgerInv
      OBVIOUS
    <3>1. EntryKeys = {}
      BY DEF TreasuryInit, EntryKeys
    <3> QED
      BY <3>1, FS_EmptySet DEF LedgerInv
  <2> QED
    BY <2>1, IndexInvInitially, BehindInvInitially, AuditInvInitially
<1>2. IndexInv /\ BehindInv /\ AuditInv /\ [AuditNext]_<<treasuryAndIndex, reconciliationVars>> => AuditInv'
  BY AuditInvInductive
<1>3. AuditInv /\ LedgerInv => QuietRunIsExact
  BY QuietReport
<1> QED
  BY <1>1, <1>2, <1>3, IndexInvAudited, LedgerInvInductive, PTL DEF AuditSpec

===============================================================================
