---------------------------- MODULE GovernancePages ----------------------------
(***************************************************************************)
(* GET /governance/actions (gateway/src/routes/governance.ts over          *)
(* core/governanceStore.ts): an operator pages through the queue while     *)
(* requests add rows to it, executors record outcomes and the cleanup      *)
(* marks rows stale.  What makes them write is GatewayGovernance; here a   *)
(* row keeps what the listing filters and sorts by.                        *)
(***************************************************************************)
EXTENDS WallClock, Sequences, Listing

CONSTANTS
  ActionIds,     \* random uuids, in the order in which every store compares them
  Categories,    \* bound: the categories that are queued
  Outcomes,      \* bound: the statuses that stored rows are saved with
  Queries,       \* bound: what is asked for
  MaxDelay,      \* bound: how long after its timestamp a row is stored
  MaxSaves       \* bound: how often a stored row is saved again

GOVERNANCE_ACTION_CATEGORIES ==
  {"pause", "unpause", "claims_pause", "claims_unpause", "treasury_sweep",
   "treasury_payout_receiver_update", "oracle_disable_emergency", "oracle_update"}

GOVERNANCE_ACTION_STATUSES ==
  {"requested", "submitted", "pending_approvals", "approved", "executed", "cancelled",
   "expired", "stale", "failed"}

ASSUME PagesAssumption ==
  /\ ActionIds \subseteq Nat /\ IsFiniteSet(ActionIds)
  /\ Categories \subseteq GOVERNANCE_ACTION_CATEGORIES
  /\ Outcomes \subseteq GOVERNANCE_ACTION_STATUSES \ {"requested"}
  /\ MaxDelay \in Nat
  /\ MaxSaves \in Nat
  /\ None \notin [category : GOVERNANCE_ACTION_CATEGORIES, status : GOVERNANCE_ACTION_STATUSES,
                  tradeId : {None}, createdAt : Int]
                 \cup [createdAt : Int, actionId : Nat]

VARIABLES
  actions,       \* governance_actions, by action id
  walk,          \* the operator's query, and what its pages have shown so far
  saves          \* how often stored rows were saved again

pagesVars == <<actions, walk, saves>>

NoWalk ==
  [pc |-> "idle", query |-> None, cursor |-> None, shown |-> <<>>, stable |-> {}]

PagesInit ==
  /\ actions = [id \in ActionIds |-> None]
  /\ walk = NoWalk
  /\ saves = 0

------------------------------------------------------------------------------
(* The store *)

\* No route queues an action for a trade.
GovernanceActionRow(category, createdAt) ==
  [category |-> category, status |-> "requested", tradeId |-> None, createdAt |-> createdAt]

get(id) == actions[id]

\* The upsert writes every column.
save(id, row) == actions' = [actions EXCEPT ![id] = row]

mapRow(id) ==
  [actionId |-> id, category |-> get(id).category, status |-> get(id).status,
   tradeId |-> get(id).tradeId, createdAt |-> get(id).createdAt]

Rows == {mapRow(id) : id \in {stored \in ActionIds : get(stored) # None}}

\* A condition for each parameter that was given.
Meets(row, query) ==
  \A column \in {"category", "status", "tradeId"} :
    query[column] # None => row[column] = query[column]

\* ORDER BY created_at DESC, action_id DESC.
Newer(a, b) ==
  a.createdAt > b.createdAt \/ (a.createdAt = b.createdAt /\ a.actionId > b.actionId)

\* encodeGovernanceActionCursor keeps two fields of the row, which decode as they were.
CursorAt(row) == [createdAt |-> row.createdAt, actionId |-> row.actionId]

\* Mutant: the cursor points to the extra row, which then is in no page.
nextActionsCursor_extra(items, limit) ==
  IF Len(items) <= limit THEN None ELSE CursorAt(items[limit + 1])

\* nextCursorFromItems.
nextActionsCursor(items, limit) ==
  IF Len(items) <= limit THEN None ELSE CursorAt(items[limit])

FirstOf(rows, n) == SubSeq(rows, 1, IF Len(rows) < n THEN Len(rows) ELSE n)

\* LIMIT limit + 1: the extra row tells that there is another page.
Page(rows, limit) ==
  LET mapped == FirstOf(rows, limit + 1)
  IN  [items |-> FirstOf(mapped, limit), nextCursor |-> nextActionsCursor(mapped, limit)]

list(query) ==
  Page(Ordered({row \in Rows : /\ Meets(row, query)
                               /\ query.cursor # None => Newer(query.cursor, row)},
               Newer),
       query.limit)

\* The store of the tests: all rows sorted, then filtered, then cut.
sorted == Ordered(Rows, Newer)

listInMemory(query) ==
  LET filtered == Filtered(sorted, LAMBDA row : Meets(row, query))
      beyond   == Filtered(filtered, LAMBDA row :
                    \/ query.cursor = None
                    \/ row.createdAt < query.cursor.createdAt
                    \/ /\ row.createdAt = query.cursor.createdAt
                       /\ row.actionId < query.cursor.actionId)
  IN  Page(beyond, query.limit)

------------------------------------------------------------------------------
(* The writers *)

\* A row is dated by the process that makes it and stored later.
queueAction(id, category, createdAt) ==
  /\ get(id) = None
  /\ createdAt >= 1
  /\ save(id, GovernanceActionRow(category, createdAt))
  /\ UNCHANGED <<walk, saves>>

\* Whoever saves a row holds a copy of the requested one: the executor its outcome, also
\* over a row the cleanup has marked, and the cleanup stale, also over an outcome.
saveActionWithAudit(id, status) ==
  /\ saves < MaxSaves
  /\ get(id) # None
  /\ get(id).status \in {"requested", "stale"} \/ status = "stale"
  /\ save(id, [get(id) EXCEPT !.status = status])
  /\ saves' = saves + 1
  /\ walk' = [walk EXCEPT !.stable =
                {other \in @ : other = id => Meets([mapRow(id) EXCEPT !.status = status], walk.query)}]

------------------------------------------------------------------------------
(* The route *)

parseLimit(raw) == IF raw = None THEN 50 ELSE raw

\* parseEnum, parseLimit and parseTradeId; anything else is answered by 400.
ValidQuery(query) ==
  /\ query.category \in GOVERNANCE_ACTION_CATEGORIES \cup {None}
  /\ query.status \in GOVERNANCE_ACTION_STATUSES \cup {None}
  /\ parseLimit(query.limit) \in 1 .. 200

Asked(query, cursor) ==
  [category |-> query.category, status |-> query.status, tradeId |-> query.tradeId,
   limit |-> parseLimit(query.limit), cursor |-> cursor]

\* The rows that meet the query from the first page on are followed.
startWalk(query) ==
  /\ walk.pc = "idle"
  /\ ValidQuery(query)
  /\ walk' = [pc |-> "paging", query |-> query, cursor |-> None, shown |-> <<>>,
              stable |-> {row.actionId : row \in {r \in Rows : Meets(r, query)}}]
  /\ UNCHANGED <<actions, saves>>

\* One request; the client passes on the cursor of the answer before.
nextPage ==
  /\ walk.pc = "paging"
  /\ LET page == list(Asked(walk.query, walk.cursor)) IN
       walk' = [walk EXCEPT !.pc = IF page.nextCursor = None THEN "done" ELSE "paging",
                            !.cursor = page.nextCursor,
                            !.shown = @ \o page.items]
  /\ UNCHANGED <<actions, saves>>

PagesStep ==
  \/ \E id \in ActionIds, category \in Categories, createdAt \in (clock - MaxDelay) .. clock :
       queueAction(id, category, createdAt)
  \/ \E id \in ActionIds, status \in Outcomes :
       saveActionWithAudit(id, status)
  \/ \E query \in Queries : startWalk(query)
  \/ nextPage

------------------------------------------------------------------------------
(* What an operator may rely on *)

\* Both stores give the same page, from the start or from any row on.  The rows alone make
\* the pages, so that it is enough to compare them before the operator sets out.
StoresAnswerAlike ==
  walk.pc = "idle" =>
    \A query \in {q \in Queries : ValidQuery(q)},
       cursor \in {CursorAt(row) : row \in Rows} \cup {None} :
      list(Asked(query, cursor)) = listInMemory(Asked(query, cursor))

(***************************************************************************)
(* An operator who follows the cursors sees no action twice, the newest    *)
(* first, and by the last page every action that met the filter all along, *)
(* however many are queued, dated alike, dated before and stored after a   *)
(* page, or change their status while he reads (governanceStore.ts:437).   *)
(* The store the tests run on gives the same pages (line 561).             *)
(***************************************************************************)
PagesShowEveryRow ==
  /\ \A i, j \in DOMAIN walk.shown : i < j => Newer(walk.shown[i], walk.shown[j])
  /\ walk.pc = "done" =>
       walk.stable \subseteq {walk.shown[i].actionId : i \in DOMAIN walk.shown}
  /\ StoresAnswerAlike

===============================================================================
