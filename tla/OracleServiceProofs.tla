-------------------------- MODULE OracleServiceProofs --------------------------
(***************************************************************************)
(* Proofs about OracleService, for any number of requests, of handlers and *)
(* polls in progress, of attempts and crashes, and for every timeout: what *)
(* the rows, the handlers at their awaits, the polls' batches and the      *)
(* chain say of each other, however they interleave.                       *)
(***************************************************************************)
EXTENDS OracleService, FiniteSetTheorems, TLAPS

USE DEF tradeVars, switchVars, chainVars, serviceVars, fixedVars, vars

-------------------------------------------------------------------------------
(* The table and the requests *)

RowStatuses ==
  ActiveStatus \cup {"none", "CONFIRMED", "FAILED", "TERMINAL_FAILURE",
                     "EXHAUSTED_NEEDS_REDRIVE", "REJECTED"}

ActionTypes == TriggerTypes \cup {"none"}

Row == [type : ActionTypes, status : RowStatuses, tx : BOOLEAN, age : Int, approved : BOOLEAN]

\* The awaits of a handler that executes a row, of one that has a row, and of one that
\* may insert a row yet.
Working == {"gate", "attempt", "mark", "send", "record", "fail"}
OnRow   == Working \cup {"recheck", "confirm"}
Asking  == {"validate", "create", "recheck"}
Places  == OnRow \cup {"idle", "validate", "create", "reuse"}

Handler ==
  [pc : Places, type : ActionTypes, redrive : BOOLEAN, row : Nat, attempt : Nat,
   terminal : BOOLEAN, settled : SUBSET RowIds]

Entry == [id : RowIds, age : Int]

Poll == [batch : SUBSET Entry, verdict : {"none", "CONFIRMED", "EXHAUSTED_NEEDS_REDRIVE"}]

OracleTypeOK ==
  /\ rows \in [RowIds -> Row]
  /\ handlers \in [Handlers -> Handler]
  /\ polls \in [Polls -> Poll]
  /\ rowCount \in Nat
  /\ requests \in Nat
  /\ crashes \in Nat

Made == 1 .. rowCount

\* The rows are made in order, and each is about an action.
RowsMade ==
  \A i \in RowIds : IF i \in Made THEN rows[i].type \in TriggerTypes ELSE rows[i] = NoRow

Askers == {h \in Handlers : handlers[h].pc \in Asking}

\* Every row has a request of its own, and so has everyone who may insert one.
Counted == rowCount + Cardinality(Askers) <= requests /\ requests <= MaxRequests

\* A handler works on a row of its action; it looks for one if there is one.
OwnRows ==
  \A h \in Handlers :
    /\ handlers[h].pc # "idle" => handlers[h].type \in TriggerTypes
    /\ handlers[h].pc \in OnRow =>
         handlers[h].row \in Made /\ rows[handlers[h].row].type = handlers[h].type
    /\ handlers[h].pc = "reuse" => \E i \in Made : rows[i].type = handlers[h].type

\* The partial unique index.
IndexKept ==
  \A i, j \in RowIds :
    rows[i].type = rows[j].type /\ rows[i].status \in ActiveStatus
      /\ rows[j].status \in ActiveStatus => i = j

\* A poll has read each row once, and decides about one that it has read.
Batches ==
  \A p \in Polls :
    /\ \A e \in polls[p].batch : e.id \in Made
    /\ \A e, f \in polls[p].batch : e.id = f.id => e = f
    /\ polls[p].verdict # "none" => polls[p].batch # {}

TableInv ==
  /\ OracleTypeOK
  /\ RowsMade
  /\ Counted
  /\ OwnRows
  /\ IndexKept
  /\ Batches

-------------------------------------------------------------------------------
(* Least and greatest *)

LEMMA SmallestByOrder ==
  \A R, Q, U : IsWellFoundedOn(R, Q) /\ U \subseteq Q /\ U # {} =>
    \E x \in U : \A y \in U : ~(<<y, x>> \in R)
  BY WFMin

LEMMA LeastNumber ==
  ASSUME NEW T \in SUBSET Nat, T # {}
  PROVE  \E n \in T : \A m \in T : n <= m
<1> DEFINE R == {ss \in Nat \X Nat : ss[1] < ss[2]}
<1>1. IsWellFoundedOn(R, Nat)
  BY NatLessThanWellFounded, Zenon DEF OpToRel
<1>2. \E n \in T : \A m \in T : ~(<<m, n>> \in R)
  <2>1. T \subseteq Nat
    OBVIOUS
  <2> HIDE DEF R
  <2> QED
    BY <1>1, <2>1, SmallestByOrder, Zenon
<1>3. PICK n \in T : \A m \in T : ~(<<m, n>> \in R)
  BY <1>2, Zenon
<1>4. ASSUME NEW m \in T
      PROVE  n <= m
  <2>1. m \in Nat /\ n \in Nat /\ (m < n => <<m, n>> \in R)
    OBVIOUS
  <2>2. ~(<<m, n>> \in R)
    BY <1>3
  <2> HIDE DEF R
  <2> QED
    BY <2>1, <2>2
<1> QED
  BY <1>4

\* The newest row of an action: Latest is 0 or one of its rows, and none is newer.
LEMMA LatestIs ==
  ASSUME NEW type
  PROVE  /\ Latest(type) \in Nat
         /\ Latest(type) # 0 => Latest(type) \in RowIds /\ rows[Latest(type)].type = type
         /\ \A i \in RowIds : rows[i].type = type => i <= Latest(type)
<1> DEFINE S == {i \in RowIds : rows[i].type = type} \cup {0}
           T == {n \in Nat : \A i \in S : i <= n}
<1>1. MaxRequests \in Nat /\ S \subseteq Nat /\ \A i \in S : i <= MaxRequests
  BY OracleAssumption DEF RowIds
<1>2. MaxRequests \in T
  BY <1>1
<1>3. PICK n \in T : \A m \in T : n <= m
  <2>1. T \in SUBSET Nat /\ T # {}
    BY <1>2
  <2> HIDE DEF T
  <2> QED
    BY <2>1, LeastNumber
<1>4. n \in S
  <2>1. n \in Nat /\ \A i \in S : i <= n
    OBVIOUS
  <2>2. SUFFICES ASSUME n \notin S PROVE FALSE
    OBVIOUS
  <2>3. n # 0
    BY <2>2
  <2>4. n - 1 \in Nat /\ \A i \in S : i <= n - 1
    <3> HIDE DEF S
    <3> QED
      BY <1>1, <2>1, <2>2, <2>3
  <2>5. n - 1 \in T
    BY <2>4
  <2> QED
    BY <1>3, <2>1, <2>5
<1>5. Max(S) \in S /\ \A i \in S : Max(S) >= i
  <2>1. n \in S /\ \A i \in S : n >= i
    BY <1>1, <1>4
  <2> HIDE DEF S
  <2> QED
    BY <2>1 DEF Max
<1>6. Latest(type) = Max(S)
  BY DEF Latest
<1> HIDE DEF T
<1> QED
  BY <1>1, <1>5, <1>6

\* The entry that a poll looks at next.
LEMMA HeadIs ==
  ASSUME NEW p \in Polls, polls \in [Polls -> Poll], polls[p].batch # {}
  PROVE  Head(p) \in polls[p].batch
<1> DEFINE T == {e.id : e \in polls[p].batch}
<1>1. polls[p].batch \subseteq Entry
  BY DEF Poll
<1>2. T \in SUBSET Nat /\ T # {}
  BY <1>1, OracleAssumption DEF Entry, RowIds
<1>3. PICK n \in T : \A m \in T : n <= m
  <2> HIDE DEF T
  <2> QED
    BY <1>2, LeastNumber
<1>4. PICK e \in polls[p].batch : e.id = n
  OBVIOUS
<1>5. \A f \in polls[p].batch : e.id <= f.id
  BY <1>3, <1>4
<1> HIDE DEF T
<1> QED
  BY <1>5 DEF Head

LEMMA OlderIs ==
  ASSUME NEW age \in Int
  PROVE  Older(age) \in Int
<1> DEFINE S == {age + 1, HardTimeout + 1}
<1>1. \E x \in S : \A y \in S : x <= y
  BY OracleAssumption
<1>2. Min(S) \in S
  <2> HIDE DEF S
  <2> QED
    BY <1>1 DEF Min
<1> QED
  BY <1>2, OracleAssumption DEF Older

-------------------------------------------------------------------------------
(* What one step does *)

\* The handlers other than h stay at their awaits.
OthersWait(h) ==
  /\ handlers' \in [Handlers -> Handler]
  /\ \A g \in Handlers \ {h} : handlers'[g] = handlers[g]

\* Handler h goes on with the action and the row that it has.
Proceeds(h, pc) ==
  /\ OthersWait(h)
  /\ handlers'[h].pc = pc
  /\ handlers'[h].type = handlers[h].type
  /\ handlers'[h].redrive = handlers[h].redrive
  /\ handlers'[h].row = handlers[h].row
  /\ handlers'[h].attempt = handlers[h].attempt
  /\ handlers'[h].settled = handlers[h].settled

Leaves(h) == OthersWait(h) /\ handlers'[h] = IdleHandler

\* Handler h has row i from now on.
Starts(h, i) ==
  /\ OthersWait(h)
  /\ handlers'[h].pc = AfterCreate(h)
  /\ handlers'[h].type = handlers[h].type
  /\ handlers'[h].redrive = handlers[h].redrive
  /\ handlers'[h].row = i
  /\ handlers'[h].attempt = 1
  /\ handlers'[h].settled = handlers[h].settled

\* The status of row i becomes s; its action and its approval stay.
RowBecomes(i, s) ==
  /\ rows' \in [RowIds -> Row]
  /\ rows'[i].status = s
  /\ rows'[i].type = rows[i].type
  /\ rows'[i].approved = rows[i].approved
  /\ rows'[i].tx => rows[i].tx \/ s = "SUBMITTED"
  /\ \A j \in RowIds \ {i} : rows'[j] = rows[j]
  /\ rowCount' = rowCount

RowsStay     == rows' = rows /\ rowCount' = rowCount
RequestsStay == requests' = requests /\ crashes' = crashes /\ manualApproval' = manualApproval
\* What was executed on-chain stays so.
ChainGrows   == done \subseteq done'

Asks(h, type, redrive) ==
  /\ handlers[h].pc = "idle"
  /\ requests < MaxRequests
  /\ ~isActionAlreadyCompleted(Latest(type))
  /\ redrive => Redrives
  /\ OthersWait(h)
  /\ handlers'[h].type = type
  /\ handlers'[h].redrive = redrive
  /\ handlers'[h].settled = SettledRows(type)
  /\ \/ handlers'[h].pc = "validate"
     \/ /\ handlers'[h].pc = "recheck" /\ redrive
        /\ Latest(type) # 0 /\ handlers'[h].row = Latest(type)
  /\ requests' = requests + 1 /\ crashes' = crashes /\ manualApproval' = manualApproval
  /\ RowsStay /\ polls' = polls /\ ChainGrows

\* From one await to the next one, with no write.
Moves(h, pc) ==
  /\ \/ handlers[h].pc \in {"validate", "recheck"} /\ pc = "create"
     \/ handlers[h].pc = "create" /\ pc = "reuse" /\ Active(handlers[h].type) # {}
     \/ handlers[h].pc = "attempt" /\ pc = "mark"
     \/ handlers[h].pc \in {"attempt", "mark", "send", "record"} /\ pc = "fail"
     \/ handlers[h].pc = "send" /\ pc = "record" /\ handlers[h].type \in done'
     \/ handlers[h].pc = "recheck" /\ pc = "confirm"
  /\ Proceeds(h, pc)
  /\ RowsStay /\ polls' = polls /\ RequestsStay /\ ChainGrows

\* A request is answered with nothing written.
Ends(h) ==
  /\ \/ handlers[h].pc \in {"validate", "recheck"}
     \/ handlers[h].pc = "gate" /\ ~IndexAllows(handlers[h].row, "PENDING_APPROVAL")
     \/ handlers[h].pc = "attempt" /\ handlers[h].attempt > MaxAttempts
  /\ Leaves(h)
  /\ RowsStay /\ polls' = polls /\ RequestsStay /\ ChainGrows

NewRow(type) ==
  [type |-> type, status |-> "PENDING", tx |-> FALSE, age |-> 0, approved |-> FALSE]

Creates(h) ==
  /\ handlers[h].pc = "create"
  /\ Active(handlers[h].type) = {}
  /\ rowCount' = rowCount + 1
  /\ rowCount + 1 \in RowIds
  /\ rows' \in [RowIds -> Row]
  /\ rows'[rowCount + 1] = NewRow(handlers[h].type)
  /\ \A j \in RowIds \ {rowCount + 1} : rows'[j] = rows[j]
  /\ Starts(h, rowCount + 1)
  /\ polls' = polls /\ RequestsStay /\ ChainGrows

Reuses(h) ==
  /\ handlers[h].pc = "reuse"
  /\ Starts(h, Latest(handlers[h].type))
  /\ RowsStay /\ polls' = polls /\ RequestsStay /\ ChainGrows

\* Handler h writes its row.
Writes(h, s) ==
  /\ RowBecomes(handlers[h].row, s)
  /\ \/ /\ handlers[h].pc = "gate" /\ s = "PENDING_APPROVAL" /\ IndexAllows(handlers[h].row, s)
        /\ Leaves(h)
     \/ /\ handlers[h].pc = "mark" /\ s = "EXECUTING" /\ IndexAllows(handlers[h].row, s)
        /\ Proceeds(h, "send")
     \/ /\ handlers[h].pc = "record" /\ s = "SUBMITTED" /\ IndexAllows(handlers[h].row, s)
        /\ Leaves(h)
     \/ /\ handlers[h].pc = "fail" /\ s \in {"TERMINAL_FAILURE", "EXHAUSTED_NEEDS_REDRIVE"}
        /\ Leaves(h)
     \/ /\ handlers[h].pc = "fail" /\ s = "FAILED"
        /\ handlers[h].attempt < MaxAttempts
        /\ OthersWait(h)
        /\ handlers'[h].pc = "attempt"
        /\ handlers'[h].type = handlers[h].type
        /\ handlers'[h].redrive = handlers[h].redrive
        /\ handlers'[h].row = handlers[h].row
        /\ handlers'[h].attempt = handlers[h].attempt + 1
        /\ handlers'[h].settled = handlers[h].settled
     \/ /\ handlers[h].pc = "confirm" /\ s = "CONFIRMED"
        /\ Leaves(h)
  /\ polls' = polls /\ RequestsStay /\ ChainGrows

Approves(h, i) ==
  /\ handlers[h].pc = "idle"
  /\ rows[i].status = "PENDING_APPROVAL"
  /\ rows' \in [RowIds -> Row]
  /\ rows'[i].status = "PENDING" /\ rows'[i].approved
  /\ rows'[i].type = rows[i].type /\ rows'[i].tx = rows[i].tx
  /\ \A j \in RowIds \ {i} : rows'[j] = rows[j]
  /\ rowCount' = rowCount
  /\ OthersWait(h)
  /\ handlers'[h].pc = "attempt" /\ handlers'[h].type = rows[i].type
  /\ handlers'[h].row = i /\ handlers'[h].attempt = 1 /\ ~handlers'[h].redrive
  /\ handlers'[h].settled = SettledRows(rows[i].type)
  /\ polls' = polls /\ RequestsStay /\ ChainGrows

Rejects(i) ==
  /\ rows[i].status = "PENDING_APPROVAL"
  /\ RowBecomes(i, "REJECTED")
  /\ handlers' = handlers /\ polls' = polls /\ RequestsStay /\ ChainGrows

\* A poll reads the submitted rows.
Reads(p) ==
  /\ polls' \in [Polls -> Poll]
  /\ polls[p] = IdlePoll
  /\ \A q \in Polls \ {p} : polls'[q] = polls[q]
  /\ \A e \in polls'[p].batch : rows[e.id].status = "SUBMITTED"
  /\ \A e, f \in polls'[p].batch : e.id = f.id => e = f
  /\ polls'[p].verdict = "none"
  /\ RowsStay /\ handlers' = handlers /\ RequestsStay /\ ChainGrows

\* A poll decides about the next row of its batch, or passes on.
Checks(p) ==
  /\ polls' \in [Polls -> Poll]
  /\ \A q \in Polls \ {p} : polls'[q] = polls[q]
  /\ polls[p].batch # {}
  /\ \/ polls'[p].batch = polls[p].batch
     \/ /\ polls'[p].verdict = "none"
        /\ polls'[p].batch \subseteq polls[p].batch
  /\ RowsStay /\ handlers' = handlers /\ RequestsStay /\ ChainGrows

Judges(p) ==
  LET e == Head(p) IN
  /\ polls[p].verdict # "none"
  /\ e \in polls[p].batch
  /\ RowBecomes(e.id, polls[p].verdict)
  /\ polls' \in [Polls -> Poll]
  /\ \A q \in Polls \ {p} : polls'[q] = polls[q]
  /\ polls'[p].batch = polls[p].batch \ {e} /\ polls'[p].verdict = "none"
  /\ handlers' = handlers /\ RequestsStay /\ ChainGrows

\* Rows and batches grow older.
Ages ==
  /\ rows' \in [RowIds -> Row]
  /\ \A i \in RowIds :
       /\ rows'[i].type = rows[i].type /\ rows'[i].status = rows[i].status
       /\ rows'[i].tx = rows[i].tx /\ rows'[i].approved = rows[i].approved
       /\ rows[i] = NoRow => rows'[i] = NoRow
  /\ rowCount' = rowCount
  /\ polls' \in [Polls -> Poll]
  /\ \A p \in Polls :
       /\ polls'[p].verdict = polls[p].verdict
       /\ \A e \in polls'[p].batch : \E f \in polls[p].batch : e = Aged(f)
       /\ \A e \in polls[p].batch : Aged(e) \in polls'[p].batch
  /\ handlers' = handlers /\ RequestsStay /\ ChainGrows

Dies ==
  /\ crashes' = crashes + 1
  /\ handlers' = [h \in Handlers |-> IdleHandler]
  /\ polls' = [p \in Polls |-> IdlePoll]
  /\ RowsStay /\ requests' = requests /\ manualApproval' = manualApproval /\ ChainGrows

Rests ==
  RowsStay /\ handlers' = handlers /\ polls' = polls /\ RequestsStay /\ ChainGrows

Happens ==
  \/ \E h \in Handlers :
       \/ \E type \in TriggerTypes, redrive \in BOOLEAN : Asks(h, type, redrive)
       \/ \E pc \in Places : Moves(h, pc)
       \/ Ends(h)
       \/ Creates(h)
       \/ Reuses(h)
       \/ \E s \in RowStatuses : Writes(h, s)
       \/ \E i \in RowIds : Approves(h, i)
  \/ \E i \in RowIds : Rejects(i)
  \/ \E p \in Polls : Reads(p) \/ Checks(p) \/ Judges(p)
  \/ Ages
  \/ Dies
  \/ Rests

LEMMA MadeAreRows ==
  ASSUME TableInv
  PROVE  /\ rowCount \in Nat /\ MaxRequests \in Nat
         /\ rowCount <= requests
         /\ Made \subseteq RowIds
<1>1. IsFiniteSet(Askers)
  BY FS_Subset, OracleAssumption DEF Askers
<1>2. Cardinality(Askers) \in Nat
  BY <1>1, FS_CardinalityType
<1> QED
  BY <1>2, OracleAssumption DEF TableInv, OracleTypeOK, Counted, Made, RowIds

LEMMA IdleIsHandler == IdleHandler \in Handler
  BY DEF IdleHandler, Handler, ActionTypes, Places

LEMMA GoesOnProceeds ==
  ASSUME handlers \in [Handlers -> Handler], NEW h \in Handlers, NEW pc \in Places, GoesOn(h, pc)
  PROVE  Proceeds(h, pc)
<1>1. handlers[h] \in Handler /\ [handlers[h] EXCEPT !.pc = pc] \in Handler
  BY DEF Handler
<1>2. handlers' = [handlers EXCEPT ![h] = [handlers[h] EXCEPT !.pc = pc]]
  BY DEF GoesOn
<1> QED
  BY <1>1, <1>2 DEF Proceeds, OthersWait, Handler

LEMMA FailsProceeds ==
  ASSUME handlers \in [Handlers -> Handler], NEW h \in Handlers, NEW terminal \in BOOLEAN,
         Fails(h, terminal)
  PROVE  Proceeds(h, "fail")
<1>1. /\ handlers[h] \in Handler
      /\ [handlers[h] EXCEPT !.pc = "fail", !.terminal = terminal] \in Handler
  BY DEF Handler, Places, OnRow, Working
<1>2. handlers' = [handlers EXCEPT ![h] =
                     [handlers[h] EXCEPT !.pc = "fail", !.terminal = terminal]]
  BY DEF Fails
<1> QED
  BY <1>1, <1>2 DEF Proceeds, OthersWait, Handler

LEMMA AnswersLeaves ==
  ASSUME handlers \in [Handlers -> Handler], NEW h \in Handlers, Answers(h)
  PROVE  Leaves(h)
  BY IdleIsHandler DEF Answers, Leaves, OthersWait

LEMMA TakesStarts ==
  ASSUME handlers \in [Handlers -> Handler], NEW h \in Handlers, NEW i \in Nat, Takes(h, i)
  PROVE  Starts(h, i)
<1>1. AfterCreate(h) \in Places
  BY DEF AfterCreate, Places, OnRow, Working
<1>2. /\ handlers[h] \in Handler
      /\ [handlers[h] EXCEPT !.row = i, !.pc = AfterCreate(h), !.attempt = 1] \in Handler
  BY <1>1 DEF Handler
<1>3. handlers' = [handlers EXCEPT ![h] =
                     [handlers[h] EXCEPT !.row = i, !.pc = AfterCreate(h), !.attempt = 1]]
  BY DEF Takes
<1> QED
  BY <1>2, <1>3 DEF Starts, OthersWait, Handler

LEMMA SetStatusSets ==
  ASSUME rows \in [RowIds -> Row], NEW i \in RowIds, NEW s \in RowStatuses,
         SetStatus(i, s), rowCount' = rowCount
  PROVE  RowBecomes(i, s)
<1>1. rows[i] \in Row /\ [rows[i] EXCEPT !.status = s] \in Row
  BY DEF Row
<1>2. rows' = [rows EXCEPT ![i] = [rows[i] EXCEPT !.status = s]]
  BY DEF SetStatus
<1> QED
  BY <1>1, <1>2 DEF RowBecomes, Row

LEMMA OthersAreIdle ==
  ASSUME TableInv
  PROVE  \A h \in Handlers : handlers[h] \in Handler /\ handlers[h].pc \in Places
  BY DEF TableInv, OracleTypeOK, Handler

LEMMA AskStep ==
  ASSUME TableInv, NEW h \in Handlers, NEW type \in TriggerTypes, NEW redrive \in BOOLEAN,
         redrive => Redrives, executeTrigger(h, type, redrive)
  PROVE  Asks(h, type, redrive)
<1> DEFINE exhausted ==
             redrive /\ Latest(type) # 0 /\ rows[Latest(type)].status = "EXHAUSTED_NEEDS_REDRIVE"
           new == [IdleHandler EXCEPT !.type = type, !.redrive = redrive,
                     !.row = IF exhausted THEN Latest(type) ELSE 0,
                     !.settled = SettledRows(type),
                     !.pc  = IF exhausted THEN "recheck" ELSE "validate"]
<1>1. Latest(type) \in Nat
  BY LatestIs
<1>2. new \in Handler
  BY <1>1, IdleIsHandler DEF Handler, IdleHandler, Places, OnRow, ActionTypes, SettledRows
<1>3. handlers' = [handlers EXCEPT ![h] = new]
  BY DEF executeTrigger
<1>4. handlers \in [Handlers -> Handler]
  BY DEF TableInv, OracleTypeOK
<1>5. OthersWait(h) /\ handlers'[h] = new
  BY <1>2, <1>3, <1>4 DEF OthersWait
<1>6. /\ new.type = type /\ new.redrive = redrive /\ new.settled = SettledRows(type)
      /\ \/ new.pc = "validate"
         \/ new.pc = "recheck" /\ redrive /\ Latest(type) # 0 /\ new.row = Latest(type)
  BY DEF IdleHandler
<1> HIDE DEF new
<1> QED
  BY <1>5, <1>6 DEF Asks, executeTrigger, RowsStay, ChainGrows

LEMMA CreateStep ==
  ASSUME TableInv, NEW h \in Handlers, createTrigger(h)
  PROVE  Creates(h) \/ Moves(h, "reuse")
<1> USE DEF TableInv, OracleTypeOK
<1>1. handlers[h].pc = "create" /\ handlers[h].type \in TriggerTypes
  BY DEF createTrigger, OwnRows
<1>2. CASE Active(handlers[h].type) = {} /\ Inserts(h, "PENDING")
  <2>1. h \in Askers
    BY <1>1 DEF Askers, Asking
  <2>2. IsFiniteSet(Askers)
    BY FS_Subset, OracleAssumption DEF Askers
  <2>3. Cardinality(Askers) >= 1
    <3>1. Cardinality({h}) = 1 /\ {h} \subseteq Askers
      BY <2>1, FS_Singleton
    <3>2. Cardinality({h}) <= Cardinality(Askers)
      BY <2>2, <3>1, FS_Subset
    <3>3. Cardinality(Askers) \in Nat
      BY <2>2, FS_CardinalityType
    <3> QED
      BY <3>1, <3>2, <3>3
  <2>4. rowCount + 1 \in RowIds
    <3>1. Cardinality(Askers) \in Nat
      BY <2>2, FS_CardinalityType
    <3> QED
      BY <2>3, <3>1, OracleAssumption DEF Counted, RowIds
  <2>5. NewRow(handlers[h].type) \in Row
    BY <1>1 DEF NewRow, Row, ActionTypes, RowStatuses, ActiveStatus
  <2>6. /\ rows' = [rows EXCEPT ![rowCount + 1] = NewRow(handlers[h].type)]
        /\ rowCount' = rowCount + 1
        /\ Takes(h, rowCount + 1)
    BY <1>2 DEF Inserts, NewRow
  <2>7. Starts(h, rowCount + 1)
    BY <2>6, TakesStarts
  <2>8. /\ rows' \in [RowIds -> Row]
        /\ rows'[rowCount + 1] = NewRow(handlers[h].type)
        /\ \A j \in RowIds \ {rowCount + 1} : rows'[j] = rows[j]
    BY <2>4, <2>5, <2>6
  <2> QED
    BY <1>1, <1>2, <2>4, <2>6, <2>7, <2>8
    DEF Creates, createTrigger, RequestsStay, ChainGrows
<1>3. CASE Active(handlers[h].type) # {} /\ GoesOn(h, "reuse") /\ UNCHANGED <<rows, rowCount>>
  <2>1. Proceeds(h, "reuse")
    BY <1>3, GoesOnProceeds DEF Places
  <2> QED
    BY <1>1, <1>3, <2>1 DEF Moves, createTrigger, RowsStay, RequestsStay, ChainGrows
<1> QED
  BY <1>2, <1>3 DEF createTrigger

LEMMA ReuseStep ==
  ASSUME TableInv, NEW h \in Handlers, ReuseLatest(h)
  PROVE  Reuses(h)
<1>1. Starts(h, Latest(handlers[h].type))
  BY LatestIs, TakesStarts DEF ReuseLatest, TableInv, OracleTypeOK
<1> QED
  BY <1>1 DEF Reuses, ReuseLatest, RowsStay, RequestsStay, ChainGrows

LEMMA ReadStep ==
  ASSUME TableInv, NEW h \in Handlers,
         ValidateTrade(h) \/ RecheckTrade(h) \/ Attempt(h)
  PROVE  Ends(h) \/ \E pc \in Places : Moves(h, pc)
<1> USE DEF TableInv, OracleTypeOK, RowsStay, RequestsStay, ChainGrows
<1>0. /\ {"create", "confirm", "mark", "fail"} \subseteq Places
      /\ handlers \in [Handlers -> Handler]
  BY DEF Places, OnRow, Working
<1>1. CASE ValidateTrade(h)
  <2>1. GoesOn(h, "create") \/ Answers(h)
    BY <1>1 DEF ValidateTrade
  <2>2. Proceeds(h, "create") \/ Leaves(h)
    BY <1>0, <2>1, GoesOnProceeds, AnswersLeaves
  <2> QED
    BY <1>0, <1>1, <2>2 DEF ValidateTrade, Moves, Ends
<1>2. CASE RecheckTrade(h)
  <2>1. GoesOn(h, "create") \/ GoesOn(h, "confirm") \/ Answers(h)
    BY <1>2 DEF RecheckTrade
  <2>2. Proceeds(h, "create") \/ Proceeds(h, "confirm") \/ Leaves(h)
    BY <1>0, <2>1, GoesOnProceeds, AnswersLeaves
  <2> QED
    BY <1>0, <1>2, <2>2 DEF RecheckTrade, Moves, Ends
<1>3. CASE Attempt(h)
  <2>1. \/ Answers(h) /\ handlers[h].attempt > MaxAttempts
        \/ GoesOn(h, "mark") \/ Fails(h, TRUE) \/ Fails(h, FALSE)
    BY <1>3 DEF Attempt
  <2>2. \/ Leaves(h) /\ handlers[h].attempt > MaxAttempts
        \/ Proceeds(h, "mark") \/ Proceeds(h, "fail")
    BY <1>0, <2>1, GoesOnProceeds, AnswersLeaves, FailsProceeds
  <2> QED
    BY <1>0, <1>3, <2>2 DEF Attempt, Moves, Ends
<1> QED
  BY <1>1, <1>2, <1>3

LEMMA MilestoneGrows ==
  ASSUME NEW type, Milestone(type)
  PROVE  ChainGrows /\ type \in done'
  BY DEF Milestone, ChainGrows

LEMMA SendStep ==
  ASSUME TableInv, NEW h \in Handlers, executeBlockchainAction(h)
  PROVE  \E pc \in Places : Moves(h, pc)
<1> USE DEF TableInv, OracleTypeOK, RowsStay, RequestsStay
<1>0. /\ {"record", "fail"} \subseteq Places
      /\ handlers \in [Handlers -> Handler]
      /\ handlers[h].pc = "send"
  BY DEF Places, OnRow, Working, executeBlockchainAction
<1>1. CASE Executes(handlers[h].type) /\ GoesOn(h, "record")
  <2>1. Milestone(handlers[h].type)
    BY <1>1 DEF Executes, releaseFundsStage1, sdkConfirmArrival, finalizeAfterDisputeWindow
  <2>2. ChainGrows /\ handlers[h].type \in done'
    BY <2>1, MilestoneGrows
  <2>3. Proceeds(h, "record")
    BY <1>0, <1>1, GoesOnProceeds
  <2> QED
    BY <1>0, <2>2, <2>3 DEF executeBlockchainAction, Moves
<1>2. CASE UNCHANGED chainVars /\ \E terminal \in BOOLEAN : Fails(h, terminal)
  <2>1. Proceeds(h, "fail")
    BY <1>0, <1>2, FailsProceeds
  <2>2. ChainGrows
    BY <1>2 DEF ChainGrows
  <2> QED
    BY <1>0, <2>1, <2>2 DEF executeBlockchainAction, Moves
<1> QED
  BY <1>1, <1>2 DEF executeBlockchainAction

LEMMA OnRowIsRow ==
  ASSUME TableInv, NEW h \in Handlers, handlers[h].pc \in OnRow
  PROVE  /\ handlers[h].row \in Made /\ handlers[h].row \in RowIds
         /\ rows[handlers[h].row].type = handlers[h].type
         /\ handlers[h].type \in TriggerTypes
<1>1. handlers[h].pc # "idle"
  BY DEF OnRow, Working
<1> QED
  BY <1>1, MadeAreRows DEF TableInv, OwnRows

LEMMA GateStep ==
  ASSUME TableInv, NEW h \in Handlers, AwaitApproval(h)
  PROVE  Ends(h) \/ \E s \in RowStatuses : Writes(h, s)
<1> USE DEF TableInv, OracleTypeOK, RowsStay, RequestsStay, ChainGrows
<1>1. Leaves(h) /\ handlers[h].pc = "gate"
  BY AnswersLeaves DEF AwaitApproval
<1>2. handlers[h].row \in RowIds
  BY <1>1, OnRowIsRow DEF OnRow, Working
<1>3. CASE IndexAllows(handlers[h].row, "PENDING_APPROVAL")
  <2>1. "PENDING_APPROVAL" \in RowStatuses
    BY DEF RowStatuses, ActiveStatus
  <2>2. SetStatus(handlers[h].row, "PENDING_APPROVAL") /\ rowCount' = rowCount
    BY <1>3 DEF AwaitApproval
  <2>3. RowBecomes(handlers[h].row, "PENDING_APPROVAL")
    BY <1>2, <2>1, <2>2, SetStatusSets
  <2>4. Writes(h, "PENDING_APPROVAL")
    BY <1>1, <1>3, <2>3 DEF Writes, AwaitApproval
  <2> QED
    BY <2>1, <2>4
<1>4. CASE ~IndexAllows(handlers[h].row, "PENDING_APPROVAL")
  BY <1>1, <1>4 DEF AwaitApproval, Ends
<1> QED
  BY <1>3, <1>4

LEMMA MarkStep ==
  ASSUME TableInv, NEW h \in Handlers, MarkExecuting(h)
  PROVE  (\E pc \in Places : Moves(h, pc)) \/ \E s \in RowStatuses : Writes(h, s)
<1> USE DEF TableInv, OracleTypeOK, RowsStay, RequestsStay, ChainGrows
<1>0. /\ {"send", "fail"} \subseteq Places
      /\ handlers \in [Handlers -> Handler]
      /\ handlers[h].pc = "mark"
      /\ "EXECUTING" \in RowStatuses
  BY DEF Places, OnRow, Working, MarkExecuting, RowStatuses, ActiveStatus
<1>1. handlers[h].row \in RowIds
  BY <1>0, OnRowIsRow DEF OnRow, Working
<1>2. CASE /\ IndexAllows(handlers[h].row, "EXECUTING")
           /\ SetStatus(handlers[h].row, "EXECUTING") /\ GoesOn(h, "send")
  <2>1. RowBecomes(handlers[h].row, "EXECUTING")
    BY <1>0, <1>1, <1>2, SetStatusSets DEF MarkExecuting
  <2>2. Proceeds(h, "send")
    BY <1>0, <1>2, GoesOnProceeds
  <2>3. Writes(h, "EXECUTING")
    BY <1>0, <1>2, <2>1, <2>2 DEF Writes, MarkExecuting
  <2> QED
    BY <1>0, <2>3
<1>3. CASE Fails(h, FALSE) /\ UNCHANGED rows
  <2>1. Proceeds(h, "fail")
    BY <1>0, <1>3, FailsProceeds
  <2>2. Moves(h, "fail")
    BY <1>0, <1>3, <2>1 DEF Moves, MarkExecuting
  <2> QED
    BY <1>0, <2>2
<1> QED
  BY <1>2, <1>3 DEF MarkExecuting

LEMMA SubmittedIsRow ==
  ASSUME NEW r \in Row
  PROVE  [r EXCEPT !.status = "SUBMITTED", !.tx = TRUE, !.age = 0] \in Row
<1>1. [r EXCEPT !.status = "SUBMITTED"] \in Row
  BY DEF Row, RowStatuses, ActiveStatus
<1>2. ASSUME NEW q \in Row
      PROVE  [q EXCEPT !.tx = TRUE] \in Row
  BY DEF Row
<1>3. ASSUME NEW q \in Row
      PROVE  [q EXCEPT !.age = 0] \in Row
  BY DEF Row
<1> QED
  BY <1>1, <1>2, <1>3

LEMMA RecordStep ==
  ASSUME TableInv, NEW h \in Handlers, RecordSubmitted(h)
  PROVE  (\E pc \in Places : Moves(h, pc)) \/ \E s \in RowStatuses : Writes(h, s)
<1> USE DEF TableInv, OracleTypeOK, RowsStay, RequestsStay, ChainGrows
<1> DEFINE i == handlers[h].row
<1>0. /\ "fail" \in Places
      /\ handlers \in [Handlers -> Handler]
      /\ handlers[h].pc = "record"
      /\ "SUBMITTED" \in RowStatuses
  BY DEF Places, OnRow, Working, RecordSubmitted, RowStatuses, ActiveStatus
<1>1. i \in RowIds
  BY <1>0, OnRowIsRow DEF OnRow, Working
<1>2. CASE /\ IndexAllows(i, "SUBMITTED")
           /\ rows' = [rows EXCEPT ![i].status = "SUBMITTED", ![i].tx = TRUE, ![i].age = 0]
           /\ Answers(h)
  <2>0. rows[i] \in Row
    BY <1>1
  <2>1. rows[i] \in Row /\ [rows[i] EXCEPT !.status = "SUBMITTED", !.tx = TRUE, !.age = 0] \in Row
    BY <2>0, SubmittedIsRow
  <2>2. rows' = [rows EXCEPT ![i] =
                   [rows[i] EXCEPT !.status = "SUBMITTED", !.tx = TRUE, !.age = 0]]
    BY <1>2
  <2>3. RowBecomes(i, "SUBMITTED")
    BY <1>1, <2>1, <2>2 DEF RowBecomes, Row, RecordSubmitted
  <2>4. Leaves(h)
    BY <1>0, <1>2, AnswersLeaves
  <2>5. Writes(h, "SUBMITTED")
    BY <1>0, <1>2, <2>3, <2>4 DEF Writes, RecordSubmitted
  <2> QED
    BY <1>0, <2>5
<1>3. CASE Fails(h, FALSE) /\ UNCHANGED rows
  <2>1. Proceeds(h, "fail")
    BY <1>0, <1>3, FailsProceeds
  <2>2. Moves(h, "fail")
    BY <1>0, <1>3, <2>1 DEF Moves, RecordSubmitted
  <2> QED
    BY <1>0, <2>2
<1> QED
  BY <1>2, <1>3 DEF RecordSubmitted

LEMMA FailureStep ==
  ASSUME TableInv, NEW h \in Handlers, HandleFailure(h)
  PROVE  \E s \in RowStatuses : Writes(h, s)
<1> USE DEF TableInv, OracleTypeOK, RequestsStay, ChainGrows
<1> DEFINE s == determineNextStatus(handlers[h].terminal, handlers[h].attempt)
           retry == [handlers[h] EXCEPT !.pc = "attempt", !.attempt = @ + 1, !.terminal = FALSE]
<1>0. handlers[h] \in Handler
  OBVIOUS
<1>1. /\ handlers[h].pc = "fail"
      /\ SetStatus(handlers[h].row, s)
      /\ handlers' = [handlers EXCEPT ![h] =
           IF s = "FAILED" /\ handlers[h].attempt < MaxAttempts THEN retry ELSE IdleHandler]
  <2>1. handlers[h].pc = "fail" /\ SetStatus(handlers[h].row, s)
    BY DEF HandleFailure
  <2>2. CASE s = "FAILED" /\ handlers[h].attempt < MaxAttempts
    <3>1. handlers' = [handlers EXCEPT ![h] = retry]
      BY <2>2 DEF HandleFailure
    <3> QED
      BY <2>1, <2>2, <3>1
  <2>3. CASE ~(s = "FAILED" /\ handlers[h].attempt < MaxAttempts)
    <3>1. handlers' = [handlers EXCEPT ![h] = IdleHandler]
      BY <2>3 DEF HandleFailure
    <3> QED
      BY <2>1, <2>3, <3>1
  <2> QED
    BY <2>2, <2>3
<1>2. /\ s \in {"TERMINAL_FAILURE", "EXHAUSTED_NEEDS_REDRIVE", "FAILED"}
      /\ s = "FAILED" => handlers[h].attempt < MaxAttempts
  <2>1. handlers[h].attempt \in Nat /\ handlers[h].terminal \in BOOLEAN /\ MaxAttempts \in Int
    BY <1>0, OracleAssumption DEF Handler
  <2>2. CASE handlers[h].terminal
    <3>1. s = "TERMINAL_FAILURE"
      BY <2>2, Zenon DEF determineNextStatus
    <3> QED
      BY <3>1
  <2>3. CASE ~handlers[h].terminal /\ handlers[h].attempt >= MaxAttempts
    <3>1. s = "EXHAUSTED_NEEDS_REDRIVE"
      BY <2>3, Zenon DEF determineNextStatus
    <3> QED
      BY <3>1
  <2>4. CASE ~handlers[h].terminal /\ ~(handlers[h].attempt >= MaxAttempts)
    <3>1. s = "FAILED"
      BY <2>4, Zenon DEF determineNextStatus
    <3> QED
      BY <2>1, <2>4, <3>1
  <2> QED
    BY <2>2, <2>3, <2>4
<1> HIDE DEF s
<1>3. handlers[h].row \in RowIds
  BY <1>1, OnRowIsRow DEF OnRow, Working
<1>4. s \in RowStatuses
  BY <1>2 DEF RowStatuses
<1>5. RowBecomes(handlers[h].row, s)
  BY <1>1, <1>3, <1>4, SetStatusSets DEF HandleFailure
<1>6. retry \in Handler
  <2>1. "attempt" \in Places /\ handlers[h].attempt + 1 \in Nat
    BY <1>0 DEF Handler, Places, OnRow, Working
  <2> QED
    BY <1>0, <2>1 DEF Handler
<1>7. CASE s = "FAILED"
  <2>1. handlers' = [handlers EXCEPT ![h] = retry]
    BY <1>1, <1>2, <1>7
  <2>2. OthersWait(h) /\ handlers'[h] = retry
    BY <1>6, <2>1 DEF OthersWait
  <2>3. /\ retry.pc = "attempt" /\ retry.type = handlers[h].type
        /\ retry.redrive = handlers[h].redrive /\ retry.row = handlers[h].row
        /\ retry.attempt = handlers[h].attempt + 1 /\ retry.settled = handlers[h].settled
    BY <1>0 DEF Handler
  <2> HIDE DEF retry
  <2>4. Writes(h, s)
    BY <1>1, <1>2, <1>5, <1>7, <2>2, <2>3 DEF Writes, HandleFailure
  <2> QED
    BY <1>4, <2>4
<1>8. CASE s # "FAILED"
  <2>1. handlers' = [handlers EXCEPT ![h] = IdleHandler]
    BY <1>1, <1>8
  <2>2. Leaves(h)
    BY <2>1, IdleIsHandler DEF Leaves, OthersWait
  <2>3. Writes(h, s)
    BY <1>1, <1>2, <1>5, <1>8, <2>2 DEF Writes, HandleFailure
  <2> QED
    BY <1>4, <2>3
<1> QED
  BY <1>7, <1>8

LEMMA ConfirmStep ==
  ASSUME TableInv, NEW h \in Handlers, ConfirmRedriven(h)
  PROVE  \E s \in RowStatuses : Writes(h, s)
<1> USE DEF TableInv, OracleTypeOK, RequestsStay, ChainGrows
<1>1. handlers[h].pc = "confirm" /\ "CONFIRMED" \in RowStatuses /\ Leaves(h)
  BY AnswersLeaves DEF ConfirmRedriven, RowStatuses
<1>2. handlers[h].row \in RowIds
  BY <1>1, OnRowIsRow DEF OnRow
<1>3. RowBecomes(handlers[h].row, "CONFIRMED")
  BY <1>1, <1>2, SetStatusSets DEF ConfirmRedriven
<1>4. Writes(h, "CONFIRMED")
  BY <1>1, <1>3 DEF Writes, ConfirmRedriven
<1> QED
  BY <1>1, <1>4

LEMMA ActiveIsMade ==
  ASSUME TableInv, NEW i \in RowIds, rows[i].status # "none"
  PROVE  i \in Made /\ rows[i].type \in TriggerTypes
  BY DEF TableInv, RowsMade, NoRow

LEMMA ApproveStep ==
  ASSUME TableInv, NEW h \in Handlers, NEW i \in RowIds, resumeAfterApproval(h, i)
  PROVE  Approves(h, i)
<1> USE DEF TableInv, OracleTypeOK, RequestsStay, ChainGrows
<1> DEFINE r == [rows[i] EXCEPT !.status = "PENDING", !.approved = TRUE]
           q == [IdleHandler EXCEPT !.pc = "attempt", !.type = rows[i].type, !.row = i,
                                    !.attempt = 1, !.settled = SettledRows(rows[i].type)]
<1>0. rows[i] \in Row
  OBVIOUS
<1>1. r \in Row
  <2>1. [rows[i] EXCEPT !.status = "PENDING"] \in Row
    BY <1>0 DEF Row, RowStatuses, ActiveStatus
  <2>2. ASSUME NEW s \in Row
        PROVE  [s EXCEPT !.approved = TRUE] \in Row
    BY DEF Row
  <2> QED
    BY <2>1, <2>2
<1>2. rows' = [rows EXCEPT ![i] = r]
  BY DEF resumeAfterApproval, ApproveRow
<1>3. /\ r.status = "PENDING" /\ r.approved
      /\ r.type = rows[i].type /\ r.tx = rows[i].tx
  BY <1>0 DEF Row
<1>4. i \in Nat /\ rows[i].type \in ActionTypes
  BY <1>0, OracleAssumption DEF RowIds, Row
<1>5. q \in Handler
  BY <1>4, IdleIsHandler DEF Handler, IdleHandler, Places, OnRow, Working, SettledRows
<1>6. handlers' = [handlers EXCEPT ![h] = q]
  BY DEF resumeAfterApproval
<1>7. /\ q.pc = "attempt" /\ q.type = rows[i].type /\ q.row = i /\ q.attempt = 1 /\ ~q.redrive
      /\ q.settled = SettledRows(rows[i].type)
  BY DEF IdleHandler
<1> HIDE DEF r, q
<1>8. OthersWait(h) /\ handlers'[h] = q
  BY <1>5, <1>6 DEF OthersWait
<1>9. /\ rows' \in [RowIds -> Row] /\ rows'[i] = r
      /\ \A j \in RowIds \ {i} : rows'[j] = rows[j]
  BY <1>1, <1>2
<1> QED
  BY <1>3, <1>7, <1>8, <1>9 DEF resumeAfterApproval, ApproveRow, Approves

LEMMA RejectStep ==
  ASSUME TableInv, NEW i \in RowIds, rejectPendingTrigger(i)
  PROVE  Rejects(i)
<1> USE DEF TableInv, OracleTypeOK, RequestsStay, ChainGrows
<1>1. "REJECTED" \in RowStatuses
  BY DEF RowStatuses
<1>2. RowBecomes(i, "REJECTED")
  BY <1>1, SetStatusSets DEF rejectPendingTrigger, RejectRow
<1> QED
  BY <1>2 DEF rejectPendingTrigger, RejectRow, Rejects

LEMMA PollStepReads ==
  ASSUME TableInv, NEW p \in Polls, pollConfirmations(p)
  PROVE  Reads(p)
<1> USE DEF TableInv, OracleTypeOK, RequestsStay, ChainGrows, RowsStay
<1> DEFINE read == {[id |-> i, age |-> rows[i].age] :
                      i \in {j \in RowIds : rows[j].status = "SUBMITTED"}}
           new == [polls[p] EXCEPT !.batch = read]
<1>1. read \in SUBSET Entry
  <2>1. \A i \in RowIds : rows[i].age \in Int
    BY DEF Row
  <2> QED
    BY <2>1 DEF Entry
<1>2. /\ \A e \in read : rows[e.id].status = "SUBMITTED"
      /\ \A e, f \in read : e.id = f.id => e = f
  OBVIOUS
<1>3. polls[p] = IdlePoll /\ polls[p] \in Poll /\ polls' = [polls EXCEPT ![p] = new]
  BY DEF pollConfirmations
<1> HIDE DEF read
<1>4. new \in Poll /\ new.batch = read /\ new.verdict = "none"
  BY <1>1, <1>3 DEF Poll, IdlePoll
<1> HIDE DEF new
<1>5. /\ polls' \in [Polls -> Poll] /\ polls'[p] = new
      /\ \A q \in Polls \ {p} : polls'[q] = polls[q]
  BY <1>3, <1>4
<1> QED
  BY <1>2, <1>3, <1>4, <1>5 DEF pollConfirmations, Reads

LEMMA PollStepChecks ==
  ASSUME TableInv, NEW p \in Polls, checkConfirmation(p)
  PROVE  Checks(p)
<1> USE DEF TableInv, OracleTypeOK, RequestsStay, ChainGrows, RowsStay
<1>1. polls[p].batch # {} /\ polls[p].verdict = "none" /\ polls[p] \in Poll
  BY DEF checkConfirmation
<1> DEFINE confirmed == [polls[p] EXCEPT !.verdict = "CONFIRMED"]
           exhausted == [polls[p] EXCEPT !.verdict = "EXHAUSTED_NEEDS_REDRIVE"]
           passed    == [polls[p] EXCEPT !.batch = @ \ {Head(p)}]
<1>2. \E new \in {confirmed, exhausted, passed} : polls' = [polls EXCEPT ![p] = new]
  <2>1. PICK advanced \in tryOnChainFallback(Head(p)), found \in findConfirmationEvent(Head(p)) :
          polls' = [polls EXCEPT ![p] =
            CASE advanced                                 -> [@ EXCEPT !.verdict = "CONFIRMED"]
              [] ~advanced /\ TimedOut(Head(p))           -> [@ EXCEPT !.verdict = "EXHAUSTED_NEEDS_REDRIVE"]
              [] ~advanced /\ ~TimedOut(Head(p)) /\ found -> [@ EXCEPT !.verdict = "CONFIRMED"]
              [] OTHER -> [polls[p] EXCEPT !.batch = @ \ {Head(p)}]]
    BY Zenon DEF checkConfirmation
  <2>2. advanced \in BOOLEAN /\ found \in BOOLEAN
    BY DEF tryOnChainFallback, findConfirmationEvent
  <2>3. CASE advanced
    BY <2>1, <2>3
  <2>4. CASE ~advanced /\ TimedOut(Head(p))
    BY <2>1, <2>4
  <2>5. CASE ~advanced /\ ~TimedOut(Head(p)) /\ found
    BY <2>1, <2>5
  <2>6. CASE ~advanced /\ ~TimedOut(Head(p)) /\ ~found
    BY <2>1, <2>6
  <2> QED
    BY <2>3, <2>4, <2>5, <2>6
<1>3. /\ confirmed \in Poll /\ confirmed.batch = polls[p].batch
      /\ exhausted \in Poll /\ exhausted.batch = polls[p].batch
      /\ passed \in Poll /\ passed.batch \subseteq polls[p].batch /\ passed.verdict = "none"
  BY <1>1 DEF Poll
<1> HIDE DEF confirmed, exhausted, passed
<1>4. /\ polls' \in [Polls -> Poll]
      /\ polls'[p] \in {confirmed, exhausted, passed}
      /\ \A q \in Polls \ {p} : polls'[q] = polls[q]
  BY <1>2, <1>3
<1> QED
  BY <1>1, <1>3, <1>4 DEF checkConfirmation, Checks

LEMMA PollStepJudges ==
  ASSUME TableInv, NEW p \in Polls, WriteVerdict(p)
  PROVE  Judges(p)
<1> USE DEF TableInv, OracleTypeOK, RequestsStay, ChainGrows
<1> DEFINE new == [polls[p] EXCEPT !.batch = @ \ {Head(p)}, !.verdict = "none"]
<1>1. polls[p].verdict # "none" /\ polls[p].batch # {} /\ polls[p] \in Poll
  BY DEF WriteVerdict, Batches
<1>2. Head(p) \in polls[p].batch /\ Head(p).id \in RowIds
  <2>1. Head(p) \in polls[p].batch
    BY <1>1, HeadIs
  <2> QED
    BY <1>1, <2>1 DEF Poll, Entry
<1>3. polls[p].verdict \in RowStatuses
  BY <1>1 DEF Poll, RowStatuses
<1>4. RowBecomes(Head(p).id, polls[p].verdict)
  BY <1>2, <1>3, SetStatusSets DEF WriteVerdict
<1>5. polls' = [polls EXCEPT ![p] = new]
  BY DEF WriteVerdict
<1>6. new \in Poll /\ new.batch = polls[p].batch \ {Head(p)} /\ new.verdict = "none"
  BY <1>1 DEF Poll
<1> HIDE DEF new
<1>7. /\ polls' \in [Polls -> Poll] /\ polls'[p] = new
      /\ \A q \in Polls \ {p} : polls'[q] = polls[q]
  BY <1>5, <1>6
<1> QED
  BY <1>1, <1>2, <1>4, <1>6, <1>7 DEF WriteVerdict, Judges

LEMMA AgedIs ==
  /\ \A r \in Row : /\ Aged(r) \in Row
                    /\ Aged(r).type = r.type /\ Aged(r).status = r.status
                    /\ Aged(r).tx = r.tx /\ Aged(r).approved = r.approved
  /\ \A e \in Entry : Aged(e) \in Entry /\ Aged(e).id = e.id
<1>1. ASSUME NEW r \in Row
      PROVE  /\ Aged(r) \in Row
             /\ Aged(r).type = r.type /\ Aged(r).status = r.status
             /\ Aged(r).tx = r.tx /\ Aged(r).approved = r.approved
  <2>1. r.age \in Int
    BY DEF Row
  <2>2. Older(r.age) \in Int
    BY <2>1, OlderIs
  <2> QED
    BY <2>2 DEF Aged, Row
<1>2. ASSUME NEW e \in Entry
      PROVE  Aged(e) \in Entry /\ Aged(e).id = e.id
  <2>1. e.age \in Int
    BY DEF Entry
  <2>2. Older(e.age) \in Int
    BY <2>1, OlderIs
  <2> QED
    BY <2>2 DEF Aged, Entry
<1> QED
  BY <1>1, <1>2

LEMMA TickStep ==
  ASSUME TableInv, Tick
  PROVE  Ages
<1> USE DEF TableInv, OracleTypeOK, RequestsStay, ChainGrows
<1>1. rows' = [i \in RowIds |->
                 IF rows[i].status = "SUBMITTED" THEN Aged(rows[i]) ELSE rows[i]]
  BY DEF Tick
<1>2. \A i \in RowIds : rows[i] \in Row /\ (rows[i] = NoRow => rows[i].status # "SUBMITTED")
  BY DEF NoRow
<1>3. /\ rows' \in [RowIds -> Row]
      /\ \A i \in RowIds :
           /\ rows'[i].type = rows[i].type /\ rows'[i].status = rows[i].status
           /\ rows'[i].tx = rows[i].tx /\ rows'[i].approved = rows[i].approved
           /\ rows[i] = NoRow => rows'[i] = NoRow
  BY <1>1, <1>2, AgedIs
<1>4. ASSUME NEW p \in Polls
      PROVE  /\ polls'[p] \in Poll
             /\ polls'[p].verdict = polls[p].verdict
             /\ polls'[p].batch = {Aged(e) : e \in polls[p].batch}
  <2> DEFINE batch == {Aged(e) : e \in polls[p].batch}
  <2>1. polls[p] \in Poll
    OBVIOUS
  <2>2. batch \subseteq Entry
    BY <2>1, AgedIs DEF Poll
  <2>3. polls'[p] = [polls[p] EXCEPT !.batch = batch]
    BY DEF Tick
  <2> HIDE DEF batch
  <2>4. /\ polls'[p] \in Poll
        /\ polls'[p].verdict = polls[p].verdict
        /\ polls'[p].batch = batch
    BY <2>1, <2>2, <2>3 DEF Poll
  <2> QED
    BY <2>4 DEF batch
<1>5. polls' = [p \in Polls |-> polls'[p]]
  BY DEF Tick
<1>6. polls' \in [Polls -> Poll]
  BY <1>4, <1>5
<1>7. \A p \in Polls :
        /\ polls'[p].verdict = polls[p].verdict
        /\ \A e \in polls'[p].batch : \E f \in polls[p].batch : e = Aged(f)
        /\ \A e \in polls[p].batch : Aged(e) \in polls'[p].batch
  BY <1>4
<1>8. rowCount' = rowCount /\ handlers' = handlers /\ RequestsStay /\ ChainGrows
  BY DEF Tick
<1> QED
  BY <1>3, <1>6, <1>7, <1>8 DEF Ages

LEMMA StepKinds ==
  ASSUME TableInv, Next
  PROVE  Happens
<1> USE DEF TableInv, OracleTypeOK
<1>1. ASSUME NEW h \in Handlers, HandlerStep(h)
      PROVE  Happens
  <2>1. CASE releaseStage1(h) \/ confirmArrival(h) \/ finalizeTrade(h) \/ redriveTrigger(h)
    <3>1. PICK type \in TriggerTypes, redrive \in BOOLEAN :
            executeTrigger(h, type, redrive) /\ (redrive => Redrives)
      BY <2>1, OracleAssumption
      DEF releaseStage1, confirmArrival, finalizeTrade, redriveTrigger, TriggerTypes
    <3>2. Asks(h, type, redrive)
      BY <3>1, AskStep
    <3> QED
      BY <3>2 DEF Happens
  <2>2. CASE ValidateTrade(h) \/ RecheckTrade(h) \/ Attempt(h)
    BY <2>2, ReadStep DEF Happens
  <2>3. CASE createTrigger(h)
    BY <2>3, CreateStep DEF Happens, Places
  <2>4. CASE ReuseLatest(h)
    BY <2>4, ReuseStep DEF Happens
  <2>5. CASE AwaitApproval(h)
    BY <2>5, GateStep DEF Happens
  <2>6. CASE MarkExecuting(h)
    BY <2>6, MarkStep DEF Happens
  <2>7. CASE executeBlockchainAction(h)
    BY <2>7, SendStep DEF Happens
  <2>8. CASE RecordSubmitted(h)
    BY <2>8, RecordStep DEF Happens
  <2>9. CASE HandleFailure(h)
    BY <2>9, FailureStep DEF Happens
  <2>10. CASE ConfirmRedriven(h)
    BY <2>10, ConfirmStep DEF Happens
  <2>11. CASE approveTrigger(h)
    BY <2>11, ApproveStep DEF Happens, approveTrigger
  <2> QED
    BY <1>1, <2>1, <2>2, <2>3, <2>4, <2>5, <2>6, <2>7, <2>8, <2>9, <2>10, <2>11
    DEF HandlerStep
<1>2. CASE rejectTrigger
  BY <1>2, RejectStep DEF rejectTrigger, Happens
<1>3. ASSUME NEW p \in Polls, PollStep(p)
      PROVE  Happens
  BY <1>3, PollStepReads, PollStepChecks, PollStepJudges DEF PollStep, Happens
<1>4. CASE Tick
  BY <1>4, TickStep DEF Happens
<1>5. ASSUME NEW type \in TriggerTypes, Lands(type)
      PROVE  Happens
  <2>1. ChainGrows
    BY <1>5, MilestoneGrows DEF Lands, ChainGrows
  <2> QED
    BY <1>5, <2>1 DEF Lands, Rests, Happens, RowsStay, RequestsStay
<1>6. CASE Crash
  BY <1>6 DEF Crash, Dies, Happens, RowsStay, ChainGrows
<1>7. CASE OthersAct
  <2>1. ChainGrows
    BY <1>7, MilestoneGrows
    DEF OthersAct, ChainGrows, Create, Withdraw, Dispute, Decide, WindowPasses, Switch
  <2> QED
    BY <1>7, <2>1 DEF OthersAct, Rests, Happens, RowsStay, RequestsStay
<1> QED
  BY <1>1, <1>2, <1>3, <1>4, <1>5, <1>6, <1>7 DEF Next

-------------------------------------------------------------------------------
(* The table and the requests stay in order *)

LEMMA TableInit == Init => TableInv
<1> SUFFICES ASSUME Init PROVE TableInv
  OBVIOUS
<1>1. NoRow \in Row /\ IdlePoll \in Poll /\ IdleHandler \in Handler
  BY IdleIsHandler
  DEF NoRow, Row, ActionTypes, RowStatuses, ActiveStatus, IdlePoll, Poll
<1>2. OracleTypeOK
  BY <1>1 DEF Init, OracleTypeOK
<1>3. /\ \A h \in Handlers : handlers[h] = IdleHandler
      /\ \A p \in Polls : polls[p].batch = {} /\ polls[p].verdict = "none"
      /\ \A i \in RowIds : rows[i] = NoRow
      /\ rowCount = 0 /\ requests = 0
  BY DEF Init, IdlePoll
<1>4. Askers = {}
  BY <1>3 DEF Askers, Asking, IdleHandler
<1>5. Counted
  <2>1. Cardinality(Askers) = 0
    BY <1>4, FS_EmptySet
  <2> QED
    BY <1>3, <2>1, OracleAssumption DEF Counted
<1>6. RowsMade
  BY <1>3 DEF RowsMade, Made
<1>7. OwnRows
  BY <1>3 DEF OwnRows, IdleHandler, OnRow, Working
<1>8. IndexKept
  BY <1>3 DEF IndexKept, NoRow, ActiveStatus
<1>9. Batches
  BY <1>3 DEF Batches
<1> QED
  BY <1>2, <1>5, <1>6, <1>7, <1>8, <1>9 DEF TableInv

LEMMA AskersCounted ==
  ASSUME TableInv
  PROVE  IsFiniteSet(Askers) /\ Cardinality(Askers) \in Nat
<1>1. IsFiniteSet(Askers)
  BY FS_Subset, OracleAssumption DEF Askers
<1> QED
  BY <1>1, FS_CardinalityType

\* Nobody new asks.
LEMMA CountedStays ==
  ASSUME TableInv, Askers' \subseteq Askers, rowCount' = rowCount, requests' = requests
  PROVE  Counted'
<1>1. IsFiniteSet(Askers) /\ Cardinality(Askers) \in Nat
  BY AskersCounted
<1>2. IsFiniteSet(Askers') /\ Cardinality(Askers') <= Cardinality(Askers)
  BY <1>1, FS_Subset
<1>3. Cardinality(Askers') \in Nat
  BY <1>2, FS_CardinalityType
<1> QED
  BY <1>1, <1>2, <1>3 DEF Counted, TableInv, OracleTypeOK

\* The polls have not moved, and the rows that they read are there still.
LEMMA BatchesStay ==
  ASSUME TableInv, polls' = polls, rowCount' \in Nat, rowCount' >= rowCount
  PROVE  Batches'
<1>1. \A i \in Made : i \in Made'
  BY DEF TableInv, OracleTypeOK, Made
<1> QED
  BY <1>1 DEF TableInv, Batches

\* The rows have kept their actions.
LEMMA RowsMadeStays ==
  ASSUME TableInv, rowCount' = rowCount,
         \A i \in RowIds : rows'[i].type = rows[i].type,
         \A i \in RowIds \ Made : rows'[i] = rows[i]
  PROVE  RowsMade'
  BY DEF TableInv, RowsMade, Made

\* The handlers other than h work on the rows that they had.
LEMMA OwnRowsStay ==
  ASSUME TableInv, NEW h \in Handlers, OthersWait(h),
         rowCount' \in Nat, rowCount' >= rowCount,
         \A i \in Made : rows'[i].type = rows[i].type,
         handlers'[h].pc # "idle" => handlers'[h].type \in TriggerTypes,
         handlers'[h].pc \in OnRow =>
           handlers'[h].row \in Made' /\ rows'[handlers'[h].row].type = handlers'[h].type,
         handlers'[h].pc = "reuse" => \E i \in Made' : rows'[i].type = handlers'[h].type
  PROVE  OwnRows'
<1>1. \A i \in Made : i \in Made'
  BY DEF TableInv, OracleTypeOK, Made
<1> SUFFICES ASSUME NEW g \in Handlers
             PROVE  /\ handlers'[g].pc # "idle" => handlers'[g].type \in TriggerTypes
                    /\ handlers'[g].pc \in OnRow =>
                         handlers'[g].row \in Made' /\ rows'[handlers'[g].row].type = handlers'[g].type
                    /\ handlers'[g].pc = "reuse" => \E i \in Made' : rows'[i].type = handlers'[g].type
  BY DEF OwnRows
<1>2. CASE g = h
  BY <1>2
<1>3. CASE g # h
  <2>1. handlers'[g] = handlers[g]
    BY <1>3 DEF OthersWait
  <2>2. /\ handlers[g].pc # "idle" => handlers[g].type \in TriggerTypes
        /\ handlers[g].pc \in OnRow =>
             handlers[g].row \in Made /\ rows[handlers[g].row].type = handlers[g].type
        /\ handlers[g].pc = "reuse" => \E i \in Made : rows[i].type = handlers[g].type
    BY DEF TableInv, OwnRows
  <2> QED
    BY <1>1, <2>1, <2>2
<1> QED
  BY <1>2, <1>3

\* One row has changed, to a status that the index allows.
LEMMA IndexStays ==
  ASSUME TableInv, NEW i \in RowIds, NEW s, RowBecomes(i, s), IndexAllows(i, s)
  PROVE  IndexKept'
<1>1. \A j \in RowIds : rows'[j].type = rows[j].type
  BY DEF RowBecomes
<1>2. \A j \in RowIds \ {i} : rows'[j].status = rows[j].status
  BY DEF RowBecomes
<1>3. ASSUME s \in ActiveStatus, NEW j \in RowIds \ {i}, rows[j].type = rows[i].type
      PROVE  rows[j].status \notin ActiveStatus
  BY <1>3 DEF IndexAllows, Active
<1>4. rows'[i].status = s
  BY DEF RowBecomes
<1> QED
  BY <1>1, <1>2, <1>3, <1>4 DEF TableInv, IndexKept

LEMMA AsksKeeps ==
  ASSUME TableInv, NEW h \in Handlers, NEW type \in TriggerTypes, NEW redrive \in BOOLEAN,
         Asks(h, type, redrive)
  PROVE  TableInv'
<1>1. /\ handlers'[h].pc \in {"validate", "recheck"} /\ handlers'[h].type = type
      /\ handlers'[h].pc = "recheck" =>
           handlers'[h].row \in Made /\ rows[handlers'[h].row].type = type
  <2>1. \/ handlers'[h].pc = "validate"
        \/ /\ handlers'[h].pc = "recheck"
           /\ Latest(type) # 0 /\ handlers'[h].row = Latest(type)
    BY DEF Asks
  <2>2. Latest(type) # 0 => Latest(type) \in RowIds /\ rows[Latest(type)].type = type
    BY LatestIs
  <2>3. \A i \in RowIds : rows[i].type = type => i \in Made
    BY DEF TableInv, RowsMade, NoRow, TriggerTypes
  <2>4. handlers'[h].type = type
    BY DEF Asks
  <2> QED
    BY <2>1, <2>2, <2>3, <2>4
<1>2. OracleTypeOK'
  BY DEF Asks, OthersWait, RowsStay, TableInv, OracleTypeOK
<1>3. RowsMade'
  BY RowsMadeStays DEF Asks, RowsStay
<1>4. Counted'
  <2>1. IsFiniteSet(Askers) /\ Cardinality(Askers) \in Nat
    BY AskersCounted
  <2>2. Askers' = Askers \cup {h} /\ h \notin Askers
    BY <1>1 DEF Asks, OthersWait, Askers, Asking
  <2>3. Cardinality(Askers') = Cardinality(Askers) + 1
    BY <2>1, <2>2, FS_AddElement
  <2>4. rowCount' = rowCount /\ requests' = requests + 1 /\ requests < MaxRequests
    BY DEF Asks, RowsStay
  <2> QED
    BY <2>1, <2>3, <2>4, OracleAssumption DEF Counted, TableInv, OracleTypeOK
<1>5. OwnRows'
  <2>1. OthersWait(h) /\ RowsStay
    BY DEF Asks
  <2>2. rowCount' \in Nat /\ rowCount' >= rowCount /\ Made' = Made
    BY <2>1 DEF RowsStay, TableInv, OracleTypeOK, Made
  <2> QED
    BY <1>1, <2>1, <2>2, OwnRowsStay DEF RowsStay, OnRow, Working
<1>6. IndexKept'
  BY DEF TableInv, Asks, RowsStay, IndexKept
<1>7. Batches'
  BY BatchesStay DEF TableInv, OracleTypeOK, Asks, RowsStay
<1> QED
  BY <1>2, <1>3, <1>4, <1>5, <1>6, <1>7 DEF TableInv

LEMMA MovesKeeps ==
  ASSUME TableInv, NEW h \in Handlers, NEW pc \in Places, Moves(h, pc)
  PROVE  TableInv'
<1>0. /\ OthersWait(h) /\ Proceeds(h, pc) /\ RowsStay /\ polls' = polls /\ RequestsStay
      /\ rowCount' \in Nat /\ rowCount' >= rowCount /\ Made' = Made
  BY DEF Moves, Proceeds, RowsStay, TableInv, OracleTypeOK, Made
<1>1. \/ handlers[h].pc \in {"validate", "recheck"} /\ pc = "create"
      \/ handlers[h].pc = "create" /\ pc = "reuse" /\ Active(handlers[h].type) # {}
      \/ handlers[h].pc \in {"attempt", "mark", "send", "record"} /\ pc \in {"mark", "fail", "record"}
      \/ handlers[h].pc = "recheck" /\ pc = "confirm"
  BY DEF Moves
<1>2. OracleTypeOK'
  BY <1>0 DEF OthersWait, RowsStay, RequestsStay, TableInv, OracleTypeOK
<1>3. RowsMade'
  BY <1>0, RowsMadeStays DEF RowsStay
<1>4. Counted'
  <2>1. handlers'[h].pc \in Asking => handlers[h].pc \in Asking
    BY <1>0, <1>1 DEF Asking, Proceeds
  <2>2. Askers' \subseteq Askers
    BY <1>0, <2>1 DEF Askers, OthersWait
  <2> QED
    BY <1>0, <2>2, CountedStays DEF RowsStay, RequestsStay
<1>5. OwnRows'
  <2>1. handlers[h].type \in TriggerTypes
    BY <1>1 DEF TableInv, OwnRows
  <2>2. pc \in OnRow => handlers[h].row \in Made /\ rows[handlers[h].row].type = handlers[h].type
    <3>1. pc \in OnRow => handlers[h].pc \in OnRow
      BY <1>1 DEF OnRow, Working
    <3> QED
      BY <3>1, OnRowIsRow
  <2>3. pc = "reuse" => \E i \in Made : rows[i].type = handlers[h].type
    <3>1. pc = "reuse" => Active(handlers[h].type) # {}
      BY <1>1
    <3>2. \A i \in Active(handlers[h].type) : i \in Made /\ rows[i].type = handlers[h].type
      BY ActiveIsMade DEF Active, ActiveStatus
    <3> QED
      BY <3>1, <3>2
  <2> QED
    BY <1>0, <2>1, <2>2, <2>3, OwnRowsStay DEF Proceeds, RowsStay
<1>6. IndexKept'
  BY <1>0 DEF TableInv, RowsStay, IndexKept
<1>7. Batches'
  BY <1>0, BatchesStay
<1> QED
  BY <1>2, <1>3, <1>4, <1>5, <1>6, <1>7 DEF TableInv

LEMMA EndsKeeps ==
  ASSUME TableInv, NEW h \in Handlers, Ends(h)
  PROVE  TableInv'
<1>0. /\ OthersWait(h) /\ RowsStay /\ polls' = polls /\ RequestsStay
      /\ handlers'[h].pc = "idle"
      /\ rowCount' \in Nat /\ rowCount' >= rowCount /\ Made' = Made
  BY DEF Ends, Leaves, IdleHandler, RowsStay, TableInv, OracleTypeOK, Made
<1>2. OracleTypeOK'
  BY <1>0 DEF OthersWait, RowsStay, RequestsStay, TableInv, OracleTypeOK
<1>3. RowsMade'
  BY <1>0, RowsMadeStays DEF RowsStay
<1>4. Counted'
  <2>1. Askers' \subseteq Askers
    BY <1>0 DEF Askers, Asking, OthersWait
  <2> QED
    BY <1>0, <2>1, CountedStays DEF RowsStay, RequestsStay
<1>5. OwnRows'
  BY <1>0, OwnRowsStay DEF RowsStay, OnRow, Working
<1>6. IndexKept'
  BY <1>0 DEF TableInv, RowsStay, IndexKept
<1>7. Batches'
  BY <1>0, BatchesStay
<1> QED
  BY <1>2, <1>3, <1>4, <1>5, <1>6, <1>7 DEF TableInv

LEMMA CreatesKeeps ==
  ASSUME TableInv, NEW h \in Handlers, Creates(h)
  PROVE  TableInv'
<1> DEFINE k == rowCount + 1
<1>0. /\ OthersWait(h) /\ polls' = polls /\ RequestsStay
      /\ rowCount \in Nat /\ rowCount' = k /\ k \in RowIds /\ k \notin Made
      /\ rowCount' \in Nat /\ rowCount' >= rowCount /\ Made' = Made \cup {k}
      /\ handlers[h].pc = "create" /\ handlers[h].type \in TriggerTypes
  <2>1. handlers[h].pc = "create" /\ rowCount \in Nat
    BY DEF Creates, TableInv, OracleTypeOK
  <2>2. handlers[h].type \in TriggerTypes
    BY <2>1 DEF TableInv, OwnRows
  <2> QED
    BY <2>1, <2>2 DEF Creates, Starts, Made
<1>1. /\ rows' \in [RowIds -> Row]
      /\ rows'[k].type = handlers[h].type /\ rows'[k].status = "PENDING"
      /\ \A j \in RowIds \ {k} : rows'[j] = rows[j]
  BY DEF Creates, NewRow
<1>2. OracleTypeOK'
  BY <1>0, <1>1 DEF OthersWait, RequestsStay, TableInv, OracleTypeOK
<1>3. RowsMade'
  <2> HIDE DEF k
  <2> QED
    BY <1>0, <1>1 DEF TableInv, RowsMade
<1>4. Counted'
  <2>1. IsFiniteSet(Askers) /\ Cardinality(Askers) \in Nat /\ h \in Askers
    BY <1>0, AskersCounted DEF Askers, Asking
  <2>2. handlers'[h].pc \notin Asking
    BY DEF Creates, Starts, AfterCreate, Asking
  <2>3. Askers' = Askers \ {h}
    BY <1>0, <2>2 DEF Askers, OthersWait
  <2>4. Cardinality(Askers') = Cardinality(Askers) - 1
    BY <2>1, <2>3, FS_RemoveElement
  <2> QED
    BY <1>0, <2>1, <2>4 DEF Counted, TableInv, OracleTypeOK, RequestsStay
<1>5. OwnRows'
  <2>1. \A i \in Made : rows'[i].type = rows[i].type
    BY <1>0, <1>1, MadeAreRows
  <2>2. /\ handlers'[h].type = handlers[h].type /\ handlers'[h].row = k
        /\ handlers'[h].pc # "reuse"
    BY DEF Creates, Starts, AfterCreate
  <2> HIDE DEF k
  <2> QED
    BY <1>0, <1>1, <2>1, <2>2, OwnRowsStay
<1>6. IndexKept'
  <2>1. Active(handlers[h].type) = {}
    BY DEF Creates
  <2>2. \A j \in RowIds : rows[j].type = handlers[h].type => rows[j].status \notin ActiveStatus
    BY <2>1 DEF Active
  <2> HIDE DEF k
  <2> QED
    BY <1>1, <2>2 DEF TableInv, IndexKept
<1>7. Batches'
  BY <1>0, BatchesStay
<1> QED
  BY <1>2, <1>3, <1>4, <1>5, <1>6, <1>7 DEF TableInv

LEMMA ReusesKeeps ==
  ASSUME TableInv, NEW h \in Handlers, Reuses(h)
  PROVE  TableInv'
<1>0. /\ OthersWait(h) /\ RowsStay /\ polls' = polls /\ RequestsStay
      /\ handlers[h].pc = "reuse"
      /\ handlers'[h].pc \in {"gate", "attempt"}
      /\ rowCount' \in Nat /\ rowCount' >= rowCount /\ Made' = Made
  BY DEF Reuses, Starts, AfterCreate, RowsStay, TableInv, OracleTypeOK, Made
<1>1. /\ handlers[h].type \in TriggerTypes
      /\ Latest(handlers[h].type) \in Made /\ rows[Latest(handlers[h].type)].type = handlers[h].type
  <2>1. PICK i \in Made : rows[i].type = handlers[h].type
    BY <1>0 DEF TableInv, OwnRows
  <2>2. handlers[h].type \in TriggerTypes
    BY <1>0 DEF TableInv, OwnRows
  <2>3. i \in RowIds /\ i >= 1
    BY MadeAreRows DEF Made
  <2>4. i <= Latest(handlers[h].type) /\ Latest(handlers[h].type) \in Nat
    BY <2>1, <2>3, LatestIs
  <2>5. Latest(handlers[h].type) # 0
    BY <2>3, <2>4 DEF RowIds
  <2>6. /\ Latest(handlers[h].type) \in RowIds
        /\ rows[Latest(handlers[h].type)].type = handlers[h].type
    BY <2>5, LatestIs
  <2>7. Latest(handlers[h].type) \in Made
    BY <2>2, <2>6 DEF TableInv, RowsMade, NoRow, TriggerTypes
  <2> QED
    BY <2>2, <2>6, <2>7
<1>2. OracleTypeOK'
  BY <1>0 DEF OthersWait, RowsStay, RequestsStay, TableInv, OracleTypeOK
<1>3. RowsMade'
  BY <1>0, RowsMadeStays DEF RowsStay
<1>4. Counted'
  <2>1. Askers' \subseteq Askers
    BY <1>0 DEF Askers, Asking, OthersWait
  <2> QED
    BY <1>0, <2>1, CountedStays DEF RowsStay, RequestsStay
<1>5. OwnRows'
  <2>1. handlers'[h].type = handlers[h].type /\ handlers'[h].row = Latest(handlers[h].type)
    BY DEF Reuses, Starts
  <2> QED
    BY <1>0, <1>1, <2>1, OwnRowsStay DEF RowsStay
<1>6. IndexKept'
  BY <1>0 DEF TableInv, RowsStay, IndexKept
<1>7. Batches'
  BY <1>0, BatchesStay
<1> QED
  BY <1>2, <1>3, <1>4, <1>5, <1>6, <1>7 DEF TableInv

LEMMA IdleStatusAllowed ==
  ASSUME NEW i, NEW s, s \notin ActiveStatus
  PROVE  IndexAllows(i, s)
  BY DEF IndexAllows

\* A write to one row keeps the actions of all.
LEMMA RowBecomesKeeps ==
  ASSUME TableInv, NEW i \in Made, NEW s, RowBecomes(i, s)
  PROVE  /\ RowsMade' /\ Made' = Made /\ rowCount' \in Nat /\ rowCount' >= rowCount
         /\ \A j \in Made : rows'[j].type = rows[j].type
<1>1. Made \subseteq RowIds /\ i \in RowIds /\ rowCount \in Nat
  BY MadeAreRows
<1>2. rowCount' = rowCount /\ \A j \in RowIds : rows'[j].type = rows[j].type
  BY DEF RowBecomes
<1>3. \A j \in RowIds \ Made : rows'[j] = rows[j]
  BY DEF RowBecomes
<1>4. RowsMade'
  BY <1>2, <1>3, RowsMadeStays
<1> QED
  BY <1>1, <1>2, <1>4 DEF Made

LEMMA WritesKeeps ==
  ASSUME TableInv, NEW h \in Handlers, NEW s \in RowStatuses, Writes(h, s)
  PROVE  TableInv'
<1> DEFINE i == handlers[h].row
<1>0. /\ OthersWait(h) /\ polls' = polls /\ RequestsStay /\ RowBecomes(i, s)
      /\ handlers[h].pc \in OnRow \ Asking
      /\ \/ handlers'[h].pc = "idle"
         \/ /\ handlers'[h].pc \in {"send", "attempt"}
            /\ handlers'[h].type = handlers[h].type
            /\ handlers'[h].row = handlers[h].row
            /\ handlers[h].pc # "recheck"
  BY DEF Writes, Leaves, Proceeds, IdleHandler, OnRow, Working, Asking
<1>1. /\ i \in Made /\ i \in RowIds /\ rows[i].type = handlers[h].type
      /\ handlers[h].type \in TriggerTypes
  BY <1>0, OnRowIsRow
<1>2. IndexAllows(i, s)
  <2>1. IndexAllows(i, s) \/ s \notin ActiveStatus
    BY DEF Writes, ActiveStatus
  <2> QED
    BY <2>1, IdleStatusAllowed
<1> HIDE DEF i
<1>3. /\ RowsMade' /\ Made' = Made /\ rowCount' \in Nat /\ rowCount' >= rowCount
      /\ \A j \in Made : rows'[j].type = rows[j].type
  BY <1>0, <1>1, RowBecomesKeeps
<1>4. OracleTypeOK'
  BY <1>0, <1>3 DEF OthersWait, RowBecomes, RequestsStay, TableInv, OracleTypeOK
<1>5. Counted'
  <2>1. Askers' \subseteq Askers
    BY <1>0 DEF Askers, Asking, OthersWait
  <2> QED
    BY <1>0, <2>1, CountedStays DEF RowBecomes, RequestsStay
<1>6. OwnRows'
  <2>1. handlers'[h].pc # "idle" => handlers'[h].type = handlers[h].type /\ handlers'[h].row = i
    BY <1>0 DEF i
  <2>2. handlers'[h].pc # "reuse"
    BY <1>0
  <2>3. handlers'[h].pc \in OnRow => handlers'[h].pc # "idle"
    BY DEF OnRow, Working
  <2> QED
    BY <1>0, <1>1, <1>3, <2>1, <2>2, <2>3, OwnRowsStay
<1>7. IndexKept'
  BY <1>0, <1>1, <1>2, IndexStays
<1>8. Batches'
  BY <1>0, <1>3, BatchesStay
<1> QED
  BY <1>3, <1>4, <1>5, <1>6, <1>7, <1>8 DEF TableInv

LEMMA ApprovesKeeps ==
  ASSUME TableInv, NEW h \in Handlers, NEW i \in RowIds, Approves(h, i)
  PROVE  TableInv'
<1>0. /\ OthersWait(h) /\ polls' = polls /\ RequestsStay /\ rowCount' = rowCount
      /\ rowCount' \in Nat /\ rowCount' >= rowCount /\ Made' = Made
      /\ rows' \in [RowIds -> Row]
      /\ \A j \in RowIds : rows'[j].type = rows[j].type
      /\ \A j \in RowIds \ {i} : rows'[j] = rows[j]
      /\ handlers'[h].pc = "attempt" /\ handlers'[h].type = rows[i].type /\ handlers'[h].row = i
      /\ rows[i].status = "PENDING_APPROVAL"
  BY DEF Approves, TableInv, OracleTypeOK, Made
<1>1. i \in Made /\ rows[i].type \in TriggerTypes /\ Made \subseteq RowIds
  BY <1>0, ActiveIsMade, MadeAreRows
<1>2. OracleTypeOK'
  BY <1>0 DEF OthersWait, RequestsStay, TableInv, OracleTypeOK
<1>3. RowsMade'
  BY <1>0, <1>1, RowsMadeStays
<1>4. Counted'
  <2>1. Askers' \subseteq Askers
    BY <1>0 DEF Askers, Asking, OthersWait
  <2> QED
    BY <1>0, <2>1, CountedStays DEF RequestsStay
<1>5. OwnRows'
  BY <1>0, <1>1, OwnRowsStay
<1>6. IndexKept'
  <2>1. rows[i].status \in ActiveStatus
    BY <1>0 DEF ActiveStatus
  <2> QED
    BY <1>0, <2>1 DEF TableInv, IndexKept
<1>7. Batches'
  BY <1>0, BatchesStay
<1> QED
  BY <1>2, <1>3, <1>4, <1>5, <1>6, <1>7 DEF TableInv

\* The handlers wait: they have what they had.
LEMMA WaitingKeeps ==
  ASSUME TableInv, handlers' = handlers, RequestsStay, rowCount' = rowCount,
         \A i \in Made : rows'[i].type = rows[i].type
  PROVE  OwnRows' /\ Counted' /\ Made' = Made
<1>1. Made' = Made
  BY DEF Made
<1>2. OwnRows'
  BY <1>1 DEF TableInv, OwnRows
<1>3. Askers' \subseteq Askers
  BY DEF Askers
<1> QED
  BY <1>1, <1>2, <1>3, CountedStays DEF RequestsStay

LEMMA RejectsKeeps ==
  ASSUME TableInv, NEW i \in RowIds, Rejects(i)
  PROVE  TableInv'
<1>0. RowBecomes(i, "REJECTED") /\ handlers' = handlers /\ polls' = polls /\ RequestsStay
  BY DEF Rejects
<1>1. i \in Made
  BY ActiveIsMade DEF Rejects
<1>2. /\ RowsMade' /\ Made' = Made /\ rowCount' \in Nat /\ rowCount' >= rowCount
      /\ \A j \in Made : rows'[j].type = rows[j].type
  BY <1>0, <1>1, RowBecomesKeeps
<1>3. OracleTypeOK'
  BY <1>0, <1>2 DEF RowBecomes, RequestsStay, TableInv, OracleTypeOK
<1>4. OwnRows' /\ Counted'
  BY <1>0, <1>2, WaitingKeeps DEF RowBecomes
<1>5. IndexKept'
  BY <1>0, IdleStatusAllowed, IndexStays DEF ActiveStatus
<1>6. Batches'
  BY <1>0, <1>2, BatchesStay
<1> QED
  BY <1>2, <1>3, <1>4, <1>5, <1>6 DEF TableInv

LEMMA ReadsKeeps ==
  ASSUME TableInv, NEW p \in Polls, Reads(p)
  PROVE  TableInv'
<1>0. /\ RowsStay /\ handlers' = handlers /\ RequestsStay
      /\ polls' \in [Polls -> Poll] /\ \A q \in Polls \ {p} : polls'[q] = polls[q]
      /\ polls'[p].verdict = "none"
      /\ \A e, f \in polls'[p].batch : e.id = f.id => e = f
  BY DEF Reads
<1>1. \A e \in polls'[p].batch : e.id \in Made
  <2>1. \A e \in polls'[p].batch : e.id \in RowIds /\ rows[e.id].status # "none"
    BY DEF Reads, Poll, Entry
  <2> QED
    BY <2>1, ActiveIsMade
<1>2. OwnRows' /\ Counted' /\ Made' = Made
  BY <1>0, WaitingKeeps DEF RowsStay
<1>3. OracleTypeOK' /\ RowsMade' /\ IndexKept'
  BY <1>0, <1>2 DEF RowsStay, RequestsStay, TableInv, OracleTypeOK, RowsMade, IndexKept
<1>4. Batches'
  BY <1>0, <1>1, <1>2 DEF TableInv, Batches
<1> QED
  BY <1>2, <1>3, <1>4 DEF TableInv

LEMMA ChecksKeeps ==
  ASSUME TableInv, NEW p \in Polls, Checks(p)
  PROVE  TableInv'
<1>0. /\ RowsStay /\ handlers' = handlers /\ RequestsStay
      /\ polls' \in [Polls -> Poll] /\ \A q \in Polls \ {p} : polls'[q] = polls[q]
      /\ polls'[p].batch \subseteq polls[p].batch
      /\ polls'[p].verdict # "none" => polls'[p].batch # {}
  BY DEF Checks
<1>2. OwnRows' /\ Counted' /\ Made' = Made
  BY <1>0, WaitingKeeps DEF RowsStay
<1>3. OracleTypeOK' /\ RowsMade' /\ IndexKept'
  BY <1>0, <1>2 DEF RowsStay, RequestsStay, TableInv, OracleTypeOK, RowsMade, IndexKept
<1>4. Batches'
  BY <1>0, <1>2 DEF TableInv, Batches
<1> QED
  BY <1>2, <1>3, <1>4 DEF TableInv

LEMMA JudgesKeeps ==
  ASSUME TableInv, NEW p \in Polls, Judges(p)
  PROVE  TableInv'
<1> DEFINE e == Head(p)
<1>0. /\ handlers' = handlers /\ RequestsStay
      /\ RowBecomes(e.id, polls[p].verdict) /\ e \in polls[p].batch
      /\ polls' \in [Polls -> Poll] /\ \A q \in Polls \ {p} : polls'[q] = polls[q]
      /\ polls'[p].batch = polls[p].batch \ {e} /\ polls'[p].verdict = "none"
  BY DEF Judges
<1> HIDE DEF e
<1>1. e.id \in Made /\ e.id \in RowIds
  BY <1>0, MadeAreRows DEF TableInv, Batches
<1>2. /\ RowsMade' /\ Made' = Made /\ rowCount' \in Nat /\ rowCount' >= rowCount
      /\ \A j \in Made : rows'[j].type = rows[j].type
  BY <1>0, <1>1, RowBecomesKeeps
<1>3. OracleTypeOK'
  BY <1>0, <1>2 DEF RowBecomes, RequestsStay, TableInv, OracleTypeOK
<1>4. OwnRows' /\ Counted'
  BY <1>0, <1>2, WaitingKeeps DEF RowBecomes
<1>5. IndexKept'
  <2>1. polls[p].verdict \notin ActiveStatus
    <3>1. polls[p] \in Poll
      BY DEF TableInv, OracleTypeOK
    <3> QED
      BY <3>1 DEF Poll, ActiveStatus
  <2> QED
    BY <1>0, <1>1, <2>1, IdleStatusAllowed, IndexStays
<1>6. Batches'
  BY <1>0, <1>2 DEF TableInv, Batches
<1> QED
  BY <1>2, <1>3, <1>4, <1>5, <1>6 DEF TableInv

LEMMA AgesKeeps ==
  ASSUME TableInv, Ages
  PROVE  TableInv'
<1>0. /\ handlers' = handlers /\ RequestsStay /\ rowCount' = rowCount
      /\ rows' \in [RowIds -> Row] /\ polls' \in [Polls -> Poll]
      /\ \A i \in RowIds :
           /\ rows'[i].type = rows[i].type /\ rows'[i].status = rows[i].status
           /\ rows[i] = NoRow => rows'[i] = NoRow
  BY DEF Ages
<1>1. Made \subseteq RowIds
  BY MadeAreRows
<1>2. OwnRows' /\ Counted' /\ Made' = Made
  BY <1>0, <1>1, WaitingKeeps
<1>3. OracleTypeOK' /\ RowsMade' /\ IndexKept'
  BY <1>0, <1>2 DEF RequestsStay, TableInv, OracleTypeOK, RowsMade, IndexKept
<1>4. ASSUME NEW p \in Polls
      PROVE  /\ \A e \in polls'[p].batch : e.id \in Made
             /\ \A e, f \in polls'[p].batch : e.id = f.id => e = f
             /\ polls'[p].verdict # "none" => polls'[p].batch # {}
  <2>1. polls[p].batch \subseteq Entry
    BY DEF TableInv, OracleTypeOK, Poll
  <2>2. \A e \in polls[p].batch : Aged(e).id = e.id
    BY <2>1, AgedIs
  <2>3. /\ \A e \in polls'[p].batch : \E f \in polls[p].batch : e = Aged(f)
        /\ \A e \in polls[p].batch : Aged(e) \in polls'[p].batch
        /\ polls'[p].verdict = polls[p].verdict
    BY DEF Ages
  <2> QED
    BY <2>2, <2>3 DEF TableInv, Batches
<1>5. Batches'
  BY <1>2, <1>4 DEF Batches
<1> QED
  BY <1>2, <1>3, <1>5 DEF TableInv

LEMMA DiesKeeps ==
  ASSUME TableInv, Dies
  PROVE  TableInv'
<1>0. /\ RowsStay /\ requests' = requests /\ crashes' = crashes + 1 /\ Made' = Made
      /\ handlers' = [h \in Handlers |-> IdleHandler]
      /\ polls' = [p \in Polls |-> IdlePoll]
  BY DEF Dies, RowsStay, Made
<1>1. IdleHandler \in Handler /\ IdlePoll \in Poll
  BY IdleIsHandler DEF IdlePoll, Poll
<1>2. OracleTypeOK' /\ RowsMade' /\ IndexKept'
  BY <1>0, <1>1 DEF RowsStay, TableInv, OracleTypeOK, RowsMade, IndexKept
<1>3. \A h \in Handlers : handlers'[h].pc = "idle"
  BY <1>0 DEF IdleHandler
<1>4. Counted'
  <2>1. Askers' \subseteq Askers
    BY <1>3 DEF Askers, Asking
  <2> QED
    BY <1>0, <2>1, CountedStays DEF RowsStay
<1>5. OwnRows'
  BY <1>3 DEF OwnRows, OnRow, Working
<1>6. Batches'
  BY <1>0 DEF Batches, IdlePoll
<1> QED
  BY <1>2, <1>4, <1>5, <1>6 DEF TableInv

LEMMA RestsKeeps ==
  ASSUME TableInv, Rests
  PROVE  TableInv'
<1>1. OwnRows' /\ Counted' /\ Made' = Made
  BY WaitingKeeps DEF Rests, RowsStay
<1> QED
  BY <1>1
  DEF Rests, RowsStay, RequestsStay, TableInv, OracleTypeOK, RowsMade, IndexKept, Batches

LEMMA TableStep == TableInv /\ [Next]_vars => TableInv'
<1> SUFFICES ASSUME TableInv, [Next]_vars
             PROVE  TableInv'
  OBVIOUS
<1>1. CASE Next
  <2>1. Happens
    BY <1>1, StepKinds
  <2> QED
    BY <2>1, AsksKeeps, MovesKeeps, EndsKeeps, CreatesKeeps, ReusesKeeps, WritesKeeps,
       ApprovesKeeps, RejectsKeeps, ReadsKeeps, ChecksKeeps, JudgesKeeps, AgesKeeps,
       DiesKeeps, RestsKeeps
    DEF Happens
<1>2. CASE UNCHANGED vars
  <2>1. Rests
    BY <1>2 DEF Rests, RowsStay, RequestsStay, ChainGrows
  <2> QED
    BY <2>1, RestsKeeps
<1> QED
  BY <1>1, <1>2

LEMMA TableInvariant == Spec => []TableInv
  BY TableInit, TableStep, PTL DEF Spec

\* A step, or a stutter, is one of the kinds, from and to an ordered table.
LEMMA StepHappens ==
  ASSUME TableInv, [Next]_vars
  PROVE  Happens /\ TableInv'
<1>1. TableInv'
  BY TableStep
<1>2. CASE Next
  BY <1>1, <1>2, StepKinds
<1>3. CASE UNCHANGED vars
  BY <1>1, <1>3 DEF Rests, RowsStay, RequestsStay, ChainGrows, Happens
<1> QED
  BY <1>2, <1>3

-------------------------------------------------------------------------------
(* No row is left behind *)

\* The attempts are counted from 1 and end with the last one.
Attempts == \A h \in Handlers : handlers[h].pc \in Working => handlers[h].attempt \in 1 .. MaxAttempts

WorksOn(h, i) == handlers[h].row = i /\ handlers[h].pc \in Working

\* What NoOrphanRows says, and where the handler is: one that still may hand the row over
\* to an approver is not enough for a row that failed.
Attended(i) ==
  /\ rows[i].status \in {"PENDING", "EXECUTING"} => \E h \in Handlers : WorksOn(h, i)
  /\ rows[i].status = "FAILED" =>
       \E h \in Handlers : WorksOn(h, i) /\ handlers[h].pc # "gate"

Worked == crashes = 0 => \A i \in Made : Attended(i)

WorkInv == Attempts /\ Worked

\* The handlers other than h attend to the rows that they attended to.
LEMMA OthersAttend ==
  ASSUME NEW h \in Handlers, OthersWait(h), NEW i, Attended(i),
         rows'[i].status = rows[i].status,
         \/ ~WorksOn(h, i)
         \/ WorksOn(h, i)' /\ (handlers[h].pc # "gate" => handlers'[h].pc # "gate")
  PROVE  Attended(i)'
<1>1. ASSUME NEW g \in Handlers, WorksOn(g, i)
      PROVE  \E f \in Handlers : /\ WorksOn(f, i)'
                                 /\ handlers[g].pc # "gate" => handlers'[f].pc # "gate"
  <2>1. CASE g = h
    BY <1>1, <2>1
  <2>2. CASE g # h
    <3>1. handlers'[g] = handlers[g]
      BY <2>2 DEF OthersWait
    <3> QED
      BY <1>1, <3>1 DEF WorksOn
  <2> QED
    BY <2>1, <2>2
<1>2. CASE rows[i].status \in {"PENDING", "EXECUTING"}
  <2>1. PICK g \in Handlers : WorksOn(g, i)
    BY <1>2 DEF Attended
  <2> QED
    BY <1>1, <1>2, <2>1 DEF Attended
<1>3. CASE rows[i].status = "FAILED"
  <2>1. PICK g \in Handlers : WorksOn(g, i) /\ handlers[g].pc # "gate"
    BY <1>3 DEF Attended
  <2> QED
    BY <1>1, <1>3, <2>1 DEF Attended
<1> QED
  BY <1>2, <1>3 DEF Attended

LEMMA WorkInit == Init => WorkInv
  BY DEF Init, WorkInv, Attempts, Worked, Made, IdleHandler, Working

LEMMA AttemptsStep ==
  ASSUME TableInv, Attempts, Happens, MaxAttempts > 0
  PROVE  Attempts'
<1>0. MaxAttempts \in Nat
  BY OracleAssumption
<1>1. ASSUME NEW h \in Handlers, OthersWait(h),
             handlers'[h].pc \in Working => handlers'[h].attempt \in 1 .. MaxAttempts
      PROVE  Attempts'
  BY <1>1 DEF Attempts, OthersWait
<1>2. ASSUME NEW h \in Handlers, NEW type \in TriggerTypes, NEW redrive \in BOOLEAN,
             Asks(h, type, redrive)
      PROVE  Attempts'
  BY <1>1, <1>2 DEF Asks, Working
<1>3. ASSUME NEW h \in Handlers, NEW pc \in Places, Moves(h, pc)
      PROVE  Attempts'
  BY <1>1, <1>3 DEF Moves, Proceeds, Attempts, Working
<1>4. ASSUME NEW h \in Handlers, Ends(h)
      PROVE  Attempts'
  BY <1>1, <1>4 DEF Ends, Leaves, IdleHandler, Working
<1>5. ASSUME NEW h \in Handlers, Creates(h) \/ Reuses(h)
      PROVE  Attempts'
  BY <1>0, <1>1, <1>5 DEF Creates, Reuses, Starts
<1>6. ASSUME NEW h \in Handlers, NEW s \in RowStatuses, Writes(h, s)
      PROVE  Attempts'
  <2>1. \/ handlers'[h] = IdleHandler
        \/ handlers[h].pc = "mark" /\ handlers'[h].attempt = handlers[h].attempt
        \/ /\ handlers[h].pc = "fail" /\ handlers[h].attempt < MaxAttempts
           /\ handlers'[h].attempt = handlers[h].attempt + 1
    BY <1>6 DEF Writes, Leaves, Proceeds
  <2>2. handlers[h].pc \in {"mark", "fail"} => handlers[h].attempt \in 1 .. MaxAttempts
    BY DEF Attempts, Working
  <2>3. OthersWait(h)
    BY <1>6 DEF Writes, Leaves, Proceeds
  <2> QED
    BY <1>0, <1>1, <2>1, <2>2, <2>3 DEF IdleHandler, Working
<1>7. ASSUME NEW h \in Handlers, NEW i \in RowIds, Approves(h, i)
      PROVE  Attempts'
  BY <1>0, <1>1, <1>7 DEF Approves
<1>8. ASSUME handlers' = handlers
      PROVE  Attempts'
  BY <1>8 DEF Attempts
<1>9. CASE Dies
  BY <1>9 DEF Dies, Attempts, IdleHandler, Working
<1> QED
  BY <1>2, <1>3, <1>4, <1>5, <1>6, <1>7, <1>8, <1>9
  DEF Happens, Rejects, Reads, Checks, Judges, Ages, Rests

LEMMA WorkedStep ==
  ASSUME TableInv, TableInv', WorkInv, Happens
  PROVE  Worked'
<1> SUFFICES ASSUME crashes' = 0, NEW i \in Made'
             PROVE  Attended(i)'
  BY DEF Worked
<1>0. ASSUME RequestsStay
      PROVE  \A j \in Made : Attended(j)
  BY <1>0 DEF WorkInv, Worked, RequestsStay
<1>1. ASSUME NEW h \in Handlers, NEW type \in TriggerTypes, NEW redrive \in BOOLEAN,
             Asks(h, type, redrive)
      PROVE  Attended(i)'
  <2>1. OthersWait(h) /\ ~WorksOn(h, i) /\ RowsStay /\ crashes' = crashes
    BY <1>1 DEF Asks, WorksOn, Working
  <2>2. Attended(i) /\ rows' = rows
    BY <2>1 DEF WorkInv, Worked, RowsStay, Made
  <2> QED
    BY <2>1, <2>2, OthersAttend
<1>2. ASSUME NEW h \in Handlers, NEW pc \in Places, Moves(h, pc)
      PROVE  Attended(i)'
  <2>1. OthersWait(h) /\ rows' = rows /\ RequestsStay /\ Made' = Made
    BY <1>2 DEF Moves, Proceeds, RowsStay, Made
  <2>2. Attended(i)
    BY <1>0, <2>1
  <2>3. ~WorksOn(h, i) \/ (WorksOn(h, i)' /\ handlers'[h].pc # "gate")
    BY <1>2 DEF Moves, Proceeds, WorksOn, Working
  <2> QED
    BY <2>1, <2>2, <2>3, OthersAttend
<1>3. ASSUME NEW h \in Handlers, Ends(h)
      PROVE  Attended(i)'
  <2>1. OthersWait(h) /\ rows' = rows /\ RequestsStay /\ Made' = Made
    BY <1>3 DEF Ends, Leaves, RowsStay, Made
  <2>2. Attended(i) /\ i \in RowIds
    BY <1>0, <2>1, MadeAreRows
  <2>3. CASE ~WorksOn(h, i)
    BY <2>1, <2>2, <2>3, OthersAttend
  <2>4. CASE WorksOn(h, i)
    <3>1. handlers[h].pc = "gate"
      <4>1. handlers[h].attempt \in 1 .. MaxAttempts /\ MaxAttempts \in Nat
        BY <2>4, OracleAssumption DEF WorkInv, Attempts, WorksOn
      <4> QED
        BY <1>3, <2>4, <4>1 DEF Ends, WorksOn, Working
    <3>2. ~IndexAllows(i, "PENDING_APPROVAL")
      BY <1>3, <2>4, <3>1 DEF Ends, WorksOn
    <3>3. rows[i].status \notin {"PENDING", "EXECUTING"}
      <4>1. PICK j \in RowIds :
              rows[j].type = rows[i].type /\ rows[j].status \in ActiveStatus /\ j # i
        BY <3>2 DEF IndexAllows, Active
      <4>2. rows[i].status \notin ActiveStatus
        BY <2>2, <4>1 DEF TableInv, IndexKept
      <4> QED
        BY <4>2 DEF ActiveStatus
    <3>4. CASE rows[i].status = "FAILED"
      <4>1. PICK g \in Handlers : WorksOn(g, i) /\ handlers[g].pc # "gate"
        BY <2>2, <3>4 DEF Attended
      <4>2. handlers'[g] = handlers[g]
        BY <2>1, <3>1, <4>1 DEF OthersWait
      <4>3. WorksOn(g, i)' /\ handlers'[g].pc # "gate"
        BY <4>1, <4>2 DEF WorksOn
      <4> QED
        BY <2>1, <3>4, <4>3 DEF Attended
    <3> QED
      BY <2>1, <3>3, <3>4 DEF Attended
  <2> QED
    BY <2>3, <2>4
<1>4. ASSUME NEW h \in Handlers, Creates(h)
      PROVE  Attended(i)'
  <2>1. /\ OthersWait(h) /\ RequestsStay /\ handlers[h].pc = "create"
        /\ handlers'[h].row = rowCount + 1 /\ handlers'[h].pc \in Working
    BY <1>4 DEF Creates, Starts, AfterCreate, Working
  <2>2. CASE i = rowCount + 1
    <3>1. rows'[i].status = "PENDING"
      BY <1>4, <2>2 DEF Creates, NewRow
    <3>2. WorksOn(h, i)'
      BY <2>1, <2>2 DEF WorksOn
    <3> QED
      BY <3>1, <3>2 DEF Attended
  <2>3. CASE i # rowCount + 1
    <3>1. i \in Made /\ i \in RowIds
      BY <1>4, <2>3, MadeAreRows DEF Creates, Made
    <3>2. rows'[i] = rows[i] /\ Attended(i) /\ ~WorksOn(h, i)
      BY <1>0, <1>4, <2>1, <2>3, <3>1 DEF Creates, WorksOn, Working
    <3> QED
      BY <2>1, <3>2, OthersAttend
  <2> QED
    BY <2>2, <2>3
<1>5. ASSUME NEW h \in Handlers, Reuses(h)
      PROVE  Attended(i)'
  <2>1. /\ OthersWait(h) /\ rows' = rows /\ RequestsStay /\ Made' = Made
        /\ ~WorksOn(h, i)
    BY <1>5 DEF Reuses, Starts, RowsStay, Made, WorksOn, Working
  <2>2. Attended(i)
    BY <1>0, <2>1
  <2> QED
    BY <2>1, <2>2, OthersAttend
<1>6. ASSUME NEW h \in Handlers, NEW s \in RowStatuses, Writes(h, s)
      PROVE  Attended(i)'
  <2>1. OthersWait(h) /\ RequestsStay /\ RowBecomes(handlers[h].row, s)
    BY <1>6 DEF Writes, Leaves, Proceeds
  <2>2. Attended(i) /\ i \in RowIds
    BY <1>0, <2>1, MadeAreRows DEF RowBecomes, Made
  <2>3. CASE i # handlers[h].row
    <3>1. rows'[i] = rows[i] /\ ~WorksOn(h, i)
      BY <2>1, <2>2, <2>3 DEF RowBecomes, WorksOn
    <3> QED
      BY <2>1, <2>2, <3>1, OthersAttend
  <2>4. CASE i = handlers[h].row
    <3>1. rows'[i].status = s
      BY <2>1, <2>4 DEF RowBecomes
    <3>2. CASE s \in {"PENDING", "EXECUTING", "FAILED"}
      <4>1. WorksOn(h, i)' /\ handlers'[h].pc # "gate"
        BY <1>6, <2>4, <3>2 DEF Writes, Proceeds, WorksOn, Working
      <4> QED
        BY <4>1 DEF Attended
    <3>3. CASE s \notin {"PENDING", "EXECUTING", "FAILED"}
      BY <3>1, <3>3 DEF Attended
    <3> QED
      BY <3>2, <3>3
  <2> QED
    BY <2>3, <2>4
<1>7. ASSUME NEW h \in Handlers, NEW k \in RowIds, Approves(h, k)
      PROVE  Attended(i)'
  <2>1. /\ OthersWait(h) /\ RequestsStay /\ handlers[h].pc = "idle" /\ Made' = Made
        /\ WorksOn(h, k)' /\ handlers'[h].pc # "gate"
    BY <1>7 DEF Approves, WorksOn, Working, Made
  <2>2. CASE i = k
    BY <2>1, <2>2 DEF Attended
  <2>3. CASE i # k
    <3>1. Attended(i) /\ i \in RowIds
      BY <1>0, <2>1, MadeAreRows
    <3>2. rows'[i] = rows[i] /\ ~WorksOn(h, i)
      BY <1>7, <2>1, <2>3, <3>1 DEF Approves, WorksOn, Working
    <3> QED
      BY <2>1, <3>1, <3>2, OthersAttend
  <2> QED
    BY <2>2, <2>3
<1>8. ASSUME handlers' = handlers, RequestsStay, Made' = Made,
             \/ rows'[i].status = rows[i].status
             \/ rows'[i].status \in {"REJECTED", "CONFIRMED", "EXHAUSTED_NEEDS_REDRIVE"}
      PROVE  Attended(i)'
  <2>1. Attended(i)
    BY <1>0, <1>8
  <2> QED
    BY <1>8, <2>1 DEF Attended, WorksOn
<1>9. ASSUME NEW k \in RowIds, Rejects(k)
      PROVE  Attended(i)'
  <2>1. i \in RowIds
    BY <1>9, MadeAreRows DEF Rejects, RowBecomes, Made
  <2> QED
    BY <1>8, <1>9, <2>1 DEF Rejects, RowBecomes, Made
<1>10. ASSUME NEW p \in Polls, Judges(p)
       PROVE  Attended(i)'
  <2>1. i \in RowIds /\ polls[p] \in Poll
    BY <1>10, MadeAreRows DEF Judges, RowBecomes, Made, TableInv, OracleTypeOK
  <2>2. polls[p].verdict \in {"CONFIRMED", "EXHAUSTED_NEEDS_REDRIVE"}
    BY <1>10, <2>1 DEF Judges, Poll
  <2>3. /\ handlers' = handlers /\ RequestsStay /\ Made' = Made
        /\ RowBecomes(Head(p).id, polls[p].verdict)
    BY <1>10 DEF Judges, RowBecomes, Made
  <2>4. rows'[i].status = rows[i].status \/ rows'[i].status = polls[p].verdict
    BY <2>1, <2>3 DEF RowBecomes
  <2> QED
    BY <1>8, <2>2, <2>3, <2>4
<1>11. CASE Ages
  <2>1. i \in RowIds
    BY <1>11, MadeAreRows DEF Ages, Made
  <2> QED
    BY <1>8, <1>11, <2>1 DEF Ages, Made
<1>12. CASE Dies
  BY <1>12 DEF Dies, TableInv, OracleTypeOK
<1>13. ASSUME RowsStay, handlers' = handlers, RequestsStay
       PROVE  Attended(i)'
  BY <1>8, <1>13 DEF RowsStay, Made
<1> QED
  BY <1>1, <1>2, <1>3, <1>4, <1>5, <1>6, <1>7, <1>9, <1>10, <1>11, <1>12, <1>13
  DEF Happens, Reads, Checks, Rests

(***************************************************************************)
(* Unless the process crashed, a row that says that it waits, runs or will *)
(* be retried has a handler that works on it, however handlers, polls and  *)
(* operators interleave (trigger-manager.ts:348-465), provided that        *)
(* RETRY_ATTEMPTS is not 0: with 0 the loop of executeWithRetry is not     *)
(* entered and its row stays PENDING.                                      *)
(***************************************************************************)
THEOREM NoOrphanRowsHolds ==
  ASSUME MaxAttempts > 0
  PROVE  Spec => []NoOrphanRows
<1>1. Init => WorkInv
  BY WorkInit
<1>2. TableInv /\ TableInv' /\ WorkInv /\ [Next]_vars => WorkInv'
  <2> SUFFICES ASSUME TableInv, TableInv', WorkInv, [Next]_vars
               PROVE  WorkInv'
    OBVIOUS
  <2>1. Happens
    BY StepHappens
  <2>2. Attempts'
    BY <2>1, AttemptsStep DEF WorkInv
  <2>3. Worked'
    BY <2>1, WorkedStep
  <2> QED
    BY <2>2, <2>3 DEF WorkInv
<1>3. WorkInv => NoOrphanRows
  BY DEF WorkInv, Worked, Attended, WorksOn, NoOrphanRows, Made
<1> QED
  BY <1>1, <1>2, <1>3, TableInvariant, PTL DEF Spec

-------------------------------------------------------------------------------
(* Confirmed is on-chain *)

\* Nobody redrives.
Plain ==
  \A h \in Handlers : ~handlers[h].redrive /\ handlers[h].pc \notin {"recheck", "confirm"}

\* A handler that is about to record a transaction has its receipt.
SentFirst == \A h \in Handlers : handlers[h].pc = "record" => handlers[h].type \in done

\* What a poll has read was submitted then, and so is on-chain now.
BatchDone == \A p \in Polls : \A e \in polls[p].batch : rows[e.id].type \in done

ChainInv == Plain /\ SentFirst /\ BatchDone /\ ConfirmedIsOnChain

LEMMA PlainStep ==
  ASSUME Plain, Happens, ~Redrives
  PROVE  Plain'
<1>1. ASSUME NEW h \in Handlers, OthersWait(h), ~handlers'[h].redrive,
             handlers'[h].pc \notin {"recheck", "confirm"}
      PROVE  Plain'
  BY <1>1 DEF Plain, OthersWait
<1>2. ASSUME NEW h \in Handlers, NEW type \in TriggerTypes, NEW redrive \in BOOLEAN,
             Asks(h, type, redrive)
      PROVE  Plain'
  BY <1>1, <1>2 DEF Asks
<1>3. ASSUME NEW h \in Handlers, NEW pc \in Places, Moves(h, pc)
      PROVE  Plain'
  BY <1>1, <1>3 DEF Moves, Proceeds, Plain
<1>4. ASSUME NEW h \in Handlers, Ends(h)
      PROVE  Plain'
  BY <1>1, <1>4 DEF Ends, Leaves, IdleHandler
<1>5. ASSUME NEW h \in Handlers, Creates(h) \/ Reuses(h)
      PROVE  Plain'
  BY <1>1, <1>5 DEF Creates, Reuses, Starts, AfterCreate, Plain
<1>6. ASSUME NEW h \in Handlers, NEW s \in RowStatuses, Writes(h, s)
      PROVE  Plain'
  BY <1>1, <1>6 DEF Writes, Leaves, Proceeds, IdleHandler, Plain
<1>7. ASSUME NEW h \in Handlers, NEW i \in RowIds, Approves(h, i)
      PROVE  Plain'
  BY <1>1, <1>7 DEF Approves
<1>8. ASSUME handlers' = handlers
      PROVE  Plain'
  BY <1>8 DEF Plain
<1>9. CASE Dies
  BY <1>9 DEF Dies, Plain, IdleHandler
<1> QED
  BY <1>2, <1>3, <1>4, <1>5, <1>6, <1>7, <1>8, <1>9
  DEF Happens, Rejects, Reads, Checks, Judges, Ages, Rests

LEMMA SentFirstStep ==
  ASSUME SentFirst, Happens
  PROVE  SentFirst'
<1>1. ASSUME NEW h \in Handlers, OthersWait(h), done \subseteq done',
             handlers'[h].pc = "record" => handlers'[h].type \in done'
      PROVE  SentFirst'
  BY <1>1 DEF SentFirst, OthersWait
<1>2. ASSUME NEW h \in Handlers, NEW type \in TriggerTypes, NEW redrive \in BOOLEAN,
             Asks(h, type, redrive)
      PROVE  SentFirst'
  BY <1>1, <1>2 DEF Asks, ChainGrows
<1>3. ASSUME NEW h \in Handlers, NEW pc \in Places, Moves(h, pc)
      PROVE  SentFirst'
  BY <1>1, <1>3 DEF Moves, Proceeds, ChainGrows
<1>4. ASSUME NEW h \in Handlers, Ends(h)
      PROVE  SentFirst'
  BY <1>1, <1>4 DEF Ends, Leaves, IdleHandler, ChainGrows
<1>5. ASSUME NEW h \in Handlers, Creates(h) \/ Reuses(h)
      PROVE  SentFirst'
  BY <1>1, <1>5 DEF Creates, Reuses, Starts, AfterCreate, ChainGrows
<1>6. ASSUME NEW h \in Handlers, NEW s \in RowStatuses, Writes(h, s)
      PROVE  SentFirst'
  BY <1>1, <1>6 DEF Writes, Leaves, Proceeds, IdleHandler, ChainGrows
<1>7. ASSUME NEW h \in Handlers, NEW i \in RowIds, Approves(h, i)
      PROVE  SentFirst'
  BY <1>1, <1>7 DEF Approves, ChainGrows
<1>8. ASSUME handlers' = handlers, ChainGrows
      PROVE  SentFirst'
  BY <1>8 DEF SentFirst, ChainGrows
<1>9. CASE Dies
  BY <1>9 DEF Dies, SentFirst, IdleHandler
<1> QED
  BY <1>2, <1>3, <1>4, <1>5, <1>6, <1>7, <1>8, <1>9
  DEF Happens, Rejects, Reads, Checks, Judges, Ages, Rests

Keeps(i) ==
  /\ i \in Made'
  /\ rows'[i].type = rows[i].type
  /\ rows[i].approved => rows'[i].approved

\* No step changes what a row is about, and none undoes a milestone or an
\* approval.
LEMMA RowsKeep ==
  ASSUME TableInv, Happens, NEW i \in Made
  PROVE  Keeps(i) /\ ChainGrows
<1>0. i \in RowIds /\ rowCount \in Nat
  BY MadeAreRows
<1>1. ASSUME NEW k, NEW s, RowBecomes(k, s)
      PROVE  Keeps(i)
  BY <1>0, <1>1 DEF RowBecomes, Keeps, Made
<1>2. ASSUME RowsStay
      PROVE  Keeps(i)
  BY <1>2 DEF RowsStay, Keeps, Made
<1>3. ASSUME NEW h \in Handlers, Creates(h)
      PROVE  Keeps(i)
  <2>1. i # rowCount + 1 /\ i \in 1 .. rowCount + 1
    BY <1>0 DEF Made
  <2> QED
    BY <1>0, <1>3, <2>1 DEF Creates, Keeps, Made
<1>4. ASSUME NEW h \in Handlers, NEW k \in RowIds, Approves(h, k)
      PROVE  Keeps(i)
  BY <1>0, <1>4 DEF Approves, Keeps, Made
<1>5. CASE Ages
  BY <1>0, <1>5 DEF Ages, Keeps, Made
<1>6. ChainGrows
  <2>1. \A h, type, redrive : Asks(h, type, redrive) => ChainGrows
    BY DEF Asks
  <2>2. \A h, x : Moves(h, x) \/ Writes(h, x) \/ Approves(h, x) => ChainGrows
    BY DEF Moves, Writes, Approves
  <2>3. \A h : Ends(h) \/ Creates(h) \/ Reuses(h) => ChainGrows
    BY DEF Ends, Creates, Reuses
  <2>4. \A x : Rejects(x) \/ Reads(x) \/ Checks(x) \/ Judges(x) => ChainGrows
    BY DEF Rejects, Reads, Checks, Judges
  <2>5. Ages \/ Dies \/ Rests => ChainGrows
    BY DEF Ages, Dies, Rests
  <2> QED BY <2>1, <2>2, <2>3, <2>4, <2>5, Zenon DEF Happens
<1>7. Keeps(i)
  BY <1>1, <1>2, <1>3, <1>4, <1>5
  DEF Happens, Asks, Moves, Ends, Reuses, Writes, Rejects, Reads, Checks, Judges, Dies, Rests
<1> QED
  BY <1>6, <1>7

LEMMA BatchDoneStep ==
  ASSUME TableInv, BatchDone, ConfirmedIsOnChain, Happens
  PROVE  BatchDone'
<1> SUFFICES ASSUME NEW p \in Polls, NEW e \in polls'[p].batch
             PROVE  rows'[e.id].type \in done'
  BY DEF BatchDone
<1>1. ASSUME NEW f \in polls[p].batch, e.id = f.id
      PROVE  rows'[e.id].type \in done'
  <2>1. f.id \in Made /\ rows[f.id].type \in done
    BY DEF TableInv, Batches, BatchDone
  <2> QED
    BY <1>1, <2>1, RowsKeep DEF Keeps, ChainGrows
<1>2. CASE polls'[p].batch \subseteq polls[p].batch
  BY <1>1, <1>2
<1>3. ASSUME NEW q \in Polls, Reads(q)
      PROVE  rows'[e.id].type \in done'
  <2>1. CASE p # q
    BY <1>2, <1>3, <2>1 DEF Reads
  <2>2. CASE p = q
    <3>1. polls'[p] \in Poll /\ rows[e.id].status = "SUBMITTED"
      BY <1>3, <2>2 DEF Reads
    <3>2. e.id \in RowIds
      BY <3>1 DEF Poll, Entry
    <3>3. e.id \in Made
      BY <3>1, <3>2 DEF TableInv, RowsMade, NoRow
    <3>4. rows[e.id].type \in done
      BY <3>1, <3>3 DEF ConfirmedIsOnChain, Made
    <3> QED
      BY <3>3, <3>4, RowsKeep DEF Keeps, ChainGrows
  <2> QED
    BY <2>1, <2>2
<1>4. ASSUME NEW q \in Polls, Checks(q) \/ Judges(q)
      PROVE  polls'[p].batch \subseteq polls[p].batch
  BY <1>4 DEF Checks, Judges
<1>5. CASE Ages
  <2>1. PICK f \in polls[p].batch : e = Aged(f)
    BY <1>5 DEF Ages
  <2>2. f \in Entry
    BY DEF TableInv, OracleTypeOK, Poll
  <2>3. e.id = f.id
    BY <2>1, <2>2 DEF Aged, Entry
  <2> QED
    BY <1>1, <2>3
<1>6. ASSUME polls' = polls
      PROVE  polls'[p].batch \subseteq polls[p].batch
  BY <1>6
<1>7. CASE Dies
  BY <1>7 DEF Dies, IdlePoll
<1> QED
  BY <1>2, <1>3, <1>4, <1>5, <1>6, <1>7
  DEF Happens, Asks, Moves, Ends, Creates, Reuses, Writes, Approves, Rejects, Rests

LEMMA ConfirmedStep ==
  ASSUME TableInv, ChainInv, Happens
  PROVE  ConfirmedIsOnChain'
<1> SUFFICES ASSUME NEW i \in Made', rows'[i].tx \/ rows'[i].status \in {"SUBMITTED", "CONFIRMED"}
             PROVE  rows'[i].type \in done'
  BY DEF ConfirmedIsOnChain, Made
<1>0. rowCount \in Nat /\ Made \subseteq RowIds
  BY MadeAreRows
<1>1. ASSUME i \in Made, rows[i].type \in done
      PROVE  rows'[i].type \in done'
  BY <1>1, RowsKeep DEF Keeps, ChainGrows
<1>2. ASSUME i \in Made,
             rows'[i].tx => rows[i].tx,
             rows'[i].status \in {"SUBMITTED", "CONFIRMED"} => rows'[i].status = rows[i].status
      PROVE  rows'[i].type \in done'
  BY <1>1, <1>2 DEF ChainInv, ConfirmedIsOnChain, Made
<1>3. ASSUME NEW k \in Made, NEW s, RowBecomes(k, s),
             s \in {"SUBMITTED", "CONFIRMED"} => rows[k].type \in done
      PROVE  rows'[i].type \in done'
  <2>1. i \in Made /\ i \in RowIds
    BY <1>0, <1>3 DEF RowBecomes, Made
  <2>2. CASE i # k
    BY <1>2, <1>3, <2>1, <2>2 DEF RowBecomes
  <2>3. CASE i = k
    BY <1>1, <1>2, <1>3, <2>1, <2>3 DEF RowBecomes
  <2> QED
    BY <2>2, <2>3
<1>4. ASSUME RowsStay
      PROVE  rows'[i].type \in done'
  BY <1>2, <1>4 DEF RowsStay, Made
<1>5. ASSUME NEW h \in Handlers, Creates(h)
      PROVE  rows'[i].type \in done'
  <2>1. i # rowCount + 1
    BY <1>5 DEF Creates, NewRow
  <2>2. i \in Made
    BY <1>0, <1>5, <2>1 DEF Creates, Made
  <2> QED
    BY <1>0, <1>2, <1>5, <2>1, <2>2 DEF Creates
<1>6. ASSUME NEW h \in Handlers, NEW s \in RowStatuses, Writes(h, s)
      PROVE  rows'[i].type \in done'
  <2>1. /\ handlers[h].row \in Made /\ rows[handlers[h].row].type = handlers[h].type
        /\ handlers[h].pc # "confirm"
        /\ handlers[h].pc = "record" => handlers[h].type \in done
    BY <1>6 DEF Writes, TableInv, OwnRows, OnRow, Working, ChainInv, Plain, SentFirst
  <2>2. s \in {"SUBMITTED", "CONFIRMED"} => rows[handlers[h].row].type \in done
    BY <1>6, <2>1 DEF Writes
  <2> QED
    BY <1>3, <1>6, <2>1, <2>2 DEF Writes
<1>7. ASSUME NEW h \in Handlers, NEW k \in RowIds, Approves(h, k)
      PROVE  rows'[i].type \in done'
  <2>1. i \in Made /\ i \in RowIds
    BY <1>0, <1>7 DEF Approves, Made
  <2> QED
    BY <1>2, <1>7, <2>1 DEF Approves
<1>8. ASSUME NEW k \in RowIds, Rejects(k)
      PROVE  rows'[i].type \in done'
  <2>1. k \in Made
    BY <1>8 DEF Rejects, TableInv, RowsMade, NoRow
  <2> QED
    BY <1>3, <1>8, <2>1 DEF Rejects
<1>9. ASSUME NEW p \in Polls, Judges(p)
      PROVE  rows'[i].type \in done'
  <2>1. Head(p).id \in Made /\ rows[Head(p).id].type \in done
    BY <1>9 DEF Judges, TableInv, Batches, ChainInv, BatchDone
  <2> QED
    BY <1>3, <1>9, <2>1 DEF Judges
<1>10. CASE Ages
  <2>1. i \in Made /\ i \in RowIds
    BY <1>0, <1>10 DEF Ages, Made
  <2> QED
    BY <1>2, <1>10, <2>1 DEF Ages
<1> QED
  BY <1>4, <1>5, <1>6, <1>7, <1>8, <1>9, <1>10
  DEF Happens, Asks, Moves, Ends, Reuses, Reads, Checks, Dies, Rests

LEMMA ChainInvariant == ~Redrives => (Spec => []ChainInv)
<1> SUFFICES ASSUME ~Redrives
             PROVE  Spec => []ChainInv
  OBVIOUS
<1>1. Init => ChainInv
  BY DEF Init, ChainInv, Plain, SentFirst, BatchDone, ConfirmedIsOnChain, IdleHandler, IdlePoll
<1>2. TableInv /\ ChainInv /\ [Next]_vars => ChainInv'
  <2> SUFFICES ASSUME TableInv, ChainInv, [Next]_vars
               PROVE  ChainInv'
    OBVIOUS
  <2>1. Happens
    BY StepHappens
  <2> QED
    BY <2>1, PlainStep, SentFirstStep, BatchDoneStep, ConfirmedStep DEF ChainInv
<1> QED
  BY <1>1, <1>2, TableInvariant, PTL DEF Spec

(***************************************************************************)
(* A transaction hash is recorded, and a trigger is confirmed, only for a  *)
(* milestone that was executed on-chain, whatever the polls and the other  *)
(* handlers conclude from the status of the trade meanwhile                *)
(* (confirmation-worker.ts:245), as long as nobody redrives: what a        *)
(* redrive concludes from that status (trigger-manager.ts:185) can be      *)
(* wrong.                                                                  *)
(***************************************************************************)
THEOREM ConfirmedIsOnChainHolds ==
  ASSUME ~Redrives
  PROVE  Spec => []ConfirmedIsOnChain
<1>1. ChainInv => ConfirmedIsOnChain
  BY DEF ChainInv
<1> QED
  BY <1>1, ChainInvariant, PTL

-------------------------------------------------------------------------------
(* Approved before sent *)

\* Somebody approved an action of this type.
Cleared(type) == \E j \in Made : rows[j].type = type /\ rows[j].approved

\* Somebody has, after the step.
ClearedNext(type) == \E j \in Made' : rows'[j].type = type /\ rows'[j].approved

ApprovedWork ==
  manualApproval =>
    \A h \in Handlers : handlers[h].pc \in Working \ {"gate"} => Cleared(handlers[h].type)

ApprovalInv == Plain /\ ApprovedWork /\ ApprovedBeforeSend

LEMMA ClearedStays ==
  ASSUME TableInv, Happens, NEW type, Cleared(type)
  PROVE  ClearedNext(type)
<1>1. PICK j \in Made : rows[j].type = type /\ rows[j].approved
  BY DEF Cleared
<1> QED
  BY <1>1, RowsKeep DEF Keeps, ClearedNext

LEMMA ModeStays == Happens => manualApproval' = manualApproval
<1>1. \A h, type, redrive : Asks(h, type, redrive) => manualApproval' = manualApproval
  BY DEF Asks
<1>2. \A h, x : Moves(h, x) \/ Writes(h, x) \/ Approves(h, x) => manualApproval' = manualApproval
  BY DEF Moves, Writes, Approves, RequestsStay
<1>3. \A h : Ends(h) \/ Creates(h) \/ Reuses(h) => manualApproval' = manualApproval
  BY DEF Ends, Creates, Reuses, RequestsStay
<1>4. \A x : Rejects(x) \/ Reads(x) \/ Checks(x) \/ Judges(x) => manualApproval' = manualApproval
  BY DEF Rejects, Reads, Checks, Judges, RequestsStay
<1>5. Ages \/ Dies \/ Rests => manualApproval' = manualApproval
  BY DEF Ages, Dies, Rests, RequestsStay
<1> QED BY <1>1, <1>2, <1>3, <1>4, <1>5, Zenon DEF Happens

LEMMA ApprovedWorkStep ==
  ASSUME TableInv, Plain, ApprovedWork, Happens
  PROVE  ApprovedWork'
<1> SUFFICES ASSUME manualApproval, NEW g \in Handlers, handlers'[g].pc \in Working \ {"gate"}
             PROVE  ClearedNext(handlers'[g].type)
  BY ModeStays DEF ApprovedWork, Cleared, ClearedNext
<1>1. ASSUME handlers'[g].type = handlers[g].type, handlers[g].pc \in Working \ {"gate"}
      PROVE  ClearedNext(handlers'[g].type)
  <2>1. Cleared(handlers[g].type)
    BY <1>1 DEF ApprovedWork
  <2> QED
    BY <1>1, <2>1, ClearedStays
<1>2. ASSUME NEW h \in Handlers, OthersWait(h), g # h
      PROVE  ClearedNext(handlers'[g].type)
  <2>1. handlers'[g] = handlers[g]
    BY <1>2 DEF OthersWait
  <2> QED
    BY <1>1, <2>1
<1>3. ASSUME NEW h \in Handlers, NEW type \in TriggerTypes, NEW redrive \in BOOLEAN,
             Asks(h, type, redrive)
      PROVE  ClearedNext(handlers'[g].type)
  BY <1>2, <1>3 DEF Asks, Working
<1>4. ASSUME NEW h \in Handlers, NEW pc \in Places, Moves(h, pc)
      PROVE  ClearedNext(handlers'[g].type)
  BY <1>1, <1>2, <1>4 DEF Moves, Proceeds, Working
<1>5. ASSUME NEW h \in Handlers, Ends(h)
      PROVE  ClearedNext(handlers'[g].type)
  BY <1>2, <1>5 DEF Ends, Leaves, IdleHandler, Working
<1>6. ASSUME NEW h \in Handlers, Creates(h) \/ Reuses(h)
      PROVE  ClearedNext(handlers'[g].type)
  BY <1>2, <1>6 DEF Creates, Reuses, Starts, AfterCreate, Plain, Working
<1>7. ASSUME NEW h \in Handlers, NEW s \in RowStatuses, Writes(h, s)
      PROVE  ClearedNext(handlers'[g].type)
  BY <1>1, <1>2, <1>7 DEF Writes, Leaves, Proceeds, IdleHandler, Working
<1>8. ASSUME NEW h \in Handlers, NEW i \in RowIds, Approves(h, i)
      PROVE  ClearedNext(handlers'[g].type)
  <2>1. CASE g # h
    BY <1>2, <1>8, <2>1 DEF Approves
  <2>2. CASE g = h
    <3>1. i \in Made
      BY <1>8 DEF Approves, TableInv, RowsMade, NoRow
    <3> QED
      BY <1>8, <2>2, <3>1 DEF Approves, ClearedNext, Made
  <2> QED
    BY <2>1, <2>2
<1>9. ASSUME handlers' = handlers
      PROVE  ClearedNext(handlers'[g].type)
  BY <1>1, <1>9
<1>10. CASE Dies
  BY <1>10 DEF Dies, IdleHandler, Working
<1> QED
  BY <1>3, <1>4, <1>5, <1>6, <1>7, <1>8, <1>9, <1>10
  DEF Happens, Rejects, Reads, Checks, Judges, Ages, Rests

LEMMA ApprovedStep ==
  ASSUME TableInv, ApprovalInv, Happens
  PROVE  ApprovedBeforeSend'
<1> SUFFICES ASSUME manualApproval, NEW i \in Made', rows'[i].status \in {"EXECUTING", "SUBMITTED"}
             PROVE  ClearedNext(rows'[i].type)
  BY ModeStays DEF ApprovedBeforeSend, ClearedNext, Made
<1>0. rowCount \in Nat /\ Made \subseteq RowIds
  BY MadeAreRows
<1>1. ASSUME i \in Made, Cleared(rows[i].type)
      PROVE  ClearedNext(rows'[i].type)
  BY <1>1, ClearedStays, RowsKeep DEF Keeps
<1>2. ASSUME i \in Made, rows'[i].status = rows[i].status
      PROVE  ClearedNext(rows'[i].type)
  BY <1>1, <1>2 DEF ApprovalInv, ApprovedBeforeSend, Cleared, Made
<1>3. ASSUME NEW k \in Made, NEW s, RowBecomes(k, s),
             s \in {"EXECUTING", "SUBMITTED"} => Cleared(rows[k].type)
      PROVE  ClearedNext(rows'[i].type)
  <2>1. i \in Made /\ i \in RowIds
    BY <1>0, <1>3 DEF RowBecomes, Made
  <2>2. CASE i # k
    BY <1>2, <1>3, <2>1, <2>2 DEF RowBecomes
  <2>3. CASE i = k
    BY <1>1, <1>3, <2>1, <2>3 DEF RowBecomes
  <2> QED
    BY <2>2, <2>3
<1>4. ASSUME RowsStay
      PROVE  ClearedNext(rows'[i].type)
  BY <1>2, <1>4 DEF RowsStay, Made
<1>5. ASSUME NEW h \in Handlers, Creates(h)
      PROVE  ClearedNext(rows'[i].type)
  <2>1. i # rowCount + 1
    BY <1>5 DEF Creates, NewRow
  <2>2. i \in Made
    BY <1>0, <1>5, <2>1 DEF Creates, Made
  <2> QED
    BY <1>0, <1>2, <1>5, <2>1, <2>2 DEF Creates
<1>6. ASSUME NEW h \in Handlers, NEW s \in RowStatuses, Writes(h, s)
      PROVE  ClearedNext(rows'[i].type)
  <2>1. handlers[h].row \in Made /\ rows[handlers[h].row].type = handlers[h].type
    BY <1>6 DEF Writes, TableInv, OwnRows, OnRow, Working
  <2>2. s \in {"EXECUTING", "SUBMITTED"} => Cleared(rows[handlers[h].row].type)
    BY <1>6, <2>1 DEF Writes, ApprovalInv, ApprovedWork, Working
  <2> QED
    BY <1>3, <1>6, <2>1, <2>2 DEF Writes
<1>7. ASSUME NEW h \in Handlers, NEW k \in RowIds, Approves(h, k)
      PROVE  ClearedNext(rows'[i].type)
  <2>1. i \in Made /\ i \in RowIds
    BY <1>0, <1>7 DEF Approves, Made
  <2> QED
    BY <1>2, <1>7, <2>1 DEF Approves
<1>8. ASSUME NEW k \in RowIds, Rejects(k)
      PROVE  ClearedNext(rows'[i].type)
  <2>1. k \in Made
    BY <1>8 DEF Rejects, TableInv, RowsMade, NoRow
  <2> QED
    BY <1>3, <1>8, <2>1 DEF Rejects
<1>9. ASSUME NEW p \in Polls, Judges(p)
      PROVE  ClearedNext(rows'[i].type)
  <2>1. Head(p).id \in Made /\ polls[p].verdict \in {"CONFIRMED", "EXHAUSTED_NEEDS_REDRIVE"}
    BY <1>9 DEF Judges, TableInv, OracleTypeOK, Poll, Batches
  <2> QED
    BY <1>3, <1>9, <2>1 DEF Judges
<1>10. CASE Ages
  <2>1. i \in Made /\ i \in RowIds
    BY <1>0, <1>10 DEF Ages, Made
  <2> QED
    BY <1>2, <1>10, <2>1 DEF Ages
<1> QED
  BY <1>4, <1>5, <1>6, <1>7, <1>8, <1>9, <1>10
  DEF Happens, Asks, Moves, Ends, Reuses, Reads, Checks, Dies, Rests

(***************************************************************************)
(* With manual approval on, nothing is executed or submitted for an action *)
(* that nobody ever approved (trigger-manager.ts:90), however handlers     *)
(* share and reuse rows, as long as nobody redrives: a redrive passes the  *)
(* gate.                                                                   *)
(***************************************************************************)
THEOREM ApprovedBeforeSendHolds ==
  ASSUME ~Redrives
  PROVE  Spec => []ApprovedBeforeSend
<1>1. Init => ApprovalInv
  BY DEF Init, ApprovalInv, Plain, ApprovedWork, ApprovedBeforeSend, IdleHandler, Working
<1>2. TableInv /\ ApprovalInv /\ [Next]_vars => ApprovalInv'
  <2> SUFFICES ASSUME TableInv, ApprovalInv, [Next]_vars
               PROVE  ApprovalInv'
    OBVIOUS
  <2>1. Happens
    BY StepHappens
  <2> QED
    BY <2>1, PlainStep, ApprovedWorkStep, ApprovedStep DEF ApprovalInv
<1>3. ApprovalInv => ApprovedBeforeSend
  BY DEF ApprovalInv
<1> QED
  BY <1>1, <1>2, <1>3, TableInvariant, PTL DEF Spec

-------------------------------------------------------------------------------
(* A settled row yields only to those who overlap *)

\* The handler has read the newest row, or will, and counts on it.
OnNewest(h) == handlers[h].pc \in {"validate", "create", "reuse", "recheck"}

\* What a request found settled is made already, it does not work on it, and the newest
\* row, which it may take yet, is a newer one.
Aside ==
  \A h \in Handlers :
    /\ handlers[h].settled \subseteq Made
    /\ handlers[h].pc \in OnRow => handlers[h].row \notin handlers[h].settled
    /\ OnNewest(h) =>
         \A i \in handlers[h].settled :
           \E j \in Made : rows[j].type = handlers[h].type /\ i < j

\* The rows that are made stay, and so do their actions.
RowsLast == Made \subseteq Made' /\ \A j \in Made : rows'[j].type = rows[j].type

\* The handlers other than h stay aside as the table grows.
LEMMA OthersAside ==
  ASSUME Aside, RowsLast, NEW g \in Handlers, handlers'[g] = handlers[g]
  PROVE  /\ handlers'[g].settled \subseteq Made'
         /\ handlers'[g].pc \in OnRow => handlers'[g].row \notin handlers'[g].settled
         /\ OnNewest(g)' =>
              \A i \in handlers'[g].settled :
                \E j \in Made' : rows'[j].type = handlers'[g].type /\ i < j
  BY DEF Aside, RowsLast, OnNewest

\* What a request finds settled when it arrives is older than the newest row.
LEMMA SettledIsOlder ==
  ASSUME TableInv, NEW type \in TriggerTypes, ~isActionAlreadyCompleted(Latest(type))
  PROVE  /\ SettledRows(type) \subseteq Made
         /\ Latest(type) \notin SettledRows(type)
         /\ \A i \in SettledRows(type) : \E j \in Made : rows[j].type = type /\ i < j
<1>0. Made \subseteq RowIds /\ RowIds \subseteq Nat \ {0}
  BY MadeAreRows, OracleAssumption DEF RowIds
<1>1. ASSUME NEW i \in RowIds, rows[i].type \in TriggerTypes
      PROVE  i \in Made
  BY <1>1 DEF TableInv, RowsMade, NoRow, TriggerTypes
<1>2. /\ Latest(type) \in Nat
      /\ Latest(type) # 0 => Latest(type) \in RowIds /\ rows[Latest(type)].type = type
      /\ \A i \in RowIds : rows[i].type = type => i <= Latest(type)
  BY LatestIs
<1>3. Latest(type) \notin SettledRows(type)
  BY <1>0 DEF SettledRows, Settled, isActionAlreadyCompleted
<1>4. ASSUME NEW i \in SettledRows(type)
      PROVE  i \in Made /\ \E j \in Made : rows[j].type = type /\ i < j
  <2>1. i \in RowIds /\ rows[i].type = type
    BY DEF SettledRows
  <2>2. i <= Latest(type) /\ i # Latest(type)
    BY <1>2, <1>3, <2>1
  <2>3. Latest(type) # 0 /\ i < Latest(type)
    BY <1>0, <1>2, <2>1, <2>2
  <2>4. Latest(type) \in Made
    BY <1>1, <1>2, <2>3
  <2> QED
    BY <1>1, <1>2, <2>1, <2>3, <2>4
<1> QED
  BY <1>3, <1>4

LEMMA AsideStep ==
  ASSUME TableInv, Aside, Happens
  PROVE  Aside'
<1>0. /\ rowCount \in Nat /\ Made \subseteq RowIds /\ RowIds \subseteq Nat \ {0}
      /\ \A h \in Handlers : handlers[h].pc \in Places
  BY MadeAreRows, OthersAreIdle, OracleAssumption DEF RowIds
<1> DEFINE IsAside(g) ==
      /\ handlers'[g].settled \subseteq Made'
      /\ handlers'[g].pc \in OnRow => handlers'[g].row \notin handlers'[g].settled
      /\ OnNewest(g)' =>
           \A i \in handlers'[g].settled :
             \E j \in Made' : rows'[j].type = handlers'[g].type /\ i < j
<1>1. ASSUME RowsStay
      PROVE  RowsLast /\ Made' = Made
  BY <1>1 DEF RowsStay, RowsLast, Made
<1>2. ASSUME NEW i \in RowIds, NEW s, RowBecomes(i, s)
      PROVE  RowsLast /\ Made' = Made
  <2>1. \A j \in RowIds : rows'[j].type = rows[j].type
    BY <1>2 DEF RowBecomes
  <2> QED
    BY <1>0, <1>2, <2>1 DEF RowBecomes, RowsLast, Made
<1>3. ASSUME NEW h \in Handlers, OthersWait(h), RowsLast, IsAside(h)
      PROVE  Aside'
  <2>1. \A g \in Handlers : IsAside(g)
    BY <1>3, OthersAside DEF OthersWait
  <2> QED
    BY <2>1 DEF Aside
<1>4. ASSUME NEW h \in Handlers, Leaves(h), RowsLast
      PROVE  Aside'
  <2>1. IsAside(h)
    BY <1>4 DEF Leaves, IdleHandler, OnNewest, OnRow, Working
  <2> QED
    BY <1>3, <1>4, <2>1 DEF Leaves
<1>5. ASSUME NEW h \in Handlers, NEW type \in TriggerTypes, NEW redrive \in BOOLEAN,
             Asks(h, type, redrive)
      PROVE  Aside'
  <2>1. /\ SettledRows(type) \subseteq Made /\ Latest(type) \notin SettledRows(type)
        /\ \A i \in SettledRows(type) : \E j \in Made : rows[j].type = type /\ i < j
    BY <1>5, SettledIsOlder DEF Asks
  <2>2. /\ handlers'[h].settled = SettledRows(type) /\ handlers'[h].type = type
        /\ handlers'[h].pc \in {"validate", "recheck"}
        /\ handlers'[h].pc = "recheck" => handlers'[h].row = Latest(type)
        /\ OthersWait(h) /\ RowsStay
    BY <1>5 DEF Asks
  <2>3. rows' = rows /\ Made' = Made /\ RowsLast
    BY <1>1, <2>2 DEF RowsStay
  <2>4. handlers'[h].pc \in OnRow => handlers'[h].row \notin handlers'[h].settled
    BY <2>1, <2>2 DEF OnRow, Working
  <2>5. \A i \in handlers'[h].settled : \E j \in Made' : rows'[j].type = type /\ i < j
    BY <2>1, <2>2, <2>3
  <2>6. IsAside(h)
    BY <2>1, <2>2, <2>3, <2>4, <2>5
  <2> HIDE DEF IsAside
  <2> QED
    BY <1>3, <2>2, <2>3, <2>6
<1>6. ASSUME NEW h \in Handlers, NEW pc \in Places, Moves(h, pc)
      PROVE  Aside'
  <2>1. /\ handlers'[h].pc = pc /\ handlers'[h].type = handlers[h].type
        /\ handlers'[h].row = handlers[h].row /\ handlers'[h].settled = handlers[h].settled
        /\ OthersWait(h) /\ RowsStay
    BY <1>6 DEF Moves, Proceeds
  <2>2. pc \in OnRow => handlers[h].pc \in OnRow
    BY <1>6 DEF Moves, OnRow, Working
  <2>3. OnNewest(h)' => OnNewest(h)
    BY <1>6, <2>1 DEF Moves, OnNewest
  <2>4. rows' = rows /\ Made' = Made /\ RowsLast
    BY <1>1, <2>1 DEF RowsStay
  <2>5. IsAside(h)
    BY <2>1, <2>2, <2>3, <2>4 DEF Aside
  <2> HIDE DEF IsAside
  <2> QED
    BY <1>3, <2>1, <2>4, <2>5
<1>7. ASSUME NEW h \in Handlers, Creates(h)
      PROVE  Aside'
  <2>1. /\ rowCount' = rowCount + 1 /\ OthersWait(h)
        /\ \A j \in RowIds \ {rowCount + 1} : rows'[j] = rows[j]
        /\ handlers'[h].pc \in {"gate", "attempt"} /\ handlers'[h].row = rowCount + 1
        /\ handlers'[h].settled = handlers[h].settled
    BY <1>7 DEF Creates, Starts, AfterCreate
  <2>2. Made = 1 .. rowCount /\ Made' = 1 .. (rowCount + 1)
    BY <2>1 DEF Made
  <2>3. Made \subseteq Made' /\ rowCount + 1 \notin Made
    BY <1>0, <2>2
  <2>4. RowsLast
    <3>1. \A j \in Made : j \in RowIds \ {rowCount + 1}
      BY <1>0, <2>3
    <3> QED
      BY <2>1, <2>3, <3>1 DEF RowsLast
  <2>5. handlers[h].settled \subseteq Made
    BY DEF Aside
  <2>6. IsAside(h)
    BY <2>1, <2>3, <2>5 DEF OnNewest
  <2> HIDE DEF IsAside
  <2> QED
    BY <1>3, <2>1, <2>4, <2>6
<1>8. ASSUME NEW h \in Handlers, Reuses(h)
      PROVE  Aside'
  <2>1. /\ handlers'[h].pc \in {"gate", "attempt"} /\ OthersWait(h) /\ RowsStay
        /\ handlers'[h].row = Latest(handlers[h].type)
        /\ handlers'[h].settled = handlers[h].settled
        /\ OnNewest(h)
    BY <1>8 DEF Reuses, Starts, AfterCreate, OnNewest
  <2>2. Latest(handlers[h].type) \notin handlers[h].settled
    <3>1. SUFFICES ASSUME Latest(handlers[h].type) \in handlers[h].settled
                   PROVE  FALSE
      OBVIOUS
    <3>2. PICK j \in Made : rows[j].type = handlers[h].type /\ Latest(handlers[h].type) < j
      BY <2>1, <3>1 DEF Aside
    <3>3. j \in RowIds /\ j <= Latest(handlers[h].type) /\ Latest(handlers[h].type) \in Nat
      BY <1>0, <3>2, LatestIs
    <3> QED
      BY <1>0, <3>2, <3>3
  <2>3. Made' = Made /\ RowsLast
    BY <1>1, <2>1
  <2>4. IsAside(h)
    BY <2>1, <2>2, <2>3 DEF Aside, OnNewest
  <2> HIDE DEF IsAside
  <2> QED
    BY <1>3, <2>1, <2>3, <2>4
<1>9. ASSUME NEW h \in Handlers, NEW s \in RowStatuses, Writes(h, s)
      PROVE  Aside'
  <2>1. handlers[h].pc \in OnRow
    BY <1>9 DEF Writes, OnRow, Working
  <2>2. handlers[h].row \in RowIds
    BY <1>0, <2>1 DEF TableInv, OwnRows
  <2>3. Made' = Made /\ RowsLast
    BY <1>2, <1>9, <2>2 DEF Writes
  <2>4. CASE Leaves(h)
    BY <1>4, <2>3, <2>4
  <2>5. CASE ~Leaves(h)
    <3>1. /\ handlers'[h].pc \in {"send", "attempt"} /\ handlers'[h].row = handlers[h].row
          /\ handlers'[h].settled = handlers[h].settled /\ OthersWait(h)
      BY <1>9, <2>5 DEF Writes, Proceeds
    <3>2. IsAside(h)
      BY <2>1, <2>3, <3>1 DEF Aside, OnNewest
    <3> HIDE DEF IsAside
    <3> QED
      BY <1>3, <2>3, <3>1, <3>2
  <2> QED
    BY <2>4, <2>5
<1>10. ASSUME NEW h \in Handlers, NEW i \in RowIds, Approves(h, i)
       PROVE  Aside'
  <2>1. /\ handlers'[h].pc = "attempt" /\ handlers'[h].row = i /\ OthersWait(h)
        /\ handlers'[h].settled = SettledRows(rows[i].type)
    BY <1>10 DEF Approves
  <2>2. /\ rows[i].status = "PENDING_APPROVAL" /\ rowCount' = rowCount
        /\ \A j \in RowIds : rows'[j].type = rows[j].type
    BY <1>10 DEF Approves
  <2>3. i \notin SettledRows(rows[i].type)
    BY <2>2 DEF SettledRows, Settled
  <2>4. SettledRows(rows[i].type) \subseteq Made
    <3>1. ASSUME NEW k \in RowIds, rows[k].status \in Settled
          PROVE  k \in Made
      BY <3>1, ActiveIsMade DEF Settled
    <3> QED
      BY <3>1 DEF SettledRows
  <2>5. Made' = Made /\ RowsLast
    BY <1>0, <2>2 DEF Made, RowsLast
  <2>6. IsAside(h)
    BY <2>1, <2>3, <2>4, <2>5 DEF OnNewest
  <2> HIDE DEF IsAside
  <2> QED
    BY <1>3, <2>1, <2>5, <2>6
<1>11. ASSUME handlers' = handlers, RowsLast
       PROVE  Aside'
  <2>1. \A g \in Handlers : IsAside(g)
    BY <1>11, OthersAside
  <2> QED
    BY <2>1 DEF Aside
<1>12. ASSUME NEW p \in Polls, Judges(p)
       PROVE  Aside'
  <2>1. Head(p).id \in RowIds
    BY <1>0, <1>12 DEF Judges, TableInv, Batches
  <2> QED
    BY <1>2, <1>11, <1>12, <2>1 DEF Judges
<1>13. CASE Ages
  <2>1. RowsLast
    BY <1>0, <1>13 DEF Ages, RowsLast, Made
  <2> QED
    BY <1>11, <1>13, <2>1 DEF Ages
<1>14. CASE Dies
  BY <1>14 DEF Dies, Aside, IdleHandler, OnNewest, OnRow, Working
<1>15. ASSUME NEW i \in RowIds, Rejects(i)
       PROVE  Aside'
  BY <1>2, <1>11, <1>15 DEF Rejects
<1>16. ASSUME handlers' = handlers, RowsStay
       PROVE  Aside'
  BY <1>1, <1>11, <1>16
<1>17. ASSUME NEW h \in Handlers, Ends(h)
       PROVE  Aside'
  BY <1>1, <1>4, <1>17 DEF Ends
<1> HIDE DEF IsAside
<1> QED
  BY <1>5, <1>6, <1>7, <1>8, <1>9, <1>10, <1>12, <1>13, <1>14, <1>15, <1>16, <1>17
  DEF Happens, Reads, Checks, Rests

\* What SettledYieldsToOverlap says of row i.
Yields(i) ==
  rows[i].status \in Settled /\ rows'[i].status # rows[i].status =>
    \/ \E h \in Handlers : handlers[h].row = i /\ i \notin handlers[h].settled
    \/ \E p \in Polls : polls[p].verdict = rows'[i].status /\ Head(p).id = i

LEMMA SettledStep ==
  ASSUME TableInv, Aside, Happens, NEW i \in RowIds
  PROVE  Yields(i)
<1>1. ASSUME rows'[i].status = rows[i].status \/ rows[i].status \notin Settled
      PROVE  Yields(i)
  BY <1>1 DEF Yields
<1>2. ASSUME NEW k \in RowIds, rows[k].status \notin Settled,
             \A j \in RowIds \ {k} : rows'[j] = rows[j]
      PROVE  Yields(i)
  BY <1>1, <1>2
<1>3. ASSUME NEW h \in Handlers, Creates(h)
      PROVE  Yields(i)
  <2>1. /\ rowCount + 1 \in RowIds /\ rowCount \in Nat
        /\ \A j \in RowIds \ {rowCount + 1} : rows'[j] = rows[j]
    BY <1>3, MadeAreRows DEF Creates
  <2>2. rows[rowCount + 1].status \notin Settled
    BY <2>1 DEF TableInv, RowsMade, Made, NoRow, Settled
  <2> QED
    BY <1>2, <2>1, <2>2
<1>4. ASSUME NEW h \in Handlers, NEW s \in RowStatuses, Writes(h, s)
      PROVE  Yields(i)
  <2>1. handlers[h].pc \in OnRow
    BY <1>4 DEF Writes, OnRow, Working
  <2>2. handlers[h].row \notin handlers[h].settled
    BY <2>1 DEF Aside
  <2>3. CASE i = handlers[h].row
    BY <2>2, <2>3 DEF Yields
  <2>4. CASE i # handlers[h].row
    BY <1>1, <1>4, <2>4 DEF Writes, RowBecomes
  <2> QED
    BY <2>3, <2>4
<1>5. ASSUME NEW h \in Handlers, NEW k \in RowIds, Approves(h, k)
      PROVE  Yields(i)
  BY <1>2, <1>5 DEF Approves, Settled
<1>6. ASSUME NEW k \in RowIds, Rejects(k)
      PROVE  Yields(i)
  BY <1>2, <1>6 DEF Rejects, RowBecomes, Settled
<1>7. ASSUME NEW p \in Polls, Judges(p)
      PROVE  Yields(i)
  <2>1. CASE i = Head(p).id
    BY <1>7, <2>1 DEF Judges, RowBecomes, Yields
  <2>2. CASE i # Head(p).id
    BY <1>1, <1>7, <2>2 DEF Judges, RowBecomes
  <2> QED
    BY <2>1, <2>2
<1>8. CASE Ages
  BY <1>1, <1>8 DEF Ages
<1>9. ASSUME rows' = rows
      PROVE  Yields(i)
  BY <1>1, <1>9
<1> QED
  BY <1>3, <1>4, <1>5, <1>6, <1>7, <1>8, <1>9
  DEF Happens, Asks, Moves, Ends, Reuses, Reads, Checks, Dies, Rests, RowsStay

(***************************************************************************)
(* A row that says SUBMITTED or CONFIRMED is written only by a request     *)
(* that arrived before it said so or by a poll that had read it as         *)
(* SUBMITTED, for any number of requests and polls that overlap, redrives, *)
(* approvals and crashes included: the check of the newest row             *)
(* (trigger-manager.ts:56) protects it from all later ones, although no    *)
(* UPDATE of theirs looks at the status again (queries.ts:169).            *)
(***************************************************************************)
THEOREM SettledYieldsToOverlapHolds == Spec => SettledYieldsToOverlap
<1>1. Init => Aside
  BY DEF Init, Aside, IdleHandler, OnRow, Working, OnNewest
<1>2. TableInv /\ Aside /\ [Next]_vars => Aside' /\ (\A i \in RowIds : Yields(i))
  <2> SUFFICES ASSUME TableInv, Aside, [Next]_vars
               PROVE  Aside' /\ (\A i \in RowIds : Yields(i))
    OBVIOUS
  <2>1. Happens
    BY StepHappens
  <2> QED
    BY <2>1, AsideStep, SettledStep
<1> QED
  BY <1>1, <1>2, TableInvariant, PTL DEF Spec, SettledYieldsToOverlap, Yields

===============================================================================
