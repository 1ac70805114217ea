------------------------------- MODULE BuyerSDK --------------------------------
(***************************************************************************)
(* sdk/src/modules/buyerSDK.ts and client.ts: the calls a buyer's          *)
(* application makes, on top of the contract.  A call reads the chain,     *)
(* signs and sends; other calls of the same buyer, the other parties and   *)
(* the clock go on at each await.  A transaction that was sent lands or    *)
(* reverts even when its receipt does not arrive.  The transactions of one *)
(* buyer land in any order.                                                *)
(***************************************************************************)
EXTENDS AgroasysEscrow

CONSTANTS
  None,
  Buyer,              \* the signer
  Calls,              \* calls under way at a time
  Wanted,             \* the TradeParameters given, with a deadline or 0
  InitialAllowances,  \* approvals the application made itself, by approveUSDC
  DefaultDeadline,    \* 3600 seconds, in clock ticks
  MaxLost             \* bound: receipts lost

(***************************************************************************)
(* The bounds of the contract's model refuse no call: there is room for    *)
(* the trades of all Calls, and trades are accepted as long as time goes   *)
(* on.                                                                     *)
(***************************************************************************)
ASSUME BuyerAssumption ==
  /\ Buyer \in Accounts
  /\ IsFiniteSet(Calls) /\ Cardinality(Calls) <= MaxTrades
  /\ Wanted \subseteq [order : Orders, deadline : Nat]
  /\ InitialAllowances \subseteq Nat
  /\ DefaultDeadline \in Nat
  /\ 1 <= LastInputTime /\ MaxTime <= LastInputTime
  /\ None \notin Nat \cup {"ok", "lost", "failed", "excused", "refused"}

VARIABLES
  allowance,        \* USDC the escrow may take from Buyer
  calls,            \* what the calls know, and the transactions they sent
  lostReceipts

sdkVars == <<allowance, calls, lostReceipts>>

NoCall == [op |-> "none"]

SDKInit ==
  /\ allowance \in InitialAllowances
  /\ calls = [c \in Calls |-> NoCall]
  /\ lostReceipts = 0

\* Neither answered nor done with its transaction.
Unfinished(c) == calls[c].op # "none" /\ (calls[c].answer = None \/ calls[c].sent # "none")

At(c, place) == calls[c].op = "createTrade" /\ calls[c].at = place

\* A call begins; it and those still under way overlap.
Begin(c, call) ==
  /\ calls[c] = NoCall
  /\ calls' = [other \in Calls |->
       IF other = c             THEN call
       ELSE IF Unfinished(other) THEN [calls[other] EXCEPT !.alone = FALSE]
                                 ELSE calls[other]]

\* No call is under way.
Quiet == \A c \in Calls : ~Unfinished(c)

Becomes(c, call) == calls' = [calls EXCEPT ![c] = call]

-------------------------------------------------------------------------------
(* createTrade *)

\* What is refused before anything is read; the zero hash passes.
validateTradeParameters(params) ==
  /\ params.order.supplier # ZeroAddress
  /\ params.order.total > 0
  /\ params.order.firstTranche > 0
  /\ params.order.secondTranche > 0
  /\ params.order.total = params.order.logistics + params.order.platformFees
                            + params.order.firstTranche + params.order.secondTranche

\* Mutant: any allowance is enough.
Covers_some(amount, params) == amount > 0

Covers(amount, params) == amount >= params.order.total

NewTrade(params) ==
  [op |-> "createTrade", at |-> "allowance", params |-> params, nonce |-> None,
   deadline |-> None, made |-> None, answer |-> None, sent |-> "none", alone |-> Quiet]

sdkCreateTrade(c, params) ==
  /\ validateTradeParameters(params)
  /\ Begin(c, NewTrade(params))
  /\ UNCHANGED <<vars, allowance, lostReceipts>>

getUSDCAllowance(c) ==
  /\ At(c, "allowance") /\ calls[c].answer = None
  /\ Becomes(c, IF Covers(allowance, calls[c].params)
                  THEN [calls[c] EXCEPT !.at = "nonce"]
                  ELSE [calls[c] EXCEPT !.at = "approval", !.sent = "approve"])
  /\ UNCHANGED <<vars, allowance, lostReceipts>>

\* The approval lands: it replaces the allowance by the total of this trade.
approveUSDC(c) ==
  /\ At(c, "approval") /\ calls[c].sent = "approve"
  /\ allowance' = calls[c].params.order.total
  /\ Becomes(c, [calls[c] EXCEPT !.at = "nonce", !.sent = "none"])
  /\ UNCHANGED <<vars, lostReceipts>>

\* The deadline given, or one an hour from now.
DeadlineOf(params) == IF params.deadline = 0 THEN now + DefaultDeadline ELSE params.deadline

\* The nonce is read, and the deadline chosen.
getBuyerNonce(c) ==
  /\ At(c, "nonce") /\ calls[c].answer = None
  /\ Becomes(c, [calls[c] EXCEPT !.at = "sign", !.nonce = nonces[Buyer],
                                 !.deadline = DeadlineOf(calls[c].params)])
  /\ UNCHANGED <<vars, allowance, lostReceipts>>

getTreasuryAddress == Treasury

\* What is signed: the contract recovers Buyer from it only for these arguments.
signTradeMessage(params, nonce, deadline) ==
  [signer |-> Buyer, escrow |-> Escrow, treasury |-> getTreasuryAddress, order |-> params.order,
   nonce |-> nonce, deadline |-> deadline]

\* The contract's createTrade with the arguments of call c.
TradeTx(c) ==
  LET signed == signTradeMessage(calls[c].params, calls[c].nonce, calls[c].deadline) IN
  /\ createTrade(Buyer, signed.order, signed.nonce, signed.deadline, signed.signer)
  /\ allowance >= signed.order.total
  /\ allowance' = allowance - signed.order.total

\* That transaction would not revert now.
WouldLand(c) ==
  LET signed == signTradeMessage(calls[c].params, calls[c].nonce, calls[c].deadline) IN
  /\ AcceptsTrade(Buyer, signed.order, signed.nonce, signed.deadline, signed.signer)
  /\ allowance >= signed.order.total

\* The contract refuses a trade for a reason the caller can see.
Excused(c) ==
  paused \/ now > calls[c].deadline \/ usdc[Buyer] < calls[c].params.order.total
  \/ calls[c].params.order.ricardianHash = ZeroHash

Refusal(c) ==
  [calls[c] EXCEPT !.answer = IF Excused(c) THEN "excused" ELSE "refused", !.sent = "none"]

\* Gas is estimated on the current state: what would revert now is not sent.
sendTrade(c) ==
  /\ At(c, "sign") /\ calls[c].answer = None /\ calls[c].sent = "none"
  /\ \/ WouldLand(c) /\ Becomes(c, [calls[c] EXCEPT !.sent = "trade"])
     \/ ~WouldLand(c) /\ Becomes(c, Refusal(c))
  /\ UNCHANGED <<vars, allowance, lostReceipts>>

\* The answer of a call whose transaction landed, unless it has given up.
Landed(c) == IF calls[c].answer = None THEN "ok" ELSE calls[c].answer

tradeLands(c) ==
  /\ calls[c].op = "createTrade" /\ calls[c].sent = "trade"
  /\ \/ /\ TradeTx(c)
        /\ Becomes(c, [calls[c] EXCEPT !.answer = Landed(c), !.sent = "none",
                                       !.made = tradeCounter])
     \/ /\ ~WouldLand(c)
        /\ Becomes(c, IF calls[c].answer = None THEN Refusal(c)
                                               ELSE [calls[c] EXCEPT !.sent = "none"])
        /\ UNCHANGED <<vars, allowance>>
  /\ UNCHANGED lostReceipts

-------------------------------------------------------------------------------
(* The other calls send one transaction *)

\* The transaction of a call other than createTrade.
CallTx(op, t) ==
  \/ op = "openDispute" /\ openDispute(Buyer, t)
  \/ op = "cancelLockedTradeAfterTimeout" /\ cancelLockedTradeAfterTimeout(Buyer, t)
  \/ op = "refundInTransitAfterTimeout" /\ refundInTransitAfterTimeout(Buyer, t)
  \/ op = "claim" /\ claim(Buyer)

\* It would not revert now.
CallWouldLand(op, t) == ENABLED CallTx(op, t)

\* Only a call whose transaction would not revert is sent.
send(c, op, t) ==
  /\ calls[c] = NoCall
  /\ CallWouldLand(op, t)
  /\ Begin(c, [op |-> op, trade |-> t, answer |-> None, sent |-> "none", alone |-> Quiet])
  /\ UNCHANGED <<vars, allowance, lostReceipts>>

sdkOpenDispute(c, t) == send(c, "openDispute", t)

sdkCancelLockedTradeAfterTimeout(c, t) == send(c, "cancelLockedTradeAfterTimeout", t)

sdkRefundInTransitAfterTimeout(c, t) == send(c, "refundInTransitAfterTimeout", t)

\* It is about no trade.
sdkClaim(c) == send(c, "claim", 0)

\* It lands or reverts; either way the call is over.
callLands(c) ==
  /\ calls[c].op \notin {"none", "createTrade"}
  /\ \/ CallTx(calls[c].op, calls[c].trade)
     \/ ~CallWouldLand(calls[c].op, calls[c].trade) /\ UNCHANGED vars
  /\ Becomes(c, NoCall)
  /\ UNCHANGED <<allowance, lostReceipts>>

-------------------------------------------------------------------------------
(* Failures *)

\* A read fails: nothing was sent.
readFails(c) ==
  /\ calls[c].op = "createTrade" /\ calls[c].answer = None /\ calls[c].sent = "none"
  /\ Becomes(c, [calls[c] EXCEPT !.answer = "failed"])
  /\ UNCHANGED <<vars, allowance, lostReceipts>>

\* The receipt of a transaction is not obtained: the call answers an error.
receiptLost(c) ==
  /\ calls[c].op = "createTrade" /\ calls[c].answer = None /\ calls[c].sent # "none"
  /\ lostReceipts < MaxLost
  /\ lostReceipts' = lostReceipts + 1
  /\ Becomes(c, [calls[c] EXCEPT !.answer = "lost"])
  /\ UNCHANGED <<vars, allowance>>

-------------------------------------------------------------------------------

BuyerStep ==
  \E c \in Calls :
    \/ \E params \in Wanted : sdkCreateTrade(c, params)
    \/ getUSDCAllowance(c)
    \/ approveUSDC(c)
    \/ getBuyerNonce(c)
    \/ sendTrade(c)
    \/ tradeLands(c)
    \/ \E t \in TradeIds :
         sdkOpenDispute(c, t) \/ sdkCancelLockedTradeAfterTimeout(c, t)
         \/ sdkRefundInTransitAfterTimeout(c, t)
    \/ sdkClaim(c)
    \/ callLands(c)
    \/ readFails(c)
    \/ receiptLost(c)

\* What the other parties do, and the clock.
OthersStep ==
  \/ Clock
  \/ AdminStep
  \/ \E s \in Accounts \ {Buyer}, t \in TradeIds : TradeStep(s, t)
  \/ \E s \in Accounts \ {Buyer} : claim(s)
  \/ claimTreasury
  \/ \E t \in TradeIds : finalizeAfterDisputeWindow(t)
  \/ \E s \in Accounts \ {Buyer}, d \in DisputeIds :
       approveDisputeSolution(s, d) \/ cancelExpiredDisputeProposal(s, d)

SDKNext == BuyerStep \/ (OthersStep /\ UNCHANGED sdkVars)

SDKSpec == Init /\ SDKInit /\ [][SDKNext]_<<vars, sdkVars>>

-------------------------------------------------------------------------------
(* Properties *)

Creations == {c \in Calls : calls[c].op = "createTrade"}

\* However the calls of a buyer overlap (buyerSDK.ts:89-156), each trade in the contract
\* is the doing of exactly one of them and has its terms; a call that reports success
\* made its trade in time; one that fails made none unless its receipt was lost, so it
\* can be repeated; of two that read the same nonce one at most makes a trade; and a call
\* that nothing overlapped is refused only for a reason its caller can see, never for an
\* allowance or a nonce that the call itself was to provide.
EachCallOneTrade ==
  LET made == {c \in Creations : calls[c].made # None} IN
  /\ \A t \in Created : Cardinality({c \in made : calls[c].made = t}) = 1
  /\ \A c \in made :
       LET trade == trades[calls[c].made] IN
         /\ trade.buyerAddress = Buyer
         /\ trade.totalAmountLocked = calls[c].params.order.total
         /\ trade.supplierAddress = calls[c].params.order.supplier
         /\ trade.createdAt <= calls[c].deadline
  /\ \A c \in Creations :
       /\ calls[c].answer = "ok" => c \in made
       /\ calls[c].answer \in {"failed", "excused", "refused"} => c \notin made
       /\ calls[c].answer = "refused" => ~calls[c].alone
  /\ \A c, d \in made : c # d => calls[c].nonce # calls[d].nonce
  /\ nonces[Buyer] = Cardinality(made)

===============================================================================
