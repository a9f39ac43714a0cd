-------------------------------- MODULE SendTx --------------------------------
(***************************************************************************)
(* The sending calls of blx/fbclient.go: SendSync, SendRawTx, SendAsync,   *)
(* SendContractSync, SendContractSyncWithNonce, SendContractAsync and      *)
(* SendContractInputDataSync, used concurrently for one account.           *)
(*                                                                         *)
(* A call reads the gas price, the balance and the account's next nonce    *)
(* from the node, signs a transaction, sends it and, unless it is an       *)
(* asynchronous one, polls for the receipt.  The node's transaction pool   *)
(* and chain are external: what the calls rely on.  A caller may make the  *)
(* call again when it returned an error.                                   *)
(***************************************************************************)
EXTENDS Naturals, Sequences

CONSTANTS
    Payments,    \* what the callers want sent, one transaction each
    Kind,        \* which kinds of call may be used for each of them
    GivenNonces, \* which nonces may be given for it; 0 stands for none
    Prices,      \* gas prices the node may suggest
    FirstNonce,  \* the account's next nonce at the beginning
    MaxRetrySync,\* 24 in the code
    MaxCalls,    \* how often a caller makes a call: bounds the model
    Failures     \* what can go wrong: see FailureKinds

Kinds == {"SendSync", "SendRawTx", "SendAsync", "SendContractSync",
          "SendContractSyncWithNonce", "SendContractAsync", "SendContractInputDataSync"}

\* Checks that fail, the node not answering, an answer lost on its way back, a
\* receipt that names no block, and a context that ends.
FailureKinds == {"check", "rpc", "answer", "noblock", "context"}

ASSUME SendAssumption ==
    /\ Kind \in [Payments -> SUBSET Kinds]
    /\ GivenNonces \in [Payments -> SUBSET Nat]
    /\ Prices \subseteq Nat \ {0} /\ Prices # {}
    /\ FirstNonce \in Nat
    /\ MaxRetrySync \in Nat
    /\ MaxCalls \in Nat
    /\ Failures \subseteq FailureKinds

VARIABLES
    pool,   \* the node's pending transactions of the account
    mined,  \* its mined ones, in order, each with its success
    kind, given,  \* for each payment: the call it is made by and its nonce
    pc,     \* where each payment's call is
    price, nonce, tries,  \* the call's gas price, nonce and failed polls
    took,   \* whether the node took a transaction of the call
    res,    \* how the last call ended
    calls   \* how many calls were made

node == <<pool, mined>>
args == <<kind, given>>
vars == <<pool, mined, kind, given, pc, price, nonce, tries, took, res, calls>>

Init ==
    /\ pool = {}
    /\ mined = <<>>
    /\ kind \in {k \in [Payments -> Kinds] : \A p \in Payments : k[p] \in Kind[p]}
    /\ given \in {g \in [Payments -> UNION {GivenNonces[p] : p \in Payments}] :
                      \A p \in Payments : g[p] \in GivenNonces[p]}
    /\ pc = [p \in Payments |-> "idle"]
    /\ price = [p \in Payments |-> 0]
    /\ nonce = [p \in Payments |-> 0]
    /\ tries = [p \in Payments |-> 0]
    /\ took = [p \in Payments |-> FALSE]
    /\ res = [p \in Payments |-> "none"]
    /\ calls = [p \in Payments |-> 0]

-----------------------------------------------------------------------------
(* What tells the calls apart *)

\* They poll for the receipt.
Waits(p) == kind[p] \notin {"SendAsync", "SendContractAsync"}

\* They return the errors of SuggestGasPrice and BalanceAt; the others go on
\* with a nil price or balance.
ChecksQuote(p) ==
    kind[p] \in {"SendAsync", "SendContractAsync", "SendContractInputDataSync"}

\* They ignore the error of PendingNonceAt and go on with nonce 0.
IgnoresNonceError(p) == kind[p] \in {"SendSync", "SendContractSync"}

\* They estimate the gas and return the error of that before they compute with
\* the price and the balance.
Estimates(p) ==
    kind[p] \in {"SendContractSync", "SendContractSyncWithNonce",
                 "SendContractAsync", "SendContractInputDataSync"}

\* The nonce of the transaction is the caller's.
FixedNonce(p) ==
    \/ kind[p] \in {"SendRawTx", "SendContractSyncWithNonce"}
    \/ kind[p] \in {"SendAsync", "SendContractAsync"} /\ given[p] # 0

-----------------------------------------------------------------------------
(* The node *)

CurrentTx(p) == [pay |-> p, nonce |-> nonce[p], price |-> price[p]]

\* The nonce of the account's next transaction on the chain.
ChainNonce == FirstNonce + Len(mined)

PoolNonces == {t.nonce : t \in pool}

\* PendingNonceAt: the first nonce that is neither mined nor, without a gap,
\* pending.
PendingNonce ==
    CHOOSE n \in {ChainNonce} \cup {m + 1 : m \in PoolNonces} :
        /\ n >= ChainNonce
        /\ n \notin PoolNonces
        /\ \A m \in ChainNonce..(n - 1) : m \in PoolNonces

\* A transaction is refused if its nonce is used, or pending at no lower a price.
Acceptable(t) ==
    /\ t.nonce >= ChainNonce
    /\ \A u \in pool : u.nonce = t.nonce => u.price < t.price

\* The pool after it took t, in place of one with the same nonce.
Taken(t) == {u \in pool : u.nonce # t.nonce} \cup {t}

\* The next pending transaction gets into a block.
Mine(t, ok) ==
    /\ t \in pool
    /\ t.nonce = ChainNonce
    /\ pool' = pool \ {t}
    /\ mined' = Append(mined, [tx |-> t, ok |-> ok])
    /\ UNCHANGED <<args, pc, price, nonce, tries, took, res, calls>>

MinedAs(t, ok) == \E i \in DOMAIN mined : mined[i] = [tx |-> t, ok |-> ok]

-----------------------------------------------------------------------------
(* The calls *)

Goto(p, label) == pc' = [pc EXCEPT ![p] = label]

Return(p, result) ==
    /\ Goto(p, "returned")
    /\ res' = [res EXCEPT ![p] = result]

\* Errors after which a caller may safely try the payment again: any error if
\* the nonce is its own, else those that say that nothing was sent or that the
\* transaction failed.
Retriable(p) ==
    IF FixedNonce(p) THEN {"refused", "NonceNotEmpty", "NonceToSmall", "panic",
                           "send", "failed", "timeout"}
                     ELSE {"refused", "panic", "failed"}

\* A payment that was not tried yet, or whose call may be repeated.
MayCall(p) ==
    /\ pc[p] = "idle" \/ (pc[p] = "returned" /\ res[p] \in Retriable(p))
    /\ calls[p] < MaxCalls
    /\ calls' = [calls EXCEPT ![p] = @ + 1]
    /\ price' = [price EXCEPT ![p] = 0]
    /\ nonce' = [nonce EXCEPT ![p] = 0]
    /\ tries' = [tries EXCEPT ![p] = 0]
    /\ took' = [took EXCEPT ![p] = FALSE]
    /\ UNCHANGED <<node, args>>

Start(p) ==
    /\ MayCall(p)
    /\ kind[p] = "SendContractSyncWithNonce" => given[p] # 0
    /\ Goto(p, "quote")
    /\ res' = [res EXCEPT ![p] = "none"]

\* SendContractSyncWithNonce refuses nonce 0.
NoNonce(p) ==
    /\ MayCall(p)
    /\ kind[p] = "SendContractSyncWithNonce"
    /\ given[p] = 0
    /\ Return(p, "NonceNotEmpty")

\* A check before the transaction is sent fails, or a query it needs: the
\* address, the contract, the key, the amount or the raw transaction is bad, there
\* is no client, the token's or the account's balance is too small, the gas cannot
\* be estimated.
Refuse(p) ==
    /\ "check" \in Failures
    /\ pc[p] \in {"quote", "gas"}
    /\ pc[p] = "gas" /\ price[p] = 0 => Estimates(p)
    /\ Return(p, "refused")
    /\ UNCHANGED <<node, args, price, nonce, tries, took, calls>>

\* SendRawTx decodes a transaction that was signed elsewhere.
Decode(p) ==
    /\ pc[p] = "quote"
    /\ kind[p] = "SendRawTx"
    /\ price' = [price EXCEPT ![p] = CHOOSE g \in Prices : TRUE]
    /\ nonce' = [nonce EXCEPT ![p] = given[p]]
    /\ Goto(p, "send")
    /\ UNCHANGED <<node, args, tries, took, res, calls>>

\* SuggestGasPrice and BalanceAt.
Quote(p, g) ==
    /\ pc[p] = "quote"
    /\ kind[p] # "SendRawTx"
    /\ price' = [price EXCEPT ![p] = g]
    /\ Goto(p, IF kind[p] = "SendContractInputDataSync" THEN "gas" ELSE "nonce")
    /\ UNCHANGED <<node, args, nonce, tries, took, res, calls>>

QuoteFails(p) ==
    /\ "rpc" \in Failures
    /\ pc[p] = "quote"
    /\ kind[p] # "SendRawTx"
    /\ IF ChecksQuote(p)
       THEN Return(p, "refused")
       ELSE Goto(p, "nonce") /\ UNCHANGED res
    /\ UNCHANGED <<node, args, price, nonce, tries, took, calls>>

AfterNonce(p) == IF kind[p] = "SendContractInputDataSync" THEN "send" ELSE "gas"

\* Mutant: a nonce that is just the next one is too small.
TooSmallNext(p) ==
    kind[p] = "SendContractSyncWithNonce" /\ given[p] <= PendingNonce

\* SendContractSyncWithNonce compares the given nonce with the node's.
TooSmall(p) ==
    kind[p] = "SendContractSyncWithNonce" /\ given[p] < PendingNonce

\* Mutant: SendContractSyncWithNonce takes the node's nonce.
UsedNonceFresh(p) ==
    IF FixedNonce(p) /\ kind[p] # "SendContractSyncWithNonce" THEN given[p] ELSE PendingNonce

UsedNonce(p) == IF FixedNonce(p) THEN given[p] ELSE PendingNonce

ReadNonce(p) ==
    /\ pc[p] = "nonce"
    /\ ~TooSmall(p)
    /\ nonce' = [nonce EXCEPT ![p] = UsedNonce(p)]
    /\ Goto(p, AfterNonce(p))
    /\ UNCHANGED <<node, args, price, tries, took, res, calls>>

NonceToSmall(p) ==
    /\ pc[p] = "nonce"
    /\ TooSmall(p)
    /\ Return(p, "NonceToSmall")
    /\ UNCHANGED <<node, args, price, nonce, tries, took, calls>>

\* PendingNonceAt fails, in a call that asks for it.
NonceFails(p) ==
    /\ "rpc" \in Failures
    /\ pc[p] = "nonce"
    /\ ~FixedNonce(p) \/ kind[p] = "SendContractSyncWithNonce"
    /\ IF IgnoresNonceError(p)
       THEN Goto(p, AfterNonce(p)) /\ UNCHANGED res
       ELSE Return(p, "refused")
    /\ UNCHANGED <<node, args, price, nonce, tries, took, calls>>

\* The gas is covered by the balance.
CheckGas(p) ==
    /\ pc[p] = "gas"
    /\ price[p] # 0
    /\ Goto(p, IF kind[p] = "SendContractInputDataSync" THEN "nonce" ELSE "send")
    /\ UNCHANGED <<node, args, price, nonce, tries, took, res, calls>>

\* The gas is computed or compared with a nil price or balance.
NilQuote(p) ==
    /\ pc[p] = "gas"
    /\ price[p] = 0
    /\ Return(p, "panic")
    /\ UNCHANGED <<node, args, price, nonce, tries, took, calls>>

\* The node takes the transaction and answers.
Send(p) ==
    /\ pc[p] = "send"
    /\ Acceptable(CurrentTx(p))
    /\ pool' = Taken(CurrentTx(p))
    /\ took' = [took EXCEPT ![p] = TRUE]
    /\ IF Waits(p) THEN Goto(p, "wait") /\ UNCHANGED res ELSE Return(p, "ok")
    /\ UNCHANGED <<mined, args, price, nonce, tries, calls>>

\* The node takes it and SendTransaction returns an error all the same.
SendAnswerLost(p) ==
    /\ "answer" \in Failures
    /\ pc[p] = "send"
    /\ Acceptable(CurrentTx(p))
    /\ pool' = Taken(CurrentTx(p))
    /\ took' = [took EXCEPT ![p] = TRUE]
    /\ Return(p, "send")
    /\ UNCHANGED <<mined, args, price, nonce, tries, calls>>

\* The node refuses it, or does not get it.
SendFails(p) ==
    /\ pc[p] = "send"
    /\ "rpc" \in Failures \/ ~Acceptable(CurrentTx(p))
    /\ Return(p, "send")
    /\ UNCHANGED <<node, args, price, nonce, tries, took, calls>>

\* Mutant: one poll more.
ExhaustedLate(p) == tries[p] > MaxRetrySync

\* The loop has counted MaxRetrySync polls without a receipt.
Exhausted(p) == tries[p] >= MaxRetrySync

GiveUp(p) ==
    /\ pc[p] = "wait"
    /\ Exhausted(p)
    /\ Return(p, "ok")
    /\ UNCHANGED <<node, args, price, nonce, tries, took, calls>>

\* Mutant: the receipt's status is not looked at.
VerdictAny(ok) == "ok"

\* What the receipt's status means.
Verdict(ok) == IF ok THEN "ok" ELSE "failed"

\* The timer of the loop fires, and the node is asked for the receipt.
Timer(p) ==
    /\ pc[p] = "wait"
    /\ ~Exhausted(p)
    /\ Goto(p, "poll")
    /\ UNCHANGED <<node, args, price, nonce, tries, took, res, calls>>

Receipt(p, ok) ==
    /\ pc[p] = "poll"
    /\ MinedAs(CurrentTx(p), ok)
    /\ Return(p, Verdict(ok))
    /\ UNCHANGED <<node, args, price, nonce, tries, took, calls>>

\* A receipt of success without a block number is neither a success nor a failure
\* nor counted: the call waits for its timer again.
NoBlock(p) ==
    /\ "noblock" \in Failures
    /\ pc[p] = "poll"
    /\ CurrentTx(p) \in pool \/ MinedAs(CurrentTx(p), TRUE)
    /\ Goto(p, "wait")
    /\ UNCHANGED <<node, args, price, nonce, tries, took, res, calls>>

NotMined(p) == ~\E ok \in BOOLEAN : MinedAs(CurrentTx(p), ok)

\* Mutant: the failed poll is not counted.
NoReceiptUncounted(p) ==
    /\ pc[p] = "poll"
    /\ "rpc" \in Failures \/ NotMined(p)
    /\ Goto(p, "wait")
    /\ UNCHANGED <<node, args, price, nonce, tries, took, res, calls>>

\* Mutant: the error of the receipt ends the call.
NoReceiptReturns(p) ==
    /\ pc[p] = "poll"
    /\ "rpc" \in Failures \/ NotMined(p)
    /\ Return(p, "refused")
    /\ UNCHANGED <<node, args, price, nonce, tries, took, calls>>

\* TransactionReceipt returns an error, as it does for a transaction that is not
\* mined.
NoReceipt(p) ==
    /\ pc[p] = "poll"
    /\ "rpc" \in Failures \/ NotMined(p)
    /\ tries' = [tries EXCEPT ![p] = @ + 1]
    /\ Goto(p, "wait")
    /\ UNCHANGED <<node, args, price, nonce, took, res, calls>>

\* The caller's context ends while the call polls.
ContextDone(p) ==
    /\ "context" \in Failures
    /\ pc[p] = "wait"
    /\ Return(p, "timeout")
    /\ UNCHANGED <<node, args, price, nonce, tries, took, calls>>

-----------------------------------------------------------------------------

\* The steps of a call that goes on by itself.
Work(p) ==
    \/ Refuse(p)
    \/ Decode(p)
    \/ \E g \in Prices : Quote(p, g)
    \/ QuoteFails(p)
    \/ ReadNonce(p)
    \/ NonceToSmall(p)
    \/ NonceFails(p)
    \/ CheckGas(p)
    \/ NilQuote(p)
    \/ Send(p)
    \/ SendAnswerLost(p)
    \/ SendFails(p)
    \/ GiveUp(p)
    \/ Timer(p)
    \/ \E ok \in BOOLEAN : Receipt(p, ok)
    \/ NoBlock(p)
    \/ NoReceipt(p)
    \/ ContextDone(p)

Next ==
    \/ \E t \in pool, ok \in BOOLEAN : Mine(t, ok)
    \/ \E p \in Payments : Start(p) \/ NoNonce(p) \/ Work(p)

Spec == Init /\ [][Next]_vars

\* A call that was made goes on: the node answers each query, if only with an
\* error, and the timer of the loop fires.
FairSpec == Spec /\ \A p \in Payments : WF_vars(Work(p))

\* Moreover the callers make their calls and the node mines what is due.
BatchSpec ==
    /\ FairSpec
    /\ \A p \in Payments : WF_vars(Start(p))
    /\ WF_vars(\E t \in pool, ok \in BOOLEAN : Mine(t, ok))

-----------------------------------------------------------------------------
(* Properties *)

Labels == {"idle", "quote", "nonce", "gas", "send", "wait", "poll", "returned"}

Results == {"none", "ok", "refused", "NonceNotEmpty", "NonceToSmall", "panic", "send",
            "failed", "timeout"}

Txs == [pay : Payments, nonce : Nat, price : Prices]

\* Every variable has its type; in particular no call polls more often than it
\* should.
TypeOK ==
    /\ pool \subseteq Txs
    /\ mined \in Seq([tx : Txs, ok : BOOLEAN])
    /\ kind \in [Payments -> Kinds]
    /\ given \in [Payments -> Nat]
    /\ pc \in [Payments -> Labels]
    /\ price \in [Payments -> Prices \cup {0}]
    /\ nonce \in [Payments -> Nat]
    /\ tries \in [Payments -> 0..MaxRetrySync]
    /\ took \in [Payments -> BOOLEAN]
    /\ res \in [Payments -> Results]
    /\ calls \in [Payments -> 0..MaxCalls]

\* A call that returns the hash without an error has got its transaction to the
\* node, and if it polls and did not run out of polls, the transaction was mined and
\* succeeded; one that returns SendTransactionFailedError had it mined and failed.
VerdictTrue ==
    \A p \in Payments :
        /\ res[p] = "ok" => took[p]
        /\ res[p] = "ok" /\ Waits(p) /\ ~Exhausted(p) => MinedAs(CurrentTx(p), TRUE)
        /\ res[p] = "failed" => MinedAs(CurrentTx(p), FALSE)

\* A call that returns an error of a check or a query, or that panics, has sent
\* nothing: only the errors of SendTransaction and of the context leave that open.
RefusedClean ==
    \A p \in Payments :
        res[p] \in {"refused", "NonceNotEmpty", "NonceToSmall", "panic"} => ~took[p]

\* A payment is made at most once, by callers who repeat a call with its own nonce
\* after any error and another one only after an error that leaves nothing open.
PaidOnce ==
    \A i, j \in DOMAIN mined :
        mined[i].tx.pay = mined[j].tx.pay /\ mined[i].ok /\ mined[j].ok => i = j

\* Every call that was made returns, whether or not its transaction is mined, unless
\* the node gives it receipts without a block number again and again.
CallsReturn ==
    \A p \in Payments :
        (pc[p] # "idle" ~> pc[p] = "returned") \/ []<><<NoBlock(p)>>_vars

\* Concurrent calls with consecutive nonces, the first of them the one that
\* GetPendingNonce gave, are not refused for their nonce, in whatever order they
\* get to the node.
BatchAccepted ==
    \A p \in Payments : res[p] \notin {"NonceNotEmpty", "NonceToSmall", "send"}

\* All of them are mined.
BatchMined ==
    \A p \in Payments : <>(\E i \in DOMAIN mined : mined[i].tx.pay = p)
=============================================================================
