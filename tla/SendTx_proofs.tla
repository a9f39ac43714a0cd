------------------------------ MODULE SendTx_proofs ------------------------------
(***************************************************************************)
(* Proofs about SendTx, for any number of payments, any mix of calls, any   *)
(* nonces and prices, any number of polls and repeated calls, and every     *)
(* failure.                                                                 *)
(***************************************************************************)
EXTENDS SendTx, SequenceTheorems, WellFoundedInduction, TLAPS

\* The pending transactions are bounded, so the account has a next nonce.
Bounded == \E b \in Nat : \A t \in pool : t.nonce < b

\* A nonempty set of naturals has a least element.
LEMMA Least ==
    ASSUME NEW S \in SUBSET Nat, S # {}
    PROVE  \E i \in S : \A j \in S : i <= j
<1>1. PICK i \in S : \A j \in S : <<j, i>> \notin OpToRel(<, Nat)
  BY NatLessThanWellFounded, WFMin
<1>2. \A j \in S : j \in Nat /\ i \in Nat /\ ~(j < i)
  BY <1>1 DEF OpToRel
<1> QED
  BY <1>2

LEMMA ChainNonceType ==
    ASSUME TypeOK
    PROVE  ChainNonce \in Nat /\ Len(mined) \in Nat
<1>1. Len(mined) \in Nat
  BY LenProperties DEF TypeOK
<1> QED
  BY <1>1, SendAssumption DEF ChainNonce

\* PendingNonceAt always has an answer, beyond the chain's nonces.
LEMMA PendingNonceType ==
    ASSUME TypeOK, Bounded
    PROVE  PendingNonce \in Nat /\ \A m \in ChainNonce..(PendingNonce - 1) : m \in PoolNonces
<1> DEFINE free == {n \in Nat : n >= ChainNonce /\ n \notin PoolNonces}
           cand == {ChainNonce} \cup {m + 1 : m \in PoolNonces}
           next(n) == /\ n >= ChainNonce
                      /\ n \notin PoolNonces
                      /\ \A m \in ChainNonce..(n - 1) : m \in PoolNonces
<1>1. ChainNonce \in Nat
  BY ChainNonceType
<1>2. PoolNonces \in SUBSET Nat
  BY DEF PoolNonces, TypeOK, Txs
<1>3. cand \in SUBSET Nat
  BY <1>1, <1>2
<1>4. PICK b \in Nat : \A t \in pool : t.nonce < b
  BY DEF Bounded
<1>5. b + ChainNonce \in free
  <2>1. \A m \in PoolNonces : m < b /\ m \in Nat
    BY <1>2, <1>4 DEF PoolNonces
  <2> QED
    BY <1>1, <2>1
<1>6. PICK n \in free : \A m \in free : n <= m
  <2>1. free \in SUBSET Nat /\ free # {}
    BY <1>5
  <2> HIDE DEF free
  <2> QED
    BY <2>1, Least
<1>7. n \in Nat /\ next(n)
  <2>1. \A m \in ChainNonce..(n - 1) : m \in Nat /\ m >= ChainNonce /\ m < n
    BY <1>1, <1>6
  <2>2. \A m \in ChainNonce..(n - 1) : m \in PoolNonces
    BY <1>6, <2>1
  <2> QED
    BY <1>6, <2>2
<1>8. n \in cand
  <2>1. CASE n = ChainNonce
    BY <2>1
  <2>2. CASE n # ChainNonce
    <3>1. n - 1 \in ChainNonce..(n - 1)
      BY <1>1, <1>7, <2>2
    <3>2. n - 1 \in PoolNonces /\ (n - 1) + 1 = n
      BY <1>7, <3>1
    <3> QED
      BY <3>2
  <2> QED
    BY <2>1, <2>2
<1>9. PendingNonce = CHOOSE k \in cand : next(k)
  BY DEF PendingNonce
<1> HIDE DEF cand, next
<1>10. PendingNonce \in cand /\ next(PendingNonce)
  BY <1>7, <1>8, <1>9
<1> QED
  BY <1>3, <1>10 DEF next

\* A transaction of a call has a price: calls that go on without one panic.
Priced ==
    \A p \in Payments :
        \/ pc[p] \in {"send", "wait", "poll"}
        \/ pc[p] = "nonce" /\ kind[p] = "SendContractInputDataSync"
        => price[p] # 0

\* A call asks for a receipt only while polls are left.
PollsLeft == \A p \in Payments : pc[p] = "poll" => tries[p] < MaxRetrySync

Typed == TypeOK /\ Bounded /\ Priced /\ PollsLeft

LEMMA InitTyped == Init => Typed
<1> SUFFICES ASSUME Init PROVE Typed
  OBVIOUS
<1>1. given \in [Payments -> Nat]
  BY SendAssumption DEF Init
<1>2. kind \in [Payments -> Kinds]
  BY DEF Init
<1>3. TypeOK
  BY <1>1, <1>2, SendAssumption DEF Init, TypeOK, Labels, Results
<1>4. Bounded /\ Priced /\ PollsLeft
  BY DEF Init, Bounded, Priced, PollsLeft
<1> QED
  BY <1>3, <1>4 DEF Typed

\* The pool that took a call's transaction.
LEMMA TakenTyped ==
    ASSUME Typed, NEW p \in Payments, pc[p] = "send"
    PROVE  /\ CurrentTx(p) \in Txs /\ Taken(CurrentTx(p)) \subseteq Txs
           /\ \E b \in Nat : \A t \in Taken(CurrentTx(p)) : t.nonce < b
<1>1. CurrentTx(p) \in Txs /\ CurrentTx(p).nonce = nonce[p] /\ nonce[p] \in Nat
  BY DEF Typed, TypeOK, Priced, CurrentTx, Txs
<1>2. PICK b \in Nat : \A t \in pool : t.nonce < b
  BY DEF Typed, Bounded
<1>3. \A t \in Taken(CurrentTx(p)) : t \in pool \/ t = CurrentTx(p)
  BY DEF Taken
<1>4. \A t \in Taken(CurrentTx(p)) : t \in Txs /\ t.nonce < b + nonce[p] + 1
  <2>1. pool \subseteq Txs /\ \A t \in pool : t.nonce \in Nat
    BY DEF Typed, TypeOK, Txs
  <2>2. ASSUME NEW t \in Taken(CurrentTx(p)) PROVE t \in Txs /\ t.nonce < b + nonce[p] + 1
    <3>1. CASE t \in pool
      <4>1. t \in Txs /\ t.nonce \in Nat /\ t.nonce < b
        BY <3>1, <2>1, <1>2
      <4> QED
        BY <4>1, <1>1
    <3>2. CASE t = CurrentTx(p)
      BY <3>2, <1>1
    <3> QED
      BY <2>2, <3>1, <3>2, <1>3
  <2> QED
    BY <2>2
<1>5. b + nonce[p] + 1 \in Nat
  BY <1>1
<1>6. \E n \in Nat : \A t \in Taken(CurrentTx(p)) : t.nonce < n
  <2> WITNESS b + nonce[p] + 1 \in Nat
  <2> QED
    BY <1>4
<1> QED
  BY <1>1, <1>4, <1>6

LEMMA NextTyped ==  /\Typed /\ [Next]_vars => Typed'
<1> SUFFICES ASSUME Typed, [Next]_vars PROVE Typed'
  OBVIOUS
<1>1. CASE UNCHANGED vars
  BY <1>1 DEF vars, node, args, Typed, TypeOK, Bounded, Priced, PollsLeft, Labels, Results
<1>2. ASSUME NEW t \in pool, NEW ok \in BOOLEAN, Mine(t, ok) PROVE Typed'
  <2>1. mined' \in Seq([tx : Txs, ok : BOOLEAN])
    BY <1>2, AppendProperties DEF Mine, Typed, TypeOK
  <2> QED
    BY <1>2, <2>1 DEF Mine, args, Typed, TypeOK, Bounded, Priced, PollsLeft
<1>3. ASSUME NEW p \in Payments, Start(p) \/ NoNonce(p) \/ Work(p) PROVE Typed'
  <2>1. CASE Start(p)
    <3>1. calls[p] + 1 \in 0..MaxCalls /\ 0 \in 0..MaxRetrySync
      BY <2>1, SendAssumption DEF Start, MayCall, Typed, TypeOK
    <3> QED
      BY <2>1, <3>1 DEF Start, MayCall, Goto, node, args, Typed, TypeOK, Bounded, Priced, PollsLeft, Labels, Results
  <2>2. CASE NoNonce(p)
    <3>1. calls[p] + 1 \in 0..MaxCalls /\ 0 \in 0..MaxRetrySync
      BY <2>2, SendAssumption DEF NoNonce, MayCall, Typed, TypeOK
    <3> QED
      BY <2>2, <3>1 DEF NoNonce, MayCall, Return, Goto, node, args, Typed, TypeOK, Bounded, Priced, PollsLeft, Labels, Results
  <2>3. CASE Refuse(p)
    BY <2>3 DEF Refuse, Return, Goto, node, args, Typed, TypeOK, Bounded, Priced, PollsLeft, Labels, Results
  <2>4. CASE Decode(p)
    <3>1. (CHOOSE g \in Prices : TRUE) \in Prices /\ 0 \notin Prices
      BY SendAssumption
    <3> QED
      BY <2>4, <3>1 DEF Decode, Goto, node, args, Typed, TypeOK, Bounded, Priced, PollsLeft, Labels
  <2>5. ASSUME NEW g \in Prices, Quote(p, g) PROVE Typed'
    BY <2>5 DEF Quote, Goto, node, args, Typed, TypeOK, Bounded, Priced, PollsLeft, Labels, Results
  <2>6. CASE QuoteFails(p)
    BY <2>6 DEF QuoteFails, ChecksQuote, Return, Goto, node, args, Typed, TypeOK, Bounded, Priced, PollsLeft, Labels, Results
  <2>7. CASE ReadNonce(p)
    <3>1. UsedNonce(p) \in Nat
      BY PendingNonceType DEF UsedNonce, Typed, TypeOK
    <3> QED
      BY <2>7, <3>1 DEF ReadNonce, Goto, AfterNonce, node, args, Typed, TypeOK, Bounded, Priced, PollsLeft, Labels
  <2>8. CASE NonceToSmall(p)
    BY <2>8 DEF NonceToSmall, Return, Goto, node, args, Typed, TypeOK, Bounded, Priced, PollsLeft, Labels, Results
  <2>9. CASE NonceFails(p)
    BY <2>9 DEF NonceFails, Return, Goto, AfterNonce, node, args, Typed, TypeOK, Bounded, Priced, PollsLeft, Labels, Results
  <2>10. CASE CheckGas(p)
    BY <2>10 DEF CheckGas, Goto, node, args, Typed, TypeOK, Bounded, Priced, PollsLeft, Labels, Results
  <2>11. CASE NilQuote(p)
    BY <2>11 DEF NilQuote, Return, Goto, node, args, Typed, TypeOK, Bounded, Priced, PollsLeft, Labels, Results
  <2>12. CASE Send(p)
    <3>1. pool' \subseteq Txs /\ Bounded'
      BY <2>12, TakenTyped DEF Send, Bounded
    <3> QED
      BY <2>12, <3>1 DEF Send, Return, Goto, args, Typed, TypeOK, Priced, PollsLeft, Labels, Results
  <2>13. CASE SendAnswerLost(p)
    <3>1. pool' \subseteq Txs /\ Bounded'
      BY <2>13, TakenTyped DEF SendAnswerLost, Bounded
    <3> QED
      BY <2>13, <3>1 DEF SendAnswerLost, Return, Goto, args, Typed, TypeOK, Priced, PollsLeft, Labels, Results
  <2>14. CASE SendFails(p)
    BY <2>14 DEF SendFails, Return, Goto, node, args, Typed, TypeOK, Bounded, Priced, PollsLeft, Labels, Results
  <2>15. CASE GiveUp(p)
    BY <2>15 DEF GiveUp, Return, Goto, node, args, Typed, TypeOK, Bounded, Priced, PollsLeft, Labels, Results
  <2>16. ASSUME NEW ok \in BOOLEAN, Receipt(p, ok) PROVE Typed'
    BY <2>16 DEF Receipt, Return, Goto, Verdict, node, args, Typed, TypeOK, Bounded, Priced, PollsLeft, Labels, Results
  <2>17. CASE NoReceipt(p)
    <3>1. tries[p] + 1 \in 0..MaxRetrySync
      BY <2>17, SendAssumption DEF NoReceipt, Typed, TypeOK, PollsLeft
    <3> QED
      BY <2>17, <3>1 DEF NoReceipt, Goto, Labels, node, args, Typed, TypeOK, Bounded, Priced, PollsLeft
  <2>18. CASE ContextDone(p)
    BY <2>18 DEF ContextDone, Return, Goto, node, args, Typed, TypeOK, Bounded, Priced, PollsLeft, Labels, Results
  <2>19. CASE Timer(p) \/ NoBlock(p)
    <3>1. CASE Timer(p)
      <4>1. pc' = [pc EXCEPT ![p] = "poll"] /\ pc[p] \in {"wait", "poll"}
        BY <3>1 DEF Timer, Goto
      <4>2. TypeOK' /\ Bounded'
        BY <3>1, <4>1 DEF Timer, node, args, Typed, TypeOK, Bounded, Labels
      <4>3. Priced' /\ PollsLeft'
        BY <3>1, <4>1, SendAssumption DEF Timer, Exhausted, node, args, Typed, TypeOK, Priced, PollsLeft
      <4> QED
        BY <4>2, <4>3 DEF Typed
    <3>2. CASE NoBlock(p)
      <4>1. pc' = [pc EXCEPT ![p] = "wait"] /\ pc[p] \in {"wait", "poll"}
        BY <3>2 DEF NoBlock, Goto
      <4>2. TypeOK' /\ Bounded'
        BY <3>2, <4>1 DEF NoBlock, node, args, Typed, TypeOK, Bounded, Labels
      <4>3. Priced' /\ PollsLeft'
        BY <3>2, <4>1, SendAssumption DEF NoBlock, node, args, Typed, TypeOK, Priced, PollsLeft
      <4> QED
        BY <4>2, <4>3 DEF Typed
    <3> QED
      BY <2>19, <3>1, <3>2
  <2> QED
    BY <1>3, <2>1, <2>2, <2>3, <2>4, <2>5, <2>6, <2>7, <2>8, <2>9, <2>10, <2>11, <2>12, <2>13, <2>14, <2>15, <2>16, <2>17, <2>18, <2>19 DEF Work
<1> QED
  BY <1>1, <1>2, <1>3 DEF Next

\* Every variable keeps its type; in particular no call polls more often than
\* MaxRetrySync, and PendingNonceAt always has an answer to give.
THEOREM TypeCorrect == Spec => []TypeOK
<1>1. Typed => TypeOK
  BY DEF Typed
<1> QED
  BY <1>1, InitTyped, NextTyped, PTL DEF Spec

-----------------------------------------------------------------------------
(* A call changes what is its own, and the node's pool by its transaction.  *)

CallStep(p) == Start(p) \/ NoNonce(p) \/ Work(p)

\* The variables of q's call.
Same(q) ==
    /\ pc'[q] = pc[q] /\ price'[q] = price[q] /\ nonce'[q] = nonce[q]
    /\ tries'[q] = tries[q] /\ took'[q] = took[q] /\ res'[q] = res[q]
    /\ calls'[q] = calls[q]

Local(p) ==
    /\ mined' = mined /\ kind' = kind /\ given' = given
    /\ pool' = pool \/ (pool' = Taken(CurrentTx(p)) /\ Acceptable(CurrentTx(p)))
    /\ \A q \in Payments \ {p} : Same(q)

LEMMA StepLocal ==
    ASSUME TypeOK, NEW p \in Payments, CallStep(p)
    PROVE  Local(p)
<1>1. CASE Start(p)
  BY <1>1 DEF Start, MayCall, Goto, node, args, TypeOK, Local, Same
<1>2. CASE NoNonce(p)
  BY <1>2 DEF NoNonce, MayCall, Return, Goto, node, args, TypeOK, Local, Same
<1>3. CASE Refuse(p)
  BY <1>3 DEF Refuse, Return, Goto, node, args, TypeOK, Local, Same
<1>4. CASE Decode(p)
  BY <1>4 DEF Decode, Goto, node, args, TypeOK, Local, Same
<1>5. ASSUME NEW g \in Prices, Quote(p, g) PROVE Local(p)
  BY <1>5 DEF Quote, Goto, node, args, TypeOK, Local, Same
<1>6. CASE QuoteFails(p)
  BY <1>6 DEF QuoteFails, Return, Goto, node, args, TypeOK, Local, Same
<1>7. CASE ReadNonce(p)
  BY <1>7 DEF ReadNonce, Goto, AfterNonce, node, args, TypeOK, Local, Same
<1>8. CASE NonceToSmall(p)
  BY <1>8 DEF NonceToSmall, Return, Goto, node, args, TypeOK, Local, Same
<1>9. CASE NonceFails(p)
  BY <1>9 DEF NonceFails, Return, Goto, AfterNonce, node, args, TypeOK, Local, Same
<1>10. CASE CheckGas(p)
  BY <1>10 DEF CheckGas, Goto, node, args, TypeOK, Local, Same
<1>11. CASE NilQuote(p)
  BY <1>11 DEF NilQuote, Return, Goto, node, args, TypeOK, Local, Same
<1>12. CASE Send(p)
  BY <1>12 DEF Send, Return, Goto, node, args, TypeOK, Local, Same
<1>13. CASE SendAnswerLost(p)
  BY <1>13 DEF SendAnswerLost, Return, Goto, node, args, TypeOK, Local, Same
<1>14. CASE SendFails(p)
  BY <1>14 DEF SendFails, Return, Goto, node, args, TypeOK, Local, Same
<1>15. CASE GiveUp(p)
  BY <1>15 DEF GiveUp, Return, Goto, node, args, TypeOK, Local, Same
<1>16. ASSUME NEW ok \in BOOLEAN, Receipt(p, ok) PROVE Local(p)
  BY <1>16 DEF Receipt, Return, Goto, Verdict, node, args, TypeOK, Local, Same
<1>17. CASE NoReceipt(p)
  BY <1>17 DEF NoReceipt, Goto, node, args, TypeOK, Local, Same
<1>18. CASE ContextDone(p)
  BY <1>18 DEF ContextDone, Return, Goto, node, args, TypeOK, Local, Same
<1>19. CASE Timer(p) \/ NoBlock(p)
  BY <1>19 DEF Timer, NoBlock, Goto, node, args, TypeOK, Local, Same
<1> QED
  BY <1>1, <1>2, <1>3, <1>4, <1>5, <1>6, <1>7, <1>8, <1>9, <1>10, <1>11, <1>12, <1>13, <1>14, <1>15, <1>16, <1>17, <1>18, <1>19 DEF CallStep, Work
-----------------------------------------------------------------------------
(* What a call says of its transaction.                                     *)

Told(p) ==
    /\ pc[p] \in {"wait", "poll"} => took[p]
    /\ pc[p] \notin {"wait", "poll", "returned"} => ~took[p]
    /\ pc[p] # "returned" => res[p] = "none"
    /\ res[p] = "ok" => took[p]
    /\ res[p] = "ok" /\ Waits(p) /\ ~Exhausted(p) => MinedAs(CurrentTx(p), TRUE)
    /\ res[p] = "failed" => MinedAs(CurrentTx(p), FALSE)
    /\ res[p] \in {"refused", "NonceNotEmpty", "NonceToSmall", "panic"} => ~took[p]

AllTold == \A p \in Payments : Told(p)

LEMMA ToldByStep ==
    ASSUME TypeOK, AllTold, NEW p \in Payments, CallStep(p)
    PROVE  Told(p)'
<1>1. CASE Start(p)
  BY <1>1 DEF Start, MayCall, Goto, node, args, AllTold, Told, TypeOK, Waits, Exhausted, MinedAs, CurrentTx
<1>2. CASE NoNonce(p)
  BY <1>2 DEF NoNonce, MayCall, Return, Goto, node, args, AllTold, Told, TypeOK, Waits, Exhausted, MinedAs, CurrentTx
<1>3. CASE Refuse(p)
  BY <1>3 DEF Refuse, Return, Goto, node, args, AllTold, Told, TypeOK, Waits, Exhausted, MinedAs, CurrentTx
<1>4. CASE Decode(p)
  BY <1>4 DEF Decode, Goto, node, args, AllTold, Told, TypeOK, Waits, Exhausted, MinedAs, CurrentTx
<1>5. ASSUME NEW g \in Prices, Quote(p, g) PROVE Told(p)'
  BY <1>5 DEF Quote, Goto, node, args, AllTold, Told, TypeOK, Waits, Exhausted, MinedAs, CurrentTx
<1>6. CASE QuoteFails(p)
  BY <1>6 DEF QuoteFails, Return, Goto, node, args, AllTold, Told, TypeOK, Waits, Exhausted, MinedAs, CurrentTx
<1>7. CASE ReadNonce(p)
  BY <1>7 DEF ReadNonce, Goto, AfterNonce, node, args, AllTold, Told, TypeOK, Waits, Exhausted, MinedAs, CurrentTx
<1>8. CASE NonceToSmall(p)
  BY <1>8 DEF NonceToSmall, Return, Goto, node, args, AllTold, Told, TypeOK, Waits, Exhausted, MinedAs, CurrentTx
<1>9. CASE NonceFails(p)
  BY <1>9 DEF NonceFails, Return, Goto, AfterNonce, node, args, AllTold, Told, TypeOK, Waits, Exhausted, MinedAs, CurrentTx
<1>10. CASE CheckGas(p)
  BY <1>10 DEF CheckGas, Goto, node, args, AllTold, Told, TypeOK, Waits, Exhausted, MinedAs, CurrentTx
<1>11. CASE NilQuote(p)
  BY <1>11 DEF NilQuote, Return, Goto, node, args, AllTold, Told, TypeOK, Waits, Exhausted, MinedAs, CurrentTx
<1>12. CASE Send(p)
  BY <1>12 DEF Send, Return, Goto, node, args, AllTold, Told, TypeOK, Waits, Exhausted, MinedAs, CurrentTx
<1>13. CASE SendAnswerLost(p)
  BY <1>13 DEF SendAnswerLost, Return, Goto, node, args, AllTold, Told, TypeOK, Waits, Exhausted, MinedAs, CurrentTx
<1>14. CASE SendFails(p)
  BY <1>14 DEF SendFails, Return, Goto, node, args, AllTold, Told, TypeOK, Waits, Exhausted, MinedAs, CurrentTx
<1>15. CASE GiveUp(p)
  BY <1>15 DEF GiveUp, Return, Goto, node, args, AllTold, Told, TypeOK, Waits, Exhausted, MinedAs, CurrentTx
<1>16. ASSUME NEW ok \in BOOLEAN, Receipt(p, ok) PROVE Told(p)'
  BY <1>16 DEF Receipt, Return, Goto, Verdict, node, args, AllTold, Told, TypeOK, Waits, Exhausted, MinedAs, CurrentTx
<1>17. CASE NoReceipt(p)
  BY <1>17 DEF NoReceipt, Goto, node, args, AllTold, Told, TypeOK, Waits, Exhausted, MinedAs, CurrentTx
<1>18. CASE ContextDone(p)
  BY <1>18 DEF ContextDone, Return, Goto, node, args, AllTold, Told, TypeOK, Waits, Exhausted, MinedAs, CurrentTx
<1>19. CASE Timer(p) \/ NoBlock(p)
  BY <1>19 DEF Timer, NoBlock, Goto, node, args, AllTold, Told, TypeOK, Waits, Exhausted, MinedAs, CurrentTx
<1> QED
  BY <1>1, <1>2, <1>3, <1>4, <1>5, <1>6, <1>7, <1>8, <1>9, <1>10, <1>11, <1>12, <1>13, <1>14, <1>15, <1>16, <1>17, <1>18, <1>19 DEF CallStep, Work

\* What is mined stays mined.
LEMMA MinedStays ==
    ASSUME TypeOK, NEW t, NEW u \in pool, NEW ok \in BOOLEAN, Mine(u, ok)
    PROVE  /\ Len(mined') = Len(mined) + 1
           /\ mined'[Len(mined) + 1] = [tx |-> u, ok |-> ok]
           /\ \A i \in DOMAIN mined : i \in DOMAIN mined' /\ mined'[i] = mined[i]
           /\ \A b \in BOOLEAN : MinedAs(t, b) => MinedAs(t, b)'
<1>1. /\ u \in Txs /\ mined \in Seq([tx : Txs, ok : BOOLEAN])
      /\ mined' = Append(mined, [tx |-> u, ok |-> ok])
      /\ [tx |-> u, ok |-> ok] \in [tx : Txs, ok : BOOLEAN]
  BY DEF Mine, TypeOK
<1>2. /\ mined' \in Seq([tx : Txs, ok : BOOLEAN]) /\ Len(mined') = Len(mined) + 1
      /\ mined'[Len(mined) + 1] = [tx |-> u, ok |-> ok]
      /\ \A i \in 1..Len(mined) : mined'[i] = mined[i]
  BY <1>1, AppendProperties
<1>3. DOMAIN mined = 1..Len(mined) /\ DOMAIN mined' = 1..Len(mined') /\ Len(mined) \in Nat
  BY <1>1, <1>2, LenProperties
<1>4. \A i \in DOMAIN mined : i \in DOMAIN mined' /\ mined'[i] = mined[i]
  BY <1>2, <1>3
<1> QED
  BY <1>2, <1>4 DEF MinedAs

LEMMA NextTold == TypeOK /\ AllTold /\ [Next]_vars => AllTold'
<1> SUFFICES ASSUME TypeOK, AllTold, [Next]_vars, NEW q \in Payments PROVE Told(q)'
  BY DEF AllTold
<1>1. Told(q)
  BY DEF AllTold
<1>2. CASE UNCHANGED vars
  BY <1>1, <1>2 DEF vars, Told, Waits, Exhausted, MinedAs, CurrentTx
<1>3. ASSUME NEW u \in pool, NEW ok \in BOOLEAN, Mine(u, ok) PROVE Told(q)'
  <2>1. /\ kind' = kind /\ pc' = pc /\ tries' = tries /\ took' = took /\ res' = res
        /\ CurrentTx(q)' = CurrentTx(q)
    BY <1>3 DEF Mine, args, CurrentTx
  <2>2. \A b \in BOOLEAN : MinedAs(CurrentTx(q), b) => MinedAs(CurrentTx(q), b)'
    <3>1. \A b \in BOOLEAN : MinedAs(CurrentTx(q), b) =>
            \E i \in DOMAIN mined' : mined'[i] = [tx |-> CurrentTx(q), ok |-> b]
      BY <1>3, MinedStays DEF MinedAs
    <3> QED
      BY <2>1, <3>1 DEF MinedAs
  <2> QED
    BY <1>1, <2>1, <2>2 DEF Told, Waits, Exhausted
<1>4. ASSUME NEW p \in Payments, CallStep(p) PROVE Told(q)'
  <2>1. CASE p = q
    BY <1>4, <2>1, ToldByStep
  <2>2. CASE p # q
    <3>1. mined' = mined /\ kind' = kind /\ Same(q)
      BY <1>4, <2>2, StepLocal DEF Local
    <3> QED
      BY <1>1, <3>1 DEF Same, Told, Waits, Exhausted, MinedAs, CurrentTx
  <2> QED
    BY <2>1, <2>2
<1> QED
  BY <1>2, <1>3, <1>4 DEF Next, CallStep

LEMMA InitTold == Init => AllTold
  BY DEF Init, AllTold, Told

\* A hash without an error means that the node took the transaction, and that it
\* succeeded unless the polls ran out; SendTransactionFailedError that it failed.
THEOREM VerdictCorrect == Spec => []VerdictTrue
<1>1. AllTold => VerdictTrue
  BY DEF AllTold, Told, VerdictTrue
<1> QED
  BY <1>1, TypeCorrect, InitTold, NextTold, PTL DEF Spec

\* A call that ends with an error of its checks or queries has sent nothing.
THEOREM RefusedCorrect == Spec => []RefusedClean
<1>1. AllTold => RefusedClean
  BY DEF AllTold, Told, RefusedClean
<1> QED
  BY <1>1, TypeCorrect, InitTold, NextTold, PTL DEF Spec

-----------------------------------------------------------------------------
(* What is paid.                                                            *)

\* The chain holds the account's nonces in order, the pool later ones, each once.
Chained ==
    /\ \A i \in DOMAIN mined : mined[i].tx.nonce + 1 = FirstNonce + i
    /\ \A t \in pool : t.nonce >= ChainNonce
    /\ \A t, u \in pool : t.nonce = u.nonce => t = u

LEMMA NextChained == TypeOK /\ Chained /\ [Next]_vars => Chained'
<1> SUFFICES ASSUME TypeOK, Chained, [Next]_vars PROVE Chained'
  OBVIOUS
<1>1. CASE UNCHANGED vars
  BY <1>1 DEF vars, Chained, ChainNonce
<1>2. ASSUME NEW u \in pool, NEW ok \in BOOLEAN, Mine(u, ok) PROVE Chained'
  <2>1. /\ Len(mined) \in Nat /\ FirstNonce \in Nat /\ u.nonce = FirstNonce + Len(mined)
        /\ u \in Txs /\ DOMAIN mined = 1..Len(mined) /\ pool' = pool \ {u}
        /\ \A t \in pool : t.nonce \in Nat
    BY <1>2, SendAssumption, LenProperties DEF Mine, ChainNonce, TypeOK, Txs
  <2>2. /\ Len(mined') = Len(mined) + 1
        /\ mined'[Len(mined) + 1] = [tx |-> u, ok |-> ok]
        /\ \A i \in DOMAIN mined : mined'[i] = mined[i]
    BY <1>2, MinedStays
  <2>3. DOMAIN mined' = 1..(Len(mined) + 1)
    <3>1. mined' = Append(mined, [tx |-> u, ok |-> ok]) /\ mined \in Seq([tx : Txs, ok : BOOLEAN])
      BY <1>2 DEF Mine, TypeOK
    <3>2. mined' \in Seq([tx : Txs, ok : BOOLEAN])
      BY <2>1, <3>1, AppendProperties
    <3> QED
      BY <2>2, <3>2, LenProperties
  <2>4. \A i \in DOMAIN mined' : mined'[i].tx.nonce + 1 = FirstNonce + i
    <3> SUFFICES ASSUME NEW i \in DOMAIN mined' PROVE mined'[i].tx.nonce + 1 = FirstNonce + i
      OBVIOUS
    <3>1. CASE i = Len(mined) + 1
      BY <2>1, <2>2, <3>1
    <3>2. CASE i # Len(mined) + 1
      <4>1. i \in DOMAIN mined
        BY <2>1, <2>3, <3>2
      <4> QED
        BY <2>2, <4>1 DEF Chained
    <3> QED
      BY <3>1, <3>2
  <2>5. ASSUME NEW t \in pool, t # u PROVE t.nonce >= ChainNonce + 1
    BY <2>1, <2>5 DEF Chained, ChainNonce
  <2>6. ChainNonce' = ChainNonce + 1
    BY <2>1, <2>2 DEF ChainNonce
  <2> QED
    BY <2>1, <2>4, <2>5, <2>6 DEF Chained
<1>3. ASSUME NEW p \in Payments, CallStep(p) PROVE Chained'
  <2>1. mined' = mined /\ ChainNonce' = ChainNonce
    BY <1>3, StepLocal DEF Local, ChainNonce
  <2>2. CASE pool' = pool
    BY <2>1, <2>2 DEF Chained
  <2>3. CASE pool' = Taken(CurrentTx(p)) /\ Acceptable(CurrentTx(p))
    <3>1. CurrentTx(p).nonce >= ChainNonce
      BY <2>3 DEF Acceptable
    <3>2. \A t \in pool' : t = CurrentTx(p) \/ (t \in pool /\ t.nonce # CurrentTx(p).nonce)
      BY <2>3 DEF Taken
    <3> QED
      BY <2>1, <3>1, <3>2 DEF Chained
  <2> QED
    BY <1>3, <2>2, <2>3, StepLocal DEF Local
<1> QED
  BY <1>1, <1>2, <1>3 DEF Next, CallStep

\* All transactions of a call with a nonce of its own have that nonce, so at most
\* one of them is mined; any other call has at most one transaction that counts.
Single(p) ==
    /\ FixedNonce(p) =>
         /\ pc[p] \in {"gas", "send", "wait", "poll"} => nonce[p] = given[p]
         /\ \A t \in pool : t.pay = p => t.nonce = given[p]
         /\ \A i \in DOMAIN mined : mined[i].tx.pay = p => mined[i].tx.nonce = given[p]
    /\ ~FixedNonce(p) =>
         /\ \A t \in pool : t.pay = p => took[p] /\ t = CurrentTx(p)
         /\ \A i \in DOMAIN mined :
              mined[i].tx.pay = p /\ mined[i].ok => took[p] /\ mined[i].tx = CurrentTx(p)

AllSingle == \A p \in Payments : Single(p)

Paying == Typed /\ AllTold /\ Chained /\ AllSingle

\* A call that may be made again although its nonce is the node's has nothing
\* under way, and what it had mined failed.
LEMMA NothingOpen ==
    ASSUME Paying, NEW p \in Payments, ~FixedNonce(p),
           pc[p] = "idle" \/ (pc[p] = "returned" /\ res[p] \in Retriable(p))
    PROVE  /\ \A t \in pool : t.pay # p
           /\ \A i \in DOMAIN mined : mined[i].tx.pay = p => ~mined[i].ok
<1>1. Told(p) /\ Single(p)
  BY DEF Paying, AllTold, AllSingle
<1>2. CASE ~took[p]
  BY <1>1, <1>2 DEF Single
<1>3. CASE took[p]
  <2>1. res[p] = "failed"
    BY <1>1, <1>3 DEF Told, Retriable
  <2>2. PICK k \in DOMAIN mined : mined[k] = [tx |-> CurrentTx(p), ok |-> FALSE]
    BY <1>1, <2>1 DEF Told, MinedAs
  <2>3. /\ Len(mined) \in Nat /\ DOMAIN mined = 1..Len(mined) /\ FirstNonce \in Nat
        /\ CurrentTx(p).nonce \in Nat /\ CurrentTx(p).nonce + 1 = FirstNonce + k
    <3>1. Len(mined) \in Nat /\ DOMAIN mined = 1..Len(mined) /\ FirstNonce \in Nat
      BY SendAssumption, LenProperties DEF Paying, Typed, TypeOK
    <3>2. CurrentTx(p).nonce \in Nat
      BY DEF Paying, Typed, TypeOK, CurrentTx
    <3>3. mined[k].tx.nonce + 1 = FirstNonce + k
      BY DEF Paying, Chained
    <3> QED
      BY <2>2, <3>1, <3>2, <3>3
  <2>4. ASSUME NEW t \in pool, t.pay = p PROVE FALSE
    <3>1. t = CurrentTx(p) /\ t.nonce >= FirstNonce + Len(mined)
      BY <1>1, <2>4 DEF Single, Paying, Chained, ChainNonce
    <3> QED
      BY <2>3, <3>1
  <2>5. ASSUME NEW i \in DOMAIN mined, mined[i].tx.pay = p, mined[i].ok PROVE FALSE
    <3>1. mined[i].tx = CurrentTx(p) /\ mined[i].tx.nonce + 1 = FirstNonce + i
      BY <1>1, <2>5 DEF Single, Paying, Chained
    <3>2. i = k
      BY <2>3, <3>1
    <3> QED
      BY <2>2, <2>5, <3>2
  <2> QED
    BY <2>4, <2>5
<1> QED
  BY <1>2, <1>3 DEF Paying, Typed, TypeOK

LEMMA SingleByStep ==
    ASSUME Paying, NEW p \in Payments, CallStep(p)
    PROVE  Single(p)'
<1>1. CASE Start(p)
  <2>1. mined' = mined /\ pool' = pool /\ kind' = kind /\ given' = given /\ pc'[p] \in {"quote", "returned"}
    BY <1>1 DEF Start, MayCall, Goto, node, args, Paying, Typed, TypeOK
  <2>2. CASE FixedNonce(p)
    BY <1>1, <2>1, <2>2 DEF Paying, AllSingle, Single, FixedNonce
  <2>3. CASE ~FixedNonce(p)
    <3>1. pc[p] = "idle" \/ (pc[p] = "returned" /\ res[p] \in Retriable(p))
      BY <1>1 DEF Start, MayCall, Goto
    <3> QED
      BY <2>1, <2>3, <3>1, NothingOpen DEF Single, FixedNonce
  <2> QED
    BY <2>2, <2>3
<1>2. CASE NoNonce(p)
  <2>1. mined' = mined /\ pool' = pool /\ kind' = kind /\ given' = given /\ pc'[p] \in {"quote", "returned"}
    BY <1>2 DEF NoNonce, MayCall, Return, Goto, node, args, Paying, Typed, TypeOK
  <2>2. CASE FixedNonce(p)
    BY <1>2, <2>1, <2>2 DEF Paying, AllSingle, Single, FixedNonce
  <2>3. CASE ~FixedNonce(p)
    <3>1. pc[p] = "idle" \/ (pc[p] = "returned" /\ res[p] \in Retriable(p))
      BY <1>2 DEF NoNonce, MayCall, Return, Goto
    <3> QED
      BY <2>1, <2>3, <3>1, NothingOpen DEF Single, FixedNonce
  <2> QED
    BY <2>2, <2>3
<1>3. CASE Refuse(p)
  BY <1>3 DEF Refuse, Return, Goto, node, args, Paying, Typed, AllTold, AllSingle, Told, Single, TypeOK, FixedNonce, CurrentTx
<1>4. CASE Decode(p)
  BY <1>4 DEF Decode, Goto, node, args, Paying, Typed, AllTold, AllSingle, Told, Single, TypeOK, FixedNonce, CurrentTx
<1>5. ASSUME NEW g \in Prices, Quote(p, g) PROVE Single(p)'
  BY <1>5 DEF Quote, Goto, node, args, Paying, Typed, AllTold, AllSingle, Told, Single, TypeOK, FixedNonce, CurrentTx
<1>6. CASE QuoteFails(p)
  BY <1>6 DEF QuoteFails, Return, Goto, node, args, Paying, Typed, AllTold, AllSingle, Told, Single, TypeOK, FixedNonce, CurrentTx
<1>7. CASE ReadNonce(p)
  BY <1>7 DEF ReadNonce, Goto, AfterNonce, UsedNonce, node, args, Paying, Typed, AllTold, AllSingle, Told, Single, TypeOK, FixedNonce, CurrentTx
<1>8. CASE NonceToSmall(p)
  BY <1>8 DEF NonceToSmall, Return, Goto, node, args, Paying, Typed, AllTold, AllSingle, Told, Single, TypeOK, FixedNonce, CurrentTx
<1>9. CASE NonceFails(p)
  BY <1>9 DEF NonceFails, Return, Goto, AfterNonce, IgnoresNonceError, node, args, Paying, Typed, AllTold, AllSingle, Told, Single, TypeOK, FixedNonce, CurrentTx
<1>10. CASE CheckGas(p)
  BY <1>10 DEF CheckGas, Goto, node, args, Paying, Typed, AllTold, AllSingle, Told, Single, TypeOK, FixedNonce, CurrentTx
<1>11. CASE NilQuote(p)
  BY <1>11 DEF NilQuote, Return, Goto, node, args, Paying, Typed, AllTold, AllSingle, Told, Single, TypeOK, FixedNonce, CurrentTx
<1>12. CASE Send(p)
  <2>1. /\ mined' = mined /\ kind' = kind /\ given' = given /\ took'[p] /\ ~took[p]
        /\ pc[p] = "send" /\ nonce' = nonce /\ CurrentTx(p)' = CurrentTx(p)
    BY <1>12 DEF Send, Return, Goto, args, Paying, Typed, TypeOK, AllTold, Told, CurrentTx
  <2>2. \A t \in pool' : t = CurrentTx(p) \/ t \in pool
    BY <1>12 DEF Send, Return, Goto, Taken
  <2>3. CurrentTx(p).nonce = nonce[p]
    BY DEF CurrentTx
  <2> QED
    BY <2>1, <2>2, <2>3 DEF Paying, AllSingle, Single, FixedNonce
<1>13. CASE SendAnswerLost(p)
  <2>1. /\ mined' = mined /\ kind' = kind /\ given' = given /\ took'[p] /\ ~took[p]
        /\ pc[p] = "send" /\ nonce' = nonce /\ CurrentTx(p)' = CurrentTx(p)
    BY <1>13 DEF SendAnswerLost, Return, Goto, args, Paying, Typed, TypeOK, AllTold, Told, CurrentTx
  <2>2. \A t \in pool' : t = CurrentTx(p) \/ t \in pool
    BY <1>13 DEF SendAnswerLost, Return, Goto, Taken
  <2>3. CurrentTx(p).nonce = nonce[p]
    BY DEF CurrentTx
  <2> QED
    BY <2>1, <2>2, <2>3 DEF Paying, AllSingle, Single, FixedNonce
<1>14. CASE SendFails(p)
  BY <1>14 DEF SendFails, Return, Goto, node, args, Paying, Typed, AllTold, AllSingle, Told, Single, TypeOK, FixedNonce, CurrentTx
<1>15. CASE GiveUp(p)
  BY <1>15 DEF GiveUp, Return, Goto, node, args, Paying, Typed, AllTold, AllSingle, Told, Single, TypeOK, FixedNonce, CurrentTx
<1>16. ASSUME NEW ok \in BOOLEAN, Receipt(p, ok) PROVE Single(p)'
  BY <1>16 DEF Receipt, Return, Goto, Verdict, node, args, Paying, Typed, AllTold, AllSingle, Told, Single, TypeOK, FixedNonce, CurrentTx
<1>17. CASE NoReceipt(p)
  BY <1>17 DEF NoReceipt, Goto, node, args, Paying, Typed, AllTold, AllSingle, Told, Single, TypeOK, FixedNonce, CurrentTx
<1>18. CASE ContextDone(p)
  BY <1>18 DEF ContextDone, Return, Goto, node, args, Paying, Typed, AllTold, AllSingle, Told, Single, TypeOK, FixedNonce, CurrentTx
<1>19. CASE Timer(p) \/ NoBlock(p)
  <2>1. CASE Timer(p)
    BY <2>1 DEF Timer, Goto, node, args, Paying, Typed, AllTold, AllSingle, Told, Single, TypeOK, FixedNonce, CurrentTx
  <2>2. CASE NoBlock(p)
    BY <2>2 DEF NoBlock, Goto, node, args, Paying, Typed, AllTold, AllSingle, Told, Single, TypeOK, FixedNonce, CurrentTx
  <2> QED
    BY <1>19, <2>1, <2>2
<1> QED
  BY <1>1, <1>2, <1>3, <1>4, <1>5, <1>6, <1>7, <1>8, <1>9, <1>10, <1>11, <1>12, <1>13, <1>14, <1>15, <1>16, <1>17, <1>18, <1>19 DEF CallStep, Work

LEMMA MinedGrows ==
    ASSUME TypeOK, NEW u \in pool, NEW ok \in BOOLEAN, Mine(u, ok)
    PROVE  \A i \in DOMAIN mined' :
             mined'[i].tx = u \/ (i \in DOMAIN mined /\ mined'[i] = mined[i])
<1>1. /\ mined' = Append(mined, [tx |-> u, ok |-> ok]) /\ u \in Txs
      /\ mined \in Seq([tx : Txs, ok : BOOLEAN])
  BY DEF Mine, TypeOK
<1>2. mined' \in Seq([tx : Txs, ok : BOOLEAN])
  BY <1>1, AppendProperties
<1>3. DOMAIN mined = 1..Len(mined) /\ DOMAIN mined' = 1..Len(mined') /\ Len(mined) \in Nat
  BY <1>1, <1>2, LenProperties
<1>4. /\ Len(mined') = Len(mined) + 1 /\ mined'[Len(mined) + 1] = [tx |-> u, ok |-> ok]
      /\ \A i \in DOMAIN mined : mined'[i] = mined[i]
  BY MinedStays
<1> QED
  BY <1>3, <1>4

LEMMA NextSingle == Paying /\ [Next]_vars => AllSingle'
<1> SUFFICES ASSUME Paying, [Next]_vars, NEW q \in Payments PROVE Single(q)'
  BY DEF AllSingle
<1>1. Single(q) /\ TypeOK
  BY DEF Paying, Typed, AllSingle
<1>2. CASE UNCHANGED vars
  BY <1>1, <1>2 DEF vars, Single, FixedNonce, CurrentTx
<1>3. ASSUME NEW u \in pool, NEW ok \in BOOLEAN, Mine(u, ok) PROVE Single(q)'
  <2>1. /\ kind' = kind /\ given' = given /\ pc' = pc /\ nonce' = nonce /\ took' = took
        /\ price' = price /\ pool' = pool \ {u}
    BY <1>3 DEF Mine, args
  <2>2. \A i \in DOMAIN mined' :
          mined'[i].tx = u \/ (i \in DOMAIN mined /\ mined'[i] = mined[i])
    BY <1>1, <1>3, MinedGrows
  <2> QED
    BY <1>1, <2>1, <2>2 DEF Single, FixedNonce, CurrentTx
<1>4. ASSUME NEW p \in Payments, CallStep(p) PROVE Single(q)'
  <2>1. CASE p = q
    BY <1>4, <2>1, SingleByStep
  <2>2. CASE p # q
    <3>1. /\ mined' = mined /\ kind' = kind /\ given' = given /\ Same(q)
          /\ pool' = pool \/ pool' = Taken(CurrentTx(p))
      BY <1>1, <1>4, <2>2, StepLocal DEF Local
    <3>2. \A t \in pool' : t.pay = q => t \in pool
      BY <2>2, <3>1 DEF Taken, CurrentTx
    <3> QED
      BY <1>1, <3>1, <3>2 DEF Same, Single, FixedNonce, CurrentTx
  <2> QED
    BY <2>1, <2>2
<1> QED
  BY <1>2, <1>3, <1>4 DEF Next, CallStep

LEMMA InitPaying == Init => Paying
<1> SUFFICES ASSUME Init PROVE Paying
  OBVIOUS
<1>1. DOMAIN mined = {} /\ pool = {}
  BY DEF Init
<1>2. Chained /\ AllSingle
  BY <1>1 DEF Init, Chained, AllSingle, Single
<1> QED
  BY <1>2, InitTyped, InitTold DEF Paying

LEMMA SingleIsOnce == Paying => PaidOnce
<1> SUFFICES ASSUME Paying, NEW i \in DOMAIN mined, NEW j \in DOMAIN mined,
                    mined[i].tx.pay = mined[j].tx.pay, mined[i].ok, mined[j].ok
             PROVE  i = j
  BY DEF PaidOnce
<1>1. /\ DOMAIN mined = 1..Len(mined) /\ Len(mined) \in Nat /\ FirstNonce \in Nat
      /\ mined[i].tx \in Txs /\ mined[j].tx \in Txs
  <2>1. mined \in Seq([tx : Txs, ok : BOOLEAN])
    BY DEF Paying, Typed, TypeOK
  <2>2. DOMAIN mined = 1..Len(mined) /\ Len(mined) \in Nat
    BY <2>1, LenProperties
  <2>3. mined[i] \in [tx : Txs, ok : BOOLEAN] /\ mined[j] \in [tx : Txs, ok : BOOLEAN]
    BY <2>1, <2>2, ElementOfSeq
  <2> QED
    BY <2>2, <2>3, SendAssumption
<1>2. PICK p \in Payments : mined[i].tx.pay = p /\ mined[j].tx.pay = p
  BY <1>1 DEF Txs
<1>3. mined[i].tx.nonce = mined[j].tx.nonce
  BY <1>2 DEF Paying, AllSingle, Single
<1>4. mined[i].tx.nonce + 1 = FirstNonce + i /\ mined[j].tx.nonce + 1 = FirstNonce + j
  BY DEF Paying, Chained
<1> QED
  BY <1>1, <1>3, <1>4

LEMMA NextPaying == Paying /\ [Next]_vars => Paying'
  BY NextTyped, NextTold, NextChained, NextSingle DEF Paying, Typed

\* Callers who repeat a call with its own nonce after any error, and another one
\* only after an error that leaves nothing open, pay at most once.
THEOREM PaidOnceCorrect == Spec => []PaidOnce
  BY NextPaying, InitPaying, SingleIsOnce, PTL DEF Spec

-----------------------------------------------------------------------------
(* A batch of calls that are given their nonces.                            *)

\* Each is made once, with a nonce of its own that is not used yet, and the node
\* can be reached.
Batch ==
    /\ \A p \in Payments : Kind[p] = {"SendContractSyncWithNonce"}
    /\ \A p \in Payments : \A n \in GivenNonces[p] : n >= FirstNonce /\ n # 0
    /\ \A p, q \in Payments : p # q => GivenNonces[p] \cap GivenNonces[q] = {}
    /\ MaxCalls = 1
    /\ Failures \subseteq {"check", "context"}

InBatch(p) ==
    /\ kind[p] = "SendContractSyncWithNonce" /\ given[p] \in GivenNonces[p]
    /\ pc[p] # "idle" => calls[p] = 1
    /\ ~took[p] => /\ \A t \in pool : t.pay # p
                   /\ \A i \in DOMAIN mined : mined[i].tx.pay # p
    /\ res[p] \notin {"NonceNotEmpty", "NonceToSmall", "send"}

AllInBatch == \A p \in Payments : InBatch(p)

\* The nonce of a call whose transaction the node has not got yet is free.
LEMMA FreeNonce ==
    ASSUME Batch, Paying, AllInBatch, NEW p \in Payments, ~took[p]
    PROVE  /\ given[p] \in Nat /\ given[p] # 0
           /\ given[p] >= ChainNonce /\ PendingNonce <= given[p]
           /\ \A u \in pool : u.nonce # given[p]
<1>1. /\ given[p] \in Nat /\ given[p] >= FirstNonce /\ given[p] # 0
      /\ \A q \in Payments \ {p} : given[q] # given[p]
  <2>1. \A q \in Payments : given[q] \in GivenNonces[q] /\ given[q] \in Nat
    BY DEF AllInBatch, InBatch, Paying, Typed, TypeOK
  <2> QED
    BY <2>1 DEF Batch
<1>2. \A q \in Payments : FixedNonce(q)
  BY DEF AllInBatch, InBatch, FixedNonce
<1>3. /\ \A t \in pool : t.pay # p
      /\ \A i \in DOMAIN mined : mined[i].tx.pay # p
  BY DEF AllInBatch, InBatch
<1>4. \A u \in pool : u.nonce # given[p]
  <2>1. \A u \in pool : u.pay \in Payments
    BY DEF Paying, Typed, TypeOK, Txs
  <2>2. \A u \in pool : u.nonce = given[u.pay]
    BY <1>2, <2>1 DEF Paying, AllSingle, Single
  <2> QED
    BY <1>1, <1>3, <2>1, <2>2
<1>5. /\ mined \in Seq([tx : Txs, ok : BOOLEAN]) /\ FirstNonce \in Nat
      /\ Len(mined) \in Nat /\ DOMAIN mined = 1..Len(mined)
  BY SendAssumption, LenProperties DEF Paying, Typed, TypeOK
<1>6. \A i \in DOMAIN mined : mined[i].tx.nonce # given[p]
  <2> SUFFICES ASSUME NEW i \in DOMAIN mined PROVE mined[i].tx.nonce # given[p]
    OBVIOUS
  <2>1. mined[i] \in [tx : Txs, ok : BOOLEAN]
    BY <1>5, ElementOfSeq
  <2>2. PICK q \in Payments : mined[i].tx.pay = q
    BY <2>1 DEF Txs
  <2>3. mined[i].tx.nonce = given[q] /\ q # p
    BY <1>2, <1>3, <2>2 DEF Paying, AllSingle, Single
  <2> QED
    BY <1>1, <2>3
<1>7. given[p] >= ChainNonce
  <2> SUFFICES ASSUME ~(given[p] >= ChainNonce) PROVE FALSE
    OBVIOUS
  <2>1. given[p] + 1 - FirstNonce \in DOMAIN mined
    BY <1>1, <1>5 DEF ChainNonce
  <2>2. PICK i \in DOMAIN mined : i = given[p] + 1 - FirstNonce
    BY <2>1
  <2>3. mined[i] \in [tx : Txs, ok : BOOLEAN] /\ mined[i].tx.nonce + 1 = FirstNonce + i
    BY <1>5, ElementOfSeq DEF Paying, Chained
  <2>4. mined[i].tx.nonce \in Nat
    BY <2>3 DEF Txs
  <2>5. mined[i].tx.nonce = given[p]
    BY <1>1, <1>5, <2>2, <2>3, <2>4
  <2> QED
    BY <1>6, <2>5
<1>8. given[p] \notin PoolNonces
  BY <1>4 DEF PoolNonces
<1>9. PendingNonce \in Nat /\ \A m \in ChainNonce..(PendingNonce - 1) : m \in PoolNonces
  BY PendingNonceType DEF Paying, Typed
<1>10. ChainNonce \in Nat
  BY ChainNonceType DEF Paying, Typed
<1>11. PendingNonce <= given[p]
  <2>1. given[p] \notin ChainNonce..(PendingNonce - 1)
    BY <1>8, <1>9
  <2> QED
    BY <1>1, <1>7, <1>9, <1>10, <2>1
<1> QED
  BY <1>1, <1>4, <1>7, <1>11

LEMMA BatchByStep ==
    ASSUME Batch, Paying, AllInBatch, NEW p \in Payments, CallStep(p)
    PROVE  InBatch(p)'
<1>1. CASE Start(p)
  <2>1. pc[p] = "idle"
    BY <1>1, SendAssumption DEF Start, MayCall, Goto, Batch, AllInBatch, InBatch, Paying, Typed, TypeOK
  <2>2. calls[p] \in Nat /\ calls[p] < 1 /\ calls'[p] = calls[p] + 1
    <3>1. MaxCalls = 1 /\ calls \in [Payments -> 0..1]
      BY DEF Batch, Paying, Typed, TypeOK
    <3> QED
      BY <1>1, <3>1 DEF Start, MayCall, Goto
  <2>3. ~took[p] /\ InBatch(p)
    BY <2>1 DEF Paying, AllTold, Told, AllInBatch
  <2>4. /\ mined' = mined /\ pool' = pool /\ kind' = kind /\ given' = given
        /\ calls'[p] = 1 /\ res'[p] = "none"
    BY <1>1, <2>2 DEF Start, MayCall, Goto, node, args, Paying, Typed, TypeOK
  <2> QED
    BY <2>3, <2>4 DEF InBatch
<1>2. CASE NoNonce(p)
  BY <1>2, FreeNonce DEF NoNonce, MayCall, Return, Goto, Batch, AllInBatch, InBatch, Paying, Typed, TypeOK, AllTold, Told
<1>3. CASE Refuse(p)
  BY <1>3 DEF Refuse, Return, Goto, node, args, AllInBatch, InBatch, Paying, Typed, TypeOK, AllTold, Told
<1>4. CASE Decode(p)
  BY <1>4 DEF Decode, Goto, node, args, AllInBatch, InBatch, Paying, Typed, TypeOK, AllTold, Told
<1>5. ASSUME NEW g \in Prices, Quote(p, g) PROVE InBatch(p)'
  BY <1>5 DEF Quote, Goto, node, args, AllInBatch, InBatch, Paying, Typed, TypeOK, AllTold, Told
<1>6. CASE QuoteFails(p)
  <2>1. "rpc" \notin Failures /\ "answer" \notin Failures
    BY DEF Batch
  <2> QED
    BY <1>6, <2>1 DEF QuoteFails, Return, Goto
<1>7. CASE ReadNonce(p)
  BY <1>7 DEF ReadNonce, Goto, AfterNonce, node, args, AllInBatch, InBatch, Paying, Typed, TypeOK, AllTold, Told
<1>8. CASE NonceToSmall(p)
  <2>1. ~took[p]
    BY <1>8 DEF NonceToSmall, Return, Goto, AllInBatch, InBatch, Paying, Typed, TypeOK, AllTold, Told
  <2>2. PendingNonce \in Nat /\ PendingNonce <= given[p] /\ given[p] \in Nat
    BY <2>1, FreeNonce, PendingNonceType DEF Paying, Typed
  <2> QED
    BY <1>8, <2>2 DEF NonceToSmall, Return, Goto, TooSmall
<1>9. CASE NonceFails(p)
  <2>1. "rpc" \notin Failures /\ "answer" \notin Failures
    BY DEF Batch
  <2> QED
    BY <1>9, <2>1 DEF NonceFails, Return, Goto, AfterNonce
<1>10. CASE CheckGas(p)
  BY <1>10 DEF CheckGas, Goto, node, args, AllInBatch, InBatch, Paying, Typed, TypeOK, AllTold, Told
<1>11. CASE NilQuote(p)
  BY <1>11 DEF NilQuote, Return, Goto, node, args, AllInBatch, InBatch, Paying, Typed, TypeOK, AllTold, Told
<1>12. CASE Send(p)
  <2>1. /\ kind' = kind /\ given' = given /\ took'[p] /\ pc[p] = "send" /\ calls' = calls
        /\ res[p] = "none" /\ (res' = res \/ res'[p] = "ok")
    BY <1>12 DEF Send, Return, Goto, args, AllInBatch, InBatch, Paying, Typed, TypeOK, AllTold, Told
  <2> QED
    BY <2>1 DEF AllInBatch, InBatch, Paying, Typed, TypeOK, AllTold, Told
<1>13. CASE SendAnswerLost(p)
  <2>1. "rpc" \notin Failures /\ "answer" \notin Failures
    BY DEF Batch
  <2> QED
    BY <1>13, <2>1 DEF SendAnswerLost, Return, Goto
<1>14. CASE SendFails(p)
  <2>1. "rpc" \notin Failures /\ "answer" \notin Failures
    BY DEF Batch
  <2>2. ~took[p] /\ nonce[p] = given[p]
    BY <1>14 DEF SendFails, Return, Goto, FixedNonce, AllSingle, Single, AllInBatch, InBatch, Paying, Typed, TypeOK, AllTold, Told
  <2>3. Acceptable(CurrentTx(p))
    BY <2>2, FreeNonce DEF Acceptable, CurrentTx
  <2> QED
    BY <1>14, <2>1, <2>3 DEF SendFails, Return, Goto
<1>15. CASE GiveUp(p)
  BY <1>15 DEF GiveUp, Return, Goto, node, args, AllInBatch, InBatch, Paying, Typed, TypeOK, AllTold, Told
<1>16. ASSUME NEW ok \in BOOLEAN, Receipt(p, ok) PROVE InBatch(p)'
  BY <1>16 DEF Receipt, Return, Goto, Verdict, node, args, AllInBatch, InBatch, Paying, Typed, TypeOK, AllTold, Told
<1>17. CASE NoReceipt(p)
  BY <1>17 DEF NoReceipt, Goto, node, args, AllInBatch, InBatch, Paying, Typed, TypeOK, AllTold, Told
<1>18. CASE ContextDone(p)
  BY <1>18 DEF ContextDone, Return, Goto, node, args, AllInBatch, InBatch, Paying, Typed, TypeOK, AllTold, Told
<1>19. CASE Timer(p) \/ NoBlock(p)
  <2>1. CASE Timer(p)
    BY <2>1 DEF Timer, Goto, node, args, AllInBatch, InBatch, Paying, Typed, TypeOK, AllTold, Told
  <2>2. CASE NoBlock(p)
    BY <2>2 DEF NoBlock, Goto, node, args, AllInBatch, InBatch, Paying, Typed, TypeOK, AllTold, Told
  <2> QED
    BY <1>19, <2>1, <2>2
<1> QED
  BY <1>1, <1>2, <1>3, <1>4, <1>5, <1>6, <1>7, <1>8, <1>9, <1>10, <1>11, <1>12, <1>13, <1>14, <1>15, <1>16, <1>17, <1>18, <1>19 DEF CallStep, Work

LEMMA NextInBatch == Batch /\ Paying /\ AllInBatch /\ [Next]_vars => AllInBatch'
<1> SUFFICES ASSUME Batch, Paying, AllInBatch, [Next]_vars, NEW q \in Payments PROVE InBatch(q)'
  BY DEF AllInBatch
<1>1. InBatch(q) /\ TypeOK
  BY DEF Paying, Typed, AllInBatch
<1>2. CASE UNCHANGED vars
  BY <1>1, <1>2 DEF vars, InBatch
<1>3. ASSUME NEW u \in pool, NEW ok \in BOOLEAN, Mine(u, ok) PROVE InBatch(q)'
  <2>1. /\ kind' = kind /\ given' = given /\ pc' = pc /\ took' = took /\ res' = res
        /\ calls' = calls /\ pool' = pool \ {u}
    BY <1>3 DEF Mine, args
  <2>2. \A i \in DOMAIN mined' :
          mined'[i].tx = u \/ (i \in DOMAIN mined /\ mined'[i] = mined[i])
    BY <1>1, <1>3, MinedGrows
  <2> QED
    BY <1>1, <2>1, <2>2 DEF InBatch
<1>4. ASSUME NEW p \in Payments, CallStep(p) PROVE InBatch(q)'
  <2>1. CASE p = q
    BY <1>4, <2>1, BatchByStep
  <2>2. CASE p # q
    <3>1. /\ mined' = mined /\ kind' = kind /\ given' = given /\ Same(q)
          /\ pool' = pool \/ pool' = Taken(CurrentTx(p))
      BY <1>1, <1>4, <2>2, StepLocal DEF Local
    <3>2. \A t \in pool' : t.pay = q => t \in pool
      BY <2>2, <3>1 DEF Taken, CurrentTx
    <3> QED
      BY <1>1, <3>1, <3>2 DEF Same, InBatch
  <2> QED
    BY <2>1, <2>2
<1> QED
  BY <1>2, <1>3, <1>4 DEF Next, CallStep

\* Calls with nonces of their own that were free are never refused for them, in
\* whatever order they get to the node, however many there are.
THEOREM BatchCorrect == Batch => (Spec => []BatchAccepted)
<1> SUFFICES ASSUME Batch PROVE Spec => []BatchAccepted
  OBVIOUS
<1>1. Init => AllInBatch
  <2> SUFFICES ASSUME Init, NEW p \in Payments PROVE InBatch(p)
    BY DEF AllInBatch
  <2>1. kind[p] \in Kind[p] /\ given[p] \in GivenNonces[p]
    BY DEF Init
  <2>2. pool = {} /\ DOMAIN mined = {} /\ pc[p] = "idle" /\ res[p] = "none"
    BY DEF Init
  <2> QED
    BY <2>1, <2>2 DEF Batch, InBatch
<1>2. Paying /\ AllInBatch /\ [Next]_vars => (Paying /\ AllInBatch)'
  BY NextPaying, NextInBatch
<1>3. AllInBatch => BatchAccepted
  BY DEF AllInBatch, InBatch, BatchAccepted
<1> QED
  BY <1>1, <1>2, <1>3, InitPaying, PTL DEF Spec
==============================================================================
