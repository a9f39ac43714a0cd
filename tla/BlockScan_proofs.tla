--------------------------- MODULE BlockScan_proofs ---------------------------
(***************************************************************************)
(* Proofs about BlockScan for any number of goroutines that share one      *)
(* mutex, any chain, any failures and any number of restarts.              *)
(***************************************************************************)
EXTENDS BlockScan, TLAPS

\* All rounds are given the same mutex, as those of one StartScan are.
SharedMutex == \A p, q \in Procs : MutexOf[p] = MutexOf[q]

\* A goroutine in a round holds its mutex, so only one is in a round.
MutexHeld == \A p \in Procs : pc[p] # "tick" => mu[MutexOf[p]] = p

InLoop(p) == pc[p] \in {"loop", "handle", "errtx"}
InBlock(p) == pc[p] \in {"handle", "errtx"}

\* The locals of a round: it works on the block after the recorded one, stays
\* below the head it was told, and has dealt with the transactions before idx.
RoundInv ==
    \A p \in Procs :
        /\ pc[p] \notin {"tick", "acquire", "failed", "head"} => highest[p] <= top
        /\ InLoop(p) => height[p] = Latest + 1 /\ limit[p] = highest[p]
        /\ InBlock(p) => /\ height[p] < limit[p]
                         /\ idx[p] >= 1
                         /\ \A i \in 1..(idx[p] - 1) :
                                Tx(height[p], block[p], i) \in Seen
        /\ pc[p] = "errtx" => MoreTxs(p)

\* The file is empty or holds exactly the digits of its number.
FileShape == file.len = Digits(file.val) \/ (file.len = 0 /\ file.val = 0)

\* The part of TypeOK about the pool and the program.
PoolTyped ==
    /\ cons \in Seq({"client", "nil"}) /\ Len(cons) <= PoolSize
    /\ shut \in BOOLEAN
    /\ prog \in {"up", "killed", "panicked"}

IInv == TypeOK /\ FileShape /\ NothingSkipped /\ MutexHeld /\ RoundInv

-----------------------------------------------------------------------------
(* Arithmetic *)

LEMMA FirstArgType == FirstArg \in 0..StartNumber
  BY ScanAssumption DEF FirstArg

\* The progress never comes near the end of the number range.
LEMMA LatestType ==
    ASSUME TypeOK
    PROVE  /\ Latest \in Nat
           /\ Latest + 1 < Word
           /\ Latest >= FirstArg /\ Latest >= file.val
           /\ Latest \in {FirstArg, file.val}
  BY FirstArgType, ScanAssumption DEF Latest, TypeOK

\* The loop's bound is the head, also when the subtraction wraps around.
LEMMA LimitIsHighest ==
    ASSUME NEW a \in Nat, NEW b \in Nat, a < Word, b < Word
    PROVE  /\ Plus(b, Minus(a, b)) = a
           /\ Minus(a, b) = 0 <=> a = b
  BY ScanAssumption DEF Plus, Minus

LEMMA NextHeight ==
    ASSUME NEW b \in Nat, b + 1 < Word
    PROVE  Plus(b, 1) = b + 1
  BY ScanAssumption DEF Plus

\* A longer number leaves nothing of the old one.
LEMMA OverwriteExact ==
    ASSUME TypeOK, FileShape, NEW n \in 1..MaxHeight, file.val < n
    PROVE  Overwrite(file, n) = [len |-> Digits(n), val |-> n]
<1>1. file.len \in Nat /\ file.val \in 0..n
  BY DEF TypeOK
<1>2. Digits(n) \in Nat \ {0} /\ Digits(file.val) <= Digits(n)
  BY <1>1, DigitsAssumption
<1>3. Digits(n) >= file.len
  BY <1>1, <1>2 DEF FileShape
<1> QED
  BY <1>3 DEF Overwrite

-----------------------------------------------------------------------------
(* The pool *)

LEMMA NewPoolTyped ==
    ASSUME NEW c \in NewPools
    PROVE  c \in Seq({"client", "nil"}) /\ Len(c) <= PoolSize
<1>1. PICK n \in 0..PoolSize : c = [i \in 1..n |-> "client"]
  BY DEF NewPools
<1>2. n \in Nat /\ n <= PoolSize
  BY <1>1, ScanAssumption
<1>3. [i \in 1..n |-> "client"] \in Seq({"client", "nil"})
  BY <1>2
<1>4. Len([i \in 1..n |-> "client"]) = n
  BY <1>2
<1> QED
  BY <1>1, <1>2, <1>3, <1>4

LEMMA PutTyped ==
    ASSUME PoolTyped, Room, NEW what \in {"client", "nil"},
           cons' = Append(cons, what), UNCHANGED <<shut, prog>>
    PROVE  PoolTyped'
  BY ScanAssumption DEF PoolTyped, Room

LEMMA TakenTyped ==
    ASSUME PoolTyped, cons # <<>>, cons' = Tail(cons), UNCHANGED <<shut, prog>>
    PROVE  PoolTyped'
  BY ScanAssumption DEF PoolTyped

LEMMA ReturnTyped ==
    ASSUME PoolTyped, NEW p \in Procs, Return(p)
    PROVE  PoolTyped'
<1>1. CASE Room
  BY <1>1, PutTyped DEF Return
<1>2. CASE ~Room
  BY <1>2 DEF Return, PoolTyped
<1> QED
  BY <1>1, <1>2

-----------------------------------------------------------------------------

LEMMA InitInv == Init => IInv
<1> SUFFICES ASSUME Init PROVE IInv
  OBVIOUS
<1> USE ScanAssumption
<1>1. TypeOK
  <2>1. NoVersion \in Versions
    BY DEF NoVersion
  <2>2. Word - 1 \in Nat /\ 0 \in 0..(Word - 1) /\ 0 \in 0..MaxHeight
    OBVIOUS
  <2>3. chain \in [Heights -> Versions] /\ block \in [Procs -> Versions]
    BY <2>1 DEF Init
  <2>4. file \in [len : Nat, val : 0..MaxHeight]
    BY DEF Init
  <2>5. /\ highest \in [Procs -> 0..MaxHeight] /\ height \in [Procs -> 0..(Word - 1)]
        /\ limit \in [Procs -> 0..(Word - 1)] /\ idx \in [Procs -> Nat]
    BY <2>2 DEF Init
  <2>6. pc \in [Procs -> Labels] /\ mu \in [Mutexes -> Procs \cup {NoOne}]
    BY DEF Init, Labels
  <2>7. PoolTyped
    BY NewPoolTyped DEF Init, PoolTyped
  <2> QED
    BY <2>2, <2>3, <2>4, <2>5, <2>6, <2>7 DEF Init, TypeOK, PoolTyped
<1>2. FileShape
  BY DEF Init, FileShape
<1>3. NothingSkipped
  BY FirstArgType DEF Init, NothingSkipped
<1>4. MutexHeld /\ RoundInv
  BY DEF Init, MutexHeld, RoundInv, InLoop, InBlock
<1> QED
  BY <1>1, <1>2, <1>3, <1>4 DEF IInv

\* What a round that ends leaves behind.
LEMMA ForgetInv ==
    ASSUME IInv, NEW p \in Procs, pc[p] # "tick", SharedMutex, Forget(p), Unlock(p),
           PoolTyped', UNCHANGED <<node, disk, ghosts, crashes>>
    PROVE  IInv'
<1> USE ScanAssumption DEF IInv, node, disk, ghosts
<1>1. pc' = [pc EXCEPT ![p] = "tick"]
  BY DEF Forget, Goto
<1>2. TypeOK'
  <2>1. NoVersion \in Versions
    BY DEF NoVersion
  <2>2. pc' \in [Procs -> Labels] /\ mu' \in [Mutexes -> Procs \cup {NoOne}]
    BY <1>1 DEF TypeOK, Unlock, Labels
  <2>3. /\ highest' \in [Procs -> 0..MaxHeight] /\ idx' \in [Procs -> Nat]
        /\ height' \in [Procs -> 0..(Word - 1)] /\ limit' \in [Procs -> 0..(Word - 1)]
    BY DEF TypeOK, Forget
  <2>4. block' \in [Procs -> Versions]
    BY <2>1 DEF TypeOK, Forget
  <2> QED
    BY <2>2, <2>3, <2>4 DEF TypeOK, PoolTyped
<1>3. FileShape' /\ NothingSkipped'
  BY DEF FileShape, NothingSkipped, TxsOf, Seen
<1>4. \A q \in Procs : q # p => pc[q] = "tick"
  BY DEF MutexHeld, SharedMutex
<1>5. \A q \in Procs : pc'[q] = "tick"
  BY <1>1, <1>4 DEF TypeOK
<1>6. MutexHeld' /\ RoundInv'
  BY <1>5 DEF MutexHeld, RoundInv, InLoop, InBlock
<1> QED
  BY <1>2, <1>3, <1>6

LEMMA ReturnInv ==
    ASSUME IInv, NEW p \in Procs, pc[p] # "tick", SharedMutex, Return(p),
           UNCHANGED <<node, disk, ghosts, crashes>>
    PROVE  IInv'
<1>1. PoolTyped
  BY DEF IInv, TypeOK, PoolTyped
<1>2. PoolTyped'
  BY <1>1, ReturnTyped
<1>3. Forget(p) /\ Unlock(p)
  BY DEF Return
<1> QED
  BY <1>2, <1>3, ForgetInv

\* The program ends.
LEMMA EndInv ==
    ASSUME IInv, NEW how \in {"killed", "panicked"}, End(how)
    PROVE  IInv'
<1> USE ScanAssumption DEF IInv, node, disk, ghosts
<1>1. NoVersion \in Versions /\ 0 \in 0..(Word - 1) /\ 0 \in 0..MaxHeight
  BY DEF NoVersion
<1>2. cons' \in Seq({"client", "nil"}) /\ Len(cons') <= PoolSize
  BY DEF End
<1>3. TypeOK'
  BY <1>1, <1>2 DEF End, TypeOK, Labels
<1>4. FileShape' /\ NothingSkipped'
  BY DEF End, FileShape, NothingSkipped, TxsOf, Seen
<1>5. \A p \in Procs : pc'[p] = "tick"
  BY DEF End
<1>6. MutexHeld' /\ RoundInv'
  BY <1>5 DEF MutexHeld, RoundInv, InLoop, InBlock
<1> QED
  BY <1>3, <1>4, <1>6

\* Restarting and what others do to the pool.
LEMMA PoolInv ==
    ASSUME IInv, PoolTyped', crashes' \in 0..MaxCrashes,
           UNCHANGED <<node, disk, ghosts, mu, pc, locals>>
    PROVE  IInv'
<1> USE DEF IInv, node, disk, ghosts, locals
<1>1. TypeOK' /\ FileShape' /\ NothingSkipped' /\ MutexHeld'
  BY DEF TypeOK, PoolTyped, FileShape, NothingSkipped, TxsOf, Seen, MutexHeld
<1>2. RoundInv'
  BY DEF RoundInv, InLoop, InBlock, MoreTxs, Latest, Seen
<1> QED
  BY <1>1, <1>2

\* Growing and rolling back touch only the node.
LEMMA NodeInv ==
    ASSUME IInv, head' \in 0..MaxHeight, top' \in head'..MaxHeight, top' >= top,
           chain' \in [Heights -> Versions],
           UNCHANGED <<disk, ghosts, pool, mu, pc, locals, crashes>>
    PROVE  IInv'
<1> USE DEF IInv, disk, ghosts, pool, locals
<1>1. TypeOK' /\ FileShape' /\ MutexHeld'
  BY DEF TypeOK, FileShape, MutexHeld
<1>2. NothingSkipped'
  BY DEF NothingSkipped, TxsOf, Seen
<1>3. RoundInv'
  BY DEF RoundInv, InLoop, InBlock, MoreTxs, Latest, Seen, TypeOK
<1> QED
  BY <1>1, <1>2, <1>3

\* While p is in a round, everybody else waits.
LEMMA OnlyOne ==
    ASSUME IInv, SharedMutex, NEW p \in Procs, pc[p] # "tick"
    PROVE  \A q \in Procs : q # p => pc[q] = "tick"
  BY DEF IInv, MutexHeld, SharedMutex

\* The block a round works on lies below the highest head.
LEMMA WorkingHeight ==
    ASSUME TypeOK, RoundInv, NEW p \in Procs, InLoop(p), height[p] < limit[p]
    PROVE  /\ height[p] = Latest + 1 /\ limit[p] = highest[p]
           /\ height[p] \in Heights /\ height[p] < top
<1>1. height[p] = Latest + 1 /\ limit[p] = highest[p] /\ highest[p] <= top
  BY DEF RoundInv, InLoop
<1>2. Latest \in Nat
  BY LatestType
<1>3. highest[p] \in 0..MaxHeight /\ top \in Nat /\ MaxHeight \in Nat
  BY ScanAssumption DEF TypeOK
<1>4. height[p] \in 1..MaxHeight /\ height[p] < top
  BY <1>1, <1>2, <1>3
<1> QED
  BY <1>1, <1>4 DEF Heights

\* A step of p inside a block that only deals with the current transaction.
LEMMA DealtInv ==
    ASSUME IInv, SharedMutex, NEW p \in Procs, InBlock(p), MoreTxs(p),
           Seen' = Seen \cup {CurrentTx(p)},
           done' \subseteq Seen', errs' \subseteq Seen', lost' \subseteq Seen',
           idx' = [idx EXCEPT ![p] = @ + 1],
           pc' = [pc EXCEPT ![p] = "handle"],
           UNCHANGED <<node, file, pool, mu, highest, height, limit, block, crashes>>
    PROVE  IInv'
<1> USE ScanAssumption DEF IInv, node, pool
<1>1. height[p] \in Heights /\ block[p] \in Versions /\ idx[p] \in Nat /\ pc[p] # "tick"
  <2>1. InLoop(p) /\ height[p] < limit[p] /\ pc[p] # "tick"
    BY DEF RoundInv, InLoop, InBlock
  <2>2. height[p] \in Heights
    BY <2>1, WorkingHeight
  <2> QED
    BY <2>1, <2>2 DEF TypeOK
<1>2. CurrentTx(p) \in TxSpace
  BY <1>1 DEF CurrentTx, Tx, TxSpace
<1>3. TypeOK'
  <2>1. Seen' \subseteq TxSpace
    BY <1>2 DEF TypeOK, Seen
  <2>2. done' \subseteq TxSpace /\ errs' \subseteq TxSpace /\ lost' \subseteq TxSpace
    BY <2>1
  <2>3. pc' \in [Procs -> Labels] /\ idx' \in [Procs -> Nat]
    BY DEF TypeOK, Labels
  <2> QED
    BY <2>2, <2>3 DEF TypeOK
<1>4. FileShape' /\ Latest' = Latest
  BY DEF FileShape, Latest
<1>5. NothingSkipped'
  BY DEF NothingSkipped, TxsOf
<1>6. MutexHeld'
  BY <1>1 DEF MutexHeld, TypeOK
<1>7. RoundInv'
  <2>1. \A q \in Procs : q # p => pc'[q] = "tick"
    BY <1>1, OnlyOne DEF TypeOK
  <2>2. \A i \in 1..idx[p] : Tx(height[p], block[p], i) \in Seen'
    BY <1>1 DEF RoundInv, CurrentTx
  <2>3. idx'[p] = idx[p] + 1 /\ pc'[p] = "handle"
    BY <1>1 DEF TypeOK
  <2>4. \A i \in 1..(idx'[p] - 1) : Tx(height[p], block[p], i) \in Seen'
    BY <1>1, <2>2, <2>3
  <2> QED
    BY <1>1, <1>4, <2>1, <2>3, <2>4 DEF RoundInv, InLoop, InBlock
<1> QED
  BY <1>3, <1>4, <1>5, <1>6, <1>7

\* The block that a round records is the next one and was gone through.
LEMMA SaveRecords ==
    ASSUME IInv, NEW p \in Procs, Save(p)
    PROVE  /\ height[p] = Latest + 1 /\ height[p] < limit[p] /\ limit[p] = highest[p]
           /\ height[p] \in 1..MaxHeight /\ height[p] + 1 <= MaxHeight
           /\ block[p] \in Versions
           /\ file' = [len |-> Digits(height[p]), val |-> height[p]]
           /\ Latest' = Latest + 1
           /\ TxsOf(Latest + 1, block[p]) \subseteq Seen
<1> USE ScanAssumption DEF IInv
<1>1. pc[p] = "handle" /\ ~MoreTxs(p) /\ file' = Overwrite(file, height[p])
  BY DEF Save
<1>2. /\ height[p] = Latest + 1 /\ height[p] < limit[p] /\ limit[p] = highest[p]
      /\ highest[p] <= top
      /\ \A i \in 1..(idx[p] - 1) : Tx(height[p], block[p], i) \in Seen
  BY <1>1 DEF RoundInv, InLoop, InBlock
<1>3. height[p] \in 1..MaxHeight /\ height[p] + 1 <= MaxHeight /\ block[p] \in Versions
  <2>1. highest[p] \in 0..MaxHeight /\ top \in 0..MaxHeight /\ block[p] \in Versions
    BY DEF TypeOK
  <2> QED
    BY <1>2, <2>1, LatestType
<1>4. file' = [len |-> Digits(height[p]), val |-> height[p]]
  <2>1. file.val < height[p]
    <3>1. file.val \in Nat
      BY DEF TypeOK
    <3> QED
      BY <1>2, <3>1, LatestType
  <2> QED
    BY <1>1, <1>3, <2>1, OverwriteExact
<1>5. Latest' = Latest + 1
  BY <1>2, <1>4, LatestType, FirstArgType DEF Latest, FirstArg
<1>6. TxsOf(height[p], block[p]) \subseteq Seen
  <2>1. idx[p] > TxCount[block[p]] /\ idx[p] \in Nat /\ TxCount[block[p]] \in Nat
    BY <1>1, <1>3 DEF MoreTxs, TypeOK
  <2>2. \A i \in 1..TxCount[block[p]] : i \in 1..(idx[p] - 1)
    BY <2>1
  <2> QED
    BY <1>2, <2>2 DEF TxsOf
<1> QED
  BY <1>2, <1>3, <1>4, <1>5, <1>6

LEMMA SaveInv ==
    ASSUME IInv, SharedMutex, NEW p \in Procs, Save(p)
    PROVE  IInv'
<1> USE ScanAssumption DEF IInv, node, ghosts, pool
<1>1. /\ pc[p] = "handle" /\ ~MoreTxs(p) /\ file' = Overwrite(file, height[p])
      /\ height' = [height EXCEPT ![p] = @ + 1]
      /\ pc' = [pc EXCEPT ![p] = "loop"]
      /\ UNCHANGED <<head, top, chain, errs, done, lost, cons, shut, prog, mu, highest,
                     limit, block, idx, crashes>>
  BY DEF Save, Goto
<1>2. /\ height[p] = Latest + 1 /\ height[p] < limit[p] /\ limit[p] = highest[p]
      /\ highest[p] <= top
  BY <1>1 DEF RoundInv, InLoop, InBlock
<1>3. /\ height[p] \in 1..MaxHeight /\ height[p] + 1 <= MaxHeight /\ block[p] \in Versions
      /\ Latest' = height[p]
      /\ TxsOf(height[p], block[p]) \subseteq Seen
  BY <1>2, SaveRecords
<1>4. file' = [len |-> Digits(height[p]), val |-> height[p]]
  BY SaveRecords
<1>5. Digits(height[p]) \in Nat \ {0}
  BY <1>3, DigitsAssumption
<1>6. TypeOK'
  <2>1. file' \in [len : Nat, val : 0..MaxHeight]
    BY <1>3, <1>4, <1>5
  <2>2. height' \in [Procs -> 0..(Word - 1)]
    BY <1>1, <1>3 DEF TypeOK
  <2> QED
    BY <1>1, <2>1, <2>2 DEF TypeOK, Labels
<1>7. FileShape'
  BY <1>4 DEF FileShape
<1>8. NothingSkipped'
  <2> SUFFICES ASSUME NEW h \in (FirstArg + 1)..height[p]
               PROVE  \E v \in Versions : TxsOf(h, v) \subseteq Seen
    BY <1>1, <1>4 DEF NothingSkipped, Seen, TxsOf, FirstArg
  <2>1. CASE h = height[p]
    BY <1>3, <2>1
  <2>2. CASE h # height[p]
    <3>1. Latest \in Nat /\ Latest \in {FirstArg, file.val} /\ FirstArg \in Nat
      BY LatestType, FirstArgType
    <3>2. h \in FirstArg + 1 .. Latest
      BY <1>2, <2>2, <3>1
    <3>3. h \in (FirstArg + 1)..file.val
      BY <3>1, <3>2
    <3> QED
      BY <3>3 DEF NothingSkipped
  <2> QED
    BY <2>1, <2>2
<1>9. MutexHeld'
  BY <1>1 DEF MutexHeld, TypeOK
<1>10. RoundInv'
  <2>1. \A q \in Procs : q # p => pc'[q] = "tick"
    BY <1>1, OnlyOne DEF TypeOK
  <2>2. pc'[p] = "loop" /\ height'[p] = height[p] + 1
    BY <1>1 DEF TypeOK
  <2> QED
    BY <1>1, <1>2, <1>3, <2>1, <2>2 DEF RoundInv, InLoop, InBlock
<1> QED
  BY <1>6, <1>7, <1>8, <1>9, <1>10

LEMMA StepInv ==
    ASSUME IInv, SharedMutex, NEW p \in Procs, Step(p)
    PROVE  IInv'
<1> USE ScanAssumption
<1>a. TypeOK /\ FileShape /\ NothingSkipped /\ MutexHeld /\ RoundInv
  BY DEF IInv
<1>b. PoolTyped
  BY <1>a DEF TypeOK, PoolTyped
<1>1. CASE Lock(p)
  <2>1. TypeOK' /\ FileShape' /\ NothingSkipped'
    <3>1. /\ pc' = [pc EXCEPT ![p] = "acquire"]
          /\ mu' = [mu EXCEPT ![MutexOf[p]] = p]
          /\ UNCHANGED <<head, top, chain, file, errs, done, lost, cons, shut, prog,
                         highest, height, limit, block, idx, crashes>>
      BY <1>1 DEF Lock, Goto, node, disk, ghosts, pool, locals
    <3>2. TypeOK'
      BY <1>a, <3>1 DEF TypeOK, Labels
    <3>3. FileShape' /\ NothingSkipped'
      BY <1>a, <3>1 DEF FileShape, NothingSkipped, TxsOf, Seen
    <3> QED
      BY <3>2, <3>3
  <2>2. \A q \in Procs : q # p => pc[q] = "tick"
    BY <1>a, <1>1 DEF Lock, MutexHeld, SharedMutex
  <2>3. \A q \in Procs : pc'[q] = IF q = p THEN "acquire" ELSE "tick"
    BY <1>a, <1>1, <2>2 DEF Lock, Goto, TypeOK
  <2>4. mu'[MutexOf[p]] = p
    BY <1>a, <1>1 DEF Lock, TypeOK
  <2>5. MutexHeld' /\ RoundInv'
    BY <2>3, <2>4 DEF MutexHeld, RoundInv, InLoop, InBlock
  <2> QED
    BY <2>1, <2>5 DEF IInv
<1>15. CASE Acquire(p) \/ AcquireFails(p)
  <2>1. /\ pc[p] = "acquire"
        /\ pc' = [pc EXCEPT ![p] = "head"] \/ pc' = [pc EXCEPT ![p] = "failed"]
        /\ UNCHANGED <<head, top, chain, file, errs, done, lost, mu, highest, height,
                       limit, block, idx, crashes>>
    BY <1>15 DEF Acquire, AcquireFails, Goto, node, disk, ghosts, locals
  <2>2. PoolTyped'
    <3>1. CASE UNCHANGED pool
      BY <1>b, <3>1 DEF PoolTyped, pool
    <3>2. CASE cons # <<>> /\ cons' = Tail(cons) /\ UNCHANGED <<shut, prog>>
      BY <1>b, <3>2, TakenTyped
    <3> QED
      BY <1>15, <3>1, <3>2 DEF Acquire, AcquireFails, Offers, pool
  <2>3. TypeOK' /\ FileShape' /\ NothingSkipped'
    <3>1. pc' \in [Procs -> Labels]
      BY <1>a, <2>1 DEF TypeOK, Labels
    <3>2. TypeOK'
      BY <1>a, <2>1, <2>2, <3>1 DEF TypeOK, PoolTyped
    <3>3. FileShape' /\ NothingSkipped'
      BY <1>a, <2>1 DEF FileShape, NothingSkipped, TxsOf, Seen
    <3> QED
      BY <3>2, <3>3
  <2>4. \A q \in Procs : q # p => pc[q] = "tick"
    BY <2>1, OnlyOne
  <2>5. \A q \in Procs : pc'[q] \in IF q = p THEN {"head", "failed"} ELSE {"tick"}
    BY <1>a, <2>1, <2>4 DEF TypeOK
  <2>6. MutexHeld' /\ RoundInv'
    BY <1>a, <2>1, <2>5 DEF MutexHeld, RoundInv, InLoop, InBlock
  <2> QED
    BY <2>3, <2>6 DEF IInv
<1>16. CASE AcquireNil(p) \/ ReleaseNilCloses(p)
  BY <1>16, EndInv DEF AcquireNil, ReleaseNilCloses, Panic
<1>17. CASE ReleaseNil(p)
  <2>1. PoolTyped'
    BY <1>b, <1>17, PutTyped DEF ReleaseNil
  <2> QED
    BY <1>17, <2>1, ForgetInv DEF ReleaseNil
<1>2. CASE GetHead(p)
  <2>0. /\ highest' = [highest EXCEPT ![p] = head] /\ pc' = [pc EXCEPT ![p] = "read"]
        /\ UNCHANGED <<head, top, chain, file, errs, done, lost, cons, shut, prog, mu,
                       height, limit, block, idx, crashes>>
    BY <1>2 DEF GetHead, Goto, node, disk, ghosts, pool
  <2>1. TypeOK' /\ FileShape' /\ NothingSkipped'
    <3>1. TypeOK'
      BY <1>a, <2>0 DEF TypeOK, Labels
    <3>2. FileShape' /\ NothingSkipped'
      BY <1>a, <2>0 DEF FileShape, NothingSkipped, TxsOf, Seen
    <3> QED
      BY <3>1, <3>2
  <2>2. \A q \in Procs : q # p => pc[q] = "tick"
    BY <1>2, OnlyOne DEF GetHead
  <2>3. \A q \in Procs : pc'[q] = IF q = p THEN "read" ELSE "tick"
    BY <1>a, <1>2, <2>2 DEF GetHead, Goto, TypeOK
  <2>4. highest'[p] <= top'
    BY <1>a, <1>2 DEF GetHead, TypeOK, node
  <2>5. MutexHeld' /\ RoundInv'
    BY <1>a, <1>2, <2>3, <2>4 DEF GetHead, MutexHeld, RoundInv, InLoop, InBlock
  <2> QED
    BY <2>1, <2>5 DEF IInv
<1>3. CASE GetHeadFails(p)
  BY <1>3, ReturnInv DEF GetHeadFails
<1>4. CASE ReadLatest(p)
  <2>1. /\ Latest \in Nat /\ Latest + 1 < Word
        /\ highest[p] \in 0..MaxHeight /\ highest[p] <= top
    BY <1>a, <1>4, LatestType DEF TypeOK, RoundInv, ReadLatest
  <2>2. /\ Plus(Latest, Minus(highest[p], Latest)) = highest[p]
        /\ Minus(highest[p], Latest) = 0 <=> highest[p] = Latest
        /\ Plus(Latest, 1) = Latest + 1
    BY <2>1, LimitIsHighest, NextHeight
  <2>3. CASE highest[p] = Latest
    BY <1>4, <2>2, <2>3, ReturnInv DEF ReadLatest
  <2>4. CASE highest[p] # Latest
    <3>1. /\ pc[p] = "read"
          /\ height' = [height EXCEPT ![p] = Latest + 1]
          /\ limit' = [limit EXCEPT ![p] = highest[p]]
          /\ pc' = [pc EXCEPT ![p] = "loop"]
          /\ UNCHANGED <<head, top, chain, file, errs, done, lost, cons, shut, prog, mu,
                         highest, block, idx, crashes>>
      BY <1>4, <2>2, <2>4 DEF ReadLatest, Goto, node, disk, ghosts, pool
    <3>2. TypeOK' /\ FileShape' /\ NothingSkipped' /\ Latest' = Latest
      <4>1. Latest + 1 \in 0..(Word - 1) /\ highest[p] \in 0..(Word - 1)
        BY <2>1
      <4>2. TypeOK'
        BY <1>a, <3>1, <4>1 DEF TypeOK, Labels
      <4>3. FileShape' /\ NothingSkipped' /\ Latest' = Latest
        BY <1>a, <3>1 DEF FileShape, NothingSkipped, TxsOf, Seen, Latest
      <4> QED
        BY <4>2, <4>3
    <3>3. \A q \in Procs : q # p => pc[q] = "tick"
      BY <3>1, OnlyOne
    <3>4. \A q \in Procs : pc'[q] = IF q = p THEN "loop" ELSE "tick"
      BY <1>a, <3>1, <3>3 DEF TypeOK
    <3>5. height'[p] = Latest + 1 /\ limit'[p] = highest[p]
      BY <1>a, <3>1 DEF TypeOK
    <3>6. MutexHeld'
      BY <1>a, <3>1, <3>4 DEF MutexHeld
    <3>7. RoundInv'
      BY <1>a, <2>1, <3>1, <3>2, <3>4, <3>5 DEF RoundInv, InLoop, InBlock
    <3> QED
      BY <3>2, <3>6, <3>7 DEF IInv
  <2> QED
    BY <2>3, <2>4
<1>5. CASE ReadFails(p)
  BY <1>5, ReturnInv DEF ReadFails
<1>6. CASE LoopEnd(p)
  BY <1>6, ReturnInv DEF LoopEnd
<1>7. CASE Fetch(p)
  <2>1. /\ pc[p] = "loop" /\ height[p] < limit[p] /\ height[p] <= head
        /\ block' = [block EXCEPT ![p] = chain[height[p]]]
        /\ idx' = [idx EXCEPT ![p] = 1]
        /\ pc' = [pc EXCEPT ![p] = "handle"]
        /\ UNCHANGED <<head, top, chain, file, errs, done, lost, cons, shut, prog, mu,
                       highest, height, limit, crashes>>
    BY <1>7 DEF Fetch, Goto, node, disk, ghosts, pool
  <2>2. height[p] = Latest + 1 /\ limit[p] = highest[p] /\ height[p] \in Heights
    BY <1>a, <2>1, WorkingHeight DEF InLoop
  <2>3. TypeOK' /\ FileShape' /\ NothingSkipped' /\ Latest' = Latest
    <3>1. TypeOK'
      BY <1>a, <2>1, <2>2 DEF TypeOK, Labels
    <3>2. FileShape' /\ NothingSkipped' /\ Latest' = Latest
      BY <1>a, <2>1 DEF FileShape, NothingSkipped, TxsOf, Seen, Latest
    <3> QED
      BY <3>1, <3>2
  <2>4. \A q \in Procs : q # p => pc[q] = "tick"
    BY <2>1, OnlyOne
  <2>5. \A q \in Procs : pc'[q] = IF q = p THEN "handle" ELSE "tick"
    BY <1>a, <2>1, <2>4 DEF TypeOK
  <2>6. idx'[p] = 1
    BY <1>a, <2>1 DEF TypeOK
  <2>7. MutexHeld' /\ RoundInv'
    BY <1>a, <2>1, <2>2, <2>3, <2>5, <2>6 DEF MutexHeld, RoundInv, InLoop, InBlock
  <2> QED
    BY <2>3, <2>7 DEF IInv
<1>8. CASE FetchFails(p)
  BY <1>8, ReturnInv DEF FetchFails
<1>9. CASE Handle(p)
  <2>1. pc' = [pc EXCEPT ![p] = "handle"]
    BY <1>a, <1>9 DEF Handle, TypeOK
  <2> QED
    BY <1>9, <2>1, DealtInv DEF Handle, InBlock, Seen, disk
<1>10. CASE HandleErr(p)
  <2>1. TypeOK' /\ FileShape' /\ NothingSkipped' /\ Latest' = Latest
    <3>1. /\ pc' = [pc EXCEPT ![p] = "errtx"]
          /\ UNCHANGED <<head, top, chain, file, errs, done, lost, cons, shut, prog, mu,
                         highest, height, limit, block, idx, crashes>>
      BY <1>10 DEF HandleErr, Goto, node, disk, ghosts, pool, locals
    <3>2. TypeOK'
      BY <1>a, <3>1 DEF TypeOK, Labels
    <3>3. FileShape' /\ NothingSkipped' /\ Latest' = Latest
      BY <1>a, <3>1 DEF FileShape, NothingSkipped, TxsOf, Seen, Latest
    <3> QED
      BY <3>2, <3>3
  <2>2. \A q \in Procs : q # p => pc[q] = "tick"
    BY <1>10, OnlyOne DEF HandleErr
  <2>3. \A q \in Procs : pc'[q] = IF q = p THEN "errtx" ELSE "tick"
    BY <1>a, <1>10, <2>2 DEF HandleErr, Goto, TypeOK
  <2>4. MutexHeld'
    BY <1>a, <1>10, <2>3 DEF HandleErr, MutexHeld
  <2>5. RoundInv'
    BY <1>a, <1>10, <2>1, <2>3
    DEF HandleErr, RoundInv, InLoop, InBlock, MoreTxs, locals, node, ghosts, disk, Seen
  <2> QED
    BY <2>1, <2>4, <2>5 DEF IInv
<1>11. CASE WriteErrorTx(p)
  <2>1. MoreTxs(p) /\ pc' = [pc EXCEPT ![p] = "handle"]
    BY <1>a, <1>11 DEF WriteErrorTx, Goto, RoundInv
  <2> QED
    BY <1>11, <2>1, DealtInv DEF WriteErrorTx, InBlock, Seen, ghosts
<1>12. CASE WriteErrorTxFails(p)
  <2>1. MoreTxs(p) /\ pc' = [pc EXCEPT ![p] = "handle"]
    BY <1>a, <1>12 DEF WriteErrorTxFails, Goto, RoundInv
  <2> QED
    BY <1>12, <2>1, DealtInv DEF WriteErrorTxFails, InBlock, Seen, disk
<1>13. CASE Save(p)
  BY <1>13, SaveInv
<1>14. CASE SaveFails(p)
  BY <1>14, ReturnInv DEF SaveFails
<1> QED
  BY <1>1, <1>2, <1>3, <1>4, <1>5, <1>6, <1>7, <1>8, <1>9, <1>10, <1>11, <1>12, <1>13,
     <1>14, <1>15, <1>16, <1>17 DEF Step

LEMMA NextInv ==
    ASSUME SharedMutex, IInv, [Next]_vars
    PROVE  IInv'
<1> USE ScanAssumption
<1>a. TypeOK /\ FileShape /\ NothingSkipped /\ MutexHeld /\ RoundInv
  BY DEF IInv
<1>1. CASE UNCHANGED vars
  <2>1. TypeOK' /\ FileShape' /\ NothingSkipped' /\ MutexHeld'
    BY <1>a, <1>1 DEF vars, TypeOK, FileShape, NothingSkipped, TxsOf, Seen, MutexHeld
  <2>2. RoundInv'
    BY <1>a, <1>1 DEF vars, RoundInv, InLoop, InBlock, MoreTxs, Latest, Seen
  <2> QED
    BY <2>1, <2>2 DEF IInv
<1>2. ASSUME NEW v \in Versions, Grow(v) PROVE IInv'
  <2>1. /\ head' \in 0..MaxHeight /\ top' \in head'..MaxHeight /\ top' >= top
        /\ chain' \in [Heights -> Versions]
    BY <1>a, <1>2 DEF Grow, TypeOK, Heights
  <2> QED
    BY <1>2, <2>1, NodeInv DEF Grow
<1>3. ASSUME NEW k \in 0..MaxHeight, Rollback(k) PROVE IInv'
  <2>1. /\ head' \in 0..MaxHeight /\ top' \in head'..MaxHeight /\ top' >= top
        /\ chain' \in [Heights -> Versions]
    BY <1>a, <1>3 DEF Rollback, TypeOK
  <2> QED
    BY <1>3, <2>1, NodeInv DEF Rollback
<1>4. ASSUME NEW p \in Procs, Step(p) PROVE IInv'
  BY <1>4, StepInv
<1>5. CASE Others
  <2>1. PoolTyped
    BY <1>a DEF TypeOK, PoolTyped
  <2>2. CASE OthersAcquireNil \/ OthersCloseNil
    BY <2>2, EndInv DEF OthersAcquireNil, OthersCloseNil, Panic
  <2>3. CASE OthersAcquire
    BY <1>a, <2>1, <2>3, TakenTyped, PoolInv DEF OthersAcquire, Offers, TypeOK
  <2>4. CASE OthersRelease
    BY <1>a, <2>1, <2>4, PutTyped, PoolInv DEF OthersRelease, TypeOK
  <2>5. CASE OthersClose
    <3>1. PoolTyped'
      BY <2>1, <2>5 DEF OthersClose, PoolTyped
    <3> QED
      BY <1>a, <2>5, <3>1, PoolInv DEF OthersClose, TypeOK
  <2> QED
    BY <1>5, <2>2, <2>3, <2>4, <2>5 DEF Others
<1>6. CASE Crash
  BY <1>6, EndInv DEF Crash
<1>7. CASE Restart
  <2>1. PoolTyped'
    BY <1>a, <1>7, NewPoolTyped DEF Restart, PoolTyped, TypeOK
  <2>2. crashes' \in 0..MaxCrashes
    BY <1>a, <1>7 DEF Restart, TypeOK
  <2> QED
    BY <1>7, <2>1, <2>2, PoolInv DEF Restart
<1> QED
  BY <1>1, <1>2, <1>3, <1>4, <1>5, <1>6, <1>7 DEF Next

\* What is not a goroutine's own step and leaves what was scanned alone.
LEMMA OutsideScan ==
    ASSUME Others \/ Crash \/ Restart
    PROVE  /\ UNCHANGED <<node, disk, ghosts>>
           /\ \/ UNCHANGED <<pc, block, height>>
              \/ \A q \in Procs : pc'[q] = "tick"
  BY DEF Others, OthersAcquire, OthersAcquireNil, OthersRelease, OthersClose,
     OthersCloseNil, Crash, Restart, Panic, End, locals

\* A round goes on from a block only by recording it.
LEMMA NextRecords ==
    ASSUME IInv, [Next]_vars, NEW p \in Procs, pc[p] = "handle", pc'[p] = "loop"
    PROVE  file'.val = height[p]
<1>1. pc \in [Procs -> Labels]
  BY DEF IInv, TypeOK
<1>2. PICK q \in Procs : Step(q)
  BY OutsideScan DEF Next, vars, Grow, Rollback
<1>3. Save(p)
  BY <1>1, <1>2 DEF Step, Lock, Acquire, AcquireNil, AcquireFails, ReleaseNil,
     ReleaseNilCloses, GetHead, GetHeadFails, ReadLatest, ReadFails, LoopEnd, Fetch,
     FetchFails, Handle, HandleErr, WriteErrorTx, WriteErrorTxFails, Save, SaveFails,
     Return, Forget, Panic, End, Goto
<1> QED
  BY <1>3, SaveRecords

\* Every reachable state is well typed, what a round records is what the progress
\* file reads afterwards, no block is passed over, and what is delivered is the block
\* after the recorded one, which has a successor, as long as all rounds share a
\* mutex.
THEOREM ScanCorrect ==
    SharedMutex =>
        (Spec => [](TypeOK /\ NothingSkipped /\ OnlyNextBlock) /\ FileExact)
<1> SUFFICES ASSUME SharedMutex
             PROVE  Spec => [](TypeOK /\ NothingSkipped /\ OnlyNextBlock) /\ FileExact
  OBVIOUS
<1>1. IInv /\ [Next]_vars => IInv'
  BY NextInv
<1>2. IInv => TypeOK /\ NothingSkipped /\ OnlyNextBlock
  <2> SUFFICES ASSUME IInv, NEW p \in Procs, pc[p] \in {"handle", "errtx"}
               PROVE  height[p] = Latest + 1 /\ height[p] < top
    BY DEF IInv, OnlyNextBlock
  <2>1. /\ height[p] = Latest + 1 /\ limit[p] = highest[p]
        /\ height[p] < limit[p] /\ highest[p] <= top
    BY DEF IInv, RoundInv, InLoop, InBlock
  <2>2. /\ highest[p] \in Nat /\ limit[p] \in Nat /\ height[p] \in Nat
        /\ top \in Nat
    <3>1. highest[p] \in 0..MaxHeight /\ limit[p] \in 0..(Word - 1)
      BY DEF IInv, TypeOK
    <3>2. height[p] \in 0..(Word - 1) /\ head \in 0..MaxHeight
      BY DEF IInv, TypeOK
    <3>3. top \in head..MaxHeight
      BY DEF IInv, TypeOK
    <3> QED
      BY <3>1, <3>2, <3>3
  <2> QED
    BY <2>1, <2>2
<1>3. IInv /\ [Next]_vars =>
        [\A p \in Procs :
            pc[p] = "handle" /\ pc'[p] = "loop" => file'.val = height[p]]_vars
  BY NextRecords
<1> QED
  BY <1>1, <1>2, <1>3, InitInv, PTL DEF Spec, FileExact

\* Every variable of the rounds, the file and the node keeps its type.
THEOREM ScanTyped == SharedMutex => (Spec => []TypeOK)
<1> SUFFICES ASSUME SharedMutex PROVE Spec => []TypeOK
  OBVIOUS
<1>1. Spec => [](TypeOK /\ NothingSkipped /\ OnlyNextBlock)
  BY ScanCorrect
<1> QED
  BY <1>1, PTL

\* What a round records is what latestNumber.info reads afterwards: the file is written
\* over from its start and never cut, and the number before was not longer.
THEOREM FileStaysExact == SharedMutex => (Spec => FileExact)
<1> SUFFICES ASSUME SharedMutex PROVE Spec => FileExact
  OBVIOUS
<1> QED
  BY ScanCorrect

\* A round hands over only the transactions of the block after the recorded one.
THEOREM NextBlockOnly == SharedMutex => (Spec => []OnlyNextBlock)
<1> SUFFICES ASSUME SharedMutex PROVE Spec => []OnlyNextBlock
  OBVIOUS
<1>1. Spec => [](TypeOK /\ NothingSkipped /\ OnlyNextBlock)
  BY ScanCorrect
<1> QED
  BY <1>1, PTL

-----------------------------------------------------------------------------
(* The scanner implements the feed *)

\* Dealing with the current transaction is a delivery of the feed.
LEMMA DealtDelivers ==
    ASSUME IInv, NEW p \in Procs, InBlock(p), MoreTxs(p),
           Seen' = Seen \cup {CurrentTx(p)}, UNCHANGED file
    PROVE  Feed!Deliver
<1> USE ScanAssumption
<1>1. TypeOK /\ RoundInv
  BY DEF IInv
<1>2. /\ height[p] = Latest + 1 /\ idx[p] >= 1
      /\ idx[p] \in Nat /\ block[p] \in Versions
  BY <1>1 DEF RoundInv, InLoop, InBlock, TypeOK
<1>3. idx[p] \in 1..TxCount[block[p]]
  BY <1>2 DEF MoreTxs
<1>4. CurrentTx(p) \in TxsOf(Latest + 1, block[p])
  BY <1>2, <1>3 DEF CurrentTx, TxsOf
<1>5. Latest' = Latest
  BY DEF Latest, FirstArg
<1> QED
  BY <1>2, <1>4, <1>5 DEF Feed!Deliver

\* Recording a block moves the feed on.
LEMMA SaveAdvances ==
    ASSUME IInv, NEW p \in Procs, Save(p)
    PROVE  Feed!Advance
<1>1. /\ Latest' = Latest + 1 /\ block[p] \in Versions
      /\ TxsOf(Latest + 1, block[p]) \subseteq Seen
  BY SaveRecords
<1>2. Seen' = Seen
  BY DEF Save, Seen, ghosts
<1> QED
  BY <1>1, <1>2 DEF Feed!Advance

LEMMA NextRefines ==
    ASSUME IInv, [Next]_vars
    PROVE  [Feed!Next]_<<Latest, Seen>>
<1> USE DEF Feed!Next
<1>1. ASSUME UNCHANGED <<disk, ghosts>> PROVE UNCHANGED <<Latest, Seen>>
  BY <1>1 DEF disk, ghosts, Latest, FirstArg, Seen
<1>2. CASE UNCHANGED vars
  BY <1>1, <1>2 DEF vars, disk, ghosts
<1>3. ASSUME NEW v \in Versions, Grow(v) PROVE UNCHANGED <<Latest, Seen>>
  BY <1>1, <1>3 DEF Grow
<1>4. ASSUME NEW k \in 0..MaxHeight, Rollback(k) PROVE UNCHANGED <<Latest, Seen>>
  BY <1>1, <1>4 DEF Rollback
<1>5. CASE Others \/ Crash \/ Restart
  BY <1>1, <1>5, OutsideScan
<1>6. ASSUME NEW p \in Procs, Step(p) PROVE [Feed!Next]_<<Latest, Seen>>
  <2>1. CASE Handle(p)
    BY <1>6, <2>1, DealtDelivers DEF Handle, InBlock, Seen, disk
  <2>2. CASE WriteErrorTx(p)
    <3>1. MoreTxs(p)
      BY <1>6, <2>2 DEF IInv, RoundInv, WriteErrorTx
    <3> QED
      BY <1>6, <2>2, <3>1, DealtDelivers DEF WriteErrorTx, InBlock, Seen, ghosts
  <2>3. CASE WriteErrorTxFails(p)
    <3>1. MoreTxs(p)
      BY <1>6, <2>3 DEF IInv, RoundInv, WriteErrorTxFails
    <3> QED
      BY <1>6, <2>3, <3>1, DealtDelivers DEF WriteErrorTxFails, InBlock, Seen, disk
  <2>4. CASE Save(p)
    BY <1>6, <2>4, SaveAdvances
  <2>6. CASE \/ Lock(p) \/ Acquire(p) \/ AcquireNil(p) \/ AcquireFails(p)
             \/ ReleaseNil(p) \/ ReleaseNilCloses(p)
    BY <1>1, <2>6 DEF Lock, Acquire, AcquireNil, AcquireFails, ReleaseNil,
       ReleaseNilCloses, Panic, End
  <2>5. CASE \/ GetHead(p) \/ GetHeadFails(p) \/ ReadLatest(p) \/ ReadFails(p)
             \/ LoopEnd(p) \/ Fetch(p) \/ FetchFails(p) \/ HandleErr(p) \/ SaveFails(p)
    BY <1>1, <2>5 DEF GetHead, GetHeadFails, ReadLatest, ReadFails, LoopEnd, Fetch,
       FetchFails, HandleErr, SaveFails
  <2> QED
    BY <1>6, <2>1, <2>2, <2>3, <2>4, <2>5, <2>6 DEF Step
<1> QED
  BY <1>2, <1>3, <1>4, <1>5, <1>6 DEF Next

\* Rounds that share a mutex are an implementation of the feed, whatever fails
\* and however often the program is restarted.
THEOREM FeedImplemented == SharedMutex => (Spec => ImplementsFeed)
<1> SUFFICES ASSUME SharedMutex PROVE Spec => ImplementsFeed
  OBVIOUS
<1>1. Init => Feed!Init
  BY FirstArgType DEF Init, Feed!Init, Latest, Seen
<1>2. IInv /\ [Next]_vars => IInv'
  BY NextInv
<1>3. IInv /\ [Next]_vars => [Feed!Next]_<<Latest, Seen>>
  BY NextRefines
<1>4. Feed!vars = <<Latest, Seen>>
  BY DEF Feed!vars
<1> QED
  BY <1>1, <1>2, <1>3, <1>4, InitInv, PTL DEF Spec, ImplementsFeed, Feed!Spec, Feed!vars

-----------------------------------------------------------------------------
(* What the callback saw stays on the chain *)

\* If at most one block is taken back, the blocks below the highest head are
\* settled, and that is where a round works.
Settled ==
    /\ head + 1 >= top
    /\ \A p \in Procs : InBlock(p) => block[p] = chain[height[p]]
    /\ Confirmed

\* A step that changes neither the node nor what was seen, and enters no block.
LEMMA QuietSettled ==
    ASSUME Settled, UNCHANGED <<node, Seen>>,
           \A q \in Procs : InBlock(q)' =>
               InBlock(q) /\ block'[q] = block[q] /\ height'[q] = height[q]
    PROVE  Settled'
  BY DEF Settled, node, Confirmed

LEMMA DealtSettled ==
    ASSUME IInv, Settled, NEW p \in Procs, InBlock(p), pc'[p] = "handle",
           \A q \in Procs : q # p => pc'[q] = pc[q],
           Seen' = Seen \cup {CurrentTx(p)}, UNCHANGED <<node, block, height>>
    PROVE  Settled'
<1>1. height[p] < top /\ block[p] = chain[height[p]]
  <2>1. TypeOK /\ RoundInv
    BY DEF IInv
  <2>2. InLoop(p) /\ height[p] < limit[p]
    BY <2>1 DEF RoundInv, InLoop, InBlock
  <2> QED
    BY <2>1, <2>2, WorkingHeight DEF Settled
<1>2. Confirmed'
  BY <1>1 DEF Settled, Confirmed, CurrentTx, Tx, node
<1>3. \A q \in Procs : InBlock(q)' => InBlock(q)
  BY DEF InBlock
<1> QED
  BY <1>2, <1>3 DEF Settled, node

LEMMA StepSettled ==
    ASSUME IInv, SharedMutex, Settled, NEW p \in Procs, Step(p)
    PROVE  Settled'
<1>a. pc \in [Procs -> Labels] /\ block \in [Procs -> Versions]
  BY DEF IInv, TypeOK
<1>b. height \in [Procs -> 0..(Word - 1)]
  BY DEF IInv, TypeOK
<1>1. CASE Lock(p) \/ Acquire(p) \/ AcquireFails(p) \/ GetHead(p)
  BY <1>a, <1>1, QuietSettled
  DEF Lock, Acquire, AcquireFails, GetHead, Goto, InBlock, ghosts, disk, locals, Seen
<1>11. CASE AcquireNil(p) \/ ReleaseNilCloses(p)
  BY <1>11, QuietSettled
  DEF AcquireNil, ReleaseNilCloses, Panic, End, InBlock, ghosts, disk, Seen
<1>2. ASSUME Forget(p), UNCHANGED <<node, disk, ghosts>> PROVE Settled'
  <2>1. \A q \in Procs : InBlock(q)' =>
            InBlock(q) /\ block'[q] = block[q] /\ height'[q] = height[q]
    BY <1>a, <1>b, <1>2 DEF Forget, Goto, InBlock
  <2> QED
    BY <1>2, <2>1, QuietSettled DEF ghosts, disk, Seen
<1>3. CASE \/ ReleaseNil(p) \/ GetHeadFails(p) \/ ReadFails(p) \/ LoopEnd(p)
           \/ FetchFails(p) \/ SaveFails(p)
  BY <1>2, <1>3 DEF Return, ReleaseNil, GetHeadFails, ReadFails, LoopEnd, FetchFails, SaveFails
<1>4. CASE ReadLatest(p)
  <2>1. CASE Minus(highest[p], Latest) = 0
    BY <1>2, <1>4, <2>1 DEF ReadLatest, Return
  <2>2. CASE Minus(highest[p], Latest) # 0
    <3>1. \A q \in Procs : InBlock(q)' =>
              InBlock(q) /\ block'[q] = block[q] /\ height'[q] = height[q]
      BY <1>a, <1>b, <1>4, <2>2 DEF ReadLatest, Goto, InBlock
    <3> QED
      BY <1>4, <3>1, QuietSettled DEF ReadLatest, ghosts, disk, Seen
  <2> QED
    BY <2>1, <2>2
<1>5. CASE Fetch(p)
  <2>1. /\ pc' = [pc EXCEPT ![p] = "handle"]
        /\ block' = [block EXCEPT ![p] = chain[height[p]]]
        /\ UNCHANGED <<head, top, chain, errs, done, lost, height>>
    BY <1>5 DEF Fetch, Goto, node, disk, ghosts
  <2>2. \A q \in Procs : InBlock(q)' => block'[q] = chain[height[q]]
    BY <1>a, <2>1 DEF InBlock, Settled
  <2> QED
    BY <2>1, <2>2 DEF Settled, Confirmed, Seen
<1>6. CASE HandleErr(p)
  BY <1>a, <1>6, QuietSettled DEF HandleErr, Goto, InBlock, locals, ghosts, disk, Seen
<1>7. CASE Handle(p)
  BY <1>7, DealtSettled DEF Handle, InBlock, Seen, disk
<1>8. CASE WriteErrorTx(p)
  BY <1>a, <1>8, DealtSettled DEF WriteErrorTx, Goto, InBlock, Seen, ghosts
<1>9. CASE WriteErrorTxFails(p)
  BY <1>a, <1>9, DealtSettled DEF WriteErrorTxFails, Goto, InBlock, Seen, disk
<1>10. CASE Save(p)
  <2>1. \A q \in Procs : InBlock(q)' =>
            InBlock(q) /\ block'[q] = block[q] /\ height'[q] = height[q]
    BY <1>a, <1>b, <1>10 DEF Save, Goto, InBlock
  <2> QED
    BY <1>10, <2>1, QuietSettled DEF Save, ghosts, Seen
<1> QED
  BY <1>1, <1>3, <1>4, <1>5, <1>6, <1>7, <1>8, <1>9, <1>10, <1>11 DEF Step

LEMMA NextSettled ==
    ASSUME ForkDepth <= 1, IInv, SharedMutex, Settled, [Next]_vars
    PROVE  Settled'
<1> USE ScanAssumption
<1>a. /\ head \in 0..MaxHeight /\ top \in head..MaxHeight
      /\ chain \in [Heights -> Versions] /\ head + 1 >= top
      /\ \A t \in Seen : t.height \in Heights
  BY DEF IInv, TypeOK, Settled, Seen, TxSpace, Heights
<1>1. CASE UNCHANGED vars
  BY <1>1, QuietSettled DEF vars, node, Seen, InBlock
<1>2. ASSUME NEW v \in Versions, Grow(v) PROVE Settled'
  <2>1. /\ head' = head + 1 /\ chain' = [chain EXCEPT ![head + 1] = v]
        /\ top' = IF head + 1 > top THEN head + 1 ELSE top
        /\ UNCHANGED <<done, errs, lost, pc, block, height>>
    BY <1>2 DEF Grow, disk, ghosts, locals
  <2>2. head' + 1 >= top' /\ top' >= top
    BY <1>a, <2>1
  <2>3. \A h \in Heights : h < top => h < top' /\ chain'[h] = chain[h]
    BY <1>a, <2>1, <2>2 DEF Heights
  <2>4. \A p \in Procs : InBlock(p) => height[p] \in Heights /\ height[p] < top
    BY WorkingHeight DEF IInv, RoundInv, InLoop, InBlock, TypeOK
  <2>5. Confirmed'
    BY <1>a, <2>1, <2>3 DEF Settled, Confirmed, Seen
  <2>6. \A p \in Procs : InBlock(p)' => block'[p] = chain'[height'[p]]
    BY <2>1, <2>3, <2>4 DEF Settled, InBlock
  <2> QED
    BY <2>2, <2>5, <2>6 DEF Settled
<1>3. ASSUME NEW k \in 0..MaxHeight, Rollback(k) PROVE Settled'
  <2>1. /\ head' = k /\ k + ForkDepth >= top
        /\ UNCHANGED <<top, chain, done, errs, lost, pc, block, height>>
    BY <1>3 DEF Rollback, disk, ghosts, locals
  <2>2. head' + 1 >= top'
    BY <1>a, <2>1
  <2> QED
    BY <2>1, <2>2 DEF Settled, Confirmed, Seen, InBlock
<1>4. ASSUME NEW p \in Procs, Step(p) PROVE Settled'
  BY <1>4, StepSettled
<1>5. CASE Others \/ Crash \/ Restart
  BY <1>5, OutsideScan, QuietSettled DEF disk, ghosts, Seen, InBlock
<1> QED
  BY <1>1, <1>2, <1>3, <1>4, <1>5 DEF Next

\* If the node takes back at most its latest block, no transaction the callback
\* saw is ever replaced: a round leaves the head to the next one.
THEOREM ConfirmedCorrect == SharedMutex /\ ForkDepth <= 1 => (Spec => []Confirmed)
<1> SUFFICES ASSUME SharedMutex, ForkDepth <= 1 PROVE Spec => []Confirmed
  OBVIOUS
<1>1. Init => Settled
  BY DEF Init, Settled, Confirmed, Seen, InBlock
<1>2. IInv /\ [Next]_vars => IInv'
  BY NextInv
<1>3. IInv /\ Settled /\ [Next]_vars => Settled'
  BY NextSettled
<1>4. Settled => Confirmed
  BY DEF Settled
<1> QED
  BY <1>1, <1>2, <1>3, <1>4, InitInv, PTL DEF Spec

=============================================================================
