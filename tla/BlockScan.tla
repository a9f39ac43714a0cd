------------------------------ MODULE BlockScan ------------------------------
(***************************************************************************)
(* The block scanner of blx/fbclient.go: StartScan and ExecuteBlocks, with *)
(* the progress file latestNumber.info and the log of failed transactions  *)
(* errtx.info.                                                             *)
(*                                                                         *)
(* A round of ExecuteBlocks asks the node for its head, reads the recorded *)
(* progress, hands every transaction of every later block but the last to  *)
(* a callback and records each block when it is through.  It takes its     *)
(* client from the pool and gives back what it got, a nil after a failed   *)
(* Acquire included.  The program may stop at any point, by a kill or by a *)
(* panic, and may be started again with what the files hold.               *)
(***************************************************************************)
EXTENDS Naturals, Sequences

CONSTANTS
    Procs,          \* goroutines that run rounds
    Mutexes,        \* the mutexes those rounds are given
    MutexOf,        \* which one each goroutine uses
    FromStartScan,  \* rounds come from StartScan, or from direct callers
    StartNumber,    \* the start number the user asks for
    MaxHeight,      \* how far the chain grows: bounds the model
    Versions,       \* the blocks that can be mined at one height
    TxCount,        \* how many transactions each of them has
    ForkDepth,      \* how many of its latest blocks the node may take back
    Word,           \* 2^64 in the code
    Radix,          \* 10 in the code
    Digits(_),      \* the number of digits of a number
    RpcFails, HandleFails, FileFails,  \* which failures can happen
    PoolSize,       \* the capacity of the pool's channel
    PoolUsers,      \* whether other goroutines use and close the same pool
    MaxCrashes,     \* how often the program is restarted: bounds the model
    NoOne           \* the holder of a free mutex

ASSUME ScanAssumption ==
    /\ MutexOf \in [Procs -> Mutexes]
    /\ FromStartScan \in BOOLEAN
    /\ StartNumber \in Nat \ {0}
    /\ MaxHeight \in Nat
    /\ Word \in Nat /\ MaxHeight + StartNumber + 1 < Word
    /\ TxCount \in [Versions -> Nat]
    /\ Versions # {}
    /\ ForkDepth \in Nat
    /\ Radix \in Nat \ {0}
    /\ RpcFails \in BOOLEAN /\ HandleFails \in BOOLEAN /\ FileFails \in BOOLEAN
    /\ PoolSize \in Nat \ {0} /\ PoolUsers \in BOOLEAN
    /\ MaxCrashes \in Nat
    /\ NoOne \notin Procs

\* A longer number has at least as many digits.
ASSUME DigitsAssumption ==
    \A n \in 0..MaxHeight :
        /\ Digits(n) \in Nat \ {0}
        /\ \A m \in 0..n : Digits(m) <= Digits(n)

VARIABLES
    head,     \* the number of the node's latest block
    top,      \* the highest head so far
    chain,    \* which block the node has (or had last) at each height
    file,     \* latestNumber.info: how many digits and which number
    done,     \* transactions whose callback succeeded
    errs,     \* transactions in errtx.info
    lost,     \* transactions whose callback failed and that could not be logged
    cons,     \* the pool's channel: clients, and nils of failed rounds
    shut,     \* the pool is closed
    prog,     \* the program is up, was killed or has panicked
    mu,       \* the holder of each mutex
    pc, highest, height, limit, block, idx,  \* each round's position and locals
    crashes   \* restarts so far

node == <<head, top, chain>>
disk == <<file, errs>>
ghosts == <<done, lost>>
pool == <<cons, shut, prog>>
locals == <<highest, height, limit, block, idx>>
vars == <<head, top, chain, file, done, errs, lost, cons, shut, prog, mu, pc,
          highest, height, limit, block, idx, crashes>>

Heights == 1..MaxHeight

\* What stands for no block yet.
NoVersion == CHOOSE v \in Versions : TRUE

Tx(h, v, i) == [height |-> h, version |-> v, index |-> i]
TxsOf(h, v) == {Tx(h, v, i) : i \in 1..TxCount[v]}

\* Transactions the scanner has dealt with, one way or the other.
Seen == done \cup errs \cup lost

\* The channels that NewJk may leave: a dial that fails leaves its place empty.
NewPools ==
    {[i \in 1..n |-> "client"] : n \in {k \in 0..PoolSize : RpcFails \/ k = PoolSize}}

Init ==
    /\ head = 0
    /\ top = 0
    /\ chain = [h \in Heights |-> NoVersion]
    /\ file = [len |-> 0, val |-> 0]
    /\ done = {}
    /\ errs = {}
    /\ lost = {}
    /\ cons \in NewPools
    /\ shut = FALSE
    /\ prog = "up"
    /\ mu = [m \in Mutexes |-> NoOne]
    /\ pc = [p \in Procs |-> "tick"]
    /\ highest = [p \in Procs |-> 0]
    /\ height = [p \in Procs |-> 0]
    /\ limit = [p \in Procs |-> 0]
    /\ block = [p \in Procs |-> NoVersion]
    /\ idx = [p \in Procs |-> 0]
    /\ crashes = 0

-----------------------------------------------------------------------------
(* The node *)

\* A block is mined; after a rollback it may be another one than before.
Grow(v) ==
    /\ head < MaxHeight
    /\ head' = head + 1
    /\ top' = IF head + 1 > top THEN head + 1 ELSE top
    /\ chain' = [chain EXCEPT ![head + 1] = v]
    /\ UNCHANGED <<disk, ghosts, pool, mu, pc, locals, crashes>>

\* The node takes back its latest blocks.
Rollback(k) ==
    /\ k < head
    /\ k + ForkDepth >= top
    /\ head' = k
    /\ UNCHANGED <<top, chain, disk, ghosts, pool, mu, pc, locals, crashes>>

-----------------------------------------------------------------------------
(* One round of ExecuteBlocks *)

Goto(p, label) == pc' = [pc EXCEPT ![p] = label]

\* The locals of a round are gone.
Forget(p) ==
    /\ Goto(p, "tick")
    /\ highest' = [highest EXCEPT ![p] = 0]
    /\ height' = [height EXCEPT ![p] = 0]
    /\ limit' = [limit EXCEPT ![p] = 0]
    /\ block' = [block EXCEPT ![p] = NoVersion]
    /\ idx' = [idx EXCEPT ![p] = 0]

\* The deferred Unlock runs.
Unlock(p) == mu' = [mu EXCEPT ![MutexOf[p]] = NoOne]

\* Release puts what it is given into the channel if the pool is open and the
\* channel has room; otherwise it closes it, which is a panic if it is nil.
Room == ~shut /\ Len(cons) < PoolSize

\* Mutant: ExecuteBlocks returns without unlocking.
ReturnLocked(p) ==
    /\ Forget(p)
    /\ cons' = IF Room THEN Append(cons, "client") ELSE cons
    /\ UNCHANGED <<mu, shut, prog>>

\* ExecuteBlocks returns: the deferred Release and Unlock run.
Return(p) ==
    /\ Forget(p)
    /\ cons' = IF Room THEN Append(cons, "client") ELSE cons
    /\ Unlock(p)
    /\ UNCHANGED <<shut, prog>>

\* The program ends: its pool, its mutexes and its rounds are gone, and the files
\* stay.
End(how) ==
    /\ prog' = how
    /\ cons' = <<>>
    /\ shut' = FALSE
    /\ mu' = [m \in Mutexes |-> NoOne]
    /\ pc' = [p \in Procs |-> "tick"]
    /\ highest' = [p \in Procs |-> 0]
    /\ height' = [p \in Procs |-> 0]
    /\ limit' = [p \in Procs |-> 0]
    /\ block' = [p \in Procs |-> NoVersion]
    /\ idx' = [p \in Procs |-> 0]
    /\ UNCHANGED <<node, disk, ghosts, crashes>>

\* Nobody recovers a panic of a round or of a call.
Panic == End("panicked")

\* Mutant: rounds are not serialised.
LockNothing(p) ==
    /\ prog = "up"
    /\ pc[p] = "tick"
    /\ Goto(p, "acquire")
    /\ UNCHANGED <<node, disk, ghosts, pool, mu, locals, crashes>>

\* The timer of StartScan fires and mutex.Lock() succeeds.
Lock(p) ==
    /\ prog = "up"
    /\ pc[p] = "tick"
    /\ mu[MutexOf[p]] = NoOne
    /\ mu' = [mu EXCEPT ![MutexOf[p]] = p]
    /\ Goto(p, "acquire")
    /\ UNCHANGED <<node, disk, ghosts, pool, locals, crashes>>

\* The next of the channel is what.
Offers(what) == cons # <<>> /\ Head(cons) = what

\* Acquire takes a client from the channel, or dials because it is empty.
Acquire(p) ==
    /\ pc[p] = "acquire"
    /\ \/ cons = <<>> /\ ~shut /\ UNCHANGED cons
       \/ Offers("client") /\ cons' = Tail(cons)
    /\ Goto(p, "head")
    /\ UNCHANGED <<node, disk, ghosts, shut, prog, mu, locals, crashes>>

\* Acquire takes a nil, without an error, and BlockNumber panics on it.
AcquireNil(p) ==
    /\ pc[p] = "acquire"
    /\ Offers("nil")
    /\ Panic

\* Acquire returns an error: the dial fails, or the pool is closed.
AcquireFails(p) ==
    /\ pc[p] = "acquire"
    /\ cons = <<>>
    /\ shut \/ RpcFails
    /\ Goto(p, "failed")
    /\ UNCHANGED <<node, disk, ghosts, pool, mu, locals, crashes>>

\* The round returns Acquire's error, and its deferred Release, set before the
\* error was looked at, puts nil into the channel.
ReleaseNil(p) ==
    /\ pc[p] = "failed"
    /\ Room
    /\ cons' = Append(cons, "nil")
    /\ Forget(p)
    /\ Unlock(p)
    /\ UNCHANGED <<node, disk, ghosts, shut, prog, crashes>>

\* It closes nil instead, which panics.
ReleaseNilCloses(p) ==
    /\ pc[p] = "failed"
    /\ ~Room
    /\ Panic

\* BlockNumber
GetHead(p) ==
    /\ pc[p] = "head"
    /\ highest' = [highest EXCEPT ![p] = head]
    /\ Goto(p, "read")
    /\ UNCHANGED <<node, disk, ghosts, pool, mu, height, limit, block, idx, crashes>>

GetHeadFails(p) ==
    /\ RpcFails
    /\ pc[p] = "head"
    /\ Return(p)
    /\ UNCHANGED <<node, disk, ghosts, crashes>>

\* The startNumber that ExecuteBlocks gets.  StartScan passes its variable
\* latestNumber, which is 0, there, and the user's start number as latestNumber,
\* which ExecuteBlocks overwrites.
FirstArg == IF FromStartScan THEN 0 ELSE StartNumber

\* readLatestNumber (an empty or missing file reads as 0), then the maximum
\* with startNumber.
Latest == IF FirstArg > file.val THEN FirstArg ELSE file.val

\* uint64 arithmetic.
Minus(a, b) == IF a >= b THEN a - b ELSE a + Word - b
Plus(a, b) == IF a + b >= Word THEN a + b - Word ELSE a + b

\* Mutant: the loop includes latest + difference.
ReadLatestToHead(p) ==
    /\ pc[p] = "read"
    /\ LET diff == Minus(highest[p], Latest)
       IN  IF diff = 0
           THEN Return(p)
           ELSE /\ height' = [height EXCEPT ![p] = Plus(Latest, 1)]
                /\ limit' = [limit EXCEPT ![p] = Plus(Latest, diff + 1)]
                /\ Goto(p, "loop")
                /\ UNCHANGED <<pool, mu, highest, block, idx>>
    /\ UNCHANGED <<node, disk, ghosts, crashes>>

\* A difference of 0 ends the round, any other one starts the loop; the loop
\* ends before latest + difference.
ReadLatest(p) ==
    /\ pc[p] = "read"
    /\ LET diff == Minus(highest[p], Latest)
       IN  IF diff = 0
           THEN Return(p)
           ELSE /\ height' = [height EXCEPT ![p] = Plus(Latest, 1)]
                /\ limit' = [limit EXCEPT ![p] = Plus(Latest, diff)]
                /\ Goto(p, "loop")
                /\ UNCHANGED <<pool, mu, highest, block, idx>>
    /\ UNCHANGED <<node, disk, ghosts, crashes>>

\* readLatestNumber cannot read the file and returns highestNumber: with the
\* maximum with startNumber, the difference is 0 or has wrapped and the loop has
\* no iteration.
ReadFails(p) ==
    /\ FileFails
    /\ pc[p] = "read"
    /\ Return(p)
    /\ UNCHANGED <<node, disk, ghosts, crashes>>

LoopEnd(p) ==
    /\ pc[p] = "loop"
    /\ height[p] >= limit[p]
    /\ Return(p)
    /\ UNCHANGED <<node, disk, ghosts, crashes>>

\* BlockByNumber
Fetch(p) ==
    /\ pc[p] = "loop"
    /\ height[p] < limit[p]
    /\ height[p] <= head
    /\ block' = [block EXCEPT ![p] = chain[height[p]]]
    /\ idx' = [idx EXCEPT ![p] = 1]
    /\ Goto(p, "handle")
    /\ UNCHANGED <<node, disk, ghosts, pool, mu, highest, height, limit, crashes>>

\* BlockByNumber fails, or the node no longer has the block.
FetchFails(p) ==
    /\ pc[p] = "loop"
    /\ height[p] < limit[p]
    /\ RpcFails \/ height[p] > head
    /\ Return(p)
    /\ UNCHANGED <<node, disk, ghosts, crashes>>

CurrentTx(p) == Tx(height[p], block[p], idx[p])

MoreTxs(p) == idx[p] <= TxCount[block[p]]

\* handle(tx, block) returns nil.
Handle(p) ==
    /\ pc[p] = "handle"
    /\ MoreTxs(p)
    /\ done' = done \cup {CurrentTx(p)}
    /\ idx' = [idx EXCEPT ![p] = @ + 1]
    /\ UNCHANGED <<node, disk, lost, pool, mu, pc, highest, height, limit, block, crashes>>

\* Mutant: a transaction whose callback fails is passed over.
HandleErrSkips(p) ==
    /\ HandleFails
    /\ pc[p] = "handle"
    /\ MoreTxs(p)
    /\ idx' = [idx EXCEPT ![p] = @ + 1]
    /\ UNCHANGED <<node, disk, ghosts, pool, mu, pc, highest, height, limit, block, crashes>>

\* handle(tx, block) returns an error.
HandleErr(p) ==
    /\ HandleFails
    /\ pc[p] = "handle"
    /\ MoreTxs(p)
    /\ Goto(p, "errtx")
    /\ UNCHANGED <<node, disk, ghosts, pool, mu, locals, crashes>>

\* writeErrorTx appends a line to errtx.info.
WriteErrorTx(p) ==
    /\ pc[p] = "errtx"
    /\ errs' = errs \cup {CurrentTx(p)}
    /\ idx' = [idx EXCEPT ![p] = @ + 1]
    /\ Goto(p, "handle")
    /\ UNCHANGED <<node, file, ghosts, pool, mu, highest, height, limit, block, crashes>>

\* writeErrorTx fails (file, or a transaction type its signer does not know):
\* the error is logged and the loop goes on.
WriteErrorTxFails(p) ==
    /\ FileFails
    /\ pc[p] = "errtx"
    /\ lost' = lost \cup {CurrentTx(p)}
    /\ idx' = [idx EXCEPT ![p] = @ + 1]
    /\ Goto(p, "handle")
    /\ UNCHANGED <<node, disk, done, pool, mu, highest, height, limit, block, crashes>>

\* Mutant: the number is appended to the file.
OverwriteAppends(f, n) ==
    [len |-> f.len + Digits(n), val |-> f.val * Radix ^ Digits(n) + n]

\* A file that holds f after n is written at its start: the file is opened
\* without O_TRUNC, so the digits that n does not reach stay.
Overwrite(f, n) ==
    LET rest == Radix ^ (f.len - Digits(n))
    IN  IF Digits(n) >= f.len
        THEN [len |-> Digits(n), val |-> n]
        ELSE [len |-> f.len, val |-> n * rest + (f.val % rest)]

\* Mutant: the number of the round's last block is recorded with its first.
SaveRound(p) ==
    /\ pc[p] = "handle"
    /\ ~MoreTxs(p)
    /\ file' = Overwrite(file, limit[p] - 1)
    /\ height' = [height EXCEPT ![p] = @ + 1]
    /\ Goto(p, "loop")
    /\ UNCHANGED <<node, errs, ghosts, pool, mu, highest, limit, block, idx, crashes>>

\* All transactions are through: writeLatestNumber(height), next height.
Save(p) ==
    /\ pc[p] = "handle"
    /\ ~MoreTxs(p)
    /\ file' = Overwrite(file, height[p])
    /\ height' = [height EXCEPT ![p] = @ + 1]
    /\ Goto(p, "loop")
    /\ UNCHANGED <<node, errs, ghosts, pool, mu, highest, limit, block, idx, crashes>>

\* Mutant: the round goes on when a block could not be recorded.
SaveFailsGoesOn(p) ==
    /\ FileFails
    /\ pc[p] = "handle"
    /\ ~MoreTxs(p)
    /\ height' = [height EXCEPT ![p] = @ + 1]
    /\ Goto(p, "loop")
    /\ UNCHANGED <<node, disk, ghosts, pool, mu, highest, limit, block, idx, crashes>>

\* writeLatestNumber fails: ExecuteBlocks returns its error.
SaveFails(p) ==
    /\ FileFails
    /\ pc[p] = "handle"
    /\ ~MoreTxs(p)
    /\ Return(p)
    /\ UNCHANGED <<node, disk, ghosts, crashes>>

-----------------------------------------------------------------------------
(* The program *)

\* The program is killed, or a callback panics.
Crash ==
    /\ prog = "up"
    /\ End("killed")

\* Somebody starts the program again: the files stay, everything else is new.
Restart ==
    /\ prog # "up"
    /\ crashes < MaxCrashes
    /\ crashes' = crashes + 1
    /\ prog' = "up"
    /\ cons' \in NewPools
    /\ UNCHANGED <<node, disk, ghosts, shut, mu, pc, locals>>

\* Other goroutines call the pool, which is all that a round sees of them.
OthersCall ==
    /\ prog = "up"
    /\ PoolUsers

\* One of them acquires a client.
OthersAcquire ==
    /\ OthersCall
    /\ Offers("client")
    /\ cons' = Tail(cons)
    /\ UNCHANGED <<node, disk, ghosts, shut, prog, mu, pc, locals, crashes>>

\* One of them acquires the nil of a failed round, and its query panics.
OthersAcquireNil ==
    /\ OthersCall
    /\ Offers("nil")
    /\ Panic

\* One of them releases a client, from the channel or dialled.
OthersRelease ==
    /\ OthersCall
    /\ Room
    /\ cons' = Append(cons, "client")
    /\ UNCHANGED <<node, disk, ghosts, shut, prog, mu, pc, locals, crashes>>

HoldsNil == \E i \in 1..Len(cons) : cons[i] = "nil"

\* One of them closes the pool, and Close closes what is in the channel.
OthersClose ==
    /\ OthersCall
    /\ ~HoldsNil
    /\ shut' = TRUE
    /\ cons' = <<>>
    /\ UNCHANGED <<node, disk, ghosts, prog, mu, pc, locals, crashes>>

\* Close finds a nil in the channel and panics.
OthersCloseNil ==
    /\ OthersCall
    /\ HoldsNil
    /\ Panic

Others ==
    \/ OthersAcquire
    \/ OthersAcquireNil
    \/ OthersRelease
    \/ OthersClose
    \/ OthersCloseNil

Step(p) ==
    \/ Lock(p)
    \/ Acquire(p)
    \/ AcquireNil(p)
    \/ AcquireFails(p)
    \/ ReleaseNil(p)
    \/ ReleaseNilCloses(p)
    \/ GetHead(p)
    \/ GetHeadFails(p)
    \/ ReadLatest(p)
    \/ ReadFails(p)
    \/ LoopEnd(p)
    \/ Fetch(p)
    \/ FetchFails(p)
    \/ Handle(p)
    \/ HandleErr(p)
    \/ WriteErrorTx(p)
    \/ WriteErrorTxFails(p)
    \/ Save(p)
    \/ SaveFails(p)

Next ==
    \/ \E v \in Versions : Grow(v)
    \/ \E k \in 0..MaxHeight : Rollback(k)
    \/ \E p \in Procs : Step(p)
    \/ Others
    \/ Crash
    \/ Restart

Spec == Init /\ [][Next]_vars

(***************************************************************************)
(* The chain keeps growing; a goroutine's timer fires again and again and  *)
(* its round goes on one way or the other; a node or file that fails works *)
(* again some time, and a callback that is called again and again succeeds *)
(* or its transaction is logged.  Nobody has to restart the program, and   *)
(* the other users of the pool do what they like.                          *)
(***************************************************************************)
Fairness ==
    /\ WF_vars(\E v \in Versions : Grow(v))
    /\ \A p \in Procs :
        /\ WF_vars(Step(p))
        /\ SF_vars(Lock(p))
        /\ SF_vars(GetHead(p))
        /\ SF_vars(ReadLatest(p))
        /\ SF_vars(Fetch(p))
        /\ SF_vars(Handle(p))
        /\ SF_vars(Save(p))

FairSpec == Spec /\ Fairness

-----------------------------------------------------------------------------
(* Properties *)

Labels ==
    {"tick", "acquire", "failed", "head", "read", "loop", "handle", "errtx"}

TxSpace == [height : Heights, version : Versions, index : Nat]

\* Every variable has its type.
TypeOK ==
    /\ head \in 0..MaxHeight
    /\ top \in head..MaxHeight
    /\ chain \in [Heights -> Versions]
    /\ file \in [len : Nat, val : 0..MaxHeight]
    /\ done \subseteq TxSpace
    /\ errs \subseteq TxSpace
    /\ lost \subseteq TxSpace
    /\ cons \in Seq({"client", "nil"}) /\ Len(cons) <= PoolSize
    /\ shut \in BOOLEAN
    /\ prog \in {"up", "killed", "panicked"}
    /\ mu \in [Mutexes -> Procs \cup {NoOne}]
    /\ pc \in [Procs -> Labels]
    /\ highest \in [Procs -> 0..MaxHeight]
    /\ height \in [Procs -> 0..(Word - 1)]
    /\ limit \in [Procs -> 0..(Word - 1)]
    /\ block \in [Procs -> Versions]
    /\ idx \in [Procs -> Nat]
    /\ crashes \in 0..MaxCrashes

\* When a round has recorded a block and goes on, latestNumber.info reads as that
\* block's number: no digit of an older, longer number is left behind it.
FileExact ==
    [][\A p \in Procs :
        pc[p] = "handle" /\ pc'[p] = "loop" => file'.val = height[p]]_vars

\* Whatever fails and whenever the program stops, a block counts as scanned only
\* when every transaction of a block of that height was handled, logged as
\* failed, or lost because the log could not be written.
NothingSkipped ==
    \A h \in (FirstArg + 1)..file.val :
        \E v \in Versions : TxsOf(h, v) \subseteq Seen

\* The callback never gets a transaction of a block that is already recorded as
\* scanned, nor of one beyond the next, nor of a block that never had a successor,
\* also when the node has fallen behind what is recorded and the number of blocks
\* to scan wraps: redelivery after a failure or a restart is confined to the block
\* that was being scanned.
OnlyNextBlock ==
    \A p \in Procs :
        pc[p] \in {"handle", "errtx"} => height[p] = Latest + 1 /\ height[p] < top

\* If the node takes back at most its latest block, what the callback saw stays
\* on the chain: a round leaves the head to the next one.
Confirmed ==
    \A t \in Seen : t.height < top /\ t.version = chain[t.height]

\* If the node takes blocks back only so often, and from some time on the program
\* neither is killed nor panics, the scanner catches up with the chain: each block
\* that gets a successor is recorded as scanned, whatever else fails.
CatchesUp ==
    <>[](head = top) /\ <>[](prog = "up") =>
        \A h \in Heights : [](head > h => <>(file.val >= h))

\* StartScan logs the error of a round and continues: no round ends the program.
Continues == prog # "panicked"

\* StartScan(startNumber, ...) starts at startNumber.
StartHonoured ==
    FromStartScan => \A t \in Seen : t.height >= StartNumber

Feed == INSTANCE BlockFeed WITH
    First <- FirstArg,
    upto  <- Latest,
    seen  <- Seen

ImplementsFeed == Feed!Spec
=============================================================================
