----------------------------- MODULE ClientPool -----------------------------
(***************************************************************************)
(* The connection pool Jk of blx/fbclient.go: a buffered Go channel of RPC *)
(* clients, a mutex j.m, a flag j.closed and a factory that dials when the *)
(* channel is empty.  Every API call of the SDK runs between an Acquire    *)
(* and a deferred Release; some calls make another call in between, so a   *)
(* goroutine holds a small stack of clients.                               *)
(*                                                                         *)
(* Acquire and the channel operations are not under the mutex; Release and *)
(* Close are.  Each step below is one atomic piece of that code: a channel *)
(* operation, a lock acquisition, or code that runs under the lock and     *)
(* touches nothing that is read without it.                                *)
(***************************************************************************)
EXTENDS Naturals, Sequences, FiniteSets

CONSTANTS
    Goroutines,   \* goroutines that share one *Jk
    Scanners,     \* those whose outermost call is ExecuteBlocks
    Clients,      \* identities of *ethclient.Client values
    PoolSize,     \* NewJk's size argument
    MaxDepth,     \* how deep API calls nest
    Net,          \* NewJk's net argument
    MainNet,      \* the package constant the factory dials
    DialFails,    \* whether rpc.DialContext may return an error
    NoClient,     \* a nil *ethclient.Client
    NoOne,        \* the holder of a free mutex
    NoEndpoint    \* what a client that is not open is connected to

ASSUME PoolAssumption ==
    /\ Scanners \subseteq Goroutines
    /\ PoolSize \in Nat
    /\ MaxDepth \in Nat \ {0}
    /\ DialFails \in BOOLEAN
    /\ NoClient \notin Clients
    /\ NoOne \notin Goroutines
    /\ NoEndpoint \notin {Net, MainNet}

VARIABLES
    buf,       \* the buffered values of j.cons
    chClosed,  \* whether close(j.cons) has run
    closed,    \* j.closed
    mu,        \* the goroutine that holds j.m
    conn,      \* what each client is connected to
    dials,     \* iterations of NewJk's loop that have ended
    fresh,     \* the client that NewJk has dialled and not yet sent, if any
    pc,        \* where each goroutine is in Acquire, Release or Close
    depth,     \* how many clients each goroutine has to release
    held,      \* those clients, outermost call first
    panics     \* goroutines that raised a run-time panic

vars == <<buf, chClosed, closed, mu, conn, dials, fresh,
          pc, depth, held, panics>>

Levels == 1..MaxDepth

-----------------------------------------------------------------------------
(* NewJk *)

\* Mutant: the constructor's loop runs to i <= size.
InitDialsOneMore == PoolSize + 1

\* NewJk replaces a zero size only after it has made the channel.
InitDials == IF PoolSize = 0 THEN 3 ELSE PoolSize

\* NewJk has returned: nobody has the pool before that.
Ready == dials = InitDials

Init ==
    /\ buf = << >>
    /\ chClosed = FALSE
    /\ closed = FALSE
    /\ mu = NoOne
    /\ conn = [c \in Clients |-> NoEndpoint]
    /\ dials = 0
    /\ fresh = NoClient
    /\ pc = [g \in Goroutines |-> "run"]
    /\ depth = [g \in Goroutines |-> 0]
    /\ held = [g \in Goroutines |-> [l \in Levels |-> NoClient]]
    /\ panics = {}

\* A client value that is not in use: a dial may return it.
Unused(c) == conn[c] = NoEndpoint

\* One iteration of the loop: the dial succeeds.
NewDial(c) ==
    /\ dials < InitDials
    /\ fresh = NoClient
    /\ Unused(c)
    /\ conn' = [conn EXCEPT ![c] = Net]
    /\ fresh' = c
    /\ UNCHANGED <<buf, chClosed, closed, mu, dials, pc, depth, held, panics>>

\* cons <- ec waits until the channel has room.
NewPut ==
    /\ fresh # NoClient
    /\ Len(buf) < PoolSize
    /\ buf' = Append(buf, fresh)
    /\ fresh' = NoClient
    /\ dials' = dials + 1
    /\ UNCHANGED <<chClosed, closed, mu, conn, pc, depth, held, panics>>

\* One iteration of the loop: the dial fails and the loop continues.
NewDialFails ==
    /\ DialFails
    /\ dials < InitDials
    /\ fresh = NoClient
    /\ dials' = dials + 1
    /\ UNCHANGED <<buf, chClosed, closed, mu, conn, fresh, pc, depth, held, panics>>

-----------------------------------------------------------------------------
(* Acquire and what its callers do with its result *)

\* g runs its own code, or an API call's, outside Acquire, Release and Close.
Running(g) == Ready /\ pc[g] = "run"

\* The call g is about to make is ExecuteBlocks, which defers the release
\* before it looks at Acquire's error.
ScanCall(g) == g \in Scanners /\ depth[g] = 0

Goto(g, label) == pc' = [pc EXCEPT ![g] = label]

\* Acquire returned c to g and the caller has deferred j.Release(c).
Push(g, c) ==
    /\ depth' = [depth EXCEPT ![g] = @ + 1]
    /\ held' = [held EXCEPT ![g] = [@ EXCEPT ![depth[g] + 1] = c]]

\* Mutant: every caller defers the release before it checks the error.
AcquireErrorUnchecked(g) == Push(g, NoClient) /\ Goto(g, "relLock")

\* Mutant: a caller that never got a client still releases.
AcquireErrorReleases(g) == UNCHANGED <<depth, held>> /\ Goto(g, "relLock")

\* Acquire returned (nil, err): ExecuteBlocks returns into Release(nil), every
\* other caller returns the error and has nothing to release.
AcquireError(g) ==
    IF ScanCall(g)
    THEN Push(g, NoClient) /\ Goto(g, "relLock")
    ELSE UNCHANGED <<depth, held>> /\ Goto(g, "run")

\* The select receives a buffered value; a nil one is dereferenced by the
\* caller.
AcquireRecv(g) ==
    /\ Running(g)
    /\ depth[g] < MaxDepth
    /\ buf # << >>
    /\ buf' = Tail(buf)
    /\ Push(g, Head(buf))
    /\ panics' = IF Head(buf) = NoClient THEN panics \cup {g} ELSE panics
    /\ UNCHANGED <<chClosed, closed, mu, conn, dials, fresh, pc>>

\* The select receives from the closed and drained channel: PoolClosedError.
AcquireClosed(g) ==
    /\ Running(g)
    /\ depth[g] < MaxDepth
    /\ buf = << >>
    /\ chClosed
    /\ AcquireError(g)
    /\ UNCHANGED <<buf, chClosed, closed, mu, conn, dials, fresh, panics>>

\* The select's default: the channel is open and empty, call j.factory().
AcquireDial(g) ==
    /\ Running(g)
    /\ depth[g] < MaxDepth
    /\ buf = << >>
    /\ ~chClosed
    /\ Goto(g, "dial")
    /\ UNCHANGED <<buf, chClosed, closed, mu, conn, dials, fresh, depth, held, panics>>

\* The factory dials MainNet, whatever net NewJk was given.
DialOk(g, c) ==
    /\ pc[g] = "dial"
    /\ Unused(c)
    /\ conn' = [conn EXCEPT ![c] = MainNet]
    /\ Push(g, c)
    /\ Goto(g, "run")
    /\ UNCHANGED <<buf, chClosed, closed, mu, dials, fresh, panics>>

DialFail(g) ==
    /\ DialFails
    /\ pc[g] = "dial"
    /\ AcquireError(g)
    /\ UNCHANGED <<buf, chClosed, closed, mu, conn, dials, fresh, panics>>

-----------------------------------------------------------------------------
(* Release *)

\* The client that g's innermost call releases.
Top(g) == held[g][depth[g]]

\* Release forgets the client of the innermost call.
Pop(g) ==
    /\ depth' = [depth EXCEPT ![g] = @ - 1]
    /\ held' = [held EXCEPT ![g] = [@ EXCEPT ![depth[g]] = NoClient]]

\* r.Close() of a client that is not nil.
Disconnect(c) == conn' = [conn EXCEPT ![c] = NoEndpoint]

Unlock == mu' = NoOne

\* The innermost call of g returns: its deferred Release starts.
BeginRelease(g) ==
    /\ Running(g)
    /\ depth[g] > 0
    /\ Goto(g, "relLock")
    /\ UNCHANGED <<buf, chClosed, closed, mu, conn, dials, fresh, depth, held, panics>>

\* Mutant: Release does not take j.m.
ReleaseNoLock(g) ==
    /\ pc[g] = "relLock"
    /\ Goto(g, "relCheck")
    /\ UNCHANGED <<buf, chClosed, closed, mu, conn, dials, fresh, depth, held, panics>>

ReleaseLock(g) ==
    /\ pc[g] = "relLock"
    /\ mu = NoOne
    /\ mu' = g
    /\ Goto(g, "relCheck")
    /\ UNCHANGED <<buf, chClosed, closed, conn, dials, fresh, depth, held, panics>>

\* Mutant: Release closes the client and its caller keeps it.
ReleaseToClosedKeeps(g) ==
    /\ pc[g] = "relCheck"
    /\ closed
    /\ Top(g) # NoClient
    /\ Disconnect(Top(g))
    /\ Unlock
    /\ Goto(g, "run")
    /\ UNCHANGED <<buf, chClosed, closed, dials, fresh, depth, held, panics>>

\* Mutant: Release on a closed pool returns without r.Close().
ReleaseToClosedLeaves(g) ==
    /\ pc[g] = "relCheck"
    /\ closed
    /\ Pop(g)
    /\ Unlock
    /\ Goto(g, "run")
    /\ UNCHANGED <<buf, chClosed, closed, conn, dials, fresh, panics>>

\* if j.closed { r.Close(); return }, with the deferred Unlock.
ReleaseToClosed(g) ==
    /\ pc[g] = "relCheck"
    /\ closed
    /\ IF Top(g) = NoClient
       THEN panics' = panics \cup {g} /\ UNCHANGED conn
       ELSE Disconnect(Top(g)) /\ UNCHANGED panics
    /\ Pop(g)
    /\ Unlock
    /\ Goto(g, "run")
    /\ UNCHANGED <<buf, chClosed, closed, dials, fresh>>

\* Mutant: Release does not look at j.closed.
ReleaseUnchecked(g) ==
    /\ pc[g] = "relCheck"
    /\ Goto(g, "relPut")
    /\ UNCHANGED <<buf, chClosed, closed, mu, conn, dials, fresh, depth, held, panics>>

ReleaseCheck(g) ==
    /\ pc[g] = "relCheck"
    /\ ~closed
    /\ Goto(g, "relPut")
    /\ UNCHANGED <<buf, chClosed, closed, mu, conn, dials, fresh, depth, held, panics>>

\* Mutant: the caller keeps the client it has handed back.
ReleasePutKeeps(g) ==
    /\ pc[g] = "relPut"
    /\ ~chClosed
    /\ Len(buf) < PoolSize
    /\ buf' = Append(buf, Top(g))
    /\ Unlock
    /\ Goto(g, "run")
    /\ UNCHANGED <<chClosed, closed, conn, dials, fresh, depth, held, panics>>

\* case j.cons <- r: the channel has room, or it is closed and the send panics.
ReleasePut(g) ==
    /\ pc[g] = "relPut"
    /\ chClosed \/ Len(buf) < PoolSize
    /\ IF chClosed
       THEN panics' = panics \cup {g} /\ UNCHANGED <<buf, depth, held>>
       ELSE buf' = Append(buf, Top(g)) /\ Pop(g) /\ UNCHANGED panics
    /\ Unlock
    /\ Goto(g, "run")
    /\ UNCHANGED <<chClosed, closed, conn, dials, fresh>>

\* Mutant: a client for which there is no room is dropped, not closed.
ReleaseFullDrops(g) ==
    /\ pc[g] = "relPut"
    /\ ~chClosed
    /\ Len(buf) >= PoolSize
    /\ Pop(g)
    /\ Unlock
    /\ Goto(g, "run")
    /\ UNCHANGED <<buf, chClosed, closed, conn, dials, fresh, panics>>

\* default: the channel is full.
ReleaseFull(g) ==
    /\ pc[g] = "relPut"
    /\ ~chClosed
    /\ Len(buf) >= PoolSize
    /\ IF Top(g) = NoClient
       THEN panics' = panics \cup {g} /\ UNCHANGED conn
       ELSE Disconnect(Top(g)) /\ UNCHANGED panics
    /\ Pop(g)
    /\ Unlock
    /\ Goto(g, "run")
    /\ UNCHANGED <<buf, chClosed, closed, dials, fresh>>

-----------------------------------------------------------------------------
(* Close *)

BeginClose(g) ==
    /\ Running(g)
    /\ Goto(g, "clsLock")
    /\ UNCHANGED <<buf, chClosed, closed, mu, conn, dials, fresh, depth, held, panics>>

\* Lock, and if j.closed is set already return, else set it.
CloseLock(g) ==
    /\ pc[g] = "clsLock"
    /\ mu = NoOne
    /\ IF closed
       THEN UNCHANGED <<closed, mu>> /\ Goto(g, "run")
       ELSE closed' = TRUE /\ mu' = g /\ Goto(g, "clsChan")
    /\ UNCHANGED <<buf, chClosed, conn, dials, fresh, depth, held, panics>>

\* close(j.cons)
CloseChan(g) ==
    /\ pc[g] = "clsChan"
    /\ chClosed' = TRUE
    /\ Goto(g, "clsDrain")
    /\ UNCHANGED <<buf, closed, mu, conn, dials, fresh, depth, held, panics>>

\* One iteration of for r := range j.cons { r.Close() }.
CloseDrain(g) ==
    /\ pc[g] = "clsDrain"
    /\ buf # << >>
    /\ buf' = Tail(buf)
    /\ IF Head(buf) = NoClient
       THEN /\ panics' = panics \cup {g}
            /\ Unlock
            /\ Goto(g, "run")
            /\ UNCHANGED conn
       ELSE /\ Disconnect(Head(buf))
            /\ UNCHANGED <<mu, pc, panics>>
    /\ UNCHANGED <<chClosed, closed, dials, fresh, depth, held>>

\* Mutant: Close returns without the deferred Unlock.
CloseKeepsLock(g) ==
    /\ pc[g] = "clsDrain"
    /\ buf = << >>
    /\ Goto(g, "run")
    /\ UNCHANGED <<buf, chClosed, closed, mu, conn, dials, fresh, depth, held, panics>>

\* The drained channel ends the loop; the deferred Unlock runs.
CloseDone(g) ==
    /\ pc[g] = "clsDrain"
    /\ buf = << >>
    /\ Unlock
    /\ Goto(g, "run")
    /\ UNCHANGED <<buf, chClosed, closed, conn, dials, fresh, depth, held, panics>>

-----------------------------------------------------------------------------

GoroutineStep(g) ==
    \/ AcquireRecv(g)
    \/ AcquireClosed(g)
    \/ AcquireDial(g)
    \/ \E c \in Clients : DialOk(g, c)
    \/ DialFail(g)
    \/ BeginRelease(g)
    \/ ReleaseLock(g)
    \/ ReleaseToClosed(g)
    \/ ReleaseCheck(g)
    \/ ReleasePut(g)
    \/ ReleaseFull(g)
    \/ BeginClose(g)
    \/ CloseLock(g)
    \/ CloseChan(g)
    \/ CloseDrain(g)
    \/ CloseDone(g)

\* A panic nobody recovers ends the process.
Next ==
    /\ panics = {}
    /\ \/ \E c \in Clients : NewDial(c)
       \/ NewPut
       \/ NewDialFails
       \/ \E g \in Goroutines : GoroutineStep(g)

Spec == Init /\ [][Next]_vars

\* Steps that a goroutine, once in them, finishes without waiting.
Unblocked(g) ==
    /\ panics = {}
    /\ \/ \E c \in Clients : DialOk(g, c)
       \/ DialFail(g)
       \/ ReleaseToClosed(g)
       \/ ReleaseCheck(g)
       \/ ReleasePut(g)
       \/ ReleaseFull(g)
       \/ CloseChan(g)
       \/ CloseDrain(g)
       \/ CloseDone(g)

(***************************************************************************)
(* The runtime schedules every goroutine; sync.Mutex hands the lock to its *)
(* longest waiter once it starves (strong fairness of the two lock steps); *)
(* every API call makes finitely many nested calls and returns.            *)
(* Nobody is obliged to start a call or to call Close.                     *)
(***************************************************************************)
Fairness ==
    /\ WF_vars((\E c \in Clients : NewDial(c)) \/ NewDialFails)
    /\ WF_vars(NewPut)
    /\ \A g \in Goroutines :
        /\ WF_vars(Unblocked(g))
        /\ SF_vars(ReleaseLock(g))
        /\ SF_vars(CloseLock(g))
        /\ \A d \in Levels : SF_vars(BeginRelease(g) /\ depth[g] = d)

FairSpec == Spec /\ Fairness

-----------------------------------------------------------------------------
(* Properties *)

Labels == {"run", "dial", "relLock", "relCheck", "relPut",
           "clsLock", "clsChan", "clsDrain"}

\* A dialling call has a slot left for its client, a releasing one has a client
\* to release, and the slots above a goroutine's depth are empty.
StackOK ==
    \A g \in Goroutines :
        /\ pc[g] = "dial" => depth[g] < MaxDepth
        /\ pc[g] \in {"relLock", "relCheck", "relPut"} => depth[g] > 0
        /\ \A l \in Levels : l > depth[g] => held[g][l] = NoClient

\* Every variable has its type, and the stacks of clients are well formed.
TypeOK ==
    /\ buf \in Seq(Clients \cup {NoClient})
    /\ Len(buf) <= PoolSize
    /\ chClosed \in BOOLEAN
    /\ closed \in BOOLEAN
    /\ mu \in Goroutines \cup {NoOne}
    /\ conn \in [Clients -> {Net, MainNet, NoEndpoint}]
    /\ dials \in 0..InitDials
    /\ fresh \in Clients \cup {NoClient}
    /\ fresh # NoClient => dials < InitDials
    /\ pc \in [Goroutines -> Labels]
    /\ depth \in [Goroutines -> 0..MaxDepth]
    /\ held \in [Goroutines -> [Levels -> Clients \cup {NoClient}]]
    /\ panics \subseteq Goroutines
    /\ StackOK

InBuf(c) == \E i \in 1..Len(buf) : buf[i] = c

HeldBy(g, c) == \E l \in Levels : held[g][l] = c

Locked == {"relCheck", "relPut", "clsChan", "clsDrain"}

\* j.m guards j.closed and the life of the channel: its holder is the one
\* goroutine in the code under it, j.closed precedes the close of the channel
\* by a step of the closing goroutine, and the goroutine that has found
\* j.closed unset still finds it so when it sends.
MutexInv ==
    /\ \A g \in Goroutines : pc[g] \in Locked <=> mu = g
    /\ chClosed => closed
    /\ closed /\ ~chClosed => \E g \in Goroutines : pc[g] = "clsChan"
    /\ \A g \in Goroutines : pc[g] \in {"clsChan", "clsDrain"} => closed
    /\ \A g \in Goroutines : pc[g] = "relPut" => ~closed

\* Two API calls never share a client, and a client that some call uses is not
\* in the channel at the same time: Acquire gives it away, Release takes it
\* back once.
Exclusive ==
    /\ \A i, j \in 1..Len(buf) : buf[i] = buf[j] /\ buf[i] \in Clients => i = j
    /\ \A g \in Goroutines, k \in Levels, i \in 1..Len(buf) :
        held[g][k] \in Clients => held[g][k] # buf[i]
    /\ \A i \in 1..Len(buf) : fresh \in Clients => fresh # buf[i]
    /\ \A g \in Goroutines, k \in Levels : fresh \in Clients => fresh # held[g][k]
    /\ \A g, h \in Goroutines : \A k, l \in Levels :
        held[g][k] \in Clients /\ held[g][k] = held[h][l] => g = h /\ k = l

\* Close and the releases of other calls never close a client that a call
\* still uses or that a later Acquire can receive.
NoUseAfterClose ==
    \A c \in Clients :
        InBuf(c) \/ c = fresh \/ (\E g \in Goroutines : HeldBy(g, c))
            => conn[c] # NoEndpoint

\* No connection leaks: whatever is open is in the channel, in some call's hands
\* or in the constructor's, so that a later Release or Close will close it.
NoLeak ==
    \A c \in Clients :
        conn[c] # NoEndpoint
            => InBuf(c) \/ c = fresh \/ \E g \in Goroutines : HeldBy(g, c)

\* Release never sends on the closed channel (which would panic): between its
\* check of j.closed and its send, Close cannot run.
NoSendOnClosed == \A g \in Goroutines : pc[g] = "relPut" => ~chClosed

\* No schedule of API calls that check Acquire's error and of Close makes a
\* goroutine panic.
NoPanic == Scanners = {} => panics = {}

\* The pool hands out clients of the node the caller configured.
ConfiguredNet ==
    \A g \in Goroutines, c \in Clients : HeldBy(g, c) => conn[c] = Net

\* Once Close has begun every connection ends up closed, those included that
\* other calls hold, or are still dialling, while Close runs.
CloseReleasesAll ==
    closed ~> \A c \in Clients : conn[c] = NoEndpoint

\* NewJk returns.
ConstructorReturns == <>Ready

\* Every Release and every Close that has started returns.
CallsReturn ==
    \A g \in Goroutines :
        pc[g] \in Labels \ {"run"} ~> pc[g] = "run"

-----------------------------------------------------------------------------
(* What the pool promises, as the ownership of clients. *)

Ownership == INSTANCE ClientOwnership WITH
    shared <- {c \in Clients : InBuf(c)},
    owned  <- [g \in Goroutines |-> {c \in Clients : HeldBy(g, c)}],
    shut   <- closed

ImplementsOwnership == Ownership!Spec
=============================================================================
