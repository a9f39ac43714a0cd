-------------------------- MODULE ClientPool_proofs --------------------------
(***************************************************************************)
(* Proofs about ClientPool, for every number of goroutines and clients,    *)
(* every pool size and nesting depth, with and without scanners and dial   *)
(* failures.                                                               *)
(***************************************************************************)
EXTENDS ClientPool, SequenceTheorems, TLAPS

USE PoolAssumption DEF Levels

LEMMA TypedStack == TypeOK => StackOK
  BY DEF TypeOK

LEMMA InitTyped == Init => TypeOK
<1> SUFFICES ASSUME Init PROVE TypeOK
  OBVIOUS
<1>1. buf \in Seq(Clients \cup {NoClient}) /\ Len(buf) = 0
  BY DEF Init
<1>2. dials \in 0..InitDials /\ fresh = NoClient
  BY DEF Init, InitDials
<1>3. held \in [Goroutines -> [Levels -> Clients \cup {NoClient}]]
  BY DEF Init
<1>4. StackOK
  BY DEF Init, StackOK
<1>5. conn \in [Clients -> {Net, MainNet, NoEndpoint}] /\ pc \in [Goroutines -> Labels]
  BY DEF Init, Labels
<1>6. chClosed \in BOOLEAN /\ closed \in BOOLEAN
  BY DEF Init
<1>7. mu \in Goroutines \cup {NoOne} /\ panics \subseteq Goroutines
  BY DEF Init
<1>8. depth \in [Goroutines -> 0..MaxDepth]
  BY DEF Init
<1> QED
  BY <1>1, <1>2, <1>3, <1>4, <1>5, <1>6, <1>7, <1>8 DEF TypeOK

\* Pushing and popping keep the stacks well formed, whatever client is pushed.
LEMMA PushTyped ==
    ASSUME TypeOK, NEW g \in Goroutines, NEW c \in Clients \cup {NoClient},
           depth[g] < MaxDepth, Push(g, c)
    PROVE  /\ depth' \in [Goroutines -> 0..MaxDepth]
           /\ held' \in [Goroutines -> [Levels -> Clients \cup {NoClient}]]
           /\ depth'[g] = depth[g] + 1
           /\ \A h \in Goroutines : h # g => depth'[h] = depth[h]
           /\ \A h \in Goroutines, l \in Levels :
                l > depth'[h] => held'[h][l] = NoClient
  BY DEF TypeOK, StackOK, Push

LEMMA PopTyped ==
    ASSUME TypeOK, NEW g \in Goroutines, depth[g] > 0, Pop(g)
    PROVE  /\ depth' \in [Goroutines -> 0..MaxDepth]
           /\ held' \in [Goroutines -> [Levels -> Clients \cup {NoClient}]]
           /\ \A h \in Goroutines : h # g => depth'[h] = depth[h]
           /\ \A h \in Goroutines, l \in Levels :
                l > depth'[h] => held'[h][l] = NoClient
  BY DEF TypeOK, StackOK, Pop

\* Both ways to go on after a failed Acquire are typed.
LEMMA ErrorTyped ==
    ASSUME TypeOK, NEW g \in Goroutines, depth[g] < MaxDepth, AcquireError(g),
           UNCHANGED <<buf, chClosed, closed, mu, conn, dials, fresh, panics>>
    PROVE  TypeOK'
<1>1. CASE ScanCall(g)
  <2>1. Push(g, NoClient) /\ Goto(g, "relLock")
    BY <1>1 DEF AcquireError
  <2>2. /\ depth' \in [Goroutines -> 0..MaxDepth]
        /\ held' \in [Goroutines -> [Levels -> Clients \cup {NoClient}]]
        /\ depth'[g] = depth[g] + 1
        /\ \A h \in Goroutines : h # g => depth'[h] = depth[h]
        /\ \A h \in Goroutines, l \in Levels :
             l > depth'[h] => held'[h][l] = NoClient
    BY <2>1, PushTyped
  <2>3. StackOK'
    BY <2>1, <2>2 DEF Goto, TypeOK, StackOK, Labels
  <2> QED
    BY <2>1, <2>2, <2>3 DEF Goto, TypeOK, InitDials, Labels
<1>2. CASE ~ScanCall(g)
  BY <1>2 DEF AcquireError, Goto, TypeOK, StackOK, InitDials, Labels
<1> QED
  BY <1>1, <1>2

LEMMA NextTyped == TypeOK /\ [Next]_vars => TypeOK'
<1> SUFFICES ASSUME TypeOK, [Next]_vars PROVE TypeOK'
  OBVIOUS
<1>1. CASE UNCHANGED vars
  BY <1>1 DEF vars, TypeOK, StackOK, InitDials, Labels
<1>2. ASSUME NEW c \in Clients, NewDial(c) PROVE TypeOK'
  BY <1>2 DEF NewDial, TypeOK, StackOK, InitDials, Labels
<1>5. CASE NewPut
  <2>1. /\ Append(buf, fresh) \in Seq(Clients \cup {NoClient})
        /\ Len(Append(buf, fresh)) = Len(buf) + 1
    BY AppendProperties DEF TypeOK
  <2> QED
    BY <1>5, <2>1 DEF NewPut, TypeOK, StackOK, InitDials, Labels
<1>3. CASE NewDialFails
  BY <1>3 DEF NewDialFails, TypeOK, StackOK, InitDials, Labels
<1>4. ASSUME NEW g \in Goroutines, GoroutineStep(g) PROVE TypeOK'
  <2>1. CASE AcquireRecv(g)
    <3>1. /\ Head(buf) \in Clients \cup {NoClient}
          /\ Tail(buf) \in Seq(Clients \cup {NoClient})
          /\ Len(Tail(buf)) = Len(buf) - 1
      BY <2>1, HeadTailProperties DEF TypeOK, AcquireRecv
    <3>2. /\ depth' \in [Goroutines -> 0..MaxDepth]
          /\ held' \in [Goroutines -> [Levels -> Clients \cup {NoClient}]]
          /\ depth'[g] = depth[g] + 1
          /\ \A h \in Goroutines : h # g => depth'[h] = depth[h]
          /\ \A h \in Goroutines, l \in Levels :
               l > depth'[h] => held'[h][l] = NoClient
      BY <2>1, <3>1, PushTyped DEF AcquireRecv
    <3>3. panics' \subseteq Goroutines /\ pc' = pc /\ pc[g] = "run"
      BY <2>1 DEF AcquireRecv, Running, TypeOK
    <3>4. StackOK'
      BY <3>2, <3>3 DEF StackOK, TypeOK
    <3> QED
      BY <2>1, <3>1, <3>2, <3>3, <3>4 DEF AcquireRecv, TypeOK, InitDials
  <2>2. CASE AcquireClosed(g)
    BY <2>2, ErrorTyped DEF AcquireClosed
  <2>3. CASE AcquireDial(g)
    BY <2>3 DEF AcquireDial, Goto, Running, TypeOK, StackOK, InitDials, Labels
  <2>4. ASSUME NEW c \in Clients, DialOk(g, c) PROVE TypeOK'
    <3>1. depth[g] < MaxDepth
      BY <2>4, TypedStack DEF DialOk, StackOK
    <3> QED
      BY <2>4, <3>1, PushTyped DEF DialOk, Goto, TypeOK, StackOK, InitDials, Labels
  <2>5. CASE DialFail(g)
    <3>1. depth[g] < MaxDepth
      BY <2>5, TypedStack DEF DialFail, StackOK
    <3> QED
      BY <2>5, <3>1, ErrorTyped DEF DialFail
  <2>6. CASE BeginRelease(g)
    BY <2>6 DEF BeginRelease, Goto, Running, TypeOK, StackOK, InitDials, Labels
  <2>7. CASE ReleaseLock(g)
    BY <2>7 DEF ReleaseLock, Goto, TypeOK, StackOK, InitDials, Labels
  <2>8. CASE ReleaseToClosed(g)
    <3>1. depth[g] > 0
      BY <2>8, TypedStack DEF ReleaseToClosed, StackOK
    <3>2. panics' \subseteq Goroutines /\ conn' \in [Clients -> {Net, MainNet, NoEndpoint}]
      BY <2>8 DEF ReleaseToClosed, Disconnect, TypeOK
    <3> QED
      BY <2>8, <3>1, <3>2, PopTyped
      DEF ReleaseToClosed, Unlock, Goto, TypeOK, StackOK, InitDials, Labels
  <2>9. CASE ReleaseCheck(g)
    BY <2>9 DEF ReleaseCheck, Goto, TypeOK, StackOK, InitDials, Labels
  <2>10. CASE ReleasePut(g)
    <3>1. depth[g] > 0
      BY <2>10, TypedStack DEF ReleasePut, StackOK
    <3>2. Top(g) \in Clients \cup {NoClient}
      BY <3>1 DEF Top, TypeOK
    <3>3. /\ Append(buf, Top(g)) \in Seq(Clients \cup {NoClient})
          /\ Len(Append(buf, Top(g))) = Len(buf) + 1
      BY <3>2, AppendProperties DEF TypeOK
    <3>4. CASE chClosed
      <4>1. /\ UNCHANGED <<buf, chClosed, closed, conn, dials, fresh, depth, held>>
            /\ mu' = NoOne
            /\ pc' = [pc EXCEPT ![g] = "run"]
            /\ panics' = panics \cup {g}
        BY <2>10, <3>4 DEF ReleasePut, Unlock, Goto
      <4>2. pc' \in [Goroutines -> Labels] /\ panics' \subseteq Goroutines
        BY <4>1 DEF TypeOK, Labels
      <4>3. StackOK'
        BY <4>1 DEF StackOK, TypeOK
      <4> QED
        BY <4>1, <4>2, <4>3 DEF TypeOK, InitDials
    <3>5. CASE ~chClosed
      <4>1. /\ UNCHANGED <<chClosed, closed, conn, dials, fresh, panics>>
            /\ Len(buf) < PoolSize
            /\ buf' = Append(buf, Top(g))
            /\ Pop(g)
            /\ mu' = NoOne
            /\ pc' = [pc EXCEPT ![g] = "run"]
        BY <2>10, <3>5 DEF ReleasePut, Unlock, Goto
      <4> QED
        BY <3>1, <3>3, <4>1, PopTyped DEF TypeOK, StackOK, InitDials, Labels
    <3> QED
      BY <3>4, <3>5
  <2>11. CASE ReleaseFull(g)
    <3>1. depth[g] > 0
      BY <2>11, TypedStack DEF ReleaseFull, StackOK
    <3>2. panics' \subseteq Goroutines /\ conn' \in [Clients -> {Net, MainNet, NoEndpoint}]
      BY <2>11 DEF ReleaseFull, Disconnect, TypeOK
    <3> QED
      BY <2>11, <3>1, <3>2, PopTyped
      DEF ReleaseFull, Unlock, Goto, TypeOK, StackOK, InitDials, Labels
  <2>12. CASE BeginClose(g)
    BY <2>12 DEF BeginClose, Goto, Running, TypeOK, StackOK, InitDials, Labels
  <2>13. CASE CloseLock(g)
    BY <2>13 DEF CloseLock, Goto, TypeOK, StackOK, InitDials, Labels
  <2>14. CASE CloseChan(g)
    BY <2>14 DEF CloseChan, Goto, TypeOK, StackOK, InitDials, Labels
  <2>15. CASE CloseDrain(g)
    <3>1. /\ Tail(buf) \in Seq(Clients \cup {NoClient})
          /\ Len(Tail(buf)) = Len(buf) - 1
      BY <2>15, HeadTailProperties DEF TypeOK, CloseDrain
    <3>2. /\ panics' \subseteq Goroutines
          /\ mu' \in Goroutines \cup {NoOne}
          /\ pc' \in [Goroutines -> Labels]
          /\ \A h \in Goroutines : pc'[h] \in {pc[h], "run"}
      BY <2>15 DEF CloseDrain, Unlock, Goto, TypeOK, Labels
    <3>3. conn' \in [Clients -> {Net, MainNet, NoEndpoint}]
      BY <2>15 DEF CloseDrain, Disconnect, TypeOK
    <3>4. StackOK'
      BY <2>15, <3>2 DEF CloseDrain, StackOK, TypeOK
    <3> QED
      BY <2>15, <3>1, <3>2, <3>3, <3>4 DEF CloseDrain, TypeOK, InitDials
  <2>16. CASE CloseDone(g)
    BY <2>16 DEF CloseDone, Unlock, Goto, TypeOK, StackOK, InitDials, Labels
  <2> QED
    BY <1>4, <2>1, <2>2, <2>3, <2>4, <2>5, <2>6, <2>7, <2>8, <2>9, <2>10, <2>11,
       <2>12, <2>13, <2>14, <2>15, <2>16 DEF GoroutineStep
<1> QED
  BY <1>1, <1>2, <1>3, <1>4, <1>5 DEF Next

\* Every reachable state is well typed.
THEOREM TypeCorrect == Spec => []TypeOK
  BY InitTyped, NextTyped, PTL DEF Spec

-----------------------------------------------------------------------------
(* The mutex *)

LEMMA InitMutex == Init => MutexInv
  BY DEF Init, MutexInv, Locked

LEMMA NextMutex == TypeOK /\ MutexInv /\ [Next]_vars => MutexInv'
<1> SUFFICES ASSUME TypeOK, MutexInv, [Next]_vars PROVE MutexInv'
  OBVIOUS
<1>1. CASE UNCHANGED vars
  BY <1>1 DEF vars, MutexInv
<1>2. ASSUME NEW c \in Clients, NewDial(c) PROVE MutexInv'
  BY <1>2 DEF NewDial, MutexInv
<1>5. CASE NewPut
  BY <1>5 DEF NewPut, MutexInv
<1>3. CASE NewDialFails
  BY <1>3 DEF NewDialFails, MutexInv
<1>4. ASSUME NEW g \in Goroutines, GoroutineStep(g) PROVE MutexInv'
  <2> pc \in [Goroutines -> Labels]
    BY DEF TypeOK
  <2> USE DEF Goto, Unlock, Running, MutexInv, Locked
  <2>1. CASE AcquireRecv(g)
    BY <2>1 DEF AcquireRecv
  <2>2. CASE AcquireClosed(g)
    BY <2>2 DEF AcquireClosed, AcquireError
  <2>3. CASE AcquireDial(g)
    BY <2>3 DEF AcquireDial
  <2>4. ASSUME NEW c \in Clients, DialOk(g, c) PROVE MutexInv'
    BY <2>4 DEF DialOk
  <2>5. CASE DialFail(g)
    BY <2>5 DEF DialFail, AcquireError
  <2>6. CASE BeginRelease(g)
    BY <2>6 DEF BeginRelease
  <2>7. CASE ReleaseLock(g)
    BY <2>7 DEF ReleaseLock
  <2>8. CASE ReleaseToClosed(g)
    BY <2>8 DEF ReleaseToClosed
  <2>9. CASE ReleaseCheck(g)
    BY <2>9 DEF ReleaseCheck
  <2>10. CASE ReleasePut(g)
    BY <2>10 DEF ReleasePut
  <2>11. CASE ReleaseFull(g)
    BY <2>11 DEF ReleaseFull
  <2>12. CASE BeginClose(g)
    BY <2>12 DEF BeginClose
  <2>13. CASE CloseLock(g)
    BY <2>13 DEF CloseLock
  <2>14. CASE CloseChan(g)
    BY <2>14 DEF CloseChan
  <2>15. CASE CloseDrain(g)
    BY <2>15 DEF CloseDrain
  <2>16. CASE CloseDone(g)
    BY <2>16 DEF CloseDone
  <2> QED
    BY <1>4, <2>1, <2>2, <2>3, <2>4, <2>5, <2>6, <2>7, <2>8, <2>9, <2>10, <2>11,
       <2>12, <2>13, <2>14, <2>15, <2>16 DEF GoroutineStep
<1> QED
  BY <1>1, <1>2, <1>3, <1>4, <1>5 DEF Next

\* Release and Close exclude each other, and no Release sends on the channel
\* that Close has closed.
THEOREM MutexCorrect == Spec => [](MutexInv /\ NoSendOnClosed)
<1>1. Spec => []MutexInv
  BY TypeCorrect, InitMutex, NextMutex, PTL DEF Spec
<1>2. MutexInv => NoSendOnClosed
  BY DEF MutexInv, NoSendOnClosed
<1> QED
  BY <1>1, <1>2, PTL

-----------------------------------------------------------------------------
(* Ownership *)

OwnInv == Exclusive /\ NoUseAfterClose /\ NoLeak

LEMMA InitOwned == Init => OwnInv
<1> SUFFICES ASSUME Init PROVE OwnInv
  OBVIOUS
<1>1. /\ Len(buf) = 0 /\ fresh = NoClient
      /\ \A g \in Goroutines, l \in Levels : held[g][l] = NoClient
  BY DEF Init
<1>2. \A c \in Clients : conn[c] = NoEndpoint
  BY DEF Init
<1> QED
  BY <1>1, <1>2 DEF OwnInv, Exclusive, NoUseAfterClose, NoLeak, InBuf, HeldBy

\* What a push and a pop do to the slots.
LEMMA PushSlots ==
    ASSUME TypeOK, NEW g \in Goroutines, NEW c, depth[g] < MaxDepth, Push(g, c)
    PROVE  /\ depth[g] + 1 \in Levels
           /\ \A h \in Goroutines, l \in Levels :
                held'[h][l] = IF h = g /\ l = depth[g] + 1 THEN c ELSE held[h][l]
  BY DEF TypeOK, Push

LEMMA PopSlots ==
    ASSUME TypeOK, NEW g \in Goroutines, depth[g] > 0, Pop(g)
    PROVE  /\ depth[g] \in Levels
           /\ \A h \in Goroutines, l \in Levels :
                held'[h][l] = IF h = g /\ l = depth[g] THEN NoClient ELSE held[h][l]
  BY DEF TypeOK, Pop

\* What the channel operations do to the buffer.
LEMMA SendBuf ==
    ASSUME TypeOK, NEW c \in Clients \cup {NoClient}, buf' = Append(buf, c)
    PROVE  /\ Len(buf) \in Nat
           /\ Len(buf') = Len(buf) + 1
           /\ \A i \in 1..Len(buf) : buf'[i] = buf[i]
           /\ buf'[Len(buf) + 1] = c
  BY AppendProperties, LenProperties DEF TypeOK

LEMMA RecvBuf ==
    ASSUME TypeOK, buf # << >>, buf' = Tail(buf)
    PROVE  /\ Len(buf) \in Nat \ {0}
           /\ Len(buf') = Len(buf) - 1
           /\ \A i \in 1..Len(buf') : buf'[i] = buf[i + 1]
           /\ Head(buf) = buf[1]
  BY HeadTailProperties, EmptySeq DEF TypeOK

\* A client nobody has may be put anywhere.
LEMMA UnusedNowhere ==
    ASSUME NoUseAfterClose, NEW c \in Clients, Unused(c)
    PROVE  /\ \A i \in 1..Len(buf) : buf[i] # c
           /\ \A g \in Goroutines, l \in Levels : held[g][l] # c
           /\ fresh # c
  BY DEF NoUseAfterClose, Unused, InBuf, HeldBy

\* Steps that move no client keep the ownership.
LEMMA SameOwned ==
    ASSUME OwnInv, buf' = buf, conn' = conn, fresh' = fresh,
           \A h \in Goroutines, l \in Levels : held'[h][l] = held[h][l]
    PROVE  OwnInv'
<1>e. Exclusive'
  BY DEF OwnInv, Exclusive
<1>u. NoUseAfterClose'
  BY DEF OwnInv, NoUseAfterClose, InBuf, HeldBy
<1>l. NoLeak'
  BY DEF OwnInv, NoLeak, InBuf, HeldBy
<1> QED
  BY <1>e, <1>u, <1>l DEF OwnInv

\* A call takes the head of the channel.
LEMMA TakeOwned ==
    ASSUME TypeOK, OwnInv, NEW g \in Goroutines, depth[g] < MaxDepth,
           buf # << >>, buf' = Tail(buf), Push(g, Head(buf)), conn' = conn,
           fresh' = fresh
    PROVE  OwnInv'
<1>1. /\ Len(buf) \in Nat \ {0}
      /\ Len(buf') = Len(buf) - 1
      /\ \A i \in 1..Len(buf') : buf'[i] = buf[i + 1]
      /\ Head(buf) = buf[1]
  BY RecvBuf
<1>2. /\ depth[g] + 1 \in Levels
      /\ \A h \in Goroutines, l \in Levels :
           held'[h][l] = IF h = g /\ l = depth[g] + 1 THEN buf[1] ELSE held[h][l]
  BY <1>1, PushSlots
<1>3. held[g][depth[g] + 1] = NoClient
  BY <1>2 DEF TypeOK, StackOK
<1>4. \A c : (\E i \in 1..Len(buf) : buf[i] = c) <=>
              c = buf[1] \/ \E i \in 1..Len(buf') : buf'[i] = c
  <2>1. \A i \in 1..Len(buf) : i = 1 \/ (i - 1 \in 1..Len(buf') /\ buf'[i - 1] = buf[i])
    BY <1>1
  <2>2. \A i \in 1..Len(buf') : i + 1 \in 1..Len(buf)
    BY <1>1
  <2> QED
    BY <1>1, <2>1, <2>2
<1>e. Exclusive'
  BY <1>1, <1>2, <1>3, <1>4 DEF OwnInv, Exclusive
<1>u. NoUseAfterClose'
  BY <1>1, <1>2, <1>3, <1>4 DEF OwnInv, NoUseAfterClose, InBuf, HeldBy
<1>l. NoLeak'
  <2> SUFFICES ASSUME NEW c \in Clients, conn[c] # NoEndpoint
               PROVE  InBuf(c)' \/ c = fresh \/ \E h \in Goroutines : HeldBy(h, c)'
    BY DEF NoLeak
  <2>1. InBuf(c) \/ c = fresh \/ \E h \in Goroutines : HeldBy(h, c)
    BY DEF OwnInv, NoLeak
  <2>2. CASE InBuf(c)
    <3>1. c = buf[1] \/ InBuf(c)'
      BY <1>4, <2>2 DEF InBuf
    <3>2. buf[1] = c => HeldBy(g, c)'
      BY <1>2 DEF HeldBy
    <3> QED
      BY <3>1, <3>2
  <2>3. ASSUME NEW h \in Goroutines, HeldBy(h, c) PROVE HeldBy(h, c)'
    <3>1. PICK l \in Levels : held[h][l] = c
      BY <2>3 DEF HeldBy
    <3>2. held'[h][l] = c
      BY <1>2, <1>3, <3>1
    <3> QED
      BY <3>2 DEF HeldBy
  <2> QED
    BY <2>1, <2>2, <2>3
<1> QED
  BY <1>e, <1>u, <1>l DEF OwnInv

\* A call gets a client dialled for it.
LEMMA DialOwned ==
    ASSUME TypeOK, OwnInv, NEW g \in Goroutines, NEW c \in Clients,
           depth[g] < MaxDepth, Unused(c), Push(g, c), buf' = buf,
           conn' = [conn EXCEPT ![c] = MainNet], fresh' = fresh
    PROVE  OwnInv'
<1>1. /\ \A i \in 1..Len(buf) : buf[i] # c
      /\ \A h \in Goroutines, l \in Levels : held[h][l] # c
      /\ fresh # c
  BY UnusedNowhere DEF OwnInv
<1>2. /\ depth[g] + 1 \in Levels
      /\ \A h \in Goroutines, l \in Levels :
           held'[h][l] = IF h = g /\ l = depth[g] + 1 THEN c ELSE held[h][l]
  BY PushSlots
<1>3. held[g][depth[g] + 1] = NoClient
  BY <1>2 DEF TypeOK, StackOK
<1>4. \A d \in Clients : conn'[d] = IF d = c THEN MainNet ELSE conn[d]
  BY DEF TypeOK
<1>e. Exclusive'
  BY <1>1, <1>2, <1>3, <1>4 DEF OwnInv, Exclusive
<1>u. NoUseAfterClose'
  BY <1>1, <1>2, <1>3, <1>4 DEF OwnInv, NoUseAfterClose, InBuf, HeldBy
<1>l. NoLeak'
  BY <1>1, <1>2, <1>3, <1>4 DEF OwnInv, NoLeak, InBuf, HeldBy
<1> QED
  BY <1>e, <1>u, <1>l DEF OwnInv

\* The constructor dials a client.
LEMMA FreshOwned ==
    ASSUME TypeOK, OwnInv, NEW c \in Clients, Unused(c), fresh = NoClient, fresh' = c,
           buf' = buf, held' = held, conn' = [conn EXCEPT ![c] = Net]
    PROVE  OwnInv'
<1>1. /\ \A i \in 1..Len(buf) : buf[i] # c
      /\ \A h \in Goroutines, l \in Levels : held[h][l] # c
  BY UnusedNowhere DEF OwnInv
<1>2. \A d \in Clients : conn'[d] = IF d = c THEN Net ELSE conn[d]
  BY DEF TypeOK
<1>e. Exclusive'
  BY <1>1 DEF OwnInv, Exclusive
<1>u. NoUseAfterClose'
  BY <1>1, <1>2 DEF OwnInv, NoUseAfterClose, InBuf, HeldBy
<1>l. NoLeak'
  BY <1>1, <1>2 DEF OwnInv, NoLeak, InBuf, HeldBy
<1> QED
  BY <1>e, <1>u, <1>l DEF OwnInv

\* The constructor sends its client to the channel.
LEMMA StockOwned ==
    ASSUME TypeOK, OwnInv, fresh # NoClient, fresh' = NoClient,
           buf' = Append(buf, fresh), held' = held, conn' = conn
    PROVE  OwnInv'
<1>1. fresh \in Clients
  BY DEF TypeOK
<1>2. /\ Len(buf) \in Nat
      /\ Len(buf') = Len(buf) + 1
      /\ \A i \in 1..Len(buf) : buf'[i] = buf[i]
      /\ buf'[Len(buf) + 1] = fresh
  BY <1>1, SendBuf
<1>e. Exclusive'
  <2>1. \A i, j \in 1..Len(buf') : buf'[i] = buf'[j] /\ buf'[i] \in Clients => i = j
    BY <1>1, <1>2 DEF OwnInv, Exclusive
  <2>2. \A h \in Goroutines, k \in Levels, i \in 1..Len(buf') :
            held[h][k] \in Clients => held[h][k] # buf'[i]
    BY <1>1, <1>2 DEF OwnInv, Exclusive
  <2> QED
    BY <2>1, <2>2 DEF OwnInv, Exclusive
<1>u. NoUseAfterClose'
  BY <1>1, <1>2 DEF OwnInv, NoUseAfterClose, InBuf, HeldBy
<1>l. NoLeak'
  BY <1>1, <1>2 DEF OwnInv, NoLeak, InBuf, HeldBy
<1> QED
  BY <1>e, <1>u, <1>l DEF OwnInv

\* A call hands its client back.
LEMMA GiveOwned ==
    ASSUME TypeOK, OwnInv, NEW g \in Goroutines, depth[g] > 0,
           buf' = Append(buf, Top(g)), Pop(g), conn' = conn, fresh' = fresh
    PROVE  OwnInv'
<1>1. /\ depth[g] \in Levels
      /\ \A h \in Goroutines, l \in Levels :
           held'[h][l] = IF h = g /\ l = depth[g] THEN NoClient ELSE held[h][l]
  BY PopSlots
<1>2. Top(g) = held[g][depth[g]] /\ Top(g) \in Clients \cup {NoClient}
  BY <1>1 DEF Top, TypeOK
<1>3. /\ Len(buf) \in Nat
      /\ Len(buf') = Len(buf) + 1
      /\ \A i \in 1..Len(buf) : buf'[i] = buf[i]
      /\ buf'[Len(buf) + 1] = Top(g)
  BY <1>2, SendBuf
<1>e. Exclusive'
  <2>1. \A i, j \in 1..Len(buf') : buf'[i] = buf'[j] /\ buf'[i] \in Clients => i = j
    BY <1>1, <1>2, <1>3 DEF OwnInv, Exclusive
  <2>2. \A h \in Goroutines, k \in Levels, i \in 1..Len(buf') :
            held'[h][k] \in Clients => held'[h][k] # buf'[i]
    <3> SUFFICES ASSUME NEW h \in Goroutines, NEW k \in Levels, NEW i \in 1..Len(buf'),
                        held'[h][k] \in Clients
                 PROVE  held'[h][k] # buf'[i]
      OBVIOUS
    <3>1. held'[h][k] = held[h][k] /\ ~(h = g /\ k = depth[g])
      BY <1>1
    <3>2. CASE i \in 1..Len(buf)
      BY <1>3, <3>1, <3>2 DEF OwnInv, Exclusive
    <3>3. CASE i = Len(buf) + 1
      BY <1>1, <1>2, <1>3, <3>1, <3>3 DEF OwnInv, Exclusive
    <3> QED
      BY <1>3, <3>2, <3>3
  <2>3. \A h, h2 \in Goroutines : \A k, l \in Levels :
            held'[h][k] \in Clients /\ held'[h][k] = held'[h2][l] => h = h2 /\ k = l
    BY <1>1 DEF OwnInv, Exclusive
  <2>4. \A i \in 1..Len(buf') : fresh \in Clients => fresh # buf'[i]
    <3>1. \A i \in 1..Len(buf) : fresh \in Clients => fresh # buf'[i]
      BY <1>3 DEF OwnInv, Exclusive
    <3>2. fresh \in Clients => fresh # Top(g)
      BY <1>1, <1>2 DEF OwnInv, Exclusive
    <3> QED
      BY <1>3, <3>1, <3>2
  <2>5. \A h \in Goroutines, k \in Levels :
            fresh \in Clients => fresh # held'[h][k]
    BY <1>1 DEF OwnInv, Exclusive
  <2> QED
    BY <2>1, <2>2, <2>3, <2>4, <2>5 DEF Exclusive
<1>u. NoUseAfterClose'
  BY <1>1, <1>2, <1>3 DEF OwnInv, NoUseAfterClose, InBuf, HeldBy
<1>l. NoLeak'
  BY <1>1, <1>2, <1>3 DEF OwnInv, NoLeak, InBuf, HeldBy
<1> QED
  BY <1>e, <1>u, <1>l DEF OwnInv

\* A call's client is closed; a nil one is not touched.
LEMMA DiscardOwned ==
    ASSUME TypeOK, OwnInv, NEW g \in Goroutines, depth[g] > 0, buf' = buf, Pop(g),
           fresh' = fresh,
           IF Top(g) = NoClient THEN conn' = conn ELSE Disconnect(Top(g))
    PROVE  OwnInv'
<1>1. /\ depth[g] \in Levels
      /\ \A h \in Goroutines, l \in Levels :
           held'[h][l] = IF h = g /\ l = depth[g] THEN NoClient ELSE held[h][l]
  BY PopSlots
<1>2. Top(g) = held[g][depth[g]] /\ Top(g) \in Clients \cup {NoClient}
  BY <1>1 DEF Top, TypeOK
<1>3. \A d \in Clients : conn'[d] = IF d = Top(g) THEN NoEndpoint ELSE conn[d]
  BY <1>2 DEF TypeOK, Disconnect
<1>e. Exclusive'
  BY <1>1, <1>2, <1>3 DEF OwnInv, Exclusive
<1>u. NoUseAfterClose'
  BY <1>1, <1>2, <1>3 DEF OwnInv, Exclusive, NoUseAfterClose, InBuf, HeldBy
<1>l. NoLeak'
  BY <1>1, <1>2, <1>3 DEF OwnInv, NoLeak, InBuf, HeldBy
<1> QED
  BY <1>e, <1>u, <1>l DEF OwnInv

\* Close drains the head of the channel; a nil one is not touched.
LEMMA DrainOwned ==
    ASSUME TypeOK, OwnInv, buf # << >>, buf' = Tail(buf), held' = held,
           fresh' = fresh,
           IF Head(buf) = NoClient THEN conn' = conn ELSE Disconnect(Head(buf))
    PROVE  OwnInv'
<1>1. /\ Len(buf) \in Nat \ {0}
      /\ Len(buf') = Len(buf) - 1
      /\ \A i \in 1..Len(buf') : buf'[i] = buf[i + 1]
      /\ Head(buf) = buf[1]
  BY RecvBuf
<1>2. buf[1] \in Clients \cup {NoClient}
  BY <1>1, ElementOfSeq DEF TypeOK
<1>3. \A d \in Clients : conn'[d] = IF d = buf[1] THEN NoEndpoint ELSE conn[d]
  BY <1>1, <1>2 DEF TypeOK, Disconnect
<1>4. \A c : (\E i \in 1..Len(buf) : buf[i] = c) <=>
              c = buf[1] \/ \E i \in 1..Len(buf') : buf'[i] = c
  <2>1. \A i \in 1..Len(buf) : i = 1 \/ (i - 1 \in 1..Len(buf') /\ buf'[i - 1] = buf[i])
    BY <1>1
  <2>2. \A i \in 1..Len(buf') : i + 1 \in 1..Len(buf)
    BY <1>1
  <2> QED
    BY <1>1, <2>1, <2>2
<1>e. Exclusive'
  BY <1>1, <1>2, <1>3, <1>4 DEF OwnInv, Exclusive
<1>u. NoUseAfterClose'
  <2> SUFFICES ASSUME NEW c \in Clients,
                      InBuf(c)' \/ c = fresh \/ \E g \in Goroutines : HeldBy(g, c)'
               PROVE  conn'[c] # NoEndpoint
    BY DEF NoUseAfterClose
  <2>1. InBuf(c) \/ c = fresh \/ \E g \in Goroutines : HeldBy(g, c)
    BY <1>4 DEF InBuf, HeldBy
  <2>2. c # buf[1]
    BY <1>1 DEF OwnInv, Exclusive, InBuf, HeldBy
  <2> QED
    BY <1>3, <2>1, <2>2 DEF OwnInv, NoUseAfterClose
<1>l. NoLeak'
  <2> SUFFICES ASSUME NEW c \in Clients, conn'[c] # NoEndpoint
               PROVE  InBuf(c)' \/ c = fresh \/ \E g \in Goroutines : HeldBy(g, c)'
    BY DEF NoLeak
  <2>1. c # buf[1] /\ conn[c] # NoEndpoint
    BY <1>3
  <2>2. InBuf(c) \/ c = fresh \/ \E g \in Goroutines : HeldBy(g, c)
    BY <2>1 DEF OwnInv, NoLeak
  <2>3. InBuf(c) => InBuf(c)'
    BY <1>4, <2>1 DEF InBuf
  <2> QED
    BY <2>2, <2>3 DEF HeldBy
<1> QED
  BY <1>e, <1>u, <1>l DEF OwnInv

LEMMA ErrorOwned ==
    ASSUME TypeOK, OwnInv, NEW g \in Goroutines, depth[g] < MaxDepth,
           AcquireError(g), buf' = buf, conn' = conn, fresh' = fresh
    PROVE  OwnInv'
<1>1. CASE ScanCall(g)
  <2>1. Push(g, NoClient)
    BY <1>1 DEF AcquireError
  <2>2. /\ depth[g] + 1 \in Levels
        /\ \A h \in Goroutines, l \in Levels :
             held'[h][l] = IF h = g /\ l = depth[g] + 1 THEN NoClient ELSE held[h][l]
    BY <2>1, PushSlots
  <2>3. held[g][depth[g] + 1] = NoClient
    BY <2>2 DEF TypeOK, StackOK
  <2> QED
    BY <2>2, <2>3, SameOwned
<1>2. CASE ~ScanCall(g)
  BY <1>2, SameOwned DEF AcquireError
<1> QED
  BY <1>1, <1>2

LEMMA NextOwned == TypeOK /\ OwnInv /\ [Next]_vars => OwnInv'
<1> SUFFICES ASSUME TypeOK, OwnInv, [Next]_vars PROVE OwnInv'
  OBVIOUS
<1>1. CASE UNCHANGED vars
  BY <1>1, SameOwned DEF vars
<1>2. ASSUME NEW c \in Clients, NewDial(c) PROVE OwnInv'
  BY <1>2, FreshOwned DEF NewDial
<1>5. CASE NewPut
  BY <1>5, StockOwned DEF NewPut
<1>3. CASE NewDialFails
  BY <1>3, SameOwned DEF NewDialFails
<1>4. ASSUME NEW g \in Goroutines, GoroutineStep(g) PROVE OwnInv'
  <2>1. CASE AcquireRecv(g)
    BY <2>1, TakeOwned DEF AcquireRecv
  <2>2. CASE AcquireClosed(g)
    BY <2>2, ErrorOwned DEF AcquireClosed
  <2>3. CASE AcquireDial(g)
    BY <2>3, SameOwned DEF AcquireDial
  <2>4. ASSUME NEW c \in Clients, DialOk(g, c) PROVE OwnInv'
    BY <2>4, DialOwned, TypedStack DEF DialOk, StackOK
  <2>5. CASE DialFail(g)
    BY <2>5, ErrorOwned, TypedStack DEF DialFail, StackOK
  <2>6. CASE BeginRelease(g)
    BY <2>6, SameOwned DEF BeginRelease
  <2>7. CASE ReleaseLock(g)
    BY <2>7, SameOwned DEF ReleaseLock
  <2>8. CASE ReleaseToClosed(g)
    BY <2>8, DiscardOwned, TypedStack DEF ReleaseToClosed, StackOK
  <2>9. CASE ReleaseCheck(g)
    BY <2>9, SameOwned DEF ReleaseCheck
  <2>10. CASE ReleasePut(g)
    <3>1. CASE chClosed
      BY <2>10, <3>1, SameOwned DEF ReleasePut
    <3>2. CASE ~chClosed
      BY <2>10, <3>2, GiveOwned, TypedStack DEF ReleasePut, StackOK
    <3> QED
      BY <3>1, <3>2
  <2>11. CASE ReleaseFull(g)
    BY <2>11, DiscardOwned, TypedStack DEF ReleaseFull, StackOK
  <2>12. CASE BeginClose(g)
    BY <2>12, SameOwned DEF BeginClose
  <2>13. CASE CloseLock(g)
    BY <2>13, SameOwned DEF CloseLock
  <2>14. CASE CloseChan(g)
    BY <2>14, SameOwned DEF CloseChan
  <2>15. CASE CloseDrain(g)
    BY <2>15, DrainOwned DEF CloseDrain
  <2>16. CASE CloseDone(g)
    BY <2>16, SameOwned DEF CloseDone
  <2> QED
    BY <1>4, <2>1, <2>2, <2>3, <2>4, <2>5, <2>6, <2>7, <2>8, <2>9, <2>10, <2>11,
       <2>12, <2>13, <2>14, <2>15, <2>16 DEF GoroutineStep
<1> QED
  BY <1>1, <1>2, <1>3, <1>4, <1>5 DEF Next

\* No two calls share a client, no client is closed while it is in use, and no
\* open client is lost.
THEOREM OwnershipCorrect == Spec => [](Exclusive /\ NoUseAfterClose /\ NoLeak)
<1>1. Init => TypeOK /\ OwnInv
  BY InitTyped, InitOwned
<1>2. TypeOK /\ OwnInv /\ [Next]_vars => (TypeOK /\ OwnInv)'
  BY NextTyped, NextOwned
<1>3. OwnInv => Exclusive /\ NoUseAfterClose /\ NoLeak
  BY DEF OwnInv
<1> QED
  BY <1>1, <1>2, <1>3, PTL DEF Spec

\* A client that a call holds is connected: nobody has closed it.
THEOREM UseCorrect == Spec => []NoUseAfterClose
  BY OwnershipCorrect, PTL

\* Every connection that is open is in the pool, with a call or on its way into
\* the pool: none is lost.
THEOREM LeakCorrect == Spec => []NoLeak
  BY OwnershipCorrect, PTL

-----------------------------------------------------------------------------
(* Nil clients *)

NilInv ==
    /\ \A i \in 1..Len(buf) : buf[i] # NoClient
    /\ \A g \in Goroutines : \A l \in 1..depth[g] : held[g][l] # NoClient
    /\ panics = {}

LEMMA InitNil == Init => NilInv
  BY DEF Init, NilInv

\* Pushing a client that is not nil and popping leave no nil client behind.
LEMMA PushNil ==
    ASSUME TypeOK, NilInv, NEW g \in Goroutines, NEW c, c # NoClient,
           depth[g] < MaxDepth, Push(g, c)
    PROVE  \A h \in Goroutines : \A l \in 1..depth'[h] : held'[h][l] # NoClient
<1>1. /\ depth[g] + 1 \in Levels
      /\ \A h \in Goroutines, l \in Levels :
           held'[h][l] = IF h = g /\ l = depth[g] + 1 THEN c ELSE held[h][l]
  BY PushSlots
<1>2. /\ depth'[g] = depth[g] + 1
      /\ \A h \in Goroutines : h # g => depth'[h] = depth[h]
      /\ \A h \in Goroutines : depth[h] \in 0..MaxDepth
  BY DEF TypeOK, Push
<1> QED
  BY <1>1, <1>2 DEF NilInv

LEMMA PopNil ==
    ASSUME TypeOK, NilInv, NEW g \in Goroutines, depth[g] > 0, Pop(g)
    PROVE  \A h \in Goroutines : \A l \in 1..depth'[h] : held'[h][l] # NoClient
<1>1. /\ depth[g] \in Levels
      /\ \A h \in Goroutines, l \in Levels :
           held'[h][l] = IF h = g /\ l = depth[g] THEN NoClient ELSE held[h][l]
  BY PopSlots
<1>2. /\ depth'[g] = depth[g] - 1
      /\ \A h \in Goroutines : h # g => depth'[h] = depth[h]
      /\ \A h \in Goroutines : depth[h] \in 0..MaxDepth
  BY DEF TypeOK, Pop
<1> QED
  BY <1>1, <1>2 DEF NilInv

LEMMA TopNotNil ==
    ASSUME TypeOK, NilInv, NEW g \in Goroutines, depth[g] > 0
    PROVE  Top(g) # NoClient /\ Top(g) \in Clients
  BY DEF TypeOK, NilInv, Top

LEMMA NextNil ==
    ASSUME Scanners = {}, TypeOK, MutexInv, NilInv, [Next]_vars
    PROVE  NilInv'
<1>1. CASE UNCHANGED vars
  BY <1>1 DEF vars, NilInv
<1>2. ASSUME NEW c \in Clients, NewDial(c) PROVE NilInv'
  BY <1>2 DEF NewDial, NilInv
<1>5. CASE NewPut
  <2>1. /\ Len(buf) \in Nat
        /\ Len(buf') = Len(buf) + 1
        /\ \A i \in 1..Len(buf) : buf'[i] = buf[i]
        /\ buf'[Len(buf) + 1] = fresh
    BY <1>5, SendBuf DEF NewPut, TypeOK
  <2> QED
    BY <1>5, <2>1 DEF NewPut, NilInv
<1>3. CASE NewDialFails
  BY <1>3 DEF NewDialFails, NilInv
<1>4. ASSUME NEW g \in Goroutines, GoroutineStep(g) PROVE NilInv'
  <2> ~ScanCall(g)
    BY DEF ScanCall
  <2>1. CASE AcquireRecv(g)
    <3>1. /\ Len(buf) \in Nat \ {0}
          /\ Len(buf') = Len(buf) - 1
          /\ \A i \in 1..Len(buf') : buf'[i] = buf[i + 1]
          /\ Head(buf) = buf[1]
      BY <2>1, RecvBuf DEF AcquireRecv
    <3>2. Head(buf) # NoClient
      BY <3>1 DEF NilInv
    <3>3. \A h \in Goroutines : \A l \in 1..depth'[h] : held'[h][l] # NoClient
      BY <2>1, <3>2, PushNil DEF AcquireRecv
    <3> QED
      BY <2>1, <3>1, <3>2, <3>3 DEF AcquireRecv, NilInv
  <2>2. CASE AcquireClosed(g)
    BY <2>2 DEF AcquireClosed, AcquireError, NilInv
  <2>3. CASE AcquireDial(g)
    BY <2>3 DEF AcquireDial, NilInv
  <2>4. ASSUME NEW c \in Clients, DialOk(g, c) PROVE NilInv'
    <3>1. \A h \in Goroutines : \A l \in 1..depth'[h] : held'[h][l] # NoClient
      BY <2>4, PushNil, TypedStack DEF DialOk, StackOK
    <3> QED
      BY <2>4, <3>1 DEF DialOk, NilInv
  <2>5. CASE DialFail(g)
    BY <2>5 DEF DialFail, AcquireError, NilInv
  <2>6. CASE BeginRelease(g)
    BY <2>6 DEF BeginRelease, NilInv
  <2>7. CASE ReleaseLock(g)
    BY <2>7 DEF ReleaseLock, NilInv
  <2>8. CASE ReleaseToClosed(g)
    <3>1. depth[g] > 0
      BY <2>8, TypedStack DEF ReleaseToClosed, StackOK
    <3>2. Top(g) # NoClient
      BY <3>1, TopNotNil
    <3>3. \A h \in Goroutines : \A l \in 1..depth'[h] : held'[h][l] # NoClient
      BY <2>8, <3>1, PopNil DEF ReleaseToClosed
    <3> QED
      BY <2>8, <3>2, <3>3 DEF ReleaseToClosed, NilInv
  <2>9. CASE ReleaseCheck(g)
    BY <2>9 DEF ReleaseCheck, NilInv
  <2>10. CASE ReleasePut(g)
    <3>1. depth[g] > 0
      BY <2>10, TypedStack DEF ReleasePut, StackOK
    <3>2. Top(g) \in Clients /\ Top(g) # NoClient
      BY <3>1, TopNotNil
    <3>5. ~chClosed
      BY <2>10 DEF ReleasePut, MutexInv
    <3>3. /\ Len(buf) \in Nat
          /\ Len(buf') = Len(buf) + 1
          /\ \A i \in 1..Len(buf) : buf'[i] = buf[i]
          /\ buf'[Len(buf) + 1] = Top(g)
      BY <2>10, <3>2, <3>5, SendBuf DEF ReleasePut
    <3>4. \A h \in Goroutines : \A l \in 1..depth'[h] : held'[h][l] # NoClient
      BY <2>10, <3>1, <3>5, PopNil DEF ReleasePut
    <3> QED
      BY <2>10, <3>2, <3>3, <3>4, <3>5 DEF ReleasePut, NilInv
  <2>11. CASE ReleaseFull(g)
    <3>1. depth[g] > 0
      BY <2>11, TypedStack DEF ReleaseFull, StackOK
    <3>2. Top(g) # NoClient
      BY <3>1, TopNotNil
    <3>3. \A h \in Goroutines : \A l \in 1..depth'[h] : held'[h][l] # NoClient
      BY <2>11, <3>1, PopNil DEF ReleaseFull
    <3> QED
      BY <2>11, <3>2, <3>3 DEF ReleaseFull, NilInv
  <2>12. CASE BeginClose(g)
    BY <2>12 DEF BeginClose, NilInv
  <2>13. CASE CloseLock(g)
    BY <2>13 DEF CloseLock, NilInv
  <2>14. CASE CloseChan(g)
    BY <2>14 DEF CloseChan, NilInv
  <2>15. CASE CloseDrain(g)
    <3>1. /\ Len(buf) \in Nat \ {0}
          /\ Len(buf') = Len(buf) - 1
          /\ \A i \in 1..Len(buf') : buf'[i] = buf[i + 1]
          /\ Head(buf) = buf[1]
      BY <2>15, RecvBuf DEF CloseDrain
    <3>2. Head(buf) # NoClient
      BY <3>1 DEF NilInv
    <3> QED
      BY <2>15, <3>1, <3>2 DEF CloseDrain, NilInv
  <2>16. CASE CloseDone(g)
    BY <2>16 DEF CloseDone, NilInv
  <2> QED
    BY <1>4, <2>1, <2>2, <2>3, <2>4, <2>5, <2>6, <2>7, <2>8, <2>9, <2>10, <2>11,
       <2>12, <2>13, <2>14, <2>15, <2>16 DEF GoroutineStep
<1> QED
  BY <1>1, <1>2, <1>3, <1>4, <1>5 DEF Next

\* API calls that check Acquire's error never make a goroutine panic, whenever
\* the pool is closed: they release clients, never nil ones, and never into the
\* closed channel.
THEOREM NoPanicCorrect == Spec => []NoPanic
<1>1. CASE Scanners = {}
  <2>1. Init => TypeOK /\ MutexInv /\ NilInv
    BY InitTyped, InitMutex, InitNil
  <2>2. TypeOK /\ MutexInv /\ NilInv /\ [Next]_vars
          => (TypeOK /\ MutexInv /\ NilInv)'
    BY <1>1, NextTyped, NextMutex, NextNil
  <2>3. NilInv => NoPanic
    BY DEF NilInv, NoPanic
  <2> QED
    BY <2>1, <2>2, <2>3, PTL DEF Spec
<1>2. CASE Scanners # {}
  <2>1. NoPanic
    BY <1>2 DEF NoPanic
  <2> QED
    BY <2>1, PTL
<1> QED
  BY <1>1, <1>2
-----------------------------------------------------------------------------
\* ClientPool implements ClientOwnership: every step of the pool moves at most one
\* client, the way an action of the abstract specification does.

Shared == {c \in Clients : InBuf(c)}
OwnedBy(g) == {c \in Clients : HeldBy(g, c)}
Owned == [g \in Goroutines |-> OwnedBy(g)]

\* An abstract step or a stutter.
OwnershipStep == Ownership!Next \/ UNCHANGED Ownership!vars

LEMMA InitImplements == Init => Ownership!Init
<1> SUFFICES ASSUME Init PROVE Ownership!Init
  OBVIOUS
<1>1. Len(buf) = 0 /\ \A g \in Goroutines, l \in Levels : held[g][l] = NoClient
  BY DEF Init
<1>2. Shared = {}
  BY <1>1 DEF Shared, InBuf
<1>3. Owned = [g \in Goroutines |-> {}]
  <2>1. \A g \in Goroutines : OwnedBy(g) = {}
    BY <1>1 DEF OwnedBy, HeldBy
  <2> QED
    BY <2>1 DEF Owned
<1>4. closed = FALSE
  BY DEF Init
<1> QED
  BY <1>2, <1>3, <1>4 DEF Ownership!Init, Shared, Owned, OwnedBy

\* Steps that move no client stutter.
LEMMA SameImplements ==
    ASSUME buf' = buf, closed' = closed,
           \A h \in Goroutines, l \in Levels : held'[h][l] = held[h][l]
    PROVE  OwnershipStep
<1>1. Shared' = Shared
  BY DEF Shared, InBuf
<1>2. \A g \in Goroutines : OwnedBy(g)' = OwnedBy(g)
  BY DEF OwnedBy, HeldBy
<1>3. Owned' = Owned
  BY <1>2 DEF Owned
<1> QED
  BY <1>1, <1>3 DEF OwnershipStep, Ownership!vars, Shared, Owned, OwnedBy

\* A pushed client joins what its goroutine owns, a popped one leaves it.
LEMMA PushOwns ==
    ASSUME TypeOK, NEW g \in Goroutines, NEW c \in Clients, depth[g] < MaxDepth,
           Push(g, c)
    PROVE  Owned' = [Owned EXCEPT ![g] = @ \cup {c}]
<1>1. /\ depth[g] + 1 \in Levels
      /\ \A h \in Goroutines, l \in Levels :
           held'[h][l] = IF h = g /\ l = depth[g] + 1 THEN c ELSE held[h][l]
  BY PushSlots
<1>2. held[g][depth[g] + 1] = NoClient
  BY <1>1, TypedStack DEF StackOK, TypeOK
<1>3. ASSUME NEW h \in Goroutines, NEW d \in Clients
      PROVE  HeldBy(h, d)' <=> HeldBy(h, d) \/ (h = g /\ d = c)
  <2>1. ASSUME NEW l \in Levels, held[h][l] = d PROVE held'[h][l] = d
    BY <1>1, <1>2, <2>1
  <2>2. ASSUME NEW l \in Levels, held'[h][l] = d
        PROVE  held[h][l] = d \/ (h = g /\ d = c)
    BY <1>1, <2>2
  <2>3. held'[g][depth[g] + 1] = c
    BY <1>1
  <2> QED
    BY <1>1, <2>1, <2>2, <2>3 DEF HeldBy
<1>4. OwnedBy(g)' = OwnedBy(g) \cup {c}
  BY <1>3 DEF OwnedBy
<1>5. \A h \in Goroutines : h # g => OwnedBy(h)' = OwnedBy(h)
  BY <1>3 DEF OwnedBy
<1> QED
  BY <1>4, <1>5 DEF Owned

LEMMA PopDisowns ==
    ASSUME TypeOK, Exclusive, NEW g \in Goroutines, depth[g] > 0, Pop(g),
           Top(g) \in Clients
    PROVE  /\ Owned' = [Owned EXCEPT ![g] = @ \ {Top(g)}]
           /\ Top(g) \in Owned[g]
<1>1. /\ depth[g] \in Levels
      /\ \A h \in Goroutines, l \in Levels :
           held'[h][l] = IF h = g /\ l = depth[g] THEN NoClient ELSE held[h][l]
  BY PopSlots
<1>2. Top(g) = held[g][depth[g]]
  BY DEF Top
<1>3. ASSUME NEW h \in Goroutines, NEW d \in Clients
      PROVE  HeldBy(h, d)' <=> HeldBy(h, d) /\ ~(h = g /\ d = Top(g))
  <2>1. ASSUME NEW l \in Levels, held[h][l] = d, ~(h = g /\ d = Top(g))
        PROVE  held'[h][l] = d
    BY <1>1, <1>2, <2>1
  <2>2. ASSUME NEW l \in Levels, held'[h][l] = d
        PROVE  held[h][l] = d /\ ~(h = g /\ l = depth[g])
    BY <1>1, <2>2
  <2>3. ASSUME NEW l \in Levels, held[g][l] = Top(g) PROVE l = depth[g]
    BY <1>1, <1>2, <2>3 DEF Exclusive
  <2> QED
    BY <2>1, <2>2, <2>3 DEF HeldBy
<1>4. \A h \in Goroutines : h # g => OwnedBy(h)' = OwnedBy(h)
  BY <1>3 DEF OwnedBy
<1>5. \A d \in Clients : d \in OwnedBy(g)' <=> d \in OwnedBy(g) /\ d # Top(g)
  BY <1>3 DEF OwnedBy
<1>6. OwnedBy(g)' = OwnedBy(g) \ {Top(g)}
  BY <1>5 DEF OwnedBy
<1>7. Top(g) \in OwnedBy(g)
  BY <1>1, <1>2 DEF OwnedBy, HeldBy
<1> QED
  BY <1>4, <1>6, <1>7 DEF Owned

\* Popping a nil client changes nothing a client is part of.
LEMMA PopNilSame ==
    ASSUME TypeOK, NEW g \in Goroutines, depth[g] > 0, Pop(g), Top(g) = NoClient
    PROVE  Owned' = Owned
<1>1. /\ depth[g] \in Levels
      /\ \A h \in Goroutines, l \in Levels :
           held'[h][l] = IF h = g /\ l = depth[g] THEN NoClient ELSE held[h][l]
  BY PopSlots
<1>2. \A h \in Goroutines, l \in Levels : held'[h][l] = held[h][l]
  BY <1>1 DEF Top
<1>3. \A h \in Goroutines : OwnedBy(h)' = OwnedBy(h)
  BY <1>2 DEF OwnedBy, HeldBy
<1> QED
  BY <1>3 DEF Owned

\* A received value leaves the shared clients, a sent one joins them.
LEMMA RecvUnshares ==
    ASSUME TypeOK, Exclusive, buf # << >>, buf' = Tail(buf)
    PROVE  /\ Head(buf) \in Clients =>
                Head(buf) \in Shared /\ Shared' = Shared \ {Head(buf)}
           /\ Head(buf) = NoClient => Shared' = Shared
<1>1. /\ Len(buf) \in Nat \ {0}
      /\ Len(buf') = Len(buf) - 1
      /\ \A i \in 1..Len(buf') : buf'[i] = buf[i + 1]
      /\ Head(buf) = buf[1]
  BY RecvBuf
<1>2. \A i \in 1..Len(buf) : i = 1 \/ (i - 1 \in 1..Len(buf') /\ buf'[i - 1] = buf[i])
  BY <1>1
<1>3. ASSUME NEW c \in Clients
      PROVE  InBuf(c) <=> c = buf[1] \/ InBuf(c)'
  BY <1>1, <1>2 DEF InBuf
<1>4. ASSUME NEW c \in Clients, c = buf[1] PROVE ~InBuf(c)'
  BY <1>1, <1>4 DEF InBuf, Exclusive
<1>5. CASE Head(buf) \in Clients
  BY <1>1, <1>3, <1>4, <1>5 DEF Shared
<1>6. CASE Head(buf) = NoClient
  BY <1>1, <1>3, <1>6 DEF Shared
<1> QED
  BY <1>5, <1>6

LEMMA SendShares ==
    ASSUME TypeOK, NEW c \in Clients \cup {NoClient}, buf' = Append(buf, c)
    PROVE  /\ c \in Clients => Shared' = Shared \cup {c}
           /\ c = NoClient => Shared' = Shared
<1>1. /\ Len(buf) \in Nat
      /\ Len(buf') = Len(buf) + 1
      /\ \A i \in 1..Len(buf) : buf'[i] = buf[i]
      /\ buf'[Len(buf) + 1] = c
  BY SendBuf
<1>2. ASSUME NEW d \in Clients
      PROVE  InBuf(d)' <=> InBuf(d) \/ d = c
  BY <1>1 DEF InBuf
<1> QED
  BY <1>2 DEF Shared

LEMMA UnusedFree ==
    ASSUME NoUseAfterClose, NEW c \in Clients, Unused(c)
    PROVE  c \in Ownership!Free
<1>1. /\ \A i \in 1..Len(buf) : buf[i] # c
      /\ \A g \in Goroutines, l \in Levels : held[g][l] # c
  BY UnusedNowhere
<1> QED
  BY <1>1 DEF Ownership!Free, InBuf, HeldBy

LEMMA PushNilSame ==
    ASSUME TypeOK, NEW g \in Goroutines, depth[g] < MaxDepth, Push(g, NoClient)
    PROVE  \A h \in Goroutines, l \in Levels : held'[h][l] = held[h][l]
<1>1. /\ depth[g] + 1 \in Levels
      /\ \A h \in Goroutines, l \in Levels :
           held'[h][l] = IF h = g /\ l = depth[g] + 1 THEN NoClient ELSE held[h][l]
  BY PushSlots
<1>2. held[g][depth[g] + 1] = NoClient
  BY <1>1, TypedStack DEF StackOK, TypeOK
<1> QED
  BY <1>1, <1>2

-----------------------------------------------------------------------------
(* One lemma per way a client moves. *)

LEMMA TakeImplements ==
    ASSUME TypeOK, Exclusive, NEW g \in Goroutines, depth[g] < MaxDepth,
           buf # << >>, buf' = Tail(buf), Push(g, Head(buf)), closed' = closed
    PROVE  OwnershipStep
<1>1. Head(buf) \in Clients \cup {NoClient}
  BY HeadTailProperties DEF TypeOK
<1>2. CASE Head(buf) \in Clients
  <2>1. Head(buf) \in Shared /\ Shared' = Shared \ {Head(buf)}
    BY <1>2, RecvUnshares
  <2>2. Owned' = [Owned EXCEPT ![g] = @ \cup {Head(buf)}]
    BY <1>2, PushOwns
  <2>3. Ownership!Take(g, Head(buf))
    BY <2>1, <2>2 DEF Ownership!Take, Shared, Owned, OwnedBy
  <2> QED
    BY <1>2, <2>3 DEF OwnershipStep, Ownership!Next
<1>3. CASE Head(buf) = NoClient
  <2>1. Shared' = Shared
    BY <1>3, RecvUnshares
  <2>2. \A h \in Goroutines, l \in Levels : held'[h][l] = held[h][l]
    BY <1>3, PushNilSame
  <2>3. \A h \in Goroutines : OwnedBy(h)' = OwnedBy(h)
    BY <2>2 DEF OwnedBy, HeldBy
  <2>4. Owned' = Owned
    BY <2>3 DEF Owned
  <2> QED
    BY <2>1, <2>4 DEF OwnershipStep, Ownership!vars, Shared, Owned, OwnedBy
<1> QED
  BY <1>1, <1>2, <1>3

LEMMA DialImplements ==
    ASSUME TypeOK, NoUseAfterClose, NEW g \in Goroutines, NEW c \in Clients,
           depth[g] < MaxDepth, Unused(c), Push(g, c), buf' = buf, closed' = closed
    PROVE  OwnershipStep
<1>1. c \in Ownership!Free
  BY UnusedFree
<1>2. Owned' = [Owned EXCEPT ![g] = @ \cup {c}]
  BY PushOwns
<1>3. Shared' = Shared
  BY DEF Shared, InBuf
<1>4. Ownership!Dial(g, c)
  BY <1>1, <1>2, <1>3 DEF Ownership!Dial, Shared, Owned, OwnedBy
<1> QED
  BY <1>4 DEF OwnershipStep, Ownership!Next

LEMMA StockImplements ==
    ASSUME TypeOK, Exclusive, fresh # NoClient, ~closed,
           buf' = Append(buf, fresh), held' = held, closed' = closed
    PROVE  OwnershipStep
<1>1. fresh \in Clients /\ fresh \in Ownership!Free
  BY DEF TypeOK, Exclusive, Ownership!Free, InBuf, HeldBy
<1>2. \A g \in Goroutines : OwnedBy(g)' = OwnedBy(g)
  BY DEF OwnedBy, HeldBy
<1>3. Owned' = Owned
  BY <1>2 DEF Owned
<1>4. Shared' = Shared \cup {fresh}
  BY <1>1, SendShares
<1>5. Ownership!Stock(fresh)
  BY <1>1, <1>3, <1>4 DEF Ownership!Stock, Shared, Owned, OwnedBy
<1> QED
  BY <1>1, <1>5 DEF OwnershipStep, Ownership!Next

LEMMA GiveImplements ==
    ASSUME TypeOK, Exclusive, NEW g \in Goroutines, depth[g] > 0, ~closed,
           buf' = Append(buf, Top(g)), Pop(g), closed' = closed
    PROVE  OwnershipStep
<1>1. Top(g) \in Clients \cup {NoClient}
  BY DEF Top, TypeOK
<1>2. CASE Top(g) \in Clients
  <2>1. Owned' = [Owned EXCEPT ![g] = @ \ {Top(g)}] /\ Top(g) \in Owned[g]
    BY <1>2, PopDisowns
  <2>2. Shared' = Shared \cup {Top(g)}
    BY <1>2, SendShares
  <2>3. Ownership!GiveBack(g, Top(g))
    BY <2>1, <2>2 DEF Ownership!GiveBack, Shared, Owned, OwnedBy
  <2> QED
    BY <1>2, <2>3 DEF OwnershipStep, Ownership!Next
<1>3. CASE Top(g) = NoClient
  <2>1. Owned' = Owned
    BY <1>3, PopNilSame
  <2>2. Shared' = Shared
    BY <1>1, <1>3, SendShares
  <2> QED
    BY <2>1, <2>2 DEF OwnershipStep, Ownership!vars, Shared, Owned, OwnedBy
<1> QED
  BY <1>1, <1>2, <1>3

LEMMA DiscardImplements ==
    ASSUME TypeOK, Exclusive, NEW g \in Goroutines, depth[g] > 0,
           buf' = buf, Pop(g), closed' = closed
    PROVE  OwnershipStep
<1>1. Top(g) \in Clients \cup {NoClient}
  BY DEF Top, TypeOK
<1>2. Shared' = Shared
  BY DEF Shared, InBuf
<1>3. CASE Top(g) \in Clients
  <2>1. Owned' = [Owned EXCEPT ![g] = @ \ {Top(g)}] /\ Top(g) \in Owned[g]
    BY <1>3, PopDisowns
  <2>2. Ownership!Discard(g, Top(g))
    BY <1>2, <2>1 DEF Ownership!Discard, Shared, Owned, OwnedBy
  <2> QED
    BY <1>3, <2>2 DEF OwnershipStep, Ownership!Next
<1>4. CASE Top(g) = NoClient
  <2>1. Owned' = Owned
    BY <1>4, PopNilSame
  <2> QED
    BY <1>2, <2>1 DEF OwnershipStep, Ownership!vars, Shared, Owned, OwnedBy
<1> QED
  BY <1>1, <1>3, <1>4

LEMMA DrainImplements ==
    ASSUME TypeOK, Exclusive, closed, buf # << >>, buf' = Tail(buf),
           held' = held, closed' = closed
    PROVE  OwnershipStep
<1>1. Head(buf) \in Clients \cup {NoClient}
  BY HeadTailProperties DEF TypeOK
<1>2. \A g \in Goroutines : OwnedBy(g)' = OwnedBy(g)
  BY DEF OwnedBy, HeldBy
<1>3. Owned' = Owned
  BY <1>2 DEF Owned
<1>4. CASE Head(buf) \in Clients
  <2>1. Head(buf) \in Shared /\ Shared' = Shared \ {Head(buf)}
    BY <1>4, RecvUnshares
  <2>2. Ownership!Drain(Head(buf))
    BY <1>3, <2>1 DEF Ownership!Drain, Shared, Owned, OwnedBy
  <2> QED
    BY <1>4, <2>2 DEF OwnershipStep, Ownership!Next
<1>5. CASE Head(buf) = NoClient
  <2>1. Shared' = Shared
    BY <1>5, RecvUnshares
  <2> QED
    BY <1>3, <2>1 DEF OwnershipStep, Ownership!vars, Shared, Owned, OwnedBy
<1> QED
  BY <1>1, <1>4, <1>5

LEMMA ShutImplements ==
    ASSUME ~closed, closed' = TRUE, buf' = buf, held' = held
    PROVE  OwnershipStep
<1>1. Shared' = Shared
  BY DEF Shared, InBuf
<1>2. \A g \in Goroutines : OwnedBy(g)' = OwnedBy(g)
  BY DEF OwnedBy, HeldBy
<1>3. Owned' = Owned
  BY <1>2 DEF Owned
<1>4. Ownership!Shut
  BY <1>1, <1>3 DEF Ownership!Shut, Shared, Owned, OwnedBy
<1> QED
  BY <1>4 DEF OwnershipStep, Ownership!Next

LEMMA ErrorImplements ==
    ASSUME TypeOK, NEW g \in Goroutines, depth[g] < MaxDepth, AcquireError(g),
           buf' = buf, closed' = closed
    PROVE  OwnershipStep
<1>1. CASE ScanCall(g)
  <2>1. \A h \in Goroutines, l \in Levels : held'[h][l] = held[h][l]
    BY <1>1, PushNilSame DEF AcquireError
  <2> QED
    BY <2>1, SameImplements
<1>2. CASE ~ScanCall(g)
  BY <1>2, SameImplements DEF AcquireError
<1> QED
  BY <1>1, <1>2

-----------------------------------------------------------------------------

\* The constructor stocks a pool that nobody can have closed yet.
NotYetClosed ==
    ~Ready => ~closed /\ \A g \in Goroutines : pc[g] = "run"

LEMMA InitNotYetClosed == Init => NotYetClosed
  BY DEF Init, NotYetClosed

LEMMA NextNotYetClosed ==
    TypeOK /\ NotYetClosed /\ [Next]_vars => NotYetClosed'
<1> SUFFICES ASSUME TypeOK, NotYetClosed, [Next]_vars PROVE NotYetClosed'
  OBVIOUS
<1>1. CASE UNCHANGED vars
  BY <1>1 DEF vars, NotYetClosed, Ready
<1>2. ASSUME NEW c \in Clients, NewDial(c) PROVE NotYetClosed'
  BY <1>2 DEF NewDial, NotYetClosed, Ready, TypeOK
<1>5. CASE NewPut
  BY <1>5 DEF NewPut, NotYetClosed, Ready, TypeOK
<1>3. CASE NewDialFails
  BY <1>3 DEF NewDialFails, NotYetClosed, Ready, TypeOK
<1>4. ASSUME NEW g \in Goroutines, GoroutineStep(g) PROVE NotYetClosed'
  <2>1. Ready /\ Ready' = Ready
    <3>1. pc[g] # "run" => Ready
      BY DEF NotYetClosed
    <3>2. dials' = dials
      BY <1>4 DEF GoroutineStep, AcquireRecv, AcquireClosed, AcquireDial, DialOk,
         DialFail, BeginRelease, ReleaseLock, ReleaseToClosed, ReleaseCheck, ReleasePut,
         ReleaseFull, BeginClose, CloseLock, CloseChan, CloseDrain, CloseDone
    <3>3. Ready \/ pc[g] # "run"
      BY <1>4 DEF GoroutineStep, AcquireRecv, AcquireClosed, AcquireDial, DialOk,
         DialFail, BeginRelease, ReleaseLock, ReleaseToClosed, ReleaseCheck, ReleasePut,
         ReleaseFull, BeginClose, CloseLock, CloseChan, CloseDrain, CloseDone, Running
    <3> QED
      BY <3>1, <3>2, <3>3 DEF Ready
  <2> QED
    BY <2>1 DEF NotYetClosed
<1> QED
  BY <1>1, <1>2, <1>3, <1>4, <1>5 DEF Next

LEMMA NextImplements ==
    TypeOK /\ MutexInv /\ OwnInv /\ NotYetClosed /\ [Next]_vars => OwnershipStep
<1> SUFFICES ASSUME TypeOK, MutexInv, OwnInv, NotYetClosed, [Next]_vars
             PROVE  OwnershipStep
  OBVIOUS
<1> Exclusive /\ NoUseAfterClose
  BY DEF OwnInv
<1>1. CASE UNCHANGED vars
  BY <1>1, SameImplements DEF vars
<1>2. ASSUME NEW c \in Clients, NewDial(c) PROVE OwnershipStep
  BY <1>2, SameImplements DEF NewDial
<1>5. CASE NewPut
  <2>1. ~closed
    BY <1>5 DEF NewPut, NotYetClosed, Ready, TypeOK, InitDials
  <2> QED
    BY <1>5, <2>1, StockImplements DEF NewPut
<1>3. CASE NewDialFails
  BY <1>3, SameImplements DEF NewDialFails
<1>4. ASSUME NEW g \in Goroutines, GoroutineStep(g) PROVE OwnershipStep
  <2>1. CASE AcquireRecv(g)
    BY <2>1, TakeImplements DEF AcquireRecv
  <2>2. CASE AcquireClosed(g)
    BY <2>2, ErrorImplements DEF AcquireClosed
  <2>3. CASE AcquireDial(g)
    BY <2>3, SameImplements DEF AcquireDial
  <2>4. ASSUME NEW c \in Clients, DialOk(g, c) PROVE OwnershipStep
    BY <2>4, DialImplements, TypedStack DEF DialOk, StackOK
  <2>5. CASE DialFail(g)
    BY <2>5, ErrorImplements, TypedStack DEF DialFail, StackOK
  <2>6. CASE BeginRelease(g)
    BY <2>6, SameImplements DEF BeginRelease
  <2>7. CASE ReleaseLock(g)
    BY <2>7, SameImplements DEF ReleaseLock
  <2>8. CASE ReleaseToClosed(g)
    BY <2>8, DiscardImplements, TypedStack DEF ReleaseToClosed, StackOK
  <2>9. CASE ReleaseCheck(g)
    BY <2>9, SameImplements DEF ReleaseCheck
  <2>10. CASE ReleasePut(g)
    <3>1. ~closed /\ ~chClosed
      BY <2>10 DEF ReleasePut, MutexInv
    <3>2. depth[g] > 0
      BY <2>10, TypedStack DEF ReleasePut, StackOK
    <3> QED
      BY <2>10, <3>1, <3>2, GiveImplements DEF ReleasePut
  <2>11. CASE ReleaseFull(g)
    BY <2>11, DiscardImplements, TypedStack DEF ReleaseFull, StackOK
  <2>12. CASE BeginClose(g)
    BY <2>12, SameImplements DEF BeginClose
  <2>13. CASE CloseLock(g)
    <3>1. CASE closed
      BY <2>13, <3>1, SameImplements DEF CloseLock
    <3>2. CASE ~closed
      BY <2>13, <3>2, ShutImplements DEF CloseLock
    <3> QED
      BY <3>1, <3>2
  <2>14. CASE CloseChan(g)
    BY <2>14, SameImplements DEF CloseChan
  <2>15. CASE CloseDrain(g)
    <3>1. closed
      BY <2>15 DEF CloseDrain, MutexInv
    <3> QED
      BY <2>15, <3>1, DrainImplements DEF CloseDrain
  <2>16. CASE CloseDone(g)
    BY <2>16, SameImplements DEF CloseDone
  <2> QED
    BY <1>4, <2>1, <2>2, <2>3, <2>4, <2>5, <2>6, <2>7, <2>8, <2>9, <2>10, <2>11,
       <2>12, <2>13, <2>14, <2>15, <2>16 DEF GoroutineStep
<1> QED
  BY <1>1, <1>2, <1>3, <1>4, <1>5 DEF Next

\* The pool keeps the promises of ClientOwnership: it never lends a client
\* twice and takes nothing back once it is shut.
THEOREM OwnershipImplemented == Spec => ImplementsOwnership
<1>1. Init => TypeOK /\ MutexInv /\ OwnInv /\ NotYetClosed
  BY InitTyped, InitMutex, InitOwned, InitNotYetClosed
<1>2. TypeOK /\ MutexInv /\ OwnInv /\ NotYetClosed /\ [Next]_vars
        => (TypeOK /\ MutexInv /\ OwnInv /\ NotYetClosed)'
  BY NextTyped, NextMutex, NextOwned, NextNotYetClosed
<1>3. TypeOK /\ MutexInv /\ OwnInv /\ NotYetClosed /\ [Next]_vars
        => [Ownership!Next]_(Ownership!vars)
  BY NextImplements DEF OwnershipStep
<1> QED
  BY <1>1, <1>2, <1>3, InitImplements, PTL
  DEF Spec, ImplementsOwnership, Ownership!Spec
=============================================================================
