# FbSdk in TLA+

FbSdk is a Go client for an Ethereum-like chain (package `blx`) together with a
copy of a set of cryptographic packages (`libs`, `util`). This directory holds
its specifications: TLA+ modules translated from the source, TLC configurations
that check them on small instances, and proofs for every value of the constants
that TLAPS checks.

    tlc -config pool_safe.cfg MCClientPool      # any run: see PROJECT.json
    tlapm ClientPool_proofs.tla                 # any *_proofs module

## The system

| component | state | operations | talks to |
|---|---|---|---|
| client pool, `Jk` in `blx/fbclient.go:55-161` | the channel `cons`, the mutex `m`, the flag `closed`; which connections are open | `NewJk`, `Acquire`, `Release`, `Close` | every other call of `blx` runs between an `Acquire` and a deferred `Release`; the factory dials the node |
| block scanner, `fbclient.go:1170-1437` | `latestNumber.info`, `errtx.info`, the mutex of one `StartScan`, the locals of a round | `StartScan`, `ExecuteBlocks`, `readLatestNumber`, `writeLatestNumber`, `writeErrorTx` | the pool, the node, the user's callback, two files |
| senders, `fbclient.go:328-1148` | none of their own; the account's transactions at the node | seven `Send...` calls | the pool, the node, each other through the account's nonce |
| queries, `fbclient.go:163-326`, `1150-1168`, `1272-1315` | none | `GetBalanceOf`, `GetPendingNonce`, `GetBalanceOfContract`, `GetSymbolOfContract`, `IsContract`, `Get...ByHash` | the pool and the node; `GetBalanceOfContract` is called while a sender holds a client, `GetTransactionReceiptByHash` while `SendRawTx` does |
| threshold multisignatures and compact bit array, `libs/crypto/multisig` | the bit array and the list of signatures | `AddSignature`, `AddSignatureFromPubKey`, `VerifyBytes`, the encodings of the array | key types, amino |
| libsecp256k1, in `libs/crypto/secp256k1/internal` (C, compiled with cgo) | a context: the table for the generator and its blinding pair; keys and signatures belong to the caller | keys, tweaks, signatures, recovery, ecdh, DER, hashes | `secp256.go` calls it; its callback panics in Go |
| `secp256k1` in Go (`internal/secp256k1/*.go`, `secp256k1*.go`) | the context of the package | `Sign`, `RecoverPubkey`, `VerifySignature`, ...; the Jacobian formulas in `curve.go` | libsecp256k1 or btcec |
| random numbers, `libs/crypto/rand` | a generator under a mutex | `Seed`, `Str`, `Intn`, ... | |
| address types, `util/types`, `libs/bech32` | none | parse and print in hex and bech32, JSON, YAML | |
| amino codec of keys, `libs/crypto/encoding/amino` | tables filled at start | encode and decode with a type prefix | key types |
| `ed25519`, `sr25519` keys | none | generate, sign, verify | libraries |
| ciphers, armor, hashes, byte strings, logger, ABI text | none | | |

libsecp256k1 is a copy that the package compiles itself. Half of the repository's
implementation is in it, and it is where values that tests never meet decide (a coordinate
above the order of the group, two points whose difference makes a formula 0/0, a limb one
bit too long); so it is modelled layer by layer, each in the configuration that
`secp256.go` selects: field elements of 10 limbs of 26 bits, scalars of 8 words of 32 bits,
no endomorphism, tables built at run time.

What is hard in it, and hardly reached by a test (every item is under `hazards` in
`PROJECT.json` with its line):

* the pool's channel is received from without the lock that guards its closing;
* calls that dial while the pool closes, dials that fail, and what a caller gives back who got
  no client;
* a scan that may stop anywhere between a callback and the record of a block, a chain
  that takes blocks back, unsigned subtraction, a file that is overwritten in place;
* concurrent calls for one account that race for nonces, answers that get lost, polls
  that run out, callers that try again;
* signatures without an index of their own, which only their order ties to the set bits;
* limbs that are not carried, whose bounds are kept in comments only; formulas and
  recodings with exceptional points; a context that is blinded with what it is blinded by;
* two sides that tweak a secret and a public key apart from each other; nonces that are
  refused and replaced; texts with more than one form for one signature.

What makes each component correct: the *pool* never lends a client twice, never
closes one in use, loses none and lets everybody finish; the *scanner* hands over
every transaction of the chain in order and resumes where it stopped; the *senders*
say what really happened to the transaction and let a careful caller pay exactly
once; a *multisignature* verifies whenever enough valid signatures were added,
in whatever order; the *curve library* computes the group law and the arithmetic modulo the
prime and the order for all operands, its signatures are exactly those of the definition,
and no key that it has stored makes it call back.

## Modules

### ClientPool: the pool

| variable | code |
|---|---|
| `buf`, `chClosed` | the channel `j.cons` and whether `close(j.cons)` has run |
| `closed`, `mu` | `j.closed`, and the holder of `j.m` |
| `conn` | what each client is connected to (closed clients to nothing) |
| `dials`, `fresh` | the loop of `NewJk` and its local `ec`, between the dial and the send |
| `pc`, `depth`, `held` | each goroutine's place in `Acquire`/`Release`/`Close` and the clients of its nested calls |
| `panics` | goroutines that raised a run-time panic, which ends the program |

`Acquire` is one `select`: a receive (`AcquireRecv`), the closed channel
(`AcquireClosed`) or the factory, which dials outside any lock (`AcquireDial`, then
`DialOk` or `DialFail`). `Release` takes the lock, looks at `closed` and then either
closes the client or does its own `select` (`ReleaseLock`, `ReleaseCheck` or
`ReleaseToClosed`, `ReleasePut` or `ReleaseFull`). The check and the send are two steps,
so that only the lock keeps `Close` from coming in between; a send on the closed channel would be a
panic. `Close` is a lock step,
the close of the channel and the iterations of the drain loop, while other goroutines
go on receiving. A *scanner* is a goroutine whose outermost call is `ExecuteBlocks`,
which defers the release before it looks at `Acquire`'s error: it releases nil.

`ClientOwnership` is the abstract specification: a client is free, shared or owned by one
goroutine, and nothing becomes shared once the pool is shut. `ClientPool` implements
it with `shared` the clients in the channel, `owned` those in a goroutine's stack and
`shut` the flag.

### BlockScan: the scanner

| variable | code |
|---|---|
| `head`, `chain`, `top` | the node's chain (external); `top` is the highest head so far |
| `file` | `latestNumber.info` as a number of digits and a value |
| `errs`, `done`, `lost` | `errtx.info`; transactions whose callback succeeded; those whose callback failed and that could not be logged (the last two are history) |
| `cons`, `shut` | the pool's channel, as far as a round can tell: which of its entries are clients and which nil; whether the pool is closed |
| `prog` | the program is up, was killed, or ended by a panic |
| `mu` | the mutexes handed to `ExecuteBlocks` |
| `pc`, `highest`, `height`, `limit`, `block`, `idx` | the position and the locals of a round |
| `crashes` | restarts |

One step is one query of the node, one callback, or one access to a file; the
mutex and the deferred unlock are in `Lock` and `Return`. Subtraction and addition are
modulo `Word`. `Overwrite` says what writing a number at the start of a file that is
not truncated leaves in it. `FirstArg` is the argument that really arrives: 0 from
`StartScan`. A read that fails
yields the head, which ends the round whichever way the difference comes out, so `ReadFails`
returns at once.

A round takes its client in `Acquire` and gives it back in `Return`. The deferred release is set
before `Acquire`'s error is looked at: a round that got none (`AcquireFails`) releases nil, which goes
into the channel if the pool is open and has room (`ReleaseNil`) and is a panic otherwise
(`ReleaseNilCloses`). Who acquires that nil gets it without an error and panics at its first query
(`AcquireNil`; `OthersAcquireNil` for other users of the pool), and so does `Close` (`OthersCloseNil`). Nothing
in the package recovers a panic: it ends the program, as a kill does (`Crash`), and only the files
stay. `prog` tells the two apart. `Restart` is somebody starting the program again.

`BlockFeed` is the abstract specification: blocks after a first number in order,
transactions of the current block delivered in any order and possibly again, and
the feed moves on only when all transactions of one block of that height are dealt with.

### SendTx: the senders

One account, a set of payments, one call at a time for each. The node's pool and
chain (external) take a transaction if its nonce is not used and, if the nonce is
pending, only at a higher price; `PendingNonce` is the first nonce not taken without
a gap. The seven calls are one state machine; what tells them apart in the code are
six predicates: who polls (`Waits`), who returns the errors of the price and balance
queries (`ChecksQuote`; the others go on with nil and panic at `NilQuote`), who ignores
the nonce query's error (`IgnoresNonceError`), who estimates gas (`Estimates`), whose
nonce is the caller's (`FixedNonce`), and the place of the nonce query
(`SendContractInputDataSync` asks after the gas check, the others before). Amounts are
abstracted to a check that may fail (`Refuse`). A round of the polling loop is two steps, the timer (`Timer`) and the receipt, which has three
outcomes: success or failure ends the call (`Receipt`), no receipt counts as a try (`NoReceipt`), and a
receipt of success whose block number is nil does neither, so that the loop goes on without coming nearer
to its end (`NoBlock`). `Retriable` is the discipline of the
callers, not of the code: with a nonce of its own a payment may be tried again after any
error, without one only after an error that says that nothing is under way. `PaidOnce` is
about callers who keep to it. The pool is taken to hand out working clients here.

### Multisig: threshold multisignatures

`mSig` is the `Multisignature`: its bit array (the number of extra bits and the bytes, a byte
being the set of its bits) and its list of signatures. `AddSignature` finds the place of a
signature by counting the bits before it and replaces or inserts; `AddSignatureFromPubKey`
looks for the *first* index of the key; `SendJSON` and `SendCompact` put the array through
both of its encodings. `VerifyBytes` is the method of `PubKeyMultisigThreshold`, with the
signature check of the cosigners' keys as the set `Genuine`. `Added` is the body of
`AddSignature` without its panics.

`Threshold` is the abstract specification, a function from cosigners to the last signature
each of them gave. `ImplementsThreshold` maps a multisignature to it by giving the n-th
signature to the n-th set bit. Signatures may also be added to an index the array does not
have: `SetIndex` then returns false, the signature is added all the same, and nothing is left
to say whose it is; that is a stutter of `Threshold`, and `VerifyExact` shows that such
a multisignature does not verify.

### libsecp256k1, from the limbs up

| module | code | state | correct if |
|---|---|---|---|
| `Field` | `field.h` and `field_impl.h`: an element as its callers see it, a value with a magnitude and a flag *normalized* | none | (contract of the next) |
| `Field10x26` | `field_10x26_impl.h`, limb by limb: the carries, the two passes of `fe_normalize`, the column sums of `fe_mul_inner` | `fr` (limbs), `fe` (the contract's element) | `LimbsKept`, `LimbAnswers`: the limbs stay within their magnitude and stand for the contract's value |
| `Group` | `group_impl.h`: formulas over `Field`, with the magnitudes they pass through | none | |
| `CurveLaw` | (reference) the textbook group law, and the multiples of the generator | none | |
| `Points` | calls of `group_impl.h` in any order on one point | `acc`, `sum` (the multiple it should be) | `GroupLaw`, `PredicatesTrue` |
| `AddChain` | `fe_sqrt`, `fe_inv`, `scalar_inverse`, register by register, at real size | `chain`, `pc`, `reg` (exponents) | `ChainExponent` |
| `Scalar` | `scalar_low_impl.h` and `scalar_impl.h`: a scalar by its value | none | |
| `Scalar8x32` | `scalar_8x32_impl.h`, word by word: carries found by comparisons, the accumulator of three words, the folds of `scalar_reduce_512` | `sd` (words), `sv` (the value) | `ScalarExact`, `ScalarAnswers` |
| `Ecmult` | `ecmult_impl.h`, `ecmult_const_impl.h`: recodings, tables of odd multiples on a common z, the two loops, one digit per step | `mul`, `wna`, `wng`, `pre`, `zed`, `pos`, `prod` | `WnafForm`, `EcmultLaw` (also in the middle of the loops) |
| `EcmultGen` | `ecmult_gen_impl.h`: building the table, blinding, one row per step | `gctx`, `gpc`, `gn`, `gfor`, `grow`, `gsum` | `GenLaw` |
| `Ecdsa` | `ecdsa_impl.h`, `eckey_impl.h`, `recovery/main_impl.h`: signing, verifying, recovering, tweaks, as functions; products are taken from the group law, which the two modules above show | none | |
| `Secp256k1` | `secp256k1.c`, the modules recovery and ecdh, `ext.h`: the calls, with what they write, their return value and the callback | `actx`, `seck`, `spub`, the tweaks on each side, the signature (`made`, `asig`), the nonce being tried, `illegal` | `TweaksAgree`, `NeverIllegal`, `SignatureHolds`, `VerifiesExactly` |
| `Der` | both parsers and the serializer of DER signatures, on a text that is edited | `text`, `edits` | `DerCanonical` |
| `Sha256`, `Hashing` | `hash_impl.h` at real size, fed in pieces, and `nonce_function_rfc6979` | `hjob`, `hstate`, `fed`, `hout` | `HashExact` on the vectors of `tests.c` (`HashVectors`) |

An operation outside its contract does not stop the library (the build defines no `VERIFY`), it
goes on with a wrong value. In `Field` its result has the magnitude `Broken`, which later
operations keep, so that a formula that lets a magnitude grow too far is seen wherever the
result is used. `Field10x26` has the bounds that make the magnitudes of `Field` true.

`MCCrypto` puts these parts side by side: a behaviour picks one (`part`) and runs it.

## Runs

| run | instance | what it shows |
|---|---|---|
| `pool_safe` | 3 goroutines (1 scanner), 5 clients, pool size 1, nesting 2, failing dials | `TypeOK`; `Exclusive`, `NoUseAfterClose`, `NoLeak`: clients are handed out once, not closed in use, not lost; `NoSendOnClosed`; `ImplementsOwnership` |
| `pool_live` | 2 goroutines, 4 clients, no scanner | `NoPanic`, a send on the closed channel included; `CloseReleasesAll`; `ConstructorReturns`; `CallsReturn` |
| `pool_net` (violated) | pool made for another network | `ConfiguredNet`: the factory dials `MainNet` |
| `scan_safe` | 2 goroutines, 1 mutex, that call `ExecuteBlocks` with start number 1, heights 1-4, blocks of 1 or 2 transactions, 1 block taken back, a pool of size 1, every failure, 1 restart | `TypeOK`, `NothingSkipped`, `OnlyNextBlock`, `FileExact`, `ImplementsFeed` |
| `scan_live` | 1 goroutine started by `StartScan`, heights 1-3, blocks of 0 or 1 transactions, 1 block taken back, a pool of size 1 that others use and close, every failure, 1 restart | `Confirmed`, `CatchesUp` |
| `scan_start` (violated) | start number 3 | `StartHonoured`: the first block delivered is 1 |
| `scan_nil` (violated) | one scanner alone with its pool | `Continues`: a dial that fails leaves nil in the channel, and the next round panics on it (on a closed pool the release of nil panics itself) |
| `send_safe` | 2 payments, one by all seven calls, 2 calls each, prices 1-2, 1 poll, every failure | `TypeOK`, `VerdictTrue`, `RefusedClean`, `PaidOnce` |
| `send_live` | the same calls, 2 polls, lost and failing queries, receipts without a block number | `CallsReturn`: every call returns unless such receipts come again and again |
| `send_batch` | 3 concurrent `SendContractSyncWithNonce` with consecutive nonces | `BatchAccepted`, `BatchMined` |
| `send_fresh` (violated) | the same batch, first nonce 0 | `BatchAccepted`: nonce 0 is refused |
| `crypto` | the parts of libsecp256k1 and the multisignature, one at a time; see the bounds | the properties in the table above; `VerifyExact`, `ImplementsThreshold` |

The four violated properties state what a comment, an error text or a test of the
repository expects; `findings` in `PROJECT.json` quotes them.

**Bounds.** *Pool:* with size 1 the channel is empty, full and overflowing after
two calls; two nested calls per goroutine are what the code nests at most; five clients
are more than can be open with the channel full and two goroutines at full depth, so that
dials also run out, which only blocks. `pool_safe` does not check for deadlock: when all
identities of clients are in use a dial cannot go on, and after a panic the program is
over. Size 0 has no
run: `NewJk` then blocks for ever in `NewPut`, on the first client it has dialled, in the model as
in the code. *Scanner:* numbers are written in base 3 in `scan_safe`, whose recorded heights are 2 and 3, and in base 2
in `scan_live`, where they are 1 and 2: the file grows by a digit. Both have a round of two blocks, or two
rounds. In `scan_safe` the head starts behind the start number, so that the subtraction wraps (`Word` is 16) and
the chain may grow again before the round has found its loop empty; with two transactions a round may end in the
middle of a block. With `ForkDepth = 1` a block is replaced after the head was read and before it is fetched;
deeper rollbacks, where the node falls behind what is recorded and blocks the callback has seen are replaced, are
covered by the proofs. A pool of size 1 is empty, holds a client, holds a nil and is full after one
call. `MaxCrashes` counts restarts, and with 1 all of a first life, its end and a second one are covered; the
program may end a second time and then stays down. *Senders:* two payments
are enough for a race for one nonce and for a replacement; two calls each for one
repetition; one or two polls stand for 24 since only reaching the limit matters. Deadlock is
not checked there: when all calls have returned, nothing is left to do. Nor is it in the violated
runs of the scanner, which have no restart.

*crypto:* one run for all its parts since they share the constants of one small curve,
y^2 = x^3 + 7 modulo 43 with the generator (2, 12) of prime order 31. It is chosen so that what
tests never meet on the real curve is common: 43 is 1 modulo 3, as the real prime is, so that
different points with equal x^3 exist, for which the constant-time addition has to switch formulas; the
order is below the prime, so that an x may lie between them; every nonce, scalar and point of the
group occurs. *Limbs:* four of 4 bits, the last of 3, in words of 7 bits, and a prime of the same
form, 2^15 - 16 - 5; with fewer than four there is no limb that is neither
the first, the second nor the last. `MaxOps` operations in a row reach the largest magnitude.
*Scalars:* four words of 2 bits and the order 233; 2^8 - 233 reaches one bit into
the third word as the real one does into the fifth, so the three folds happen. *Multiplications:* windows of 3 and 4,
all scalars for `ecmult_const`, ten at the corners for `ecmult`. *Generator:* three rows of two bits,
blinded again any number of times, with numbers that are rejected. *API:* secrets, tweaks,
messages and nonces at zero, at the ends and above the order; two tweaks per key; one refused nonce. *DER:* bytes of
5 bits, scalars of two bytes and lengths of up to three, so that long forms fit in a short text; one edit anywhere. *Chains and hashes* have
their real size. *Multisignatures:* ten keys, so that the array has a second byte, some of them
equal; arrays for ten, eight (a full byte) and one; indices around the byte's end; up to six signatures,
three needed. Deadlock is not checked: a part may come to its end. The invariants that cost
most are evaluated in the states of their part only (`MCCrypto`). No nonce of the instance has a point
whose x is the order itself (`ApiAssumption`, below).

**Symmetry** is used only in `pool_safe` (clients, and goroutines that are no scanners) and
`scan_safe` (goroutines), whose properties do not tell them apart; the runs with liveness
have none.

**Fairness.** *Pool* (`FairSpec`): a step that cannot block is taken eventually, since the
runtime schedules every goroutine; taking the mutex is strongly fair, since `sync.Mutex` hands
itself to the longest waiter when it starves; each API call returns, that is, starts its deferred
release. Nobody has to start a call or to close the pool. *Scanner:* the timer fires
again and again and a round goes on, one way or the other; the node, the files and the callback may fail any
number of times but not for ever (strong fairness of `Lock`, `GetHead`, `ReadLatest`, `Fetch`, `Handle` and
`Save`); the chain grows. Dials have no such assumption: a round whose dial fails ends the program sooner or later
(`scan_nil`). `CatchesUp` asks for catching up only where the chain stops rolling back and the program in the
end stays up, neither killed nor panicked. Nobody has to restart it, and the other users of the pool do what
they like. *Senders:* a call that has begun
goes on (`FairSpec`), whatever the outcome of a query; for `BatchMined` also the three calls are made
and the node mines what is due (`BatchSpec`). For `CallsReturn` the node need not mine anything;
what it must not do is give a call receipts of success without a block number again and again: these
are not counted, and then no limit ends the call (without that clause TLC finds `CallsReturn` violated).

**Mutants.** Each property of a passing run has a mutant in its module, a definition marked
`Mutant:` just before the one it replaces (a missing lock, a missing check, an off-by-one, a
missing reset); with it TLC finds that property violated.

## Proofs

All proofs hold for any values of the constants that satisfy the named assumptions
(`PoolAssumption`; `ScanAssumption` and `DigitsAssumption`; `SendAssumption`;
`MultisigAssumption`; for the curve `FieldAssumption`, `MagnitudeAssumption`, `PrimeAssumption`,
`CurveAssumption`, `PointsAssumption`, `TableAssumption`, `WindowAssumption`, `PrimeOrderAssumption`, `EcdsaAssumption` and
`ApiAssumption`, see below; for the texts `DerAssumption` and `TextsFitAssumption`). TLC evaluates all of them on the
instances.

| theorem | module | along which argument |
|---|---|---|
| `TypeCorrect`, `MutexCorrect` | `ClientPool_proofs` | `TypeOK` is inductive by itself; `MutexInv` says who is in the locked code and when the channel may be closed, and gives `NoSendOnClosed` |
| `OwnershipCorrect` | `ClientPool_proofs` | `OwnInv`: the conjunction of `Exclusive`, `NoUseAfterClose` and `NoLeak` is inductive with `TypeOK`; none is without the others, as a client could otherwise be dialled while in use |
| `UseCorrect`, `LeakCorrect` | `ClientPool_proofs` | the other two parts of `OwnInv` |
| `NoPanicCorrect` | `ClientPool_proofs` | `NilInv`: without scanners no nil is in the channel or to be released |
| `OwnershipImplemented` | `ClientPool_proofs` | every step maps to a step of `ClientOwnership` or a stutter, under these invariants |
| `ScanCorrect` | `BlockScan_proofs` | `IInv`: with one mutex only one goroutine is in a round (`MutexHeld`), and its locals relate to the file (`RoundInv`): it works on the block after the recorded one, below the head it was told, also when the node has since fallen behind or the subtraction has wrapped; so the file only gets longer (`OverwriteExact`), and the wrapped arithmetic comes back to the head (`LimitIsHighest`) |
| `ScanTyped`, `NextBlockOnly`, `FileStaysExact` | `BlockScan_proofs` | parts of `ScanCorrect`: a round's locals keep their types only because the mutex keeps the file at or below the head it was told |
| `FeedImplemented` | `BlockScan_proofs` | dealing with a transaction is a delivery, recording a block is an advance, everything else stutters |
| `ConfirmedCorrect` | `BlockScan_proofs` | `Settled`: with `ForkDepth <= 1` the blocks below the highest head no longer change, and a round stays below it |
| `TypeCorrect` | `SendTx_proofs` | `Typed`: `TypeOK`, with bounds on polls and nonces (`Bounded`) and with a price wherever a call is past the query (`Priced`) |
| `VerdictCorrect`, `RefusedCorrect` | `SendTx_proofs` | `AllTold`: what each place in a call says about `took`, the node and the answer to come; a transaction, once mined, stays mined |
| `PaidOnceCorrect` | `SendTx_proofs` | `Chained` (the mined transactions have consecutive nonces, and the node's are not among them) and `AllSingle` (for each payment, what is mined or waiting: at most one nonce for a call with a nonce of its own; otherwise nothing before a new try but transactions that failed). Neither is inductive without `AllTold` |
| `BatchCorrect` | `SendTx_proofs` | `AllInBatch`: a nonce that nobody else has and that is not below the chain's is free until its own call sends; assumes `Batch`, as the test makes its calls: distinct nonces from the first one up and not 0, one try each, queries of the node that succeed |
| `AlwaysInStep` | `Multisig_proofs` | `InStep` is inductive: the bytes are well formed, there are at least as many signatures as set bits, and as many if the array is large enough for all keys. Lemmas about the rank of an element in a finite set of numbers say where `AddSignature` inserts; others that both encodings give the same bits back |
| `VerifyCorrect`, `ThresholdImplemented` | `Multisig_proofs` | under `InStep`: inserting at the rank of a new bit moves the signatures of higher bits by one, exactly as their ranks move; replacing moves none |
| `GejAddGeIs` | `Group_proofs` | `LambdaTerms`: of the two expressions for the slope of a chord the second is defined wherever the first is 0/0 (and the points are not opposite), and both are the slope of `CurveLaw`; `AddGeTerms`, that the lines of `gej_add_ge` compute these expressions within their magnitudes |
| `PointsFollowGroupLaw`, `PredicatesAreTrue` | `Secp256k1_proofs` | `PointsInv`: the Jacobian record is the multiple it should be, in some scale other than 0 (`GejStands`), and within the magnitudes the formulas start from, also where it is infinity and its coordinates are stale. `GroupLaw` says only that no magnitude has been exceeded so far, which the next formula may change |
| `GenPairKept` | `Ecmult_proofs` | `GenInv`: the blinding pair is -b and -b * G for a b other than 0 (`GenPair`), and in the middle of the rows the sum is the multiple that the bits read so far stand for, together with the shares of the unknown point that the table adds and its last row takes back (`SumOf`, `HiddenStep`). `PrecIs` says what each entry of the table is, through the simultaneous inversion of all z (`FeInvAllVarIs`, an induction up and one down) |
| `DigitsAreOfScalars` | `Ecmult_proofs` | `DigitsKept`: the digits are those of the call's scalars. The loop of `ecmult_wnaf` keeps `LosesNothing`, what is left of the scalar and the carry at the place of the loop; its carry is always the bit below (`CarryIsTop`), so that it ends with none; windows do not meet since the loop jumps over them. A round of `wnaf_const` moves 1 or -1 to the digit before (`RoundStepIs`), and the number it starts with is odd whatever the scalar (`ConstOddIs`) |
| `ProductsAreRight` | `Ecmult_proofs` | `EcmultInv`: `DigitsKept`, and `MultipleKept`: the table in the locals holds the odd multiples of A, all on the curve of one z, and r is on that curve the multiple that the digits read so far stand for. `EcmultLaw` says nothing of the table and of the digits still to be read, without which no step keeps it. What the table is comes from the loop of `odd_multiples_table` (`IsoTable`) and from the products of ratios that bring its entries to one z, from the last one back (`BackIs`, `GlobalTableOf`), or to affine coordinates for the table of G (`StorageTableOf`). A digit finds its entry (`TableGetGeIs`, `TableGetGeStorageIs`), also through the constant-time loop that moves every entry and keeps one (`ConstTableGetGeIs`); the steps then follow from `DigitsAreOfScalars` and the formulas of `Group_proofs` |
| `TextsAreCanonical` | `Der_proofs` | `TextInv`: the text is one of bytes with room for the edits to come before a `size_t` is full; an edit leaves nothing else of a text's form, so the rest is about any text of bytes. A number below the weight of n bytes has one text of n bytes (`NumberBytes`, `BytesOfIs`), hence one as a signed integer without needless bytes in front (`SignedFormIs`, `IntegerCanonical`); lengths that the strict parser takes are short (`ShortLength`), as a number that was not read as zero has at most `ScalarBytes` + 1 bytes; so a text that is taken is the text that is written (`StrictCanonical`). Wherever the strict parser reads an integer the lax one reads the same digits and stops at the same place (`LaxReads`), and what is written is read back (`ReadBack`) |
| `TweaksOfBothAgree`, `ContextNeverRefuses` | `Secp256k1_proofs` | `KeysInv`: there is a history of secret keys, one for each tweak, of which the owner has the last and the watcher the public key of the one it has come to (`Agreed`). `TweaksAgree` compares the sides only when they are level and says nothing of the tweaks between. No stored key is refused, since no point has an x of 0 (`NoZeroX`) |
| `SignaturesHold` | `Secp256k1_proofs` | `SignInv`: some nonce n satisfies s * n = m + r * k, has r as its reduced x, and the recid, if kept, is what was lost of its point (`RecidOf`). Negating s takes n to its opposite, whose point has the same x and the other parity. That a key can be recovered is a consequence (`RecoverIs`) and not inductive |
| `SignaturesVerifyExactly` | `Secp256k1_proofs` | `HasXIs`, that two comparisons of an unreduced r decide whether an x is r modulo the order; `VerifyIs`, `RecoverIs` and `RecoveredValid`, from the equation of a signature solved for the nonce and for the key |

`ScanCorrect`, `FeedImplemented` and `ConfirmedCorrect` assume `SharedMutex`: all rounds are
given the same mutex, as those of one `StartScan` are. Two `StartScan` loops in one
directory have two mutexes and one progress file, and nothing of this holds for them.

**The curve.** `Group_proofs` goes through `group_impl.h` formula by formula. `Stands(a, n, m)`
says that the field element a is n modulo P with a magnitude of at most m; one lemma for each
operation of `Field` says what its result stands for, and the lemmas about formulas
(`DoubleFormula`, `ChordFormula`, `AlongFormula`) follow the code line by line with it. What is
left is to show that an identity of polynomials holds modulo P, which is always reduced to the
multiples of one or two known congruences that make it up (`EqFrom`, `EqFromTwo`): the
provers check identities of integers, but not congruences. So nothing in the theorems about points,
keys and signatures depends on the small curve of the run.

Its last part is about the curves that `ecmult_impl.h` works on without saying so. A table of odd multiples
has coordinates that belong to the z of its last entry (`globalz`); leaving that z out reads them as
points of another curve, with CURVE_B times its sixth power, which no formula looks at. `OnIs(a, g, q)` says that a,
with its z multiplied by g, stands for q; doubling and adding keep it for any g (the formulas are
homogeneous), and multiplying by g at the end gives the point itself.

What they assume of the curve holds of secp256k1, and TLC evaluates it on the curve of
the run:

* `FieldAssumption`, `PrimeAssumption`: P is above 3 and 3 modulo 4, what `InverseOf` gives is an
  inverse and what `RootOf` gives for a square is a root of it (P is prime). `MagnitudeAssumption`:
  magnitudes of up to 32, and up to 8 for factors, as `field.h` says.
* `CurveAssumption`: CURVE_B fits `fe_mul_int`; the order is odd; the multiples of the generator
  are on the curve and add up under `Plus` modulo the order. That the law of `CurveLaw`
  is associative is thus taken from mathematics. That no point is its own opposite is not
  assumed: it follows, since the order is odd (`Multiples`).
* `TableAssumption`: the rows of `GenBits` bits cover the scalars, and the point nobody knows the discrete
  logarithm of is on the curve; no entry of the table is infinity, for which storage has no place (the table
  of the real curve is fixed, and has none). `WindowAssumption`: windows above 2 whose odd multiples are all
  different, and `ScalarBits` bits, the top one of which some scalars have. 256, 5 and 16 satisfy it.
* `PrimeOrderAssumption`: the order is prime, so that none of the odd multiples in a table is infinity, which has no
  z to divide by.
* `EcdsaAssumption`: the order is prime, below P and above P / 2; CURVE_B is no square, so that no
  point has an x of 0 (7 is none modulo the real prime); every point of the curve is a multiple of the
  generator (cofactor 1).
* `ApiAssumption`: the inputs are numbers, and no nonce has a point whose x is the order
  itself. The real curve has such a point, and a nonce for it would give a signature with r = 0, which
  `secp256k1_ecdsa_sig_sign` does not look for (it leaves it to a `VERIFY_CHECK`, which
  the build does not have) and which would not verify; nobody knows that nonce, and no run would
  meet it by chance.

**Texts.** `DerAssumption` gives the sizes their kinds and says that the length of any signature fits in one
byte, as it does in the build (70 < 128), and that scalars fit in theirs. `TextsFitAssumption` says that no text is
so long that its length fills a `size_t`: the lax parser takes a length of one byte less than the strict one
(`sizeof(size_t)` and `>=` against `>`), so without it the two would differ on a text of 2^56 bytes, or 2^24 with
32 bits.

**Recursive functions.** `Pow2`, the tables, the recodings and the loops over limbs of a table are recursive
functions, which in TLA+ are whatever `CHOOSE` finds. `Ecmult_proofs` begins with what makes them usable:
induction on a set of numbers (`Upward`, `Downward`), and that a loop with a step function has such a function
(`LoopUp`, `LoopDown`), so that each of them is shown to be what its definition describes before
anything is proved of it.

`Ecdsa` takes the products of `ecmult`, `ecmult_const` and `ecmult_gen` from the group law, so the
theorems about `Secp256k1` are about the code around them. `GenPairKept` and `ProductsAreRight` are about the three
functions themselves, and say that they give what the group law says.

**Only model-checked.** `BatchMined` and the other liveness properties (`CloseReleasesAll`,
`ConstructorReturns`, `CallsReturn`, `CatchesUp`), since liveness is out of the prover's reach. Of
`crypto`: `ChainExponent`, `LimbContract`, `ScalarContract` and `HashExact`. The chains and the hashes are computations
of real size on known inputs; the other two are about carries through any number of limbs and words, in operations
of which each would be a proof of its own.

## Not modelled

* What the queries compute from the node's answers; amounts and decimals of transfers; the texts in
  `errtx.info`; logging; the ABI.
* The other variants of the C library (5x52 and 4x64 limbs, assembly, GMP, the endomorphism, static
  tables), which the package does not compile; its tests and benchmarks. Of the compiled code: memory,
  NULL pointers, the DER calls of the API (they pass their arguments to the functions of `Der`) and
  private keys in DER, which nothing calls.
* The formulas of `curve.go`: textbook Jacobian formulas on big numbers, without magnitudes to keep.
* The random numbers: a mutex around a library's generator, and loops that wait for a number in range.
* Addresses, bech32, the amino codec, ed25519, sr25519, ciphers, armor, hashes in Go: conversions of
  texts or calls of libraries, without state or control of their own.

Places where the code and its comments differ, or that a caller should know of, and that no run is about:

* `field.h` says that `fe_equal` wants its first argument with magnitude 1; `fe_sqrt` gives it one of up to 8, which
  the code copes with. `group_impl.h` calls `tt` in `gej_add_ge` of magnitude 2 where it is 1.
* `secp256.go` says of `Sign` that V is 0 or 1; recid may be 2 or 3 (`SignatureHolds` covers these).
* `curve.go:132` says that `Add` returns the sum; for equal or opposite points its formulas give z = 0, which
  has no inverse, so that `affineFromJacobian` multiplies by nil. Nothing in the repository calls it so.
* `AddSignature` with an index beyond the array adds a signature without a bit, and `VerifyBytes` does not look
  at signatures after those of the set bits (both are in `Multisig`).
* The bit array's decoders take a text without checking it: JSON `null` and an empty string end in a nil
  array that is written to, and a bad length prefix in a slice out of range.
* `pubkey_combine` and `ecdh` do not look at what `pubkey_load` returns and rely on its illegal-argument
  callback, which ends the call in Go; the model does the same, and `NeverIllegal` says that no key that the
  library has stored comes to it.

## Plan

Done: the pool, the scanner, the senders, the multisignature with its bit array, libsecp256k1, and the
proofs listed above. What could follow, most useful first:

1. `Sdk`: the pool under the senders, with the nil clients of the scanner (in the scanner's model another
   user of the pool that gets one is only seen to panic).
2. Two `StartScan` loops in one directory: what of `BlockScan`'s properties is left.
3. `Rand`: the lock around the generator with concurrent callers, the rejection loops.
4. `Curve`: the formulas of `curve.go` against `CurveLaw`.
5. `Address`, `AminoKeys`: which inputs each decoder accepts, and the round trips.
6. Proofs about one operation of `Field10x26` and of `Scalar8x32` each.
