# A TLA+ specification of gradido_blockchain

gradido_blockchain is the C++ library behind a Gradido node. It keeps, per community, a chain
of confirmed transactions with the account balances they leave, validates new transactions
against that chain, and looks up balances, address types and sums in it. Coins decay
continuously; deferred transfers are closed by transactions the node makes itself when their
timeout passes; transfers between communities are a pair of transactions on two chains.

This directory holds specifications of the library's parts, TLC configurations that check them
on small instances, and proofs of what matters most. Paths are written as in `PROJECT.json`,
where the first `src/` is the root of the repository.

## The system

| Part | State it keeps | Operations | Correct if |
|---|---|---|---|
| `interaction/confirmTransaction` | none beyond a call, but calls itself through the blockchain | `Context::run`, `processTransactionTrigger`, a role per type that calculates balances and adds or removes events | coins are only moved, except by creations; each deferred transfer is paid out once; a call returns |
| `interaction/validate` | what a call hands down | a role per type; SINGLE, PREVIOUS, PREVIOUS_BALANCE, MONTH_RANGE, ACCOUNT, PAIRED | what is confirmed is covered, dated in order, within its limits and signed by the right keys |
| `interaction/calculateAccountBalance`, `calculateCreationSum`, `createTransactionByEvent` | none | balance at a date; the sum of creations of a month (V01 until May 2020, V02 since); the timeout of an event | no month gets more than its limit; the timeout closes the deferred transfer of the event |
| `blockchain/InMemory` | chain by number, last transaction, trigger events, anchors, compact copies, a sorted copy with a dirty flag | `createAndAddConfirmedTransaction(Extern)`, `findAll/findOne/countAll`, `clear` | numbers and dates grow along the chain; what is added can be found, by any thread |
| `TransactionsIndexRoaringBitmaps`, `AddressIndex` | bitmaps per key, type and coin; the highest number per day; types of addresses | add, reset, find, count | a lookup returns exactly the transactions it describes |
| `TransactionsIndex` | a bucket per month, balance changes per key | add, reset, find, count, iterate | the same |
| `InMemoryProvider`, `AppContext` | blockchains, contexts and dictionaries per community | find or create | one blockchain per community |
| `GradidoTransactionBuilder` | a body under construction, its state | setters, `sign`, `build`, `buildOutbound`, `buildInbound`, `reset` | what is built is of this session and goes where it is bound |
| data classes, `data/compact` | a transaction in three forms | conversions, who is involved, balances | the forms agree |
| `interaction/serialize`, `deserialize` | arenas and buffers | coding, guessing the type | what is written is read back |
| `blockchain/batch` | master, workers, queue, condition variables | verify many signatures | every signature is verified; the call returns |
| `lib/MultithreadContainer`, `MultithreadQueue`, `ExpireCache`, `AccessExpireCache`, `DRHashList` | a mutex with retries, a queue, values with times, a sorted array | lock, unlock; push, pop; add, get, remove, expire | mutual exclusion, order, nothing expires early, a map |
| `memory/Manager`, `Block` | free buffers by size | get, release, copy, move, assign | a buffer has one owner, and none is lost |
| `crypto` | word lists, passphrases, key pairs, shared secrets, a login's key | load, generate, detect, derive, encrypt, compare | a passphrase keeps its indices; a memo is read by both parties; a key belongs to its login |
| `Application` | a flag, a condition variable, threads to stop | `run`, `terminate`, signals | the loop ends when told, threads are told before they are waited for |

How they interact: a client calls `InMemory::createAndAddConfirmedTransaction`, which runs
`confirmTransaction::Context`. That validates the transaction alone, asks whether it exists,
then processes trigger events, *each by a recursive call of
`createAndAddConfirmedTransaction`*, then calculates balances, validates against the chain, and
returns a confirmed transaction that is pushed to the store, which feeds the index and the
dictionaries. `runPastAddToBlockchain` then adds or removes trigger events. Balances, address
types and the creation sum all come from lookups in the index. The inbound half of a transfer
between communities is validated against the chain of the other community, found by the provider.

What is hard: the nesting of calls and their dates; a date of confirmation that validation has
to estimate; redeem racing timeout; repeated transactions; a failing trigger; exceptions that
are swallowed half way; calendar arithmetic; pages and intervals at their edges; threads that
share a blockchain, a provider, the memory manager, a queue or a cache; waiting with
condition variables; buffers and arenas that run out; and several representations of the same
transaction. `PROJECT.json` lists these hazards at their lines, with the properties that watch
them or the deviation that shows them.

## Modules

| Module | Models | Checked by |
|---|---|---|
| `Ledger`, `LedgerProofs`, `SumProofs` | one community's chain: confirmTransaction, validate, fromEnd, createTransactionByEvent, trigger events | `MCLedger` |
| `TransactionsIndex`, `IndexProofs` | the bitmap index and its lookups | `MCIndex` |
| `Search`, `IndexProofs` | Filter, CompactFilter, `findAll`, `findOne` and what `Abstract` builds on them, over `TransactionsIndex` | `MCIndex` |
| `CreationLimit`, `ThreeMonths`, `IndexProofs` | the creation sums V02 and V01 with their calendars, over `TransactionsIndex` | `MCIndex` |
| `MonthIndex`, `MonthIterator` | the index by year and month, and the iterator its callers advance | `MCMonths` |
| `Store`, `ConfirmedLog`, `StoreProofs` | InMemory's maps and AddressIndex, by threads; the log it implements | `MCStore` |
| `Provider`, `StoreProofs` | InMemoryProvider and AppContext, by threads | `MCStore` |
| `Memory`, `StoreProofs` | the memory manager and `Block` | `MCStore` |
| `Builder`, `CrossGroupProofs` | GradidoTransactionBuilder | `MCTransactions` |
| `CrossGroup`, `CrossGroupProofs`, `SumProofs` | outbound and inbound halves of transfers on several chains, PAIRED validation | `MCTransactions` |
| `Forms` | full, compact and complete form of a transaction, dictionaries | `MCTransactions` |
| `Wire`, `Codec` | messages, ids and anchors on the wire and their guessing; coding with arenas and buffers | `MCTransactions` |
| `BatchVerify`, `BatchVerifyProofs` | the verification of signatures by a master and workers | itself |
| `Container`, `FifoQueue`, `ContainerProofs` | MultithreadContainer and MultithreadQueue; the queue it implements | `MCContainer` |
| `ExpireCache`, `ContainerProofs` | both caches | `MCContainer` |
| `HashList`, `HashMap`, `ContainerProofs` | DRHashList; the map it implements | `MCContainer` |
| `Application` | main loop, signals and `terminate` | `MCContainer` |
| `Passphrase`, `TextFilter` | word lists and passphrases; the filter for typed ones | `MCKeys` |
| `Signatures`, `KeyProofs` | required signatures, memos, signature maps | `MCKeys` |
| `KeyPairs`, `KeyProofs` | derivation, numbered shared secrets, encrypted memos and their compression | `MCKeys` |
| `Secrets`, `KeyProofs` | SecretKeyCryptography by threads, CryptoConfig | `MCKeys` |

An MC module extends or instantiates several components side by side and gives their constants
values. Its variable `part` is chosen at the start and says which component runs, the others keep their
initial state: the components of a suite share a run, not a behaviour. Where components really
interact, one module is built on the other: `Search`, `CreationLimit` and `ThreeMonths` on
`TransactionsIndex`, `MonthIterator` on `MonthIndex`, the builder's halves inside `CrossGroup`.

Operators whose comment begins with "Fault:" are mutated forms of the definition that follows.
They are used by no specification; `PROJECT.json` names them as the mutants that show each
property can be broken.

### Ledger

State: `chain` (mTransactionsByNr with each entry's balances), `events`
(mTransactionTriggerEvents), `stack` (the calls under way, innermost last).

| Action | Code |
|---|---|
| `Submit` | a client's call up to `isTransactionExist`: SINGLE validation, signature rules on state |
| `Trigger` | one turn of the loop in `processTransactionTrigger`: the event is removed, a nested call begins |
| `TriggerFails` | the same turn when the nested call throws before it does anything; the event is gone |
| `Confirm` | no event left: balances, PREVIOUS and PREVIOUS_BALANCE validation, push, `runPastAddToBlockchain` |
| `Refuse` | validation throws; for a nested call this is the caught exception |

Amounts are naturals, so a negative balance would be a type error. `Keep[d]/Scale` is the
decay over `d` units; the proofs allow any table, TLC uses one with rounding losses. Keys are
abstract; the address types none, human, community and deferred are those validation tells
apart. Calls are drawn from the constant `Calls`: transaction, date of confirmation, ledger
anchor, and for an import (`Extern`) the balances it brings along. Imports skip the
calculation of balances and the balance check, as in the code; an entry keeps, as
`derivation`, whether its balances were calculated or brought along. Only histories without
imports (`Calculated`) promise anything about payouts and sums. `Minted(i)` is what entry `i` adds to
the sum of all balances on its date, and `Conserves(i)` what its type allows.

What the model takes over from the code although it may surprise:

- a creation date later than the date of confirmation is accepted (the check is commented out
  in `ConfirmedTransactionRole`);
- deferred transfers with a number up to 3 can be neither redeemed nor timed out; their event
  is dropped;
- a registration does not look at the type of the account key, so it can reset the balance of
  an existing account (`Conserves` allows a registration to lose coins);
- a second redeem of at most the tolerance is accepted, because the emptied address plus the
  tolerance covers it (`PaidOutOnce` says so);
- of several events on one date the nested calls confirm the later one first: the outer nested
  call finds and closes the remaining events before it is confirmed itself.

Abstractions: all creations of `Ledger` are for one month inside the interval looked back over
(the calendar is in `CreationLimit`); a reference to a number that is no deferred transfer is
refused where the code relies on an assertion; a call refused before it changes anything is a
stuttering step; lookups read the chain directly (that the index answers them is the subject of
`TransactionsIndex`); one caller at a time (several are in `Store`); no cross group
transactions (they are in `CrossGroup`).

### The index and the searches

`TransactionsIndex`: the chain as contents with dates, the numbers added since the last reset,
number and date bounds, the table of days, and the bitmaps. `Add` is `pushTransactionEntry` with
`addTransactionIndices`, including the failing addition: if the date is more than one growth
step beyond the table, the number bounds and the table have grown and nothing else. `Reset` is
the index part of `InMemory::clear`, which leaves the chain. `FindTransactions` and
`CountTransactions` are built like the code from `GetTxRangeOfInterval` (two cursors that move back
through the table of days), `CalculateTxRange`, `AggregateTransactions` and `PageBounds`, and are
compared with `Page` and `Matching`, which read the chain. A bitmap that is absent and one that is
empty are not told apart (the code returns nothing for either); the thread-local range map is rebuilt
whenever its ends differ and is not modelled.

`Search` puts the exact times, keys and functions of a `Filter` on top: a function of the caller is a
table from contents to results (use, stop, both or neither), `Compact` makes the copy the index is asked
with, and `Taken` is the loop over the numbers it answers. What a search returns is compared with
`Described`, the transactions of the chain the filter describes to the moment. `CreationLimit` extends
the index by time in units, a calendar, and per creation its target month and amount; `Create`
stands for a creation that passes `validateTargetDate` and the V02 sum, which is evaluated with
`FindTransactions`, so that the property covers calendar and index together. `Delays` are the times from
creating to confirming; the check that they are not negative is commented out in
`ConfirmedTransactionRole`, so the run has creations dated ahead by any of them. What the limit promises
is said of the creations dated ahead by no more than `Ahead` (in the run 0), whatever was dated ahead in
between. `ThreeMonths` does the same for V01, whose calendar months are compared modulo twelve.
Who signs a transaction beside those who must is not limited, neither in the code nor in `Search`:
`AccountOf` says only whose account a registration or deferred transfer opens.

`MonthIndex` keeps the buckets and lists as the code does and compares every find, count and iteration
with the transactions that were accepted. `MonthIterator` keeps places as the code computes them: descending,
the place of what was found is the distance of its number from the first number of the month
(`PlaceOf`), which is another place where a number is missing. Reading the first entry of an empty
bucket in `createSearchIterator`, and going on from a place behind the entries, is undefined; the place found
is then any (`Anywhere`). `operator--` is not modelled.

### Threads: Store, Provider, Memory, Container, ExpireCache, BatchVerify, Secrets, Application

A step of a thread ends where a lock is taken or given back, or where a value that is shared
without a lock is read or written. `Store` has one step for reading the last transaction, one for the
push under the mutex, one each for the index and the compact copy; two threads together give the
violation run `store_threads`, one thread alone implements `ConfirmedLog` (`LogSpec`). `Provider`
has the two locks and the contexts without one. `Memory` separates taking a buffer from a stack and
clearing it. `Container` models try, sleep and count down of `lock`, the throw that may hold the
mutex, and for the queue's methods reading and writing the queue as two steps inside the guard.
`ExpireCache` reads the clock before the lock. `BatchVerify` has master and workers with the two
condition variables, spurious wake-ups, the pages of a chain that grows, and every threading
policy; `FindAll` repeats the only transaction of a page of two, as the index does. `Secrets` separates the key from its hash inside the lock for writing, and the two locks of
`isTheSame`. `Application` separates the test of the flag, the wait and the wake-up, with signals and
`terminate` at any point, also during init.

### The way of a transaction: Builder, Forms, Wire, Codec, CrossGroup

`Builder` allows every method in every order, including the calls that throw, and records for each
value the session in which it was set. `Forms` makes the three forms of wire transactions in any
order and from any state of the dictionaries; each form answers with code of its own, and the
properties compare the answers. `Wire` reduces a message to field numbers, wire types and values; a
number stands for a range of integers, ordered among the limits of their types. `Codec` models what a
role does when its static buffer or its arena is full: the second encode into a larger buffer, which takes
memory from the same arena again (`EncodeAgain`), and the second call with an arena of twice the size. Parts are
`checked` (the conversion looks whether it got memory) or `copied` (it writes at once, and the call ends
undefined, "crashed", if there was none); the run has both.
`CrossGroup` has one chain per community with dates of its own; `Outbound` and `Inbound` are the whole of the
builder's half, the PAIRED validation, the check whether the transaction exists (on the same date only,
`Exists`), the check of dates (order, and 120 seconds after createdAt, `ValidDates`) and the confirmation. It leaves
out decay, which in such times is small and is in `Ledger`.

### Keys

`Passphrase` models loading lists (also of builds whose lists do not load), looking up words whose
hashes collide, and passphrases made, typed, transformed, checked and detected. `TextFilter` is
`Passphrase::filter` byte by byte. `Signatures` lets a transaction collect signatures while
registrations are confirmed and the dictionary grows, and compares the verdict with who is
authorized, for validation with a blockchain and without one (the default of `validate::Context::run`):
without one, `checkRequiredSignatures` of registrations and creations returns before it asks for the
root or for humans. The address type of a signer is found as in `InMemory::getAddressType`: the type of its
registrations in the address index and, when these are later than the date asked about, that of the last
registration before it that the key has any part in. Registrations of subaccounts, and the types of deferred
addresses and of the community's own accounts, are left out; dates stand for days. `KeyPairs` treats libsodium symbolically: a key is the path it was derived along, a
shared secret the set of two public keys. Texts are sizes, a flag for the two bytes of the zlib
header, and the size they are compressed to.

## Runs

| Run | Bounds | Shows |
|---|---|---|
| `ledger` | three scenarios. Two deferred transfers with equal, different and overlapping timeouts, redeems above and within the tolerance, late and repeated; creations, registrations and payments late and out of order; an imported history continued by the node. Dates 0..4, chain up to 8 | types, order of dates, no overdue event, events stand for open transfers, no deferred transfer is lost, paid out once, addresses used once, coins conserved, every call returns |
| `index` | all chains of 4 transactions with dates on both sides of the ends of the months 0, 1, 4 and 8, months of 31 days, a table growing by 4 months, the intervals from the first days to the later ones and some around them, pages of 0 to 3; the two ledger anchors are symmetric; filters with exact times, keys and functions; creations for January and February on 11 points in time; V01 over the end of a year | lookups, searches and existence are exact except in the cases their definitions name; no month gets more than twice the limit after the chain's first month from creations not dated ahead |
| `months` | two keys, months from a November on, with empty months, months that miss a number, refused additions and resets; all filters of the kinds in `MCMonths` | find, count, list and iterator agree with what was accepted |
| `store` | one thread with up to seven kinds of transactions; two threads at a provider of two communities; two threads with two blocks and four buffers, interchangeable (symmetry over names and addresses of the memory) | sorted copy, index and addresses agree, the store is a log; a found blockchain is kept; one owner per buffer, contents intact, no leak |
| `transactions` | two communities and orders there and back, dates on both sides of the time a transaction may take; builder sessions; wire forms of every kind; messages with every optional member; parts, arenas and buffers on both sides of each limit | pairing, credited on one chain and once per date, coins conserved, every outbound is credited in time or too late for it; sessions do not mix; forms agree; what is written is read; what is coded is whole |
| `batch` | 3 processors, every policy and direction, 4 transactions of which 3 are bad, 1 more added meanwhile, pages of 2, batches of 1 | all verified, exactly the invalid ones reported, once while pages stay as they are and none repeats, returns |
| `container` | 3 threads with 2 calls each on the queue, 2 threads with 3 calls each on the lock; caches with 2 keys, 2 threads, time-out 1 until time 4; 3 hashes, memory growing by 2; two callers of `terminate` | the queue is a FIFO queue and answers; caches purge, keep and expire; the list is a map and its search ends; the main loop ends, threads are asked to stop first |
| `keys` | three lists of 3 words with colliding hashes, texts of up to 3 words; byte strings up to 4; up to 4 signatures and 2 registrations; 3 seeds, 3 indices, 2 generations; memo texts around 120, 512 and 1024 bytes; 4 shared secrets; 2 threads, objects and logins with 2 calls each | passphrases keep their indices; filter exact; accepted exactly if authorized, with and without a blockchain, and it stays so; children exact; memos readable; indices stay those of their partner; keys are those of the last login |
| `ledger_repeated` | one transfer handed over on two dates | violation of `ConfirmedOnce` |
| `ledger_timeout` | a timeout handed over like any other transaction | violation of `TimeoutPaysUnpaid` |
| `store_threads` | two threads, two transactions | violation of `AddedIsFound` |
| `cross_most` | an order of more than half of what the sender has | violation of `EveryOutboundCredited` |

A property of a run is often a conjunction of parts that its module states one by one, each with its
own comment, and it or the MC module puts together: `SearchesExact` of the five kinds of search,
`FormsAgree` of what three forms answer, `RoundTrip` of the ways a message takes,
`BuffersSound` of owners, room and contents, `ListIsMap` of the refinement, the order of the
items and the window of a search, `LoopEnds` of the main loop and the loop of a search. They include the type invariants of their modules.

All runs but `batch` switch the check for deadlock off: bounds on chains, calls and times stop
them, and a search or a coding that has ended has no further step. `batch` ends in a state that
stutters explicitly, and is checked for deadlock.

Why the bounds are enough to be interesting: founding takes 4 of the 8 places of the ledger, two
deferred transfers and both payouts the rest, so nested calls reach depth 2 and events on the same
date occur (`Submit` leaves room for the timeouts still to come, so that the bound never cuts
off a trigger). Four dates exceed timeout plus delay. In the index, four transactions give pages with
a rest for every size up to 3, and months up to the eighth against a table of four force growth and failure. In
the calendar, three creations can exceed twice the limit if the look-back is a month shorter. Units of
an eighth of a day approximate an average month (30.436875 days) by 243/8. Three workers and pages
of two give a worker that waits while another finishes the last batch. Caches run until a key was
added, expired and added again. Every property of a passing run has a mutant of the code, listed in
`PROJECT.json`, that violates it within the same bounds.

### Findings

1. `ledger_repeated`: `Abstract::isTransactionExist` (src/src/blockchain/Abstract.cpp:35) only compares with
   transactions on exactly the same date of confirmation. The same signed transaction handed over
   again within its 120 seconds is confirmed again.
2. `ledger_timeout`: the balance check of a timeout looks just before its date
   (GradidoTimeoutDeferredTransferRole.cpp:82), where a payout on that very date does not show.
   Handed over after the node's own trigger, a timeout pays the sender again.
3. `store_threads`: the number of a transaction is read without the mutex that its push takes
   (confirmTransaction/Context.cpp:88), so that of two threads one is told of success and its
   transaction is lost.
4. `cross_most`: the amount of an inbound transaction is compared with what its sender has after
   the outbound one (GradidoTransactionRole.cpp:60), so that a transfer of more than half of a balance
   is debited and never credited.

### Known deviations

Beside these, the modules state the following properties, which a comment, a message or a
declaration of the repository suggests and which TLC refutes. They belong to no run. Where a
property of a passing run excludes such a case, its definition or the instance says so.

- **TransactionsIndex**, `IntervalComplete`, src/src/blockchain/TransactionsIndexRoaringBitmaps.cpp:239: getTxRangeOfInterval moves a cursor back from the end of the interval and gives up when month index and day equal those of the start. yearMonthToIndex maps a start before the first transaction to month index 0, so the day of another month is compared with the days of the first one, and transactions before that day are missed although the interval covers them. src/include/gradido_blockchain/blockchain/TransactionsIndexRoaringBitmaps.h:50 says of calculateTxRange "calculate range interval from filter min + max tx nr, timepoint interval and local min + max tx nr and date range". The creation sum asks for such intervals in the first months of a chain.
- **TransactionsIndex**, `OwnCoinOnly`, src/src/blockchain/TransactionsIndexRoaringBitmaps.cpp:379: For a filter with the community's own coin the bitmap to subtract is looked up under that coin in mOtherCoinCommunityTx, which addTransactionIndices fills for other coins only, so nothing is ever subtracted and transactions with foreign balances only are returned. src/src/blockchain/TransactionsIndexRoaringBitmaps.cpp:377 says of this branch "if user will only results with gdd balances from this community".
- **TransactionsIndex**, `PageWithoutRepetition`, src/src/blockchain/TransactionsIndexRoaringBitmaps.cpp:134: With a page size of two both ends of the page are returned without comparing them, so the last page returns its only transaction twice. src/src/blockchain/TransactionsIndexRoaringBitmaps.cpp:118 says of this block "cut out range described by pagination". `verifySignatures` reports such a transaction twice (`Still` of BatchVerify excludes it).
- **BatchVerify**, `ReturnedInvalid` (its second part is about `Still`), src/src/blockchain/batch/signaturesVerify.cpp:135: Pages counted from the end move when the blockchain grows, and pages of two repeat a single transaction: an invalid transaction is then reported twice. src/include/gradido_blockchain/blockchain/Pagination.h:20 says "page size, how many result should be returned at max".
- **Signatures**, `AcceptedIffAuthorized` without `TypesFound`, src/src/blockchain/Abstract.cpp:142: getAddressTypeSlow answers with the type of the last registration the key is involved in, also as a mere signer. A key that signed a human's registration and is registered itself only later counts as human for a creation dated in between. src/include/gradido_blockchain/blockchain/Filter.h:60 says what is found: transactions "in which the public key is involved, either directly in the transaction or as signer".
- **CreationLimit**, `LimitPerMonth`, src/src/interaction/calculateCreationSum/V02_TargetDateAlgoRole.cpp:33: The creations of a target month are summed over two months of average length (date::months as a duration, 60.87 days) before the estimated date of confirmation, while validateTargetDate accepts a target month two calendar months back, up to 92 days. A creation for January in its first weeks is not seen by one for January at the end of March, and both together exceed the limit. src/src/interaction/validate/GradidoCreationRole.cpp:53 says "creation amount to high, max 1000 per month".
- **CreationLimit**, `AtMostTwiceOfAll` (the run says it of creations not dated ahead), src/src/interaction/validate/ConfirmedTransactionRole.cpp:45: The check that a transaction is created before it is confirmed is commented out ("I don't know how far a server clock can be off"). A creation dated months ahead is confirmed now, and sums for months look back from the date of creation: those dated ahead and those that are not do not find each other, so that a month may get more than any multiple of the limit.
- **Store**, `SortedComplete` (with two threads; with one it holds and is checked), src/src/blockchain/InMemory.cpp:249: getSortedTransactions reads the dirty flag outside the lock and returns a reference that is read outside it: a second thread that saw the flag set clears the copy while the first one reads it. src/include/gradido_blockchain/blockchain/InMemory.h:79 says "get all transactions sorted by id".
- **Store**, `ClearStartsOver`, src/src/blockchain/InMemory.cpp:60: clear empties the sorted copy, the index and the dictionary of public keys, and leaves mTransactionsByNr, mLastTransaction, the ledger anchors, the compact copies and the address index. src/include/gradido_blockchain/blockchain/InMemory.h:47 says "remove all transactions and start over".
- **Store**, `IndexedHasCompact`, src/src/blockchain/InMemory.cpp:437: addTransactionIndices enters the bitmaps before mAddressIndex.addTransaction throws for a subaccount of a known user; the exception is swallowed and the compact copy not stored, so a lookup returns a number without one. src/src/blockchain/InMemory.cpp:315 throws in that case "cannot found confirmed tx in iterateAllImpl".
- **Store**, `ConfirmedIsIndexed`, src/src/data/compact/ConfirmedGradidoTx.cpp:367: getInvolvedAddresses throws as soon as balances and signatures together are six, although nine places are there and only three more are needed; validation sets no upper bound on signatures, so such a transaction is confirmed and found by no lookup for its keys. src/src/data/compact/ConfirmedGradidoTx.cpp:368 says "more public key as expected in signature map + account balances + body".
- **Store**, `RegisteredIsKnown`, src/src/blockchain/AddressIndex.cpp:70: A registration of a subaccount sets its type for the user first, whose type is that of its own registration: addTransactionNrForIndex throws before the account is entered, and the confirmed subaccount keeps the type NONE. src/src/interaction/validate/RegisterAddressRole.cpp:106 admits the subaccounts of known users, src/src/blockchain/AddressIndex.cpp:142 says "address type changed, currently not expected!".
- **Provider**, `ContextsAgree`, src/src/blockchain/InMemoryProvider.cpp:90: addBlockchain hands the new blockchain to the application context before it knows whether the provider already has one; insert keeps the one that is there. The context then looks up keys in the dictionary of a blockchain nobody adds to. src/include/gradido_blockchain/AppContext.h:49 says of the lookup "accesses the corresponding community context in @c mCommunityContexts" and :50 "queries the blockchain associated with that community".
- **Provider**, `FindSucceeds`, src/src/AppContext.cpp:58: The index is drawn under the lock of the dictionary, the context appended without any, so two communities may be appended in the other order and the second call throws DictionaryHoleException. src/include/gradido_blockchain/AppContext.h:89 says of mCommunityContexts "use communityIdIndex as index, start with 0, shouldn't contain holes".
- **Container**, `TimedOutHoldsNothing`, src/src/lib/MultithreadContainer.cpp:12: try_lock is called once more when the counter has reached zero; if it succeeds, lock throws with the mutex taken and nobody unlocks it. The exception says "MultithreadContainer lock timeout" (src/src/lib/MultithreadContainer.cpp:33).
- **ExpireCache**, `ReaddedKeptForTimeout`, src/include/gradido_blockchain/lib/ExpireCache.h:33: remove leaves the time of the value behind; when the key is added again before that time is expired, the old time removes the new value before its own time-out. src/include/gradido_blockchain/lib/ExpireCache.h:34-35 takes the entry for harmless: "don't remove from mValuePairCreationTimes to spare us the time for searching for the key / it will be removed anyway on timeout".
- **Builder**, `BuiltHasBody`, src/src/GradidoTransactionBuilder.cpp:535: switchBuildState sets mState and pushes an entry without bytes before it throws for a missing community; the next build passes checkBuildState and hands out a transaction whose body bytes are null. The header says it is to "fill mBodyByteSignatureMaps with body bytes, make ready for receiving sign calls" (src/include/gradido_blockchain/GradidoTransactionBuilder.h:155).
- **Builder**, `OnlyOneSpecific`, src/src/GradidoTransactionBuilder.cpp:415: setTransactionBody replaces the body without looking at mSpecificTransactionChoosen and without setting it, so that it may follow a setter and a setter may follow it; the setters refuse that with "specific transaction already choosen, only one is possible!" (src/src/GradidoTransactionBuilder.cpp:158).
- **CrossGroup**, `CreditedOnce` (the run says it per date), src/src/interaction/validate/GradidoTransactionRole.cpp:120: The pairing check asks whether the outbound transaction that the anchor names fits, not whether it was credited before, and a repeated inbound transaction is refused on the same date of confirmation only (src/src/blockchain/Abstract.cpp:35, the cause of `ledger_repeated` too): handed over again a moment later, within its 120 seconds, it credits the recipient again for one debit. src/include/gradido_blockchain/GradidoTransactionBuilder.h:127 says that the inbound transaction is to "mark the end point of transaction".
- **CrossGroup**, `OnRecipientChain`, src/src/data/TransactionBody.cpp:233: isPairing only asks that the two other communities are different, not that each names the chain of the other: an inbound transaction confirmed on a third chain pairs with an outbound one sent elsewhere. The builder says "Inbound transaction goes onto recipient community blockchain and mark the end point of transaction" (src/include/gradido_blockchain/GradidoTransactionBuilder.h:127).
- **MonthIndex**, `FindExact` (the run's filters leave this case out), src/src/blockchain/TransactionsIndex.cpp:413: Descending, findTransactions ends at a month whose first entry is below minTransactionNr, although later entries of that month are not: a search from a number on loses the whole month that holds it. src/include/gradido_blockchain/blockchain/TransactionsIndex.h:71 says "search transaction nrs for search criteria in filter", src/include/gradido_blockchain/blockchain/CompactFilter.h:42 "transaction number to start from".
- **MonthIndex**, `FindExact` (the run's filters leave this case out), src/src/blockchain/TransactionsIndex.cpp:348: The interval of the index ends on the first day of its newest month, so that a filter that starts later in that month does not overlap it and nothing is found; src/include/gradido_blockchain/blockchain/CompactFilter.h:50 says "interval between two dates with 1 month resolution".
- **MonthIndex**, `CountIsFound` (the run's filters leave this case out), src/src/blockchain/TransactionsIndex.cpp:584: countBalanceChangingTxs takes start and end from the filter and not from the copy with the filtered interval: without an interval both are January 1970, every entry is later and the ascending count stops at 0, while findTransactions finds the entries. src/include/gradido_blockchain/blockchain/TransactionsIndex.h:81 says "count all, ignore pagination".
- **MonthIndex**, `FindExact` (the run's filters leave this case out), src/src/blockchain/TransactionsIndex.cpp:331: The shortcut for the last balance change of a key asks for one result, no interval and no coin, but not for transactionType: with a type in the filter the last change of any type is returned. src/include/gradido_blockchain/blockchain/CompactFilter.h:31 "transaction type", src/include/gradido_blockchain/blockchain/TransactionsIndex.h:71 "search transaction nrs for search criteria in filter".
- **MonthIndex**, `FoundIsIndexed`, src/src/blockchain/TransactionsIndex.cpp:224: AddressIndex::addTransaction and the bounds are updated before addIndicesForTransaction may throw "addressIndiceCount is bigger than 4, currently not supported" (src/src/blockchain/TransactionsIndex.cpp:167): the refused transaction is then returned as the last balance change of its keys, which src/include/gradido_blockchain/blockchain/TransactionsIndex.h:71 "search transaction nrs for search criteria in filter" does not allow for one that is not in the index.
- **MonthIterator**, `IteratesExactly` (the run's filters and months leave this case out), src/src/blockchain/TransactionsIndex.cpp:896: The first place of a descending iterator is maxTransactionNr minus the first number of the month, also when the month ends before maxTransactionNr: the place is beyond the bucket and the iterator is stopped. src/include/gradido_blockchain/blockchain/TransactionsIndex.h:105 says "iterator for caller controlled search", src/include/gradido_blockchain/blockchain/CompactFilter.h:40 "transaction number to stop search".
- **MonthIterator**, `IteratesExactly` (the run's filters and months leave this case out), src/src/blockchain/TransactionsIndex.cpp:903: advance is written to "skip holes" (src/src/blockchain/TransactionsIndex.cpp:782), but an iterator created in a month without entries is stopped by getCurrentOrNext before it advances, so that the later months are not searched.
- **MonthIterator**, `IteratesExactly` without `Consecutive`, src/src/blockchain/TransactionsIndex.cpp:839: Descending, the place kept of what was found is the distance of its number from the first of the month. Where a number of the month is missing, for instance of a refused addition, the iterator goes on from another place: it gives a transaction twice, or from behind the entries of the month it is undefined. src/include/gradido_blockchain/blockchain/TransactionsIndex.h:105 says "iterator for caller controlled search".
- **Forms**, `RecipientResolves`, src/src/data/compact/ConfirmedGradidoTxCold.cpp:76: fillFromGrdwTransactionBody keeps the other community only if there is a pairing ledger anchor, which only the inbound half of a pair has; getRecipient of an outbound transfer then returns the community index 0, which is no community. src/include/gradido_blockchain/data/compact/ConfirmedGradidoTx.h:145 announces getSender and getRecipient as "full public key indices".
- **Forms**, `SavedIsWire` (the run's indices stay below 16 bits), src/src/data/compact/RegisterAddressTx.cpp:12: RegisterAddressTx::fromGrdw assigns the 32-bit derivation index to 16 bits without looking, so that the body of a full transaction has another index than its wire form. src/src/data/compact/ConfirmedGradidoTx.cpp:287 refuses the same transaction: "derivation index exceed uint16_t".
- **Forms**, `AssignedIsCopy`, src/src/data/compact/ConfirmedGradidoTx.cpp:122: operator=(const ConfirmedGradidoTx&) copies cold data if the source has some and otherwise leaves that of the target, which then has the signatures of another transaction; src/include/gradido_blockchain/data/compact/ConfirmedGradidoTx.h:49 says of it "also copy".
- **Forms**, `OthersAreTheRest`, src/src/data/compact/ConfirmedGradidoTx.cpp:448: For a community root getOtherInvolved returns the root key, which signs, and neither the gmw nor the auf account. src/include/gradido_blockchain/data/compact/ConfirmedGradidoTx.h:122 says "full public key indices for addresses not signing, not account balance changing but involved in tx".
- **Memory**, `AssignedKeepsContent`, src/src/memory/Block.cpp:76: Block::operator=(const Block&) clears the Block before it reads other: when other is the Block itself its size is then 0 and the content is gone. src/include/gradido_blockchain/memory/Block.h:38 says of it "// also copy".
- **Wire**, `TextKeepsSeconds`, src/src/data/hiero/TransactionId.cpp:27: The constructor looks for the first '-' before it looks for '@': in the format that toString writes the first '-' is the sign of negative seconds, which is then skipped as the separator. src/src/data/hiero/TransactionId.cpp:38 says "Number between first '-' and secondary '-', should also recognize negative seconds".
- **Wire**, `CompactBelow32Bits`, src/src/data/adapter/hiero.cpp:14: toCompact (and fromGrdw) throw for an account number above the largest int32, while src/include/gradido_blockchain/data/compact/HieroTransactionId.h:7 says "only work as long as shard and realm are 0 and accountNum is less than 2^32".
- **Codec**, `TriesAgain`, src/src/data/GradidoTransaction.cpp:53: GradidoTransaction::toGrdw copies the body bytes right behind arnm_memory_block_alloc (src/src/data/GradidoTransaction.cpp:52) without a look whether the arena had the memory, so a body larger than what is left is written to no memory and the second call is never reached. src/include/gradido_blockchain/memory/grdu_StaticBuffer.h:16 says "init with static buffer and try, if not enough space, try again with dynamic allocator".
- **Passphrase**, `ValidMeansExisting`, src/src/crypto/Passphrase.cpp:201: checkIfValid skips words of less than three bytes, and isWordExist compares only the hash of a word that collides with no other list word (src/src/crypto/mnemonic.cpp:163), so a word of no list can count as existing; src/include/gradido_blockchain/crypto/Passphrase.h:41 says "\return true if all words in passphrase existing in mWordSource".
- **Passphrase**, `IndicesNotZero`, src/src/crypto/KeyPairEd25519.cpp:36: Passphrase::generate takes each index from 0 to 2047 (src/src/crypto/Passphrase.cpp:146), but src/src/crypto/KeyPairEd25519.cpp:36 says "assert(word_indices[0] && word_indices[1] && word_indices[2] && word_indices[3])": about one generated passphrase in 512 fails the assertion of a debug build.
- **TextFilter**, `LettersStay`, src/src/crypto/Passphrase.cpp:79: For a byte above 0x7F that starts no German special character the loop raises i and j together, so it copies the first and the third byte and skips the second; the letter behind the character is lost. src/include/gradido_blockchain/crypto/Passphrase.h:36 says "replace utf8 characters with html special character encoding".
- **Search**, `PageIsFilled`, src/src/blockchain/InMemory.cpp:266: findAll(Filter) asks the index for the one page of the filter and then drops what the filter's function and exact time refuse, without asking for more: a page may stay empty while transactions behind it match. src/src/blockchain/InMemory.cpp:264 says "if pagination is used, filterCopy contain count of still to find transactions".
- **Search**, `AtMostSize`, src/src/blockchain/InMemory.cpp:325: findAll(CompactFilter, elementFilter) goes from page 0 to page 1, which are both the first page, and looks at the capacity only between pages: transactions are returned twice and more than a page of them. src/include/gradido_blockchain/blockchain/Pagination.h:20 says "page size, how many result should be returned at max".
- **Search**, `OnlyInvolved`, src/src/blockchain/CompactFilter.cpp:60: A public key without an index in the dictionary makes the compact filter MissingIndex, which aggregateTransactions does not look at: the search returns all transactions. src/include/gradido_blockchain/blockchain/Filter.h:60 says "return only transaction in which the public key is involved, either directly in the transaction or as signer".
- **Search**, `UserIsFound`, src/src/interaction/validate/RegisterAddressRole.cpp:107: The validation of a subaccount calls findOne with the user's key and no page size: a user with two transactions makes findOne throw TransactionResultCountException, so that only a user with nothing but the registration gets a subaccount. src/include/gradido_blockchain/blockchain/Abstract.h:91 says "only if you expect only one result".
- **Search**, `CoinOfTransaction`, src/src/blockchain/TransactionEntry.cpp:118: getCoinCommunityIdIndex reads the coin of the amount and returns nothing, so every entry is taken for one of its blockchain's own coin. src/src/blockchain/Filter.cpp:127 says "if transaction hasn't explicit set coin community index, then it belongs to his blockchain".
- **ThreeMonths**, `SumOfThreeMonths`, src/src/interaction/calculateCreationSum/V01_ThreeMonthsAlgoRole.cpp:37: The interval of two year_months ends on the first day of the month of receiving (src/src/lib/DataTypeConverter.cpp:330), so creations confirmed later in that month are not found, and over the end of a year only months ten apart count, so a December is missed in January. src/src/interaction/calculateCreationSum/V01_ThreeMonthsAlgoRole.cpp:27 says "received = max" and the next line "received - 2 month = min".
- **Application**, `ToldEnds`, src/src/Application.cpp:64: run sets gRunning after init, so that a terminate during init is forgotten, although the constructor is to "make sure loop will canceled if sigint signal was send from os" (src/src/Application.cpp:43).
- **KeyPairs**, `EveryMemoReadable`, src/src/lib/minizLib.cpp:49: decompress takes what begins with the bytes 78 DA for compressed; a text compress has left alone and that begins with them (a letter x before certain Arabic letters), or a text of more than twice the buffer, is written and cannot be read. src/src/lib/minizLib.cpp:62 says "if buffer is to small, try again with 2x Default buffer".
- **KeyPairs**, `SealedOpensByPrivate`, src/src/crypto/AuthenticatedEncryption.cpp:40: The constructor for a private key makes its pair of memory nobody has written and does not use the key; SealedBoxes::decrypt(privateKey, ...) (src/include/gradido_blockchain/crypto/SealedBoxes.h:11) relies on it.
- **Secrets**, `NoKeyIsNotTheSame`, src/src/crypto/SecretKeyCryptography.cpp:77: When pwhash fails the key is reset and its hash is kept; isTheSame compares hashes only, so that an object without a key is the same as one that has the earlier key. src/src/crypto/SecretKeyCryptography.cpp:86 says "generate hash from key for compare".

### Fairness

- `Ledger`: weak fairness of `CallStep`. A call, once submitted, runs on its caller's thread until
  it returns. `Submit` is not fair; nobody has to call. `CallReturns` needs no more: each turn
  of a loop over the triggers removes an event, and a timeout adds none.
- `Container`: weak fairness of each thread's `Methods`. A thread inside a method runs on, and a
  mutex that is free goes to someone who waits; every thread makes finitely many calls.
- `CrossGroup`: weak fairness of `Deliver(o)` per order. The client that sent the outbound half
  hands over the inbound one, and again after a refusal, until it is confirmed. Nothing keeps the chain of the
  recipient from going on meanwhile: once its last date is more than the 120 seconds after createdAt
  (`TooLate`) the inbound half is refused for good, and `EveryOutboundCredited` allows for it. (Compared on
  the recipient's chain: nothing relates the dates of two chains.)
- `BatchVerify`: strong fairness of the master and of each worker. A thread that can take a mutex
  again and again gets it in the end; a waiting thread that is notified wakes up.
- `HashList` and `Application`: weak fairness of the steps of a call, a sequential
  program that runs on. `LoopEnds` needs the time-out of `wait_for`, not the notification.

### Refinements

`Store` with one thread implements `ConfirmedLog` (`LogSpec`; the log is the chain by number),
`Container` restricted to the queue's methods and with the locks implements `FifoQueue` (`FifoSpec`; a call
takes effect when it writes the queue), `HashList` implements `HashMap` (`MapSpec`, part of `ListIsMap`; the map is the
sorted array, `MapOf`, a call takes effect with its answer). All three are proved for every instance, see below.

## Proofs

The theorems hold for every value of the constants, from the hypotheses named here. An assumption on
constants is stated in the module that declares them, and TLC evaluates it for the instance of the run.

### Ledger (`LedgerProofs`)

Assumed: numbers are naturals, a timeout is at least one unit, `Keep` is a table of fractions that
begins with the whole, imports are dated when they were created.

- `TypeCorrect`: `Spec => []TypeOK`. Balances are naturals, so none becomes negative. This needs
  that a balance is only ever looked up on a date not before the transactions it is found in.
- `ChainStaysOrdered`: `Spec => []ChainOrdered`.
- `NoEventLeftBehind`: `Spec => []NoOverdueEvent`.

These follow from the inductive invariant `IInv`. `NoOverdueEvent` is not inductive: it speaks of the
time between calls, and during a call events at the last date do exist. `IInv` adds that a nested call
is not later than the call around it (`NestedCallsEarlier`), that deferred transfers under way have a
positive timeout (`TimeoutsPositive`), and that no event lies before the last date, and one *on* it
only while every call under way has a date at which it will still process it (`NoEventOvertaken`).

The next four are for clients that hand over no timeouts (`NoTimeoutCalls`: timeouts come from
`createTransactionByEvent`). The hypothesis is needed: with a timeout handed over, `ledger_timeout`
pays a transfer out twice.

- `EventsStayOpen`: `Spec => []EventsAreOpen`, from `OpenInv`. Between the removal of an event and the
  confirmation of its timeout the transfer is known to the stack alone. `PendingOpen` says that a
  timeout under way is that of an unpaid transfer, with nothing later than it confirmed; `PendingOnce`
  that no event and no other call is about the same transfer. Why a redeem cannot come between: its
  date would have to be before the timeout, and every call under way is at or after it.
- `DeferredPaidOutOnce`: `Spec => []CheckedPaidOutOnce`, and `NoDeferredLost`:
  `Spec => [](Calculated => DeferredNotLost)`, from `PaidInv`. `AddressesNew`: no two deferred transfers
  have the same address, and none of them pays from one. `AddressesPaid`: the address holds the amount,
  is changed by its own transfer and payouts only, and is emptied by them. So what `fromEnd` finds at
  the address is the decayed amount before the payout and nothing after it, which is what the balance
  check compares with. `NoneForgotten`: an unpaid transfer has its event or a timeout under way.
  Imported histories are excluded because an import may bring an address that is empty from the start.
- `OnlyCreationsMint`: `Spec => []CalculatedConservation`. Each role changes two or three balances; the
  proof computes the sum over them, and for a redeem or timeout uses `AddressesPaid`.

### Sums (`SumProofs`)

`SumFunctionOnSet` of the community modules is a recursive function over the subsets of a finite set that takes
an element of its choice from each. The module shows, without an induction theorem, that such a
function exists, is unique and does not depend on the choice: a least counterexample exists among the
numbers (or the finite sets) and leads to a contradiction. What is used is that a sum over a set with one more
element is the sum plus that element's value, and its consequences (sums of two or three elements,
pointwise sums, sums that differ in one place, a sum split into the sums of two parts, sums of naturals
over a subset).

### Transfers between communities and the builder (`CrossGroupProofs`)

- `InboundPaired` (`InboundHasOutbound`) and `OncePerDate` (`CreditedOncePerDate`). The invariant says which
  kinds of entries a chain can have (`EntriesOK`), that chains only grow (`Sequences1`), and that an inbound
  transaction is there once per date and was in time. More cannot be proved: TLC refutes `CreditedOnce`.
  `EntriesOK` is needed because `isPairing` compares neither the types of the two transactions nor
  their chains: that an inbound one cannot pair with a local one follows from what the builder puts on
  which chain.
- `CoinsConserved` (`Conservation`), from the same invariant and `BalancesOK`, for finite sets of communities
  and keys. An outbound transaction moves its amount from the sender's account to what is under way, an inbound one
  from there to the recipient's. What is under way for an order is counted as debits minus credits
  (`Outstanding`), so that an inbound transaction that is confirmed again makes it negative: the sum stays, and
  says that no other step makes or loses coins.
- `TransactionsAsSet` (`BuiltAsSet`), for at least one session. `BuilderInv`: body, anchor and
  signatures are of the session; in state "local" the only entry of `mBodyByteSignatureMaps` is the body; in
  state "cross" the first entry is the body bound the other way round, with the same signers; otherwise
  the last call threw. What was handed out in this session is the outbound body. The caller resets the builder
  after an exception; one that does not gets a transaction without a body (`BuiltHasBody`, a known deviation).

### Threads

- `ContainerProofs` (a thread is not the value for "nobody"): `Implements`, that the methods of the
  queue, interleaved with `lock`, `tryLock`, `unlock` and time-outs of any number of threads, implement
  `FifoQueue`, and `Exclusion`, that no two threads are inside a method. The invariant is
  `Types /\ Guarded`: a thread inside a method owns the mutex at least once more than its locks, so
  what it read is still the queue when it writes. Counting the locks is what makes it inductive,
  because an owner may unlock between its methods.
  `CachesExpireInTime` (`ExpiresInTime`), for any time-out: `CacheInv` says that every value has the entry
  that will expire it, and (`OneEntry`) that a key which clients do not remove has no other entry. Without
  the second part an entry left over from an older value takes the new one too early, which is what
  happens to keys that are removed and added again (`ReaddedKeptForTimeout`, a known deviation).
  `ListImplementsMap` (`ListIsMap`; hashes are naturals, the memory grows by at least one item), for any
  hashes, data and sizes: the sorted array of DRHashList implements `HashMap`, its items stay sorted inside
  the memory, and the item a search looks for is in its window. `ListInv` says that what lies before the
  window is below the hash and what lies behind it above, and, of a search that missed, that the hash
  belongs at the place of the last probe or the next: that is where `addByHash` opens a gap and what makes
  the order of the items inductive. A probe is one step, so that no induction over the search is needed.
- `BatchVerifyProofs`: `Complete` (`ReturnedVerified`), that `verifySignatures` returns only after
  everything that was on the chain at the call has been verified, for any number of processors,
  transactions, page and batch sizes, wake-ups and growth. The invariant is
  `TypeOK /\ NothingLost /\ Phases`: whatever is not yet verified is in the rest of the chain, the
  master's batch, the queue or a worker's hands, and the phases say when each of these is empty.
  `ExactlyTheInvalid` (`ReturnedInvalid`): what is returned are the bad ones among the verified, and while the
  pages keep their places and none of two holds a single transaction (`Still`) none is held at two places at once
  (`OnceInv`), so none is returned twice.
- `StoreProofs`, the memory manager (`ParametersAssumption`: bucket sizes grow, sizes and the limit of a stack are numbers, an
  address is not the null pointer): `BuffersStaySound` (`BuffersSound`). `MemoryInv` says of every
  buffer that malloc gave out that it has one owner: a stack, a Block, or a thread that has taken it and has yet
  to fill it for a Block. `WorkSound` ties what a thread has yet to do to the size and content its Block
  will have, which is what keeps an assignment of one thread apart from a release of another.
- `StoreProofs`: `ChainImplementsLog` (`LogSpec`), for one thread (`Threads = {t}`): the number a call
  reads is still the next one when it pushes (`StoreInv`), so the push is the log's append and
  everything else stutters. With two threads it is not, and `store_threads` shows the lost transaction.
  `ReadsStayExact` (`ReadsAgree`), for one thread that does not clear, and accounts that have keys of
  their own (`OneTypePerAccount`: only the first address a transaction sets, the user of a subaccount, may
  have another type already). `ReadsInv` says that the sorted copy is dirty or the numbers of the chain;
  that the dictionary has every key once and before its transaction; and that the data of an address are
  those of the first transaction that set its type and of the last one that changed its balance. A transaction
  whose compact copy is not made must leave the addresses alone, which is where `OneTypePerAccount` is needed.
  `FoundStaysKept` (`FoundIsKept`), for any number of threads: whoever is past the dictionary has its
  index there, and an answer is of the epoch it was found in (`LookupInv`).
- `KeyProofs`, `KeysAreOfTheirLogin` (`KeyIsOfLogin`), for a server key of the right size
  (`ServerKeys \subseteq {"good"}`), which the constructor's caller must have loaded: `LoginInv` says who is inside which lock, that a writer is
  alone, and that between the key and its hash the key is that of the call under way.

### Keys (`KeyProofs`)

For any set of pairs at the start that were not derived, and `KeyAssumption` (the sizes of texts and buffer are
numbers, an exception is neither a key nor a text, "no index" is no index): `ChildrenExact` (`ChildExact`) from `PairInv`, every pair with an index was derived
along a path that ends in it; `PartnersRead` (`ReadByPartner`) from `BoxInv`, a memo is a box or seal of
its compressed text for those it is between, and an index stays with the partner it was handed out for.

For any set of keys and of well-formed bodies, with and without a blockchain: `AcceptedIffSigned`
(`AcceptedIffValid`), if no two
signatures of a map have the same hash (`HashAssumption`; `calculateHash` has 64 bits), and
`AcceptedForGood` (`AcceptedStays`). For a creation with a blockchain both are about signers that have signed no
registration but their own (`TypesFound`). `HumanIff` is the reason: of such a key all registrations the search can
find are its own, and these have one type, so that the last one, and the last one up to a date, say the same of being
human. `SigInv` says that no key signs a map twice and that the dictionary
gives each key one index. The first makes "as many pairs, and each of them found" the same as "the same
set"; the second makes the three signers of a registration three pairs. Signers enter the dictionary one
by one (`Added`, a recursive function whose existence is shown with a least counterexample, as for the
sums), each at its end, so that an index that was known keeps its key.

### Index and searches (`IndexProofs`)

Assumed of the constants: contents have keys, types and coins of the sets given (`ContentsAssumption`),
sizes and bounds are naturals, months and growth steps not empty (`SizesAssumption`), the filters and times
asked about are ones the code can form (`FiltersAssumption`, `SearchesAssumption`, `ThreeMonthsAssumption`),
a calendar of ascending months (`CalendarAssumption`), and for the limit `CreationAssumption`.

- `LookupsStayExact`: `Spec => []LookupsExact`, with additions that fail half way and resets in
  between. `IndexInv` says that dates ascend along the chain; that each bitmap holds exactly the indexed
  numbers that belong to it; that the number bounds are those of the index, the upper one perhaps of an
  addition that failed; and that a cell of the table of days is zero or the highest number of its day.
  From the cells follows where the two cursors of `GetTxRangeOfInterval` stop, from ascending dates that the
  numbers between them are those of the interval. A page is cut out by the ranks of its ends; the k
  numbers between two selected ones have the ranks between theirs.
- `CountedTwoMonths`: `MonthsSpec => []CountedTwoMonthsOn`, from `IndexInv`: the lookup behind the V01 sum
  is exact, and of months at most two apart, comparison modulo twelve tells which they are.
- `TwiceTheLimit`: `CreationSpec => []AtMostTwiceTheLimit`. `CreationInv` adds a receipt to every
  creation: when it was created, that it named a month it might name then, and that it and the
  creations its sum looked back over stay within the limit. Of the creations for one month that were not
  dated ahead the last one
  covers those it looked back over. Of the others take the last: `CreationAssumption` (two look-backs cover
  the months in which a target may be named, which the lengths of months justify) makes it cover all
  the rest. So two receipts cover the month, each with at most the limit.
- `SearchesStayExact`: `SearchSpec => []SearchesExact`. `SearchInv` adds to `IndexInv` that the moments of
  confirmation ascend. An order of a set is determined by the set (`OrderedOnce`), so that the loop of
  `findAll`, which skips what the index returned for the days of an interval and the exact times refuse,
  takes the same as a loop over what the filter describes (`TakenPart`). `isTransactionExist` asks
  for intervals the index does not always answer exactly: the moment may lie before the first
  transaction, inside its first month; there both sides are empty. `AccountsAssumption` says only that
  the account a registration or deferred transfer opens has its balance set by it; anybody may sign beside.
  Of `getAddressTypeSlow` the theorem therefore says what it can answer (`AnswerInRange`): the type of a registration the
  key has part in, or of a deferred transfer to it; and none only if it was not registered in the range and
  every deferred transfer to it lies before one to another that it has part in, since the search
  takes a page of one before its function looks at the recipient.

The same facts are stated with hypotheses where the code deviates: `Exact` names the lookups the index does not
answer exactly, `indexed = 1..Len(chain)` excludes failed additions from `SearchesExact`, and the months of
the first transaction and creations dated ahead are excluded from the limit (`AfterFirstMonth`, `NotDatedAhead`).

### Only model-checked

- Liveness (`NestedCallReturns`, `EveryOutboundCredited`, `Returns`,
  `QueueCallsReturn`, `LoopEnds`): out of the prover's reach. `LoopEnds` includes that the binary search of
  `HashList` ends.
- What a recursive definition or a loop computes for every input: `FindExact`, `IteratesExactly`
  (cursors through buckets), `RoundTrip`, `PhraseExact`, `CodedWhole` (sums over lists of parts). These need an induction over data.
- `FormsAgree`: many small functions of records, exhausted by the run's wire forms.

## What could be proved next

The buckets of `MonthIndex` always describe the accepted additions, and from it the unpaged part of
`FindExact`; in `Ledger`, that a transaction is confirmed once per date; an abstract `Bank` (one balance per key) that `Ledger` without
imports implements.

## Not modelled

- `fromBegin` of calculateAccountBalance: its table of roles is static and refers to the arguments
  of the first call, so that later calls are undefined; nothing in the library calls it.
- `advancedBlockchainFilter`: it includes a header that is not in the repository.
- `DRVirtualFile` (its implementation is commented out), `MultithreadList` (used nowhere),
  `keyDerivation` (used only by code that is commented out).
- JSON: text for display, without a way back. Texts of exceptions, logging, configuration and
  conversions between numbers and text: no state. The arithmetic of dates, durations and units appears
  only where a property depends on it.
- http and the IOTA client: single blocking requests without retries or state between them.
- The arithmetic of libsodium, the coders of the protobuf and core libraries, miniz and tinf are
  external; their outcomes are modelled as the code uses them.
- `operator--` of the iterator by months, which is `advance` in the other direction.
- `operator==(KeyHashed)` of SecretKeyCryptography, which reads the hash without the lock: the outcome
  of that race is not a property of the other operations.
