# A TLA+ model of the block server

`myblockchain` is a deterministic blockchain: clients send transactions to block
servers, an *epoch server* numbers the batches with epochs, the block servers
exchange their batches so that all have the same transactions for an epoch, and
each executes the epoch with the Aria protocol and appends a block.

```
 clients ──> UserCollector ──> epoch server (numbers batches)
                  │
                  v
  other <──> CommController ──getTransaction──> TransactionManagerImpl ──> BlockGenerator, block files
 servers                                         │              ^
                                 addTransaction  │              │ lastEpochFinishSignal
                                                 v              │
                                              AriaCoordinator ──┘
                                                 │  ^
                          workload, ariaGlobalState │ workerState
                                                 v  │
                                     AriaWorker × n: TransactionExecutorImpl
                                                 │
                                       reserve table, database (LevelDB)
```

Paths below are relative to `src/`.

## 1. Inventory

For each part: its state; its operations; whom it interacts with; what is hard;
what makes it correct.

**Coordinator** (`src/block_server/coordinator/AriaCoordinator.cpp`). State:
`globalState`, `epochChan`, the map of workers, `transactionBuffer`. Operations:
`run`/`mainRoutine` on its own thread, `addTransaction` on the manager's.
Interacts through a mutex and two condition variables with the manager, and
through one mutex, two condition variables and two atomics per worker with the
workers. Hard: five kinds of waits with single notifications, a store of
`workerState` outside the mutex (line 137), workers created on the fly,
back-pressure. Correct when phases do not overlap, every transaction of an
epoch is executed and committed once before the epoch is announced, no wakeup
is lost, nobody deadlocks on the buffer.

**Worker** (`worker/AriaWorker.cpp`, `worker_instance.h`). State: `workerState`,
`ariaGlobalState`, `workload`. Operations: wait for READ, execute, report, wait
for COMMIT, commit, report. Correct as above.

**Transaction executor** (`worker/impl/ transaction_executor_impl.cpp`). State:
the result and read/write set of each transaction, the pointer to the epoch's
reserve table. Operations: `executeList`, `commitList`, on all workers at once.
Hard: everything it shares is unlocked or locked for moments only. Correct when
the outcome of an epoch is serializable, every epoch makes progress, and a
committed transaction's updates are in the database.

**Reserve table** (`reserve_table/`). State: for every key the ID of the
transaction that reads, and that writes it first. Operations:
`getHashMapReserveTable` (double-checked locking), `reserveRWset` (loops around
`compare_exchange_weak`), `dependencyAnalysis`. Correct when there is one table
per epoch and its entries are the smallest IDs.

**Database** (`database/impl/database_impl.cpp`, `level_db_stroage.cpp`). State:
the store, the updates buffered in the epoch, the flag `commitPhase`.
Operations: `bufferUpdates`, `commitUpdate`, `clearBufferThreadSafe`. Hard: the
flag is read without the lock, the buffer is cleared by whoever is first in the
next epoch. Correct when no buffered update is lost and commits are written.

**Chaincode and ORM** (`worker/impl/orm_test_chaincode.cpp`, `database/orm/`).
No state of their own: they turn a payload into a read and a write set.

**Transaction manager** (`transaction/impl/transaction_manager_impl.cpp`).
State: `epoch`, `lastEpochFinishSignal`, the transactions of this and the next
epoch. Operation: a loop that sends transactions to the coordinator, and when
the epoch is finished retries the aborted ones, hands the others to the block
generator and frees them. Hard: it sends one wrapper of the next epoch ahead,
and polls the finish signal for equality. Correct when no transaction is lost,
retried twice or freed while in use.

**Comm controller** (`comm/client_proxy/comm_controller.cpp`), **user
collector**, **epoch server**, **comm stub**. State: the controller's `epoch`,
queues between its threads, a heap ordered by epoch, the batches received.
Operations: broadcast the local batches of an epoch, receive the others', meet
at a barrier, hand out transactions in epoch order. Hard: several threads and
servers, epochs without a batch, restarts, hash collisions of IDs. Correct when
every server delivers the same transactions epoch by epoch.

**Cyclic barrier** (`src/common/cyclic_barrier.cpp`). State: `current_waits`.
Hard: waits without a predicate, timeouts. Correct when nobody passes before
all have arrived.

**Block generator and storage** (`database/impl/block_storage_to_file.cpp`).
State: the transactions of the block, one file per block, `block_num.txt`.
Hard: crashes between two writes, empty blocks. Correct when the chain on disk
is a prefix of what was processed, and can be verified.

**Merkle tree** (`src/common/merkle_tree/`). State: an array of hashes per
level. Operations: add, update, root, verify. Hard: any number of leaves that
is no power of two. Correct when the root and the verification of a leaf are
about all the leaves. It stands on `mt_arr_list.c`, which manages memory by
powers of two.

**Hashing and encodings** (`sha224_256.c`, `sha256_hepler.h`, `base64.cpp`, the
serialization in `mock_transaction.cpp`). State: a context that is reset,
appended to and executed. Hard: lengths at the boundaries of blocks, one helper
for all the receiver threads. Correct when a digest covers the whole message,
and what was encoded or stored is read back.

**Concurrent queue** (`include/common/concurrent_queue/`), the queue between
nearly all of these threads. State: a sub-queue per producing thread in blocks
behind an index, a hash table from threads to sub-queues, a list of sub-queues,
a free list of blocks, a semaphore. Hard: all of it is lock-free. Correct when
no element or block is lost or seen twice, and a consumer that has a token gets
an element.

**Mock transaction manager** (`transaction/mock/mock_transaction_manager.cpp`):
generates load in place of the manager and the network, in a test program.

Left aside: the OpenSSL and ZeroMQ wrappers, configuration, the
load-generating client and the manual tests.

## 2. Plan

| # | modules | what | run |
|---|---------|------|-----|
| 1 | `AriaCoordinator`, `EpochEngine` | threads, signals and the epoch loop; the engine they implement | `coordinator` |
| 2 | `KVRWSet`, `ReserveTable`, `Database`, `AriaExecutor` | what the workers do inside a phase, with retries | `executor_*`, `coordinator` |
| 3 | `TransactionManager` | the manager's loop with the controller's queue and heap, or the stub | `manager`, `manager_left_behind` |
| 4 | `CyclicBarrier`, `Barrier` | the barrier and what the controllers expect of it | `exchange` |
| 5 | `UserCollector`, `EpochNumbering` | clients, collectors and the epoch server; the numbering they implement | `exchange` |
| 6 | `CommController` | servers that exchange numbered batches | `exchange`, `ledger` |
| 7 | `BatchHash`, `Sha256`, `Base64`, `MockTransaction` | hashes, IDs, encodings, stored transactions | `ledger`, `hash_shared` |
| 8 | `MerkleTree`, `MtArrList`, `ArrayList` | the Merkle tree over its array lists | `ledger` |
| 9 | `BlockStorage` | files, crashes and recovery | `ledger` |
| 10 | `LightweightSemaphore`, `Semaphore`, `BlockingQueue` | the blocking side of the queue | `queue` |
| 11 | `FreeList`, `BlockPool`, `ProducerHash`, `LinkedList` | the queue's free list, table and list of sub-queues | `queue` |
| 12 | `ImplicitProducer` | a sub-queue | `ledger` |

`MCAriaCoordinator`, `MCExchange`, `MCLedger` and `MCQueue` check several modules
that do not act on each other's variables: the variable `running` is set once, to the part that runs
in this behaviour, and the others keep still. They extend the modules whose
theorems are proved (section 10), so that run and theorem are about the same
definition, and instantiate the others. So the behaviours are the sum of
the parts', not their product. Parts meet through the abstract specifications:
`UserCollector` implements `EpochNumbering`, which `CommController` is built on;
`CyclicBarrier` implements `Barrier`, whose step is `CommController`'s `Arrive`;
what `SameEpochs` says of the order of delivered epochs is how
`TransactionManager` is fed, through a queue whose elements and tokens come one
after the other as in `BlockingQueue`; `AriaCoordinator` implements `EpochEngine`, which is
the coordinator of `TransactionManager` (`EngineFinish`); `LightweightSemaphore`
and `FreeList` implement `Semaphore` and `BlockPool`, which `BlockingQueue` and
`ImplicitProducer` use; `Sha256` justifies `BatchHash`'s taking a hash for the
sequence of what was appended.

Each of the modules of rows 1 to 6 and 9 has a module of proofs, named after it
(there is none for the small `KVRWSet`, `ReserveTable`, `Database`, whose
operators the proofs about `AriaExecutor` expand). `ConcurrentQueue_proofs` is about rows 10 and 11.
What is not proved is listed with its reasons in section 10. Still to be modelled:
the mock transaction manager against `EpochEngine`.

## 3. `AriaCoordinator`: threads, signals, epochs

| model | code |
|-------|------|
| `cpc`, `cursor` | the place in `mainRoutine` and in its loops over `workers` |
| `globalState`, `epochChan`, `workload` | the coordinator's members and its local workload |
| `wpc`, `workerState`, `ariaGlobalState`, `load` | the workers' threads and their `WorkerInstance` |
| `transactionBuffer` | the same, a queue |
| `asleep` | the threads blocked in `condition_variable::wait` |
| `mpc`, `epoch`, `sendEpoch`, `trWrapper`, `numSent`, `epochOf` | the manager's thread |
| `nExec`, `nCommit` | history: how often a transaction went through each list |

A critical section is one action; everything outside a mutex (the loop of
`deployWorkload`, the assignment in it, `createWorker`, the broadcast to one
worker after the other) is an action of its own. A wait is two steps, the test
and, if it fails, going to sleep while releasing the mutex; the test is
repeated after the wakeup. `notify_one` removes the sleeper. A sleeper may also
wake up for no reason (`SpuriousWakeup`), as C++ allows.

`SkipBusyWorker`, `DeployWorkload` and `CreateWorker` are `deployWorkload`;
`Kick` is the `setWorkerState` that follows it; `SyncWorker`, `SyncWake` are the
two loops of `syncAllWorker`. `EXIT` and the destructors are left out, because
`run` never returns.

The manager is reduced to what drives the coordinator. It sends wrappers of its
epoch or the next, never of an earlier epoch than it sent before: that is what
`CommController::getTransaction` (lines 218-269) provides with its heap and the
barrier. It polls `lastEpochFinishSignal`, and when it names its epoch sends the
aborted transactions, possibly none, with the next. Here a retried transaction
counts as a new one. What is executed in a phase is left to `AriaExecutor`.

`EpochEngine` is what all this is for: submit, execute, start of the commits,
commit, finish, next epoch. `ImplementsEngine` (refinement, mapping the phase
from `cpc` and `globalState`) says that the threads do exactly that.

### Properties

| property | says |
|----------|------|
| `TypeOK` | types |
| `PhaseSeparation` | nobody executes while somebody commits; the comment in `bufferUpdates` relies on it |
| `NoLostWakeup` | what a sleeping thread waits for is not there yet |
| `NoBufferDeadlock` | manager and coordinator are not both asleep on the buffer |
| `WorkloadUndisturbed` | the unlocked assignment of a workload reaches only a worker that waits for one |
| `EpochComplete` | at the announcement of an epoch all its transactions, and none of a later one, went through both lists exactly once; and the buffer holds no transaction of a closed epoch (the DCHECKs of `getWorkload`) |
| `FinishNotOverwritten` | the finish signal is not overwritten before the manager has seen it |
| `ImplementsEngine` | refinement of `EpochEngine` |
| `EpochFinishes` | liveness: an epoch ends when a transaction of a later one is behind it |

### Run `coordinator`

Five transactions, up to four epochs, up to three workers. The
manager starts at epoch 2, as it does when a block is saved, and the coordinator
at 1. The buffer has room for one full wrapper and a transaction;
`MinPerWorkload` is 2, so a workload has to wait for transactions or for the end
of the epoch, and full and partial workloads occur.

`MaxWorkers` is large enough that the coordinator never wants another worker;
`MaxTx` and `MaxEpoch` stop the manager, after which the coordinator waits, as it
does when clients send nothing. Two workers, two workloads for one of them, an
epoch with a closed successor and a blocked manager all occur, and are what the
properties need to fail. With `SpuriousWakeup` in `Next`, TLC's deadlock check
says little (a sleeping thread can always wake up); lost wakeups and deadlocks
are the business of `NoLostWakeup`, `NoBufferDeadlock` and `EpochFinishes`, for
which spurious wakeups are not fair and need not happen.

Fairness (`EngineFairness`, which is `FairSpec`'s for either part): weak fairness of
the coordinator thread, of each worker
and of the manager in `addTransaction`: the operating system runs every thread
that can run. Not of obtaining transactions: `getTransaction` blocks until a
client sends some. Not of spurious wakeups.

In the run's other behaviours it is `AriaExecutor` that runs, for the property
`Decided` (section 4).

## 4. `AriaExecutor`: inside the phases

`KVRWSet` has the read and write sets, `ReserveTable` the table and its
provider, `Database` the store with its buffer; `AriaExecutor` composes them
with the workers.

| model | code |
|-------|------|
| `tableId`, `tableEpoch` | the provider's `shared_ptr`, the epoch of the table it designates |
| `reserved` | `readTableList` and `writeTableList`; a slot is `<<"read", key>>` or `<<"write", key>>`, 0 is no reservation |
| `commitPhase`, `rwSetBuffer`, `store` | the members of `DatabaseImpl`, the contents of LevelDB |
| `request`, `rwset`, `result` | payload, read/write set and result of a transaction |
| `pc`, `cur` | where a worker is in its list |
| `table` | `TransactionExecutorImpl::reserveTable` |
| `left`, `slot`, `old` | locals of `reserveRWset` |

`executeList` goes from `Invoke` (the chaincode) over `LoadPointer`, `TestEpoch`,
`CreateTable` (`getHashMapReserveTable`), `LoadSlot`, `StoreTid`, `Exchange`
(one access to the atomic each), `FinishReserve` to `BufferTest`, `BufferClear`,
`BufferPut` (`bufferUpdates`, called by the destructor of the ORM helper at the
end of the iteration, also for a failed chaincode). An iteration of `commitList`
is one step: the tables are stable then, and `commitUpdate` is serialized by its
mutex. The double-checked locking on the plain `shared_ptr` is undefined
behaviour when one worker reads the epoch of the table while another replaces
it; the model lets that test go either way and returns the new pointer, which
is what a build that does not fault does. `commitPhase` is an unsynchronized
`bool`; the model takes its accesses to be atomic.

Values are abstracted to the transaction and the epoch that wrote them. A
worker takes its transactions in any order. IDs are distinct and positive: the
comm controller derives them from a hash, which is a hazard listed for it. The
phases are given by the barriers that `AriaCoordinator` models, and `NextEpoch`
is the manager's treatment of the outcome: what was aborted is reset and joins
the transactions that arrive for the next epoch.

### Properties and runs

`executor_safety` has two kinds of assignments: three workers with a transaction
each and four kinds of payload (failing, read-and-write of either key, reading one
and writing the other); and one worker with all sixteen payloads over two keys
for each of three transactions, in every order. Two epochs with retries.

| property | says |
|----------|------|
| `ReservationsHold` | the race to replace the table leaves all workers with the same one, and the pointer kept for the commit is still that one (`OneTablePerEpoch`); every reservation is by a transaction of the epoch that accesses the key (`ReservedByAccessor`), and no access stays unreserved (`AccessReserved`) |
| `CommitHasEffect` | clearing the previous epoch's buffer takes nothing of this epoch with it (the DCHECK of `commitUpdate`), and an epoch with a commit has all the updates of one of its transactions in the store |
| `SerializableAlone` | with one worker the table has the first accessors, no key has two committed writers, and there is an order of the committed transactions in which everybody reads before others write: the commit rule is sound when the table is exact |

`Decided` is checked in the run `coordinator`, where `running` chooses between the
coordinator's threads and the executor (two workers, three transactions, three
epochs): the
loops around `compare_exchange_weak` end although the exchange may fail every
time, and every transaction is committed or discarded in the end, within as many
epochs as there are transactions, since the smallest always gets through. Fair
are each worker's steps, the coordinator's, and `NextEpoch`, which presupposes
that the clients go on sending, since an epoch only ends when a later transaction
comes.

### Disagreements with the code's own statements

`executor_first_access` violates `FirstAccessKept` with two workers. The comment
at `mock_reserve_table.cpp:17-18` promises the first reader and the first writer
of a key; the plain store before the exchange (lines 34, 52) overwrites a smaller
ID that came in between, and the exchange then fails and the loop ends. With it
the commit rule loses its ground: two writers of a key may both commit.

`executor_stored` violates `CommittedIsStored`: `commitUpdate(tid)` writes only
for the first commit of an epoch (`database_impl.cpp:45`); the others are
reported as committed (`transaction_executor_impl.cpp:46-48`) without any write. The
run has a single worker and two transactions without a common key, so that
neither the reserve table nor an order of steps has a part in it.

Bounds of these runs: `MaxTid` transactions, `MaxEpoch` epochs, after which the
model stops (no deadlock check), as the server does when the clients stop. Two
keys are enough for a dependency cycle of two transactions, three transactions
for a slot to change hands twice; each property has a mutant that fails there.

## 5. `TransactionManager`: from the comm module to the blocks

| model | code |
|-------|------|
| `CommStub` | which comm module is compiled in; every behaviour has one of them |
| `commEpoch`, `processedTransaction`, `currentEpoch`, `transactionMap` | `CommController`'s epoch, heap, the global at line 217, the lists |
| `receivers`, `broadcastTransactions`, `enqueuing`, `tokens` | its receiver threads and the queue between them and the manager: a sub-queue for each, who is between the two steps of `enqueue`, the semaphore |
| `delivered` | the receivers that have enqueued a batch for the epoch |
| `epochTrSentNum` | the stub's |
| `pc`, `arg`, `dequeuing` | where `run`, `getTransaction` and `transferTransaction` are, and for which epoch |
| `currentEpochTrWrapper`, `nextEpochTrWrapper`, `lastEpochFinishSignal` | the manager's members |
| `epochOf`, `result`, `freed` | a transaction's `_epoch` and result; whether it has been deleted |
| `blocks` | what went to the block generator for each epoch |
| `failed` | a CHECK or DCHECK has stopped the server |
| `leftBehind` | history: a transfer has ended with an older transaction in the queue than one it has taken |

`GetTransaction`, `Test`, `Take`, `StopTaking` are `getTransaction`, cut where
another thread may act; `StubGetTransaction` is the stub's; `Send`, `NotFinished`,
`FinishEpoch` are the loop of `run`, the last with the retry of the aborted ones,
the block, and `clearTransactionForEpoch`. `Checks` are the CHECKs and DCHECKs on
the way; where one does not hold, the manager's only step is `Abort`. `EngineFinish`
decides an epoch as `EpochEngine` does, with any outcome in which one transaction
at least is not to be retried (the smallest valid ID commits).

The queue between the receivers and the manager is the blocking queue of section 9,
taken apart as far as the manager can tell. `enqueue` makes an element visible
(`Deliver`) and then signals the semaphore (`Signal`,
`blocking_concurrent_queue.hpp:125-127`). `transferTransaction` is a loop of
`wait_dequeue` and `try_dequeue`; each takes a token (`Acquire`) and then an element
of any sub-queue, first in, first out in each (`Dequeue`, lines 294-303). The loop
ends when there is no token (`EndTransfer`), whatever is still visible in the
queue. `NextDelivery` is the barrier, where all receivers have signalled for what
they enqueued.

So a token of this epoch can get the manager a transaction of the next, whose own
token is not signalled yet, and the transfer ends with a transaction of this
epoch left behind. The heap's top is then of the next epoch, or soon will be, and
that is how `getTransaction` tells that the epoch is over. Run `manager_left_behind`
violates `BlockOfEpoch`: the local receiver enqueues 1 and the other one 2, both
of epoch 3; they pass the barrier; the local one enqueues 3, of epoch 4, and has
not signalled yet; the manager's two tokens get it 1 and 3. The block of epoch 3
has transaction 1 only, against the comment at `transaction_manager_impl.cpp:28`.
Transaction 2 comes to the heap later, under an epoch that is over: the DCHECKs at
lines 223 and 237 or the CHECK at line 255 of `comm_controller.cpp` stop the server.
(The model has the DCHECKs on, as the repository's build does.)

Run `manager`: either comm module, the controller with one receiver or two; five
delivered transactions in up to three epochs, or nine that the stub makes up,
from epoch 3 on. As in `complie_config.h`, the minimal and the maximal size of a
wrapper are equal.

- `TransactionsKept`: a transaction is in one place at a time, in a sub-queue, in
  the heap, in one of the manager's lists or in one block; tokens and elements
  match; nothing is deleted that somebody still has, although lists are kept under
  the controller's epoch (`comm_controller.cpp:258`) and cleared under the
  manager's. This holds whatever has been left behind.
- `BlocksComplete`: as long as no transaction has been left behind, all CHECKs and
  DCHECKs hold and the block of an epoch has just the epoch's transactions; and
  with one receiver, on a server that is alone, none is ever left behind.
- `SentInOrder`: the coordinator is sent transactions epoch by epoch and none of
  an epoch it has closed, the retried ones included. It holds also when one was
  left behind, owing to the CHECK at line 255: the server stops instead.
- `EpochProcessed`: an epoch ends when a transaction two epochs later has been
  delivered, unless a CHECK stops the server. One epoch is not enough: a full
  wrapper is not returned until another transaction has come.

Fair are the manager's thread, the coordinator, and a receiver between the two
steps of `enqueue`; clients need not send. Two receivers are what it takes to
leave a transaction behind, and five transactions give each a second one while the
other's first is on its way. The comment at `comm_controller.cpp:245-247` lets a
wrapper of minimal size go, the code (line 261) wants more than that. If the
minimum were configured below the maximum, the DCHECK at line 237 would fail: a
wrapper that was returned when the heap ran empty may have been the epoch's last,
and the next transaction may be two epochs later.

## 6. Between the servers: `CyclicBarrier`, `UserCollector`, `CommController`

### `CyclicBarrier`

`current_waits` is the code's; `asleep` are the threads blocked in `cv.wait`;
`released` those waiting whose round is over. `await` and `reset` are one step up
to `notify_all`, which comes after the unlock and is a step of its own. How the
barrier is used is a constant: in one use it is the controllers' (as many threads
as parties, no timeout, no reset, and no spurious wakeups, which the code does
not defend against); in the other there are spurious wakeups, timeouts, resets
and one thread too many.

- `WaitersCounted`: nobody whose round is over sleeps without a `notify_all` to
  come, in either use; in the controllers' use the count is that of the threads
  waiting in this round.
- `ImplementsBarrier`: in the controllers' use, it is the barrier of `Barrier`.
- `ReturnsWhenReleased`: nobody returns from `await` before his round is over
  (action property), and everybody whose round is over does (liveness, with weak
  fairness of every thread's `NotifyAll` and `Return`).

In the other use the barrier opens early: a party that timed out or woke up by
itself stays counted, as `cv.wait` has no predicate; and one that arrives between
the unlock and `notify_all` is woken by the round before.

### `UserCollector` and `EpochNumbering`

Clients send requests, one outstanding at a time (REQ/REP). `CollectRequest` and
`BufferRequest` are the thread of `collectRequest`, which replies before it
enqueues; `PackBatch`, `EnqueueTransaction`, `EnqueueProof` the thread of `run`
with the call of the epoch server in between; `TakeBatch` is the local receiver,
as far as it takes from the two queues. `Serve` and `UpdateEpoch` are the epoch
server's loop: it looks at the clock after a request only, so that an epoch lasts
until the first request after `TIME_GAP`.

`handed[s]` is history: all the transactions the receiver of `s` has taken, in a
row; `takenBatches[s]` says of each of its batches which proof it came with and
where in that row it ends.

- `HandedInOrder`: the receiver takes whole batches with one epoch each, and a
  client's transactions come in the order it sent them, none lost or doubled.
- `ImplementsNumbering`: the batches are numbered as `EpochNumbering` says, no
  epoch is empty and none shorter than `TIME_GAP`, counted from its first batch.
- `AcknowledgedHanded` (liveness): what a client was told of reaches the receiver.

Fair are all threads (weak), and the epoch server's `Serve` for each server
(strong): it takes requests from its socket in turn, and those of one server must
not be passed over for ever. The reply to a client comes before the request is
in memory that anybody else can see, so a crash would lose it: crashes of this
part are not modelled, since nothing of it is stored.

Bounds: two servers with a client each, two requests per client, batches of up
to two, a clock of two ticks with a gap of one, three epochs. A batch that is
numbered while the next is collected, and servers on either side of the end of an
epoch, occur.

### `CommController`

One local and `n - 1` remote receivers per server. `Dequeue` and `CloseEpoch` are
`receiveFromLocalServer` for a batch of this epoch and of a later one; the latter
publishes the set of the epoch and goes to the barrier; `Receive` is
`receiveFromOtherServer`; `Arrive` is the barrier, whose callback increments the
epoch. A batch stands for its transactions.

- `SameEpochs` (run `ledger`, three servers): every server that has left an epoch
  has just the batches that any server got for it, each once; they become
  available epoch by epoch, and not before the server is in the epoch; no server
  is ahead of another by more than one epoch, so that at most two publications
  are waiting for a subscriber; the CHECKs of the epochs hold.
- `EpochDelivered` (run `exchange`, two servers, liveness with weak fairness of
  every receiver): an epoch after which every server has got a batch is delivered
  at all of them.

Both runs have `Skips` = FALSE: every server gets a batch in every epoch.
Without that, the run `comm_idle` fails: a server that had no request during an
epoch stops at `CHECK(response.epoch() == epoch)` (`comm_controller.cpp:116`).
And both have `Lossy` = FALSE. A ZeroMQ PUB socket drops what it cannot deliver,
when a subscriber is not yet connected or its queue is full; with `Lossy` = TRUE
the receivers of the missed publication wait for ever, and everybody else with
them, as nothing is sent twice.

## 7. `BatchHash`, `Sha256`, `Base64`, `MockTransaction`

`Sha256` has the context with every sequence of calls of `reset`, `input`,
`finalBits` and `result`, all sizes being constants. The compression function is
ideal: the intermediate hash is the sequence of the blocks that went in.
`DigestOfMessage` compares with FIPS 180-2: however the message comes in pieces
and whatever its length, the digest is that of the padded message, and a message
whose length does not fit gets none. The part `Digests` of run `ledger` has octets
of two bits, blocks of four octets with two for the length, so that a message of
eight octets is too long. (An overflow of the length sets the code to 1, which is
`shaNull`, and not `shaInputTooLong`: `sha224_256.c:61-64`. The caller only
compares with `shaSuccess`.)

`BatchHash` is how the collectors and receivers use it, every call of the
helper a step: `CallsFor` is the list of calls for a batch. All receivers of a server
share one helper without a lock (`comm_controller.cpp:126-129`, 147-154, 190-193),
and a server has a receiver for its own batches and one for each other server. Run
`hash_shared` has two of them, with one batch each, and violates `TidComputed`: the
one's reset comes between the other's append and execute, and the ID that the
transaction gets is not that of its digest. The server that has such an ID orders
the epoch's transactions otherwise than the others. Nothing else is checked of this
module: that IDs are right when there is one receiver is what the list of its calls
says. That list also shows what a batch's hash covers: `hash` resets the context, so
`BatchHash(b)` is the digest of the last transaction alone, in the collector
(`user_collector.cpp:63`) and again in `verifyBatchHash` (`comm_controller.cpp:151`);
the comment at `user_collector.cpp:62` means to add each one's to the batch's.

`Base64` has both alphabets, line breaks and the decoder with its tests for
missing and padding characters. `MockTransaction` has the life of a transaction
and the text that it is stored and sent as. `DecodesEncoded`: a text is decoded
to what was encoded, with or without padding, with line breaks where they are
removed; a stored transaction is read back but for its result, and is refused
when cut off anywhere. Texts of up to five bytes reach every remainder and a
second line; the varints of the run have one bit in an octet, so that small
numbers take several. The hash at the end of a stored transaction is read, and
compared with nothing.

## 8. `MerkleTree` and `BlockStorage`

`MtArrList` has the array list as operators on records, `ArrayList` one list
under every sequence of operations: `HoldsHashes` says that it holds what they
describe, that memory is allocated for every element, and no more than the next
power of two (up to eight elements in integers of six bits). Every operation, reading
included, begins with `assert(mt_al->elems < MT_AL_MAX_ELEMS)`; the add that brings
the list to the maximum succeeds, and from then on each call ends in `abort()`
(variable `aborted`), which `HoldsHashes` says happens on a full list and on no
other. The comments above the assertions (`mt_arr_list.c:78`) say this `can only happen
due to outside interference`; 524288 additions do it as well. `MerkleTree` has
`mt_add`, `mt_update`, `mt_get_root` and `mt_verify` over a level of lists;
`TreeCovers` compares the root with the tree defined by recursion on the leaves,
and wants a leaf to verify at its offset and nothing else to, for up to nine
leaves, where a right edge misses siblings on several levels and no level's list is
full. The last of
the `TREE_LEVELS` levels is not counted as one (`merkle_tree.c:170`), so trees of
more than 2^(`TREE_LEVELS` - 2) leaves, far beyond an epoch's size, are outside
the bound.

`BlockStorage` is the storage with what calls it: the start-up code, the manager
and the block generator. Opening a file for writing truncates it, its contents
come later, each is a step, and `Crash` may come between any two of them, after
which the process starts again, with or without `reset_epoch`. Hashes are values.

- `ChainKept`: the saved blocks can be read and are linked; a block whose append
  returned stays; its number is its epoch's although manager and storage count
  for themselves; the database is ahead of the chain by one epoch at most; the
  CHECK of the previous block's reading holds.
- `LatestIsMax` (run `storage_torn`) is violated if a crash hits between the
  truncation of `block_num.txt` and its write (`block_storage_to_file.cpp:203`).
  The run `ledger` excludes that moment (`TornNumber` = FALSE) and checks
  `ChainKept` for crashes at every other one.

Bounds: two transactions, three blocks, two crashes: the second may hit the
recovery from the first. After a crash between the commits of an epoch and its
block the epoch's transactions are executed once more on a database that has
their updates already (`transaction_manager_impl.cpp:18`). The block's
signature is written to `metadata(2)` and checked in `metadata(0)`, by a check
that no server enables (`block_storage_to_file.cpp:149` and 119), and `previous_hash` is the previous
block's data hash (line 185), where `block.proto:19` speaks of the header.

## 9. The concurrent queue

`include/common/concurrent_queue/` is a copy of moodycamel's queue; the modules
have what the servers' calls reach. An atomic access is a step, and all threads
see them in one order: the memory orders are not modelled.

`LightweightSemaphore` (both forms of `wait`, `waitMany`, `signal`, with spinning
and timeouts) keeps `SemaphoreKept`: the kernel semaphore has a post for each
thread that the counter no longer shows as waiting; `ImplementsSemaphore`: its
tokens, those of the counter and one for each thread that counted itself out,
are a semaphore's; `NoTokenIdle`: no token lies idle while a thread sleeps.

`BlockingQueue` is the semaphore before the sub-queues: a consumer that got its
tokens loops over the sub-queues until it has its elements, and
`DequeueReturns` says that tokens and elements balance and that the loop ends.

`FreeList` has `add`, `try_get` and `add_knowing_refcount_is_zero` access by
access. `PoolKept`: reference counts are right, no node is lost or taken twice;
`ImplementsPool`: it is the pool of `BlockPool`, and lock-free: when all threads
are inside, one gets out, although only the steps of all together are fair.

`ProducerHash` is `get_or_add_implicit_producer` with the growing of the table,
for two threads that hash to the same entry, and failing allocations.
`OneProducerEach`: a thread gets one sub-queue, alone, that consumers find, and
every table has a free slot (a comment's claim); `CallsReturn`: nobody waits for
ever for the table that another grows, also when that one finds no memory.
`Linked` (`LinkedList`) is what following the next pointers of a list reaches; the
producers' list and the free list are told about with it.

`ImplicitProducer` is one sub-queue, with bulk enqueues that fail and are undone,
bulk dequeues, and a block index that is replaced by one of twice the size. Nothing
in the servers calls `enqueue_bulk` at present, the one call being commented out
(`comm_controller.cpp:54`); for one element its steps are those of `enqueue`, and it is
what a single `enqueue` cannot be: partly done and undone. The module's
integers have four bits and the indices start at 12, so that they wrap around.
`ElementsKept`: elements come out once and in order, no index is taken of what is
not there, no consumer reads a block that was recycled, the asserts hold;
`BlocksAccounted`: a block is in one place, and the destructor frees what is left.
One consumer with seven elements, for the growing index, and two with three, for
their races.

Runs: `queue` for what must make progress, with two threads on each side, two
tokens, nodes or elements; `ledger` for `ImplicitProducer`. Fairness: every thread
inside a call goes on (weak, per thread; for the free list of all threads
together, as lock-freedom promises no more). Nobody need call anything.

## 10. Proofs

TLAPS checks the theorems for every value of the constants that the named
assumptions admit; TLC has checked the inductive invariants on the runs'
instances first. Every module of proofs has a lemma for each action, split by
the parts of the invariant that the action can disturb.

| theorem | property | assumed |
|---------|----------|---------|
| `Typing`, `PhasesSeparated`, `WorkloadsUndisturbed`, `NoWakeupLost` | `TypeOK`, `PhaseSeparation`, `WorkloadUndisturbed`, `NoLostWakeup` | sizes are naturals |
| `BufferDeadlockFree` | `NoBufferDeadlock` | and `BufferAssumption` |
| `EpochsComplete`, `FinishesNotOverwritten`, `CoordinatorImplementsEngine` | `EpochComplete`, `FinishNotOverwritten`, `ImplementsEngine` | sizes are naturals |
| `Reservations`, `CommitEffect`, `AloneSerializable` | `ReservationsHold`, `CommitHasEffect`, `SerializableAlone` | `ExecutorAssumption` |
| `TransactionsAreKept`, `SentEpochByEpoch` | `TransactionsKept`, `SentInOrder` | `ManagerAssumption` |
| `BlocksAreComplete` | `BlocksComplete` | and `OneSize` |
| `BarrierWaitersCounted`, `BarrierNoEarlyReturn`, `BarrierImplementsAbstract` | `WaitersCounted`, `NoEarlyReturn`, `ImplementsBarrier` | the module's |
| `HandedAsSent`, `NumberedInOrder` | `HandedInOrder`, `ImplementsNumbering` | `Bounds` |
| `EpochsSame` | `SameEpochs` | `Reliable` |
| `ChainSurvives`, `RestartsAfterChain` | `ChainKept`, `LatestIsMax` | no torn number |
| `PostsNeitherLostNorLeft`, `SemaphoreImplemented` | `SemaphoreKept`, `ImplementsSemaphore` | `SemaphoreAssumption` |
| `BlocksAreKept`, `FreeListIsPool` | `PoolKept`, the safety part of `ImplementsPool` | `PoolAssumption` |
| `ThreadsHaveProducers` | `OneProducerEach` | `HashAssumption` |

### `AriaCoordinator_proofs`

For every number of transactions, workers and epochs and every buffer size.
Assumptions: the sizes are naturals
(`SizesAssumption`), and a wrapper that does not fit leaves a workload's worth of
transactions in the buffer (`BufferAssumption`: 500 + 500 <= 5000 + 1 in
`complie_config.h`), which only `BufferDeadlockFree` needs.

- `Typing`: `Spec => []TypeOK`. Inductive together with the fact that the cursor
  is at a worker whenever the coordinator waits for one.
- `PhasesSeparated`: `PhaseSeparation` does not follow from itself: that nobody
  executes when the first commit starts depends on what the coordinator saw in
  its loop over the workers. `PhaseInv` adds to the types how each worker's state
  follows from its place in `run` (`StateOfPc`), that a worker's READ or COMMIT
  signal is compatible with its state (`SignalOfState`), what a freshly assigned
  worker looks like (`FreshAssignment`), how far the loop has come
  (`SyncProgress`), and which phase of the coordinator admits which places of the
  workers (`PhaseOfPc`). One lemma per thread, one step per action.
- `WorkloadsUndisturbed`, an action property, from the same invariant.
- `NoWakeupLost`: the invariant is `NoLostWakeup` with `BufferObtained` (what is
  on its way to the coordinator has got its epoch already, so the manager's next
  step cannot make the coordinator's condition true behind its back).
- `BufferDeadlockFree`: from the types, `NoLostWakeup`, the size of a wrapper and
  `BufferAssumption`: if the manager's wrapper does not fit, the buffer holds a
  workload, and the coordinator does not sleep on that.

`ManagerCases` reduces the manager's steps to three forms for all of them.

That an epoch is complete when it is announced depends on where each of its
transactions has been all the time. `EpochInv`, on top of `PhaseInv`, says that a
transaction is in one place: in the pipe (`Pipe`: the coordinator's buffer, then
the manager's wrapper, which is sent from its end), packed, in one worker's
workload, or done; that the pipe is ordered by epochs and, once the coordinator
has seen a transaction of the next epoch, has none of the current one left
(`PipeOrdered`); how far the manager may be ahead (`EpochsInStep`, from which
`FinishesNotOverwritten` follows: to close an epoch the coordinator needs a
transaction two epochs after the last finish the manager knows of); and that
`nExec` and `nCommit` follow from the place (`CountsOfPlace`). In the refinement
of `EpochEngine` most steps stutter; the ones that do not are the manager's send,
a worker's execution or commit of its list, and the coordinator's ends of the two
phases and its step to the next epoch.

### `AriaExecutor_proofs`

For any workers, keys, transactions and requests.

- `Reservations`: the interesting part of `ReserveInv` is `TableOfEpoch`. A
  worker that loaded the pointer to the table before another one replaced it
  still ends up with the table of this epoch, since the epoch it compares is then
  the table's own. `HolderWants` and `DealtWith` say what slots hold and what
  each worker, wherever it is in its loop, has left behind.
- `CommitEffect`: the flag by which the first worker to buffer an update clears
  those of the epoch before (`FlagCleared`), and that the first commit of an epoch
  finds the whole buffer and writes it, the later ones nothing (`FirstWrites`).
- `AloneSerializable`: with one worker each slot names the smallest transaction
  that uses it (`FirstHolds`). The serial order is then written down (`Precedes`):
  first the transactions that read what an earlier one writes, the latest first,
  then the others, the earliest first. The committed ones' writes are disjoint, and
  in this order who reads a key comes before who writes it.

### `TransactionManager_proofs`

For either comm module, any number of receivers, transactions and epochs, and any
order in which elements and tokens become visible. `ManagerInv` holds whatever is
left behind. It says where transactions are (`PlaceInv`) and that the semaphore
counts what is in the sub-queues (`QueueInv`), what the manager knows at each place
of its loop (`StepInv`), what the coordinator has of an epoch it has not decided
(`EngineInv`), and which transactions the lists hold by which
`clearTransactionForEpoch` deletes (`ListInv`): those that are in no sub-queue and
not in the heap any more, each in one list. `HeapInv` has what makes `SentEpochByEpoch`
true without any assumption on the order of arrival: `currentEpoch` is the epoch
of the transaction taken last, so the CHECK at line 255 stops the server before it
sends one of an earlier epoch.

`BlocksAreComplete` needs the order: `OrderInv` says, while no transaction has been
left behind, that what is queued is of no earlier epoch than anything else
(`ControllerInv`), but for what a transfer is moving; every epoch has a
transaction, and the heap is empty only while a wrapper is being filled or before
the first transaction, so that the epoch of its top is always known. `SingleInv`
is about one receiver, whose sub-queue is in order: what is taken is the oldest.
`ChecksByOrder` derives all CHECKs and DCHECKs from the two invariants,
`CompleteByOrder` the blocks.

This needs `OneSize`: both sizes are `5 * SCALE` in `complie_config.h`. With a
smaller minimum it is false, and TLC finds how: a wrapper that has
reached the minimum is returned although the heap has run empty
(`comm_controller.cpp`, comment 1.1.1), the next call takes what arrives then,
and if that is of two epochs later the `DCHECK` fails.

### `CyclicBarrier_proofs`

The types hold in every use; the rest is for any number of threads that are all
parties, wait without a timeout and are neither reset nor woken without a
reason. `AllStayForNotify` is what it takes: between the unlock of the last one
to arrive and its `notify_all`, all others are asleep and released, so that
nobody can arrive in between and be woken too early.

### `CommController_proofs`

For any servers, batches and epochs. `Reliable` is what the two runs set as well:
a batch of every server in every epoch, no publication lost (section 6 says what
happens without). `Passed(s, r)` counts the epochs that
receiver `r` of server `s` has finished. The invariant says, in terms of it, what
is on its way from each server to each other one (`ChannelsInStep`: as many
publications as the receivers are apart, each the set of one epoch), and what a
server has enqueued (`EnqueuedInOrder`).

### `UserCollector_proofs`

`Bounds` says that the bounds are numbers and each client has a server. A
server's queues, one after the other (`Line`), are the requests its clients sent,
in order, each once: every step moves one from a queue's head to the next one's
end, or is a client's that adds one, of which there is one outstanding at a time
(`ClientInv`). `QueueInv` relates the two queues that the receiver takes from: a
function says where each proof's batch ends among the transactions. From its
counterpart for what was taken (`TakenInv`) follows that batches are whole.
`NumberedInOrder` needs that the epoch server has counted a request of the current
epoch whenever it looks at the clock, and that its timer was started by the first.

### `BlockStorage_proofs`

For any number of blocks, transactions and crashes. `Kept` is the number of the
last block that counts as stored, in the step in which `block_num.txt` is empty
that of the block before; `ChainInv` is about the blocks up to it. The assumption
is that no crash comes in that very step: the run `storage_torn` shows that
`LatestIsMax` fails otherwise.

### `ConcurrentQueue_proofs`

For any number of threads, tokens, nodes and spins. Its first part has the lists
of pointers that both other parts need: a stack is a numbering of its members from
the end of the list (`IsStack`), which tells what `Linked` computes
(`LinkedIsStack`), that pushing and popping keep it one, and that it has no cycle.

- `SemaphoreInv`: `PostsMatchWaiters` balances the posts of the kernel semaphore
  and those still owed with the threads that have counted themselves out
  (`Pending`) and the counter, at every access, also between a wait that has
  timed out and the restored counter. It needs what a place says of the locals
  (`LocalsOfPc`): an exchange is tried with a positive count, a restore with a
  negative one. `TokensSignalled` bounds what there is to take by what was
  signalled. The refinement counts the pending threads' tokens with the
  counter's.
- `PoolInv`: for each node (`NodeKept`), its reference count is the number of
  threads that hold a reference, plus one if it is on the list, and its
  SHOULD_BE_ON_FREELIST bit is set exactly if it is nobody's and not yet the
  list's (`Awaited`), so that the last of them puts it back: this is the
  argument that a thread's compare-and-swap of the head succeeds only with a
  next pointer that is still right, since a node to which somebody has a
  reference is not put on the list again.
- `HashInv`: a table, once linked, only gains entries, each thread has at most
  one in a table, and no free slot lies before an entry on the way from its hash
  (`TablesOk`), so that a search that meets a free slot has missed nothing;
  `Knows` says what a thread in the middle of its search or of a copy into a
  newer table has established, when others enter theirs at the same time; a
  sub-queue has one owner (`OwnersOk`). `CountsOk` is the argument for a
  comment's claim that a table has a free slot: the threads that have an entry
  in a table with room for no more than `r`, or will have one, are fewer than
  `r`, whatever `r` is. `Doublings` has the end of the loop that doubles the
  capacity.

### What is only model-checked

- The liveness properties, which need fairness and ENABLED, and with them the
  liveness part of the refinements.
- What is about recursion over data, for which the provers have no induction:
  `TreeCovers`, `DigestOfMessage`, `DecodesEncoded`. `HoldsHashes` rests on the bit
  operations that round up to a power of two (`round_next_power_two`), and the
  provers know nothing of bits or exponents.
- `ElementsKept` and `BlocksAccounted` of `ImplicitProducer`, whose indices wrap
  around: that a stale index is still compared correctly holds only while fewer
  than 2^(`Width` - 1) operations pass a thread that is held up, so a theorem would
  have to bound the operations, as the run does. Reasoning about remainders of a
  variable divisor is out of the SMT backend's reach as well.

## 11. What the code says and does not do

Runs that expect a violation quote the code's own statement in `PROJECT.json`:
`executor_first_access`, `executor_stored`, `comm_idle`, `manager_left_behind`,
`hash_shared`, `storage_torn`. The sections above name further disagreements that no run is spent
on. Two more: the destructor of the block generator joins a thread that was never
started (`block_generator_impl.cpp:116`), and the blocks it queues for that thread
(line 40) are never taken or freed. Transaction IDs are the first 32 bits of a
hash: they may collide, or be 0, which means "not reserved" in the reserve table;
the models take them to be positive and distinct.

## 12. Bounds and deadlock

Every bound is a constant named as such in its module. `CHECK_DEADLOCK FALSE`
stands where the model stops because its transactions, elements or epochs are
used up, as the program does when nobody sends anything; that nothing stops
earlier is what the liveness properties are for. In the composite runs the
initial states of the parts that stand still enable no step that their fairness
forces.

## 13. Not modelled

- The mock transaction manager: a load generator for a test program. It drives
  the coordinator as the manager does, without a network, and does not wait for
  its first epoch.
- The block verifier and the exchange of signatures (`block_generator_impl.cpp`,
  121-151): their threads are commented out.
- `mt_truncate` (declared, not defined), `mt_exists` (never called), `mt_print`.
- Of the queue: explicit producers, tokens, moving and swapping of queues, which
  nobody uses; memory orders; a failing allocation of the block index; the
  notification at a thread's end, which is compiled out.
- The compression function of SHA-256, RSA signatures, ZeroMQ, protocol buffers'
  encoding of messages, YAML configuration, the clients' choice of payloads.
- Two values that undefined behaviour may produce: the decoder of base64 reads
  past the end of a `string_view` of one character; an uninitialized epoch is
  taken as any (`storage_torn`).
- `commitUpdate` for lists of transactions, which nothing calls; the MVCC reserve
  table, which is a stub that returns a null pointer.
