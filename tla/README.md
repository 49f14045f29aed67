# Verification of XGameStudyDemo

TLA+ models of the parts of the app that hold its concurrency and its state:
the thread bus and the notifications on top of it (`FW/`), the database layer
(`Common/FMDB/`), the caches (`Common/Utility/ConstCache.m`), the cloud uploader
(`Library/dwcloud`) and the buffers and packets of the network protocol
(`Library/protocols`). Paths below are relative to `src/XGameStudyDemo` unless
they start with `Library/`. Vendored and generated code (Pods, openssl, protobuf
and the generated `xgame.pb.*`, GTM, ASIHTTPRequest, Reachability) is not
modelled in its own right; where the app depends on it, or on Grand Central Dispatch, the
notification center or SQLite, the model says what the app relies on and
`PROJECT.json` marks the definition external.

## The system

| Component | State | Operations | What makes it hard |
|---|---|---|---|
| Thread bus, `FW/DThreadBus.m` | table from thread index to serial queue | `startup`, `setQueue:toThread:`, `post:to:` (three forms), `callsafe:inThread:` | blocks run on the caller's stack, on a queue or after a delay; the table is read before it is used |
| Notifications, `FW/DNotification.m`, `DDef.inl.h`, `DModule.m` | table of events, the system's registrations | `setup`, post, add and remove observer, two deallocs | delivery later than posting, observers dying in between, use before `setup` |
| FMDB connection, `Common/FMDB/FMDatabase.m` | SQLite handle, open result sets, cached statements | query, update, transactions, savepoints, close | ignored failures, savepoints that stay open, retries without end |
| FMDB queue, `FMDatabaseQueue.m` | one connection, one serial queue | `inDatabase:`, `inTransaction:`, `inSavePoint:`, `close` | blocks submitted from blocks, close and reopen in between, ignored failures |
| FMDB pool, `FMDatabasePool.m` | lists of free and lent connections | the same, and `releaseAllDatabases` | concurrent and nested borrowers, the bound, the delegate, file locks |
| Result sets, `FMResultSet.m` | a statement, perhaps cached and shared | `next`, `close` | one cached statement under two result sets |
| Module center, `FW/DModuleCenter.m` | lists of modules by kind | `setup`, `addModule:`, lookup | use before `setup`, second `setup` |
| Binding, `FW/DBinding.m` | map from object and key path to delegates | KVO callback, `addBingdingX:` (unfinished) | singleton race, list changed outside the lock |
| Constant cache, `Common/Utility/ConstCache.m` | dictionary under a lock | get or create, remove, clear | the block that makes objects runs under the lock, and may use caches |
| Uploader, `Library/dwcloud/dwcloud/DWCloudUploader.m` | request, queue of parts | init, parts, finish, callbacks | failed parts, empty file, dealloc while running |
| Buffers and packets, `Library/protocols/protocols/gen/blockbuffer.h`, `packet.h` | memory, size, blocks, shared counters | append, reserve, resize, replace, erase, pack, unpack | limits and rounding, memory that runs out, exceptions in the middle of a packet |
| Net protocol, `Model/Net/` | sequence number, ciphers | allocate, encode, decode | ciphers are arithmetic on bytes |
| Socket and timers, `TestClasses/MySocketServe.m`, `OtherViewController.m` | socket, heartbeat timer | connect, write, disconnect, fire | timer and connection out of step |
| Logs and files, `App/LogExt.m`, `Common/Utility/FileUtils.m` | files on disk | write, roll over, clean | file input and output |

The app's start (`-[ViewController viewDidLoad]`) calls `+[DNotification setup]`;
notifications, and binding callbacks, are handed to the bus, which runs them on
the thread their table declares. The database layer is independent of the bus:
the queue and the pool each use dispatch queues of their own. Every hard
behaviour found is in `PROJECT.json` under `hazards`, at its line, with the
properties that would catch it.

## The modules

**`ThreadBus`** models `DThreadBus.m`. A *context* is the worker of a serial
queue or an OS thread that serves none; the main thread is the worker of the
main queue. `frames` is the stack of blocks each context is inside of, so a
block may call the bus from within another block. A method takes two steps:
`QueueOf` reads the table, `Dispatch` runs the block on the spot, queues it or
gives it to `dispatch_after` (`timers`). `CallsafeWhatEver` is the early return
for `ThreadWhatEver`. `SetQueue` replaces a queue at any moment. `Run`, `Return`
and `Fire` are Grand Central Dispatch. `addr`, `how`, `by` and `done` record what
was submitted, `retargets` the re-assignments in their order and `since` how many
of them a block's method had seen, for the properties. The posts read the table
without the lock (`DThreadBus.m:53,61,67`); the read is one step all the same, as
the assignment of line 39 is. That they load and retain a queue which the
assignment may be releasing is memory management, and left out.

**`Notification`** extends `ThreadBus`: a block of the bus is one posted
notification. `Post` is every form of `postNotification`; its `ThreadOf` and
`NameOf` are `id2Event:` with a nil table before `Setup`. `Copy`, `CallHandler`
and `HandlerReturns` are the center: it copies the matching registrations and
calls them one by one while other threads add and remove some. `BeginDealloc`
and `EndDealloc` separate the moment weak references read nil from the dealloc
method, which in between may or may not unregister (`Unregisters`: `DModule`
does, the keeper's weak target is nil by then). `MayManage` is an assumption about
clients, not code of this repository: an observer of the user interface is
registered, removed and released by the main thread, between its blocks.
`NoLateHandler` and its theorem `RemovalIsFinal` rest on it.

**`FMDatabase`** has the transaction methods of one connection as operators on
its stack of open levels (`BEGIN` or `SAVEPOINT`), each with the rows written in
it. An operator returns whether the method reports success, the stack it leaves
and what became durable. The two callers below use it.

**`DatabaseQueue`** models `FMDatabaseQueue.m`. A task is one submitted block; a
step of it is one statement, sent to `[self database]`, which may have to reopen
a connection that `close` dropped. Any statement or open may fail, within
`MaxFailures`; the code ignores the result of BEGIN and of the last statement of
a transaction and so does the model. The body may submit further blocks. In this
copy of FMDB the blocks are queued with `dispatch_async`.

**`DatabasePool`** models `FMDatabasePool.m`. A call is one use of the pool, from a
thread of its own or from the body of another call, which waits for it. Taking
a connection and pushing it back run under `executeLocked:` and are one step
each. `TakeFree`, `TakeNew` and `TakeNothing` are the three ways through `db`,
including the delegate's refusal. `Granted`, `Needs` and `Keeps` are SQLite's
locks in rollback-journal mode, the default of the files the app opens.

**`Statements`** models the rest of a connection and `FMResultSet.m`: the statement
cache, binding, the in-use flag, the busy loops, the result sets and `close`.
`executeQuery:`, `executeUpdate:` and `next` take several steps, since SQLite may
answer BUSY in each of their loops: `Execute` is the entry, `Prepare`, `Bind` and
`StepUpdate` the phases, `Next` and `StepNext` the iteration; `call` is the local
state of the method that runs. One thread uses a connection at a time, so
nothing else happens during a call. A statement of the model is a `sqlite3_stmt`
with the `FMStatement` around it. `native` says what became of it: *finalized* by
the error path of `FMDatabase.m:653` under an `FMStatement` that still points to
it, *closed* with the pointer cleared, or *leaked* by an exception. `Settle` ends
every step that may drop a reference: an `FMStatement` nobody holds is deallocated
and finalizes what it points to. Once SQLite has been handed a finalized
statement (`undefined`) the behaviour is undefined and the model stops. SQLite
itself is a statement's position, its argument and `RowCount`; it answers BUSY or
LOCKED only to the first step of a statement, as it does for a connection without a
shared cache. An update may be given a query: its step returns a row, and the
`NSAssert1` of `FMDatabase.m:892` raises (`UpdateRaises`), or, in a build without
assertions, the update goes on as a failed one. A failing `sqlite3_open` leaves a
handle too, so that `Open` has one outcome. `disturbed`, `miscounted` and `raised`
record history for the properties.

**`Upload`** is the abstract promise of an upload: it ends once, with success only if
every part is stored, and says nothing to a client that has abandoned it.

**`Uploader`** models `DWCloudUploader.m` for one upload. `Go` makes the opening
request, `Opened` and `OpeningFails` are its two blocks, `QueueParts` is
`uploadWithUploadID:zone:`, `UploadFinish` makes the closing request and `Closed`
is its blocks. Requests run on ASIHTTPRequest's thread (`Start`, the `...Ends`
actions, `CancelOnRequestThread`) and leave messages for the main thread in
`main`; `PartSent`, `PartFinished` and `PartFailed` are the queue's handling of
them (`ASINetworkQueue.m`), which counts its requests and cancels the others after a
failure. `Drop` is the client's release, on the main thread (the deallocation is
one step there, since the callbacks run on the same thread) or on another one,
where weak references read nil before `EndDealloc` has cleared the blocks.
`undefined` marks a nil block called, a dead object used or an exception, after
which the model stops. `phase` maps the state to `Upload`.

**`ByteString`** is the abstract promise of a buffer: a string of bytes and how long
it may become without new memory. An operation fails only beyond the maximum
or when memory is needed, and a failure takes nothing away but what a
replacement has already cut off. A reader may consume the string (`passed`): while
there is one the owner only appends, and when it closes exactly the bytes it has
passed leave, none if it is released.

**`BlockBuffer`** models `blockbuffer.h`. `data` is the memory of a buffer, whole
blocks of it, in which bytes nothing was written to are `Junk`; `size`, `block`,
`total` and `peak` are the code's own fields. `Increase` and `CannotIncrease` are the
two ways out of `increase_capacity`; that memory may run out is a choice at every
call that needs some. `EraseFrom` is the `memmove` of `erase` and the `free` of an
emptied buffer. `m_pos` is the `ForwardBuffer` on a buffer. The asserts of the code
are guards. `bytes` maps the memory to `ByteString`, and `m_pos` is its `passed`.

**`Packet`** extends it with `packet.h`. A `PackBuffer` turns a refusal into an
exception (`Throws`); a `Pack` on it resizes for the header (`NewPack`), appends each
field in one or more calls (`Pieces`, `PushPiece`), any of which may throw and leave
what was appended before, and fills the header with `replace` (`FillHeader`, after
the sample `OffPack`). `Unpack` is the reader, a pure operator. The byte order macros
of the code are empty, so numbers are packed as they are in memory.

**`ConstCache`** models `ConstCache.m`. `stack` is the calls a thread is inside of: a
call waits for the lock, has it, or is in the block that makes an object, and in
the block the thread may call a cache again. `uses` says which caches a block may
use; it is arbitrary, since blocks are the client's. `holder` is the lock of each
cache. `given` and `news` record which objects exist for a key since it was last
removed, and how often a caller was told that its object is new.

**`ThreadBus_proofs`, `FMDatabase_proofs`, `DatabaseQueue_proofs`, `DatabasePool_proofs`,
`Statements_proofs`, `Uploader_proofs`, `BlockBuffer_proofs`, `ConstCache_proofs`** hold the
theorems; the first has those of `Notification` too, which rest on the bus. `MC*` modules
give the constants that are not plain model values.

## The runs

| Run | Bounds | What it shows |
|---|---|---|
| `thread_bus` | 3 queues, 1 outside thread, 2 blocks, 1 `setQueue:` | every block runs exactly once and on the queue its index had when it was submitted, blocks of one sender keep their order, no method of the bus waits |
| `notification` | 2 events, 1 view observer, 1 module, 2 registrations, 2 posts | handlers run on the declared thread, a view's observer removed by the main thread is not called afterwards, a dead module is not registered, an observer that stays registered is reached |
| `keeper` | 1 observer with a keeper | expected violation: the keeper does not unregister |
| `db_queue` | 3 blocks, 1 close, 2 failures | committed work is durable, rolled-back work is not, a level stays open only after a failed end or a rolled-back savepoint, every block and close gets its turn |
| `nested_savepoint` | as above | expected violation of the header's note: nesting does not deadlock here |
| `db_pool` | 3 calls, 2 connections, 1 fault, 1 release | a connection is lent to one call at a time, the counts are right until a release, connections idle clean |
| `db_pool_returns` | 3 calls, 2 connections, no fault | every call returns unless calls nest, two connections lock the file at once or a lock was left behind |
| `pool_bound` | as `db_pool` | expected violation: more open connections than the maximum after a release |
| `statements` | 1 query of 2 rows, also given to an update, 1 update, 2 arguments, 2 result sets, 3 statements, `busyRetryTimeout` 1 | a result set yields its own rows in order, finalized statements are not used again, the set of open result sets is exact, the flag is right, close leaves nothing, every call returns |
| `uploader` | files of 0 to 3 parts | it implements `Upload`; the closing request waits for every part, also after a failure; a client that keeps its uploader meets no undefined behaviour; every upload ends |
| `packets` | 1 `PackBuffer`, 1 plain buffer, blocks of 3 bytes, 2 blocks each, packets of 2 fields, strings of 1 character | each buffer implements `ByteString`, its size stays inside its memory, the shared counters are exact; a reader gets back what was packed, and refuses what was cut short or left by an exception |
| `const_cache` | 2 threads, 2 caches, 2 keys, 2 objects, all 16 ways of blocks to use caches | a thread has the locks of its calls, a key has one object, and threads stop for ever only if a block uses its own cache, directly or through others |

`statements` needs no bound on how often something happens: its state is finite.
Two result sets are the least that can share a statement, the third statement is
for the call in progress, two arguments tell one's rows from the other's, and of
two rows one may be read before a disturbance and one after it.

`uploader` needs `MaxParts` only: with three parts a failure finds one part behind
it that has started and one that has not.

`packets`: a packet with one string is longer than a block and one with two is longer
than a buffer may be, so that packing meets growth, the limit and exceptions
between the calls of one field. Buffers share nothing but the counters of blocks,
so one is used while the other has memory nothing was written to (`OthersBlank`,
which the theorems do without),
and a `PackBuffer` is only appended to, reserved and destroyed outside of a `Pack`
(`Prepare`); the plain buffer takes every operation. `MaxVarstr` stands for 0xFFFF and
`MaxFields` bounds the packet.

`const_cache`: two caches are the least that can use each other, and two threads the
least that can do so at the same time. Depth needs no bound, since a call on a
cache whose lock the thread has never gets further.

Why the other bounds are enough: an ordering property of the bus is about two blocks,
an inline block inside a queued one is the deepest interaction of two, and the
outside thread is a sender that can never be the main thread. Two registrations
allow one observer to have two or two observers one each. Three database blocks
allow one that leaves something behind, one that runs into it and one that sees
the result; three calls on two connections allow the bound to be met while both
connections are lent. `MaxBlocks`, `MaxRetarget`, `MaxEntries`, `MaxTasks`,
`MaxCloses`, `MaxFailures`, `MaxCalls`, `MaxReleases` and `MaxFaults` only bound
how often something happens; `MaxDatabases` is the code's own parameter. Runs
do not check deadlock: the system may stop once the bounded work is done.

Exemptions are written into the properties. Each is a fact about the code that the
models reproduce: described, not caught. The notes of `hazards` in `PROJECT.json`
say which part of a hazard is of this kind.
A block called on the spot by the main thread overtakes posted ones, and blocks
for which two queues were read, before and after a re-assignment, keep no order
(`SubmissionOrder`); a rolled-back savepoint leaves the connection in a
transaction (`OpenOnlyIfLeft`, `CommitIsDurable`, `CleanInPool`), because
`ROLLBACK TO` keeps the savepoint and no caller releases it; a transaction whose
BEGIN failed runs in autocommit mode, where its rollback fails and undoes
nothing (`RollbackUndoes`); calls that nest, or two connections that want each
other's file lock, may wait for ever (`EveryCallReturns` of the pool); a result set whose cached statement is used by another
call yields that call's rows (`OwnRows`, `disturbed`); a wrong number of arguments
finalizes a statement that stays in the cache (`NoUseAfterFinalize`,
`miscounted`); an array that is too short, or the assertion that an update is no
query, ends the call by an exception with the flag up (`InUseFlag`, `raised`); an uploader released while its queue has parts to
report, or on another thread than the main one, is used after its deallocation
(`NothingUndefined`, `dropped`), and one without callbacks calls a nil block when
the opening fails, there only (`callbacks`, `OnlyOpening`); the progress after a failure is a division by
zero (`NothingUndefined`, `wild`); a replacement that fails has cut the buffer, and a
reservation counts the free space twice (`ByteString`); a wide character is packed
as its low byte (`Delivered`); a block that uses its own cache, or one whose block
uses it, stops for ever (`NoCircularWait`, `Ranked`), and removing a key forgets its
objects (`OneObject`); an empty file never ends (`EveryUploadEnds`).

## Fairness

`FairSpec` of the bus assumes that a running thread goes on, that a queue with
work gets a worker, that timers fire and that client blocks return.
`Notification` assumes the same of handlers and deallocs, per context;
`DatabaseQueue` of its one serial queue. `DatabasePool` assumes that every thread
runs and every body returns; a statement waiting for a lock needs only weak
fairness, because it is retried for ever (`busyRetryTimeout` is 0) and the number
of calls is bounded. `Statements` assumes that a call in progress goes on (`Answer`)
and nothing of what SQLite answers: `EveryCallReturns` holds with a file that is
busy for ever, because the run sets a limit; with `busyRetryTimeout` 0 it does
not, by intention of the code. `Uploader` assumes that both threads run and that
every request ends, since ASIHTTPRequest times it out. The server of `Uploader`
accepts a file only if it has as many parts as the closing request says, which
is what the request's `partcount` is for. `BlockBuffer`, `Packet` and `ConstCache` state
no liveness: the first two are sequential, and `NSLock` promises no waiting thread
its turn. No fairness is assumed of submitting, registering, closing
or failing.

## Disagreements with comments and headers

1. `FW/DNotification.h:42` says the keeper releases notifications automatically;
   its dealloc (`DNotification.m:130-136`) reads a weak reference that is nil by
   then and removes nothing (run `keeper`). The center's own weak registration
   of selector observers hides this on the app's deployment targets, and no
   class of this commit uses the keeper.
2. `FMDatabaseQueue.h:34` warns that nested savepoints deadlock; here they run one
   after the other (run `nested_savepoint`). The text was written for FMDB's
   `dispatch_sync`.
3. `FMDatabasePool.m:67` speaks of an upper bound on the databases created;
   `releaseAllDatabases` with a connection in use lifts it (run `pool_bound`).

## What is proved

TLAPS checks the proofs for every value of the constants that the named
assumptions (`BusAssumption`, `NotificationAssumption`, `DatabaseAssumption`, `QueueAssumption`, `PoolAssumption`,
`StatementsAssumption`, `NoneAssumption`, `UploaderAssumption`, `BufferAssumption`,
`PacketAssumption`, `FieldAssumption`, `PieceAssumption`, `CacheAssumption`) allow.

- `TypeCorrect`: `Spec => []TypeOK` of the bus. The type invariant is inductive.
- `ThreadAffinity`: `Spec => []RunsOnItsThread`. The property speaks of blocks that
  execute; it is not inductive, since it does not say where a block that is still
  queued, held by a timer or about to be dispatched is bound for. `IInv` adds that
  (`BoundFor`): each of those is in, or bound for, the queue the index had after the
  re-assignments the block's method had seen, and that the table is what all of
  them have made it. One lemma per action. `PastStays` says that a later
  re-assignment changes nothing about the queue a block was bound for.
- `BlocksRunOnce`: `Spec => []ExactlyOnce` of the bus, that a block submitted is in one
  place from then on. The property counts places, so a step that moves a block has to
  be shown to empty the one and to fill the other. `OnePlaceInv` says it without
  counting: the place of a block is of one kind (a call, a timer, a queue, a stack,
  or done), there is one of that kind, and no queue or stack has a block twice.
  `PlacesCounted` turns this into the size of `Places`.
- `FirstSentFirstStarted`: `Spec => SubmissionOrder` of the bus. The property speaks of
  the step that starts a block; `OrderInv`, on top of `IInv` and `OnePlaceInv`, of what
  waits. Blocks are numbered as they are submitted (`Numbered`), a context inside a
  method of the bus submitted its block last (`LastOwn`), a timer holds only blocks
  of `postLater` (`TimersLater`), a queue none that its sender runs on the spot
  (`QueuedOff`), and the blocks of one sender and index stand in a queue in line
  (`InLine`). So whatever is still ahead of a block that starts would be in the same
  queue before it (`EarlierWaits`), where `ThreadAffinity`'s invariant puts both if
  one queue was read for them; an index has one queue at a time (`OneQueueAtATime`).
- `CenterUsesBus`: `NotificationSpec => Spec`, that every step of the notification
  center is a step of the bus or leaves it alone, so that the theorems of the bus
  hold of the blocks it posts. `CenterInv` on top of `IInv` and `OnePlaceInv` then says that
  a posted event is addressed to its declared thread (`Posted`), that only a block
  that runs has copied the observers it calls (`CopiedInside`), and that a copied
  entry of a view's observer is still in force as long as a block on the main
  thread has it to call (`StillRegistered`: the main thread removes such an entry
  only between its blocks, when it has none to call). From these follow `CenterTypes`,
  `ModulesUnregister`, `HandlersOnTheirThread` and the action property `RemovalIsFinal`
  (`NoLateHandler`). That the post is addressed right is not enough for the third: it
  is `ThreadAffinity` that carries the address to the thread.
- `ExclusiveOwnership`: `Spec => []Exclusive` of the pool. `PoolInv` adds that every
  database lent or in the pool is one of those created so far, so a new one is
  none of them, and that a call that has not been made holds none. SQLite's
  behaviour and the faults play no part in it: the lemma `PoolInvMove` covers
  every step that leaves the two lists alone.
- `FMDatabase_proofs` has what the callers of a connection need of its methods: the
  levels an operator leaves, and what it saves and undoes (`BeginOutcome`,
  `WholeOutcome`, `UpdateOutcome`, `ReleaseOutcome`, `RollbackToOutcome`). `PositionOfTop` says
  that the savepoint of the call that runs is the top level, so that releasing it
  or rolling back to it touches no other level; both proofs below rest on it.
- `CallsInOrder`, `CleanConnections` and `CountsAreRight`: the other invariants of the
  pool. `CleanInPool` speaks of free connections only. `LevelInv` follows one through a
  call (`Lent`): clean before BEGIN, one level on it while a savepoint's body runs,
  clean again when it is pushed back, unless some call left its level open; and it
  orders calls and databases (`InOrder`), since a database is created by a call
  that was just made. A statement is treated once for all steps (`StatementStep`),
  whatever locks it waits for. The counts follow in turn: what leaves one list
  enters the other (`CountsPush`), and `BoundReached` leaves room for one
  (`CountsMakeCall`).
- `DatabaseQueue_proofs`: the four safety invariants of the queue from one inductive
  invariant `QInv`. None of the four is inductive: they speak of finished blocks and
  of the time between two. `QInv` says that blocks finish in the order they were
  submitted (`Order`), why each level that is open is there (`Levels`: a finished
  block left it, or the running one opened it), where the row of the running block
  is at each of its steps (`OwnRow`: nowhere, in its own level, in one left below, or
  on the disk) and what is true of a block for good once it has finished
  (`AllSettled`). A later commit may save the rows of an earlier block, never of one
  that was undone.
- `UploaderKeepsPromise`: `Spec => KeepsPromise`, that `Uploader` implements `Upload` under the
  mapping `phase`, for every number of parts. `UInv` is what the main thread relies on
  when a message of the request thread reaches it: the opening request is alone
  until its end has been seen to (`OpeningFirst`), `partcount` is the number of parts
  and the queue's count of requests only falls, so it passes 0 once (`PartsCounted`),
  the closing request is made then and ends once (`ClosingOnce`), and no message
  that calls the client back is left after its outcome (`OutcomeLast`).
- `ClosingIsLast` and `HarmHasACause` (`ClosesAfterParts`, `NothingUndefined`), with the
  types (`UploaderTypes`). The promise needs no counting; these do. `CountInv` says
  that the queue's count is the size of `Due(Ends)`, the set of parts that run or have
  an end on its way to the main thread: the parts are queued together, each has one
  end there, and whatever else it reports comes before. The closing request is made
  at 0, when that set is empty. `HarmInv` adds how an uploader goes and what is left
  when it has (`GoneInv`), and that the progress shown and what may still be shown
  are together at most the total until a part fails (`ProgressInv`). Missing callbacks
  do harm only while the opening request is alone, as `OpeningFirst` says it is
  when its end is seen to.
- `Statements_proofs`: six invariants of `Statements`, all from one inductive
  invariant `FullInv`. `IInv` is the type invariant with what a call relies on
  between its steps (`CallOK`: a bound statement exists, one just prepared has no
  other holder, the result set of `next` still holds its statement) and with
  `HeldExist`, that whatever is held exists; the latter is why `Settle` never
  frees too early. On top of it `OpenSetsExact` (theorem `OpenSetsAlwaysExact`),
  `FlagInv` (`FlagAlwaysRight`: between the calls the flag is up only after an
  exception), `FinalInv` (`FinalizedOnce`: a statement finalized under its
  `FMStatement` exists only after a miscount on a cached one) and `ClosedInv`
  (`CloseLeavesNothing`) are each kept by every step. The sixth, `OwnRows` (theorem
  `RowsInOrder`), needs `RowsInv`: as long as no other call has used the cached
  statement of a result set, the set is alone with it, and the statement, if live,
  stands at the set's next row (`InStep`); the statement a query or an update works
  on belongs to no such set, and is at its start when it is bound
  (`StatementInUse`). They hold for every limit on
  retries, 0 included, and every number of statements and result sets.
- `BufferTypes` and `BufferIsString` of `BlockBuffer`. `BufferTypeOK` is inductive: what
  makes it so is `NewBlockFacts`, that the blocks `increase_capacity` asks for hold the
  bytes wanted and that one less would not. `BufferIsString` shows under it that
  every operation on the memory is the operation of the same name on the string,
  by what writing, moving and cutting do to the first bytes of a memory
  (`IncreaseMemory`, `CutFacts`, `SpliceFacts`), and that the operations of a
  `ForwardBuffer` are those of the string's reader, who takes what was passed and
  nothing else. They hold for every size and number of
  blocks.
- `CountersExact`: `BufferSpec => []TotalIsExact`, for any finite set of buffers. `total` is
  one number for all buffers and `SumFunction` a fold over them, so the proof needs
  what a fold is for every set. The induction theorems of the library cannot be
  used; instead the recursive function that `MapThenFoldSet` chooses is shown to exist
  (`FromZeroUp` is induction for the properties that are sets of numbers, from `WFMin`).
  `SumExcept` then says that a step which changes one buffer's blocks changes the
  sum by as much, and that no buffer has more than the sum: `total - m_block` in
  the code never falls below zero.
- `ReaderReads`: `PacketSpec => []ReaderAgrees`, that whoever unpacks a packet reads what
  was packed. First of single numbers: the digits to the base 256 that are written
  for a number that fits add up to it again (`RoundTrip`, for 1, 2 and 4 bytes). Then
  of one field: its pieces, call by call, are its encoding (`PiecesAre`,
  `UptoFacts`), a pop takes this from a string that begins with it, whatever follows
  (`PopWhole`), and of less it throws (`PopShort`). Then of fields behind each other:
  `Unpack` is a fold over the types, unfolded as the sum was (`UnpackMore`), and
  `ReadMore` adds one field to those that are read back (`ReadBack`). Last of the Pack: `Holds`
  says that the body in the buffer is fields that are read back and a part of one,
  the first so many pieces of it. `ReaderAgrees` is not inductive without this part:
  it speaks only of packets between two fields and after an exception. Every
  operation keeps it (`PackInv`, one lemma per operation), by what `BufferIsString`'s
  lemmas say the operation does to the string.
- `PacketsUseBuffers`: what Packs do is a behaviour of `BlockBuffer`, so that its theorems
  apply to buffers with packets (`PacketCounters`). This, `ReaderReadsInAnyOrder` and
  the rest are proved of `AnyOrder`, which is `PacketSpec` without `OthersBlank`: that
  guard only keeps TLC's instance small, and is not assumed.
- `ConstCache_proofs`: the types with the locks, `OneObject` and `NoCircularWait`, from one
  inductive invariant. It adds to `TypeOK` that no thread is twice in one cache past
  its lock (`Once`: therefore a nested call never gives back the lock of its caller),
  that a block makes an object which is not there yet (`BlockMakesNew`: the lock is
  held from the look to the insertion) and that for every ranking of the caches
  that the blocks respect the calls of a thread fall in it (`Falling`). Of a set of
  threads waiting for one another, the one that waits for the lowest cache waits
  for a thread whose innermost call is on a lower one still, which is absurd.

`FieldAssumption` says that a field has a value of its type, that `MaxVarstr` is what two
bytes can say, as 0xFFFF is, and that no string or vector has 2^31 bytes or more
(`MaxLength`). The last is about memory, not about the code: `push_varstr32` and
`push_varwstring32` cut the length to 32 bits without a look, so a string of 2^32 bytes
would lose its length; only `push_varstr` compares. `PacketAssumption` and
`PieceAssumption` say that what is packed is among the strings and sizes that
`BlockBuffer` is asked for.

Only model-checked: liveness (`NoDeadBlock`, `EveryBlockRuns`, `EveryObserverNotified`,
`EveryCallRuns`, `EveryCallReturns`, `EveryUploadEnds`), which is beyond the
prover, and the three expected violations.

## Not modelled

Whole parts, and why:

- Binding (`FW/DBinding.m`): unfinished. `addBingdingX:` makes empty lists, adds no
  delegate and registers no observer, so no change is ever dispatched, and nothing
  calls it. Its center is made without a lock and its list changed outside of one;
  both would matter as soon as it is used from two threads.
- Module center: lists filled by the main thread at its start and read afterwards.
- Socket and timers (`TestClasses/`): demonstrations. The heartbeat timer of
  `MySocketServe.m:81` is put on the run loop of a background thread that is never
  run, so it never fires.
- Cloud snapshot: one request and two callbacks, as the opening of an upload.
- `Model/Net`: the protocol and the connection have no code in this commit, and
  nothing calls the ciphers.
- Log files and file names: input and output.

Of the modelled parts:

- `packet.h`: 64-bit integers, maps, sets and pairs repeat what is modelled of 32-bit
  integers and vectors. `throw("...")` throws a `const char *`, which the handler of
  `StringToPacket` (`catch (UnpackError)`) does not catch; `push_varwstring32` leaks its
  array, since the `delete` follows the `return`. Both are seen by reading, not by a
  run. The counters of blocks are static and unsynchronised: the model has one
  thread. Strings that point into the buffer they are appended to are left out.
- `ConstCache`: a block that raises, or a nil key, leaves the lock held for ever, by
  inspection; such blocks are left out. Blocks of the app's own cache
  (`FW/DData.m:20-24`) use no cache.
- `validateSQL:error:` (`FMDatabaseAdditions.m:131-165`) is one more busy loop, which only
  logs that the limit is reached and asks again: on a database that stays busy it
  does not return.

Left out for good: ciphers and digests (arithmetic on bytes), log and file
utilities (input and output), view controllers,
and the empty classes of `Model/Storage`. Left out of the modelled parts:
reads outside a transaction in the pool (they hold no lock between statements),
encryption keys, `executeQueryWithFormat:`'s parser and the conversion of bound
objects, a variable argument list that is too short (it reads whatever follows),
SQL functions that call the connection back (no class of the app makes one),
a second upload started on one uploader, credentials and redirects of its
requests, the bytes that ASIHTTPRequest takes off the progress of a body it has
not sent whole, clients that close a lent connection themselves, a pool delegate
that calls the pool and a queue block that calls `close` (both wait for
themselves, by inspection), column access (a read), memory management except
where a property is about it.
