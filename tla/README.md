# System/T in TLA+

System/T is a transactional block store: a fixed number of blocks in a file, an
index that says which of them are allocated, an undo log, and a monitor process
that hands out locks over TCP. Clients link `libtransaction` and write to the files
themselves; the monitor writes to them only to roll back a client that died. This
directory holds a model of it, the model checker's configurations and proofs.

## 1. The system

| Component | State | Operations | Talks to |
|---|---|---|---|
| Transaction monitor, tables (`Monitor.cc`) | `transactions` (descriptor → transaction), `status`, `blockmap` (readers, writer), `next_tid` | a handler per request, `client_disconnect`, the rules of `can_read` and `can_write` | clients (request/reply), log manager (`rollback`) |
| Transaction monitor, event loop (`Monitor.cc: start`, `Transport.cc`) | `clients`, the descriptor sets of `select()`, `ready` | accept, read, close | kernel, clients |
| Log manager (`LogManager.cc`, `recover.cc`) | the log; the offset of its own descriptor | `log`, `rollback`, `doRecovery`, `undo_rec` | index and store |
| Client library (`Transaction.cc`) | `blockmap` (buffers and locks), `error_occured`, the exception in flight, the static `last_sleep`, `last_free_block` | constructor, `allocate`, `read`, `write`, `release`, `abort`, `restart`, `commit` in the destructor | monitor, all three files |
| Store initialization (`initstore.cc`) | the files | creates them | |

What is hard here:

* *Interleaving.* The monitor is one thread and a handler is atomic, but everything
  clients do to the files between two requests runs in parallel: commits with
  commits, commits with a rollback, commits with `recover` after the monitor died.
* *Preemption.* A client that lost a lock is told so at its next request, so it must
  get no further than that request, whatever else has happened to its status.
* *Crashes* of a client, the monitor or `recover` between any two `write()` calls.
* *Age and time slices* decide every conflict; a time slice runs out at any moment.
* *Liveness.* One endless loop or blocking call in the monitor stops everybody.
* *Reuse* of descriptors, of transaction numbers and of the log's space.
* *Stale reads.* The library looks at the index before it has a lock, and nobody looks
  again when the lock is granted.
* *Two views of one lock.* The monitor's tables and the library's `blockmap` are kept
  apart; the library asks only when its own copy says that it has to.
* *Exceptions on the way out.* The destructor commits, unless a flag was set before
  the exception was thrown.

The hazards are listed one by one, with their lines and the properties that watch
them, in `PROJECT.json`.

## 2. Modules

| Module | Models | Checked by |
|---|---|---|
| `Monitor` | the monitor's tables and handlers; a client as the phase of its protocol and the locks it believes in | `MCMonitor`, proved in `MonitorProofs` |
| `LockService` | the abstract promise of the monitor: revocable locks | refined by `Monitor` |
| `LogManager` | pure operators: records, and the sequences of `write()` calls of `commit`, `rollback`, `doRecovery` | through `CommitRecovery`; lemmas in `LogManagerProofs` |
| `CommitRecovery` | those sequences interleaved and cut off by deaths of clients, monitor and `recover` | `MCCommitRecovery`, proved in `CommitRecoveryProofs` |
| `EventLoop` | `start()`'s loop, descriptors, connections | `MCEventLoop`, proved in `EventLoopProofs` |
| `Transaction` | the client library: every operation, its requests and replies, exceptions, `commit()` and the destructor | `MCTransaction`, proved in `TransactionProofs` |
| `SystemT` | `Monitor` and `Transaction` composed, over the files | `MCSystemT`, proved in `SystemTProofs` and `AtomicProofs` |
| `AtomicStore` | the abstract promise to a program: atomic, isolated transactions, truthfully reported | refined by `SystemT`, up to the first blemish |
| `MonitorProofs`, `TransactionProofs`, `SystemTProofs`, `AtomicProofs`, `LogManagerProofs`, `CommitRecoveryProofs`, `EventLoopProofs` | the theorems | TLAPS |

How they fit together: `Transaction` takes any reply from the monitor, `Monitor` lets
its clients ask for whatever the protocol allows. `SystemT` conjoins the two, request by
request, so that the one determines the reply and the other the request.
`CommitRecovery` zooms into the commits that `SystemT` does not interrupt, with the log
and with deaths between any two `write()` calls; `EventLoop` zooms into how requests
and ends of connections reach the handlers of `Monitor`.

An `X_Something` next to an `X` is a faulty variant of `X`; no specification uses it.
It records a bug that a property of the module was seen to detect.

### Monitor

An action per request: `Begin`, `AllocateRq`, `ReadRq`, `WriteRq`, `ReleaseRq`,
`RestartRq`, `AbortRq`, `CommitRq`, `EndRq`; `Die` is the PREEMPTED test at the head
of `process_clientrq`; `Accept` and `Disconnect` are the two other things `start()`
does; `SliceExpires` is the clock. `ask_tpm` blocks the client from its request to
the reply, so request, handler and reply are one step. The order inside a handler
is kept where it shows: `can_write` preempts first, `update_status` of the requester
comes after, and a requester may be among its own victims (`Preempting`).

What is abstracted:

* `tstat::block_no` and `pid` are written and never read: left out.
* A list of readers is a set (a client never asks twice to read a block); a block
  that is not in `blockmap` is one without readers and writer.
* `started` and the clock are the growing set `expired`.
* A request carries its transaction number; it is the one of its descriptor. Replies
  swap `tid` and `pid`; only the reply to BEGIN is read for the number, and that one
  does not.
* `libtransaction` never sends ABORT (it just dies), but the handler is there and is
  modelled.
* `check_sole_reader` calls `front()` on a possibly empty list. The outcomes of that
  read for the builds of libstdc++ are both kept (`SoleReaderOutcomes`).
* The library asks only for what its own `blockmap` lacks: `read` for a block without
  an entry, `write` and `release` for one that is not write-locked. `allocate` may
  name any block: it looks at the index file only.

### LogManager and CommitRecovery

`commit()`, `rollback()` and `doRecovery()` are sequences of `write()` calls that are
determined before the first one: `CommitWrites`, `RollbackWrites` and
`RecoveryWrites` compute them, `Write` and `Undo` take them one at a time. The
content of a block is the number of the transaction that wrote it. `oldval` is
what the store held when the lock was granted.

The records that are undone are named by their places in the log: `Unfinished` gives
those that `doRecovery()` has in `bts[t]` when it has read the log, `ScanStop` the one
at which the backward scan of `rollback()` ends. `doRecovery()` undoes a transaction
from its first record on (`UndoAll`), `rollback()` from its last (`UndoBack`). What a
run of `write()` calls leaves in a file is that the last one to a block counts
(`After`).

Each `Transaction` opens the log for itself without `O_APPEND`, so it writes from the
*first* record on, over whatever is there; `rollback()` and `doRecovery()` seek to the
end. `logpos` and `PutLog` model that.

`db` is a history variable: the view (index and allocated blocks) after the last
LEND. `Recoverable` compares it, in every state, with what `recover` would make of
the files (`RecoveredView`).

A transaction begins (`Begin`), looks at the index for each block it is going to ask for
(`Look`: `is_allocated` or `find_free_block`) and gets its locks (`Lock`). Between a look
and the locks others commit, end and are rolled back, and the index is not looked at
again: the entries in `blockmap` go by the look, the old contents by the store at the
grant. `Lock` gives a transaction all its locks at once and no conflicting ones. This
is the promise of `LockService` for transactions that commit; the proof that `Monitor`
keeps it is in `MonitorProofs`.

The promise is about locks and leaves out two things that the code does:

* the preemption of a reader that is committing; a finding of `Monitor` (below), not in
  this module;
* a lock on an outdated look; this is in the module. The history variable `stale`
  collects the blocks that were locked for writing by a transaction whose look was no
  longer true. Such a transaction logs an old value that is not the committed one. If it
  is interrupted, the undo writes that value: an LALLOCATE is undone to 'U', and a block
  that another transaction has committed is gone. The properties about contents speak of
  the blocks in `Sound`, those outside `stale`, and so say that the damage stays in the
  block it was done to.

A client whose monitor dies while it asks for locks ("begun") goes idle with it: if the
uninitialized reply grants it a lock, the next request is a send on a reset connection,
which ends the process. A client that has its locks may still commit (`CommitUnheard`).

`reused` records that the running monitor got the descriptor of a closed connection
again; from then on `EventLoop` promises no service to anybody.

The code does not guarantee the conditions under which its log works, so they are
constants: `SerialCommits`, `OperatorWaits`, and `MaxEpochs = 1` for "one monitor per
log". The passing runs say what holds under them; section 3 shows what goes wrong
without them. In detail:

* a log scan of `rollback()` or `doRecovery()` is one step. Under `SerialCommits` and
  `OperatorWaits` nobody writes to the log meanwhile, so this is exact; without
  them it leaves out behaviours, and the runs without them expect violations;
* `ScanEnds`: the backward scan of `rollback()` finds an LBEGIN or LEND of the
  transaction, or it goes on for ever (mode "scanning"). On an *empty* log the scan
  looks at a record it never read; the model takes it not to be one of the
  transaction's;
* `CommitUnheard`: the uninitialized reply of a dead monitor may be OK; that it is
  NOT_OK or DIE is `Leave`.

A `write()` is taken as atomic and durable when it returns (`O_SYNC`); a failing
`write()` ends its process and is a death.

### EventLoop

`Select`, `Accept`, `Pass`, `Serve`, `HangUp` and `RecvFails` are the steps of
`start()`; `pos` is the iterator, `ready` the counter of the early break. A
connection is one `Transaction` object; the kernel gives it the lowest free
descriptor. `recv` on an open and silent connection blocks: no action of the loop
is enabled.

The loop does not survive everything the environment does, and two history variables
record what disturbed it: `reused`, a descriptor that `clients` still lists was given
out again; `rude`, a client died with a reply unread, so the kernel resets the
connection. The properties say what holds always (`NobodyForgotten`) and what holds up
to the first such event; `ClosingIsHarmless`, which the code violates, is what holds
only up to the first reset.

What a request does is in `Monitor`; that a disconnection may take the time of a
rollback is in `CommitRecovery`.

### Transaction

A process runs transactions one after the other; `pc` is where it stands. A step is
what the library does between two points where others can act, so each of these is a
step of its own: a look at the index (`IsAllocated`, `Probe`), a request with its
reply (`Ask...`), the read from the store that follows a grant (`Fetch...`), a
`write()` of `commit()` (`CommitWrite`), the sleep before a restart (from `AskRestart`
to `Destroy`). The code between `Begin(T)` and `End(T)` is any sequence of operations.

* `blockmap` is the code's: `lock`, `data`, `oldval`, `oldindex`; a deleted buffer is
  `NULL`. `write` and `release` of a block that is locked for reading delete its buffer
  before they ask for the upgrade; `oldval` still points to it (`Dangling`).
* `Throw` records the exception and whether `error_occured` was set before it, which
  decides whether the destructor commits. An exception that leaves the destructor ends
  the process (`DestructorThrows`).
* `Destroy` deletes all buffers. If one of them dangles it is deleted twice, which is
  undefined: the process dies or goes on.
* `Elsewhere` is everybody else: other processes and rollbacks write to any block.
* The contents of blocks are members of `Values`; the log is left out, and so is the
  difference between the ways in which a failing system call ends the process.

### SystemT and AtomicStore

`conn` gives the monitor's descriptor for the connection of a process. A request is one
step of `Monitor` and of `Transaction`, and the monitor's next state determines the
reply: `NOT_OK` is that the client is now "refused", `DIE` is the step `Die`. When a
process closes its connection, or is dead, the monitor need not notice (`SysDisconnect`)
before the process comes back with another one.

`AtomicStore` has four variables: the contents of the store, what each running
transaction saw of it and made of it, and what became of the transaction. `Commit` is
one step: it requires that what was seen is still there and installs what was made.
The refinement mapping reads `seen` and `wrote` off `blockmap`, `stage` off `pc`, and
the contents from the files *as they will be* when the commits in progress have made
the `write()` calls they have left (`SettledView`): the moment of a commit is the
reply to COMMIT. An object between restarts has seen nothing.

The code does not implement `AtomicStore` in full. `blemishes` records the two things
that break it, and `AtomicUnlessBlemished` says that every step up to the first of them is
a step of `AtomicStore`:

* "stale": a lock was granted on a block whose index entry is not the one the library
  saw: two transactions allocate one block (run `system_t_allocate`), or read, write or
  release a block that is gone;
* "preempted": a transaction that had only read a block was preempted while it
  committed (finding of `Monitor`). At END it is told DIE: the process reports as failed
  what is on disk, although the comment at `Transaction.cc:286` says that this
  "CANNOT occur after a trq::COMMIT has been issued".

`Clock` lets a time slice run out only for a transaction that holds a lock
(`HasLockToLose`): of the others nobody can tell. Processes pass numbers of blocks of the
store, write something else than zeros and are not killed inside `commit()`.

## 3. Runs

| Run | Bounds | Shows |
|---|---|---|
| `monitor` | 3 descriptors, 2 blocks, 3 transactions; 802,000 states | types; the tables agree; readers exclude writers; grants stand; no phantom locks; status and protocol agree; isolation; preemption is final; committing writers keep their blocks; a refusal is for an elder or committing holder of that block; only interrupted commits are rolled back; refinement of `LockService` |
| `commit_recovery` | 2 blocks, 2 clients, 3 transactions, 2 deaths, 1 monitor; 2,520,000 states | for every block nobody locked on an outdated look: always recoverable; readers see committed data; recovery is complete. Rollback stays inside its locks |
| `commit_recovery_restarts` | 2 transactions, 2 deaths, 3 monitors; 473,000 states; fair | recover marks all it undoes; up to the first reuse of a descriptor, whoever wrote LBEGIN and died is flushed, and under the first monitor is undone by then |
| `event_loop` | 4 connections; 187,000 states; fair | nobody forgotten, always; up to the first reuse or reset: the count is right, never blocked, everybody served, no exit |
| `transaction` | 1 process, 2 blocks, 2 transactions of 3 operations, 2 sleeps; 42,000 states; fair | types; a failed transaction does not commit; no deleted buffer is committed; `find_free_block` repeats no block and ends; retries end |
| `system_t` | 2 processes with 1 transaction of 2 operations each, 2 descriptors, 2 blocks (one allocated), 3 transaction numbers, 1 restart; 934,000 states | the library keeps to the protocol; copies are locked; atomicity up to a blemish |

Why the bounds are enough. Three transactions give a requester, a holder that is
older and one that is younger, so all outcomes of `can_write` on a list of readers
with different fates; two blocks give the circular conflict of two transactions and
a flush of several blocks. Three descriptors let a restarted client own two. The
theorems remove these bounds. For the files, two blocks give commits of several
records of any mix of lock types; three transactions let a third one meet a log
that two others have partly overwritten; two deaths let `recover` die after the
monitor did, and run again. Three connections are the fewest with a new descriptor,
its stale entry and somebody behind it; the fourth lets a descriptor come back twice.
In `transaction` one process is enough, as `Elsewhere` does what others do and the
monitor gives any reply; one content is enough, as no decision of the library depends
on it; three operations allow read, upgrade and one more, or two allocations and one
more on a store of two blocks, so that the search runs off the end; two transactions
show what the statics carry over. In `system_t` two processes with two operations each
give the crossed conflicts (read-write against read-write, allocation against release);
the third number is for the restart of either, so a restarted transaction meets one that
is older; one block is allocated at first and one is free, so that every operation
succeeds on one of them. The invariants of both, and the refinement, are proved without these bounds.

Deadlock is checked in `Monitor` only. In the others the bounds are used up, or all
clients are gone, and the system really stops.

Where code and documentation disagree, a run expects a violation:

| Run | The code | The documentation |
|---|---|---|
| `monitor_interrupted_rolled_back` | `can_write` preempts a committing reader; if that client dies it is not rolled back | committing transactions are never preempted, and a failure inside `commit()` is rolled back |
| `commit_recovery_concurrent` | commits overwrite each other's log records | no limit on transactions committing at the same time |
| `commit_recovery_tid_reuse` | numbers restart at 1, old LEND and LABORT records hide unfinished work | numbers are unique; unfinished transactions are undone |
| `commit_recovery_flushed` | `rollback()` never ends if the log has records, and none of the transaction | failures at any point are rolled back |
| `event_loop_stale` | `recv` on a closed descriptor ends the monitor | process failures are reliably detected |
| `system_t_allocate` | the index is not looked at again when ALLOCATE is granted: two transactions allocate one block, the second overwrites the first | `find_free_block` finds a block marked 'U', and the monitor refuses it if another transaction was granted it |

More follows from the models by changing a constant or reading an action or an
exception in a property:

* with `stale` left out of `Sound`, `Recoverable` fails under all the conditions of the run
  `commit_recovery`: T2 finds block 1 marked 'U'; T1 allocates it, commits and ends; T2 is
  granted the block, writes its LBEGIN and LALLOCATE and dies; `rollback()` or `recover`
  marks the block 'U', and what T1 committed is lost. It is the finding of
  `system_t_allocate` with a death in it;
* with `OperatorWaits = FALSE`, `Recoverable` fails: nothing keeps `recover` from
  running while clients of the dead monitor are still committing (`doc/TESTING`:
  "must be run whenever the monitor fails");
* `MonitorStaysUp` needs `rude`: a reset connection makes `recv` return -1 and
  `readSocket` exit, without any descriptor being used again;
* `CommitUnheard` is enabled: a client can begin to commit with no monitor running,
  where `doc/DOCUMENTATION` says that "no transactions can happen". `Recoverable`
  covers such commits;
* `ThrownDoesNotCommit` excepts a block number <= 0: `read`, `write` and `release` throw
  TE_ABORT for it without setting `error_occured`, and the destructor commits what the
  program was just told is aborted;
* `BuffersLive` allows a dangling buffer up to `Destroy`, which deletes it again after
  every refused or preempted upgrade from read to write;
* `EveryProcessEnds` holds because `last_sleep` is never reset: a process has a fixed
  number of restarts for all its transactions together, however far apart.

## 4. Fairness

`Monitor` states safety only: nothing makes a client ask or leave.

`CommitRecovery!FairSpec`: weak fairness of `Undo`, `RolledBack` and `Recovered`, that
is, a process that is not killed goes on; strong fairness of each client's
`Disconnect` as long as no descriptor was used again, because in every round of its loop
the monitor serves every descriptor that `select()` found ready. That it does is what
`EventLoop` checks (`EverybodyServed`), from weak fairness of the loop alone, up to the
first reuse of a descriptor or reset of a connection. After a reuse nothing is assumed,
and nothing is claimed: `InterruptedFlushed` ends there. A reset ends the monitor, which
here is `MonitorDies`. No fairness is assumed of clients, of the operator or of crashes.

`Transaction!FairSpec`: weak fairness of each process's `Step`: the program goes on, a
sleep ends, and the monitor answers, whatever it answers. That it answers is
`EverybodyServed` of `EventLoop`. `EveryProcessEnds` is then a property of the library
alone, for the worst monitor. `SystemT` states safety only.

## 5. Proofs

Every safety property that the passing runs check is proved, for all values of the
constants that satisfy the named assumptions of the modules. Those about the log hold
under the conditions under which the runs check them; here they are hypotheses of the
theorems. Each inductive invariant was checked by TLC before it was proved.

`MonitorProofs` proves every property of the run `monitor`, for all sets `Clients` and
`Blocks` and every natural number `MaxTid` (the only assumption).

The inductive invariant is `IInv`:

    TypeOK /\ TablesAgree /\ LocksExclude /\ GrantStands /\ NoPhantomLock /\ ProtocolState

No part is inductive alone. `GrantStands` survives a grant to another client because
whoever held a conflicting lock is among the victims, which needs `LocksExclude` (if
there is a writer, the readers it does not preempt do not exist) and `TablesAgree` (a
victim has a status to be marked in, and two clients never share a transaction). It
survives a disconnection because transactions are unique. `NoPhantomLock` needs
`ProtocolState` to know that a client without a transaction believes in nothing, and
`TablesAgree` needs the upgrade's requester to be live. `HeardFacts` collects what is
known of a client that passes the test at the head of `process_clientrq`.

The lock requests are proved once: `LockRequest` reduces each of them to a refusal,
`GrantRead` or `GrantWrite`, and `Conquest` states what the victims and the evicted
readers of a `GrantWrite` have in common in the two cases, conflict and upgrade. The
action properties and the refinement follow from `IInv` and the same reduction.
`RefusedForAnElder` takes from it whose lock on the requested block, in `readers` or
`writer`, made `can_read` or `can_write` refuse. The
refinement maps `lock` to the clients' beliefs, `doomed` to the clients whose
transaction is PREEMPTED and `committing` to the clients between the replies to
COMMIT and END. `PromiseIsolates` draws isolation from `LockService` alone: whatever
replaces the tables need only keep the promise.

`TransactionProofs` proves the four invariants of the run `transaction`, for all sets of
processes and contents, every size of the store and every bound. Its inductive
invariant `LInv` is the conjunction of three of them and six more facts, and implies the fourth,
`AllocateFresh`: an exception is in flight only on the way out (`ThrowingEnds`); what is locked for writing has a buffer, so
`commit()` writes contents (`OwnedHaveBuffer`, for `todo` in `TypeOK`); the blocks a
transaction allocated lie behind `last_free_block` and, while it searches, strictly
behind (`SearchGoesOn`, for `AllocateFresh`); `find_free_block` is inside the store when
an operation starts (`SearchInside`, for the type of `last_free_block`: it passes the
end by one and then the transaction restarts); `blockmap` is empty outside a
transaction (`EmptyOutside`); a request names a block (`RequestsName`).

`SystemTProofs` proves what ties the two sides together. `SInv` is `IInv` of the monitor,
that a descriptor belongs to one process, and for each process `Agree`: it has a
connection exactly from its constructor to the end of its destructor (`Connected`), it
asks only for what its `blockmap` lacks (`Requests`), the monitor has it in the phase it
is in (`PhaseAgrees`), and `blockmap` has an entry, of the right mode, exactly for the
locks that were granted, but for the one between its grant and the read from the
store (`LocksAgree`). `OneProcess` reduces a step to its own process: nobody else's
connection is touched, because descriptors are not shared. `InProtocol` and
`EntriesLocked` follow; the second needs `GrantStands` of the monitor to turn "granted"
into "still has". `PartsInside` says that the composition is a behaviour of `Monitor`
and one of `Transaction`: requests are about blocks of the store and come from
descriptors in the right phase, so the abstract clients of `Monitor` do cover the
library, and the theorems about either part hold of the whole.

`AtomicProofs` proves the refinement of `AtomicStore` up to the first blemish, for any
number of processes, descriptors, blocks, contents and restarts. `AInv` is `SInv`, what
each process keeps by itself (`Own`: an entry of `blockmap` says what the library found,
a dangling buffer is met only on the way out, `write()` calls are left over only in
`commit()` and only for blocks it owns), and, while there is no blemish:

* `CommittersSafe`: nobody who is committing was preempted;
* `GrantFresh`: a block whose lock was just granted is still allocated;
* `SeenStands`: what a running transaction that was not preempted saw of a block is what
  the files hold.

The last is isolation at the level of the data. A `write()` goes to a block its process
has locked for writing (`WriterOwns`), so by `EntriesLocked` and `LocksExclude` whoever
saw that block is preempted (`OthersKeepOff`), and stays so (`StaysPreempted`). Every
step of a process has one of five shapes (`ProcessShape`): it goes on, changes one
entry of its `blockmap`, clears it, commits, or makes one `write()`; the rest is proved
once for each shape. A `write()` does not change the view that is settled
(`WriteSettles`), because the calls still pending are of different blocks, and the
reply to COMMIT changes it by exactly what the transaction made (`CommitTakesEffect`).
`AllocatesFreeUnlessBlemished` says what that means for the promise that the run
`system_t_allocate` refutes. `LibraryAssumption` repeats for the composition what
`Transaction` assumes of its constants.

`CommitRecoveryProofs` proves every safety property of `CommitRecovery`. Of
`ConstantsAssumption` and the set of clients nothing more is needed for types, and
`RecoveryMarksAll` needs only that the operator waits (`OperatorWaits`), with any
number of monitors. The other four have three hypotheses, and none can be
dropped: `Recoverable` is violated without `SerialCommits` in the run
`commit_recovery_concurrent`, without `MaxEpochs <= 1` in `commit_recovery_tid_reuse`,
and without `OperatorWaits` as section 3 says. The invariant `IInv` says, beside
types and who may be where (`Operating`, `Numbers`, `NoConflicts`):

* `Undoable`: a *loose* record (one of a transaction without LEND or LABORT behind it)
  restores the committed content of its block, and every block that differs from the
  committed view has one that does, for blocks outside `stale`. This is the heart; `Recoverable` and
  `RecoveryComplete` follow from it and from what `RecoveryWrites` contains;
* `EntriesTrue`: what a transaction found of a block it locked for writing is what is
  committed, unless its look was outdated, so that the old values it logs are the right
  ones;
* `OneCommit`, `Trace`: loose records are of one transaction, whose records are the
  front of the log and agree with its `blockmap`;
* `Todo`: in the `write()` calls left to `commit()` every data write comes after its
  record, LEND is last, and what is not pending is in place: write-ahead logging;
* `UndoJob`: what is left to `rollback()` or `doRecovery()` restores committed contents
  only (outside `stale`), and a mark comes after all it stands for; with `Marking`, a `recover` that was
  killed can be run again.

`LogManagerProofs` has the lemmas about sequences that this rests on: what
`FlattenSeq` is made of and in which order, what undoing a set of places writes, where
the scan stops, that the last write counts. The library's induction theorems take an
operator; a set of naturals has a least member (`LeastNatural`), and `Induction` is
drawn from that for a property given as a set. With it, and the recursive function by
which the community modules define `FlattenSeq`, its elements and their order are proved
for sequences of every length (`Flattened`).

`EventLoopProofs` proves the five invariants of `EventLoop` for any number of
connections. `IInv` adds to them that connections come in order (`Ordered`), that a
client's state says what is to be received (`Streams`), that `everyone` is exactly the
descriptors in use (`Watched`), that none is listed twice while none came back
(`ListedOnce`), and that what is still to be served in a round has been heard and not
been read since (`HeardAhead`, `Round`). `ReadyCountsAhead` is about the cardinality of
what lies ahead; `CountPlaces` relates the count of places in the list to that of
descriptors.

Only model-checked: the liveness properties `InterruptedFlushed` (of `CommitRecovery`),
`EverybodyServed` (of `EventLoop`) and `EveryProcessEnds` (of `Transaction`). They rest
on fairness, hence on ENABLED, which is out of the prover's reach. What the runs of
section 3 refute is refuted by TLC on a small instance, and a counterexample needs
no more.

## 6. Not modelled

* Deaths inside `commit()` together with locks and several monitors: `CommitRecovery`
  has the deaths, `SystemT` the locks; both at once are out of TLC's reach.
* What a program computes: it may call any operation with any block and contents.
* A `recv` that returns a part of a request: messages are a few bytes on the loopback
  interface.
* The ASCII log: it is never read.
* Network partitions between hosts: `TPM_HOST` is "localhost".
* Failing `open`, `bind` and `listen`: the process ends before it has any state.
* More transactions than a `trid_t` counts; more than `FD_SETSIZE` connections.
* The test programs, which are clients like any other.

## 7. Plan

1. The literal loops of `doRecovery` and `rollback` against `Unfinished` and `ScanStop`,
   over all short logs.
2. A death inside `commit()` in `SystemT`, with the rollback as one step.
