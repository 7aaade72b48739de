-------------------------- MODULE CommitRecovery --------------------------
(***************************************************************************)
(* The life of the files: transactions that commit, clients and monitors   *)
(* that die, rollback() by the monitor, doRecovery() by the recover        *)
(* program.                                                                *)
(*                                                                         *)
(* Locking is abstracted to its promise (LockService): a transaction gets  *)
(* all its locks at once, at the last grant, and only locks that do not    *)
(* conflict with those of other transactions.  What the locks are for is   *)
(* in Monitor.  The library looks at the index before it asks for a lock   *)
(* and not again: a look can be outdated when the lock is granted.         *)
(*                                                                         *)
(* Three constants select how the system is operated.  The code enforces   *)
(* none of them:                                                           *)
(*   SerialCommits   a transaction begins to commit only when every other  *)
(*                   commit is over: finished, rolled back or recovered;   *)
(*   OperatorWaits   recover is run when no client of the dead monitor is  *)
(*                   left;                                                 *)
(*   MaxEpochs       monitors started on the same log.                     *)
(***************************************************************************)
EXTENDS LogManager

CONSTANTS Clients,
          MaxTransactions,   \* bound: transactions begun in a behaviour
          MaxCrashes,        \* bound: deaths of the monitor and of recover
          MaxEpochs,         \* see above; bounds the restarts of the monitor
          SerialCommits, OperatorWaits

ASSUME ConstantsAssumption ==
  /\ MaxTransactions \in Nat /\ MaxCrashes \in Nat /\ MaxEpochs \in Nat
  /\ SerialCommits \in BOOLEAN /\ OperatorWaits \in BOOLEAN

VARIABLES index, store, log,   \* dataindex.ix, datastore.db, datalog.log
          begun,       \* transactions begun so far
          next_tid,    \* of the running monitor
          epoch,       \* monitors started so far
          crashes,     \* deaths of monitors and recover programs so far
          mode,        \* what the monitor or the recover program is doing
          job,         \* write() calls that rollback() or doRecovery() has left
          victim,      \* the client whose end the monitor is handling
          committing,  \* clients that are COMMITTING in the monitor's status map
          orphans,     \* clients whose monitor died
          phase,       \* where each client is
          tid,         \* its transaction
          seen,        \* what it read in the index before it asked for the lock
          blockmap,    \* its Transaction::blockmap
          todo,        \* write() calls commit() has left
          logpos,      \* records its LogManager has written: where logfd stands
          reused,      \* the monitor got the descriptor of a closed connection again
          db,          \* history: the view after the last LEND written
          stale        \* history: blocks locked for writing on an outdated look

files      == <<index, store, log>>
monitor    == <<next_tid, epoch, mode, job, victim, committing>>
clientVars == <<phase, tid, seen, blockmap, todo, logpos>>
history    == <<reused, db, stale>>
vars       == <<files, begun, crashes, monitor, orphans, clientVars, history>>

\* "serving"   select() and requests
\* "rollback"  inside LogManager::rollback, its records collected
\* "scanning"  inside LogManager::rollback, in a scan that does not end
\* "down"      no monitor
\* "recover"   no monitor, the recover program runs
\* "recovered" no monitor, the recover program has finished
Modes == {"serving", "rollback", "scanning", "down", "recover", "recovered"}

\* "idle"       no transaction
\* "begun"      has its number and looks at the index
\* "ready"      has its locks
\* "committing" commit(): COMMIT was acknowledged
\* "gone"       the connection is closed, the monitor has not handled that yet
Phases == {"idle", "begun", "ready", "committing", "gone"}

Nobody == "nobody"
ASSUME NobodyAssumption == Nobody \notin Clients

EmptyMap == [b \in BlockNumbers |-> NoEntry]
NoLooks  == [b \in BlockNumbers |-> "unseen"]

Writing(e) == e.lock \in {"A_LOCK", "W_LOCK", "S_LOCK"}
Conflicting(e, f) == /\ NoEntry \notin {e, f}
                     /\ Writing(e) \/ Writing(f)

\* commit() is past the reply to COMMIT and the monitor has not seen the end.
InCommit(c) == phase[c] = "committing" \/ c \in committing

TheView == View(index, store)

\* What b is to be once the transaction with entry e for it has committed.
Committed(b, e) == IF e.lock = "S_LOCK" THEN <<"U">>
                   ELSE IF Writing(e) THEN <<"A", e.data>> ELSE db[b]

-----------------------------------------------------------------------------
Init ==
  /\ index = [b \in BlockNumbers |-> "U"]
  /\ store = [b \in BlockNumbers |-> 0]
  /\ log = << >>
  /\ begun = 0 /\ next_tid = 1 /\ epoch = 1 /\ crashes = 0
  /\ mode = "serving" /\ job = << >> /\ victim = Nobody
  /\ committing = {} /\ orphans = {}
  /\ phase = [c \in Clients |-> "idle"]
  /\ tid = [c \in Clients |-> 0]
  /\ seen = [c \in Clients |-> NoLooks]
  /\ blockmap = [c \in Clients |-> EmptyMap]
  /\ todo = [c \in Clients |-> << >>]
  /\ logpos = [c \in Clients |-> 0]
  /\ reused = FALSE
  /\ db = TheView
  /\ stale = {}

\* The constructor of Transaction; its LogManager opens the log at the first
\* record.  Accepting a connection reuses a descriptor if one was closed before.
Begin(c) ==
  /\ mode = "serving" /\ phase[c] = "idle"
  /\ begun < MaxTransactions
  /\ begun' = begun + 1
  /\ next_tid' = next_tid + 1
  /\ tid' = [tid EXCEPT ![c] = next_tid]
  /\ logpos' = [logpos EXCEPT ![c] = 0]
  /\ phase' = [phase EXCEPT ![c] = "begun"]
  /\ reused' = (reused \/ next_tid - 1 # Cardinality({d \in Clients : phase[d] # "idle"} \ orphans))
  /\ UNCHANGED <<files, epoch, crashes, mode, job, victim, committing, orphans, seen,
                 blockmap, todo, db, stale>>

\* is_allocated or find_free_block, the last time before the request for b: what
\* an earlier look showed is forgotten.
Look(c, b) ==
  /\ phase[c] = "begun" /\ seen[c][b] = "unseen"
  /\ seen' = [seen EXCEPT ![c][b] = index[b]]
  /\ UNCHANGED <<files, begun, crashes, monitor, orphans, phase, tid, blockmap, todo,
                 logpos, history>>

\* What allocate, read, write and release put into blockmap when the lock is
\* granted: the content of the store is read then, oldindex goes by the look.
AllocatedEntry(data)  == Entry("A_LOCK", data, data, "U")
ReadEntry(b)          == Entry("R_LOCK", store[b], store[b], "A")
WrittenEntry(b, data) == Entry("W_LOCK", data, store[b], "A")
ReleasedEntry(b)      == Entry("S_LOCK", store[b], store[b], "A")

\* The entries a transaction may end up with for b: read, written or released if
\* it saw b allocated; allocated, perhaps released again, if not.
EntriesOf(b, look, data) ==
  CASE look = "A" -> {ReadEntry(b), WrittenEntry(b, data), ReleasedEntry(b)}
    [] look = "U" -> {AllocatedEntry(data), [AllocatedEntry(data) EXCEPT !.lock = "S_LOCK"]}
    [] OTHER      -> {NoEntry}

\* The operations of the transaction have their locks; End(T) is next.
Lock(c) ==
  /\ mode = "serving" /\ phase[c] = "begun"
  /\ \E bm \in [BlockNumbers -> UNION {EntriesOf(b, seen[c][b], tid[c]) : b \in BlockNumbers}] :
       /\ \A b \in BlockNumbers : bm[b] \in EntriesOf(b, seen[c][b], tid[c])
       /\ \A d \in Clients \ orphans, b \in BlockNumbers : ~Conflicting(bm[b], blockmap[d][b])
       /\ blockmap' = [blockmap EXCEPT ![c] = bm]
       /\ stale' = stale \cup {b \in BlockNumbers : Writing(bm[b]) /\ index[b] # bm[b].oldindex}
  /\ seen' = [seen EXCEPT ![c] = NoLooks]
  /\ phase' = [phase EXCEPT ![c] = "ready"]
  /\ UNCHANGED <<files, begun, crashes, monitor, orphans, tid, todo, logpos, reused, db>>

BeginCommit(c) ==
  /\ phase[c] = "ready"
  /\ SerialCommits => /\ \A d \in Clients : ~InCommit(d)
                      /\ BrokenTransactions(log) = {}
  /\ phase' = [phase EXCEPT ![c] = "committing"]
  /\ todo' = [todo EXCEPT ![c] = CommitWrites(tid[c], blockmap[c])]
  /\ UNCHANGED <<files, begun, next_tid, epoch, crashes, mode, job, victim, orphans,
                 tid, seen, blockmap, logpos, history>>

\* The destructor of Transaction calls commit(), the monitor agrees.
Commit(c) ==
  /\ mode = "serving" /\ c \notin orphans
  /\ BeginCommit(c)
  /\ committing' = committing \cup {c}

\* The monitor is dead: recv returns 0 and ask_tpm evaluates an uninitialized
\* reply.  This is the outcome OK; Leave is the outcome NOT_OK or DIE.
CommitUnheard(c) ==
  /\ c \in orphans
  /\ BeginCommit(c)
  /\ UNCHANGED committing

\* One write() of commit().
Write(c) ==
  /\ phase[c] = "committing" /\ todo[c] # << >>
  /\ LET w == Head(todo[c])
     IN  /\ index' = PutIndex(index, w)
         /\ store' = PutStore(store, w)
         /\ log' = PutLog(log, w, logpos[c] + 1)
         /\ logpos' = [logpos EXCEPT ![c] = @ + IF w.file = "log" THEN 1 ELSE 0]
         /\ db' = IF w.file = "log" /\ w.rec.action = "LEND"
                  THEN [b \in BlockNumbers |-> Committed(b, blockmap[c][b])] ELSE db
  /\ todo' = [todo EXCEPT ![c] = Tail(@)]
  /\ UNCHANGED <<begun, crashes, monitor, orphans, phase, tid, seen, blockmap, reused, stale>>

\* The client sends END, or reads garbage in place of the reply; its connection
\* closes either way.
End(c) ==
  /\ phase[c] = "committing" /\ todo[c] = << >>
  /\ c \in orphans \/ mode = "serving"
  /\ committing' = committing \ {c}
  /\ IF c \in orphans
     THEN /\ phase' = [phase EXCEPT ![c] = "idle"]
          /\ blockmap' = [blockmap EXCEPT ![c] = EmptyMap]
          /\ orphans' = orphans \ {c}
     ELSE /\ phase' = [phase EXCEPT ![c] = "gone"]
          /\ UNCHANGED <<blockmap, orphans>>
  /\ UNCHANGED <<files, begun, next_tid, epoch, crashes, mode, job, victim, tid, seen, todo,
                 logpos, history>>

\* The client dies, aborts or fails a write, at any point.
Leave(c) ==
  /\ phase[c] \in {"begun", "ready", "committing"}
  /\ todo' = [todo EXCEPT ![c] = << >>]
  /\ seen' = [seen EXCEPT ![c] = NoLooks]
  /\ IF c \in orphans
     THEN /\ phase' = [phase EXCEPT ![c] = "idle"]
          /\ blockmap' = [blockmap EXCEPT ![c] = EmptyMap]
          /\ orphans' = orphans \ {c}
     ELSE /\ phase' = [phase EXCEPT ![c] = "gone"]
          /\ UNCHANGED <<blockmap, orphans>>
  /\ UNCHANGED <<files, begun, crashes, monitor, tid, logpos, history>>

-----------------------------------------------------------------------------
(* The monitor and the recover program.                                    *)

Flush(c) ==
  /\ phase' = [phase EXCEPT ![c] = "idle"]
  /\ blockmap' = [blockmap EXCEPT ![c] = EmptyMap]
  /\ committing' = committing \ {c}

\* client_disconnect(): flush, after a rollback if the client was COMMITTING.
Disconnect(c) ==
  /\ mode = "serving" /\ phase[c] = "gone"
  /\ IF c \notin committing
     THEN Flush(c) /\ UNCHANGED <<mode, job, victim>>
     ELSE /\ mode' = IF ScanEnds(log, tid[c]) THEN "rollback" ELSE "scanning"
          /\ job' = IF ScanEnds(log, tid[c]) THEN RollbackWrites(log, tid[c]) ELSE << >>
          /\ victim' = c
          /\ UNCHANGED <<phase, blockmap, committing>>
  /\ UNCHANGED <<files, begun, next_tid, epoch, crashes, orphans, tid, seen, todo, logpos,
                 history>>

\* One write() of rollback() or doRecovery(): both seek to the end of the log
\* before they write to it.
Undo ==
  /\ mode \in {"rollback", "recover"} /\ job # << >>
  /\ index' = PutIndex(index, Head(job))
  /\ store' = PutStore(store, Head(job))
  /\ log' = PutLog(log, Head(job), Len(log) + 1)
  /\ job' = Tail(job)
  /\ UNCHANGED <<begun, crashes, next_tid, epoch, mode, victim, committing, orphans,
                 clientVars, history>>

RolledBack ==
  /\ mode = "rollback" /\ job = << >>
  /\ Flush(victim)
  /\ mode' = "serving"
  /\ victim' = Nobody
  /\ UNCHANGED <<files, begun, next_tid, epoch, crashes, job, orphans, tid, seen, todo, logpos,
                 history>>

\* The monitor dies, and with it all it knew of its clients.  A client that still
\* asks for locks gets no further than its next request but one.
MonitorDies ==
  /\ mode \in {"serving", "rollback", "scanning"}
  /\ crashes < MaxCrashes
  /\ crashes' = crashes + 1
  /\ mode' = "down" /\ job' = << >> /\ victim' = Nobody
  /\ committing' = {}
  /\ orphans' = orphans \cup {c \in Clients : phase[c] \in {"ready", "committing"}}
  /\ phase' = [c \in Clients |-> IF phase[c] \in {"begun", "gone"} THEN "idle" ELSE phase[c]]
  /\ seen' = [c \in Clients |-> NoLooks]
  /\ blockmap' = [c \in Clients |-> IF phase[c] = "gone" THEN EmptyMap ELSE blockmap[c]]
  /\ reused' = FALSE
  /\ UNCHANGED <<files, begun, next_tid, epoch, tid, todo, logpos, db, stale>>

Recover ==
  /\ mode = "down"
  /\ OperatorWaits => orphans = {}
  /\ mode' = "recover"
  /\ job' = RecoveryWrites(log)
  /\ UNCHANGED <<files, begun, next_tid, epoch, crashes, victim, committing, orphans,
                 clientVars, history>>

RecoverDies ==
  /\ mode = "recover"
  /\ crashes < MaxCrashes
  /\ crashes' = crashes + 1
  /\ mode' = "down" /\ job' = << >>
  /\ UNCHANGED <<files, begun, next_tid, epoch, victim, committing, orphans, clientVars, history>>

Recovered ==
  /\ mode = "recover" /\ job = << >>
  /\ mode' = "recovered"
  /\ UNCHANGED <<files, begun, next_tid, epoch, crashes, job, victim, committing, orphans,
                 clientVars, history>>

\* A new TransactionMonitor counts its transactions from 1 again.
StartMonitor ==
  /\ mode = "recovered" /\ epoch < MaxEpochs
  /\ mode' = "serving"
  /\ epoch' = epoch + 1
  /\ next_tid' = 1
  /\ UNCHANGED <<files, begun, crashes, job, victim, committing, orphans, clientVars, history>>

MonitorStep == Undo \/ RolledBack \/ Recovered

Next ==
  \/ \E c \in Clients : \/ Begin(c) \/ Lock(c) \/ \E b \in BlockNumbers : Look(c, b)
                        \/ Commit(c) \/ CommitUnheard(c) \/ Write(c)
                        \/ End(c) \/ Leave(c) \/ Disconnect(c)
  \/ MonitorStep
  \/ MonitorDies \/ Recover \/ RecoverDies \/ StartMonitor

Spec == Init /\ [][Next]_vars

\* A process that is not killed goes on, and every round of the monitor's loop
\* over its clients reads from each descriptor that select() found ready, as long
\* as no descriptor has been given out twice (EverybodyServed in EventLoop).
FairSpec ==
  /\ Spec
  /\ WF_vars(MonitorStep)
  /\ \A c \in Clients : SF_vars(Disconnect(c) /\ ~reused)

-----------------------------------------------------------------------------
(* Properties.                                                             *)

TypeOK ==
  /\ index \in [BlockNumbers -> IndexValues]
  /\ store \in [BlockNumbers -> 0 .. MaxTransactions]
  /\ \A i \in 1 .. Len(log) : /\ log[i].tid \in 1 .. MaxTransactions
                              /\ log[i].action \in LogActions
                              /\ log[i].block \in BlockNumbers \cup {0}
                              /\ log[i].oindex \in IndexValues \cup {" "}
                              /\ log[i].oldval \in 0 .. MaxTransactions
  /\ begun \in 0 .. MaxTransactions
  /\ next_tid \in 1 .. MaxTransactions + 1
  /\ epoch \in Nat /\ crashes \in 0 .. MaxCrashes
  /\ mode \in Modes /\ victim \in Clients \cup {Nobody}
  /\ committing \subseteq Clients /\ orphans \subseteq Clients
  /\ phase \in [Clients -> Phases]
  /\ tid \in [Clients -> 0 .. MaxTransactions]
  /\ seen \in [Clients -> [BlockNumbers -> IndexValues \cup {"unseen"}]]
  /\ reused \in BOOLEAN /\ stale \in SUBSET BlockNumbers
  /\ \A c \in Clients : /\ logpos[c] \in 0 .. Len(log)
                        /\ \A b \in BlockNumbers : blockmap[c][b].lock \in LockTypes \cup {"NONE"}

\* A transaction that locks a block on an outdated look can damage that block, and
\* no other: the promises below are about the blocks this never happened to.
Sound == BlockNumbers \ stale

\* Whatever has happened and whoever is in the middle of what: if everything
\* stopped now, a run of recover would leave what the transactions whose LEND is
\* in the log have written, and nothing of any other.
Recoverable == \A b \in Sound : RecoveredView(index, store, log)[b] = db[b]

\* The monitor lets a client lock a block only while the files hold what was
\* committed last: a half-written block is covered by the write lock of a
\* transaction that is still committing or still to be rolled back.
ReadersSeeCommitted ==
  mode = "serving" =>
    \A b \in Sound : TheView[b] # db[b] =>
      \E c \in Clients : InCommit(c) /\ Writing(blockmap[c][b])

\* rollback() writes only to blocks that its transaction still has write-locked:
\* no other client can have read or be about to read what it overwrites.
RollbackStaysInLocks ==
  [][mode = "rollback" =>
       \A b \in BlockNumbers : index'[b] # index[b] \/ store'[b] # store[b]
                           => Writing(blockmap[victim][b])]_vars

\* When recover has finished, the files hold what was committed, even if it was
\* killed at some write() of doRecovery and run again.
RecoveryComplete == mode = "recovered" => \A b \in Sound : TheView[b] = db[b]

\* A further recover would find nothing to do: doRecovery leaves an LABORT behind
\* everything it undid, in a log with records of several monitors too.
RecoveryMarksAll == mode = "recovered" => BrokenTransactions(log) = {}

MonitorGone == mode \in {"down", "recover", "recovered"}

\* Nothing of transaction t is left to undo, and the files hold what was committed.
UndoneOrDone(t) == /\ Unfinished(log, t) = {}
                   /\ \A b \in Sound : TheView[b] = db[b]

\* A client that dies in the middle of commit(), its LBEGIN written, is flushed,
\* whatever older transactions have left in the log: rollback() comes to an end.
\* Under the first monitor of a log it is rolled back when it is flushed; under a
\* later one an old LEND with its number can stop rollback() before its records.
\* The promise ends with the monitor, and with the first descriptor used again.
InterruptedFlushed ==
  \A c \in Clients :
    (phase[c] = "gone" /\ c \in committing /\ logpos[c] > 0)
      ~> \/ MonitorGone \/ reused
         \/ phase[c] = "idle" /\ (epoch = 1 => UndoneOrDone(tid[c]))

\* DOCUMENTATION, section 2: "Transaction Monitor detects transactions that fail
\* at any point and rolls back any committed changes".  With records of others in
\* the log and none of its own, the scan of rollback() reads the first record of
\* the log again and again.
EveryInterruptedFlushed ==
  \A c \in Clients : (phase[c] = "gone" /\ c \in committing /\ log # << >>)
                       ~> (MonitorGone \/ reused \/ phase[c] = "idle")

=============================================================================
