---------------------------- MODULE Transaction ----------------------------
(***************************************************************************)
(* The client library: the class Transaction of src/src/Transaction.cc and *)
(* the macros Begin(T) and End(T) around it.                               *)
(*                                                                         *)
(* A process runs one transaction after another, each of them one or, with *)
(* restarts, several Transaction objects.  A step is what the library does *)
(* between two points where others can act: a read of the index, a request *)
(* and its reply, a read of the store, a write() of commit().  The monitor *)
(* may give any reply to any request here; its own rules are composed with *)
(* this module in SystemT.                                                 *)
(*                                                                         *)
(* The content of a block is a member of Values.  The log is left out, it  *)
(* is in CommitRecovery.                                                   *)
(***************************************************************************)
EXTENDS LogManager

CONSTANTS Procs,             \* client processes
          Values, Zeros,     \* contents of a block; of a newly allocated one
          MAXTIMEOUT,        \* the longest sleep before a restart
          MaxTransactions,   \* bound: transactions of a process
          MaxOps             \* bound: operations of a transaction

ASSUME ConstantsAssumption ==
  /\ Zeros \in Values
  /\ MAXTIMEOUT \in Nat /\ MaxTransactions \in Nat /\ MaxOps \in Nat

VARIABLES index, store,      \* dataindex.ix, datastore.db
          pc,                \* process -> the point it stands at
          blk, newval,       \* the arguments of its operation
          blockmap,          \* Transaction::blockmap
          error_occured,     \* Transaction::error_occured
          thrown,            \* the exception in flight
          last_free_block,   \* Transaction::last_free_block, static
          last_sleep,        \* Transaction::last_sleep, static
          todo,              \* write() calls commit() has left
          begun, ops         \* transactions of the process, operations of the transaction

files   == <<index, store>>
object  == <<blockmap, error_occured, thrown>>
statics == <<last_free_block, last_sleep>>
bounds  == <<begun, ops>>
vars    == <<files, pc, blk, newval, object, statics, todo, bounds>>

Replies == {"OK", "NOT_OK", "DIE"}

\* "idle"                        between two transactions
\* "connect", "begin"            in the constructor: about to connect; to send BEGIN
\* "body"                        between Begin(T) and End(T), in no operation
\* "probe"                       find_free_block is about to read a byte of the index
\* "allocate", "read", "write", "release", "restart"
\*                               about to send that request
\* "readGranted", "writeGranted", "releaseGranted"
\*                               about to read the block from the store
\* "destroy"                     an exception was thrown, the destructor is next
\* "commit"                      the same, and the flag is not set: it will commit
\* "writing"                     in commit(), COMMIT was acknowledged
\* "close"                       the destructor is past commit()
\* "exited"                      exit(1), or killed by the runtime
Points == {"idle", "connect", "begin", "body", "probe", "allocate", "read", "write", "release",
           "restart", "readGranted", "writeGranted", "releaseGranted", "destroy", "commit",
           "writing", "close", "exited"}

Committing == {"commit", "writing", "close"}

NULL == "NULL"
ASSUME NullAssumption == NULL \notin Values

EmptyMap == [b \in BlockNumbers |-> NoEntry]

Owned_NotReleased(e) == e.lock \in {"A_LOCK", "W_LOCK"}

Owned(e) == e.lock \in {"A_LOCK", "W_LOCK", "S_LOCK"}

\* The buffer of an R_LOCK entry was deleted: data is NULL, oldval still points
\* to it.
Dangling(e) == e.lock = "R_LOCK" /\ e.data = NULL

Goto(p, point) == pc' = [pc EXCEPT ![p] = point]

SetEntry(p, b, e) == blockmap' = [blockmap EXCEPT ![p][b] = e]

\* is_allocated; what it reads may have changed when the lock is granted.
IsAllocated(b) == index[b] = "A"

\* throw TE_...: the destructor runs next, and commits unless the flag is set.
Throw(p, exception, flag) ==
  /\ thrown' = [thrown EXCEPT ![p] = exception]
  /\ error_occured' = [error_occured EXCEPT ![p] = flag]
  /\ Goto(p, IF flag THEN "destroy" ELSE "commit")

Abort_FlagForgotten(p) == Throw(p, "TE_ABORT", error_occured[p])

\* Transaction::abort.
Abort(p) == Throw(p, "TE_ABORT", TRUE)

-----------------------------------------------------------------------------
(* Begin(T): the constructor.                                              *)

\* The store was initialized and used by earlier transactions.
Init ==
  /\ index \in [BlockNumbers -> IndexValues]
  /\ store = [b \in BlockNumbers |-> Zeros]
  /\ pc = [p \in Procs |-> "idle"]
  /\ blk = [p \in Procs |-> 0]
  /\ newval = [p \in Procs |-> Zeros]
  /\ blockmap = [p \in Procs |-> EmptyMap]
  /\ error_occured = [p \in Procs |-> FALSE]
  /\ thrown = [p \in Procs |-> "none"]
  /\ last_free_block = [p \in Procs |-> 0]
  /\ last_sleep = [p \in Procs |-> 0]
  /\ todo = [p \in Procs |-> {}]
  /\ begun = [p \in Procs |-> 0]
  /\ ops = [p \in Procs |-> 0]

\* The process comes to another Begin(T), or goes back to this one.
Connect(p) ==
  /\ \/ /\ pc[p] = "idle" /\ begun[p] < MaxTransactions
        /\ begun' = [begun EXCEPT ![p] = @ + 1]
     \/ /\ pc[p] = "connect"
        /\ UNCHANGED begun
  /\ blockmap' = [blockmap EXCEPT ![p] = EmptyMap]
  /\ error_occured' = [error_occured EXCEPT ![p] = FALSE]
  /\ thrown' = [thrown EXCEPT ![p] = "none"]
  /\ last_free_block' = [last_free_block EXCEPT ![p] = 0]
  /\ ops' = [ops EXCEPT ![p] = 0]
  /\ Goto(p, "begin")
  /\ UNCHANGED <<files, blk, newval, last_sleep, todo>>

\* No destructor runs for an object whose constructor fails.
AskBegin(p, reply) ==
  /\ pc[p] = "begin"
  /\ Goto(p, IF reply = "OK" THEN "body" ELSE "exited")
  /\ UNCHANGED <<files, blk, newval, object, statics, todo, bounds>>

-----------------------------------------------------------------------------
(* The operations, up to their request.                                    *)

\* The program calls another operation.
Calls(p) ==
  /\ pc[p] = "body" /\ ops[p] < MaxOps
  /\ ops' = [ops EXCEPT ![p] = @ + 1]
  /\ UNCHANGED <<files, last_sleep, todo, begun>>

\* A request for b, or abort() if it is not allocated.
RequestOrAbort(p, b, request) ==
  IF IsAllocated(b) THEN Goto(p, request) /\ UNCHANGED <<error_occured, thrown>>
                    ELSE Abort(p)

StayInBody == UNCHANGED <<pc, error_occured, thrown>>

\* read(), write() and release() of a block number <= 0 throw without abort().
InvalidBlock(p) ==
  /\ Calls(p)
  /\ blk' = [blk EXCEPT ![p] = 0]
  /\ Throw(p, "TE_ABORT", error_occured[p])
  /\ UNCHANGED <<newval, blockmap, last_free_block>>

Read(p, b) ==
  /\ Calls(p)
  /\ blk' = [blk EXCEPT ![p] = b]
  /\ LET e == blockmap[p][b]
     IN  IF e.lock = "S_LOCK" THEN Abort(p)
         ELSE IF e # NoEntry THEN StayInBody
         ELSE RequestOrAbort(p, b, "read")
  /\ UNCHANGED <<newval, blockmap, last_free_block>>

\* write() and release() delete the buffer of an R_LOCK entry first of all.
DropReadBuffer(p, b) == [blockmap EXCEPT ![p][b].data = NULL]

Write(p, b, v) ==
  /\ Calls(p)
  /\ blk' = [blk EXCEPT ![p] = b]
  /\ newval' = [newval EXCEPT ![p] = v]
  /\ LET e == blockmap[p][b]
     IN  CASE e.lock = "S_LOCK" -> Abort(p) /\ UNCHANGED blockmap
           [] e.lock \in {"A_LOCK", "W_LOCK"} ->
                StayInBody /\ SetEntry(p, b, [e EXCEPT !.data = v])
           [] OTHER ->
                /\ RequestOrAbort(p, b, "write")
                /\ blockmap' = IF e = NoEntry THEN blockmap ELSE DropReadBuffer(p, b)
  /\ UNCHANGED last_free_block

Release(p, b) ==
  /\ Calls(p)
  /\ blk' = [blk EXCEPT ![p] = b]
  /\ LET e == blockmap[p][b]
     IN  IF Owned(e) THEN StayInBody /\ SetEntry(p, b, [e EXCEPT !.lock = "S_LOCK"])
         ELSE /\ RequestOrAbort(p, b, "release")
              /\ blockmap' = IF e = NoEntry THEN blockmap ELSE DropReadBuffer(p, b)
  /\ UNCHANGED <<newval, last_free_block>>

\* find_free_block goes on behind the last block it looked at.
NextFreeBlock_SameAgain(p) == last_free_block' = [last_free_block EXCEPT ![p] = IF @ = 0 THEN 1 ELSE @]

NextFreeBlock_SkipsOne(p) == last_free_block' = [last_free_block EXCEPT ![p] = @ + 2]

NextFreeBlock(p) == last_free_block' = [last_free_block EXCEPT ![p] = @ + 1]

Allocate(p) ==
  /\ Calls(p)
  /\ NextFreeBlock(p)
  /\ Goto(p, "probe")
  /\ UNCHANGED <<blk, newval, object>>

\* One turn of find_free_block's loop.
Probe(p) ==
  LET b == last_free_block[p]
  IN  /\ pc[p] = "probe"
      /\ IF b > NBLOCKS THEN Goto(p, "restart") /\ UNCHANGED last_free_block
         ELSE IF index[b] = "U" THEN Goto(p, "allocate") /\ UNCHANGED last_free_block
         ELSE NextFreeBlock(p) /\ UNCHANGED pc
      /\ UNCHANGED <<files, blk, newval, object, last_sleep, todo, bounds>>

\* The program calls T.abort().
UserAbort(p) ==
  /\ Calls(p)
  /\ Abort(p)
  /\ UNCHANGED <<blk, newval, blockmap, last_free_block>>

-----------------------------------------------------------------------------
(* The requests and their replies: ask_tpm and what follows it.            *)

Granted_ReplyIgnored(p, request, reply, next) ==
  /\ pc[p] = request
  /\ IF reply = "DIE" THEN Abort(p) ELSE Goto(p, next) /\ UNCHANGED <<error_occured, thrown>>
  /\ UNCHANGED <<files, blk, newval, blockmap, statics, todo, bounds>>

\* A reply that makes ask_tpm return false, or abort if it is DIE.
Granted(p, request, reply, next) ==
  /\ pc[p] = request
  /\ CASE reply = "OK"     -> Goto(p, next) /\ UNCHANGED <<error_occured, thrown>>
       [] reply = "NOT_OK" -> Goto(p, "restart") /\ UNCHANGED <<error_occured, thrown>>
       [] reply = "DIE"    -> Abort(p)
  /\ UNCHANGED <<files, blk, newval, blockmap, statics, todo, bounds>>

AskRead(p, reply)    == Granted(p, "read", reply, "readGranted")
AskWrite(p, reply)   == Granted(p, "write", reply, "writeGranted")
AskRelease(p, reply) == Granted(p, "release", reply, "releaseGranted")

\* allocate(): a refusal sends it to the next block.
AskAllocate(p, reply) ==
  /\ pc[p] = "allocate"
  /\ CASE reply = "OK" ->
            /\ SetEntry(p, last_free_block[p], Entry("A_LOCK", Zeros, Zeros, "U"))
            /\ Goto(p, "body")
            /\ UNCHANGED <<error_occured, thrown, last_free_block>>
       [] reply = "NOT_OK" ->
            NextFreeBlock(p) /\ Goto(p, "probe") /\ UNCHANGED object
       [] reply = "DIE" -> Abort(p) /\ UNCHANGED <<blockmap, last_free_block>>
  /\ UNCHANGED <<files, blk, newval, last_sleep, todo, bounds>>

\* The read from the store that follows a grant.
Fetch(p, granted, entry) ==
  /\ pc[p] = granted
  /\ SetEntry(p, blk[p], entry)
  /\ Goto(p, "body")
  /\ UNCHANGED <<files, blk, newval, error_occured, thrown, statics, todo, bounds>>

FetchRead(p) ==
  LET v == store[blk[p]] IN Fetch(p, "readGranted", Entry("R_LOCK", v, v, "A"))

FetchWrite(p) ==
  Fetch(p, "writeGranted", Entry("W_LOCK", newval[p], store[blk[p]], "A"))

FetchRelease(p) ==
  LET v == store[blk[p]] IN Fetch(p, "releaseGranted", Entry("S_LOCK", v, v, "A"))

\* backoff_sleep: 1 << last_sleep seconds are more than MAXTIMEOUT.
TooLong(n) == 2 ^ n > MAXTIMEOUT

Slept_NotCounted(p) == UNCHANGED last_sleep

Slept(p) == last_sleep' = [last_sleep EXCEPT ![p] = @ + 1]

AskRestart_FlagForgotten(p, reply) ==
  /\ pc[p] = "restart"
  /\ IF reply = "OK" THEN Slept(p) ELSE UNCHANGED last_sleep
  /\ IF reply # "OK" \/ TooLong(last_sleep[p]) THEN Abort(p)
                                               ELSE Throw(p, "TE_RESTART", FALSE)
  /\ UNCHANGED <<files, blk, newval, blockmap, last_free_block, todo, bounds>>

\* restart(): the sleep is the time up to Destroy.
AskRestart(p, reply) ==
  /\ pc[p] = "restart"
  /\ IF reply = "OK" THEN Slept(p) ELSE UNCHANGED last_sleep
  /\ IF reply # "OK" \/ TooLong(last_sleep[p]) THEN Abort(p)
                                               ELSE Throw(p, "TE_RESTART", TRUE)
  /\ UNCHANGED <<files, blk, newval, blockmap, last_free_block, todo, bounds>>

-----------------------------------------------------------------------------
(* End(T): the destructor, commit().                                       *)

\* An exception that leaves the destructor ends the process: End(T) catches it, or
\* the runtime terminates because another one is in flight already.
DestructorThrows(p) == thrown' = [thrown EXCEPT ![p] = "TE_ABORT"] /\ Goto(p, "exited")

\* The write() calls of commit() but those to the log.
FileWrites(entries) ==
  {w \in UNION {Range(BlockWrites(0, b, entries[b])) : b \in BlockNumbers} : w.file # "log"}

\* The loop over blockmap goes from block to block; a block is marked allocated before
\* it is written.
IsFirst(w, writes) ==
  \A other \in writes \ {w} :
    w.block < other.block \/ (w.block = other.block /\ w.file = "index")

\* The block of the program ends, or an exception ends it that set no flag.
AskCommit(p, reply) ==
  /\ pc[p] \in {"body", "commit"}
  /\ IF reply = "OK"
     THEN /\ todo' = [todo EXCEPT ![p] = FileWrites(blockmap[p])]
          /\ Goto(p, "writing")
          /\ UNCHANGED <<error_occured, thrown>>
     ELSE /\ error_occured' = [error_occured EXCEPT ![p] = TRUE]
          /\ DestructorThrows(p)
          /\ UNCHANGED todo
  /\ UNCHANGED <<files, blk, newval, blockmap, statics, bounds>>

CommitWrite(p) ==
  /\ pc[p] = "writing"
  /\ \E w \in todo[p] :
       /\ IsFirst(w, todo[p])
       /\ index' = PutIndex(index, w)
       /\ store' = PutStore(store, w)
       /\ todo' = [todo EXCEPT ![p] = @ \ {w}]
  /\ UNCHANGED <<pc, blk, newval, object, statics, bounds>>

\* END: a refusal throws, DIE aborts.  The files are written by now.
AskEnd(p, reply) ==
  /\ pc[p] = "writing" /\ todo[p] = {}
  /\ IF reply = "OK" THEN Goto(p, "close") /\ UNCHANGED thrown
                     ELSE DestructorThrows(p)
  /\ error_occured' = [error_occured EXCEPT ![p] = @ \/ reply = "DIE"]
  /\ UNCHANGED <<files, blk, newval, blockmap, statics, todo, bounds>>

\* The rest of the destructor, and the catch of End(T).  A dangling buffer is
\* deleted a second time: the allocator notices and kills the process, or it does
\* not.
Destroy(p) ==
  /\ pc[p] \in {"destroy", "close"}
  /\ \/ Goto(p, CASE thrown[p] = "none"       -> "idle"
                  [] thrown[p] = "TE_ABORT"   -> "exited"
                  [] thrown[p] = "TE_RESTART" -> "connect")
     \/ /\ \E b \in BlockNumbers : Dangling(blockmap[p][b])
        /\ Goto(p, "exited")
  /\ blockmap' = [blockmap EXCEPT ![p] = EmptyMap]
  /\ UNCHANGED <<files, blk, newval, error_occured, thrown, statics, todo, bounds>>

-----------------------------------------------------------------------------
Ask(p, reply) ==
  \/ AskBegin(p, reply)   \/ AskAllocate(p, reply) \/ AskRead(p, reply)
  \/ AskWrite(p, reply)   \/ AskRelease(p, reply)  \/ AskRestart(p, reply)
  \/ AskCommit(p, reply)  \/ AskEnd(p, reply)

Operation(p) ==
  \/ Allocate(p) \/ UserAbort(p) \/ InvalidBlock(p)
  \/ \E b \in BlockNumbers : \/ Read(p, b) \/ Release(p, b)
                             \/ \E v \in Values : Write(p, b, v)

Step(p) ==
  \/ Connect(p) \/ Operation(p) \/ Probe(p)
  \/ FetchRead(p) \/ FetchWrite(p) \/ FetchRelease(p)
  \/ CommitWrite(p) \/ Destroy(p)
  \/ \E reply \in Replies : Ask(p, reply)

\* A process outside Procs, or a rollback, writes to the files.
Elsewhere ==
  /\ \E b \in BlockNumbers :
       \/ /\ \E i \in IndexValues : index' = [index EXCEPT ![b] = i]
          /\ UNCHANGED store
       \/ /\ \E v \in Values : store' = [store EXCEPT ![b] = v]
          /\ UNCHANGED index
  /\ UNCHANGED <<pc, blk, newval, object, statics, todo, bounds>>

Next == Elsewhere \/ \E p \in Procs : Step(p)

Spec == Init /\ [][Next]_vars

\* The program goes on, and the monitor answers (EventLoop).
FairSpec == Spec /\ \A p \in Procs : WF_vars(Step(p))

-----------------------------------------------------------------------------
(* Properties.                                                             *)

FileWrite == [file : {"index"}, block : BlockNumbers, val : IndexValues]
               \cup [file : {"store"}, block : BlockNumbers, val : Values]

Entries == {NoEntry} \cup [lock : LockTypes, data : Values \cup {NULL},
                           oldval : Values, oldindex : IndexValues]

TypeOK ==
  /\ index \in [BlockNumbers -> IndexValues]
  /\ store \in [BlockNumbers -> Values]
  /\ pc \in [Procs -> Points]
  /\ blk \in [Procs -> BlockNumbers \cup {0}]
  /\ newval \in [Procs -> Values]
  /\ blockmap \in [Procs -> [BlockNumbers -> Entries]]
  /\ error_occured \in [Procs -> BOOLEAN]
  /\ thrown \in [Procs -> {"none", "TE_ABORT", "TE_RESTART"}]
  /\ last_free_block \in [Procs -> 0 .. NBLOCKS + 1]
  /\ last_sleep \in [Procs -> Nat]
  /\ todo \in [Procs -> SUBSET FileWrite]
  /\ begun \in [Procs -> 0 .. MaxTransactions]
  /\ ops \in [Procs -> 0 .. MaxOps]

\* The destructor of a transaction that an exception ends does not commit it, but
\* for an exception that is thrown without abort(): that of a block number <= 0.
ThrownDoesNotCommit ==
  \A p \in Procs : thrown[p] # "none" /\ pc[p] \in Committing => blk[p] = 0

\* Only the block whose upgrade is being asked for, or was refused, has a dangling
\* buffer, and commit() never meets one: what it writes, logs and frees is alive.
BuffersLive ==
  \A p \in Procs, b \in BlockNumbers :
    Dangling(blockmap[p][b]) =>
      /\ b = blk[p]
      /\ pc[p] \in {"write", "release", "writeGranted", "releaseGranted", "restart", "destroy"}

\* allocate() never hands out a block twice to one transaction, released again or
\* not, and asks for blocks of the store only: find_free_block does not return
\* when it has passed the last one.
AllocateFresh ==
  \A p \in Procs :
    pc[p] = "allocate" => /\ last_free_block[p] \in BlockNumbers
                          /\ blockmap[p][last_free_block[p]] # NoEntry =>
                               blockmap[p][last_free_block[p]].oldindex = "A"

\* A process does not retry for ever, however often it is refused: its program ends,
\* or its patience does.  The patience is the process's, not the transaction's.
EveryProcessEnds ==
  \A p \in Procs : <>[](pc[p] = "exited" \/ (pc[p] = "idle" /\ begun[p] = MaxTransactions))

=============================================================================
