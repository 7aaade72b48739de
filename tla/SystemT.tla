------------------------------ MODULE SystemT ------------------------------
(***************************************************************************)
(* The monitor and the client library together, over the files: every      *)
(* request of the library (Transaction) is a step of the monitor (Monitor) *)
(* as well, which determines the reply.                                    *)
(*                                                                         *)
(* Programs pass block numbers of the store and are not killed while they  *)
(* commit; what happens if they are is in CommitRecovery.                  *)
(***************************************************************************)
EXTENDS Monitor

CONSTANTS NBLOCKS, Procs, Values, Zeros, MAXTIMEOUT, MaxTransactions, MaxOps,
          Allocated   \* the blocks that earlier transactions have allocated

ASSUME BlocksAssumption == NBLOCKS \in Nat \ {0} /\ Blocks = 1 .. NBLOCKS

NoConnection == "none"
ASSUME NoConnectionAssumption == NoConnection \notin Clients

VARIABLES index, store, pc, blk, newval, blockmap, error_occured, thrown,
          last_free_block, last_sleep, todo, begun, ops,   \* see Transaction
          conn,       \* process -> the monitor's descriptor for its connection
          blemishes   \* history: what has gone wrong so far

Lib == INSTANCE Transaction

\* What Transaction assumes of its constants.
ASSUME LibraryAssumption ==
  /\ Zeros \in Values /\ Lib!NULL \notin Values
  /\ MAXTIMEOUT \in Nat /\ MaxTransactions \in Nat /\ MaxOps \in Nat

libVars == <<index, store, pc, blk, newval, blockmap, error_occured, thrown,
             last_free_block, last_sleep, todo, begun, ops>>
sysVars == <<vars, libVars, conn, blemishes>>

\* "stale"      a lock was granted on a block that changed hands between the look
\*              at the index and the request: allocated twice, or read, written or
\*              released without being allocated
\* "preempted"  a transaction was preempted while it was committing
Blemishes == {"stale", "preempted"}

-----------------------------------------------------------------------------
SysInit ==
  /\ Init /\ Lib!Init
  /\ index = [b \in Blocks |-> IF b \in Allocated THEN "A" ELSE "U"]
  /\ conn = [p \in Procs |-> NoConnection]
  /\ blemishes = {}

\* The lock p asked for is granted, in this step, although the index has changed.
StaleGrant(p, b, expected, reply) ==
  IF reply = "OK" /\ index[b] # expected THEN {"stale"} ELSE {}

\* Somebody loses a lock, in this step, while it is committing.
CommitterPreempted ==
  IF \E c \in Clients : phase[c] = "committing" /\ ~Preempted(c) /\ Preempted(c)'
  THEN {"preempted"} ELSE {}

\* The process hung up, or it is gone and the kernel did.
HangUp(p) == conn' = [conn EXCEPT ![p] = NoConnection]

Connect(p) ==
  /\ Lib!Connect(p)
  /\ \E c \in Clients : Accept(c) /\ conn' = [conn EXCEPT ![p] = c]
  /\ UNCHANGED blemishes

\* The reply to a request for a lock that sets the client back if it is refused.
Verdict(c) == IF phase'[c] = "refused" THEN "NOT_OK" ELSE "OK"

AllocateVerdict(c, b) == IF CanWrite(transactions[c], b) THEN "OK" ELSE "NOT_OK"

AskForLock(p) ==
  LET c == conn[p]
      b == blk[p]
      n == last_free_block[p]
  IN  /\ c # NoConnection
      /\ \/ /\ pc[p] = "read" /\ ReadRq(c, b)
            /\ Lib!AskRead(p, Verdict(c))
            /\ blemishes' = blemishes \cup StaleGrant(p, b, "A", Verdict(c))
                                      \cup CommitterPreempted
         \/ /\ pc[p] = "write" /\ WriteRq(c, b)
            /\ Lib!AskWrite(p, Verdict(c))
            /\ blemishes' = blemishes \cup StaleGrant(p, b, "A", Verdict(c))
                                      \cup CommitterPreempted
         \/ /\ pc[p] = "release" /\ ReleaseRq(c, b)
            /\ Lib!AskRelease(p, Verdict(c))
            /\ blemishes' = blemishes \cup StaleGrant(p, b, "A", Verdict(c))
                                      \cup CommitterPreempted
         \/ /\ pc[p] = "allocate" /\ AllocateRq(c, n)
            /\ Lib!AskAllocate(p, AllocateVerdict(c, n))
            /\ blemishes' = blemishes \cup StaleGrant(p, n, "U", AllocateVerdict(c, n))
                                      \cup CommitterPreempted
      /\ UNCHANGED conn

\* The requests that the monitor grants to whoever is not preempted.
AskOther(p) ==
  LET c == conn[p]
  IN  /\ c # NoConnection
      /\ \/ Begin(c)     /\ Lib!AskBegin(p, "OK")
         \/ RestartRq(c) /\ Lib!AskRestart(p, "OK")
         \/ CommitRq(c)  /\ Lib!AskCommit(p, "OK")
         \/ EndRq(c)     /\ Lib!AskEnd(p, "OK")
      /\ UNCHANGED <<conn, blemishes>>

\* The process learns with its next request that it was preempted.
AskInVain(p) ==
  /\ conn[p] # NoConnection
  /\ Die(conn[p]) /\ Lib!Ask(p, "DIE")
  /\ IF pc'[p] = "exited" THEN HangUp(p) ELSE UNCHANGED conn
  /\ UNCHANGED blemishes

\* What the library does without the monitor.
Alone(p) ==
  /\ \/ Lib!Allocate(p) \/ Lib!UserAbort(p) \/ Lib!Probe(p)
     \/ \E b \in Blocks : \/ Lib!Read(p, b) \/ Lib!Release(p, b)
                          \/ \E v \in Values \ {Zeros} : Lib!Write(p, b, v)
     \/ Lib!FetchRead(p) \/ Lib!FetchWrite(p) \/ Lib!FetchRelease(p)
     \/ Lib!CommitWrite(p)
  /\ UNCHANGED <<vars, conn, blemishes>>

Destroy(p) ==
  /\ Lib!Destroy(p)
  /\ HangUp(p)
  /\ UNCHANGED <<vars, blemishes>>

Process(p) ==
  Connect(p) \/ AskForLock(p) \/ AskOther(p) \/ AskInVain(p) \/ Alone(p) \/ Destroy(p)

\* The monitor reads the end of a connection.
SysDisconnect(c) ==
  /\ \A p \in Procs : conn[p] # c
  /\ Disconnect(c)
  /\ UNCHANGED <<libVars, conn, blemishes>>

\* That a time slice ran out shows only in one who has a lock to lose.
HasLockToLose(t) ==
  /\ status[t] \notin {"PREEMPTED", "COMMITTING"}
  /\ \E b \in Blocks : t \in readers[b] \cup {writer[b]}

Clock ==
  /\ \E t \in Tids : HasLockToLose(t) /\ SliceExpires(t)
  /\ UNCHANGED <<libVars, conn, blemishes>>

SysNext ==
  \/ \E p \in Procs : Process(p)
  \/ \E c \in Clients : SysDisconnect(c)
  \/ Clock

SysSpec == SysInit /\ [][SysNext]_sysVars

-----------------------------------------------------------------------------
(* The atomic store behind the files.                                      *)

\* The files once the commits in progress have written what they have left: no two
\* of them write to the same block, unless a committer was preempted.
Pending(file, b) ==
  {w \in UNION {todo[p] : p \in Procs} : w.file = file /\ w.block = b}

Settled(file, b, now) ==
  IF Pending(file, b) = {} THEN now ELSE (CHOOSE w \in Pending(file, b) : TRUE).val

SettledView == [b \in Blocks |-> IF Settled("index", b, index[b]) = "A"
                                 THEN <<"A", Settled("store", b, store[b])>> ELSE <<"U">>]

\* What a transaction knows of b, and what it makes of it, by its entry.
Seen(e) == IF e = Lib!NoEntry THEN <<>>
           ELSE IF e.oldindex = "U" THEN <<"U">> ELSE <<"A", e.oldval>>

Wrote(e) == IF e = Lib!NoEntry \/ e.lock = "R_LOCK" THEN <<>>
            ELSE IF e.lock = "S_LOCK" THEN <<"U">> ELSE <<"A", e.data>>

Stage(p) == CASE pc[p] \in {"writing", "close"} -> "committed"
              [] pc[p] = "exited" -> "failed"
              [] OTHER -> "running"

Atomic == INSTANCE AtomicStore
            WITH db <- SettledView,
                 seen <- [p \in Procs |-> [b \in Blocks |-> Seen(blockmap[p][b])]],
                 wrote <- [p \in Procs |-> [b \in Blocks |-> Wrote(blockmap[p][b])]],
                 stage <- [p \in Procs |-> Stage(p)]

-----------------------------------------------------------------------------
(* Properties.                                                             *)

\* The library never asks for what the monitor does not expect of it, as it may
\* only do if what it believes agrees with what it was granted: it has an entry in
\* its blockmap exactly for the locks that were granted to it.
InProtocol ==
  \A p \in Procs :
    LET c == conn[p] IN
    c # NoConnection =>
      /\ pc[p] = "begin" <=> phase[c] = "connected"
      /\ pc[p] \in {"body", "read", "write", "release", "allocate"} => phase[c] = "running"
      /\ pc[p] = "restart" => phase[c] \in {"running", "refused"}
      /\ pc[p] = "writing" => phase[c] = "committing"
      /\ pc[p] = "read" => held[c][blk[p]] = "none"
      /\ pc[p] \in {"write", "release"} => held[c][blk[p]] # "W"

\* A process works on the copies of blocks only while they are locked for it, in
\* the mode the copy is for, unless it was preempted and is yet to hear of it.
EntriesLocked ==
  \A p \in Procs, b \in Blocks :
    LET c == conn[p]
        e == blockmap[p][b]
    IN  c # NoConnection /\ ~Preempted(c) /\ e # Lib!NoEntry =>
          IF Lib!Owned(e) THEN writer[b] = transactions[c]
          ELSE transactions[c] \in readers[b] \cup {writer[b]}

\* Transactions are atomic and isolated, and their processes are told the truth
\* about them, up to the first lock that is granted on the strength of an outdated
\* index or that is taken from a committing transaction.
AtomicUnlessBlemished ==
  /\ Atomic!Init
  /\ [][blemishes' # {} \/ Atomic!Next \/ UNCHANGED Atomic!vars]_sysVars

\* DOCUMENTATION:169: "find_free_block ... finds the first block that is marked by a
\* 'U'"; another transaction that was granted the same block makes the monitor say
\* NOT_OK.  A block that a transaction commits as its own newly allocated one is not
\* allocated already.
AllocatesFreeBlocks ==
  [][\A p \in Procs, b \in Blocks :
       Stage(p) = "running" /\ Stage(p)' = "committed" /\ blockmap[p][b].lock = "A_LOCK"
         => SettledView[b] = <<"U">>]_sysVars

=============================================================================
