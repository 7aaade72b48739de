------------------------------ MODULE Monitor ------------------------------
(***************************************************************************)
(* The transaction monitor: the lock table and the transaction table that  *)
(* src/src/Monitor.cc keeps, and its request handlers.                     *)
(*                                                                         *)
(* The monitor is one thread around select(): a handler runs to its end    *)
(* before the next message is read, so a handler is one action.  A client  *)
(* library blocks in Transaction::ask_tpm between its request and the      *)
(* reply, so sending the request, handling it and receiving the reply is   *)
(* one step as well.  What remains concurrent is the order in which the    *)
(* requests, the deaths and the clock of the clients reach the monitor.    *)
(*                                                                         *)
(* A member of Clients is a client descriptor of the monitor.  A process   *)
(* that restarts its transaction opens a new connection before the monitor *)
(* need have noticed the end of the old one: it then owns two members.     *)
(***************************************************************************)
EXTENDS Naturals

CONSTANTS Clients,   \* descriptors of client connections
          Blocks,    \* block numbers
          MaxTid     \* bound: transactions the monitor starts in a behaviour

ASSUME MaxTidAssumption == MaxTid \in Nat

VARIABLES next_tid,      \* next transaction ID to assign
          transactions,  \* descriptor -> its transaction, 0 before BEGIN
          status,        \* transaction -> tstat::stat, "NONE" if not in the map
          readers,       \* block -> blockholders::readers
          writer,        \* block -> blockholders::writer, 0 for nobody
          expired,       \* transactions started more than TIMESLICE ago
          rollbacks,     \* transactions LogManager::rollback was called for
          phase,         \* descriptor -> where its client is in its protocol
          held           \* descriptor -> locks its client believes it holds

monitorVars == <<next_tid, transactions, status, readers, writer, rollbacks>>
clientVars  == <<phase, held>>
vars        == <<monitorVars, expired, clientVars>>

Tids == 1 .. MaxTid

StatusValues == {"BEGUN", "READING", "WRITING", "ALLOCATED", "RELEASING",
                 "ABORTING", "RESTARTING", "COMMITTING", "ENDED", "PREEMPTED"}

\* "off"        no connection
\* "connected"  connected, BEGIN not sent yet
\* "running"    inside Begin(T) .. End(T), free to ask for anything
\* "refused"    a lock was refused: Transaction::restart is about to be called
\* "committing" COMMIT was acknowledged, commit() writes to the files
\* "leaving"    nothing more to say: the connection will be closed
Phases == {"off", "connected", "running", "refused", "committing", "leaving"}

\* What the client's blockmap says of a block: A_LOCK, W_LOCK and S_LOCK are
\* all write locks for the monitor.
LockModes == {"none", "R", "W"}

NoLocks == [b \in Blocks |-> "none"]

Live(t)      == status[t] # "NONE"
Preempted(c) == /\ transactions[c] # 0
                /\ status[transactions[c]] = "PREEMPTED"

\* A request that passes the test at the head of process_clientrq.
Heard_AnyStatus(c, from) == phase[c] \in from

Heard(c, from) == phase[c] \in from /\ ~Preempted(c)

-----------------------------------------------------------------------------
(* Conflicts: can_read, can_write.                                         *)

\* Must the writer of b give way to t?  YOUNGER(t1, t2) is t1 > t2.
WriterYields_EvenCommitting(t, b) == t < writer[b] \/ writer[b] \in expired

WriterYields_ToYounger(t, b) ==
  /\ status[writer[b]] # "COMMITTING"
  /\ writer[b] < t \/ writer[b] \in expired

WriterYields(t, b) ==
  /\ status[writer[b]] # "COMMITTING"
  /\ t < writer[b] \/ writer[b] \in expired

CanRead(t, b) == writer[b] = 0 \/ WriterYields(t, b)

\* A reader that stops t from writing: older, inside its time slice, and not
\* committing.
ReaderStands(r, t) ==
  /\ status[r] # "COMMITTING"
  /\ r < t
  /\ r \notin expired

CanWrite(t, b) ==
  IF writer[b] # 0 THEN WriterYields(t, b)
                   ELSE \A r \in readers[b] : ~ReaderStands(r, t)

\* check_sole_reader.  On an empty list readers.front() is undefined: it reads
\* the list header, which holds the list's size (0) in the current libstdc++
\* layout and is followed by the member writer in the older one.
SoleReaderOutcomes(t, b) ==
  IF readers[b] = {} THEN {FALSE, writer[b] = t} ELSE {readers[b] = {t}}

\* The status map after victims were preempted and update_status set t to s.
\* A transaction may be among its own victims: update_status comes last.
Preempting_KeepsVictims(victims, t, s) == [status EXCEPT ![t] = s]

Preempting_RequesterLast(victims, t, s) ==
  [u \in Tids |-> IF u \in victims /\ Live(u) THEN "PREEMPTED"
                  ELSE IF u = t /\ Live(t) THEN s ELSE status[u]]

Preempting(victims, t, s) ==
  [u \in Tids |-> IF u = t /\ Live(t) THEN s
                  ELSE IF u \in victims /\ Live(u) THEN "PREEMPTED"
                  ELSE status[u]]

-----------------------------------------------------------------------------
(* Connections: the accept branch of start(), BEGIN, client_disconnect.    *)

Init ==
  /\ next_tid = 1
  /\ transactions = [c \in Clients |-> 0]
  /\ status = [t \in Tids |-> "NONE"]
  /\ readers = [b \in Blocks |-> {}]
  /\ writer = [b \in Blocks |-> 0]
  /\ expired = {}
  /\ rollbacks = {}
  /\ phase = [c \in Clients |-> "off"]
  /\ held = [c \in Clients |-> NoLocks]

Accept(c) ==
  /\ phase[c] = "off"
  /\ phase' = [phase EXCEPT ![c] = "connected"]
  /\ UNCHANGED <<monitorVars, expired, held>>

Begin(c) ==
  /\ phase[c] = "connected"
  /\ next_tid <= MaxTid
  /\ next_tid' = next_tid + 1
  /\ transactions' = [transactions EXCEPT ![c] = next_tid]
  /\ status' = [status EXCEPT ![next_tid] = "BEGUN"]
  /\ phase' = [phase EXCEPT ![c] = "running"]
  /\ UNCHANGED <<readers, writer, expired, rollbacks, held>>

\* flush_transaction: the loop over blockmap.
FlushReaders_Nobody(t) == readers

FlushReaders(t) ==
  [b \in Blocks |-> IF writer[b] = t THEN readers[b] ELSE readers[b] \ {t}]

FlushWriter_FirstBlockOnly(t) ==
  LET owned == {b \in Blocks : writer[b] = t}
  IN  IF owned = {} THEN writer ELSE [writer EXCEPT ![CHOOSE b \in owned : TRUE] = 0]

FlushWriter(t) == [b \in Blocks |-> IF writer[b] = t THEN 0 ELSE writer[b]]

\* The transactions client_disconnect has to roll back: the one of this client
\* if the monitor saw it begin to commit and not end.
Interrupted_AnyStatus(c) == {transactions[c]}

Interrupted(c) == {t \in {transactions[c]} \ {0} : status[t] = "COMMITTING"}

\* The connection closed, at any point of the client's life: it was done, or
\* it died.
Disconnect(c) ==
  LET t == transactions[c]
  IN  /\ phase[c] # "off"
      /\ rollbacks' = rollbacks \cup Interrupted(c)
      /\ readers' = IF t = 0 THEN readers ELSE FlushReaders(t)
      /\ writer' = IF t = 0 THEN writer ELSE FlushWriter(t)
      /\ status' = IF t = 0 THEN status ELSE [status EXCEPT ![t] = "NONE"]
      /\ expired' = expired \ {t}
      /\ transactions' = [transactions EXCEPT ![c] = 0]
      /\ phase' = [phase EXCEPT ![c] = "off"]
      /\ held' = [held EXCEPT ![c] = NoLocks]
      /\ UNCHANGED next_tid

\* difftime(time(NULL), started) becomes larger than TIMESLICE.
SliceExpires(t) ==
  /\ Live(t)
  /\ t \notin expired
  /\ expired' = expired \cup {t}
  /\ UNCHANGED <<monitorVars, clientVars>>

\* The monitor finds the requester PREEMPTED and answers DIE: ask_tpm aborts.
Die(c) ==
  /\ phase[c] \in {"running", "refused", "committing"}
  /\ Preempted(c)
  /\ phase' = [phase EXCEPT ![c] = "leaving"]
  /\ UNCHANGED <<monitorVars, expired, held>>

-----------------------------------------------------------------------------
(* Lock requests.                                                          *)

\* set_reader and update_status, after can_read said yes and preempted the
\* writer if there was one.
GrantRead(c, b) ==
  LET t == transactions[c]
  IN  /\ status' = Preempting({writer[b]}, t, "READING")
      /\ readers' = [readers EXCEPT ![b] = @ \cup {t}]
      /\ writer' = [writer EXCEPT ![b] = 0]
      /\ held' = [held EXCEPT ![c][b] = "R"]
      /\ UNCHANGED <<next_tid, transactions, rollbacks, phase, expired>>

\* can_write marks the writer PREEMPTED or, if there is none, every reader, and
\* then empties the list of readers.
Victims_WriterOnly(b) == {writer[b]} \ {0}

Victims(b) == IF writer[b] # 0 THEN {writer[b]} ELSE readers[b]

Evicted_Nobody(b) == {}

Evicted(b) == IF writer[b] # 0 THEN {} ELSE readers[b]

\* set_writer and update_status, once victims are preempted and the evicted
\* readers are gone.
GrantWrite(c, b, victims, evicted, s) ==
  LET t == transactions[c]
  IN  /\ status' = Preempting(victims, t, s)
      /\ readers' = [readers EXCEPT ![b] = @ \ evicted]
      /\ writer' = [writer EXCEPT ![b] = t]
      /\ held' = [held EXCEPT ![c][b] = "W"]
      /\ UNCHANGED <<next_tid, transactions, rollbacks, phase, expired>>

\* NOT_OK for a read, write or release: the library calls restart().
Refuse(c) ==
  /\ phase' = [phase EXCEPT ![c] = "refused"]
  /\ UNCHANGED <<monitorVars, expired, held>>

\* A refused allocation changes nothing: the library tries another block.  The
\* block may be one this client has a lock on: find_free_block looks at the
\* index file only, and a block can be released between is_allocated and READ.
AllocateRq(c, b) ==
  /\ Heard(c, {"running"})
  /\ IF CanWrite(transactions[c], b)
     THEN GrantWrite(c, b, Victims(b), Evicted(b), "ALLOCATED")
     ELSE UNCHANGED vars

ReadRq(c, b) ==
  /\ Heard(c, {"running"})
  /\ held[c][b] = "none"
  /\ IF CanRead(transactions[c], b) THEN GrantRead(c, b) ELSE Refuse(c)

\* The upgrade of the only reader preempts nobody.
WriteRq(c, b) ==
  /\ Heard(c, {"running"})
  /\ held[c][b] # "W"
  /\ \E sole \in SoleReaderOutcomes(transactions[c], b) :
       IF sole THEN GrantWrite(c, b, {}, {transactions[c]}, "WRITING")
       ELSE IF CanWrite(transactions[c], b)
            THEN GrantWrite(c, b, Victims(b), Evicted(b), "WRITING")
            ELSE Refuse(c)

ReleaseRq(c, b) ==
  /\ Heard(c, {"running"})
  /\ held[c][b] # "W"
  /\ IF CanWrite(transactions[c], b)
     THEN GrantWrite(c, b, Victims(b), Evicted(b), "RELEASING")
     ELSE Refuse(c)

-----------------------------------------------------------------------------
(* The end of a transaction.                                               *)

\* restart(), after a refusal or because find_free_block found no block.  The
\* locks stay: the client sleeps before it closes the connection.
RestartRq(c) ==
  /\ Heard(c, {"running", "refused"})
  /\ status' = [status EXCEPT ![transactions[c]] = "RESTARTING"]
  /\ phase' = [phase EXCEPT ![c] = "leaving"]
  /\ UNCHANGED <<next_tid, transactions, readers, writer, rollbacks, expired, held>>

\* The library aborts by dying, but the protocol has the request.
AbortRq(c) ==
  /\ Heard(c, {"running"})
  /\ status' = [status EXCEPT ![transactions[c]] = "ABORTING"]
  /\ phase' = [phase EXCEPT ![c] = "leaving"]
  /\ UNCHANGED <<next_tid, transactions, readers, writer, rollbacks, expired, held>>

CommitRq(c) ==
  /\ Heard(c, {"running"})
  /\ status' = [status EXCEPT ![transactions[c]] = "COMMITTING"]
  /\ phase' = [phase EXCEPT ![c] = "committing"]
  /\ UNCHANGED <<next_tid, transactions, readers, writer, rollbacks, expired, held>>

EndRq_StaysCommitting(c) ==
  /\ Heard(c, {"committing"})
  /\ status[transactions[c]] = "COMMITTING"
  /\ phase' = [phase EXCEPT ![c] = "leaving"]
  /\ UNCHANGED <<monitorVars, expired, held>>

\* ProtocolState shows that a client heard here is COMMITTING for the monitor,
\* so the NOT_OK branches of end_rq are never taken.
EndRq(c) ==
  /\ Heard(c, {"committing"})
  /\ status[transactions[c]] = "COMMITTING"
  /\ status' = [status EXCEPT ![transactions[c]] = "ENDED"]
  /\ phase' = [phase EXCEPT ![c] = "leaving"]
  /\ UNCHANGED <<next_tid, transactions, readers, writer, rollbacks, expired, held>>

Request(c) ==
  \/ \E b \in Blocks : \/ AllocateRq(c, b)
                       \/ ReadRq(c, b)
                       \/ WriteRq(c, b)
                       \/ ReleaseRq(c, b)
  \/ RestartRq(c)
  \/ AbortRq(c)
  \/ CommitRq(c)
  \/ EndRq(c)
  \/ Die(c)

Next ==
  \/ \E c \in Clients : Accept(c) \/ Begin(c) \/ Request(c) \/ Disconnect(c)
  \/ \E t \in Tids : SliceExpires(t)

Spec == Init /\ [][Next]_vars

-----------------------------------------------------------------------------
(* Properties.                                                             *)

TypeOK ==
  /\ next_tid \in 1 .. MaxTid + 1
  /\ transactions \in [Clients -> Tids \cup {0}]
  /\ status \in [Tids -> StatusValues \cup {"NONE"}]
  /\ readers \in [Blocks -> SUBSET Tids]
  /\ writer \in [Blocks -> Tids \cup {0}]
  /\ expired \in SUBSET Tids
  /\ rollbacks \in SUBSET Tids
  /\ phase \in [Clients -> Phases]
  /\ held \in [Clients -> [Blocks -> LockModes]]

\* The three maps of the monitor agree: the transactions with a status are
\* those of connected clients, one each, and every reader and writer of a
\* block is one of them.  The branches of can_read and can_write that print
\* "You have some brain dead code in here" and exit are unreachable.
TablesAgree ==
  /\ \A t \in Tids : Live(t) <=> \E c \in Clients : transactions[c] = t
  /\ \A c, d \in Clients : transactions[c] = transactions[d] /\ c # d
                              => transactions[c] = 0
  /\ \A c \in Clients : transactions[c] < next_tid
  /\ \A b \in Blocks : /\ writer[b] # 0 => Live(writer[b])
                       /\ \A r \in readers[b] : Live(r)

\* A block has readers or a writer, never both: can_read clears the writer it
\* wins over, can_write and the upgrade clear the readers.
LocksExclude == \A b \in Blocks : writer[b] # 0 => readers[b] = {}

\* A lock that the monitor granted stands in its blockmap until the connection
\* ends or the holder is marked PREEMPTED, whatever other clients were granted
\* since: no client computes on a lock it lost without being told DIE at its
\* next request.
GrantStands ==
  \A c \in Clients, b \in Blocks :
    ~Preempted(c) =>
      /\ held[c][b] = "W" => writer[b] = transactions[c]
      /\ held[c][b] = "R" => transactions[c] \in readers[b]

\* No phantom locks: whoever blockmap names as a reader or the writer of a block
\* is a connected client that knows it holds the block in that mode, so its
\* departure will free the block.
NoPhantomLock ==
  \A b \in Blocks :
    /\ \A r \in readers[b] : \E c \in Clients : transactions[c] = r /\ held[c][b] = "R"
    /\ writer[b] # 0 => \E c \in Clients : transactions[c] = writer[b] /\ held[c][b] = "W"

\* What the monitor records of a transaction matches where its client is: one
\* that may still ask for something has a status, one that was told to commit
\* is COMMITTING or was PREEMPTED since, and none other is COMMITTING.
ProtocolState ==
  \A c \in Clients :
    /\ phase[c] \in {"off", "connected"} <=> transactions[c] = 0
    /\ transactions[c] = 0 => held[c] = NoLocks
    /\ phase[c] = "committing" =>
         status[transactions[c]] \in {"COMMITTING", "PREEMPTED"}
    /\ phase[c] # "committing" /\ transactions[c] # 0 =>
         status[transactions[c]] # "COMMITTING"

\* A preempted transaction stays preempted until its connection ends: no later
\* update_status, of its own or of another's request, brings it back to life.
PreemptionIsFinal ==
  [][\A t \in Tids : status[t] = "PREEMPTED"
                        => status'[t] \in {"PREEMPTED", "NONE"}]_vars

\* The blocks of a COMMITTING writer are taken by nobody before its connection
\* ends ("we do NOT EVER preempt committing transactions", for write locks).
CommittingWriterKeepsBlock ==
  [][\A c \in Clients, b \in Blocks :
       /\ transactions[c] # 0
       /\ writer[b] = transactions[c]
       /\ status[transactions[c]] = "COMMITTING"
       => writer'[b] = writer[b] \/ phase'[c] = "off"]_vars

\* d began before c and has not had its time slice.
Elder(d, c) == transactions[d] < transactions[c] /\ transactions[d] \notin expired

\* d has b in blockmap and in its own book, and c may not take it from d.
WriterInTheWay(d, c, b) ==
  /\ transactions[d] # 0 /\ writer[b] = transactions[d] /\ held[d][b] = "W"
  /\ status[transactions[d]] = "COMMITTING" \/ Elder(d, c)

ReaderInTheWay(d, c, b) ==
  /\ transactions[d] \in readers[b] /\ held[d][b] = "R"
  /\ status[transactions[d]] # "COMMITTING" /\ Elder(d, c)

\* Nobody waits in a circle: a transaction that asks for block b is told to
\* restart only on behalf of another client that has b at that moment, in the
\* monitor's tables and in its own belief, in a mode that conflicts with the
\* request, and that began earlier, with its time slice left, or writes b and is
\* committing, so asks for no more locks.
RefusedForAnElder ==
  [][\A c \in Clients, b \in Blocks :
       phase[c] = "running" /\ phase'[c] = "refused" =>
         /\ ReadRq(c, b) => \E d \in Clients \ {c} : WriterInTheWay(d, c, b)
         /\ WriteRq(c, b) \/ ReleaseRq(c, b) =>
              \E d \in Clients \ {c} : WriterInTheWay(d, c, b) \/ ReaderInTheWay(d, c, b)]_vars

\* LogManager::rollback is called only for a transaction whose client closed
\* its connection between the replies to COMMIT and to END: what END confirmed
\* is never rolled back, and nothing that wrote nothing is.
RollbackOnlyInterrupted ==
  [][\A t \in rollbacks' \ rollbacks :
       \E c \in Clients : /\ transactions[c] = t
                          /\ phase[c] = "committing"
                          /\ phase'[c] = "off"]_vars

\* The monitor implements the lock service: a client believes the locks it was
\* granted, and is doomed once its transaction is PREEMPTED.
Lock == INSTANCE LockService
          WITH lock <- held,
               doomed <- {c \in Clients : Preempted(c)},
               committing <- {c \in Clients : phase[c] = "committing"}

LockServiceSpec == Lock!Spec

\* Two clients never believe in conflicting locks on a block unless one of them
\* is preempted, so will be told DIE instead of OK when it asks to commit: what a
\* transaction that commits has read was not overwritten meanwhile.
Isolated == Lock!Isolation

\* DOCUMENTATION, section 3d: "If the process fails in the middle of a commit(),
\* the TM detects this event, and sees that the transaction was in COMMITTING
\* state.  So it will command the LogManager to rollback".  The loop of can_write
\* that preempts the readers does not look at their status, so a client that dies
\* while it commits need not be COMMITTING for the monitor.
InterruptedCommitsRolledBack ==
  [][\A c \in Clients : phase[c] = "committing" /\ phase'[c] = "off"
                          => transactions[c] \in rollbacks']_vars

=============================================================================
