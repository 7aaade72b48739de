---------------------------- MODULE LogManager ----------------------------
(***************************************************************************)
(* The files of the store and what src/src/LogManager.cc and               *)
(* Transaction::commit do to them.                                         *)
(*                                                                         *)
(* A process that commits, rolls back or recovers is a sequence of write() *)
(* calls, fixed before the first of them is made: by the transaction's     *)
(* blockmap for commit(), by the log for rollback() and doRecovery().  The *)
(* operators of this module give those sequences.  A write() call is       *)
(* atomic; everything between two calls is not.                            *)
(*                                                                         *)
(* The content of a block is abstracted to the number of the transaction   *)
(* that wrote it, 0 for the initial content.                               *)
(***************************************************************************)
EXTENDS Integers, SequencesExt

CONSTANT NBLOCKS   \* blocks in the store

ASSUME NBLOCKSAssumption == NBLOCKS \in Nat \ {0}

BlockNumbers == 1 .. NBLOCKS

IndexValues == {"U", "A"}

LogActions == {"LREAD", "LWRITE", "LALLOCATE", "LABORT", "LRELEASE", "LBEGIN", "LEND"}

LockTypes == {"A_LOCK", "W_LOCK", "S_LOCK", "R_LOCK"}

-----------------------------------------------------------------------------
(* Log records and write() calls.                                          *)

\* log() without and with the arguments that describe a block.
LogRecord(t, action) ==
  [tid |-> t, action |-> action, block |-> 0, oindex |-> " ", oldval |-> 0]

BlockRecord(t, action, b, oindex, oldval) ==
  [tid |-> t, action |-> action, block |-> b, oindex |-> oindex, oldval |-> oldval]

ToLog(rec)      == [file |-> "log", rec |-> rec]
ToIndex(b, val) == [file |-> "index", block |-> b, val |-> val]
ToStore(b, val) == [file |-> "store", block |-> b, val |-> val]

\* The files after a write() call; pos is the record number logfd stands at.
\* Nobody opens the log with O_APPEND: a record may replace another.
PutIndex(index, w) == IF w.file = "index" THEN [index EXCEPT ![w.block] = w.val] ELSE index
PutStore(store, w) == IF w.file = "store" THEN [store EXCEPT ![w.block] = w.val] ELSE store

PutLog_Truncating(log, w, pos) ==
  IF w.file # "log" THEN log ELSE Append(SubSeq(log, 1, pos - 1), w.rec)

PutLog(log, w, pos) ==
  IF w.file # "log" THEN log
  ELSE IF pos > Len(log) THEN Append(log, w.rec) ELSE [log EXCEPT ![pos] = w.rec]

-----------------------------------------------------------------------------
(* Transaction::commit.                                                    *)

\* A lock entry of Transaction::blockmap, or none.
NoEntry == [lock |-> "NONE"]

Entry(lock, data, oldval, oldindex) ==
  [lock |-> lock, data |-> data, oldval |-> oldval, oldindex |-> oldindex]

\* The body of the loop over blockmap.
BlockWrites_StoreFirst(t, b, e) ==
  CASE e.lock = "A_LOCK" -> << ToLog(BlockRecord(t, "LALLOCATE", b, " ", 0)),
                               ToIndex(b, "A"), ToStore(b, e.data) >>
    [] e.lock = "W_LOCK" -> << ToStore(b, e.data),
                               ToLog(BlockRecord(t, "LWRITE", b, e.oldindex, e.oldval)) >>
    [] e.lock = "S_LOCK" -> << ToLog(BlockRecord(t, "LRELEASE", b, e.oldindex, e.oldval)),
                               ToIndex(b, "U") >>
    [] e.lock = "R_LOCK" -> << ToLog(BlockRecord(t, "LREAD", b, " ", 0)) >>
    [] e.lock = "NONE"   -> << >>

BlockWrites(t, b, e) ==
  CASE e.lock = "A_LOCK" -> << ToLog(BlockRecord(t, "LALLOCATE", b, " ", 0)),
                               ToIndex(b, "A"), ToStore(b, e.data) >>
    [] e.lock = "W_LOCK" -> << ToLog(BlockRecord(t, "LWRITE", b, e.oldindex, e.oldval)),
                               ToStore(b, e.data) >>
    [] e.lock = "S_LOCK" -> << ToLog(BlockRecord(t, "LRELEASE", b, e.oldindex, e.oldval)),
                               ToIndex(b, "U") >>
    [] e.lock = "R_LOCK" -> << ToLog(BlockRecord(t, "LREAD", b, " ", 0)) >>
    [] e.lock = "NONE"   -> << >>

CommitWrites_NoBegin(t, blockmap) ==
  FlattenSeq([b \in BlockNumbers |-> BlockWrites(t, b, blockmap[b])])
    \o << ToLog(LogRecord(t, "LEND")) >>

CommitWrites_EndFirst(t, blockmap) ==
  << ToLog(LogRecord(t, "LBEGIN")), ToLog(LogRecord(t, "LEND")) >>
    \o FlattenSeq([b \in BlockNumbers |-> BlockWrites(t, b, blockmap[b])])

CommitWrites(t, blockmap) ==
  << ToLog(LogRecord(t, "LBEGIN")) >>
    \o FlattenSeq([b \in BlockNumbers |-> BlockWrites(t, b, blockmap[b])])
    \o << ToLog(LogRecord(t, "LEND")) >>

-----------------------------------------------------------------------------
(* Undo.                                                                   *)

\* undo_rec for one record.
UndoWrites_IndexForgotten(rec) ==
  CASE rec.action = "LWRITE"    -> << ToStore(rec.block, rec.oldval) >>
    [] rec.action = "LALLOCATE" -> << ToIndex(rec.block, "U") >>
    [] OTHER                    -> << >>

UndoWrites(rec) ==
  CASE rec.action = "LWRITE"    -> << ToStore(rec.block, rec.oldval) >>
    [] rec.action = "LALLOCATE" -> << ToIndex(rec.block, "U") >>
    [] rec.action = "LRELEASE"  ->
         << ToIndex(rec.block, rec.oindex) >>
           \o IF rec.oindex = "A" THEN << ToStore(rec.block, rec.oldval) >> ELSE << >>
    [] OTHER                    -> << >>

\* undo_rec for the records at some places in the log, from the front to the back
\* and from the back to the front.
UndoAll(log, places) ==
  FlattenSeq([i \in 1 .. Len(log) |-> IF i \in places THEN UndoWrites(log[i]) ELSE << >>])

UndoBack(log, places) ==
  FlattenSeq([i \in 1 .. Len(log) |->
                LET j == Len(log) + 1 - i
                IN  IF j \in places THEN UndoWrites(log[j]) ELSE << >>])

\* Where the records of t with one of the actions are.
Places(log, t, actions) ==
  {i \in 1 .. Len(log) : log[i].tid = t /\ log[i].action \in actions}

RecordsFrom_Everybody(log, t, i) == i .. Len(log)

\* Where the records of t are, from place i on.
RecordsFrom(log, t, i) == {j \in i .. Len(log) : log[j].tid = t}

\* The backward scan of rollback() ends at the last LBEGIN or LEND of t.  If
\* the log has neither the scan reads the first record again and again.
ScanEnds(log, t) == Places(log, t, {"LBEGIN", "LEND"}) # {}
ScanStop(log, t) == Max(Places(log, t, {"LBEGIN", "LEND"}))

\* rollback(), when its scan ends.  An LEND means that there is nothing to do.
RollbackWrites(log, t) ==
  IF log[ScanStop(log, t)].action = "LEND" THEN << >>
  ELSE UndoBack(log, RecordsFrom(log, t, ScanStop(log, t)))
         \o << ToLog(LogRecord(t, "LABORT")) >>

\* bts[t] when doRecovery() has read the log: what follows the last LEND or
\* LABORT of t.
Unfinished_AbortsIgnored(log, t) ==
  RecordsFrom(log, t, Max(Places(log, t, {"LEND"}) \cup {0}) + 1)

Unfinished(log, t) ==
  RecordsFrom(log, t, Max(Places(log, t, {"LEND", "LABORT"}) \cup {0}) + 1)

\* The keys of bts.
BrokenTransactions(log) ==
  {t \in {log[i].tid : i \in 1 .. Len(log)} : Unfinished(log, t) # {}}

LastTid(log) == Max({log[i].tid : i \in 1 .. Len(log)} \cup {0})

\* doRecovery(): each broken transaction is undone and marked, in key order.
RecoveryWrites_OneMarkForAll(log) ==
  FlattenSeq([t \in 1 .. LastTid(log) |->
                IF t \in BrokenTransactions(log)
                THEN << ToLog(LogRecord(t, "LABORT")) >> ELSE << >>])
    \o FlattenSeq([t \in 1 .. LastTid(log) |-> UndoAll(log, Unfinished(log, t))])

RecoveryWrites(log) ==
  FlattenSeq([t \in 1 .. LastTid(log) |->
                IF t \in BrokenTransactions(log)
                THEN UndoAll(log, Unfinished(log, t)) \o << ToLog(LogRecord(t, "LABORT")) >>
                ELSE << >>])

-----------------------------------------------------------------------------
(* What a reader of the files sees.                                        *)

\* The content of an unallocated block means nothing.
View(index, store) ==
  [b \in BlockNumbers |-> IF index[b] = "A" THEN <<"A", store[b]>> ELSE <<"U">>]

\* A file after a run of write() calls: the last one to a block counts.
WritesTo(file, b, ws) == {i \in 1 .. Len(ws) : ws[i].file = file /\ ws[i].block = b}

After(file, now, ws) ==
  [b \in BlockNumbers |-> IF WritesTo(file, b, ws) = {} THEN now[b]
                          ELSE ws[Max(WritesTo(file, b, ws))].val]

\* The view after a run of the recover program that nothing disturbs.
RecoveredView(index, store, log) ==
  LET ws == RecoveryWrites(log)
  IN  View(After("index", index, ws), After("store", store, ws))

=============================================================================
