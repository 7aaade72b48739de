------------------------ MODULE CommitRecoveryProofs ------------------------
(***************************************************************************)
(* Theorems about CommitRecovery, for every number of clients, blocks,     *)
(* transactions and deaths.                                                *)
(*                                                                         *)
(* The invariant IInv says what the files, the log and the write() calls   *)
(* that are still to come have to do with each other.  Its heart is        *)
(* Undoable: a block that does not hold what was committed has a record in *)
(* the log that no LEND or LABORT of its transaction follows, and such a   *)
(* record restores what was committed.  The rest is there because of it:   *)
(* Trace and Todo, that a data write of commit() has its record in the log *)
(* already; UndoJob, that an LABORT is written only when everything that   *)
(* it covers is undone; EntriesTrue and NoConflicts, that what a           *)
(* transaction has found is still what is committed when it commits.  A    *)
(* block that was locked for writing on an outdated look is in stale, and  *)
(* what is said of contents is said of the other blocks: the damage such a *)
(* transaction does stays in its block.                                    *)
(***************************************************************************)
EXTENDS CommitRecovery, LogManagerProofs

-----------------------------------------------------------------------------
(* The types of all variables.                                             *)

Types ==
  /\ index \in [BlockNumbers -> IndexValues]
  /\ store \in [BlockNumbers -> Contents(MaxTransactions)]
  /\ log \in Seq(LogRecords(MaxTransactions))
  /\ begun \in 0 .. MaxTransactions
  /\ next_tid \in 1 .. MaxTransactions + 1 /\ next_tid <= begun + 1
  /\ epoch \in Nat \ {0} /\ crashes \in 0 .. MaxCrashes
  /\ mode \in Modes
  /\ job \in Seq(FileWrites(MaxTransactions))
  /\ victim \in Clients \cup {Nobody} /\ (mode \in {"rollback", "scanning"} <=> victim # Nobody)
  /\ committing \in SUBSET Clients /\ orphans \in SUBSET Clients
  /\ phase \in [Clients -> Phases]
  /\ tid \in [Clients -> 0 .. MaxTransactions]
  /\ blockmap \in [Clients -> [BlockNumbers -> LockEntries(MaxTransactions)]]
  /\ todo \in [Clients -> Seq(FileWrites(MaxTransactions))]
  /\ logpos \in [Clients -> Nat]
  /\ db \in [BlockNumbers -> BlockViews(MaxTransactions)]
  /\ \A c \in Clients : /\ logpos[c] <= Len(log)
                        /\ phase[c] # "idle" => tid[c] # 0

-----------------------------------------------------------------------------
(* Who may be where while the operator waits.                              *)

Serving == mode \in {"serving", "rollback", "scanning"}

Operating ==
  /\ orphans # {} => mode = "down"
  /\ \A c \in orphans : phase[c] \in {"ready", "committing"}
  /\ ~ Serving => committing = {} /\ \A c \in Clients \ orphans : phase[c] = "idle"
  /\ Serving => \A c \in Clients : phase[c] = "committing" => c \in committing
  /\ mode \in {"rollback", "scanning"} => victim \in committing /\ phase[victim] = "gone"
  /\ \A c \in committing : phase[c] \in {"committing", "gone"}

\* What doRecovery() has left to do ends every transaction without an end.
Marking ==
  /\ mode = "recover" =>
       /\ \A j \in 1 .. Len(job) :
            job[j].file # "log" \/ \E t \in 1 .. MaxTransactions : job[j] = Mark(t)
       /\ \A i \in Loose(log) : \E j \in 1 .. Len(job) : job[j] = Mark(log[i].tid)
  /\ mode = "recovered" => Loose(log) = {}

-----------------------------------------------------------------------------
(* One monitor, one commit at a time.                                      *)

Numbers ==
  /\ epoch = 1 /\ next_tid = begun + 1
  /\ \A c \in Clients : tid[c] <= begun
  /\ \A i \in 1 .. Len(log) : log[i].tid <= begun
  /\ \A c, d \in Clients : c # d /\ phase[c] # "idle" /\ phase[d] # "idle" => tid[c] # tid[d]
  /\ \A c \in Clients : phase[c] \in {"begun", "ready"} =>
       logpos[c] = 0 /\ \A i \in 1 .. Len(log) : log[i].tid # tid[c]

NoConflicts ==
  \A c, d \in Clients : \A b \in BlockNumbers :
    c # d => ~ Conflicting(blockmap[c][b], blockmap[d][b])

\* What a transaction found in a block.
Found(e) == IF e.oldindex = "A" THEN <<"A", e.oldval>> ELSE <<"U">>

Unended(c) == phase[c] = "committing" /\ todo[c] # << >>

EntriesTrue ==
  \A c \in Clients : \A b \in BlockNumbers :
    LET e == blockmap[c][b] IN
    e # NoEntry =>
      /\ e.lock = "A_LOCK" => e.oldindex = "U"
      /\ e.lock = "W_LOCK" => e.oldindex = "A"
      /\ b \notin stale /\ Writing(e) /\ (phase[c] = "ready" \/ Unended(c)) => Found(e) = db[b]
      /\ b \notin stale /\ Unended(c) /\ e.lock = "W_LOCK" => index[b] = "A"

Undoable == /\ LooseRecordsRestore(index, log, db, stale)
            /\ DifferencesCovered(index, store, log, db, stale)

OneCommit ==
  /\ \A c, d \in Clients : InCommit(c) /\ InCommit(d) => c = d
  /\ \A c \in Clients : phase[c] = "committing" =>
       \A i \in Loose(log) : log[i].tid = tid[c] /\ todo[c] # << >>
  /\ Serving =>
       \A i \in Loose(log) : \E c \in Clients :
         /\ InCommit(c) /\ tid[c] = log[i].tid
         /\ log[i].action \in Undoing => Writing(blockmap[c][log[i].block])

\* The records of a transaction that is committing are at the front of the log.
Traced(c) == phase[c] = "committing" \/ (mode = "serving" /\ c \in committing)

Trace ==
  \A c \in Clients : Traced(c) =>
    /\ \A i \in 1 .. Len(log) : log[i].tid = tid[c] <=> i <= logpos[c]
    /\ \A i \in 1 .. logpos[c] :
         /\ log[i].action = "LBEGIN" <=> i = 1
         /\ log[i].action = "LEND" => i = logpos[c] /\ ~ Unended(c)
         /\ log[i].action # "LABORT"
         /\ log[i].action \in Undoing =>
              /\ Writing(blockmap[c][log[i].block])
              /\ log[i] = RecordOf(tid[c], log[i].block, blockmap[c][log[i].block])

InPlace(w) == /\ w.file = "index" => index[w.block] = w.val
              /\ w.file = "store" => store[w.block] = w.val

Logged(c, rec) == \E i \in 1 .. logpos[c] : log[i] = rec

\* What commit() has left to do: every data write is behind its record, and what
\* is not there is in place.
Planned(c, j) ==
  LET ws == todo[c]
      t  == tid[c]
  IN  \/ ws[j] = ToLog(LogRecord(t, "LBEGIN")) /\ j = 1 /\ logpos[c] = 0
      \/ ws[j] = ToLog(LogRecord(t, "LEND")) /\ j = Len(ws)
      \/ \E b \in BlockNumbers :
           LET e == blockmap[c][b] IN
           \/ ws[j] = ToLog(RecordOf(t, b, e)) /\ e # NoEntry
           \/ /\ ws[j] \in DataWrites(b, e)
              /\ \/ Logged(c, RecordOf(t, b, e))
                 \/ ToLog(RecordOf(t, b, e)) \in Before(ws, j)

Todo ==
  \A c \in Clients : Unended(c) =>
    /\ logpos[c] = 0 => todo[c][1] = ToLog(LogRecord(tid[c], "LBEGIN"))
    /\ todo[c][Len(todo[c])] = ToLog(LogRecord(tid[c], "LEND"))
    /\ \A j \in 1 .. Len(todo[c]) : Planned(c, j)
    /\ \A b \in BlockNumbers : \A w \in DataWrites(b, blockmap[c][b]) :
         InPlace(w) \/ w \in Elements(todo[c])

\* What rollback() and doRecovery() have left to do.
UndoJob ==
  /\ mode = "rollback" =>
       /\ \A i \in Loose(log) : Mark(log[i].tid) \in Elements(job)
       /\ \A w \in Elements(job) : IF w.file = "log" THEN w = Mark(tid[victim])
                                   ELSE Writing(blockmap[victim][w.block])
  /\ mode \in {"rollback", "recover"} =>
       /\ \A w \in Elements(job) : \/ w.file # "log" /\ (w.block \notin stale => Agrees(db, w))
                                   \/ \E t \in 1 .. begun : w = Mark(t)
       /\ \A i \in Loose(log) : \A j \in 1 .. Len(job) :
            job[j] = Mark(log[i].tid) =>
              \A w \in UndoSet(log[i]) :
                w.block \notin stale => InPlace(w) \/ w \in Before(job, j)

IInv == /\ Types /\ Operating /\ Marking /\ Numbers /\ NoConflicts /\ EntriesTrue
        /\ Undoable /\ OneCommit /\ Trace /\ Todo /\ UndoJob

-----------------------------------------------------------------------------
\* What a write() call has to it.
LEMMA FileWriteTypes ==
  ASSUME NEW n \in Nat, NEW w \in FileWrites(n)
  PROVE  /\ w.file \in {"log", "index", "store"}
         /\ w.file = "log" => w.rec \in LogRecords(n)
         /\ w.file = "index" => w.block \in BlockNumbers /\ w.val \in IndexValues
         /\ w.file = "store" => w.block \in BlockNumbers /\ w.val \in Contents(n)
BY DEF FileWrites

\* A typed write() keeps the types of dataindex.ix and datastore.db.
LEMMA PutTypes ==
  ASSUME NEW n \in Nat, NEW w \in FileWrites(n),
         NEW ix \in [BlockNumbers -> IndexValues], NEW st \in [BlockNumbers -> Contents(n)]
  PROVE  /\ PutIndex(ix, w) \in [BlockNumbers -> IndexValues]
         /\ PutStore(st, w) \in [BlockNumbers -> Contents(n)]
BY FileWriteTypes DEF PutIndex, PutStore

\* A record written at pos of the log, appended or over another: it is there, the others
\* are where they were.
LEMMA PutLogContent ==
  ASSUME NEW T, NEW lg \in Seq(T), NEW rec \in T, NEW w, w.file = "log", w.rec = rec,
         NEW pos \in 1 .. Len(lg) + 1
  PROVE  /\ PutLog(lg, w, pos) \in Seq(T)
         /\ Len(PutLog(lg, w, pos)) = IF pos > Len(lg) THEN pos ELSE Len(lg)
         /\ PutLog(lg, w, pos)[pos] = rec
         /\ \A i \in 1 .. Len(lg) : i # pos => PutLog(lg, w, pos)[i] = lg[i]
<1>1. CASE pos > Len(lg)
  <2>1. pos = Len(lg) + 1 /\ PutLog(lg, w, pos) = Append(lg, rec)
    BY <1>1 DEF PutLog
  <2>2. /\ Append(lg, rec) \in Seq(T) /\ Len(Append(lg, rec)) = Len(lg) + 1
        /\ Append(lg, rec)[Len(lg) + 1] = rec
        /\ \A i \in 1 .. Len(lg) : Append(lg, rec)[i] = lg[i]
    BY AppendProperties
  <2> QED
    BY <1>1, <2>1, <2>2
<1>2. CASE ~ (pos > Len(lg))
  <2>1. pos \in 1 .. Len(lg) /\ PutLog(lg, w, pos) = [lg EXCEPT ![pos] = rec]
    BY <1>2 DEF PutLog
  <2>2. /\ [lg EXCEPT ![pos] = rec] \in Seq(T) /\ Len([lg EXCEPT ![pos] = rec]) = Len(lg)
        /\ [lg EXCEPT ![pos] = rec][pos] = rec
        /\ \A i \in 1 .. Len(lg) : i # pos => [lg EXCEPT ![pos] = rec][i] = lg[i]
    BY <2>1
  <2> QED
    BY <1>2, <2>1, <2>2
<1> QED
  BY <1>1, <1>2

\* A typed write() keeps the type of datalog.log and shortens it never.
LEMMA PutLogTypes ==
  ASSUME NEW n \in Nat, NEW w \in FileWrites(n), NEW lg \in Seq(LogRecords(n)),
         NEW pos \in 1 .. Len(lg) + 1
  PROVE  /\ PutLog(lg, w, pos) \in Seq(LogRecords(n))
         /\ Len(PutLog(lg, w, pos)) \in Nat
         /\ Len(PutLog(lg, w, pos)) >= Len(lg)
         /\ w.file = "log" => Len(PutLog(lg, w, pos)) >= pos
<1>1. CASE w.file = "log"
  <2>1. w.rec \in LogRecords(n)
    BY <1>1, FileWriteTypes
  <2>2. /\ PutLog(lg, w, pos) \in Seq(LogRecords(n))
        /\ Len(PutLog(lg, w, pos)) = IF pos > Len(lg) THEN pos ELSE Len(lg)
    BY <1>1, <2>1, PutLogContent
  <2> QED
    BY <2>2
<1>2. CASE w.file # "log"
  <2>1. PutLog(lg, w, pos) = lg
    BY <1>2 DEF PutLog
  <2> QED
    BY <1>2, <2>1
<1> QED
  BY <1>1, <1>2

\* The lock entries a transaction may end up with are typed.
LEMMA EntriesAreTyped ==
  ASSUME Types, NEW n \in 0 .. MaxTransactions, NEW b \in BlockNumbers, NEW look,
         NEW e \in EntriesOf(b, look, n)
  PROVE  e \in LockEntries(MaxTransactions)
<1>1. /\ n \in Contents(MaxTransactions) /\ store[b] \in Contents(MaxTransactions)
      /\ "A" \in IndexValues /\ "U" \in IndexValues
      /\ "A_LOCK" \in LockTypes /\ "W_LOCK" \in LockTypes /\ "S_LOCK" \in LockTypes
      /\ "R_LOCK" \in LockTypes
  BY ConstantsAssumption DEF Types, Contents, IndexValues, LockTypes
<1>2. CASE look = "A"
  BY <1>1, <1>2 DEF EntriesOf, ReadEntry, WrittenEntry, ReleasedEntry, Entry, LockEntries
<1>3. CASE look = "U"
  BY <1>1, <1>3 DEF EntriesOf, AllocatedEntry, Entry, LockEntries
<1>4. CASE look \notin {"A", "U"}
  BY <1>4 DEF EntriesOf, LockEntries
<1> QED
  BY <1>2, <1>3, <1>4

\* The types hold in the beginning.
LEMMA TypesInit == Init => Types
<1> SUFFICES ASSUME Init PROVE Types
  OBVIOUS
<1>1. /\ 0 \in Contents(MaxTransactions) /\ "U" \in IndexValues
      /\ NoEntry \in LockEntries(MaxTransactions)
  BY ConstantsAssumption DEF Contents, IndexValues, LockEntries
<1>2. index \in [BlockNumbers -> IndexValues] /\ store \in [BlockNumbers -> Contents(MaxTransactions)]
  BY <1>1 DEF Init
<1>3. EmptyMap \in [BlockNumbers -> LockEntries(MaxTransactions)]
  BY <1>1 DEF EmptyMap
<1>4. /\ blockmap \in [Clients -> [BlockNumbers -> LockEntries(MaxTransactions)]]
      /\ todo \in [Clients -> Seq(FileWrites(MaxTransactions))]
      /\ tid \in [Clients -> 0 .. MaxTransactions] /\ logpos \in [Clients -> Nat]
      /\ phase \in [Clients -> Phases]
  BY <1>3, ConstantsAssumption DEF Init, Phases
<1>5. db \in [BlockNumbers -> BlockViews(MaxTransactions)]
  <2>1. db = [b \in BlockNumbers |-> IF index[b] = "A" THEN <<"A", store[b]>> ELSE <<"U">>]
    BY Zenon DEF Init, TheView, View
  <2>2. \A b \in BlockNumbers : db[b] = <<"U">>
    BY <2>1 DEF Init
  <2> QED
    BY <2>1, <2>2 DEF BlockViews
<1>6. log \in Seq(LogRecords(MaxTransactions)) /\ job \in Seq(FileWrites(MaxTransactions)) /\ Len(log) = 0
  BY DEF Init
<1> QED
  BY <1>2, <1>4, <1>5, <1>6, ConstantsAssumption DEF Init, Types, Modes

\* Every step keeps the types, that of the lock entries, the log and the jobs included.
LEMMA TypesStep == Types /\ [Next]_vars => Types'
<1> SUFFICES ASSUME Types, [Next]_vars PROVE Types'
  OBVIOUS
<1> DEFINE N == MaxTransactions
<1>0. /\ N \in Nat /\ MaxCrashes \in Nat /\ MaxEpochs \in Nat /\ Len(log) \in Nat
      /\ EmptyMap \in [BlockNumbers -> LockEntries(N)]
  BY ConstantsAssumption DEF Types, EmptyMap, LockEntries
<1>1. ASSUME NEW c \in Clients, Begin(c) PROVE Types'
  <2>1. begun < N
    BY <1>1 DEF Begin
  <2>2. begun' \in 0 .. N /\ next_tid' \in 1 .. N + 1 /\ next_tid' <= begun' + 1
        /\ next_tid \in 1 .. N /\ next_tid # 0
    <3>1. begun' = begun + 1 /\ next_tid' = next_tid + 1
      BY <1>1 DEF Begin
    <3>2. begun \in 0 .. N /\ next_tid \in 1 .. N + 1 /\ next_tid <= begun + 1
      BY DEF Types
    <3> QED
      BY <1>0, <2>1, <3>1, <3>2
  <2>3. /\ tid' \in [Clients -> 0 .. N] /\ tid'[c] = next_tid
        /\ \A d \in Clients \ {c} : tid'[d] = tid[d]
    BY <1>1, <2>2 DEF Begin, Types
  <2>4. /\ logpos' \in [Clients -> Nat] /\ logpos'[c] = 0
        /\ \A d \in Clients \ {c} : logpos'[d] = logpos[d]
    BY <1>1 DEF Begin, Types
  <2>5. /\ phase' \in [Clients -> Phases]
        /\ \A d \in Clients \ {c} : phase'[d] = phase[d]
    BY <1>1 DEF Begin, Types, Phases
  <2>6. UNCHANGED <<index, store, log, epoch, crashes, mode, job, victim, committing, orphans,
                    blockmap, todo, db>>
    BY <1>1 DEF Begin, files
  <2>7. \A d \in Clients : logpos'[d] <= Len(log') /\ (phase'[d] # "idle" => tid'[d] # 0)
    <3>1. logpos'[c] <= Len(log') /\ tid'[c] # 0
      BY <1>0, <2>2, <2>3, <2>4, <2>6
    <3>2. \A d \in Clients \ {c} : logpos'[d] <= Len(log') /\ (phase'[d] # "idle" => tid'[d] # 0)
      BY <2>3, <2>4, <2>5, <2>6 DEF Types
    <3> QED
      BY <3>1, <3>2
  <2> QED
    BY <2>2, <2>3, <2>4, <2>5, <2>6, <2>7 DEF Types
<1>17. ASSUME NEW c \in Clients, NEW b \in BlockNumbers, Look(c, b) PROVE Types'
  BY <1>17 DEF Look, files, monitor, history, Types
<1>18. ASSUME NEW c \in Clients, Lock(c) PROVE Types'
  <2>1. PICK bm \in [BlockNumbers ->
                       UNION {EntriesOf(b, seen[c][b], tid[c]) : b \in BlockNumbers}] :
          /\ \A b \in BlockNumbers : bm[b] \in EntriesOf(b, seen[c][b], tid[c])
          /\ blockmap' = [blockmap EXCEPT ![c] = bm]
    BY <1>18 DEF Lock
  <2>2. tid[c] \in 0 .. N
    BY DEF Types
  <2>3. bm \in [BlockNumbers -> LockEntries(N)]
    <3>1. \A b \in BlockNumbers : bm[b] \in LockEntries(N)
      BY <2>1, <2>2, EntriesAreTyped
    <3> QED
      BY <3>1
  <2>4. blockmap' \in [Clients -> [BlockNumbers -> LockEntries(N)]]
    BY <2>1, <2>3 DEF Types
  <2>5. /\ phase' \in [Clients -> Phases] /\ phase[c] # "idle"
        /\ \A d \in Clients \ {c} : phase'[d] = phase[d]
    BY <1>18 DEF Lock, Types, Phases
  <2>6. UNCHANGED <<index, store, log, begun, next_tid, epoch, crashes, mode, job, victim,
                    committing, orphans, tid, todo, logpos, db>>
    BY <1>18 DEF Lock, files, monitor
  <2>7. \A d \in Clients : logpos'[d] <= Len(log') /\ (phase'[d] # "idle" => tid'[d] # 0)
    BY <2>5, <2>6 DEF Types
  <2> QED
    BY <2>4, <2>5, <2>6, <2>7 DEF Types
<1>2. ASSUME NEW c \in Clients, BeginCommit(c), committing' \in SUBSET Clients PROVE Types'
  <2>1. tid[c] \in 1 .. N
    BY <1>2 DEF BeginCommit, Types
  <2>2. CommitWrites(tid[c], blockmap[c]) \in Seq(FileWrites(N))
    BY <1>0, <2>1, CommitContent DEF Types
  <2>3. todo' \in [Clients -> Seq(FileWrites(N))]
    BY <1>2, <2>2 DEF BeginCommit, Types
  <2>4. /\ phase' \in [Clients -> Phases] /\ phase[c] # "idle"
        /\ \A d \in Clients \ {c} : phase'[d] = phase[d]
    BY <1>2 DEF BeginCommit, Types, Phases
  <2>5. UNCHANGED <<index, store, log, begun, next_tid, epoch, crashes, mode, job, victim, orphans,
                    tid, blockmap, logpos, db, stale>>
    BY <1>2 DEF BeginCommit, files, history
  <2>6. \A d \in Clients : logpos'[d] <= Len(log') /\ (phase'[d] # "idle" => tid'[d] # 0)
    BY <2>4, <2>5 DEF Types
  <2> QED
    BY <1>2, <2>3, <2>4, <2>5, <2>6 DEF Types
<1>3. ASSUME NEW c \in Clients, Write(c) PROVE Types'
  <2> DEFINE w == Head(todo[c])
  <2>1. w \in FileWrites(N) /\ Tail(todo[c]) \in Seq(FileWrites(N))
    <3>1. todo[c] \in Seq(FileWrites(N)) /\ todo[c] # << >>
      BY <1>3 DEF Write, Types
    <3> QED
      BY <3>1
  <2>2. /\ index' = PutIndex(index, w) /\ store' = PutStore(store, w)
        /\ log' = PutLog(log, w, logpos[c] + 1)
        /\ logpos' = [logpos EXCEPT ![c] = @ + IF w.file = "log" THEN 1 ELSE 0]
        /\ db' = IF w.file = "log" /\ w.rec.action = "LEND"
                 THEN [b \in BlockNumbers |-> Committed(b, blockmap[c][b])] ELSE db
        /\ todo' = [todo EXCEPT ![c] = Tail(@)]
        /\ UNCHANGED <<begun, crashes, next_tid, epoch, mode, job, victim, committing, orphans,
                       phase, tid, blockmap>>
    BY <1>3 DEF Write, monitor
  <2> HIDE DEF w
  <2>3. logpos[c] \in Nat /\ logpos[c] + 1 \in 1 .. Len(log) + 1
    BY <1>0 DEF Types
  <2>4. index' \in [BlockNumbers -> IndexValues] /\ store' \in [BlockNumbers -> Contents(N)]
    BY <1>0, <2>1, <2>2, PutTypes DEF Types
  <2>5. /\ log' \in Seq(LogRecords(N)) /\ Len(log') >= Len(log) /\ Len(log') \in Nat
        /\ w.file = "log" => Len(log') >= logpos[c] + 1
    BY <1>0, <2>1, <2>2, <2>3, PutLogTypes DEF Types
  <2>6. logpos' \in [Clients -> Nat] /\ \A d \in Clients : logpos'[d] <= Len(log')
    BY <1>0, <2>2, <2>3, <2>5 DEF Types
  <2>7. db' \in [BlockNumbers -> BlockViews(N)]
    <3>1. ASSUME NEW b \in BlockNumbers PROVE Committed(b, blockmap[c][b]) \in BlockViews(N)
      <4>1. blockmap[c][b] \in LockEntries(N) /\ db[b] \in BlockViews(N)
        BY DEF Types
      <4>2. blockmap[c][b].lock \in {"A_LOCK", "W_LOCK"} => blockmap[c][b].data \in Contents(N)
        BY <4>1 DEF LockEntries, NoEntry
      <4> QED
        BY <4>1, <4>2 DEF Committed, BlockViews, Writing
    <3> QED
      BY <2>2, <3>1 DEF Types
  <2>8. todo' \in [Clients -> Seq(FileWrites(N))]
    BY <2>1, <2>2 DEF Types
  <2> QED
    BY <2>2, <2>4, <2>5, <2>6, <2>7, <2>8 DEF Types
<1>4. ASSUME NEW c \in Clients, End(c) PROVE Types'
  <2>1. committing' \in SUBSET Clients /\ orphans' \in SUBSET Clients
    BY <1>4 DEF End, Types
  <2>2. blockmap' \in [Clients -> [BlockNumbers -> LockEntries(N)]]
    BY <1>0, <1>4 DEF End, Types
  <2>3. /\ phase' \in [Clients -> Phases] /\ phase[c] # "idle"
        /\ \A d \in Clients \ {c} : phase'[d] = phase[d]
    BY <1>4 DEF End, Types, Phases
  <2>4. UNCHANGED <<index, store, log, begun, next_tid, epoch, crashes, mode, job, victim, tid,
                    todo, logpos, db, stale>>
    BY <1>4 DEF End, files, history
  <2>5. \A d \in Clients : logpos'[d] <= Len(log') /\ (phase'[d] # "idle" => tid'[d] # 0)
    BY <2>3, <2>4 DEF Types
  <2> QED
    BY <2>1, <2>2, <2>3, <2>4, <2>5 DEF Types
<1>5. ASSUME NEW c \in Clients, Leave(c) PROVE Types'
  <2>1. orphans' \in SUBSET Clients
    BY <1>5 DEF Leave, Types
  <2>2. blockmap' \in [Clients -> [BlockNumbers -> LockEntries(N)]]
    BY <1>0, <1>5 DEF Leave, Types
  <2>3. /\ phase' \in [Clients -> Phases] /\ phase[c] # "idle"
        /\ \A d \in Clients \ {c} : phase'[d] = phase[d]
    BY <1>5 DEF Leave, Types, Phases
  <2>4. todo' \in [Clients -> Seq(FileWrites(N))]
    <3>1. << >> \in Seq(FileWrites(N))
      OBVIOUS
    <3> QED
      BY <1>5, <3>1 DEF Leave, Types
  <2>5. UNCHANGED <<index, store, log, begun, next_tid, epoch, crashes, mode, job, victim,
                    committing, tid, logpos, db, stale>>
    BY <1>5 DEF Leave, files, monitor, history
  <2>6. \A d \in Clients : logpos'[d] <= Len(log') /\ (phase'[d] # "idle" => tid'[d] # 0)
    BY <2>3, <2>5 DEF Types
  <2> QED
    BY <2>1, <2>2, <2>3, <2>4, <2>5, <2>6 DEF Types
<1>6. ASSUME NEW c \in Clients, Flush(c)
      PROVE  /\ phase' \in [Clients -> Phases]
             /\ blockmap' \in [Clients -> [BlockNumbers -> LockEntries(N)]]
             /\ committing' \in SUBSET Clients
             /\ \A d \in Clients : phase'[d] # "idle" => phase[d] # "idle"
  BY <1>0, <1>6 DEF Flush, Types, Phases
<1>7. ASSUME NEW c \in Clients, Disconnect(c) PROVE Types'
  <2>1. /\ mode = "serving" /\ phase[c] = "gone"
        /\ UNCHANGED <<index, store, log, begun, next_tid, epoch, crashes, orphans, tid, todo,
                       logpos, db, stale>>
    BY <1>7 DEF Disconnect, files, history
  <2>2. CASE c \notin committing
    <3>1. Flush(c) /\ UNCHANGED <<mode, job, victim>>
      BY <1>7, <2>2 DEF Disconnect
    <3> QED
      BY <1>6, <2>1, <3>1 DEF Types
  <2>3. CASE c \in committing
    <3>1. /\ mode' \in {"rollback", "scanning"} /\ victim' = c
          /\ job' = IF ScanEnds(log, tid[c]) THEN RollbackWrites(log, tid[c]) ELSE << >>
          /\ UNCHANGED <<phase, blockmap, committing>>
      BY <1>7, <2>3 DEF Disconnect
    <3>2. tid[c] \in 1 .. N
      BY <2>1 DEF Types
    <3>3. job' \in Seq(FileWrites(N))
      <4>1. CASE ScanEnds(log, tid[c])
        <5>1. RollbackWrites(log, tid[c]) \in Seq(FileWrites(N))
          BY <1>0, <3>2, <4>1, RollbackContent DEF Types
        <5> QED
          BY <3>1, <4>1, <5>1
      <4>2. CASE ~ ScanEnds(log, tid[c])
        BY <3>1, <4>2
      <4> QED
        BY <4>1, <4>2
    <3>4. mode' \in Modes /\ victim' \in Clients /\ victim' # Nobody
      BY <3>1, NobodyAssumption DEF Modes
    <3> QED
      BY <2>1, <3>1, <3>3, <3>4 DEF Types
  <2> QED
    BY <2>2, <2>3
<1>8. CASE Undo
  <2> DEFINE w == Head(job)
  <2>1. w \in FileWrites(N) /\ Tail(job) \in Seq(FileWrites(N))
    <3>1. job \in Seq(FileWrites(N)) /\ job # << >>
      BY <1>8 DEF Undo, Types
    <3> QED
      BY <3>1
  <2>2. /\ index' = PutIndex(index, w) /\ store' = PutStore(store, w)
        /\ log' = PutLog(log, w, Len(log) + 1) /\ job' = Tail(job)
        /\ UNCHANGED <<begun, crashes, next_tid, epoch, mode, victim, committing, orphans,
                       phase, tid, blockmap, todo, logpos, db, stale>>
    BY <1>8 DEF Undo, clientVars, history
  <2> HIDE DEF w
  <2>3. Len(log) + 1 \in 1 .. Len(log) + 1
    BY <1>0
  <2>4. index' \in [BlockNumbers -> IndexValues] /\ store' \in [BlockNumbers -> Contents(N)]
    BY <1>0, <2>1, <2>2, PutTypes DEF Types
  <2>5. log' \in Seq(LogRecords(N)) /\ Len(log') >= Len(log) /\ Len(log') \in Nat
    BY <1>0, <2>1, <2>2, <2>3, PutLogTypes DEF Types
  <2>6. \A d \in Clients : logpos'[d] <= Len(log')
    BY <1>0, <2>2, <2>5 DEF Types
  <2> QED
    BY <2>1, <2>2, <2>4, <2>5, <2>6 DEF Types
<1>9. CASE RolledBack
  <2>1. victim \in Clients
    BY <1>9 DEF RolledBack, Types
  <2>2. /\ Flush(victim) /\ mode' = "serving" /\ victim' = Nobody
        /\ UNCHANGED <<index, store, log, begun, next_tid, epoch, crashes, job, orphans, tid, todo,
                       logpos, db, stale>>
    BY <1>9 DEF RolledBack, files, history
  <2> QED
    BY <1>6, <2>1, <2>2 DEF Types, Modes
<1>10. CASE MonitorDies
  <2>1. /\ crashes' \in 0 .. MaxCrashes /\ mode' = "down" /\ job' = << >> /\ victim' = Nobody
        /\ committing' = {} /\ orphans' \in SUBSET Clients
        /\ UNCHANGED <<index, store, log, begun, next_tid, epoch, tid, todo, logpos, db, stale>>
    BY <1>0, <1>10 DEF MonitorDies, Types, files, history
  <2>2. /\ phase' \in [Clients -> Phases]
        /\ \A d \in Clients : phase'[d] # "idle" => phase[d] # "idle"
    BY <1>10 DEF MonitorDies, Types, Phases
  <2>3. blockmap' \in [Clients -> [BlockNumbers -> LockEntries(N)]]
    BY <1>0, <1>10 DEF MonitorDies, Types
  <2> QED
    BY <2>1, <2>2, <2>3 DEF Types, Modes
<1>11. CASE Recover
  <2>1. /\ mode = "down" /\ mode' = "recover" /\ job' = RecoveryWrites(log)
        /\ UNCHANGED <<index, store, log, begun, next_tid, epoch, crashes, victim, committing, orphans,
                       phase, tid, blockmap, todo, logpos, db, stale>>
    BY <1>11 DEF Recover, files, clientVars, history
  <2>2. job' \in Seq(FileWrites(N))
    BY <1>0, <2>1, RecoveryContent DEF Types
  <2> QED
    BY <2>1, <2>2 DEF Types, Modes
<1>12. CASE RecoverDies
  <2>1. /\ mode = "recover" /\ mode' = "down" /\ job' = << >> /\ crashes' \in 0 .. MaxCrashes
        /\ UNCHANGED <<index, store, log, begun, next_tid, epoch, victim, committing, orphans,
                       phase, tid, blockmap, todo, logpos, db, stale>>
    BY <1>0, <1>12 DEF RecoverDies, files, clientVars, Types, history
  <2> QED
    BY <2>1 DEF Types, Modes
<1>13. CASE Recovered
  <2>1. /\ mode = "recover" /\ mode' = "recovered"
        /\ UNCHANGED <<index, store, log, begun, next_tid, epoch, crashes, job, victim, committing,
                       orphans, phase, tid, blockmap, todo, logpos, db, stale>>
    BY <1>13 DEF Recovered, files, clientVars, history
  <2> QED
    BY <2>1 DEF Types, Modes
<1>14. CASE StartMonitor
  <2>1. /\ mode = "recovered" /\ mode' = "serving" /\ epoch' \in Nat \ {0} /\ next_tid' = 1
        /\ UNCHANGED <<index, store, log, begun, crashes, job, victim, committing, orphans,
                       phase, tid, blockmap, todo, logpos, db, stale>>
    BY <1>14 DEF StartMonitor, files, clientVars, Types, history
  <2> QED
    BY <1>0, <2>1 DEF Types, Modes
<1>15. CASE UNCHANGED vars
  BY <1>15 DEF vars, files, monitor, clientVars, history, Types
<1> HIDE DEF N
<1>16. \A c \in Clients : Commit(c) \/ CommitUnheard(c) =>
                             BeginCommit(c) /\ committing' \in SUBSET Clients
  BY DEF Commit, CommitUnheard, Types
<1> QED
  BY <1>1, <1>2, <1>3, <1>4, <1>5, <1>7, <1>8, <1>9, <1>10, <1>11, <1>12, <1>13, <1>14, <1>15, <1>16,
     <1>17, <1>18
  DEF Next, MonitorStep

\* Every variable keeps its type: the files and the log hold only what the transactions
\* that were begun have written, through every death of a client or a monitor.
THEOREM TypesInvariant == Spec => []Types
<1> QED
  BY TypesInit, TypesStep, PTL DEF Spec

\* What the clients have seen of the index, and the history variables.
LookTypes ==
  /\ seen \in [Clients -> [BlockNumbers -> IndexValues \cup {"unseen"}]]
  /\ reused \in BOOLEAN /\ stale \in SUBSET BlockNumbers

\* The look a client takes, and what is kept of outdated ones, are typed.
LEMMA LookTypesInvariant == Spec => [](Types /\ LookTypes)
<1>1. Init => LookTypes
  <2> SUFFICES ASSUME Init PROVE LookTypes
    OBVIOUS
  <2>1. NoLooks \in [BlockNumbers -> IndexValues \cup {"unseen"}]
    BY DEF NoLooks
  <2>2. seen = [c \in Clients |-> NoLooks] /\ reused = FALSE /\ stale = {}
    BY DEF Init
  <2> QED
    BY <2>1, <2>2 DEF LookTypes
<1>2. Types /\ LookTypes /\ [Next]_vars => LookTypes'
  <2> SUFFICES ASSUME Types, LookTypes, [Next]_vars PROVE LookTypes'
    OBVIOUS
  <2>0. NoLooks \in [BlockNumbers -> IndexValues \cup {"unseen"}]
    BY DEF NoLooks
  <2>1. ASSUME NEW c \in Clients, Begin(c) PROVE LookTypes'
    BY <2>1 DEF Begin, LookTypes
  <2>2. ASSUME NEW c \in Clients, NEW b \in BlockNumbers, Look(c, b) PROVE LookTypes'
    <3>1. index[b] \in IndexValues \cup {"unseen"}
      BY DEF Types
    <3> QED
      BY <2>2, <3>1 DEF Look, history, LookTypes
  <2>3. ASSUME NEW c \in Clients, Lock(c) PROVE LookTypes'
    <3>1. reused' = reused /\ stale' \in SUBSET BlockNumbers
      BY <2>3 DEF Lock, LookTypes
    <3> QED
      BY <2>0, <2>3, <3>1 DEF Lock, LookTypes
  <2>4. ASSUME NEW c \in Clients, Leave(c) PROVE LookTypes'
    BY <2>0, <2>4 DEF Leave, history, LookTypes
  <2>5. CASE MonitorDies
    BY <2>0, <2>5 DEF MonitorDies, LookTypes
  <2>6. CASE UNCHANGED <<seen, reused, stale>>
    BY <2>6 DEF LookTypes
  <2>7. ASSUME NEW c \in Clients,
               \/ Commit(c) \/ CommitUnheard(c) \/ Write(c) \/ End(c) \/ Disconnect(c)
        PROVE  UNCHANGED <<seen, reused, stale>>
    BY <2>7 DEF Commit, CommitUnheard, BeginCommit, Write, End, Disconnect, history
  <2>8. MonitorStep \/ Recover \/ RecoverDies \/ StartMonitor \/ UNCHANGED vars
          => UNCHANGED <<seen, reused, stale>>
    BY DEF MonitorStep, Undo, RolledBack, Recovered, Recover, RecoverDies, StartMonitor,
           vars, clientVars, history
  <2> QED
    BY <2>1, <2>2, <2>3, <2>4, <2>5, <2>6, <2>7, <2>8 DEF Next
<1> QED
  BY <1>1, <1>2, TypesInit, TypesStep, PTL DEF Spec

\* TypeOK: what the clients, the monitor and the files hold is always of its kind.
THEOREM TypeCorrect == Spec => []TypeOK
<1>1. Types /\ LookTypes => TypeOK
  <2> SUFFICES ASSUME Types, LookTypes PROVE TypeOK
    OBVIOUS
  <2>1. Len(log) \in Nat /\ MaxTransactions \in Nat /\ \A c \in Clients : logpos[c] \in Nat
    BY ConstantsAssumption DEF Types
  <2>2. ASSUME NEW i \in 1 .. Len(log)
        PROVE  /\ log[i].tid \in 1 .. MaxTransactions
               /\ log[i].action \in LogActions
               /\ log[i].block \in BlockNumbers \cup {0}
               /\ log[i].oindex \in IndexValues \cup {" "}
               /\ log[i].oldval \in 0 .. MaxTransactions
    <3>1. log[i] \in LogRecords(MaxTransactions)
      BY DEF Types
    <3> QED
      BY <3>1 DEF LogRecords, Contents
  <2>3. ASSUME NEW c \in Clients, NEW b \in BlockNumbers
        PROVE  blockmap[c][b].lock \in LockTypes \cup {"NONE"}
    <3>1. blockmap[c][b] \in LockEntries(MaxTransactions)
      BY DEF Types
    <3> QED
      BY <3>1 DEF LockEntries, NoEntry
  <2>4. \A c \in Clients : logpos[c] \in 0 .. Len(log)
    BY <2>1 DEF Types
  <2> QED
    BY <2>2, <2>3, <2>4 DEF Types, LookTypes, TypeOK, Contents
<1> QED
  BY <1>1, LookTypesInvariant, PTL

-----------------------------------------------------------------------------
(* Who may be where, and the marks of doRecovery().                        *)

\* Every step keeps track of the clients of a dead monitor: when recover is run after the
\* last of them has left, nobody writes beside doRecovery().
LEMMA OperatingStep ==
  ASSUME OperatorWaits, Types, Operating, [Next]_vars
  PROVE  Operating'
<1>0. /\ committing \in SUBSET Clients /\ orphans \in SUBSET Clients
      /\ phase \in [Clients -> Phases] /\ mode \in Modes
      /\ mode \in {"rollback", "scanning"} <=> victim # Nobody
      /\ victim \in Clients \cup {Nobody}
  BY DEF Types
<1>1. ASSUME NEW c \in Clients, Begin(c) \/ Lock(c) PROVE Operating'
  <2>1. /\ mode = "serving" /\ phase[c] \in {"idle", "begun"}
        /\ phase' = [phase EXCEPT ![c] = "begun"] \/ phase' = [phase EXCEPT ![c] = "ready"]
        /\ UNCHANGED <<mode, victim, committing, orphans>>
    BY <1>1 DEF Begin, Lock, monitor
  <2> QED
    BY <1>0, <2>1 DEF Operating, Serving
<1>16. ASSUME NEW c \in Clients, NEW b \in BlockNumbers, Look(c, b) PROVE Operating'
  <2>1. UNCHANGED <<mode, victim, committing, orphans, phase>>
    BY <1>16 DEF Look, monitor
  <2> QED
    BY <2>1 DEF Operating, Serving
<1>2. ASSUME NEW c \in Clients, Commit(c) PROVE Operating'
  <2>1. /\ mode = "serving" /\ phase[c] = "ready" /\ phase' = [phase EXCEPT ![c] = "committing"]
        /\ committing' = committing \cup {c} /\ UNCHANGED <<mode, victim, orphans>>
    BY <1>2 DEF Commit, BeginCommit
  <2> QED
    BY <1>0, <2>1 DEF Operating, Serving
<1>3. ASSUME NEW c \in Clients, CommitUnheard(c) PROVE Operating'
  <2>1. /\ c \in orphans /\ phase[c] = "ready" /\ phase' = [phase EXCEPT ![c] = "committing"]
        /\ UNCHANGED <<mode, victim, committing, orphans>>
    BY <1>3 DEF CommitUnheard, BeginCommit
  <2> QED
    BY <1>0, <2>1 DEF Operating, Serving
<1>4. ASSUME NEW c \in Clients, Write(c) PROVE Operating'
  <2>1. UNCHANGED <<mode, victim, committing, orphans, phase>>
    BY <1>4 DEF Write, monitor
  <2> QED
    BY <2>1 DEF Operating, Serving
<1>5. ASSUME NEW c \in Clients, End(c) PROVE Operating'
  <2>1. /\ phase[c] = "committing" /\ (c \in orphans \/ mode = "serving")
        /\ committing' = committing \ {c} /\ UNCHANGED <<mode, victim>>
        /\ IF c \in orphans
           THEN phase' = [phase EXCEPT ![c] = "idle"] /\ orphans' = orphans \ {c}
           ELSE phase' = [phase EXCEPT ![c] = "gone"] /\ UNCHANGED orphans
    BY <1>5 DEF End
  <2> QED
    BY <1>0, <2>1 DEF Operating, Serving
<1>6. ASSUME NEW c \in Clients, Leave(c) PROVE Operating'
  <2>1. /\ phase[c] \in {"begun", "ready", "committing"} /\ UNCHANGED <<mode, victim, committing>>
        /\ IF c \in orphans
           THEN phase' = [phase EXCEPT ![c] = "idle"] /\ orphans' = orphans \ {c}
           ELSE phase' = [phase EXCEPT ![c] = "gone"] /\ UNCHANGED orphans
    BY <1>6 DEF Leave, monitor
  <2> QED
    BY <1>0, <2>1 DEF Operating, Serving
<1>7. ASSUME NEW c \in Clients, Disconnect(c) PROVE Operating'
  <2>1. /\ mode = "serving" /\ phase[c] = "gone" /\ UNCHANGED orphans
        /\ \/ c \notin committing /\ phase' = [phase EXCEPT ![c] = "idle"]
              /\ committing' = committing \ {c} /\ UNCHANGED <<mode, victim>>
           \/ c \in committing /\ mode' \in {"rollback", "scanning"} /\ victim' = c
              /\ UNCHANGED <<phase, committing>>
    BY <1>7 DEF Disconnect, Flush
  <2> QED
    BY <1>0, <2>1 DEF Operating, Serving
<1>8. CASE Undo
  <2>1. UNCHANGED <<mode, victim, committing, orphans, phase>>
    BY <1>8 DEF Undo, clientVars
  <2> QED
    BY <2>1 DEF Operating, Serving
<1>9. CASE RolledBack
  <2>1. /\ mode = "rollback" /\ mode' = "serving" /\ UNCHANGED orphans
        /\ phase' = [phase EXCEPT ![victim] = "idle"] /\ committing' = committing \ {victim}
    BY <1>9 DEF RolledBack, Flush
  <2> QED
    BY <1>0, <2>1 DEF Operating, Serving
<1>10. CASE MonitorDies
  <2>1. /\ Serving /\ mode' = "down" /\ committing' = {}
        /\ orphans' = orphans \cup {c \in Clients : phase[c] \in {"ready", "committing"}}
        /\ phase' = [c \in Clients |-> IF phase[c] \in {"begun", "gone"} THEN "idle" ELSE phase[c]]
    BY <1>10 DEF MonitorDies, Serving
  <2>2. /\ orphans = {}
        /\ \A c \in Clients : phase[c] \in {"idle", "begun", "ready", "committing", "gone"}
    BY <1>0, <2>1 DEF Operating, Serving, Phases
  <2> QED
    BY <1>0, <2>1, <2>2 DEF Operating, Serving
<1>11. CASE Recover
  <2>1. /\ mode = "down" /\ orphans = {} /\ mode' = "recover"
        /\ UNCHANGED <<victim, committing, orphans, phase>>
    BY <1>11 DEF Recover, clientVars
  <2> QED
    BY <1>0, <2>1 DEF Operating, Serving
<1>12. CASE RecoverDies
  <2>1. mode = "recover" /\ mode' = "down" /\ UNCHANGED <<victim, committing, orphans, phase>>
    BY <1>12 DEF RecoverDies, clientVars
  <2> QED
    BY <1>0, <2>1 DEF Operating, Serving
<1>13. CASE Recovered
  <2>1. mode = "recover" /\ mode' = "recovered" /\ UNCHANGED <<victim, committing, orphans, phase>>
    BY <1>13 DEF Recovered, clientVars
  <2> QED
    BY <1>0, <2>1 DEF Operating, Serving
<1>14. CASE StartMonitor
  <2>1. mode = "recovered" /\ mode' = "serving" /\ UNCHANGED <<victim, committing, orphans, phase>>
    BY <1>14 DEF StartMonitor, clientVars
  <2>2. \A c \in Clients : phase[c] = "idle"
    BY <2>1 DEF Operating, Serving
  <2> QED
    BY <1>0, <2>1, <2>2 DEF Operating, Serving
<1>15. CASE UNCHANGED vars
  BY <1>15 DEF vars, monitor, clientVars, Operating, Serving
<1> QED
  BY <1>1, <1>2, <1>3, <1>4, <1>5, <1>6, <1>7, <1>8, <1>9, <1>10, <1>11, <1>12, <1>13, <1>14, <1>15,
     <1>16
  DEF Next, MonitorStep

\* One write() of rollback() or doRecovery() to the log.
LEMMA UndoMarks ==
  ASSUME Types, NEW t \in 1 .. MaxTransactions, NEW w, w = Mark(t),
         log' = PutLog(log, w, Len(log) + 1)
  PROVE  /\ log' \in Seq(LogRecords(MaxTransactions)) /\ Len(log') = Len(log) + 1
         /\ log'[Len(log) + 1] = LogRecord(t, "LABORT")
         /\ \A i \in 1 .. Len(log) : log'[i] = log[i]
         /\ Loose(log') = {i \in Loose(log) : log[i].tid # t}
<1>1. LogRecord(t, "LABORT") \in LogRecords(MaxTransactions) /\ MaxTransactions \in Nat
  <2>1. Mark(t) \in FileWrites(MaxTransactions) /\ MaxTransactions \in Nat
    BY ConstantsAssumption, MarkTypes DEF Mark, LogActions, Undoing
  <2>2. Mark(t).file = "log" /\ Mark(t).rec = LogRecord(t, "LABORT")
    BY DEF Mark, ToLog
  <2> QED
    BY <2>1, <2>2, FileWriteTypes
<1>2. w.file = "log" /\ w.rec = LogRecord(t, "LABORT")
  BY DEF Mark, ToLog
<1>3. log \in Seq(LogRecords(MaxTransactions)) /\ Len(log) \in Nat
      /\ Len(log) + 1 \in 1 .. Len(log) + 1
  BY DEF Types
<1>4. /\ log' \in Seq(LogRecords(MaxTransactions))
      /\ Len(log') = IF Len(log) + 1 > Len(log) THEN Len(log) + 1 ELSE Len(log)
      /\ log'[Len(log) + 1] = LogRecord(t, "LABORT")
      /\ \A i \in 1 .. Len(log) : i # Len(log) + 1 => log'[i] = log[i]
  BY <1>1, <1>2, <1>3, PutLogContent
<1>5. Len(log') = Len(log) + 1 /\ \A i \in 1 .. Len(log) : log'[i] = log[i]
  BY <1>3, <1>4
<1>6. LogRecord(t, "LABORT").action \in Marks /\ LogRecord(t, "LABORT").tid = t
  BY DEF LogRecord, Marks
<1>7. Loose(log') = {i \in Loose(log) : log[i].tid # t}
  BY <1>1, <1>3, <1>4, <1>5, <1>6, LooseAfterMark
<1> QED
  BY <1>4, <1>5, <1>7

\* A write() to another file leaves the log alone.
LEMMA UndoOtherFiles ==
  ASSUME NEW w, w.file # "log", log' = PutLog(log, w, Len(log) + 1)
  PROVE  log' = log
BY DEF PutLog

\* The first of the write() calls that are left, and the others.
LEMMA HeadAndTail ==
  ASSUME NEW T, NEW ws \in Seq(T), ws # << >>
  PROVE  /\ Head(ws) = ws[1] /\ Tail(ws) \in Seq(T) /\ Len(ws) \in Nat /\ Len(ws) >= 1
         /\ Len(Tail(ws)) = Len(ws) - 1
         /\ \A j \in 1 .. Len(ws) - 1 : Tail(ws)[j] = ws[j + 1]
         /\ ws[1] \in T
OBVIOUS

\* Every step keeps the promise of doRecovery(): each transaction with loose records has its
\* LABORT still ahead, until there is none.
LEMMA MarkingStep ==
  ASSUME OperatorWaits, Types, Operating, Marking, [Next]_vars
  PROVE  Marking'
<1>1. ASSUME NEW c \in Clients,
             \/ Begin(c) \/ Lock(c) \/ \E b \in BlockNumbers : Look(c, b)
             \/ BeginCommit(c) \/ End(c) \/ Leave(c) \/ Disconnect(c)
      PROVE  Marking'
  <2>1. CASE \/ Begin(c) \/ Lock(c) \/ \E b \in BlockNumbers : Look(c, b)
             \/ BeginCommit(c) \/ End(c) \/ Leave(c)
    <3>1. UNCHANGED <<mode, job, log>>
      BY <2>1 DEF Begin, Look, Lock, BeginCommit, End, Leave, files, monitor
    <3> QED
      BY <3>1 DEF Marking
  <2>2. CASE Disconnect(c)
    <3>1. mode' \notin {"recover", "recovered"}
      BY <2>2 DEF Disconnect
    <3> QED
      BY <3>1 DEF Marking
  <2> QED
    BY <1>1, <2>1, <2>2
<1>2. ASSUME NEW c \in Clients, Write(c) PROVE Marking'
  <2>1. phase[c] = "committing" /\ mode' = mode
    BY <1>2 DEF Write, monitor
  <2>2. mode \notin {"recover", "recovered"}
    BY <2>1 DEF Operating, Serving
  <2> QED
    BY <2>1, <2>2 DEF Marking
<1>3. CASE Undo
  <2>1. /\ mode \in {"rollback", "recover"} /\ job # << >> /\ mode' = mode /\ job' = Tail(job)
        /\ log' = PutLog(log, Head(job), Len(log) + 1)
    BY <1>3 DEF Undo
  <2>2. CASE mode = "rollback"
    BY <2>1, <2>2 DEF Marking
  <2>3. CASE mode = "recover"
    <3>1. /\ Head(job) = job[1] /\ Len(job) \in Nat /\ Len(job) >= 1
          /\ Len(job') = Len(job) - 1
          /\ \A j \in 1 .. Len(job) - 1 : job'[j] = job[j + 1]
      BY <2>1, HeadAndTail DEF Types
    <3>2. /\ \A j \in 1 .. Len(job) :
               job[j].file # "log" \/ \E t \in 1 .. MaxTransactions : job[j] = Mark(t)
          /\ \A i \in Loose(log) : \E j \in 1 .. Len(job) : job[j] = Mark(log[i].tid)
      BY <2>3 DEF Marking
    <3>3. \A i \in Loose(log') : i \in Loose(log) /\ log'[i] = log[i] /\ job[1] # Mark(log[i].tid)
      <4>1. CASE job[1].file # "log"
        <5>1. log' = log
          BY <2>1, <3>1, <4>1, UndoOtherFiles
        <5>2. \A t : job[1] # Mark(t)
          BY <4>1 DEF Mark, ToLog
        <5> QED
          BY <5>1, <5>2
      <4>2. CASE \E t \in 1 .. MaxTransactions : job[1] = Mark(t)
        <5>1. PICK t \in 1 .. MaxTransactions : job[1] = Mark(t)
          BY <4>2
        <5>2. /\ Loose(log') = {i \in Loose(log) : log[i].tid # t}
              /\ \A i \in 1 .. Len(log) : log'[i] = log[i]
          BY <2>1, <3>1, <5>1, UndoMarks
        <5>3. \A i \in Loose(log) : i \in 1 .. Len(log)
          BY DEF Loose
        <5>4. \A u : Mark(u) = Mark(t) => u = t
          BY DEF Mark, ToLog, LogRecord
        <5> QED
          BY <5>1, <5>2, <5>3, <5>4
      <4> QED
        BY <3>1, <3>2, <4>1, <4>2
    <3>4. ASSUME NEW j \in 1 .. Len(job')
          PROVE  job'[j].file # "log" \/ \E t \in 1 .. MaxTransactions : job'[j] = Mark(t)
      <4>1. j + 1 \in 1 .. Len(job) /\ job'[j] = job[j + 1]
        BY <3>1
      <4> QED
        BY <3>2, <4>1
    <3>5. ASSUME NEW i \in Loose(log')
          PROVE  \E j \in 1 .. Len(job') : job'[j] = Mark(log'[i].tid)
      <4>1. PICK j \in 1 .. Len(job) : job[j] = Mark(log[i].tid)
        BY <3>2, <3>3
      <4>2. j # 1 /\ log'[i] = log[i]
        BY <3>3, <4>1
      <4>3. j - 1 \in 1 .. Len(job') /\ job'[j - 1] = job[j]
        BY <3>1, <4>2
      <4> QED
        BY <4>1, <4>2, <4>3
    <3> QED
      BY <2>1, <2>3, <3>4, <3>5 DEF Marking
  <2> QED
    BY <2>1, <2>2, <2>3
<1>4. CASE RolledBack \/ MonitorDies \/ RecoverDies \/ StartMonitor
  <2>1. mode' \notin {"recover", "recovered"}
    BY <1>4 DEF RolledBack, MonitorDies, RecoverDies, StartMonitor
  <2> QED
    BY <2>1 DEF Marking
<1>5. CASE Recover
  <2>1. mode' = "recover" /\ job' = RecoveryWrites(log) /\ log' = log
    BY <1>5 DEF Recover, files
  <2>2. log \in Seq(LogRecords(MaxTransactions)) /\ MaxTransactions \in Nat
    BY ConstantsAssumption DEF Types
  <2>3. /\ \A j \in 1 .. Len(job') :
             \E i \in Loose(log) : job'[j] \in UndoSet(log[i]) \/ job'[j] = Mark(log[i].tid)
        /\ \A i \in Loose(log) : \E j \in 1 .. Len(job') : job'[j] = Mark(log[i].tid)
    <3>1. LET ws == RecoveryWrites(log)
          IN  /\ \A j \in 1 .. Len(ws) :
                   \E i \in Loose(log) : ws[j] \in UndoSet(log[i]) \/ ws[j] = Mark(log[i].tid)
              /\ \A i \in Loose(log) : \E j \in 1 .. Len(ws) : ws[j] = Mark(log[i].tid)
      BY <2>2, RecoveryContent
    <3> QED
      BY <2>1, <3>1
  <2>4. ASSUME NEW i \in Loose(log)
        PROVE  log[i].tid \in 1 .. MaxTransactions /\ \A w \in UndoSet(log[i]) : w.file # "log"
    <3>1. i \in 1 .. Len(log)
      BY DEF Loose
    <3>2. log[i].tid \in 1 .. MaxTransactions
      BY <2>2, <3>1, RecordTypes
    <3> QED
      BY <3>2 DEF UndoSet, ToIndex, ToStore
  <2> QED
    BY <2>1, <2>3, <2>4 DEF Marking
<1>6. CASE Recovered
  <2>1. mode = "recover" /\ mode' = "recovered" /\ job = << >> /\ log' = log
    BY <1>6 DEF Recovered, files
  <2>2. Len(job) = 0
    BY <2>1
  <2>3. Loose(log) = {}
    BY <2>1, <2>2 DEF Marking
  <2> QED
    BY <2>1, <2>3 DEF Marking
<1>7. CASE UNCHANGED vars
  BY <1>7 DEF vars, files, monitor, Marking
<1> QED
  BY <1>1, <1>2, <1>3, <1>4, <1>5, <1>6, <1>7 DEF Next, MonitorStep, Commit, CommitUnheard

\* The promise holds in the beginning.
LEMMA MarkedInit == Init => Operating /\ Marking
BY DEF Init, Operating, Serving, Marking

\* The promise holds always.
LEMMA MarkedInvariant == OperatorWaits => (Spec => [](Types /\ Operating /\ Marking))
<1> SUFFICES ASSUME OperatorWaits PROVE Spec => [](Types /\ Operating /\ Marking)
  OBVIOUS
<1> DEFINE I == Types /\ Operating /\ Marking
<1>1. Init => I
  BY TypesInit, MarkedInit
<1>2. I /\ [Next]_vars => I'
  BY TypesStep, OperatingStep, MarkingStep
<1> HIDE DEF I
<1>3. Spec => []I
  BY <1>1, <1>2, PTL DEF Spec
<1> QED
  BY <1>3 DEF I

\* RecoveryMarksAll, whatever has happened before, with several monitors and concurrent
\* commits too, as long as recover is run after the last client has left.
THEOREM RecoveryMarks == OperatorWaits => (Spec => []RecoveryMarksAll)
<1> SUFFICES ASSUME OperatorWaits PROVE Spec => []RecoveryMarksAll
  OBVIOUS
<1>1. Types /\ Marking => RecoveryMarksAll
  <2> SUFFICES ASSUME Types, Marking, mode = "recovered" PROVE BrokenTransactions(log) = {}
    BY DEF RecoveryMarksAll
  <2>1. BrokenTransactions(log) = {log[i].tid : i \in Loose(log)}
    BY BrokenAreLoose, ConstantsAssumption DEF Types
  <2> QED
    BY <2>1 DEF Marking
<1> QED
  BY <1>1, MarkedInvariant, PTL

-----------------------------------------------------------------------------
(* One monitor, and one commit at a time: that IInv is kept.               *)

Rest == /\ Numbers /\ NoConflicts /\ EntriesTrue /\ Undoable
        /\ OneCommit /\ Trace /\ Todo /\ UndoJob

\* The invariant holds in the beginning: the log is empty.
LEMMA InitInv == Init => IInv
<1> SUFFICES ASSUME Init PROVE IInv
  OBVIOUS
<1>1. Types /\ Operating /\ Marking
  BY TypesInit, MarkedInit
<1>2. Len(log) = 0 /\ Loose(log) = {}
  BY DEF Init, Loose
<1>3. Numbers /\ OneCommit /\ Trace /\ Todo /\ UndoJob
  BY <1>2 DEF Init, Numbers, OneCommit, InCommit, Trace, Traced, Todo, Unended, UndoJob
<1>4. \A c \in Clients : \A b \in BlockNumbers : blockmap[c][b] = NoEntry
  BY DEF Init, EmptyMap
<1>5. NoConflicts /\ EntriesTrue
  BY <1>4 DEF NoConflicts, Conflicting, EntriesTrue
<1>6. Undoable
  BY <1>2 DEF Undoable, LooseRecordsRestore, DifferencesCovered, Init, TheView
<1> QED
  BY <1>1, <1>3, <1>5, <1>6 DEF IInv

\* What a transaction finds in a block that nobody is writing is what was committed.
LEMMA UnlockedIsCommitted ==
  ASSUME IInv, mode = "serving", NEW b \in BlockNumbers \ stale,
         \A d \in Clients : InCommit(d) => ~ Writing(blockmap[d][b])
  PROVE  TheView[b] = db[b]
<1> SUFFICES ASSUME TheView[b] # db[b] PROVE FALSE
  OBVIOUS
<1>1. PICK i \in Loose(log) : log[i].block = b /\ log[i].action \in Undoing
  BY DEF IInv, Undoable, DifferencesCovered, TheView
<1>2. PICK d \in Clients : InCommit(d) /\ Writing(blockmap[d][log[i].block])
  BY <1>1 DEF IInv, OneCommit, Serving
<1> QED
  BY <1>1, <1>2

\* The constructor of Transaction: the number is new.
LEMMA BeginStep ==
  ASSUME IInv, NEW c \in Clients, Begin(c)
  PROVE  Rest'
<1> USE DEF IInv
<1>1. /\ mode = "serving" /\ phase[c] = "idle"
      /\ UNCHANGED <<index, store, log, epoch, crashes, mode, job, victim, committing, orphans,
                     blockmap, todo, db, stale>>
      /\ begun' = begun + 1 /\ next_tid' = next_tid + 1
  BY DEF Begin, files
<1>2. /\ tid'[c] = begun + 1 /\ logpos'[c] = 0 /\ phase'[c] = "begun"
      /\ \A d \in Clients \ {c} : /\ tid'[d] = tid[d]
                                  /\ logpos'[d] = logpos[d] /\ phase'[d] = phase[d]
  BY DEF Begin, Types, Numbers
<1>3. orphans = {} /\ c \notin committing
  BY <1>1 DEF Operating
<1>4. /\ \A d \in Clients : InCommit(d)' <=> InCommit(d)
      /\ \A d \in Clients : Unended(d)' <=> Unended(d)
      /\ \A d \in Clients : Traced(d)' <=> Traced(d)
      /\ ~ InCommit(c) /\ ~ Unended(c) /\ ~ Traced(c)
  BY <1>1, <1>2, <1>3 DEF InCommit, Unended, Traced
<1>5. begun \in Nat
  BY DEF Types
<1>6. Numbers'
  <2>1. epoch' = 1 /\ next_tid' = begun' + 1
    BY <1>1 DEF Numbers
  <2>2. \A d \in Clients : tid[d] \in Nat /\ tid[d] <= begun
    BY DEF Numbers, Types
  <2>3. \A d \in Clients : tid'[d] <= begun'
    BY <1>1, <1>2, <1>5, <2>2
  <2>4. \A i \in 1 .. Len(log) : log[i].tid <= begun /\ log[i].tid \in Nat
    <3>1. \A i \in 1 .. Len(log) : log[i].tid \in 1 .. MaxTransactions
      BY RecordTypes, ConstantsAssumption DEF Types
    <3> QED
      BY <3>1, ConstantsAssumption DEF Numbers
  <2>5. \A i \in 1 .. Len(log) : log[i].tid <= begun' /\ log[i].tid # begun + 1
    BY <1>1, <1>5, <2>4
  <2>6. \A d, e \in Clients : d # e /\ phase'[d] # "idle" /\ phase'[e] # "idle" => tid'[d] # tid'[e]
    <3>1. \A d \in Clients \ {c} : tid'[d] # begun + 1
      BY <1>2, <1>5, <2>2
    <3> QED
      BY <1>2, <3>1 DEF Numbers
  <2>7. \A d \in Clients : phase'[d] \in {"begun", "ready"} =>
          logpos'[d] = 0 /\ \A i \in 1 .. Len(log) : log[i].tid # tid'[d]
    BY <1>2, <2>5 DEF Numbers
  <2> QED
    BY <1>1, <2>1, <2>3, <2>5, <2>6, <2>7 DEF Numbers
<1>7. NoConflicts'
  BY <1>1 DEF NoConflicts
<1>8. EntriesTrue'
  <2>1. \A d \in Clients : phase'[d] = "ready" => phase[d] = "ready"
    BY <1>2
  <2> QED
    BY <1>1, <1>4, <2>1 DEF EntriesTrue
<1>9. Undoable'
  BY <1>1 DEF Undoable
<1>10. OneCommit'
  <2>1. \A d, e \in Clients : InCommit(d)' /\ InCommit(e)' => d = e
    BY <1>4 DEF OneCommit
  <2>2. ASSUME NEW d \in Clients, phase'[d] = "committing", NEW i \in Loose(log)
        PROVE  log[i].tid = tid'[d] /\ todo[d] # << >>
    <3>1. d # c
      BY <1>2, <2>2
    <3> QED
      BY <1>2, <2>2, <3>1 DEF OneCommit
  <2>3. ASSUME NEW i \in Loose(log)
        PROVE  \E d \in Clients : /\ InCommit(d)' /\ tid'[d] = log[i].tid
                                  /\ log[i].action \in Undoing => Writing(blockmap[d][log[i].block])
    <3>1. PICK d \in Clients : /\ InCommit(d) /\ tid[d] = log[i].tid
                               /\ log[i].action \in Undoing => Writing(blockmap[d][log[i].block])
      BY <1>1 DEF OneCommit, Serving
    <3>2. d # c
      BY <1>4, <3>1
    <3> QED
      BY <1>2, <1>4, <3>1, <3>2
  <2> QED
    BY <1>1, <2>1, <2>2, <2>3 DEF OneCommit
<1>11. Trace'
  <2>1. \A d \in Clients : Traced(d)' => Traced(d) /\ d # c
    BY <1>4
  <2> QED
    BY <1>1, <1>2, <1>4, <2>1 DEF Trace
<1>12. Todo'
  <2>1. ASSUME NEW d \in Clients, Unended(d)'
        PROVE  Unended(d) /\ d # c
    BY <1>4, <2>1
  <2> QED
    BY <1>1, <1>2, <2>1 DEF Todo, Planned, Logged, InPlace
<1>13. UndoJob'
  BY <1>1 DEF UndoJob
<1> QED
  BY <1>6, <1>7, <1>8, <1>9, <1>10, <1>11, <1>12, <1>13 DEF Rest

\* A look at the index changes nothing that anybody else can see.
LEMMA LookStep ==
  ASSUME IInv, NEW c \in Clients, NEW b \in BlockNumbers, Look(c, b)
  PROVE  Rest'
<1>1. UNCHANGED <<index, store, log, begun, next_tid, epoch, mode, job, victim, committing,
                  orphans, phase, tid, blockmap, todo, logpos, db, stale>>
  BY DEF Look, files, monitor, history
<1> QED
  BY <1>1 DEF IInv, Rest, Numbers, NoConflicts, EntriesTrue, Unended, Undoable, OneCommit, InCommit,
     Serving, Trace, Traced, Todo, Planned, Logged, InPlace, UndoJob

\* The operations: the locks of a transaction conflict with nobody's, and what it has seen of
\* a block it is to write is what was committed, or the look was outdated.
LEMMA LockStep ==
  ASSUME IInv, NEW c \in Clients, Lock(c)
  PROVE  Rest'
<1> USE DEF IInv
<1>1. PICK bm \in [BlockNumbers ->
                     UNION {EntriesOf(b, seen[c][b], tid[c]) : b \in BlockNumbers}] :
        /\ \A b \in BlockNumbers : bm[b] \in EntriesOf(b, seen[c][b], tid[c])
        /\ \A d \in Clients \ orphans, b \in BlockNumbers :
             ~ Conflicting(bm[b], blockmap[d][b])
        /\ blockmap' = [blockmap EXCEPT ![c] = bm]
        /\ stale' = stale \cup {b \in BlockNumbers : Writing(bm[b]) /\ index[b] # bm[b].oldindex}
  BY DEF Lock
<1>2. /\ mode = "serving" /\ phase[c] = "begun"
      /\ UNCHANGED <<index, store, log, begun, next_tid, epoch, crashes, mode, job, victim,
                     committing, orphans, tid, todo, logpos, db>>
  BY DEF Lock, files, monitor
<1>3. /\ blockmap'[c] = bm /\ phase'[c] = "ready"
      /\ \A d \in Clients \ {c} : blockmap'[d] = blockmap[d] /\ phase'[d] = phase[d]
  BY <1>1 DEF Lock, Types
<1>4. orphans = {} /\ c \notin committing
  BY <1>2 DEF Operating
<1>5. /\ \A d \in Clients : InCommit(d)' <=> InCommit(d)
      /\ \A d \in Clients : Unended(d)' <=> Unended(d)
      /\ \A d \in Clients : Traced(d)' <=> Traced(d)
      /\ ~ InCommit(c) /\ ~ Unended(c) /\ ~ Traced(c)
  BY <1>2, <1>3, <1>4 DEF InCommit, Unended, Traced
<1>6. \A b : b \notin stale' => b \notin stale
  BY <1>1
<1>7. Numbers'
  <2>1. \A d \in Clients : /\ phase'[d] # "idle" => phase[d] # "idle"
                           /\ phase'[d] \in {"begun", "ready"} => phase[d] \in {"begun", "ready"}
    BY <1>2, <1>3
  <2> QED
    BY <1>2, <2>1 DEF Numbers
<1>8. \A e, f : Conflicting(e, f) <=> Conflicting(f, e)
  BY DEF Conflicting
<1>9. NoConflicts'
  <2> SUFFICES ASSUME NEW d \in Clients, NEW e \in Clients, NEW b \in BlockNumbers, d # e
               PROVE  ~ Conflicting(blockmap'[d][b], blockmap'[e][b])
    BY DEF NoConflicts
  <2>1. \A f \in Clients : ~ Conflicting(bm[b], blockmap[f][b])
    BY <1>1, <1>4
  <2>2. CASE d = c
    BY <1>3, <2>1, <2>2
  <2>3. CASE e = c
    BY <1>3, <1>8, <2>1, <2>3
  <2>4. CASE d # c /\ e # c
    BY <1>3, <2>4 DEF NoConflicts
  <2> QED
    BY <2>2, <2>3, <2>4
<1>10. EntriesTrue'
  <2>1. ASSUME NEW d \in Clients \ {c}, NEW b \in BlockNumbers, blockmap'[d][b] # NoEntry
        PROVE  LET e == blockmap'[d][b] IN
                 /\ e.lock = "A_LOCK" => e.oldindex = "U"
                 /\ e.lock = "W_LOCK" => e.oldindex = "A"
                 /\ b \notin stale' /\ Writing(e) /\ (phase'[d] = "ready" \/ Unended(d)')
                      => Found(e) = db'[b]
                 /\ b \notin stale' /\ Unended(d)' /\ e.lock = "W_LOCK" => index'[b] = "A"
    <3>1. blockmap'[d] = blockmap[d] /\ phase'[d] = phase[d] /\ (Unended(d)' <=> Unended(d))
      BY <1>3, <1>5
    <3> QED
      BY <1>2, <1>6, <2>1, <3>1 DEF EntriesTrue
  <2>2. ASSUME NEW b \in BlockNumbers, bm[b] # NoEntry
        PROVE  /\ bm[b].lock = "A_LOCK" => bm[b].oldindex = "U"
               /\ bm[b].lock = "W_LOCK" => bm[b].oldindex = "A"
               /\ b \notin stale' /\ Writing(bm[b]) => Found(bm[b]) = db[b]
    <3>1. /\ bm[b].oldindex = "A" => bm[b].oldval = store[b]
          /\ bm[b].lock = "A_LOCK" => bm[b].oldindex = "U"
          /\ bm[b].lock = "W_LOCK" => bm[b].oldindex = "A"
      <4>1. bm[b] \in EntriesOf(b, seen[c][b], tid[c])
        BY <1>1
      <4>2. CASE seen[c][b] = "A"
        BY <4>1, <4>2 DEF EntriesOf, ReadEntry, WrittenEntry, ReleasedEntry, Entry
      <4>3. CASE seen[c][b] = "U"
        BY <4>1, <4>3 DEF EntriesOf, AllocatedEntry, Entry
      <4>4. CASE seen[c][b] \notin {"A", "U"}
        BY <2>2, <4>1, <4>4 DEF EntriesOf
      <4> QED
        BY <4>2, <4>3, <4>4
    <3>2. ASSUME b \notin stale', Writing(bm[b]) PROVE Found(bm[b]) = db[b]
      <4>1. index[b] = bm[b].oldindex /\ b \notin stale
        BY <1>1, <3>2
      <4>2. Found(bm[b]) = TheView[b]
        BY <3>1, <4>1 DEF Found, TheView, View
      <4>3. \A d \in Clients : ~ Conflicting(bm[b], blockmap[d][b])
        BY <1>1, <1>4
      <4>4. \A d \in Clients : ~ Writing(blockmap[d][b])
        BY <2>2, <4>3 DEF Conflicting, Writing, NoEntry
      <4>5. TheView[b] = db[b]
        BY <1>2, <4>1, <4>4, UnlockedIsCommitted
      <4> QED
        BY <4>2, <4>5
    <3> QED
      BY <3>1, <3>2
  <2> QED
    BY <1>2, <1>3, <1>5, <2>1, <2>2 DEF EntriesTrue
<1>11. Undoable'
  BY <1>2, <1>6 DEF Undoable, LooseRecordsRestore, DifferencesCovered
<1>12. OneCommit'
  <2>1. \A d, e \in Clients : InCommit(d)' /\ InCommit(e)' => d = e
    BY <1>5 DEF OneCommit
  <2>2. ASSUME NEW d \in Clients, phase'[d] = "committing", NEW i \in Loose(log)
        PROVE  log[i].tid = tid[d] /\ todo[d] # << >>
    <3>1. d # c
      BY <1>3, <2>2
    <3> QED
      BY <1>3, <2>2, <3>1 DEF OneCommit
  <2>3. ASSUME NEW i \in Loose(log)
        PROVE  \E d \in Clients : /\ InCommit(d)' /\ tid[d] = log[i].tid
                                  /\ log[i].action \in Undoing => Writing(blockmap'[d][log[i].block])
    <3>1. PICK d \in Clients : /\ InCommit(d) /\ tid[d] = log[i].tid
                               /\ log[i].action \in Undoing => Writing(blockmap[d][log[i].block])
      BY <1>2 DEF OneCommit, Serving
    <3>2. d # c
      BY <1>5, <3>1
    <3> QED
      BY <1>3, <1>5, <3>1, <3>2
  <2> QED
    BY <1>2, <2>1, <2>2, <2>3 DEF OneCommit
<1>13. Trace'
  <2>1. \A d \in Clients : Traced(d)' => Traced(d) /\ d # c
    BY <1>5
  <2> QED
    BY <1>2, <1>3, <1>5, <2>1 DEF Trace
<1>14. Todo'
  <2>1. ASSUME NEW d \in Clients, Unended(d)'
        PROVE  Unended(d) /\ d # c
    BY <1>5, <2>1
  <2> QED
    BY <1>2, <1>3, <2>1 DEF Todo, Planned, Logged, InPlace
<1>15. UndoJob'
  BY <1>2 DEF UndoJob
<1> QED
  BY <1>7, <1>9, <1>10, <1>11, <1>12, <1>13, <1>14, <1>15 DEF Rest

\* commit() is told to go on: nothing is loose, so the files hold what was committed, and
\* all of commit() is still to do.
LEMMA BeginCommitStep ==
  ASSUME SerialCommits, IInv, NEW c \in Clients, Commit(c) \/ CommitUnheard(c)
  PROVE  Rest'
<1> USE DEF IInv
<1> DEFINE ws == CommitWrites(tid[c], blockmap[c])
<1>1. /\ phase[c] = "ready" /\ \A d \in Clients : ~ InCommit(d)
      /\ BrokenTransactions(log) = {}
      /\ UNCHANGED <<index, store, log, begun, next_tid, epoch, crashes, mode, job, victim, orphans,
                     tid, blockmap, logpos, db, stale>>
      /\ committing' \subseteq committing \cup {c} /\ mode \in {"serving", "down"}
  <2>1. BeginCommit(c) /\ committing' \subseteq committing \cup {c}
    BY DEF Commit, CommitUnheard
  <2>2. mode \in {"serving", "down"}
    BY DEF Commit, CommitUnheard, Operating
  <2> QED
    BY <2>1, <2>2 DEF BeginCommit, files, history
<1>2. /\ phase' = [phase EXCEPT ![c] = "committing"]
      /\ todo' = [todo EXCEPT ![c] = ws]
  BY DEF Commit, CommitUnheard, BeginCommit
<1> HIDE DEF ws
<1>3. /\ phase'[c] = "committing" /\ todo'[c] = ws
      /\ \A d \in Clients \ {c} : phase'[d] = phase[d] /\ todo'[d] = todo[d]
  BY <1>2 DEF Types
<1>4. Loose(log) = {}
  <2>1. BrokenTransactions(log) = {log[i].tid : i \in Loose(log)}
    BY BrokenAreLoose, ConstantsAssumption DEF Types
  <2> QED
    BY <1>1, <2>1
<1>5. \A b \in BlockNumbers \ stale : TheView[b] = db[b]
  BY <1>4 DEF Undoable, DifferencesCovered, TheView
<1>6. \A d \in Clients : d # c => ~ InCommit(d)' /\ ~ Unended(d)' /\ ~ Traced(d)'
  BY <1>1, <1>3 DEF InCommit, Unended, Traced
<1>7. Numbers'
  BY <1>1, <1>3 DEF Numbers
<1>8. NoConflicts'
  BY <1>1 DEF NoConflicts
<1>9. EntriesTrue'
  <2> SUFFICES ASSUME NEW d \in Clients, NEW b \in BlockNumbers, blockmap[d][b] # NoEntry
               PROVE  LET e == blockmap[d][b] IN
                      /\ e.lock = "A_LOCK" => e.oldindex = "U"
                      /\ e.lock = "W_LOCK" => e.oldindex = "A"
                      /\ b \notin stale /\ Writing(e) /\ (phase'[d] = "ready" \/ Unended(d)')
                           => Found(e) = db[b]
                      /\ b \notin stale /\ Unended(d)' /\ e.lock = "W_LOCK" => index[b] = "A"
    BY <1>1 DEF EntriesTrue
  <2>1. CASE d # c
    BY <1>3, <1>6, <2>1 DEF EntriesTrue
  <2>2. CASE d = c
    <3>1. /\ blockmap[c][b].lock = "A_LOCK" => blockmap[c][b].oldindex = "U"
          /\ blockmap[c][b].lock = "W_LOCK" => blockmap[c][b].oldindex = "A"
          /\ b \notin stale /\ Writing(blockmap[c][b]) => Found(blockmap[c][b]) = db[b]
      BY <1>1, <2>2 DEF EntriesTrue
    <3>2. b \notin stale /\ blockmap[c][b].lock = "W_LOCK" => index[b] = "A"
      <4>1. b \notin stale /\ blockmap[c][b].lock = "W_LOCK"
              => TheView[b] = <<"A", blockmap[c][b].oldval>>
        BY <1>5, <3>1 DEF Found, Writing
      <4> QED
        BY <4>1 DEF TheView, View
    <3> QED
      BY <2>2, <3>1, <3>2
  <2> QED
    BY <2>1, <2>2
<1>10. Undoable'
  BY <1>1 DEF Undoable
<1>11. OneCommit'
  BY <1>1, <1>4, <1>6 DEF OneCommit
<1>12. logpos[c] = 0 /\ \A i \in 1 .. Len(log) : log[i].tid # tid[c]
  BY <1>1 DEF Numbers
<1>13. Trace'
  <2>1. \A d \in Clients : Traced(d)' => d = c
    BY <1>6
  <2>2. \A i \in 1 .. Len(log) : ~ (i <= 0)
    OBVIOUS
  <2>3. 1 .. 0 = {}
    OBVIOUS
  <2> QED
    BY <1>1, <1>12, <2>1, <2>2, <2>3 DEF Trace
<1>14. Todo'
  <2>1. tid[c] \in 1 .. MaxTransactions /\ MaxTransactions \in Nat
        /\ blockmap[c] \in [BlockNumbers -> LockEntries(MaxTransactions)]
    BY <1>1, ConstantsAssumption DEF Types
  <2>2. /\ ws \in Seq(FileWrites(MaxTransactions)) /\ Len(ws) \in Nat /\ Len(ws) >= 2
        /\ ws[1] = ToLog(LogRecord(tid[c], "LBEGIN"))
        /\ ws[Len(ws)] = ToLog(LogRecord(tid[c], "LEND"))
        /\ \A j \in 2 .. Len(ws) - 1 : Covered(tid[c], blockmap[c], ws, j)
        /\ \A b \in BlockNumbers : DataWrites(b, blockmap[c][b]) \subseteq Elements(ws)
    BY <2>1, CommitContent DEF ws
  <2>3. ASSUME NEW j \in 1 .. Len(ws) PROVE Planned(c, j)'
    <3>1. CASE j = 1
      BY <1>1, <1>3, <1>12, <2>2, <3>1 DEF Planned
    <3>2. CASE j = Len(ws)
      BY <1>1, <1>3, <2>2, <3>2 DEF Planned
    <3>3. CASE j \in 2 .. Len(ws) - 1
      <4>1. PICK b \in BlockNumbers :
              \/ ws[j] = ToLog(RecordOf(tid[c], b, blockmap[c][b])) /\ blockmap[c][b] # NoEntry
              \/ /\ ws[j] \in DataWrites(b, blockmap[c][b])
                 /\ \E i \in 1 .. j - 1 : ws[i] = ToLog(RecordOf(tid[c], b, blockmap[c][b]))
        BY <2>2, <3>3 DEF Covered
      <4>2. \/ ws[j] = ToLog(RecordOf(tid[c], b, blockmap[c][b])) /\ blockmap[c][b] # NoEntry
            \/ /\ ws[j] \in DataWrites(b, blockmap[c][b])
               /\ ToLog(RecordOf(tid[c], b, blockmap[c][b])) \in Before(ws, j)
        BY <4>1 DEF Before
      <4> QED
        BY <1>1, <1>3, <4>2, Zenon DEF Planned
    <3> QED
      BY <2>2, <3>1, <3>2, <3>3
  <2>4. \A d \in Clients : Unended(d)' => d = c
    BY <1>6
  <2> QED
    BY <1>1, <1>3, <2>2, <2>3, <2>4, Zenon DEF Todo
<1>15. UndoJob'
  BY <1>1 DEF UndoJob
<1> QED
  BY <1>7, <1>8, <1>9, <1>10, <1>11, <1>13, <1>14, <1>15 DEF Rest

\* A client that was flushed has no locks.
LEMMA EmptyMapHasNoEntries == \A b \in BlockNumbers : EmptyMap[b] = NoEntry
BY DEF EmptyMap

\* End(c), Leave(c) and Disconnect(c) of a client that was not in commit: a client
\* is out of the picture, what it has left in the files is not.
LEMMA GoneStep ==
  ASSUME IInv, NEW c \in Clients, ~ Unended(c)',
         phase' = [phase EXCEPT ![c] = phase'[c]], phase'[c] \in {"gone", "idle"}, phase[c] # "idle",
         \/ blockmap' = blockmap
         \/ blockmap' = [blockmap EXCEPT ![c] = EmptyMap] /\ (InCommit(c) => mode = "down"),
         \/ committing' = committing
         \/ committing' = committing \ {c} /\ (InCommit(c) => Loose(log) = {}),
         todo' = todo \/ todo' = [todo EXCEPT ![c] = << >>],
         mode \in {"rollback", "scanning"} => victim # c,
         UNCHANGED <<index, store, log, begun, next_tid, epoch, mode, job, victim, tid, logpos,
                     db, stale>>
  PROVE  Rest'
<1> USE DEF IInv
<1>1. \A d \in Clients \ {c} : /\ phase'[d] = phase[d] /\ blockmap'[d] = blockmap[d]
                               /\ todo'[d] = todo[d] /\ (d \in committing' <=> d \in committing)
  BY DEF Types
<1>2. \/ blockmap'[c] = blockmap[c] \/ blockmap'[c] = EmptyMap
  BY DEF Types
<1>3. \A b \in BlockNumbers : blockmap'[c][b] = blockmap[c][b] \/ blockmap'[c][b] = NoEntry
  BY <1>2, EmptyMapHasNoEntries
<1>4. \A d \in Clients : /\ InCommit(d)' => InCommit(d)
                         /\ Unended(d)' => Unended(d) /\ d # c
                         /\ Traced(d)' => Traced(d)
                         /\ phase'[d] = "committing" => phase[d] = "committing" /\ d # c
                         /\ phase'[d] \in {"begun", "ready"} => phase'[d] = phase[d] /\ d # c
                         /\ phase'[d] # "idle" => phase[d] # "idle"
  <2>1. ASSUME NEW d \in Clients \ {c}
        PROVE  /\ InCommit(d)' => InCommit(d)
               /\ Unended(d)' => Unended(d) /\ d # c
               /\ Traced(d)' => Traced(d)
               /\ phase'[d] = "committing" => phase[d] = "committing" /\ d # c
               /\ phase'[d] \in {"begun", "ready"} => phase'[d] = phase[d] /\ d # c
               /\ phase'[d] # "idle" => phase[d] # "idle"
    BY <1>1 DEF InCommit, Unended, Traced
  <2>2. /\ InCommit(c)' => InCommit(c)
        /\ Traced(c)' => Traced(c)
    BY DEF InCommit, Traced
  <2> QED
    BY <2>1, <2>2
<1>5. Numbers'
  BY <1>4 DEF Numbers
<1>6. NoConflicts'
  <2> SUFFICES ASSUME NEW d \in Clients, NEW e \in Clients, NEW b \in BlockNumbers, d # e
               PROVE  ~ Conflicting(blockmap'[d][b], blockmap'[e][b])
    BY DEF NoConflicts
  <2>1. /\ blockmap'[d][b] = blockmap[d][b] \/ blockmap'[d][b] = NoEntry
        /\ blockmap'[e][b] = blockmap[e][b] \/ blockmap'[e][b] = NoEntry
    BY <1>1, <1>3
  <2>2. ~ Conflicting(blockmap[d][b], blockmap[e][b])
    BY DEF NoConflicts
  <2> QED
    BY <2>1, <2>2 DEF Conflicting
<1>7. EntriesTrue'
  <2> SUFFICES ASSUME NEW d \in Clients, NEW b \in BlockNumbers, blockmap'[d][b] # NoEntry
               PROVE  LET e == blockmap'[d][b] IN
                      /\ e.lock = "A_LOCK" => e.oldindex = "U"
                      /\ e.lock = "W_LOCK" => e.oldindex = "A"
                      /\ b \notin stale /\ Writing(e) /\ (phase'[d] = "ready" \/ Unended(d)')
                           => Found(e) = db[b]
                      /\ b \notin stale /\ Unended(d)' /\ e.lock = "W_LOCK" => index[b] = "A"
    BY DEF EntriesTrue
  <2>1. blockmap'[d][b] = blockmap[d][b]
    BY <1>1, <1>3
  <2> QED
    BY <1>4, <2>1 DEF EntriesTrue
<1>8. Undoable'
  BY DEF Undoable
<1>9. OneCommit'
  <2>1. \A d, e \in Clients : InCommit(d)' /\ InCommit(e)' => d = e
    BY <1>4 DEF OneCommit
  <2>2. ASSUME NEW d \in Clients, phase'[d] = "committing", NEW i \in Loose(log)
        PROVE  log[i].tid = tid[d] /\ todo'[d] # << >>
    BY <1>1, <1>4, <2>2 DEF OneCommit
  <2>3. ASSUME Serving, NEW i \in Loose(log)
        PROVE  \E d \in Clients : /\ InCommit(d)' /\ tid[d] = log[i].tid
                                  /\ log[i].action \in Undoing => Writing(blockmap'[d][log[i].block])
    <3>1. PICK d \in Clients : /\ InCommit(d) /\ tid[d] = log[i].tid
                               /\ log[i].action \in Undoing => Writing(blockmap[d][log[i].block])
      BY <2>3 DEF OneCommit
    <3>2. CASE d # c
      <4>1. InCommit(d)' /\ blockmap'[d] = blockmap[d]
        BY <1>1, <3>1, <3>2 DEF InCommit
      <4> QED
        BY <3>1, <4>1
    <3>3. CASE d = c
      <4>1. mode # "down" /\ committing' = committing
        BY <2>3, <3>1, <3>3 DEF Serving
      <4>2. blockmap'[c] = blockmap[c]
        BY <3>1, <3>3, <4>1
      <4>3. c \in committing
        BY <2>3, <3>1, <3>3 DEF InCommit, Operating
      <4> QED
        BY <3>1, <3>3, <4>1, <4>2, <4>3 DEF InCommit
    <3> QED
      BY <3>2, <3>3
  <2> QED
    BY <2>1, <2>2, <2>3 DEF OneCommit, Serving
<1>10. Trace'
  <2> SUFFICES ASSUME NEW d \in Clients, Traced(d)'
               PROVE  /\ \A i \in 1 .. Len(log) : log[i].tid = tid[d] <=> i <= logpos[d]
                      /\ \A i \in 1 .. logpos[d] :
                           /\ log[i].action = "LBEGIN" <=> i = 1
                           /\ log[i].action = "LEND" => i = logpos[d] /\ ~ Unended(d)'
                           /\ log[i].action # "LABORT"
                           /\ log[i].action \in Undoing =>
                                /\ Writing(blockmap'[d][log[i].block])
                                /\ log[i] = RecordOf(tid[d], log[i].block, blockmap'[d][log[i].block])
    BY DEF Trace
  <2>1. blockmap'[d] = blockmap[d] /\ (Unended(d)' => Unended(d))
    <3>1. CASE d # c
      BY <1>1, <1>4, <3>1
    <3>2. CASE d = c
      <4>1. mode = "serving" /\ InCommit(c)
        BY <1>4, <3>2 DEF Traced, InCommit
      <4> QED
        BY <1>4, <3>2, <4>1
    <3> QED
      BY <3>1, <3>2
  <2> QED
    BY <1>4, <2>1 DEF Trace
<1>11. Todo'
  <2>1. \A d \in Clients : Unended(d)' => Unended(d) /\ blockmap'[d] = blockmap[d] /\ todo'[d] = todo[d]
    BY <1>1, <1>4
  <2> QED
    BY <2>1 DEF Todo, Planned, Logged, InPlace
<1>12. UndoJob'
  <2>1. mode = "rollback" => blockmap'[victim] = blockmap[victim]
    <3>1. mode = "rollback" => victim \in Clients \ {c}
      BY DEF Types, Operating
    <3> QED
      BY <1>1, <3>1
  <2> QED
    BY <2>1 DEF UndoJob, InPlace
<1> QED
  BY <1>5, <1>6, <1>7, <1>8, <1>9, <1>10, <1>11, <1>12 DEF Rest

\* A client that has finished commit(), or dies, stops where it is.
LEMMA EndStep ==
  ASSUME IInv, NEW c \in Clients, End(c) \/ Leave(c)
  PROVE  Rest'
<1> USE DEF IInv
<1>1. CASE End(c)
  <2>1. /\ phase[c] = "committing" /\ todo[c] = << >> /\ (c \in orphans \/ mode = "serving")
        /\ committing' = committing \ {c}
        /\ \/ c \in orphans /\ phase' = [phase EXCEPT ![c] = "idle"]
              /\ blockmap' = [blockmap EXCEPT ![c] = EmptyMap]
           \/ phase' = [phase EXCEPT ![c] = "gone"] /\ blockmap' = blockmap
        /\ UNCHANGED <<index, store, log, begun, next_tid, epoch, mode, job, victim, tid, todo,
                       logpos, db, stale>>
    BY <1>1 DEF End, files, history
  <2>2. Loose(log) = {}
    BY <2>1 DEF OneCommit
  <2>3. mode \in {"serving", "down"} /\ (c \in orphans => mode = "down")
    BY <2>1 DEF Operating
  <2>4. phase'[c] \in {"gone", "idle"} /\ phase' = [phase EXCEPT ![c] = phase'[c]]
    BY <2>1 DEF Types
  <2>5. ~ Unended(c)'
    BY <2>4 DEF Unended
  <2> QED
    BY <2>1, <2>2, <2>3, <2>4, <2>5, GoneStep
<1>2. CASE Leave(c)
  <2>1. /\ phase[c] \in {"begun", "ready", "committing"} /\ todo' = [todo EXCEPT ![c] = << >>]
        /\ committing' = committing
        /\ \/ c \in orphans /\ phase' = [phase EXCEPT ![c] = "idle"]
              /\ blockmap' = [blockmap EXCEPT ![c] = EmptyMap]
           \/ phase' = [phase EXCEPT ![c] = "gone"] /\ blockmap' = blockmap
        /\ UNCHANGED <<index, store, log, begun, next_tid, epoch, mode, job, victim, tid, logpos,
                       db, stale>>
    BY <1>2 DEF Leave, files, monitor, history
  <2>2. (c \in orphans => mode = "down") /\ (mode \in {"rollback", "scanning"} => victim # c)
    BY <2>1 DEF Operating
  <2>3. phase'[c] \in {"gone", "idle"} /\ phase' = [phase EXCEPT ![c] = phase'[c]]
    BY <2>1 DEF Types
  <2>4. ~ Unended(c)'
    BY <2>3 DEF Unended
  <2> QED
    BY <2>1, <2>2, <2>3, <2>4, GoneStep
<1> QED
  BY <1>1, <1>2

\* rollback() is over: nothing is loose, so its client can be flushed.
LEMMA RolledBackStep ==
  ASSUME IInv, RolledBack
  PROVE  Rest'
<1> USE DEF IInv
<1>1. /\ mode = "rollback" /\ job = << >> /\ mode' = "serving" /\ Flush(victim)
      /\ UNCHANGED <<index, store, log, begun, next_tid, epoch, job, orphans, tid, todo, logpos,
                     db, stale>>
  BY DEF RolledBack, files, history
<1>2. victim \in Clients /\ victim \in committing /\ InCommit(victim) /\ phase[victim] = "gone"
  BY <1>1 DEF Operating, InCommit, Types
<1>3. Loose(log) = {}
  <2>1. Len(job) = 0
    BY <1>1
  <2>2. Elements(job) = {}
    BY <2>1 DEF Elements
  <2> QED
    BY <1>1, <2>2 DEF UndoJob
<1>4. \A d \in Clients : InCommit(d) => d = victim
  BY <1>2 DEF OneCommit
<1>5. /\ phase'[victim] = "idle" /\ blockmap'[victim] = EmptyMap /\ committing' = {}
      /\ \A d \in Clients \ {victim} : phase'[d] = phase[d] /\ blockmap'[d] = blockmap[d]
  <2>1. committing \subseteq {victim}
    BY <1>4 DEF InCommit, Types
  <2> QED
    BY <1>1, <1>2, <2>1 DEF Flush, Types
<1>6. \A d \in Clients : /\ phase'[d] # "committing"
                         /\ phase'[d] \in {"begun", "ready"} => phase'[d] = phase[d]
                         /\ phase'[d] # "idle" => phase[d] # "idle"
  BY <1>2, <1>4, <1>5 DEF InCommit
<1>7. \A d \in Clients : ~ InCommit(d)' /\ ~ Unended(d)' /\ ~ Traced(d)'
  BY <1>5, <1>6 DEF InCommit, Unended, Traced
<1>8. \A d \in Clients : \A b \in BlockNumbers :
        blockmap'[d][b] = blockmap[d][b] \/ blockmap'[d][b] = NoEntry
  BY <1>5, EmptyMapHasNoEntries
<1>9. Numbers'
  BY <1>1, <1>6 DEF Numbers
<1>10. NoConflicts'
  <2> SUFFICES ASSUME NEW d \in Clients, NEW e \in Clients, NEW b \in BlockNumbers, d # e
               PROVE  ~ Conflicting(blockmap'[d][b], blockmap'[e][b])
    BY DEF NoConflicts
  <2>1. ~ Conflicting(blockmap[d][b], blockmap[e][b])
    BY DEF NoConflicts
  <2> QED
    BY <1>8, <2>1 DEF Conflicting
<1>11. EntriesTrue'
  <2> SUFFICES ASSUME NEW d \in Clients, NEW b \in BlockNumbers, blockmap'[d][b] # NoEntry
               PROVE  LET e == blockmap'[d][b] IN
                      /\ e.lock = "A_LOCK" => e.oldindex = "U"
                      /\ e.lock = "W_LOCK" => e.oldindex = "A"
                      /\ b \notin stale' /\ Writing(e) /\ (phase'[d] = "ready" \/ Unended(d)')
                           => Found(e) = db'[b]
                      /\ b \notin stale' /\ Unended(d)' /\ e.lock = "W_LOCK" => index'[b] = "A"
    BY DEF EntriesTrue
  <2>1. blockmap'[d][b] = blockmap[d][b]
    BY <1>8
  <2> QED
    BY <1>1, <1>6, <1>7, <2>1 DEF EntriesTrue
<1>12. Undoable'
  BY <1>1 DEF Undoable
<1>13. OneCommit' /\ Trace' /\ Todo'
  BY <1>1, <1>3, <1>6, <1>7 DEF OneCommit, Trace, Todo
<1>14. UndoJob'
  BY <1>1 DEF UndoJob
<1> QED
  BY <1>9, <1>10, <1>11, <1>12, <1>13, <1>14 DEF Rest

\* The monitor dies: its clients are orphans, the files are as they were.
LEMMA MonitorDiesStep ==
  ASSUME IInv, MonitorDies
  PROVE  Rest'
<1> USE DEF IInv
<1>1. /\ mode' = "down" /\ committing' = {}
      /\ phase' = [c \in Clients |-> IF phase[c] \in {"begun", "gone"} THEN "idle" ELSE phase[c]]
      /\ blockmap' = [c \in Clients |-> IF phase[c] = "gone" THEN EmptyMap ELSE blockmap[c]]
      /\ UNCHANGED <<index, store, log, begun, next_tid, epoch, tid, todo, logpos, db, stale>>
  BY DEF MonitorDies, files, history
<1>2. \A d \in Clients : /\ phase'[d] = "committing" => phase[d] = "committing"
                         /\ phase'[d] \in {"begun", "ready"} => phase'[d] = phase[d]
                         /\ phase'[d] # "idle" => phase[d] # "idle" /\ blockmap'[d] = blockmap[d]
  BY <1>1
<1>3. \A d \in Clients : /\ InCommit(d)' => InCommit(d)
                         /\ Unended(d)' <=> Unended(d)
                         /\ Traced(d)' => Traced(d) /\ blockmap'[d] = blockmap[d]
  BY <1>1 DEF InCommit, Unended, Traced
<1>4. \A d \in Clients : \A b \in BlockNumbers :
        blockmap'[d][b] = blockmap[d][b] \/ blockmap'[d][b] = NoEntry
  BY <1>1, EmptyMapHasNoEntries
<1>5. Numbers'
  BY <1>1, <1>2 DEF Numbers
<1>6. NoConflicts'
  <2> SUFFICES ASSUME NEW d \in Clients, NEW e \in Clients, NEW b \in BlockNumbers, d # e
               PROVE  ~ Conflicting(blockmap'[d][b], blockmap'[e][b])
    BY DEF NoConflicts
  <2>1. ~ Conflicting(blockmap[d][b], blockmap[e][b])
    BY DEF NoConflicts
  <2> QED
    BY <1>4, <2>1 DEF Conflicting
<1>7. EntriesTrue'
  <2> SUFFICES ASSUME NEW d \in Clients, NEW b \in BlockNumbers, blockmap'[d][b] # NoEntry
               PROVE  LET e == blockmap'[d][b] IN
                      /\ e.lock = "A_LOCK" => e.oldindex = "U"
                      /\ e.lock = "W_LOCK" => e.oldindex = "A"
                      /\ b \notin stale' /\ Writing(e) /\ (phase'[d] = "ready" \/ Unended(d)')
                           => Found(e) = db'[b]
                      /\ b \notin stale' /\ Unended(d)' /\ e.lock = "W_LOCK" => index'[b] = "A"
    BY DEF EntriesTrue
  <2>1. blockmap'[d][b] = blockmap[d][b]
    BY <1>4
  <2> QED
    BY <1>1, <1>2, <1>3, <2>1 DEF EntriesTrue
<1>8. Undoable'
  BY <1>1 DEF Undoable
<1>9. OneCommit'
  <2>1. \A d, e \in Clients : InCommit(d)' /\ InCommit(e)' => d = e
    BY <1>3 DEF OneCommit
  <2>2. ~ Serving'
    BY <1>1 DEF Serving
  <2> QED
    BY <1>1, <1>2, <2>1, <2>2 DEF OneCommit
<1>10. Trace'
  BY <1>1, <1>3 DEF Trace
<1>11. Todo'
  <2>1. \A d \in Clients : Unended(d)' => Unended(d) /\ blockmap'[d] = blockmap[d]
    BY <1>2, <1>3 DEF Unended
  <2> QED
    BY <1>1, <2>1 DEF Todo, Planned, Logged, InPlace
<1>12. UndoJob'
  BY <1>1 DEF UndoJob
<1> QED
  BY <1>5, <1>6, <1>7, <1>8, <1>9, <1>10, <1>11, <1>12 DEF Rest

\* The changes of mode that touch nothing else of the clients or the files.
LEMMA ModeStep ==
  ASSUME IInv, ~ Serving', mode' # "serving",
         UNCHANGED <<index, store, log, begun, next_tid, epoch, victim, committing, orphans,
                     phase, tid, blockmap, todo, logpos, db, stale>>
  PROVE  /\ Numbers' /\ NoConflicts' /\ EntriesTrue' /\ Undoable'
         /\ OneCommit' /\ Trace' /\ Todo'
<1> USE DEF IInv
<1>1. \A d \in Clients : /\ InCommit(d)' <=> InCommit(d)
                         /\ Unended(d)' <=> Unended(d)
                         /\ Traced(d)' => Traced(d)
  BY DEF InCommit, Unended, Traced
<1>2. Numbers' /\ NoConflicts' /\ Undoable'
  BY DEF Numbers, NoConflicts, Undoable
<1>3. EntriesTrue'
  BY <1>1 DEF EntriesTrue
<1>4. OneCommit'
  BY <1>1 DEF OneCommit
<1>5. Trace'
  BY <1>1 DEF Trace
<1>6. Todo'
  BY <1>1 DEF Todo, Planned, Logged, InPlace
<1> QED
  BY <1>2, <1>3, <1>4, <1>5, <1>6

\* recover starts, dies or ends: what doRecovery() has to do follows from the log alone.
LEMMA RecoverStep ==
  ASSUME IInv, Recover \/ RecoverDies \/ Recovered
  PROVE  Rest'
<1> USE DEF IInv
<1>1. /\ ~ Serving' /\ mode' # "serving"
      /\ UNCHANGED <<index, store, log, begun, next_tid, epoch, victim, committing, orphans,
                     phase, tid, blockmap, todo, logpos, db, stale>>
  BY DEF Recover, RecoverDies, Recovered, Serving, files, clientVars, history
<1>2. /\ Numbers' /\ NoConflicts' /\ EntriesTrue' /\ Undoable'
      /\ OneCommit' /\ Trace' /\ Todo'
  BY <1>1, ModeStep
<1>3. CASE RecoverDies \/ Recovered
  <2>1. mode' \in {"down", "recovered"}
    BY <1>3 DEF RecoverDies, Recovered
  <2>2. UndoJob'
    BY <2>1 DEF UndoJob
  <2> QED
    BY <1>2, <2>2 DEF Rest
<1>4. CASE Recover
  <2> DEFINE ws == RecoveryWrites(log)
             N == MaxTransactions
  <2>1. mode' = "recover" /\ job' = ws
    BY <1>4 DEF Recover
  <2>2. log \in Seq(LogRecords(N)) /\ N \in Nat /\ begun \in Nat
    BY ConstantsAssumption DEF Types
  <2>3. /\ \A j \in 1 .. Len(ws) :
             \E i \in Loose(log) : ws[j] \in UndoSet(log[i]) \/ ws[j] = Mark(log[i].tid)
        /\ \A i \in Loose(log) : \A j \in 1 .. Len(ws) :
             ws[j] = Mark(log[i].tid) =>
               \A w \in UndoSet(log[i]) : \E k \in 1 .. j - 1 : ws[k] = w
    BY <2>2, RecoveryContent
  <2> HIDE DEF ws
  <2>4. ASSUME NEW i \in Loose(log)
        PROVE  /\ log[i].tid \in 1 .. begun
               /\ \A w \in UndoSet(log[i]) :
                    w.file # "log" /\ (w.block \notin stale => Agrees(db, w))
    <3>1. i \in 1 .. Len(log) /\ log[i] \in LogRecords(N) /\ log[i].tid \in 1 .. N
      BY <2>2, RecordTypes DEF Loose
    <3>2. log[i].tid \in 1 .. begun
      BY <2>2, <3>1 DEF Numbers
    <3>3. ASSUME NEW w \in UndoSet(log[i])
          PROVE  w.file # "log" /\ (w.block \notin stale => Agrees(db, w))
      <4>1. w.file \in {"index", "store"} /\ w.block = log[i].block /\ log[i].action \in Undoing
        BY UndoSetBlock
      <4>2. w.block \notin stale => RestoredBy(log[i]) = db[log[i].block]
        BY <4>1 DEF Undoable, LooseRecordsRestore
      <4>3. w.block \notin stale => Agrees(db, w)
        BY <2>2, <3>1, <4>1, <4>2, UndoSetAgrees
      <4> QED
        BY <4>1, <4>3
    <3> QED
      BY <3>2, <3>3
  <2>5. \A w \in Elements(ws) : \/ w.file # "log" /\ (w.block \notin stale => Agrees(db, w))
                                \/ \E t \in 1 .. begun : w = Mark(t)
    BY <2>3, <2>4 DEF Elements
  <2>6. \A i \in Loose(log) : \A j \in 1 .. Len(ws) :
          ws[j] = Mark(log[i].tid) => \A w \in UndoSet(log[i]) : w \in Before(ws, j)
    <3> SUFFICES ASSUME NEW i \in Loose(log), NEW j \in 1 .. Len(ws), ws[j] = Mark(log[i].tid),
                        NEW w \in UndoSet(log[i])
                 PROVE  w \in Before(ws, j)
      OBVIOUS
    <3>1. PICK k \in 1 .. j - 1 : ws[k] = w
      BY <2>3
    <3> QED
      BY <3>1 DEF Before
  <2>7. UndoJob'
    <3>1. mode' # "rollback" /\ log' = log /\ db' = db /\ begun' = begun /\ stale' = stale
      BY <1>1, <2>1
    <3>2. \A w \in Elements(job') : \/ w.file # "log" /\ (w.block \notin stale' => Agrees(db', w))
                                    \/ \E t \in 1 .. begun' : w = Mark(t)
      BY <2>1, <2>5, <3>1
    <3>3. \A i \in Loose(log') : \A j \in 1 .. Len(job') :
            job'[j] = Mark(log'[i].tid) => \A w \in UndoSet(log'[i]) : w \in Before(job', j)
      BY <2>1, <2>6, <3>1
    <3> QED
      BY <3>1, <3>2, <3>3 DEF UndoJob
  <2> QED
    BY <1>2, <2>7 DEF Rest
<1> QED
  BY <1>3, <1>4

\* The log in front of the records of a transaction in commit, as rollback() finds it.
LEMMA ScanOfTheVictim ==
  ASSUME IInv, NEW c \in Clients, Traced(c), InCommit(c), Serving, ScanEnds(log, tid[c])
  PROVE  LET first == ScanStop(log, tid[c])
         IN  /\ log[first].action = "LEND" => Loose(log) = {}
             /\ log[first].action # "LEND" =>
                  /\ RecordsFrom(log, tid[c], first) \subseteq Loose(log)
                  /\ Loose(log) \subseteq RecordsFrom(log, tid[c], first)
<1> USE DEF IInv
<1> DEFINE t     == tid[c]
           p     == logpos[c]
           first == ScanStop(log, t)
<1>1. /\ Len(log) \in Nat /\ p \in Nat /\ p <= Len(log) /\ MaxTransactions \in Nat
      /\ log \in Seq(LogRecords(MaxTransactions))
  BY ConstantsAssumption DEF Types
<1>2. /\ \A i \in 1 .. Len(log) : log[i].tid = t <=> i <= p
      /\ \A i \in 1 .. p : /\ log[i].action = "LBEGIN" <=> i = 1
                           /\ log[i].action = "LEND" => i = p
                           /\ log[i].action # "LABORT"
  BY DEF Trace
<1>3. \A i \in Loose(log) : i \in 1 .. p
  <2> TAKE i \in Loose(log)
  <2>1. PICK d \in Clients : InCommit(d) /\ tid[d] = log[i].tid
    BY DEF OneCommit
  <2>2. d = c
    BY <2>1 DEF OneCommit
  <2>3. i \in 1 .. Len(log)
    BY DEF Loose
  <2> QED
    BY <1>1, <1>2, <2>1, <2>2, <2>3
<1>4. /\ first \in Places(log, t, {"LBEGIN", "LEND"})
      /\ \A i \in Places(log, t, {"LBEGIN", "LEND"}) : i <= first
  BY <1>1, ScanStopIsLast
<1> HIDE DEF t, p, first
<1>5. first \in 1 .. p /\ log[first].action \in {"LBEGIN", "LEND"} /\ first \in 1 .. Len(log)
  BY <1>1, <1>2, <1>4 DEF Places
<1>6. CASE log[first].action = "LEND"
  <2>1. first = p /\ log[first].tid = t
    BY <1>1, <1>2, <1>5, <1>6
  <2>2. \A i \in Loose(log) : FALSE
    <3> TAKE i \in Loose(log)
    <3>1. i \in 1 .. p /\ i \in 1 .. Len(log) /\ first \in i .. Len(log)
      BY <1>1, <1>3, <1>5, <2>1
    <3>2. log[i].tid = t
      BY <1>2, <3>1
    <3> QED
      BY <1>6, <2>1, <3>1, <3>2 DEF Loose, Marks
  <2> QED
    BY <1>6, <2>2 DEF first, t
<1>7. CASE log[first].action # "LEND"
  <2>1. first = 1
    BY <1>2, <1>5, <1>7
  <2>2. \A i \in 1 .. p : log[i].action \notin Marks /\ i \in 1 .. Len(log) /\ log[i].tid = t
    <3> TAKE i \in 1 .. p
    <3>1. i \in 1 .. Len(log)
      BY <1>1
    <3>2. log[i].tid = t
      BY <1>2, <3>1
    <3>3. log[i].action # "LEND"
      <4>1. SUFFICES ASSUME log[i].action = "LEND" PROVE FALSE
        OBVIOUS
      <4>2. i \in Places(log, t, {"LBEGIN", "LEND"})
        BY <3>1, <3>2, <4>1 DEF Places
      <4>3. i = 1
        BY <1>4, <2>1, <4>2
      <4> QED
        BY <1>7, <2>1, <4>1, <4>3
    <3> QED
      BY <1>2, <3>1, <3>2, <3>3 DEF Marks
  <2>3. ASSUME NEW i \in RecordsFrom(log, t, first) PROVE i \in Loose(log)
    <3>1. i \in 1 .. Len(log) /\ log[i].tid = t
      BY <2>1 DEF RecordsFrom
    <3>2. ASSUME NEW j \in i .. Len(log), log[j].tid = t PROVE log[j].action \notin Marks
      <4>1. j \in 1 .. Len(log)
        BY <1>1, <3>1
      <4>2. j \in 1 .. p
        BY <1>2, <3>2, <4>1
      <4> QED
        BY <2>2, <4>2
    <3> QED
      BY <3>1, <3>2 DEF Loose
  <2>4. ASSUME NEW i \in Loose(log) PROVE i \in RecordsFrom(log, t, first)
    <3>1. i \in 1 .. p
      BY <1>3
    <3> QED
      BY <2>1, <2>2, <3>1 DEF RecordsFrom
  <2> QED
    BY <1>7, <2>3, <2>4, Zenon DEF first, t
<1> QED
  BY <1>6, <1>7

\* client_disconnect(): a client in commit() is rolled back, from its own records alone.
LEMMA DisconnectStep ==
  ASSUME IInv, NEW c \in Clients, Disconnect(c)
  PROVE  Rest'
<1> USE DEF IInv
<1>1. /\ mode = "serving" /\ phase[c] = "gone"
      /\ UNCHANGED <<index, store, log, begun, next_tid, epoch, orphans, tid, todo, logpos, db,
                     stale>>
  BY DEF Disconnect, files, history
<1>2. CASE c \notin committing
  <2>1. /\ phase' = [phase EXCEPT ![c] = "idle"] /\ blockmap' = [blockmap EXCEPT ![c] = EmptyMap]
        /\ committing' = committing \ {c} /\ UNCHANGED <<mode, job, victim>>
    BY <1>2 DEF Disconnect, Flush
  <2>2. ~ InCommit(c)
    BY <1>1, <1>2 DEF InCommit
  <2>3. phase'[c] = "idle" /\ phase' = [phase EXCEPT ![c] = phase'[c]]
    BY <2>1 DEF Types
  <2>4. ~ Unended(c)'
    BY <2>3 DEF Unended
  <2>5. \/ committing' = committing
        \/ committing' = committing \ {c} /\ (InCommit(c) => Loose(log) = {})
    BY <2>1, <2>2
  <2> QED
    BY <1>1, <2>1, <2>2, <2>3, <2>4, <2>5, GoneStep
<1>3. CASE c \in committing
  <2>1. /\ mode' = IF ScanEnds(log, tid[c]) THEN "rollback" ELSE "scanning"
        /\ job' = IF ScanEnds(log, tid[c]) THEN RollbackWrites(log, tid[c]) ELSE << >>
        /\ victim' = c /\ UNCHANGED <<phase, blockmap, committing>>
    BY <1>3 DEF Disconnect
  <2>2. InCommit(c) /\ Traced(c) /\ Serving /\ Serving' /\ mode' \in {"rollback", "scanning"}
    BY <1>1, <1>3, <2>1 DEF InCommit, Traced, Serving
  <2>3. \A d \in Clients : /\ InCommit(d)' <=> InCommit(d)
                           /\ ~ Unended(d) /\ ~ Unended(d)' /\ ~ Traced(d)'
    <3>1. \A d \in Clients : phase[d] = "committing" => d = c
      BY <2>2 DEF OneCommit, InCommit
    <3> QED
      BY <1>1, <2>1, <2>2, <3>1 DEF InCommit, Unended, Traced
  <2>4. Numbers' /\ NoConflicts' /\ Undoable' /\ Trace' /\ Todo'
    BY <1>1, <2>1, <2>3 DEF Numbers, NoConflicts, Undoable, Trace, Todo
  <2>5. EntriesTrue'
    BY <1>1, <2>1, <2>3 DEF EntriesTrue
  <2>6. OneCommit'
    BY <1>1, <2>1, <2>2, <2>3 DEF OneCommit
  <2>7. ASSUME ScanEnds(log, tid[c]) PROVE UndoJob'
    <3> DEFINE t     == tid[c]
               ws    == RollbackWrites(log, t)
               first == ScanStop(log, t)
               N     == MaxTransactions
    <3>1. /\ log \in Seq(LogRecords(N)) /\ N \in Nat /\ begun \in Nat
          /\ t \in 1 .. N /\ t \in 1 .. begun
      BY <1>1, ConstantsAssumption DEF Types, Numbers
    <3>2. /\ log[first].action = "LEND" => ws = << >>
          /\ log[first].action # "LEND" =>
               /\ Len(ws) \in Nat \ {0} /\ ws[Len(ws)] = Mark(t)
               /\ \A j \in 1 .. Len(ws) - 1 :
                    \E i \in RecordsFrom(log, t, first) : ws[j] \in UndoSet(log[i])
               /\ \A i \in RecordsFrom(log, t, first) : \A w \in UndoSet(log[i]) :
                    \E j \in 1 .. Len(ws) - 1 : ws[j] = w
      BY <2>7, <3>1, RollbackContent
    <3>3. /\ log[first].action = "LEND" => Loose(log) = {}
          /\ log[first].action # "LEND" =>
               /\ RecordsFrom(log, t, first) \subseteq Loose(log)
               /\ Loose(log) \subseteq RecordsFrom(log, t, first)
      BY <2>2, <2>7, ScanOfTheVictim
    <3>4. mode' = "rollback" /\ job' = ws /\ victim' = c
      BY <2>1, <2>7
    <3> HIDE DEF t, ws, first, N
    <3>5. CASE log[first].action = "LEND"
      <4>1. ws = << >> /\ Loose(log) = {} /\ Len(ws) = 0
        BY <3>2, <3>3, <3>5
      <4>2. Elements(ws) = {}
        BY <4>1 DEF Elements
      <4> QED
        BY <1>1, <3>4, <4>1, <4>2 DEF UndoJob
    <3>6. CASE log[first].action # "LEND"
      <4>1. ASSUME NEW i \in Loose(log), NEW w \in UndoSet(log[i])
            PROVE  /\ w.file \in {"index", "store"} /\ (w.block \notin stale => Agrees(db, w))
                   /\ Writing(blockmap[c][w.block])
        <5>1. i \in 1 .. Len(log) /\ log[i] \in LogRecords(N)
          BY <3>1, RecordTypes DEF Loose
        <5>2. w.file \in {"index", "store"} /\ w.block = log[i].block /\ log[i].action \in Undoing
          BY <4>1, UndoSetBlock
        <5>3. w.block \notin stale => RestoredBy(log[i]) = db[log[i].block]
          BY <5>2 DEF Undoable, LooseRecordsRestore
        <5>4. w.block \notin stale => Agrees(db, w)
          BY <3>1, <4>1, <5>1, <5>2, <5>3, UndoSetAgrees
        <5>5. PICK d \in Clients : InCommit(d) /\ Writing(blockmap[d][log[i].block])
          BY <2>2, <5>2 DEF OneCommit
        <5>6. d = c
          BY <2>2, <5>5 DEF OneCommit
        <5> QED
          BY <5>2, <5>4, <5>5, <5>6
      <4>2. ASSUME NEW j \in 1 .. Len(ws)
            PROVE  \/ j = Len(ws) /\ ws[j] = Mark(t)
                   \/ /\ ws[j].file \in {"index", "store"}
                      /\ ws[j].block \notin stale => Agrees(db, ws[j])
                      /\ Writing(blockmap[c][ws[j].block])
        <5>1. CASE j = Len(ws)
          BY <3>2, <3>6, <5>1
        <5>2. CASE j # Len(ws)
          <6>1. j \in 1 .. Len(ws) - 1
            BY <3>2, <3>6, <5>2
          <6>2. PICK i \in RecordsFrom(log, t, first) : ws[j] \in UndoSet(log[i])
            BY <3>2, <3>6, <6>1
          <6>3. i \in Loose(log)
            BY <3>3, <3>6
          <6> QED
            BY <4>1, <6>2, <6>3
        <5> QED
          BY <5>1, <5>2
      <4>3. Mark(t).file = "log"
        BY DEF Mark, ToLog
      <4>4. \A w \in Elements(ws) :
              \/ w = Mark(t)
              \/ /\ w.file \in {"index", "store"} /\ (w.block \notin stale => Agrees(db, w))
                 /\ Writing(blockmap[c][w.block])
        BY <4>2 DEF Elements
      <4>5. Mark(t) \in Elements(ws)
        BY <3>2, <3>6 DEF Elements
      <4>6. \A i \in Loose(log) : log[i].tid = t
        BY <3>3, <3>6 DEF RecordsFrom
      <4>7. ASSUME NEW i \in Loose(log), NEW j \in 1 .. Len(ws), ws[j] = Mark(log[i].tid),
                   NEW w \in UndoSet(log[i])
            PROVE  w \in Before(ws, j)
        <5>1. ws[j] = Mark(t) /\ j = Len(ws)
          BY <4>2, <4>3, <4>6, <4>7
        <5>2. \E k \in 1 .. Len(ws) - 1 : ws[k] = w
          BY <3>2, <3>3, <3>6, <4>7
        <5> QED
          BY <5>1, <5>2 DEF Before
      <4>8. /\ log' = log /\ db' = db /\ begun' = begun /\ tid'[c] = t /\ blockmap' = blockmap
            /\ stale' = stale
        BY <1>1, <2>1 DEF t
      <4>9. \A i \in Loose(log') : Mark(log'[i].tid) \in Elements(job')
        BY <3>4, <4>5, <4>6, <4>8
      <4>10. \A w \in Elements(job') : IF w.file = "log" THEN w = Mark(tid'[victim'])
                                       ELSE Writing(blockmap'[victim'][w.block])
        BY <3>4, <4>3, <4>4, <4>8
      <4>11. \A w \in Elements(job') : \/ w.file # "log" /\ (w.block \notin stale' => Agrees(db', w))
                                       \/ \E u \in 1 .. begun' : w = Mark(u)
        BY <3>1, <3>4, <4>4, <4>8
      <4>12. \A i \in Loose(log') : \A j \in 1 .. Len(job') :
               job'[j] = Mark(log'[i].tid) => \A w \in UndoSet(log'[i]) : w \in Before(job', j)
        BY <3>4, <4>7, <4>8
      <4> QED
        BY <4>9, <4>10, <4>11, <4>12 DEF UndoJob
    <3> QED
      BY <3>5, <3>6
  <2>8. ASSUME ~ ScanEnds(log, tid[c]) PROVE UndoJob'
    BY <2>1, <2>8 DEF UndoJob
  <2> QED
    BY <2>4, <2>5, <2>6, <2>7, <2>8 DEF Rest
<1> QED
  BY <1>2, <1>3

\* What is left of a sequence of write() calls when the first is done.
LEMMA TailElements ==
  ASSUME NEW T, NEW ws \in Seq(T), ws # << >>
  PROVE  /\ ws[1] \in Elements(ws)
         /\ \A w \in Elements(Tail(ws)) : w \in Elements(ws)
         /\ \A w \in Elements(ws) : w = ws[1] \/ w \in Elements(Tail(ws))
         /\ \A j \in 1 .. Len(ws) : \A w \in Before(ws, j + 1) : w = ws[1] \/ w \in Before(Tail(ws), j)
         /\ Before(ws, 1) = {}
<1> DEFINE tl == Tail(ws)
<1>1. /\ Len(ws) \in Nat /\ Len(ws) >= 1 /\ Len(tl) = Len(ws) - 1
      /\ \A j \in 1 .. Len(ws) - 1 : tl[j] = ws[j + 1]
  BY HeadAndTail
<1> HIDE DEF tl
<1>2. ASSUME NEW w \in Elements(tl) PROVE w \in Elements(ws)
  <2>1. PICK k \in 1 .. Len(tl) : tl[k] = w
    BY <1>2 DEF Elements
  <2>2. k + 1 \in 1 .. Len(ws) /\ ws[k + 1] = w
    BY <1>1, <2>1
  <2> QED
    BY <2>2 DEF Elements
<1>3. ASSUME NEW w \in Elements(ws), w # ws[1] PROVE w \in Elements(tl)
  <2>1. PICK k \in 1 .. Len(ws) : ws[k] = w
    BY <1>3 DEF Elements
  <2>2. k - 1 \in 1 .. Len(tl) /\ tl[k - 1] = w
    BY <1>1, <1>3, <2>1
  <2> QED
    BY <2>2 DEF Elements
<1>4. ASSUME NEW j \in 1 .. Len(ws), NEW w \in Before(ws, j + 1), w # ws[1]
      PROVE  w \in Before(tl, j)
  <2>1. PICK k \in 1 .. (j + 1) - 1 : ws[k] = w
    BY <1>4 DEF Before
  <2>2. k - 1 \in 1 .. j - 1 /\ tl[k - 1] = w
    BY <1>1, <1>4, <2>1
  <2> QED
    BY <2>2 DEF Before
<1>5. ws[1] \in Elements(ws)
  BY <1>1 DEF Elements
<1>6. Before(ws, 1) = {}
  BY DEF Before
<1> QED
  BY <1>2, <1>3, <1>4, <1>5, <1>6 DEF tl


\* A write that puts into a block what db has there moves no block away from db, and
\* one that does not is to a block in stale.
LEMMA UndoneStaysUndone ==
  ASSUME IInv, NEW w \in FileWrites(MaxTransactions), w.file # "log",
         w.block \notin stale => Agrees(db, w),
         index' = PutIndex(index, w), store' = PutStore(store, w), log' = log, db' = db,
         stale' = stale
  PROVE  /\ Undoable' /\ InPlace(w)'
         /\ \A v \in FileWrites(MaxTransactions) :
              v.file # "log" /\ v.block \notin stale /\ Agrees(db, v) /\ InPlace(v) => InPlace(v)'
<1> USE DEF IInv
<1>1. /\ MaxTransactions \in Nat /\ w.file \in {"index", "store"} /\ w.block \in BlockNumbers
      /\ \A b \in BlockNumbers : db[b] \in BlockViews(MaxTransactions) /\ index[b] \in IndexValues
  BY FileWriteTypes, ConstantsAssumption DEF Types
<1>2. /\ w.file = "index" => index'[w.block] = w.val /\ store' = store
      /\ w.file = "store" => store'[w.block] = w.val /\ index' = index
      /\ \A b \in BlockNumbers \ {w.block} : index'[b] = index[b] /\ store'[b] = store[b]
  BY <1>1 DEF PutIndex, PutStore, Types
<1>3. LooseRecordsRestore(index', log, db, stale)
  <2> SUFFICES ASSUME NEW i \in Loose(log), log[i].action \in Undoing, log[i].block \notin stale
               PROVE  /\ RestoredBy(log[i]) = db[log[i].block]
                      /\ log[i].action = "LWRITE" => index'[log[i].block] = "A"
    BY DEF LooseRecordsRestore
  <2>1. /\ RestoredBy(log[i]) = db[log[i].block]
        /\ log[i].action = "LWRITE" => index[log[i].block] = "A"
    BY DEF Undoable, LooseRecordsRestore
  <2>2. log[i].block \in BlockNumbers
    BY <1>1, RecordTypes DEF Loose, Types, LogRecords
  <2>3. log[i].action = "LWRITE" => db[log[i].block] = <<"A", log[i].oldval>>
    BY <2>1 DEF RestoredBy
  <2>4. log[i].action = "LWRITE" => db[log[i].block][1] = "A"
    BY <2>3
  <2>5. log[i].action = "LWRITE" => index'[log[i].block] = "A"
    BY <1>1, <1>2, <2>1, <2>2, <2>4 DEF Agrees
  <2> QED
    BY <2>1, <2>5
<1>4. DifferencesCovered(index', store', log, db, stale)
  <2>1. ASSUME NEW b \in BlockNumbers \ stale, View(index, store)[b] = db[b]
        PROVE  View(index', store')[b] = db[b]
    <3>1. Seen(index[b], store[b]) = db[b]
      BY <2>1, ViewIsSeen
    <3>2. db[b][1] = index[b] /\ (db[b] = <<"A", w.val>> => store[b] = w.val)
      <4>1. CASE index[b] = "A"
        <5>1. db[b] = <<"A", store[b]>>
          BY <3>1, <4>1 DEF Seen
        <5> QED
          BY <4>1, <5>1
      <4>2. CASE index[b] = "U"
        <5>1. db[b] = <<"U">>
          BY <3>1, <4>2 DEF Seen
        <5> QED
          BY <4>2, <5>1
      <4> QED
        BY <1>1, <4>1, <4>2 DEF IndexValues
    <3>3. index'[b] = index[b] /\ store'[b] = store[b]
      BY <1>1, <1>2, <3>2 DEF Agrees
    <3> QED
      BY <3>1, <3>3, ViewIsSeen
  <2> QED
    BY <2>1 DEF Undoable, DifferencesCovered
<1>5. InPlace(w)'
  BY <1>2 DEF InPlace
<1>6. ASSUME NEW v \in FileWrites(MaxTransactions), v.file # "log", v.block \notin stale,
             Agrees(db, v), InPlace(v)
      PROVE  InPlace(v)'
  <2>1. v.file \in {"index", "store"} /\ v.block \in BlockNumbers
    BY <1>1, <1>6, FileWriteTypes
  <2>2. CASE v.block # w.block \/ v.file # w.file
    BY <1>1, <1>2, <1>6, <2>1, <2>2 DEF InPlace
  <2>3. CASE v.block = w.block /\ v.file = w.file
    <3>1. v.val = w.val
      <4>1. CASE v.file = "index"
        BY <1>6, <2>3, <4>1 DEF Agrees
      <4>2. CASE v.file = "store"
        <5>1. <<"A", v.val>> = <<"A", w.val>>
          BY <1>6, <2>3, <4>2, Zenon DEF Agrees
        <5> QED
          BY <5>1
      <4> QED
        BY <2>1, <4>1, <4>2
    <3> QED
      BY <1>5, <2>3, <3>1 DEF InPlace
  <2> QED
    BY <2>2, <2>3
<1> QED
  BY <1>3, <1>4, <1>5, <1>6 DEF Undoable

\* A write() of rollback() or doRecovery(): the LABORT of a transaction comes when all that
\* its records undo is in place.
LEMMA UndoStep ==
  ASSUME IInv, Undo
  PROVE  Rest'
<1> USE DEF IInv
<1> DEFINE N == MaxTransactions
<1>0. PICK w : w = job[1]
  OBVIOUS
<1>1. /\ mode \in {"rollback", "recover"} /\ job # << >> /\ job' = Tail(job)
      /\ index' = PutIndex(index, Head(job)) /\ store' = PutStore(store, Head(job))
      /\ log' = PutLog(log, Head(job), Len(log) + 1)
      /\ UNCHANGED <<begun, next_tid, epoch, mode, victim, committing, orphans, phase, tid,
                     blockmap, todo, logpos, db, stale>>
  BY DEF Undo, clientVars, history
<1>2. /\ job \in Seq(FileWrites(N)) /\ N \in Nat /\ begun \in 0 .. N
      /\ log \in Seq(LogRecords(N)) /\ Len(log) \in Nat
      /\ Loose(log) \subseteq 1 .. Len(log)
  BY ConstantsAssumption DEF Types, Loose
<1>3. /\ Head(job) = w /\ w \in FileWrites(N) /\ Len(job) \in Nat /\ Len(job) >= 1
      /\ Len(job') = Len(job) - 1 /\ \A j \in 1 .. Len(job) - 1 : job'[j] = job[j + 1]
  BY <1>0, <1>1, <1>2, HeadAndTail
<1>4. /\ w \in Elements(job)
      /\ \A v \in Elements(job') : v \in Elements(job)
      /\ \A v \in Elements(job) : v = w \/ v \in Elements(job')
      /\ \A j \in 1 .. Len(job) : \A v \in Before(job, j + 1) : v = w \/ v \in Before(job', j)
      /\ Before(job, 1) = {}
  BY <1>0, <1>1, <1>2, TailElements
<1>5. \A d \in Clients : phase[d] # "committing"
  <2>1. mode = "rollback" => phase[victim] = "gone" /\ InCommit(victim) /\ victim \in Clients
    BY DEF Operating, InCommit, Types
  <2>2. mode = "rollback" => \A d \in Clients : phase[d] # "committing"
    BY <2>1 DEF OneCommit, InCommit
  <2>3. mode = "recover" => \A d \in Clients : phase[d] = "idle"
    BY DEF Operating, Serving
  <2> QED
    BY <1>1, <2>2, <2>3
<1>6. \A d \in Clients : /\ InCommit(d)' <=> InCommit(d)
                         /\ ~ Unended(d) /\ ~ Unended(d)' /\ ~ Traced(d)'
  BY <1>1, <1>5 DEF InCommit, Unended, Traced
<1>7. NoConflicts' /\ Trace' /\ Todo'
  BY <1>1, <1>6 DEF NoConflicts, Trace, Todo
<1>8. EntriesTrue'
  BY <1>1, <1>6 DEF EntriesTrue
<1>9. ASSUME NEW i \in Loose(log), NEW v \in UndoSet(log[i])
      PROVE  /\ v \in FileWrites(N) /\ v.file # "log" /\ v.block = log[i].block
             /\ v.block \notin stale => Agrees(db, v)
  <2>1. log[i] \in LogRecords(N)
    BY <1>2, RecordTypes
  <2>2. v.file \in {"index", "store"} /\ v.block = log[i].block /\ log[i].action \in Undoing
    BY <1>9, UndoSetBlock
  <2>3. v.block \notin stale => RestoredBy(log[i]) = db[log[i].block]
    BY <2>2 DEF Undoable, LooseRecordsRestore
  <2>4. v.block \notin stale => Agrees(db, v)
    BY <1>2, <1>9, <2>1, <2>2, <2>3, UndoSetAgrees
  <2>5. v \in FileWrites(N)
    <3>1. /\ UndoWrites(log[i]) \in Seq(FileWrites(N)) /\ Elements(UndoWrites(log[i])) = UndoSet(log[i])
      BY <1>2, <2>1, UndoWritesContent
    <3>2. PICK k \in 1 .. Len(UndoWrites(log[i])) : UndoWrites(log[i])[k] = v
      BY <3>1 DEF Elements
    <3> QED
      BY <3>1, <3>2
  <2> QED
    BY <2>2, <2>4, <2>5
<1>10. \A v \in Elements(job) : \/ v.file # "log" /\ (v.block \notin stale => Agrees(db, v))
                                \/ \E t \in 1 .. begun : v = Mark(t)
  BY <1>1 DEF UndoJob
<1>11. mode = "rollback" =>
         /\ \A i \in Loose(log) : Mark(log[i].tid) \in Elements(job)
         /\ \A v \in Elements(job) : IF v.file = "log" THEN v = Mark(tid[victim])
                                     ELSE Writing(blockmap[victim][v.block])
  BY DEF UndoJob
<1>12. \A i \in Loose(log) : \A j \in 1 .. Len(job) :
         job[j] = Mark(log[i].tid) =>
           \A v \in UndoSet(log[i]) : v.block \notin stale => InPlace(v) \/ v \in Before(job, j)
  BY <1>1 DEF UndoJob
<1>13. \A u, t : Mark(u) = Mark(t) => u = t
  BY DEF Mark, ToLog, LogRecord
<1>14. \A t : Mark(t).file = "log"
  BY DEF Mark, ToLog
\* What is left to do, once it is known what has become of the log and what is in place.
<1>15. ASSUME \A i \in Loose(log') : /\ i \in Loose(log) /\ log'[i] = log[i]
                                     /\ w # Mark(log[i].tid)
                                     /\ \A v \in UndoSet(log[i]) : v.block \notin stale =>
                                          /\ InPlace(v) => InPlace(v)'
                                          /\ v = w => InPlace(v)'
       PROVE  UndoJob'
  <2>1. mode' = "rollback" =>
          \A i \in Loose(log') : Mark(log'[i].tid) \in Elements(job')
    BY <1>1, <1>4, <1>11, <1>15
  <2>2. mode' = "rollback" =>
          \A v \in Elements(job') : IF v.file = "log" THEN v = Mark(tid'[victim'])
                                    ELSE Writing(blockmap'[victim'][v.block])
    BY <1>1, <1>4, <1>11
  <2>3. \A v \in Elements(job') : \/ v.file # "log" /\ (v.block \notin stale' => Agrees(db', v))
                                  \/ \E t \in 1 .. begun' : v = Mark(t)
    BY <1>1, <1>4, <1>10
  <2>4. ASSUME NEW i \in Loose(log'), NEW j \in 1 .. Len(job'), job'[j] = Mark(log'[i].tid),
               NEW v \in UndoSet(log'[i]), v.block \notin stale'
        PROVE  InPlace(v)' \/ v \in Before(job', j)
    <3>1. /\ j \in 1 .. Len(job) /\ j + 1 \in 1 .. Len(job) /\ job[j + 1] = Mark(log[i].tid)
          /\ i \in Loose(log) /\ v \in UndoSet(log[i]) /\ v.block \notin stale
      BY <1>1, <1>3, <1>15, <2>4
    <3>2. InPlace(v) \/ v \in Before(job, j + 1)
      BY <1>12, <3>1
    <3>3. InPlace(v) \/ v = w \/ v \in Before(job', j)
      BY <1>4, <3>1, <3>2
    <3> QED
      BY <1>15, <3>1, <3>3
  <2> QED
    BY <2>1, <2>2, <2>3, <2>4 DEF UndoJob
<1>16. CASE w.file # "log"
  <2>1. w.block \notin stale => Agrees(db, w)
    BY <1>4, <1>10, <1>14, <1>16
  <2>2. log' = log
    BY <1>1, <1>3, <1>16, UndoOtherFiles
  <2>3. /\ Undoable' /\ InPlace(w)'
        /\ \A v \in FileWrites(N) :
             v.file # "log" /\ v.block \notin stale /\ Agrees(db, v) /\ InPlace(v) => InPlace(v)'
    BY <1>1, <1>3, <1>16, <2>1, <2>2, UndoneStaysUndone
  <2>4. Numbers'
    BY <1>1, <2>2 DEF Numbers
  <2>5. OneCommit'
    BY <1>1, <1>6, <2>2 DEF OneCommit, Serving
  <2>6. UndoJob'
    <3>1. \A i \in Loose(log) : w # Mark(log[i].tid)
      BY <1>14, <1>16
    <3>2. \A i \in Loose(log) : \A v \in UndoSet(log[i]) : v.block \notin stale =>
            (InPlace(v) => InPlace(v)') /\ (v = w => InPlace(v)')
      BY <1>9, <2>3
    <3> QED
      BY <1>15, <2>2, <3>1, <3>2
  <2> QED
    BY <1>7, <1>8, <2>3, <2>4, <2>5, <2>6 DEF Rest
<1>17. CASE \E t \in 1 .. begun : w = Mark(t)
  <2>1. PICK t \in 1 .. begun : w = Mark(t)
    BY <1>17
  <2>2. /\ log' \in Seq(LogRecords(N)) /\ Len(log') = Len(log) + 1
        /\ log'[Len(log) + 1] = LogRecord(t, "LABORT")
        /\ \A i \in 1 .. Len(log) : log'[i] = log[i]
        /\ Loose(log') = {i \in Loose(log) : log[i].tid # t}
    <3>1. t \in 1 .. N
      BY <1>2
    <3> QED
      BY <1>1, <1>3, <2>1, <3>1, UndoMarks
  <2>3. index' = index /\ store' = store
    BY <1>1, <1>3, <1>14, <2>1 DEF PutIndex, PutStore
  <2>4. \A i \in Loose(log') : /\ i \in Loose(log) /\ log'[i] = log[i] /\ log[i].tid # t
                               /\ w # Mark(log[i].tid)
    BY <1>2, <1>13, <2>1, <2>2
  <2>5. UndoJob'
    <3>1. \A v : InPlace(v)' <=> InPlace(v)
      BY <2>3 DEF InPlace
    <3>2. \A i \in Loose(log) : \A v \in UndoSet(log[i]) : v # w
      BY <1>9, <1>14, <2>1
    <3> QED
      BY <1>15, <2>4, <3>1, <3>2
  <2>6. Undoable'
    <3>1. LooseRecordsRestore(index', log', db', stale')
      BY <1>1, <2>3, <2>4 DEF Undoable, LooseRecordsRestore
    <3>2. ASSUME NEW b \in BlockNumbers \ stale, View(index, store)[b] # db[b]
          PROVE  \E i \in Loose(log') : log'[i].block = b /\ log'[i].action \in Undoing
      <4>1. PICK i \in Loose(log) : log[i].block = b /\ log[i].action \in Undoing
        BY <3>2 DEF Undoable, DifferencesCovered
      <4>2. log[i].tid # t
        <5> SUFFICES ASSUME log[i].tid = t PROVE FALSE
          OBVIOUS
        <5>1. log[i] \in LogRecords(N)
          BY <1>2, RecordTypes
        <5>2. job[1] = Mark(log[i].tid)
          BY <1>0, <2>1
        <5>3. \A v \in UndoSet(log[i]) : InPlace(v) \/ v \in Before(job, 1)
          BY <1>3, <1>9, <1>12, <4>1, <5>2
        <5>4. \A v \in UndoSet(log[i]) : /\ v.file = "index" => index[b] = v.val
                                         /\ v.file = "store" => store[b] = v.val
          BY <1>4, <1>9, <4>1, <5>3 DEF InPlace
        <5>5. /\ RestoredBy(log[i]) = db[b]
              /\ log[i].action = "LWRITE" => index[b] = "A"
          BY <4>1 DEF Undoable, LooseRecordsRestore
        <5>6. Seen(index[b], store[b]) = db[b]
          <6>1. Seen(index[b], store[b]) = RestoredBy(log[i])
            BY <1>2, <4>1, <5>1, <5>4, <5>5, UndoneIsRestored
          <6> QED
            BY <5>5, <6>1
        <5> QED
          BY <3>2, <5>6, ViewIsSeen
      <4>3. i \in Loose(log') /\ log'[i] = log[i]
        BY <1>2, <2>2, <4>2
      <4> QED
        BY <4>1, <4>3
    <3> QED
      BY <1>1, <2>3, <3>1, <3>2 DEF Undoable, DifferencesCovered
  <2>7. Numbers'
    <3>1. ASSUME NEW d \in Clients, phase[d] \in {"begun", "ready"} PROVE tid[d] # t
      <4>1. mode = "rollback"
        BY <1>1, <3>1 DEF Operating, Serving
      <4>2. t = tid[victim]
        BY <1>4, <1>11, <1>13, <1>14, <2>1, <4>1
      <4>3. victim \in Clients /\ phase[victim] = "gone"
        BY <4>1 DEF Operating, Types
      <4> QED
        BY <3>1, <4>2, <4>3 DEF Numbers
    <3>2. LogRecord(t, "LABORT").tid = t
      BY DEF LogRecord
    <3>3. ASSUME NEW i \in 1 .. Len(log')
          PROVE  /\ log'[i].tid <= begun
                 /\ \A d \in Clients : phase[d] \in {"begun", "ready"} => log'[i].tid # tid[d]
      <4>1. CASE i = Len(log) + 1
        BY <1>2, <2>2, <3>1, <3>2, <4>1
      <4>2. CASE i # Len(log) + 1
        <5>1. i \in 1 .. Len(log) /\ log'[i] = log[i]
          BY <1>2, <2>2, <4>2
        <5> QED
          BY <5>1 DEF Numbers
      <4> QED
        BY <4>1, <4>2
    <3> QED
      BY <1>1, <3>3 DEF Numbers
  <2>8. OneCommit'
    <3>1. Serving' <=> Serving
      BY <1>1 DEF Serving
    <3>2. \A d, e \in Clients : InCommit(d)' /\ InCommit(e)' => d = e
      BY <1>6 DEF OneCommit
    <3>3. ASSUME Serving, NEW i \in Loose(log')
          PROVE  \E d \in Clients :
                   /\ InCommit(d)' /\ tid'[d] = log'[i].tid
                   /\ log'[i].action \in Undoing => Writing(blockmap'[d][log'[i].block])
      <4>1. PICK d \in Clients : /\ InCommit(d) /\ tid[d] = log[i].tid
                                 /\ log[i].action \in Undoing => Writing(blockmap[d][log[i].block])
        BY <2>4, <3>3 DEF OneCommit
      <4> QED
        BY <1>1, <1>6, <2>4, <4>1
    <3> QED
      BY <1>1, <1>5, <3>1, <3>2, <3>3 DEF OneCommit
  <2> QED
    BY <1>7, <1>8, <2>5, <2>6, <2>7, <2>8 DEF Rest
<1> QED
  BY <1>4, <1>10, <1>16, <1>17

\* A transaction that has not ended is the only one in commit, and what it has logged
\* is all that is loose.
LEMMA WriterAlone ==
  ASSUME IInv, NEW c \in Clients, Unended(c)
  PROVE  /\ mode \in {"serving", "down"}
         /\ \A d \in Clients : InCommit(d) \/ phase[d] = "committing" => d = c
         /\ InCommit(c) /\ Traced(c) /\ logpos[c] \in Nat /\ logpos[c] <= Len(log)
         /\ \A i \in 1 .. logpos[c] : i \in Loose(log) /\ log[i].action \notin Marks
         /\ Loose(log) \subseteq 1 .. logpos[c]
<1> USE DEF IInv
<1>1. phase[c] = "committing" /\ InCommit(c) /\ Traced(c)
  BY DEF Unended, InCommit, Traced
<1>2. \A d \in Clients : InCommit(d) \/ phase[d] = "committing" => d = c
  BY <1>1 DEF OneCommit, InCommit
<1>3. mode \in {"serving", "down"}
  <2>1. mode \in {"rollback", "scanning"} => InCommit(victim) /\ victim \in Clients /\ phase[victim] = "gone"
    BY DEF Operating, InCommit, Types
  <2>2. mode \notin {"rollback", "scanning"}
    BY <1>1, <1>2, <2>1
  <2>3. ~ Serving => mode = "down"
    BY <1>1 DEF Operating
  <2> QED
    BY <2>2, <2>3 DEF Serving
<1>4. logpos[c] \in Nat /\ logpos[c] <= Len(log) /\ Len(log) \in Nat
  BY DEF Types
<1>5. /\ \A i \in 1 .. Len(log) : log[i].tid = tid[c] <=> i <= logpos[c]
      /\ \A i \in 1 .. logpos[c] : log[i].action \notin Marks
  BY <1>1 DEF Trace, Marks
<1>6. ASSUME NEW i \in 1 .. logpos[c] PROVE i \in Loose(log)
  <2>1. i \in 1 .. Len(log)
    BY <1>4
  <2>2. ASSUME NEW j \in i .. Len(log), log[j].tid = log[i].tid PROVE log[j].action \notin Marks
    <3>1. j \in 1 .. Len(log)
      BY <1>4
    <3>2. j \in 1 .. logpos[c]
      BY <1>4, <1>5, <2>1, <2>2, <3>1
    <3> QED
      BY <1>5, <3>2
  <2> QED
    BY <2>1, <2>2 DEF Loose
<1>7. ASSUME NEW i \in Loose(log) PROVE i \in 1 .. logpos[c]
  <2>1. i \in 1 .. Len(log) /\ log[i].tid = tid[c]
    BY <1>1 DEF OneCommit, Loose
  <2> QED
    BY <1>4, <1>5, <2>1
<1> QED
  BY <1>1, <1>2, <1>3, <1>4, <1>5, <1>6, <1>7

\* What a write() of commit() does not touch.
LEMMA WriteFrame ==
  ASSUME IInv, NEW c \in Clients, Write(c)
  PROVE  /\ UNCHANGED <<begun, next_tid, epoch, mode, job, victim, committing, orphans,
                        phase, tid, blockmap, stale>>
         /\ todo'[c] = Tail(todo[c]) /\ \A d \in Clients \ {c} : todo'[d] = todo[d]
         /\ \A d \in Clients \ {c} : logpos'[d] = logpos[d]
         /\ Unended(c) /\ \A d \in Clients \ {c} : ~ Unended(d) /\ ~ Unended(d)' /\ ~ Traced(d)'
         /\ \A d \in Clients : InCommit(d)' <=> InCommit(d)
         /\ NoConflicts' /\ UndoJob'
<1> USE DEF IInv
<1>1. /\ UNCHANGED <<begun, next_tid, epoch, mode, job, victim, committing, orphans,
                     phase, tid, blockmap, stale>>
      /\ todo' = [todo EXCEPT ![c] = Tail(@)]
      /\ logpos' = [logpos EXCEPT ![c] = @ + IF Head(todo[c]).file = "log" THEN 1 ELSE 0]
  BY DEF Write, monitor
<1>2. /\ todo'[c] = Tail(todo[c]) /\ \A d \in Clients \ {c} : todo'[d] = todo[d]
      /\ \A d \in Clients \ {c} : logpos'[d] = logpos[d]
  BY <1>1 DEF Types
<1>3. Unended(c)
  BY DEF Write, Unended
<1>4. mode \in {"serving", "down"} /\ \A d \in Clients : InCommit(d) \/ phase[d] = "committing" => d = c
  BY <1>3, WriterAlone
<1>5. \A d \in Clients \ {c} : ~ Unended(d) /\ ~ Unended(d)' /\ ~ Traced(d)'
  BY <1>1, <1>4 DEF Unended, Traced, InCommit
<1>6. \A d \in Clients : InCommit(d)' <=> InCommit(d)
  BY <1>1 DEF InCommit
<1>7. NoConflicts' /\ UndoJob'
  BY <1>1, <1>4 DEF NoConflicts, UndoJob
<1> QED
  BY <1>1, <1>2, <1>3, <1>5, <1>6, <1>7

\* Two writes to the same place in the data files are the same write.
LEMMA OneWritePerPlace ==
  ASSUME NEW b, NEW e, NEW v \in DataWrites(b, e), NEW w \in DataWrites(b, e), v.file = w.file
  PROVE  v = w
<1>1. \A x, y : ToIndex(b, x).file = "index" /\ ToStore(b, y).file = "store"
  BY DEF ToIndex, ToStore
<1>2. CASE e.lock = "A_LOCK"
  <2>1. DataWrites(b, e) = {ToIndex(b, "A"), ToStore(b, e.data)}
    BY <1>2 DEF DataWrites
  <2> QED
    BY <1>1, <2>1
<1>3. CASE e.lock = "W_LOCK"
  BY <1>3 DEF DataWrites
<1>4. CASE e.lock = "S_LOCK"
  BY <1>4 DEF DataWrites
<1>5. CASE e.lock \notin {"A_LOCK", "W_LOCK", "S_LOCK"}
  BY <1>5 DEF DataWrites
<1> QED
  BY <1>2, <1>3, <1>4, <1>5

\* Only a write-locked block is written to, and its record says what it held.
LEMMA DataWriteLocks ==
  ASSUME NEW t, NEW b, NEW e, NEW w \in DataWrites(b, e)
  PROVE  /\ Writing(e) /\ e # NoEntry /\ RecordOf(t, b, e).action \in Undoing
         /\ w.file = "index" => e.lock # "W_LOCK"
<1>1. \A x, y : ToIndex(b, x).file = "index" /\ ToStore(b, y).file = "store"
  BY DEF ToIndex, ToStore
<1>2. \A a, o, v : BlockRecord(t, a, b, o, v).action = a
  BY DEF BlockRecord
<1>3. CASE e.lock = "A_LOCK"
  <2>1. RecordOf(t, b, e).action = "LALLOCATE"
    BY <1>2, <1>3 DEF RecordOf
  <2>2. e # NoEntry
    BY <1>3 DEF NoEntry
  <2> QED
    BY <1>3, <2>1, <2>2 DEF Writing, Undoing
<1>4. CASE e.lock = "W_LOCK"
  BY <1>1, <1>2, <1>4 DEF DataWrites, RecordOf, Writing, NoEntry, Undoing
<1>5. CASE e.lock = "S_LOCK"
  BY <1>1, <1>2, <1>5 DEF DataWrites, RecordOf, Writing, NoEntry, Undoing
<1>6. CASE e.lock \notin {"A_LOCK", "W_LOCK", "S_LOCK"}
  BY <1>6 DEF DataWrites
<1> QED
  BY <1>3, <1>4, <1>5, <1>6

\* A record to be undone says whether its block was locked for writing or allocated.
LEMMA RecordLocks ==
  ASSUME NEW t, NEW b, NEW e
  PROVE  /\ RecordOf(t, b, e).action = "LWRITE" <=> e.lock = "W_LOCK"
         /\ RecordOf(t, b, e).action \in Undoing => Writing(e)
         /\ (RecordOf(t, b, e).action \in Undoing /\ (e.lock = "A_LOCK" => e.oldindex = "U")
               /\ (e.lock = "W_LOCK" => e.oldindex = "A"))
              => RestoredBy(RecordOf(t, b, e)) = Found(e)
<1>2. \A a, o, v : /\ BlockRecord(t, a, b, o, v).action = a /\ BlockRecord(t, a, b, o, v).oindex = o
                   /\ BlockRecord(t, a, b, o, v).oldval = v
  BY DEF BlockRecord
<1>3. CASE e.lock = "A_LOCK"
  BY <1>2, <1>3 DEF RecordOf, Writing, Undoing, RestoredBy, Found
<1>4. CASE e.lock = "W_LOCK"
  BY <1>2, <1>4 DEF RecordOf, Writing, Undoing, RestoredBy, Found
<1>5. CASE e.lock = "S_LOCK"
  BY <1>2, <1>5 DEF RecordOf, Writing, Undoing, RestoredBy, Found
<1>6. CASE e.lock \notin {"A_LOCK", "W_LOCK", "S_LOCK"}
  <2>1. RecordOf(t, b, e).action = "LREAD"
    BY <1>2, <1>6 DEF RecordOf
  <2> QED
    BY <1>6, <2>1 DEF Undoing
<1> QED
  BY <1>3, <1>4, <1>5, <1>6

\* What commit() has left to do after a write(), when that was not the LEND.
LEMMA TodoStep ==
  ASSUME IInv, NEW c \in Clients, Write(c), NEW w, w = todo[c][1], Len(todo[c]) # 1,
         logpos'[c] \in Nat, logpos'[c] >= logpos[c], logpos'[c] # 0,
         \A i \in 1 .. logpos[c] : log'[i] = log[i],
         \A rec : w = ToLog(rec) => \E i \in 1 .. logpos'[c] : log'[i] = rec,
         \A b \in BlockNumbers : \A v \in DataWrites(b, blockmap[c][b]) :
           (InPlace(v) => InPlace(v)') /\ (v = w => InPlace(v)')
  PROVE  Todo' /\ Unended(c)'
<1> USE DEF IInv
<1> DEFINE N == MaxTransactions
<1>0. PICK ws, tl : ws = todo[c] /\ tl = Tail(ws)
  OBVIOUS
<1>1. /\ UNCHANGED <<phase, tid, blockmap, stale>> /\ todo'[c] = tl
      /\ Unended(c) /\ \A d \in Clients \ {c} : ~ Unended(d)'
  BY <1>0, WriteFrame
<1>2. ws \in Seq(FileWrites(N)) /\ ws # << >>
  BY <1>0, <1>1 DEF Types, Unended
<1>3. /\ Len(ws) \in Nat /\ Len(ws) >= 2 /\ Len(tl) = Len(ws) - 1
      /\ \A j \in 1 .. Len(ws) - 1 : tl[j] = ws[j + 1]
  <2>1. /\ Len(ws) \in Nat /\ Len(ws) >= 1 /\ Len(tl) = Len(ws) - 1
        /\ \A j \in 1 .. Len(ws) - 1 : tl[j] = ws[j + 1]
    BY <1>0, <1>2, HeadAndTail
  <2>2. Len(ws) # 1
    BY <1>0
  <2> QED
    BY ONLY <2>1, <2>2
<1>4. /\ \A v \in Elements(ws) : v = w \/ v \in Elements(tl)
      /\ \A j \in 1 .. Len(ws) : \A v \in Before(ws, j + 1) : v = w \/ v \in Before(tl, j)
  BY <1>0, <1>2, TailElements
<1>5. Unended(c)'
  <2>1. Len(tl) # 0
    BY ONLY <1>3
  <2>2. tl # << >>
    BY ONLY <2>1
  <2> QED
    BY <1>1, <2>2 DEF Unended
<1>6. /\ ws[Len(ws)] = ToLog(LogRecord(tid[c], "LEND"))
      /\ \A j \in 1 .. Len(ws) : Planned(c, j)
      /\ \A b \in BlockNumbers : \A v \in DataWrites(b, blockmap[c][b]) :
           InPlace(v) \/ v \in Elements(ws)
  BY <1>0, <1>1 DEF Todo
<1>7. \A rec : Logged(c, rec) => \E i \in 1 .. logpos'[c] : log'[i] = rec
  <2>1. \A i \in 1 .. logpos[c] : i \in 1 .. logpos'[c]
    BY DEF Types
  <2> QED
    BY <2>1 DEF Logged
<1>8. tl[Len(tl)] = ToLog(LogRecord(tid[c], "LEND"))
  BY <1>3, <1>6
<1>9. ASSUME NEW j \in 1 .. Len(tl) PROVE Planned(c, j)'
  <2>1. j + 1 \in 1 .. Len(ws) /\ j \in 1 .. Len(ws) /\ tl[j] = ws[j + 1] /\ j + 1 # 1
    BY <1>3
  <2>2. Planned(c, j + 1)
    BY <1>6, <2>1
  <2>3. \/ ws[j + 1] = ToLog(LogRecord(tid[c], "LEND")) /\ j + 1 = Len(ws)
        \/ \E b \in BlockNumbers :
             \/ ws[j + 1] = ToLog(RecordOf(tid[c], b, blockmap[c][b])) /\ blockmap[c][b] # NoEntry
             \/ /\ ws[j + 1] \in DataWrites(b, blockmap[c][b])
                /\ \/ Logged(c, RecordOf(tid[c], b, blockmap[c][b]))
                   \/ ToLog(RecordOf(tid[c], b, blockmap[c][b])) \in Before(ws, j + 1)
    BY <1>0, <2>1, <2>2 DEF Planned
  <2>4. CASE ws[j + 1] = ToLog(LogRecord(tid[c], "LEND")) /\ j + 1 = Len(ws)
    BY <1>1, <1>3, <2>1, <2>4 DEF Planned
  <2>5. CASE \E b \in BlockNumbers :
             \/ ws[j + 1] = ToLog(RecordOf(tid[c], b, blockmap[c][b])) /\ blockmap[c][b] # NoEntry
             \/ /\ ws[j + 1] \in DataWrites(b, blockmap[c][b])
                /\ \/ Logged(c, RecordOf(tid[c], b, blockmap[c][b]))
                   \/ ToLog(RecordOf(tid[c], b, blockmap[c][b])) \in Before(ws, j + 1)
    <3>1. PICK b \in BlockNumbers :
             \/ ws[j + 1] = ToLog(RecordOf(tid[c], b, blockmap[c][b])) /\ blockmap[c][b] # NoEntry
             \/ /\ ws[j + 1] \in DataWrites(b, blockmap[c][b])
                /\ \/ Logged(c, RecordOf(tid[c], b, blockmap[c][b]))
                   \/ ToLog(RecordOf(tid[c], b, blockmap[c][b])) \in Before(ws, j + 1)
      BY <2>5
    <3>2. \/ ToLog(RecordOf(tid[c], b, blockmap[c][b])) \notin Before(ws, j + 1)
          \/ \E i \in 1 .. logpos'[c] : log'[i] = RecordOf(tid[c], b, blockmap[c][b])
          \/ ToLog(RecordOf(tid[c], b, blockmap[c][b])) \in Before(tl, j)
      BY <1>4, <2>1
    <3>3. \/ tl[j] = ToLog(RecordOf(tid[c], b, blockmap[c][b])) /\ blockmap[c][b] # NoEntry
          \/ /\ tl[j] \in DataWrites(b, blockmap[c][b])
             /\ \/ \E i \in 1 .. logpos'[c] : log'[i] = RecordOf(tid[c], b, blockmap[c][b])
                \/ ToLog(RecordOf(tid[c], b, blockmap[c][b])) \in Before(tl, j)
      BY <1>7, <2>1, <3>1, <3>2
    <3> QED
      BY <1>1, <3>3, Zenon DEF Planned, Logged
  <2> QED
    BY <2>3, <2>4, <2>5
<1>10. ASSUME NEW b \in BlockNumbers, NEW v \in DataWrites(b, blockmap[c][b])
       PROVE  InPlace(v)' \/ v \in Elements(tl)
  BY <1>4, <1>6
<1>11. Todo'
  <2> SUFFICES ASSUME NEW d \in Clients, Unended(d)'
               PROVE  /\ logpos'[d] = 0 => todo'[d][1] = ToLog(LogRecord(tid'[d], "LBEGIN"))
                      /\ todo'[d][Len(todo'[d])] = ToLog(LogRecord(tid'[d], "LEND"))
                      /\ \A j \in 1 .. Len(todo'[d]) : Planned(d, j)'
                      /\ \A b \in BlockNumbers : \A v \in DataWrites(b, blockmap'[d][b]) :
                           InPlace(v)' \/ v \in Elements(todo'[d])
    BY DEF Todo
  <2>1. d = c
    BY <1>1
  <2>2. todo'[c] = tl
    BY <1>1
  <2>3. \A j \in 1 .. Len(todo'[c]) : Planned(c, j)'
    BY <1>9, <2>2
  <2>4. \A b \in BlockNumbers : \A v \in DataWrites(b, blockmap'[c][b]) :
                           InPlace(v)' \/ v \in Elements(todo'[c])
    BY <1>1, <1>10, <2>2
  <2>5. todo'[c][Len(todo'[c])] = ToLog(LogRecord(tid'[c], "LEND"))
    BY <1>1, <1>8, <2>2
  <2> QED
    BY <2>1, <2>3, <2>4, <2>5
<1> QED
  BY <1>5, <1>11

\* A write() of commit() to the index or the store: its record is in the log.
LEMMA DataStep ==
  ASSUME IInv, NEW c \in Clients, Write(c), NEW b \in BlockNumbers,
         todo[c][1] \in DataWrites(b, blockmap[c][b])
  PROVE  Rest'
<1> USE DEF IInv
<1> DEFINE N == MaxTransactions
<1>0. PICK w, e, t, p : w = todo[c][1] /\ e = blockmap[c][b] /\ t = tid[c] /\ p = logpos[c]
  OBVIOUS
<1>1. /\ UNCHANGED <<begun, next_tid, epoch, mode, job, victim, committing, orphans,
                     phase, tid, blockmap, stale>>
      /\ \A d \in Clients \ {c} : todo'[d] = todo[d] /\ logpos'[d] = logpos[d]
      /\ Unended(c) /\ \A d \in Clients \ {c} : ~ Unended(d) /\ ~ Unended(d)' /\ ~ Traced(d)'
      /\ \A d \in Clients : InCommit(d)' <=> InCommit(d)
      /\ NoConflicts' /\ UndoJob'
  BY WriteFrame
<1>2. /\ \A d \in Clients : InCommit(d) \/ phase[d] = "committing" => d = c
      /\ InCommit(c) /\ Traced(c) /\ p \in Nat /\ p <= Len(log)
      /\ \A i \in 1 .. p : i \in Loose(log) /\ log[i].action \notin Marks
      /\ Loose(log) \subseteq 1 .. p
  BY <1>0, <1>1, WriterAlone
<1>3. /\ e \in LockEntries(N) /\ N \in Nat /\ t \in 1 .. N /\ Len(log) \in Nat
      /\ todo[c] \in Seq(FileWrites(N)) /\ todo[c] # << >>
  BY <1>0, <1>1, ConstantsAssumption DEF Types, Unended
<1>4. /\ w \in FileWrites(N) /\ w.file # "log" /\ w.block = b
      /\ w.file \in {"index", "store"}
  BY <1>0, <1>3, DataWritesTypes, FileWriteTypes
<1>5. /\ Writing(e) /\ RecordOf(t, b, e).action \in Undoing /\ (w.file = "index" => e.lock # "W_LOCK")
  BY <1>0, DataWriteLocks
<1>6. Head(todo[c]) = w /\ Len(todo[c]) \in Nat /\ Len(todo[c]) >= 1 /\ Before(todo[c], 1) = {}
  BY <1>0, <1>3, HeadAndTail, TailElements
<1>7. /\ index' = PutIndex(index, w) /\ store' = PutStore(store, w) /\ log' = log
      /\ logpos' = logpos /\ db' = db
  <2>1. /\ index' = PutIndex(index, w) /\ store' = PutStore(store, w)
        /\ log' = PutLog(log, w, logpos[c] + 1)
        /\ logpos' = [logpos EXCEPT ![c] = @ + IF w.file = "log" THEN 1 ELSE 0]
        /\ db' = IF w.file = "log" /\ w.rec.action = "LEND"
                 THEN [x \in BlockNumbers |-> Committed(x, blockmap[c][x])] ELSE db
    BY <1>6 DEF Write
  <2>2. logpos \in [Clients -> Nat] /\ logpos[c] + 0 = logpos[c]
    BY <1>0, <1>2 DEF Types
  <2>3. logpos' = logpos
    BY <1>4, <2>1, <2>2
  <2> QED
    BY <1>4, <2>1, <2>3 DEF PutLog
<1>8. /\ w.file = "index" => index'[b] = w.val /\ store' = store
      /\ w.file = "store" => store'[b] = w.val /\ index' = index
      /\ \A x \in BlockNumbers \ {b} : index'[x] = index[x] /\ store'[x] = store[x]
  BY <1>4, <1>7 DEF PutIndex, PutStore, Types
<1>9. \A a : ToLog(a).file = "log"
  BY DEF ToLog
<1>10. PICK i0 \in 1 .. p : log[i0] = RecordOf(t, b, e)
  <2>1. Planned(c, 1)
    BY <1>1, <1>6 DEF Todo
  <2>2. \E x \in BlockNumbers :
           /\ w \in DataWrites(x, blockmap[c][x])
           /\ Logged(c, RecordOf(t, x, blockmap[c][x]))
    BY <1>0, <1>4, <1>6, <1>9, <2>1 DEF Planned
  <2>3. PICK x \in BlockNumbers :
           /\ w \in DataWrites(x, blockmap[c][x])
           /\ Logged(c, RecordOf(t, x, blockmap[c][x]))
    BY <2>2
  <2>4. w.block = x
    <3>1. blockmap[c][x] \in LockEntries(N)
      BY DEF Types
    <3> QED
      BY <1>3, <2>3, <3>1, DataWritesTypes
  <2> QED
    BY <1>0, <1>4, <2>3, <2>4 DEF Logged
<1>11. Len(todo[c]) # 1
  <2>1. todo[c][Len(todo[c])] = ToLog(LogRecord(tid[c], "LEND"))
    BY <1>1 DEF Todo
  <2> QED
    BY <1>0, <1>4, <1>9, <2>1
<1>12. ASSUME NEW x \in BlockNumbers, NEW v \in DataWrites(x, blockmap[c][x])
       PROVE  (InPlace(v) => InPlace(v)') /\ (v = w => InPlace(v)')
  <2>1. blockmap[c][x] \in LockEntries(N)
    BY DEF Types
  <2>2. v \in FileWrites(N) /\ v.file # "log" /\ v.block = x
    BY <1>3, <2>1, DataWritesTypes
  <2>3. v = w => InPlace(v)'
    BY <1>4, <1>8 DEF InPlace
  <2>4. CASE x = b /\ v.file = w.file
    BY <1>0, <2>3, <2>4, OneWritePerPlace
  <2>5. CASE x # b \/ v.file # w.file
    BY <1>4, <1>8, <2>2, <2>5 DEF InPlace
  <2> QED
    BY <2>3, <2>4, <2>5
<1>13. Todo' /\ Unended(c)'
  <2>1. logpos'[c] \in Nat /\ logpos'[c] >= logpos[c] /\ logpos'[c] # 0
    BY <1>0, <1>2, <1>7, <1>10
  <2>2. \A rec : w = ToLog(rec) => \E i \in 1 .. logpos'[c] : log'[i] = rec
    BY <1>4, <1>9
  <2>3. \A i \in 1 .. logpos[c] : log'[i] = log[i]
    BY <1>7
  <2> QED
    BY <1>0, <1>11, <1>12, <2>1, <2>2, <2>3, TodoStep
<1>14. Numbers'
  BY <1>1, <1>7 DEF Numbers
<1>15. ASSUME NEW x \in BlockNumbers, index[x] = "A", blockmap[c][x].lock = "W_LOCK"
       PROVE  index'[x] = "A"
  BY <1>0, <1>4, <1>5, <1>8, <1>15
<1>16. EntriesTrue'
  <2> SUFFICES ASSUME NEW d \in Clients, NEW x \in BlockNumbers, blockmap[d][x] # NoEntry
               PROVE  LET f == blockmap[d][x] IN
                      /\ f.lock = "A_LOCK" => f.oldindex = "U"
                      /\ f.lock = "W_LOCK" => f.oldindex = "A"
                      /\ x \notin stale /\ Writing(f) /\ (phase[d] = "ready" \/ Unended(d)')
                           => Found(f) = db[x]
                      /\ x \notin stale /\ Unended(d)' /\ f.lock = "W_LOCK" => index'[x] = "A"
    BY <1>1, <1>7 DEF EntriesTrue
  <2>1. LET f == blockmap[d][x] IN
                      /\ f.lock = "A_LOCK" => f.oldindex = "U"
                      /\ f.lock = "W_LOCK" => f.oldindex = "A"
                      /\ x \notin stale /\ Writing(f) /\ (phase[d] = "ready" \/ Unended(d))
                           => Found(f) = db[x]
                      /\ x \notin stale /\ Unended(d) /\ f.lock = "W_LOCK" => index[x] = "A"
    BY DEF EntriesTrue
  <2>2. Unended(d)' => d = c /\ Unended(d)
    BY <1>1
  <2> QED
    BY <1>15, <2>1, <2>2
<1>17. Undoable'
  <2>1. ASSUME NEW i \in Loose(log), log[i].action \in Undoing, log[i].block \notin stale
        PROVE  /\ RestoredBy(log[i]) = db[log[i].block]
               /\ log[i].action = "LWRITE" => index'[log[i].block] = "A"
    <3>1. /\ RestoredBy(log[i]) = db[log[i].block]
          /\ log[i].action = "LWRITE" => index[log[i].block] = "A"
      BY <2>1 DEF Undoable, LooseRecordsRestore
    <3>2. i \in 1 .. p
      BY <1>2
    <3>3. log[i] = RecordOf(tid[c], log[i].block, blockmap[c][log[i].block])
      BY <1>0, <1>2, <2>1, <3>2 DEF Trace
    <3>4. log[i].action = "LWRITE" => blockmap[c][log[i].block].lock = "W_LOCK"
      BY <3>3, RecordLocks
    <3>5. log[i].block \in BlockNumbers
      BY <1>2, <1>3, <2>1, RecordTypes DEF Types, LogRecords, Loose
    <3> QED
      BY <1>15, <3>1, <3>4, <3>5
  <2>2. LooseRecordsRestore(index', log', db', stale')
    BY <1>1, <1>7, <2>1 DEF LooseRecordsRestore
  <2>3. ASSUME NEW x \in BlockNumbers \ stale, View(index', store')[x] # db[x]
        PROVE  \E i \in Loose(log) : log[i].block = x /\ log[i].action \in Undoing
    <3>1. CASE x = b
      <4>1. i0 \in Loose(log) /\ log[i0].block = b /\ log[i0].action \in Undoing
        <5>1. RecordOf(t, b, e).block = b
          BY ONLY <1>3, RecordOfTypes, b \in BlockNumbers, SMT
        <5>2. i0 \in Loose(log)
          BY <1>2, Zenon
        <5> QED
          BY <1>5, <1>10, <5>1, <5>2, Zenon
      <4> QED
        BY <3>1, <4>1
    <3>2. CASE x # b
      <4>1. View(index', store')[x] = View(index, store)[x]
        BY <1>8, <3>2, ViewIsSeen
      <4> QED
        BY <2>3, <4>1 DEF Undoable, DifferencesCovered
    <3> QED
      BY <3>1, <3>2
  <2>4. DifferencesCovered(index', store', log', db', stale')
    BY <1>1, <1>7, <2>3 DEF DifferencesCovered
  <2> QED
    BY <2>2, <2>4 DEF Undoable
<1>18. OneCommit'
  <2>1. \A d, f \in Clients : InCommit(d)' /\ InCommit(f)' => d = f
    BY <1>1 DEF OneCommit
  <2>2. todo'[c] # << >>
    BY <1>13 DEF Unended
  <2>3. \A d \in Clients : phase'[d] = "committing" =>
          \A i \in Loose(log') : log'[i].tid = tid'[d] /\ todo'[d] # << >>
    BY <1>1, <1>2, <1>7, <2>2 DEF OneCommit
  <2>4. Serving' <=> Serving
    BY <1>1 DEF Serving
  <2>5. Serving =>
          \A i \in Loose(log') : \E d \in Clients :
            /\ InCommit(d)' /\ tid'[d] = log'[i].tid
            /\ log'[i].action \in Undoing => Writing(blockmap'[d][log'[i].block])
    BY <1>1, <1>7 DEF OneCommit
  <2> QED
    BY <2>1, <2>3, <2>4, <2>5 DEF OneCommit
<1>19. Trace'
  <2>1. \A d \in Clients : Traced(d)' => d = c
    BY <1>1
  <2> QED
    BY <1>1, <1>2, <1>7, <2>1 DEF Trace
<1> QED
  BY <1>1, <1>13, <1>14, <1>16, <1>17, <1>18, <1>19 DEF Rest

\* A write() of commit() to the log: the records of the transaction stay in front of
\* those that older transactions have left.
LEMMA LogStep ==
  ASSUME IInv, NEW c \in Clients, Write(c), NEW rec \in LogRecords(MaxTransactions),
         todo[c][1] = ToLog(rec), rec.tid = tid[c]
  PROVE  /\ UNCHANGED <<index, store>> /\ logpos'[c] = logpos[c] + 1
         /\ db' = IF rec.action = "LEND"
                  THEN [x \in BlockNumbers |-> Committed(x, blockmap[c][x])] ELSE db
         /\ log' \in Seq(LogRecords(MaxTransactions)) /\ Len(log') \in Nat
         /\ logpos[c] + 1 <= Len(log')
         /\ log'[logpos[c] + 1] = rec
         /\ \A i \in 1 .. logpos[c] : i \in 1 .. Len(log) /\ log'[i] = log[i]
         /\ \A i \in 1 .. Len(log') : log'[i].tid = tid[c] <=> i <= logpos[c] + 1
         /\ Loose(log') \subseteq 1 .. logpos[c] + 1
         /\ Numbers'
<1> USE DEF IInv
<1> DEFINE N == MaxTransactions
<1>0. PICK w, t, p, n : w = todo[c][1] /\ t = tid[c] /\ p = logpos[c] /\ n = Len(log)
  OBVIOUS
<1>1. /\ UNCHANGED <<begun, next_tid, epoch, mode, job, victim, committing, orphans,
                     phase, tid, blockmap, stale>>
      /\ \A d \in Clients \ {c} : logpos'[d] = logpos[d]
      /\ Unended(c)
  BY WriteFrame
<1>2. /\ Traced(c) /\ p \in Nat /\ p <= n /\ Loose(log) \subseteq 1 .. p
      /\ phase[c] = "committing"
  BY <1>0, <1>1, WriterAlone DEF Unended
<1>3. /\ log \in Seq(LogRecords(N)) /\ n \in Nat
      /\ todo[c] \in Seq(FileWrites(N)) /\ todo[c] # << >>
  BY <1>0, <1>1 DEF Types, Unended
<1>4. /\ w.file = "log" /\ w.rec = rec /\ Head(todo[c]) = w
  BY <1>0, <1>3, HeadAndTail DEF ToLog
<1>5. /\ index' = index /\ store' = store
      /\ log' = PutLog(log, w, p + 1)
      /\ db' = IF rec.action = "LEND"
               THEN [x \in BlockNumbers |-> Committed(x, blockmap[c][x])] ELSE db
  BY <1>0, <1>4 DEF Write, PutIndex, PutStore
<1>6. logpos'[c] = p + 1
  <2>1. logpos' = [logpos EXCEPT ![c] = @ + IF w.file = "log" THEN 1 ELSE 0]
    BY <1>4 DEF Write
  <2>2. logpos \in [Clients -> Nat]
    BY DEF Types
  <2> QED
    BY <1>0, <1>4, <2>1, <2>2
<1>7. /\ log' \in Seq(LogRecords(N))
      /\ Len(log') = IF p + 1 > n THEN p + 1 ELSE n
      /\ log'[p + 1] = rec
      /\ \A i \in 1 .. n : i # p + 1 => log'[i] = log[i]
  <2>1. p + 1 \in 1 .. n + 1
    BY <1>2, <1>3
  <2> QED
    BY <1>0, <1>3, <1>4, <1>5, <2>1, PutLogContent
<1>8. /\ Len(log') \in Nat /\ p + 1 <= Len(log')
      /\ \A i \in 1 .. p : i \in 1 .. n /\ log'[i] = log[i]
      /\ \A i \in 1 .. Len(log') : i # p + 1 => i \in 1 .. n /\ log'[i] = log[i]
  <2>1. PICK m : m = Len(log')
    OBVIOUS
  <2>2. m = IF p + 1 > n THEN p + 1 ELSE n
    BY <1>7, <2>1
  <2>3. p \in Nat /\ n \in Nat /\ p <= n
    BY <1>2, <1>3
  <2>4. m \in Nat /\ p + 1 <= m /\ (m = n \/ (m = p + 1 /\ n = p))
    <3>1. CASE p + 1 > n
      BY ONLY <2>2, <2>3, <3>1
    <3>2. CASE ~ (p + 1 > n)
      BY ONLY <2>2, <2>3, <3>2
    <3> QED
      BY <3>1, <3>2
  <2>5. \A i \in 1 .. p : i \in 1 .. n /\ i # p + 1
    BY ONLY <2>3
  <2>6. \A i \in 1 .. m : i # p + 1 => i \in 1 .. n
    BY ONLY <2>3, <2>4
  <2> QED
    BY <1>7, <2>1, <2>4, <2>5, <2>6
<1>9. \A i \in 1 .. n : log[i].tid = t <=> i <= p
  BY <1>0, <1>2 DEF Trace
<1>10. \A i \in 1 .. Len(log') : log'[i].tid = t <=> i <= p + 1
  <2> TAKE i \in 1 .. Len(log')
  <2>1. CASE i = p + 1
    BY <1>0, <1>2, <1>7, <2>1
  <2>2. CASE i # p + 1
    <3>1. i \in 1 .. n /\ log'[i] = log[i]
      BY <1>8, <2>2
    <3> QED
      BY <1>2, <1>9, <2>2, <3>1
  <2> QED
    BY <2>1, <2>2
<1>11. ASSUME NEW i \in Loose(log') PROVE i \in 1 .. p + 1
  <2> SUFFICES ASSUME i > p + 1 PROVE FALSE
    BY <1>2, <1>8 DEF Loose
  <2>1. i \in 1 .. Len(log') /\ i \in 1 .. n /\ log'[i] = log[i]
    BY <1>2, <1>8 DEF Loose
  <2>2. Len(log') = n
    BY <1>2, <1>3, <1>7, <2>1
  <2>3. ASSUME NEW j \in i .. n, log[j].tid = log[i].tid PROVE log[j].action \notin Marks
    <3>1. j \in i .. Len(log') /\ log'[j] = log[j]
      BY <1>2, <1>3, <1>7, <2>1, <2>2
    <3> QED
      BY <2>1, <2>3, <3>1 DEF Loose
  <2>4. i \in Loose(log)
    BY <1>0, <2>1, <2>3 DEF Loose
  <2> QED
    BY <1>2, <2>1, <2>4
<1>12. Numbers'
  <2>1. ASSUME NEW i \in 1 .. Len(log')
        PROVE  /\ log'[i].tid <= begun
               /\ \A d \in Clients : phase[d] \in {"begun", "ready"} => log'[i].tid # tid[d]
    <3>1. CASE i = p + 1
      <4>1. tid[c] <= begun /\ \A d \in Clients : phase[d] \in {"begun", "ready"} => tid[c] # tid[d]
        BY <1>2 DEF Numbers
      <4> QED
        BY <1>7, <3>1, <4>1
    <3>2. CASE i # p + 1
      <4>1. i \in 1 .. Len(log) /\ log'[i] = log[i]
        BY <1>0, <1>8, <3>2
      <4> QED
        BY <4>1 DEF Numbers
    <3> QED
      BY <3>1, <3>2
  <2>2. \A d \in Clients : phase[d] \in {"begun", "ready"} => logpos'[d] = logpos[d]
    BY <1>1, <1>2
  <2> QED
    BY <1>1, <2>1, <2>2 DEF Numbers
<1> QED
  BY <1>0, <1>5, <1>6, <1>7, <1>8, <1>10, <1>11, <1>12

\* LBEGIN or the record of a block: the write() that it is about is still to come.
LEMMA RecordStep ==
  ASSUME IInv, NEW c \in Clients, Write(c), NEW rec \in LogRecords(MaxTransactions),
         todo[c][1] = ToLog(rec), rec.tid = tid[c],
         rec.action = "LBEGIN" <=> logpos[c] = 0,
         rec.action \notin Marks,
         rec.action \in Undoing =>
           rec.block \in BlockNumbers /\ rec = RecordOf(tid[c], rec.block, blockmap[c][rec.block])
  PROVE  Rest'
<1> USE DEF IInv
<1> DEFINE N == MaxTransactions
<1>0. PICK w, t, p : w = todo[c][1] /\ t = tid[c] /\ p = logpos[c]
  OBVIOUS
<1>1. /\ UNCHANGED <<begun, next_tid, epoch, mode, job, victim, committing, orphans,
                     phase, tid, blockmap, stale>>
      /\ Unended(c) /\ \A d \in Clients \ {c} : ~ Unended(d) /\ ~ Unended(d)' /\ ~ Traced(d)'
      /\ \A d \in Clients : InCommit(d)' <=> InCommit(d)
      /\ NoConflicts' /\ UndoJob'
  BY WriteFrame
<1>2. /\ \A d \in Clients : InCommit(d) \/ phase[d] = "committing" => d = c
      /\ InCommit(c) /\ Traced(c) /\ p \in Nat /\ p <= Len(log)
      /\ \A i \in 1 .. p : i \in Loose(log) /\ log[i].action \notin Marks
      /\ Loose(log) \subseteq 1 .. p
  BY <1>0, <1>1, WriterAlone
<1>3. /\ UNCHANGED <<index, store>> /\ logpos'[c] = p + 1 /\ db' = db
      /\ log' \in Seq(LogRecords(N)) /\ Len(log') \in Nat /\ p + 1 <= Len(log')
      /\ log'[p + 1] = rec
      /\ \A i \in 1 .. p : i \in 1 .. Len(log) /\ log'[i] = log[i]
      /\ \A i \in 1 .. Len(log') : log'[i].tid = t <=> i <= p + 1
      /\ Loose(log') \subseteq 1 .. p + 1
      /\ Numbers'
  <2>1. /\ UNCHANGED <<index, store>> /\ logpos'[c] = logpos[c] + 1
        /\ db' = IF rec.action = "LEND"
                 THEN [x \in BlockNumbers |-> Committed(x, blockmap[c][x])] ELSE db
        /\ log' \in Seq(LogRecords(MaxTransactions)) /\ Len(log') \in Nat
        /\ logpos[c] + 1 <= Len(log')
        /\ log'[logpos[c] + 1] = rec
        /\ \A i \in 1 .. logpos[c] : i \in 1 .. Len(log) /\ log'[i] = log[i]
        /\ \A i \in 1 .. Len(log') : log'[i].tid = tid[c] <=> i <= logpos[c] + 1
        /\ Loose(log') \subseteq 1 .. logpos[c] + 1
        /\ Numbers'
    BY LogStep
  <2> QED
    BY <1>0, <2>1 DEF Marks
<1>4. /\ p + 1 \in Nat /\ p + 1 # 0 /\ p + 1 \in 1 .. p + 1 /\ p + 1 >= p
      /\ \A i \in 1 .. p + 1 : i = p + 1 \/ i \in 1 .. p
      /\ \A i \in 1 .. p : i \in 1 .. p + 1 /\ i # p + 1
  BY ONLY <1>2
<1>5. /\ \A u : ToLog(u).file = "log" /\ ToLog(u).rec = u
      /\ \A u : LogRecord(t, u).action = u
  BY DEF ToLog, LogRecord
<1>6. Todo' /\ Unended(c)'
  <2>1. Len(todo[c]) # 1
    <3>1. todo[c][Len(todo[c])] = ToLog(LogRecord(tid[c], "LEND"))
      BY <1>1 DEF Todo
    <3>2. \A u, v : ToLog(u) = ToLog(v) => u = v
      BY <1>5
    <3> QED
      BY <1>0, <1>5, <3>1, <3>2 DEF Marks
  <2>2. logpos'[c] \in Nat /\ logpos'[c] >= logpos[c] /\ logpos'[c] # 0
    BY <1>0, <1>3, <1>4
  <2>3. \A i \in 1 .. logpos[c] : log'[i] = log[i]
    BY <1>0, <1>3
  <2>4. \A r : w = ToLog(r) => \E i \in 1 .. logpos'[c] : log'[i] = r
    <3> TAKE r
    <3> SUFFICES ASSUME w = ToLog(r) PROVE \E i \in 1 .. logpos'[c] : log'[i] = r
      OBVIOUS
    <3>1. r = rec
      <4>1. ToLog(r) = ToLog(rec)
        BY <1>0
      <4>2. ToLog(r).rec = r /\ ToLog(rec).rec = rec
        BY Zenon, <1>5
      <4> QED
        BY <4>1, <4>2
    <3> QED
      BY <1>3, <1>4, <3>1
  <2>5. ASSUME NEW x \in BlockNumbers, NEW v \in DataWrites(x, blockmap[c][x])
        PROVE  (InPlace(v) => InPlace(v)') /\ (v = w => InPlace(v)')
    <3>1. blockmap[c][x] \in LockEntries(N) /\ N \in Nat
      BY ConstantsAssumption DEF Types
    <3>2. v.file # "log"
      BY <3>1, DataWritesTypes
    <3> QED
      BY <1>0, <1>3, <1>5, <3>2 DEF InPlace
  <2> QED
    BY <1>0, <2>1, <2>2, <2>3, <2>4, <2>5, TodoStep
<1>7. Trace'
  <2>1. \A d \in Clients : Traced(d)' => d = c
    BY <1>1
  <2>2. ASSUME NEW i \in 1 .. p + 1
        PROVE  /\ log'[i].action = "LBEGIN" <=> i = 1
               /\ log'[i].action \notin Marks
               /\ log'[i].action \in Undoing =>
                    /\ Writing(blockmap[c][log'[i].block])
                    /\ log'[i] = RecordOf(t, log'[i].block, blockmap[c][log'[i].block])
    <3>1. CASE i = p + 1
      <4>1. i = 1 <=> p = 0
        BY ONLY <1>2, <3>1
      <4>2. rec.action \in Undoing => Writing(blockmap[c][rec.block])
        BY RecordLocks
      <4> QED
        BY <1>0, <1>3, <3>1, <4>1, <4>2
    <3>2. CASE i \in 1 .. p
      <4>1. log'[i] = log[i] /\ log[i].action \notin Marks
        BY <1>2, <1>3, <3>2
      <4>2. /\ log[i].action = "LBEGIN" <=> i = 1
            /\ log[i].action \in Undoing =>
                    /\ Writing(blockmap[c][log[i].block])
                    /\ log[i] = RecordOf(t, log[i].block, blockmap[c][log[i].block])
        BY <1>0, <1>2, <3>2 DEF Trace
      <4> QED
        BY <4>1, <4>2
    <3> QED
      BY <1>4, <3>1, <3>2
  <2>3. \A i \in 1 .. p + 1 : log'[i].action # "LEND" /\ log'[i].action # "LABORT"
    BY <2>2 DEF Marks
  <2>4. logpos'[c] = p + 1 /\ tid'[c] = t /\ blockmap' = blockmap
    BY <1>0, <1>1, <1>3
  <2> QED
    BY <1>3, <2>1, <2>2, <2>3, <2>4 DEF Trace
<1>8. EntriesTrue'
  <2>1. \A d \in Clients : Unended(d)' => Unended(d)
    BY <1>1
  <2> QED
    BY <1>1, <1>3, <2>1 DEF EntriesTrue
<1>9. ASSUME NEW i \in 1 .. p PROVE i \in Loose(log')
  <2>1. i \in 1 .. Len(log') /\ i \in 1 .. p + 1 /\ log'[i].tid = t
    BY <1>2, <1>3
  <2>2. ASSUME NEW j \in i .. Len(log'), log'[j].tid = log'[i].tid PROVE log'[j].action \notin Marks
    <3>1. j \in 1 .. Len(log') /\ j \in 1 .. p + 1
      BY <1>2, <1>3, <2>1, <2>2
    <3> QED
      BY <1>2, <1>3, <1>4, <3>1
  <2> QED
    BY <2>1, <2>2 DEF Loose
<1>10. Undoable'
  <2>1. ASSUME NEW i \in Loose(log'), log'[i].action \in Undoing, log'[i].block \notin stale
        PROVE  /\ RestoredBy(log'[i]) = db[log'[i].block]
               /\ log'[i].action = "LWRITE" => index[log'[i].block] = "A"
    <3>1. CASE i \in 1 .. p
      <4>1. log'[i] = log[i] /\ i \in Loose(log)
        BY <1>2, <1>3, <3>1
      <4> QED
        BY <2>1, <4>1 DEF Undoable, LooseRecordsRestore
    <3>2. CASE i = p + 1
      <4>1. PICK b, e : b = rec.block /\ e = blockmap[c][rec.block]
        OBVIOUS
      <4>2. log'[i] = rec /\ rec.action \in Undoing /\ b \in BlockNumbers /\ rec = RecordOf(tid[c], b, e)
        BY <1>3, <2>1, <3>2, <4>1
      <4>3. Writing(e) /\ (rec.action = "LWRITE" => e.lock = "W_LOCK")
        BY <4>2, RecordLocks
      <4>4. e # NoEntry
        BY <4>3 DEF Writing, NoEntry
      <4>5. /\ e.lock = "A_LOCK" => e.oldindex = "U"
            /\ e.lock = "W_LOCK" => e.oldindex = "A"
            /\ Found(e) = db[b]
            /\ e.lock = "W_LOCK" => index[b] = "A"
        BY <1>1, <2>1, <4>1, <4>2, <4>3, <4>4 DEF EntriesTrue
      <4>6. RestoredBy(rec) = Found(e)
        BY <4>2, <4>5, RecordLocks
      <4> QED
        BY <4>1, <4>2, <4>3, <4>5, <4>6
    <3> QED
      BY <1>3, <1>4, <3>1, <3>2
  <2>2. LooseRecordsRestore(index', log', db', stale')
    BY <1>1, <1>3, <2>1 DEF LooseRecordsRestore
  <2>3. ASSUME NEW x \in BlockNumbers \ stale, View(index, store)[x] # db[x]
        PROVE  \E i \in Loose(log') : log'[i].block = x /\ log'[i].action \in Undoing
    <3>1. PICK i \in Loose(log) : log[i].block = x /\ log[i].action \in Undoing
      BY <2>3 DEF Undoable, DifferencesCovered
    <3>2. i \in Loose(log') /\ log'[i] = log[i]
      BY <1>2, <1>3, <1>9
    <3> QED
      BY <3>1, <3>2
  <2>4. DifferencesCovered(index', store', log', db', stale')
    BY <1>1, <1>3, <2>3 DEF DifferencesCovered
  <2> QED
    BY <2>2, <2>4 DEF Undoable
<1>11. OneCommit'
  <2>1. \A d, f \in Clients : InCommit(d)' /\ InCommit(f)' => d = f
    BY <1>1 DEF OneCommit
  <2>2. \A i \in Loose(log') : /\ log'[i].tid = t
                               /\ log'[i].action \in Undoing => Writing(blockmap[c][log'[i].block])
    <3> TAKE i \in Loose(log')
    <3>1. i \in 1 .. p + 1 /\ i \in 1 .. Len(log')
      BY <1>3 DEF Loose
    <3>2. log'[i].tid = t
      BY <1>2, <1>3, <3>1
    <3>3. Traced(c)' /\ logpos'[c] = p + 1 /\ blockmap' = blockmap
      BY <1>1, <1>2, <1>3 DEF Traced
    <3>4. log'[i].action \in Undoing => Writing(blockmap[c][log'[i].block])
      BY <1>7, <3>1, <3>3 DEF Trace
    <3> QED
      BY <3>2, <3>4
  <2>3. todo'[c] # << >>
    BY <1>6 DEF Unended
  <2>4. InCommit(c)' /\ tid'[c] = t /\ \A d \in Clients : phase'[d] = "committing" => d = c
    BY <1>0, <1>1, <1>2
  <2> QED
    BY <1>1, <2>1, <2>2, <2>3, <2>4 DEF OneCommit
<1> QED
  BY <1>1, <1>3, <1>6, <1>7, <1>8, <1>10, <1>11 DEF Rest

\* The LEND: what the transaction has written is in place and becomes what is committed.
LEMMA EndRecordStep ==
  ASSUME IInv, NEW c \in Clients, Write(c),
         todo[c][1] = ToLog(LogRecord(tid[c], "LEND")), Len(todo[c]) = 1
  PROVE  Rest'
<1> USE DEF IInv
<1> DEFINE N == MaxTransactions
<1>0. PICK w, t, p, rec : /\ w = todo[c][1] /\ t = tid[c] /\ p = logpos[c]
                          /\ rec = LogRecord(t, "LEND")
  OBVIOUS
<1>1. /\ UNCHANGED <<begun, next_tid, epoch, mode, job, victim, committing, orphans,
                     phase, tid, blockmap, stale>>
      /\ todo'[c] = Tail(todo[c])
      /\ Unended(c) /\ \A d \in Clients \ {c} : ~ Unended(d) /\ ~ Unended(d)' /\ ~ Traced(d)'
      /\ \A d \in Clients : InCommit(d)' <=> InCommit(d)
      /\ NoConflicts' /\ UndoJob'
  BY WriteFrame
<1>2. /\ \A d \in Clients : InCommit(d) \/ phase[d] = "committing" => d = c
      /\ InCommit(c) /\ Traced(c) /\ p \in Nat /\ p <= Len(log)
      /\ \A i \in 1 .. p : i \in Loose(log) /\ log[i].action \notin Marks
      /\ Loose(log) \subseteq 1 .. p
  BY <1>0, <1>1, WriterAlone
<1>3. /\ rec.tid = t /\ rec.action = "LEND" /\ w = ToLog(rec) /\ rec \in LogRecords(N)
      /\ w.file = "log" /\ w.rec = rec
      /\ N \in Nat /\ todo[c] \in Seq(FileWrites(N)) /\ todo[c] # << >>
  <2>1. todo[c] \in Seq(FileWrites(N)) /\ todo[c] # << >> /\ N \in Nat
    BY <1>1, ConstantsAssumption DEF Types, Unended
  <2>2. w \in FileWrites(N)
    BY <1>0, <2>1, HeadAndTail
  <2>3. w = ToLog(rec) /\ w.file = "log" /\ w.rec = rec
    BY <1>0 DEF ToLog
  <2>4. rec.tid = t /\ rec.action = "LEND"
    BY <1>0 DEF LogRecord
  <2> QED
    BY <2>1, <2>2, <2>3, <2>4, FileWriteTypes
<1>4. /\ UNCHANGED <<index, store>> /\ logpos'[c] = p + 1
      /\ db' = [x \in BlockNumbers |-> Committed(x, blockmap[c][x])]
      /\ log' \in Seq(LogRecords(N)) /\ Len(log') \in Nat /\ p + 1 <= Len(log')
      /\ log'[p + 1] = rec
      /\ \A i \in 1 .. p : i \in 1 .. Len(log) /\ log'[i] = log[i]
      /\ \A i \in 1 .. Len(log') : log'[i].tid = t <=> i <= p + 1
      /\ Loose(log') \subseteq 1 .. p + 1
      /\ Numbers'
  <2>1. todo[c][1] = ToLog(rec) /\ rec.tid = tid[c]
    BY <1>0, <1>3
  <2>2. /\ UNCHANGED <<index, store>> /\ logpos'[c] = logpos[c] + 1
        /\ db' = IF rec.action = "LEND"
                 THEN [x \in BlockNumbers |-> Committed(x, blockmap[c][x])] ELSE db
        /\ log' \in Seq(LogRecords(MaxTransactions)) /\ Len(log') \in Nat
        /\ logpos[c] + 1 <= Len(log')
        /\ log'[logpos[c] + 1] = rec
        /\ \A i \in 1 .. logpos[c] : i \in 1 .. Len(log) /\ log'[i] = log[i]
        /\ \A i \in 1 .. Len(log') : log'[i].tid = tid[c] <=> i <= logpos[c] + 1
        /\ Loose(log') \subseteq 1 .. logpos[c] + 1
        /\ Numbers'
    BY <1>3, <2>1, LogStep
  <2> QED
    BY <1>0, <1>3, <2>2
<1>5. ~ Unended(c)'
  <2>1. PICK tl : tl = Tail(todo[c])
    OBVIOUS
  <2>2. Len(tl) = Len(todo[c]) - 1 /\ tl \in Seq(FileWrites(N))
    BY <1>3, <2>1, HeadAndTail
  <2>3. Len(tl) = 0
    BY <2>2
  <2>4. tl = << >>
    BY ONLY <2>2, <2>3
  <2> QED
    BY <1>1, <2>1, <2>4 DEF Unended
<1>6. \A d \in Clients : ~ Unended(d)' /\ (Traced(d)' => d = c)
  BY <1>1, <1>5
<1>7. Todo'
  BY <1>6 DEF Todo
<1>8. Loose(log') = {}
  <2> SUFFICES ASSUME NEW i \in Loose(log') PROVE FALSE
    OBVIOUS
  <2>1. i \in 1 .. p + 1 /\ i \in 1 .. Len(log')
    BY <1>4 DEF Loose
  <2>2. p + 1 \in i .. Len(log') /\ log'[i].tid = t
    BY <1>2, <1>4, <2>1
  <2> QED
    BY <1>3, <1>4, <2>2 DEF Loose, Marks
<1>9. p # 0
  <2>1. p = 0 => w = ToLog(LogRecord(t, "LBEGIN"))
    BY <1>0, <1>1 DEF Todo
  <2>2. w # ToLog(LogRecord(t, "LBEGIN"))
    <3>1. ToLog(LogRecord(t, "LBEGIN")).rec.action = "LBEGIN"
      BY DEF ToLog, LogRecord
    <3> QED
      BY <1>3, <3>1
  <2> QED
    BY <2>1, <2>2
<1>10. Trace'
  <2>1. ASSUME NEW i \in 1 .. p + 1
        PROVE  /\ log'[i].action = "LBEGIN" <=> i = 1
               /\ log'[i].action = "LEND" => i = p + 1
               /\ log'[i].action # "LABORT"
               /\ log'[i].action \in Undoing =>
                    /\ Writing(blockmap[c][log'[i].block])
                    /\ log'[i] = RecordOf(t, log'[i].block, blockmap[c][log'[i].block])
    <3>1. CASE i = p + 1
      <4>1. i # 1
        BY ONLY <1>2, <1>9, <3>1
      <4> QED
        BY <1>3, <1>4, <3>1, <4>1 DEF Undoing
    <3>2. CASE i \in 1 .. p
      <4>1. log'[i] = log[i] /\ log[i].action \notin Marks
        BY <1>2, <1>4, <3>2
      <4>2. /\ log[i].action = "LBEGIN" <=> i = 1
            /\ log[i].action \in Undoing =>
                    /\ Writing(blockmap[c][log[i].block])
                    /\ log[i] = RecordOf(t, log[i].block, blockmap[c][log[i].block])
        BY <1>0, <1>2, <3>2 DEF Trace
      <4> QED
        BY <4>1, <4>2 DEF Marks
    <3> QED
      BY <1>2, <3>1, <3>2
  <2>2. logpos'[c] = p + 1 /\ tid'[c] = t /\ blockmap' = blockmap
    BY <1>0, <1>1, <1>4
  <2> QED
    BY <1>4, <1>6, <2>1, <2>2 DEF Trace
<1>11. ASSUME NEW b \in BlockNumbers, ~ Writing(blockmap[c][b])
       PROVE  db'[b] = db[b]
  <2>1. db'[b] = Committed(b, blockmap[c][b])
    BY <1>4
  <2> QED
    BY <1>11, <2>1 DEF Committed, Writing
<1>12. EntriesTrue'
  <2> SUFFICES ASSUME NEW d \in Clients, NEW b \in BlockNumbers, blockmap[d][b] # NoEntry
               PROVE  LET e == blockmap[d][b] IN
                      /\ e.lock = "A_LOCK" => e.oldindex = "U"
                      /\ e.lock = "W_LOCK" => e.oldindex = "A"
                      /\ b \notin stale /\ Writing(e) /\ phase[d] = "ready" => Found(e) = db'[b]
    BY <1>1, <1>6 DEF EntriesTrue
  <2>1. /\ blockmap[d][b].lock = "A_LOCK" => blockmap[d][b].oldindex = "U"
        /\ blockmap[d][b].lock = "W_LOCK" => blockmap[d][b].oldindex = "A"
        /\ b \notin stale /\ Writing(blockmap[d][b]) /\ phase[d] = "ready"
             => Found(blockmap[d][b]) = db[b]
    BY DEF EntriesTrue
  <2>2. ASSUME phase[d] = "ready" PROVE ~ Writing(blockmap[c][b])
    <3>1. d # c
      BY <1>1, <2>2 DEF Unended
    <3>2. ~ Conflicting(blockmap[c][b], blockmap[d][b])
      BY <3>1 DEF NoConflicts
    <3>3. Writing(blockmap[c][b]) => blockmap[c][b] # NoEntry
      BY DEF Writing, NoEntry
    <3> QED
      BY <3>2, <3>3 DEF Conflicting
  <2> QED
    BY <1>11, <2>1, <2>2
<1>13. ASSUME NEW b \in BlockNumbers \ stale PROVE View(index, store)[b] = db'[b]
  <2>1. PICK e : e = blockmap[c][b]
    OBVIOUS
  <2>2. \A v \in DataWrites(b, e) : InPlace(v)
    <3>1. \A v \in DataWrites(b, e) : InPlace(v) \/ v \in Elements(todo[c])
      BY <1>1, <2>1 DEF Todo
    <3>2. \A v \in Elements(todo[c]) : v.file = "log"
      BY <1>0, <1>3 DEF Elements
    <3>3. \A v \in DataWrites(b, e) : v.file # "log"
      <4>1. e \in LockEntries(N)
        BY <2>1 DEF Types
      <4> QED
        BY <1>3, <4>1, DataWritesTypes
    <3> QED
      BY <3>1, <3>2, <3>3
  <2>3. db'[b] = Committed(b, e)
    BY <1>4, <2>1
  <2>4. /\ \A v : InPlace(ToIndex(b, v)) => index[b] = v
        /\ \A v : InPlace(ToStore(b, v)) => store[b] = v
    BY DEF InPlace, ToIndex, ToStore
  <2>5. View(index, store)[b] = Seen(index[b], store[b])
    BY ViewIsSeen
  <2>6. CASE e.lock = "A_LOCK"
    <3>1. DataWrites(b, e) = {ToIndex(b, "A"), ToStore(b, e.data)}
      BY <2>6 DEF DataWrites
    <3>2. index[b] = "A" /\ store[b] = e.data
      BY <2>2, <2>4, <3>1
    <3> QED
      BY <2>3, <2>5, <2>6, <3>2 DEF Committed, Writing, Seen
  <2>7. CASE e.lock = "W_LOCK"
    <3>1. DataWrites(b, e) = {ToStore(b, e.data)}
      BY <2>7 DEF DataWrites
    <3>2. store[b] = e.data
      BY <2>2, <2>4, <3>1
    <3>3. e # NoEntry
      BY <2>7 DEF NoEntry
    <3>4. index[b] = "A"
      BY <1>1, <2>1, <2>7, <3>3 DEF EntriesTrue
    <3> QED
      BY <2>3, <2>5, <2>7, <3>2, <3>4 DEF Committed, Writing, Seen
  <2>8. CASE e.lock = "S_LOCK"
    <3>1. DataWrites(b, e) = {ToIndex(b, "U")}
      BY <2>8 DEF DataWrites
    <3>2. index[b] = "U"
      BY <2>2, <2>4, <3>1
    <3> QED
      BY <2>3, <2>5, <2>8, <3>2 DEF Committed, Seen
  <2>9. CASE ~ Writing(e)
    <3>1. db'[b] = db[b]
      BY <1>11, <2>1, <2>9
    <3>2. View(index, store)[b] = db[b]
      <4> SUFFICES ASSUME View(index, store)[b] # db[b] PROVE FALSE
        OBVIOUS
      <4>1. PICK i \in Loose(log) : log[i].block = b /\ log[i].action \in Undoing
        BY DEF Undoable, DifferencesCovered
      <4>2. i \in 1 .. logpos[c]
        BY <1>0, <1>2
      <4>3. Writing(blockmap[c][log[i].block])
        BY <1>2, <4>1, <4>2 DEF Trace
      <4> QED
        BY <2>1, <2>9, <4>1, <4>3
    <3> QED
      BY <3>1, <3>2
  <2> QED
    BY <2>6, <2>7, <2>8, <2>9 DEF Writing
<1>14. Undoable'
  <2>1. LooseRecordsRestore(index', log', db', stale')
    BY <1>8 DEF LooseRecordsRestore
  <2>2. DifferencesCovered(index', store', log', db', stale')
    BY <1>1, <1>4, <1>13 DEF DifferencesCovered
  <2> QED
    BY <2>1, <2>2 DEF Undoable
<1>15. OneCommit'
  <2>1. \A d, f \in Clients : InCommit(d)' /\ InCommit(f)' => d = f
    BY <1>1 DEF OneCommit
  <2> QED
    BY <1>8, <2>1 DEF OneCommit
<1> QED
  BY <1>1, <1>4, <1>7, <1>10, <1>12, <1>14, <1>15 DEF Rest

\* A write() of commit(): one of the three kinds.
LEMMA WriteStep ==
  ASSUME IInv, NEW c \in Clients, Write(c)
  PROVE  Rest'
<1> USE DEF IInv
<1> DEFINE N == MaxTransactions
<1>0. PICK w, t : w = todo[c][1] /\ t = tid[c]
  OBVIOUS
<1>1. Unended(c)
  BY WriteFrame
<1>2. /\ todo[c] \in Seq(FileWrites(N)) /\ todo[c] # << >> /\ N \in Nat
      /\ t \in 1 .. N /\ logpos[c] \in Nat
      /\ \A b \in BlockNumbers : blockmap[c][b] \in LockEntries(N)
  BY <1>0, <1>1, ConstantsAssumption DEF Types, Unended
<1>3. Len(todo[c]) \in Nat /\ Len(todo[c]) >= 1 /\ w \in FileWrites(N)
  BY <1>0, <1>2, HeadAndTail
<1>4. \A u : ToLog(u).file = "log" /\ ToLog(u).rec = u
  BY DEF ToLog
<1>5. \A u : LogRecord(t, u).action = u /\ LogRecord(t, u).tid = t
  BY DEF LogRecord
<1>6. /\ logpos[c] = 0 => w = ToLog(LogRecord(t, "LBEGIN"))
      /\ Planned(c, 1)
  BY <1>0, <1>1, <1>3 DEF Todo
<1>7. CASE w = ToLog(LogRecord(t, "LBEGIN")) /\ logpos[c] = 0
  <2>1. PICK rec : rec = LogRecord(t, "LBEGIN")
    OBVIOUS
  <2>2. rec.action = "LBEGIN" /\ rec.tid = t /\ w = ToLog(rec)
    BY <1>5, <1>7, <2>1
  <2>3. rec \in LogRecords(N)
    BY <1>2, <1>3, <1>4, <2>2, FileWriteTypes
  <2> QED
    BY <1>0, <1>7, <2>2, <2>3, RecordStep DEF Marks, Undoing
<1>8. CASE w = ToLog(LogRecord(t, "LEND")) /\ 1 = Len(todo[c])
  BY <1>0, <1>8, EndRecordStep
<1>9. ASSUME NEW b \in BlockNumbers, w = ToLog(RecordOf(t, b, blockmap[c][b]))
      PROVE  Rest'
  <2>1. PICK rec : rec = RecordOf(t, b, blockmap[c][b])
    OBVIOUS
  <2>2. /\ rec \in LogRecords(N) /\ rec.tid = t /\ rec.block = b
        /\ rec.action \in {"LALLOCATE", "LWRITE", "LRELEASE", "LREAD"}
    <3>1. PICK e : e = blockmap[c][b]
      OBVIOUS
    <3>2. e \in LockEntries(N) /\ rec = RecordOf(t, b, e)
      BY <1>2, <2>1, <3>1
    <3> QED
      BY <1>2, <3>2, RecordOfTypes
  <2>3. logpos[c] # 0
    <3>1. ToLog(LogRecord(t, "LBEGIN")).rec.action = "LBEGIN"
      BY DEF ToLog, LogRecord
    <3>2. ToLog(rec).rec = rec
      BY DEF ToLog
    <3> QED
      BY <1>6, <1>9, <2>1, <2>2, <3>1, <3>2
  <2> QED
    BY <1>0, <1>9, <2>1, <2>2, <2>3, RecordStep DEF Marks
<1>10. ASSUME NEW b \in BlockNumbers, w \in DataWrites(b, blockmap[c][b])
       PROVE  Rest'
  BY <1>0, <1>10, DataStep
<1> QED
  BY <1>0, <1>6, <1>7, <1>8, <1>9, <1>10 DEF Planned

\* Every step keeps the invariant, with one monitor and one commit at a time.
LEMMA NextInv ==
  ASSUME SerialCommits, OperatorWaits, MaxEpochs <= 1, IInv, [Next]_vars
  PROVE  IInv'
<1>1. Types' /\ Operating' /\ Marking'
  BY TypesStep, OperatingStep, MarkingStep DEF IInv
<1>2. ASSUME NEW c \in Clients,
             \/ Begin(c) \/ Lock(c) \/ \E b \in BlockNumbers : Look(c, b)
             \/ Commit(c) \/ CommitUnheard(c) \/ Write(c) \/ End(c) \/ Leave(c) \/ Disconnect(c)
      PROVE  Rest'
  BY <1>2, BeginStep, LookStep, LockStep, BeginCommitStep, WriteStep, EndStep, DisconnectStep
<1>3. ASSUME MonitorStep PROVE Rest'
  BY <1>3, UndoStep, RolledBackStep, RecoverStep DEF MonitorStep
<1>4. ASSUME MonitorDies \/ Recover \/ RecoverDies PROVE Rest'
  BY <1>4, MonitorDiesStep, RecoverStep
<1>5. ~ StartMonitor
  BY ConstantsAssumption DEF StartMonitor, IInv, Numbers
<1>6. ASSUME UNCHANGED vars PROVE Rest'
  <2>1. UNCHANGED <<index, store, log, begun, next_tid, epoch, mode, job, victim, committing,
                    phase, tid, blockmap, todo, logpos, db, stale>>
    BY <1>6 DEF vars, files, monitor, clientVars, history
  <2>2. \A d \in Clients : /\ InCommit(d)' <=> InCommit(d)
                           /\ Unended(d)' <=> Unended(d)
                           /\ Traced(d)' <=> Traced(d)
    BY <2>1 DEF InCommit, Unended, Traced
  <2>3. Numbers' /\ NoConflicts' /\ EntriesTrue' /\ Undoable'
    BY <2>1, <2>2 DEF IInv, Numbers, NoConflicts, EntriesTrue, Undoable
  <2>4. OneCommit' /\ Trace'
    BY <2>1, <2>2 DEF IInv, OneCommit, Serving, Trace
  <2>5. Todo' /\ UndoJob'
    BY <2>1, <2>2 DEF IInv, Todo, Planned, Logged, InPlace, UndoJob
  <2> QED
    BY <2>3, <2>4, <2>5 DEF Rest
<1>7. Rest'
  BY <1>2, <1>3, <1>4, <1>5, <1>6 DEF Next
<1> QED
  BY <1>1, <1>7 DEF IInv, Rest

\* The invariant of the files, for any number of clients, blocks, transactions and deaths.
THEOREM Invariant ==
  SerialCommits /\ OperatorWaits /\ MaxEpochs <= 1 => (Spec => []IInv)
<1> SUFFICES ASSUME SerialCommits, OperatorWaits, MaxEpochs <= 1 PROVE Spec => []IInv
  OBVIOUS
<1>1. IInv /\ [Next]_vars => IInv'
  BY NextInv
<1> QED
  BY <1>1, InitInv, PTL DEF Spec

-----------------------------------------------------------------------------
(* What the invariant is for.  All of it is about the blocks that nobody   *)
(* has locked for writing on an outdated look at the index.                *)

\* Recoverable: if everything stopped at any write() of commit(), rollback() or
\* doRecovery(), a run of recover would leave exactly what the transactions whose
\* LEND is in the log have written, in every block but those locked on an outdated look.
THEOREM AlwaysRecoverable ==
  SerialCommits /\ OperatorWaits /\ MaxEpochs <= 1 => (Spec => []Recoverable)
<1> SUFFICES ASSUME SerialCommits, OperatorWaits, MaxEpochs <= 1 PROVE Spec => []Recoverable
  OBVIOUS
<1>1. IInv => Recoverable
  <2> SUFFICES ASSUME IInv
               PROVE  \A b \in BlockNumbers \ stale : RecoveredView(index, store, log)[b] = db[b]
    BY DEF Recoverable, Sound
  <2>1. /\ MaxTransactions \in Nat /\ log \in Seq(LogRecords(MaxTransactions))
        /\ db \in [BlockNumbers -> BlockViews(MaxTransactions)]
        /\ LooseRecordsRestore(index, log, db, stale)
        /\ DifferencesCovered(index, store, log, db, stale)
    BY ConstantsAssumption DEF IInv, Types, Undoable
  <2> QED
    BY <2>1, RecoverRestores
<1> QED
  BY <1>1, Invariant, PTL

\* ReadersSeeCommitted: while the monitor gives out locks, a block that does not hold
\* what was committed last is write-locked by a client that is in commit(), or somebody
\* has locked it on an outdated look.
THEOREM LockedUnlessCommitted ==
  SerialCommits /\ OperatorWaits /\ MaxEpochs <= 1 => (Spec => []ReadersSeeCommitted)
<1> SUFFICES ASSUME SerialCommits, OperatorWaits, MaxEpochs <= 1 PROVE Spec => []ReadersSeeCommitted
  OBVIOUS
<1>1. IInv => ReadersSeeCommitted
  BY UnlockedIsCommitted DEF ReadersSeeCommitted, Sound
<1> QED
  BY <1>1, Invariant, PTL

\* RecoveryComplete: when recover has finished the files hold what was committed, even
\* if earlier runs of it were killed at some write() of doRecovery, in every block but
\* those locked on an outdated look.
THEOREM RecoveryRestores ==
  SerialCommits /\ OperatorWaits /\ MaxEpochs <= 1 => (Spec => []RecoveryComplete)
<1> SUFFICES ASSUME SerialCommits, OperatorWaits, MaxEpochs <= 1 PROVE Spec => []RecoveryComplete
  OBVIOUS
<1>1. IInv => RecoveryComplete
  <2> SUFFICES ASSUME IInv, mode = "recovered"
               PROVE  \A b \in BlockNumbers \ stale : TheView[b] = db[b]
    BY DEF RecoveryComplete, Sound
  <2>1. Loose(log) = {}
    BY DEF IInv, Marking
  <2> QED
    BY <2>1 DEF IInv, Undoable, DifferencesCovered, TheView
<1> QED
  BY <1>1, Invariant, PTL

\* RollbackStaysInLocks: rollback() writes only to blocks that its transaction still
\* has write-locked.
THEOREM RollbackInLocks ==
  SerialCommits /\ OperatorWaits /\ MaxEpochs <= 1 => (Spec => RollbackStaysInLocks)
<1> SUFFICES ASSUME SerialCommits, OperatorWaits, MaxEpochs <= 1 PROVE Spec => RollbackStaysInLocks
  OBVIOUS
<1> DEFINE InLocks ==
             mode = "rollback" =>
               \A b \in BlockNumbers : index'[b] # index[b] \/ store'[b] # store[b]
                                         => Writing(blockmap[victim][b])
<1>1. IInv /\ [Next]_vars => InLocks
  <2> SUFFICES ASSUME IInv, [Next]_vars, mode = "rollback", NEW b \in BlockNumbers,
                      index'[b] # index[b] \/ store'[b] # store[b]
               PROVE  Writing(blockmap[victim][b])
    OBVIOUS
  <2>1. ASSUME NEW c \in Clients, Write(c) PROVE FALSE
    <3>1. Unended(c)
      BY <2>1, WriteFrame
    <3> QED
      BY <3>1, WriterAlone
  <2>2. CASE Undo
    <3>1. PICK w : w = Head(job)
      OBVIOUS
    <3>2. /\ job # << >> /\ index' = PutIndex(index, w) /\ store' = PutStore(store, w)
      BY <2>2, <3>1 DEF Undo
    <3>3. job \in Seq(FileWrites(MaxTransactions))
      BY DEF IInv, Types
    <3>4. w \in Elements(job) /\ w \in FileWrites(MaxTransactions)
      BY <3>1, <3>2, <3>3, HeadAndTail, TailElements
    <3>5. w.file # "log" => Writing(blockmap[victim][w.block])
      BY <3>4 DEF IInv, UndoJob
    <3>6. w.file # "log" /\ w.block = b
      BY <3>2, <3>4 DEF PutIndex, PutStore, IInv, Types
    <3> QED
      BY <3>5, <3>6
  <2>3. UNCHANGED <<index, store>> \/ Undo \/ \E c \in Clients : Write(c)
    BY DEF Next, MonitorStep, Begin, Look, Lock, Commit, CommitUnheard, BeginCommit, End, Leave,
           Disconnect, RolledBack, Recovered, MonitorDies, Recover, RecoverDies, StartMonitor,
           vars, files
  <2> QED
    BY <2>1, <2>2, <2>3
<1>2. IInv /\ [Next]_vars => [InLocks]_vars
  BY <1>1
<1> HIDE DEF InLocks
<1>3. Spec => [][InLocks]_vars
  BY <1>2, Invariant, PTL DEF Spec
<1> QED
  BY <1>3 DEF InLocks, RollbackStaysInLocks

=============================================================================
