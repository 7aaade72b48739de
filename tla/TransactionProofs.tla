-------------------------- MODULE TransactionProofs --------------------------
(***************************************************************************)
(* Theorems about Transaction, for every set of processes and contents,    *)
(* every size of the store and every bound.                                *)
(***************************************************************************)
EXTENDS Transaction, TLAPS

\* An exception is in flight only on the way to the end of the transaction.
ThrowingEnds ==
  \A p \in Procs :
    thrown[p] # "none" => pc[p] \in {"destroy", "connect", "exited"} \cup Committing

\* What the library has locked for writing has a buffer.
OwnedHaveBuffer ==
  \A p \in Procs, b \in BlockNumbers :
    Owned(blockmap[p][b]) => blockmap[p][b].data # NULL

NewlyAllocated(e) == e # NoEntry /\ e.oldindex = "U"

\* The blocks a transaction allocated lie behind the place where it searches.
SearchGoesOn ==
  \A p \in Procs, b \in BlockNumbers :
    NewlyAllocated(blockmap[p][b]) =>
      /\ b <= last_free_block[p]
      /\ pc[p] \in {"probe", "allocate"} => b < last_free_block[p]

\* Where find_free_block may stand, by what the transaction is about to do.
SearchInside ==
  \A p \in Procs :
    /\ pc[p] \in {"begin", "body", "allocate", "read", "write", "release",
                  "readGranted", "writeGranted", "releaseGranted"}
         => last_free_block[p] <= NBLOCKS
    /\ pc[p] \in {"probe", "allocate"} => last_free_block[p] >= 1

\* Between Begin(T) and the first operation, and between two transactions, the
\* blockmap is empty.
EmptyOutside ==
  \A p \in Procs : pc[p] \in {"idle", "connect", "begin"} => blockmap[p] = EmptyMap

\* A request for a block, and what follows it, is about a block.
RequestsName ==
  \A p \in Procs : pc[p] \in {"read", "write", "release",
                              "readGranted", "writeGranted", "releaseGranted"}
                     => blk[p] \in BlockNumbers

LInv ==
  /\ TypeOK
  /\ ThrownDoesNotCommit
  /\ BuffersLive
  /\ ThrowingEnds
  /\ OwnedHaveBuffer
  /\ SearchGoesOn
  /\ SearchInside
  /\ EmptyOutside
  /\ RequestsName

USE DEF IndexValues, LockTypes, Points, Committing

-----------------------------------------------------------------------------
LEMMA EntryFacts ==
  /\ NoEntry \in Entries
  /\ EmptyMap \in [BlockNumbers -> Entries]
  /\ \A b \in BlockNumbers : EmptyMap[b] = NoEntry
  /\ ~Owned(NoEntry) /\ ~Dangling(NoEntry) /\ ~NewlyAllocated(NoEntry)
  /\ \A e \in Entries : e = NoEntry <=> e.lock = "NONE"
  /\ \A l \in LockTypes, v \in Values \cup {NULL}, w \in Values, i \in IndexValues :
       /\ Entry(l, v, w, i) \in Entries
       /\ Entry(l, v, w, i) # NoEntry
  BY DEF Entries, NoEntry, Entry, EmptyMap, Owned, Dangling, NewlyAllocated

\* What write() and release() do to an entry: the buffer, or the lock, is another one.
LEMMA EntryChanges ==
  ASSUME NEW e \in Entries, e # NoEntry
  PROVE  /\ \A v \in Values \cup {NULL} :
              LET f == [e EXCEPT !.data = v]
              IN  f \in Entries /\ f.lock = e.lock /\ f.oldindex = e.oldindex /\ f.data = v
         /\ LET f == [e EXCEPT !.lock = "S_LOCK"]
            IN  f \in Entries /\ f.lock = "S_LOCK" /\ f.oldindex = e.oldindex /\ f.data = e.data
  BY DEF Entries, NoEntry

\* The members of the short sequences of BlockWrites.
LEMMA RangeOfOne == ASSUME NEW x PROVE Range(<<x>>) = {x}
  BY DEF Range

LEMMA RangeOfTwo == ASSUME NEW x, NEW y PROVE Range(<<x, y>>) = {x, y}
  BY DEF Range

LEMMA RangeOfThree == ASSUME NEW x, NEW y, NEW z PROVE Range(<<x, y, z>>) = {x, y, z}
  BY DEF Range

LEMMA LogWrite == ASSUME NEW r PROVE ToLog(r).file = "log"
  BY DEF ToLog

\* commit() writes to the index what an index holds, to the store what a store
\* holds: it never meets a buffer that is gone.
LEMMA FileWritesTyped ==
  ASSUME NEW entries \in [BlockNumbers -> Entries],
         \A b \in BlockNumbers : Owned(entries[b]) => entries[b].data # NULL
  PROVE  FileWrites(entries) \subseteq FileWrite
<1> SUFFICES ASSUME NEW b \in BlockNumbers,
                    NEW w \in Range(BlockWrites(0, b, entries[b])), w.file # "log"
             PROVE  w \in FileWrite
  BY DEF FileWrites
<1> DEFINE e == entries[b]
<1>0. e \in Entries
  OBVIOUS
<1>1. CASE e.lock = "A_LOCK"
  <2>1. e.data \in Values
    BY <1>0, <1>1, EntryFacts DEF Entries, NoEntry, Owned
  <2> DEFINE rec == BlockRecord(0, "LALLOCATE", b, " ", 0)
  <2>2. BlockWrites(0, b, e) = << ToLog(rec), ToIndex(b, "A"), ToStore(b, e.data) >>
    BY <1>1 DEF BlockWrites
  <2>3. w \in {ToLog(rec), ToIndex(b, "A"), ToStore(b, e.data)}
    BY <2>2, RangeOfThree
  <2>4. CASE w = ToIndex(b, "A")
    BY <2>4 DEF FileWrite, ToIndex
  <2>5. CASE w = ToStore(b, e.data)
    BY <2>1, <2>5 DEF FileWrite, ToStore
  <2>6. w # ToLog(rec)
    BY LogWrite
  <2> QED
    BY <2>3, <2>4, <2>5, <2>6
<1>2. CASE e.lock = "W_LOCK"
  <2>1. e.data \in Values
    BY <1>0, <1>2, EntryFacts DEF Entries, NoEntry, Owned
  <2>2. BlockWrites(0, b, e) = << ToLog(BlockRecord(0, "LWRITE", b, e.oldindex, e.oldval)),
                                  ToStore(b, e.data) >>
    BY <1>2 DEF BlockWrites
  <2>3. w \in {ToLog(BlockRecord(0, "LWRITE", b, e.oldindex, e.oldval)), ToStore(b, e.data)}
    BY <2>2, RangeOfTwo
  <2> QED
    BY <2>1, <2>3 DEF FileWrite, ToStore, ToLog
<1>3. CASE e.lock = "S_LOCK"
  <2>1. BlockWrites(0, b, e) = << ToLog(BlockRecord(0, "LRELEASE", b, e.oldindex, e.oldval)),
                                  ToIndex(b, "U") >>
    BY <1>3 DEF BlockWrites
  <2>2. w \in {ToLog(BlockRecord(0, "LRELEASE", b, e.oldindex, e.oldval)), ToIndex(b, "U")}
    BY <2>1, RangeOfTwo
  <2> QED
    BY <2>2 DEF FileWrite, ToIndex, ToLog
<1>4. CASE e.lock = "R_LOCK"
  <2>1. BlockWrites(0, b, e) = << ToLog(BlockRecord(0, "LREAD", b, " ", 0)) >>
    BY <1>4 DEF BlockWrites
  <2> DEFINE rec == BlockRecord(0, "LREAD", b, " ", 0)
  <2> HIDE DEF rec
  <2>2. w \in {ToLog(rec)}
    BY <2>1, RangeOfOne DEF rec
  <2> QED
    BY <2>2 DEF ToLog
<1>5. CASE e.lock = "NONE"
  <2>1. BlockWrites(0, b, e) = << >>
    BY <1>5 DEF BlockWrites
  <2> QED
    BY <2>1 DEF Range
<1> QED
  BY <1>0, <1>1, <1>2, <1>3, <1>4, <1>5 DEF Entries, NoEntry

LEMMA LInitInv == Init => LInv
<1> SUFFICES ASSUME Init PROVE LInv
  OBVIOUS
<1>1. TypeOK
  BY EntryFacts, ConstantsAssumption, NBLOCKSAssumption DEF Init, TypeOK
<1> QED
  BY <1>1, EntryFacts
  DEF Init, LInv, ThrownDoesNotCommit, BuffersLive, ThrowingEnds, OwnedHaveBuffer, Owned,
      SearchGoesOn, SearchInside, EmptyOutside, RequestsName, Dangling, EmptyMap, NoEntry

-----------------------------------------------------------------------------
(* Begin(T).                                                               *)

LEMMA ConnectInv == ASSUME LInv, NEW p \in Procs, Connect(p) PROVE LInv'
<1> USE DEF LInv, Connect, Goto, files, object, statics, bounds
<1>0. /\ \A b \in BlockNumbers : blockmap'[p][b] = NoEntry
      /\ \A q \in Procs \ {p} : blockmap'[q] = blockmap[q]
  BY EntryFacts DEF TypeOK
<1>1. TypeOK'
  BY EntryFacts, ConstantsAssumption, NBLOCKSAssumption DEF TypeOK
<1>2. ThrownDoesNotCommit'
  BY <1>0, EntryFacts DEF ThrownDoesNotCommit, TypeOK
<1>3. BuffersLive'
  BY <1>0, EntryFacts DEF BuffersLive, TypeOK
<1>4. ThrowingEnds'
  BY <1>0, EntryFacts DEF ThrowingEnds, TypeOK
<1>5. OwnedHaveBuffer'
  BY <1>0, EntryFacts DEF OwnedHaveBuffer, TypeOK
<1>6. SearchGoesOn'
  BY <1>0, EntryFacts DEF SearchGoesOn, TypeOK
<1>7. SearchInside'
  BY NBLOCKSAssumption DEF SearchInside, TypeOK
<1>8. EmptyOutside'
  BY <1>0, EntryFacts DEF EmptyOutside, TypeOK
<1>9. RequestsName'
  BY <1>0, EntryFacts DEF RequestsName, TypeOK
<1> QED
  BY <1>1, <1>2, <1>3, <1>4, <1>5, <1>6, <1>7, <1>8, <1>9

LEMMA AskBeginInv ==
  ASSUME LInv, NEW p \in Procs, NEW reply \in Replies, AskBegin(p, reply)
  PROVE  LInv'
<1> USE DEF LInv, AskBegin, Goto, files, object, statics, bounds
<1>1. TypeOK'
  BY ConstantsAssumption, NBLOCKSAssumption DEF TypeOK
<1>2. ThrownDoesNotCommit'
  BY DEF ThrownDoesNotCommit, TypeOK
<1>3. BuffersLive'
  BY DEF BuffersLive, TypeOK, Dangling
<1>4. ThrowingEnds'
  BY DEF ThrowingEnds, TypeOK
<1>5. OwnedHaveBuffer'
  BY DEF OwnedHaveBuffer, TypeOK, Owned
<1>6. SearchGoesOn'
  BY DEF SearchGoesOn, TypeOK
<1>7. SearchInside'
  BY DEF SearchInside, TypeOK
<1>8. EmptyOutside'
  BY DEF EmptyOutside, TypeOK
<1>9. RequestsName'
  BY DEF RequestsName, TypeOK
<1> QED
  BY <1>1, <1>2, <1>3, <1>4, <1>5, <1>6, <1>7, <1>8, <1>9

LEMMA InvalidBlockInv == ASSUME LInv, NEW p \in Procs, InvalidBlock(p) PROVE LInv'
<1> USE DEF LInv, InvalidBlock, Calls, Throw, Goto, files, object, statics, bounds
<1>1. TypeOK'
  BY ConstantsAssumption, NBLOCKSAssumption DEF TypeOK
<1>2. ThrownDoesNotCommit'
  BY DEF ThrownDoesNotCommit, TypeOK
<1>3. BuffersLive'
  BY DEF BuffersLive, TypeOK, Dangling
<1>4. ThrowingEnds'
  BY DEF ThrowingEnds, TypeOK
<1>5. OwnedHaveBuffer'
  BY DEF OwnedHaveBuffer, TypeOK, Owned
<1>6. SearchGoesOn'
  BY DEF SearchGoesOn, TypeOK
<1>7. SearchInside'
  BY DEF SearchInside, TypeOK
<1>8. EmptyOutside'
  BY DEF EmptyOutside, TypeOK
<1>9. RequestsName'
  BY DEF RequestsName, TypeOK
<1> QED
  BY <1>1, <1>2, <1>3, <1>4, <1>5, <1>6, <1>7, <1>8, <1>9

\* An operation on b that finds b in the blockmap, or not: all it does to the entry
\* is to change or to drop the buffer, or to mark it released.
LEMMA TouchInv ==
  ASSUME LInv, NEW p \in Procs, NEW b \in BlockNumbers,
         NEW g \in Entries, blockmap' = [blockmap EXCEPT ![p][b] = g],
         NewlyAllocated(g) => NewlyAllocated(blockmap[p][b]),
         Owned(g) => g.data # NULL,
         Dangling(g) => pc'[p] \in {"write", "release", "destroy"},
         pc[p] = "body",
         pc' \in [Procs -> Points],
         pc'[p] \in {"body", "read", "write", "release", "destroy"},
         \A q \in Procs \ {p} : pc'[q] = pc[q] /\ thrown'[q] = thrown[q],
         error_occured' \in [Procs -> BOOLEAN],
         thrown' \in [Procs -> {"none", "TE_ABORT", "TE_RESTART"}],
         thrown'[p] # "none" => thrown[p] # "none" \/ pc'[p] = "destroy",
         blk' = [blk EXCEPT ![p] = b],
         newval' \in [Procs -> Values],
         ops' \in [Procs -> 0 .. MaxOps],
         UNCHANGED <<index, store, last_free_block, last_sleep, todo, begun>>
  PROVE  LInv'
<1> USE DEF LInv
<1>0. /\ blockmap' \in [Procs -> [BlockNumbers -> Entries]]
      /\ blockmap'[p][b] = g
      /\ \A q \in Procs, d \in BlockNumbers :
           q # p \/ d # b => blockmap'[q][d] = blockmap[q][d]
  BY DEF TypeOK
<1>1. TypeOK'
  BY <1>0 DEF TypeOK
<1>2. ThrownDoesNotCommit' /\ ThrowingEnds' /\ RequestsName'
  <2>1. ThrownDoesNotCommit'
    BY DEF ThrownDoesNotCommit, TypeOK
  <2>2. ThrowingEnds'
    BY DEF ThrowingEnds, TypeOK
  <2>3. RequestsName'
    BY DEF RequestsName, TypeOK
  <2> QED
    BY <2>1, <2>2, <2>3
<1>3. BuffersLive'
  <2> SUFFICES ASSUME NEW q \in Procs, NEW d \in BlockNumbers, Dangling(blockmap'[q][d])
               PROVE  /\ d = blk'[q]
                      /\ pc'[q] \in {"write", "release", "writeGranted", "releaseGranted",
                                     "restart", "destroy"}
    BY DEF BuffersLive, Dangling
  <2>1. CASE q = p /\ d = b
    BY <1>0, <2>1 DEF TypeOK
  <2>2. CASE q = p /\ d # b
    <3>1. Dangling(blockmap[p][d])
      BY <1>0, <2>2
    <3> QED
      BY <3>1 DEF BuffersLive
  <2>3. CASE q # p
    <3>1. Dangling(blockmap[q][d])
      BY <1>0, <2>3
    <3> QED
      BY <2>3, <3>1 DEF BuffersLive, TypeOK
  <2> QED
    BY <2>1, <2>2, <2>3
<1>4. OwnedHaveBuffer'
  <2> SUFFICES ASSUME NEW q \in Procs, NEW d \in BlockNumbers, Owned(blockmap'[q][d])
               PROVE  blockmap'[q][d].data # NULL
    BY DEF OwnedHaveBuffer, Owned
  <2>1. CASE q = p /\ d = b
    BY <1>0, <2>1
  <2>2. CASE q # p \/ d # b
    <3>1. blockmap'[q][d] = blockmap[q][d]
      BY <1>0, <2>2
    <3> QED
      BY <3>1 DEF OwnedHaveBuffer
  <2> QED
    BY <2>1, <2>2
<1>5. EmptyOutside'
  <2> SUFFICES ASSUME NEW q \in Procs, q # p, pc[q] \in {"idle", "connect", "begin"}
               PROVE  blockmap'[q] = EmptyMap
    BY DEF EmptyOutside, EmptyMap, NoEntry
  <2>1. \A d \in BlockNumbers : blockmap'[q][d] = EmptyMap[d]
    BY <1>0 DEF EmptyOutside
  <2> QED
    BY <1>0, <2>1 DEF EmptyMap, TypeOK
<1>6. SearchGoesOn'
  <2> SUFFICES ASSUME NEW q \in Procs, NEW d \in BlockNumbers, NewlyAllocated(blockmap'[q][d])
               PROVE  /\ d <= last_free_block[q]
                      /\ pc'[q] \in {"probe", "allocate"} => d < last_free_block[q]
    BY DEF SearchGoesOn, NewlyAllocated
  <2>1. NewlyAllocated(blockmap[q][d])
    BY <1>0
  <2> QED
    BY <2>1 DEF SearchGoesOn
<1>7. SearchInside'
  BY DEF SearchInside
<1> QED
  BY <1>1, <1>2, <1>3, <1>4, <1>5, <1>6, <1>7

LEMMA ReadInv ==
  ASSUME LInv, NEW p \in Procs, NEW b \in BlockNumbers, Read(p, b)
  PROVE  LInv'
<1> USE DEF LInv, TypeOK
<1>1. /\ pc[p] = "body" /\ pc' \in [Procs -> Points]
      /\ pc'[p] \in {"body", "read", "destroy"}
      /\ error_occured' \in [Procs -> BOOLEAN]
      /\ thrown' \in [Procs -> {"none", "TE_ABORT", "TE_RESTART"}]
      /\ thrown'[p] # "none" => thrown[p] # "none" \/ pc'[p] = "destroy"
      /\ \A q \in Procs \ {p} : pc'[q] = pc[q] /\ thrown'[q] = thrown[q]
  BY ZenonT(60) DEF Read, Calls, RequestOrAbort, StayInBody, Abort, Throw, Goto
<1>2. /\ blk' = [blk EXCEPT ![p] = b]
      /\ ops' \in [Procs -> 0 .. MaxOps]
      /\ UNCHANGED <<index, store, newval, blockmap, last_free_block, last_sleep, todo, begun>>
  BY ConstantsAssumption DEF Read, Calls, files
<1>3. blockmap' = [blockmap EXCEPT ![p][b] = blockmap[p][b]] /\ blockmap[p][b] \in Entries
  BY <1>2
<1>4. /\ ~Dangling(blockmap[p][b])
      /\ Owned(blockmap[p][b]) => blockmap[p][b].data # NULL
  BY <1>1 DEF BuffersLive, OwnedHaveBuffer
<1> QED
  BY <1>1, <1>2, <1>3, <1>4, TouchInv

LEMMA WriteInv ==
  ASSUME LInv, NEW p \in Procs, NEW b \in BlockNumbers, NEW v \in Values, Write(p, b, v)
  PROVE  LInv'
<1> DEFINE e == blockmap[p][b]
<1> USE DEF LInv
<1>1. e \in Entries /\ (e # NoEntry => e.lock \in LockTypes)
  BY EntryFacts DEF TypeOK, Entries
<1>2. /\ pc[p] = "body" /\ pc' \in [Procs -> Points]
      /\ pc'[p] \in {"body", "read", "write", "release", "destroy"}
      /\ error_occured' \in [Procs -> BOOLEAN]
      /\ thrown' \in [Procs -> {"none", "TE_ABORT", "TE_RESTART"}]
      /\ thrown'[p] # "none" => thrown[p] # "none" \/ pc'[p] = "destroy"
      /\ \A q \in Procs \ {p} : pc'[q] = pc[q] /\ thrown'[q] = thrown[q]
  BY ZenonT(60), EntryFacts DEF Write, Calls, RequestOrAbort, StayInBody, Abort, Throw, Goto, TypeOK
<1>3. /\ blk' = [blk EXCEPT ![p] = b]
      /\ newval' \in [Procs -> Values]
      /\ ops' \in [Procs -> 0 .. MaxOps]
      /\ UNCHANGED <<index, store, last_free_block, last_sleep, todo, begun>>
  BY ConstantsAssumption DEF Write, Calls, TypeOK, files
<1>4. ASSUME blockmap' = blockmap, ~Dangling(e)
      PROVE  LInv'
  <2>1. blockmap' = [blockmap EXCEPT ![p][b] = e]
    BY <1>4 DEF TypeOK
  <2>2. Owned(e) => e.data # NULL
    BY DEF OwnedHaveBuffer
  <2> QED
    BY <1>1, <1>2, <1>3, <1>4, <2>1, <2>2, TouchInv
<1>5. CASE e.lock = "S_LOCK"
  BY <1>4, <1>5 DEF Write, Dangling
<1>6. CASE e.lock \in {"A_LOCK", "W_LOCK"}
  <2> DEFINE g == [e EXCEPT !.data = v]
  <2>1. blockmap' = [blockmap EXCEPT ![p][b] = g]
    BY <1>6 DEF Write, SetEntry
  <2>2. e # NoEntry
    BY <1>6 DEF NoEntry
  <2>3. g \in Entries /\ g.lock = e.lock /\ g.oldindex = e.oldindex /\ g.data = v
    BY <1>1, <2>2 DEF Entries, NoEntry
  <2>4. /\ NewlyAllocated(g) => NewlyAllocated(e)
        /\ ~Dangling(g) /\ g.data # NULL
    BY <1>6, <2>2, <2>3, NullAssumption DEF NewlyAllocated, Dangling
  <2> QED
    BY <1>2, <1>3, <2>1, <2>3, <2>4, TouchInv
<1>7. CASE e.lock = "R_LOCK"
  <2> DEFINE g == [e EXCEPT !.data = NULL]
  <2>1. e # NoEntry
    BY <1>7 DEF NoEntry
  <2>2. blockmap' = DropReadBuffer(p, b) /\ RequestOrAbort(p, b, "write")
    BY <1>7, <2>1 DEF Write, Owned
  <2>3. /\ blockmap' = [blockmap EXCEPT ![p][b] = g]
        /\ pc'[p] \in {"write", "release", "destroy"}
    BY <2>2 DEF DropReadBuffer, RequestOrAbort, Abort, Throw, Goto, TypeOK
  <2>4. g \in Entries /\ g.lock = "R_LOCK" /\ g.oldindex = e.oldindex /\ g # NoEntry
    BY <1>1, <1>7, <2>1 DEF Entries, NoEntry
  <2>5. ~Owned(g) /\ (NewlyAllocated(g) => NewlyAllocated(e))
    BY <2>1, <2>4 DEF Owned, NewlyAllocated
  <2> QED
    BY <1>2, <1>3, <2>3, <2>4, <2>5, TouchInv
<1>8. CASE e = NoEntry
  BY <1>4, <1>8, EntryFacts DEF Write, Owned, NoEntry
<1> QED
  BY <1>1, <1>5, <1>6, <1>7, <1>8 DEF Owned

LEMMA ReleaseInv ==
  ASSUME LInv, NEW p \in Procs, NEW b \in BlockNumbers, Release(p, b)
  PROVE  LInv'
<1> DEFINE e == blockmap[p][b]
<1> USE DEF LInv
<1>1. e \in Entries /\ (e # NoEntry => e.lock \in LockTypes)
  BY EntryFacts DEF TypeOK, Entries
<1>2. /\ pc[p] = "body" /\ pc' \in [Procs -> Points]
      /\ pc'[p] \in {"body", "read", "write", "release", "destroy"}
      /\ error_occured' \in [Procs -> BOOLEAN]
      /\ thrown' \in [Procs -> {"none", "TE_ABORT", "TE_RESTART"}]
      /\ thrown'[p] # "none" => thrown[p] # "none" \/ pc'[p] = "destroy"
      /\ \A q \in Procs \ {p} : pc'[q] = pc[q] /\ thrown'[q] = thrown[q]
  BY ZenonT(60), EntryFacts DEF Release, Calls, RequestOrAbort, StayInBody, Abort, Throw, Goto, TypeOK
<1>3. /\ blk' = [blk EXCEPT ![p] = b]
      /\ newval' \in [Procs -> Values]
      /\ ops' \in [Procs -> 0 .. MaxOps]
      /\ UNCHANGED <<index, store, last_free_block, last_sleep, todo, begun>>
  BY ConstantsAssumption DEF Release, Calls, TypeOK, files
<1>4. ASSUME blockmap' = blockmap, ~Dangling(e)
      PROVE  LInv'
  <2>1. blockmap' = [blockmap EXCEPT ![p][b] = e]
    BY <1>4 DEF TypeOK
  <2>2. Owned(e) => e.data # NULL
    BY DEF OwnedHaveBuffer
  <2> QED
    BY <1>1, <1>2, <1>3, <1>4, <2>1, <2>2, TouchInv
<1>5. CASE Owned(e)
  <2> DEFINE g == [e EXCEPT !.lock = "S_LOCK"]
  <2>1. blockmap' = [blockmap EXCEPT ![p][b] = g]
    BY <1>5 DEF Release, SetEntry
  <2>2. e # NoEntry /\ e.data # NULL
    BY <1>5, EntryFacts DEF OwnedHaveBuffer
  <2>3. g \in Entries /\ g.lock = "S_LOCK" /\ g.oldindex = e.oldindex /\ g.data = e.data
    BY <1>1, <2>2, EntryChanges
  <2>4. /\ NewlyAllocated(g) => NewlyAllocated(e)
        /\ ~Dangling(g) /\ g.data # NULL
    BY <2>2, <2>3 DEF NewlyAllocated, Dangling
  <2> QED
    BY <1>2, <1>3, <2>1, <2>3, <2>4, TouchInv
<1>7. CASE e.lock = "R_LOCK"
  <2> DEFINE g == [e EXCEPT !.data = NULL]
  <2>1. e # NoEntry
    BY <1>7 DEF NoEntry
  <2>2. blockmap' = DropReadBuffer(p, b) /\ RequestOrAbort(p, b, "release")
    BY <1>7, <2>1 DEF Release, Owned
  <2>3. /\ blockmap' = [blockmap EXCEPT ![p][b] = g]
        /\ pc'[p] \in {"write", "release", "destroy"}
    BY <2>2 DEF DropReadBuffer, RequestOrAbort, Abort, Throw, Goto, TypeOK
  <2>4. g \in Entries /\ g.lock = "R_LOCK" /\ g.oldindex = e.oldindex /\ g # NoEntry
    BY <1>1, <1>7, <2>1 DEF Entries, NoEntry
  <2>5. ~Owned(g) /\ (NewlyAllocated(g) => NewlyAllocated(e))
    BY <2>1, <2>4 DEF Owned, NewlyAllocated
  <2> QED
    BY <1>2, <1>3, <2>3, <2>4, <2>5, TouchInv
<1>8. CASE e = NoEntry
  BY <1>4, <1>8, EntryFacts DEF Release, Owned, NoEntry
<1> QED
  BY <1>1, <1>5, <1>7, <1>8 DEF Owned

LEMMA AllocateInv == ASSUME LInv, NEW p \in Procs, Allocate(p) PROVE LInv'
<1> USE DEF LInv, Allocate, Calls, NextFreeBlock, Goto, files, object, statics, bounds
<1>1. TypeOK'
  <2>1. /\ pc' \in [Procs -> Points]
        /\ error_occured' \in [Procs -> BOOLEAN]
        /\ thrown' \in [Procs -> {"none", "TE_ABORT", "TE_RESTART"}]
    BY DEF TypeOK
  <2>2. blk' \in [Procs -> BlockNumbers \cup {0}] /\ ops' \in [Procs -> 0 .. MaxOps]
    BY ConstantsAssumption DEF TypeOK
  <2>3. newval' \in [Procs -> Values] /\ last_free_block' \in [Procs -> 0 .. NBLOCKS + 1]
    BY NBLOCKSAssumption DEF TypeOK, SearchInside
  <2>4. blockmap' \in [Procs -> [BlockNumbers -> Entries]]
    BY EntryFacts DEF TypeOK
  <2> QED
    BY <2>1, <2>2, <2>3, <2>4 DEF TypeOK
<1>2. ThrownDoesNotCommit'
  BY DEF ThrownDoesNotCommit, TypeOK
<1>3. BuffersLive'
  BY DEF BuffersLive, TypeOK, Dangling
<1>4. ThrowingEnds'
  BY DEF ThrowingEnds, TypeOK
<1>5. OwnedHaveBuffer'
  BY DEF OwnedHaveBuffer, TypeOK, Owned
<1>6. SearchGoesOn'
  <2> SUFFICES ASSUME NEW q \in Procs, NEW d \in BlockNumbers, NewlyAllocated(blockmap[q][d])
               PROVE  /\ d <= last_free_block'[q]
                      /\ pc'[q] \in {"probe", "allocate"} => d < last_free_block'[q]
    BY DEF SearchGoesOn, NewlyAllocated
  <2> QED
    BY NBLOCKSAssumption DEF SearchGoesOn, TypeOK, BlockNumbers
<1>7. SearchInside'
  BY DEF SearchInside, TypeOK
<1>8. EmptyOutside'
  BY DEF EmptyOutside, TypeOK
<1>9. RequestsName'
  BY DEF RequestsName, TypeOK
<1> QED
  BY <1>1, <1>2, <1>3, <1>4, <1>5, <1>6, <1>7, <1>8, <1>9

LEMMA ProbeInv == ASSUME LInv, NEW p \in Procs, Probe(p) PROVE LInv'
<1> USE DEF LInv, Probe, NextFreeBlock, Goto, files, object, statics, bounds
<1>1. TypeOK'
  <2>1. /\ pc' \in [Procs -> Points]
        /\ error_occured' \in [Procs -> BOOLEAN]
        /\ thrown' \in [Procs -> {"none", "TE_ABORT", "TE_RESTART"}]
    BY DEF TypeOK
  <2>2. blk' \in [Procs -> BlockNumbers \cup {0}] /\ ops' \in [Procs -> 0 .. MaxOps]
    BY ConstantsAssumption DEF TypeOK
  <2>3. newval' \in [Procs -> Values] /\ last_free_block' \in [Procs -> 0 .. NBLOCKS + 1]
    BY NBLOCKSAssumption DEF TypeOK, SearchInside
  <2>4. blockmap' \in [Procs -> [BlockNumbers -> Entries]]
    BY EntryFacts DEF TypeOK
  <2> QED
    BY <2>1, <2>2, <2>3, <2>4 DEF TypeOK
<1>2. ThrownDoesNotCommit'
  BY DEF ThrownDoesNotCommit, TypeOK
<1>3. BuffersLive'
  BY DEF BuffersLive, TypeOK, Dangling
<1>4. ThrowingEnds'
  BY DEF ThrowingEnds, TypeOK
<1>5. OwnedHaveBuffer'
  BY DEF OwnedHaveBuffer, TypeOK, Owned
<1>6. SearchGoesOn'
  <2> SUFFICES ASSUME NEW q \in Procs, NEW d \in BlockNumbers, NewlyAllocated(blockmap[q][d])
               PROVE  /\ d <= last_free_block'[q]
                      /\ pc'[q] \in {"probe", "allocate"} => d < last_free_block'[q]
    BY DEF SearchGoesOn, NewlyAllocated
  <2> QED
    BY NBLOCKSAssumption DEF SearchGoesOn, TypeOK, BlockNumbers
<1>7. SearchInside'
  <2>1. /\ pc'[p] = "allocate" => last_free_block[p] <= NBLOCKS
        /\ pc'[p] \in {"restart", "allocate", "probe"}
        /\ last_free_block'[p] \in {last_free_block[p], last_free_block[p] + 1}
        /\ pc'[p] = "allocate" => last_free_block'[p] = last_free_block[p]
    BY NBLOCKSAssumption DEF TypeOK
  <2>2. \A q \in Procs \ {p} : pc'[q] = pc[q] /\ last_free_block'[q] = last_free_block[q]
    BY DEF TypeOK
  <2>3. last_free_block[p] \in Nat /\ last_free_block[p] >= 1
    BY DEF SearchInside, TypeOK
  <2> QED
    BY <2>1, <2>2, <2>3, NBLOCKSAssumption DEF SearchInside
<1>8. EmptyOutside'
  BY DEF EmptyOutside, TypeOK
<1>9. RequestsName'
  BY DEF RequestsName, TypeOK
<1> QED
  BY <1>1, <1>2, <1>3, <1>4, <1>5, <1>6, <1>7, <1>8, <1>9

-----------------------------------------------------------------------------
(* The requests and what follows them.                                     *)

\* The points at which the block the operation is about may have lost its buffer.
BufferAtRisk == {"write", "release", "writeGranted", "releaseGranted", "restart", "destroy"}

\* A step that leaves the blockmap alone and goes on, in no wrong direction, inside
\* the transaction.
LEMMA MoveInv ==
  ASSUME LInv, NEW p \in Procs,
         pc' \in [Procs -> Points],
         error_occured' \in [Procs -> BOOLEAN],
         thrown' \in [Procs -> {"none", "TE_ABORT", "TE_RESTART"}],
         \A q \in Procs \ {p} : pc'[q] = pc[q] /\ thrown'[q] = thrown[q],
         index' \in [BlockNumbers -> IndexValues],
         store' \in [BlockNumbers -> Values],
         todo' \in [Procs -> SUBSET FileWrite],
         last_sleep' \in [Procs -> Nat],
         ops' \in [Procs -> 0 .. MaxOps],
         UNCHANGED <<blk, newval, blockmap, last_free_block, begun>>,
         pc[p] \in BufferAtRisk => pc'[p] \in BufferAtRisk,
         pc'[p] \in {"readGranted", "restart", "destroy", "commit", "writing", "close", "exited"}
                   \cup BufferAtRisk,
         pc'[p] \in {"readGranted", "writeGranted", "releaseGranted"}
           => /\ blk[p] \in BlockNumbers
              /\ last_free_block[p] <= NBLOCKS,
         pc'[p] \notin {"write", "release"},
         thrown'[p] # "none" => /\ pc'[p] \in {"destroy", "exited"} \cup Committing
                                /\ pc'[p] \in Committing => blk[p] = 0
  PROVE  LInv'
<1> USE DEF LInv
<1>1. TypeOK'
  BY DEF TypeOK
<1>2. ThrownDoesNotCommit' /\ ThrowingEnds'
  BY DEF ThrownDoesNotCommit, ThrowingEnds
<1>8. RequestsName'
  BY DEF RequestsName, BufferAtRisk
<1>3. BuffersLive'
  BY DEF BuffersLive, BufferAtRisk, Dangling
<1>4. OwnedHaveBuffer'
  BY DEF OwnedHaveBuffer, Owned
<1>5. EmptyOutside'
  BY DEF EmptyOutside, BufferAtRisk
<1>6. SearchGoesOn'
  BY DEF SearchGoesOn, NewlyAllocated, BufferAtRisk
<1>7. SearchInside'
  BY DEF SearchInside, BufferAtRisk
<1> QED
  BY <1>1, <1>2, <1>3, <1>4, <1>5, <1>6, <1>7, <1>8

LEMMA UserAbortInv == ASSUME LInv, NEW p \in Procs, UserAbort(p) PROVE LInv'
<1> USE DEF LInv, TypeOK, UserAbort, Calls, Abort, Throw, Goto
<1>1. /\ pc[p] = "body" /\ pc' = [pc EXCEPT ![p] = "destroy"]
      /\ error_occured' \in [Procs -> BOOLEAN]
      /\ thrown' \in [Procs -> {"none", "TE_ABORT", "TE_RESTART"}]
      /\ \A q \in Procs \ {p} : thrown'[q] = thrown[q]
      /\ ops' \in [Procs -> 0 .. MaxOps]
  BY ConstantsAssumption
<1>2. /\ UNCHANGED <<blk, newval, blockmap, last_free_block, begun, index, store, todo, last_sleep>>
      /\ pc' \in [Procs -> Points] /\ pc'[p] = "destroy"
      /\ \A q \in Procs \ {p} : pc'[q] = pc[q]
  BY <1>1 DEF files
<1>3. /\ index' \in [BlockNumbers -> IndexValues]
      /\ store' \in [BlockNumbers -> Values]
      /\ todo' \in [Procs -> SUBSET FileWrite]
      /\ last_sleep' \in [Procs -> Nat]
  BY <1>2
<1> HIDE DEF LInv, TypeOK, UserAbort, Calls, Abort, Throw, Goto
<1> QED
  BY <1>1, <1>2, <1>3, MoveInv DEF BufferAtRisk

LEMMA GrantedInv ==
  ASSUME LInv, NEW p \in Procs, NEW reply \in Replies,
         AskRead(p, reply) \/ AskWrite(p, reply) \/ AskRelease(p, reply)
  PROVE  LInv'
<1> USE DEF LInv, TypeOK
<1>1. PICK r \in {"read", "write", "release"},
           n \in {"readGranted", "writeGranted", "releaseGranted"} :
        (r # "read" => n # "readGranted") /\ Granted(p, r, reply, n)
  BY DEF AskRead, AskWrite, AskRelease
<1>2. /\ pc[p] = r /\ pc' \in [Procs -> Points]
      /\ pc'[p] \in {n, "restart", "destroy"}
      /\ error_occured' \in [Procs -> BOOLEAN]
      /\ thrown' \in [Procs -> {"none", "TE_ABORT", "TE_RESTART"}]
      /\ thrown'[p] # "none" => thrown[p] # "none" \/ pc'[p] = "destroy"
      /\ \A q \in Procs \ {p} : pc'[q] = pc[q] /\ thrown'[q] = thrown[q]
  BY ZenonT(60), <1>1 DEF Granted, Abort, Throw, Goto, Replies
<1>3. UNCHANGED <<index, store, blk, newval, blockmap, last_free_block, last_sleep,
                  todo, begun, ops>>
  BY <1>1 DEF Granted, files, statics, bounds
<1>4. blk[p] \in BlockNumbers /\ last_free_block[p] <= NBLOCKS /\ thrown[p] = "none"
  BY <1>2 DEF RequestsName, SearchInside, ThrowingEnds
<1>5. /\ thrown'[p] # "none" => pc'[p] = "destroy"
      /\ pc[p] \in BufferAtRisk => pc'[p] \in BufferAtRisk
  BY <1>1, <1>2, <1>4 DEF BufferAtRisk
<1> QED
  BY <1>1, <1>2, <1>3, <1>4, <1>5, MoveInv DEF BufferAtRisk

LEMMA AskRestartInv ==
  ASSUME LInv, NEW p \in Procs, NEW reply \in Replies, AskRestart(p, reply)
  PROVE  LInv'
<1> USE DEF LInv, TypeOK, AskRestart, Slept, Abort, Throw, Goto
<1>1. /\ pc' = [pc EXCEPT ![p] = "destroy"]
      /\ error_occured' \in [Procs -> BOOLEAN]
      /\ thrown' \in [Procs -> {"none", "TE_ABORT", "TE_RESTART"}]
      /\ \A q \in Procs \ {p} : thrown'[q] = thrown[q]
  BY ZenonT(60)
<1>2. last_sleep' \in [Procs -> Nat]
  OBVIOUS
<1> QED
  BY <1>1, <1>2, MoveInv DEF BufferAtRisk, files, bounds

LEMMA AskCommitInv ==
  ASSUME LInv, NEW p \in Procs, NEW reply \in Replies, AskCommit(p, reply)
  PROVE  LInv'
<1> USE DEF LInv, TypeOK
<1>1. CASE reply = "OK"
  <2>1. /\ pc' = [pc EXCEPT ![p] = "writing"]
        /\ todo' = [todo EXCEPT ![p] = FileWrites(blockmap[p])]
        /\ UNCHANGED <<error_occured, thrown>>
    BY <1>1 DEF AskCommit, Goto
  <2>2. FileWrites(blockmap[p]) \subseteq FileWrite
    BY FileWritesTyped DEF OwnedHaveBuffer
  <2>3. pc[p] \in {"body", "commit"} /\ (thrown[p] # "none" => blk[p] = 0)
    BY DEF AskCommit, ThrowingEnds, ThrownDoesNotCommit
  <2>4. UNCHANGED <<index, store, blk, newval, blockmap, last_free_block, last_sleep,
                    begun, ops>>
    BY DEF AskCommit, files, statics, bounds
  <2>5. todo' \in [Procs -> SUBSET FileWrite]
    BY <2>1, <2>2
  <2> QED
    BY <2>1, <2>3, <2>4, <2>5, MoveInv DEF BufferAtRisk
<1>2. CASE reply # "OK"
  <2>1. /\ pc[p] \in {"body", "commit"}
        /\ pc' = [pc EXCEPT ![p] = "exited"]
        /\ error_occured' = [error_occured EXCEPT ![p] = TRUE]
        /\ thrown' = [thrown EXCEPT ![p] = "TE_ABORT"]
        /\ UNCHANGED <<index, store, blk, newval, blockmap, last_free_block, last_sleep,
                       todo, begun, ops>>
    BY <1>2 DEF AskCommit, DestructorThrows, Goto, files, statics, bounds
  <2> QED
    BY <2>1, MoveInv DEF BufferAtRisk
<1> QED
  BY <1>1, <1>2

LEMMA CommitWriteInv == ASSUME LInv, NEW p \in Procs, CommitWrite(p) PROVE LInv'
<1> USE DEF LInv, TypeOK
<1>1. PICK w \in todo[p] : /\ index' = PutIndex(index, w)
                           /\ store' = PutStore(store, w)
                           /\ todo' = [todo EXCEPT ![p] = @ \ {w}]
  BY DEF CommitWrite
<1>2. w \in FileWrite
  BY <1>1
<1>3. index' \in [BlockNumbers -> IndexValues] /\ store' \in [BlockNumbers -> Values]
  BY <1>1, <1>2 DEF FileWrite, PutIndex, PutStore
<1>4. /\ pc[p] = "writing"
      /\ UNCHANGED <<pc, error_occured, thrown, blk, newval, blockmap, last_free_block,
                     last_sleep, begun, ops>>
  BY DEF CommitWrite, object, statics, bounds
<1>5. thrown[p] # "none" => blk[p] = 0
  BY <1>4 DEF ThrownDoesNotCommit
<1>6. todo' \in [Procs -> SUBSET FileWrite]
  BY <1>1
<1> QED
  BY <1>3, <1>4, <1>5, <1>6, MoveInv DEF BufferAtRisk

LEMMA AskEndInv ==
  ASSUME LInv, NEW p \in Procs, NEW reply \in Replies, AskEnd(p, reply)
  PROVE  LInv'
<1> USE DEF LInv, TypeOK, AskEnd, DestructorThrows, Goto
<1>1. /\ pc[p] = "writing" /\ pc' \in [Procs -> Points]
      /\ pc'[p] \in {"close", "exited"}
      /\ error_occured' \in [Procs -> BOOLEAN]
      /\ thrown' \in [Procs -> {"none", "TE_ABORT", "TE_RESTART"}]
      /\ pc'[p] = "close" => thrown'[p] = thrown[p]
      /\ \A q \in Procs \ {p} : pc'[q] = pc[q] /\ thrown'[q] = thrown[q]
  BY ZenonT(60)
<1>2. thrown[p] # "none" => blk[p] = 0
  BY <1>1 DEF ThrownDoesNotCommit
<1> QED
  BY <1>1, <1>2, MoveInv DEF BufferAtRisk, files, statics, bounds

\* The entry of b becomes another one, locked and with buffers: a grant and, but for
\* allocate(), the read from the store that follows it.
LEMMA NewEntryInv ==
  ASSUME LInv, NEW p \in Procs, NEW b \in BlockNumbers, NEW g \in Entries,
         blockmap' = [blockmap EXCEPT ![p][b] = g], pc' = [pc EXCEPT ![p] = "body"],
         g.lock \in LockTypes, g.data # NULL,
         pc[p] \in {"allocate", "readGranted", "writeGranted", "releaseGranted"},
         pc[p] # "allocate" => b = blk[p],
         NewlyAllocated(g) => b <= last_free_block[p],
         UNCHANGED <<index, store, blk, newval, error_occured, thrown, last_free_block,
                     last_sleep, todo, begun, ops>>
  PROVE  LInv'
<1> USE DEF LInv
<1>0. /\ blockmap' \in [Procs -> [BlockNumbers -> Entries]]
      /\ blockmap'[p][b] = g
      /\ \A q \in Procs, d \in BlockNumbers :
           q # p \/ d # b => blockmap'[q][d] = blockmap[q][d]
      /\ \A q \in Procs \ {p} : blockmap'[q] = blockmap[q] /\ pc'[q] = pc[q]
      /\ pc'[p] = "body"
  BY DEF TypeOK
<1>1. TypeOK'
  BY <1>0 DEF TypeOK
<1>2. ThrownDoesNotCommit' /\ ThrowingEnds' /\ RequestsName'
  BY <1>0 DEF ThrownDoesNotCommit, ThrowingEnds, RequestsName
<1>3. BuffersLive'
  <2> SUFFICES ASSUME NEW q \in Procs, NEW d \in BlockNumbers, Dangling(blockmap'[q][d])
               PROVE  d = blk[q] /\ pc'[q] \in BufferAtRisk
    BY DEF BuffersLive, Dangling, BufferAtRisk
  <2>1. ~Dangling(g)
    BY DEF Dangling
  <2>2. CASE q = p
    <3>1. d # b /\ Dangling(blockmap[p][d])
      BY <1>0, <2>1, <2>2
    <3> QED
      BY <3>1 DEF BuffersLive
  <2>3. CASE q # p
    <3>1. Dangling(blockmap[q][d])
      BY <1>0, <2>3
    <3> QED
      BY <1>0, <2>3, <3>1 DEF BuffersLive, BufferAtRisk
  <2> QED
    BY <2>2, <2>3
<1>4. OwnedHaveBuffer'
  <2> SUFFICES ASSUME NEW q \in Procs, NEW d \in BlockNumbers, Owned(blockmap'[q][d])
               PROVE  blockmap'[q][d].data # NULL
    BY DEF OwnedHaveBuffer, Owned
  <2>1. CASE q = p /\ d = b
    BY <1>0, <2>1
  <2>2. CASE q # p \/ d # b
    <3>1. blockmap'[q][d] = blockmap[q][d]
      BY <1>0, <2>2
    <3> QED
      BY <3>1 DEF OwnedHaveBuffer
  <2> QED
    BY <2>1, <2>2
<1>5. EmptyOutside'
  BY <1>0 DEF EmptyOutside
<1>6. SearchGoesOn'
  <2> SUFFICES ASSUME NEW q \in Procs, NEW d \in BlockNumbers, NewlyAllocated(blockmap'[q][d])
               PROVE  /\ d <= last_free_block[q]
                      /\ pc'[q] \in {"probe", "allocate"} => d < last_free_block[q]
    BY DEF SearchGoesOn, NewlyAllocated
  <2>1. CASE q = p /\ d = b
    BY <1>0, <2>1
  <2>2. CASE q # p \/ d # b
    <3>1. NewlyAllocated(blockmap[q][d])
      BY <1>0, <2>2
    <3> QED
      BY <1>0, <3>1 DEF SearchGoesOn
  <2> QED
    BY <2>1, <2>2
<1>7. SearchInside'
  BY <1>0 DEF SearchInside
<1> QED
  BY <1>1, <1>2, <1>3, <1>4, <1>5, <1>6, <1>7

LEMMA FetchInv ==
  ASSUME LInv, NEW p \in Procs, FetchRead(p) \/ FetchWrite(p) \/ FetchRelease(p)
  PROVE  LInv'
<1> USE DEF LInv, TypeOK
<1>1. /\ pc[p] \in {"readGranted", "writeGranted", "releaseGranted"}
      /\ pc' = [pc EXCEPT ![p] = "body"]
      /\ UNCHANGED <<index, store, blk, newval, error_occured, thrown, last_free_block,
                     last_sleep, todo, begun, ops>>
  BY DEF FetchRead, FetchWrite, FetchRelease, Fetch, Goto, files, statics, bounds
<1>2. blk[p] \in BlockNumbers
  BY <1>1 DEF RequestsName
<1>3. /\ store[blk[p]] \in Values /\ newval[p] \in Values
      /\ store[blk[p]] # NULL /\ newval[p] # NULL
  BY <1>2, NullAssumption
<1>4. PICK l \in LockTypes, v \in Values : 
        blockmap' = [blockmap EXCEPT ![p][blk[p]] = Entry(l, v, store[blk[p]], "A")]
  BY <1>3 DEF FetchRead, FetchWrite, FetchRelease, Fetch, SetEntry
<1> DEFINE g == Entry(l, v, store[blk[p]], "A")
<1>5. g \in Entries /\ g.lock = l /\ g.data = v /\ g.oldindex = "A"
  BY <1>3, EntryFacts DEF Entry
<1> QED
  BY <1>1, <1>2, <1>4, <1>5, NewEntryInv, NullAssumption DEF NewlyAllocated

LEMMA AskAllocateInv ==
  ASSUME LInv, NEW p \in Procs, NEW reply \in Replies, AskAllocate(p, reply)
  PROVE  LInv'
<1> USE DEF LInv, TypeOK
<1> DEFINE n == last_free_block[p]
<1>1. /\ pc[p] = "allocate" /\ n \in BlockNumbers /\ thrown[p] = "none"
      /\ UNCHANGED <<index, store, blk, newval, last_sleep, todo, begun, ops>>
  <2>1. pc[p] = "allocate" /\ UNCHANGED <<files, blk, newval, last_sleep, todo, bounds>>
    BY DEF AskAllocate
  <2>2. n <= NBLOCKS /\ n >= 1 /\ n \in Nat
    BY <2>1 DEF SearchInside
  <2>3. thrown[p] = "none"
    BY <2>1 DEF ThrowingEnds
  <2> QED
    BY <2>1, <2>2, <2>3, NBLOCKSAssumption DEF BlockNumbers, files, bounds
<1>2. CASE reply = "OK"
  <2> DEFINE g == Entry("A_LOCK", Zeros, Zeros, "U")
  <2>1. g \in Entries /\ g.lock \in LockTypes /\ g.data # NULL
    BY EntryFacts, ConstantsAssumption, NullAssumption DEF Entry
  <2>2. /\ blockmap' = [blockmap EXCEPT ![p][n] = g]
        /\ pc' = [pc EXCEPT ![p] = "body"]
        /\ UNCHANGED <<error_occured, thrown, last_free_block>>
    BY <1>2 DEF AskAllocate, SetEntry, Goto
  <2>3. n <= last_free_block[p]
    BY <1>1 DEF BlockNumbers
  <2> QED
    BY <1>1, <2>1, <2>2, <2>3, NewEntryInv
<1>3. CASE reply = "NOT_OK"
  <2>1. /\ last_free_block' = [last_free_block EXCEPT ![p] = n + 1]
        /\ pc' = [pc EXCEPT ![p] = "probe"]
        /\ UNCHANGED <<blockmap, error_occured, thrown>>
    BY <1>3 DEF AskAllocate, NextFreeBlock, Goto, object
  <2>2. last_free_block' \in [Procs -> 0 .. NBLOCKS + 1]
    BY <1>1, <2>1, NBLOCKSAssumption DEF BlockNumbers
  <2>3. SearchGoesOn'
    <3> SUFFICES ASSUME NEW q \in Procs, NEW d \in BlockNumbers,
                        NewlyAllocated(blockmap[q][d])
                 PROVE  /\ d <= last_free_block'[q]
                        /\ pc'[q] \in {"probe", "allocate"} => d < last_free_block'[q]
      BY <2>1 DEF SearchGoesOn, NewlyAllocated
    <3> QED
      BY <1>1, <2>1, NBLOCKSAssumption DEF SearchGoesOn, BlockNumbers
  <2>4. SearchInside'
    BY <1>1, <2>1, NBLOCKSAssumption DEF SearchInside, BlockNumbers
  <2>5. BuffersLive' /\ OwnedHaveBuffer'
    BY <1>1, <2>1 DEF BuffersLive, OwnedHaveBuffer, Dangling, Owned
  <2>6. ThrownDoesNotCommit' /\ ThrowingEnds' /\ RequestsName' /\ EmptyOutside'
    BY <1>1, <2>1 DEF ThrownDoesNotCommit, ThrowingEnds, RequestsName, EmptyOutside
  <2>7. TypeOK'
    BY <1>1, <2>1, <2>2
  <2> QED
    BY <2>3, <2>4, <2>5, <2>6, <2>7
<1>4. CASE reply = "DIE"
  <2>1. /\ pc' = [pc EXCEPT ![p] = "destroy"]
        /\ error_occured' \in [Procs -> BOOLEAN]
        /\ thrown' = [thrown EXCEPT ![p] = "TE_ABORT"]
        /\ UNCHANGED <<blockmap, last_free_block>>
    BY <1>4 DEF AskAllocate, Abort, Throw, Goto
  <2> QED
    BY <1>1, <2>1, MoveInv DEF BufferAtRisk
<1> QED
  BY <1>2, <1>3, <1>4 DEF Replies

-----------------------------------------------------------------------------
(* The end of the object, and what others do.                              *)

LEMMA DestroyInv == ASSUME LInv, NEW p \in Procs, Destroy(p) PROVE LInv'
<1> USE DEF LInv
<1>1. /\ pc[p] \in {"destroy", "close"} /\ pc' \in [Procs -> Points]
      /\ pc'[p] \in {"idle", "connect", "exited"}
      /\ pc'[p] = "idle" => thrown[p] = "none"
      /\ \A q \in Procs \ {p} : pc'[q] = pc[q]
  BY DEF Destroy, Goto, TypeOK
<1>2. /\ blockmap' = [blockmap EXCEPT ![p] = EmptyMap]
      /\ UNCHANGED <<index, store, blk, newval, error_occured, thrown, last_free_block,
                     last_sleep, todo, begun, ops>>
  BY DEF Destroy, files, statics, bounds
<1>3. /\ blockmap' \in [Procs -> [BlockNumbers -> Entries]]
      /\ blockmap'[p] = EmptyMap
      /\ \A b \in BlockNumbers : blockmap'[p][b] = NoEntry
      /\ \A q \in Procs \ {p} : blockmap'[q] = blockmap[q]
  BY <1>2, EntryFacts DEF TypeOK
<1>4. TypeOK'
  BY <1>1, <1>2, <1>3 DEF TypeOK
<1>5. ThrownDoesNotCommit' /\ RequestsName' /\ SearchInside'
  BY <1>1, <1>2 DEF ThrownDoesNotCommit, RequestsName, SearchInside
<1>6. ThrowingEnds'
  BY <1>1, <1>2 DEF ThrowingEnds
<1>7. BuffersLive'
  BY <1>1, <1>2, <1>3, EntryFacts DEF BuffersLive
<1>8. OwnedHaveBuffer'
  BY <1>3, EntryFacts DEF OwnedHaveBuffer
<1>9. SearchGoesOn'
  BY <1>1, <1>2, <1>3, EntryFacts DEF SearchGoesOn
<1>10. EmptyOutside'
  BY <1>1, <1>3 DEF EmptyOutside
<1> QED
  BY <1>4, <1>5, <1>6, <1>7, <1>8, <1>9, <1>10

LEMMA ElsewhereInv == ASSUME LInv, Elsewhere PROVE LInv'
<1> USE DEF LInv
<1>1. UNCHANGED <<pc, blk, newval, object, statics, todo, bounds>>
  BY DEF Elsewhere
<1>2. index' \in [BlockNumbers -> IndexValues] /\ store' \in [BlockNumbers -> Values]
  BY DEF Elsewhere, TypeOK
<1>3. TypeOK'
  BY <1>1, <1>2 DEF TypeOK, object, statics, bounds
<1> QED
  BY <1>1, <1>3
  DEF ThrownDoesNotCommit, BuffersLive, ThrowingEnds, OwnedHaveBuffer, SearchGoesOn,
      SearchInside, EmptyOutside, RequestsName, Dangling, Owned, NewlyAllocated,
      object, statics

LEMMA LNextInv == LInv /\ [Next]_vars => LInv'
<1> SUFFICES ASSUME LInv, [Next]_vars PROVE LInv'
  OBVIOUS
<1>1. CASE Elsewhere
  BY <1>1, ElsewhereInv
<1>2. ASSUME NEW p \in Procs, Step(p) PROVE LInv'
  <2>1. CASE Connect(p) \/ Probe(p) \/ CommitWrite(p) \/ Destroy(p)
    BY <2>1, ConnectInv, ProbeInv, CommitWriteInv, DestroyInv
  <2>2. CASE Operation(p)
    BY <2>2, AllocateInv, UserAbortInv, InvalidBlockInv, ReadInv, WriteInv, ReleaseInv
    DEF Operation
  <2>3. CASE FetchRead(p) \/ FetchWrite(p) \/ FetchRelease(p)
    BY <2>3, FetchInv
  <2>4. ASSUME NEW reply \in Replies, Ask(p, reply) PROVE LInv'
    BY <2>4, AskBeginInv, AskAllocateInv, GrantedInv, AskRestartInv, AskCommitInv, AskEndInv
    DEF Ask
  <2> QED
    BY <1>2, <2>1, <2>2, <2>3, <2>4 DEF Step
<1>3. CASE UNCHANGED vars
  <2>1. UNCHANGED <<index, store, pc, blk, newval, blockmap, error_occured, thrown,
                    last_free_block, last_sleep, todo, begun, ops>>
    BY <1>3 DEF vars, files, object, statics, bounds
  <2>2. TypeOK'
    BY <2>1 DEF LInv, TypeOK
  <2> QED
    BY <2>1, <2>2
    DEF LInv, ThrownDoesNotCommit, BuffersLive, ThrowingEnds, OwnedHaveBuffer, SearchGoesOn,
        SearchInside, EmptyOutside, RequestsName, Dangling, Owned, NewlyAllocated
<1> QED
  BY <1>1, <1>2, <1>3 DEF Next

\* The invariant the theorems below follow from.
THEOREM LibraryInvariance == Spec => []LInv
  BY LInitInv, LNextInv, PTL DEF Spec

-----------------------------------------------------------------------------
\* What the class Transaction keeps has the types it should have; commit() in particular
\* writes blocks that exist and contents that are contents, never a deleted buffer.
THEOREM LibraryTypes == Spec => []TypeOK
<1>1. LInv => TypeOK
  BY DEF LInv
<1> QED
  BY <1>1, LibraryInvariance, PTL

\* An exception that ends a transaction keeps its destructor from committing it, whatever
\* the replies, the files and the operations before; the exception that skips abort(), for
\* a block number <= 0, is the only one that does not.
THEOREM AbortHonored == Spec => []ThrownDoesNotCommit
<1>1. LInv => ThrownDoesNotCommit
  BY DEF LInv
<1> QED
  BY <1>1, LibraryInvariance, PTL

\* A deleted read buffer is never used again but by the destructor, and that only if the
\* upgrade of the very lock was refused.
THEOREM BuffersAlive == Spec => []BuffersLive
<1>1. LInv => BuffersLive
  BY DEF LInv
<1> QED
  BY <1>1, LibraryInvariance, PTL

\* allocate() asks for blocks of the store that the transaction has not allocated before,
\* for every size of the store: find_free_block neither overruns it nor goes back.
THEOREM AllocationsFresh == Spec => []AllocateFresh
<1>1. LInv => AllocateFresh
  <2> SUFFICES ASSUME LInv, NEW p \in Procs, pc[p] = "allocate"
               PROVE  LET n == last_free_block[p] IN
                      /\ n \in BlockNumbers
                      /\ blockmap[p][n] # NoEntry => blockmap[p][n].oldindex = "A"
    BY DEF AllocateFresh
  <2> DEFINE n == last_free_block[p]
  <2>1. n \in Nat /\ n <= NBLOCKS /\ n >= 1
    BY DEF LInv, SearchInside, TypeOK
  <2>2. n \in BlockNumbers
    BY <2>1, NBLOCKSAssumption DEF BlockNumbers
  <2>3. ~NewlyAllocated(blockmap[p][n])
    BY <2>1, <2>2 DEF LInv, SearchGoesOn
  <2>4. blockmap[p][n] # NoEntry => blockmap[p][n].oldindex \in IndexValues
    BY <2>2 DEF LInv, TypeOK, Entries
  <2> QED
    BY <2>2, <2>3, <2>4 DEF NewlyAllocated
<1> QED
  BY <1>1, LibraryInvariance, PTL

=============================================================================
