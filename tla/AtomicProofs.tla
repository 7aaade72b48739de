---------------------------- MODULE AtomicProofs ----------------------------
(***************************************************************************)
(* SystemT implements AtomicStore up to the first blemish: what a          *)
(* transaction has seen of the files stays in them while it has its locks, *)
(* and no two commits in progress write to one block.                      *)
(***************************************************************************)
EXTENDS SystemTProofs

-----------------------------------------------------------------------------
(* What each process keeps, whatever the others do.                        *)

\* The points at which a buffer that was deleted may still be in the blockmap.
AtRisk == {"write", "release", "writeGranted", "releaseGranted", "restart", "destroy"}

\* An entry tells what was found: of a block that was to be allocated, that it was
\* not; of a read or written one, that it was.
TrueEntry(e) ==
  /\ e # Lib!NoEntry => e.oldindex \in {"A", "U"}
  /\ e.lock = "A_LOCK" => e.oldindex = "U"
  /\ e.lock \in {"W_LOCK", "R_LOCK"} => e.oldindex = "A"
  /\ e.lock \in {"A_LOCK", "W_LOCK"} => e.data # Lib!NULL

EntryTrue(p, b) ==
  /\ TrueEntry(blockmap[p][b])
  /\ Lib!Dangling(blockmap[p][b]) => b = blk[p] /\ pc[p] \in AtRisk

\* It has write() calls left only in commit(), and they are for what it owns; an
\* exception is in flight only on the way out; its destructor never finds the flag
\* forgotten.
Own(p) ==
  /\ newval[p] # Lib!NULL
  /\ pc[p] # "writing" => todo[p] = {}
  /\ todo[p] \subseteq Lib!FileWrites(blockmap[p])
  /\ thrown[p] # "none" => pc[p] \in {"destroy", "connect", "exited"}
  /\ pc[p] # "commit"
  /\ \A b \in Blocks : EntryTrue(p, b)

\* The files are files, and everything in the store is the content of a buffer.
FilesTyped ==
  /\ DOMAIN index = Blocks /\ DOMAIN store = Blocks
  /\ DOMAIN newval = Procs /\ DOMAIN todo = Procs
  /\ \A b \in Blocks : store[b] # Lib!NULL

-----------------------------------------------------------------------------
(* What holds up to the first blemish.                                     *)

\* Nobody that commits was preempted.
CommittersSafe == \A c \in Clients : phase[c] = "committing" => ~Preempted(c)

\* p has locks, and nobody took one of them away.
Holds(p) == conn[p] # NoConnection /\ ~Preempted(conn[p])

\* A lock that was granted and whose block was not read yet is on an allocated one.
GrantFresh(p) == Holds(p) /\ pc[p] \in Granted => index[blk[p]] = "A"

\* What a transaction that has not committed saw is still in the files.
StillThere(b, e) == /\ index[b] = e.oldindex
                    /\ e.oldindex = "A" => store[b] = e.oldval

SeenStands(p) ==
  Holds(p) /\ Stage(p) = "running" =>
    \A b \in Blocks : blockmap[p][b] # Lib!NoEntry => StillThere(b, blockmap[p][b])

Unblemished == CommittersSafe /\ \A p \in Procs : GrantFresh(p) /\ SeenStands(p)

AInv ==
  /\ SInv
  /\ FilesTyped
  /\ \A p \in Procs : Own(p)
  /\ blemishes = {} => Unblemished

-----------------------------------------------------------------------------
(* What commit() writes.                                                   *)

LEMMA LibRangeOfOne == ASSUME NEW x PROVE Lib!Range(<<x>>) = {x}
  BY DEF Lib!Range

LEMMA LibRangeOfTwo == ASSUME NEW x, NEW y PROVE Lib!Range(<<x, y>>) = {x, y}
  BY DEF Lib!Range

LEMMA LibRangeOfThree ==
  ASSUME NEW x, NEW y, NEW z PROVE Lib!Range(<<x, y, z>>) = {x, y, z}
  BY DEF Lib!Range

\* The write() calls to the index and to the store for one entry.
EntryWrites(b, e) ==
  {w \in {Lib!ToIndex(b, "A"), Lib!ToStore(b, e.data), Lib!ToIndex(b, "U")} :
     \/ e.lock = "A_LOCK" /\ w # Lib!ToIndex(b, "U")
     \/ e.lock = "W_LOCK" /\ w = Lib!ToStore(b, e.data)
     \/ e.lock = "S_LOCK" /\ w = Lib!ToIndex(b, "U")}

LEMMA EntryWritten ==
  ASSUME NEW b, NEW e, IsEntry(e)
  PROVE  {w \in Lib!Range(Lib!BlockWrites(0, b, e)) : w.file # "log"} = EntryWrites(b, e)
<1> DEFINE rec(action) == Lib!BlockRecord(0, action, b, e.oldindex, e.oldval)
           plain(action) == Lib!BlockRecord(0, action, b, " ", 0)
<1>1. /\ \A r : Lib!ToLog(r).file = "log"
      /\ \A i : Lib!ToIndex(b, i).file = "index"
      /\ \A v : Lib!ToStore(b, v).file = "store"
      /\ Lib!ToIndex(b, "A") # Lib!ToIndex(b, "U")
      /\ \A i, v : Lib!ToIndex(b, i) # Lib!ToStore(b, v)
  BY DEF Lib!ToLog, Lib!ToIndex, Lib!ToStore
<1>2. e.lock \in {"NONE", "A_LOCK", "W_LOCK", "S_LOCK", "R_LOCK"}
  BY DEF IsEntry, Lib!NoEntry, Lib!Entry, Lib!LockTypes
<1>3. CASE e.lock = "A_LOCK"
  <2>1. Lib!BlockWrites(0, b, e)
          = << Lib!ToLog(plain("LALLOCATE")), Lib!ToIndex(b, "A"), Lib!ToStore(b, e.data) >>
    BY <1>3 DEF Lib!BlockWrites
  <2>2. Lib!Range(Lib!BlockWrites(0, b, e))
          = {Lib!ToLog(plain("LALLOCATE")), Lib!ToIndex(b, "A"), Lib!ToStore(b, e.data)}
    BY <2>1, LibRangeOfThree
  <2> HIDE DEF plain
  <2> QED
    BY <1>1, <1>3, <2>2 DEF EntryWrites
<1>4. CASE e.lock = "W_LOCK"
  <2>1. Lib!BlockWrites(0, b, e) = << Lib!ToLog(rec("LWRITE")), Lib!ToStore(b, e.data) >>
    BY <1>4 DEF Lib!BlockWrites
  <2>2. Lib!Range(Lib!BlockWrites(0, b, e)) = {Lib!ToLog(rec("LWRITE")), Lib!ToStore(b, e.data)}
    BY <2>1, LibRangeOfTwo
  <2> HIDE DEF rec
  <2> QED
    BY <1>1, <1>4, <2>2 DEF EntryWrites
<1>5. CASE e.lock = "S_LOCK"
  <2>1. Lib!BlockWrites(0, b, e) = << Lib!ToLog(rec("LRELEASE")), Lib!ToIndex(b, "U") >>
    BY <1>5 DEF Lib!BlockWrites
  <2>2. Lib!Range(Lib!BlockWrites(0, b, e)) = {Lib!ToLog(rec("LRELEASE")), Lib!ToIndex(b, "U")}
    BY <2>1, LibRangeOfTwo
  <2> HIDE DEF rec
  <2> QED
    BY <1>1, <1>5, <2>2 DEF EntryWrites
<1>6. CASE e.lock = "R_LOCK"
  <2>1. Lib!BlockWrites(0, b, e) = << Lib!ToLog(plain("LREAD")) >>
    BY <1>6 DEF Lib!BlockWrites
  <2>2. Lib!Range(Lib!BlockWrites(0, b, e)) = {Lib!ToLog(plain("LREAD"))}
    BY <2>1, LibRangeOfOne
  <2> HIDE DEF plain
  <2> QED
    BY <1>1, <1>6, <2>2 DEF EntryWrites
<1>7. CASE e.lock = "NONE"
  <2>1. Lib!BlockWrites(0, b, e) = << >>
    BY <1>7 DEF Lib!BlockWrites
  <2>2. Lib!Range(Lib!BlockWrites(0, b, e)) = {}
    BY <2>1 DEF Lib!Range
  <2> QED
    BY <1>7, <2>2 DEF EntryWrites
<1> QED
  BY <1>2, <1>3, <1>4, <1>5, <1>6, <1>7

LEMMA WhatIsWritten ==
  ASSUME NEW entries, \A b \in Blocks : IsEntry(entries[b]), NEW w
  PROVE  w \in Lib!FileWrites(entries) <=> \E b \in Blocks : w \in EntryWrites(b, entries[b])
<1>1. w \in Lib!FileWrites(entries)
        <=> \E b \in Blocks : /\ w \in Lib!Range(Lib!BlockWrites(0, b, entries[b]))
                              /\ w.file # "log"
  BY BlocksAssumption DEF Lib!FileWrites, Lib!BlockNumbers
<1>2. ASSUME NEW b \in Blocks
      PROVE  w \in Lib!Range(Lib!BlockWrites(0, b, entries[b])) /\ w.file # "log"
               <=> w \in EntryWrites(b, entries[b])
  BY EntryWritten
<1> QED
  BY <1>1, <1>2

\* By the file and the block of a write() call, what it is.
LEMMA WriteFacts ==
  ASSUME NEW entries, \A b \in Blocks : IsEntry(entries[b]), NEW w \in Lib!FileWrites(entries)
  PROVE  /\ w.block \in Blocks /\ Lib!Owned(entries[w.block])
         /\ w.file \in {"index", "store"}
         /\ w.file = "store" => /\ w = Lib!ToStore(w.block, entries[w.block].data)
                                /\ entries[w.block].lock \in {"A_LOCK", "W_LOCK"}
                                /\ w.val = entries[w.block].data
         /\ w.file = "index" => /\ entries[w.block].lock \in {"A_LOCK", "S_LOCK"}
                                /\ w = Lib!ToIndex(w.block, IF entries[w.block].lock = "A_LOCK"
                                                            THEN "A" ELSE "U")
<1>1. PICK b \in Blocks : w \in EntryWrites(b, entries[b])
  BY WhatIsWritten
<1>2. w.block = b
  BY <1>1 DEF EntryWrites, Lib!ToIndex, Lib!ToStore
<1> DEFINE e == entries[b]
<1> HIDE DEF e
<1>3. /\ Lib!Owned(e)
      /\ w.file \in {"index", "store"}
      /\ w.file = "store" => /\ w = Lib!ToStore(b, e.data) /\ w.val = e.data
                             /\ e.lock \in {"A_LOCK", "W_LOCK"}
      /\ w.file = "index" => /\ e.lock \in {"A_LOCK", "S_LOCK"}
                             /\ w = Lib!ToIndex(b, IF e.lock = "A_LOCK" THEN "A" ELSE "U")
  BY <1>1 DEF EntryWrites, Lib!Owned, Lib!ToIndex, Lib!ToStore, e
<1> QED
  BY <1>2, <1>3 DEF e

-----------------------------------------------------------------------------
(* Who writes to a block.                                                  *)

\* Whoever has a write() call left is committing and has the block for writing.
LEMMA WriterOwns ==
  ASSUME SInv, \A p \in Procs : Own(p), CommittersSafe, NEW q \in Procs, NEW w \in todo[q]
  PROVE  /\ conn[q] \in Clients /\ conn[q] # NoConnection /\ pc[q] = "writing"
         /\ phase[conn[q]] = "committing" /\ ~Preempted(conn[q])
         /\ w.block \in Blocks /\ w \in Lib!FileWrites(blockmap[q])
         /\ held[conn[q]][w.block] = "W"
         /\ writer[w.block] = transactions[conn[q]] /\ transactions[conn[q]] # 0
<1>1. pc[q] = "writing" /\ w \in Lib!FileWrites(blockmap[q])
  BY DEF Own
<1>2. /\ conn[q] \in Clients /\ conn[q] # NoConnection /\ phase[conn[q]] = "committing"
      /\ \A b \in Blocks : IsEntry(blockmap[q][b])
  BY <1>1 DEF SInv, SysTypes, Agree, Connected, PhaseAgrees
<1>3. w.block \in Blocks /\ Lib!Owned(blockmap[q][w.block])
  BY <1>1, <1>2, WriteFacts
<1>4. held[conn[q]][w.block] = "W"
  BY <1>2, <1>3 DEF SInv, Agree, LocksAgree
<1>5. ~Preempted(conn[q]) /\ transactions[conn[q]] # 0
  BY <1>2 DEF CommittersSafe, SInv, IInv, ProtocolState
<1>6. writer[w.block] = transactions[conn[q]]
  BY <1>2, <1>3, <1>4, <1>5 DEF SInv, IInv, GrantStands
<1> QED
  BY <1>1, <1>2, <1>3, <1>4, <1>5, <1>6

\* While a process has a lock on a block no other one has a write() call left for it.
LEMMA OthersKeepOff ==
  ASSUME SInv, \A p \in Procs : Own(p), CommittersSafe,
         NEW p \in Procs, Holds(p), NEW b \in Blocks, held[conn[p]][b] # "none",
         NEW q \in Procs \ {p}, NEW w \in todo[q]
  PROVE  w.block # b
<1> SUFFICES ASSUME w.block = b PROVE FALSE
  OBVIOUS
<1>1. /\ conn[q] \in Clients /\ conn[q] # NoConnection
      /\ writer[b] = transactions[conn[q]] /\ transactions[conn[q]] # 0
  BY WriterOwns
<1>2. conn[p] \in Clients /\ conn[p] # conn[q] /\ held[conn[p]][b] \in {"R", "W"}
  BY <1>1 DEF Holds, SInv, SysTypes, ConnUnique, IInv, TypeOK, LockModes
<1>3. transactions[conn[p]] # transactions[conn[q]]
  BY <1>1, <1>2 DEF SInv, IInv, TablesAgree
<1>4. CASE held[conn[p]][b] = "W"
  BY <1>1, <1>2, <1>3, <1>4 DEF Holds, SInv, IInv, GrantStands
<1>5. CASE held[conn[p]][b] = "R"
  BY <1>1, <1>2, <1>5 DEF Holds, SInv, IInv, GrantStands, LocksExclude
<1> QED
  BY <1>2, <1>4, <1>5

-----------------------------------------------------------------------------
(* Preemption.                                                             *)

\* Whoever was preempted stays so while it is connected.
LEMMA StaysPreempted ==
  ASSUME SInv, [SysNext]_sysVars, NEW p \in Procs, conn'[p] = conn[p], Holds(p)'
  PROVE  Holds(p)
<1> DEFINE c == conn[p]
<1>1. SInv' /\ [Next]_vars
  BY SysNextInv, MonitorStep
<1>2. c # NoConnection /\ c \in Clients /\ phase[c] # "off" /\ phase'[c] # "off"
  BY <1>1 DEF Holds, SInv, SysTypes, Agree, PhaseAgrees
<1> SUFFICES ASSUME Preempted(c) PROVE FALSE
  BY <1>2 DEF Holds
<1>3. /\ transactions[c] \in Tids /\ status[transactions[c]] = "PREEMPTED"
      /\ phase[c] # "connected"
  BY <1>2 DEF Preempted, SInv, IInv, TypeOK, ProtocolState
<1>4. transactions'[c] = transactions[c]
  <2>1. CASE UNCHANGED vars
    BY <2>1 DEF vars, monitorVars
  <2>2. CASE \E t \in Tids : SliceExpires(t)
    BY <2>2 DEF SliceExpires, monitorVars
  <2>3. ASSUME NEW d \in Clients, Accept(d) \/ Request(d) PROVE UNCHANGED transactions
    <3>1. ASSUME NEW b \in Blocks,
                 AllocateRq(d, b) \/ ReadRq(d, b) \/ WriteRq(d, b) \/ ReleaseRq(d, b)
          PROVE  UNCHANGED transactions
      BY <3>1, LockRequest DEF vars, monitorVars, Refuse, GrantRead, GrantWrite
    <3> QED
      BY <2>3, <3>1 DEF Request, Accept, RestartRq, AbortRq, CommitRq, EndRq, Die, monitorVars
  <2>4. ASSUME NEW d \in Clients, Begin(d) PROVE transactions'[c] = transactions[c]
    BY <1>2, <1>3, <2>4 DEF Begin, SInv, IInv, TypeOK
  <2>5. ASSUME NEW d \in Clients, Disconnect(d) PROVE transactions'[c] = transactions[c]
    BY <1>2, <2>5 DEF Disconnect, SInv, IInv, TypeOK
  <2> QED
    BY <1>1, <2>1, <2>2, <2>3, <2>4, <2>5 DEF Next
<1>5. status'[transactions[c]] \in {"PREEMPTED", "NONE"}
  <2>1. CASE Next
    BY <1>3, <2>1, PreemptedStays DEF SInv
  <2>2. CASE UNCHANGED vars
    BY <1>3, <2>2 DEF vars, monitorVars
  <2> QED
    BY <1>1, <2>1, <2>2
<1>6. status'[transactions[c]] # "NONE"
  BY <1>1, <1>2, <1>3, <1>4 DEF SInv, IInv, TablesAgree, Live
<1> QED
  BY <1>3, <1>4, <1>5, <1>6 DEF Holds, Preempted

\* A blemish stays.
LEMMA BlemishesStay == ASSUME [SysNext]_sysVars, blemishes' = {} PROVE blemishes = {}
<1>1. ASSUME NEW p \in Procs, Process(p) PROVE blemishes \subseteq blemishes'
  BY <1>1 DEF Process, Connect, AskForLock, AskOther, AskInVain, Alone, Destroy
<1> QED
  BY <1>1 DEF SysNext, SysDisconnect, Clock, sysVars

\* Requests for locks aside, nothing that the monitor does preempts a transaction, and
\* only the request to commit, which it grants to nobody preempted, makes a committer.
LEMMA NothingElsePreempts ==
  ASSUME IInv, NEW c \in Clients,
         \/ Accept(c) \/ Begin(c) \/ RestartRq(c) \/ CommitRq(c) \/ EndRq(c) \/ Die(c)
         \/ Disconnect(c),
         NEW d \in Clients, phase'[d] = "committing", Preempted(d)'
  PROVE  phase[d] = "committing" /\ Preempted(d)
<1> DEFINE t == transactions[d]
<1> USE DEF IInv, TypeOK
<1>1. CASE Accept(c)
  BY <1>1 DEF Accept, monitorVars, Preempted
<1>2. CASE Begin(c)
  <2>1. d # c /\ transactions'[d] = t
    BY <1>2 DEF Begin
  <2>2. t # next_tid
    BY DEF TablesAgree
  <2>3. phase'[d] = phase[d] /\ (t # 0 => status'[t] = status[t])
    BY <1>2, <2>1, <2>2 DEF Begin
  <2> QED
    BY <2>1, <2>3 DEF Preempted
<1>3. CASE RestartRq(c) \/ CommitRq(c) \/ EndRq(c)
  <2>1. Heard(c, {"running", "refused", "committing"}) /\ UNCHANGED transactions
    BY <1>3 DEF RestartRq, CommitRq, EndRq, Heard
  <2>2. \E s \in StatusValues \ {"PREEMPTED"} : \E x \in Phases :
          /\ status' = [status EXCEPT ![transactions[c]] = s]
          /\ phase' = [phase EXCEPT ![c] = x]
    BY <1>3 DEF RestartRq, CommitRq, EndRq, StatusValues, Phases
  <2>3. transactions[c] \in Tids /\ \A e \in Clients \ {c} : transactions[e] # transactions[c]
    BY <2>1, HeardFacts
  <2>4. status'[transactions[c]] # "PREEMPTED"
    BY <2>2, <2>3
  <2>5. d # c
    BY <2>1, <2>4 DEF Preempted
  <2>6. phase'[d] = phase[d] /\ t # transactions[c]
    BY <2>2, <2>3, <2>5
  <2>7. t # 0 => status'[t] = status[t]
    BY <2>2, <2>6
  <2> QED
    BY <2>1, <2>6, <2>7 DEF Preempted
<1>4. CASE Die(c)
  BY <1>4 DEF Die, monitorVars, Preempted
<1>5. CASE Disconnect(c)
  <2>1. d # c /\ phase'[d] = phase[d] /\ transactions'[d] = t
    BY <1>5 DEF Disconnect
  <2>2. t # 0 => t # transactions[c]
    BY <2>1 DEF TablesAgree
  <2>3. t # 0 => status'[t] = status[t]
    BY <1>5, <2>1, <2>2 DEF Disconnect
  <2> QED
    BY <2>1, <2>3 DEF Preempted
<1> QED
  BY <1>1, <1>2, <1>3, <1>4, <1>5

LEMMA CommittersStaySafe ==
  ASSUME SInv, CommittersSafe, [SysNext]_sysVars, blemishes' = {}
  PROVE  CommittersSafe'
<1> SUFFICES ASSUME NEW d \in Clients, phase'[d] = "committing", Preempted(d)' PROVE FALSE
  BY DEF CommittersSafe
<1>1. ~(phase[d] = "committing" /\ Preempted(d))
  BY DEF CommittersSafe
<1>2. IInv
  BY DEF SInv
<1>3. \A p \in Procs : conn[p] # NoConnection => conn[p] \in Clients
  BY DEF SInv, SysTypes
<1>4. ASSUME UNCHANGED vars PROVE FALSE
  BY <1>1, <1>4 DEF vars, monitorVars, clientVars, Preempted
<1>5. ASSUME NEW p \in Procs, AskForLock(p) PROVE FALSE
  <2>1. ~(phase[d] = "committing" /\ ~Preempted(d) /\ Preempted(d)')
    BY <1>5 DEF AskForLock, CommitterPreempted
  <2>2. \E b \in Blocks : AllocateRq(conn[p], b) \/ ReadRq(conn[p], b)
                            \/ WriteRq(conn[p], b) \/ ReleaseRq(conn[p], b)
    BY <1>5 DEF AskForLock, SInv, Agree, Requests
  <2>3. UNCHANGED phase \/ phase' = [phase EXCEPT ![conn[p]] = "refused"]
    BY <1>3, <1>5, <2>2, LockRequest
       DEF AskForLock, vars, clientVars, Refuse, GrantRead, GrantWrite
  <2>4. phase[d] = "committing"
    BY <1>2, <2>3 DEF IInv, TypeOK
  <2> QED
    BY <1>1, <2>1, <2>4
<1>6. ASSUME NEW p \in Procs, Process(p) PROVE FALSE
  <2>1. CASE Connect(p)
    BY <1>1, <1>2, <2>1, NothingElsePreempts DEF Connect
  <2>2. CASE AskOther(p) \/ AskInVain(p)
    BY <1>1, <1>2, <1>3, <2>2, NothingElsePreempts DEF AskOther, AskInVain
  <2>3. CASE Alone(p) \/ Destroy(p)
    BY <1>4, <2>3 DEF Alone, Destroy
  <2> QED
    BY <1>5, <1>6, <2>1, <2>2, <2>3 DEF Process
<1>7. CASE \E c \in Clients : SysDisconnect(c)
  BY <1>1, <1>2, <1>7, NothingElsePreempts DEF SysDisconnect
<1>8. CASE Clock
  BY <1>1, <1>8 DEF Clock, SliceExpires, monitorVars, clientVars, Preempted
<1> QED
  BY <1>4, <1>6, <1>7, <1>8 DEF SysNext, sysVars

-----------------------------------------------------------------------------
(* What a step of a process does to the files and to what it has seen.     *)

USE DEF Granted

Running == {"idle", "connect", "begin", "body", "probe", "allocate", "read", "write", "release",
            "restart", "destroy"} \cup Granted

OthersRest(p) ==
  \A q \in Procs \ {p} :
    /\ pc'[q] = pc[q] /\ blk'[q] = blk[q] /\ newval'[q] = newval[q]
    /\ blockmap'[q] = blockmap[q] /\ thrown'[q] = thrown[q]
    /\ todo'[q] = todo[q] /\ conn'[q] = conn[q]

FilesRest == UNCHANGED <<index, store, todo>>

\* The process goes on, and keeps what it has seen; it may fail, after END only if it
\* was preempted while it committed.
Proceeds(p) ==
  /\ FilesRest /\ UNCHANGED blockmap
  /\ DOMAIN newval' = Procs /\ newval'[p] # Lib!NULL
  /\ thrown'[p] # "none" => pc'[p] \in {"destroy", "exited"}
  /\ \/ pc[p] \in Running /\ pc'[p] \in Running \cup {"exited"}
     \/ pc[p] = "writing" /\ todo[p] = {} /\ pc'[p] = "close"
     \/ pc[p] = "writing" /\ todo[p] = {} /\ pc'[p] = "exited" /\ blemishes' # {}
  /\ pc[p] \in AtRisk => pc'[p] \in AtRisk /\ blk'[p] = blk[p]
  /\ pc'[p] \in Granted /\ blemishes' = {} => index[blk'[p]] = "A"
  /\ conn'[p] = conn[p] \/ pc'[p] = "exited"

\* An entry of the blockmap changes; what it says of the files is what they say.
Changes(p, b, f) ==
  /\ FilesRest /\ blockmap' = [blockmap EXCEPT ![p][b] = f]
  /\ DOMAIN newval' = Procs /\ newval'[p] # Lib!NULL
  /\ thrown'[p] # "none" => pc'[p] = "destroy"
  /\ pc[p] \in {"body", "allocate"} \cup Granted
  /\ pc'[p] \in {"body", "write", "release", "destroy"}
  /\ pc[p] \in {"writeGranted", "releaseGranted"} => b = blk[p]
  /\ f # Lib!NoEntry /\ TrueEntry(f)
  /\ Lib!Dangling(f) => b = blk'[p] /\ pc'[p] \in AtRisk
  /\ blemishes' = {} /\ Holds(p) /\ GrantFresh(p) /\ SeenStands(p) => StillThere(b, f)
  /\ conn'[p] = conn[p]

\* A Transaction object is made, or is gone.
Clears(p) ==
  /\ FilesRest /\ blockmap' = [blockmap EXCEPT ![p] = Lib!EmptyMap]
  /\ UNCHANGED newval
  /\ thrown'[p] # "none" => pc'[p] \in {"connect", "exited"}
  /\ \/ pc[p] \in {"idle", "connect"} /\ pc'[p] = "begin"
     \/ pc[p] = "destroy" /\ pc'[p] \in {"idle", "connect", "exited"}
     \/ pc[p] = "close" /\ pc'[p] = "idle"

\* COMMIT was acknowledged.
Commits(p) ==
  /\ UNCHANGED <<index, store, blockmap, newval>>
  /\ todo' = [todo EXCEPT ![p] = Lib!FileWrites(blockmap[p])]
  /\ thrown'[p] = "none"
  /\ pc[p] = "body" /\ pc'[p] = "writing"
  /\ Holds(p)
  /\ conn'[p] = conn[p]

\* A write() call of commit().
Writes(p, w) ==
  /\ index' = Lib!PutIndex(index, w) /\ store' = Lib!PutStore(store, w)
  /\ todo' = [todo EXCEPT ![p] = @ \ {w}]
  /\ UNCHANGED <<vars, pc, blk, newval, blockmap, thrown, conn>>
  /\ pc[p] = "writing"

Shape(p) ==
  /\ OthersRest(p) /\ DOMAIN todo' = Procs
  /\ \/ Proceeds(p)
     \/ \E b \in Blocks : \E f : Changes(p, b, f)
     \/ Clears(p)
     \/ Commits(p)
     \/ \E w \in todo[p] : Writes(p, w)

\* Where an operation takes its process.
LEMMA Moved ==
  ASSUME AInv, NEW p \in Procs, NEW x, pc' = [pc EXCEPT ![p] = x]
  PROVE  pc'[p] = x /\ \A q \in Procs \ {p} : pc'[q] = pc[q]
  BY DEF AInv, SInv, SysTypes

LEMMA Threw ==
  ASSUME AInv, NEW p \in Procs, NEW x, thrown' = [thrown EXCEPT ![p] = x]
  PROVE  thrown'[p] = x /\ \A q \in Procs \ {p} : thrown'[q] = thrown[q]
  BY DEF AInv, SInv, SysTypes

LEMMA ConnectShape == ASSUME AInv, NEW p \in Procs, Connect(p) PROVE Shape(p)
<1>1. /\ pc[p] \in {"idle", "connect"} /\ pc' = [pc EXCEPT ![p] = "begin"]
      /\ blockmap' = [blockmap EXCEPT ![p] = Lib!EmptyMap]
      /\ thrown' = [thrown EXCEPT ![p] = "none"]
      /\ UNCHANGED <<index, store, blk, newval, todo>>
  BY DEF Connect, Lib!Connect, Lib!Goto, Lib!files
<1>2. \A q \in Procs \ {p} : conn'[q] = conn[q]
  BY DEF Connect, AInv, SInv, SysTypes
<1>3. \A q \in Procs \ {p} : blockmap'[q] = blockmap[q]
  BY <1>1 DEF AInv, SInv, SysTypes
<1>4. OthersRest(p) /\ DOMAIN todo' = Procs
  BY <1>1, <1>2, <1>3, Moved, Threw DEF OthersRest, AInv, FilesTyped
<1>5. Clears(p)
  BY <1>1, Moved, Threw DEF Clears, FilesRest
<1> QED
  BY <1>4, <1>5 DEF Shape

LEMMA DestroyShape == ASSUME AInv, NEW p \in Procs, Destroy(p) PROVE Shape(p)
<1>1. /\ pc[p] \in {"destroy", "close"} /\ blockmap' = [blockmap EXCEPT ![p] = Lib!EmptyMap]
      /\ UNCHANGED <<index, store, blk, newval, thrown, todo>>
  BY DEF Destroy, Lib!Destroy, Lib!files
<1>2. \A q \in Procs \ {p} : conn'[q] = conn[q]
  BY DEF Destroy, HangUp, AInv, SInv, SysTypes
<1>3. \A q \in Procs \ {p} : blockmap'[q] = blockmap[q]
  BY <1>1 DEF AInv, SInv, SysTypes
<1>4. /\ thrown[p] \in {"none", "TE_ABORT", "TE_RESTART"}
      /\ thrown[p] # "none" => pc[p] \in {"destroy", "connect", "exited"}
      /\ \A b \in Blocks : Lib!Dangling(blockmap[p][b]) => pc[p] \in AtRisk
  BY DEF AInv, SInv, SysTypes, Own, EntryTrue
<1>5. \E x \in {"idle", "connect", "exited"} :
        /\ pc' = [pc EXCEPT ![p] = x]
        /\ thrown[p] # "none" => x \in {"connect", "exited"}
        /\ pc[p] = "close" => x = "idle"
  <2>1. CASE pc' = [pc EXCEPT ![p] = CASE thrown[p] = "none"       -> "idle"
                                       [] thrown[p] = "TE_ABORT"   -> "exited"
                                       [] thrown[p] = "TE_RESTART" -> "connect"]
    BY <1>1, <1>4, <2>1
  <2>2. CASE /\ \E b \in Lib!BlockNumbers : Lib!Dangling(blockmap[p][b])
             /\ pc' = [pc EXCEPT ![p] = "exited"]
    BY <1>4, <2>2, BlocksAssumption DEF Lib!BlockNumbers, AtRisk
  <2> QED
    BY <2>1, <2>2 DEF Destroy, Lib!Destroy, Lib!Goto
<1>6. PICK x \in {"idle", "connect", "exited"} :
        /\ pc' = [pc EXCEPT ![p] = x]
        /\ thrown[p] # "none" => x \in {"connect", "exited"}
        /\ pc[p] = "close" => x = "idle"
  BY <1>5
<1>7. pc'[p] = x /\ \A q \in Procs \ {p} : pc'[q] = pc[q]
  BY <1>6, Moved
<1>8. OthersRest(p) /\ DOMAIN todo' = Procs
  BY <1>1, <1>2, <1>3, <1>7 DEF OthersRest, AInv, FilesTyped
<1>9. Clears(p)
  BY <1>1, <1>6, <1>7 DEF Clears, FilesRest
<1> QED
  BY <1>8, <1>9 DEF Shape

\* The library goes on without an exception.
LEMMA GoesOn ==
  ASSUME AInv, NEW p \in Procs,
         FilesRest, UNCHANGED <<blockmap, blk, newval, thrown, conn>>,
         NEW x \in Running \cup {"close"}, pc' = [pc EXCEPT ![p] = x],
         \/ pc[p] \in Running \ {"destroy", "connect"} /\ x # "close"
         \/ pc[p] = "writing" /\ todo[p] = {} /\ x = "close",
         pc[p] \in AtRisk => x \in AtRisk,
         x \in Granted /\ blemishes' = {} => index[blk[p]] = "A"
  PROVE  Shape(p)
<1>1. pc'[p] = x /\ \A q \in Procs \ {p} : pc'[q] = pc[q]
  BY Moved
<1>2. OthersRest(p) /\ DOMAIN todo' = Procs /\ DOMAIN newval = Procs
  BY <1>1 DEF OthersRest, FilesRest, AInv, FilesTyped
<1>3. Own(p) /\ "close" \notin Running \cup Granted /\ pc[p] \notin {"destroy", "connect", "exited"}
  BY DEF AInv, Running
<1>4. thrown'[p] = "none" /\ newval'[p] # Lib!NULL
  BY <1>3 DEF Own
<1>5. Proceeds(p)
  <2>1. pc'[p] \in Granted /\ blemishes' = {} => index[blk'[p]] = "A"
    BY <1>1
  <2> QED
    BY <1>1, <1>2, <1>3, <1>4, <2>1 DEF Proceeds
<1> QED
  BY <1>2, <1>5 DEF Shape

\* abort() or restart(): the destructor is next.
LEMMA GivesUp ==
  ASSUME AInv, NEW p \in Procs, FilesRest, UNCHANGED <<blockmap, newval, conn>>,
         pc[p] \in Running,
         \/ UNCHANGED blk
         \/ pc[p] \notin AtRisk /\ \E b \in Blocks : blk' = [blk EXCEPT ![p] = b],
         NEW x \in {"TE_ABORT", "TE_RESTART"}, thrown' = [thrown EXCEPT ![p] = x],
         pc' = [pc EXCEPT ![p] = "destroy"]
  PROVE  Shape(p)
<1>1. pc'[p] = "destroy" /\ \A q \in Procs \ {p} : pc'[q] = pc[q] /\ thrown'[q] = thrown[q]
  BY Moved, Threw
<1>2. \A q \in Procs \ {p} : blk'[q] = blk[q]
  BY DEF AInv, SInv, SysTypes
<1>3. OthersRest(p) /\ DOMAIN todo' = Procs /\ DOMAIN newval = Procs
  BY <1>1, <1>2 DEF OthersRest, FilesRest, AInv, FilesTyped
<1>4. newval[p] # Lib!NULL
  BY DEF AInv, Own
<1>5. "destroy" \in Running \ Granted /\ "destroy" \in AtRisk
  BY DEF Running, AtRisk
<1>6. Proceeds(p)
  BY <1>1, <1>3, <1>4, <1>5 DEF Proceeds, FilesRest
<1> QED
  BY <1>3, <1>6 DEF Shape

LEMMA AskForLockShape == ASSUME AInv, NEW p \in Procs, AskForLock(p) PROVE Shape(p)
<1> DEFINE c == conn[p]
           b == blk[p]
           n == last_free_block[p]
<1>0. pc[p] \in {"read", "write", "release", "allocate"}
        => pc[p] \in Running \ {"destroy", "connect"}
  BY DEF Running
<1>1. /\ Verdict(c) \in {"OK", "NOT_OK"} /\ AllocateVerdict(c, n) \in {"OK", "NOT_OK"}
      /\ UNCHANGED conn
  BY DEF Verdict, AllocateVerdict, AskForLock
<1>2. ASSUME NEW request \in {"read", "write", "release"}, NEW next \in Granted,
             request = "read" => next = "readGranted",
             request # "read" => next \in AtRisk,
             pc[p] = request, Lib!Granted(p, request, Verdict(c), next),
             StaleGrant(p, b, "A", Verdict(c)) \subseteq blemishes'
      PROVE  Shape(p)
  <2>1. /\ pc' = [pc EXCEPT ![p] = IF Verdict(c) = "OK" THEN next ELSE "restart"]
        /\ UNCHANGED <<index, store, blk, newval, blockmap, thrown, todo>>
    BY <1>1, <1>2 DEF Lib!Granted, Lib!Goto, Lib!files
  <2>2. next \in Running /\ "restart" \in Running
    BY DEF Running
  <2>3. Verdict(c) = "OK" /\ blemishes' = {} => index[b] = "A"
    BY <1>2 DEF StaleGrant
  <2>4. pc[p] \in AtRisk => next \in AtRisk /\ "restart" \in AtRisk
    BY <1>2 DEF AtRisk
  <2> QED
    BY <1>0, <1>1, <1>2, <2>1, <2>2, <2>3, <2>4, GoesOn DEF FilesRest
<1>3. CASE /\ pc[p] = "read" /\ Lib!AskRead(p, Verdict(c))
           /\ StaleGrant(p, b, "A", Verdict(c)) \subseteq blemishes'
  BY <1>2, <1>3 DEF Lib!AskRead
<1>4. CASE /\ pc[p] = "write" /\ Lib!AskWrite(p, Verdict(c))
           /\ StaleGrant(p, b, "A", Verdict(c)) \subseteq blemishes'
  BY <1>2, <1>4 DEF Lib!AskWrite, AtRisk
<1>5. CASE /\ pc[p] = "release" /\ Lib!AskRelease(p, Verdict(c))
           /\ StaleGrant(p, b, "A", Verdict(c)) \subseteq blemishes'
  BY <1>2, <1>5 DEF Lib!AskRelease, AtRisk
<1>6. CASE /\ pc[p] = "allocate" /\ Lib!AskAllocate(p, AllocateVerdict(c, n))
           /\ StaleGrant(p, n, "U", AllocateVerdict(c, n)) \subseteq blemishes'
  <2>1. FilesRest /\ UNCHANGED <<blk, newval>>
    BY <1>6 DEF Lib!AskAllocate, Lib!files, FilesRest
  <2>2. CASE AllocateVerdict(c, n) = "OK"
    <3> DEFINE f == Lib!Entry("A_LOCK", Zeros, Zeros, "U")
    <3>1. /\ blockmap' = [blockmap EXCEPT ![p][n] = f]
          /\ pc' = [pc EXCEPT ![p] = "body"] /\ UNCHANGED thrown
      BY <1>6, <2>2 DEF Lib!AskAllocate, Lib!SetEntry, Lib!Goto
    <3>2. f # Lib!NoEntry /\ TrueEntry(f) /\ ~Lib!Dangling(f) /\ f.oldindex = "U"
      BY LibraryAssumption, NoEntryFacts DEF Lib!Entry, Lib!LockTypes, TrueEntry, Lib!Dangling
    <3> HIDE DEF f
    <3>3. n \in Blocks /\ thrown[p] = "none" /\ newval[p] # Lib!NULL /\ DOMAIN newval = Procs
          /\ DOMAIN todo = Procs
      BY <1>6 DEF AInv, SInv, Agree, Requests, Own, FilesTyped
    <3>4. blemishes' = {} => StillThere(n, f)
      BY <1>6, <2>2, <3>2 DEF StaleGrant, StillThere
    <3>5. pc'[p] = "body" /\ \A q \in Procs \ {p} : pc'[q] = pc[q]
      BY <3>1, Moved
    <3>6. OthersRest(p) /\ DOMAIN todo' = Procs
      BY <1>1, <2>1, <3>1, <3>3, <3>5 DEF OthersRest, AInv, SInv, SysTypes, FilesRest
    <3>7. Changes(p, n, f)
      BY <1>1, <1>6, <2>1, <3>1, <3>2, <3>3, <3>4, <3>5 DEF Changes
    <3> QED
      BY <3>3, <3>6, <3>7 DEF Shape
  <2>3. CASE AllocateVerdict(c, n) = "NOT_OK"
    <3>1. pc' = [pc EXCEPT ![p] = "probe"] /\ UNCHANGED <<blockmap, thrown>>
      BY <1>6, <2>3 DEF Lib!AskAllocate, Lib!object, Lib!Goto
    <3> QED
      BY <1>0, <1>1, <1>6, <2>1, <3>1, GoesOn DEF Running, AtRisk
  <2> QED
    BY <1>1, <2>2, <2>3
<1> QED
  BY <1>3, <1>4, <1>5, <1>6 DEF AskForLock

LEMMA AskOtherShape == ASSUME AInv, NEW p \in Procs, AskOther(p) PROVE Shape(p)
<1> DEFINE c == conn[p]
<1>1. UNCHANGED conn /\ c # NoConnection
  BY DEF AskOther
<1>2. CASE Lib!AskBegin(p, "OK")
  <2>1. /\ pc' = [pc EXCEPT ![p] = "body"] /\ pc[p] = "begin"
        /\ FilesRest /\ UNCHANGED <<blockmap, blk, newval, thrown>>
    BY <1>2 DEF Lib!AskBegin, Lib!Goto, Lib!files, Lib!object, FilesRest
  <2> QED
    BY <1>1, <2>1, GoesOn DEF Running, AtRisk
<1>3. CASE Lib!AskRestart(p, "OK")
  <2>1. /\ \E x \in {"TE_ABORT", "TE_RESTART"} : thrown' = [thrown EXCEPT ![p] = x]
        /\ pc' = [pc EXCEPT ![p] = "destroy"] /\ pc[p] = "restart"
        /\ FilesRest /\ UNCHANGED <<blockmap, blk, newval>>
    BY <1>3 DEF Lib!AskRestart, Lib!Abort, Lib!Throw, Lib!Goto, Lib!files, FilesRest
  <2> QED
    BY <1>1, <2>1, GivesUp DEF Running
<1>4. CASE CommitRq(c) /\ Lib!AskCommit(p, "OK")
  <2>1. /\ pc' = [pc EXCEPT ![p] = "writing"] /\ pc[p] \in {"body", "commit"}
        /\ todo' = [todo EXCEPT ![p] = Lib!FileWrites(blockmap[p])]
        /\ UNCHANGED <<index, store, blockmap, blk, newval, thrown>>
    BY <1>4 DEF Lib!AskCommit, Lib!Goto, Lib!files
  <2>2. Holds(p)
    BY <1>1, <1>4 DEF CommitRq, Heard, Holds
  <2>3. pc[p] = "body" /\ thrown[p] = "none"
    BY <2>1 DEF AInv, Own
  <2>4. pc'[p] = "writing" /\ \A q \in Procs \ {p} : pc'[q] = pc[q] /\ todo'[q] = todo[q]
    BY <2>1, Moved DEF AInv, FilesTyped
  <2>5. OthersRest(p) /\ DOMAIN todo' = Procs
    BY <1>1, <2>1, <2>4 DEF OthersRest, AInv, FilesTyped
  <2>6. Commits(p)
    BY <1>1, <2>1, <2>2, <2>3, <2>4 DEF Commits
  <2> QED
    BY <2>5, <2>6 DEF Shape
<1>5. CASE Lib!AskEnd(p, "OK")
  <2>1. /\ pc' = [pc EXCEPT ![p] = "close"] /\ pc[p] = "writing" /\ todo[p] = {}
        /\ FilesRest /\ UNCHANGED <<blockmap, blk, newval, thrown>>
    BY <1>5 DEF Lib!AskEnd, Lib!Goto, Lib!files, FilesRest
  <2> QED
    BY <1>1, <2>1, GoesOn DEF AtRisk
<1> QED
  BY <1>2, <1>3, <1>4, <1>5 DEF AskOther

LEMMA AskInVainShape ==
  ASSUME AInv, NEW p \in Procs, AskInVain(p), [SysNext]_sysVars
  PROVE  Shape(p)
<1> DEFINE c == conn[p]
<1>1. /\ c \in Clients /\ Lib!Ask(p, "DIE") /\ Preempted(c)
      /\ phase[c] \in {"running", "refused", "committing"}
  BY DEF AskInVain, Die, AInv, SInv, SysTypes
<1>2. pc[p] # "begin" /\ (pc[p] = "writing" => phase[c] = "committing")
  BY <1>1 DEF AskInVain, AInv, SInv, Agree, PhaseAgrees
<1>3. pc[p] = "writing" => blemishes' # {}
  BY <1>1, <1>2, BlemishesStay DEF AInv, Unblemished, CommittersSafe
<1>4. \/ /\ pc' = [pc EXCEPT ![p] = "destroy"] /\ pc[p] \in Running
         /\ thrown' = [thrown EXCEPT ![p] = "TE_ABORT"]
         /\ FilesRest /\ UNCHANGED <<blockmap, blk, newval>>
      \/ /\ pc' = [pc EXCEPT ![p] = "exited"]
         /\ pc[p] \in {"body", "writing"} /\ (pc[p] = "writing" => todo[p] = {})
         /\ thrown' = [thrown EXCEPT ![p] = "TE_ABORT"]
         /\ FilesRest /\ UNCHANGED <<blockmap, blk, newval>>
  <2>1. CASE Lib!AskRead(p, "DIE") \/ Lib!AskWrite(p, "DIE") \/ Lib!AskRelease(p, "DIE")
    BY <2>1 DEF Lib!AskRead, Lib!AskWrite, Lib!AskRelease, Lib!Granted, Lib!Abort, Lib!Throw,
                Lib!Goto, Lib!files, FilesRest, Running
  <2>2. CASE Lib!AskAllocate(p, "DIE") \/ Lib!AskRestart(p, "DIE")
    BY <2>2 DEF Lib!AskAllocate, Lib!AskRestart, Lib!Abort, Lib!Throw, Lib!Goto, Lib!files,
                FilesRest, Running
  <2>3. CASE Lib!AskCommit(p, "DIE") \/ Lib!AskEnd(p, "DIE")
    BY <2>3 DEF Lib!AskCommit, Lib!AskEnd, Lib!DestructorThrows, Lib!Goto, Lib!files, FilesRest,
                AInv, Own
  <2> QED
    BY <1>1, <1>2, <2>1, <2>2, <2>3 DEF Lib!Ask, Lib!AskBegin
<1>5. CASE /\ pc' = [pc EXCEPT ![p] = "destroy"] /\ pc[p] \in Running
           /\ thrown' = [thrown EXCEPT ![p] = "TE_ABORT"]
           /\ FilesRest /\ UNCHANGED <<blockmap, blk, newval>>
  <2>1. UNCHANGED conn
    BY <1>5, Moved DEF AskInVain
  <2> QED
    BY <1>5, <2>1, GivesUp
<1>6. CASE /\ pc' = [pc EXCEPT ![p] = "exited"]
           /\ pc[p] \in {"body", "writing"} /\ (pc[p] = "writing" => todo[p] = {})
           /\ thrown' = [thrown EXCEPT ![p] = "TE_ABORT"]
           /\ FilesRest /\ UNCHANGED <<blockmap, blk, newval>>
  <2>1. /\ pc'[p] = "exited"
        /\ \A q \in Procs \ {p} : pc'[q] = pc[q] /\ thrown'[q] = thrown[q]
    BY <1>6, Moved, Threw
  <2>2. \A q \in Procs \ {p} : conn'[q] = conn[q]
    BY DEF AskInVain, HangUp, AInv, SInv, SysTypes
  <2>3. OthersRest(p) /\ DOMAIN todo' = Procs /\ DOMAIN newval = Procs /\ newval[p] # Lib!NULL
    BY <1>6, <2>1, <2>2 DEF OthersRest, FilesRest, AInv, FilesTyped, Own
  <2>4. /\ "body" \in Running /\ {"body", "writing"} \cap AtRisk = {}
        /\ "exited" \notin Granted
    BY DEF Running, AtRisk
  <2>5. Proceeds(p)
    BY <1>3, <1>6, <2>1, <2>3, <2>4 DEF Proceeds, FilesRest
  <2> QED
    BY <2>3, <2>5 DEF Shape
<1> QED
  BY <1>4, <1>5, <1>6

\* What a step on an entry leaves: the new entry, and the others as they were.
LEMMA EntryStep ==
  ASSUME AInv, NEW p \in Procs, FilesRest, UNCHANGED conn,
         DOMAIN newval' = Procs, newval'[p] # Lib!NULL,
         \A q \in Procs \ {p} : newval'[q] = newval[q] /\ blk'[q] = blk[q],
         NEW b \in Blocks, NEW f, blockmap' = [blockmap EXCEPT ![p][b] = f],
         pc[p] \in {"body"} \cup Granted,
         NEW x \in {"body", "write", "release", "destroy"}, pc' = [pc EXCEPT ![p] = x],
         UNCHANGED thrown \/ thrown' = [thrown EXCEPT ![p] = "TE_ABORT"],
         x # "destroy" => UNCHANGED thrown,
         pc[p] \in {"writeGranted", "releaseGranted"} => b = blk[p],
         f # Lib!NoEntry, TrueEntry(f), Lib!Dangling(f) => b = blk'[p] /\ x # "body",
         Holds(p) /\ GrantFresh(p) /\ SeenStands(p) => StillThere(b, f)
  PROVE  Shape(p)
<1>0. \A q \in Procs \ {p} : thrown'[q] = thrown[q]
  BY DEF AInv, SInv, SysTypes
<1>1. pc'[p] = x /\ \A q \in Procs \ {p} : pc'[q] = pc[q] /\ thrown'[q] = thrown[q]
  BY <1>0, Moved
<1>2. \A q \in Procs \ {p} : blockmap'[q] = blockmap[q]
  BY DEF AInv, SInv, SysTypes
<1>3. Own(p) /\ pc[p] \notin {"destroy", "connect", "exited"}
  BY DEF AInv
<1>4. thrown'[p] # "none" => pc'[p] = "destroy"
  BY <1>1, <1>3 DEF Own
<1>5. OthersRest(p) /\ DOMAIN todo' = Procs
  BY <1>1, <1>2 DEF OthersRest, FilesRest, AInv, FilesTyped
<1>6. x # "body" => x \in AtRisk
  BY DEF AtRisk
<1>7. Changes(p, b, f)
  BY <1>1, <1>4, <1>6 DEF Changes
<1> QED
  BY <1>5, <1>7 DEF Shape

\* The lock that was granted is given its entry.
LEMMA FetchShape ==
  ASSUME AInv, NEW p \in Procs, UNCHANGED conn,
         Lib!FetchRead(p) \/ Lib!FetchWrite(p) \/ Lib!FetchRelease(p)
  PROVE  Shape(p)
<1> DEFINE b == blk[p]
<1>1. \E l \in {"R_LOCK", "W_LOCK", "S_LOCK"} : \E v :
        /\ v # Lib!NULL /\ blockmap' = [blockmap EXCEPT ![p][b] = Lib!Entry(l, v, store[b], "A")]
        /\ pc[p] \in Granted /\ pc' = [pc EXCEPT ![p] = "body"]
        /\ FilesRest /\ UNCHANGED <<blk, newval, thrown>>
  <2>1. newval[p] # Lib!NULL /\ (pc[p] \in Granted => store[b] # Lib!NULL)
    BY DEF AInv, SInv, Agree, Requests, Own, FilesTyped
  <2>2. CASE Lib!FetchRead(p)
    BY <2>1, <2>2 DEF Lib!FetchRead, Lib!Fetch, Lib!SetEntry, Lib!Goto, Lib!files, FilesRest
  <2>3. CASE Lib!FetchWrite(p)
    BY <2>1, <2>3 DEF Lib!FetchWrite, Lib!Fetch, Lib!SetEntry, Lib!Goto, Lib!files, FilesRest
  <2>4. CASE Lib!FetchRelease(p)
    BY <2>1, <2>4 DEF Lib!FetchRelease, Lib!Fetch, Lib!SetEntry, Lib!Goto, Lib!files, FilesRest
  <2> QED
    BY <2>2, <2>3, <2>4
<1>2. PICK l \in {"R_LOCK", "W_LOCK", "S_LOCK"} : \E v :
        /\ v # Lib!NULL /\ blockmap' = [blockmap EXCEPT ![p][b] = Lib!Entry(l, v, store[b], "A")]
        /\ pc[p] \in Granted /\ pc' = [pc EXCEPT ![p] = "body"]
        /\ FilesRest /\ UNCHANGED <<blk, newval, thrown>>
  BY <1>1
<1>3. PICK v :
        /\ v # Lib!NULL /\ blockmap' = [blockmap EXCEPT ![p][b] = Lib!Entry(l, v, store[b], "A")]
        /\ pc[p] \in Granted /\ pc' = [pc EXCEPT ![p] = "body"]
        /\ FilesRest /\ UNCHANGED <<blk, newval, thrown>>
  BY <1>2
<1> DEFINE f == Lib!Entry(l, v, store[b], "A")
<1>4. /\ f # Lib!NoEntry /\ f.lock = l /\ f.data = v /\ f.oldval = store[b] /\ f.oldindex = "A"
  BY NoEntryFacts DEF Lib!Entry, Lib!LockTypes
<1> HIDE DEF f
<1>5. TrueEntry(f) /\ ~Lib!Dangling(f)
  BY <1>3, <1>4 DEF TrueEntry, Lib!Dangling
<1>6. Holds(p) /\ GrantFresh(p) => StillThere(b, f)
  BY <1>3, <1>4 DEF GrantFresh, StillThere
<1>7. b \in Blocks /\ newval[p] # Lib!NULL /\ DOMAIN newval = Procs
  BY <1>3 DEF AInv, SInv, Agree, Requests, Own, FilesTyped
<1>8. blockmap' = [blockmap EXCEPT ![p][b] = f]
  BY <1>3 DEF f
<1> QED
  BY <1>3, <1>4, <1>5, <1>6, <1>7, <1>8, EntryStep

\* An operation on a block that the blockmap has another buffer for, or another lock.
LEMMA EntryChanged ==
  ASSUME AInv, NEW p \in Procs, UNCHANGED conn, FilesRest, pc[p] = "body",
         DOMAIN newval' = Procs, newval'[p] # Lib!NULL,
         \A q \in Procs \ {p} : newval'[q] = newval[q],
         NEW b \in Blocks, blk' = [blk EXCEPT ![p] = b],
         NEW x \in {"body", "write", "release", "destroy"}, pc' = [pc EXCEPT ![p] = x],
         UNCHANGED thrown \/ thrown' = [thrown EXCEPT ![p] = "TE_ABORT"],
         x # "destroy" => UNCHANGED thrown,
         blockmap[p][b] # Lib!NoEntry,
         \/ /\ Lib!Owned(blockmap[p][b]) /\ x = "body"
            /\ blockmap' = [blockmap EXCEPT ![p][b] = [blockmap[p][b] EXCEPT !.lock = "S_LOCK"]]
         \/ /\ blockmap[p][b].lock \in {"A_LOCK", "W_LOCK"} /\ x = "body"
            /\ \E v : /\ v # Lib!NULL
                      /\ blockmap' = [blockmap EXCEPT ![p][b] = [blockmap[p][b] EXCEPT !.data = v]]
         \/ /\ ~Lib!Owned(blockmap[p][b]) /\ x # "body"
            /\ blockmap' = [blockmap EXCEPT ![p][b] = [blockmap[p][b] EXCEPT !.data = Lib!NULL]]
  PROVE  Shape(p)
<1> DEFINE e == blockmap[p][b]
<1>1. IsEntry(e) /\ TrueEntry(e) /\ ~Lib!Dangling(e)
  BY DEF AInv, SInv, SysTypes, Own, EntryTrue, AtRisk
<1>2. PICK l \in Lib!LockTypes : \E v, w, i : e = Lib!Entry(l, v, w, i)
  BY <1>1 DEF IsEntry
<1>3. PICK v, w, i : e = Lib!Entry(l, v, w, i)
  BY <1>2
<1>4. Holds(p) /\ SeenStands(p) => StillThere(b, e)
  BY DEF SeenStands, Stage
<1>5. blk'[p] = b /\ \A q \in Procs \ {p} : blk'[q] = blk[q]
  BY DEF AInv, SInv, SysTypes
<1>6. \A m \in Lib!LockTypes : \A y, z, j :
        LET f == Lib!Entry(m, y, z, j) IN
        f.lock = m /\ f.data = y /\ f.oldval = z /\ f.oldindex = j /\ f # Lib!NoEntry
  BY NoEntryFacts DEF Lib!Entry
<1>7. ASSUME NEW m \in Lib!LockTypes, NEW y,
             blockmap' = [blockmap EXCEPT ![p][b] = Lib!Entry(m, y, w, i)],
             m \in {l, "S_LOCK"}, m \in {"A_LOCK", "W_LOCK"} => y # Lib!NULL,
             m = "R_LOCK" => x # "body"
      PROVE  Shape(p)
  <2> DEFINE f == Lib!Entry(m, y, w, i)
  <2>1. /\ f.lock = m /\ f.data = y /\ f.oldval = w /\ f.oldindex = i /\ f # Lib!NoEntry
        /\ e.lock = l /\ e.oldval = w /\ e.oldindex = i /\ e # Lib!NoEntry
    BY <1>3, <1>6
  <2> HIDE DEF f, e
  <2>2. TrueEntry(f)
    BY <1>1, <1>7, <2>1 DEF TrueEntry
  <2>3. StillThere(b, e) => StillThere(b, f)
    BY <2>1 DEF StillThere
  <2>4. Lib!Dangling(f) => x # "body"
    BY <1>7, <2>1 DEF Lib!Dangling
  <2>5. blockmap' = [blockmap EXCEPT ![p][b] = f]
    BY <1>7 DEF f
  <2> QED
    BY <1>4, <1>5, <2>1, <2>2, <2>3, <2>4, <2>5, EntryStep DEF e
<1>8. CASE /\ Lib!Owned(e) /\ x = "body"
           /\ blockmap' = [blockmap EXCEPT ![p][b] = [e EXCEPT !.lock = "S_LOCK"]]
  <2>1. [e EXCEPT !.lock = "S_LOCK"] = Lib!Entry("S_LOCK", v, w, i)
    BY <1>3 DEF Lib!Entry
  <2>2. "S_LOCK" \in Lib!LockTypes
    BY DEF Lib!LockTypes
  <2> HIDE DEF e
  <2> QED
    BY <1>7, <1>8, <2>1, <2>2
<1>9. ASSUME e.lock \in {"A_LOCK", "W_LOCK"}, x = "body", NEW y, y # Lib!NULL,
             blockmap' = [blockmap EXCEPT ![p][b] = [e EXCEPT !.data = y]]
      PROVE  Shape(p)
  <2>1. [e EXCEPT !.data = y] = Lib!Entry(l, y, w, i) /\ l \in {"A_LOCK", "W_LOCK"}
    BY <1>3, <1>9 DEF Lib!Entry
  <2> HIDE DEF e
  <2> QED
    BY <1>7, <1>9, <2>1
<1>10. CASE /\ ~Lib!Owned(e) /\ x # "body"
            /\ blockmap' = [blockmap EXCEPT ![p][b] = [e EXCEPT !.data = Lib!NULL]]
  <2>1. [e EXCEPT !.data = Lib!NULL] = Lib!Entry(l, Lib!NULL, w, i) /\ e.lock = l
    BY <1>3 DEF Lib!Entry
  <2>2. l \notin {"A_LOCK", "W_LOCK"}
    BY <1>10, <2>1 DEF Lib!Owned
  <2> HIDE DEF e
  <2> QED
    BY <1>7, <1>10, <2>1, <2>2
<1> QED
  BY <1>8, <1>9, <1>10

\* An operation that changes no entry.
LEMMA EntriesKept ==
  ASSUME AInv, NEW p \in Procs, UNCHANGED <<conn, blockmap>>, FilesRest, pc[p] = "body",
         DOMAIN newval' = Procs, newval'[p] # Lib!NULL,
         \A q \in Procs \ {p} : newval'[q] = newval[q] /\ blk'[q] = blk[q],
         NEW x \in {"body", "probe", "read", "write", "release", "destroy"},
         pc' = [pc EXCEPT ![p] = x],
         UNCHANGED thrown \/ thrown' = [thrown EXCEPT ![p] = "TE_ABORT"],
         x # "destroy" => UNCHANGED thrown
  PROVE  Shape(p)
<1>1. \A q \in Procs \ {p} : thrown'[q] = thrown[q]
  BY DEF AInv, SInv, SysTypes
<1>2. pc'[p] = x /\ \A q \in Procs \ {p} : pc'[q] = pc[q]
  BY Moved
<1>3. Own(p)
  BY DEF AInv
<1>4. thrown'[p] # "none" => pc'[p] = "destroy"
  BY <1>2, <1>3 DEF Own
<1>5. OthersRest(p) /\ DOMAIN todo' = Procs
  BY <1>1, <1>2 DEF OthersRest, FilesRest, AInv, FilesTyped
<1>6. x \in Running \ Granted /\ "body" \in Running \ AtRisk
  BY DEF Running, AtRisk
<1>7. Proceeds(p)
  BY <1>2, <1>4, <1>6 DEF Proceeds
<1> QED
  BY <1>5, <1>7 DEF Shape

LEMMA OperationShape ==
  ASSUME AInv, NEW p \in Procs, UNCHANGED conn,
         \/ Lib!Allocate(p) \/ Lib!UserAbort(p)
         \/ \E b \in Blocks : \/ Lib!Read(p, b) \/ Lib!Release(p, b)
                              \/ \E v \in Values \ {Zeros} : Lib!Write(p, b, v)
  PROVE  Shape(p)
<1>0. Lib!Calls(p)
  BY DEF Lib!Allocate, Lib!UserAbort, Lib!Read, Lib!Release, Lib!Write
<1>1. /\ pc[p] = "body" /\ pc = [pc EXCEPT ![p] = "body"] /\ FilesRest
      /\ newval[p] # Lib!NULL /\ DOMAIN newval = Procs
  <2>1. pc[p] = "body" /\ FilesRest
    BY <1>0 DEF Lib!Calls, Lib!files, FilesRest
  <2>2. pc \in [Procs -> Lib!Points] /\ DOMAIN newval = Procs /\ Own(p)
    BY DEF AInv, SInv, SysTypes, FilesTyped
  <2> QED
    BY <2>1, <2>2 DEF Own
<1>2. ASSUME NEW b, blk' = [blk EXCEPT ![p] = b]
      PROVE  \A q \in Procs \ {p} : blk'[q] = blk[q]
  BY <1>2 DEF AInv, SInv, SysTypes
<1>3. CASE Lib!Allocate(p)
  BY <1>1, <1>3, EntriesKept DEF Lib!Allocate, Lib!object, Lib!Goto
<1>4. CASE Lib!UserAbort(p)
  BY <1>1, <1>4, EntriesKept DEF Lib!UserAbort, Lib!Abort, Lib!Throw, Lib!Goto
<1>5. ASSUME NEW b \in Blocks, Lib!Read(p, b) PROVE Shape(p)
  <2>1. \E x \in {"body", "read", "destroy"} :
          /\ pc' = [pc EXCEPT ![p] = x]
          /\ UNCHANGED thrown \/ thrown' = [thrown EXCEPT ![p] = "TE_ABORT"]
          /\ x # "destroy" => UNCHANGED thrown
    BY <1>1, <1>5 DEF Lib!Read, Lib!StayInBody, Lib!RequestOrAbort, Lib!Abort, Lib!Throw, Lib!Goto
  <2>2. blk' = [blk EXCEPT ![p] = b] /\ UNCHANGED <<newval, blockmap>>
    BY <1>5 DEF Lib!Read
  <2> QED
    BY <1>1, <1>2, <2>1, <2>2, EntriesKept
<1>6. ASSUME NEW b \in Blocks, Lib!Release(p, b) PROVE Shape(p)
  <2> DEFINE e == blockmap[p][b]
  <2>1. blk' = [blk EXCEPT ![p] = b] /\ UNCHANGED newval
    BY <1>6 DEF Lib!Release
  <2>2. CASE Lib!Owned(e)
    <3>1. /\ UNCHANGED <<pc, thrown>>
          /\ blockmap' = [blockmap EXCEPT ![p][b] = [e EXCEPT !.lock = "S_LOCK"]]
          /\ e # Lib!NoEntry
      BY <1>6, <2>2, NoEntryFacts DEF Lib!Release, Lib!StayInBody, Lib!SetEntry
    <3> QED
      BY <1>1, <2>1, <2>2, <3>1, EntryChanged
  <2>3. CASE ~Lib!Owned(e)
    <3>1. /\ Lib!RequestOrAbort(p, b, "release")
          /\ blockmap' = IF e = Lib!NoEntry THEN blockmap ELSE Lib!DropReadBuffer(p, b)
      BY <1>6, <2>3 DEF Lib!Release
    <3>2. \E x \in {"release", "destroy"} :
            /\ pc' = [pc EXCEPT ![p] = x]
            /\ UNCHANGED thrown \/ thrown' = [thrown EXCEPT ![p] = "TE_ABORT"]
            /\ x # "destroy" => UNCHANGED thrown
      BY <3>1 DEF Lib!RequestOrAbort, Lib!Abort, Lib!Throw, Lib!Goto
    <3>3. CASE e = Lib!NoEntry
      BY <1>1, <1>2, <2>1, <3>1, <3>2, <3>3, EntriesKept
    <3>4. CASE e # Lib!NoEntry
      BY <1>1, <2>1, <2>3, <3>1, <3>2, <3>4, EntryChanged DEF Lib!DropReadBuffer
    <3> QED
      BY <3>3, <3>4
  <2> QED
    BY <2>2, <2>3
<1>7. ASSUME NEW b \in Blocks, NEW v \in Values, Lib!Write(p, b, v) PROVE Shape(p)
  <2> DEFINE e == blockmap[p][b]
  <2>1. blk' = [blk EXCEPT ![p] = b] /\ newval' = [newval EXCEPT ![p] = v]
    BY <1>7 DEF Lib!Write
  <2>2. /\ DOMAIN newval' = Procs /\ newval'[p] # Lib!NULL /\ v # Lib!NULL
        /\ \A q \in Procs \ {p} : newval'[q] = newval[q]
    BY <1>1, <2>1, LibraryAssumption
  <2>3. CASE e.lock = "S_LOCK"
    <3>1. /\ pc' = [pc EXCEPT ![p] = "destroy"] /\ thrown' = [thrown EXCEPT ![p] = "TE_ABORT"]
          /\ UNCHANGED blockmap
      BY <1>7, <2>3 DEF Lib!Write, Lib!Abort, Lib!Throw, Lib!Goto
    <3> QED
      BY <1>1, <1>2, <2>1, <2>2, <3>1, EntriesKept
  <2>4. CASE e.lock \in {"A_LOCK", "W_LOCK"}
    <3>1. /\ UNCHANGED <<pc, thrown>>
          /\ blockmap' = [blockmap EXCEPT ![p][b] = [e EXCEPT !.data = v]]
      BY <1>7, <2>4 DEF Lib!Write, Lib!StayInBody, Lib!SetEntry
    <3>2. e # Lib!NoEntry
      BY <2>4, NoEntryFacts DEF Lib!Owned
    <3> QED
      BY <1>1, <2>1, <2>2, <2>4, <3>1, <3>2, EntryChanged
  <2>5. CASE ~Lib!Owned(e)
    <3>1. /\ Lib!RequestOrAbort(p, b, "write")
          /\ blockmap' = IF e = Lib!NoEntry THEN blockmap ELSE Lib!DropReadBuffer(p, b)
      BY <1>7, <2>5 DEF Lib!Write, Lib!Owned
    <3>2. \E x \in {"write", "destroy"} :
            /\ pc' = [pc EXCEPT ![p] = x]
            /\ UNCHANGED thrown \/ thrown' = [thrown EXCEPT ![p] = "TE_ABORT"]
            /\ x # "destroy" => UNCHANGED thrown
      BY <3>1 DEF Lib!RequestOrAbort, Lib!Abort, Lib!Throw, Lib!Goto
    <3>3. CASE e = Lib!NoEntry
      BY <1>1, <1>2, <2>1, <2>2, <3>1, <3>2, <3>3, EntriesKept
    <3>4. CASE e # Lib!NoEntry
      BY <1>1, <2>1, <2>2, <2>5, <3>1, <3>2, <3>4, EntryChanged DEF Lib!DropReadBuffer
    <3> QED
      BY <3>3, <3>4
  <2> QED
    BY <2>3, <2>4, <2>5 DEF Lib!Owned
<1> QED
  BY <1>3, <1>4, <1>5, <1>6, <1>7

LEMMA AloneShape == ASSUME AInv, NEW p \in Procs, Alone(p) PROVE Shape(p)
<1>1. UNCHANGED <<vars, conn>>
  BY DEF Alone
<1>2. CASE Lib!Probe(p)
  <2>1. /\ \E x \in {"probe", "restart", "allocate"} : pc' = [pc EXCEPT ![p] = x]
        /\ pc[p] = "probe" /\ FilesRest /\ UNCHANGED <<blockmap, blk, newval, thrown>>
    BY <1>2 DEF Lib!Probe, Lib!Goto, Lib!files, Lib!object, FilesRest, AInv, SInv, SysTypes
  <2> QED
    BY <1>1, <2>1, GoesOn DEF Running, AtRisk
<1>3. CASE Lib!CommitWrite(p)
  <2>1. /\ pc[p] = "writing" /\ UNCHANGED <<pc, blk, newval, blockmap, thrown>>
        /\ \E w \in todo[p] : /\ index' = Lib!PutIndex(index, w)
                              /\ store' = Lib!PutStore(store, w)
                              /\ todo' = [todo EXCEPT ![p] = @ \ {w}]
    BY <1>3 DEF Lib!CommitWrite, Lib!object
  <2>2. PICK w \in todo[p] : Writes(p, w)
    BY <1>1, <2>1 DEF Writes
  <2>3. OthersRest(p) /\ DOMAIN todo' = Procs
    BY <2>2 DEF Writes, OthersRest, AInv, FilesTyped
  <2> QED
    BY <2>2, <2>3 DEF Shape
<1> QED
  BY <1>1, <1>2, <1>3, OperationShape, FetchShape DEF Alone

LEMMA ProcessShape ==
  ASSUME AInv, NEW p \in Procs, Process(p), [SysNext]_sysVars
  PROVE  Shape(p)
  BY ConnectShape, AskForLockShape, AskOtherShape, AskInVainShape, AloneShape, DestroyShape
     DEF Process

-----------------------------------------------------------------------------
(* The invariant.                                                          *)

LEMMA EmptyMapFacts ==
  /\ DOMAIN Lib!EmptyMap = Blocks
  /\ \A b \in Blocks : Lib!EmptyMap[b] = Lib!NoEntry
  BY BlocksAssumption DEF Lib!EmptyMap, Lib!BlockNumbers

LEMMA NoEntryTrue == TrueEntry(Lib!NoEntry) /\ ~Lib!Dangling(Lib!NoEntry)
  BY DEF Lib!NoEntry, TrueEntry, Lib!Dangling

\* What is written is what an entry said.
LEMMA Written ==
  ASSUME AInv, NEW p \in Procs, NEW w \in todo[p]
  PROVE  /\ w.block \in Blocks /\ Lib!Owned(blockmap[p][w.block])
         /\ w.file \in {"index", "store"}
         /\ w.file = "store" => w.val # Lib!NULL
<1>1. /\ \A b \in Blocks : IsEntry(blockmap[p][b]) /\ TrueEntry(blockmap[p][b])
      /\ w \in Lib!FileWrites(blockmap[p])
  BY DEF AInv, SInv, SysTypes, Own, EntryTrue
<1>2. w.file = "store" =>
        /\ blockmap[p][w.block].lock \in {"A_LOCK", "W_LOCK"}
        /\ w.val = blockmap[p][w.block].data
  BY <1>1, WriteFacts
<1>3. w.block \in Blocks /\ Lib!Owned(blockmap[p][w.block]) /\ w.file \in {"index", "store"}
  BY <1>1, WriteFacts
<1> QED
  BY <1>1, <1>2, <1>3 DEF TrueEntry

\* What a write() call does to the files.
LEMMA WriteDone ==
  ASSUME AInv, NEW p \in Procs, NEW w \in todo[p], Writes(p, w)
  PROVE  /\ DOMAIN index' = Blocks /\ DOMAIN store' = Blocks
         /\ \A b \in Blocks \ {w.block} : index'[b] = index[b] /\ store'[b] = store[b]
         /\ w.file = "index" => index'[w.block] = w.val /\ store' = store
         /\ w.file = "store" => store'[w.block] = w.val /\ index' = index
  BY Written DEF Writes, Lib!PutIndex, Lib!PutStore, AInv, FilesTyped

LEMMA FilesKept ==
  ASSUME AInv, NEW p \in Procs, Shape(p)
  PROVE  FilesTyped'
<1>1. DOMAIN todo' = Procs /\ FilesTyped
  BY DEF Shape, AInv
<1>2. CASE Proceeds(p) \/ (\E b \in Blocks : \E f : Changes(p, b, f)) \/ Clears(p) \/ Commits(p)
  BY <1>1, <1>2 DEF FilesTyped, Proceeds, Changes, Clears, Commits, FilesRest
<1>3. ASSUME NEW w \in todo[p], Writes(p, w) PROVE FilesTyped'
  <2>1. \A b \in Blocks : store'[b] # Lib!NULL
    BY <1>1, <1>3, Written, WriteDone DEF FilesTyped
  <2> QED
    BY <1>1, <1>3, <2>1, WriteDone DEF FilesTyped, Writes
<1> QED
  BY <1>2, <1>3 DEF Shape

LEMMA OwnKept ==
  ASSUME AInv, NEW p \in Procs, Shape(p), NEW q \in Procs
  PROVE  Own(q)'
<1>0. Own(p) /\ Own(q) /\ OthersRest(p) /\ DOMAIN blockmap = Procs /\ DOMAIN todo = Procs
      /\ DOMAIN blockmap[p] = Blocks
  BY DEF AInv, Shape, SInv, SysTypes, FilesTyped
<1>1. CASE q # p
  BY <1>0, <1>1 DEF OthersRest, Own, EntryTrue
<1>2. CASE q = p /\ Proceeds(p)
  <2>1. /\ newval'[p] # Lib!NULL /\ pc'[p] # "commit" /\ (pc'[p] # "writing" => todo'[p] = {})
        /\ todo'[p] \subseteq Lib!FileWrites(blockmap'[p])
        /\ thrown'[p] # "none" => pc'[p] \in {"destroy", "connect", "exited"}
    BY <1>0, <1>2 DEF Proceeds, FilesRest, Running, Own
  <2>2. ASSUME NEW b \in Blocks PROVE EntryTrue(p, b)'
    BY <1>0, <1>2 DEF Proceeds, Own, EntryTrue
  <2> QED
    BY <1>2, <2>1, <2>2 DEF Own
<1>3. ASSUME q = p, NEW b \in Blocks, NEW f, Changes(p, b, f) PROVE Own(q)'
  <2>1. /\ newval'[p] # Lib!NULL /\ pc'[p] # "commit" /\ pc[p] # "writing"
        /\ thrown'[p] # "none" => pc'[p] \in {"destroy", "connect", "exited"}
        /\ todo'[p] = todo[p]
    BY <1>3 DEF Changes, FilesRest
  <2>2. todo'[p] = {}
    BY <1>0, <2>1 DEF Own
  <2>3. /\ blockmap'[p][b] = f
        /\ \A d \in Blocks \ {b} : blockmap'[p][d] = blockmap[p][d]
    BY <1>0, <1>3 DEF Changes
  <2>4. EntryTrue(p, b)'
    BY <1>3, <2>3 DEF Changes, EntryTrue
  <2>5. ASSUME NEW d \in Blocks \ {b} PROVE EntryTrue(p, d)'
    <3>1. ~Lib!Dangling(blockmap[p][d])
      BY <1>0, <1>3 DEF Own, EntryTrue, Changes, AtRisk
    <3> QED
      BY <1>0, <2>3, <3>1 DEF Own, EntryTrue
  <2> QED
    BY <1>3, <2>1, <2>2, <2>4, <2>5 DEF Own
<1>4. CASE q = p /\ Clears(p)
  <2>1. pc[p] # "writing" /\ pc'[p] # "commit" /\ newval'[p] = newval[p]
    BY <1>4 DEF Clears
  <2>2. todo'[p] = {} /\ newval'[p] # Lib!NULL
    BY <1>0, <1>4, <2>1 DEF Own, Clears, FilesRest
  <2>3. \A b \in Blocks : blockmap'[p][b] = Lib!NoEntry
    BY <1>0, <1>4, EmptyMapFacts DEF Clears
  <2>4. \A b \in Blocks : EntryTrue(p, b)'
    BY <2>3, NoEntryTrue DEF EntryTrue
  <2>5. thrown'[p] # "none" => pc'[p] \in {"destroy", "connect", "exited"}
    BY <1>4 DEF Clears
  <2> QED
    BY <1>4, <2>1, <2>2, <2>4, <2>5 DEF Own
<1>5. CASE q = p /\ Commits(p)
  <2>1. todo'[p] = Lib!FileWrites(blockmap[p])
    BY <1>0, <1>5 DEF Commits
  <2>2. \A b \in Blocks : EntryTrue(p, b)'
    BY <1>0, <1>5 DEF Commits, Own, EntryTrue, AtRisk
  <2> QED
    BY <1>0, <1>5, <2>1, <2>2 DEF Commits, Own
<1>6. ASSUME q = p, NEW w \in todo[p], Writes(p, w) PROVE Own(q)'
  <2>1. todo'[p] = todo[p] \ {w}
    BY <1>0, <1>6 DEF Writes
  <2>2. \A b \in Blocks : EntryTrue(p, b)'
    BY <1>0, <1>6 DEF Writes, Own, EntryTrue
  <2> QED
    BY <1>0, <1>6, <2>1, <2>2 DEF Writes, Own
<1> QED
  BY <1>1, <1>2, <1>3, <1>4, <1>5, <1>6 DEF Shape

\* A process to which nothing happened sees what it saw: whoever writes has the block
\* for writing.
LEMMA BystanderSees ==
  ASSUME AInv, blemishes = {}, [SysNext]_sysVars, NEW q \in Procs,
         conn'[q] = conn[q], pc'[q] = pc[q], blk'[q] = blk[q], blockmap'[q] = blockmap[q],
         \/ UNCHANGED <<index, store>>
         \/ \E p \in Procs \ {q} : \E w \in todo[p] : Writes(p, w)
  PROVE  GrantFresh(q)' /\ SeenStands(q)'
<1> SUFFICES ASSUME Holds(q)' PROVE GrantFresh(q)' /\ SeenStands(q)'
  BY DEF GrantFresh, SeenStands
<1>1. Holds(q) /\ GrantFresh(q) /\ SeenStands(q) /\ CommittersSafe /\ SInv
      /\ \A p \in Procs : Own(p)
  BY StaysPreempted DEF AInv, Unblemished
<1>2. /\ \A b \in Blocks : blockmap[q][b] # Lib!NoEntry => held[conn[q]][b] # "none"
      /\ pc[q] \in Granted => blk[q] \in Blocks /\ held[conn[q]][blk[q]] # "none"
  BY <1>1 DEF SInv, Holds, Agree, LocksAgree, Requests
<1>3. ASSUME NEW b \in Blocks, held[conn[q]][b] # "none"
      PROVE  index'[b] = index[b] /\ store'[b] = store[b]
  BY <1>1, <1>3, OthersKeepOff, WriteDone
<1>4. GrantFresh(q)'
  BY <1>1, <1>2, <1>3 DEF GrantFresh
<1>5. ASSUME Stage(q) = "running", NEW b \in Blocks, blockmap[q][b] # Lib!NoEntry
      PROVE  StillThere(b, blockmap[q][b])'
  <2>1. StillThere(b, blockmap[q][b])
    BY <1>1, <1>5 DEF SeenStands
  <2> QED
    BY <1>2, <1>3, <1>5, <2>1 DEF StillThere
<1>6. Stage(q)' = Stage(q)
  BY DEF Stage
<1> QED
  BY <1>4, <1>5, <1>6 DEF SeenStands

LEMMA MoverSees ==
  ASSUME AInv, blemishes = {}, blemishes' = {}, [SysNext]_sysVars, NEW p \in Procs, Shape(p)
  PROVE  GrantFresh(p)' /\ SeenStands(p)'
<1>0. /\ SInv /\ DOMAIN blockmap = Procs /\ DOMAIN blockmap[p] = Blocks
      /\ GrantFresh(p) /\ SeenStands(p)
  BY DEF AInv, SInv, SysTypes, Unblemished
<1>1. CASE Proceeds(p)
  <2>1. GrantFresh(p)'
    BY <1>1 DEF Proceeds, GrantFresh, FilesRest
  <2>2. SUFFICES ASSUME Holds(p)', Stage(p)' = "running" PROVE SeenStands(p)'
    BY <2>1 DEF SeenStands
  <2>3. pc[p] \in Running /\ conn'[p] = conn[p]
    BY <1>1, <2>2 DEF Proceeds, Stage
  <2>4. Stage(p) = "running" /\ Holds(p)
    BY <1>0, <2>2, <2>3, StaysPreempted DEF Stage, Running
  <2>5. UNCHANGED <<blockmap, index, store>>
    BY <1>1 DEF Proceeds, FilesRest
  <2> QED
    BY <1>0, <2>4, <2>5 DEF SeenStands, StillThere
<1>2. ASSUME NEW b \in Blocks, NEW f, Changes(p, b, f) PROVE GrantFresh(p)' /\ SeenStands(p)'
  <2>1. GrantFresh(p)'
    BY <1>2 DEF Changes, GrantFresh
  <2>2. SUFFICES ASSUME Holds(p)' PROVE SeenStands(p)'
    BY <2>1 DEF SeenStands
  <2>3. Holds(p) /\ Stage(p) = "running"
    BY <1>0, <1>2, <2>2, StaysPreempted DEF Changes, Stage
  <2>4. StillThere(b, f) /\ UNCHANGED <<index, store>>
    BY <1>0, <1>2, <2>3 DEF Changes, FilesRest
  <2>5. /\ blockmap'[p][b] = f
        /\ \A d \in Blocks \ {b} : blockmap'[p][d] = blockmap[p][d]
    BY <1>0, <1>2 DEF Changes
  <2>6. ASSUME NEW d \in Blocks, blockmap'[p][d] # Lib!NoEntry
        PROVE  StillThere(d, blockmap[p][d])' \/ d = b
    <3>1. CASE d # b
      BY <1>0, <2>3, <2>4, <2>5, <2>6, <3>1 DEF SeenStands, StillThere
    <3> QED
      BY <3>1
  <2>7. StillThere(b, blockmap[p][b])'
    BY <2>4, <2>5 DEF StillThere
  <2> QED
    BY <2>6, <2>7 DEF SeenStands
<1>3. CASE Clears(p)
  <2>1. pc'[p] \notin Granted
    BY <1>3 DEF Clears
  <2>2. \A b \in Blocks : blockmap'[p][b] = Lib!NoEntry
    BY <1>0, <1>3, EmptyMapFacts DEF Clears
  <2> QED
    BY <2>1, <2>2 DEF GrantFresh, SeenStands
<1>4. CASE Commits(p) \/ \E w \in todo[p] : Writes(p, w)
  <2>1. pc'[p] = "writing"
    BY <1>4 DEF Commits, Writes
  <2> QED
    BY <2>1 DEF GrantFresh, SeenStands, Stage
<1> QED
  BY <1>1, <1>2, <1>3, <1>4 DEF Shape

LEMMA UnblemishedKept ==
  ASSUME AInv, [SysNext]_sysVars, blemishes' = {}
  PROVE  Unblemished'
<1>1. blemishes = {} /\ CommittersSafe'
  BY BlemishesStay, CommittersStaySafe DEF AInv, Unblemished
<1>2. ASSUME UNCHANGED <<libVars, conn>>, NEW q \in Procs PROVE GrantFresh(q)' /\ SeenStands(q)'
  BY <1>1, <1>2, BystanderSees DEF libVars
<1>3. ASSUME NEW p \in Procs, Process(p), NEW q \in Procs PROVE GrantFresh(q)' /\ SeenStands(q)'
  <2>1. Shape(p)
    BY <1>3, ProcessShape
  <2>2. CASE q = p
    BY <1>1, <2>1, <2>2, MoverSees
  <2>3. CASE q # p
    <3>1. conn'[q] = conn[q] /\ pc'[q] = pc[q] /\ blk'[q] = blk[q] /\ blockmap'[q] = blockmap[q]
      BY <2>1, <2>3 DEF Shape, OthersRest
    <3>2. UNCHANGED <<index, store>> \/ \E w \in todo[p] : Writes(p, w)
      BY <2>1 DEF Shape, Proceeds, Changes, Clears, Commits, FilesRest
    <3> QED
      BY <1>1, <2>3, <3>1, <3>2, BystanderSees
  <2> QED
    BY <2>2, <2>3
<1>4. ASSUME NEW q \in Procs PROVE GrantFresh(q)' /\ SeenStands(q)'
  BY <1>2, <1>3 DEF SysNext, SysDisconnect, Clock, sysVars
<1> QED
  BY <1>1, <1>4 DEF Unblemished

LEMMA AInitInv == SysInit => AInv
<1> SUFFICES ASSUME SysInit PROVE AInv
  OBVIOUS
<1>1. SInv
  BY SysInitInv
<1>2. FilesTyped
  BY LibraryAssumption, BlocksAssumption DEF SysInit, Lib!Init, Lib!BlockNumbers, FilesTyped
<1>3. ASSUME NEW p \in Procs PROVE Own(p)
  <2>1. /\ newval[p] = Zeros /\ pc[p] = "idle" /\ todo[p] = {} /\ thrown[p] = "none"
        /\ blockmap[p] = Lib!EmptyMap
    BY DEF SysInit, Lib!Init
  <2>2. \A b \in Blocks : EntryTrue(p, b)
    BY <2>1, EmptyMapFacts, NoEntryTrue DEF EntryTrue
  <2> QED
    BY <2>1, <2>2, LibraryAssumption DEF Own
<1>4. Unblemished
  BY DEF SysInit, Init, Unblemished, CommittersSafe, GrantFresh, SeenStands, Holds
<1> QED
  BY <1>1, <1>2, <1>3, <1>4 DEF AInv

LEMMA ANextInv == AInv /\ [SysNext]_sysVars => AInv'
<1> SUFFICES ASSUME AInv, [SysNext]_sysVars PROVE AInv'
  OBVIOUS
<1>1. SInv'
  BY SysNextInv DEF AInv
<1>2. blemishes' = {} => Unblemished'
  BY UnblemishedKept
<1>3. CASE UNCHANGED <<libVars, conn>>
  <2>1. FilesTyped' /\ \A p \in Procs : Own(p)'
    BY <1>3 DEF libVars, AInv, FilesTyped, Own, EntryTrue
  <2> QED
    BY <1>1, <1>2, <2>1 DEF AInv
<1>4. ASSUME NEW p \in Procs, Process(p) PROVE AInv'
  <2>1. Shape(p)
    BY <1>4, ProcessShape
  <2>2. FilesTyped' /\ \A q \in Procs : Own(q)'
    BY <2>1, FilesKept, OwnKept
  <2> QED
    BY <1>1, <1>2, <2>2 DEF AInv
<1> QED
  BY <1>3, <1>4 DEF SysNext, SysDisconnect, Clock, sysVars

\* What the library keeps of the files agrees with them, in every state of every
\* behaviour: what a transaction that holds its locks has seen still stands, up to the
\* first blemish.
THEOREM AtomicInvariance == SysSpec => []AInv
  BY AInitInv, ANextInv, PTL DEF SysSpec

-----------------------------------------------------------------------------
(* The settled view of the files.                                          *)

LEMMA PendingIs ==
  ASSUME NEW file, NEW b, NEW w
  PROVE  /\ w \in Pending(file, b)
              <=> (\E p \in Procs : w \in todo[p]) /\ w.file = file /\ w.block = b
         /\ w \in Pending(file, b)'
              <=> (\E p \in Procs : w \in todo'[p]) /\ w.file = file /\ w.block = b
  BY DEF Pending

LEMMA SameChoice == \A S, T : S = T => (CHOOSE w \in S : TRUE) = (CHOOSE w \in T : TRUE)
  OBVIOUS

LEMMA SameIndex ==
  ASSUME NEW b, index'[b] = index[b], Pending("index", b)' = Pending("index", b)
  PROVE  Settled("index", b, index[b])' = Settled("index", b, index[b])
<1> DEFINE S == Pending("index", b)
           T == Pending("index", b)'
<1>1. Settled("index", b, index[b]) = IF S = {} THEN index[b] ELSE (CHOOSE w \in S : TRUE).val
  BY DEF Settled
<1>2. Settled("index", b, index[b])' = IF T = {} THEN index'[b] ELSE (CHOOSE w \in T : TRUE).val
  BY DEF Settled
<1> HIDE DEF S, T
<1>3. S = T
  BY DEF S, T
<1> QED
  BY <1>1, <1>2, <1>3, SameChoice

LEMMA SameStore ==
  ASSUME NEW b, store'[b] = store[b], Pending("store", b)' = Pending("store", b)
  PROVE  Settled("store", b, store[b])' = Settled("store", b, store[b])
<1> DEFINE S == Pending("store", b)
           T == Pending("store", b)'
<1>1. Settled("store", b, store[b]) = IF S = {} THEN store[b] ELSE (CHOOSE w \in S : TRUE).val
  BY DEF Settled
<1>2. Settled("store", b, store[b])' = IF T = {} THEN store'[b] ELSE (CHOOSE w \in T : TRUE).val
  BY DEF Settled
<1> HIDE DEF S, T
<1>3. S = T
  BY DEF S, T
<1> QED
  BY <1>1, <1>2, <1>3, SameChoice

\* Where nothing is written and nothing else is left to write, nothing changes.
LEMMA Untouched ==
  ASSUME NEW b \in Blocks, index'[b] = index[b], store'[b] = store[b],
         \A file \in {"index", "store"} : Pending(file, b)' = Pending(file, b)
  PROVE  SettledView'[b] = SettledView[b]
<1>1. Settled("index", b, index[b])' = Settled("index", b, index[b])
  BY SameIndex
<1>2. Settled("store", b, store[b])' = Settled("store", b, store[b])
  BY SameStore
<1> QED
  BY <1>1, <1>2 DEF SettledView

LEMMA SameView == ASSUME FilesRest PROVE SettledView' = SettledView
<1>1. ASSUME NEW b, NEW file PROVE Pending(file, b)' = Pending(file, b)
  <2>1. \A w : w \in Pending(file, b)' <=> w \in Pending(file, b)
    BY PendingIs DEF FilesRest
  <2> QED
    BY <2>1 DEF Pending
<1>2. ASSUME NEW b \in Blocks PROVE SettledView'[b] = SettledView[b]
  BY <1>1, <1>2, Untouched DEF FilesRest
<1> QED
  BY <1>2 DEF SettledView

\* With nothing left to write to a block the files say it all.
LEMMA ViewOfSettled ==
  ASSUME NEW b \in Blocks, \A file \in {"index", "store"} : Pending(file, b) = {}
  PROVE  SettledView[b] = IF index[b] = "A" THEN <<"A", store[b]>> ELSE <<"U">>
  BY DEF SettledView, Settled

\* Only the one that has a block locked may have something left to write to it.
LEMMA OwnPending ==
  ASSUME AInv, blemishes = {}, NEW p \in Procs, Holds(p), NEW b \in Blocks,
         held[conn[p]][b] # "none", NEW file, NEW w \in Pending(file, b)
  PROVE  w \in todo[p]
<1>1. PICK q \in Procs : w \in todo[q] /\ w.block = b
  BY PendingIs
<1>2. SInv /\ CommittersSafe /\ \A r \in Procs : Own(r)
  BY DEF AInv, Unblemished
<1> QED
  BY <1>1, <1>2, OthersKeepOff

\* A write() call of commit() does not show: it was counted as done.
LEMMA WriteSettles ==
  ASSUME AInv, blemishes = {}, NEW p \in Procs, NEW w \in todo[p], Writes(p, w)
  PROVE  SettledView' = SettledView
<1> DEFINE c == w.block
<1>1. /\ SInv /\ CommittersSafe /\ (\A r \in Procs : Own(r)) /\ DOMAIN todo = Procs
      /\ \A b \in Blocks : IsEntry(blockmap[p][b])
  BY DEF AInv, Unblemished, FilesTyped, SInv, SysTypes
<1>2. Holds(p) /\ c \in Blocks /\ held[conn[p]][c] # "none"
  BY <1>1, WriterOwns DEF Holds
<1>3. /\ todo'[p] = todo[p] \ {w}
      /\ \A q \in Procs \ {p} : todo'[q] = todo[q]
  BY <1>1 DEF Writes
<1>4. ASSUME NEW b \in Blocks, NEW file, b # c \/ file # w.file
      PROVE  Pending(file, b)' = Pending(file, b)
  <2>1. \A x : x \in Pending(file, b)' <=> x \in Pending(file, b)
    BY <1>3, <1>4, PendingIs
  <2> QED
    BY <2>1 DEF Pending
<1>5. ASSUME NEW b \in Blocks, b # c PROVE SettledView'[b] = SettledView[b]
  BY <1>4, <1>5, Untouched, WriteDone
<1>6. ASSUME NEW x \in Pending(w.file, c) PROVE x = w
  <2>1. x \in todo[p] /\ x.file = w.file /\ x.block = c
    BY <1>2, OwnPending, PendingIs
  <2>2. todo[p] \subseteq Lib!FileWrites(blockmap[p])
    BY <1>1 DEF Own
  <2> QED
    BY <1>1, <2>1, <2>2, WriteFacts
<1>7. w \in Pending(w.file, c)
  BY PendingIs
<1>8. Pending(w.file, c) = {w}
  BY <1>6, <1>7
<1>9. Pending(w.file, c)' = {}
  <2>1. ASSUME NEW x PROVE x \notin Pending(w.file, c)'
    <3>1. x \in Pending(w.file, c)' => x \in Pending(w.file, c) /\ \E q \in Procs : x \in todo'[q]
      BY <1>3, PendingIs
    <3>2. \A q \in Procs \ {p} : w \notin todo[q]
      BY <1>1, <1>2, OthersKeepOff
    <3>3. \A q \in Procs : w \notin todo'[q]
      BY <1>3, <3>2
    <3> QED
      BY <1>6, <3>1, <3>3
  <2> QED
    BY <2>1
<1>10. SettledView'[c] = SettledView[c]
  <2>1. (CHOOSE x \in Pending(w.file, c) : TRUE) = w
    BY <1>8
  <2>2. CASE w.file = "index"
    <3>1. Settled("index", c, index[c]) = w.val /\ Settled("index", c, index[c])' = w.val
      BY <1>8, <1>9, <2>1, <2>2, WriteDone DEF Settled
    <3>2. Pending("store", c)' = Pending("store", c) /\ store' = store
      BY <1>2, <1>4, <2>2, WriteDone
    <3>3. Settled("store", c, store[c])' = Settled("store", c, store[c])
      BY <3>2, SameStore
    <3> QED
      BY <1>2, <3>1, <3>3 DEF SettledView
  <2>3. CASE w.file = "store"
    <3>1. Settled("store", c, store[c]) = w.val /\ Settled("store", c, store[c])' = w.val
      BY <1>8, <1>9, <2>1, <2>3, WriteDone DEF Settled
    <3>2. Pending("index", c)' = Pending("index", c) /\ index' = index
      BY <1>2, <1>4, <2>3, WriteDone
    <3>3. Settled("index", c, index[c])' = Settled("index", c, index[c])
      BY <3>2, SameIndex
    <3> QED
      BY <1>2, <3>1, <3>3 DEF SettledView
  <2> QED
    BY <2>2, <2>3, Written
<1> QED
  BY <1>2, <1>5, <1>10 DEF SettledView

LEMMA Tuples == /\ \A x : <<"A", x>> # << >>
                /\ \A x : <<"A", x>> # <<"U">>
                /\ <<"U">> # << >>
  OBVIOUS

\* To whom commit() will write by an entry, and what there is to write.
LEMMA PendingAfterCommit ==
  ASSUME AInv, blemishes = {}, NEW p \in Procs, Commits(p), OthersRest(p), NEW b \in Blocks,
         NEW file \in {"index", "store"}
  PROVE  /\ ~Lib!Owned(blockmap[p][b]) => Pending(file, b)' = Pending(file, b)
         /\ Lib!Owned(blockmap[p][b]) =>
              /\ Pending(file, b) = {}
              /\ Pending(file, b)' = {w \in EntryWrites(b, blockmap[p][b]) : w.file = file}
<1> DEFINE e == blockmap[p][b]
<1>1. /\ \A d \in Blocks : IsEntry(blockmap[p][d])
      /\ todo[p] = {} /\ Agree(p) /\ conn[p] # NoConnection
      /\ todo'[p] = Lib!FileWrites(blockmap[p])
      /\ \A q \in Procs \ {p} : todo'[q] = todo[q]
  BY DEF AInv, SInv, SysTypes, Own, FilesTyped, Commits, OthersRest, Holds
<1>2. ASSUME NEW w, w \in todo'[p], w.block = b
      PROVE  Lib!Owned(e) /\ w \in EntryWrites(b, e)
  <2>1. Lib!Owned(e)
    BY <1>1, <1>2, WriteFacts
  <2>2. PICK d \in Blocks : w \in EntryWrites(d, blockmap[p][d])
    BY <1>1, <1>2, WhatIsWritten
  <2>3. w.block = d
    BY <2>2 DEF EntryWrites, Lib!ToIndex, Lib!ToStore
  <2> QED
    BY <1>2, <2>1, <2>2, <2>3
<1>3. ASSUME ~Lib!Owned(e) PROVE Pending(file, b)' = Pending(file, b)
  <2>1. \A w : w \in Pending(file, b)' <=> w \in Pending(file, b)
    BY <1>1, <1>2, <1>3, PendingIs
  <2> QED
    BY <2>1 DEF Pending
<1>4. ASSUME Lib!Owned(e)
      PROVE  /\ Pending(file, b) = {}
             /\ Pending(file, b)' = {w \in EntryWrites(b, e) : w.file = file}
  <2>1. Holds(p) /\ held[conn[p]][b] # "none"
    BY <1>1, <1>4 DEF Commits, Agree, LocksAgree
  <2>2. Pending(file, b) = {}
    BY <1>1, <2>1, OwnPending
  <2>3. ASSUME NEW w
        PROVE  w \in Pending(file, b)' <=> w \in EntryWrites(b, e) /\ w.file = file
    <3>1. ASSUME w \in Pending(file, b)' PROVE w \in EntryWrites(b, e) /\ w.file = file
      <4>1. PICK q \in Procs : w \in todo'[q]
        BY <3>1, PendingIs
      <4>2. w.file = file /\ w.block = b
        BY <3>1, PendingIs
      <4>3. CASE q = p
        BY <1>2, <4>1, <4>2, <4>3
      <4>4. CASE q # p
        BY <1>1, <2>2, <4>1, <4>2, <4>4, PendingIs
      <4> QED
        BY <4>3, <4>4
    <3>2. ASSUME w \in EntryWrites(b, e), w.file = file PROVE w \in Pending(file, b)'
      <4>1. w \in todo'[p]
        BY <1>1, <3>2, WhatIsWritten
      <4>2. w.block = b
        BY <3>2 DEF EntryWrites, Lib!ToIndex, Lib!ToStore
      <4> QED
        BY <3>2, <4>1, <4>2, PendingIs
    <3> QED
      BY <3>1, <3>2
  <2>4. Pending(file, b)' = {w \in EntryWrites(b, e) : w.file = file}
    BY <2>3
  <2> QED
    BY <2>2, <2>4
<1> QED
  BY <1>3, <1>4

\* The moment at which a transaction takes effect, on the blocks that it saw.
LEMMA CommitTakesEffect ==
  ASSUME AInv, blemishes = {}, NEW p \in Procs, Commits(p), OthersRest(p), NEW b \in Blocks
  PROVE  LET e == blockmap[p][b] IN
         /\ Seen(e) \in {<< >>, SettledView[b]}
         /\ SettledView'[b] = IF Wrote(e) = << >> THEN SettledView[b] ELSE Wrote(e)
<1> DEFINE e == blockmap[p][b]
<1>1. /\ IsEntry(e) /\ TrueEntry(e) /\ todo[p] = {} /\ Agree(p) /\ conn[p] # NoConnection
      /\ SeenStands(p) /\ Holds(p) /\ UNCHANGED <<index, store>>
  BY DEF AInv, SInv, SysTypes, Own, EntryTrue, Commits, Holds, Unblemished
<1> HIDE DEF e
<1>2. ASSUME ~Lib!Owned(e) PROVE SettledView'[b] = SettledView[b]
  BY <1>1, <1>2, PendingAfterCommit, Untouched DEF e
<1>3. ASSUME e # Lib!NoEntry PROVE Seen(e) = SettledView[b]
  <2>1. held[conn[p]][b] # "none" /\ StillThere(b, e)
    BY <1>1, <1>3 DEF Agree, LocksAgree, SeenStands, Commits, Stage, e
  <2>2. \A file : Pending(file, b) = {}
    BY <1>1, <2>1, OwnPending
  <2>3. SettledView[b] = IF index[b] = "A" THEN <<"A", store[b]>> ELSE <<"U">>
    BY <2>2, ViewOfSettled
  <2>4. e.oldindex \in {"A", "U"}
    BY <1>1, <1>3 DEF TrueEntry
  <2> QED
    BY <1>3, <2>1, <2>3, <2>4 DEF Seen, StillThere
<1>4. CASE e = Lib!NoEntry
  BY <1>2, <1>4, NoEntryFacts DEF Seen, Wrote, e
<1>5. CASE e.lock = "R_LOCK"
  BY <1>2, <1>3, <1>5 DEF Lib!Owned, Lib!NoEntry, Seen, Wrote, e
<1>6. CASE Lib!Owned(e)
  <2>1. e # Lib!NoEntry /\ StillThere(b, e)
    BY <1>1, <1>6, NoEntryFacts DEF SeenStands, Commits, Stage, e
  <2>2. /\ Pending("index", b)' = {w \in EntryWrites(b, e) : w.file = "index"}
        /\ Pending("store", b)' = {w \in EntryWrites(b, e) : w.file = "store"}
    BY <1>6, PendingAfterCommit DEF e
  <2> DEFINE I == Pending("index", b)'
             S == Pending("store", b)'
  <2>3. /\ Settled("index", b, index[b])'
             = IF I = {} THEN index'[b] ELSE (CHOOSE w \in I : TRUE).val
        /\ Settled("store", b, store[b])'
             = IF S = {} THEN store'[b] ELSE (CHOOSE w \in S : TRUE).val
    BY DEF Settled
  <2>4. /\ I = {w \in EntryWrites(b, e) : w.file = "index"}
        /\ S = {w \in EntryWrites(b, e) : w.file = "store"}
    BY <2>2
  <2>5. SettledView'[b] = IF Settled("index", b, index[b])' = "A"
                          THEN <<"A", Settled("store", b, store[b])'>> ELSE <<"U">>
    BY DEF SettledView
  <2> HIDE DEF I, S
  <2>6. /\ \A i : /\ Lib!ToIndex(b, i).file = "index" /\ Lib!ToIndex(b, i).val = i
        /\ \A v : /\ Lib!ToStore(b, v).file = "store" /\ Lib!ToStore(b, v).val = v
    BY DEF Lib!ToIndex, Lib!ToStore
  <2>7. CASE e.lock = "A_LOCK"
    <3>1. I = {Lib!ToIndex(b, "A")} /\ S = {Lib!ToStore(b, e.data)}
      BY <2>4, <2>6, <2>7 DEF EntryWrites
    <3>2. SettledView'[b] = <<"A", e.data>>
      BY <2>3, <2>5, <2>6, <3>1
    <3> QED
      BY <1>3, <2>1, <2>7, <3>2, Tuples DEF Wrote, e
  <2>8. CASE e.lock = "W_LOCK"
    <3>1. I = {} /\ S = {Lib!ToStore(b, e.data)}
      BY <2>4, <2>6, <2>8 DEF EntryWrites
    <3>2. index'[b] = "A"
      BY <1>1, <2>1, <2>8 DEF TrueEntry, StillThere
    <3>3. SettledView'[b] = <<"A", e.data>>
      BY <2>3, <2>5, <2>6, <3>1, <3>2
    <3> QED
      BY <1>3, <2>1, <2>8, <3>3, Tuples DEF Wrote, e
  <2>9. CASE e.lock = "S_LOCK"
    <3>1. I = {Lib!ToIndex(b, "U")}
      BY <2>4, <2>6, <2>9 DEF EntryWrites
    <3>2. SettledView'[b] = <<"U">>
      BY <2>3, <2>5, <2>6, <3>1
    <3> QED
      BY <1>3, <2>1, <2>9, <3>2, Tuples DEF Wrote, e
  <2> QED
    BY <1>6, <2>7, <2>8, <2>9 DEF Lib!Owned
<1>7. e = Lib!NoEntry \/ e.lock = "R_LOCK" \/ Lib!Owned(e)
  BY <1>1 DEF IsEntry, Lib!Entry, Lib!LockTypes, Lib!Owned
<1> QED
  BY <1>4, <1>5, <1>6, <1>7 DEF e

-----------------------------------------------------------------------------
(* The refinement.                                                         *)

\* The abstract step is p's if the concrete one is.
LEMMA AbstractOthers == ASSUME NEW p \in Procs, OthersRest(p) PROVE Atomic!OthersKeep(p)
<1>1. ASSUME NEW q \in Procs \ {p}
      PROVE  /\ [b \in Blocks |-> Seen(blockmap[q][b])]' = [b \in Blocks |-> Seen(blockmap[q][b])]
             /\ [b \in Blocks |-> Wrote(blockmap[q][b])]' = [b \in Blocks |-> Wrote(blockmap[q][b])]
             /\ Stage(q)' = Stage(q)
  BY DEF OthersRest, Stage
<1> QED
  BY <1>1 DEF Atomic!OthersKeep

\* Nobody can tell the difference.
LEMMA AbstractStutter ==
  ASSUME SettledView' = SettledView, UNCHANGED blockmap, \A q \in Procs : Stage(q)' = Stage(q)
  PROVE  UNCHANGED Atomic!vars
  BY DEF Atomic!vars

LEMMA AbstractMove ==
  ASSUME NEW p \in Procs, OthersRest(p), SettledView' = SettledView
  PROVE  /\ Stage(p) = "running" /\ Stage(p)' = "running" => Atomic!Run(p)
         /\ Stage(p) = "running" /\ Stage(p)' = "failed" => Atomic!Fail(p)
         /\ Stage(p) = "committed" /\ Stage(p)' = "running" => Atomic!Succeed(p)
<1>1. Atomic!OthersKeep(p)
  BY AbstractOthers
<1> QED
  BY <1>1 DEF Atomic!Run, Atomic!Fail, Atomic!Succeed

LEMMA AbstractCommit ==
  ASSUME AInv, blemishes = {}, NEW p \in Procs, Commits(p), OthersRest(p)
  PROVE  Atomic!Commit(p)
<1>1. Atomic!OthersKeep(p)
  BY AbstractOthers
<1>2. Stage(p) = "running" /\ Stage(p)' = "committed"
  BY DEF Commits, Stage
<1>3. \A b \in Blocks : Seen(blockmap[p][b]) \in {<< >>, SettledView[b]}
  BY CommitTakesEffect
<1>4. SettledView' = [b \in Blocks |-> IF Wrote(blockmap[p][b]) = << >> THEN SettledView[b]
                                       ELSE Wrote(blockmap[p][b])]
  <2>1. \A b \in Blocks : SettledView'[b] = IF Wrote(blockmap[p][b]) = << >> THEN SettledView[b]
                                            ELSE Wrote(blockmap[p][b])
    BY CommitTakesEffect
  <2> QED
    BY <2>1 DEF SettledView
<1> QED
  BY <1>1, <1>2, <1>3, <1>4 DEF Atomic!Commit, Atomic!Nothing

\* Every step is one of the abstract store, or none, up to the first blemish.
LEMMA StepSimulation ==
  ASSUME AInv, [SysNext]_sysVars
  PROVE  blemishes' # {} \/ Atomic!Next \/ UNCHANGED Atomic!vars
<1> SUFFICES ASSUME blemishes' = {} PROVE Atomic!Next \/ UNCHANGED Atomic!vars
  OBVIOUS
<1>1. blemishes = {}
  BY BlemishesStay
<1>2. CASE UNCHANGED libVars
  <2>1. SettledView' = SettledView
    BY <1>2, SameView DEF libVars, FilesRest
  <2>2. \A q \in Procs : Stage(q)' = Stage(q)
    BY <1>2 DEF libVars, Stage
  <2> QED
    BY <1>2, <2>1, <2>2, AbstractStutter DEF libVars
<1>3. ASSUME NEW p \in Procs, Process(p) PROVE Atomic!Next \/ UNCHANGED Atomic!vars
  <2>1. Shape(p) /\ OthersRest(p)
    BY <1>3, ProcessShape DEF Shape
  <2>2. \A q \in Procs \ {p} : Stage(q)' = Stage(q)
    BY <2>1 DEF OthersRest, Stage
  <2>3. CASE Proceeds(p)
    <3>1. SettledView' = SettledView /\ UNCHANGED blockmap
      BY <2>3, SameView DEF Proceeds
    <3>2. \/ Stage(p) = "running" /\ Stage(p)' \in {"running", "failed"}
          \/ Stage(p)' = Stage(p)
      BY <2>3 DEF Proceeds, Running, Stage
    <3> QED
      BY <2>1, <2>2, <3>1, <3>2, AbstractMove, AbstractStutter DEF Atomic!Next
  <2>4. CASE \E b \in Blocks : \E f : Changes(p, b, f)
    <3>1. SettledView' = SettledView
      BY <2>4, SameView DEF Changes
    <3>2. Stage(p) = "running" /\ Stage(p)' = "running"
      BY <2>4 DEF Changes, Stage
    <3> QED
      BY <2>1, <3>1, <3>2, AbstractMove DEF Atomic!Next
  <2>5. CASE Clears(p)
    <3>1. SettledView' = SettledView
      BY <2>5, SameView DEF Clears
    <3>2. \/ Stage(p) = "running" /\ Stage(p)' \in {"running", "failed"}
          \/ Stage(p) = "committed" /\ Stage(p)' = "running"
      BY <2>5 DEF Clears, Stage
    <3> QED
      BY <2>1, <3>1, <3>2, AbstractMove DEF Atomic!Next
  <2>6. CASE Commits(p)
    BY <1>1, <2>1, <2>6, AbstractCommit DEF Atomic!Next
  <2>7. ASSUME NEW w \in todo[p], Writes(p, w) PROVE UNCHANGED Atomic!vars
    <3>1. SettledView' = SettledView
      BY <1>1, <2>7, WriteSettles
    <3>2. UNCHANGED blockmap /\ \A q \in Procs : Stage(q)' = Stage(q)
      BY <2>7 DEF Writes, Stage
    <3> QED
      BY <3>1, <3>2, AbstractStutter
  <2> QED
    BY <2>1, <2>3, <2>4, <2>5, <2>6, <2>7 DEF Shape
<1> QED
  BY <1>2, <1>3 DEF SysNext, SysDisconnect, Clock, sysVars

\* Up to the first blemish System/T is the abstract store: a transaction takes effect
\* at one moment, on the blocks as it saw them, whatever the monitor, the clock and
\* the other clients do, and its process is told what became of it.
THEOREM AtomicallyRefined == SysSpec => AtomicUnlessBlemished
<1>1. SysInit => Atomic!Init
  <2> SUFFICES ASSUME SysInit PROVE Atomic!Init
    OBVIOUS
  <2>1. \A p \in Procs : Stage(p) = "running"
    BY DEF SysInit, Lib!Init, Stage
  <2> QED
    BY <2>1 DEF Atomic!Init
<1>2. AInv /\ [SysNext]_sysVars
        => [blemishes' # {} \/ Atomic!Next \/ UNCHANGED Atomic!vars]_sysVars
  BY StepSimulation
<1> QED
  BY <1>1, <1>2, AtomicInvariance, PTL DEF SysSpec, AtomicUnlessBlemished

\* The promise of find_free_block, which does not hold of the code as it stands
\* (AllocatesFreeBlocks), holds up to the first blemish: nobody commits as newly
\* allocated a block that is allocated already.
THEOREM AllocatesFreeUnlessBlemished ==
  SysSpec => [][blemishes' # {} \/
                \A p \in Procs, b \in Blocks :
                  Stage(p) = "running" /\ Stage(p)' = "committed" /\ blockmap[p][b].lock = "A_LOCK"
                    => SettledView[b] = <<"U">>]_sysVars
<1>1. ASSUME AInv, [SysNext]_sysVars, blemishes' = {}, NEW p \in Procs, NEW b \in Blocks,
             Stage(p) = "running", Stage(p)' = "committed", blockmap[p][b].lock = "A_LOCK"
      PROVE  SettledView[b] = <<"U">>
  <2>1. blemishes = {} /\ pc'[p] # pc[p]
    BY <1>1, BlemishesStay DEF Stage
  <2>2. PICK q \in Procs : Process(q)
    BY <1>1, <2>1 DEF SysNext, SysDisconnect, Clock, sysVars, libVars
  <2>3. Shape(q) /\ q = p
    BY <1>1, <2>1, <2>2, ProcessShape DEF Shape, OthersRest
  <2>4. Commits(p)
    BY <1>1, <2>3 DEF Shape, Proceeds, Changes, Clears, Writes, Running, Stage
  <2>5. Seen(blockmap[p][b]) \in {<< >>, SettledView[b]}
    BY <1>1, <2>1, <2>3, <2>4, CommitTakesEffect DEF Shape
  <2>6. blockmap[p][b].oldindex = "U" /\ blockmap[p][b] # Lib!NoEntry
    BY <1>1, NoEntryFacts DEF AInv, Own, EntryTrue, TrueEntry, Lib!Owned
  <2> QED
    BY <2>5, <2>6, Tuples DEF Seen
<1>2. AInv /\ [SysNext]_sysVars =>
        [blemishes' # {} \/
         \A p \in Procs, b \in Blocks :
           Stage(p) = "running" /\ Stage(p)' = "committed" /\ blockmap[p][b].lock = "A_LOCK"
             => SettledView[b] = <<"U">>]_sysVars
  BY <1>1
<1> QED
  BY <1>2, AtomicInvariance, PTL DEF SysSpec

=============================================================================
