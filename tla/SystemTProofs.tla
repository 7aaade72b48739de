--------------------------- MODULE SystemTProofs ---------------------------
(***************************************************************************)
(* Theorems about SystemT: the clients that the library makes of programs  *)
(* are the clients of Monitor, and what each of the two believes of the    *)
(* locks agrees.                                                           *)
(***************************************************************************)
EXTENDS SystemT, MonitorProofs

IsEntry(e) == \/ e = Lib!NoEntry
              \/ \E l \in Lib!LockTypes : \E v, w, i : e = Lib!Entry(l, v, w, i)

SysTypes ==
  /\ pc \in [Procs -> Lib!Points]
  /\ blk \in [Procs -> Blocks \cup {0}]
  /\ last_free_block \in [Procs -> Nat]
  /\ thrown \in [Procs -> {"none", "TE_ABORT", "TE_RESTART"}]
  /\ conn \in [Procs -> Clients \cup {NoConnection}]
  /\ DOMAIN blockmap = Procs
  /\ \A p \in Procs : DOMAIN blockmap[p] = Blocks
  /\ \A p \in Procs, b \in Blocks : IsEntry(blockmap[p][b])

\* A descriptor belongs to one process.
ConnUnique ==
  \A p, q \in Procs : conn[p] = conn[q] /\ conn[p] # NoConnection => p = q

\* A process has a connection from its constructor on, up to the end of its
\* destructor.
Connected(p) == conn[p] = NoConnection <=> pc[p] \in {"idle", "connect", "exited"}

Granted == {"readGranted", "writeGranted", "releaseGranted"}

\* Requests are about blocks, and about those for which the blockmap has no entry
\* that makes the request unnecessary.
Requests(p) ==
  /\ pc[p] \in {"read", "write", "release"} \cup Granted => blk[p] \in Blocks
  /\ pc[p] \in {"probe", "allocate"} => last_free_block[p] >= 1
  /\ pc[p] = "allocate" => last_free_block[p] \in Blocks
  /\ pc[p] = "read" => blockmap[p][blk[p]] = Lib!NoEntry
  /\ pc[p] \in {"write", "release"} => ~Lib!Owned(blockmap[p][blk[p]])

\* Where the library is, the monitor expects it.
PhaseAgrees(p) ==
  LET c == conn[p] IN
  c # NoConnection =>
    /\ phase[c] # "off"
    /\ pc[p] = "begin" <=> phase[c] = "connected"
    /\ pc[p] \in {"body", "probe", "read", "write", "release", "allocate", "commit"} \cup Granted
         => phase[c] = "running"
    /\ pc[p] = "restart" => phase[c] \in {"running", "refused"}
    /\ pc[p] = "writing" => phase[c] = "committing"

\* The blockmap has an entry for what was granted; between the reply and the read
\* from the store it has not got it yet.
LocksAgree(p) ==
  LET c == conn[p] IN
  c # NoConnection =>
    /\ \A b \in Blocks :
         LET e == blockmap[p][b] IN
         /\ e # Lib!NoEntry => held[c][b] # "none"
         /\ Lib!Owned(e) => held[c][b] = "W"
         /\ held[c][b] # "none" => e # Lib!NoEntry \/ (b = blk[p] /\ pc[p] \in Granted)
         /\ held[c][b] = "W" =>
              Lib!Owned(e) \/ (b = blk[p] /\ pc[p] \in Granted \ {"readGranted"})
    /\ pc[p] = "readGranted" => held[c][blk[p]] = "R"
    /\ pc[p] \in {"writeGranted", "releaseGranted"} => held[c][blk[p]] = "W"

Agree(p) == Connected(p) /\ Requests(p) /\ PhaseAgrees(p) /\ LocksAgree(p)

SInv ==
  /\ IInv
  /\ SysTypes
  /\ ConnUnique
  /\ \A p \in Procs : Agree(p)

USE DEF Granted

-----------------------------------------------------------------------------
\* An entry keeps its lock whatever is done to its buffer.
LEMMA EntryOps ==
  ASSUME NEW e, IsEntry(e), e # Lib!NoEntry, NEW x
  PROVE  /\ IsEntry([e EXCEPT !.data = x])
         /\ [e EXCEPT !.data = x].lock = e.lock
         /\ [e EXCEPT !.data = x] # Lib!NoEntry
         /\ IsEntry([e EXCEPT !.lock = "S_LOCK"])
         /\ [e EXCEPT !.lock = "S_LOCK"].lock = "S_LOCK"
         /\ [e EXCEPT !.lock = "S_LOCK"] # Lib!NoEntry
<1>0. PICK l \in Lib!LockTypes : \E v, w, i : e = Lib!Entry(l, v, w, i)
  BY DEF IsEntry
<1>1. PICK v, w, i : e = Lib!Entry(l, v, w, i)
  BY <1>0
<1>2. /\ [e EXCEPT !.data = x] = Lib!Entry(l, x, w, i)
      /\ [e EXCEPT !.lock = "S_LOCK"] = Lib!Entry("S_LOCK", v, w, i)
  BY <1>1 DEF Lib!Entry
<1>3. \A m \in Lib!LockTypes : \A y, z, j : /\ IsEntry(Lib!Entry(m, y, z, j))
                                             /\ Lib!Entry(m, y, z, j).lock = m
                                             /\ Lib!Entry(m, y, z, j) # Lib!NoEntry
  BY DEF IsEntry, Lib!Entry, Lib!NoEntry, Lib!LockTypes
<1> QED
  BY <1>1, <1>2, <1>3 DEF Lib!LockTypes

LEMMA NoEntryFacts ==
  /\ IsEntry(Lib!NoEntry) /\ ~Lib!Owned(Lib!NoEntry)
  /\ \A m \in Lib!LockTypes : \A y, z, j :
       /\ IsEntry(Lib!Entry(m, y, z, j))
       /\ Lib!Entry(m, y, z, j).lock = m
       /\ Lib!Entry(m, y, z, j) # Lib!NoEntry
  BY DEF IsEntry, Lib!Entry, Lib!NoEntry, Lib!LockTypes, Lib!Owned

\* A process to which nothing happens still agrees with the monitor.
LEMMA Bystander ==
  ASSUME NEW q \in Procs, Agree(q), SysTypes,
         pc'[q] = pc[q], blk'[q] = blk[q], last_free_block'[q] = last_free_block[q],
         blockmap'[q] = blockmap[q], conn'[q] = conn[q],
         conn[q] # NoConnection => /\ phase'[conn[q]] = phase[conn[q]]
                                   /\ held'[conn[q]] = held[conn[q]]
  PROVE  Agree(q)'
<1>1. Connected(q)' /\ Requests(q)'
  BY DEF Agree, Connected, Requests, Lib!Owned
<1>2. PhaseAgrees(q)'
  BY DEF Agree, PhaseAgrees
<1>3. LocksAgree(q)'
  BY DEF Agree, LocksAgree, Lib!Owned
<1> QED
  BY <1>1, <1>2, <1>3 DEF Agree

\* Only p has made a step of the library.
OnlyMoves(p) ==
  \A q \in Procs \ {p} :
    /\ pc'[q] = pc[q] /\ blk'[q] = blk[q] /\ last_free_block'[q] = last_free_block[q]
    /\ blockmap'[q] = blockmap[q] /\ conn'[q] = conn[q]

\* The monitor has done nothing to the clients but, maybe, to that of p.
OnlyServes(p) ==
  \A d \in Clients : d # conn[p] /\ phase[d] # "off" =>
                       phase'[d] = phase[d] /\ held'[d] = held[d]

LEMMA OneProcess ==
  ASSUME SInv, NEW p \in Procs, IInv', SysTypes', Agree(p)',
         OnlyMoves(p), OnlyServes(p),
         \/ conn'[p] \in {conn[p], NoConnection}
         \/ conn'[p] \in Clients /\ phase[conn'[p]] = "off"
  PROVE  SInv'
<1> USE DEF SInv
<1>1. \A q \in Procs : conn[q] # NoConnection => conn[q] \in Clients /\ phase[conn[q]] # "off"
  BY DEF SysTypes, Agree, PhaseAgrees
<1>2. ConnUnique'
  BY <1>1 DEF ConnUnique, OnlyMoves
<1>3. ASSUME NEW q \in Procs, q # p PROVE Agree(q)'
  <2>1. conn[q] # NoConnection => conn[q] # conn[p]
    BY <1>3 DEF ConnUnique
  <2>2. conn[q] # NoConnection => phase'[conn[q]] = phase[conn[q]] /\ held'[conn[q]] = held[conn[q]]
    BY <1>1, <2>1 DEF OnlyServes
  <2> QED
    BY <1>3, <2>2, Bystander DEF OnlyMoves
<1> QED
  BY <1>2, <1>3

-----------------------------------------------------------------------------
(* Requests for locks.                                                     *)

\* What the client of c is left with by a request for a lock on b.
Answered(c, b, mode, reply) ==
  IF reply = "OK" THEN phase' = phase /\ held' = [held EXCEPT ![c][b] = mode]
                  ELSE phase' = [phase EXCEPT ![c] = "refused"] /\ held' = held

LEMMA Answers ==
  ASSUME IInv, NEW c \in Clients, NEW b \in Blocks
  PROVE  /\ ReadRq(c, b) => Answered(c, b, "R", Verdict(c))
         /\ WriteRq(c, b) \/ ReleaseRq(c, b) => Answered(c, b, "W", Verdict(c))
<1>0. phase \in [Clients -> Phases]
  BY DEF IInv, TypeOK
<1>1. ASSUME NEW mode, phase[c] = "running",
             \/ Refuse(c)
             \/ phase' = phase /\ held' = [held EXCEPT ![c][b] = mode]
      PROVE  Answered(c, b, mode, Verdict(c))
  BY <1>0, <1>1 DEF Answered, Verdict, Refuse
<1>2. ASSUME ReadRq(c, b) PROVE Answered(c, b, "R", Verdict(c))
  BY <1>1, <1>2 DEF ReadRq, GrantRead, Heard
<1>3. ASSUME WriteRq(c, b) \/ ReleaseRq(c, b) PROVE Answered(c, b, "W", Verdict(c))
  <2>1. phase[c] = "running"
    BY <1>3 DEF WriteRq, ReleaseRq, Heard
  <2>2. Refuse(c) \/ (phase' = phase /\ held' = [held EXCEPT ![c][b] = "W"])
    BY <1>3 DEF WriteRq, ReleaseRq, GrantWrite
  <2> QED
    BY <1>1, <2>1, <2>2
<1> QED
  BY <1>2, <1>3

LEMMA LockAsked ==
  ASSUME SInv, NEW p \in Procs, conn[p] # NoConnection, IInv', UNCHANGED conn,
         NEW request \in {"read", "write", "release"}, NEW mode, NEW next,
         request = "read" => mode = "R" /\ next = "readGranted",
         request = "write" => mode = "W" /\ next = "writeGranted",
         request = "release" => mode = "W" /\ next = "releaseGranted",
         NEW reply \in {"OK", "NOT_OK"},
         Lib!Granted(p, request, reply, next),
         Answered(conn[p], blk[p], mode, reply)
  PROVE  SInv'
<1> DEFINE c == conn[p]
           b == blk[p]
<1>1. /\ c \in Clients /\ b \in Blocks /\ pc[p] = request /\ Agree(p) /\ SysTypes
      /\ phase \in [Clients -> Phases] /\ held \in [Clients -> [Blocks -> LockModes]]
  BY DEF SInv, SysTypes, Agree, Requests, Lib!Granted, IInv, TypeOK
<1>2. /\ pc' = [pc EXCEPT ![p] = IF reply = "OK" THEN next ELSE "restart"]
      /\ UNCHANGED <<blk, blockmap, thrown, last_free_block>>
  BY DEF Lib!Granted, Lib!Goto, Lib!statics
<1>3. SysTypes'
  BY <1>1, <1>2 DEF SysTypes, Lib!Points
<1>4. OnlyMoves(p)
  BY <1>1, <1>2 DEF SysTypes, OnlyMoves
<1>5. OnlyServes(p)
  BY <1>1 DEF OnlyServes, Answered
<1>6. Connected(p)' /\ Requests(p)'
  BY <1>1, <1>2 DEF SysTypes, Agree, Connected, Requests
<1>7. ASSUME reply = "OK" PROVE PhaseAgrees(p)' /\ LocksAgree(p)'
  <2>1. /\ pc'[p] = next /\ phase'[c] = phase[c] /\ phase[c] = "running"
        /\ held'[c] = [held[c] EXCEPT ![b] = mode] /\ held[c] \in [Blocks -> LockModes]
    BY <1>1, <1>2, <1>7 DEF SysTypes, Agree, PhaseAgrees, Answered
  <2>2. PhaseAgrees(p)'
    BY <1>1, <1>2, <2>1 DEF PhaseAgrees
  <2>3. /\ blockmap[p][b] # Lib!NoEntry => request # "read"
        /\ ~Lib!Owned(blockmap[p][b])
    BY <1>1, NoEntryFacts DEF Agree, Requests
  <2>4. ASSUME NEW d \in Blocks, d # b
        PROVE  /\ held'[c][d] = held[c][d]
               /\ blockmap'[p][d] = blockmap[p][d]
    BY <1>2, <2>1, <2>4
  <2>5. held'[c][b] = mode
    BY <1>1, <2>1
  <2>6. LocksAgree(p)'
    BY <1>1, <1>2, <2>1, <2>3, <2>4, <2>5 DEF Agree, LocksAgree, Lib!Owned
  <2> QED
    BY <2>2, <2>6
<1>8. ASSUME reply = "NOT_OK" PROVE PhaseAgrees(p)' /\ LocksAgree(p)'
  <2>1. pc'[p] = "restart" /\ phase'[c] = "refused" /\ UNCHANGED held
    BY <1>1, <1>2, <1>8 DEF SysTypes, Answered
  <2>2. PhaseAgrees(p)'
    BY <1>1, <1>2, <2>1 DEF PhaseAgrees
  <2>3. LocksAgree(p)'
    BY <1>1, <1>2, <2>1 DEF Agree, LocksAgree, Lib!Owned
  <2> QED
    BY <2>2, <2>3
<1> QED
  BY <1>1, <1>3, <1>4, <1>5, <1>6, <1>7, <1>8, OneProcess DEF Agree

\* Most requests are steps of the monitor that keep its invariant.
LEMMA RequestInv ==
  ASSUME IInv, NEW c \in Clients,
         \/ \E b \in Blocks : \/ AllocateRq(c, b) \/ ReadRq(c, b)
                              \/ WriteRq(c, b) \/ ReleaseRq(c, b)
         \/ RestartRq(c) \/ CommitRq(c) \/ EndRq(c) \/ Die(c)
         \/ Accept(c) \/ Begin(c) \/ Disconnect(c)
  PROVE  IInv'
  BY NextInv DEF Next, Request

\* allocate() is granted a block that its transaction did not have, or had released.
LEMMA AllocateAsked ==
  ASSUME SInv, NEW p \in Procs, conn[p] # NoConnection, UNCHANGED conn,
         pc[p] = "allocate", AllocateRq(conn[p], last_free_block[p]),
         Lib!AskAllocate(p, AllocateVerdict(conn[p], last_free_block[p]))
  PROVE  SInv'
<1> DEFINE c == conn[p]
           b == last_free_block[p]
           e == Lib!Entry("A_LOCK", Zeros, Zeros, "U")
<1>1. /\ c \in Clients /\ b \in Blocks /\ Agree(p) /\ SysTypes /\ b \in Nat
      /\ phase \in [Clients -> Phases] /\ held \in [Clients -> [Blocks -> LockModes]]
  BY DEF SInv, SysTypes, Agree, Requests, IInv, TypeOK
<1>2. IInv'
  BY <1>1, RequestInv DEF SInv
<1>3. CASE CanWrite(transactions[c], b)
  <2>1. /\ pc' = [pc EXCEPT ![p] = "body"]
        /\ blockmap' = [blockmap EXCEPT ![p][b] = e]
        /\ UNCHANGED <<blk, thrown, last_free_block>>
    BY <1>3 DEF AllocateVerdict, Lib!AskAllocate, Lib!Goto, Lib!SetEntry
  <2>2. phase' = phase /\ held' = [held EXCEPT ![c][b] = "W"]
    BY <1>3 DEF AllocateRq, GrantWrite
  <2>3. IsEntry(e) /\ e # Lib!NoEntry /\ Lib!Owned(e)
    BY NoEntryFacts DEF Lib!LockTypes, Lib!Owned
  <2> HIDE DEF e
  <2>4. /\ pc'[p] = "body" /\ blockmap'[p][b] = e /\ held'[c][b] = "W"
        /\ \A d \in Blocks \ {b} : blockmap'[p][d] = blockmap[p][d] /\ held'[c][d] = held[c][d]
        /\ \A q \in Procs \ {p} : blockmap'[q] = blockmap[q]
        /\ DOMAIN blockmap'[p] = Blocks
    BY <1>1, <2>1, <2>2 DEF SysTypes
  <2>5. SysTypes'
    BY <1>1, <2>1, <2>3, <2>4 DEF SysTypes, Lib!Points
  <2>6. OnlyMoves(p) /\ OnlyServes(p)
    BY <1>1, <2>1, <2>2, <2>4 DEF SysTypes, OnlyMoves, OnlyServes
  <2>7. Connected(p)' /\ Requests(p)' /\ PhaseAgrees(p)'
    BY <1>1, <2>1, <2>2, <2>4 DEF Agree, Connected, Requests, PhaseAgrees
  <2>8. LocksAgree(p)'
    BY <1>1, <2>1, <2>3, <2>4 DEF Agree, LocksAgree, Lib!Owned
  <2> QED
    BY <1>1, <1>2, <2>5, <2>6, <2>7, <2>8, OneProcess DEF Agree
<1>4. CASE ~CanWrite(transactions[c], b)
  <2>1. /\ pc' = [pc EXCEPT ![p] = "probe"]
        /\ last_free_block' = [last_free_block EXCEPT ![p] = @ + 1]
        /\ UNCHANGED <<blk, thrown, blockmap>>
    BY <1>4 DEF AllocateVerdict, Lib!AskAllocate, Lib!Goto, Lib!NextFreeBlock, Lib!object
  <2>2. UNCHANGED <<phase, held>>
    BY <1>4 DEF AllocateRq, vars, clientVars
  <2>3. SysTypes'
    BY <1>1, <2>1 DEF SysTypes, Lib!Points
  <2>4. OnlyMoves(p) /\ OnlyServes(p)
    BY <1>1, <2>1, <2>2 DEF SysTypes, OnlyMoves, OnlyServes
  <2>5. Connected(p)' /\ Requests(p)' /\ PhaseAgrees(p)'
    BY <1>1, <2>1, <2>2 DEF SysTypes, Agree, Connected, Requests, PhaseAgrees
  <2>6. LocksAgree(p)'
    BY <1>1, <2>1, <2>2 DEF SysTypes, Agree, LocksAgree, Lib!Owned
  <2> QED
    BY <1>1, <1>2, <2>3, <2>4, <2>5, <2>6, OneProcess DEF Agree
<1> QED
  BY <1>3, <1>4

LEMMA AskForLockInv == ASSUME SInv, NEW p \in Procs, AskForLock(p) PROVE SInv'
<1> DEFINE c == conn[p]
           b == blk[p]
<1>1. c # NoConnection /\ c \in Clients /\ UNCHANGED conn /\ IInv
  BY DEF AskForLock, SInv, SysTypes
<1>2. pc[p] \in {"read", "write", "release"} => b \in Blocks
  BY DEF SInv, Agree, Requests
<1>3. Verdict(c) \in {"OK", "NOT_OK"}
  BY DEF Verdict
<1>4. CASE pc[p] = "read" /\ ReadRq(c, b) /\ Lib!AskRead(p, Verdict(c))
  BY <1>1, <1>2, <1>3, <1>4, Answers, RequestInv, LockAsked DEF Lib!AskRead
<1>5. CASE pc[p] = "write" /\ WriteRq(c, b) /\ Lib!AskWrite(p, Verdict(c))
  BY <1>1, <1>2, <1>3, <1>5, Answers, RequestInv, LockAsked DEF Lib!AskWrite
<1>6. CASE pc[p] = "release" /\ ReleaseRq(c, b) /\ Lib!AskRelease(p, Verdict(c))
  BY <1>1, <1>2, <1>3, <1>6, Answers, RequestInv, LockAsked DEF Lib!AskRelease
<1>7. CASE /\ pc[p] = "allocate" /\ AllocateRq(c, last_free_block[p])
           /\ Lib!AskAllocate(p, AllocateVerdict(c, last_free_block[p]))
  BY <1>1, <1>7, AllocateAsked
<1> QED
  BY <1>4, <1>5, <1>6, <1>7 DEF AskForLock

-----------------------------------------------------------------------------
(* The other steps.                                                        *)

\* Where p goes, and its client with it.
LEMMA Moves ==
  ASSUME SInv, NEW p \in Procs, IInv', OnlyServes(p),
         NEW point \in Lib!Points, pc' = [pc EXCEPT ![p] = point],
         UNCHANGED <<blk, last_free_block, blockmap>>,
         thrown' \in [Procs -> {"none", "TE_ABORT", "TE_RESTART"}],
         point \in {"destroy", "body", "writing", "close", "restart", "probe", "exited"},
         conn' = IF point = "exited" THEN [conn EXCEPT ![p] = NoConnection] ELSE conn,
         PhaseAgrees(p)', pc[p] \notin Granted, conn[p] # NoConnection,
         point # "exited" => held'[conn[p]] = held[conn[p]],
         point = "probe" => last_free_block[p] >= 1
  PROVE  SInv'
<1>1. Agree(p) /\ SysTypes
  BY DEF SInv
<1>2. SysTypes' /\ OnlyMoves(p)
  BY <1>1 DEF SysTypes, OnlyMoves
<1>3. Connected(p)'
  BY <1>1 DEF SysTypes, Connected
<1>4. Requests(p)'
  BY <1>1 DEF SysTypes, Requests
<1>5. LocksAgree(p)'
  BY <1>1 DEF SysTypes, Agree, LocksAgree, Lib!Owned
<1>6. conn'[p] \in {conn[p], NoConnection}
  BY <1>1 DEF SysTypes
<1> QED
  BY <1>1, <1>2, <1>3, <1>4, <1>5, <1>6, OneProcess DEF Agree

\* The requests of the protocol that are no requests for a lock.
LEMMA AskOtherInv == ASSUME SInv, NEW p \in Procs, AskOther(p) PROVE SInv'
<1> DEFINE c == conn[p]
<1>1. /\ c # NoConnection /\ c \in Clients /\ UNCHANGED conn /\ IInv /\ IInv'
      /\ Agree(p) /\ SysTypes /\ phase \in [Clients -> Phases]
  BY RequestInv DEF AskOther, SInv, SysTypes, IInv, TypeOK
<1>2. OnlyServes(p) /\ UNCHANGED held
  BY <1>1 DEF AskOther, OnlyServes, Begin, RestartRq, CommitRq, EndRq
<1>3. CASE Begin(c) /\ Lib!AskBegin(p, "OK")
  <2>1. /\ pc' = [pc EXCEPT ![p] = "body"] /\ pc[p] = "begin" /\ phase'[c] = "running"
        /\ UNCHANGED <<blk, last_free_block, blockmap, thrown>>
    BY <1>1, <1>3 DEF Begin, Lib!AskBegin, Lib!Goto, Lib!object, Lib!statics
  <2> QED
    BY <1>1, <1>2, <2>1, Moves DEF SysTypes, PhaseAgrees, Lib!Points
<1>4. CASE RestartRq(c) /\ Lib!AskRestart(p, "OK")
  <2>1. /\ pc' = [pc EXCEPT ![p] = "destroy"] /\ pc[p] = "restart" /\ phase'[c] = "leaving"
        /\ UNCHANGED <<blk, last_free_block, blockmap>>
        /\ \E x \in {"TE_ABORT", "TE_RESTART"} : thrown' = [thrown EXCEPT ![p] = x]
    BY <1>1, <1>4 DEF RestartRq, Lib!AskRestart, Lib!Abort, Lib!Throw, Lib!Goto
  <2>2. thrown' \in [Procs -> {"none", "TE_ABORT", "TE_RESTART"}]
    BY <1>1, <2>1 DEF SysTypes
  <2>3. PhaseAgrees(p)'
    BY <1>1, <2>1 DEF SysTypes, PhaseAgrees
  <2> QED
    BY <1>1, <1>2, <2>1, <2>2, <2>3, Moves DEF Lib!Points
<1>5. CASE CommitRq(c) /\ Lib!AskCommit(p, "OK")
  <2>1. /\ pc' = [pc EXCEPT ![p] = "writing"] /\ pc[p] \in {"body", "commit"}
        /\ phase'[c] = "committing"
        /\ UNCHANGED <<blk, last_free_block, blockmap, thrown>>
    BY <1>1, <1>5 DEF CommitRq, Lib!AskCommit, Lib!Goto, Lib!statics
  <2> QED
    BY <1>1, <1>2, <2>1, Moves DEF SysTypes, PhaseAgrees, Lib!Points
<1>6. CASE EndRq(c) /\ Lib!AskEnd(p, "OK")
  <2>1. /\ pc' = [pc EXCEPT ![p] = "close"] /\ pc[p] = "writing"
        /\ phase'[c] = "leaving"
        /\ UNCHANGED <<blk, last_free_block, blockmap, thrown>>
    BY <1>1, <1>6 DEF EndRq, Lib!AskEnd, Lib!Goto, Lib!statics
  <2> QED
    BY <1>1, <1>2, <2>1, Moves DEF SysTypes, PhaseAgrees, Lib!Points
<1> QED
  BY <1>3, <1>4, <1>5, <1>6 DEF AskOther

LEMMA AskInVainInv == ASSUME SInv, NEW p \in Procs, AskInVain(p) PROVE SInv'
<1> DEFINE c == conn[p]
<1>1. /\ c # NoConnection /\ c \in Clients /\ IInv /\ IInv' /\ Agree(p) /\ SysTypes
      /\ phase \in [Clients -> Phases]
      /\ conn' = IF pc'[p] = "exited" THEN [conn EXCEPT ![p] = NoConnection] ELSE conn
  BY RequestInv DEF AskInVain, HangUp, SInv, SysTypes, IInv, TypeOK
<1>2. /\ OnlyServes(p) /\ UNCHANGED held
      /\ phase[c] \in {"running", "refused", "committing"} /\ phase'[c] = "leaving"
  BY <1>1 DEF AskInVain, OnlyServes, Die
<1>3. pc[p] # "begin"
  BY <1>1, <1>2 DEF Agree, PhaseAgrees
<1>4. Lib!Ask(p, "DIE")
  BY DEF AskInVain
<1>5. \E point \in {"destroy", "exited"} :
        /\ pc' = [pc EXCEPT ![p] = point]
        /\ thrown' = [thrown EXCEPT ![p] = "TE_ABORT"]
        /\ UNCHANGED <<blk, last_free_block, blockmap>>
        /\ pc[p] \notin Granted
  <2>1. CASE \/ Lib!AskRead(p, "DIE") \/ Lib!AskWrite(p, "DIE") \/ Lib!AskRelease(p, "DIE")
    BY <2>1 DEF Lib!AskRead, Lib!AskWrite, Lib!AskRelease, Lib!Granted, Lib!Abort, Lib!Throw,
                Lib!Goto, Lib!statics
  <2>2. CASE Lib!AskAllocate(p, "DIE") \/ Lib!AskRestart(p, "DIE")
    BY <2>2 DEF Lib!AskAllocate, Lib!AskRestart, Lib!Abort, Lib!Throw, Lib!Goto
  <2>3. CASE Lib!AskCommit(p, "DIE") \/ Lib!AskEnd(p, "DIE")
    BY <2>3 DEF Lib!AskCommit, Lib!AskEnd, Lib!DestructorThrows, Lib!Goto, Lib!statics
  <2> QED
    BY <1>3, <1>4, <2>1, <2>2, <2>3 DEF Lib!Ask, Lib!AskBegin
<1>6. PICK point \in {"destroy", "exited"} :
        /\ pc' = [pc EXCEPT ![p] = point]
        /\ thrown' = [thrown EXCEPT ![p] = "TE_ABORT"]
        /\ UNCHANGED <<blk, last_free_block, blockmap>>
        /\ pc[p] \notin Granted
  BY <1>5
<1>7. pc'[p] = point /\ thrown' \in [Procs -> {"none", "TE_ABORT", "TE_RESTART"}]
  BY <1>1, <1>6 DEF SysTypes
<1>8. PhaseAgrees(p)'
  BY <1>1, <1>2, <1>6, <1>7 DEF SysTypes, PhaseAgrees
<1> QED
  BY <1>1, <1>2, <1>6, <1>7, <1>8, Moves DEF Lib!Points

\* The constructor connects to a descriptor that nobody uses.
LEMMA ConnectInv == ASSUME SInv, NEW p \in Procs, Connect(p) PROVE SInv'
<1>1. /\ IInv /\ Agree(p) /\ SysTypes /\ phase \in [Clients -> Phases]
  BY DEF SInv, IInv, TypeOK
<1>2. PICK c \in Clients : Accept(c) /\ conn' = [conn EXCEPT ![p] = c]
  BY DEF Connect
<1>3. IInv'
  BY <1>1, <1>2, RequestInv
<1>4. /\ pc[p] \in {"idle", "connect"} /\ pc' = [pc EXCEPT ![p] = "begin"]
      /\ blockmap' = [blockmap EXCEPT ![p] = Lib!EmptyMap]
      /\ thrown' = [thrown EXCEPT ![p] = "none"]
      /\ last_free_block' = [last_free_block EXCEPT ![p] = 0]
      /\ UNCHANGED blk
  BY DEF Connect, Lib!Connect, Lib!Goto
<1>5. conn[p] = NoConnection /\ conn'[p] = c /\ c # NoConnection
  BY <1>1, <1>2, <1>4, NoConnectionAssumption DEF SysTypes, Agree, Connected
<1>6. /\ phase[c] = "off" /\ phase' = [phase EXCEPT ![c] = "connected"] /\ UNCHANGED held
      /\ held[c] = NoLocks
  BY <1>1, <1>2 DEF Accept, IInv, ProtocolState
<1>7. /\ DOMAIN Lib!EmptyMap = Blocks
      /\ \A b \in Blocks : Lib!EmptyMap[b] = Lib!NoEntry
  BY BlocksAssumption DEF Lib!EmptyMap, Lib!BlockNumbers
<1>8. SysTypes'
  BY <1>1, <1>2, <1>4, <1>7, NoEntryFacts DEF SysTypes, Lib!Points
<1>9. OnlyMoves(p) /\ OnlyServes(p)
  BY <1>1, <1>2, <1>4, <1>6 DEF SysTypes, OnlyMoves, OnlyServes
<1>10. Connected(p)' /\ Requests(p)' /\ PhaseAgrees(p)'
  BY <1>1, <1>4, <1>5, <1>6 DEF SysTypes, Connected, Requests, PhaseAgrees
<1>11. LocksAgree(p)'
  BY <1>1, <1>4, <1>5, <1>6, <1>7, NoEntryFacts DEF SysTypes, LocksAgree, NoLocks, Lib!Owned
<1> QED
  BY <1>1, <1>3, <1>5, <1>6, <1>8, <1>9, <1>10, <1>11, OneProcess DEF Agree

\* The destructor is through, or was not survived.
LEMMA DestroyInv == ASSUME SInv, NEW p \in Procs, Destroy(p) PROVE SInv'
<1>1. /\ IInv /\ Agree(p) /\ SysTypes /\ UNCHANGED vars /\ Lib!Destroy(p)
      /\ conn' = [conn EXCEPT ![p] = NoConnection]
  BY DEF SInv, Destroy, HangUp
<1>2. IInv' /\ OnlyServes(p)
  BY <1>1, NextInv DEF OnlyServes, vars, clientVars
<1>3. PICK point \in {"idle", "exited", "connect"} : pc' = [pc EXCEPT ![p] = point]
  BY <1>1 DEF Lib!Destroy, Lib!Goto, SysTypes
<1>4. /\ blockmap' = [blockmap EXCEPT ![p] = Lib!EmptyMap]
      /\ UNCHANGED <<blk, thrown, last_free_block>>
  BY <1>1 DEF Lib!Destroy, Lib!statics
<1>5. /\ DOMAIN Lib!EmptyMap = Blocks
      /\ \A b \in Blocks : Lib!EmptyMap[b] = Lib!NoEntry
  BY BlocksAssumption DEF Lib!EmptyMap, Lib!BlockNumbers
<1>6. SysTypes' /\ OnlyMoves(p)
  BY <1>1, <1>3, <1>4, <1>5, NoEntryFacts DEF SysTypes, OnlyMoves, Lib!Points
<1>7. Agree(p)'
  BY <1>1, <1>3 DEF SysTypes, Agree, Connected, Requests, PhaseAgrees, LocksAgree
<1> QED
  BY <1>1, <1>2, <1>6, <1>7, OneProcess DEF SysTypes

-----------------------------------------------------------------------------
(* What the library does without the monitor.                              *)


\* The library works on its own, and what it believes still agrees with what it
\* was granted.
LEMMA Unaided ==
  ASSUME SInv, NEW p \in Procs, UNCHANGED <<vars, conn>>, conn[p] # NoConnection,
         SysTypes', OnlyMoves(p), pc'[p] \notin {"idle", "connect", "exited"},
         Requests(p)', LocksAgree(p)', PhaseAgrees(p)'
  PROVE  SInv'
<1>1. IInv /\ Agree(p) /\ SysTypes
  BY DEF SInv
<1>2. IInv' /\ OnlyServes(p)
  BY <1>1, NextInv DEF OnlyServes, vars, clientVars
<1>3. Connected(p)'
  BY <1>1 DEF Connected
<1> QED
  BY <1>1, <1>2, <1>3, OneProcess DEF Agree

\* An operation changes entries, but makes none and does not lock more by one than
\* was granted.
SameLocks(p) ==
  \A b \in Blocks : /\ blockmap'[p][b] # Lib!NoEntry <=> blockmap[p][b] # Lib!NoEntry
                    /\ Lib!Owned(blockmap'[p][b]) <=> Lib!Owned(blockmap[p][b])

LEMMA Operate ==
  ASSUME SInv, NEW p \in Procs, UNCHANGED <<vars, conn>>, pc[p] = "body",
         SysTypes', OnlyMoves(p), SameLocks(p),
         pc'[p] \in {"body", "destroy", "probe", "read", "write", "release"},
         Requests(p)'
  PROVE  SInv'
<1>1. /\ Agree(p) /\ conn[p] # NoConnection /\ UNCHANGED <<phase, held>>
      /\ phase[conn[p]] = "running"
  BY DEF SInv, Agree, Connected, PhaseAgrees, vars, clientVars
<1>2. PhaseAgrees(p)'
  BY <1>1 DEF PhaseAgrees
<1>3. LocksAgree(p)'
  BY <1>1 DEF Agree, LocksAgree, SameLocks
<1> QED
  BY <1>1, <1>2, <1>3, Unaided

\* The new arguments and, if there is one, the exception.
LEMMA Called ==
  ASSUME SysTypes, NEW p \in Procs, UNCHANGED conn,
         \E x \in Lib!Points : pc' = [pc EXCEPT ![p] = x],
         UNCHANGED blk \/ \E x \in Blocks : blk' = [blk EXCEPT ![p] = x],
         UNCHANGED last_free_block \/ Lib!NextFreeBlock(p),
         UNCHANGED thrown \/ thrown' = [thrown EXCEPT ![p] = "TE_ABORT"],
         \/ UNCHANGED blockmap
         \/ \E b \in Blocks : \E e : IsEntry(e) /\ blockmap' = [blockmap EXCEPT ![p][b] = e]
  PROVE  SysTypes' /\ OnlyMoves(p)
<1>1. /\ pc' \in [Procs -> Lib!Points]
      /\ \A q \in Procs \ {p} : pc'[q] = pc[q]
  BY DEF SysTypes
<1>2. /\ blk' \in [Procs -> Blocks \cup {0}]
      /\ \A q \in Procs \ {p} : blk'[q] = blk[q]
  BY DEF SysTypes
<1>3. /\ last_free_block' \in [Procs -> Nat]
      /\ \A q \in Procs \ {p} : last_free_block'[q] = last_free_block[q]
  BY DEF SysTypes, Lib!NextFreeBlock
<1>4. thrown' \in [Procs -> {"none", "TE_ABORT", "TE_RESTART"}]
  BY DEF SysTypes
<1>5. /\ DOMAIN blockmap' = Procs
      /\ \A q \in Procs \ {p} : blockmap'[q] = blockmap[q]
      /\ \A q \in Procs : DOMAIN blockmap'[q] = Blocks
      /\ \A q \in Procs, d \in Blocks : IsEntry(blockmap'[q][d])
  <2>1. CASE UNCHANGED blockmap
    BY <2>1 DEF SysTypes
  <2>2. ASSUME NEW b \in Blocks, NEW e, IsEntry(e), blockmap' = [blockmap EXCEPT ![p][b] = e]
        PROVE  <1>5!:
    BY <2>2 DEF SysTypes
  <2> QED
    BY <2>1, <2>2
<1> QED
  BY <1>1, <1>2, <1>3, <1>4, <1>5 DEF SysTypes, OnlyMoves

\* The entry of the block is as it was, has another buffer, or is released.
LEMMA BlockOperation ==
  ASSUME SInv, NEW p \in Procs, NEW b \in Blocks, UNCHANGED <<vars, conn, last_free_block>>,
         pc[p] = "body", blk' = [blk EXCEPT ![p] = b],
         NEW point \in {"body", "destroy", "read", "write", "release"},
         pc' = [pc EXCEPT ![p] = point],
         point = "read" => blockmap[p][b] = Lib!NoEntry,
         point \in {"write", "release"} => ~Lib!Owned(blockmap[p][b]),
         UNCHANGED thrown \/ thrown' = [thrown EXCEPT ![p] = "TE_ABORT"],
         \/ UNCHANGED blockmap
         \/ /\ blockmap[p][b] # Lib!NoEntry
            /\ point # "read"
            /\ \E v : blockmap' = [blockmap EXCEPT ![p][b] = [blockmap[p][b] EXCEPT !.data = v]]
         \/ /\ Lib!Owned(blockmap[p][b]) /\ point = "body"
            /\ blockmap' = [blockmap EXCEPT ![p][b] = [blockmap[p][b] EXCEPT !.lock = "S_LOCK"]]
  PROVE  SInv'
<1> DEFINE e == blockmap[p][b]
<1>1. SysTypes /\ IsEntry(e) /\ DOMAIN blockmap = Procs /\ DOMAIN blockmap[p] = Blocks
  BY DEF SInv, SysTypes
<1>2. /\ pc'[p] = point /\ blk'[p] = b
      /\ \E x \in Lib!Points : pc' = [pc EXCEPT ![p] = x]
  BY <1>1 DEF SysTypes, Lib!Points
<1>3. CASE UNCHANGED blockmap
  <2>1. SysTypes' /\ OnlyMoves(p)
    BY <1>1, <1>2, <1>3, Called
  <2>2. SameLocks(p) /\ Requests(p)'
    BY <1>2, <1>3 DEF SameLocks, Requests
  <2> QED
    BY <1>2, <2>1, <2>2, Operate
<1>4. ASSUME NEW f, IsEntry(f), f # Lib!NoEntry, e # Lib!NoEntry, Lib!Owned(f) <=> Lib!Owned(e),
             point # "read", blockmap' = [blockmap EXCEPT ![p][b] = f]
      PROVE  SInv'
  <2>1. SysTypes' /\ OnlyMoves(p)
    BY <1>1, <1>2, <1>4, Called
  <2>2. /\ blockmap'[p][b] = f
        /\ \A d \in Blocks \ {b} : blockmap'[p][d] = blockmap[p][d]
    BY <1>1, <1>4
  <2>3. SameLocks(p) /\ Requests(p)'
    BY <1>2, <1>4, <2>2 DEF SameLocks, Requests
  <2> QED
    BY <1>2, <2>1, <2>3, Operate
<1>5. ASSUME NEW v, e # Lib!NoEntry, point # "read",
             blockmap' = [blockmap EXCEPT ![p][b] = [e EXCEPT !.data = v]]
      PROVE  SInv'
  BY <1>1, <1>4, <1>5, EntryOps DEF Lib!Owned
<1>6. CASE /\ Lib!Owned(e) /\ point = "body"
           /\ blockmap' = [blockmap EXCEPT ![p][b] = [e EXCEPT !.lock = "S_LOCK"]]
  <2>1. e # Lib!NoEntry
    BY <1>6, NoEntryFacts
  <2> QED
    BY <1>1, <1>4, <1>6, <2>1, EntryOps DEF Lib!Owned
<1> QED
  BY <1>3, <1>5, <1>6

LEMMA OperationInv ==
  ASSUME SInv, NEW p \in Procs, UNCHANGED <<vars, conn>>,
         \/ Lib!Allocate(p) \/ Lib!UserAbort(p)
         \/ \E b \in Blocks : \/ Lib!Read(p, b) \/ Lib!Release(p, b)
                              \/ \E v \in Values \ {Zeros} : Lib!Write(p, b, v)
  PROVE  SInv'
<1>1. SysTypes /\ pc[p] = "body" /\ pc = [pc EXCEPT ![p] = "body"]
  BY DEF SInv, SysTypes, Lib!Allocate, Lib!UserAbort, Lib!Read, Lib!Release, Lib!Write, Lib!Calls
<1>2. CASE Lib!Allocate(p)
  <2>1. /\ pc' = [pc EXCEPT ![p] = "probe"]
        /\ Lib!NextFreeBlock(p)
        /\ UNCHANGED <<blk, blockmap, thrown>>
    BY <1>2 DEF Lib!Allocate, Lib!Goto, Lib!object
  <2>2. pc'[p] = "probe" /\ last_free_block'[p] >= 1
    BY <1>1, <2>1 DEF SysTypes, Lib!NextFreeBlock
  <2>3. SysTypes' /\ OnlyMoves(p)
    BY <1>1, <2>1, Called DEF Lib!Points
  <2> QED
    BY <1>1, <2>1, <2>2, <2>3, Operate DEF SameLocks, Requests
<1>3. CASE Lib!UserAbort(p)
  <2>1. /\ pc' = [pc EXCEPT ![p] = "destroy"] /\ thrown' = [thrown EXCEPT ![p] = "TE_ABORT"]
        /\ UNCHANGED <<blk, blockmap, last_free_block>>
    BY <1>3 DEF Lib!UserAbort, Lib!Abort, Lib!Throw, Lib!Goto
  <2>2. pc'[p] = "destroy"
    BY <1>1, <2>1 DEF SysTypes
  <2>3. SysTypes' /\ OnlyMoves(p)
    BY <1>1, <2>1, Called DEF Lib!Points
  <2> QED
    BY <1>1, <2>1, <2>2, <2>3, Operate DEF SameLocks, Requests
<1>4. ASSUME NEW b \in Blocks, Lib!Read(p, b) PROVE SInv'
  <2>1. \E point \in {"body", "destroy", "read"} :
          /\ pc' = [pc EXCEPT ![p] = point]
          /\ point = "read" => blockmap[p][b] = Lib!NoEntry
    BY <1>1, <1>4 DEF Lib!Read, Lib!StayInBody, Lib!RequestOrAbort, Lib!Abort, Lib!Throw, Lib!Goto
  <2>2. /\ UNCHANGED <<blockmap, last_free_block>> /\ blk' = [blk EXCEPT ![p] = b]
        /\ thrown' = thrown \/ thrown' = [thrown EXCEPT ![p] = "TE_ABORT"]
    BY <1>4 DEF Lib!Read, Lib!StayInBody, Lib!RequestOrAbort, Lib!Abort, Lib!Throw
  <2> QED
    BY <1>1, <2>1, <2>2, BlockOperation
<1>5. ASSUME NEW b \in Blocks, Lib!Release(p, b) PROVE SInv'
  <2> DEFINE e == blockmap[p][b]
  <2>1. /\ UNCHANGED last_free_block /\ blk' = [blk EXCEPT ![p] = b]
        /\ thrown' = thrown \/ thrown' = [thrown EXCEPT ![p] = "TE_ABORT"]
    BY <1>5 DEF Lib!Release, Lib!StayInBody, Lib!RequestOrAbort, Lib!Abort, Lib!Throw
  <2>2. CASE Lib!Owned(e)
    <3>1. UNCHANGED pc /\ blockmap' = [blockmap EXCEPT ![p][b] = [e EXCEPT !.lock = "S_LOCK"]]
      BY <1>5, <2>2 DEF Lib!Release, Lib!StayInBody, Lib!SetEntry
    <3> QED
      BY <1>1, <2>1, <2>2, <3>1, BlockOperation
  <2>3. CASE ~Lib!Owned(e)
    <3>1. \E point \in {"release", "destroy"} : pc' = [pc EXCEPT ![p] = point]
      BY <1>5, <2>3 DEF Lib!Release, Lib!RequestOrAbort, Lib!Abort, Lib!Throw, Lib!Goto
    <3>2. \/ UNCHANGED blockmap
          \/ /\ e # Lib!NoEntry
             /\ blockmap' = [blockmap EXCEPT ![p][b] = [e EXCEPT !.data = Lib!NULL]]
      BY <1>5, <2>3 DEF Lib!Release, Lib!DropReadBuffer
    <3> QED
      BY <1>1, <2>1, <2>3, <3>1, <3>2, BlockOperation
  <2> QED
    BY <2>2, <2>3
<1>6. ASSUME NEW b \in Blocks, NEW v, Lib!Write(p, b, v) PROVE SInv'
  <2> DEFINE e == blockmap[p][b]
  <2>1. /\ UNCHANGED last_free_block /\ blk' = [blk EXCEPT ![p] = b]
    BY <1>6 DEF Lib!Write
  <2>2. CASE e.lock = "S_LOCK"
    <3>1. /\ pc' = [pc EXCEPT ![p] = "destroy"] /\ thrown' = [thrown EXCEPT ![p] = "TE_ABORT"]
          /\ UNCHANGED blockmap
      BY <1>6, <2>2 DEF Lib!Write, Lib!Abort, Lib!Throw, Lib!Goto
    <3> QED
      BY <1>1, <2>1, <3>1, BlockOperation
  <2>3. CASE e.lock \in {"A_LOCK", "W_LOCK"}
    <3>1. /\ UNCHANGED <<pc, thrown>>
          /\ blockmap' = [blockmap EXCEPT ![p][b] = [e EXCEPT !.data = v]]
      BY <1>6, <2>3 DEF Lib!Write, Lib!StayInBody, Lib!SetEntry
    <3>2. e # Lib!NoEntry
      BY <2>3, NoEntryFacts DEF Lib!Owned
    <3> QED
      BY <1>1, <2>1, <3>1, <3>2, BlockOperation
  <2>4. CASE e.lock \notin {"A_LOCK", "W_LOCK", "S_LOCK"}
    <3>1. /\ Lib!RequestOrAbort(p, b, "write")
          /\ blockmap' = IF e = Lib!NoEntry THEN blockmap ELSE Lib!DropReadBuffer(p, b)
      BY <1>6, <2>4 DEF Lib!Write
    <3>2. /\ \E point \in {"write", "destroy"} : pc' = [pc EXCEPT ![p] = point]
          /\ thrown' = thrown \/ thrown' = [thrown EXCEPT ![p] = "TE_ABORT"]
          /\ ~Lib!Owned(e)
      BY <2>4, <3>1 DEF Lib!RequestOrAbort, Lib!Abort, Lib!Throw, Lib!Goto, Lib!Owned
    <3>3. \/ UNCHANGED blockmap
          \/ /\ e # Lib!NoEntry
             /\ blockmap' = [blockmap EXCEPT ![p][b] = [e EXCEPT !.data = Lib!NULL]]
      BY <3>1 DEF Lib!DropReadBuffer
    <3> QED
      BY <1>1, <2>1, <3>2, <3>3, BlockOperation
  <2> QED
    BY <2>2, <2>3, <2>4
<1> QED
  BY <1>2, <1>3, <1>4, <1>5, <1>6

\* find_free_block goes on, asks, or gives up.
LEMMA ProbeInv ==
  ASSUME SInv, NEW p \in Procs, UNCHANGED <<vars, conn>>, Lib!Probe(p)
  PROVE  SInv'
<1> DEFINE b == last_free_block[p]
<1>1. /\ SysTypes /\ Agree(p) /\ pc[p] = "probe" /\ b \in Nat /\ b >= 1
      /\ UNCHANGED <<phase, held, blk, blockmap, thrown>>
  BY DEF SInv, SysTypes, Agree, Requests, Lib!Probe, Lib!object, vars, clientVars
<1>2. conn[p] # NoConnection /\ phase[conn[p]] = "running"
  BY <1>1 DEF Agree, Connected, PhaseAgrees
<1>3. \/ pc' = [pc EXCEPT ![p] = "restart"] /\ UNCHANGED last_free_block
      \/ /\ b \in Blocks
         /\ pc' = [pc EXCEPT ![p] = "allocate"] /\ UNCHANGED last_free_block
      \/ UNCHANGED pc /\ Lib!NextFreeBlock(p)
  BY <1>1, BlocksAssumption DEF Lib!Probe, Lib!Goto
<1>4. \E x \in {"restart", "allocate", "probe"} :
        /\ pc' = [pc EXCEPT ![p] = x] /\ pc'[p] = x
        /\ last_free_block'[p] >= 1
        /\ x = "allocate" => last_free_block'[p] \in Blocks
  BY <1>1, <1>3 DEF SysTypes, Lib!NextFreeBlock
<1>5. SysTypes' /\ OnlyMoves(p)
  BY <1>1, <1>3, <1>4, Called DEF Lib!Points
<1>6. Requests(p)' /\ PhaseAgrees(p)'
  BY <1>2, <1>1, <1>4 DEF Requests, PhaseAgrees
<1>7. LocksAgree(p)'
  BY <1>1, <1>4 DEF Agree, LocksAgree, Lib!Owned
<1> QED
  BY <1>2, <1>4, <1>5, <1>6, <1>7, Unaided

\* The read from the store: the entry for the lock that was granted.
LEMMA FetchInv ==
  ASSUME SInv, NEW p \in Procs, UNCHANGED <<vars, conn>>,
         Lib!FetchRead(p) \/ Lib!FetchWrite(p) \/ Lib!FetchRelease(p)
  PROVE  SInv'
<1> DEFINE b == blk[p]
<1> DEFINE Fetches(lock, v, w) ==
             /\ pc[p] = CASE lock = "R_LOCK" -> "readGranted"
                          [] lock = "W_LOCK" -> "writeGranted"
                          [] lock = "S_LOCK" -> "releaseGranted"
             /\ blockmap' = [blockmap EXCEPT ![p][b] = Lib!Entry(lock, v, w, "A")]
             /\ pc' = [pc EXCEPT ![p] = "body"]
             /\ UNCHANGED <<blk, thrown, last_free_block>>
<1>0. PICK lock \in {"R_LOCK", "W_LOCK", "S_LOCK"} : \E v, w : Fetches(lock, v, w)
  BY DEF Lib!FetchRead, Lib!FetchWrite, Lib!FetchRelease, Lib!Fetch, Lib!SetEntry, Lib!Goto,
         Lib!statics
<1>1. PICK v, w : Fetches(lock, v, w)
  BY <1>0
<1> DEFINE e == Lib!Entry(lock, v, w, "A")
<1>2. IsEntry(e) /\ e # Lib!NoEntry /\ e.lock = lock
  BY NoEntryFacts DEF Lib!LockTypes
<1> HIDE DEF e
<1>3. /\ SysTypes /\ Agree(p) /\ b \in Blocks /\ pc[p] \in Granted
      /\ UNCHANGED <<phase, held>>
  BY <1>1 DEF SInv, Agree, Requests, vars, clientVars
<1>4. conn[p] # NoConnection /\ phase[conn[p]] = "running"
  BY <1>3 DEF Agree, Connected, PhaseAgrees
<1>5. /\ pc'[p] = "body" /\ blockmap'[p][b] = e
      /\ \A d \in Blocks \ {b} : blockmap'[p][d] = blockmap[p][d]
  BY <1>1, <1>3 DEF SysTypes, e
<1>6. SysTypes' /\ OnlyMoves(p)
  BY <1>1, <1>2, <1>3, Called DEF Lib!Points, e
<1>7. Requests(p)' /\ PhaseAgrees(p)'
  BY <1>3, <1>4, <1>5 DEF Requests, PhaseAgrees
<1>8. LocksAgree(p)'
  BY <1>1, <1>2, <1>3, <1>4, <1>5 DEF Agree, LocksAgree, Lib!Owned
<1> QED
  BY <1>4, <1>5, <1>6, <1>7, <1>8, Unaided

LEMMA AloneInv == ASSUME SInv, NEW p \in Procs, Alone(p) PROVE SInv'
<1>1. UNCHANGED <<vars, conn>> /\ SysTypes
  BY DEF Alone, SInv
<1>2. CASE Lib!CommitWrite(p)
  <2>1. UNCHANGED <<pc, blk, blockmap, thrown, last_free_block>> /\ pc[p] = "writing"
    BY <1>2 DEF Lib!CommitWrite, Lib!object, Lib!statics
  <2>2. /\ Agree(p) /\ UNCHANGED <<phase, held>> /\ conn[p] # NoConnection
    BY <1>1, <2>1 DEF SInv, Agree, Connected, vars, clientVars
  <2>3. SysTypes' /\ OnlyMoves(p)
    BY <1>1, <2>1 DEF SysTypes, OnlyMoves
  <2>4. Requests(p)' /\ PhaseAgrees(p)' /\ LocksAgree(p)'
    BY <1>1, <2>1, <2>2 DEF Agree, Requests, PhaseAgrees, LocksAgree, Lib!Owned
  <2> QED
    BY <1>1, <2>1, <2>2, <2>3, <2>4, Unaided
<1> QED
  BY <1>1, <1>2, OperationInv, ProbeInv, FetchInv DEF Alone

-----------------------------------------------------------------------------
(* The invariant of the composition.                                       *)

\* The monitor acts on its own: it reads the end of a connection, time passes.
LEMMA MonitorAloneInv ==
  ASSUME SInv, (\E c \in Clients : SysDisconnect(c)) \/ Clock
  PROVE  SInv'
<1>1. UNCHANGED <<pc, blk, last_free_block, blockmap, thrown, conn>>
  BY DEF SysDisconnect, Clock, libVars
<1>2. SysTypes /\ SysTypes' /\ ConnUnique'
  BY <1>1 DEF SInv, SysTypes, ConnUnique
<1>3. IInv'
  BY NextInv DEF SInv, SysDisconnect, Clock, Next
<1>4. ASSUME NEW q \in Procs, conn[q] # NoConnection
      PROVE  phase'[conn[q]] = phase[conn[q]] /\ held'[conn[q]] = held[conn[q]]
  BY <1>2, <1>4 DEF SysDisconnect, Clock, Disconnect, SliceExpires, clientVars, SInv, SysTypes,
                    IInv, TypeOK
<1>5. ASSUME NEW q \in Procs PROVE Agree(q)'
  BY <1>1, <1>2, <1>4, Bystander DEF SInv
<1> QED
  BY <1>2, <1>3, <1>5 DEF SInv

LEMMA SysInitInv == SysInit => SInv
<1> SUFFICES ASSUME SysInit PROVE SInv
  OBVIOUS
<1>1. IInv
  BY InitInv DEF SysInit
<1>2. /\ DOMAIN Lib!EmptyMap = Blocks
      /\ \A b \in Blocks : Lib!EmptyMap[b] = Lib!NoEntry
  BY BlocksAssumption DEF Lib!EmptyMap, Lib!BlockNumbers
<1>3. SysTypes
  BY <1>2, NoEntryFacts DEF SysInit, Lib!Init, SysTypes, Lib!Points
<1>4. ConnUnique /\ \A p \in Procs : Agree(p)
  BY DEF SysInit, Lib!Init, ConnUnique, Agree, Connected, Requests, PhaseAgrees, LocksAgree
<1> QED
  BY <1>1, <1>3, <1>4 DEF SInv

LEMMA SysNextInv == SInv /\ [SysNext]_sysVars => SInv'
<1> SUFFICES ASSUME SInv, [SysNext]_sysVars PROVE SInv'
  OBVIOUS
<1>1. CASE UNCHANGED sysVars
  <2>1. UNCHANGED <<vars, pc, blk, last_free_block, blockmap, thrown, conn>>
    BY <1>1 DEF sysVars, libVars
  <2>2. IInv' /\ SysTypes' /\ ConnUnique' /\ SysTypes
    BY <2>1, NextInv DEF SInv, SysTypes, ConnUnique
  <2>3. ASSUME NEW q \in Procs PROVE Agree(q)'
    BY <2>1, <2>2, Bystander DEF SInv, vars, clientVars
  <2> QED
    BY <2>2, <2>3 DEF SInv
<1>2. ASSUME NEW p \in Procs, Process(p) PROVE SInv'
  BY <1>2, ConnectInv, AskForLockInv, AskOtherInv, AskInVainInv, AloneInv, DestroyInv DEF Process
<1>3. CASE (\E c \in Clients : SysDisconnect(c)) \/ Clock
  BY <1>3, MonitorAloneInv
<1> QED
  BY <1>1, <1>2, <1>3 DEF SysNext

\* What the library of every process believes agrees with what the monitor has
\* granted its connection, in every reachable state of the composition.
THEOREM SystemInvariance == SysSpec => []SInv
  BY SysInitInv, SysNextInv, PTL DEF SysSpec

\* Every request of the library finds the monitor where the library believes it to
\* be: its lock and state checks never meet a surprise.
THEOREM LibraryInProtocol == SysSpec => []InProtocol
<1>1. ASSUME SInv, NEW p \in Procs, conn[p] # NoConnection
      PROVE  /\ pc[p] = "begin" <=> phase[conn[p]] = "connected"
             /\ pc[p] \in {"body", "read", "write", "release", "allocate"}
                  => phase[conn[p]] = "running"
             /\ pc[p] = "restart" => phase[conn[p]] \in {"running", "refused"}
             /\ pc[p] = "writing" => phase[conn[p]] = "committing"
  BY <1>1 DEF SInv, Agree, PhaseAgrees
<1>2. ASSUME SInv, NEW p \in Procs, conn[p] # NoConnection
      PROVE  /\ pc[p] = "read" => held[conn[p]][blk[p]] = "none"
             /\ pc[p] \in {"write", "release"} => held[conn[p]][blk[p]] # "W"
  BY <1>2 DEF SInv, Agree, Requests, LocksAgree
<1>3. SInv => InProtocol
  BY <1>1, <1>2 DEF InProtocol
<1> QED
  BY SystemInvariance, <1>3, PTL

\* No process computes on the copy of a block that is not locked for it, in the mode
\* the copy is for, unless it was preempted and is yet to be told.
THEOREM EntriesAreLocked == SysSpec => []EntriesLocked
<1>1. ASSUME SInv, NEW p \in Procs, NEW b \in Blocks, conn[p] # NoConnection,
             ~Preempted(conn[p]), blockmap[p][b] # Lib!NoEntry
      PROVE  IF Lib!Owned(blockmap[p][b]) THEN writer[b] = transactions[conn[p]]
             ELSE transactions[conn[p]] \in readers[b] \cup {writer[b]}
  <2>1. conn[p] \in Clients /\ held[conn[p]][b] \in LockModes
    BY <1>1 DEF SInv, SysTypes, IInv, TypeOK
  <2>2. /\ held[conn[p]][b] # "none"
        /\ Lib!Owned(blockmap[p][b]) => held[conn[p]][b] = "W"
    BY <1>1 DEF SInv, Agree, LocksAgree
  <2>3. /\ held[conn[p]][b] = "W" => writer[b] = transactions[conn[p]]
        /\ held[conn[p]][b] = "R" => transactions[conn[p]] \in readers[b]
    BY <1>1, <2>1 DEF SInv, IInv, GrantStands
  <2> QED
    BY <1>1, <2>1, <2>2, <2>3 DEF LockModes
<1>2. SInv => EntriesLocked
  BY <1>1 DEF EntriesLocked
<1> QED
  BY SystemInvariance, <1>2, PTL

-----------------------------------------------------------------------------
(* The parts within the whole.                                             *)

\* A step of the composition is a step of the monitor, or none: the clients of
\* Monitor may do all that the library does.
LEMMA MonitorStep == SInv /\ [SysNext]_sysVars => [Next]_vars
<1> SUFFICES ASSUME SInv, [SysNext]_sysVars PROVE [Next]_vars
  OBVIOUS
<1>1. CASE UNCHANGED sysVars
  BY <1>1 DEF sysVars
<1>2. ASSUME NEW p \in Procs, Process(p) PROVE [Next]_vars
  <2>1. conn[p] # NoConnection => conn[p] \in Clients
    BY DEF SInv, SysTypes
  <2>2. /\ pc[p] \in {"read", "write", "release"} => blk[p] \in Blocks
        /\ pc[p] = "allocate" => last_free_block[p] \in Blocks
    BY DEF SInv, Agree, Requests
  <2>3. CASE Connect(p)
    BY <2>3 DEF Connect, Next
  <2>4. CASE AskForLock(p)
    BY <2>1, <2>2, <2>4 DEF AskForLock, Next, Request
  <2>5. CASE AskOther(p) \/ AskInVain(p)
    BY <2>1, <2>5 DEF AskOther, AskInVain, Next, Request
  <2>6. CASE Alone(p) \/ Destroy(p)
    BY <2>6 DEF Alone, Destroy
  <2> QED
    BY <1>2, <2>3, <2>4, <2>5, <2>6 DEF Process
<1>3. CASE (\E c \in Clients : SysDisconnect(c)) \/ Clock
  BY <1>3 DEF SysDisconnect, Clock, Next
<1> QED
  BY <1>1, <1>2, <1>3 DEF SysNext

\* It is a step of the library, or none.
LEMMA LibraryStep == SInv /\ [SysNext]_sysVars => [Lib!Next]_(Lib!vars)
<1> SUFFICES ASSUME SInv, [SysNext]_sysVars PROVE [Lib!Next]_(Lib!vars)
  OBVIOUS
<1> USE DEF Lib!vars, Lib!files, Lib!object, Lib!statics, Lib!bounds
<1>0. libVars' = libVars => UNCHANGED Lib!vars
  BY DEF libVars
<1>1. CASE UNCHANGED sysVars
  BY <1>0, <1>1 DEF sysVars
<1>2. ASSUME NEW p \in Procs, Process(p) PROVE Lib!Step(p)
  <2>1. \A x : Verdict(x) \in Lib!Replies
    BY DEF Verdict, Lib!Replies
  <2>2. \A x, b : AllocateVerdict(x, b) \in Lib!Replies
    BY DEF AllocateVerdict, Lib!Replies
  <2>3. CASE Connect(p) \/ Destroy(p)
    BY <2>3 DEF Connect, Destroy, Lib!Step
  <2>4. CASE AskForLock(p)
    BY <2>1, <2>2, <2>4 DEF AskForLock, Lib!Step, Lib!Ask
  <2>5. CASE AskOther(p) \/ AskInVain(p)
    BY <2>5 DEF AskOther, AskInVain, Lib!Step, Lib!Ask, Lib!Replies
  <2>6. CASE Alone(p)
    BY <2>6, BlocksAssumption DEF Alone, Lib!Step, Lib!Operation, Lib!BlockNumbers
  <2> QED
    BY <1>2, <2>3, <2>4, <2>5, <2>6 DEF Process
<1>3. CASE (\E c \in Clients : SysDisconnect(c)) \/ Clock
  BY <1>0, <1>3 DEF SysDisconnect, Clock
<1> QED
  BY <1>1, <1>2, <1>3 DEF SysNext, Lib!Next

\* The composition adds nothing to what each part may do, so what is proved of
\* Monitor and of Transaction holds of it: its monitor is Monitor with the clients
\* that the library makes of programs, its library is Transaction with the replies
\* that the monitor gives.
THEOREM PartsInside == SysSpec => Spec /\ Lib!Spec
<1>1. SysInit => Init /\ Lib!Init
  BY DEF SysInit
<1> QED
  BY <1>1, SystemInvariance, MonitorStep, LibraryStep, PTL DEF SysSpec, Spec, Lib!Spec

=============================================================================
