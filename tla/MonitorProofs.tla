--------------------------- MODULE MonitorProofs ---------------------------
(***************************************************************************)
(* Theorems about Monitor, for every set of clients, every set of blocks   *)
(* and every MaxTid.                                                       *)
(***************************************************************************)
EXTENDS Monitor, TLAPS

\* The conjuncts lean on each other.  That a grant marks every loser PREEMPTED
\* (GrantStands) needs LocksExclude, so that the writer and the readers of a
\* block are never to be evicted together, and TablesAgree, so that two clients
\* never share a transaction and update_status finds every victim.
IInv ==
  /\ TypeOK
  /\ TablesAgree
  /\ LocksExclude
  /\ GrantStands
  /\ NoPhantomLock
  /\ ProtocolState

USE DEF Tids, StatusValues, Phases, LockModes, Live, Preempted

-----------------------------------------------------------------------------
\* What process_clientrq may rely on when it lets a request through: the
\* requester has a transaction of its own that is alive and not PREEMPTED.
LEMMA HeardFacts ==
  ASSUME IInv, NEW c \in Clients, Heard(c, {"running", "refused", "committing"})
  PROVE  /\ transactions[c] \in Tids
         /\ transactions[c] < next_tid
         /\ status[transactions[c]] \in StatusValues \ {"PREEMPTED"}
         /\ phase[c] # "committing" => status[transactions[c]] # "COMMITTING"
         /\ \A d \in Clients \ {c} : transactions[d] # transactions[c]
  BY DEF IInv, TypeOK, TablesAgree, ProtocolState, Heard

LEMMA InitInv == Init => IInv
<1> SUFFICES ASSUME Init PROVE IInv
  OBVIOUS
<1>1. TypeOK
  BY MaxTidAssumption DEF Init, TypeOK, NoLocks
<1>2. TablesAgree
  BY DEF Init, TablesAgree
<1>3. LocksExclude /\ GrantStands /\ NoPhantomLock /\ ProtocolState
  BY DEF Init, LocksExclude, GrantStands, NoPhantomLock, ProtocolState, NoLocks
<1> QED
  BY <1>1, <1>2, <1>3 DEF IInv

-----------------------------------------------------------------------------
(* Connections.                                                            *)

LEMMA AcceptInv == ASSUME IInv, NEW c \in Clients, Accept(c) PROVE IInv'
  BY DEF IInv, TypeOK, TablesAgree, LocksExclude, GrantStands, NoPhantomLock,
         ProtocolState, Accept, monitorVars

LEMMA BeginInv == ASSUME IInv, NEW c \in Clients, Begin(c) PROVE IInv'
<1> USE DEF IInv, Begin
<1>1. transactions[c] = 0 /\ held[c] = NoLocks /\ next_tid \in Tids
  BY MaxTidAssumption DEF TypeOK, ProtocolState
<1>2. status[next_tid] = "NONE"
  BY <1>1, MaxTidAssumption DEF TablesAgree, TypeOK
<1>3. TypeOK'
  BY <1>1, MaxTidAssumption DEF TypeOK
<1>4. TablesAgree'
  BY <1>1, <1>2, MaxTidAssumption DEF TypeOK, TablesAgree
<1>5. LocksExclude'
  BY DEF LocksExclude
<1>6. GrantStands'
  BY <1>1, <1>2, MaxTidAssumption DEF GrantStands, TypeOK, NoLocks, TablesAgree
<1>7. NoPhantomLock'
  BY <1>1, MaxTidAssumption DEF NoPhantomLock, TypeOK
<1>8. ProtocolState'
  BY <1>1, <1>2, MaxTidAssumption DEF ProtocolState, TypeOK, TablesAgree
<1> QED
  BY <1>3, <1>4, <1>5, <1>6, <1>7, <1>8

\* A connection that ends takes its transaction's locks with it and no others:
\* no other connection has that transaction.
LEMMA DisconnectInv == ASSUME IInv, NEW c \in Clients, Disconnect(c) PROVE IInv'
<1> DEFINE t == transactions[c]
<1> USE DEF IInv
<1>1. CASE t = 0
  <2> USE <1>1 DEF Disconnect, Interrupted
  <2>1. UNCHANGED <<status, readers, writer, next_tid>> /\ transactions' = transactions
    BY DEF TypeOK
  <2>2. rollbacks' = rollbacks
    BY DEF TypeOK
  <2>3. TypeOK'
    BY <2>1, <2>2 DEF TypeOK, NoLocks
  <2>4. TablesAgree' /\ LocksExclude'
    BY <2>1 DEF TablesAgree, LocksExclude
  <2>5. GrantStands'
    BY <2>1 DEF GrantStands, NoLocks, TypeOK
  <2>6. held[c] = NoLocks /\ held' = held
    BY DEF ProtocolState, TypeOK
  <2>7. NoPhantomLock'
    BY <2>1, <2>6 DEF NoPhantomLock
  <2>8. ProtocolState'
    BY <2>1, <2>6 DEF ProtocolState, TypeOK
  <2> QED
    BY <2>3, <2>4, <2>5, <2>7, <2>8
<1>2. CASE t # 0
  <2> USE <1>2 DEF Disconnect
  <2>1. t \in Tids /\ \A d \in Clients \ {c} : transactions[d] # t
    BY DEF TypeOK, TablesAgree
  <2>2. /\ transactions' = [transactions EXCEPT ![c] = 0]
        /\ status' = [status EXCEPT ![t] = "NONE"]
        /\ readers' = FlushReaders(t)
        /\ writer' = FlushWriter(t)
        /\ next_tid' = next_tid
    OBVIOUS
  <2>3. \A b \in Blocks : /\ t \notin readers'[b]
                          /\ writer'[b] # t
                          /\ readers'[b] = readers[b] \ {t}
                          /\ writer'[b] = IF writer[b] = t THEN 0 ELSE writer[b]
    BY <2>1, <2>2 DEF FlushReaders, FlushWriter, LocksExclude, TypeOK
  <2>4. TypeOK'
    <3>1. readers' \in [Blocks -> SUBSET Tids] /\ writer' \in [Blocks -> Tids \cup {0}]
      BY <2>2 DEF TypeOK, FlushReaders, FlushWriter
    <3>2. Interrupted(c) \subseteq Tids
      BY <2>1 DEF Interrupted
    <3>3. NoLocks \in [Blocks -> LockModes]
      BY DEF NoLocks
    <3> QED
      BY <2>1, <2>2, <3>1, <3>2, <3>3 DEF TypeOK
  <2>5. TablesAgree'
    BY <2>1, <2>2, <2>3, <2>4 DEF TablesAgree, TypeOK
  <2>6. LocksExclude'
    BY <2>3, <2>4 DEF LocksExclude, TypeOK
  <2>7. GrantStands'
    BY <2>1, <2>2, <2>3, <2>4 DEF GrantStands, TypeOK, NoLocks
  <2>8. NoPhantomLock'
    BY <2>1, <2>2, <2>3 DEF NoPhantomLock, TypeOK
  <2>9. ProtocolState'
    BY <2>1, <2>2 DEF ProtocolState, TypeOK
  <2> QED
    BY <2>4, <2>5, <2>6, <2>7, <2>8, <2>9
<1> QED
  BY <1>1, <1>2

LEMMA SliceExpiresInv == ASSUME IInv, NEW t \in Tids, SliceExpires(t) PROVE IInv'
  BY DEF IInv, TypeOK, TablesAgree, LocksExclude, GrantStands, NoPhantomLock,
         ProtocolState, SliceExpires, monitorVars, clientVars

\* Neither DIE nor a refusal touches the tables; the client only moves on.
LEMMA ClientMovesInv ==
  ASSUME IInv, NEW c \in Clients, Die(c) \/ (Heard(c, {"running"}) /\ Refuse(c))
  PROVE  IInv'
<1> USE DEF IInv, Die, Refuse, Heard
<1>1. UNCHANGED <<next_tid, transactions, status, readers, writer, rollbacks, expired, held>>
  BY DEF monitorVars
<1>2. TypeOK'
  BY <1>1 DEF TypeOK
<1>3. TablesAgree' /\ LocksExclude'
  BY <1>1 DEF TablesAgree, LocksExclude
<1>4. GrantStands' /\ NoPhantomLock'
  BY <1>1 DEF GrantStands, NoPhantomLock
<1>5. ProtocolState'
  BY <1>1 DEF ProtocolState, TypeOK
<1> QED
  BY <1>2, <1>3, <1>4, <1>5

\* The requests that end a transaction only set its status.
LEMMA EndingInv ==
  ASSUME IInv, NEW c \in Clients,
         RestartRq(c) \/ AbortRq(c) \/ CommitRq(c) \/ EndRq(c)
  PROVE  IInv'
<1> DEFINE t == transactions[c]
<1>0. Heard(c, {"running", "refused", "committing"})
  BY DEF RestartRq, AbortRq, CommitRq, EndRq, Heard
<1>1. /\ t \in Tids
      /\ status[t] \in StatusValues \ {"PREEMPTED"}
      /\ \A d \in Clients \ {c} : transactions[d] # t
  BY <1>0, HeardFacts
<1>2. PICK s \in {"RESTARTING", "ABORTING", "COMMITTING", "ENDED"} :
        /\ status' = [status EXCEPT ![t] = s]
        /\ phase' = [phase EXCEPT ![c] = IF s = "COMMITTING" THEN "committing"
                                                             ELSE "leaving"]
  BY DEF RestartRq, AbortRq, CommitRq, EndRq
<1>3. UNCHANGED <<next_tid, transactions, readers, writer, rollbacks, expired, held>>
  BY DEF RestartRq, AbortRq, CommitRq, EndRq
<1> HIDE DEF t
<1> USE DEF IInv
<1>4. TypeOK'
  BY <1>1, <1>2, <1>3 DEF TypeOK
<1>5. \A u \in Tids : /\ Live(u)' <=> Live(u)
                      /\ status'[u] = "PREEMPTED" <=> status[u] = "PREEMPTED"
  BY <1>1, <1>2 DEF TypeOK
<1>6. TablesAgree' /\ LocksExclude' /\ GrantStands' /\ NoPhantomLock'
  BY <1>3, <1>5 DEF TypeOK, TablesAgree, LocksExclude, GrantStands, NoPhantomLock
<1>7. phase[c] \notin {"off", "connected"}
  BY <1>0 DEF Heard
<1>8. ProtocolState'
  BY <1>1, <1>2, <1>3, <1>7 DEF ProtocolState, TypeOK, t
<1> QED
  BY <1>4, <1>6, <1>8

-----------------------------------------------------------------------------
(* Grants.                                                                 *)

\* What a grant does to the transaction table.
LEMMA PreemptingFacts ==
  ASSUME TypeOK, NEW t \in Tids, Live(t), NEW s \in StatusValues, NEW victims,
         status' = Preempting(victims, t, s)
  PROVE  /\ status' \in [Tids -> StatusValues \cup {"NONE"}]
         /\ status'[t] = s
         /\ \A u \in Tids : Live(u)' <=> Live(u)
         /\ \A u \in Tids \ {t} : status'[u] = IF u \in victims /\ Live(u)
                                               THEN "PREEMPTED" ELSE status[u]
  BY DEF TypeOK, Preempting

LEMMA GrantReadInv ==
  ASSUME IInv, NEW c \in Clients, NEW b \in Blocks,
         Heard(c, {"running"}), held[c][b] = "none", GrantRead(c, b)
  PROVE  IInv'
<1> DEFINE t == transactions[c]
           victims == {writer[b]}
<1>1. /\ t \in Tids
      /\ Live(t)
      /\ \A d \in Clients \ {c} : transactions[d] # t
      /\ phase[c] = "running"
  BY HeardFacts DEF Heard
<1>2. /\ status' = Preempting(victims, t, "READING")
      /\ readers' = [readers EXCEPT ![b] = @ \cup {t}]
      /\ writer' = [writer EXCEPT ![b] = 0]
      /\ held' = [held EXCEPT ![c][b] = "R"]
      /\ UNCHANGED <<next_tid, transactions, rollbacks, phase, expired>>
  BY DEF GrantRead
<1> HIDE DEF t, victims
<1> USE DEF IInv
<1>3. /\ status' \in [Tids -> StatusValues \cup {"NONE"}]
      /\ status'[t] = "READING"
      /\ \A u \in Tids : Live(u)' <=> Live(u)
      /\ \A u \in Tids \ {t} : status'[u] = IF u \in victims /\ Live(u)
                                            THEN "PREEMPTED" ELSE status[u]
  BY <1>1, <1>2, PreemptingFacts
<1>4. TypeOK'
  BY <1>1, <1>2, <1>3 DEF TypeOK
<1>5. TablesAgree'
  <2>1. \A u \in Tids : Live(u)' <=> \E d \in Clients : transactions'[d] = u
    BY <1>2, <1>3 DEF TablesAgree
  <2>2. \A x \in Blocks : /\ writer'[x] # 0 => Live(writer[x])'
                          /\ \A r \in readers'[x] : Live(r)'
    <3> SUFFICES ASSUME NEW x \in Blocks, NEW u \in Tids,
                        u = writer'[x] \/ u \in readers'[x]
                 PROVE  Live(u)'
      BY <1>4 DEF TypeOK
    <3>1. u \in {t, writer[x]} \/ u \in readers[x]
      BY <1>2 DEF TypeOK
    <3>2. u # 0
      OBVIOUS
    <3>3. Live(u)
      BY <1>1, <3>1, <3>2 DEF TablesAgree
    <3> QED
      BY <1>3, <3>3
  <2> QED
    BY <1>2, <2>1, <2>2 DEF TablesAgree
<1>6. LocksExclude'
  BY <1>2 DEF TypeOK, LocksExclude
<1>7. GrantStands'
  <2> SUFFICES ASSUME NEW d \in Clients, NEW x \in Blocks, ~Preempted(d)'
               PROVE  /\ held'[d][x] = "W" => writer'[x] = transactions'[d]
                      /\ held'[d][x] = "R" => transactions'[d] \in readers'[x]
    BY DEF GrantStands
  <2>1. CASE d = c
    <3>1. ~Preempted(c)
      BY DEF Heard
    <3> QED
      BY <1>1, <1>2, <2>1, <3>1 DEF GrantStands, TypeOK, t
  <2>2. CASE d # c
    <3>1. transactions[d] # t /\ held'[d] = held[d]
      BY <1>1, <1>2, <2>2 DEF TypeOK
    <3>2. ~Preempted(d) /\ (transactions[d] # 0 => transactions[d] \notin victims)
      BY <1>2, <1>3, <3>1 DEF TypeOK, TablesAgree
    <3>3. held[d][b] # "W"
      BY <3>2 DEF GrantStands, ProtocolState, NoLocks, victims
    <3> QED
      BY <1>2, <3>1, <3>2, <3>3 DEF GrantStands, TypeOK
  <2> QED
    BY <2>1, <2>2
<1>8. NoPhantomLock'
  BY <1>1, <1>2 DEF NoPhantomLock, TypeOK, t
<1>9. ProtocolState'
  BY <1>1, <1>2, <1>3 DEF ProtocolState, TypeOK, t
<1> QED
  BY <1>4, <1>5, <1>6, <1>7, <1>8, <1>9

\* The two ways to a write lock: can_write, which evicts whom it preempts, and
\* the upgrade of the sole reader, which preempts nobody.
Conquest(c, b, victims, evicted) ==
  \/ victims = Victims(b) /\ evicted = Evicted(b)
  \/ /\ victims = {} /\ evicted = {transactions[c]}
     /\ \/ readers[b] = {transactions[c]}
        \/ readers[b] = {} /\ writer[b] = transactions[c]

LEMMA GrantWriteInv ==
  ASSUME IInv, NEW c \in Clients, NEW b \in Blocks, NEW victims, NEW evicted,
         NEW s \in {"ALLOCATED", "WRITING", "RELEASING"},
         Heard(c, {"running"}), Conquest(c, b, victims, evicted),
         GrantWrite(c, b, victims, evicted, s)
  PROVE  IInv'
<1> DEFINE t == transactions[c]
<1>1. /\ t \in Tids
      /\ Live(t)
      /\ \A d \in Clients \ {c} : transactions[d] # t
      /\ phase[c] = "running"
  BY HeardFacts DEF Heard
<1>2. /\ status' = Preempting(victims, t, s)
      /\ readers' = [readers EXCEPT ![b] = @ \ evicted]
      /\ writer' = [writer EXCEPT ![b] = t]
      /\ held' = [held EXCEPT ![c][b] = "W"]
      /\ UNCHANGED <<next_tid, transactions, rollbacks, phase, expired>>
  BY DEF GrantWrite
<1> HIDE DEF t
<1> USE DEF IInv
<1>3. /\ status' \in [Tids -> StatusValues \cup {"NONE"}]
      /\ status'[t] = s
      /\ \A u \in Tids : Live(u)' <=> Live(u)
      /\ \A u \in Tids \ {t} : status'[u] = IF u \in victims /\ Live(u)
                                            THEN "PREEMPTED" ELSE status[u]
  BY <1>1, <1>2, PreemptingFacts
\* Nobody is left among the readers, and every other holder is a victim.
<1>4. /\ readers'[b] = {}
      /\ readers[b] \ {t} \subseteq victims
      /\ writer[b] \notin {0, t} => writer[b] \in victims
  BY <1>1, <1>2 DEF Conquest, Victims, Evicted, LocksExclude, TypeOK, t
<1>5. TypeOK'
  BY <1>1, <1>2, <1>3 DEF TypeOK
<1>6. TablesAgree'
  <2>1. \A u \in Tids : Live(u)' <=> \E d \in Clients : transactions'[d] = u
    BY <1>2, <1>3 DEF TablesAgree
  <2>2. \A x \in Blocks : /\ writer'[x] # 0 => Live(writer[x])'
                          /\ \A r \in readers'[x] : Live(r)'
    <3> SUFFICES ASSUME NEW x \in Blocks, NEW u \in Tids,
                        u = writer'[x] \/ u \in readers'[x]
                 PROVE  Live(u)'
      BY <1>5 DEF TypeOK
    <3>1. u \in {t, writer[x]} \/ u \in readers[x]
      BY <1>2 DEF TypeOK
    <3>2. u # 0
      OBVIOUS
    <3>3. Live(u)
      BY <1>1, <3>1, <3>2 DEF TablesAgree
    <3> QED
      BY <1>3, <3>3
  <2> QED
    BY <1>2, <2>1, <2>2 DEF TablesAgree
<1>7. LocksExclude'
  BY <1>2, <1>4 DEF TypeOK, LocksExclude
<1>8. GrantStands'
  <2> SUFFICES ASSUME NEW d \in Clients, NEW x \in Blocks, ~Preempted(d)'
               PROVE  /\ held'[d][x] = "W" => writer'[x] = transactions'[d]
                      /\ held'[d][x] = "R" => transactions'[d] \in readers'[x]
    BY DEF GrantStands
  <2>1. CASE d = c
    <3>1. ~Preempted(c)
      BY DEF Heard
    <3> QED
      BY <1>1, <1>2, <2>1, <3>1 DEF GrantStands, TypeOK, t
  <2>2. CASE d # c
    <3>1. transactions[d] # t /\ held'[d] = held[d]
      BY <1>1, <1>2, <2>2 DEF TypeOK
    <3>2. ~Preempted(d) /\ (transactions[d] # 0 => transactions[d] \notin victims)
      BY <1>2, <1>3, <3>1 DEF TypeOK, TablesAgree
    <3>3. held[d][b] = "none"
      BY <1>4, <3>1, <3>2 DEF GrantStands, ProtocolState, NoLocks, TypeOK
    <3> QED
      BY <1>2, <3>1, <3>2, <3>3 DEF GrantStands, TypeOK
  <2> QED
    BY <2>1, <2>2
<1>9. NoPhantomLock'
  BY <1>1, <1>2, <1>4 DEF NoPhantomLock, TypeOK, t
<1>10. ProtocolState'
  BY <1>1, <1>2, <1>3 DEF ProtocolState, TypeOK, t
<1> QED
  BY <1>5, <1>6, <1>7, <1>8, <1>9, <1>10

-----------------------------------------------------------------------------
(* The invariant.                                                          *)

\* A request for a lock is granted in one of three ways, sends the client to
\* restart, or does nothing.
LEMMA LockRequest ==
  ASSUME NEW c \in Clients, NEW b \in Blocks,
         AllocateRq(c, b) \/ ReadRq(c, b) \/ WriteRq(c, b) \/ ReleaseRq(c, b)
  PROVE  /\ Heard(c, {"running"})
         /\ \/ UNCHANGED vars
            \/ Refuse(c)
            \/ /\ CanRead(transactions[c], b)
               /\ held[c][b] = "none"
               /\ GrantRead(c, b)
            \/ \E s \in {"ALLOCATED", "WRITING", "RELEASING"} :
                 /\ CanWrite(transactions[c], b)
                 /\ GrantWrite(c, b, Victims(b), Evicted(b), s)
            \/ /\ TRUE \in SoleReaderOutcomes(transactions[c], b)
               /\ GrantWrite(c, b, {}, {transactions[c]}, "WRITING")
<1>1. CASE AllocateRq(c, b)
  BY <1>1 DEF AllocateRq
<1>2. CASE ReadRq(c, b)
  BY <1>2 DEF ReadRq
<1>3. CASE WriteRq(c, b)
  <2>1. PICK sole \in SoleReaderOutcomes(transactions[c], b) :
          IF sole THEN GrantWrite(c, b, {}, {transactions[c]}, "WRITING")
          ELSE IF CanWrite(transactions[c], b)
               THEN GrantWrite(c, b, Victims(b), Evicted(b), "WRITING")
               ELSE Refuse(c)
    BY <1>3 DEF WriteRq
  <2>2. sole \in BOOLEAN
    BY DEF SoleReaderOutcomes
  <2> QED
    BY <1>3, <2>1, <2>2 DEF WriteRq
<1>4. CASE ReleaseRq(c, b)
  BY <1>4 DEF ReleaseRq
<1> QED
  BY <1>1, <1>2, <1>3, <1>4

\* Either way to a write lock is a conquest.
LEMMA Conquests ==
  ASSUME NEW c \in Clients, NEW b \in Blocks
  PROVE  /\ Conquest(c, b, Victims(b), Evicted(b))
         /\ TRUE \in SoleReaderOutcomes(transactions[c], b)
              => Conquest(c, b, {}, {transactions[c]})
  BY DEF Conquest, SoleReaderOutcomes

LEMMA LockRequestInv ==
  ASSUME IInv, NEW c \in Clients, NEW b \in Blocks,
         AllocateRq(c, b) \/ ReadRq(c, b) \/ WriteRq(c, b) \/ ReleaseRq(c, b)
  PROVE  IInv'
<1>1. CASE UNCHANGED vars
  BY <1>1 DEF IInv, TypeOK, TablesAgree, LocksExclude, GrantStands, NoPhantomLock,
              ProtocolState, vars, monitorVars, clientVars
<1>2. CASE Refuse(c)
  BY <1>2, LockRequest, ClientMovesInv
<1>3. CASE held[c][b] = "none" /\ GrantRead(c, b)
  BY <1>3, LockRequest, GrantReadInv
<1>4. CASE \E s \in {"ALLOCATED", "WRITING", "RELEASING"} :
             GrantWrite(c, b, Victims(b), Evicted(b), s)
  BY <1>4, LockRequest, Conquests, GrantWriteInv
<1>5. CASE /\ TRUE \in SoleReaderOutcomes(transactions[c], b)
           /\ GrantWrite(c, b, {}, {transactions[c]}, "WRITING")
  BY <1>5, LockRequest, Conquests, GrantWriteInv
<1> QED
  BY <1>1, <1>2, <1>3, <1>4, <1>5, LockRequest

LEMMA NextInv == IInv /\ [Next]_vars => IInv'
<1> SUFFICES ASSUME IInv, [Next]_vars PROVE IInv'
  OBVIOUS
<1>1. CASE UNCHANGED vars
  BY <1>1 DEF IInv, TypeOK, TablesAgree, LocksExclude, GrantStands, NoPhantomLock,
              ProtocolState, vars, monitorVars, clientVars
<1>2. CASE \E t \in Tids : SliceExpires(t)
  BY <1>2, SliceExpiresInv
<1>3. ASSUME NEW c \in Clients, Accept(c) \/ Begin(c) \/ Request(c) \/ Disconnect(c)
      PROVE  IInv'
  <2>1. CASE Accept(c) \/ Begin(c) \/ Disconnect(c)
    BY <2>1, AcceptInv, BeginInv, DisconnectInv
  <2>2. CASE Request(c)
    <3>1. CASE \E b \in Blocks : AllocateRq(c, b) \/ ReadRq(c, b) \/ WriteRq(c, b)
                                 \/ ReleaseRq(c, b)
      BY <3>1, LockRequestInv
    <3>2. CASE RestartRq(c) \/ AbortRq(c) \/ CommitRq(c) \/ EndRq(c)
      BY <3>2, EndingInv
    <3>3. CASE Die(c)
      BY <3>3, ClientMovesInv
    <3> QED
      BY <2>2, <3>1, <3>2, <3>3 DEF Request
  <2> QED
    BY <1>3, <2>1, <2>2
<1> QED
  BY <1>1, <1>2, <1>3 DEF Next

\* The tables, the beliefs of the clients and their protocol states agree in
\* every reachable state.
THEOREM Invariance == Spec => []IInv
  BY InitInv, NextInv, PTL DEF Spec

\* Every variable keeps its type.
THEOREM TypeCorrect == Spec => []TypeOK
<1>1. IInv => TypeOK
  BY DEF IInv
<1> QED
  BY Invariance, <1>1, PTL

\* "You have some brain dead code in here" is never printed: a reader or writer
\* in blockmap always has a status.
THEOREM TablesAlwaysAgree == Spec => []TablesAgree
<1>1. IInv => TablesAgree
  BY DEF IInv
<1> QED
  BY Invariance, <1>1, PTL

\* A block never has a writer and readers at once.
THEOREM Exclusion == Spec => []LocksExclude
<1>1. IInv => LocksExclude
  BY DEF IInv
<1> QED
  BY Invariance, <1>1, PTL

\* No reader or writer of a block is unaware of it, so none is left behind.
THEOREM NoPhantoms == Spec => []NoPhantomLock
<1>1. IInv => NoPhantomLock
  BY DEF IInv
<1> QED
  BY Invariance, <1>1, PTL

\* A client heard by end_rq is COMMITTING, and nobody else is.
THEOREM StatesMatch == Spec => []ProtocolState
<1>1. IInv => ProtocolState
  BY DEF IInv
<1> QED
  BY Invariance, <1>1, PTL

\* A granted lock stands until its client is PREEMPTED or gone.
THEOREM GrantsStand == Spec => []GrantStands
<1>1. IInv => GrantStands
  BY DEF IInv
<1> QED
  BY Invariance, <1>1, PTL

\* The clients' view: no two of them believe in conflicting locks on a block
\* unless one is PREEMPTED.
THEOREM Isolation == Spec => []Isolated
<1>1. ASSUME IInv PROVE Isolated
  <2> SUFFICES ASSUME NEW c \in Clients, NEW d \in Clients, NEW b \in Blocks,
                      c # d, held[c][b] = "W", held[d][b] # "none",
                      ~Preempted(c), ~Preempted(d)
               PROVE  FALSE
    BY DEF Isolated, Lock!Isolation, Lock!Conflict
  <2> USE <1>1 DEF IInv
  <2>1. transactions[c] # 0 /\ transactions[c] # transactions[d]
    BY DEF ProtocolState, NoLocks, TablesAgree, TypeOK
  <2>2. writer[b] = transactions[c] /\ readers[b] = {}
    BY <2>1 DEF GrantStands, LocksExclude
  <2>3. held[d][b] \in {"R", "W"}
    BY DEF TypeOK
  <2> QED
    BY <2>1, <2>2, <2>3 DEF GrantStands
<1> QED
  BY Invariance, <1>1, PTL

-----------------------------------------------------------------------------
(* Steps.                                                                  *)

\* A PREEMPTED transaction asks for nothing that is heard, and no grant to
\* another revives it.
LEMMA PreemptedStays ==
  ASSUME IInv, Next, NEW t \in Tids, status[t] = "PREEMPTED"
  PROVE  status'[t] \in {"PREEMPTED", "NONE"}
<1> DEFINE Final == status[t] = "PREEMPTED" => status'[t] \in {"PREEMPTED", "NONE"}
<1> SUFFICES Final
  OBVIOUS
<1>1. CASE UNCHANGED status
  BY <1>1
<1>2. ASSUME NEW c \in Clients, Begin(c) PROVE Final
  <2>1. status[next_tid] = "NONE" /\ status' = [status EXCEPT ![next_tid] = "BEGUN"]
    BY <1>2, MaxTidAssumption DEF Begin, IInv, TablesAgree, TypeOK
  <2> QED
    BY <2>1 DEF IInv, TypeOK
<1>3. ASSUME NEW c \in Clients, Disconnect(c) PROVE Final
  BY <1>3 DEF Disconnect, IInv, TypeOK
<1>4. ASSUME NEW c \in Clients, RestartRq(c) \/ AbortRq(c) \/ CommitRq(c) \/ EndRq(c)
      PROVE  Final
  <2>1. Heard(c, {"running", "refused", "committing"})
    BY <1>4 DEF RestartRq, AbortRq, CommitRq, EndRq, Heard
  <2>2. transactions[c] \in Tids /\ status[transactions[c]] # "PREEMPTED"
    BY <2>1, HeardFacts
  <2>3. PICK s : status' = [status EXCEPT ![transactions[c]] = s]
    BY <1>4 DEF RestartRq, AbortRq, CommitRq, EndRq
  <2> QED
    BY <2>2, <2>3 DEF IInv, TypeOK
<1>5. ASSUME NEW c \in Clients, Heard(c, {"running"}), NEW victims,
             NEW s \in StatusValues, status' = Preempting(victims, transactions[c], s)
      PROVE  Final
  <2>1. transactions[c] \in Tids /\ status[transactions[c]] \notin {"NONE", "PREEMPTED"}
    BY <1>5, HeardFacts DEF Heard
  <2> QED
    BY <1>5, <2>1 DEF Preempting, IInv, TypeOK
<1>6. ASSUME NEW c \in Clients, NEW b \in Blocks,
             AllocateRq(c, b) \/ ReadRq(c, b) \/ WriteRq(c, b) \/ ReleaseRq(c, b)
      PROVE  Final
  BY <1>1, <1>5, <1>6, LockRequest DEF vars, monitorVars, Refuse, GrantRead, GrantWrite
<1> QED
  BY <1>1, <1>2, <1>3, <1>4, <1>6
     DEF Next, Request, Accept, SliceExpires, Die, monitorVars

\* Preemption is final: only the end of its connection erases a PREEMPTED transaction.
THEOREM PreemptedForGood == Spec => PreemptionIsFinal
<1> DEFINE Final == \A t \in Tids : status[t] = "PREEMPTED"
                                      => status'[t] \in {"PREEMPTED", "NONE"}
<1>1. IInv /\ [Next]_vars => [Final]_vars
  BY PreemptedStays
<1> QED
  BY Invariance, <1>1, PTL DEF Spec, PreemptionIsFinal

\* Only the end of a connection between the replies to COMMIT and END starts a
\* rollback.
THEOREM RollbacksAreOfInterrupted == Spec => RollbackOnlyInterrupted
<1> DEFINE Justified == \A t \in rollbacks' \ rollbacks :
                          \E c \in Clients : /\ transactions[c] = t
                                             /\ phase[c] = "committing"
                                             /\ phase'[c] = "off"
<1>1. ASSUME IInv, Next PROVE Justified
  <2> USE <1>1
  <2>1. ASSUME NEW c \in Clients, Disconnect(c) PROVE Justified
    <3> SUFFICES ASSUME NEW t \in Interrupted(c)
                 PROVE  /\ transactions[c] = t
                        /\ phase[c] = "committing"
                        /\ phase'[c] = "off"
      BY <2>1 DEF Disconnect
    <3>1. transactions[c] = t /\ t # 0 /\ status[t] = "COMMITTING"
      BY DEF Interrupted
    <3> QED
      BY <2>1, <3>1 DEF Disconnect, IInv, ProtocolState, TypeOK
  <2>2. CASE UNCHANGED rollbacks
    BY <2>2
  <2>3. ASSUME NEW c \in Clients, NEW b \in Blocks,
               AllocateRq(c, b) \/ ReadRq(c, b) \/ WriteRq(c, b) \/ ReleaseRq(c, b)
        PROVE  UNCHANGED rollbacks
    BY <2>3, LockRequest DEF vars, monitorVars, Refuse, GrantRead, GrantWrite
  <2> QED
    BY <2>1, <2>2, <2>3
       DEF Next, Request, Accept, Begin, SliceExpires, Die, RestartRq, AbortRq,
           CommitRq, EndRq, monitorVars
<1>2. IInv /\ [Next]_vars => [Justified]_vars
  BY <1>1
<1> QED
  BY Invariance, <1>2, PTL DEF Spec, RollbackOnlyInterrupted

\* can_read and can_write stop at a COMMITTING writer, and an upgrade meets none.
LEMMA NoCommittingWriter ==
  ASSUME IInv, NEW c \in Clients, NEW b \in Blocks, Heard(c, {"running"}),
         \/ CanRead(transactions[c], b)
         \/ CanWrite(transactions[c], b)
         \/ TRUE \in SoleReaderOutcomes(transactions[c], b)
  PROVE  writer[b] # 0 => status[writer[b]] # "COMMITTING"
<1>1. CASE CanRead(transactions[c], b) \/ CanWrite(transactions[c], b)
  BY <1>1 DEF CanRead, CanWrite, WriterYields
<1>2. CASE TRUE \in SoleReaderOutcomes(transactions[c], b)
  <2>1. writer[b] \in {0, transactions[c]}
    BY <1>2 DEF SoleReaderOutcomes, IInv, LocksExclude, TypeOK
  <2>2. status[transactions[c]] # "COMMITTING"
    BY HeardFacts DEF Heard
  <2> QED
    BY <2>1, <2>2
<1> QED
  BY <1>1, <1>2

\* What a committing transaction writes is its own until its connection ends.
THEOREM CommittingKeepsWriteLocks == Spec => CommittingWriterKeepsBlock
<1> DEFINE Kept(c, b) == /\ transactions[c] # 0
                         /\ writer[b] = transactions[c]
                         /\ status[transactions[c]] = "COMMITTING"
                         => writer'[b] = writer[b] \/ phase'[c] = "off"
<1>1. ASSUME IInv, Next, NEW c \in Clients, NEW b \in Blocks PROVE Kept(c, b)
  <2> USE <1>1
  <2>1. CASE UNCHANGED writer
    BY <2>1
  <2>2. ASSUME NEW d \in Clients, Disconnect(d) PROVE Kept(c, b)
    <3>1. CASE d = c
      BY <2>2, <3>1 DEF Disconnect, IInv, TypeOK
    <3>2. CASE d # c
      <4>1. transactions[c] # 0 => transactions[c] # transactions[d]
        BY <3>2 DEF IInv, TablesAgree
      <4> QED
        BY <2>2, <4>1 DEF Disconnect, FlushWriter, IInv, TypeOK
    <3> QED
      BY <3>1, <3>2
  <2>3. ASSUME NEW d \in Clients, NEW x \in Blocks,
               AllocateRq(d, x) \/ ReadRq(d, x) \/ WriteRq(d, x) \/ ReleaseRq(d, x)
        PROVE  Kept(c, b)
    <3>1. CASE x = b
      BY <2>3, <3>1, LockRequest, NoCommittingWriter
         DEF vars, monitorVars, Refuse
    <3>2. CASE x # b
      <4>1. \E v : writer' \in {writer, [writer EXCEPT ![x] = v]}
        BY <2>3, LockRequest DEF vars, monitorVars, Refuse, GrantRead, GrantWrite
      <4> QED
        BY <3>2, <4>1 DEF IInv, TypeOK
    <3> QED
      BY <3>1, <3>2
  <2> QED
    BY <2>1, <2>2, <2>3
       DEF Next, Request, Accept, Begin, SliceExpires, Die, RestartRq, AbortRq,
           CommitRq, EndRq, monitorVars
<1>2. IInv /\ [Next]_vars => [\A c \in Clients, b \in Blocks : Kept(c, b)]_vars
  BY <1>1
<1> QED
  BY Invariance, <1>2, PTL DEF Spec, CommittingWriterKeepsBlock

\* Waiting goes from younger to older transactions, and committing ones wait for
\* nothing: who holds the block asked for is what the refused client waits for,
\* so no circle of transactions can keep each other restarting.
THEOREM RefusedOnlyForElders == Spec => RefusedForAnElder
<1> DEFINE Behind(c, b) == \E d \in Clients \ {c} : WriterInTheWay(d, c, b)
           BehindEither(c, b) ==
             \E d \in Clients \ {c} : WriterInTheWay(d, c, b) \/ ReaderInTheWay(d, c, b)
           Fair(c, b) == phase[c] = "running" /\ phase'[c] = "refused" =>
                           /\ ReadRq(c, b) => Behind(c, b)
                           /\ WriteRq(c, b) \/ ReleaseRq(c, b) => BehindEither(c, b)
<1>1. ASSUME IInv, NEW c \in Clients, NEW b \in Blocks, held[c][b] # "W",
             transactions[c] \in Tids, writer[b] # 0, ~WriterYields(transactions[c], b)
      PROVE  Behind(c, b)
  <2> USE <1>1 DEF IInv
  <2>1. PICK d \in Clients : transactions[d] = writer[b] /\ held[d][b] = "W"
    BY DEF NoPhantomLock
  <2>2. d # c /\ transactions[d] # transactions[c]
    BY <2>1, MaxTidAssumption DEF TablesAgree
  <2> QED
    BY <2>1, <2>2, MaxTidAssumption DEF WriterYields, WriterInTheWay, Elder, TypeOK
<1>2. ASSUME IInv, NEW c \in Clients, NEW b \in Blocks, transactions[c] \in Tids,
             writer[b] = 0, ~CanWrite(transactions[c], b)
      PROVE  BehindEither(c, b)
  <2> USE <1>2 DEF IInv
  <2>1. PICK r \in readers[b] : ReaderStands(r, transactions[c])
    BY DEF CanWrite
  <2>2. PICK d \in Clients : transactions[d] = r /\ held[d][b] = "R"
    BY <2>1 DEF NoPhantomLock
  <2>3. d # c
    BY <2>1, <2>2, MaxTidAssumption DEF ReaderStands
  <2> QED
    BY <2>1, <2>2, <2>3 DEF ReaderStands, ReaderInTheWay, Elder
<1>3. ASSUME IInv, Next, NEW c \in Clients, NEW b \in Blocks PROVE Fair(c, b)
  <2> SUFFICES ASSUME phase[c] = "running", phase'[c] = "refused",
                      ReadRq(c, b) \/ WriteRq(c, b) \/ ReleaseRq(c, b)
               PROVE  /\ ReadRq(c, b) => Behind(c, b)
                      /\ WriteRq(c, b) \/ ReleaseRq(c, b) => BehindEither(c, b)
    OBVIOUS
  <2> USE <1>3
  <2>1. phase' # phase
    OBVIOUS
  <2>2. ~GrantRead(c, b)
    BY <2>1 DEF GrantRead
  <2>3. ASSUME NEW victims, NEW evicted, NEW s PROVE ~GrantWrite(c, b, victims, evicted, s)
    BY <2>1 DEF GrantWrite
  <2>4. transactions[c] \in Tids
    BY HeardFacts DEF ReadRq, WriteRq, ReleaseRq, Heard
  <2>5. CASE ReadRq(c, b)
    <3>1. held[c][b] # "W" /\ writer[b] # 0 /\ ~WriterYields(transactions[c], b)
      BY <2>2, <2>5 DEF ReadRq, CanRead
    <3>2. Behind(c, b)
      BY <1>1, <2>4, <3>1
    <3> QED
      BY <3>2
  <2>6. CASE WriteRq(c, b) \/ ReleaseRq(c, b)
    <3>1. held[c][b] # "W" /\ ~CanWrite(transactions[c], b)
      BY <2>3, <2>6 DEF WriteRq, ReleaseRq
    <3>2. CASE writer[b] # 0
      <4>1. Behind(c, b)
        BY <1>1, <2>4, <3>1, <3>2 DEF CanWrite
      <4> QED
        BY <4>1
    <3>3. CASE writer[b] = 0
      <4>1. BehindEither(c, b)
        BY <1>2, <2>4, <3>1, <3>3
      <4>2. ~ReadRq(c, b)
        BY <2>2, <3>3 DEF ReadRq, CanRead
      <4> QED
        BY <4>1, <4>2
    <3> QED
      BY <3>2, <3>3
  <2> QED
    BY <2>5, <2>6
<1>4. IInv /\ [Next]_vars => [\A c \in Clients, b \in Blocks : Fair(c, b)]_vars
  BY <1>3
<1> QED
  BY Invariance, <1>4, PTL DEF Spec, RefusedForAnElder

-----------------------------------------------------------------------------
(* The monitor implements LockService.                                     *)

DoomedNow     == {c \in Clients : Preempted(c)}
CommittingNow == {c \in Clients : phase[c] = "committing"}

\* A grant is an acquisition if its victims are exactly those it conflicts with.
LEMMA GrantAcquires ==
  ASSUME IInv, NEW c \in Clients, NEW b \in Blocks, NEW m \in {"R", "W"},
         NEW victims, NEW s \in StatusValues \ {"PREEMPTED"},
         Heard(c, {"running"}),
         status' = Preempting(victims, transactions[c], s),
         held' = [held EXCEPT ![c][b] = m],
         UNCHANGED <<transactions, phase>>,
         \A d \in Clients \ {c} :
           /\ transactions[d] # 0 /\ transactions[d] \in victims
                => Lock!Conflict(m, held[d][b])
           /\ ~Preempted(d) /\ Lock!Conflict(m, held[d][b])
                => /\ transactions[d] \in victims
                   /\ held[d][b] = "W" => status[transactions[d]] # "COMMITTING"
  PROVE  Lock!Acquire(c, b, m)
<1> DEFINE t == transactions[c]
<1> USE DEF IInv
<1>1. /\ t \in Tids
      /\ Live(t)
      /\ ~Preempted(c)
      /\ phase[c] = "running"
      /\ \A d \in Clients \ {c} : transactions[d] # t
  BY HeardFacts DEF Heard
<1>2. /\ status'[t] = s
      /\ \A u \in Tids \ {t} : status'[u] = IF u \in victims /\ Live(u)
                                            THEN "PREEMPTED" ELSE status[u]
  BY <1>1, PreemptingFacts
<1>3. c \notin DoomedNow \cup CommittingNow
  BY <1>1 DEF DoomedNow, CommittingNow
<1>4. \A d \in Lock!Losers(c, b, m) \ DoomedNow : held[d][b] = "W" => d \notin CommittingNow
  BY DEF Lock!Losers, DoomedNow, CommittingNow, ProtocolState
<1>5. \A d \in Clients :
        Preempted(d)' <=> Preempted(d) \/ d \in Lock!Losers(c, b, m)
  <2> SUFFICES ASSUME NEW d \in Clients
               PROVE  Preempted(d)' <=> Preempted(d) \/ d \in Lock!Losers(c, b, m)
    OBVIOUS
  <2>1. CASE d = c
    BY <1>1, <1>2, <2>1 DEF Lock!Losers
  <2>2. CASE d # c /\ transactions[d] = 0
    BY <2>2 DEF ProtocolState, NoLocks, Lock!Losers, Lock!Conflict
  <2>3. CASE d # c /\ transactions[d] # 0
    <3>1. transactions[d] \in Tids \ {t} /\ Live(transactions[d])
      BY <1>1, <2>3 DEF TypeOK, TablesAgree
    <3> QED
      BY <1>2, <2>3, <3>1 DEF Lock!Losers
  <2> QED
    BY <2>1, <2>2, <2>3
<1>6. DoomedNow' = DoomedNow \cup Lock!Losers(c, b, m)
  BY <1>5 DEF DoomedNow, Lock!Losers
<1> QED
  BY <1>3, <1>4, <1>6 DEF Lock!Acquire, DoomedNow, CommittingNow

LEMMA LockRequestRefines ==
  ASSUME IInv, NEW c \in Clients, NEW b \in Blocks,
         AllocateRq(c, b) \/ ReadRq(c, b) \/ WriteRq(c, b) \/ ReleaseRq(c, b)
  PROVE  \/ UNCHANGED <<held, DoomedNow, CommittingNow>>
         \/ \E m \in {"R", "W"} : Lock!Acquire(c, b, m)
<1> USE DEF IInv
<1>0. /\ Heard(c, {"running"})
      /\ transactions[c] \in Tids
      /\ \A d \in Clients \ {c} : transactions[d] # transactions[c]
  BY LockRequest, HeardFacts DEF Heard
\* What the tables say of another client's lock on b is what it believes.
<1>1. \A d \in Clients \ {c} :
        /\ transactions[d] # 0 /\ transactions[d] = writer[b] => held[d][b] = "W"
        /\ transactions[d] # 0 /\ transactions[d] \in readers[b] => held[d][b] = "R"
        /\ ~Preempted(d) /\ held[d][b] = "W" => transactions[d] = writer[b] /\ writer[b] # 0
        /\ ~Preempted(d) /\ held[d][b] = "R" => transactions[d] \in readers[b]
  BY DEF NoPhantomLock, GrantStands, ProtocolState, NoLocks, TablesAgree
<1>2. \A d \in Clients : held[d][b] \in {"none", "R", "W"}
  BY DEF TypeOK
<1>3. CASE UNCHANGED vars
  BY <1>3 DEF vars, monitorVars, clientVars, DoomedNow, CommittingNow
<1>4. CASE Refuse(c)
  <2>1. UNCHANGED <<held, status, transactions>>
    BY <1>4 DEF Refuse, monitorVars
  <2>2. \A d \in Clients : phase'[d] = "committing" <=> phase[d] = "committing"
    BY <1>0, <1>4 DEF Refuse, Heard, TypeOK
  <2> QED
    BY <2>1, <2>2 DEF DoomedNow, CommittingNow
<1>5. CASE CanRead(transactions[c], b) /\ GrantRead(c, b)
  <2>1. \A d \in Clients \ {c} :
          /\ transactions[d] # 0 /\ transactions[d] \in {writer[b]}
               => Lock!Conflict("R", held[d][b])
          /\ ~Preempted(d) /\ Lock!Conflict("R", held[d][b])
               => /\ transactions[d] \in {writer[b]}
                  /\ held[d][b] = "W" => status[transactions[d]] # "COMMITTING"
    BY <1>0, <1>1, <1>2, <1>5, NoCommittingWriter DEF Lock!Conflict
  <2>2. Lock!Acquire(c, b, "R")
    BY <1>0, <1>5, <2>1, GrantAcquires DEF GrantRead
  <2> QED
    BY <2>2
<1>6. ASSUME NEW s \in {"ALLOCATED", "WRITING", "RELEASING"},
             CanWrite(transactions[c], b),
             GrantWrite(c, b, Victims(b), Evicted(b), s)
      PROVE  Lock!Acquire(c, b, "W")
  <2>1. ASSUME NEW d \in Clients \ {c}
        PROVE  /\ transactions[d] # 0 /\ transactions[d] \in Victims(b)
                    => Lock!Conflict("W", held[d][b])
               /\ ~Preempted(d) /\ Lock!Conflict("W", held[d][b])
                    => /\ transactions[d] \in Victims(b)
                       /\ held[d][b] = "W" => status[transactions[d]] # "COMMITTING"
    BY <1>0, <1>1, <1>2, <1>6, NoCommittingWriter
       DEF Lock!Conflict, Victims, LocksExclude
  <2> QED
    BY <1>0, <1>6, <2>1, GrantAcquires DEF GrantWrite
<1>7. CASE /\ TRUE \in SoleReaderOutcomes(transactions[c], b)
           /\ GrantWrite(c, b, {}, {transactions[c]}, "WRITING")
  <2> DEFINE nobody == {}
  <2>1. ASSUME NEW d \in Clients \ {c}, ~Preempted(d)
        PROVE  held[d][b] = "none"
    BY <1>0, <1>1, <1>2, <1>7, <2>1 DEF SoleReaderOutcomes, LocksExclude
  <2>2. \A d \in Clients \ {c} :
          /\ transactions[d] # 0 /\ transactions[d] \in nobody
               => Lock!Conflict("W", held[d][b])
          /\ ~Preempted(d) /\ Lock!Conflict("W", held[d][b])
               => /\ transactions[d] \in nobody
                  /\ held[d][b] = "W" => status[transactions[d]] # "COMMITTING"
    BY <2>1 DEF Lock!Conflict
  <2>3. /\ status' = Preempting(nobody, transactions[c], "WRITING")
        /\ held' = [held EXCEPT ![c][b] = "W"]
        /\ UNCHANGED <<transactions, phase>>
    BY <1>7 DEF GrantWrite
  <2> HIDE DEF nobody
  <2>4. Lock!Acquire(c, b, "W")
    BY <1>0, <2>2, <2>3, GrantAcquires
  <2> QED
    BY <2>4
<1> QED
  BY <1>3, <1>4, <1>5, <1>6, <1>7, LockRequest

\* Every step of the monitor is a step of the lock service or a stutter.
THEOREM Refinement == Spec => LockServiceSpec
<1>1. Init => Lock!Init
  BY DEF Init, Lock!Init, NoLocks
<1>2. ASSUME IInv, Next PROVE [Lock!Next]_(Lock!vars)
  <2> USE <1>2
  <2>0. DoomedNow = {c \in Clients : Preempted(c)}
        /\ CommittingNow = {c \in Clients : phase[c] = "committing"}
    BY DEF DoomedNow, CommittingNow
  <2>1. CASE UNCHANGED <<held, DoomedNow, CommittingNow>>
    BY <2>1 DEF Lock!vars, DoomedNow, CommittingNow
  <2>2. ASSUME NEW c \in Clients, NEW b \in Blocks,
               AllocateRq(c, b) \/ ReadRq(c, b) \/ WriteRq(c, b) \/ ReleaseRq(c, b)
        PROVE  [Lock!Next]_(Lock!vars)
    BY <2>1, <2>2, LockRequestRefines DEF Lock!Next
  <2>3. ASSUME NEW c \in Clients, Accept(c)
        PROVE  UNCHANGED <<held, DoomedNow, CommittingNow>>
    BY <2>3 DEF Accept, monitorVars, DoomedNow, CommittingNow, IInv, TypeOK
  <2>4. ASSUME NEW c \in Clients, Begin(c)
        PROVE  UNCHANGED <<held, DoomedNow, CommittingNow>>
    <3>1. /\ status[next_tid] = "NONE"
          /\ transactions[c] = 0
          /\ next_tid \in Tids
      BY <2>4, MaxTidAssumption DEF Begin, IInv, TablesAgree, TypeOK, ProtocolState
    <3>2. \A d \in Clients : Preempted(d)' <=> Preempted(d)
      BY <2>4, <3>1 DEF Begin, IInv, TypeOK
    <3>3. \A d \in Clients : phase'[d] = "committing" <=> phase[d] = "committing"
      BY <2>4 DEF Begin, IInv, TypeOK
    <3> QED
      BY <2>4, <3>2, <3>3 DEF Begin, DoomedNow, CommittingNow
  <2>5. ASSUME NEW t \in Tids, SliceExpires(t)
        PROVE  UNCHANGED <<held, DoomedNow, CommittingNow>>
    BY <2>5 DEF SliceExpires, monitorVars, clientVars, DoomedNow, CommittingNow
  <2>6. ASSUME NEW c \in Clients, Disconnect(c) PROVE Lock!Leave(c)
    <3>1. held' = [held EXCEPT ![c] = [b \in Blocks |-> "none"]]
      BY <2>6 DEF Disconnect, NoLocks
    <3>2. CommittingNow' = CommittingNow \ {c}
      BY <2>6 DEF Disconnect, CommittingNow, IInv, TypeOK
    <3>3. \A d \in Clients : Preempted(d)' <=> Preempted(d) /\ d # c
      BY <2>6 DEF Disconnect, IInv, TypeOK, TablesAgree
    <3>4. DoomedNow' = DoomedNow \ {c}
      BY <3>3 DEF DoomedNow
    <3> QED
      BY <3>1, <3>2, <3>4 DEF Lock!Leave, DoomedNow, CommittingNow
  <2>7. ASSUME NEW c \in Clients, Die(c) PROVE [Lock!Next]_(Lock!vars)
    <3>1. held' = held /\ DoomedNow' = DoomedNow
      BY <2>7 DEF Die, monitorVars, DoomedNow
    <3>2. CommittingNow' = CommittingNow \ {c}
      BY <2>7 DEF Die, CommittingNow, IInv, TypeOK
    <3>3. CASE c \in CommittingNow
      <4>1. Lock!Finish(c)
        BY <3>1, <3>2, <3>3 DEF Lock!Finish, DoomedNow, CommittingNow
      <4> QED
        BY <4>1 DEF Lock!Next
    <3>4. CASE c \notin CommittingNow
      BY <2>1, <3>1, <3>2, <3>4
    <3> QED
      BY <3>3, <3>4
  <2>8. ASSUME NEW c \in Clients, RestartRq(c) \/ AbortRq(c) \/ CommitRq(c) \/ EndRq(c)
        PROVE  [Lock!Next]_(Lock!vars)
    <3>0. /\ Heard(c, {"running", "refused", "committing"})
          /\ UNCHANGED <<held, transactions>>
      BY <2>8 DEF RestartRq, AbortRq, CommitRq, EndRq, Heard
    <3>1. /\ transactions[c] \in Tids
          /\ ~Preempted(c)
          /\ \A d \in Clients \ {c} : transactions[d] # transactions[c]
      BY <3>0, HeardFacts DEF Heard
    <3>2. PICK s \in StatusValues \ {"PREEMPTED"} :
            status' = [status EXCEPT ![transactions[c]] = s]
      BY <2>8 DEF RestartRq, AbortRq, CommitRq, EndRq
    <3>3. \A d \in Clients : Preempted(d)' <=> Preempted(d)
      BY <3>0, <3>1, <3>2 DEF IInv, TypeOK
    <3>4. DoomedNow' = DoomedNow /\ c \notin DoomedNow
      BY <3>1, <3>3 DEF DoomedNow
    <3>5. CASE CommitRq(c)
      <4>1. c \notin CommittingNow /\ CommittingNow' = CommittingNow \cup {c}
        BY <3>5 DEF CommitRq, Heard, CommittingNow, IInv, TypeOK
      <4>2. Lock!Commit(c)
        BY <3>0, <3>4, <4>1 DEF Lock!Commit, DoomedNow, CommittingNow
      <4> QED
        BY <4>2 DEF Lock!Next
    <3>6. CASE EndRq(c)
      <4>1. c \in CommittingNow /\ CommittingNow' = CommittingNow \ {c}
        BY <3>6 DEF EndRq, Heard, CommittingNow, IInv, TypeOK
      <4>2. Lock!Finish(c)
        BY <3>0, <3>4, <4>1 DEF Lock!Finish, DoomedNow, CommittingNow
      <4> QED
        BY <4>2 DEF Lock!Next
    <3>7. CASE RestartRq(c) \/ AbortRq(c)
      <4>1. CommittingNow' = CommittingNow
        BY <3>7 DEF RestartRq, AbortRq, Heard, CommittingNow, IInv, TypeOK
      <4> QED
        BY <2>1, <3>0, <3>4, <4>1
    <3> QED
      BY <2>8, <3>5, <3>6, <3>7
  <2>9. ASSUME NEW c \in Clients, Request(c) PROVE [Lock!Next]_(Lock!vars)
    BY <2>2, <2>7, <2>8, <2>9 DEF Request
  <2>10. ASSUME NEW c \in Clients, Accept(c) \/ Begin(c) \/ Disconnect(c)
         PROVE  [Lock!Next]_(Lock!vars)
    BY <2>1, <2>3, <2>4, <2>6, <2>10 DEF Lock!Next
  <2> QED
    BY <2>1, <2>5, <2>9, <2>10 DEF Next
<1>3. UNCHANGED vars => UNCHANGED Lock!vars
  BY DEF vars, monitorVars, clientVars, Lock!vars
<1>4. IInv /\ [Next]_vars => [Lock!Next]_(Lock!vars)
  BY <1>2, <1>3
<1> QED
  BY Invariance, <1>1, <1>4, PTL DEF Spec, LockServiceSpec, Lock!Spec

\* The promise is enough for isolation: it holds of every lock service that keeps it,
\* whatever its tables.
THEOREM PromiseIsolates == LockServiceSpec => []Isolated
<1> DEFINE Doomed == {c \in Clients : Preempted(c)}
           Granting == held \in [Clients -> [Blocks -> {"none", "R", "W"}]] /\ Isolated
<1>1. Lock!Init => Granting
  BY DEF Lock!Init, Isolated, Lock!Isolation, Lock!Conflict
<1>2. ASSUME Granting, [Lock!Next]_(Lock!vars) PROVE Granting'
  <2>1. CASE UNCHANGED <<held, Doomed>>
    BY <1>2, <2>1 DEF Isolated, Lock!Isolation
  <2>2. ASSUME NEW c \in Clients, NEW b \in Blocks, NEW m \in {"R", "W"}, Lock!Acquire(c, b, m)
        PROVE  Granting'
    <3>1. /\ held' = [held EXCEPT ![c][b] = m]
          /\ Doomed' = Doomed \cup Lock!Losers(c, b, m)
      BY <2>2 DEF Lock!Acquire
    <3>2. \A d, e \in Clients, x \in Blocks :
            d # e /\ Lock!Conflict(held[d][x], held[e][x]) => d \in Doomed \/ e \in Doomed
      BY <1>2 DEF Isolated, Lock!Isolation
    <3>3. \A d \in Clients, x \in Blocks :
            held'[d][x] = IF d = c /\ x = b THEN m ELSE held[d][x]
      BY <1>2, <3>1
    <3> HIDE DEF Doomed
    <3>4. \A d \in Clients : d # c /\ Lock!Conflict(m, held[d][b]) => d \in Doomed'
      BY <3>1 DEF Lock!Losers
    <3>5. ASSUME NEW d \in Clients, NEW e \in Clients, NEW x \in Blocks, d # e,
                 Lock!Conflict(held'[d][x], held'[e][x])
          PROVE  d \in Doomed' \/ e \in Doomed'
      <4>1. CASE x = b /\ d = c
        BY <3>3, <3>4, <3>5, <4>1
      <4>2. CASE x = b /\ e = c
        BY <3>3, <3>4, <3>5, <4>2 DEF Lock!Conflict
      <4>3. CASE x # b \/ (d # c /\ e # c)
        BY <3>1, <3>2, <3>3, <3>5, <4>3
      <4> QED
        BY <4>1, <4>2, <4>3
    <3>6. Isolated'
      BY <3>5 DEF Isolated, Lock!Isolation, Doomed
    <3> QED
      BY <1>2, <3>1, <3>6
  <2>3. ASSUME NEW c \in Clients, Lock!Leave(c) PROVE Granting'
    BY <1>2, <2>3 DEF Lock!Leave, Isolated, Lock!Isolation, Lock!Conflict
  <2> QED
    BY <1>2, <2>1, <2>2, <2>3 DEF Lock!Next, Lock!vars, Lock!Commit, Lock!Finish
<1>3. Granting => Isolated
  OBVIOUS
<1> HIDE DEF Granting
<1> QED
  BY <1>1, <1>2, <1>3, PTL DEF LockServiceSpec, Lock!Spec

=============================================================================
