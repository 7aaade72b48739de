-------------------------- MODULE LogManagerProofs --------------------------
(***************************************************************************)
(* Lemmas about the operators of LogManager: what is in the sequences of   *)
(* write() calls of commit(), rollback() and doRecovery(), and what the    *)
(* recover program restores.  They are stated for every log, and are what  *)
(* CommitRecoveryProofs rests on.                                          *)
(***************************************************************************)
EXTENDS LogManager, SequenceTheorems, WellFoundedInduction, TLAPS

(* Induction over the naturals, for a property given as a set.              *)

\* A set of natural numbers that is not empty has a least member.
LEMMA LeastNatural ==
  ASSUME NEW S \in SUBSET Nat, S # {}
  PROVE  \E n \in S : \A m \in S : n <= m
<1> DEFINE R == OpToRel(<, Nat)
<1>1. \E n \in S : \A m \in S : ~ (<<m, n>> \in R)
  BY WFMin, NatLessThanWellFounded, Zenon
<1>2. \A m, n \in Nat : m < n => <<m, n>> \in R
  BY DEF OpToRel
<1> HIDE DEF R
<1>3. PICK n \in S : \A m \in S : ~ (<<m, n>> \in R)
  BY <1>1
<1>4. \A m \in S : ~ (m < n)
  BY <1>2, <1>3
<1> QED
  BY <1>4

\* A set of natural numbers with 0, and with n + 1 whenever it has n, has all of them.
LEMMA Induction ==
  ASSUME NEW S, 0 \in S, \A n \in Nat : n \in S => n + 1 \in S
  PROVE  \A n \in Nat : n \in S
<1> SUFFICES ASSUME Nat \ S # {} PROVE FALSE
  OBVIOUS
<1>1. PICK n \in Nat \ S : \A m \in Nat \ S : n <= m
  BY LeastNatural
<1>2. n # 0 /\ n - 1 \in Nat
  OBVIOUS
<1> QED
  BY <1>1, <1>2

\* The operator Max of the library, on a set of naturals that is not too large.
LEMMA MaxOfNaturals ==
  ASSUME NEW n \in Nat, NEW S \in SUBSET (0 .. n), S # {}
  PROVE  /\ Max(S) \in S
         /\ \A x \in S : Max(S) >= x
<1> DEFINE D == {n - x : x \in S}
<1>0. D \in SUBSET Nat /\ D # {}
  <2>1. \A x \in S : n - x \in Nat
    OBVIOUS
  <2>2. \A d \in D : d \in Nat
    BY <2>1
  <2>3. PICK x \in S : TRUE
    OBVIOUS
  <2>4. n - x \in D
    OBVIOUS
  <2> HIDE DEF D
  <2> QED
    BY <2>2, <2>4
<1> HIDE DEF D
<1>1. PICK d \in D : \A e \in D : d <= e
  BY <1>0, LeastNatural
<1> USE DEF D
<1>2. PICK x \in S : d = n - x
  OBVIOUS
<1>3. \A y \in S : x >= y
  BY <1>1, <1>2
<1> QED
  BY <1>3 DEF Max

-----------------------------------------------------------------------------
(* FlattenSeq.                                                             *)

\* fs are the concatenations of the sequences ss, of the first one, the first two, ...
Concatenations(fs, ss, n) ==
  fs = [i \in 1 .. n |-> IF i = 1 THEN ss[i] ELSE fs[i - 1] \o ss[i]]

\* There is such a sequence of concatenations, of any length.
LEMMA ConcatenationsExist ==
  ASSUME NEW ss
  PROVE  \A n \in Nat : \E fs : Concatenations(fs, ss, n)
<1> DEFINE S == {n \in Nat : \E fs : Concatenations(fs, ss, n)}
<1>1. 0 \in S
  <2>1. Concatenations([i \in 1 .. 0 |-> ss[i]], ss, 0)
    BY DEF Concatenations
  <2> QED
    BY <2>1
<1>2. ASSUME NEW n \in S PROVE n + 1 \in S
  <2>1. PICK fs : fs = [i \in 1 .. n |-> IF i = 1 THEN ss[i] ELSE fs[i - 1] \o ss[i]]
    BY DEF Concatenations
  <2> DEFINE gs == [i \in 1 .. n + 1 |-> IF i = 1 THEN ss[i] ELSE fs[i - 1] \o ss[i]]
  <2>2. \A i \in 1 .. n : gs[i] = fs[i]
    <3> TAKE i \in 1 .. n
    <3>1. fs[i] = IF i = 1 THEN ss[i] ELSE fs[i - 1] \o ss[i]
      BY <2>1, Zenon
    <3> QED
      BY <3>1
  <2>3. gs = [i \in 1 .. n + 1 |-> IF i = 1 THEN ss[i] ELSE gs[i - 1] \o ss[i]]
    <3>1. \A i \in 1 .. n + 1 : i # 1 => i - 1 \in 1 .. n
      OBVIOUS
    <3>2. \A i \in 1 .. n + 1 : (IF i = 1 THEN ss[i] ELSE fs[i - 1] \o ss[i])
                                  = (IF i = 1 THEN ss[i] ELSE gs[i - 1] \o ss[i])
      BY <2>2, <3>1, Zenon
    <3> QED
      BY <3>2, Zenon
  <2> HIDE DEF gs
  <2>4. Concatenations(gs, ss, n + 1)
    BY <2>3, Zenon DEF Concatenations
  <2> QED
    BY <2>4
<1> HIDE DEF S
<1>3. \A n \in Nat : n \in S
  BY <1>1, <1>2, Induction
<1> QED
  BY <1>3 DEF S

\* f is made of the sequences ss: s starts in f behind the first at[s] elements.
MadeOf(f, ss, n, at) ==
  /\ at \in [1 .. n -> Nat]
  /\ \A i \in 1 .. n : \A m \in 1 .. Len(ss[i]) :
       at[i] + m \in 1 .. Len(f) /\ f[at[i] + m] = ss[i][m]
  /\ \A j \in 1 .. Len(f) :
       \E i \in 1 .. n : \E m \in 1 .. Len(ss[i]) : j = at[i] + m

\* What s \o t is made of.
LEMMA Concatenated ==
  ASSUME NEW T, NEW f \in Seq(T), NEW s \in Seq(T)
  PROVE  /\ f \o s \in Seq(T) /\ Len(f \o s) = Len(f) + Len(s)
         /\ Len(f) \in Nat /\ Len(s) \in Nat
         /\ \A i \in 1 .. Len(f) : (f \o s)[i] = f[i]
         /\ \A i \in 1 .. Len(s) : (f \o s)[Len(f) + i] = s[i]
  OBVIOUS

\* Each of the concatenations is made of the sequences so far.
LEMMA ConcatenationsAreMadeOf ==
  ASSUME NEW T, NEW n \in Nat, NEW ss \in [1 .. n -> Seq(T)],
         NEW fs, Concatenations(fs, ss, n), NEW k \in 1 .. n
  PROVE  fs[k] \in Seq(T) /\ \E at : MadeOf(fs[k], ss, k, at)
<1> DEFINE P(j) == fs[j] \in Seq(T) /\ \E at : MadeOf(fs[j], ss, j, at)
           S == {j \in Nat : j \in 1 .. n => P(j)}
<1>1. \A j \in 1 .. n : fs[j] = IF j = 1 THEN ss[j] ELSE fs[j - 1] \o ss[j]
  BY Zenon DEF Concatenations
<1>2. 0 \in S
  OBVIOUS
<1>3. ASSUME NEW j \in Nat, j \in S, j + 1 \in 1 .. n PROVE P(j + 1)
  <2>1. CASE j = 0
    <3>1. fs[1] = ss[1] /\ ss[1] \in Seq(T)
      BY <1>1, <1>3, <2>1
    <3>2. Len(ss[1]) \in Nat
      BY <3>1
    <3>3. MadeOf(fs[1], ss, 1, [i \in 1 .. 1 |-> 0])
      BY <3>1, <3>2 DEF MadeOf
    <3> QED
      BY <2>1, <3>1, <3>3
  <2>2. CASE j # 0
    <3>1. j \in 1 .. n /\ fs[j] \in Seq(T) /\ ss[j + 1] \in Seq(T)
      BY <1>3, <2>2
    <3>2. PICK at : MadeOf(fs[j], ss, j, at)
      BY <1>3, <3>1
    <3>3. fs[j + 1] = fs[j] \o ss[j + 1]
      <4>1. j + 1 # 1 /\ (j + 1) - 1 = j
        BY <2>2
      <4> QED
        BY <1>1, <1>3, <4>1, Zenon
    <3> DEFINE f == fs[j]
               s == ss[j + 1]
               bt == [i \in 1 .. j + 1 |-> IF i = j + 1 THEN Len(f) ELSE at[i]]
    <3>10. f \in Seq(T) /\ s \in Seq(T)
      BY <3>1
    <3> HIDE DEF f, s
    <3>4. /\ f \o s \in Seq(T) /\ Len(f \o s) = Len(f) + Len(s)
          /\ Len(f) \in Nat /\ Len(s) \in Nat
          /\ \A i \in 1 .. Len(f) : (f \o s)[i] = f[i]
          /\ \A i \in 1 .. Len(s) : (f \o s)[Len(f) + i] = s[i]
      BY <3>10, Concatenated
    <3>5. bt \in [1 .. j + 1 -> Nat] /\ bt[j + 1] = Len(f) /\ \A i \in 1 .. j : bt[i] = at[i]
      BY <3>2, <3>4 DEF MadeOf
    <3> HIDE DEF bt
    <3>6. ASSUME NEW i \in 1 .. j + 1, NEW m \in 1 .. Len(ss[i])
          PROVE  bt[i] + m \in 1 .. Len(f \o s) /\ (f \o s)[bt[i] + m] = ss[i][m]
      <4>1. CASE i = j + 1
        <5>1. bt[i] = Len(f) /\ ss[i] = s /\ m \in 1 .. Len(s)
          BY <3>5, <4>1 DEF s
        <5>2. (f \o s)[Len(f) + m] = s[m]
          BY <3>4, <5>1, Zenon
        <5>3. Len(f) + m \in 1 .. Len(f \o s)
          BY <3>4, <5>1
        <5> QED
          BY <5>1, <5>2, <5>3, Zenon
      <4>2. CASE i # j + 1
        <5>1. i \in 1 .. j
          BY <4>2
        <5>2. at[i] + m \in 1 .. Len(f) /\ f[at[i] + m] = ss[i][m]
          BY <3>2, <5>1 DEF MadeOf, f
        <5> QED
          BY <3>4, <3>5, <5>1, <5>2
      <4> QED
        BY <4>1, <4>2
    <3>7. ASSUME NEW l \in 1 .. Len(f \o s)
          PROVE  \E i \in 1 .. j + 1 : \E m \in 1 .. Len(ss[i]) : l = bt[i] + m
      <4>1. CASE l <= Len(f)
        <5>1. PICK i \in 1 .. j : \E m \in 1 .. Len(ss[i]) : l = at[i] + m
          BY <3>2, <3>4, <4>1 DEF MadeOf, f
        <5> QED
          BY <3>5, <5>1
      <4>2. CASE l > Len(f)
        <5>1. l - Len(f) \in 1 .. Len(ss[j + 1]) /\ l = bt[j + 1] + (l - Len(f))
          BY <3>4, <3>5, <4>2 DEF s
        <5> QED
          BY <5>1
      <4> QED
        BY <3>4, <4>1, <4>2
    <3>8. MadeOf(fs[j + 1], ss, j + 1, bt)
      <4>1. MadeOf(f \o s, ss, j + 1, bt)
        BY <3>5, <3>6, <3>7, Zenon DEF MadeOf
      <4> QED
        BY <3>3, <4>1, Zenon DEF f, s
    <3> QED
      BY <3>3, <3>4, <3>8 DEF f, s
  <2> QED
    BY <2>1, <2>2
<1>4. \A j \in Nat : j \in S
  <2> HIDE DEF P
  <2>1. ASSUME NEW j \in Nat, j \in S PROVE j + 1 \in S
    <3>1. j + 1 \in 1 .. n => P(j + 1)
      BY <1>3, <2>1
    <3> QED
      BY <3>1
  <2> HIDE DEF S
  <2> QED
    BY <1>2, <2>1, Induction
<1> QED
  BY <1>4

\* FlattenSeq(ss) is made of the sequences ss: every element of theirs is in it, in order,
\* and it has no other.
LEMMA Flattened ==
  ASSUME NEW T, NEW n \in Nat, NEW ss \in [1 .. n -> Seq(T)]
  PROVE  /\ FlattenSeq(ss) \in Seq(T)
         /\ \E at : MadeOf(FlattenSeq(ss), ss, n, at)
<1>1. Len(ss) = n /\ ss \in Seq(Seq(T))
  OBVIOUS
<1>2. CASE n = 0
  <2>1. FlattenSeq(ss) = << >>
    BY <1>1, <1>2 DEF FlattenSeq
  <2>2. MadeOf(<< >>, ss, n, [i \in 1 .. n |-> 0])
    BY <1>2 DEF MadeOf
  <2> QED
    BY <2>1, <2>2
<1>3. CASE n # 0
  <2> DEFINE fs == CHOOSE g : g = [i \in 1 .. Len(ss) |->
                                     IF i = 1 THEN ss[i] ELSE g[i - 1] \o ss[i]]
  <2>1. FlattenSeq(ss) = fs[Len(ss)]
    BY <1>1, <1>3, Zenon DEF FlattenSeq
  <2>2. Concatenations(fs, ss, n)
    BY <1>1, ConcatenationsExist, Zenon DEF Concatenations
  <2> HIDE DEF fs
  <2> QED
    BY <1>1, <1>3, <2>1, <2>2, ConcatenationsAreMadeOf
<1> QED
  BY <1>2, <1>3

-----------------------------------------------------------------------------
(* Log records, entries and write() calls of a store in which n transactions *)
(* have been begun.                                                        *)

Contents(n) == 0 .. n

Undoing == {"LALLOCATE", "LWRITE", "LRELEASE"}

LogRecords(n) ==
  {rec \in [tid : 1 .. n, action : LogActions, block : BlockNumbers \cup {0},
            oindex : IndexValues \cup {" "}, oldval : Contents(n)] :
     /\ rec.action \in Undoing => rec.block \in BlockNumbers
     /\ rec.action = "LRELEASE" => rec.oindex \in IndexValues}

FileWrites(n) == [file : {"log"}, rec : LogRecords(n)]
                   \cup [file : {"index"}, block : BlockNumbers, val : IndexValues]
                   \cup [file : {"store"}, block : BlockNumbers, val : Contents(n)]

LockEntries(n) ==
  [lock : LockTypes, data : Contents(n), oldval : Contents(n), oldindex : IndexValues]
    \cup {NoEntry}

Mark(t) == ToLog(LogRecord(t, "LABORT"))

-----------------------------------------------------------------------------
(* The records that no end of their transaction follows.                   *)

Marks == {"LEND", "LABORT"}

Loose(log) ==
  {i \in 1 .. Len(log) :
     \A j \in i .. Len(log) : log[j].tid = log[i].tid => log[j].action \notin Marks}

\* The records of a log are typed, one by one.
LEMMA RecordTypes ==
  ASSUME NEW n \in Nat, NEW log \in Seq(LogRecords(n))
  PROVE  /\ Len(log) \in Nat
         /\ \A i \in 1 .. Len(log) : log[i] \in LogRecords(n) /\ log[i].tid \in 1 .. n
<1>1. \A rec \in LogRecords(n) : rec.tid \in 1 .. n
  BY DEF LogRecords
<1> QED
  BY <1>1

\* bts[t] in doRecovery() holds the loose records of t, and only those.
LEMMA UnfinishedAreLoose ==
  ASSUME NEW n \in Nat, NEW log \in Seq(LogRecords(n)), NEW t
  PROVE  Unfinished(log, t) = {i \in Loose(log) : log[i].tid = t}
<1> DEFINE S == Places(log, t, {"LEND", "LABORT"}) \cup {0}
           m == Max(S)
<1>1. Len(log) \in Nat
  OBVIOUS
<1>2. S \in SUBSET (0 .. Len(log)) /\ S # {}
  BY <1>1 DEF Places
<1>3. m \in S /\ \A x \in S : m >= x
  <2> HIDE DEF S
  <2> QED
    BY <1>1, <1>2, MaxOfNaturals
<1>4. m \in 0 .. Len(log)
  BY <1>2, <1>3
<1> HIDE DEF m
<1>5. Unfinished(log, t) = {j \in m + 1 .. Len(log) : log[j].tid = t}
  BY Zenon DEF m, S, Unfinished, RecordsFrom
<1>6. ASSUME NEW j \in m + 1 .. Len(log), log[j].tid = t
      PROVE  j \in Loose(log)
  <2>1. j \in 1 .. Len(log)
    BY <1>1, <1>4
  <2>2. ASSUME NEW k \in j .. Len(log), log[k].tid = t, log[k].action \in Marks
        PROVE  FALSE
    <3>1. k \in S
      BY <1>4, <2>2 DEF Places, Marks
    <3> QED
      BY <1>3, <1>4, <3>1
  <2> QED
    BY <1>6, <2>1, <2>2 DEF Loose
<1>7. ASSUME NEW j \in Loose(log), log[j].tid = t
      PROVE  j \in m + 1 .. Len(log)
  <2>1. j \in 1 .. Len(log)
    BY DEF Loose
  <2>2. CASE m >= j
    <3>1. m \in Places(log, t, {"LEND", "LABORT"})
      BY <1>3, <2>1, <2>2
    <3>2. m \in j .. Len(log) /\ log[m].tid = t /\ log[m].action \in Marks
      BY <1>4, <2>1, <2>2, <3>1 DEF Places, Marks
    <3> QED
      BY <1>7, <3>2 DEF Loose
  <2> QED
    BY <1>4, <2>1, <2>2
<1> HIDE DEF S
<1> QED
  BY <1>1, <1>4, <1>5, <1>6, <1>7

\* The keys of doRecovery()'s bts are the transactions of the loose records.
LEMMA BrokenAreLoose ==
  ASSUME NEW n \in Nat, NEW log \in Seq(LogRecords(n))
  PROVE  BrokenTransactions(log) = {log[i].tid : i \in Loose(log)}
<1>1. \A t : Unfinished(log, t) = {i \in Loose(log) : log[i].tid = t}
  BY UnfinishedAreLoose
<1>2. \A i \in Loose(log) : i \in 1 .. Len(log)
  BY DEF Loose
<1>3. ASSUME NEW t \in BrokenTransactions(log) PROVE t \in {log[i].tid : i \in Loose(log)}
  <2>1. Unfinished(log, t) # {}
    BY Zenon DEF BrokenTransactions
  <2> QED
    BY <1>1, <2>1
<1>4. ASSUME NEW i \in Loose(log) PROVE log[i].tid \in BrokenTransactions(log)
  <2>1. i \in Unfinished(log, log[i].tid)
    BY <1>1
  <2> QED
    BY <1>2, <2>1, Zenon DEF BrokenTransactions
<1> QED
  BY <1>3, <1>4

\* LastTid bounds the loop over doRecovery()'s bts: no transaction is left out.
LEMMA LastTidBounds ==
  ASSUME NEW n \in Nat, NEW log \in Seq(LogRecords(n))
  PROVE  /\ LastTid(log) \in 0 .. n
         /\ \A i \in 1 .. Len(log) : log[i].tid \in 1 .. LastTid(log)
<1> DEFINE S == {log[i].tid : i \in 1 .. Len(log)} \cup {0}
<1>1. S \in SUBSET (0 .. n) /\ S # {}
  BY RecordTypes
<1>2. Max(S) \in S /\ \A x \in S : Max(S) >= x
  <2> HIDE DEF S
  <2> QED
    BY <1>1, MaxOfNaturals
<1>3. \A i \in 1 .. Len(log) : log[i].tid \in S
  OBVIOUS
<1>4. \A i \in 1 .. Len(log) : log[i].tid \in 1 .. n
  BY RecordTypes
<1>5. LastTid(log) = Max(S)
  BY Zenon DEF LastTid
<1> HIDE DEF S
<1> QED
  BY <1>1, <1>2, <1>3, <1>4, <1>5

-----------------------------------------------------------------------------
(* What is in the sequences of write() calls.                              *)

Elements(ws)  == {ws[k] : k \in 1 .. Len(ws)}
Before(ws, j) == {ws[k] : k \in 1 .. j - 1}

\* The elements of FlattenSeq(ss) are those of the sequences ss.
LEMMA ElementsOfFlattened ==
  ASSUME NEW T, NEW n \in Nat, NEW ss \in [1 .. n -> Seq(T)]
  PROVE  /\ FlattenSeq(ss) \in Seq(T)
         /\ \A e : e \in Elements(FlattenSeq(ss)) <=> \E i \in 1 .. n : e \in Elements(ss[i])
<1>1. FlattenSeq(ss) \in Seq(T)
  BY Flattened
<1>2. PICK at : MadeOf(FlattenSeq(ss), ss, n, at)
  BY Flattened
<1>3. ASSUME NEW e \in Elements(FlattenSeq(ss)) PROVE \E i \in 1 .. n : e \in Elements(ss[i])
  <2>1. PICK k \in 1 .. Len(FlattenSeq(ss)) : e = FlattenSeq(ss)[k]
    BY <1>3, Zenon DEF Elements
  <2>2. PICK i \in 1 .. n : \E m \in 1 .. Len(ss[i]) : k = at[i] + m
    BY <1>2, <2>1, Zenon DEF MadeOf
  <2>3. PICK m \in 1 .. Len(ss[i]) : k = at[i] + m
    BY <2>2
  <2>4. FlattenSeq(ss)[k] = ss[i][m]
    BY <1>2, <2>3, Zenon DEF MadeOf
  <2> QED
    BY <2>1, <2>3, <2>4, Zenon DEF Elements
<1>4. ASSUME NEW i \in 1 .. n, NEW e \in Elements(ss[i]) PROVE e \in Elements(FlattenSeq(ss))
  <2>1. PICK m \in 1 .. Len(ss[i]) : e = ss[i][m]
    BY <1>4, Zenon DEF Elements
  <2>2. at[i] + m \in 1 .. Len(FlattenSeq(ss)) /\ FlattenSeq(ss)[at[i] + m] = ss[i][m]
    BY <1>2, <2>1, Zenon DEF MadeOf
  <2> QED
    BY <2>1, <2>2, Zenon DEF Elements
<1> QED
  BY <1>1, <1>3, <1>4, Zenon

\* The elements of a concatenation are those of its parts.
LEMMA ElementsOfConcatenation ==
  ASSUME NEW T, NEW f \in Seq(T), NEW s \in Seq(T)
  PROVE  /\ f \o s \in Seq(T)
         /\ Elements(f \o s) = Elements(f) \cup Elements(s)
<1>1. /\ f \o s \in Seq(T) /\ Len(f \o s) = Len(f) + Len(s)
      /\ Len(f) \in Nat /\ Len(s) \in Nat
      /\ \A i \in 1 .. Len(f) : (f \o s)[i] = f[i]
      /\ \A i \in 1 .. Len(s) : (f \o s)[Len(f) + i] = s[i]
  BY Concatenated
<1>2. ASSUME NEW k \in 1 .. Len(f \o s) PROVE (f \o s)[k] \in Elements(f) \cup Elements(s)
  <2>1. CASE k <= Len(f)
    BY <1>1, <2>1 DEF Elements
  <2>2. CASE k > Len(f)
    <3>1. k - Len(f) \in 1 .. Len(s) /\ k = Len(f) + (k - Len(f))
      BY <1>1, <2>2
    <3> QED
      BY <1>1, <3>1, Zenon DEF Elements
  <2> QED
    BY <1>1, <2>1, <2>2
<1>3. ASSUME NEW k \in 1 .. Len(f) PROVE f[k] \in Elements(f \o s)
  <2>1. k \in 1 .. Len(f \o s)
    BY <1>1
  <2> QED
    BY <1>1, <2>1, Zenon DEF Elements
<1>4. ASSUME NEW k \in 1 .. Len(s) PROVE s[k] \in Elements(f \o s)
  <2>1. Len(f) + k \in 1 .. Len(f \o s)
    BY <1>1
  <2> QED
    BY <1>1, <2>1, Zenon DEF Elements
<1>5. Elements(f \o s) = Elements(f) \cup Elements(s)
  BY <1>2, <1>3, <1>4, Zenon DEF Elements
<1> QED
  BY <1>1, <1>5

UndoSet(rec) ==
  CASE rec.action = "LALLOCATE" -> {ToIndex(rec.block, "U")}
    [] rec.action = "LWRITE"    -> {ToStore(rec.block, rec.oldval)}
    [] rec.action = "LRELEASE"  -> {ToIndex(rec.block, rec.oindex)} \cup
                                   IF rec.oindex = "A" THEN {ToStore(rec.block, rec.oldval)} ELSE {}
    [] OTHER                    -> {}

\* The write() calls of undo_rec are those of UndoSet, all of them typed.
LEMMA UndoWritesContent ==
  ASSUME NEW n \in Nat, NEW rec \in LogRecords(n)
  PROVE  /\ UndoWrites(rec) \in Seq(FileWrites(n))
         /\ Elements(UndoWrites(rec)) = UndoSet(rec)
<1>1. /\ rec.action \in Undoing => rec.block \in BlockNumbers
      /\ rec.action = "LRELEASE" => rec.oindex \in IndexValues
      /\ rec.oldval \in Contents(n)
  BY DEF LogRecords
<1>2. ASSUME NEW b \in BlockNumbers, NEW v \in Contents(n) PROVE ToStore(b, v) \in FileWrites(n)
  BY DEF ToStore, FileWrites
<1>3. ASSUME NEW b \in BlockNumbers, NEW v \in IndexValues PROVE ToIndex(b, v) \in FileWrites(n)
  BY DEF ToIndex, FileWrites
<1>4. \A w : Elements(<< w >>) = {w}
  <2> TAKE w
  <2>1. Len(<< w >>) = 1 /\ << w >>[1] = w
    OBVIOUS
  <2>2. 1 .. 1 = {1}
    OBVIOUS
  <2> QED
    BY <2>1, <2>2 DEF Elements
<1>5. \A w \in FileWrites(n) : << w >> \in Seq(FileWrites(n))
  OBVIOUS
<1>6. << >> \in Seq(FileWrites(n)) /\ Elements(<< >>) = {}
  BY DEF Elements
<1>7. "U" \in IndexValues
  BY DEF IndexValues
<1>8. CASE rec.action = "LALLOCATE"
  <2>1. UndoWrites(rec) = << ToIndex(rec.block, "U") >> /\ UndoSet(rec) = {ToIndex(rec.block, "U")}
    BY <1>8 DEF UndoWrites, UndoSet
  <2>2. ToIndex(rec.block, "U") \in FileWrites(n)
    BY <1>1, <1>3, <1>7, <1>8 DEF Undoing
  <2> QED
    BY <1>4, <2>1, <2>2
<1>9. CASE rec.action = "LWRITE"
  <2>1. UndoWrites(rec) = << ToStore(rec.block, rec.oldval) >>
        /\ UndoSet(rec) = {ToStore(rec.block, rec.oldval)}
    BY <1>9 DEF UndoWrites, UndoSet
  <2>2. ToStore(rec.block, rec.oldval) \in FileWrites(n)
    BY <1>1, <1>2, <1>9 DEF Undoing
  <2> QED
    BY <1>4, <2>1, <2>2
<1>10. CASE rec.action = "LRELEASE"
  <2> DEFINE i == ToIndex(rec.block, rec.oindex)
             s == ToStore(rec.block, rec.oldval)
  <2>1. i \in FileWrites(n) /\ s \in FileWrites(n)
    BY <1>1, <1>2, <1>3, <1>10 DEF Undoing
  <2>2. /\ UndoWrites(rec) = << i >> \o IF rec.oindex = "A" THEN << s >> ELSE << >>
        /\ UndoSet(rec) = {i} \cup IF rec.oindex = "A" THEN {s} ELSE {}
    BY <1>10 DEF UndoWrites, UndoSet
  <2> HIDE DEF i, s
  <2> DEFINE ss == IF rec.oindex = "A" THEN << s >> ELSE << >>
  <2>3. ss \in Seq(FileWrites(n)) /\ Elements(ss) = IF rec.oindex = "A" THEN {s} ELSE {}
    BY <1>4, <1>5, <1>6, <2>1, Zenon
  <2>4. << i >> \in Seq(FileWrites(n)) /\ Elements(<< i >>) = {i}
    BY <1>4, <1>5, <2>1
  <2>5. UndoWrites(rec) = << i >> \o ss
    BY <2>2
  <2> HIDE DEF ss
  <2>6. UndoWrites(rec) \in Seq(FileWrites(n)) /\ Elements(UndoWrites(rec)) = Elements(<< i >>) \cup Elements(ss)
    <3>1. \A f, g \in Seq(FileWrites(n)) :
            f \o g \in Seq(FileWrites(n)) /\ Elements(f \o g) = Elements(f) \cup Elements(g)
      BY ElementsOfConcatenation, Zenon
    <3> QED
      BY <2>3, <2>4, <2>5, <3>1, Zenon
  <2> QED
    BY <2>2, <2>3, <2>4, <2>6
<1>11. CASE rec.action \notin Undoing
  <2>1. UndoWrites(rec) = << >> /\ UndoSet(rec) = {}
    BY <1>11 DEF UndoWrites, UndoSet, Undoing
  <2> QED
    BY <2>1 DEF Elements
<1> QED
  BY <1>8, <1>9, <1>10, <1>11 DEF Undoing

\* What doRecovery() undoes of one transaction: every record in places, nothing else.
LEMMA UndoAllContent ==
  ASSUME NEW n \in Nat, NEW log \in Seq(LogRecords(n)), NEW places \in SUBSET (1 .. Len(log))
  PROVE  /\ UndoAll(log, places) \in Seq(FileWrites(n))
         /\ Elements(UndoAll(log, places)) = UNION {UndoSet(log[i]) : i \in places}
<1> DEFINE ss == [i \in 1 .. Len(log) |-> IF i \in places THEN UndoWrites(log[i]) ELSE << >>]
<1>1. \A i \in 1 .. Len(log) : /\ UndoWrites(log[i]) \in Seq(FileWrites(n))
                               /\ Elements(UndoWrites(log[i])) = UndoSet(log[i])
  BY RecordTypes, UndoWritesContent
<1>2. << >> \in Seq(FileWrites(n)) /\ Elements(<< >>) = {}
  BY DEF Elements
<1>3. ss \in [1 .. Len(log) -> Seq(FileWrites(n))]
  BY <1>1, <1>2
<1>4. \A i \in 1 .. Len(log) : Elements(ss[i]) = IF i \in places THEN UndoSet(log[i]) ELSE {}
  BY <1>1, <1>2
<1>5. UndoAll(log, places) = FlattenSeq(ss)
  BY Zenon DEF UndoAll
<1>6. Len(log) \in Nat
  OBVIOUS
<1> HIDE DEF ss
<1>7. FlattenSeq(ss) \in Seq(FileWrites(n))
      /\ Elements(FlattenSeq(ss)) = UNION {Elements(ss[i]) : i \in 1 .. Len(log)}
  <2>1. FlattenSeq(ss) \in Seq(FileWrites(n))
    BY <1>3, <1>6, ElementsOfFlattened, Zenon
  <2>2. \A e : e \in Elements(FlattenSeq(ss)) <=> \E i \in 1 .. Len(log) : e \in Elements(ss[i])
    BY <1>3, <1>6, ElementsOfFlattened, Zenon
  <2>3. \A e : e \in Elements(FlattenSeq(ss)) <=> e \in UNION {Elements(ss[i]) : i \in 1 .. Len(log)}
    BY <2>2, Zenon
  <2> QED
    BY <2>1, <2>3, Zenon
<1>8. ASSUME NEW i \in 1 .. Len(log), NEW e \in Elements(ss[i])
      PROVE  i \in places /\ e \in UndoSet(log[i])
  BY <1>4
<1>9. ASSUME NEW i \in places, NEW e \in UndoSet(log[i])
      PROVE  i \in 1 .. Len(log) /\ e \in Elements(ss[i])
  BY <1>4
<1>10. UNION {Elements(ss[i]) : i \in 1 .. Len(log)} = UNION {UndoSet(log[i]) : i \in places}
  <2>1. UNION {Elements(ss[i]) : i \in 1 .. Len(log)} \subseteq UNION {UndoSet(log[i]) : i \in places}
    BY <1>8, Zenon
  <2>2. UNION {UndoSet(log[i]) : i \in places} \subseteq UNION {Elements(ss[i]) : i \in 1 .. Len(log)}
    BY <1>9, Zenon
  <2> QED
    BY <2>1, <2>2
<1> QED
  BY <1>5, <1>7, <1>10, Zenon

\* What rollback() undoes, from the back to the front: every record in places, nothing else.
LEMMA UndoBackContent ==
  ASSUME NEW n \in Nat, NEW log \in Seq(LogRecords(n)), NEW places \in SUBSET (1 .. Len(log))
  PROVE  /\ UndoBack(log, places) \in Seq(FileWrites(n))
         /\ Elements(UndoBack(log, places)) = UNION {UndoSet(log[i]) : i \in places}
<1> DEFINE ss == [i \in 1 .. Len(log) |-> LET j == Len(log) + 1 - i
                                   IN  IF j \in places THEN UndoWrites(log[j]) ELSE << >>]
<1>1. \A i \in 1 .. Len(log) : /\ UndoWrites(log[i]) \in Seq(FileWrites(n))
                        /\ Elements(UndoWrites(log[i])) = UndoSet(log[i])
  BY RecordTypes, UndoWritesContent
<1>2. << >> \in Seq(FileWrites(n)) /\ Elements(<< >>) = {}
  BY DEF Elements
<1>3. Len(log) \in Nat /\ \A i \in 1 .. Len(log) : Len(log) + 1 - i \in 1 .. Len(log) /\ Len(log) + 1 - (Len(log) + 1 - i) = i
  OBVIOUS
<1>4. UndoBack(log, places) = FlattenSeq(ss)
  BY Zenon DEF UndoBack
<1>5. ss \in [1 .. Len(log) -> Seq(FileWrites(n))]
  BY <1>1, <1>2, <1>3
<1>6. \A i \in 1 .. Len(log) : Elements(ss[i]) = IF Len(log) + 1 - i \in places
                                          THEN UndoSet(log[Len(log) + 1 - i]) ELSE {}
  BY <1>1, <1>2, <1>3
<1> HIDE DEF ss
<1>7. FlattenSeq(ss) \in Seq(FileWrites(n))
      /\ Elements(FlattenSeq(ss)) = UNION {Elements(ss[i]) : i \in 1 .. Len(log)}
  <2>1. Len(log) \in Nat
    BY <1>3
  <2>2. FlattenSeq(ss) \in Seq(FileWrites(n))
    BY <1>5, <2>1, ElementsOfFlattened, Zenon
  <2>3. \A e : e \in Elements(FlattenSeq(ss)) <=> \E i \in 1 .. Len(log) : e \in Elements(ss[i])
    BY <1>5, <2>1, ElementsOfFlattened, Zenon
  <2>4. \A e : e \in Elements(FlattenSeq(ss)) <=> e \in UNION {Elements(ss[i]) : i \in 1 .. Len(log)}
    BY <2>3, Zenon
  <2> QED
    BY <2>2, <2>4, Zenon
<1>8. ASSUME NEW j \in places, NEW w \in UndoSet(log[j]) PROVE \E i \in 1 .. Len(log) : w \in Elements(ss[i])
  <2>1. j \in 1 .. Len(log)
    OBVIOUS
  <2>2. Len(log) + 1 - j \in 1 .. Len(log) /\ Len(log) + 1 - (Len(log) + 1 - j) = j
    BY <1>3, <2>1
  <2>3. w \in Elements(ss[Len(log) + 1 - j])
    BY <1>6, <1>8, <2>2, Zenon
  <2> QED
    BY <2>2, <2>3
<1>9. ASSUME NEW i \in 1 .. Len(log), NEW w \in Elements(ss[i]) PROVE \E j \in places : w \in UndoSet(log[j])
  <2>1. Len(log) + 1 - i \in places
    BY <1>6, <1>9
  <2> QED
    BY <1>6, <1>9, <2>1
<1>10. UNION {Elements(ss[i]) : i \in 1 .. Len(log)} = UNION {UndoSet(log[i]) : i \in places}
  <2>1. UNION {Elements(ss[i]) : i \in 1 .. Len(log)} \subseteq UNION {UndoSet(log[i]) : i \in places}
    BY <1>9, Zenon
  <2>2. UNION {UndoSet(log[i]) : i \in places} \subseteq UNION {Elements(ss[i]) : i \in 1 .. Len(log)}
    BY <1>8, Zenon
  <2> QED
    BY <2>1, <2>2
<1> QED
  BY <1>4, <1>7, <1>10

\* A record without a block is a record.
LEMMA MarkTypes ==
  ASSUME NEW n \in Nat, NEW t \in 1 .. n, NEW action \in LogActions \ Undoing
  PROVE  ToLog(LogRecord(t, action)) \in FileWrites(n)
<1>1. LogRecord(t, action) \in [tid : 1 .. n, action : LogActions, block : BlockNumbers \cup {0},
                               oindex : IndexValues \cup {" "}, oldval : Contents(n)]
  BY DEF LogRecord, Contents
<1>2. LogRecord(t, action).action = action /\ action \notin Undoing /\ action # "LRELEASE"
  BY DEF LogRecord, Undoing
<1>3. LogRecord(t, action) \in LogRecords(n)
  BY <1>1, <1>2 DEF LogRecords
<1> QED
  BY <1>3 DEF ToLog, FileWrites

\* A run of write() calls that ends with a certain one.
LEMMA LastWrite ==
  ASSUME NEW T, NEW front \in Seq(T), NEW last \in T, NEW full, full = front \o << last >>
  PROVE  /\ Len(full) \in Nat \ {0} /\ full[Len(full)] = last
         /\ Before(full, Len(full)) = Elements(front)
<1>1. << last >> \in Seq(T) /\ Len(<< last >>) = 1 /\ << last >>[1] = last
  OBVIOUS
<1>2. /\ full \in Seq(T) /\ Len(full) = Len(front) + 1 /\ Len(front) \in Nat
      /\ \A i \in 1 .. Len(front) : full[i] = front[i]
      /\ \A i \in 1 .. 1 : full[Len(front) + i] = << last >>[i]
  BY <1>1, Concatenated
<1>3. full[Len(front) + 1] = last
  BY <1>1, <1>2
<1>4. Len(full) - 1 = Len(front) /\ Len(full) \in Nat \ {0}
  BY <1>2
<1>5. \A j \in 1 .. Len(front) : full[j] \in Elements(front)
  BY <1>2, Zenon DEF Elements
<1>6. \A e \in Elements(front) : \E j \in 1 .. Len(front) : full[j] = e
  BY <1>2, Zenon DEF Elements
<1>7. Elements(front) = {full[j] : j \in 1 .. Len(front)}
  BY <1>5, <1>6
<1>8. Elements(front) = Before(full, Len(full))
  BY <1>4, <1>7 DEF Before
<1> QED
  BY <1>3, <1>4, <1>8

\* The backward scan of rollback() stops at the last LBEGIN or LEND of t.
LEMMA ScanStopIsLast ==
  ASSUME NEW n \in Nat, NEW log \in Seq(LogRecords(n)), NEW t, ScanEnds(log, t)
  PROVE  /\ ScanStop(log, t) \in Places(log, t, {"LBEGIN", "LEND"})
         /\ \A i \in Places(log, t, {"LBEGIN", "LEND"}) : i <= ScanStop(log, t)
<1> DEFINE S == Places(log, t, {"LBEGIN", "LEND"})
<1>1. Len(log) \in Nat
  OBVIOUS
<1>2. S \in SUBSET (0 .. Len(log)) /\ S # {}
  BY <1>1 DEF Places, ScanEnds
<1> HIDE DEF S
<1>3. Max(S) \in S /\ \A x \in S : Max(S) >= x
  BY <1>1, <1>2, MaxOfNaturals
<1> USE DEF S
<1>4. \A x \in S : x <= Max(S)
  <2> HIDE DEF S
  <2> QED
    BY <1>1, <1>2, <1>3
<1> QED
  BY <1>3, <1>4, Zenon DEF ScanStop

\* rollback() writes what its records undo and, last, an LABORT; behind an LEND it writes
\* nothing.
LEMMA RollbackContent ==
  ASSUME NEW n \in Nat, NEW log \in Seq(LogRecords(n)), NEW t \in 1 .. n, ScanEnds(log, t)
  PROVE  LET ws    == RollbackWrites(log, t)
             first == ScanStop(log, t)
         IN  /\ ws \in Seq(FileWrites(n))
             /\ log[first].action = "LEND" => ws = << >>
             /\ log[first].action # "LEND" =>
                  /\ Len(ws) \in Nat \ {0} /\ ws[Len(ws)] = Mark(t)
                  /\ \A j \in 1 .. Len(ws) - 1 :
                       \E i \in RecordsFrom(log, t, first) : ws[j] \in UndoSet(log[i])
                  /\ \A i \in RecordsFrom(log, t, first) : \A w \in UndoSet(log[i]) :
                       \E j \in 1 .. Len(ws) - 1 : ws[j] = w
<1> DEFINE ws    == RollbackWrites(log, t)
           first == ScanStop(log, t)
           undo  == UndoBack(log, RecordsFrom(log, t, first))
<1>1. first \in 1 .. Len(log)
  BY ScanStopIsLast DEF Places
<1>2. RecordsFrom(log, t, first) \in SUBSET (1 .. Len(log))
  BY <1>1 DEF RecordsFrom
<1>3. undo \in Seq(FileWrites(n))
      /\ Elements(undo) = UNION {UndoSet(log[i]) : i \in RecordsFrom(log, t, first)}
  BY <1>2, UndoBackContent
<1>4. Mark(t) \in FileWrites(n)
  BY MarkTypes DEF Mark, LogActions, Undoing
<1>5. ws = IF log[first].action = "LEND" THEN << >> ELSE undo \o << Mark(t) >>
  BY Zenon DEF RollbackWrites, Mark
<1> HIDE DEF ws, first, undo
<1>6. CASE log[first].action = "LEND"
  <2>1. ws = << >>
    BY <1>5, <1>6
  <2> QED
    BY <1>6, <2>1 DEF ws, first
<1>7. CASE log[first].action # "LEND"
  <2>1. ws = undo \o << Mark(t) >>
    BY <1>5, <1>7
  <2>2. /\ ws \in Seq(FileWrites(n)) /\ Len(ws) \in Nat \ {0} /\ ws[Len(ws)] = Mark(t)
        /\ \A j \in 1 .. Len(ws) - 1 : ws[j] \in Elements(undo)
        /\ \A e \in Elements(undo) : \E j \in 1 .. Len(ws) - 1 : ws[j] = e
    <3>1. undo \in Seq(FileWrites(n)) /\ ws = undo \o << Mark(t) >>
      BY <1>3, <2>1
    <3> QED
      <4>1. ws \in Seq(FileWrites(n))
        BY <1>4, <3>1
      <4>2. Len(ws) \in Nat \ {0} /\ ws[Len(ws)] = Mark(t)
        BY <1>4, <3>1, LastWrite
      <4>3. Elements(undo) = Before(ws, Len(ws))
        BY <1>4, <3>1, LastWrite
      <4> QED
        BY <4>1, <4>2, <4>3 DEF Before
  <2>3. \A j \in 1 .. Len(ws) - 1 : \E i \in RecordsFrom(log, t, first) : ws[j] \in UndoSet(log[i])
    <3>1. \A j \in 1 .. Len(ws) - 1 : ws[j] \in UNION {UndoSet(log[i]) : i \in RecordsFrom(log, t, first)}
      BY <1>3, <2>2
    <3> QED
      BY <3>1
  <2>4. \A i \in RecordsFrom(log, t, first) : \A w \in UndoSet(log[i]) :
          \E j \in 1 .. Len(ws) - 1 : ws[j] = w
    <3>1. \A i \in RecordsFrom(log, t, first) : \A w \in UndoSet(log[i]) : w \in Elements(undo)
      BY <1>3
    <3> QED
      BY <2>2, <3>1
  <2> QED
    BY <1>7, <2>2, <2>3, <2>4, Zenon DEF ws, first
<1> QED
  BY <1>6, <1>7

\* doRecovery() writes nothing but what the loose records undo and an LABORT for each of
\* their transactions; it undoes all of them, each before the LABORT of its transaction.
LEMMA RecoveryContent ==
  ASSUME NEW n \in Nat, NEW log \in Seq(LogRecords(n))
  PROVE  LET ws == RecoveryWrites(log)
         IN  /\ ws \in Seq(FileWrites(n))
             /\ \A j \in 1 .. Len(ws) :
                  \E i \in Loose(log) : ws[j] \in UndoSet(log[i]) \/ ws[j] = Mark(log[i].tid)
             /\ \A i \in Loose(log) : \E j \in 1 .. Len(ws) : ws[j] = Mark(log[i].tid)
             /\ \A i \in Loose(log) : \A j \in 1 .. Len(ws) :
                  ws[j] = Mark(log[i].tid) =>
                    \A w \in UndoSet(log[i]) : \E k \in 1 .. j - 1 : ws[k] = w
<1> DEFINE ws == RecoveryWrites(log)
           m  == LastTid(log)
           B  == BrokenTransactions(log)
           undo(t) == UndoAll(log, Unfinished(log, t))
           ss == [t \in 1 .. m |-> IF t \in B THEN undo(t) \o << Mark(t) >> ELSE << >>]
<1>1. ws = FlattenSeq(ss)
  BY Zenon DEF RecoveryWrites, Mark
<1>2. m \in 0 .. n /\ \A i \in 1 .. Len(log) : log[i].tid \in 1 .. m
  BY LastTidBounds
<1>3. B = {log[i].tid : i \in Loose(log)}
  BY BrokenAreLoose
<1>4. Loose(log) \in SUBSET (1 .. Len(log))
  BY DEF Loose
<1>5. ASSUME NEW t
      PROVE  /\ undo(t) \in Seq(FileWrites(n))
             /\ Elements(undo(t)) = UNION {UndoSet(log[i]) : i \in Unfinished(log, t)}
             /\ Unfinished(log, t) = {i \in Loose(log) : log[i].tid = t}
  <2>1. Unfinished(log, t) = {i \in Loose(log) : log[i].tid = t}
    BY UnfinishedAreLoose
  <2>2. Unfinished(log, t) \in SUBSET (1 .. Len(log))
    BY <1>4, <2>1
  <2> QED
    BY <2>1, <2>2, UndoAllContent
<1>6. ASSUME NEW t \in 1 .. m PROVE Mark(t) \in FileWrites(n)
  <2>1. t \in 1 .. n
    BY <1>2
  <2> QED
    BY <2>1, MarkTypes DEF Mark, LogActions, Undoing
<1> HIDE DEF ws, m, B, undo
<1>7. ASSUME NEW t \in 1 .. m, t \in B
      PROVE  /\ ss[t] \in Seq(FileWrites(n)) /\ Len(ss[t]) \in Nat \ {0}
             /\ ss[t][Len(ss[t])] = Mark(t)
             /\ \A j \in 1 .. Len(ss[t]) - 1 : ss[t][j] \in Elements(undo(t))
             /\ \A e \in Elements(undo(t)) : \E j \in 1 .. Len(ss[t]) - 1 : ss[t][j] = e
  <2>1. ss[t] = undo(t) \o << Mark(t) >>
    BY <1>7
  <2> HIDE DEF ss
  <2> QED
    <3>1. undo(t) \in Seq(FileWrites(n)) /\ ss[t] = undo(t) \o << Mark(t) >>
      BY <1>5, <2>1
    <3>2. Mark(t) \in FileWrites(n)
      BY <1>6
    <3> QED
      <4>1. ss[t] \in Seq(FileWrites(n))
        BY <3>1, <3>2
      <4>2. Len(ss[t]) \in Nat \ {0} /\ ss[t][Len(ss[t])] = Mark(t)
        BY <3>1, <3>2, LastWrite
      <4>3. Elements(undo(t)) = Before(ss[t], Len(ss[t]))
        BY <3>1, <3>2, LastWrite
      <4> QED
        BY <4>1, <4>2, <4>3 DEF Before
<1>8. ASSUME NEW t \in 1 .. m, t \notin B PROVE ss[t] = << >>
  BY <1>8
<1>9. ss \in [1 .. m -> Seq(FileWrites(n))]
  <2>1. \A t \in 1 .. m : ss[t] \in Seq(FileWrites(n))
    BY <1>7, <1>8
  <2> QED
    BY <2>1
<1> HIDE DEF ss
<1>10. m \in Nat
  BY <1>2
<1>11. ws \in Seq(FileWrites(n)) /\ \E at : MadeOf(ws, ss, m, at)
  BY <1>1, <1>9, <1>10, Flattened
<1>12. PICK at : MadeOf(ws, ss, m, at)
  BY <1>11
<1>13. ASSUME NEW j \in 1 .. Len(ws)
       PROVE  \E t \in 1 .. m : /\ t \in B
                                /\ \E l \in 1 .. Len(ss[t]) : j = at[t] + l /\ ws[j] = ss[t][l]
  <2>1. PICK t \in 1 .. m : \E l \in 1 .. Len(ss[t]) : j = at[t] + l
    BY <1>12, Zenon DEF MadeOf
  <2>2. PICK l \in 1 .. Len(ss[t]) : j = at[t] + l
    BY <2>1
  <2>3. ws[j] = ss[t][l]
    BY <1>12, <2>2, Zenon DEF MadeOf
  <2>4. t \in B
    BY <1>8, <2>2
  <2> QED
    BY <2>2, <2>3, <2>4
<1>14. ASSUME NEW t \in 1 .. m, NEW e \in Elements(undo(t))
       PROVE  \E i \in Loose(log) : log[i].tid = t /\ e \in UndoSet(log[i])
  <2>1. e \in UNION {UndoSet(log[i]) : i \in Unfinished(log, t)}
    BY <1>5, <1>14
  <2>2. PICK i \in Unfinished(log, t) : e \in UndoSet(log[i])
    BY <2>1
  <2> QED
    BY <1>5, <2>2
<1>15. ASSUME NEW j \in 1 .. Len(ws)
       PROVE  \E i \in Loose(log) : ws[j] \in UndoSet(log[i]) \/ ws[j] = Mark(log[i].tid)
  <2>1. PICK t \in 1 .. m : /\ t \in B
                            /\ \E l \in 1 .. Len(ss[t]) : j = at[t] + l /\ ws[j] = ss[t][l]
    BY <1>13
  <2>2. PICK l \in 1 .. Len(ss[t]) : j = at[t] + l /\ ws[j] = ss[t][l]
    BY <2>1
  <2>3. CASE l = Len(ss[t])
    <3>1. ws[j] = Mark(t)
      BY <1>7, <2>1, <2>2, <2>3
    <3>2. PICK i \in Loose(log) : t = log[i].tid
      BY <1>3, <2>1
    <3> QED
      BY <3>1, <3>2
  <2>4. CASE l # Len(ss[t])
    <3>1. l \in 1 .. Len(ss[t]) - 1
      BY <1>7, <2>1, <2>4
    <3>2. ws[j] \in Elements(undo(t))
      BY <1>7, <2>1, <2>2, <3>1
    <3> QED
      BY <1>14, <3>2
  <2> QED
    BY <2>3, <2>4
<1>16. ASSUME NEW i \in Loose(log)
       PROVE  \E j \in 1 .. Len(ws) : ws[j] = Mark(log[i].tid)
  <2>1. log[i].tid \in 1 .. m /\ log[i].tid \in B
    BY <1>2, <1>3, <1>4
  <2> DEFINE t == log[i].tid
  <2>2. Len(ss[t]) \in 1 .. Len(ss[t]) /\ ss[t][Len(ss[t])] = Mark(t)
    BY <1>7, <2>1
  <2>3. at[t] + Len(ss[t]) \in 1 .. Len(ws) /\ ws[at[t] + Len(ss[t])] = ss[t][Len(ss[t])]
    BY <1>12, <2>1, <2>2, Zenon DEF MadeOf
  <2> QED
    BY <2>2, <2>3
<1>17. ASSUME NEW i \in Loose(log), NEW j \in 1 .. Len(ws), ws[j] = Mark(log[i].tid),
              NEW w \in UndoSet(log[i])
       PROVE  \E k \in 1 .. j - 1 : ws[k] = w
  <2>1. PICK t \in 1 .. m : /\ t \in B
                            /\ \E l \in 1 .. Len(ss[t]) : j = at[t] + l /\ ws[j] = ss[t][l]
    BY <1>13
  <2>2. PICK l \in 1 .. Len(ss[t]) : j = at[t] + l /\ ws[j] = ss[t][l]
    BY <2>1
  <2>3. l = Len(ss[t]) /\ t = log[i].tid
    <3>1. CASE l = Len(ss[t])
      <4>1. Mark(t) = Mark(log[i].tid)
        BY <1>7, <1>17, <2>1, <2>2, <3>1
      <4> QED
        BY <3>1, <4>1 DEF Mark, ToLog, LogRecord
    <3>2. CASE l # Len(ss[t])
      <4>1. l \in 1 .. Len(ss[t]) - 1
        BY <1>7, <2>1, <3>2
      <4>2. ws[j] \in Elements(undo(t))
        BY <1>7, <2>1, <2>2, <4>1
      <4>3. PICK h \in Loose(log) : ws[j] \in UndoSet(log[h])
        BY <1>14, <4>2
      <4>4. \A v \in UndoSet(log[h]) : v.file # "log"
        BY DEF UndoSet, ToIndex, ToStore
      <4> QED
        BY <1>17, <4>3, <4>4 DEF Mark, ToLog
    <3> QED
      BY <3>1, <3>2
  <2>4. w \in Elements(undo(t))
    <3>1. i \in Unfinished(log, t)
      BY <1>5, <2>3
    <3>2. w \in UNION {UndoSet(log[h]) : h \in Unfinished(log, t)}
      BY <1>17, <3>1
    <3> QED
      BY <1>5, <3>2
  <2>5. PICK k \in 1 .. Len(ss[t]) - 1 : ss[t][k] = w
    BY <1>7, <2>1, <2>4
  <2>6. k \in 1 .. Len(ss[t]) /\ k < l /\ Len(ss[t]) \in Nat
    <3>1. \A len \in Nat : \A x \in 1 .. len - 1 : x \in 1 .. len /\ x < len
      OBVIOUS
    <3>2. Len(ss[t]) \in Nat
      BY <1>7, <2>1
    <3> QED
      BY <2>3, <3>1, <3>2, Zenon
  <2>7. at[t] + k \in 1 .. Len(ws) /\ ws[at[t] + k] = ss[t][k] /\ at[t] \in Nat
    BY <1>12, <2>6, Zenon DEF MadeOf
  <2>8. at[t] + k \in 1 .. j - 1
    <3>1. \A start \in Nat : \A x, y \in Nat : x >= 1 /\ x < y => start + x \in 1 .. (start + y) - 1
      OBVIOUS
    <3>2. k \in Nat /\ l \in Nat /\ k >= 1
      BY <2>3, <2>6
    <3>3. at[t] + k \in 1 .. (at[t] + l) - 1
      BY <2>6, <2>7, <3>1, <3>2, Zenon
    <3> QED
      BY <2>2, <3>3, Zenon
  <2> QED
    BY <2>5, <2>7, <2>8
<1> QED
  BY <1>11, <1>15, <1>16, <1>17, Zenon DEF ws

-----------------------------------------------------------------------------
(* What is in the sequence of commit().                                    *)

\* The record that makes what e is for undone.
RecordOf(t, b, e) ==
  CASE e.lock = "A_LOCK" -> BlockRecord(t, "LALLOCATE", b, " ", 0)
    [] e.lock = "W_LOCK" -> BlockRecord(t, "LWRITE", b, e.oldindex, e.oldval)
    [] e.lock = "S_LOCK" -> BlockRecord(t, "LRELEASE", b, e.oldindex, e.oldval)
    [] OTHER             -> BlockRecord(t, "LREAD", b, " ", 0)

DataWrites(b, e) ==
  CASE e.lock = "A_LOCK" -> {ToIndex(b, "A"), ToStore(b, e.data)}
    [] e.lock = "W_LOCK" -> {ToStore(b, e.data)}
    [] e.lock = "S_LOCK" -> {ToIndex(b, "U")}
    [] OTHER             -> {}

\* The record of an entry is typed, has its transaction and its block, and ends nothing.
LEMMA RecordOfTypes ==
  ASSUME NEW n \in Nat, NEW t \in 1 .. n, NEW b \in BlockNumbers, NEW e \in LockEntries(n)
  PROVE  /\ RecordOf(t, b, e) \in LogRecords(n)
         /\ RecordOf(t, b, e).tid = t /\ RecordOf(t, b, e).block = b
         /\ RecordOf(t, b, e).action \in {"LALLOCATE", "LWRITE", "LRELEASE", "LREAD"}
<1> DEFINE R == [tid : 1 .. n, action : LogActions, block : BlockNumbers \cup {0},
                 oindex : IndexValues \cup {" "}, oldval : Contents(n)]
<1>1. ASSUME NEW action \in LogActions, NEW oindex \in IndexValues \cup {" "}, NEW v \in Contents(n)
      PROVE  BlockRecord(t, action, b, oindex, v) \in R
  BY DEF BlockRecord
<1>2. 0 \in Contents(n)
  BY DEF Contents
<1>3. e.lock \in {"W_LOCK", "S_LOCK"} => e.oldindex \in IndexValues /\ e.oldval \in Contents(n)
  BY DEF LockEntries, NoEntry
<1>4. \A action, oindex, v :
        LET r == BlockRecord(t, action, b, oindex, v)
        IN  r.tid = t /\ r.block = b /\ r.action = action /\ r.oindex = oindex
  BY DEF BlockRecord
<1>5. {"LALLOCATE", "LWRITE", "LRELEASE", "LREAD"} \subseteq LogActions
  BY DEF LogActions
<1> HIDE DEF R
<1>6. RecordOf(t, b, e) \in R
  BY <1>1, <1>2, <1>3, <1>5 DEF RecordOf
<1>7. /\ RecordOf(t, b, e).tid = t /\ RecordOf(t, b, e).block = b
      /\ RecordOf(t, b, e).action \in {"LALLOCATE", "LWRITE", "LRELEASE", "LREAD"}
      /\ RecordOf(t, b, e).action = "LRELEASE" => RecordOf(t, b, e).oindex \in IndexValues
  <2>1. CASE e.lock = "A_LOCK"
    BY <2>1 DEF RecordOf, BlockRecord
  <2>2. CASE e.lock = "W_LOCK"
    BY <1>4, <2>2 DEF RecordOf
  <2>3. CASE e.lock = "S_LOCK"
    BY <1>3, <1>4, <2>3 DEF RecordOf
  <2>4. CASE e.lock \notin {"A_LOCK", "W_LOCK", "S_LOCK"}
    BY <2>4 DEF RecordOf, BlockRecord
  <2> QED
    BY <2>1, <2>2, <2>3, <2>4
<1> QED
  BY <1>6, <1>7 DEF R, LogRecords

\* The data writes of an entry are typed, go to its block, and not to the log.
LEMMA DataWritesTypes ==
  ASSUME NEW n \in Nat, NEW b \in BlockNumbers, NEW e \in LockEntries(n)
  PROVE  \A w \in DataWrites(b, e) : w \in FileWrites(n) /\ w.file # "log" /\ w.block = b
<1>1. e.lock \in {"A_LOCK", "W_LOCK"} => e.data \in Contents(n)
  BY DEF LockEntries, NoEntry
<1>2. ASSUME NEW v \in Contents(n)
      PROVE  ToStore(b, v) \in FileWrites(n) /\ ToStore(b, v).file = "store" /\ ToStore(b, v).block = b
  BY DEF ToStore, FileWrites
<1>3. ASSUME NEW v \in IndexValues
      PROVE  ToIndex(b, v) \in FileWrites(n) /\ ToIndex(b, v).file = "index" /\ ToIndex(b, v).block = b
  BY DEF ToIndex, FileWrites
<1>4. "U" \in IndexValues /\ "A" \in IndexValues
  BY DEF IndexValues
<1> QED
  BY <1>1, <1>2, <1>3, <1>4 DEF DataWrites

\* The loop over blockmap in commit(): the record of the block comes first, the data writes
\* are behind it.
LEMMA BlockWritesContent ==
  ASSUME NEW n \in Nat, NEW t \in 1 .. n, NEW b \in BlockNumbers, NEW e \in LockEntries(n)
  PROVE  LET ws  == BlockWrites(t, b, e)
             rec == ToLog(RecordOf(t, b, e))
         IN  /\ ws \in Seq(FileWrites(n))
             /\ \A m \in 1 .. Len(ws) : \/ ws[m] = rec /\ e # NoEntry
                                        \/ ws[m] \in DataWrites(b, e) /\ 1 \in 1 .. m - 1 /\ ws[1] = rec
             /\ DataWrites(b, e) \subseteq Elements(ws)
<1> DEFINE ws  == BlockWrites(t, b, e)
           rec == ToLog(RecordOf(t, b, e))
           D   == DataWrites(b, e)
<1>1. rec \in FileWrites(n)
  BY RecordOfTypes DEF ToLog, FileWrites
<1>2. \A w \in D : w \in FileWrites(n)
  BY DataWritesTypes
<1>3. e.lock \in {"A_LOCK", "W_LOCK", "S_LOCK", "R_LOCK", "NONE"} /\ (e = NoEntry => e.lock = "NONE")
  BY DEF LockEntries, NoEntry, LockTypes
<1>4. \/ e # NoEntry /\ \E v, w : ws = << rec, v, w >> /\ D = {v, w}
      \/ e # NoEntry /\ \E w : ws = << rec, w >> /\ D = {w}
      \/ e # NoEntry /\ ws = << rec >> /\ D = {}
      \/ ws = << >> /\ D = {}
  BY <1>3, Zenon DEF BlockWrites, RecordOf, DataWrites
<1> HIDE DEF ws, rec, D
<1> SUFFICES /\ ws \in Seq(FileWrites(n))
             /\ \A m \in 1 .. Len(ws) : \/ ws[m] = rec /\ e # NoEntry
                                        \/ ws[m] \in D /\ 1 \in 1 .. m - 1 /\ ws[1] = rec
             /\ D \subseteq Elements(ws)
  BY Zenon DEF ws, rec, D
<1>5. ASSUME e # NoEntry, NEW v, NEW w, ws = << rec, v, w >>, D = {v, w}
      PROVE  /\ ws \in Seq(FileWrites(n))
             /\ \A m \in 1 .. Len(ws) : \/ ws[m] = rec /\ e # NoEntry
                                        \/ ws[m] \in D /\ 1 \in 1 .. m - 1 /\ ws[1] = rec
             /\ D \subseteq Elements(ws)
  <2>1. ws \in Seq(FileWrites(n)) /\ Len(ws) = 3 /\ ws[1] = rec /\ ws[2] = v /\ ws[3] = w
    BY <1>1, <1>2, <1>5
  <2>2. \A m \in 1 .. 3 : m = 1 \/ m = 2 \/ m = 3
    OBVIOUS
  <2>3. v \in Elements(ws) /\ w \in Elements(ws)
    BY <2>1 DEF Elements
  <2> QED
    BY <1>5, <2>1, <2>2, <2>3
<1>6. ASSUME e # NoEntry, NEW w, ws = << rec, w >>, D = {w}
      PROVE  /\ ws \in Seq(FileWrites(n))
             /\ \A m \in 1 .. Len(ws) : \/ ws[m] = rec /\ e # NoEntry
                                        \/ ws[m] \in D /\ 1 \in 1 .. m - 1 /\ ws[1] = rec
             /\ D \subseteq Elements(ws)
  <2>1. ws \in Seq(FileWrites(n)) /\ Len(ws) = 2 /\ ws[1] = rec /\ ws[2] = w
    BY <1>1, <1>2, <1>6
  <2>2. \A m \in 1 .. 2 : m = 1 \/ m = 2
    OBVIOUS
  <2>3. w \in Elements(ws)
    BY <2>1 DEF Elements
  <2> QED
    BY <1>6, <2>1, <2>2, <2>3
<1>7. ASSUME e # NoEntry, ws = << rec >>, D = {}
      PROVE  /\ ws \in Seq(FileWrites(n))
             /\ \A m \in 1 .. Len(ws) : ws[m] = rec /\ e # NoEntry
  <2>1. ws \in Seq(FileWrites(n)) /\ Len(ws) = 1 /\ ws[1] = rec
    BY <1>1, <1>7
  <2> QED
    BY <1>7, <2>1
<1>8. CASE ws = << >> /\ D = {}
  BY <1>8
<1> QED
  BY <1>4, <1>5, <1>6, <1>7, <1>8, Zenon

\* What commit() writes between LBEGIN and LEND, at place j of ws.
Covered(t, blockmap, ws, j) ==
  \E b \in BlockNumbers :
    \/ ws[j] = ToLog(RecordOf(t, b, blockmap[b])) /\ blockmap[b] # NoEntry
    \/ /\ ws[j] \in DataWrites(b, blockmap[b])
       /\ \E i \in 1 .. j - 1 : ws[i] = ToLog(RecordOf(t, b, blockmap[b]))

\* The same for the whole loop.
LEMMA BodyContent ==
  ASSUME NEW n \in Nat, NEW t \in 1 .. n, NEW blockmap \in [BlockNumbers -> LockEntries(n)]
  PROVE  LET ws == FlattenSeq([b \in BlockNumbers |-> BlockWrites(t, b, blockmap[b])])
         IN  /\ ws \in Seq(FileWrites(n))
             /\ \A j \in 1 .. Len(ws) : Covered(t, blockmap, ws, j)
             /\ \A b \in BlockNumbers : DataWrites(b, blockmap[b]) \subseteq Elements(ws)
<1> DEFINE ss == [b \in 1 .. NBLOCKS |-> BlockWrites(t, b, blockmap[b])]
           ws == FlattenSeq([b \in BlockNumbers |-> BlockWrites(t, b, blockmap[b])])
           rec(b) == ToLog(RecordOf(t, b, blockmap[b]))
<1>1. ws = FlattenSeq(ss)
  BY Zenon DEF BlockNumbers
<1>2. ASSUME NEW b \in BlockNumbers
      PROVE  /\ ss[b] \in Seq(FileWrites(n))
             /\ \A m \in 1 .. Len(ss[b]) :
                  \/ ss[b][m] = rec(b) /\ blockmap[b] # NoEntry
                  \/ /\ ss[b][m] \in DataWrites(b, blockmap[b])
                     /\ 1 \in 1 .. m - 1 /\ ss[b][1] = rec(b)
             /\ DataWrites(b, blockmap[b]) \subseteq Elements(ss[b])
  <2>1. ss[b] = BlockWrites(t, b, blockmap[b]) /\ blockmap[b] \in LockEntries(n)
    BY DEF BlockNumbers
  <2> HIDE DEF ss
  <2> QED
    BY <2>1, BlockWritesContent
<1>3. NBLOCKS \in Nat
  BY NBLOCKSAssumption
<1>4. ss \in [1 .. NBLOCKS -> Seq(FileWrites(n))]
  BY <1>2 DEF BlockNumbers
<1> HIDE DEF ss, ws, rec
<1>5. ws \in Seq(FileWrites(n)) /\ \E at : MadeOf(ws, ss, NBLOCKS, at)
  BY <1>1, <1>3, <1>4, Flattened
<1>6. PICK at : MadeOf(ws, ss, NBLOCKS, at)
  BY <1>5
<1>7. ASSUME NEW j \in 1 .. Len(ws)
      PROVE  \E b \in BlockNumbers :
               \/ ws[j] = rec(b) /\ blockmap[b] # NoEntry
               \/ ws[j] \in DataWrites(b, blockmap[b]) /\ \E i \in 1 .. j - 1 : ws[i] = rec(b)
  <2>1. PICK b \in BlockNumbers : \E m \in 1 .. Len(ss[b]) : j = at[b] + m
    BY <1>6, Zenon DEF MadeOf, BlockNumbers
  <2>2. PICK m \in 1 .. Len(ss[b]) : j = at[b] + m
    BY <2>1
  <2>3. ws[j] = ss[b][m] /\ at[b] \in Nat
    BY <1>6, <2>2, Zenon DEF MadeOf, BlockNumbers
  <2>4. CASE ss[b][m] \in DataWrites(b, blockmap[b]) /\ 1 \in 1 .. m - 1 /\ ss[b][1] = rec(b)
    <3>1. 1 \in 1 .. Len(ss[b]) /\ at[b] + 1 \in 1 .. j - 1
      <4>1. Len(ss[b]) \in Nat
        BY <1>2
      <4> QED
        BY <2>2, <2>3, <2>4, <4>1
    <3>2. ws[at[b] + 1] = rec(b)
      BY <1>6, <2>4, <3>1, Zenon DEF MadeOf, BlockNumbers
    <3> QED
      BY <2>3, <2>4, <3>1, <3>2
  <2> QED
    BY <1>2, <2>3, <2>4, Zenon
<1>8. \A j \in 1 .. Len(ws) : Covered(t, blockmap, ws, j)
  BY <1>7, Zenon DEF Covered, rec
<1>9. ASSUME NEW b \in BlockNumbers, NEW w \in DataWrites(b, blockmap[b])
      PROVE  w \in Elements(ws)
  <2>1. PICK m \in 1 .. Len(ss[b]) : ss[b][m] = w
    <3>1. w \in Elements(ss[b])
      BY <1>2
    <3> QED
      BY <3>1 DEF Elements
  <2>2. at[b] + m \in 1 .. Len(ws) /\ ws[at[b] + m] = ss[b][m]
    BY <1>6, Zenon DEF MadeOf, BlockNumbers
  <2> QED
    BY <2>1, <2>2, Zenon DEF Elements
<1> QED
  BY <1>5, <1>8, <1>9, Zenon DEF ws

\* commit() writes LBEGIN first and LEND last, and no data write before its record.
LEMMA CommitContent ==
  ASSUME NEW n \in Nat, NEW t \in 1 .. n, NEW blockmap \in [BlockNumbers -> LockEntries(n)]
  PROVE  LET ws == CommitWrites(t, blockmap)
         IN  /\ ws \in Seq(FileWrites(n)) /\ Len(ws) \in Nat /\ Len(ws) >= 2
             /\ ws[1] = ToLog(LogRecord(t, "LBEGIN"))
             /\ ws[Len(ws)] = ToLog(LogRecord(t, "LEND"))
             /\ \A j \in 2 .. Len(ws) - 1 : Covered(t, blockmap, ws, j)
             /\ \A b \in BlockNumbers : DataWrites(b, blockmap[b]) \subseteq Elements(ws)
<1> DEFINE ws    == CommitWrites(t, blockmap)
           body  == FlattenSeq([b \in BlockNumbers |-> BlockWrites(t, b, blockmap[b])])
           begin == ToLog(LogRecord(t, "LBEGIN"))
           end   == ToLog(LogRecord(t, "LEND"))
           T     == FileWrites(n)
<1>1. ws = (<< begin >> \o body) \o << end >>
  BY Zenon DEF CommitWrites
<1>2. /\ body \in Seq(T)
      /\ \A j \in 1 .. Len(body) : Covered(t, blockmap, body, j)
      /\ \A b \in BlockNumbers : DataWrites(b, blockmap[b]) \subseteq Elements(body)
  BY BodyContent
<1>3. begin \in T /\ end \in T
  BY MarkTypes DEF LogActions, Undoing
<1> HIDE DEF ws, body, begin, end, T
<1> DEFINE front == << begin >> \o body
<1>4. /\ << begin >> \in Seq(T) /\ Len(<< begin >>) = 1 /\ << begin >>[1] = begin
      /\ << end >> \in Seq(T) /\ Len(<< end >>) = 1 /\ << end >>[1] = end
  BY <1>3
<1>5. /\ front \in Seq(T) /\ Len(front) = 1 + Len(body) /\ Len(body) \in Nat
      /\ front[1] = begin
      /\ \A i \in 1 .. Len(body) : front[1 + i] = body[i]
  <2>1. /\ << begin >> \o body \in Seq(T) /\ Len(<< begin >> \o body) = Len(<< begin >>) + Len(body)
        /\ Len(<< begin >>) \in Nat /\ Len(body) \in Nat
        /\ \A i \in 1 .. Len(<< begin >>) : (<< begin >> \o body)[i] = << begin >>[i]
        /\ \A i \in 1 .. Len(body) : (<< begin >> \o body)[Len(<< begin >>) + i] = body[i]
    BY <1>2, <1>4, Concatenated
  <2> QED
    BY <1>4, <2>1
<1> HIDE DEF front
<1>6. /\ ws \in Seq(T) /\ Len(ws) = 2 + Len(body)
      /\ \A i \in 1 .. Len(front) : ws[i] = front[i]
      /\ ws[2 + Len(body)] = end
  <2>1. /\ front \o << end >> \in Seq(T) /\ Len(front \o << end >>) = Len(front) + Len(<< end >>)
        /\ \A i \in 1 .. Len(front) : (front \o << end >>)[i] = front[i]
        /\ \A i \in 1 .. Len(<< end >>) : (front \o << end >>)[Len(front) + i] = << end >>[i]
    BY <1>4, <1>5, Concatenated
  <2>2. ws = front \o << end >>
    BY <1>1 DEF front
  <2>3. Len(front) + 1 = 2 + Len(body)
    BY <1>5
  <2> QED
    BY <1>4, <1>5, <2>1, <2>2, <2>3
<1>7. ws[1] = begin /\ \A i \in 1 .. Len(body) : ws[1 + i] = body[i]
  BY <1>5, <1>6
<1>8. ASSUME NEW j \in 2 .. Len(ws) - 1 PROVE Covered(t, blockmap, ws, j)
  <2>1. j - 1 \in 1 .. Len(body) /\ 1 + (j - 1) = j
    BY <1>5, <1>6
  <2>2. ws[j] = body[j - 1]
    BY <1>7, <2>1
  <2>3. PICK b \in BlockNumbers :
          \/ body[j - 1] = ToLog(RecordOf(t, b, blockmap[b])) /\ blockmap[b] # NoEntry
          \/ /\ body[j - 1] \in DataWrites(b, blockmap[b])
             /\ \E i \in 1 .. (j - 1) - 1 : body[i] = ToLog(RecordOf(t, b, blockmap[b]))
    BY <1>2, <2>1, Zenon DEF Covered
  <2>4. ASSUME NEW i \in 1 .. (j - 1) - 1 PROVE 1 + i \in 1 .. j - 1 /\ ws[1 + i] = body[i]
    BY <1>5, <1>7, <2>1
  <2> QED
    BY <2>2, <2>3, <2>4, Zenon DEF Covered
<1>9. ASSUME NEW w \in Elements(body) PROVE w \in Elements(ws)
  <2>1. PICK i \in 1 .. Len(body) : body[i] = w
    BY <1>9, Zenon DEF Elements
  <2>2. 1 + i \in 1 .. Len(ws) /\ ws[1 + i] = w
    BY <1>5, <1>6, <1>7, <2>1
  <2> QED
    BY <2>2, Zenon DEF Elements
<1>10. Len(ws) \in Nat /\ Len(ws) >= 2 /\ ws[Len(ws)] = end
  BY <1>5, <1>6
<1> QED
  BY <1>2, <1>6, <1>7, <1>8, <1>9, <1>10, Zenon DEF ws, begin, end, T

-----------------------------------------------------------------------------
(* What the recover program restores.                                      *)

\* After a run of writes a block has what one of them wrote, or what it had if there is none.
LEMMA AfterValue ==
  ASSUME NEW T, NEW ws \in Seq(T), NEW file, NEW now, NEW b \in BlockNumbers
  PROVE  \/ /\ After(file, now, ws)[b] = now[b]
            /\ \A i \in 1 .. Len(ws) : ~ (ws[i].file = file /\ ws[i].block = b)
         \/ \E i \in 1 .. Len(ws) : /\ ws[i].file = file /\ ws[i].block = b
                                    /\ After(file, now, ws)[b] = ws[i].val
<1> DEFINE S == WritesTo(file, b, ws)
<1>1. After(file, now, ws)[b] = IF S = {} THEN now[b] ELSE ws[Max(S)].val
  BY Zenon DEF After
<1>2. Len(ws) \in Nat /\ S \in SUBSET (0 .. Len(ws))
  BY DEF WritesTo
<1>3. CASE S = {}
  BY <1>1, <1>3 DEF WritesTo
<1>4. CASE S # {}
  <2> HIDE DEF S
  <2>1. Max(S) \in S
    BY <1>2, <1>4, MaxOfNaturals
  <2>2. After(file, now, ws)[b] = ws[Max(S)].val
    BY <1>1, <1>4
  <2> QED
    BY <2>1, <2>2, Zenon DEF S, WritesTo
<1> QED
  BY <1>3, <1>4

\* What undo_rec makes of a block.
RestoredBy(rec) ==
  IF rec.action = "LALLOCATE" \/ (rec.action = "LRELEASE" /\ rec.oindex # "A")
  THEN <<"U">> ELSE <<"A", rec.oldval>>

BlockViews(n) == {<<"U">>} \cup ({"A"} \X Contents(n))

\* w writes what the view db has for its block, if to the files of the data.
Agrees(db, w) == /\ w.file = "index" => w.val = db[w.block][1]
                 /\ w.file = "store" => db[w.block] = <<"A", w.val>>

\* The writes that undo a record go to its block.
LEMMA UndoSetBlock ==
  ASSUME NEW rec, NEW w \in UndoSet(rec)
  PROVE  w.file \in {"index", "store"} /\ w.block = rec.block /\ rec.action \in Undoing
BY DEF UndoSet, ToIndex, ToStore, Undoing

\* If a record restores what db has for its block, so does each of its undoing writes.
LEMMA UndoSetAgrees ==
  ASSUME NEW n \in Nat, NEW rec \in LogRecords(n), rec.action \in Undoing,
         NEW db, RestoredBy(rec) = db[rec.block]
  PROVE  \A w \in UndoSet(rec) :
           w.file \in {"index", "store"} /\ w.block = rec.block /\ Agrees(db, w)
<1>1. \A b, v : /\ ToIndex(b, v).file = "index" /\ ToIndex(b, v).block = b /\ ToIndex(b, v).val = v
                /\ ToStore(b, v).file = "store" /\ ToStore(b, v).block = b /\ ToStore(b, v).val = v
  BY DEF ToIndex, ToStore
<1>2. <<"U">>[1] = "U" /\ \A v : <<"A", v>>[1] = "A"
  OBVIOUS
<1>3. rec.action = "LRELEASE" => rec.oindex \in IndexValues
  BY DEF LogRecords
<1>4. CASE rec.action = "LALLOCATE"
  <2>1. UndoSet(rec) = {ToIndex(rec.block, "U")} /\ db[rec.block] = <<"U">>
    BY <1>4 DEF UndoSet, RestoredBy
  <2> QED
    BY <1>1, <1>2, <2>1 DEF Agrees
<1>5. CASE rec.action = "LWRITE"
  <2>1. UndoSet(rec) = {ToStore(rec.block, rec.oldval)} /\ db[rec.block] = <<"A", rec.oldval>>
    BY <1>5 DEF UndoSet, RestoredBy
  <2> QED
    BY <1>1, <2>1 DEF Agrees
<1>6. CASE rec.action = "LRELEASE" /\ rec.oindex = "A"
  <2>1. UndoSet(rec) = {ToIndex(rec.block, "A"), ToStore(rec.block, rec.oldval)}
        /\ db[rec.block] = <<"A", rec.oldval>>
    BY <1>6 DEF UndoSet, RestoredBy
  <2> QED
    BY <1>1, <1>2, <2>1 DEF Agrees
<1>7. CASE rec.action = "LRELEASE" /\ rec.oindex # "A"
  <2>1. UndoSet(rec) = {ToIndex(rec.block, "U")} /\ db[rec.block] = <<"U">>
    BY <1>3, <1>7 DEF UndoSet, RestoredBy, IndexValues
  <2> QED
    BY <1>1, <1>2, <2>1 DEF Agrees
<1> QED
  BY <1>4, <1>5, <1>6, <1>7 DEF Undoing

\* What a reader sees of a block with x in the index and y in the store.
Seen(x, y) == IF x = "A" THEN <<"A", y>> ELSE <<"U">>

\* A block is restored when all that its record undoes is in place.
LEMMA UndoneIsRestored ==
  ASSUME NEW n \in Nat, NEW rec \in LogRecords(n), rec.action \in Undoing, NEW x, NEW y,
         rec.action = "LWRITE" => x = "A",
         \A w \in UndoSet(rec) : /\ w.file = "index" => x = w.val
                                 /\ w.file = "store" => y = w.val
  PROVE  Seen(x, y) = RestoredBy(rec)
<1>1. \A b, v : /\ ToIndex(b, v).file = "index" /\ ToIndex(b, v).val = v
                /\ ToStore(b, v).file = "store" /\ ToStore(b, v).val = v
  BY DEF ToIndex, ToStore
<1>2. CASE rec.action = "LALLOCATE"
  <2>1. ToIndex(rec.block, "U") \in UndoSet(rec)
    BY <1>2 DEF UndoSet
  <2>2. x = "U"
    BY <1>1, <2>1
  <2> QED
    BY <1>2, <2>2 DEF RestoredBy, Seen
<1>3. CASE rec.action = "LWRITE"
  <2>1. ToStore(rec.block, rec.oldval) \in UndoSet(rec)
    BY <1>3 DEF UndoSet
  <2>2. y = rec.oldval
    BY <1>1, <2>1
  <2> QED
    BY <1>3, <2>2 DEF RestoredBy, Seen
<1>4. CASE rec.action = "LRELEASE"
  <2>1. ToIndex(rec.block, rec.oindex) \in UndoSet(rec)
        /\ (rec.oindex = "A" => ToStore(rec.block, rec.oldval) \in UndoSet(rec))
    BY <1>4 DEF UndoSet
  <2>2. x = rec.oindex /\ (rec.oindex = "A" => y = rec.oldval)
    BY <1>1, <2>1
  <2> QED
    BY <1>4, <2>2 DEF RestoredBy, Seen
<1> QED
  BY <1>2, <1>3, <1>4 DEF Undoing

\* View, block by block.
LEMMA ViewIsSeen ==
  \A index, store : \A b \in BlockNumbers : View(index, store)[b] = Seen(index[b], store[b])
BY Zenon DEF View, Seen

\* But for the blocks in bad, the loose records restore what db has, and the files differ
\* from it only where one of them does.
LooseRecordsRestore(index, log, db, bad) ==
  \A i \in Loose(log) :
    log[i].action \in Undoing /\ log[i].block \notin bad =>
      /\ RestoredBy(log[i]) = db[log[i].block]
      /\ log[i].action = "LWRITE" => index[log[i].block] = "A"

DifferencesCovered(index, store, log, db, bad) ==
  \A b \in BlockNumbers \ bad :
    View(index, store)[b] # db[b] =>
      \E i \in Loose(log) : log[i].block = b /\ log[i].action \in Undoing

\* That is enough for the recover program, block by block.
LEMMA RecoverRestores ==
  ASSUME NEW n \in Nat, NEW log \in Seq(LogRecords(n)), NEW index, NEW store,
         NEW db \in [BlockNumbers -> BlockViews(n)], NEW bad,
         LooseRecordsRestore(index, log, db, bad),
         DifferencesCovered(index, store, log, db, bad)
  PROVE  \A b \in BlockNumbers \ bad : RecoveredView(index, store, log)[b] = db[b]
<1> DEFINE ws == RecoveryWrites(log)
           x(b) == After("index", index, ws)[b]
           y(b) == After("store", store, ws)[b]
<1>1. /\ ws \in Seq(FileWrites(n))
      /\ \A j \in 1 .. Len(ws) :
           \E i \in Loose(log) : ws[j] \in UndoSet(log[i]) \/ ws[j] = Mark(log[i].tid)
      /\ \A i \in Loose(log) : \E j \in 1 .. Len(ws) : ws[j] = Mark(log[i].tid)
      /\ \A i \in Loose(log) : \A j \in 1 .. Len(ws) :
           ws[j] = Mark(log[i].tid) =>
             \A w \in UndoSet(log[i]) : \E k \in 1 .. j - 1 : ws[k] = w
  BY RecoveryContent
<1> HIDE DEF ws
<1>2. \A i \in Loose(log) : log[i] \in LogRecords(n)
  BY RecordTypes DEF Loose
<1>3. ASSUME NEW i \in Loose(log), log[i].block \notin bad, NEW w \in UndoSet(log[i])
      PROVE  /\ log[i].action \in Undoing /\ w.file \in {"index", "store"}
             /\ w.block = log[i].block /\ Agrees(db, w)
  <2>1. log[i].action \in Undoing
    BY <1>3 DEF UndoSet, Undoing
  <2>2. RestoredBy(log[i]) = db[log[i].block]
    BY <1>3, <2>1 DEF LooseRecordsRestore
  <2> QED
    BY <1>2, <1>3, <2>1, <2>2, UndoSetAgrees
<1>4. ASSUME NEW j \in 1 .. Len(ws), ws[j].file = "log" \/ ws[j].block \notin bad
      PROVE  Agrees(db, ws[j])
  <2>1. PICK i \in Loose(log) : ws[j] \in UndoSet(log[i]) \/ ws[j] = Mark(log[i].tid)
    BY <1>1
  <2>2. CASE ws[j] = Mark(log[i].tid)
    BY <2>2 DEF Agrees, Mark, ToLog
  <2>3. CASE ws[j] \in UndoSet(log[i])
    <3>1. ws[j].file # "log" /\ ws[j].block = log[i].block
      BY <2>3, UndoSetBlock
    <3> QED
      BY <1>3, <1>4, <2>3, <3>1
  <2> QED
    BY <2>1, <2>2, <2>3
<1>5. ASSUME NEW i \in Loose(log), NEW w \in UndoSet(log[i])
      PROVE  \E k \in 1 .. Len(ws) : ws[k] = w
  <2>1. PICK j \in 1 .. Len(ws) : ws[j] = Mark(log[i].tid)
    BY <1>1
  <2>2. PICK k \in 1 .. j - 1 : ws[k] = w
    BY <1>1, <1>5, <2>1
  <2>3. k \in 1 .. Len(ws)
    BY <1>1, <2>1
  <2> QED
    BY <2>2, <2>3
<1>6. ASSUME NEW b \in BlockNumbers \ bad
      PROVE  /\ x(b) = index[b] \/ x(b) = db[b][1]
             /\ (\E k \in 1 .. Len(ws) : ws[k].file = "index" /\ ws[k].block = b) => x(b) = db[b][1]
             /\ y(b) = store[b] \/ db[b] = <<"A", y(b)>>
             /\ (\E k \in 1 .. Len(ws) : ws[k].file = "store" /\ ws[k].block = b)
                  => db[b] = <<"A", y(b)>>
  <2>1. \A k \in 1 .. Len(ws) :
          ws[k].block = b => /\ ws[k].file = "index" => ws[k].val = db[b][1]
                             /\ ws[k].file = "store" => db[b] = <<"A", ws[k].val>>
    BY <1>4 DEF Agrees
  <2>2. \/ /\ x(b) = index[b]
           /\ \A i \in 1 .. Len(ws) : ~ (ws[i].file = "index" /\ ws[i].block = b)
        \/ \E i \in 1 .. Len(ws) : ws[i].file = "index" /\ ws[i].block = b /\ x(b) = ws[i].val
    BY <1>1, AfterValue
  <2>3. \/ /\ y(b) = store[b]
           /\ \A i \in 1 .. Len(ws) : ~ (ws[i].file = "store" /\ ws[i].block = b)
        \/ \E i \in 1 .. Len(ws) : ws[i].file = "store" /\ ws[i].block = b /\ y(b) = ws[i].val
    BY <1>1, AfterValue
  <2> HIDE DEF x, y
  <2> QED
    BY <2>1, <2>2, <2>3
<1> HIDE DEF x, y
<1>7. ASSUME NEW b \in BlockNumbers \ bad PROVE Seen(x(b), y(b)) = db[b]
  <2>1. \/ db[b] = <<"U">> /\ db[b][1] = "U"
        \/ \E v : db[b] = <<"A", v>> /\ db[b][1] = "A"
    <3>1. db[b] \in BlockViews(n)
      OBVIOUS
    <3> QED
      BY <3>1 DEF BlockViews
  <2>2. \A v : <<"A", v>> # <<"U">> /\ <<"A", v>>[1] = "A" /\ <<"A", v>>[2] = v
    OBVIOUS
  <2>3. CASE Seen(index[b], store[b]) = db[b]
    <3>1. CASE db[b] = <<"U">>
      BY <1>6, <2>1, <2>2, <2>3, <3>1 DEF Seen
    <3>2. CASE \E v : db[b] = <<"A", v>>
      <4>1. index[b] = "A" /\ db[b] = <<"A", store[b]>> /\ db[b][1] = "A"
        BY <2>2, <2>3, <3>2 DEF Seen
      <4>2. x(b) = "A"
        BY <1>6, <4>1
      <4>3. db[b] = <<"A", y(b)>>
        BY <1>6, <4>1
      <4> QED
        BY <4>2, <4>3 DEF Seen
    <3> QED
      BY <2>1, <3>1, <3>2
  <2>4. CASE Seen(index[b], store[b]) # db[b]
    <3>1. PICK i \in Loose(log) : log[i].block = b /\ log[i].action \in Undoing
      BY <2>4, ViewIsSeen DEF DifferencesCovered
    <3>2. RestoredBy(log[i]) = db[b] /\ (log[i].action = "LWRITE" => index[b] = "A")
      BY <3>1 DEF LooseRecordsRestore
    <3>3. log[i].action = "LWRITE" => x(b) = "A"
      <4>1. log[i].action = "LWRITE" => db[b][1] = "A"
        BY <2>2, <3>2 DEF RestoredBy
      <4> QED
        BY <1>6, <3>2, <4>1
    <3>4. ASSUME NEW w \in UndoSet(log[i])
          PROVE  /\ w.file = "index" => x(b) = w.val
                 /\ w.file = "store" => y(b) = w.val
      <4>1. w.block = b /\ Agrees(db, w)
        BY <1>3, <3>1
      <4>2. \E k \in 1 .. Len(ws) : ws[k] = w
        BY <1>5
      <4>3. CASE w.file = "index"
        <5>1. x(b) = db[b][1]
          BY <1>6, <4>1, <4>2, <4>3
        <5> QED
          BY <4>1, <4>3, <5>1 DEF Agrees
      <4>4. CASE w.file = "store"
        <5>1. db[b] = <<"A", y(b)>>
          BY <1>6, <4>1, <4>2, <4>4
        <5>2. db[b] = <<"A", w.val>>
          BY <4>1, <4>4 DEF Agrees
        <5> QED
          BY <2>2, <4>4, <5>1, <5>2
      <4> QED
        BY <4>3, <4>4
    <3>5. Seen(x(b), y(b)) = RestoredBy(log[i])
      BY <1>2, <3>1, <3>3, <3>4, UndoneIsRestored
    <3> QED
      BY <3>2, <3>5
  <2> QED
    BY <2>3, <2>4
<1>8. RecoveredView(index, store, log)
        = [b \in BlockNumbers |-> Seen(x(b), y(b))]
  BY Zenon DEF RecoveredView, View, Seen, x, y, ws
<1> QED
  BY <1>7, <1>8

\* The mark of a transaction at the end of the log.
LEMMA LooseAfterMark ==
  ASSUME NEW n \in Nat, NEW log \in Seq(LogRecords(n)), NEW new \in Seq(LogRecords(n)),
         Len(new) = Len(log) + 1, new[Len(log) + 1].action \in Marks,
         \A i \in 1 .. Len(log) : new[i] = log[i]
  PROVE  Loose(new) = {i \in Loose(log) : log[i].tid # new[Len(log) + 1].tid}
<1>1. Len(log) \in Nat
  OBVIOUS
<1>2. ASSUME NEW i \in Loose(new) PROVE i \in Loose(log) /\ log[i].tid # new[Len(log) + 1].tid
  <2>1. /\ i \in 1 .. Len(log) + 1
        /\ \A j \in i .. Len(log) + 1 : new[j].tid = new[i].tid => new[j].action \notin Marks
    BY <1>2 DEF Loose
  <2>2. Len(log) + 1 \in i .. Len(log) + 1
    BY <1>1, <2>1
  <2>3. new[Len(log) + 1].tid # new[i].tid
    BY <2>1, <2>2
  <2>4. i \in 1 .. Len(log)
    BY <1>1, <2>1, <2>3
  <2>5. \A j \in i .. Len(log) : j \in i .. Len(log) + 1 /\ j \in 1 .. Len(log)
    BY <1>1, <2>1
  <2> QED
    BY <2>1, <2>3, <2>4, <2>5 DEF Loose
<1>3. ASSUME NEW i \in Loose(log), log[i].tid # new[Len(log) + 1].tid PROVE i \in Loose(new)
  <2>1. /\ i \in 1 .. Len(log)
        /\ \A j \in i .. Len(log) : log[j].tid = log[i].tid => log[j].action \notin Marks
    BY <1>3 DEF Loose
  <2>2. \A j \in i .. Len(log) + 1 : (j \in i .. Len(log) /\ j \in 1 .. Len(log)) \/ j = Len(log) + 1
    BY <1>1, <2>1
  <2>3. i \in 1 .. Len(new)
    BY <1>1, <2>1
  <2> QED
    BY <1>3, <2>1, <2>2, <2>3 DEF Loose
<1> QED
  BY <1>2, <1>3

=============================================================================
