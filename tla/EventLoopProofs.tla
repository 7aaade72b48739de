-------------------------- MODULE EventLoopProofs --------------------------
(***************************************************************************)
(* Theorems about EventLoop, for every number of connections.              *)
(*                                                                         *)
(* The loop counts on three things that no line of it establishes alone:   *)
(* everyone holds exactly the descriptors that are open (Watched), a       *)
(* descriptor is in the list once while none came back (ListedOnce), and   *)
(* what is still to be served in a round has been heard and not been read  *)
(* since (HeardAhead).                                                     *)
(***************************************************************************)
EXTENDS EventLoop, FiniteSetTheorems, FunctionTheorems, SequenceTheorems, TLAPS

\* Connections are made and accepted in order; the kernel's descriptors are no higher
\* than the number of connections accepted so far.
Ordered ==
  /\ \A c \in Connections : fd[c] # Unaccepted <=> c <= Len(clients)
  /\ \A c \in Connections : c <= Len(clients) => peer[c] # "unborn"
  /\ \A c, d \in Connections : d < c /\ peer[c] # "unborn" => peer[d] # "unborn"
  /\ \A c \in Open : fd[c] <= Len(clients)

\* What a client is doing says what the monitor has to recv from it.
Streams ==
  \A c \in Connections :
    /\ peer[c] \in {"unborn", "thinking", "answered"} => inbox[c] = << >>
    /\ peer[c] = "asked" => inbox[c] = <<"request">>
    /\ inbox[c] = <<"reset">> => rude

Watched == everyone = InUse

ListedOnce ==
  ~reused => \A i, j \in 1 .. Len(clients) : clients[i] = clients[j] => i = j

\* Somebody is waiting to be read from at descriptor f.
Speaks(f) == \E c \in Open : fd[c] = f /\ inbox[c] # << >>

HeardAhead ==
  /\ mode = "accept" => \A f \in readset : Speaks(f)
  /\ mode = "visit" /\ ~reused =>
       \A i \in pos .. Len(clients) : clients[i] \in readset => Speaks(clients[i])

Round ==
  /\ mode \in {"accept", "visit"} => ready >= 1
  /\ mode = "accept" => pos = 1 /\ Queued # {} /\ ready = Cardinality(readset) + 1
  /\ mode = "visit" => pos <= Len(clients) + 1

IInv ==
  /\ TypeOK /\ Ordered /\ Streams /\ Watched /\ NobodyForgotten /\ ListedOnce
  /\ HeardAhead /\ Round /\ ReadyCountsAhead /\ MonitorStaysUp

-----------------------------------------------------------------------------
(* Least numbers, and counting in the list.                                 *)

\* A set of numbers has a least one, which is what Lowest takes: the kernel's next
\* descriptor, and the connection that accept() returns.
LEMMA LowestIs ==
  ASSUME NEW S \in SUBSET Nat, S # {}
  PROVE  Lowest(S) \in S /\ \A n \in S : Lowest(S) <= n
<1> DEFINE R == OpToRel(<, Nat)
<1>1. \E m \in S : \A n \in S : ~ (<<n, m>> \in R)
  BY WFMin, NatLessThanWellFounded, Zenon
<1>2. \A m, n \in Nat : m < n => <<m, n>> \in R
  BY DEF OpToRel
<1> HIDE DEF R
<1>3. PICK m \in S : \A n \in S : ~ (<<n, m>> \in R)
  BY <1>1
<1>4. ASSUME NEW n \in S PROVE m <= n
  <2>1. m \in Nat /\ n \in Nat /\ ~ (<<n, m>> \in R)
    BY <1>3
  <2>2. ~ (n < m)
    BY <1>2, <2>1
  <2> QED
    BY <2>1, <2>2
<1>5. \E k \in S : \A n \in S : k <= n
  BY <1>4
<1> QED
  BY <1>5 DEF Lowest

\* The positions, from p on, at which the list s holds a descriptor of S.
Places(s, p, S) == {i \in p .. Len(s) : s[i] \in S}

\* A list without repetitions holds the members of S at as many places as there are.
LEMMA CountPlaces ==
  ASSUME NEW D, NEW s \in Seq(D), NEW S,
         \A i, j \in 1 .. Len(s) : s[i] = s[j] => i = j,
         \A f \in S : \E i \in 1 .. Len(s) : s[i] = f
  PROVE  Cardinality(Places(s, 1, S)) = Cardinality(S)
<1> DEFINE P == Places(s, 1, S)
           F == [i \in P |-> s[i]]
<1>1. P \subseteq 1 .. Len(s) /\ Len(s) \in Nat
  BY DEF Places
<1>2. IsFiniteSet(P)
  <2>1. IsFiniteSet(1 .. Len(s))
    BY <1>1, FS_Interval
  <2> HIDE DEF P
  <2> QED
    BY <1>1, <2>1, FS_Subset
<1>3. F \in [P -> S] /\ \A i, j \in P : F[i] = F[j] => i = j
  <2>1. \A i \in P : i \in 1 .. Len(s) /\ s[i] \in S
    BY DEF Places
  <2> HIDE DEF P
  <2> QED
    BY <2>1
<1>4. \A f \in S : \E i \in P : F[i] = f
  <2>1. \A i \in 1 .. Len(s) : s[i] \in S => i \in P
    BY DEF Places
  <2> HIDE DEF P
  <2> QED
    BY <2>1
<1>5. F \in Bijection(P, S)
  <2> HIDE DEF F, P
  <2> QED
    BY <1>3, <1>4, Fun_IsBij
<1>6. ExistsBijection(P, S)
  BY <1>5 DEF ExistsBijection
<1> HIDE DEF P
<1>7. Cardinality(S) = Cardinality(P)
  BY <1>2, <1>6, FS_Bijection
<1> QED
  BY <1>7 DEF P

\* The iterator leaves a place that counts.
LEMMA PlacesAfter ==
  ASSUME NEW D, NEW s \in Seq(D), NEW p \in Nat \ {0}, NEW S
  PROVE  /\ IsFiniteSet(Places(s, p, S)) /\ Cardinality(Places(s, p, S)) \in Nat
         /\ Places(s, p, S) # {} => Cardinality(Places(s, p, S)) >= 1
         /\ p <= Len(s) /\ s[p] \in S
              => Cardinality(Places(s, p + 1, S)) = Cardinality(Places(s, p, S)) - 1
         /\ ~ (p <= Len(s) /\ s[p] \in S) => Places(s, p + 1, S) = Places(s, p, S)
<1>1. Len(s) \in Nat /\ Places(s, p, S) \subseteq 1 .. Len(s)
  BY DEF Places
<1>2. IsFiniteSet(Places(s, p, S))
  <2>1. IsFiniteSet(1 .. Len(s))
    BY <1>1, FS_Interval
  <2> QED
    BY <1>1, <2>1, FS_Subset
<1>3. Cardinality(Places(s, p, S)) \in Nat
  BY <1>2, FS_CardinalityType
<1>4. Cardinality(Places(s, p, S)) = 0 <=> Places(s, p, S) = {}
  BY <1>2, FS_EmptySet
<1>5. ASSUME p <= Len(s), s[p] \in S
      PROVE  Cardinality(Places(s, p + 1, S)) = Cardinality(Places(s, p, S)) - 1
  <2>1. p \in Places(s, p, S)
    BY <1>1, <1>5 DEF Places
  <2>2. Places(s, p + 1, S) = Places(s, p, S) \ {p}
    BY <1>1 DEF Places
  <2> QED
    BY <1>2, <2>1, <2>2, FS_RemoveElement
<1>6. ASSUME ~ (p <= Len(s) /\ s[p] \in S)
      PROVE  Places(s, p + 1, S) = Places(s, p, S)
  BY <1>1, <1>6 DEF Places
<1> QED
  BY <1>2, <1>3, <1>4, <1>5, <1>6

\* The connections are finitely many, and so is every set of descriptors.
LEMMA CountDescriptors ==
  ASSUME NEW S, S \subseteq Descriptors
  PROVE  /\ IsFiniteSet(S) /\ Cardinality(S) \in 0 .. MaxConnections
         /\ S # {} => Cardinality(S) >= 1
<1>1. IsFiniteSet(Descriptors) /\ Cardinality(Descriptors) = MaxConnections
  BY MaxConnectionsAssumption, FS_Interval DEF Descriptors
<1>2. IsFiniteSet(S) /\ Cardinality(S) <= MaxConnections
  BY <1>1, FS_Subset
<1>3. Cardinality(S) \in Nat
  BY <1>2, FS_CardinalityType
<1>4. Cardinality(S) = 0 <=> S = {}
  BY <1>2, FS_EmptySet
<1> QED
  BY <1>2, <1>3, <1>4, MaxConnectionsAssumption


-----------------------------------------------------------------------------
(* What recv() finds.                                                       *)

\* Appending to a stream of one message.
LEMMA AppendToOne ==
  ASSUME NEW a, NEW b PROVE Append(<<a>>, b) = <<a, b>>
<1>0. PICK S : a \in S /\ b \in S
  <2>1. a \in {a, b} /\ b \in {a, b}
    OBVIOUS
  <2> QED
    BY <2>1, Zenon
<1>1. <<a>> \in Seq(S)
  BY <1>0
<1>2. Len(<<a>>) = 1 /\ <<a>>[1] = a
  OBVIOUS
<1>3. <<a, b>> \in Seq(S)
  BY <1>0
<1>4. Len(<<a, b>>) = 2 /\ <<a, b>>[1] = a /\ <<a, b>>[2] = b
  OBVIOUS
<1>5. \E s \in Seq(S) : s = <<a>>
  BY <1>1
<1>6. PICK s \in Seq(S) : s = <<a>>
  BY <1>5
<1>7. Append(s, b) \in Seq(S)
  BY <1>0
<1>8. Len(Append(s, b)) = 2
  BY <1>0, <1>2, <1>6
<1>9. Append(s, b)[1] = a /\ Append(s, b)[2] = b
  BY <1>0, <1>2, <1>6
<1>10. PICK x \in Seq(S) : x = Append(s, b)
  BY <1>7
<1>11. PICK y \in Seq(S) : y = <<a, b>>
  BY <1>3
<1>12. Len(x) = Len(y) /\ \A i \in 1 .. Len(x) : x[i] = y[i]
  <2>1. Len(x) = 2 /\ Len(y) = 2
    BY <1>4, <1>8, <1>10, <1>11
  <2>2. x[1] = y[1] /\ x[2] = y[2]
    BY <1>4, <1>9, <1>10, <1>11
  <2> QED
    BY <2>1, <2>2
<1>13. x = y
  BY <1>12, SeqEqual
<1> QED
  BY <1>6, <1>10, <1>11, <1>13

\* The streams that a client leaves to the monitor by closing its socket.
LEMMA ClosedStreams ==
  /\ Append(<< >>, "fin") = <<"fin">>
  /\ Append(<<"request">>, "fin") = <<"request", "fin">>
<1>1. Append(<< >>, "fin") = <<"fin">>
  OBVIOUS
<1>2. Append(<<"request">>, "fin") = <<"request", "fin">>
  BY AppendToOne, Zenon
<1> QED
  BY <1>1, <1>2

-----------------------------------------------------------------------------
(* The first state.                                                         *)

\* start() begins with no client: every conjunct of IInv holds there.
LEMMA InitIInv == Init => IInv
<1> SUFFICES ASSUME Init PROVE IInv
  OBVIOUS
<1> USE MaxConnectionsAssumption
<1>1. Open = {} /\ InUse = {} /\ Len(clients) = 0
  BY DEF Init, Open, InUse, Unaccepted, Descriptors
<1>2. TypeOK
  <2>1. fd \in [Connections -> Descriptors \cup {Unaccepted, HungUp}]
    BY DEF Init
  <2>2. peer \in [Connections -> PeerStates] /\ inbox \in [Connections -> Inboxes]
    BY DEF Init, PeerStates, Inboxes
  <2>3. clients \in Seq(Descriptors) /\ Len(clients) <= MaxConnections
    BY DEF Init
  <2>4. pos \in 1 .. MaxConnections + 1 /\ ready \in 0 .. MaxConnections + 1
    BY DEF Init
  <2> QED
    BY <2>1, <2>2, <2>3, <2>4 DEF Init, TypeOK, Modes
<1>3. Ordered
  BY <1>1 DEF Ordered, Init, Connections, Unaccepted
<1>4. Streams
  BY DEF Streams, Init
<1>5. Watched /\ NobodyForgotten
  BY <1>1 DEF Watched, NobodyForgotten, Init
<1>6. ListedOnce /\ HeardAhead /\ Round /\ ReadyCountsAhead /\ MonitorStaysUp
  BY <1>1 DEF ListedOnce, HeardAhead, Round, ReadyCountsAhead, MonitorStaysUp, Init
<1> QED
  BY <1>2, <1>3, <1>4, <1>5, <1>6 DEF IInv

-----------------------------------------------------------------------------
(* The steps of the clients.                                                *)

\* A client changes what it is doing and what the monitor has to recv from it, and
\* never takes back what it wrote.
LEMMA ClientStep ==
  ASSUME TypeOK, Streams, NEW c \in Connections,
         Connect(c) \/ Ask(c) \/ Hear(c) \/ Close(c)
  PROVE  /\ UNCHANGED <<server, fd, reused>>
         /\ peer' \in [Connections -> PeerStates]
         /\ inbox' \in [Connections -> Inboxes] /\ rude' \in BOOLEAN
         /\ Streams' /\ (rude => rude')
         /\ \A d \in Connections : /\ inbox[d] # << >> => inbox'[d] # << >>
                                   /\ peer[d] # "unborn" => peer'[d] # "unborn"
<1>1. CASE Connect(c)
  BY <1>1 DEF Connect, TypeOK, Streams, server, history, PeerStates
<1>2. CASE Ask(c)
  <2>1. <<"request">> \in Inboxes /\ <<"request">> # << >> /\ <<"request">> # <<"reset">>
    BY DEF Inboxes
  <2> QED
    BY <1>2, <2>1 DEF Ask, TypeOK, Streams, server, history, PeerStates
<1>3. CASE Hear(c)
  BY <1>3 DEF Hear, TypeOK, Streams, server, history, PeerStates
<1>4. CASE Close(c)
  <2> DEFINE left == IF peer[c] = "answered" THEN <<"reset">> ELSE Append(inbox[c], "fin")
  <2>1. peer[c] # "answered" => left = <<"fin">> \/ left = <<"request", "fin">>
    BY <1>4, ClosedStreams DEF Close, Streams
  <2>2. left \in Inboxes /\ left # << >>
    BY <2>1 DEF Inboxes
  <2>3. left = <<"reset">> => peer[c] = "answered"
    <3>1. <<"fin">> # <<"reset">> /\ <<"request", "fin">> # <<"reset">>
      OBVIOUS
    <3> QED
      BY <2>1, <3>1
  <2>4. /\ inbox' = [inbox EXCEPT ![c] = left] /\ peer' = [peer EXCEPT ![c] = "closed"]
        /\ rude' = (rude \/ peer[c] = "answered") /\ UNCHANGED <<server, fd, reused>>
    BY <1>4 DEF Close
  <2> HIDE DEF left
  <2>5. inbox'[c] = left /\ \A d \in Connections \ {c} : inbox'[d] = inbox[d]
    BY <2>4 DEF TypeOK
  <2>6. peer'[c] = "closed" /\ \A d \in Connections \ {c} : peer'[d] = peer[d]
    BY <2>4 DEF TypeOK
  <2>7. peer' \in [Connections -> PeerStates] /\ inbox' \in [Connections -> Inboxes]
    BY <2>2, <2>4 DEF TypeOK, PeerStates
  <2>8. Streams'
    BY <2>3, <2>4, <2>5, <2>6 DEF Streams
  <2>9. rude' \in BOOLEAN
    BY <2>4 DEF TypeOK
  <2> QED
    BY <2>2, <2>4, <2>5, <2>6, <2>7, <2>8, <2>9
<1> QED
  BY <1>1, <1>2, <1>3, <1>4

\* What a client does between two steps of the monitor keeps the invariant: the only
\* thing that a round counts on, that who was heard still has something to read, stays.
LEMMA ClientKeeps ==
  ASSUME IInv, NEW c \in Connections, Connect(c) \/ Ask(c) \/ Hear(c) \/ Close(c)
  PROVE  IInv'
<1>0. TypeOK /\ Streams /\ Ordered
  BY DEF IInv
<1>1. /\ UNCHANGED <<clients, everyone, readset, ready, pos, mode, fd, reused>>
      /\ rude => rude'
  BY <1>0, ClientStep DEF server
<1>2. \A d \in Connections : /\ inbox[d] # << >> => inbox'[d] # << >>
                             /\ peer[d] # "unborn" => peer'[d] # "unborn"
  BY <1>0, ClientStep
<1>3. TypeOK'
  <2>1. /\ peer' \in [Connections -> PeerStates]
        /\ inbox' \in [Connections -> Inboxes] /\ rude' \in BOOLEAN
    BY <1>0, ClientStep
  <2> QED
    BY <1>0, <1>1, <2>1 DEF TypeOK
<1>4. Streams'
  BY <1>0, ClientStep
<1>5. Open' = Open /\ InUse' = InUse /\ Listed' = Listed
  BY <1>1 DEF Open, InUse, Listed
<1>6. \A f : Speaks(f) => Speaks(f)'
  BY <1>1, <1>2, <1>5 DEF Speaks, Open
<1>7. Ordered'
  <2>1. \A a, b \in Connections : b < a /\ peer'[a] # "unborn" => peer'[b] # "unborn"
    <3> SUFFICES ASSUME NEW a \in Connections, NEW b \in Connections,
                        b < a, peer'[a] # "unborn"
                 PROVE  peer'[b] # "unborn"
      OBVIOUS
    <3>1. CASE peer[a] # "unborn"
      BY <1>0, <1>2, <3>1 DEF Ordered
    <3>2. CASE peer[a] = "unborn"
      <4>1. Connect(c) /\ a = c
        <5>1. a = c
          BY <1>0, <3>2 DEF Connect, Ask, Hear, Close, TypeOK
        <5> QED
          BY <3>2, <5>1 DEF Ask, Hear, Close
      <4>2. c > 1 /\ c - 1 \in Connections /\ peer[c - 1] # "unborn" /\ b <= c - 1
        BY <4>1, MaxConnectionsAssumption DEF Connect, Connections
      <4>3. peer[b] # "unborn"
        <5>1. CASE b = c - 1
          BY <4>2, <5>1
        <5>2. CASE b < c - 1
          BY <1>0, <4>2, <5>2 DEF Ordered
        <5> QED
          BY <4>2, <5>1, <5>2, MaxConnectionsAssumption DEF Connections
      <4> QED
        BY <1>2, <4>3
    <3> QED
      BY <3>1, <3>2
  <2> QED
    BY <1>0, <1>1, <1>2, <1>5, <2>1 DEF Ordered
<1>8. Watched' /\ NobodyForgotten' /\ ListedOnce'
  BY <1>1, <1>5 DEF IInv, Watched, NobodyForgotten, ListedOnce
<1>9. HeardAhead'
  BY <1>1, <1>6 DEF IInv, HeardAhead
<1>10. Round'
  <2>1. Queued \subseteq Queued'
    BY <1>1, <1>2 DEF Queued
  <2> QED
    BY <1>1, <2>1 DEF IInv, Round
<1>11. ReadyCountsAhead' /\ MonitorStaysUp'
  BY <1>1 DEF IInv, ReadyCountsAhead, MonitorStaysUp
<1> QED
  BY <1>3, <1>4, <1>7, <1>8, <1>9, <1>10, <1>11 DEF IInv


-----------------------------------------------------------------------------
(* The steps of the monitor.                                                *)

\* ReadyCountsAhead, in terms of the places of the ready descriptors.
LEMMA CountsAhead ==
  ReadyCountsAhead <=>
    (mode = "visit" /\ ~reused => ready = Cardinality(Places(clients, pos, readset)))
BY DEF ReadyCountsAhead, Places

\* What is open is listed: the descriptors select() finds ready are in the list.
LEMMA OpenListed ==
  ASSUME NobodyForgotten, NEW S, S \subseteq InUse
  PROVE  \A f \in S : \E i \in 1 .. Len(clients) : clients[i] = f
BY DEF NobodyForgotten, InUse, Listed

\* select() returns: it was given open descriptors only, those it found ready are in the
\* list, once each while no descriptor came back, and the count is theirs.
LEMMA SelectKeeps ==
  ASSUME IInv, Select PROVE IInv'
<1> USE MaxConnectionsAssumption
<1>0. TypeOK /\ Watched /\ NobodyForgotten /\ ListedOnce
  BY DEF IInv
<1> DEFINE heard == {fd[c] : c \in {d \in Open : inbox[d] # << >>}} \cap everyone
<1>1. /\ UNCHANGED <<clients, everyone, fd, peer, inbox, history>> /\ pos' = 1
      /\ readset' = heard /\ ready' = Count(heard)
      /\ heard # {} \/ Queued # {}
      /\ mode' = IF Queued # {} THEN "accept" ELSE "visit"
  BY <1>0 DEF Select, Watched
<1>2. /\ Open' = Open /\ InUse' = InUse /\ Listed' = Listed /\ Queued' = Queued
      /\ UNCHANGED <<reused, rude>>
  BY <1>1 DEF Open, InUse, Listed, Queued, history
<1>3. heard \subseteq InUse /\ heard \subseteq Descriptors
  BY DEF InUse, Open
<1>4. \A f \in readset' : Speaks(f)'
  BY <1>1, <1>2 DEF Speaks
<1> HIDE DEF heard
<1>5. Cardinality(heard) \in 0 .. MaxConnections /\ (heard # {} => Cardinality(heard) >= 1)
  BY <1>3, CountDescriptors
<1>6. /\ Queued # {} => ready' = Cardinality(heard) + 1
      /\ Queued = {} => ready' = Cardinality(heard)
  BY <1>1, <1>5 DEF Count
<1>7. ready' \in 0 .. MaxConnections + 1 /\ ready' >= 1
  BY <1>1, <1>5, <1>6
<1>8. TypeOK'
  BY <1>0, <1>1, <1>2, <1>3, <1>7 DEF TypeOK, Modes
<1>9. Ordered' /\ Streams' /\ Watched' /\ NobodyForgotten' /\ ListedOnce'
  BY <1>1, <1>2 DEF IInv, Ordered, Streams, Watched, NobodyForgotten, ListedOnce
<1>10. HeardAhead'
  BY <1>4 DEF HeardAhead
<1>11. Round'
  BY <1>0, <1>1, <1>2, <1>6, <1>7 DEF Round, TypeOK
<1>12. ReadyCountsAhead'
  <2> SUFFICES ASSUME mode' = "visit", ~reused'
               PROVE  ready' = Cardinality(Places(clients, 1, heard))
    BY <1>1 DEF ReadyCountsAhead, Places
  <2>1. Cardinality(Places(clients, 1, heard)) = Cardinality(heard)
    <3>1. clients \in Seq(Descriptors)
      BY <1>0 DEF TypeOK
    <3>2. \A i, j \in 1 .. Len(clients) : clients[i] = clients[j] => i = j
      BY <1>0, <1>2 DEF ListedOnce
    <3>3. \A f \in heard : \E i \in 1 .. Len(clients) : clients[i] = f
      BY <1>0, <1>3, OpenListed
    <3> QED
      BY <3>1, <3>2, <3>3, CountPlaces
  <2> QED
    BY <1>1, <1>6, <2>1
<1>13. MonitorStaysUp'
  BY <1>1 DEF MonitorStaysUp
<1> QED
  BY <1>8, <1>9, <1>10, <1>11, <1>12, <1>13 DEF IInv

\* accept() returns the oldest connection that waits, and the kernel has a descriptor for
\* it: connections were made and accepted in order, so fewer are open than were made.
LEMMA AcceptedNext ==
  ASSUME TypeOK, Ordered, Queued # {}
  PROVE  /\ Lowest(Queued) = Len(clients) + 1 /\ Len(clients) + 1 \in Connections
         /\ Lowest(Descriptors \ InUse) \in Descriptors \ InUse
         /\ Lowest(Descriptors \ InUse) <= Len(clients) + 1
<1> USE MaxConnectionsAssumption
<1>1. Len(clients) \in Nat
  BY DEF TypeOK
<1>2. \A c \in Connections : c \in Queued <=> ~ (c <= Len(clients)) /\ peer[c] # "unborn"
  BY DEF Ordered, Queued
<1>3. Queued \subseteq Connections
  BY DEF Queued
<1>4. Lowest(Queued) \in Queued /\ \A c \in Queued : Lowest(Queued) <= c
  BY <1>3, LowestIs DEF Connections
<1>5. PICK q \in Connections : q = Lowest(Queued)
  BY <1>3, <1>4
<1>6. q \in Nat /\ q <= MaxConnections /\ q >= Len(clients) + 1 /\ peer[q] # "unborn"
  BY <1>1, <1>2, <1>4, <1>5 DEF Connections
<1>7. Len(clients) + 1 \in Connections
  BY <1>1, <1>6 DEF Connections
<1>8. q = Len(clients) + 1
  <2> SUFFICES ASSUME Len(clients) + 1 < q PROVE FALSE
    BY <1>1, <1>6
  <2>1. peer[Len(clients) + 1] # "unborn"
    BY <1>5, <1>6, <1>7 DEF Ordered
  <2>2. Len(clients) + 1 \in Queued
    BY <1>1, <1>2, <1>7, <2>1
  <2> QED
    BY <1>1, <1>4, <1>5, <1>6, <2>2
<1>9. Len(clients) + 1 \in Descriptors \ InUse
  BY <1>1, <1>7 DEF InUse, Ordered, Connections, Descriptors
<1>10. Descriptors \ InUse \in SUBSET Nat
  BY DEF Descriptors
<1>11. /\ Lowest(Descriptors \ InUse) \in Descriptors \ InUse
       /\ \A n \in Descriptors \ InUse : Lowest(Descriptors \ InUse) <= n
  BY <1>9, <1>10, LowestIs
<1> QED
  BY <1>5, <1>7, <1>8, <1>9, <1>11


\* The list after push_front.
LEMMA PushFront ==
  ASSUME NEW D, NEW s \in Seq(D), NEW f \in D, NEW t, t = <<f>> \o s
  PROVE  /\ t \in Seq(D) /\ Len(t) = Len(s) + 1 /\ t[1] = f
         /\ \A i \in 1 .. Len(s) : t[i + 1] = s[i]
         /\ \A i \in 2 .. Len(t) : i - 1 \in 1 .. Len(s) /\ t[i] = s[i - 1]
<1>1. <<f>> \in Seq(D) /\ Len(<<f>>) = 1 /\ <<f>>[1] = f
  OBVIOUS
<1>2. PICK o \in Seq(D) : o = <<f>>
  BY <1>1
<1>3. Len(o) = 1 /\ o[1] = f /\ Len(s) \in Nat
  BY <1>1, <1>2
<1>4. t \in Seq(D) /\ Len(t) = Len(s) + 1
  BY <1>2, <1>3
<1>5. \A i \in 1 .. Len(t) : t[i] = IF i <= 1 THEN o[i] ELSE s[i - 1]
  BY <1>2, <1>3, ConcatProperties
<1> QED
  BY <1>3, <1>4, <1>5

\* A new process: its descriptor is not open, so nobody has been heard there in this
\* round; it may be in the list from an earlier connection, which is what reused says.
LEMMA AcceptKeeps ==
  ASSUME IInv, Accept PROVE IInv'
<1> USE MaxConnectionsAssumption
<1>0. TypeOK /\ Ordered /\ Streams /\ Watched /\ NobodyForgotten /\ ListedOnce /\ Round
  BY DEF IInv
<1>1. mode = "accept" /\ Queued # {}
  BY <1>0 DEF Accept, Round
<1>2. PICK f : f = Lowest(Descriptors \ InUse)
  OBVIOUS
<1>3. PICK n : n = Len(clients) + 1
  OBVIOUS
<1>4. /\ n \in Connections /\ n \in Nat /\ n = Len(clients) + 1 /\ n <= MaxConnections
      /\ Lowest(Queued) = n /\ Len(clients) \in Nat
      /\ f \in Descriptors /\ f \notin InUse /\ f <= n
  BY <1>0, <1>1, <1>2, <1>3, AcceptedNext DEF TypeOK, Connections
<1>5. /\ fd' = [fd EXCEPT ![n] = f] /\ reused' = (reused \/ f \in Listed)
      /\ everyone' = everyone \cup {f} /\ clients' = <<f>> \o clients
      /\ ready' = ready - 1 /\ mode' = IF ready <= 1 THEN "select" ELSE "visit"
      /\ UNCHANGED <<readset, pos, peer, inbox, rude>>
  BY <1>2, <1>4 DEF Accept, Watch
<1>6. /\ clients' \in Seq(Descriptors) /\ Len(clients') = n /\ clients'[1] = f
      /\ \A i \in 1 .. Len(clients) : clients'[i + 1] = clients[i]
      /\ \A i \in 2 .. n : i - 1 \in 1 .. Len(clients) /\ clients'[i] = clients[i - 1]
  BY <1>0, <1>4, <1>5, PushFront DEF TypeOK
<1>7. Listed' = Listed \cup {f}
  <2>1. \A i \in 1 .. n : clients'[i] \in Listed \cup {f}
    BY <1>4, <1>6 DEF Listed
  <2>2. f \in Listed'
    BY <1>4, <1>6 DEF Listed
  <2>3. \A i \in 1 .. Len(clients) : clients[i] \in Listed'
    <3>1. \A i \in 1 .. Len(clients) : i + 1 \in 1 .. Len(clients')
      BY <1>4, <1>6
    <3> QED
      BY <1>6, <3>1, Zenon DEF Listed
  <2>4. Listed' \subseteq Listed \cup {f}
    BY <1>6, <2>1 DEF Listed
  <2>5. Listed \subseteq Listed'
    <3> SUFFICES ASSUME NEW g \in Listed PROVE g \in Listed'
      OBVIOUS
    <3>1. PICK i \in 1 .. Len(clients) : g = clients[i]
      BY DEF Listed
    <3> QED
      BY <2>3, <3>1
  <2> QED
    BY <2>2, <2>4, <2>5
<1>8. fd'[n] = f /\ \A c \in Connections \ {n} : fd'[c] = fd[c]
  BY <1>0, <1>4, <1>5 DEF TypeOK
<1>9. n \notin Open
  BY <1>0, <1>4 DEF Ordered, Open, Unaccepted, Descriptors
<1>10. Open' = Open \cup {n}
  <2>1. \A c \in Connections : c \in Open' <=> c \in Open \/ c = n
    BY <1>4, <1>8 DEF Open
  <2>2. Open' \subseteq Connections /\ Open \subseteq Connections
    BY DEF Open
  <2> QED
    BY <1>4, <2>1, <2>2
<1>11. InUse' = InUse \cup {f}
  BY <1>8, <1>9, <1>10 DEF InUse, Open
<1>12. ready \in Nat /\ ready >= 1 /\ ready' \in Nat /\ ready' <= MaxConnections + 1 /\ pos = 1
  BY <1>0, <1>1, <1>5 DEF TypeOK, Round
<1>13. TypeOK'
  <2>1. fd' \in [Connections -> Descriptors \cup {Unaccepted, HungUp}]
    BY <1>0, <1>4, <1>5 DEF TypeOK
  <2>2. reused' \in BOOLEAN /\ everyone' \subseteq Descriptors
    BY <1>0, <1>4, <1>5 DEF TypeOK
  <2>3. mode' \in Modes
    BY <1>5 DEF Modes
  <2>4. Len(clients') <= MaxConnections /\ ready' \in 0 .. MaxConnections + 1
    BY <1>4, <1>6, <1>12
  <2> QED
    BY <1>0, <1>5, <1>6, <2>1, <2>2, <2>3, <2>4 DEF TypeOK
<1>14. Ordered'
  <2>1. f # Unaccepted
    BY <1>4 DEF Descriptors, Unaccepted
  <2>2. \A c \in Connections : fd'[c] # Unaccepted <=> c <= Len(clients')
    <3> SUFFICES ASSUME NEW c \in Connections PROVE fd'[c] # Unaccepted <=> c <= n
      BY <1>6
    <3>1. c \in Nat
      BY DEF Connections
    <3>2. CASE c = n
      BY <1>4, <1>8, <2>1, <3>2
    <3>3. CASE c # n
      <4>1. c <= n <=> c <= Len(clients)
        BY <1>4, <3>1, <3>3
      <4> QED
        BY <1>0, <1>8, <3>3, <4>1 DEF Ordered
    <3> QED
      BY <3>2, <3>3
  <2>3. \A c \in Connections : c <= Len(clients') => peer'[c] # "unborn"
    <3> SUFFICES ASSUME NEW c \in Connections, c <= n PROVE peer[c] # "unborn"
      BY <1>5, <1>6
    <3>1. peer[n] # "unborn"
      <4>1. Queued \in SUBSET Nat
        BY DEF Queued, Connections
      <4>2. n \in Queued
        BY <1>1, <1>4, <4>1, LowestIs
      <4> QED
        BY <4>2 DEF Queued
    <3> QED
      BY <1>0, <1>4, <3>1 DEF Ordered, Connections
  <2>4. \A c, d \in Connections : d < c /\ peer'[c] # "unborn" => peer'[d] # "unborn"
    BY <1>0, <1>5 DEF Ordered
  <2>5. \A c \in Open' : fd'[c] <= Len(clients')
    <3>1. fd'[n] <= n
      BY <1>4, <1>8
    <3>2. ASSUME NEW c \in Open PROVE fd'[c] <= n
      <4>1. fd[c] <= Len(clients) /\ fd[c] \in Nat /\ fd'[c] = fd[c]
        BY <1>0, <1>8, <1>9 DEF Ordered, Open, Descriptors
      <4> QED
        BY <1>4, <4>1
    <3> QED
      BY <1>6, <1>10, <3>1, <3>2
  <2> QED
    BY <2>2, <2>3, <2>4, <2>5 DEF Ordered
<1>15. Streams'
  BY <1>0, <1>5 DEF Streams
<1>16. Watched'
  BY <1>0, <1>5, <1>11 DEF Watched
<1>17. NobodyForgotten'
  <2> SUFFICES ASSUME NEW c \in Open'
               PROVE  /\ fd'[c] \in everyone' \cap Listed'
                      /\ \A d \in Open' \ {c} : fd'[d] # fd'[c]
    BY DEF NobodyForgotten
  <2>1. \A d \in Open : fd'[d] = fd[d] /\ fd[d] # f /\ fd[d] \in everyone \cap Listed
    BY <1>0, <1>4, <1>8, <1>9 DEF InUse, Open, NobodyForgotten
  <2>2. fd'[c] \in everyone' \cap Listed'
    BY <1>5, <1>7, <1>8, <1>10, <2>1
  <2>3. \A d \in Open' \ {c} : fd'[d] # fd'[c]
    BY <1>0, <1>8, <1>10, <2>1 DEF NobodyForgotten
  <2> QED
    BY <2>2, <2>3
<1>18. ListedOnce'
  <2> SUFFICES ASSUME ~reused', NEW i \in 1 .. n, NEW j \in 1 .. n,
                      clients'[i] = clients'[j]
               PROVE  i = j
    BY <1>6 DEF ListedOnce
  <2>1. ~reused /\ \A k \in 1 .. Len(clients) : clients[k] # f
    BY <1>5 DEF Listed
  <2>2. CASE i = 1
    BY <1>4, <1>6, <2>1, <2>2
  <2>3. CASE j = 1
    BY <1>4, <1>6, <2>1, <2>3
  <2>4. CASE i # 1 /\ j # 1
    <3>1. i \in 2 .. n /\ j \in 2 .. n
      BY <1>4, <2>4
    <3>2. clients[i - 1] = clients[j - 1] /\ i - 1 \in 1 .. Len(clients) /\ j - 1 \in 1 .. Len(clients)
      BY <1>6, <3>1
    <3>3. i - 1 = j - 1
      BY <1>0, <2>1, <3>2 DEF ListedOnce
    <3> QED
      BY <3>1, <3>3
  <2> QED
    BY <2>2, <2>3, <2>4
<1>19. \A g \in readset' : Speaks(g)'
  <2> SUFFICES ASSUME NEW g \in readset PROVE \E c \in Open' : fd'[c] = g /\ inbox'[c] # << >>
    BY <1>5 DEF Speaks
  <2>1. PICK c \in Open : fd[c] = g /\ inbox[c] # << >>
    BY <1>1 DEF IInv, HeardAhead, Speaks
  <2> QED
    BY <1>5, <1>8, <1>9, <1>10, <2>1 DEF Open
<1>20. HeardAhead'
  BY <1>19 DEF HeardAhead
<1>21. Round'
  <2>1. mode' = "visit" => ready' >= 1
    BY <1>5, <1>12
  <2>2. pos' <= Len(clients') + 1
    BY <1>4, <1>5, <1>6, <1>12
  <2> QED
    BY <1>5, <2>1, <2>2 DEF Round
<1>22. ReadyCountsAhead'
  <2> SUFFICES ASSUME ~reused'
               PROVE  ready' = Cardinality(Places(clients', 1, readset))
    BY <1>5, <1>12 DEF ReadyCountsAhead, Places
  <2>1. ready = Cardinality(readset) + 1
    BY <1>0, <1>1 DEF Round
  <2>2. Cardinality(readset) \in Nat
    BY <1>0, CountDescriptors DEF TypeOK
  <2>3. \A i, j \in 1 .. Len(clients') : clients'[i] = clients'[j] => i = j
    BY <1>18 DEF ListedOnce
  <2>4. \A g \in readset : \E i \in 1 .. Len(clients') : clients'[i] = g
    <3>1. readset \subseteq InUse
      BY <1>1 DEF IInv, HeardAhead, Speaks, InUse
    <3>2. readset \subseteq Listed'
      BY <1>0, <1>7, <3>1 DEF InUse, NobodyForgotten
    <3> QED
      BY <3>2 DEF Listed
  <2>5. Cardinality(Places(clients', 1, readset)) = Cardinality(readset)
    BY <1>6, <2>3, <2>4, CountPlaces
  <2> QED
    BY <1>5, <2>1, <2>2, <2>5
<1>23. MonitorStaysUp'
  BY <1>5 DEF MonitorStaysUp
<1> QED
  BY <1>13, <1>14, <1>15, <1>16, <1>17, <1>18, <1>20, <1>21, <1>22, <1>23 DEF IInv


\* The iterator goes past a place that nobody ready is at, or the round ends.
LEMMA PassKeeps ==
  ASSUME IInv, Pass PROVE IInv'
<1> USE MaxConnectionsAssumption
<1>0. TypeOK /\ Round /\ mode = "visit"
  BY DEF IInv, Pass
<1>1. UNCHANGED <<clients, everyone, readset, ready, fd, peer, inbox, reused, rude>>
  BY DEF Pass, history
<1>2. Open' = Open /\ InUse' = InUse /\ Listed' = Listed
  BY <1>1 DEF Open, InUse, Listed
<1>3. pos \in Nat \ {0} /\ Len(clients) \in Nat /\ clients \in Seq(Descriptors)
      /\ Len(clients) <= MaxConnections
  BY <1>0 DEF TypeOK
<1>4. \/ mode' = "select" /\ pos' = pos
      \/ /\ mode' = "visit" /\ pos' = pos + 1 /\ pos <= Len(clients)
         /\ clients[pos] \notin readset
  BY <1>0 DEF Pass
<1>5. TypeOK'
  <2>1. pos' \in 1 .. MaxConnections + 1
    BY <1>0, <1>3, <1>4 DEF TypeOK
  <2>2. mode' \in Modes
    BY <1>4 DEF Modes
  <2> QED
    BY <1>0, <1>1, <2>1, <2>2 DEF TypeOK
<1>6. Ordered' /\ Streams' /\ Watched' /\ NobodyForgotten' /\ ListedOnce'
  BY <1>1, <1>2 DEF IInv, Ordered, Streams, Watched, NobodyForgotten, ListedOnce
<1>7. HeardAhead'
  <2> SUFFICES ASSUME mode' = "visit", ~reused', NEW i \in pos' .. Len(clients'),
                      clients'[i] \in readset'
               PROVE  Speaks(clients[i])'
    BY <1>4 DEF HeardAhead
  <2>1. i \in pos .. Len(clients) /\ clients[i] \in readset /\ ~reused
    BY <1>1, <1>3, <1>4
  <2>2. Speaks(clients[i])
    BY <1>0, <2>1 DEF IInv, HeardAhead
  <2> QED
    BY <1>1, <1>2, <2>2 DEF Speaks
<1>8. Round'
  BY <1>0, <1>1, <1>3, <1>4 DEF Round
<1>9. ReadyCountsAhead'
  <2> SUFFICES ASSUME mode' = "visit", ~reused'
               PROVE  ready = Cardinality(Places(clients, pos + 1, readset))
    BY <1>1, <1>4 DEF ReadyCountsAhead, Places
  <2>1. ready = Cardinality(Places(clients, pos, readset))
    BY <1>0, <1>1, CountsAhead DEF IInv
  <2>2. Places(clients, pos + 1, readset) = Places(clients, pos, readset)
    BY <1>3, <1>4, PlacesAfter
  <2> QED
    BY <2>1, <2>2
<1>10. MonitorStaysUp'
  BY <1>4 DEF MonitorStaysUp
<1> QED
  BY <1>5, <1>6, <1>7, <1>8, <1>9, <1>10 DEF IInv

\* if (--ready <= 0) break; ++p: the count stays that of the places ahead, and the round
\* ends where none is left.
LEMMA ServeNextKeeps ==
  ASSUME TypeOK, Round, ReadyCountsAhead, Visiting, ServeNext,
         UNCHANGED <<clients, readset, reused>>
  PROVE  /\ pos' \in 1 .. MaxConnections + 1 /\ ready' \in 0 .. MaxConnections + 1
         /\ mode' \in {"select", "visit"} /\ Round' /\ ReadyCountsAhead'
         /\ mode' = "visit" => pos' = pos + 1
<1> USE MaxConnectionsAssumption
<1>1. mode = "visit" /\ pos <= Len(clients) /\ clients[pos] \in readset
  BY DEF Visiting
<1>2. pos \in Nat \ {0} /\ Len(clients) \in Nat /\ clients \in Seq(Descriptors)
      /\ Len(clients) <= MaxConnections /\ ready \in Nat /\ ready <= MaxConnections + 1
      /\ ready >= 1
  BY <1>1 DEF TypeOK, Round
<1>3. \/ ready = 1 /\ mode' = "select" /\ pos' = pos /\ ready' = ready - 1
      \/ ready > 1 /\ mode' = "visit" /\ pos' = pos + 1 /\ ready' = ready - 1
  BY <1>1, <1>2 DEF ServeNext
<1>4. pos' \in 1 .. MaxConnections + 1 /\ ready' \in 0 .. MaxConnections + 1
  BY <1>1, <1>2, <1>3
<1>5. Round'
  BY <1>1, <1>2, <1>3 DEF Round
<1>6. ReadyCountsAhead'
  <2> SUFFICES ASSUME mode' = "visit", ~reused'
               PROVE  ready - 1 = Cardinality(Places(clients, pos + 1, readset))
    BY <1>3 DEF ReadyCountsAhead, Places
  <2>1. ready = Cardinality(Places(clients, pos, readset))
    BY <1>1, CountsAhead
  <2>2. Cardinality(Places(clients, pos + 1, readset))
          = Cardinality(Places(clients, pos, readset)) - 1
    BY <1>1, <1>2, PlacesAfter
  <2> QED
    BY <2>1, <2>2
<1> QED
  BY <1>3, <1>4, <1>5, <1>6

\* Serving the client at one place leaves what was heard at the places ahead, while no
\* descriptor is in the list twice: they are other descriptors, of other connections.
LEMMA OthersStillHeard ==
  ASSUME TypeOK, ListedOnce, HeardAhead, Visiting, ServeNext, NEW c \in Connections,
         fd[c] = clients[pos], mode' = "visit" => pos' = pos + 1,
         mode' \in {"select", "visit"},
         UNCHANGED <<clients, readset, reused>>,
         \A d \in Connections \ {c} : fd'[d] = fd[d] /\ inbox'[d] = inbox[d]
  PROVE  HeardAhead'
<1> SUFFICES ASSUME mode' = "visit", ~reused', NEW i \in pos + 1 .. Len(clients),
                    clients[i] \in readset
             PROVE  Speaks(clients[i])'
  BY DEF HeardAhead
<1>1. mode = "visit" /\ pos \in 1 .. Len(clients) /\ i \in pos .. Len(clients)
      /\ i \in 1 .. Len(clients) /\ i # pos
  BY DEF Visiting, TypeOK
<1>2. clients[i] # clients[pos]
  BY <1>1 DEF ListedOnce
<1>3. Speaks(clients[i])
  BY <1>1 DEF HeardAhead
<1>4. PICK d \in Open : fd[d] = clients[i] /\ inbox[d] # << >>
  BY <1>3 DEF Speaks
<1>5. d \in Connections \ {c}
  BY <1>2, <1>4 DEF Open
<1>6. d \in Open' /\ fd'[d] = clients[i] /\ inbox'[d] # << >>
  BY <1>4, <1>5 DEF Open
<1> QED
  BY <1>6 DEF Speaks


\* recv() returns a request: it is taken from the stream and its answer waits.
LEMMA ServeKeeps ==
  ASSUME IInv, NEW c \in Connections, Serve(c) PROVE IInv'
<1>0. TypeOK /\ Streams /\ Round /\ ReadyCountsAhead /\ ListedOnce /\ HeardAhead
  BY DEF IInv
<1>1. /\ Visiting /\ ServeNext /\ fd[c] = clients[pos]
      /\ inbox[c] # << >> /\ Head(inbox[c]) = "request"
      /\ inbox' = [inbox EXCEPT ![c] = Tail(inbox[c])]
      /\ peer' = [peer EXCEPT ![c] = IF peer[c] = "asked" THEN "answered" ELSE peer[c]]
      /\ UNCHANGED <<clients, everyone, readset, fd, reused, rude>>
  BY DEF Serve, Receives, history
<1>2. /\ pos' \in 1 .. MaxConnections + 1 /\ ready' \in 0 .. MaxConnections + 1
      /\ mode' \in {"select", "visit"} /\ Round' /\ ReadyCountsAhead'
      /\ mode' = "visit" => pos' = pos + 1
  BY <1>0, <1>1, ServeNextKeeps
<1>3. Open' = Open /\ InUse' = InUse /\ Listed' = Listed
  BY <1>1 DEF Open, InUse, Listed
<1>4. \/ inbox[c] = <<"request">> /\ Tail(inbox[c]) = << >>
      \/ /\ inbox[c] = <<"request", "fin">> /\ Tail(inbox[c]) = <<"fin">>
         /\ peer[c] = "closed"
  <2>1. inbox[c] \in {<<"request">>, <<"request", "fin">>}
    <3>1. Head(<<"fin">>) = "fin" /\ Head(<<"reset">>) = "reset"
      OBVIOUS
    <3>2. inbox[c] \in Inboxes
      BY <1>0 DEF TypeOK
    <3> QED
      BY <1>1, <3>1, <3>2 DEF Inboxes
  <2>2. Tail(<<"request">>) = << >> /\ Tail(<<"request", "fin">>) = <<"fin">>
    OBVIOUS
  <2>3. <<"request", "fin">> # << >> /\ <<"request", "fin">> # <<"request">>
    OBVIOUS
  <2>4. inbox[c] = <<"request", "fin">> => peer[c] = "closed"
    BY <1>0, <2>3 DEF Streams, TypeOK, PeerStates
  <2> QED
    BY <2>1, <2>2, <2>4
<1>5. peer[c] \in {"asked", "closed"}
  BY <1>0, <1>1 DEF Streams, TypeOK, PeerStates
<1>6. /\ inbox'[c] = Tail(inbox[c]) /\ peer'[c] \in {"answered", "closed"}
      /\ peer'[c] = "answered" => peer[c] = "asked"
      /\ \A d \in Connections \ {c} : inbox'[d] = inbox[d] /\ peer'[d] = peer[d]
  BY <1>0, <1>1, <1>5 DEF TypeOK
<1>7. TypeOK'
  <2>1. inbox' \in [Connections -> Inboxes] /\ peer' \in [Connections -> PeerStates]
    <3>1. Tail(inbox[c]) \in Inboxes
      BY <1>4 DEF Inboxes
    <3> QED
      BY <1>0, <1>1, <3>1 DEF TypeOK, PeerStates
  <2> QED
    BY <1>0, <1>1, <1>2, <2>1 DEF TypeOK, Modes
<1>8. Ordered'
  <2>1. \A d \in Connections : peer'[d] # "unborn" <=> peer[d] # "unborn"
    BY <1>5, <1>6
  <2> QED
    BY <1>1, <1>3, <2>1 DEF IInv, Ordered
<1>9. Streams'
  <2>1. peer'[c] = "answered" => inbox'[c] = << >>
    BY <1>0, <1>4, <1>6 DEF Streams
  <2>2. inbox'[c] # <<"reset">>
    BY <1>4, <1>6
  <2> QED
    BY <1>0, <1>1, <1>6, <2>1, <2>2 DEF Streams
<1>10. Watched' /\ NobodyForgotten' /\ ListedOnce'
  BY <1>1, <1>3 DEF IInv, Watched, NobodyForgotten, ListedOnce
<1>11. HeardAhead'
  BY <1>0, <1>1, <1>2, <1>6, OthersStillHeard
<1>12. MonitorStaysUp'
  BY <1>2 DEF MonitorStaysUp
<1> QED
  BY <1>2, <1>7, <1>8, <1>9, <1>10, <1>11, <1>12 DEF IInv

\* recv() returns 0: the descriptor is closed and no longer watched, and it was nobody
\* else's.
LEMMA HangUpKeeps ==
  ASSUME IInv, NEW c \in Connections, HangUp(c) PROVE IInv'
<1> USE MaxConnectionsAssumption
<1>0. TypeOK /\ Streams /\ Round /\ ReadyCountsAhead /\ ListedOnce /\ HeardAhead
      /\ NobodyForgotten /\ Watched /\ Ordered
  BY DEF IInv
<1>1. /\ Visiting /\ ServeNext /\ fd[c] = clients[pos] /\ inbox[c] # << >>
      /\ inbox' = [inbox EXCEPT ![c] = << >>] /\ fd' = [fd EXCEPT ![c] = HungUp]
      /\ everyone' = everyone \ {fd[c]}
      /\ UNCHANGED <<clients, readset, peer, reused, rude>>
  BY DEF HangUp, Receives, Unwatch, history
<1>2. /\ pos' \in 1 .. MaxConnections + 1 /\ ready' \in 0 .. MaxConnections + 1
      /\ mode' \in {"select", "visit"} /\ Round' /\ ReadyCountsAhead'
      /\ mode' = "visit" => pos' = pos + 1
  BY <1>0, <1>1, ServeNextKeeps
<1>3. /\ fd'[c] = HungUp /\ inbox'[c] = << >>
      /\ \A d \in Connections \ {c} : fd'[d] = fd[d] /\ inbox'[d] = inbox[d]
  BY <1>0, <1>1 DEF TypeOK
<1>4. c \in Open
  <2>1. clients \in Seq(Descriptors) /\ pos \in 1 .. Len(clients)
    BY <1>0, <1>1 DEF TypeOK, Visiting
  <2>2. clients[pos] \in Descriptors
    BY <2>1
  <2> QED
    BY <1>1, <2>2 DEF Open
<1>5. HungUp \notin Descriptors /\ HungUp # Unaccepted
  BY DEF HungUp, Descriptors, Unaccepted
<1>6. Open' = Open \ {c}
  <2>1. \A d \in Connections : d \in Open' <=> d \in Open /\ d # c
    BY <1>3, <1>5 DEF Open
  <2>2. Open' \subseteq Connections /\ Open \subseteq Connections
    BY DEF Open
  <2> QED
    BY <2>1, <2>2
<1>7. \A d \in Open' : d \in Open \ {c} /\ fd'[d] = fd[d] /\ fd[d] # fd[c]
  BY <1>0, <1>3, <1>4, <1>6 DEF NobodyForgotten, Open
<1>8. InUse' = InUse \ {fd[c]}
  <2>1. \A f \in InUse' : f \in InUse \ {fd[c]}
    BY <1>7 DEF InUse
  <2>2. ASSUME NEW f \in InUse, f # fd[c] PROVE f \in InUse'
    <3>1. PICK d \in Open : f = fd[d]
      BY DEF InUse
    <3>2. d \in Open' /\ fd'[d] = f
      BY <1>3, <1>6, <2>2, <3>1 DEF Open
    <3> QED
      BY <3>2 DEF InUse
  <2> QED
    BY <2>1, <2>2
<1>9. Listed' = Listed
  BY <1>1 DEF Listed
<1>10. TypeOK'
  <2>1. inbox' \in [Connections -> Inboxes]
    BY <1>0, <1>1 DEF TypeOK, Inboxes
  <2>2. fd' \in [Connections -> Descriptors \cup {Unaccepted, HungUp}]
    BY <1>0, <1>1 DEF TypeOK
  <2> QED
    BY <1>0, <1>1, <1>2, <2>1, <2>2 DEF TypeOK, Modes
<1>11. Ordered'
  <2>1. \A d \in Connections : fd'[d] # Unaccepted <=> fd[d] # Unaccepted
    <3>1. fd[c] # Unaccepted
      BY <1>4 DEF Open, Descriptors, Unaccepted
    <3> QED
      BY <1>3, <1>5, <3>1
  <2>2. \A d \in Open' : fd'[d] <= Len(clients)
    BY <1>0, <1>7 DEF Ordered
  <2> QED
    BY <1>0, <1>1, <2>1, <2>2 DEF Ordered
<1>12. Streams'
  <2>1. peer[c] # "asked"
    <3>1. Head(<<"request">>) = "request" /\ Head(inbox[c]) = "fin"
      BY DEF HangUp, Receives
    <3> QED
      BY <1>0, <3>1 DEF Streams
  <2> QED
    BY <1>0, <1>1, <1>3, <2>1 DEF Streams
<1>13. Watched' /\ ListedOnce'
  BY <1>0, <1>1, <1>8 DEF Watched, ListedOnce
<1>14. NobodyForgotten'
  <2>1. ASSUME NEW d \in Open'
        PROVE  fd'[d] \in everyone' \cap Listed' /\ \A e \in Open' \ {d} : fd'[e] # fd'[d]
    BY <1>0, <1>1, <1>7, <1>9 DEF NobodyForgotten
  <2> QED
    BY <2>1 DEF NobodyForgotten
<1>15. HeardAhead'
  BY <1>0, <1>1, <1>2, <1>3, OthersStillHeard
<1>16. MonitorStaysUp'
  BY <1>2 DEF MonitorStaysUp
<1> QED
  BY <1>2, <1>10, <1>11, <1>12, <1>13, <1>14, <1>15, <1>16 DEF IInv

\* recv() returns -1: somebody was rude, or a descriptor came back, for what is at p was
\* heard in this round and is open.
LEMMA RecvFailsKeeps ==
  ASSUME IInv, RecvFails PROVE IInv'
<1>0. TypeOK /\ Streams /\ HeardAhead
  BY DEF IInv
<1>1. /\ mode' = "exited"
      /\ UNCHANGED <<clients, everyone, readset, ready, pos, fd, peer, inbox, reused, rude>>
  BY DEF RecvFails, history
<1>2. Open' = Open /\ InUse' = InUse /\ Listed' = Listed
  BY <1>1 DEF Open, InUse, Listed
<1>3. TypeOK'
  BY <1>0, <1>1 DEF TypeOK, Modes
<1>4. Ordered' /\ Streams' /\ Watched' /\ NobodyForgotten' /\ ListedOnce'
  BY <1>1, <1>2 DEF IInv, Ordered, Streams, Watched, NobodyForgotten, ListedOnce
<1>5. HeardAhead' /\ Round' /\ ReadyCountsAhead'
  BY <1>1 DEF HeardAhead, Round, ReadyCountsAhead
<1>6. reused \/ rude
  <2>1. CASE Visiting /\ clients[pos] \notin InUse
    <3> SUFFICES ASSUME ~reused PROVE FALSE
      OBVIOUS
    <3>1. pos \in pos .. Len(clients) /\ clients[pos] \in readset /\ mode = "visit"
      BY <1>0, <2>1 DEF Visiting, TypeOK
    <3>2. Speaks(clients[pos])
      BY <1>0, <3>1 DEF HeardAhead
    <3> QED
      BY <2>1, <3>2 DEF Speaks, InUse
  <2>2. ASSUME NEW c \in Connections, Receives(c, "reset") PROVE rude
    <3>1. inbox[c] \in Inboxes /\ inbox[c] # << >> /\ Head(inbox[c]) = "reset"
      BY <1>0, <2>2 DEF Receives, TypeOK
    <3>2. /\ Head(<<"request">>) = "request" /\ Head(<<"request", "fin">>) = "request"
          /\ Head(<<"fin">>) = "fin"
      OBVIOUS
    <3>3. inbox[c] = <<"reset">>
      BY <3>1, <3>2 DEF Inboxes
    <3> QED
      BY <1>0, <3>3 DEF Streams
  <2> QED
    BY <2>1, <2>2 DEF RecvFails
<1>7. MonitorStaysUp'
  BY <1>1, <1>6 DEF MonitorStaysUp
<1> QED
  BY <1>3, <1>4, <1>5, <1>7 DEF IInv


-----------------------------------------------------------------------------
(* The theorems.                                                            *)

\* Every step of the clients and of the monitor keeps the invariant.
LEMMA NextKeeps ==
  ASSUME IInv, [Next]_vars PROVE IInv'
<1>1. CASE Select
  BY <1>1, SelectKeeps
<1>2. CASE Accept
  BY <1>2, AcceptKeeps
<1>3. CASE Pass
  BY <1>3, PassKeeps
<1>4. CASE RecvFails
  BY <1>4, RecvFailsKeeps
<1>5. ASSUME NEW c \in Connections, Serve(c) PROVE IInv'
  BY <1>5, ServeKeeps
<1>6. ASSUME NEW c \in Connections, HangUp(c) PROVE IInv'
  BY <1>6, HangUpKeeps
<1>7. ASSUME NEW c \in Connections, Connect(c) \/ Ask(c) \/ Hear(c) \/ Close(c) PROVE IInv'
  BY <1>7, ClientKeeps
<1>8. CASE UNCHANGED vars
  <2>1. UNCHANGED <<clients, everyone, readset, ready, pos, mode, fd, peer, inbox, reused, rude>>
    BY <1>8 DEF vars, server, history
  <2>2. Open' = Open /\ InUse' = InUse /\ Listed' = Listed /\ Queued' = Queued
    BY <2>1 DEF Open, InUse, Listed, Queued
  <2>3. \A f : Speaks(f) => Speaks(f)'
    BY <2>1, <2>2 DEF Speaks
  <2>4. TypeOK' /\ Ordered' /\ Streams' /\ Watched' /\ NobodyForgotten' /\ ListedOnce'
    BY <2>1, <2>2
       DEF IInv, TypeOK, Ordered, Streams, Watched, NobodyForgotten, ListedOnce
  <2>5. HeardAhead'
    BY <2>1, <2>3 DEF IInv, HeardAhead
  <2>6. Round' /\ ReadyCountsAhead' /\ MonitorStaysUp'
    BY <2>1, <2>2 DEF IInv, Round, ReadyCountsAhead, MonitorStaysUp
  <2> QED
    BY <2>4, <2>5, <2>6 DEF IInv
<1> QED
  BY <1>1, <1>2, <1>3, <1>4, <1>5, <1>6, <1>7, <1>8 DEF Next, Loop

\* The inductive invariant of start()'s loop, for every number of connections.
THEOREM Invariant == Spec => []IInv
<1>1. Init => IInv
  BY InitIInv
<1>2. IInv /\ [Next]_vars => IInv'
  BY NextKeeps
<1> QED
  BY <1>1, <1>2, PTL DEF Spec

\* The state of the loop and of its connections has its types: in particular the count
\* that start() decrements never goes below zero.
THEOREM TypeCorrect == Spec => []TypeOK
<1>1. IInv => TypeOK
  BY DEF IInv
<1> QED
  BY <1>1, Invariant, PTL

\* Every connection that was accepted and not closed is watched by select(), is in the
\* list, and has its descriptor to itself, whatever descriptors came back.
THEOREM NobodyIsForgotten == Spec => []NobodyForgotten
<1>1. IInv => NobodyForgotten
  BY DEF IInv
<1> QED
  BY <1>1, Invariant, PTL

\* The early break of start()'s loop skips nobody, while no descriptor is listed twice.
THEOREM CountIsAhead == Spec => []ReadyCountsAhead
<1>1. IInv => ReadyCountsAhead
  BY DEF IInv
<1> QED
  BY <1>1, Invariant, PTL

\* The monitor calls readSocket only on a descriptor that has something to read, while no
\* descriptor is listed twice.
THEOREM BlocksInSelectOnly == Spec => []NeverBlocked
<1>1. IInv => NeverBlocked
  <2> SUFFICES ASSUME IInv, Visiting, ~reused
               PROVE  \E c \in Open : fd[c] = clients[pos] /\ inbox[c] # << >>
    BY DEF NeverBlocked
  <2>1. pos \in pos .. Len(clients) /\ clients[pos] \in readset /\ mode = "visit"
    BY DEF IInv, TypeOK, Visiting
  <2>2. Speaks(clients[pos])
    BY <2>1 DEF IInv, HeardAhead
  <2> QED
    BY <2>2 DEF Speaks
<1> QED
  BY <1>1, Invariant, PTL

\* Only a reset, or a descriptor that is listed twice, makes start() exit: select() is
\* never given a closed descriptor, and recv() fails for no other reason.
THEOREM StaysUp == Spec => []MonitorStaysUp
<1>1. IInv => MonitorStaysUp
  BY DEF IInv
<1> QED
  BY <1>1, Invariant, PTL

=============================================================================
