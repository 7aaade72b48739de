----------------------------- MODULE EventLoop -----------------------------
(***************************************************************************)
(* TransactionMonitor::start: the loop around select() that accepts        *)
(* connections and reads the clients' requests, with the descriptors the   *)
(* kernel hands out and takes back.  What a request does to the tables is  *)
(* in Monitor.                                                             *)
(*                                                                         *)
(* A connection is one Transaction object of a client process.  The kernel *)
(* gives it, when it is accepted, the lowest descriptor that is not open,  *)
(* so descriptors are used again.                                          *)
(*                                                                         *)
(* Two things disturb the loop, and the history variables record them: a   *)
(* descriptor that clients lists already is given out again (reused); a    *)
(* client dies with a reply it has not read, which makes the kernel reset  *)
(* the connection (rude).                                                  *)
(***************************************************************************)
EXTENDS Naturals, Sequences, FiniteSets

CONSTANT MaxConnections    \* bound: connections made in a behaviour

ASSUME MaxConnectionsAssumption == MaxConnections \in Nat

Connections == 1 .. MaxConnections
Descriptors == 1 .. MaxConnections

Unaccepted == 0                    \* values of fd beside the descriptors
HungUp     == MaxConnections + 1

VARIABLES clients,   \* the list clients, never shortened
          everyone,  \* descriptors select() watches
          readset,   \* descriptors select() found ready in this round
          ready,     \* how many of them are still to be served
          pos,       \* the iterator p, as a position in clients
          mode,      \* where the monitor is
          fd,        \* connection -> the monitor's descriptor for it
          peer,      \* connection -> what its client is doing
          inbox,     \* connection -> what the monitor has still to recv from it
          reused, rude   \* history, see above

server  == <<clients, everyone, readset, ready, pos, mode>>
history == <<reused, rude>>
vars    == <<server, fd, peer, inbox, history>>

\* "select"  waiting in select()
\* "accept"  select() returned and somebody is connecting
\* "visit"   in the loop over clients
\* "exited"  in exit(1)
Modes == {"select", "accept", "visit", "exited"}

\* "unborn" not connected yet, "thinking" between two requests, "asked" waits for
\* a reply, "answered" a reply waits for it, "closed" its socket is closed
PeerStates == {"unborn", "thinking", "asked", "answered", "closed"}

\* What recv() can find: a request, the end of the stream, a reset.
Inboxes == {<< >>, <<"request">>, <<"fin">>, <<"request", "fin">>, <<"reset">>}

Open   == {c \in Connections : fd[c] \in Descriptors}
Queued == {c \in Connections : fd[c] = Unaccepted /\ peer[c] # "unborn"}
InUse  == {fd[c] : c \in Open}
Lowest(S) == CHOOSE m \in S : \A n \in S : m <= n

-----------------------------------------------------------------------------
Init ==
  /\ clients = << >> /\ everyone = {} /\ readset = {} /\ ready = 0 /\ pos = 1
  /\ mode = "select"
  /\ fd = [c \in Connections |-> Unaccepted]
  /\ peer = [c \in Connections |-> "unborn"]
  /\ inbox = [c \in Connections |-> << >>]
  /\ reused = FALSE /\ rude = FALSE

(* Clients: TransportLayer::connectSocket, the two halves of ask_tpm, and   *)
(* the end of the process or of the Transaction object.                     *)

Connect(c) ==
  /\ peer[c] = "unborn" /\ (c > 1 => peer[c - 1] # "unborn")
  /\ peer' = [peer EXCEPT ![c] = "thinking"]
  /\ UNCHANGED <<server, fd, inbox, history>>

Ask(c) ==
  /\ peer[c] = "thinking"
  /\ peer' = [peer EXCEPT ![c] = "asked"]
  /\ inbox' = [inbox EXCEPT ![c] = <<"request">>]
  /\ UNCHANGED <<server, fd, history>>

Hear(c) ==
  /\ peer[c] = "answered"
  /\ peer' = [peer EXCEPT ![c] = "thinking"]
  /\ UNCHANGED <<server, fd, inbox, history>>

\* Closing a socket with a reply still unread resets the connection.
Close(c) ==
  /\ peer[c] \in {"thinking", "asked", "answered"}
  /\ peer' = [peer EXCEPT ![c] = "closed"]
  /\ inbox' = [inbox EXCEPT ![c] =
                 IF peer[c] = "answered" THEN <<"reset">> ELSE Append(@, "fin")]
  /\ rude' = (rude \/ peer[c] = "answered")
  /\ UNCHANGED <<server, fd, reused>>

-----------------------------------------------------------------------------
(* The monitor.                                                            *)

\* What select() returns, the listening socket counted too or, wrongly, not.
Count_ClientsOnly(heard) == Cardinality(heard)
Count(heard) == Cardinality(heard) + IF Queued # {} THEN 1 ELSE 0

\* select() returns.  It fails when it is given a closed descriptor.
Select ==
  /\ mode = "select"
  /\ LET heard == {fd[c] : c \in {d \in Open : inbox[d] # << >>}} \cap everyone
     IN  /\ heard # {} \/ Queued # {}
         /\ readset' = heard
         /\ ready' = Count(heard)
  /\ mode' = IF ~ everyone \subseteq InUse THEN "exited"
             ELSE IF Queued # {} THEN "accept" ELSE "visit"
  /\ pos' = 1
  /\ UNCHANGED <<clients, everyone, fd, peer, inbox, history>>

Listed == {clients[i] : i \in 1 .. Len(clients)}

Watch_IfNotListed(f) == everyone' = everyone \cup ({f} \ Listed)

\* FD_SET of a new process
Watch(f) == everyone' = everyone \cup {f}

\* The branch of a new process; --ready <= 0 ends the round.
Accept ==
  /\ mode = "accept"
  /\ LET f == Lowest(Descriptors \ InUse)
     IN  /\ fd' = [fd EXCEPT ![Lowest(Queued)] = f]
         /\ reused' = (reused \/ f \in Listed)
         /\ Watch(f)
         /\ clients' = <<f>> \o clients
  /\ ready' = ready - 1
  /\ mode' = IF ready <= 1 THEN "select" ELSE "visit"
  /\ UNCHANGED <<readset, pos, peer, inbox, rude>>

\* Nobody to serve at p, or p is at the end of the list.
Pass ==
  /\ mode = "visit"
  /\ \/ /\ pos > Len(clients)
        /\ mode' = "select"
        /\ UNCHANGED pos
     \/ /\ pos <= Len(clients) /\ clients[pos] \notin readset
        /\ pos' = pos + 1
        /\ UNCHANGED mode
  /\ UNCHANGED <<clients, everyone, readset, ready, fd, peer, inbox, history>>

Visiting == mode = "visit" /\ pos <= Len(clients) /\ clients[pos] \in readset

\* The optimisation without its count: one client a round.
ServeNext_OneARound ==
  /\ ready' = ready - 1
  /\ mode' = "select"
  /\ UNCHANGED pos

\* p not advanced past a client that was served.
ServeNext_SameAgain ==
  /\ ready' = ready - 1
  /\ mode' = IF ready <= 1 THEN "select" ELSE mode
  /\ UNCHANGED pos

\* Only the new connection is counted, not the clients.
ServeNext_Uncounted ==
  /\ UNCHANGED <<ready, mode>>
  /\ pos' = pos + 1

\* if (--ready <= 0) break; ++p.
ServeNext ==
  /\ ready' = ready - 1
  /\ IF ready <= 1 THEN mode' = "select" /\ UNCHANGED pos
                  ELSE pos' = pos + 1 /\ UNCHANGED mode

\* recv() from the descriptor at p.  It blocks while the connection is open and
\* silent: nothing below is enabled then, until its client does something.
Receives(c, message) ==
  /\ Visiting /\ fd[c] = clients[pos]
  /\ inbox[c] # << >> /\ Head(inbox[c]) = message

\* A request is processed and answered; the answer may find nobody.
Serve(c) ==
  /\ Receives(c, "request")
  /\ inbox' = [inbox EXCEPT ![c] = Tail(@)]
  /\ peer' = [peer EXCEPT ![c] = IF @ = "asked" THEN "answered" ELSE @]
  /\ ServeNext
  /\ UNCHANGED <<clients, everyone, readset, fd, history>>

Unwatch_Never(f) == UNCHANGED everyone

\* FD_CLR of a closed descriptor
Unwatch(f) == everyone' = everyone \ {f}

\* recv() returns 0: client_disconnect, close, FD_CLR.  The entry stays in clients.
HangUp(c) ==
  /\ Receives(c, "fin")
  /\ inbox' = [inbox EXCEPT ![c] = << >>]
  /\ fd' = [fd EXCEPT ![c] = HungUp]
  /\ Unwatch(fd[c])
  /\ ServeNext
  /\ UNCHANGED <<clients, readset, peer, history>>

\* recv() returns -1, on a reset connection or a closed descriptor: exit(1).
RecvFails ==
  /\ \/ Visiting /\ clients[pos] \notin InUse
     \/ \E c \in Connections : Receives(c, "reset")
  /\ mode' = "exited"
  /\ UNCHANGED <<clients, everyone, readset, ready, pos, fd, peer, inbox, history>>

Loop == \/ Select \/ Accept \/ Pass \/ RecvFails
        \/ \E c \in Connections : Serve(c) \/ HangUp(c)

Next == Loop \/ \E c \in Connections : Connect(c) \/ Ask(c) \/ Hear(c) \/ Close(c)

\* The monitor runs; clients may stop at any point.
Spec == Init /\ [][Next]_vars /\ WF_vars(Loop)

-----------------------------------------------------------------------------
(* Properties.                                                             *)

\* Types, of the loop in start() and of its connections.
TypeOK ==
  /\ clients \in Seq(Descriptors) /\ Len(clients) <= MaxConnections
  /\ everyone \subseteq Descriptors /\ readset \subseteq Descriptors
  /\ ready \in 0 .. MaxConnections + 1
  /\ pos \in 1 .. MaxConnections + 1
  /\ mode \in Modes
  /\ fd \in [Connections -> Descriptors \cup {Unaccepted, HungUp}]
  /\ peer \in [Connections -> PeerStates]
  /\ inbox \in [Connections -> Inboxes]
  /\ reused \in BOOLEAN /\ rude \in BOOLEAN

\* Every connection the monitor accepted is watched and in the list until it is
\* closed, and shares its descriptor with nobody, although the list keeps the
\* entries of closed connections and descriptors come back: nobody is forgotten.
NobodyForgotten ==
  \A c \in Open : /\ fd[c] \in everyone \cap Listed
                  /\ \A d \in Open \ {c} : fd[d] # fd[c]

\* The count behind start()'s early break is right while no descriptor is in the
\* list twice: it is the number of ready descriptors from p to the end of the list,
\* so the break skips nobody and the end of the list is never reached first.
ReadyCountsAhead ==
  mode = "visit" /\ ~reused =>
    ready = Cardinality({i \in pos .. Len(clients) : clients[i] \in readset})

\* The monitor waits for its clients in select() only, as multiplexing them
\* requires: what readSocket is called on has something to read, while no descriptor
\* is in the list twice.
NeverBlocked ==
  Visiting /\ ~reused => \E c \in Open : fd[c] = clients[pos] /\ inbox[c] # << >>

\* Every request start() multiplexes is answered, and the end of every client is
\* noticed, however busy the others keep the monitor, up to the first descriptor
\* that is used again and the first connection that is reset.
EverybodyServed ==
  \A c \in Connections :
    /\ peer[c] = "asked" ~> (peer[c] # "asked" \/ reused \/ rude)
    /\ peer[c] = "closed" ~> (fd[c] = HungUp \/ reused \/ rude)

\* Neither the end of a client nor a wrong descriptor ends start()'s loop, but for
\* a reset and for a descriptor that is listed twice.
MonitorStaysUp == mode = "exited" => reused \/ rude

\* doc/DOCUMENTATION, section 3b: "the TM can reliably detect a process failure".
\* A client that closes its connection does not take start()'s loop with it.
ClosingIsHarmless == mode = "exited" => rude

=============================================================================
