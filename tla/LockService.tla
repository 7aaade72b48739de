---------------------------- MODULE LockService ----------------------------
(***************************************************************************)
(* What the monitor promises its clients, without tables, ages or time     *)
(* slices: read and write locks on blocks that the service may revoke.  A  *)
(* client that lost a lock is doomed: it gets nothing more and may only    *)
(* leave.  Locks of clients that are not doomed never conflict.            *)
(***************************************************************************)
CONSTANTS Clients, Blocks

VARIABLES lock,        \* lock[c][b]: the lock client c believes it has on b
          doomed,      \* clients that lost a lock and have to leave
          committing   \* clients that were allowed to commit

vars == <<lock, doomed, committing>>

Conflict(m, n) == /\ m # "none" /\ n # "none"
                  /\ m = "W" \/ n = "W"

Init ==
  /\ lock = [c \in Clients |-> [b \in Blocks |-> "none"]]
  /\ doomed = {}
  /\ committing = {}

\* The clients that an acquisition of b by c in mode m is at the expense of.
Losers(c, b, m) == {d \in Clients \ {c} : Conflict(m, lock[d][b])}

\* The service may grant a lock and doom those it conflicts with, but it does
\* not take a write lock from a client that is committing.
Acquire(c, b, m) ==
  /\ lock' = [lock EXCEPT ![c][b] = m]
  /\ c \notin doomed \cup committing
  /\ \A d \in Losers(c, b, m) \ doomed : lock[d][b] = "W" => d \notin committing
  /\ doomed' = doomed \cup Losers(c, b, m)
  /\ UNCHANGED committing

Commit(c) ==
  /\ UNCHANGED lock
  /\ c \notin doomed \cup committing
  /\ committing' = committing \cup {c}
  /\ UNCHANGED doomed

\* The commit is over; the locks are kept until the client leaves.
Finish(c) ==
  /\ UNCHANGED lock
  /\ c \in committing
  /\ committing' = committing \ {c}
  /\ UNCHANGED doomed

Leave(c) ==
  /\ lock' = [lock EXCEPT ![c] = [b \in Blocks |-> "none"]]
  /\ doomed' = doomed \ {c}
  /\ committing' = committing \ {c}

Next == \E c \in Clients :
  \/ \E b \in Blocks, m \in {"R", "W"} : Acquire(c, b, m)
  \/ Commit(c)
  \/ Finish(c)
  \/ Leave(c)

Spec == Init /\ [][Next]_vars

-----------------------------------------------------------------------------
\* Two clients never hold conflicting locks on a block unless one is doomed:
\* transactions that reach commit() have read and will write in isolation.
Isolation ==
  \A c, d \in Clients, b \in Blocks :
    c # d /\ Conflict(lock[c][b], lock[d][b]) => c \in doomed \/ d \in doomed

=============================================================================
