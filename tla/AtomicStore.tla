---------------------------- MODULE AtomicStore ----------------------------
(***************************************************************************)
(* What System/T promises a program between Begin(T) and End(T): the       *)
(* transaction takes effect at one moment, on the very blocks it saw, and  *)
(* the process is told what became of it.  DOCUMENTATION: "Wrap operations *)
(* inside transactions providing ACID properties".                         *)
(***************************************************************************)
CONSTANTS Procs, Blocks

VARIABLES db,     \* block -> its content, or that it is not allocated
          seen,   \* process -> block -> what its transaction found there
          wrote,  \* process -> block -> what its transaction leaves there
          stage   \* process -> "running", "committed" or "failed"

vars == <<db, seen, wrote, stage>>

Nothing == <<>>   \* the transaction did not look; it leaves the block alone

Init == stage = [p \in Procs |-> "running"]

\* What the transactions of the other processes saw and wrote stays the same.
OthersKeep(p) == \A q \in Procs \ {p} : /\ seen'[q] = seen[q]
                                        /\ wrote'[q] = wrote[q]
                                        /\ stage'[q] = stage[q]

\* The transaction looks at blocks, changes its copies, or starts again.
Run(p) ==
  /\ stage[p] = "running" /\ stage'[p] = "running"
  /\ OthersKeep(p)
  /\ db' = db

Commit(p) ==
  /\ stage[p] = "running" /\ stage'[p] = "committed"
  /\ \A b \in Blocks : seen[p][b] \in {Nothing, db[b]}
  /\ db' = [b \in Blocks |-> IF wrote[p][b] = Nothing THEN db[b] ELSE wrote[p][b]]
  /\ OthersKeep(p)

Succeed(p) ==
  /\ stage[p] = "committed" /\ stage'[p] = "running"
  /\ OthersKeep(p)
  /\ db' = db

Fail(p) ==
  /\ stage[p] = "running" /\ stage'[p] = "failed"
  /\ OthersKeep(p)
  /\ db' = db

Next == \E p \in Procs : Run(p) \/ Commit(p) \/ Succeed(p) \/ Fail(p)

Spec == Init /\ [][Next]_vars

=============================================================================
