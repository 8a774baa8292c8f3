----------------------------- MODULE DurableLog -----------------------------
(***************************************************************************)
(* What the collaboration layer promises about one document, with nothing  *)
(* of how it keeps the promise: a set of stored updates that grows by one  *)
(* update at a time, without gaps, and never loses one while the document  *)
(* exists.  Compaction is invisible at this level.                         *)
(***************************************************************************)
EXTENDS Naturals

CONSTANT MaxSeq     \* bound of the model: updates appended

VARIABLES
    alive,    \* the document exists
    stored    \* the updates a reader starting from nothing is given

Init ==
    /\ alive = TRUE
    /\ stored = {}

\* One more update becomes durable: the one after every stored update.
Append ==
    /\ alive
    /\ \E n \in 1..MaxSeq :
          /\ stored = 1..(n - 1)
          /\ stored' = 1..n
    /\ UNCHANGED alive

\* The document is deleted and everything with it.
Delete ==
    /\ alive
    /\ alive' = FALSE
    /\ stored' = {}

Next == Append \/ Delete

Spec == Init /\ [][Next]_<<alive, stored>>
=============================================================================
