---------------------------- MODULE AtLeastOnce ----------------------------
(***************************************************************************)
(* What the ingest pipeline of a partition promises: the tables hold rows  *)
(* of produced messages only, and what was written stays; the committed    *)
(* offset moves only over messages whose rows were written or explicitly   *)
(* excused.  A consumer that is alone never takes it back.  How messages   *)
(* travel from the log to the tables, and how often, is left open.         *)
(***************************************************************************)
EXTENDS Integers, Sequences

CONSTANTS Kinds, InitialCommit, Alone

VARIABLES log, committed, written, excused

vars == <<log, committed, written, excused>>

Rows(o) == IF log[o].batch THEN log[o].rows ELSE {}
RowSets == UNION {{<<r, o>> : r \in Rows(o)} : o \in 1..Len(log)}

Init ==
  /\ log = <<>>
  /\ committed = InitialCommit
  /\ written = {}
  /\ excused = {}

Produce ==
  /\ \E k \in Kinds : log' = Append(log, k)
  /\ UNCHANGED <<committed, written, excused>>

\* Rows of produced messages become durable, again or for the first time, or
\* are given up.
Settle ==
  /\ UNCHANGED <<log, committed>>
  /\ written \subseteq written' /\ written' \ written \subseteq RowSets
  /\ excused \subseteq excused' /\ excused' \ excused \subseteq RowSets

\* The group consumes up to offset o for good.
Commit ==
  /\ \E o \in 1..Len(log) :
       /\ Alone => o > committed
       /\ \A p \in 1..o : \A r \in Rows(p) : <<r, p>> \in written \cup excused
       /\ committed' = o
  /\ UNCHANGED <<log, written, excused>>

Next == Settle \/ Commit \/ Produce

Spec == Init /\ [][Next]_vars

=============================================================================
