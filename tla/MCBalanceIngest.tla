-------------------------- MODULE MCBalanceIngest --------------------------
(* Small chains for TLC. *)
EXTENDS BalanceIngest

CONSTANTS a1, a2

U(a, id, zero) == [acct |-> a, id |-> id, zero |-> zero]

\* Two accounts; one slot updates an account twice; accounts are emptied,
\* refilled, and emptied for good; a row comes back while older than what is
\* committed.
MixedChains ==
  { << {U(a1, 1, FALSE), U(a2, 2, FALSE)},
       {U(a1, 3, TRUE)},
       {U(a1, 5, FALSE), U(a1, 6, FALSE), U(a2, 7, TRUE)} >>,
    << {U(a1, 1, FALSE)},
       {U(a1, 3, FALSE), U(a1, 4, TRUE), U(a2, 5, FALSE)},
       {} >>,
    << {U(a1, 1, FALSE)}, {U(a1, 2, FALSE)}, {U(a1, 4, TRUE)} >> }

============================================================================
