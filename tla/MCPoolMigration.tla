---------------------------- MODULE MCPoolMigration ----------------------------
(* Pages of two: an address whose three rows are split by a page, two of   *)
(* which share their accounts; another with rows that contradict each     *)
(* other; a row without decimals.                                          *)
EXTENDS PoolMigration

Pool(address, key, accounts, base, quote, created) ==
  [address |-> address, key |-> key, accounts |-> accounts, base |-> base, quote |-> quote,
   created |-> created, known |-> TRUE]
MCRows ==
  {Pool(1, 1, 1, 1, 3, 0), Pool(1, 2, 1, 4, 3, 5),
   Pool(2, 1, 1, 1, 2, 0), Pool(2, 2, 1, 1, 2, 7), Pool(2, 3, 2, 2, 1, 0),
   [Pool(3, 1, 2, 4, 1, 0) EXCEPT !.known = FALSE]}
MCSources == {{r \in MCRows : r.known}, {r \in MCRows : r.key < 3 /\ r.address # 1}}
=============================================================================
