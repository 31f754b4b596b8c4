----------------------------- MODULE MCPoolIngest -----------------------------
(* A small alphabet of messages for TLC. *)
EXTENDS PoolIngest

CONSTANTS pa, pb, pc

Trade(pool) == [pool |-> pool, accounts |-> 1, tokens |-> 1, created |-> 0]
Created(pool, t) == [Trade(pool) EXCEPT !.created = t]

\* A creation, at either of two times; trades that push a pool out of a cache of two;
\* a pool with its sides swapped, and with other tokens; a message that panics.
MCMessages ==
  {[events |-> <<Created(pa, 2)>>, sound |-> TRUE],
   [events |-> <<Trade(pb), Trade(pc), Trade(pa)>>, sound |-> TRUE],
   [events |-> <<Trade(pc), [Trade(pa) EXCEPT !.accounts = 2], Created(pb, 1)>>, sound |-> TRUE],
   [events |-> <<[Created(pa, 1) EXCEPT !.tokens = 2], Trade(pb)>>, sound |-> FALSE]}
=============================================================================
