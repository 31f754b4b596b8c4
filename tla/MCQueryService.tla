---------------------------- MODULE MCQueryService ----------------------------
(* Small instances of QueryService: events by and at one wallet, pool and   *)
(* token, one of them native SOL; tables of three accounts of two owners.   *)
EXTENDS QueryService, TLC

CONSTANTS wa, wb, pl, tk, sol, native, idSol

Trade(id, type, token, quote, signers) ==
  [kind |-> "trade", id |-> id, type |-> type, user |-> wa, pair |-> pl, token |-> token, quote |-> quote,
   signers |-> signers]
Transfer(id, src, dest) ==
  [kind |-> "transfer", id |-> id, type |-> "TRANSFER", src |-> src, dest |-> dest, token |-> tk, signers |-> <<wa>>]
MCEvents ==
  {Trade(1, "TRADE_BUY", tk, native, <<wb, wa>>), Trade(3, "TRADE_SELL", tk, sol, <<wa>>),
   [Trade(5, "ADD_LIQUIDITY", sol, tk, <<wa, wb>>) EXCEPT !.kind = "liquidity"],
   [kind |-> "mint", id |-> 7, type |-> "MINT_TO", to |-> native, token |-> tk, signers |-> <<native>>],
   [kind |-> "burn", id |-> 8, type |-> "BURN", from |-> wa, token |-> tk, signers |-> <<wb>>],
   Transfer(2, wa, wb), Transfer(4, wa, wa), Transfer(6, wb, wa)}

ByUserReq(who, types, n) == [api |-> "user", who |-> who, types |-> types, limit |-> n]
TransferReq(who, side, n) == [api |-> "transfers", who |-> who, side |-> side, limit |-> n]
MCRequests ==
  {ByUserReq(wa, {}, 2), ByUserReq(native, {}, 2), ByUserReq(wa, {"TRANSFER"}, 2),
   ByUserReq(wa, {"TRANSFER", "TRADE_BUY", "ADD_LIQUIDITY"}, 9),
   [api |-> "pool", who |-> pl, types |-> {}, limit |-> 0],
   TransferReq(wa, "all", 2), TransferReq(None, "all", 2), TransferReq(wa, "from", 9)}
    \union {[api |-> "ids", ids |-> s] : s \in {<<3, 2, 1, 3>>, <<1, 1, 1, 1, 1>>}}
MCKnown == (sol :> idSol) @@ (native :> idSol)
MCCanonical == idSol :> sol
MCDefaultLimit == [a \in Apis |-> 1]

CONSTANTS oa, ob, ta, tb

Held(o, t, n) == [owner |-> o, token |-> t, balance |-> n]
MCRows == {Held(oa, ta, 1), Held(oa, ta, 2), Held(ob, ta, 2), Held(oa, tb, 1)}
MCTables ==
  {<<Held(oa, ta, 1), None, Held(oa, tb, 1)>>, <<Held(oa, ta, 2), Held(oa, ta, 1), Held(ob, ta, 2)>>}
MCHolderRequests ==
  {[api |-> "owner", owner |-> oa, token |-> t] : t \in {None, ta}}
    \union {[api |-> "top", token |-> ta, limit |-> n] : n \in {0, 2}}
    \union {[api |-> "count", token |-> t] : t \in {ta, tb}}
MCExtra == <<3, 2>>
MCCountTTL(n) == IF n < 2 THEN 0 ELSE 1
=============================================================================
