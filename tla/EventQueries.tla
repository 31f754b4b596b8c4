----------------------------- MODULE EventQueries -----------------------------
(***************************************************************************)
(* The event queries (internal/query/chainevent) against the tables        *)
(* chain_event and transfer_event while the ingest service writes them:    *)
(* how an event becomes a row (handler/chain_event_builder.go,             *)
(* transfer_event_builder.go, utils/token_mapper.go) and a row an answer   *)
(* again, and a client that pages through the answers with the last        *)
(* event_id as the cursor of its next request.                             *)
(*                                                                         *)
(* A page of events by pool is cached (LockCache); a page of all transfers *)
(* is merged from two reads at different times.  Amounts, prices, hashes   *)
(* and times of a row are left out.                                        *)
(***************************************************************************)
EXTENDS Integers, Sequences, FiniteSets

CONSTANTS
  Events,         \* the events that may be produced, as the producer sends them
  Requests,       \* the requests a client may make
  Addresses,      \* addresses of wallets, pools and tokens
  Known,          \* knownTokenMintToID: ids of the best known tokens
  Canonical,      \* knownIDToToken
  None,           \* the empty string, no event
  DefaultLimit,   \* per query: the limit if none is given
  MaxLimit,       \* the largest limit of a page
  MaxIds,         \* maxEventQueryCount
  TTL, EmptyTTL,  \* chainEventsByPoolTTL, chainEventsByPoolEmptyTTL
  MaxId,          \* ^uint64(0)
  MaxOthers,      \* bound: pages other clients read into the cache
  MaxTime         \* bound: the last second

Apis == {"user", "pool", "transfers", "ids"}
LiquidityTypes == {"ADD_LIQUIDITY", "REMOVE_LIQUIDITY", "CREATE_POOL", "MIGRATE"}
TradeTypes == {"TRADE_BUY", "TRADE_SELL", "TRADE_UNKNOWN"}
Types == LiquidityTypes \union TradeTypes \union {"MINT_TO", "BURN", "TRANSFER"}

\* The messages that become rows.  SelectSigner panics on one without signers, and its
\* whole block is dropped: such are not produced here.
Ids == 1 .. MaxId - 1
Signers == Seq(Addresses) \ {<<>>}
TradeEvent == [kind : {"trade"}, id : Ids, type : TradeTypes, user : Addresses,
               pair : Addresses, token : Addresses, quote : Addresses, signers : Signers]
LiquidityEvent == [kind : {"liquidity"}, id : Ids, type : LiquidityTypes, user : Addresses,
                   pair : Addresses, token : Addresses, quote : Addresses, signers : Signers]
MintToEvent == [kind : {"mint"}, id : Ids, type : {"MINT_TO"}, to : Addresses, token : Addresses,
                signers : Signers]
BurnEvent == [kind : {"burn"}, id : Ids, type : {"BURN"}, from : Addresses, token : Addresses,
              signers : Signers]
TransferEvent == [kind : {"transfer"}, id : Ids, type : {"TRANSFER"}, src : Addresses,
                  dest : Addresses, token : Addresses, signers : Signers]
Event == TradeEvent \union LiquidityEvent \union MintToEvent \union BurnEvent \union TransferEvent

\* The requests, without the cursor; who is the user or the pool.
UserEventReq == [api : {"user"}, who : Addresses \union {None}, types : SUBSET Types, limit : Nat]
PoolEventReq == [api : {"pool"}, who : Addresses \union {None}, types : SUBSET Types, limit : Nat]
TransferEventQueryReq ==
  [api : {"transfers"}, who : Addresses \union {None}, side : {"from", "to", "all"}, limit : Nat]
EventIDsReq == [api : {"ids"}, ids : Seq(Ids)]
Request == UserEventReq \union PoolEventReq \union TransferEventQueryReq \union EventIDsReq

ASSUME EventsAssumption ==
  /\ Events \subseteq Event
  /\ \A e, f \in Events : e.id = f.id => e = f
ASSUME RequestsAssumption == Requests \subseteq Request
ASSUME CodecAssumption ==
  /\ DOMAIN Known \subseteq Addresses /\ None \notin Addresses \union DOMAIN Canonical
  /\ \A a \in DOMAIN Known : Known[a] \in DOMAIN Canonical \ Addresses
  /\ \A i \in DOMAIN Canonical : Canonical[i] \in DOMAIN Known /\ Known[Canonical[i]] = i
ASSUME LimitsAssumption ==
  /\ \A a \in Apis : DefaultLimit[a] \in 1 .. MaxLimit
  /\ MaxLimit \in Nat /\ MaxIds \in Nat /\ MaxId \in Nat \ {0} /\ MaxOthers \in Nat
  /\ TTL \in Nat /\ EmptyTTL \in 0 .. TTL /\ MaxTime \in Nat

VARIABLES
  now,        \* time.Now().Unix()
  storedAt,   \* database: when the row of an event was written, or Never
  cache,      \* chainEventsByPoolCache: page and validity per key, if any
  others,     \* pages other clients have read into it
  request,    \* what the client asks for, without the cursor
  phase,      \* the client and its request
  cursor,     \* event_id of the request, 0 for none
  sides,      \* fromResp and toResp, once read
  delivered,  \* what the client has got so far
  known       \* history: events that were in the table when the client began

session == <<request, phase, cursor, sides, delivered, known>>
pages == <<cache, others>>
vars == <<now, storedAt, pages, session>>

Never == -1

-----------------------------------------------------------------------------
(* From an event to a row, and from a row to an answer                      *)

\* EncodeBase58Strict, for wallets and pools as much as for tokens.
Encode(a) == IF a \in DOMAIN Known THEN Known[a] ELSE a

\* DecodeTokenAddress.
Decode(s) == IF s \in DOMAIN Canonical THEN Canonical[s] ELSE s

Optional(a) == IF a = None THEN None ELSE Encode(a)

\* The signer is left out if it is the wallet.
SelectSigner(e, wallet) == IF e.signers[1] = wallet THEN None ELSE e.signers[1]

Built(e, wallet, to, pool, quote) ==
  [id |-> e.id, type |-> e.type, user |-> Encode(wallet), to |-> Optional(to), pool |-> Optional(pool),
   token |-> Encode(e.token), quote |-> Optional(quote), signer |-> Optional(SelectSigner(e, wallet))]

BuildTradeEvent(e) == Built(e, e.user, None, e.pair, e.quote)
BuildLiquidityEvent(e) == Built(e, e.user, None, e.pair, e.quote)
BuildMintEvent(e) == Built(e, e.to, None, None, None)
BuildBurnEvent(e) == Built(e, e.from, None, None, None)
BuildTransferEvent(e) == Built(e, e.src, e.dest, None, None)

\* The addresses of an answer, and what it tells of an event.
Shown == Addresses \union {None} \union DOMAIN Canonical
ChainEvent == [id : Ids, type : Types, user : Shown, to : Shown, pool : Shown, token : Shown \ {None},
               quote : Shown, signer : Shown \ {None}]

\* The nil of an answer by ids is no event.
ASSUME NilAssumption == None \notin ChainEvent

\* The row loop of the queries.
AnsweredAsStored(row) ==                                \* faulty variant
  [row EXCEPT !.token = Decode(@), !.quote = Decode(@)]
Answered(row) ==
  [row EXCEPT !.token = Decode(@), !.quote = Decode(@), !.signer = IF @ = None THEN row.user ELSE @]

\* The tables: what BuildChainEventModels and BuildTransferEventModels make of the events.
Stored(kind) == {e \in Events : e.kind = kind /\ storedAt[e] # Never}
ChainEvents ==
  {BuildTradeEvent(e) : e \in Stored("trade")} \union {BuildLiquidityEvent(e) : e \in Stored("liquidity")}
    \union {BuildMintEvent(e) : e \in Stored("mint")} \union {BuildBurnEvent(e) : e \in Stored("burn")}
TransferEvents == {BuildTransferEvent(e) : e \in Stored("transfer")}

-----------------------------------------------------------------------------
(* The queries                                                              *)

DefaultPoolTypes == {"TRADE_BUY", "TRADE_SELL", "ADD_LIQUIDITY", "REMOVE_LIQUIDITY", "BURN"}
DefaultUserTypes == DefaultPoolTypes \union {"MINT_TO", "TRADE_UNKNOWN"}

\* The query answers at all.
Accepted(r) == IF r.api = "ids" THEN Len(r.ids) <= MaxIds ELSE r.who # None

\* The types asked for; none are left when a user's events are asked for by TRANSFER only.
EventTypes(r) ==
  IF r.api = "pool" THEN IF r.types = {} THEN DefaultPoolTypes ELSE r.types
  ELSE IF r.types = {} THEN DefaultUserTypes ELSE r.types \ {"TRANSFER"}

Limit(r) == IF r.limit = 0 THEN DefaultLimit[r.api]
            ELSE IF r.limit > MaxLimit THEN MaxLimit ELSE r.limit

\* event_id < ?, if there is a cursor.
Below(row, c) == c = 0 \/ row.id < c

Descending(S) == CHOOSE s \in [1 .. Cardinality(S) -> S] :
                   \A i, j \in 1 .. Cardinality(S) : i < j => s[i].id > s[j].id

Cut(s, n) == IF Len(s) > n THEN SubSeq(s, 1, n) ELSE s

\* ... ORDER BY event_id DESC LIMIT ?
Page(S, r, c) ==
  LET page == Cut(Descending({row \in S : Below(row, c)}), Limit(r))
  IN  [i \in 1 .. Len(page) |-> Answered(page[i])]

ByUser(r) == {row \in ChainEvents : row.user = r.who /\ row.type \in EventTypes(r)}
ByPool(r) == {row \in ChainEvents : row.pool = r.who /\ row.type \in EventTypes(r)}
BySide(r, side) == {row \in TransferEvents : (IF side = "from" THEN row.user ELSE row.to) = r.who}

\* A statement gives all its rows, or an error while it is sent, read or iterated over.
ReadErrorIgnored(page) == {<<Cut(page, n)>> : n \in 0 .. Len(page)}   \* faulty variant
ReadOf(page) == {<<page>>, <<>>}

\* mergeTransferEventResponses; i and j are the events taken from either side, last is the
\* event_id of the last one, and room is left for that many more.
MergeWhole(from, to, limit) == Cut(from \o to, limit)  \* faulty variant
Merging(from, to, limit) == [i : 0 .. Len(from), j : 0 .. Len(to), last : 1 .. MaxId, room : 0 .. limit]
Merge(from, to, limit) ==
  LET loop[s \in Merging(from, to, limit)] ==
        LET useFrom == s.i < Len(from) /\ (s.j = Len(to) \/ from[s.i + 1].id > to[s.j + 1].id)
            ev == IF useFrom THEN from[s.i + 1] ELSE to[s.j + 1]
            next == IF useFrom THEN [s EXCEPT !.i = @ + 1] ELSE [s EXCEPT !.j = @ + 1]
        IN  IF s.room = 0 \/ (s.i = Len(from) /\ s.j = Len(to)) THEN <<>>
            ELSE IF ev.id = s.last THEN loop[next]
            ELSE <<ev>> \o loop[[next EXCEPT !.last = ev.id, !.room = @ - 1]]
  IN  loop[[i |-> 0, j |-> 0, last |-> MaxId, room |-> limit]]

\* The cache's key of a page.
Key(r, c) == <<r, c>>

Cached(r, c) == Key(r, c) \in DOMAIN cache /\ now <= cache[Key(r, c)].validAt

TtlOneLonger(page) == TTL + 1                           \* faulty variant
Ttl(page) == IF page = <<>> THEN EmptyTTL ELSE TTL

\* What the cache holds after a page was read.
Filled(r, c, page) ==
  LET entry == [page |-> page, validAt |-> now + Ttl(page)]
  IN  [k \in DOMAIN cache \union {Key(r, c)} |-> IF k = Key(r, c) THEN entry ELSE cache[k]]

-----------------------------------------------------------------------------
NoSides == [s \in {"from", "to"} |-> <<>>]

Init ==
  /\ now = 0
  /\ storedAt = [e \in Events |-> Never]
  /\ cache = [k \in {} |-> None] /\ others = 0
  /\ request \in Requests /\ phase = "idle" /\ cursor = 0
  /\ sides = NoSides /\ delivered = <<>> /\ known = {}

\* External: seconds pass (only the cache looks at the clock), and the ingest service
\* writes the row of an event, in no particular order (only those of the table that is
\* read, and of a pool if one is asked for, are written here).
Tick ==
  /\ request.api = "pool" /\ now < MaxTime /\ now' = now + 1
  /\ UNCHANGED <<storedAt, pages, session>>

Insert(e) ==
  /\ storedAt[e] = Never /\ (e.kind = "transfer") = (request.api = "transfers")
  /\ request.api = "pool" => e.kind \in {"trade", "liquidity"}
  /\ storedAt' = [storedAt EXCEPT ![e] = now]
  /\ UNCHANGED <<now, pages, session>>

\* External: a client begins.  A cached page may lack what was written since it was read.
Begin ==
  /\ phase = "idle" /\ phase' = "ask"
  /\ known' = {e \in Events : storedAt[e] # Never /\ (request.api = "pool" => storedAt[e] + TTL < now)}
  /\ UNCHANGED <<now, storedAt, pages, request, cursor, sides, delivered>>

Refuse ==
  /\ phase = "ask" /\ ~Accepted(request)
  /\ phase' = "refused"
  /\ UNCHANGED <<now, storedAt, pages, request, cursor, sides, delivered, known>>

\* The client asks for the next page, until it gets an empty one.
Deliver(page) ==
  /\ delivered' = delivered \o page
  /\ cursor' = IF page = <<>> THEN cursor ELSE page[Len(page)].id
  /\ phase' = IF page = <<>> THEN "done" ELSE "ask"
  /\ UNCHANGED <<request, known>>

Asks(api) == phase = "ask" /\ request.api = api /\ Accepted(request)

QueryEventsByUser ==
  /\ Asks("user")
  /\ \E read \in ReadOf(Page(ByUser(request), request, cursor)) : read # <<>> /\ Deliver(read[1])
  /\ UNCHANGED <<now, storedAt, pages, sides>>

\* Do: a hit, or a read whose result is put into the cache.
QueryEventsByPoolHit ==
  /\ Asks("pool") /\ Cached(request, cursor)
  /\ Deliver(cache[Key(request, cursor)].page)
  /\ UNCHANGED <<now, storedAt, pages, sides>>

QueryEventsByPool ==
  /\ Asks("pool") /\ ~Cached(request, cursor)
  /\ \E read \in ReadOf(Page(ByPool(request), request, cursor)) :
       read # <<>> /\ Deliver(read[1]) /\ cache' = Filled(request, cursor, read[1])
  /\ UNCHANGED <<now, storedAt, others, sides>>

\* Another client's request, for the same events, fills the cache.
OtherQueryEventsByPool(c) ==
  /\ request.api = "pool" /\ Accepted(request) /\ ~Cached(request, c)
  /\ others < MaxOthers /\ others' = others + 1
  /\ cache' = Filled(request, c, Page(ByPool(request), request, c))
  /\ UNCHANGED <<now, storedAt, session>>

\* queryTransferEventsBySide, for one side, ...
QueryOneSide ==
  /\ Asks("transfers") /\ request.side # "all"
  /\ \E read \in ReadOf(Page(BySide(request, request.side), request, cursor)) :
       read # <<>> /\ Deliver(read[1])
  /\ UNCHANGED <<now, storedAt, pages, sides>>

\* ... or by two goroutines for both; ...
ReadSide(side) ==
  /\ Asks("transfers") /\ request.side = "all" /\ sides[side] = <<>>
  /\ \E read \in ReadOf(Page(BySide(request, side), request, cursor)) :
       sides' = IF read = <<>> THEN NoSides ELSE [sides EXCEPT ![side] = read]
  /\ UNCHANGED <<now, storedAt, pages, request, phase, cursor, delivered, known>>

\* ... an error of either is an error of the request, and the client asks again.
QueryTransferEvents ==
  /\ Asks("transfers") /\ \A side \in DOMAIN sides : sides[side] # <<>>
  /\ Deliver(Merge(sides.from[1], sides.to[1], Limit(request)))
  /\ sides' = NoSides
  /\ UNCHANGED <<now, storedAt, pages>>

\* The event of every id asked for, or nil, in the order of the request.
Results(ids, found) ==
  [i \in DOMAIN ids |-> IF \E row \in found : row.id = ids[i]
                          THEN Answered(CHOOSE row \in found : row.id = ids[i]) ELSE None]

QueryEventsByIDs ==
  /\ Asks("ids")
  /\ delivered' = Results(request.ids, {row \in ChainEvents : \E i \in DOMAIN request.ids : row.id = request.ids[i]})
  /\ phase' = "done"
  /\ UNCHANGED <<now, storedAt, pages, request, cursor, sides, known>>

Next ==
  \/ Tick \/ (\E e \in Events : Insert(e))
  \/ Begin \/ Refuse
  \/ QueryEventsByUser \/ QueryEventsByPoolHit \/ QueryEventsByPool
  \/ (\E c \in {0} \union {e.id : e \in Events} : OtherQueryEventsByPool(c))
  \/ QueryOneSide \/ (\E side \in DOMAIN sides : ReadSide(side)) \/ QueryTransferEvents
  \/ QueryEventsByIDs

Spec == Init /\ [][Next]_vars

-----------------------------------------------------------------------------
\* The variables have their types.
TypeOK ==
  /\ now \in 0 .. MaxTime /\ others \in 0 .. MaxOthers
  /\ storedAt \in [Events -> 0 .. MaxTime \union {Never}]
  /\ \A k \in DOMAIN cache : cache[k].validAt \in 0 .. MaxTime + TTL
  /\ request \in Requests
  /\ phase \in {"idle", "ask", "refused", "done"}
  /\ cursor \in 0 .. MaxId - 1 /\ known \subseteq Events
  /\ \A i \in DOMAIN delivered : delivered[i] \in ChainEvent \/ (request.api = "ids" /\ delivered[i] = None)

\* The wallet an event is listed under, and its pool.
WalletOf(e) == CASE e.kind \in {"trade", "liquidity"} -> e.user
                 [] e.kind = "mint" -> e.to
                 [] e.kind = "burn" -> e.from
                 [] e.kind = "transfer" -> e.src
PoolOf(e) == IF e.kind \in {"trade", "liquidity"} THEN e.pair ELSE None

\* An event is one the client asks for, said of the event as it was produced.
Wanted(e) ==
  CASE request.api = "user" -> e.kind # "transfer" /\ WalletOf(e) = request.who /\ e.type \in EventTypes(request)
    [] request.api = "pool" -> PoolOf(e) = request.who /\ e.type \in EventTypes(request)
    [] request.api = "transfers" -> /\ e.kind = "transfer"
                                    /\ \/ request.side # "to" /\ e.src = request.who
                                       \/ request.side # "from" /\ e.dest = request.who
    [] request.api = "ids" -> FALSE

\* The address is written as the id of a token, also where it is no token's.
Mapped(a) == a \in DOMAIN Known

\* What the client has been told of an event.
Got(e) == \E i \in 1 .. Len(delivered) : delivered[i].id = e.id

\* Paging misses nothing: whatever is written between two pages or between the two reads
\* of a page, every event the client asks for that was in the table when it began, and
\* for a pool a TTL before that, has been delivered once the cursor is below it, and by
\* the end of the paging (query_by_user.go, query_by_pool.go, query_transfer_event.go).
\* Excepted is a wallet or pool whose address is that of a known token: it is stored
\* under the token's id and asked for by its address.
NothingMissed ==
  \A e \in known :
    Wanted(e) /\ ~Mapped(request.who) /\ (phase = "done" \/ (cursor # 0 /\ e.id >= cursor)) => Got(e)

\* Pages go down: no event is delivered twice, and none that is not asked for.
PagesDescend ==
  request.api # "ids" =>
    /\ \A i, j \in 1 .. Len(delivered) : i < j => delivered[i].id > delivered[j].id
    /\ \A i \in 1 .. Len(delivered) : \E e \in Events : e.id = delivered[i].id /\ Wanted(e)

\* What an answer should tell of an event; native SOL is told as SOL.
Told(e) ==
  [id |-> e.id, type |-> e.type, user |-> WalletOf(e), to |-> IF e.kind = "transfer" THEN e.dest ELSE None,
   pool |-> PoolOf(e), token |-> IF Mapped(e.token) THEN Canonical[Known[e.token]] ELSE e.token,
   quote |-> IF PoolOf(e) = None THEN None ELSE IF Mapped(e.quote) THEN Canonical[Known[e.quote]] ELSE e.quote,
   signer |-> e.signers[1]]

\* An answer tells what was produced, from the builders of five kinds of messages through
\* the two codecs and a signer that is left out when it is the wallet; and an answer by
\* ids has, in their order, each event that there was.  Excepted are events of a wallet,
\* pool or signer whose address is that of a known token.
AnswersFaithful ==
  /\ request.api = "ids" /\ phase = "done" =>
       \A i \in 1 .. Len(request.ids) :
         \/ delivered[i] # None /\ delivered[i].id = request.ids[i]
         \/ delivered[i] = None /\ \A e \in known : e.kind # "transfer" => e.id # request.ids[i]
  /\ \A i \in 1 .. Len(delivered) : \A e \in Events :
       /\ delivered[i] # None /\ delivered[i].id = e.id
       /\ \A a \in {WalletOf(e), PoolOf(e), e.signers[1], Told(e).to} : ~Mapped(a)
       => delivered[i] = Told(e)

=============================================================================
