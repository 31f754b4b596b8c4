----------------------------- MODULE PoolMigration -----------------------------
(***************************************************************************)
(* The tools of cmd/rpc over the table pool of one database (the source):  *)
(*   pools     main copies it to another database, page by page;           *)
(*   decimals  LoadTokenDecimals reads the decimals of all tokens;         *)
(*   chain     QueryTokenDecimalsFromChain asks a node for decimals that   *)
(*             are not known yet.                                          *)
(* Nothing calls the last two; they are modelled as what they promise to a *)
(* caller.  While a tool runs, ingest may add pools to the source.         *)
(*                                                                         *)
(* Addresses and tokens are numbers, in the order of the database.  The    *)
(* query of the pages leaves account_key out, so all rows of an address    *)
(* are written under the key <<address, 0>>: the target has one row per    *)
(* address, abstracted to its create_at, zero when it has none.            *)
(***************************************************************************)
EXTENDS Integers, Sequences, FiniteSets

CONSTANTS
  Tools,          \* the tools that are run, of "pools", "decimals" and "chain"
  Rows,           \* the rows the source may have
  Sources,        \* the rows it may have at first
  Mints,          \* tokens the node knows as mints
  PageSize,       \* LIMIT of a page
  MaxWorkers,     \* maxWorkers of InsertPools
  MinBatchSize,   \* minBatchSize of InsertPools
  ChainBatch,     \* batchSize of queryTokenDecimals
  MaxLives        \* bound: how often the tool is started

\* known: token_decimals and quote_decimals are not NULL.
Row == [address : Nat \ {0}, key : Nat, accounts : Nat, base : Nat \ {0}, quote : Nat \ {0},
        created : Nat, known : BOOLEAN]

ASSUME RowsAssumption ==
  /\ IsFiniteSet(Rows) /\ Rows \subseteq Row /\ Sources \subseteq SUBSET Rows
  /\ \A r, s \in Rows : r.address = s.address /\ r.key = s.key => r = s
ASSUME LimitsAssumption ==
  /\ Tools \subseteq {"pools", "decimals", "chain"} /\ Mints \subseteq Nat \ {0}
  /\ PageSize \in Nat \ {0} /\ MaxWorkers \in Nat \ {0, 1} /\ MinBatchSize \in Nat \ {0}
  /\ ChainBatch \in Nat \ {0} /\ MaxLives \in Nat \ {0}

VARIABLES
  tool, lives,
  source,     \* the source's rows
  target,     \* the target's rows: create_at per address, or NoRow
  phase,      \* where the tool is
  cursor,     \* lastAddr, or lastTokenAddr
  writing,    \* batches the goroutines of InsertPools still have to write
  tokenMap,   \* tokens whose decimals are known
  list,       \* tokens still to ask the node for
  atStart,    \* history: the source when the tool was started
  loaded,     \* history: rows main has got in a page
  skipped,    \* history: rows that an error has passed over
  unanswered  \* history: tokens of a batch whose call failed

tables == <<source, target>>
pools  == <<writing, loaded>>
tokens == <<tokenMap, list, unanswered>>
vars == <<tool, lives, tables, phase, cursor, pools, tokens, atStart, skipped>>

NoRow == -1
Tokens == {r.base : r \in Rows} \union {r.quote : r \in Rows}

-----------------------------------------------------------------------------
(* Reading a page                                                           *)

\* The column a page is ordered by.
Column(r) == IF tool = "pools" THEN r.address ELSE r.base

FromCursor(r) == Column(r) >= cursor                      \* faulty variant
PastCursor(r) == Column(r) > cursor

\* What the query may give: rows that are equal in the column come in any order.
Pages ==
  LET rest == {r \in source : PastCursor(r)}
      n == IF Cardinality(rest) < PageSize THEN Cardinality(rest) ELSE PageSize
  IN  {s \in [1 .. n -> rest] :
         /\ \A i, j \in 1 .. n : i < j => s[i] # s[j] /\ Column(s[i]) <= Column(s[j])
         /\ \A r \in rest : (\E i \in 1 .. n : s[i] = r) \/ (\A i \in 1 .. n : Column(s[i]) <= Column(r))}

\* The first n rows are scanned; NULL does not fit the variables of the decimals.
ScannedAnyway(s, n) == n \in 0 .. Len(s)                    \* faulty variant
Scanned(s, n) == \A i \in 1 .. n : s[i].known

RowsIn(s, n) == {s[i] : i \in 1 .. n}

\* The cursor moves with every row scanned, whatever comes of the page.
CursorAtEnd(s, n) == IF s = <<>> THEN cursor ELSE Column(s[Len(s)])      \* faulty variant
CursorAfter(s, n) == IF n = 0 THEN cursor ELSE Column(s[n])

-----------------------------------------------------------------------------
(* InsertPools of cmd/rpc/db/pool_model_writer.go                           *)

\* account_key is always 0 here.
SameAccounts(r, s) == r.accounts = s.accounts             \* faulty variant
SameKey(r, s) == r.address = s.address /\ r.accounts = s.accounts

Agree(r, s) == r.base = s.base /\ r.quote = s.quote

EarliestOrNone(T) == CHOOSE n \in T : \A m \in T : n <= m         \* faulty variant
Earliest(T) == IF T \subseteq {0} THEN 0 ELSE CHOOSE n \in T \ {0} : \A m \in T \ {0} : n <= m

\* The first row of each key, with the earliest time of those that agree with it.
Dedup(s) ==
  LET firsts == {i \in DOMAIN s : \A j \in 1 .. i - 1 : ~SameKey(s[j], s[i])}
  IN  {[s[i] EXCEPT !.created =
          Earliest({s[j].created : j \in {k \in DOMAIN s : SameKey(s[k], s[i]) /\ Agree(s[k], s[i])}})] : i \in firsts}

\* Workers for the first of two lists of rows: in proportion, rounded, but at least one
\* for each list that has rows.
Share(count, other) == (2 * count * MaxWorkers + count + other) \div (2 * (count + other))

BatchSize(count, workers) ==
  IF count > MinBatchSize * workers THEN (count + workers - 1) \div workers ELSE MinBatchSize

\* withBatchSize and withoutBatchSize, for rows of which there are some.
Allocated(with, without) ==
  LET share == Share(with, without)
      workers == IF share = 0 /\ with > 0 THEN 1
                 ELSE IF share = MaxWorkers /\ without > 0 THEN share - 1 ELSE share
      others == IF share = MaxWorkers /\ without > 0 THEN 1 ELSE MaxWorkers - share
  IN  <<BatchSize(with, workers), BatchSize(without, others)>>

\* The ways to cut rows, which come in no order from a map, into batches.
Batches(S, size) ==
  LET number == (Cardinality(S) + size - 1) \div size
      full(b) == Cardinality(b) = size
  IN  {P \in SUBSET ((SUBSET S) \ {{}}) :
         /\ Cardinality(P) = number /\ UNION P = S
         /\ \A b, c \in P : b # c => b \intersect c = {}
         /\ \A b, c \in P : b # c => full(b) \/ full(c)
         /\ \A b \in P : Cardinality(b) <= size}

Dispatched(s) ==
  LET with == {r \in Dedup(s) : r.created > 0}
      without == Dedup(s) \ with
      size == Allocated(Cardinality(with), Cardinality(without))
  IN  {P \union Q : P \in Batches(with, size[1]), Q \in Batches(without, size[2])}

\* An upsert leaves the columns it does not name.
WrittenInFull(r, old) == r.created                        \* faulty variant
Written(r, old) == IF r.created > 0 THEN r.created ELSE IF old = NoRow THEN 0 ELSE old

-----------------------------------------------------------------------------
Init ==
  /\ tool \in Tools /\ lives = 1
  /\ source \in Sources /\ target = [a \in {r.address : r \in Rows} |-> NoRow]
  /\ phase = IF tool = "chain" THEN "ask" ELSE "load"
  /\ cursor = 0
  /\ writing = {} /\ loaded = {}
  /\ tokenMap \in IF tool = "chain" THEN SUBSET Tokens ELSE {{}}
  /\ list = IF tool = "chain" THEN Tokens \ tokenMap ELSE {}
  /\ atStart = source /\ skipped = {} /\ unanswered = {}

\* External: ingest adds a pool to the source.
Add(r) ==
  /\ tool # "chain" /\ r \notin source /\ source' = source \union {r}
  /\ UNCHANGED <<tool, lives, target, phase, cursor, pools, tokens, atStart, skipped>>

\* loadPools and InsertPools begin; no rows, and main is done.
LoadPools ==
  /\ tool = "pools" /\ phase = "load"
  /\ \E s \in Pages :
       /\ Scanned(s, Len(s))
       /\ cursor' = CursorAfter(s, Len(s))
       /\ loaded' = loaded \union RowsIn(s, Len(s))
       /\ IF s = <<>> THEN phase' = "done" /\ UNCHANGED writing
          ELSE phase' = "write" /\ writing' \in Dispatched(s)
  /\ UNCHANGED <<tool, lives, tables, tokens, atStart, skipped>>

\* The query, a scan or the iteration fails after some rows: they are forgotten, and
\* LoadPools goes on behind them.
LoadPoolsFails ==
  /\ tool = "pools" /\ phase = "load"
  /\ \E s \in Pages : \E n \in 0 .. Len(s) :
       /\ Scanned(s, n)
       /\ cursor' = CursorAfter(s, n)
       /\ skipped' = skipped \union RowsIn(s, n)
  /\ UNCHANGED <<tool, lives, tables, phase, pools, tokens, atStart>>

\* insertPoolsSerial, row by row: a statement need not be atomic.
InsertRow ==
  /\ phase = "write"
  /\ \E b \in writing : \E r \in b :
       /\ target' = [target EXCEPT ![r.address] = Written(r, @)]
       /\ writing' = (writing \ {b}) \union (IF b = {r} THEN {} ELSE {b \ {r}})
  /\ UNCHANGED <<tool, lives, source, phase, cursor, loaded, tokens, atStart, skipped>>

\* retryWithBackoff has failed 100000 times: the error is logged, and main goes on.
GiveUp ==
  /\ phase = "write"
  /\ \E b \in writing : writing' = writing \ {b} /\ skipped' = skipped \union b
  /\ UNCHANGED <<tool, lives, tables, phase, cursor, loaded, tokens, atStart>>

NextPage ==
  /\ phase = "write" /\ writing = {}
  /\ phase' = "load"
  /\ UNCHANGED <<tool, lives, tables, cursor, pools, tokens, atStart, skipped>>

\* loadDecimals: a page that fails has filled the map with the rows before the error.
LoadTokenDecimals ==
  /\ tool = "decimals" /\ phase = "load"
  /\ \E s \in Pages : \E n \in 0 .. Len(s) : \E failed \in {TRUE, FALSE} :
       /\ Scanned(s, n) /\ (failed \/ n = Len(s))
       /\ cursor' = CursorAfter(s, n)
       /\ tokenMap' = tokenMap \union {s[i].base : i \in 1 .. n} \union {s[i].quote : i \in 1 .. n}
       /\ phase' = IF ~failed /\ n = 0 THEN "done" ELSE "load"
  /\ UNCHANGED <<tool, lives, tables, pools, list, unanswered, atStart, skipped>>

\* queryTokenDecimals, a batch: what is no mint stays unknown, and so does, for good, a
\* batch whose call fails.
Ask ==
  /\ tool = "chain" /\ phase = "ask" /\ list # {}
  /\ \E b \in SUBSET list :
       /\ Cardinality(b) = IF Cardinality(list) < ChainBatch THEN Cardinality(list) ELSE ChainBatch
       /\ list' = list \ b
       /\ \/ tokenMap' = tokenMap \union (b \intersect Mints) /\ UNCHANGED unanswered
          \/ unanswered' = unanswered \union b /\ UNCHANGED tokenMap
  /\ UNCHANGED <<tool, lives, tables, phase, cursor, pools, atStart, skipped>>

Answered ==
  /\ tool = "chain" /\ phase = "ask" /\ list = {}
  /\ phase' = "done"
  /\ UNCHANGED <<tool, lives, tables, cursor, pools, tokens, atStart, skipped>>

\* The tool is stopped and started again, from the first page.
Restart ==
  /\ tool = "pools" /\ phase # "done" /\ lives < MaxLives
  /\ lives' = lives + 1 /\ phase' = "load" /\ cursor' = 0
  /\ writing' = {} /\ loaded' = {}
  /\ atStart' = source /\ skipped' = {}
  /\ UNCHANGED <<tool, tables, tokens>>

Next ==
  \/ (\E r \in Rows : Add(r))
  \/ LoadPools \/ LoadPoolsFails \/ InsertRow \/ GiveUp \/ NextPage
  \/ LoadTokenDecimals \/ Ask \/ Answered \/ Restart

Spec == Init /\ [][Next]_vars

\* The tool runs, and the databases answer in the end.
FairSpec == Spec /\ WF_vars(LoadPools) /\ WF_vars(InsertRow) /\ WF_vars(NextPage)

-----------------------------------------------------------------------------
\* The variables have their types.
TypeOK ==
  /\ tool \in Tools /\ lives \in 1 .. MaxLives
  /\ source \subseteq Rows /\ target \in [{r.address : r \in Rows} -> Nat \union {NoRow}]
  /\ phase \in {"load", "write", "ask", "done"} /\ cursor \in Nat
  /\ writing \subseteq (SUBSET Row) \ {{}} /\ loaded \subseteq {r \in Rows : r.known}
  /\ tokenMap \subseteq Tokens /\ list \subseteq Tokens
  /\ unanswered \subseteq Tokens
  /\ atStart \subseteq source /\ skipped \subseteq Row

Skipped(a) == \E r \in skipped : r.address = a
Pending(a) == \E b \in writing : \E r \in b : r.address = a

\* Every address of the source that main has passed is in the target or on its way, also
\* when rows of one address lie on two pages and when ingest goes on; excepted are rows
\* an error has passed over: those scanned before a page failed, and those of a batch
\* that was given up (load_pool.go:56 and 68, main.go:50).
Migrated ==
  tool = "pools" =>
    \A r \in atStart : r.address <= cursor \/ phase = "done" =>
      target[r.address] # NoRow \/ Pending(r.address) \/ Skipped(r.address)

\* The time of a pool's creation comes along, whatever rows of its address are written
\* before and after it under the same key; excepted is a row that is dropped because it
\* contradicts one of the same key (pool_model_writer.go:217).
CreationMigrated ==
  \A r \in loaded :
    r.created > 0 =>
      \/ target[r.address] > 0 \/ Skipped(r.address)
      \/ \E b \in writing : \E s \in b : s.address = r.address /\ s.created > 0
      \/ \E s \in loaded : SameKey(r, s) /\ ~Agree(r, s)

\* LoadTokenDecimals learns the token of every row it has passed, though rows with the
\* token of a page's last row are never read; QueryTokenDecimalsFromChain returns with
\* all it was asked for, but for what is no mint and for batches whose call failed.
DecimalsLearnt ==
  /\ tool = "decimals" => \A r \in atStart : r.base <= cursor \/ phase = "done" => r.base \in tokenMap
  /\ tool = "chain" /\ phase = "done" => Tokens \intersect Mints \subseteq tokenMap \union unanswered

\* The migration ends, unless a row without decimals keeps it on its page for ever
\* (load_pool.go:50).
Finishes == tool = "pools" /\ [](\A r \in source : r.known) => <>(phase = "done")
=============================================================================
