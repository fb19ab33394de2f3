-------------------------------- MODULE Explorer ------------------------------
(***************************************************************************)
(* The explorer tables of a node's store, beside the node of module        *)
(* NodeLedger: persist_finalized writes them with every finalized block,   *)
(* `kcoin db reindex` rebuilds them from the stored blocks while the node  *)
(* is stopped, one transaction after another, and `kcoin db verify` checks *)
(* them (storage.rs, runtime.rs, kcoin-cli main.rs).  The rebuild may be   *)
(* interrupted anywhere and the node may be started on what it left.       *)
(* Outside causes may spoil the derived columns of a block row, the        *)
(* challenge entry of the metadata, or a stored block itself.              *)
(***************************************************************************)
EXTENDS NodeLedger

CONSTANTS
    MaintenanceHeights, \* bound: heights at which the node process is stopped
    MaxFaults           \* bound: rows spoiled in a behaviour

VARIABLES
    phase,      \* "up", "stopped", a step of the reindexer, or "failed"
    position,   \* the block the reindexer works on
    tables,     \* transactions, accounts, metadata
    stale,      \* heights whose derived block columns are spoiled
    damaged,    \* the height of a block whose bytes are spoiled, or 0
    faults,     \* rows spoiled so far
    trusted     \* nothing was spoiled or cleared since the last full rebuild

explorerVars == <<vars, phase, position, tables, stale, damaged, faults, trusted>>

Malformed == [id |-> -1, issued |-> -1]     \* an entry that is not JSON

NoMeta == [supply |-> -1]                   \* no metadata entries

EmptyTables == [txs |-> {}, accounts |-> <<>>, meta |-> NoMeta]

ExplorerInit ==
    /\ Init
    /\ phase = "up" /\ position = 0
    /\ tables = EmptyTables
    /\ stale = {} /\ damaged = 0 /\ faults = 0
    /\ trusted = TRUE

-------------------------------------------------------------------------------
(* build_projection: l is the ledger before block b, next the one after it,   *)
(* blocks what the store holds at that moment.                                *)

Recipient(tx) ==
    CASE tx.action = "transfer" -> tx.recipient
      [] tx.action = "claim"    -> tx.sender
      [] tx.action = "name"     -> None

Amount(l, tx) ==
    CASE tx.action = "transfer" -> tx.amount
      [] tx.action = "claim"    -> RewardForSupply(l.supply)
      [] tx.action = "name"     -> 0

\* The transaction rows of a block; the id of a transaction is the transaction.
TransactionRows(l, b) ==
    {[id |-> b.txs[i], height |-> b.height, index |-> i,
      recipient |-> Recipient(b.txs[i]),
      amount |-> Amount(States(l, b.txs, b.height)[i - 1], b.txs[i])]
        : i \in DOMAIN b.txs}

Names(row, a) == a \in {row.id.sender, row.recipient}

\* address_transactions, without its limit.
AddressTransactions(txs, a) == {row \in txs : Names(row, a)}

\* Wrong on purpose: a sender that is also the recipient is counted twice.
ActivityOfBothSides(rows, a) ==
    Cardinality({row \in rows : row.id.sender = a}) + Cardinality({row \in rows : row.recipient = a})

\* How much a block's rows add to the transaction count of an account.
Activity(rows, a) == Cardinality(AddressTransactions(rows, a))

\* The accounts a ledger has an entry for.
Known(l) == {a \in Addresses : l.accounts[a] # Genesis.accounts[a]}

StoredCount(t, a) == IF a \in DOMAIN t.accounts THEN t.accounts[a].count ELSE 0

AccountRow(next, a, count) ==
    [balance |-> next.accounts[a].balance, nonce |-> next.accounts[a].nonce,
     name |-> next.accounts[a].name, count |-> count]

\* Wrong on purpose: only the accounts the block names are written.
NamedAccounts(t, next, rows) ==
    [a \in {x \in Known(next) : AddressTransactions(rows, x) # {}} |->
        AccountRow(next, a, StoredCount(t, a) + Activity(rows, a))]

\* Every account of the ledger is written, with the stored count of its
\* transactions raised by the block's.
ChangedAccounts(t, next, rows) ==
    [a \in Known(next) |->
        AccountRow(next, a, StoredCount(t, a) + Activity(rows, a))]

ClaimsOf(b) == {tx \in ToSet(b.txs) : tx.action = "claim"}

\* The stored blocks that rewarded the challenge before this one.
Issuers(blocks, id) ==
    {k \in DOMAIN blocks : \E tx \in ClaimsOf(blocks[k]) : tx.challenge + 1 = id}

\* canonical_challenge_issued_height, or the candidate's height when no block
\* in the store issued the challenge.
CanonicalIssued(blocks, id, height) ==
    IF id = 0 THEN 0
    ELSE IF Issuers(blocks, id) = {} THEN height ELSE Max(Issuers(blocks, id))

\* The stored challenge entry is used when it can be read and is about the
\* candidate's challenge.
Remembered(t, next) ==
    /\ t.meta # NoMeta /\ t.meta.challenge # Malformed
    /\ t.meta.challenge.id = next.challenge

Scans(t, next, b) == ClaimsOf(b) = {} /\ ~Remembered(t, next)

\* The backward scan reads the bytes of the blocks down to the issuer.
ScanFails(blocks, next) ==
    damaged # 0 /\ next.challenge # 0 /\ damaged >= CanonicalIssued(blocks, next.challenge, 0)

\* Wrong on purpose: a challenge the metadata does not know counts as new.
IssuedUnlessRemembered(t, next, b, blocks) ==
    IF Remembered(t, next) THEN t.meta.challenge.issued ELSE next.height

IssuedHeight(t, next, b, blocks) ==
    IF ClaimsOf(b) # {} THEN next.height
    ELSE IF Remembered(t, next) THEN t.meta.challenge.issued
    ELSE CanonicalIssued(blocks, next.challenge, next.height)

\* Rows written over the stored ones of the same key.
Upserted(new, stored) ==
    [a \in DOMAIN new \cup DOMAIN stored |-> IF a \in DOMAIN new THEN new[a] ELSE stored[a]]

\* build_projection and the explorer part of persist_finalized: rows are
\* inserted, or overwritten under the same key.
Persisted(t, l, next, b, blocks) ==
    LET rows == TransactionRows(l, b)
    IN [txs |-> rows \cup {row \in t.txs : \A new \in rows : row.id # new.id},
        accounts |-> Upserted(ChangedAccounts(t, next, rows), t.accounts),
        meta |-> [tip |-> b, supply |-> next.supply,
                  challenge |-> [id |-> next.challenge,
                                 issued |-> IssuedHeight(t, next, b, blocks)]]]
-------------------------------------------------------------------------------
(* The node process *)

\* A step of the node; a block it finalizes is projected in the transaction
\* that stores it.
NodeStep ==
    /\ phase = "up"
    /\ Next
    /\ tables' = IF chain' = chain THEN tables
                 ELSE Persisted(tables, ledger, ledger', Last(chain'), chain)
    /\ UNCHANGED <<phase, position, stale, damaged, faults, trusted>>

Stop ==
    /\ phase = "up" /\ ledger.height \in MaintenanceHeights
    /\ phase' = "stopped"
    /\ mempool' = <<>> /\ syncing' = FALSE
    /\ UNCHANGED <<ledger, proposals, chain, position, tables, stale, damaged, faults, trusted>>

\* start_node decodes and replays the stored blocks; it reads no derived
\* column and no explorer table.
Start ==
    /\ phase = "stopped" /\ damaged = 0
    /\ Restart
    /\ phase' = "up"
    /\ UNCHANGED <<position, tables, stale, damaged, faults, trusted>>

-------------------------------------------------------------------------------
(* Faults of the stored rows, while no process has them in memory *)

SpoilColumns(h) ==
    /\ phase = "stopped" /\ faults < MaxFaults
    /\ stale' = stale \cup {h} /\ trusted' = FALSE /\ faults' = faults + 1
    /\ UNCHANGED <<vars, phase, position, tables, damaged>>

SpoilChallenge ==
    /\ phase = "stopped" /\ faults < MaxFaults
    /\ tables.meta # NoMeta
    /\ tables' = [tables EXCEPT !.meta.challenge = Malformed]
    /\ trusted' = FALSE /\ faults' = faults + 1
    /\ UNCHANGED <<vars, phase, position, stale, damaged>>

\* A block may also be spoiled while the reindexer runs.
SpoilBlock(h) ==
    /\ phase # "up" /\ faults < MaxFaults
    /\ damaged' = h /\ faults' = faults + 1
    /\ UNCHANGED <<vars, phase, position, tables, stale, trusted>>

-------------------------------------------------------------------------------
(* reindex_store and reindex_database *)

LedgerAt(k) == Replays(chain)[k]

\* The read-only pass over the stored blocks: with a spoiled one, nothing is
\* touched.
BeginReindex ==
    /\ phase = "stopped" /\ damaged = 0
    /\ Replay(chain) # NoLedger
    /\ phase' = "clear"
    /\ UNCHANGED <<vars, position, tables, stale, damaged, faults, trusted>>

RebuildFrom(k) == IF k > Len(chain) THEN "verify" ELSE "refresh"

ClearProjections ==
    /\ phase = "clear"
    /\ tables' = EmptyTables
    /\ trusted' = FALSE
    /\ position' = 1 /\ phase' = RebuildFrom(1)
    /\ UNCHANGED <<vars, stale, damaged, faults>>

\* The rows were read before the rebuild began; build_projection fails when it
\* has to scan the stored blocks and meets a spoiled one, the refresh when the
\* stored bytes are no longer the ones that were read.
RefreshFails ==
    \/ damaged = position
    \/ Scans(tables, LedgerAt(position), chain[position]) /\ ScanFails(chain, LedgerAt(position))

\* Wrong on purpose: the derived columns are left as they are.
RefreshNothing(k) == stale

Refreshed(k) == stale \ {k}

RefreshBlockProjection ==
    /\ phase = "refresh"
    /\ IF RefreshFails
       THEN phase' = "failed" /\ UNCHANGED stale
       ELSE phase' = "persist" /\ stale' = Refreshed(position)
    /\ UNCHANGED <<vars, position, tables, damaged, faults, trusted>>

\* persist_finalized for a height the store has: the stored hash must be the
\* block's.
PersistRebuilt ==
    /\ phase = "persist"
    /\ IF position \in stale
       THEN phase' = "failed" /\ UNCHANGED <<tables, position>>
       ELSE /\ tables' = Persisted(tables, LedgerAt(position - 1), LedgerAt(position),
                                   chain[position], chain)
            /\ position' = position + 1
            /\ phase' = RebuildFrom(position + 1)
    /\ UNCHANGED <<vars, stale, damaged, faults, trusted>>

\* verify_database: every block and derived column, and the metadata of the tip.
Verified ==
    /\ damaged = 0 /\ stale = {} /\ Replay(chain) # NoLedger
    /\ chain = <<>> \/ /\ tables.meta # NoMeta
                       /\ tables.meta.tip = Last(chain)
                       /\ tables.meta.supply = Replay(chain).supply

VerifyRebuilt ==
    /\ phase = "verify"
    /\ position' = 0
    /\ phase' = IF Verified THEN "stopped" ELSE "failed"
    /\ trusted' = Verified
    /\ UNCHANGED <<vars, tables, stale, damaged, faults>>

\* The reindexing process dies between two of its transactions.
Interrupt ==
    /\ phase \in {"clear", "refresh", "persist", "verify"}
    /\ phase' = "stopped" /\ position' = 0
    /\ UNCHANGED <<vars, tables, stale, damaged, faults, trusted>>

ExplorerNext ==
    \/ NodeStep \/ Stop \/ Start
    \/ \E h \in DOMAIN chain : SpoilColumns(h) \/ SpoilBlock(h)
    \/ SpoilChallenge
    \/ BeginReindex \/ ClearProjections \/ RefreshBlockProjection
    \/ PersistRebuilt \/ VerifyRebuilt \/ Interrupt

ExplorerSpec == ExplorerInit /\ [][ExplorerNext]_explorerVars

-------------------------------------------------------------------------------
(* What the API answers from the tables *)

\* explorer_transaction: the row's place in the stored blocks holds the
\* transaction.
ServesTransaction(row) ==
    /\ row.height \in DOMAIN chain
    /\ row.index \in DOMAIN chain[row.height].txs
    /\ chain[row.height].txs[row.index] = row.id

\* explorer_block: every transaction of the block has its row.
ServesBlock(k) ==
    \A tx \in ToSet(chain[k].txs) : \E row \in tables.txs : row.id = tx /\ ServesTransaction(row)

\* account_first_seen_height, for an address some transaction names.
FirstSeen(a) == Min({row.height : row \in AddressTransactions(tables.txs, a)})

\* leaderboard: everything the accounts hold, of what the ledger issued.
Held == MapThenSumSet(LAMBDA a : tables.accounts[a].balance, DOMAIN tables.accounts)

-------------------------------------------------------------------------------
(* Properties *)

\* The rows the stored blocks imply, each block on the ledger before it.
ChainRows == UNION {TransactionRows(LedgerAt(k - 1), chain[k]) : k \in DOMAIN chain}

\* The explorer tables say what the stored chain says: one row per executed
\* transaction with the amount it moved, balances of the ledger, for each
\* account the number of the transactions that name it, and the metadata of the
\* tip.  This holds when blocks are committed one by one and after a completed
\* rebuild of whatever an interrupted rebuild or a fault had left; counts are
\* neither lost nor added twice.  So every block is served with its
\* transactions, an account that holds coins was seen before, and the shares of
\* the leaderboard add up to the supply.
TablesMatchChain ==
    (trusted /\ phase \in {"up", "stopped"}) =>
        /\ tables.txs = ChainRows
        /\ tables.accounts =
               [a \in Known(ledger) |->
                   AccountRow(ledger, a, Cardinality(AddressTransactions(ChainRows, a)))]
        /\ stale = {}
        /\ chain # <<>> => tables.meta.tip = Last(chain) /\ tables.meta.supply = ledger.supply
        /\ \A k \in DOMAIN chain : ServesBlock(k)
        /\ \A a \in Known(ledger) :
              \E tx \in ToSet(chain[FirstSeen(a)].txs) : a \in {tx.sender, Recipient(tx)}
        /\ Held = ledger.supply

\* Incomplete tables are not wrong ones: while a rebuild is under way, and after
\* the node was started on what an interrupted one left and committed further
\* blocks, every transaction row still names its place in the stored blocks, and
\* balances, nonces and names are those of the height in the metadata.
ShownRowsAreTrue ==
    /\ \A row \in tables.txs : ServesTransaction(row)
    /\ tables.meta # NoMeta =>
        LET l == LedgerAt(tables.meta.tip.height)
        IN /\ DOMAIN tables.accounts = Known(l)
           /\ \A a \in Known(l) :
                 tables.accounts[a] = AccountRow(l, a, tables.accounts[a].count)

\* The height at which the shown challenge was issued is the height of the
\* block that rewarded the one before it, whatever became of the metadata
\* since.
ChallengeIssuedOnce ==
    (tables.meta # NoMeta /\ tables.meta.challenge # Malformed) =>
        LET open == tables.meta.challenge
        IN IF open.id = 0 THEN open.issued = 0 ELSE Issuers(chain, open.id) = {open.issued}

\* A rebuild repairs every derived column and the metadata: it fails only if
\* the bytes of a stored block are spoiled.
RebuildSucceeds == phase = "failed" => damaged # 0
===============================================================================
