------------------------------ MODULE NodeLedger ------------------------------
(***************************************************************************)
(* A node's ledger, mempool and proposals (kcoin-node runtime.rs) over the *)
(* ledger rules of module LedgerState: transactions are admitted against   *)
(* the mempool as well as the ledger, blocks are built from the mempool    *)
(* and a clock that may jump, and finalized blocks arrive from this node   *)
(* or from proposers with other mempools.  Which block is finalized at a   *)
(* height is consensus's business (module Consensus); here any block that  *)
(* executes may be.                                                        *)
(***************************************************************************)
EXTENDS LedgerState, FiniteSetsExt

CONSTANTS
    Transactions,   \* bound: the signed transactions wallets ever submit
    BlockLimit,     \* how many mempool entries a proposal takes (1000)
    Clocks,         \* bound: the values the wall clock shows
    ForeignLimit,   \* bound: transactions in a block of another proposer
    MaxMempool,     \* bound: pending transactions
    MaxProposals,   \* bound: blocks a node builds for one height
    MaxHeight       \* bound: finalized blocks in a behaviour

ASSUME NodeAssumption ==
    /\ BlockLimit \in Nat /\ ForeignLimit \in Nat /\ MaxHeight \in Nat
    /\ Clocks \subseteq Nat
    /\ \A tx \in Transactions :
          /\ tx.sender \in Addresses /\ tx.nonce \in Nat /\ tx.expiry \in Nat
          /\ tx.action \in {"transfer", "claim", "name"}
          /\ tx.action = "transfer" => tx.recipient \in Addresses /\ tx.amount \in Nat
          /\ tx.action = "claim" => tx.challenge \in Nat

VARIABLES
    ledger,     \* NodeActor::ledger
    mempool,    \* NodeActor::mempool, oldest first
    proposals,  \* blocks this node has built for the next height
    chain,      \* the finalized blocks in the store
    syncing     \* a sync target is set

vars == <<ledger, mempool, proposals, chain, syncing>>

NextHeight == ledger.height + 1

\* One more transaction: kept if it applies after those kept so far.
Admitted(acc, tx, h) ==
    LET next == ApplyTransaction(acc.ledger, tx, h)
    IN IF next = NoLedger THEN acc ELSE [ledger |-> next, kept |-> Append(acc.kept, tx)]

\* Admit(l, txs, h): the transactions of txs that apply one after another, and
\* the ledger they leave.
Admit(l, txs, h) ==
    LET admitted[i \in 0 .. Len(txs)] ==
            IF i = 0 THEN [ledger |-> l, kept |-> <<>>]
            ELSE Admitted(admitted[i - 1], txs[i], h)
    IN admitted[Len(txs)]

-------------------------------------------------------------------------------
Init ==
    /\ ledger = Genesis
    /\ mempool = <<>>
    /\ proposals = {}
    /\ chain = <<>>
    /\ syncing = FALSE

\* Wrong on purpose: the simulation runs on the ledger, not on a copy of it.
AcceptOnLedger(tx) ==
    LET candidate == Execute(ledger, mempool, NextHeight)
    IN /\ ~syncing /\ Len(mempool) < MaxMempool
       /\ tx \notin ToSet(mempool) \cup ledger.applied
       /\ candidate # NoLedger
       /\ ValidateTransaction(candidate, tx, NextHeight)
       /\ ledger' = candidate
       /\ mempool' = Append(mempool, tx)
       /\ UNCHANGED <<proposals, chain, syncing>>

\* From a wallet or from gossip, in any order; what is refused is forgotten.
AcceptTransaction(tx) ==
    LET candidate == Execute(ledger, mempool, NextHeight)
    IN /\ ~syncing /\ Len(mempool) < MaxMempool
       /\ tx \notin ToSet(mempool) \cup ledger.applied
       /\ candidate # NoLedger
       /\ ValidateTransaction(candidate, tx, NextHeight)
       /\ mempool' = Append(mempool, tx)
       /\ UNCHANGED <<ledger, proposals, chain, syncing>>

Oldest == SubSeq(mempool, 1, Min({Len(mempool), BlockLimit}))

\* A proposer leaves out mempool entries that do not apply.
BuildConsensusProposal(clock) ==
    /\ ~syncing
    /\ ledger.height < MaxHeight /\ Cardinality(proposals) < MaxProposals
    /\ proposals' = proposals \cup
           {BuildBlock(ledger, clock, Admit(ledger, Oldest, NextHeight).kept)}
    /\ UNCHANGED <<ledger, mempool, chain, syncing>>

\* Wrong on purpose: only the block's own transactions leave the mempool.
KeepUnfinalized(l, b) ==
    LET Open(tx) == tx \notin ToSet(b.txs) IN SelectSeq(mempool, Open)

\* revalidate_mempool, after block b has made the ledger l.
RevalidateMempool(l, b) == Admit(l, mempool, l.height + 1).kept

\* commit_finalized, for this node's own block and for an imported one;
\* reset_consensus drops the proposals of the height.
CommitFinalized(b) ==
    LET next == ApplyBlock(ledger, b)
    IN /\ next # NoLedger
       /\ ledger' = next
       /\ chain' = Append(chain, b)
       /\ mempool' = RevalidateMempool(next, b)
       /\ proposals' = {}
       /\ syncing' \in {FALSE, syncing}

\* A standalone node takes the oldest entries as they are and commits at once.
ProduceStandalone(clock) ==
    /\ ledger.height < MaxHeight
    /\ Execute(ledger, Oldest, NextHeight) # NoLedger
    /\ CommitFinalized(BuildBlock(ledger, clock, Oldest))

\* A certified tip beyond the next height: the node stops proposing and
\* admitting transactions until it has caught up.
BeginSync ==
    /\ ~syncing /\ ledger.height < MaxHeight
    /\ syncing' = TRUE
    /\ UNCHANGED <<ledger, mempool, proposals, chain>>

\* A restart replays the store; the mempool and an unfinished sync are lost,
\* proposals are stored with the consensus rows.
Restart ==
    /\ Replay(chain) # NoLedger
    /\ ledger' = Replay(chain)
    /\ mempool' = <<>>
    /\ syncing' = FALSE
    /\ UNCHANGED <<proposals, chain>>

\* A block of another proposer: any transactions in any order, any timestamp.
\* (One with a wrong state root is refused by ApplyBlock and changes nothing.)
ForeignBlock(txs, time) ==
    NewBlock(NextHeight, ledger.tip, time,
             StateRoot(Stamped(Execute(ledger, txs, NextHeight), NextHeight, time)), txs)

\* The lists of transactions that execute on the ledger.
Executable ==
    {txs \in BoundedSeq(Transactions, ForeignLimit) : Execute(ledger, txs, NextHeight) # NoLedger}

ForeignBlocks == {ForeignBlock(txs, time) : txs \in Executable, time \in Clocks}

Next ==
    \/ \E tx \in Transactions : AcceptTransaction(tx)
    \/ \E clock \in Clocks : BuildConsensusProposal(clock)
    \/ \E clock \in Clocks : ProduceStandalone(clock)
    \/ \E b \in proposals : CommitFinalized(b)
    \/ ledger.height < MaxHeight /\ \E b \in ForeignBlocks : CommitFinalized(b)
    \/ BeginSync
    \/ Restart

Spec == Init /\ [][Next]_vars

-------------------------------------------------------------------------------
(* Properties *)

\* The places of the executed transactions: a block and an index in it.
Executed == UNION {{<<k, i>> : i \in DOMAIN chain[k].txs} : k \in DOMAIN chain}
TxAt(p) == chain[p[1]].txs[p[2]]
Before(p, q) == p[1] < q[1] \/ (p[1] = q[1] /\ p[2] < q[2])

ExecutedBy(a) == {p \in Executed : TxAt(p).sender = a}
ExecutedClaims == {p \in Executed : TxAt(p).action = "claim"}

\* The ledger and the store have the same height, and the mempool holds no more
\* than what wallets submitted.
TypeOK ==
    /\ ledger.height = Len(chain) /\ ledger.height \in 0 .. MaxHeight
    /\ \A a \in Addresses : ledger.accounts[a].balance \in Nat /\ ledger.accounts[a].nonce \in Nat
    /\ ToSet(mempool) \subseteq Transactions
    /\ syncing \in BOOLEAN

\* No transaction creates or destroys coins but a rewarded claim: the balances
\* add up to the supply, which never passes the maximum.  (With it, none of the
\* checked_add calls of apply_transaction can overflow.)
SupplyIsBalances ==
    /\ ledger.supply = MapThenSumSet(LAMBDA a : ledger.accounts[a].balance, Addresses)
    /\ ledger.supply <= MaxSupply

\* What k rewarded claims have issued.
Emission[k \in Nat] == IF k = 0 THEN 0 ELSE Emission[k - 1] + RewardForSupply(Emission[k - 1])

\* Each challenge is rewarded exactly once, in order, whatever claims race for
\* it in the mempools and blocks; so the supply follows from the challenge id.
OneRewardPerChallenge ==
    /\ {TxAt(p).challenge : p \in ExecutedClaims} = 0 .. ledger.challenge - 1
    /\ \A p, q \in ExecutedClaims : Before(p, q) => TxAt(p).challenge < TxAt(q).challenge
    /\ ledger.supply = Emission[ledger.challenge]

\* The transactions of a wallet execute in nonce order without gaps, and none
\* twice, also when the wallet signed it twice.
NoncesInOrder ==
    \A a \in Addresses :
        /\ {TxAt(p).nonce : p \in ExecutedBy(a)} = 0 .. ledger.accounts[a].nonce - 1
        /\ \A p, q \in ExecutedBy(a) : Before(p, q) => TxAt(p).nonce < TxAt(q).nonce

\* The mempool as a whole always executes on the ledger at the next height: an
\* admitted transaction never blocks the admission of others (accept_transaction
\* replays the mempool and fails if any entry does).
MempoolExecutes == Execute(ledger, mempool, NextHeight) # NoLedger

\* Every block this node has built for the next height passes apply_block on its
\* ledger, whatever the clock and the blocks before did to the timestamps.
ProposalsApply == \A b \in proposals : ApplyBlock(ledger, b) # NoLedger

\* The stored chain replays to the ledger in memory, so that a restart neither
\* fails nor changes the state.
ReplayReproduces == Replay(chain) = ledger
===============================================================================
