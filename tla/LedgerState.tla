------------------------------ MODULE LedgerState -----------------------------
(***************************************************************************)
(* The deterministic ledger of kcoin-protocol: accounts, the transaction   *)
(* rules, the reward schedule, and the building, checking and replaying of *)
(* blocks (ledger.rs, transaction.rs, block.rs).  Pure operators: a ledger *)
(* is a record, and applying something yields a new record or NoLedger.    *)
(* Hashes are the hashed values themselves: a state root is the committed  *)
(* part of the ledger, a block hash is the block.                          *)
(***************************************************************************)
EXTENDS Integers, Sequences, SequencesExt, FiniteSets

CONSTANTS
    Addresses,      \* wallet addresses
    None,           \* Option::None, also Hash32::ZERO
    MaxSupply,      \* MAX_SUPPLY_ATOMS
    RewardBand,     \* REWARD_BAND_ATOMS
    Rewards,        \* REWARDS_KCOIN in atoms: the reward of each band
    MaxStep,        \* MAX_BLOCK_TIMESTAMP_STEP_MS
    MaxTime         \* MAX_BLOCK_TIMESTAMP_MS

ASSUME LedgerAssumption ==
    /\ IsFiniteSet(Addresses) /\ None \notin Addresses
    /\ MaxSupply \in Nat /\ RewardBand \in Nat \ {0}
    /\ Rewards \in Seq(Nat \ {0}) /\ Rewards # <<>>
    /\ MaxStep \in Nat /\ MaxTime \in Nat

NoLedger == [height |-> -1]      \* Err(ValidationError)

Genesis ==
    [height |-> 0, tip |-> None, time |-> 0, supply |-> 0, challenge |-> 0,
     accounts |-> [a \in Addresses |-> [balance |-> 0, nonce |-> 0, name |-> None]],
     applied |-> {}]

\* state_root commits to everything but the tip.
StateRoot(l) == [l EXCEPT !.tip = None]

-------------------------------------------------------------------------------
(* Rewards *)

\* reward_for_supply, for a supply below the maximum.
RewardForSupply(supply) ==
    LET band == supply \div RewardBand
        reward == Rewards[IF band < Len(Rewards) THEN band + 1 ELSE Len(Rewards)]
        remaining == MaxSupply - supply
    IN IF reward < remaining THEN reward ELSE remaining

-------------------------------------------------------------------------------
(* Transactions carry a sender, a nonce, an expiry height and an action.    *)
(* `authentic` stands for the signature, the chain id and the shape of the   *)
(* action, and `correct` for the answer to the challenge.                    *)

VerifySignature(tx) == tx.authentic
AnswerIsRight(tx) == tx.correct

Account(l, a) == l.accounts[a]

\* Wrong on purpose: a transfer may exceed the balance.
ActionIsValidUnfunded(l, tx) ==
    CASE tx.action = "transfer" -> tx.amount > 0
      [] tx.action = "claim"    -> /\ tx.challenge = l.challenge
                                   /\ AnswerIsRight(tx)
                                   /\ l.supply < MaxSupply
      [] tx.action = "name"     -> TRUE

ActionIsValid(l, tx) ==
    CASE tx.action = "transfer" -> tx.amount > 0 /\ tx.amount <= Account(l, tx.sender).balance
      [] tx.action = "claim"    -> /\ tx.challenge = l.challenge
                                   /\ AnswerIsRight(tx)
                                   /\ l.supply < MaxSupply
      [] tx.action = "name"     -> TRUE

\* Wrong on purpose: a nonce above the next one is accepted too.
ValidateLooseNonce(l, tx, height) ==
    /\ VerifySignature(tx)
    /\ tx \notin l.applied
    /\ height <= tx.expiry
    /\ Account(l, tx.sender).nonce <= tx.nonce
    /\ ActionIsValid(l, tx)

ValidateTransaction(l, tx, height) ==
    /\ VerifySignature(tx)
    /\ tx \notin l.applied
    /\ height <= tx.expiry
    /\ tx.nonce = Account(l, tx.sender).nonce
    /\ ActionIsValid(l, tx)

\* Wrong on purpose: a transfer to oneself is treated like any other, so the
\* sender's account is written over the recipient's.
TransferIgnoringSelf(l, tx) ==
    [l EXCEPT !.accounts[tx.recipient].balance = @ + tx.amount,
              !.accounts[tx.sender].balance = Account(l, tx.sender).balance - tx.amount]

\* A transfer to oneself moves nothing.
Transfer(l, tx) ==
    IF tx.recipient = tx.sender THEN l
    ELSE [l EXCEPT !.accounts[tx.recipient].balance = @ + tx.amount,
                   !.accounts[tx.sender].balance = @ - tx.amount]

\* Wrong on purpose: the challenge stays open after it is rewarded.
ClaimKeepingChallenge(l, tx) ==
    LET reward == RewardForSupply(l.supply)
    IN [l EXCEPT !.accounts[tx.sender].balance = @ + reward, !.supply = @ + reward]

Claim(l, tx) ==
    LET reward == RewardForSupply(l.supply)
    IN [l EXCEPT !.accounts[tx.sender].balance = @ + reward,
                 !.supply = @ + reward, !.challenge = @ + 1]

Acted(l, tx) ==
    CASE tx.action = "transfer" -> Transfer(l, tx)
      [] tx.action = "claim"    -> Claim(l, tx)
      [] tx.action = "name"     -> [l EXCEPT !.accounts[tx.sender].name = tx.name]

\* apply_transaction, after validate_transaction has succeeded.
ApplyValid(l, tx) ==
    [Acted(l, tx) EXCEPT !.accounts[tx.sender].nonce = @ + 1, !.applied = @ \cup {tx}]

ApplyTransaction(l, tx, height) ==
    IF l # NoLedger /\ ValidateTransaction(l, tx, height) THEN ApplyValid(l, tx) ELSE NoLedger

-------------------------------------------------------------------------------
(* Blocks *)

\* The ledger after each of the transactions, from l on.
States(l, txs, height) ==
    LET state[i \in 0 .. Len(txs)] ==
            IF i = 0 THEN l ELSE ApplyTransaction(state[i - 1], txs[i], height)
    IN state

\* The transactions in order, all or nothing.
Execute(l, txs, height) == States(l, txs, height)[Len(txs)]

Stamped(l, height, time) == [l EXCEPT !.height = height, !.time = time]

\* Wrong on purpose: the clock is used as it is.
UnclampedTime(l, clock) == clock

\* normalized_proposal_timestamp: the clock, moved into what apply_block accepts.
NormalizedTime(l, clock) ==
    LET Least(x, y) == IF x < y THEN x ELSE y
        Greatest(x, y) == IF x < y THEN y ELSE x
    IN IF l.height = 0 THEN Least(clock, MaxTime)
       ELSE Least(Least(Greatest(clock, l.time), l.time + MaxStep), MaxTime)

\* A block's hash is the block; its transactions root is the list itself.
NewBlock(height, parent, time, root, txs) ==
    [height |-> height, parent |-> parent, time |-> time, root |-> root, txs |-> txs]

\* build_block, for transactions that execute.
BuildBlock(l, clock, txs) ==
    LET height == l.height + 1
        time == NormalizedTime(l, clock)
        candidate == Stamped(Execute(l, txs, height), height, time)
    IN NewBlock(height, l.tip, time, StateRoot(candidate), txs)

TimeIsValid(l, time) ==
    /\ time <= MaxTime
    /\ l.height > 0 => l.time <= time /\ time <= l.time + MaxStep

ApplyBlock(l, b) ==
    LET executed == Execute(l, b.txs, b.height)
        candidate == Stamped(executed, b.height, b.time)
    IN IF /\ l # NoLedger
          /\ b.height = l.height + 1 /\ b.parent = l.tip
          /\ TimeIsValid(l, b.time)
          /\ executed # NoLedger
          /\ b.root = StateRoot(candidate)
       THEN [candidate EXCEPT !.tip = b] ELSE NoLedger

\* The ledger after each block of a chain.
Replays(chain) ==
    LET replay[k \in 0 .. Len(chain)] ==
            IF k = 0 THEN Genesis ELSE ApplyBlock(replay[k - 1], chain[k])
    IN replay

\* replay_finalized_blocks: the ledger of a stored chain.
Replay(chain) == Replays(chain)[Len(chain)]
===============================================================================
