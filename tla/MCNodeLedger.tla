----------------------------- MODULE MCNodeLedger -----------------------------
(***************************************************************************)
(* Two wallets that race for two challenges, a nonce that a wallet signed  *)
(* for several transfers, one to itself, one that may expire; names;       *)
(* a supply that two rewards exhaust; a clock that stands still, jumps     *)
(* ahead of what a block may advance, and exceeds the timestamp ceiling.   *)
(***************************************************************************)
EXTENDS Explorer

Tx(sender, nonce, expiry, action) ==
    [sender |-> sender, nonce |-> nonce, expiry |-> expiry, action |-> action,
     authentic |-> TRUE, recipient |-> None, amount |-> 0,
     challenge |-> 0, correct |-> TRUE, name |-> None]

ClaimOf(a, nonce, challenge) ==
    [Tx(a, nonce, MaxHeight, "claim") EXCEPT !.challenge = challenge]
TransferOf(a, b, nonce, expiry, amount) ==
    [Tx(a, nonce, expiry, "transfer") EXCEPT !.recipient = b, !.amount = amount]

CONSTANTS Alice, Bob

MCAddresses == {Alice, Bob}
MCTransactions ==
    {ClaimOf(Alice, 0, 0), ClaimOf(Alice, 1, 1), ClaimOf(Alice, 2, 2),
     ClaimOf(Bob, 0, 0), ClaimOf(Bob, 0, 1),
     TransferOf(Alice, Bob, 1, 2, 2), TransferOf(Alice, Alice, 1, MaxHeight, 1),
     [Tx(Bob, 0, MaxHeight, "name") EXCEPT !.name = "bob"],
     [ClaimOf(Bob, 0, 0) EXCEPT !.correct = FALSE],
     TransferOf(Bob, Alice, 0, MaxHeight, 1),
     [TransferOf(Alice, Bob, 1, MaxHeight, 1) EXCEPT !.authentic = FALSE]}
MCRewards == <<3, 2>>
===============================================================================
