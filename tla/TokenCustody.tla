----------------------------- MODULE TokenCustody -----------------------------
(***************************************************************************)
(* The part of the Finchippay contract's storage that every product        *)
(* shares: the token balance the contract holds on the token contract,     *)
(* DataKey::LockedBalance (what the products owe), the cached mirror       *)
(* DataKey::LastContractBalance, the Paused flag and the ledger sequence   *)
(* number.  Streams, escrows, multi-sig payments, vesting and airdrops     *)
(* extend this module and move money only through its operators.           *)
(*                                                                         *)
(* A Soroban invocation is atomic: a panic rolls the whole call back, so   *)
(* every entry point is one action and a panic is a false guard.           *)
(***************************************************************************)
EXTENDS Integers

CONSTANTS
    Tokens,          \* token contract addresses
    Donations,       \* amounts outsiders may transfer straight to the contract
    MaxBalance,      \* bound of the model: a donation never lifts a balance above it
    MaxLedger        \* bound of the model on the ledger sequence number

ASSUME MaxLedgerAssumption == MaxLedger \in Nat
ASSUME DonationsAssumption == Donations \subseteq Nat \ {0}

VARIABLES
    balance,         \* token.balance(contract) of every token
    locked,          \* DataKey::LockedBalance(token)
    cached,          \* DataKey::LastContractBalance(token), NoCache if absent
    paused,          \* DataKey::Paused
    ledger           \* env.ledger().sequence()

custodyVars == <<balance, locked, cached, paused, ledger>>

NoCache == -1

CustodyTypeOK ==
    /\ balance \in [Tokens -> Nat]
    /\ locked \in [Tokens -> Int]
    /\ cached \in [Tokens -> Nat \cup {NoCache}]
    /\ paused \in BOOLEAN
    /\ ledger \in Nat

CustodyInit ==
    /\ balance = [t \in Tokens |-> 0]
    /\ locked = [t \in Tokens |-> 0]
    /\ cached = [t \in Tokens |-> NoCache]
    /\ paused = FALSE
    /\ ledger = 1

-----------------------------------------------------------------------------
(***************************************************************************)
(* Moving tokens.  An inbound transfer is checked against the balance read *)
(* before it and always refreshes the cached balance.  An outbound         *)
(* transfer through contract_transfer_out refreshes it if it exists; a     *)
(* plain token.transfer leaves it alone.  The token refuses a transfer the *)
(* contract cannot cover.                                                  *)
(***************************************************************************)
TransferIn(t, amount) ==
    /\ balance' = [balance EXCEPT ![t] = @ + amount]
    /\ cached' = [cached EXCEPT ![t] = balance[t] + amount]

TransferOut(t, amount) ==
    /\ amount <= balance[t]
    /\ balance' = [balance EXCEPT ![t] = @ - amount]
    /\ cached' = [cached EXCEPT ![t] = IF @ = NoCache THEN @
                                       ELSE balance[t] - amount]

RawTransferOut(t, amount) ==
    /\ amount <= balance[t]
    /\ balance' = [balance EXCEPT ![t] = @ - amount]
    /\ UNCHANGED cached

\* Several contract_transfer_out calls at once: total[t] leaves in token t.
TransferOutAll(total) ==
    /\ \A t \in Tokens : total[t] <= balance[t]
    /\ balance' = [t \in Tokens |-> balance[t] - total[t]]
    /\ cached' = [t \in Tokens |-> IF total[t] = 0 \/ cached[t] = NoCache
                                   THEN cached[t] ELSE balance[t] - total[t]]

IncreaseLocked(t, amount) ==
    locked' = [locked EXCEPT ![t] = @ + amount]

DecreaseLocked(t, amount) ==
    locked' = [locked EXCEPT ![t] = @ - amount]

-----------------------------------------------------------------------------
(***************************************************************************)
(* What happens around the products: ledgers close, somebody sends tokens  *)
(* to the contract's address without calling it, and the pauser trips or   *)
(* resets the circuit breaker.                                             *)
(***************************************************************************)
AdvanceLedger ==
    /\ ledger < MaxLedger
    /\ ledger' = ledger + 1
    /\ UNCHANGED <<balance, locked, cached, paused>>

Donate(t, amount) ==
    /\ balance[t] + amount <= MaxBalance
    /\ balance' = [balance EXCEPT ![t] = @ + amount]
    /\ UNCHANGED <<locked, cached, paused, ledger>>

SetPaused(flag) ==
    /\ paused # flag
    /\ paused' = flag
    /\ UNCHANGED <<balance, locked, cached, ledger>>

CustodyNext ==
    \/ AdvanceLedger
    \/ \E t \in Tokens, amount \in Donations : Donate(t, amount)
    \/ \E flag \in BOOLEAN : SetPaused(flag)
=============================================================================
