----------------------------- MODULE Obligations ------------------------------
(***************************************************************************)
(* What the contract promises about money it holds for others, without     *)
(* saying how: every obligation is denominated in one token; it grows only *)
(* with a deposit of the same size and shrinks only with a payment of the  *)
(* same size; nothing else takes money out.  "funds" is whatever account   *)
(* of that money an implementation keeps: the token balance, which         *)
(* outsiders may add to, or the locked balance.                            *)
(***************************************************************************)
EXTENDS Integers

CONSTANTS Tokens, Ids, NoToken

VARIABLES
    funds,      \* money of every token
    owed,       \* what obligation id still owes
    asset       \* the token of obligation id, NoToken before it exists

vars == <<funds, owed, asset>>

Init ==
    /\ funds = [t \in Tokens |-> 0]
    /\ owed = [id \in Ids |-> 0]
    /\ asset = [id \in Ids |-> NoToken]

\* A deposit of n creates the obligation, or adds to it.
Incur(id, t, n) ==
    /\ asset[id] \in {NoToken, t}
    /\ n > 0
    /\ funds' = [funds EXCEPT ![t] = @ + n]
    /\ owed' = [owed EXCEPT ![id] = @ + n]
    /\ asset' = [asset EXCEPT ![id] = t]

\* A payment of n serves the obligation and never exceeds it.
Discharge(id, t, n) ==
    /\ asset[id] = t
    /\ n \in 1 .. owed[id]
    /\ funds' = [funds EXCEPT ![t] = @ - n]
    /\ owed' = [owed EXCEPT ![id] = @ - n]
    /\ UNCHANGED asset

Donate(t, n) ==
    /\ n > 0
    /\ funds' = [funds EXCEPT ![t] = @ + n]
    /\ UNCHANGED <<owed, asset>>

Move ==
    \E t \in Tokens, id \in Ids :
        \/ owed'[id] > owed[id] /\ Incur(id, t, owed'[id] - owed[id])
        \/ owed'[id] < owed[id] /\ Discharge(id, t, owed[id] - owed'[id])

Next == Move \/ \E t \in Tokens : Donate(t, funds'[t] - funds[t])

Spec == Init /\ [][Next]_vars

\* An account that outsiders cannot add to.
ClosedSpec == Init /\ [][Move]_vars
=============================================================================
