------------------------------ MODULE MCEmergency ------------------------------
EXTENDS EmergencyWithdrawal, TLC

CONSTANTS a, b, c, xlm

\* One signer alone; two of two; and a threshold no signer set can meet.
SmallSets ==
    {[signers |-> {a}, threshold |-> 1],
     [signers |-> {a, b}, threshold |-> 2],
     [signers |-> {a}, threshold |-> 2]}

\* Every kind of action, a signer set that is refused and an unknown kind.
AllPayloads ==
    {[kind |-> "pause"], [kind |-> "unpause"], [kind |-> "mint"],
     [kind |-> "set_pauser", pauser |-> c],
     [kind |-> "upgrade", layout |-> 1],
     [kind |-> "upgrade", layout |-> 2],
     [kind |-> "reconcile_balance", token |-> xlm],
     [kind |-> "set_admin_signers", signers |-> {b, c}, threshold |-> 2],
     [kind |-> "set_admin_signers", signers |-> {a, b, c}, threshold |-> 2],
     [kind |-> "set_admin_signers", signers |-> {c}, threshold |-> 2]}

\* A pauser, a pause by quorum and a new signer set.
FewPayloads ==
    {[kind |-> "pause"],
     [kind |-> "set_pauser", pauser |-> c],
     [kind |-> "set_admin_signers", signers |-> {b, c}, threshold |-> 2]}

\* Bound: two proposals race while the contract holds at most one token; next to
\* one proposal it holds two, so that a withdrawal of unlocked tokens is pending,
\* due and paid with others locked.
RaceOrFunds == actionCount' <= 1 \/ balance'[xlm] <= 1

EmergencySpec == Init /\ [][Next /\ RaceOrFunds]_vars
=============================================================================
