------------------------------- MODULE MCEscrow -------------------------------
EXTENDS Escrow, TLC

CONSTANTS a, b, c

\* Two milestones; the second must be approved by ledger 2 and comes approved.
TwoMilestones ==
    {<<[amount |-> 1, approval_deadline_ledger |-> 0,
        approved |-> FALSE, claimed |-> FALSE],
       [amount |-> 1, approval_deadline_ledger |-> 2,
        approved |-> x, claimed |-> FALSE]>> : x \in BOOLEAN}

\* The same, and a list of which the payer stores one milestone as claimed.
AnyMilestones ==
    TwoMilestones \cup
      {<<[amount |-> 1, approval_deadline_ledger |-> 0,
          approved |-> TRUE, claimed |-> TRUE],
         [amount |-> 1, approval_deadline_ledger |-> 0,
          approved |-> TRUE, claimed |-> FALSE]>>}

\* Two items for one recipient, one of them below the minimum, and one for the
\* payer of the first call.
MixedBatch ==
    {<<[to |-> b, amount |-> 2, release_ledger |-> 2],
       [to |-> b, amount |-> 1, release_ledger |-> 2],
       [to |-> b, amount |-> 2, release_ledger |-> 2]>>,
     <<[to |-> a, amount |-> 2, release_ledger |-> 2],
       [to |-> b, amount |-> 2, release_ledger |-> 3]>>}

\* Sound when no batch input names an account.
Symmetry == Permutations(Accounts)

\* No batch claim takes a milestone escrow of which a part was claimed.
SparingNext ==
    \/ OtherCalls
    \/ \E ids \in BatchIds : BatchClaimEscrow(ids) /\ SparesClaimed
    \/ CustodyNext /\ UNCHANGED escrowVars

SparingSpec == Init /\ [][SparingNext]_vars

AllIdSets == SUBSET EscrowIds \ {{}}
=============================================================================
