------------------------------- MODULE MultiSig -------------------------------
(***************************************************************************)
(* N-of-M payments of the Finchippay contract (multi_sig.rs): a proposer   *)
(* deposits an amount that is paid to the recipient by the approval that   *)
(* reaches the threshold, and refunded by a cancellation or a timeout.     *)
(* The signer list is duplicate-free (create_multisig checks it), and so   *)
(* is the list of approvals: both are sets here.                           *)
(***************************************************************************)
EXTENDS TokenCustody, Sums

CONSTANTS
    Accounts,
    Amounts,             \* amounts a proposer may ask for
    Thresholds,          \* thresholds a proposer may ask for
    Expirations,         \* expiration ledgers a proposer may ask for
    MIN_MULTISIG_AMOUNT, MAX_MULTISIG_AMOUNT, MAX_MULTISIG_TTL,
    MAX_MULTISIG_SIGNERS,
    MaxProposals         \* bound of the model on the number of proposals

ASSUME MultiSigInputsAssumption ==
    /\ Amounts \subseteq Int
    /\ Thresholds \subseteq Nat
    /\ Expirations \subseteq Nat
    /\ IsFiniteSet(Accounts)
ASSUME MultiSigLimitsAssumption ==
    /\ MIN_MULTISIG_AMOUNT \in Nat \ {0}
    /\ MAX_MULTISIG_AMOUNT \in Nat
    /\ MAX_MULTISIG_TTL \in Nat
    /\ MAX_MULTISIG_SIGNERS \in Nat
    /\ MaxProposals \in Nat

VARIABLES
    proposal,            \* DataKey::MultiSig(id)
    multiSigCount        \* DataKey::MultiSigCount

multiSigVars == <<proposal, multiSigCount>>
vars == <<custodyVars, multiSigVars>>

ProposalIds == 0 .. MaxProposals - 1

Proposal == [proposer : Accounts, recipient : Accounts, token : Tokens,
             amount : Nat \ {0}, threshold : Nat \ {0},
             signers : SUBSET Accounts, approvals : SUBSET Accounts,
             status : {"Pending", "Executed", "Cancelled"},
             expiration_ledger : Nat]

NoToken == "none"
ASSUME NoTokenAssumption == NoToken \notin Tokens
NoProposal == [status |-> "none", token |-> NoToken]

TypeOK ==
    /\ CustodyTypeOK
    /\ multiSigCount \in 0 .. MaxProposals
    /\ DOMAIN proposal = ProposalIds
    /\ proposal = [id \in ProposalIds |-> proposal[id]]
    /\ \A id \in ProposalIds : IF id < multiSigCount
                               THEN proposal[id] \in Proposal
                               ELSE proposal[id] = NoProposal

Init ==
    /\ CustodyInit
    /\ proposal = [id \in ProposalIds |-> NoProposal]
    /\ multiSigCount = 0

Pending(id) == id < multiSigCount /\ proposal[id].status = "Pending"

-----------------------------------------------------------------------------
Acceptable(proposer, recipient, amount, threshold, signers, expiration) ==
    /\ proposer # recipient
    /\ amount \in MIN_MULTISIG_AMOUNT .. MAX_MULTISIG_AMOUNT
    /\ expiration > ledger
    /\ expiration <= ledger + MAX_MULTISIG_TTL
    /\ threshold \in 1 .. Cardinality(signers)
    /\ Cardinality(signers) <= MAX_MULTISIG_SIGNERS

NewProposal(t, proposer, recipient, amount, threshold, signers, expiration) ==
    [proposer |-> proposer, recipient |-> recipient, token |-> t,
     amount |-> amount, threshold |-> threshold, signers |-> signers,
     approvals |-> {}, status |-> "Pending", expiration_ledger |-> expiration]

(***************************************************************************)
(* Definitions whose name ends in Fault are variants of the definition     *)
(* that follows them with one plausible coding error.  No specification    *)
(* uses them: substituted for the definition, each makes TLC report the    *)
(* property that is there to notice the error.                             *)
(***************************************************************************)
CreateMultisig(t, p, r, amount, n, signers, expiration) ==
    /\ ~paused
    /\ Acceptable(p, r, amount, n, signers, expiration)
    /\ multiSigCount < MaxProposals
    /\ TransferIn(t, amount)
    /\ IncreaseLocked(t, amount)
    /\ proposal' = [proposal EXCEPT ![multiSigCount] =
                      NewProposal(t, p, r, amount, n, signers, expiration)]
    /\ multiSigCount' = multiSigCount + 1
    /\ UNCHANGED <<paused, ledger>>

\* The whole amount leaves the contract and the proposal becomes final.
PayOut(id, approvals, status) ==
    /\ proposal' = [proposal EXCEPT ![id].approvals = approvals,
                                    ![id].status = status]
    /\ DecreaseLocked(proposal[id].token, proposal[id].amount)
    /\ TransferOut(proposal[id].token, proposal[id].amount)

ApproveMultisig_OffByOneFault(id, signer) ==
    LET p == proposal[id]
        approvals == p.approvals \cup {signer}
    IN  /\ ~paused /\ Pending(id) /\ ledger <= p.expiration_ledger
        /\ signer \in p.signers \ p.approvals
        /\ \/ /\ Cardinality(approvals) > p.threshold
              /\ PayOut(id, approvals, "Executed")
           \/ /\ Cardinality(approvals) <= p.threshold
              /\ proposal' = [proposal EXCEPT ![id].approvals = approvals]
              /\ UNCHANGED <<balance, locked, cached>>
        /\ UNCHANGED <<paused, ledger, multiSigCount>>

ApproveMultisig(id, signer) ==
    LET p == proposal[id]
        approvals == p.approvals \cup {signer}
    IN  /\ ~paused
        /\ Pending(id)
        /\ ledger <= p.expiration_ledger
        /\ signer \in p.signers \ p.approvals
        /\ \/ /\ Cardinality(approvals) >= p.threshold
              /\ PayOut(id, approvals, "Executed")
           \/ /\ Cardinality(approvals) < p.threshold
              /\ proposal' = [proposal EXCEPT ![id].approvals = approvals]
              /\ UNCHANGED <<balance, locked, cached>>
        /\ UNCHANGED <<paused, ledger, multiSigCount>>

TimeoutMultisig_SwappedFault(id) ==
    /\ ~paused /\ Pending(id) /\ ledger <= proposal[id].expiration_ledger
    /\ PayOut(id, proposal[id].approvals, "Cancelled")
    /\ UNCHANGED <<paused, ledger, multiSigCount>>

TimeoutMultisig(id) ==
    /\ ~paused
    /\ Pending(id)
    /\ proposal[id].expiration_ledger # 0
    /\ ledger > proposal[id].expiration_ledger
    /\ PayOut(id, proposal[id].approvals, "Cancelled")
    /\ UNCHANGED <<paused, ledger, multiSigCount>>

CancelMultisig_SettledFault(id, proposer) ==
    /\ ~paused /\ id < multiSigCount /\ proposal[id].proposer = proposer
    /\ PayOut(id, proposal[id].approvals, "Cancelled")
    /\ UNCHANGED <<paused, ledger, multiSigCount>>

CancelMultisig(id, proposer) ==
    /\ ~paused
    /\ Pending(id)
    /\ proposal[id].proposer = proposer
    /\ PayOut(id, proposal[id].approvals, "Cancelled")
    /\ UNCHANGED <<paused, ledger, multiSigCount>>

MultiSigNext ==
    \/ \E t \in Tokens, p, r \in Accounts, amount \in Amounts, n \in Thresholds,
          signers \in SUBSET Accounts, l \in Expirations :
         CreateMultisig(t, p, r, amount, n, signers, l)
    \/ \E id \in ProposalIds :
         \/ TimeoutMultisig(id)
         \/ \E a \in Accounts : ApproveMultisig(id, a) \/ CancelMultisig(id, a)

Next == MultiSigNext \/ (CustodyNext /\ UNCHANGED multiSigVars)

Spec == Init /\ [][Next]_vars

(***************************************************************************)
(* Ledgers keep closing, a tripped circuit breaker is eventually reset,    *)
(* and somebody calls timeout_multisig for a proposal that stays expired:  *)
(* "anyone can call this".  Strong fairness, because the breaker may trip  *)
(* again in between.  Signers and proposers promise nothing.               *)
(***************************************************************************)
Fairness ==
    /\ WF_vars(AdvanceLedger /\ UNCHANGED multiSigVars)
    /\ WF_vars(SetPaused(FALSE) /\ UNCHANGED multiSigVars)
    /\ \A id \in ProposalIds : SF_vars(TimeoutMultisig(id))

FairSpec == Spec /\ Fairness

-----------------------------------------------------------------------------
Owed(id) == IF Pending(id) THEN proposal[id].amount ELSE 0

\* The refinement mapping to Obligations: proposals are obligations.
OwedFn == [id \in ProposalIds |-> Owed(id)]
AssetFn == [id \in ProposalIds |-> proposal[id].token]

\* What the proposals in token t owe together.
OwedIn(t) == Total(OfToken(OwedFn, AssetFn, t))

(***************************************************************************)
(* A payment is executed exactly by a quorum: an executed proposal carries *)
(* threshold approvals of distinct allowed signers, and a proposal that is *)
(* still pending never has that many.                                      *)
(***************************************************************************)
ExecutedByQuorum ==
    \A id \in ProposalIds : id < multiSigCount =>
        LET p == proposal[id]
        IN  /\ p.approvals \subseteq p.signers
            /\ p.threshold <= Cardinality(p.signers)
            /\ p.status = "Executed" => Cardinality(p.approvals) >= p.threshold
            /\ p.status # "Executed" => Cardinality(p.approvals) < p.threshold

(***************************************************************************)
(* The locked balance is exactly the sum of the pending proposals, and the *)
(* contract holds at least that much.                                      *)
(***************************************************************************)
LockedIsPending ==
    \A t \in Tokens : locked[t] = OwedIn(t) /\ locked[t] <= balance[t]

(***************************************************************************)
(* An executed or cancelled proposal never pays, refunds or collects an    *)
(* approval again.                                                         *)
(***************************************************************************)
SettledIsFinal ==
    [][\A id \in ProposalIds :
         id < multiSigCount /\ ~Pending(id) => proposal'[id] = proposal[id]]_vars

(***************************************************************************)
(* timeout_multisig "prevents funds from being locked forever if signers   *)
(* abandon a proposal": every proposal is eventually executed, cancelled   *)
(* or refunded, even if no signer and no proposer ever acts again.         *)
(***************************************************************************)
NoFundsLockedForever == \A id \in ProposalIds : Pending(id) ~> ~Pending(id)

\* Obligations of the balance, and of the locked balance.
Held == INSTANCE Obligations WITH
    Ids <- ProposalIds, funds <- balance, owed <- OwedFn, asset <- AssetFn

Locked == INSTANCE Obligations WITH
    Ids <- ProposalIds, funds <- locked, owed <- OwedFn, asset <- AssetFn

(***************************************************************************)
(* Double entry: the token balance moves only together with a proposal's   *)
(* obligation, by the same amount and in its token (or by a donation).     *)
(***************************************************************************)
BalanceFollowsObligations == Held!Spec

(***************************************************************************)
(* The same of the locked balance, which no donation touches: a creation   *)
(* multisig locks what it promises, every way out unlocks exactly that.    *)
(***************************************************************************)
LockedFollowsObligations == Locked!ClosedSpec

(* Every proposal is well-formed, executed by a quorum or not at all, and   *)
(* covered by the contract's tokens while it is pending.                    *)
PaidByQuorum == TypeOK /\ ExecutedByQuorum /\ LockedIsPending

(* A deposit leaves once: balance and locked balance both move only         *)
(* together with what a proposal is owed, and a settled proposal is never   *)
(* touched again.                                                           *)
DepositsLeaveOnce ==
    BalanceFollowsObligations /\ LockedFollowsObligations /\ SettledIsFinal
=============================================================================
