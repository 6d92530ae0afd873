--------------------------------- MODULE Grants ---------------------------------
(***************************************************************************)
(* Vesting schedules (batch_send.rs), Merkle airdrops (airdrop.rs) and     *)
(* yield escrows (yield_escrow.rs, oracle.rs): three products that pay     *)
(* from the same token balance.  Vestings and airdrops lock what they owe; *)
(* yield escrows do not.  Only the rightful caller's calls are actions:    *)
(* another caller panics and changes nothing.  A Merkle root stands for    *)
(* the leaves it was built over, and a proof for membership: a leaf hashes *)
(* the airdrop's id, so the root also says which id it was built for.      *)
(***************************************************************************)
EXTENDS TokenCustody, FiniteSets, Sums

CONSTANTS
    Grantees,            \* airdrop recipients
    GrantAmounts,        \* amounts a funder may ask for
    GrantLedgers,        \* cliffs, ends, expirations and releases asked for
    Leaves,              \* sets of leaves a root may be built over
    QuotedPrices,        \* prices an oracle may quote
    PRICE_SCALE, MAX_ORACLE_AGE,
    MAX_VESTING_AMOUNT, MAX_VESTING_DURATION_LEDGERS,
    MaxGrants            \* bound of the model on grants, of all kinds together

ASSUME GrantsAssumption ==
    /\ GrantAmounts \subseteq Int /\ GrantLedgers \subseteq Nat /\ QuotedPrices \subseteq Int
    /\ PRICE_SCALE \in Nat \ {0} /\ MAX_ORACLE_AGE \in Nat /\ MaxGrants \in Nat \ {0}
    /\ {MAX_VESTING_AMOUNT, MAX_VESTING_DURATION_LEDGERS} \subseteq Nat
    /\ IsFiniteSet(Grantees)
    /\ \A s \in Leaves : s \subseteq [recipient : Grantees, amount : Int]

VARIABLES
    vestings,            \* DataKey::Vesting(id), by id; its domain is VestingCount
    airdrops,            \* DataKey::Airdrop(id) and the AirdropClaimed markers
    yields,              \* DataKey::YieldEscrow(id)
    airdropPaid,         \* history: what each recipient got from each airdrop
    yieldPaid, withdrawn,\* history: yield and emergency withdrawals paid, by token
    initiated            \* history: amounts of the emergency withdrawals initiated

grantOnlyVars == <<vestings, airdrops, yields, airdropPaid, yieldPaid, withdrawn, initiated>>
grantVars == <<custodyVars, grantOnlyVars>>

GrantIds == 0 .. MaxGrants - 1
NewId(grants) == Cardinality(DOMAIN grants)
AllGrants == NewId(vestings) + NewId(airdrops) + NewId(yields)
AddGrant(grants, g) ==
    [id \in DOMAIN grants \cup {NewId(grants)} |-> IF id \in DOMAIN grants THEN grants[id] ELSE g]

Vesting == [token : Tokens, total_amount : Nat \ {0}, cliff_ledger : Nat, end_ledger : Nat,
            claimed : Nat, revoked : BOOLEAN]
Airdrop == [token : Tokens, builtFor : GrantIds, leaves : Leaves, total_amount : Nat \ {0},
            claimed_amount : Nat, claimedBy : SUBSET Grantees, expiration_ledger : Nat,
            cancelled : BOOLEAN]
YieldEscrow == [token_a : Tokens, amount : Nat \ {0}, release_ledger : Nat,
                status : {"Pending", "Claimed", "Cancelled"}]

(* Every stored grant is a record of its type under an id below its counter. *)
GrantsTypeOK ==
    /\ CustodyTypeOK
    /\ \A g \in {DOMAIN vestings, DOMAIN airdrops, DOMAIN yields} : g \subseteq GrantIds
    /\ \A id \in DOMAIN vestings : vestings[id] \in Vesting
    /\ \A id \in DOMAIN airdrops : airdrops[id] \in Airdrop
    /\ \A id \in DOMAIN yields : yields[id] \in YieldEscrow
    /\ airdropPaid \in [GrantIds -> [Grantees -> Nat]]
    /\ {yieldPaid, withdrawn} \subseteq [Tokens -> Nat] /\ initiated \in [Tokens -> SUBSET Nat]

GrantsInit ==
    /\ CustodyInit
    /\ vestings = << >> /\ airdrops = << >> /\ yields = << >>
    /\ airdropPaid = [id \in GrantIds |-> [r \in Grantees |-> 0]]
    /\ yieldPaid = [t \in Tokens |-> 0] /\ withdrawn = [t \in Tokens |-> 0]
    /\ initiated = [t \in Tokens |-> {}]

--------------------------------------------------------------------------------
(* Vesting *)

CreateVesting(t, amount, cliff, end) ==
    /\ ~paused /\ AllGrants < MaxGrants
    /\ cliff < end /\ amount \in 1 .. MAX_VESTING_AMOUNT
    /\ end > ledger /\ end - ledger <= MAX_VESTING_DURATION_LEDGERS
    /\ TransferIn(t, amount)
    /\ IncreaseLocked(t, amount)
    /\ vestings' = AddGrant(vestings,
                     [token |-> t, total_amount |-> amount, cliff_ledger |-> cliff,
                      end_ledger |-> end, claimed |-> 0, revoked |-> FALSE])
    /\ UNCHANGED <<paused, ledger, airdrops, yields, airdropPaid, yieldPaid, withdrawn, initiated>>

\* Linear from the cliff, where nothing is vested yet, to the end.
Vested(v) ==
    LET effective == IF ledger > v.end_ledger THEN v.end_ledger ELSE ledger
    IN  IF ledger < v.cliff_ledger THEN 0
        ELSE (v.total_amount * (effective - v.cliff_ledger)) \div (v.end_ledger - v.cliff_ledger)

ClaimVesting(id) ==
    LET v == vestings[id]
        claimable == Vested(v) - v.claimed
    IN  /\ ~paused /\ ~v.revoked /\ claimable > 0
        /\ vestings' = [vestings EXCEPT ![id].claimed = @ + claimable]
        /\ DecreaseLocked(v.token, claimable)
        /\ RawTransferOut(v.token, claimable)
        /\ UNCHANGED <<paused, ledger, airdrops, yields, airdropPaid, yieldPaid, withdrawn, initiated>>

RevokeVesting_TotalFault(id) ==
    LET v == vestings[id] IN
        /\ ~paused /\ ~v.revoked
        /\ vestings' = [vestings EXCEPT ![id].revoked = TRUE]
        /\ DecreaseLocked(v.token, v.total_amount)
        /\ RawTransferOut(v.token, v.total_amount - v.claimed)
        /\ UNCHANGED <<paused, ledger, airdrops, yields, airdropPaid, yieldPaid, withdrawn, initiated>>

\* One admin signer takes back everything unclaimed, vested or not.
RevokeVesting(id) ==
    LET v == vestings[id]
        unclaimed == v.total_amount - v.claimed
    IN  /\ ~paused /\ ~v.revoked
        /\ vestings' = [vestings EXCEPT ![id].revoked = TRUE]
        /\ DecreaseLocked(v.token, unclaimed)
        /\ RawTransferOut(v.token, unclaimed)
        /\ UNCHANGED <<paused, ledger, airdrops, yields, airdropPaid, yieldPaid, withdrawn, initiated>>

--------------------------------------------------------------------------------
(* Airdrops *)

CreateAirdrop(t, builtFor, leaves, total, expiration) ==
    /\ ~paused /\ AllGrants < MaxGrants
    /\ total > 0 /\ expiration > ledger
    /\ TransferIn(t, total)
    /\ IncreaseLocked(t, total)
    /\ airdrops' = AddGrant(airdrops,
                     [token |-> t, builtFor |-> builtFor, leaves |-> leaves,
                      total_amount |-> total, claimed_amount |-> 0, claimedBy |-> {},
                      expiration_ledger |-> expiration, cancelled |-> FALSE])
    /\ UNCHANGED <<paused, ledger, vestings, yields, airdropPaid, yieldPaid, withdrawn, initiated>>

\* hash_leaf and verify_merkle_proof
VerifyMerkleProof(id, recipient, amount) ==
    /\ airdrops[id].builtFor = id
    /\ [recipient |-> recipient, amount |-> amount] \in airdrops[id].leaves

\* A recipient with several leaves may use one of them.
ClaimAirdrop(id, r, amount) ==
    LET a == airdrops[id] IN
        /\ ~paused /\ amount > 0
        /\ ~a.cancelled /\ ledger <= a.expiration_ledger /\ r \notin a.claimedBy
        /\ VerifyMerkleProof(id, r, amount)
        /\ a.claimed_amount + amount <= a.total_amount
        /\ airdrops' = [airdrops EXCEPT ![id].claimed_amount = @ + amount,
                                        ![id].claimedBy = @ \cup {r}]
        /\ DecreaseLocked(a.token, amount)
        /\ RawTransferOut(a.token, amount)
        /\ airdropPaid' = [airdropPaid EXCEPT ![id][r] = @ + amount]
        /\ UNCHANGED <<paused, ledger, vestings, yields, yieldPaid, withdrawn, initiated>>

\* The funder takes back the rest once the airdrop has expired.
CancelAirdrop(id) ==
    LET a == airdrops[id]
        unclaimed == a.total_amount - a.claimed_amount
    IN  /\ ~paused /\ ~a.cancelled /\ ledger > a.expiration_ledger
        /\ airdrops' = [airdrops EXCEPT ![id].cancelled = TRUE]
        /\ DecreaseLocked(a.token, unclaimed)
        /\ RawTransferOut(a.token, unclaimed)
        /\ UNCHANGED <<paused, ledger, vestings, yields, airdropPaid, yieldPaid, withdrawn, initiated>>

--------------------------------------------------------------------------------
(* Yield escrows *)

\* The deposit is neither locked nor mirrored in the cached balance.
CreateYieldEscrow(t, amount, release) ==
    /\ ~paused /\ AllGrants < MaxGrants
    /\ amount > 0 /\ release > ledger
    /\ balance' = [balance EXCEPT ![t] = @ + amount]
    /\ yields' = AddGrant(yields, [token_a |-> t, amount |-> amount, release_ledger |-> release,
                                   status |-> "Pending"])
    /\ UNCHANGED <<locked, cached, paused, ledger, vestings, airdrops, airdropPaid, yieldPaid,
                   withdrawn, initiated>>

\* The oracle's quote is positive, recent and not from the future.
GetSharePrice(price, quoted) ==
    price > 0 /\ quoted <= ledger /\ ledger - quoted <= MAX_ORACLE_AGE

AccruedYield(amount, price) ==
    LET value == (amount * price) \div PRICE_SCALE IN IF value > amount THEN value - amount ELSE 0

\* Anyone may claim for the beneficiary; the yield comes out of the whole balance.
ClaimYieldEscrow(id, price, quoted) ==
    LET y == yields[id]
        yield == AccruedYield(y.amount, price)
    IN  /\ ~paused /\ y.status = "Pending" /\ ledger >= y.release_ledger
        /\ GetSharePrice(price, quoted)
        /\ RawTransferOut(y.token_a, y.amount + yield)
        /\ yields' = [yields EXCEPT ![id].status = "Claimed"]
        /\ yieldPaid' = [yieldPaid EXCEPT ![y.token_a] = @ + yield]
        /\ UNCHANGED <<locked, paused, ledger, vestings, airdrops, airdropPaid, withdrawn, initiated>>

CancelYieldEscrow(id) ==
    LET y == yields[id] IN
        /\ ~paused /\ y.status = "Pending"
        /\ RawTransferOut(y.token_a, y.amount)
        /\ yields' = [yields EXCEPT ![id].status = "Cancelled"]
        /\ UNCHANGED <<locked, paused, ledger, vestings, airdrops, airdropPaid, yieldPaid, withdrawn, initiated>>

\* Emergency withdrawals (EmergencyWithdrawal models delay and approvals): the amount is
\* checked as one is initiated, by any number of withdrawals, and never again.
InitiateWithdrawal(t, amount) ==
    /\ ~paused /\ amount \in 1 .. balance[t] - locked[t]
    /\ initiated' = [initiated EXCEPT ![t] = @ \cup {amount}]
    /\ UNCHANGED <<custodyVars, vestings, airdrops, yields, airdropPaid, yieldPaid, withdrawn>>

ExecuteWithdrawal(t, amount) ==
    /\ ~paused /\ amount \in initiated[t]
    /\ TransferOut(t, amount)
    /\ withdrawn' = [withdrawn EXCEPT ![t] = @ + amount]
    /\ UNCHANGED <<locked, paused, ledger, vestings, airdrops, yields, airdropPaid, yieldPaid, initiated>>

--------------------------------------------------------------------------------
GrantsNext ==
    \/ CustodyNext /\ UNCHANGED grantOnlyVars
    \/ \E t \in Tokens, n \in GrantAmounts :
         \/ InitiateWithdrawal(t, n) \/ ExecuteWithdrawal(t, n)
         \/ \E l \in GrantLedgers :
              \/ CreateYieldEscrow(t, n, l)
              \/ \E end \in GrantLedgers : CreateVesting(t, n, l, end)
              \/ \E id \in GrantIds, s \in Leaves : CreateAirdrop(t, id, s, n, l)
    \/ \E id \in DOMAIN vestings : ClaimVesting(id) \/ RevokeVesting(id)
    \/ \E id \in DOMAIN airdrops :
         \/ CancelAirdrop(id)
         \/ \E leaf \in UNION Leaves : ClaimAirdrop(id, leaf.recipient, leaf.amount)
    \/ \E id \in DOMAIN yields :
         \/ CancelYieldEscrow(id)
         \/ \E price \in QuotedPrices, quoted \in 0 .. MaxLedger : ClaimYieldEscrow(id, price, quoted)

GrantsSpec == GrantsInit /\ [][GrantsNext]_grantVars

--------------------------------------------------------------------------------
VestingOwed(v) == IF v.revoked THEN 0 ELSE v.total_amount - v.claimed
AirdropOwed(a) == IF a.cancelled THEN 0 ELSE a.total_amount - a.claimed_amount
YieldOwed(y) == IF y.status = "Pending" THEN y.amount ELSE 0

\* What the grants of each kind owe in token t, by id.
VestingDebts(t) == [id \in GrantIds |->
    IF id \in DOMAIN vestings /\ vestings[id].token = t THEN VestingOwed(vestings[id]) ELSE 0]
AirdropDebts(t) == [id \in GrantIds |->
    IF id \in DOMAIN airdrops /\ airdrops[id].token = t THEN AirdropOwed(airdrops[id]) ELSE 0]
YieldDebts(t) == [id \in GrantIds |->
    IF id \in DOMAIN yields /\ yields[id].token_a = t THEN YieldOwed(yields[id]) ELSE 0]

(* The locked balance is exactly what vestings and airdrops still owe, after *)
(* partial claims, rounding, revocations and refunds.                        *)
LockedMatchesGrants ==
    \A t \in Tokens : locked[t] = Total(VestingDebts(t)) + Total(AirdropDebts(t))

(* What the three products owe in principal exceeds the balance by no more   *)
(* than the yield and the withdrawals paid out of it: claims, refunds and    *)
(* revocations in any order lose nothing else.  The bound is reached: yield  *)
(* comes out of other users' deposits, and yield principal is not locked.    *)
ShortfallIsBounded ==
    \A t \in Tokens :
        balance[t] + yieldPaid[t] + withdrawn[t] >= locked[t] + Total(YieldDebts(t))

(* A beneficiary never has more than the schedule has released: rounding and *)
(* claims spread over many ledgers never run ahead of it.                    *)
ClaimsFollowSchedule ==
    \A id \in DOMAIN vestings :
        LET v == vestings[id] IN
            /\ v.claimed <= v.total_amount
            /\ ledger < v.end_ledger =>
                 v.claimed * (v.end_ledger - v.cliff_ledger)
                     <= v.total_amount * (ledger - v.cliff_ledger) \/ v.claimed = 0

(* A recipient gets at most one of the leaves made out to it for that very   *)
(* airdrop, and the airdrop never pays more than it was funded with.         *)
AirdropPaysOneLeaf ==
    \A id \in DOMAIN airdrops :
        LET a == airdrops[id] IN
            /\ \A r \in Grantees : airdropPaid[id][r] > 0 =>
                 /\ a.builtFor = id
                 /\ [recipient |-> r, amount |-> airdropPaid[id][r]] \in a.leaves
            /\ Total(airdropPaid[id]) <= a.total_amount

(* Vestings, airdrops and yield escrows add up: what is locked, what is     *)
(* owed and what each beneficiary got.                                      *)
GrantsAddUp ==
    LockedMatchesGrants /\ ShortfallIsBounded /\ ClaimsFollowSchedule /\ AirdropPaysOneLeaf
================================================================================
