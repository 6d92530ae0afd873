--------------------------- MODULE CredentialProofs ---------------------------
(***************************************************************************)
(* Theorems about the credentials the backend hands out, the secrets of    *)
(* inbound webhooks (InboundSecrets) and the refresh tokens of a user      *)
(* (RefreshTokens), and about what the dashboard shows of the accounts     *)
(* they are for (WalletDashboard, BalanceHook), for every set of rotations,*)
(* clients, requests, connects and keys and every bound.  No property is   *)
(* inductive as the runs state it: what a rotation or a request read and   *)
(* has not yet acted on belongs to it, and so do the order of the loads a  *)
(* dashboard waits for and the run of the effect a poll was started by.    *)
(***************************************************************************)
EXTENDS InboundSecrets, RefreshTokens, WalletDashboard, BalanceHook, FiniteSetTheorems,
        SequenceTheorems, TLAPS

-----------------------------------------------------------------------------
(***************************************************************************)
(* Inbound secrets.  A rotation retires only secrets older than the one it *)
(* inserted, so the newest secret is as it was inserted until it is        *)
(* revoked by hand.                                                        *)
(***************************************************************************)
SecretSpec == SecretInit /\ [][SecretNext]_secretVars

FreshSecret == [active |-> TRUE, expires |-> "null"]
BornInOrder == \A j, k \in SecretIds : j <= k /\ Born(k) => Born(j)
RevokedAreInactive == \A k \in revoked : Born(k) /\ ~secrets[k].active
NewestIsFresh == \A k \in SecretIds : Newest(k) => secrets[k] = FreshSecret \/ k \in revoked
RotationsSawBorn ==
    \A r \in Rotations : rotation[r].pc \in {"insert", "retire"} => \A k \in rotation[r].old : Born(k)
RetiresOlder ==
    \A r \in Rotations : rotation[r].pc = "retire" =>
        \E n \in SecretIds : Born(n) /\ \A k \in rotation[r].old : k < n

SecretInv ==
    /\ SecretTypeOK /\ BornInOrder /\ RevokedAreInactive
    /\ NewestIsFresh /\ RotationsSawBorn /\ RetiresOlder

LEMMA SecretShapes ==
    /\ FreshSecret \in Secret
    /\ NoSecret \notin Secret
    /\ \A s \in Secret : [s EXCEPT !.expires = "ahead"] \in Secret
    /\ \A s \in Secret : [s EXCEPT !.expires = "passed"] \in Secret
    /\ \A s \in Secret : [s EXCEPT !.active = FALSE] \in Secret
    /\ [active |-> FALSE, expires |-> "passed"] \in Secret
    /\ NoSecret.active = FALSE /\ NoSecret.expires = "unborn"
BY DEF FreshSecret, Secret, NoSecret

LEMMA SecretsAtTheStart == SecretInit => SecretInv
<1> SUFFICES ASSUME SecretInit PROVE SecretInv
  OBVIOUS
<1>0. 1 \in SecretIds /\ \A k \in SecretIds : k \in Nat /\ 1 <= k
  BY SecretAssumption DEF SecretIds
<1>1. SecretTypeOK
  BY <1>0, SecretShapes DEF SecretTypeOK, SecretInit, FreshSecret
<1>2. \A k \in SecretIds : Born(k) <=> k = 1
  BY <1>0 DEF Born, SecretInit, NoSecret
<1>3. BornInOrder /\ NewestIsFresh
  BY <1>0, <1>2 DEF BornInOrder, NewestIsFresh, Newest, SecretInit, FreshSecret
<1>4. RevokedAreInactive /\ RotationsSawBorn /\ RetiresOlder
  BY DEF RevokedAreInactive, RotationsSawBorn, RetiresOlder, SecretInit, NotRotating
<1> QED
  BY <1>1, <1>3, <1>4 DEF SecretInv

LEMMA SecretTypes ==
    ASSUME SecretInv, SecretNext
    PROVE  SecretTypeOK'
<1>0. /\ SecretTypeOK /\ revoked \subseteq SecretIds
      /\ secrets \in [SecretIds -> Secret \cup {NoSecret}]
      /\ rotation \in [Rotations -> Rotating \cup {NotRotating, [pc |-> "done"]}]
  BY DEF SecretInv, SecretTypeOK
<1>1. CASE \E r \in Rotations : RetireSecrets(r)
  <2>1. PICK r \in Rotations : RetireSecrets(r)
    BY <1>1
  <2>2. rotation[r] \in Rotating
    BY <1>0, <2>1 DEF RetireSecrets, NotRotating
  <2>3. \A k \in rotation[r].old : secrets[k] \in Secret
    BY <1>0, <2>1, <2>2 DEF RetireSecrets, SecretInv, RotationsSawBorn, Born, Rotating
  <2>4. secrets' \in [SecretIds -> Secret \cup {NoSecret}]
    BY <1>0, <2>1, <2>3, SecretShapes DEF RetireSecrets
  <2> QED
    BY <1>0, <2>1, <2>4 DEF RetireSecrets, SecretTypeOK
<1>2. CASE \E r \in Rotations, grace \in BOOLEAN : StartRotation(r, grace)
  <2>1. PICK r \in Rotations, grace \in BOOLEAN : StartRotation(r, grace)
    BY <1>2
  <2>2. [pc |-> "insert", old |-> {k \in SecretIds : secrets[k].active}, grace |-> grace] \in Rotating
    BY DEF Rotating
  <2> QED
    BY <1>0, <2>1, <2>2 DEF StartRotation, SecretTypeOK
<1>3. CASE \E r \in Rotations, k \in SecretIds : CreateSecret(r, k)
  <2>1. PICK r \in Rotations, k \in SecretIds : CreateSecret(r, k)
    BY <1>3
  <2>2. [rotation[r] EXCEPT !.pc = "retire"] \in Rotating
    BY <1>0, <2>1 DEF CreateSecret, Rotating, NotRotating
  <2>3. secrets' \in [SecretIds -> Secret \cup {NoSecret}]
    BY <1>0, <2>1, SecretShapes DEF CreateSecret, FreshSecret
  <2> QED
    BY <1>0, <2>1, <2>2, <2>3 DEF CreateSecret, SecretTypeOK
<1>4. CASE \E k \in SecretIds : RevokeSecret(k)
  BY <1>0, <1>4, SecretShapes DEF RevokeSecret, SecretTypeOK
<1>5. CASE \E k \in SecretIds : GracePasses(k)
  <2>1. PICK k \in SecretIds : GracePasses(k)
    BY <1>5
  <2>2. secrets[k] \in Secret
    BY <1>0, <2>1, SecretShapes DEF GracePasses
  <2> QED
    BY <1>0, <2>1, <2>2, SecretShapes DEF GracePasses, SecretTypeOK
<1> QED
  BY <1>1, <1>2, <1>3, <1>4, <1>5 DEF SecretNext

\* Only createSecret gives birth to a secret.
LEMMA RetiringAndRevoking ==
    ASSUME SecretInv,
           \/ \E r \in Rotations : RetireSecrets(r)
           \/ \E k \in SecretIds : RevokeSecret(k) \/ GracePasses(k)
    PROVE  \A j \in SecretIds : secrets'[j] = NoSecret <=> secrets[j] = NoSecret
<1>0. secrets \in [SecretIds -> Secret \cup {NoSecret}]
  BY DEF SecretInv, SecretTypeOK
<1>1. ASSUME NEW r \in Rotations, RetireSecrets(r)
      PROVE  \A j \in SecretIds : secrets'[j] = NoSecret <=> secrets[j] = NoSecret
  <2>1. \A j \in rotation[r].old : secrets[j] # NoSecret
    BY <1>1 DEF SecretInv, RotationsSawBorn, RetireSecrets, Born
  <2>2. \A j \in SecretIds : secrets[j] = NoSecret => secrets'[j] = secrets[j]
    BY <1>0, <1>1, <2>1 DEF RetireSecrets
  <2>3. \A j \in SecretIds : secrets[j] \in Secret => secrets'[j] \in Secret
    BY <1>0, <1>1, SecretShapes DEF RetireSecrets
  <2> QED
    BY <1>0, <2>2, <2>3, SecretShapes
<1>2. ASSUME NEW k \in SecretIds, RevokeSecret(k) \/ GracePasses(k)
      PROVE  \A j \in SecretIds : secrets'[j] = NoSecret <=> secrets[j] = NoSecret
  <2>1. secrets[k] \in Secret
    BY <1>0, <1>2, SecretShapes DEF GracePasses, RevokeSecret, Born
  <2> QED
    BY <1>0, <1>2, <2>1, SecretShapes DEF GracePasses, RevokeSecret
<1> QED
  BY <1>1, <1>2

LEMMA NoBirth ==
    ASSUME SecretInv, SecretTypeOK', \A j \in SecretIds : secrets'[j] = NoSecret <=> secrets[j] = NoSecret
    PROVE  /\ BornInOrder'
           /\ \A k \in SecretIds : Born(k)' <=> Born(k)
           /\ \A k \in SecretIds : Newest(k)' <=> Newest(k)
BY DEF SecretInv, BornInOrder, Born, Newest

LEMMA SecretsRetired ==
    ASSUME SecretInv, SecretTypeOK', NEW r \in Rotations, RetireSecrets(r)
    PROVE  SecretInv'
<1>0. /\ secrets \in [SecretIds -> Secret \cup {NoSecret}]
      /\ rotation \in [Rotations -> Rotating \cup {NotRotating, [pc |-> "done"]}]
      /\ SecretIds \subseteq Nat /\ revoked \subseteq SecretIds
  BY DEF SecretInv, SecretTypeOK, SecretIds
<1>1. \A j \in SecretIds : secrets'[j] = NoSecret <=> secrets[j] = NoSecret
  BY RetiringAndRevoking
<1>2. PICK n \in SecretIds : Born(n) /\ \A k \in rotation[r].old : k < n
  BY DEF SecretInv, RetiresOlder, RetireSecrets
<1>3. rotation[r] \in Rotating /\ rotation[r].old \subseteq SecretIds
  BY <1>0 DEF RetireSecrets, NotRotating, Rotating
<1>4. \A k \in SecretIds : Newest(k) => k \notin rotation[r].old
  <2> SUFFICES ASSUME NEW k \in SecretIds, Newest(k), k \in rotation[r].old PROVE FALSE
    OBVIOUS
  <2>1. n <= k /\ k < n /\ n \in Nat /\ k \in Nat
    BY <1>0, <1>2 DEF Newest
  <2> QED
    BY <2>1
<1>5. NewestIsFresh'
  BY <1>0, <1>1, <1>4, NoBirth DEF SecretInv, NewestIsFresh, RetireSecrets
<1>6. RevokedAreInactive'
  <2> SUFFICES ASSUME NEW k \in revoked PROVE secrets'[k] # NoSecret /\ ~secrets'[k].active
    BY DEF RevokedAreInactive, Born, RetireSecrets
  <2>1. secrets[k] \in Secret /\ ~secrets[k].active
    BY <1>0 DEF SecretInv, RevokedAreInactive, Born
  <2> QED
    BY <1>0, <1>1, <2>1, SecretShapes DEF RetireSecrets, Secret
<1>7. RotationsSawBorn'
  BY <1>0, <1>1, <1>3 DEF SecretInv, RotationsSawBorn, RetireSecrets, Born, Rotating, NotRotating
<1>8. RetiresOlder'
  <2> SUFFICES ASSUME NEW q \in Rotations, rotation'[q].pc = "retire"
               PROVE  \E m \in SecretIds : secrets'[m] # NoSecret /\ \A k \in rotation'[q].old : k < m
    BY DEF RetiresOlder, Born
  <2>1. q # r /\ rotation'[q] = rotation[q]
    BY <1>0 DEF RetireSecrets
  <2> QED
    BY <1>0, <1>1, <2>1 DEF SecretInv, RetiresOlder, Born
<1> QED
  BY <1>1, <1>5, <1>6, <1>7, <1>8, NoBirth DEF SecretInv

LEMMA SecretInserted ==
    ASSUME SecretInv, SecretTypeOK', NEW r \in Rotations, NEW n \in SecretIds, CreateSecret(r, n)
    PROVE  SecretInv'
<1>0. /\ secrets \in [SecretIds -> Secret \cup {NoSecret}]
      /\ rotation \in [Rotations -> Rotating \cup {NotRotating, [pc |-> "done"]}]
      /\ SecretIds \subseteq Nat /\ revoked \subseteq SecretIds /\ UNCHANGED revoked
  BY DEF SecretInv, SecretTypeOK, SecretIds, CreateSecret
<1>1. /\ ~Born(n) /\ secrets'[n] = FreshSecret
      /\ \A k \in SecretIds \ {n} : secrets'[k] = secrets[k]
  BY <1>0 DEF CreateSecret, FreshSecret
<1>2. \A k \in SecretIds : secrets'[k] # NoSecret <=> (k = n \/ Born(k))
  BY <1>1, SecretShapes DEF Born
<1>3. \A k \in SecretIds : Born(k) <=> k < n
  <2>1. \A k \in SecretIds : k < n => k \in 1 .. n - 1
    BY <1>0 DEF SecretIds
  <2> QED
    BY <1>0, <1>1, <2>1 DEF SecretInv, BornInOrder, CreateSecret
<1>4. BornInOrder'
  BY <1>0, <1>2, <1>3 DEF BornInOrder, Born
<1>5. NewestIsFresh'
  BY <1>0, <1>1, <1>2, <1>3 DEF NewestIsFresh, Newest, Born
<1>6. RevokedAreInactive'
  BY <1>0, <1>1, <1>2 DEF SecretInv, RevokedAreInactive, Born
<1>7. /\ rotation'[r].pc = "retire" /\ rotation'[r].old = rotation[r].old
      /\ rotation[r].pc = "insert"
      /\ \A q \in Rotations \ {r} : rotation'[q] = rotation[q]
  <2>1. rotation[r] \in Rotating
    BY <1>0 DEF CreateSecret, NotRotating
  <2> QED
    BY <1>0, <2>1 DEF CreateSecret, Rotating
<1>8. \A q \in Rotations : rotation[q].pc \in {"insert", "retire"} => rotation[q].old \subseteq SecretIds
  BY <1>0 DEF Rotating, NotRotating
<1>9. RotationsSawBorn'
  BY <1>2, <1>7, <1>8 DEF SecretInv, RotationsSawBorn, Born
<1>10. RetiresOlder'
  <2> SUFFICES ASSUME NEW q \in Rotations, rotation'[q].pc = "retire"
               PROVE  \E m \in SecretIds : secrets'[m] # NoSecret /\ \A k \in rotation'[q].old : k < m
    BY DEF RetiresOlder, Born
  <2>1. CASE q = r
    <3>1. \A k \in rotation'[r].old : k \in SecretIds /\ k < n
      BY <1>3, <1>7, <1>8 DEF SecretInv, RotationsSawBorn
    <3> QED
      BY <1>2, <2>1, <3>1
  <2>2. CASE q # r
    BY <1>2, <1>7, <2>2 DEF SecretInv, RetiresOlder
  <2> QED
    BY <2>1, <2>2
<1> QED
  BY <1>4, <1>5, <1>6, <1>9, <1>10 DEF SecretInv

LEMMA SecretStep ==
    ASSUME SecretInv, [SecretNext]_secretVars
    PROVE  SecretInv'
<1>0. /\ secrets \in [SecretIds -> Secret \cup {NoSecret}]
      /\ rotation \in [Rotations -> Rotating \cup {NotRotating, [pc |-> "done"]}]
      /\ revoked \subseteq SecretIds
  BY DEF SecretInv, SecretTypeOK
<1>1. CASE UNCHANGED secretVars
  BY <1>1 DEF secretVars, SecretInv, SecretTypeOK, BornInOrder, RevokedAreInactive, NewestIsFresh,
              RotationsSawBorn, RetiresOlder, Born, Newest
<1>2. SUFFICES ASSUME SecretNext PROVE SecretInv'
  BY <1>1
<1>t. SecretTypeOK'
  BY <1>2, SecretTypes
<1>3. CASE \E r \in Rotations : RetireSecrets(r)
  BY <1>t, <1>3, SecretsRetired
<1>4. CASE \E r \in Rotations, k \in SecretIds : CreateSecret(r, k)
  BY <1>t, <1>4, SecretInserted
<1>5. CASE \E r \in Rotations, grace \in BOOLEAN : StartRotation(r, grace)
  <2>1. PICK r \in Rotations, grace \in BOOLEAN : StartRotation(r, grace)
    BY <1>5
  <2>2. /\ rotation'[r].pc = "insert" /\ rotation'[r].old = {k \in SecretIds : secrets[k].active}
        /\ \A q \in Rotations \ {r} : rotation'[q] = rotation[q]
        /\ UNCHANGED <<secrets, revoked>>
    BY <1>0, <2>1 DEF StartRotation
  <2>3. \A k \in rotation'[r].old : Born(k)
    BY <2>2, SecretShapes DEF Born
  <2>4. RotationsSawBorn' /\ RetiresOlder'
    BY <2>2, <2>3 DEF SecretInv, RotationsSawBorn, RetiresOlder, Born
  <2> QED
    BY <1>t, <2>2, <2>4 DEF SecretInv, BornInOrder, RevokedAreInactive, NewestIsFresh, Born, Newest
<1>6. CASE \E k \in SecretIds : RevokeSecret(k) \/ GracePasses(k)
  <2>1. PICK k \in SecretIds : RevokeSecret(k) \/ GracePasses(k)
    BY <1>6
  <2>2. \A j \in SecretIds : secrets'[j] = NoSecret <=> secrets[j] = NoSecret
    BY <1>6, RetiringAndRevoking
  <2>3. UNCHANGED rotation
    BY <2>1 DEF RevokeSecret, GracePasses
  <2>4. RotationsSawBorn' /\ RetiresOlder'
    BY <1>0, <2>2, <2>3 DEF SecretInv, RotationsSawBorn, RetiresOlder, Born, Rotating, NotRotating
  <2>5. \A j \in SecretIds : secrets[j] \in Secret /\ ~secrets[j].active => ~secrets'[j].active
    BY <1>0, <2>1 DEF RevokeSecret, GracePasses, Secret
  <2>6. RevokedAreInactive'
    <3>1. \A j \in revoked' : j \in revoked \/ (j = k /\ RevokeSecret(k))
      BY <2>1 DEF RevokeSecret, GracePasses
    <3>2. RevokeSecret(k) => Born(k) /\ ~secrets'[k].active
      BY <1>0 DEF RevokeSecret
    <3>3. \A j \in revoked' : Born(j) /\ ~secrets'[j].active
      BY <1>0, <2>5, <3>1, <3>2 DEF SecretInv, RevokedAreInactive, Born
    <3>4. revoked' \subseteq SecretIds
      BY <1>t DEF SecretTypeOK
    <3> QED
      BY <2>2, <3>3, <3>4 DEF RevokedAreInactive, Born
  <2>7. NewestIsFresh'
    <3>1. \A j \in SecretIds : j # k => secrets'[j] = secrets[j]
      BY <1>0, <2>1 DEF RevokeSecret, GracePasses
    <3>2. Newest(k) => k \in revoked'
      BY <2>1 DEF SecretInv, NewestIsFresh, FreshSecret, RevokeSecret, GracePasses
    <3>3. revoked \subseteq revoked'
      BY <2>1 DEF RevokeSecret, GracePasses
    <3> QED
      BY <1>t, <2>2, <3>1, <3>2, <3>3, NoBirth DEF SecretInv, NewestIsFresh
  <2> QED
    BY <1>t, <2>2, <2>4, <2>6, <2>7, NoBirth DEF SecretInv
<1> QED
  BY <1>2, <1>3, <1>4, <1>5, <1>6 DEF SecretNext

(* An endpoint can always be verified with its newest secret, and never    *)
(* with one that was revoked, whatever rotations overlap or die half-way.  *)
THEOREM SecretsStayUsable == SecretSpec => []SecretsAreUsable
<1>1. SecretInv => SecretsAreUsable
  BY DEF SecretInv, NewestIsFresh, FreshSecret, RevokedAreInactive, SecretsAreUsable, NewestSecretIsValid,
         RevokedStaysRevoked, Valid
<1> QED
  BY <1>1, SecretsAtTheStart, SecretStep, PTL DEF SecretSpec

-----------------------------------------------------------------------------
(***************************************************************************)
(* Refresh tokens.  A token belongs to one client for good; while no       *)
(* client overlaps its requests, at most one of them is between reading    *)
(* its token and answering, so nobody else can mark or replace the token   *)
(* it read; and while nothing at all disturbs the clients, the cookie of   *)
(* one that is not refreshing holds a token that was not used up.          *)
(***************************************************************************)
TokenSpec == TokenInit /\ [][TokenNext]_tokenVars

Issued(n) == n \in TokenIds /\ tokens[n] # NoToken
Usable(n) == tokens[n].status \in {"live", "expired"}
InFlight(q) == refreshReq[q] # NoReq
Between(q) == refreshReq[q].pc \in {"mark", "issue"}
\* A client has a token in its cookie or in a request.
Holds(c, n) ==
    \/ jar[c] = n
    \/ \E q \in RefreshCalls : /\ InFlight(q) /\ refreshReq[q].client = c
                               /\ n \in {refreshReq[q].old, refreshReq[q].new}

HeldWasIssued == \A c \in TokenClients, n \in TokenIds : Holds(c, n) => Issued(n)
HeldByOne == \A c, d \in TokenClients, n \in TokenIds : Holds(c, n) /\ Holds(d, n) => c = d
NewIsAnswered == \A q \in RefreshCalls : InFlight(q) /\ refreshReq[q].pc # "answer" => refreshReq[q].new = 0
\* A token is used up before its successor is made.
ReplacedIsSpent ==
    /\ \A n \in TokenIds : Issued(n) /\ tokens[n].parent # 0 =>
         Issued(tokens[n].parent) /\ ~Usable(tokens[n].parent)
    /\ \A q \in RefreshCalls : refreshReq[q].pc = "issue" => ~Usable(refreshReq[q].old)
OneRequest ==
    \A p, q \in RefreshCalls :
        InFlight(p) /\ InFlight(q) /\ refreshReq[p].client = refreshReq[q].client => p = q
OneSuccessor ==
    /\ \A q \in RefreshCalls, n \in TokenIds :
         Between(q) /\ Issued(n) => tokens[n].parent # refreshReq[q].old
    /\ \A m, n \in TokenIds :
         Issued(m) /\ Issued(n) /\ tokens[m].parent # 0 /\ tokens[m].parent = tokens[n].parent => m = n
Undisturbed ==
    /\ \A n \in TokenIds : tokens[n].status # "reuse"
    /\ \A q \in RefreshCalls :
         /\ refreshReq[q].pc # "reuse"
         /\ refreshReq[q].pc \in {"read", "mark"} => Usable(refreshReq[q].old)
         /\ InFlight(q) /\ refreshReq[q].new # 0 => Usable(refreshReq[q].new)
    /\ \A c \in TokenClients : jar[c] # 0 /\ ~Usable(jar[c]) =>
         \E q \in RefreshCalls : /\ InFlight(q) /\ refreshReq[q].client = c
                                /\ refreshReq[q].pc \in {"issue", "answer"}
OfThisEpoch ==
    /\ \A n \in TokenIds : tokens[n].status = "live" => tokens[n].epoch = epoch
    /\ \A q \in RefreshCalls : Between(q) => refreshReq[q].epoch = epoch

TokenInv ==
    /\ TokenTypeOK /\ HeldWasIssued /\ HeldByOne /\ NewIsAnswered /\ ReplacedIsSpent
    /\ "overlap" \notin tangled => OneRequest /\ OneSuccessor
    /\ tangled = {} /\ ~told => Undisturbed
    /\ ~straddled => OfThisEpoch

LEMMA TokensAtTheStart == TokenInit => TokenInv
<1> SUFFICES ASSUME TokenInit PROVE TokenInv
  OBVIOUS
<1>1. /\ 0 \in 0 .. MaxLogouts /\ 0 \in 0 .. MaxTokens /\ 0 \in 0 .. MaxTokenFaults
      /\ \A n \in TokenIds : n # 0
  BY TokenAssumption DEF TokenIds
<1>2. TokenTypeOK
  BY <1>1 DEF TokenInit, TokenTypeOK
<1>3. /\ \A n \in TokenIds : ~Issued(n) /\ tokens[n].status = "none"
      /\ \A q \in RefreshCalls : ~InFlight(q) /\ refreshReq[q].pc = "idle"
      /\ \A c \in TokenClients : jar[c] = 0
  BY DEF TokenInit, Issued, InFlight, NoToken, NoReq
<1>4. HeldWasIssued /\ HeldByOne /\ NewIsAnswered /\ ReplacedIsSpent
  BY <1>1, <1>3 DEF HeldWasIssued, HeldByOne, NewIsAnswered, ReplacedIsSpent, Holds
<1>5. OneRequest /\ OneSuccessor /\ Undisturbed /\ OfThisEpoch
  BY <1>3 DEF OneRequest, OneSuccessor, Undisturbed, OfThisEpoch, Between
<1> QED
  BY <1>2, <1>4, <1>5 DEF TokenInv

Marked(t, by) == [t EXCEPT !.status = by]

LEMMA TokenShapes ==
    /\ NoToken \notin Token /\ NoToken.status = "none"
    /\ NoReq \notin RefreshReq /\ NoReq.pc = "idle"
    /\ \A t \in Token, by \in {"live", "expired", "revoked", "reuse"} :
         /\ Marked(t, by) \in Token /\ Marked(t, by).status = by
         /\ Marked(t, by).parent = t.parent /\ Marked(t, by).epoch = t.epoch
    /\ \A t \in Token : t.status \in {"live", "expired", "revoked", "reuse"}
<1>1. ASSUME NEW t \in Token, NEW by \in {"live", "expired", "revoked", "reuse"}
      PROVE  /\ Marked(t, by) \in Token /\ Marked(t, by).status = by
             /\ Marked(t, by).parent = t.parent /\ Marked(t, by).epoch = t.epoch
  BY DEF Token, Marked
<1>2. NoReq \notin RefreshReq /\ NoToken \notin Token
  BY DEF NoReq, RefreshReq, NoToken, Token
<1>3. \A t \in Token : t.status \in {"live", "expired", "revoked", "reuse"}
  BY DEF Token
<1> QED
  BY <1>1, <1>2, <1>3 DEF NoToken, NoReq

LEMMA TokenFacts ==
    ASSUME TokenTypeOK
    PROVE  /\ tokens \in [TokenIds -> Token \cup {NoToken}]
           /\ jar \in [TokenClients -> 0 .. MaxTokens]
           /\ refreshReq \in [RefreshCalls -> RefreshReq \cup {NoReq}]
           /\ TokenIds \subseteq 0 .. MaxTokens /\ 0 \notin TokenIds
           /\ \A k \in 0 .. MaxTokens : k # 0 => k \in TokenIds
BY TokenAssumption DEF TokenTypeOK, TokenIds

\* A request goes on, and no other request is touched.
Goes(q, pc) ==
    /\ refreshReq[q] \in RefreshReq /\ refreshReq'[q] \in RefreshReq
    /\ refreshReq'[q].pc = pc /\ refreshReq'[q].client = refreshReq[q].client
    /\ refreshReq'[q].old = refreshReq[q].old
    /\ refreshReq' \in [RefreshCalls -> RefreshReq \cup {NoReq}]
    /\ \A p \in RefreshCalls \ {q} : refreshReq'[p] = refreshReq[p]
Ends(q) ==
    /\ refreshReq[q] \in RefreshReq /\ refreshReq'[q] = NoReq
    /\ refreshReq' \in [RefreshCalls -> RefreshReq \cup {NoReq}]
    /\ \A p \in RefreshCalls \ {q} : refreshReq'[p] = refreshReq[p]

\* Tokens are marked, and none is made or comes to life again.
StatusesChange ==
    /\ tokens' \in [TokenIds -> Token \cup {NoToken}]
    /\ \A n \in TokenIds :
         /\ tokens'[n] = NoToken <=> tokens[n] = NoToken
         /\ tokens'[n].parent = tokens[n].parent /\ tokens'[n].epoch = tokens[n].epoch
         /\ tokens'[n].status \in {"live", "expired"} => Usable(n)
         /\ tokens'[n].status = "live" => tokens[n].status = "live"

MarksOld(q) ==
    /\ StatusesChange
    /\ tokens'[refreshReq[q].old].status = "revoked"
    /\ \A n \in TokenIds : n # refreshReq[q].old => tokens'[n] = tokens[n]

LEMMA MarkingOneToken ==
    ASSUME TokenTypeOK, NEW n \in TokenIds, Issued(n), NEW by \in {"revoked", "reuse"},
           tokens' = [tokens EXCEPT ![n].status = by]
    PROVE  /\ StatusesChange /\ tokens'[n].status = by
           /\ \A k \in TokenIds : k # n => tokens'[k] = tokens[k]
<1>1. tokens[n] \in Token
  BY TokenFacts DEF Issued
<1>2. /\ tokens'[n] \in Token /\ tokens'[n].status = by
      /\ tokens'[n].parent = tokens[n].parent /\ tokens'[n].epoch = tokens[n].epoch
  <2>1. tokens'[n] = Marked(tokens[n], by)
    BY TokenFacts DEF Marked
  <2> QED
    BY <1>1, <2>1, TokenShapes
<1>3. \A k \in TokenIds : k # n => tokens'[k] = tokens[k]
  BY TokenFacts
<1>4. tokens' \in [TokenIds -> Token \cup {NoToken}]
  BY <1>1, <1>2, TokenFacts, TokenShapes
<1> QED
  BY <1>1, <1>2, <1>3, <1>4, TokenShapes DEF StatusesChange, Usable

LEMMA MarkingAllTokens ==
    ASSUME TokenTypeOK, NEW by \in {"revoked", "reuse"},
           \/ tokens' = AllRevoked(by)
           \/ tokens' = [n \in TokenIds |->
                IF Known(n) /\ tokens[n].status \in {"live", "expired"}
                THEN [tokens[n] EXCEPT !.status = by] ELSE tokens[n]]
    PROVE  StatusesChange
<1> DEFINE S == IF tokens' = AllRevoked(by) THEN {n \in TokenIds : Known(n)}
                ELSE {n \in TokenIds : Known(n) /\ tokens[n].status \in {"live", "expired"}}
           U(n) == IF n \in S THEN Marked(tokens[n], by) ELSE tokens[n]
<1>1. tokens' = [n \in TokenIds |-> U(n)]
  <2>1. CASE tokens' = AllRevoked(by)
    <3>1. AllRevoked(by) = [n \in TokenIds |-> U(n)]
      BY <2>1 DEF AllRevoked, Marked
    <3> QED
      BY <2>1, <3>1
  <2>2. CASE tokens' # AllRevoked(by)
    BY <2>2 DEF Marked
  <2> QED
    BY <2>1, <2>2
<1>2. \A n \in TokenIds : tokens[n] \in Token \cup {NoToken} /\ (n \in S => tokens[n] \in Token)
  BY TokenFacts DEF Known
<1> HIDE DEF S
<1>3. \A n \in TokenIds : U(n) \in Token \cup {NoToken}
  BY <1>2, TokenShapes
<1>4. tokens' \in [TokenIds -> Token \cup {NoToken}] /\ \A n \in TokenIds : tokens'[n] = U(n)
  <2> HIDE DEF U
  <2> QED
    BY <1>1, <1>3
<1> QED
  BY <1>2, <1>4, TokenShapes DEF StatusesChange, Usable

\* What rotateRefreshToken makes of the row it read.
LEMMA ReadingAToken ==
    ASSUME TokenInv, NEW q \in RefreshCalls, RotateRead(q)
    PROVE  LET old == refreshReq[q].old IN
           /\ refreshReq[q].pc = "read" /\ Issued(old)
           /\ refreshReq'[q].new = refreshReq[q].new /\ refreshReq'[q].epoch = epoch
           /\ UNCHANGED <<store, jar, epoch, told, tangled, tokenFaults>>
           /\ \/ Goes(q, "answer") /\ UNCHANGED <<tokens, straddled>>
              \/ Goes(q, "reuse") /\ UNCHANGED <<tokens, straddled>> /\ ~Usable(old)
              \/ Goes(q, "mark") /\ UNCHANGED <<tokens, straddled>> /\ tokens[old].status = "live"
              \/ Goes(q, "issue") /\ MarksOld(q) /\ UNCHANGED straddled /\ tokens[old].status = "live"
              \/ /\ Goes(q, "answer") /\ StatusesChange /\ ~Usable(old)
                 /\ straddled' = (straddled \/ MidRotation)
<1> DEFINE r == refreshReq[q]
           t == tokens[r.old]
           next == IF ~Known(r.old) \/ t.status = "expired" THEN "answer"
                   ELSE IF t.status # "live" THEN "reuse" ELSE "mark"
           inMemory == store = "memory" /\ next \in {"reuse", "mark"}
           pc == IF ~inMemory THEN next ELSE IF next = "reuse" THEN "answer" ELSE "issue"
<1>0. TokenTypeOK /\ epoch \in 0 .. MaxLogouts
  BY DEF TokenInv, TokenTypeOK
<1>1. /\ r.pc = "read"
      /\ refreshReq' = [refreshReq EXCEPT ![q] = [@ EXCEPT !.epoch = epoch, !.pc = pc]]
      /\ tokens' = IF ~inMemory THEN tokens
                   ELSE IF next = "reuse" THEN AllRevoked("reuse")
                   ELSE [tokens EXCEPT ![r.old].status = "revoked"]
      /\ straddled' = (straddled \/ (inMemory /\ next = "reuse" /\ MidRotation))
      /\ UNCHANGED <<store, jar, epoch, told, tangled, tokenFaults>>
  BY DEF RotateRead
<1>2. r \in RefreshReq /\ r.old \in TokenIds /\ r.client \in TokenClients
  BY <1>0, <1>1, TokenFacts, TokenShapes DEF RefreshReq
<1>3. Issued(r.old)
  BY <1>1, <1>2, TokenShapes DEF TokenInv, HeldWasIssued, Holds, InFlight
<1>4. pc \in {"read", "reuse", "mark", "issue", "answer"}
  OBVIOUS
<1>5. /\ refreshReq'[q] \in RefreshReq /\ refreshReq'[q].pc = pc /\ refreshReq'[q].client = r.client
      /\ refreshReq'[q].old = r.old /\ refreshReq'[q].new = r.new /\ refreshReq'[q].epoch = epoch
  <2> HIDE DEF pc
  <2> QED
    BY <1>0, <1>1, <1>2, <1>4, TokenFacts DEF RefreshReq
<1>6. Goes(q, pc)
  <2> HIDE DEF pc
  <2> QED
    BY <1>0, <1>1, <1>2, <1>5, TokenFacts DEF Goes
<1>7. t \in Token /\ t.status \in {"live", "expired", "revoked", "reuse"}
  BY <1>0, <1>2, <1>3, TokenFacts, TokenShapes DEF Issued
<1>8. CASE ~inMemory
  <2>1. UNCHANGED <<tokens, straddled>> /\ pc = next
    BY <1>1, <1>8 DEF TokenTypeOK, TokenInv
  <2>2. \/ next = "answer"
        \/ next = "reuse" /\ ~Usable(r.old)
        \/ next = "mark" /\ t.status = "live"
    BY <1>7 DEF Usable
  <2> HIDE DEF pc, next
  <2> QED
    BY <1>1, <1>3, <1>5, <1>6, <2>1, <2>2
<1>9. CASE inMemory /\ next = "reuse"
  <2>1. tokens' = AllRevoked("reuse") /\ pc = "answer" /\ straddled' = (straddled \/ MidRotation)
    BY <1>1, <1>9
  <2>2. StatusesChange
    BY <1>0, <2>1, MarkingAllTokens
  <2>3. ~Usable(r.old)
    BY <1>7, <1>9 DEF Usable
  <2> HIDE DEF pc, next, inMemory
  <2> QED
    BY <1>1, <1>3, <1>5, <1>6, <2>1, <2>2, <2>3
<1>10. CASE inMemory /\ next # "reuse"
  <2>1. /\ tokens' = [tokens EXCEPT ![r.old].status = "revoked"] /\ pc = "issue"
        /\ straddled' = straddled /\ t.status = "live"
    BY <1>1, <1>7, <1>10 DEF TokenTypeOK, TokenInv
  <2>2. MarksOld(q)
    BY <1>0, <1>2, <1>3, <2>1, MarkingOneToken DEF MarksOld
  <2> HIDE DEF pc, next, inMemory
  <2> QED
    BY <1>1, <1>3, <1>5, <1>6, <2>1, <2>2
<1> QED
  BY <1>8, <1>9, <1>10

\* A token is made, and the others stay as they are.
Makes(n, parent, e) ==
    /\ ~Issued(n) /\ tokens' \in [TokenIds -> Token \cup {NoToken}]
    /\ tokens'[n] \in Token /\ tokens'[n].status = "live"
    /\ tokens'[n].parent = parent /\ tokens'[n].epoch = e
    /\ \A k \in TokenIds : k # n => tokens'[k] = tokens[k]

LEMMA MakingAToken ==
    ASSUME TokenInv, NEW n \in TokenIds, NewToken(n),
           NEW parent \in 0 .. MaxTokens, NEW e \in 0 .. MaxLogouts,
           tokens' = [tokens EXCEPT ![n] =
             [status |-> "live", store |-> store, parent |-> parent, epoch |-> e]]
    PROVE  Makes(n, parent, e)
<1> DEFINE t == [status |-> "live", store |-> store, parent |-> parent, epoch |-> e]
<1>1. t \in Token /\ t.status = "live" /\ t.parent = parent /\ t.epoch = e
  BY DEF TokenInv, TokenTypeOK, Token
<1>2. TokenTypeOK /\ ~Issued(n)
  BY DEF TokenInv, NewToken, FreeTokens, Issued
<1>3. tokens' = [tokens EXCEPT ![n] = t]
  OBVIOUS
<1> HIDE DEF t
<1> QED
  BY <1>1, <1>2, <1>3, TokenFacts DEF Makes

\* What a request that read its token does next.
LEMMA RotatingAToken ==
    ASSUME TokenInv, NEW q \in RefreshCalls
    PROVE  /\ RotateReuse(q) =>
                /\ refreshReq[q].pc = "reuse" /\ Goes(q, "answer") /\ StatusesChange
                /\ refreshReq'[q].new = refreshReq[q].new
                /\ straddled' = (straddled \/ MidRotation)
           /\ RotateMark(q) =>
                /\ refreshReq[q].pc = "mark" /\ Goes(q, "issue") /\ MarksOld(q)
                /\ refreshReq'[q].new = refreshReq[q].new /\ refreshReq'[q].epoch = refreshReq[q].epoch
           /\ \A n \in TokenIds : RotateIssue(q, n) =>
                /\ refreshReq[q].pc = "issue" /\ Goes(q, "answer") /\ refreshReq'[q].new = n
                /\ Makes(n, refreshReq[q].old, refreshReq[q].epoch)
           /\ RotateFails(q) \/ RefreshAnswered(q) \/ ResponseLost(q) => Ends(q)
<1>0. TokenTypeOK
  BY DEF TokenInv
<1>1. ASSUME refreshReq[q].pc \in {"read", "reuse", "mark", "issue", "answer"}
      PROVE  /\ refreshReq[q] \in RefreshReq /\ refreshReq[q].old \in TokenIds
             /\ Issued(refreshReq[q].old)
             /\ refreshReq[q].epoch \in 0 .. MaxLogouts
             /\ \A pc \in {"read", "reuse", "mark", "issue", "answer"} :
                  refreshReq' = [refreshReq EXCEPT ![q].pc = pc] =>
                    /\ Goes(q, pc) /\ refreshReq'[q].new = refreshReq[q].new
                    /\ refreshReq'[q].epoch = refreshReq[q].epoch
             /\ refreshReq' = [refreshReq EXCEPT ![q] = NoReq] => Ends(q)
  <2>1. refreshReq[q] \in RefreshReq
    BY <1>0, <1>1, TokenFacts, TokenShapes
  <2>2. /\ refreshReq[q].old \in TokenIds /\ refreshReq[q].client \in TokenClients
        /\ refreshReq[q].epoch \in 0 .. MaxLogouts
    BY <2>1 DEF RefreshReq
  <2>3. Issued(refreshReq[q].old)
    BY <2>1, <2>2, TokenShapes DEF TokenInv, HeldWasIssued, Holds, InFlight
  <2>4. ASSUME NEW pc \in {"read", "reuse", "mark", "issue", "answer"},
               refreshReq' = [refreshReq EXCEPT ![q].pc = pc]
        PROVE  /\ Goes(q, pc) /\ refreshReq'[q].new = refreshReq[q].new
               /\ refreshReq'[q].epoch = refreshReq[q].epoch
    <3> DEFINE r == [refreshReq[q] EXCEPT !.pc = pc]
    <3>1. refreshReq' = [refreshReq EXCEPT ![q] = r]
      BY <2>4
    <3>2. /\ r \in RefreshReq /\ r.pc = pc /\ r.client = refreshReq[q].client
          /\ r.old = refreshReq[q].old /\ r.new = refreshReq[q].new
          /\ r.epoch = refreshReq[q].epoch
      BY <2>1 DEF RefreshReq
    <3> HIDE DEF r
    <3> QED
      BY <1>0, <2>1, <3>1, <3>2, TokenFacts DEF Goes
  <2>5. ASSUME refreshReq' = [refreshReq EXCEPT ![q] = NoReq] PROVE Ends(q)
    BY <1>0, <2>1, <2>5, TokenFacts DEF Ends
  <2> QED
    BY <2>1, <2>2, <2>3, <2>4, <2>5
<1>2. ASSUME RotateReuse(q)
      PROVE  /\ refreshReq[q].pc = "reuse" /\ Goes(q, "answer") /\ StatusesChange
             /\ refreshReq'[q].new = refreshReq[q].new
             /\ straddled' = (straddled \/ MidRotation)
  BY <1>0, <1>1, <1>2, MarkingAllTokens DEF RotateReuse
<1>3. ASSUME RotateMark(q)
      PROVE  /\ refreshReq[q].pc = "mark" /\ Goes(q, "issue") /\ MarksOld(q)
             /\ refreshReq'[q].new = refreshReq[q].new /\ refreshReq'[q].epoch = refreshReq[q].epoch
  BY <1>0, <1>1, <1>3, MarkingOneToken DEF RotateMark, MarksOld
<1>4. ASSUME NEW n \in TokenIds, RotateIssue(q, n)
      PROVE  /\ refreshReq[q].pc = "issue" /\ Goes(q, "answer") /\ refreshReq'[q].new = n
             /\ Makes(n, refreshReq[q].old, refreshReq[q].epoch)
  <2>1. /\ refreshReq[q].pc = "issue" /\ refreshReq[q] \in RefreshReq
        /\ refreshReq[q].old \in TokenIds /\ refreshReq[q].epoch \in 0 .. MaxLogouts
    BY <1>1, <1>4 DEF RotateIssue
  <2>2. Makes(n, refreshReq[q].old, refreshReq[q].epoch)
    BY <1>0, <1>4, <2>1, MakingAToken, TokenFacts DEF RotateIssue
  <2> DEFINE r == [refreshReq[q] EXCEPT !.pc = "answer", !.new = n]
  <2>3. refreshReq' = [refreshReq EXCEPT ![q] = r]
    BY <1>4 DEF RotateIssue
  <2>4. /\ r \in RefreshReq /\ r.pc = "answer" /\ r.client = refreshReq[q].client
        /\ r.old = refreshReq[q].old /\ r.new = n
    BY <1>0, <2>1, TokenFacts DEF RefreshReq
  <2> HIDE DEF r
  <2> QED
    BY <1>0, <2>1, <2>2, <2>3, <2>4, TokenFacts DEF Goes
<1>5. RotateFails(q) \/ RefreshAnswered(q) \/ ResponseLost(q) => Ends(q)
  BY <1>1 DEF RotateFails, RefreshAnswered, ResponseLost
<1> QED
  BY <1>2, <1>3, <1>4, <1>5

\* What the other steps do to the tokens.
LEMMA OtherTokenSteps ==
    ASSUME TokenInv
    PROVE  /\ \A c \in TokenClients, n \in TokenIds : Login(c, n) => Makes(n, 0, epoch)
           /\ \A c \in TokenClients : RevokeOwn(c) =>
                /\ StatusesChange
                /\ \A n \in TokenIds : n # jar[c] => tokens'[n] = tokens[n]
                /\ \A n \in TokenIds : tokens'[n].status = "reuse" => tokens[n].status = "reuse"
           /\ \A n \in TokenIds : RevokeSessionById(n) => StatusesChange
           /\ \A c \in TokenClients : RevokeAllUserTokens(c) => StatusesChange
           /\ \A n \in TokenIds : TokenExpires(n) =>
                /\ StatusesChange /\ Usable(n) /\ tokens'[n].status = "expired"
                /\ \A k \in TokenIds : k # n => tokens'[k] = tokens[k]
<1>0. TokenTypeOK
  BY DEF TokenInv
<1>1. ASSUME NEW c \in TokenClients, NEW n \in TokenIds, Login(c, n)
      PROVE  Makes(n, 0, epoch)
  <2>1. 0 \in 0 .. MaxTokens /\ epoch \in 0 .. MaxLogouts
    BY <1>0, TokenAssumption DEF TokenTypeOK
  <2> QED
    BY <1>1, <2>1, MakingAToken DEF Login
<1>2. ASSUME NEW c \in TokenClients, RevokeOwn(c)
      PROVE  /\ StatusesChange
             /\ \A n \in TokenIds : n # jar[c] => tokens'[n] = tokens[n]
             /\ \A n \in TokenIds : tokens'[n].status = "reuse" => tokens[n].status = "reuse"
  <2>1. jar[c] \in TokenIds
    BY <1>0, <1>2, TokenFacts DEF RevokeOwn
  <2>2. CASE Known(jar[c])
    <3>1. tokens' = [tokens EXCEPT ![jar[c]].status = "revoked"]
      BY <1>2, <2>2 DEF RevokeOwn
    <3>2. Issued(jar[c])
      BY <2>1, <2>2 DEF Known, Issued
    <3> QED
      BY <1>0, <2>1, <3>1, <3>2, MarkingOneToken
  <2>3. CASE ~Known(jar[c])
    <3>1. UNCHANGED tokens
      BY <1>0, <1>2, <2>1, <2>3, TokenFacts DEF RevokeOwn
    <3> QED
      BY <1>0, <3>1, TokenFacts DEF StatusesChange, Usable
  <2> QED
    BY <2>2, <2>3
<1>3. ASSUME NEW n \in TokenIds, RevokeSessionById(n) PROVE StatusesChange
  BY <1>0, <1>3, MarkingOneToken DEF RevokeSessionById, Known, Issued
<1>4. ASSUME NEW c \in TokenClients, RevokeAllUserTokens(c) PROVE StatusesChange
  BY <1>0, <1>4, MarkingAllTokens DEF RevokeAllUserTokens
<1>5. ASSUME NEW n \in TokenIds, TokenExpires(n)
      PROVE  /\ StatusesChange /\ Usable(n) /\ tokens'[n].status = "expired"
             /\ \A k \in TokenIds : k # n => tokens'[k] = tokens[k]
  <2>1. tokens[n] \in Token /\ Usable(n)
    BY <1>0, <1>5, TokenFacts, TokenShapes DEF TokenExpires, Usable
  <2>2. tokens'[n] = Marked(tokens[n], "expired") /\ \A k \in TokenIds : k # n => tokens'[k] = tokens[k]
    BY <1>0, <1>5, TokenFacts DEF TokenExpires, Marked
  <2>3. Marked(tokens[n], "expired") \in Token /\ Marked(tokens[n], "expired").status = "expired"
    BY <2>1, TokenShapes
  <2>4. tokens' \in [TokenIds -> Token \cup {NoToken}]
    BY <1>0, <1>5, <2>2, <2>3, TokenFacts DEF TokenExpires
  <2> QED
    BY <1>0, <2>1, <2>2, <2>3, <2>4, TokenFacts, TokenShapes DEF StatusesChange, Usable
<1> QED
  BY <1>1, <1>2, <1>3, <1>4, <1>5

LEMMA TokenTypesKept ==
    ASSUME TokenInv, TokenNext
    PROVE  TokenTypeOK'
<1>0. /\ TokenTypeOK /\ store \in {"db", "memory"} /\ epoch \in 0 .. MaxLogouts
      /\ tokenFaults \in 0 .. MaxTokenFaults /\ tangled \subseteq {"overlap", "lost"}
      /\ told \in BOOLEAN /\ straddled \in BOOLEAN
  BY DEF TokenInv, TokenTypeOK
<1>1. /\ MidRotation \in BOOLEAN
      /\ \A c \in TokenClients : Overlaps(c) \subseteq {"overlap", "lost"}
      /\ \A n \in TokenIds : \A parent, e : Makes(n, parent, e) => tokens' \in [TokenIds -> Token \cup {NoToken}]
      /\ StatusesChange => tokens' \in [TokenIds -> Token \cup {NoToken}]
      /\ TokenFault => tokenFaults' \in 0 .. MaxTokenFaults
  BY <1>0, TokenAssumption DEF MidRotation, Overlaps, Makes, StatusesChange, TokenFault
<1>2. ASSUME NEW c \in TokenClients, NEW n \in TokenIds, Login(c, n) PROVE TokenTypeOK'
  BY <1>0, <1>1, <1>2, TokenFacts, OtherTokenSteps DEF Login, TokenTypeOK
<1>3. ASSUME NEW q \in RefreshCalls, NEW c \in TokenClients, StartRefresh(q, c) PROVE TokenTypeOK'
  <2>1. [pc |-> "read", client |-> c, old |-> jar[c], new |-> 0, epoch |-> 0] \in RefreshReq
    BY <1>0, <1>3, TokenFacts, TokenAssumption DEF StartRefresh, RefreshReq
  <2> QED
    BY <1>0, <1>1, <1>3, <2>1, TokenFacts DEF StartRefresh, TokenTypeOK
<1>4. ASSUME NEW q \in RefreshCalls, RotateRead(q) PROVE TokenTypeOK'
  <2>1. /\ refreshReq' \in [RefreshCalls -> RefreshReq \cup {NoReq}]
        /\ tokens' \in [TokenIds -> Token \cup {NoToken}] /\ straddled' \in BOOLEAN
    BY <1>0, <1>1, <1>4, ReadingAToken, TokenFacts DEF Goes, MarksOld
  <2> QED
    BY <1>0, <1>4, <2>1 DEF RotateRead, TokenTypeOK
<1>5. ASSUME NEW q \in RefreshCalls, RotateReuse(q) PROVE TokenTypeOK'
  BY <1>0, <1>1, <1>5, RotatingAToken DEF RotateReuse, Goes, TokenTypeOK
<1>6. ASSUME NEW q \in RefreshCalls, RotateMark(q) PROVE TokenTypeOK'
  BY <1>0, <1>1, <1>6, RotatingAToken DEF RotateMark, Goes, MarksOld, TokenTypeOK
<1>7. ASSUME NEW q \in RefreshCalls, NEW n \in TokenIds, RotateIssue(q, n) PROVE TokenTypeOK'
  BY <1>0, <1>1, <1>7, RotatingAToken DEF RotateIssue, Goes, TokenTypeOK
<1>8. ASSUME NEW q \in RefreshCalls, RotateFails(q) \/ ResponseLost(q) PROVE TokenTypeOK'
  BY <1>0, <1>1, <1>8, RotatingAToken DEF RotateFails, ResponseLost, Ends, TokenTypeOK
<1>9. ASSUME NEW q \in RefreshCalls, RefreshAnswered(q) PROVE TokenTypeOK'
  <2>1. Ends(q) /\ refreshReq[q].new \in 0 .. MaxTokens
    BY <1>9, RotatingAToken DEF Ends, RefreshReq
  <2> QED
    BY <1>0, <1>9, <2>1, TokenFacts DEF RefreshAnswered, Ends, TokenTypeOK
<1>10. ASSUME NEW c \in TokenClients, RevokeOwn(c) \/ RevokeAllUserTokens(c) PROVE TokenTypeOK'
  <2>1. /\ tokens' \in [TokenIds -> Token \cup {NoToken}]
        /\ jar' \in [TokenClients -> 0 .. MaxTokens]
    <3>1. StatusesChange
      BY <1>10, OtherTokenSteps
    <3>2. jar' = [jar EXCEPT ![c] = 0]
      BY <1>10 DEF RevokeOwn, RevokeAllUserTokens
    <3>3. 0 \in 0 .. MaxTokens
      BY TokenAssumption
    <3> QED
      BY <1>0, <1>1, <3>1, <3>2, <3>3, TokenFacts
  <2>2. CASE RevokeOwn(c)
    <3>1. /\ tangled' = tangled \cup Overlaps(c)
          /\ UNCHANGED <<store, refreshReq, epoch, told, straddled, tokenFaults>>
      BY <2>2 DEF RevokeOwn
    <3> QED
      BY <1>0, <1>1, <2>1, <3>1 DEF TokenTypeOK
  <2>3. CASE RevokeAllUserTokens(c)
    <3>1. epoch' \in 0 .. MaxLogouts
      BY <1>0, <2>3, TokenAssumption DEF RevokeAllUserTokens
    <3>2. (straddled \/ MidRotation \/ \E n \in TokenIds : tokens[n] # NoToken /\ ~Known(n)) \in BOOLEAN
      OBVIOUS
    <3>3. straddled' \in BOOLEAN /\ told' \in BOOLEAN
      BY <2>3, <3>2 DEF RevokeAllUserTokens
    <3> QED
      BY <1>0, <2>1, <2>3, <3>1, <3>3 DEF RevokeAllUserTokens, TokenTypeOK
  <2> QED
    BY <1>10, <2>2, <2>3
<1>11. ASSUME NEW n \in TokenIds, RevokeSessionById(n) \/ TokenExpires(n) PROVE TokenTypeOK'
  BY <1>0, <1>1, <1>11, OtherTokenSteps DEF RevokeSessionById, TokenExpires, TokenTypeOK
<1>12. ASSUME DbFlips PROVE TokenTypeOK'
  BY <1>0, <1>1, <1>12 DEF DbFlips, TokenTypeOK
<1> QED
  BY <1>2, <1>3, <1>4, <1>5, <1>6, <1>7, <1>8, <1>9, <1>10, <1>11, <1>12 DEF TokenNext, RotateStep

\* The ways in which a step can touch the tokens and the requests.
LEMMA KindsOfTokenStep ==
    ASSUME TokenInv, TokenNext
    PROVE  \/ StatusesChange
           \/ \E c \in TokenClients, n \in TokenIds : Login(c, n) /\ Makes(n, 0, epoch)
           \/ \E q \in RefreshCalls, n \in TokenIds :
                RotateIssue(q, n) /\ Makes(n, refreshReq[q].old, refreshReq[q].epoch)
<1>1. UNCHANGED tokens => StatusesChange
  BY TokenFacts DEF TokenInv, StatusesChange, Usable
<1>2. \A q \in RefreshCalls : RotateRead(q) => StatusesChange
  BY <1>1, ReadingAToken DEF MarksOld
<1>3. \A q \in RefreshCalls : RotateReuse(q) \/ RotateMark(q) => StatusesChange
  BY RotatingAToken DEF MarksOld
<1>4. /\ \A c \in TokenClients : RevokeOwn(c) \/ RevokeAllUserTokens(c) => StatusesChange
      /\ \A n \in TokenIds : RevokeSessionById(n) \/ TokenExpires(n) => StatusesChange
  BY OtherTokenSteps
<1>5. /\ \A q \in RefreshCalls, c \in TokenClients : StartRefresh(q, c) => UNCHANGED tokens
      /\ \A q \in RefreshCalls : RotateFails(q) \/ RefreshAnswered(q) \/ ResponseLost(q) => UNCHANGED tokens
      /\ DbFlips => UNCHANGED tokens
  BY DEF StartRefresh, RotateFails, RefreshAnswered, ResponseLost, DbFlips
<1> QED
  BY <1>1, <1>2, <1>3, <1>4, <1>5, RotatingAToken, OtherTokenSteps DEF TokenNext, RotateStep

\* A token that was issued stays issued.
LEMMA IssuedForGood ==
    ASSUME TokenInv, TokenNext, NEW n \in TokenIds, Issued(n)
    PROVE  tokens'[n] # NoToken
BY KindsOfTokenStep DEF StatusesChange, Makes, Issued

\* A step gives a client at most a token that nobody had before.
LEMMA WhatIsHeld ==
    ASSUME TokenInv, TokenNext
    PROVE  \/ \A c \in TokenClients, n \in TokenIds : Holds(c, n)' => Holds(c, n)
           \/ \E d \in TokenClients, m \in TokenIds :
                /\ ~Issued(m) /\ tokens'[m] # NoToken
                /\ \A c \in TokenClients, n \in TokenIds : Holds(c, n)' => Holds(c, n) \/ (c = d /\ n = m)
<1> DEFINE Fewer == \A c \in TokenClients, n \in TokenIds : Holds(c, n)' => Holds(c, n)
           OneMore == \E d \in TokenClients, m \in TokenIds :
                /\ ~Issued(m) /\ tokens'[m] # NoToken
                /\ \A c \in TokenClients, n \in TokenIds : Holds(c, n)' => Holds(c, n) \/ (c = d /\ n = m)
<1>0. TokenTypeOK
  BY DEF TokenInv
<1>1. ASSUME NEW c \in TokenClients, NEW n \in TokenIds, Login(c, n) PROVE OneMore
  <2>1. Makes(n, 0, epoch)
    BY <1>1, OtherTokenSteps
  <2>2. ~Issued(n) /\ tokens'[n] # NoToken
    BY <2>1, TokenShapes DEF Makes
  <2>3. jar'[c] = n /\ (\A d \in TokenClients \ {c} : jar'[d] = jar[d]) /\ UNCHANGED refreshReq
    BY <1>0, <1>1, TokenFacts DEF Login
  <2>4. \A d \in TokenClients, m \in TokenIds : Holds(d, m)' => Holds(d, m) \/ (d = c /\ m = n)
    BY <2>3 DEF Holds, InFlight
  <2> QED
    BY <2>2, <2>4
<1>2. ASSUME NEW q \in RefreshCalls, NEW c \in TokenClients, StartRefresh(q, c) PROVE Fewer
  <2>1. /\ refreshReq'[q].client = c /\ refreshReq'[q].old = jar[c] /\ refreshReq'[q].new = 0
        /\ \A p \in RefreshCalls \ {q} : refreshReq'[p] = refreshReq[p]
        /\ UNCHANGED jar
    BY <1>0, <1>2, TokenFacts DEF StartRefresh
  <2> QED
    BY <2>1, <1>0, TokenFacts DEF Holds, InFlight
<1>3. ASSUME NEW q \in RefreshCalls, NEW pc, Goes(q, pc), refreshReq'[q].new = refreshReq[q].new, UNCHANGED jar
      PROVE  Fewer
  <2>1. refreshReq[q] # NoReq /\ refreshReq'[q] # NoReq
    BY <1>3, TokenShapes DEF Goes
  <2> QED
    BY <1>3, <2>1 DEF Holds, InFlight, Goes
<1>4. ASSUME NEW q \in RefreshCalls, RotateRead(q) \/ RotateReuse(q) \/ RotateMark(q) PROVE Fewer
  <2>1. UNCHANGED jar
    BY <1>4 DEF RotateRead, RotateReuse, RotateMark
  <2> QED
    BY <1>3, <1>4, <2>1, ReadingAToken, RotatingAToken
<1>5. ASSUME NEW q \in RefreshCalls, NEW n \in TokenIds, RotateIssue(q, n) PROVE OneMore
  <2>1. /\ Goes(q, "answer") /\ refreshReq'[q].new = n
        /\ Makes(n, refreshReq[q].old, refreshReq[q].epoch) /\ UNCHANGED jar
    BY <1>5, RotatingAToken DEF RotateIssue
  <2>2. ~Issued(n) /\ tokens'[n] # NoToken
    BY <2>1, TokenShapes DEF Makes
  <2>3. refreshReq[q].client \in TokenClients /\ refreshReq[q] # NoReq
    BY <2>1, TokenShapes DEF Goes, RefreshReq
  <2>4. \A d \in TokenClients, m \in TokenIds :
          Holds(d, m)' => Holds(d, m) \/ (d = refreshReq[q].client /\ m = n)
    BY <2>1, <2>3 DEF Holds, InFlight, Goes
  <2> QED
    BY <2>2, <2>3, <2>4
<1>6. ASSUME NEW q \in RefreshCalls, Ends(q), UNCHANGED jar PROVE Fewer
  BY <1>6 DEF Holds, InFlight, Ends
<1>7. ASSUME NEW q \in RefreshCalls, RotateFails(q) \/ ResponseLost(q) PROVE Fewer
  BY <1>6, <1>7, RotatingAToken DEF RotateFails, ResponseLost
<1>8. ASSUME NEW q \in RefreshCalls, RefreshAnswered(q) PROVE Fewer
  <2>1. Ends(q) /\ refreshReq[q].client \in TokenClients /\ refreshReq[q] # NoReq
    BY <1>8, RotatingAToken, TokenShapes DEF Ends, RefreshReq
  <2>2. /\ jar'[refreshReq[q].client] = refreshReq[q].new
        /\ \A d \in TokenClients : d # refreshReq[q].client => jar'[d] = jar[d]
    BY <1>0, <1>8, <2>1, TokenFacts DEF RefreshAnswered
  <2> QED
    BY <2>1, <2>2 DEF Holds, InFlight, Ends
<1>9. ASSUME NEW c \in TokenClients, RevokeOwn(c) \/ RevokeAllUserTokens(c) PROVE Fewer
  <2>1. jar' = [jar EXCEPT ![c] = 0] /\ UNCHANGED refreshReq
    BY <1>9 DEF RevokeOwn, RevokeAllUserTokens
  <2>2. \A d \in TokenClients, n \in TokenIds : jar'[d] = n => jar[d] = n
    BY <1>0, <2>1, TokenFacts
  <2> QED
    BY <2>1, <2>2 DEF Holds, InFlight
<1>10. ASSUME NEW n \in TokenIds, RevokeSessionById(n) \/ TokenExpires(n) PROVE Fewer
  <2>1. UNCHANGED <<jar, refreshReq>>
    BY <1>10 DEF RevokeSessionById, TokenExpires
  <2> QED
    BY <2>1 DEF Holds, InFlight
<1>11. ASSUME DbFlips PROVE Fewer
  BY <1>11 DEF DbFlips, Holds, InFlight
<1> HIDE DEF Fewer, OneMore
<1>12. Fewer \/ OneMore
  BY <1>1, <1>2, <1>4, <1>5, <1>7, <1>8, <1>9, <1>10, <1>11 DEF TokenNext, RotateStep
<1> QED
  BY <1>12 DEF Fewer, OneMore

LEMMA HoldersKept ==
    ASSUME TokenInv, TokenNext
    PROVE  HeldWasIssued' /\ HeldByOne'
<1>1. HeldWasIssued'
  <2> SUFFICES ASSUME NEW c \in TokenClients, NEW n \in TokenIds, Holds(c, n)' PROVE tokens'[n] # NoToken
    BY DEF HeldWasIssued, Issued
  <2>1. Holds(c, n) \/ tokens'[n] # NoToken
    BY WhatIsHeld
  <2> QED
    BY <2>1, IssuedForGood DEF TokenInv, HeldWasIssued
<1>2. HeldByOne'
  <2> SUFFICES ASSUME NEW c \in TokenClients, NEW d \in TokenClients, NEW n \in TokenIds,
                      Holds(c, n)', Holds(d, n)'
               PROVE  c = d
    BY DEF HeldByOne
  <2> QED
    BY WhatIsHeld DEF TokenInv, HeldByOne, HeldWasIssued
<1> QED
  BY <1>1, <1>2

\* What a step does to the requests.
LEMMA KindsOfRequestStep ==
    ASSUME TokenInv, TokenNext
    PROVE  \/ UNCHANGED refreshReq
           \/ \E q \in RefreshCalls :
                \/ \E c \in TokenClients : StartRefresh(q, c)
                \/ RotateRead(q) \/ RotateReuse(q) \/ RotateMark(q)
                \/ \E n \in TokenIds : RotateIssue(q, n)
                \/ Ends(q)
<1>1. /\ \A c \in TokenClients : RevokeOwn(c) \/ RevokeAllUserTokens(c) => UNCHANGED refreshReq
      /\ \A n \in TokenIds : RevokeSessionById(n) \/ TokenExpires(n) => UNCHANGED refreshReq
      /\ \A c \in TokenClients, n \in TokenIds : Login(c, n) => UNCHANGED refreshReq
      /\ DbFlips => UNCHANGED refreshReq
  BY DEF RevokeOwn, RevokeAllUserTokens, RevokeSessionById, TokenExpires, Login, DbFlips
<1> QED
  BY <1>1, RotatingAToken DEF TokenNext, RotateStep

LEMMA StartingARefresh ==
    ASSUME TokenInv, NEW q \in RefreshCalls, NEW c \in TokenClients, StartRefresh(q, c)
    PROVE  /\ refreshReq[q] = NoReq /\ jar[c] # 0 /\ jar[c] \in TokenIds
           /\ refreshReq'[q] \in RefreshReq /\ refreshReq'[q].pc = "read"
           /\ refreshReq'[q].client = c /\ refreshReq'[q].old = jar[c] /\ refreshReq'[q].new = 0
           /\ \A p \in RefreshCalls \ {q} : refreshReq'[p] = refreshReq[p]
           /\ UNCHANGED <<tokens, jar, epoch, told, straddled>>
<1>0. TokenTypeOK /\ refreshReq[q] = NoReq /\ jar[c] # 0 /\ jar[c] \in TokenIds
  BY TokenFacts DEF TokenInv, StartRefresh
<1>1. [pc |-> "read", client |-> c, old |-> jar[c], new |-> 0, epoch |-> 0] \in RefreshReq
  BY <1>0, TokenAssumption DEF RefreshReq
<1> QED
  BY <1>0, <1>1, TokenFacts DEF StartRefresh

LEMMA AnswersKept ==
    ASSUME TokenInv, TokenNext
    PROVE  NewIsAnswered'
<1> SUFFICES ASSUME NEW p \in RefreshCalls, refreshReq'[p] # NoReq, refreshReq'[p].pc # "answer"
             PROVE  refreshReq'[p].new = 0
  BY DEF NewIsAnswered, InFlight
<1>0. refreshReq[p] # NoReq /\ refreshReq[p].pc # "answer" => refreshReq[p].new = 0
  BY DEF TokenInv, NewIsAnswered, InFlight
<1>1. CASE UNCHANGED refreshReq
  BY <1>0, <1>1
<1>2. ASSUME NEW q \in RefreshCalls,
             \/ \E c \in TokenClients : StartRefresh(q, c)
             \/ RotateRead(q) \/ RotateReuse(q) \/ RotateMark(q)
             \/ \E n \in TokenIds : RotateIssue(q, n)
             \/ Ends(q)
      PROVE  refreshReq'[p].new = 0
  <2>1. CASE p # q
    BY <1>0, <1>2, <2>1, ReadingAToken, RotatingAToken, StartingARefresh DEF Goes, Ends
  <2>2. CASE p = q
    BY <1>0, <1>2, <2>2, ReadingAToken, RotatingAToken, StartingARefresh, TokenShapes DEF Goes, Ends
  <2> QED
    BY <2>1, <2>2
<1> QED
  BY <1>1, <1>2, KindsOfRequestStep

LEMMA ReplacementsKept ==
    ASSUME TokenInv, TokenNext
    PROVE  ReplacedIsSpent'
<1>0. TokenTypeOK /\ ReplacedIsSpent
  BY DEF TokenInv
<1>s. /\ StatusesChange => \A n \in TokenIds : ~Usable(n) => tokens'[n].status \notin {"live", "expired"}
      /\ \A m \in TokenIds : \A parent, e : Makes(m, parent, e) =>
           \A n \in TokenIds : Issued(n) /\ ~Usable(n) => tokens'[n].status \notin {"live", "expired"}
  BY DEF StatusesChange, Makes, Usable
<1>i. \A q \in RefreshCalls : refreshReq[q].pc = "issue" =>
        Issued(refreshReq[q].old) /\ ~Usable(refreshReq[q].old)
  <2> SUFFICES ASSUME NEW q \in RefreshCalls, refreshReq[q].pc = "issue" PROVE Issued(refreshReq[q].old)
    BY <1>0 DEF ReplacedIsSpent
  <2>1. refreshReq[q] \in RefreshReq /\ refreshReq[q] # NoReq
    BY <1>0, TokenFacts, TokenShapes
  <2> QED
    BY <2>1 DEF RefreshReq, TokenInv, HeldWasIssued, Holds, InFlight
<1>k. \A n \in TokenIds : Issued(n) /\ ~Usable(n) =>
        tokens'[n] # NoToken /\ tokens'[n].status \notin {"live", "expired"}
  BY <1>s, KindsOfTokenStep, IssuedForGood
<1>1. \A q \in RefreshCalls : refreshReq'[q].pc = "issue" =>
        refreshReq'[q].old \in TokenIds /\ tokens'[refreshReq'[q].old].status \notin {"live", "expired"}
  <2> SUFFICES ASSUME NEW p \in RefreshCalls, refreshReq'[p].pc = "issue"
               PROVE  refreshReq'[p].old \in TokenIds /\ tokens'[refreshReq'[p].old].status \notin {"live", "expired"}
    OBVIOUS
  <2>0. CASE refreshReq[p].pc = "issue" /\ refreshReq'[p] = refreshReq[p]
    BY <1>i, <1>k, <2>0 DEF Issued
  <2>1. ASSUME NEW q \in RefreshCalls, Goes(q, "issue"), MarksOld(q), p = q
        PROVE  refreshReq'[p].old \in TokenIds /\ tokens'[refreshReq'[p].old].status \notin {"live", "expired"}
    BY <2>1 DEF Goes, MarksOld, RefreshReq
  <2>2. CASE UNCHANGED refreshReq
    BY <2>0, <2>2
  <2>3. ASSUME NEW q \in RefreshCalls,
               \/ \E c \in TokenClients : StartRefresh(q, c)
               \/ RotateRead(q) \/ RotateReuse(q) \/ RotateMark(q)
               \/ \E n \in TokenIds : RotateIssue(q, n)
               \/ Ends(q)
        PROVE  refreshReq'[p].old \in TokenIds /\ tokens'[refreshReq'[p].old].status \notin {"live", "expired"}
    <3>1. CASE p # q
      <4>1. refreshReq'[p] = refreshReq[p]
        BY <2>3, <3>1, ReadingAToken, RotatingAToken, StartingARefresh DEF Goes, Ends
      <4> QED
        BY <2>0, <4>1
    <3>2. CASE p = q
      <4>1. Goes(q, "issue") /\ MarksOld(q)
        BY <2>3, <3>2, ReadingAToken, RotatingAToken, StartingARefresh, TokenShapes DEF Goes, Ends
      <4> QED
        BY <2>1, <3>2, <4>1
    <3> QED
      BY <3>1, <3>2
  <2> QED
    BY <2>2, <2>3, KindsOfRequestStep
<1>2. ASSUME NEW n \in TokenIds, tokens'[n] # NoToken, tokens'[n].parent # 0
      PROVE  /\ tokens'[n].parent \in TokenIds /\ tokens'[tokens'[n].parent] # NoToken
             /\ tokens'[tokens'[n].parent].status \notin {"live", "expired"}
  <2>1. CASE Issued(n) /\ tokens'[n].parent = tokens[n].parent
    BY <1>0, <1>2, <1>k, <2>1 DEF ReplacedIsSpent, Issued
  <2>2. CASE StatusesChange
    BY <1>2, <2>1, <2>2 DEF StatusesChange, Issued
  <2>3. ASSUME NEW m \in TokenIds, NEW parent, NEW e, Makes(m, parent, e), n # m
        PROVE  /\ tokens'[n].parent \in TokenIds /\ tokens'[tokens'[n].parent] # NoToken
               /\ tokens'[tokens'[n].parent].status \notin {"live", "expired"}
    BY <1>2, <2>1, <2>3 DEF Makes, Issued
  <2>4. ASSUME NEW c \in TokenClients, Makes(n, 0, epoch) PROVE FALSE
    BY <1>2, <2>4 DEF Makes
  <2>5. ASSUME NEW q \in RefreshCalls, RotateIssue(q, n), Makes(n, refreshReq[q].old, refreshReq[q].epoch)
        PROVE  /\ tokens'[n].parent \in TokenIds /\ tokens'[tokens'[n].parent] # NoToken
               /\ tokens'[tokens'[n].parent].status \notin {"live", "expired"}
    BY <1>i, <1>k, <2>5 DEF Makes, RotateIssue, Issued
  <2> QED
    BY <2>2, <2>3, <2>4, <2>5, KindsOfTokenStep
<1> QED
  BY <1>1, <1>2 DEF ReplacedIsSpent, Issued, Usable

\* The histories only grow.
LEMMA HistoriesGrow ==
    ASSUME TokenInv, TokenNext
    PROVE  /\ tangled \subseteq tangled' /\ (told => told') /\ (straddled => straddled')
           /\ \A q \in RefreshCalls, c \in TokenClients :
                StartRefresh(q, c) /\ "overlap" \notin tangled' =>
                  \A p \in RefreshCalls : InFlight(p) => refreshReq[p].client # c
<1>0. told \in BOOLEAN /\ straddled \in BOOLEAN
  BY DEF TokenInv, TokenTypeOK
<1>1. ASSUME NEW q \in RefreshCalls, RotateStep(q)
      PROVE  tangled \subseteq tangled' /\ (told => told') /\ (straddled => straddled')
  <2>1. CASE RotateRead(q)
    BY <1>0, <2>1, ReadingAToken DEF MidRotation
  <2>2. CASE ~RotateRead(q)
    BY <1>0, <1>1, <2>2 DEF RotateStep, RotateReuse, RotateMark, RotateFails, RefreshAnswered, ResponseLost, RotateIssue
  <2> QED
    BY <2>1, <2>2
<1>2. ASSUME NEW c \in TokenClients, RevokeOwn(c) \/ RevokeAllUserTokens(c)
      PROVE  tangled \subseteq tangled' /\ (told => told') /\ (straddled => straddled')
  <2>1. CASE RevokeOwn(c)
    <3>1. tangled' = tangled \cup Overlaps(c) /\ UNCHANGED <<told, straddled>>
      BY <2>1 DEF RevokeOwn
    <3> QED
      BY <3>1
  <2>2. CASE RevokeAllUserTokens(c)
    <3>1. straddled' = (straddled \/ MidRotation \/ \E n \in TokenIds : tokens[n] # NoToken /\ ~Known(n))
      BY <2>2 DEF RevokeAllUserTokens
    <3>2. told' = TRUE /\ UNCHANGED tangled
      BY <2>2 DEF RevokeAllUserTokens
    <3> QED
      BY <3>1, <3>2
  <2> QED
    BY <1>2, <2>1, <2>2
<1>3. ASSUME \/ \E c \in TokenClients, n \in TokenIds : Login(c, n)
             \/ \E q \in RefreshCalls, c \in TokenClients : StartRefresh(q, c)
             \/ \E n \in TokenIds : RevokeSessionById(n) \/ TokenExpires(n)
             \/ DbFlips
      PROVE  tangled \subseteq tangled' /\ (told => told') /\ (straddled => straddled')
  BY <1>3 DEF Login, StartRefresh, RevokeSessionById, TokenExpires, DbFlips
<1>4. ASSUME NEW q \in RefreshCalls, NEW c \in TokenClients, StartRefresh(q, c), "overlap" \notin tangled',
             NEW p \in RefreshCalls, InFlight(p)
      PROVE  refreshReq[p].client # c
  BY <1>4 DEF StartRefresh, Overlaps, InFlight
<1> QED
  BY <1>1, <1>2, <1>3, <1>4 DEF TokenNext

LEMMA OneRequestKept ==
    ASSUME TokenInv, TokenNext, "overlap" \notin tangled'
    PROVE  OneRequest'
<1>0. OneRequest
  BY HistoriesGrow DEF TokenInv
<1>1. CASE UNCHANGED refreshReq
  BY <1>0, <1>1 DEF OneRequest, InFlight
<1>2. ASSUME NEW q \in RefreshCalls, NEW c \in TokenClients, StartRefresh(q, c) PROVE OneRequest'
  BY <1>0, <1>2, StartingARefresh, HistoriesGrow DEF OneRequest, InFlight
<1>3. ASSUME NEW q \in RefreshCalls, NEW pc, Goes(q, pc) PROVE OneRequest'
  <2>1. refreshReq[q] # NoReq
    BY <1>3, TokenShapes DEF Goes
  <2> QED
    BY <1>0, <1>3, <2>1 DEF OneRequest, InFlight, Goes
<1>4. ASSUME NEW q \in RefreshCalls, Ends(q) PROVE OneRequest'
  BY <1>0, <1>4 DEF OneRequest, InFlight, Ends
<1> QED
  BY <1>1, <1>2, <1>3, <1>4, KindsOfRequestStep, ReadingAToken, RotatingAToken

\* A request whose token is marked, or about to be, was so before the step
\* with the same token, or has just read a live one.
LEMMA ComingBetween ==
    ASSUME TokenInv, TokenNext, NEW q \in RefreshCalls, refreshReq'[q].pc \in {"mark", "issue"}
    PROVE  /\ refreshReq'[q].old = refreshReq[q].old /\ refreshReq[q].old \in TokenIds
           /\ Issued(refreshReq[q].old) /\ InFlight(q) /\ refreshReq[q].client \in TokenClients
           /\ \A n \in TokenIds : ~RotateIssue(q, n)
           /\ \/ Between(q) /\ refreshReq'[q].epoch = refreshReq[q].epoch
              \/ tokens[refreshReq[q].old].status = "live" /\ refreshReq'[q].epoch = epoch /\ UNCHANGED epoch
<1>1. ASSUME refreshReq[q] \in RefreshReq
      PROVE  /\ refreshReq[q].old \in TokenIds /\ Issued(refreshReq[q].old) /\ InFlight(q)
             /\ refreshReq[q].client \in TokenClients
  BY <1>1, TokenShapes DEF RefreshReq, TokenInv, HeldWasIssued, Holds, InFlight
<1>2. ~\E n \in TokenIds : RotateIssue(q, n)
  BY RotatingAToken DEF Goes
<1>3. CASE refreshReq'[q] = refreshReq[q]
  <2>1. refreshReq[q] \in RefreshReq
    BY <1>3, TokenFacts, TokenShapes DEF TokenInv
  <2> QED
    BY <1>1, <1>2, <1>3, <2>1 DEF Between
<1>4. ASSUME NEW p \in RefreshCalls, p # q,
             \/ \E c \in TokenClients : StartRefresh(p, c)
             \/ RotateRead(p) \/ RotateReuse(p) \/ RotateMark(p)
             \/ \E n \in TokenIds : RotateIssue(p, n)
             \/ Ends(p)
      PROVE  refreshReq'[q] = refreshReq[q]
  BY <1>4, ReadingAToken, RotatingAToken, StartingARefresh DEF Goes, Ends
<1>5. CASE RotateRead(q)
  <2>1. refreshReq[q] \in RefreshReq /\ refreshReq'[q].old = refreshReq[q].old
    BY <1>5, ReadingAToken DEF Goes
  <2>2. tokens[refreshReq[q].old].status = "live" /\ refreshReq'[q].epoch = epoch /\ UNCHANGED epoch
    BY <1>5, ReadingAToken DEF Goes
  <2> QED
    BY <1>1, <1>2, <2>1, <2>2
<1>6. CASE RotateMark(q)
  <2>1. /\ refreshReq[q] \in RefreshReq /\ refreshReq'[q].old = refreshReq[q].old
        /\ refreshReq[q].pc = "mark" /\ refreshReq'[q].epoch = refreshReq[q].epoch
    BY <1>6, RotatingAToken DEF Goes
  <2> QED
    BY <1>1, <1>2, <2>1 DEF Between
<1>7. ~(\E c \in TokenClients : StartRefresh(q, c)) /\ ~RotateReuse(q) /\ ~Ends(q)
  BY StartingARefresh, RotatingAToken, TokenShapes DEF Goes, Ends
<1> QED
  BY <1>2, <1>3, <1>4, <1>5, <1>6, <1>7, KindsOfRequestStep

LEMMA OneSuccessorKept ==
    ASSUME TokenInv, TokenNext, "overlap" \notin tangled'
    PROVE  OneSuccessor'
<1>0. OneRequest /\ OneSuccessor /\ HeldByOne /\ ReplacedIsSpent /\ TokenTypeOK
  BY HistoriesGrow DEF TokenInv
<1>1. ASSUME NEW q \in RefreshCalls, refreshReq'[q].pc \in {"mark", "issue"}, NEW n \in TokenIds, tokens'[n] # NoToken
      PROVE  tokens'[n].parent # refreshReq'[q].old
  <2>0. refreshReq'[q].old = refreshReq[q].old /\ refreshReq[q].old \in TokenIds /\ refreshReq[q].old # 0
    BY <1>0, <1>1, ComingBetween, TokenFacts
  <2>1. CASE Issued(n) /\ tokens'[n].parent = tokens[n].parent
    <3>1. CASE Between(q)
      BY <1>0, <2>0, <2>1, <3>1 DEF OneSuccessor
    <3>2. CASE Usable(refreshReq[q].old)
      BY <1>0, <2>0, <2>1, <3>2 DEF ReplacedIsSpent
    <3> QED
      BY <1>1, <3>1, <3>2, ComingBetween DEF Usable
  <2>2. CASE StatusesChange
    BY <1>1, <2>1, <2>2 DEF StatusesChange, Issued
  <2>3. ASSUME NEW m \in TokenIds, NEW parent, NEW e, Makes(m, parent, e), n # m
        PROVE  tokens'[n].parent # refreshReq'[q].old
    BY <1>1, <2>1, <2>3 DEF Makes, Issued
  <2>4. ASSUME Makes(n, 0, epoch) PROVE tokens'[n].parent # refreshReq'[q].old
    BY <2>0, <2>4 DEF Makes
  <2>5. ASSUME NEW p \in RefreshCalls, RotateIssue(p, n), Makes(n, refreshReq[p].old, refreshReq[p].epoch)
        PROVE  tokens'[n].parent # refreshReq'[q].old
    <3>1. p # q /\ InFlight(q) /\ refreshReq[q].client \in TokenClients
      BY <1>1, <2>5, ComingBetween
    <3>2. InFlight(p) /\ refreshReq[p].client \in TokenClients
      BY <2>5, RotatingAToken, TokenShapes DEF Goes, RefreshReq, InFlight
    <3>3. refreshReq[p].old # refreshReq[q].old
      BY <1>0, <2>0, <3>1, <3>2 DEF HeldByOne, Holds, OneRequest
    <3> QED
      BY <2>0, <2>5, <3>3 DEF Makes
  <2> QED
    BY <2>2, <2>3, <2>4, <2>5, KindsOfTokenStep
<1>2. ASSUME NEW m \in TokenIds, NEW n \in TokenIds, tokens'[m] # NoToken, tokens'[n] # NoToken,
             tokens'[m].parent # 0, tokens'[m].parent = tokens'[n].parent
      PROVE  m = n
  <2>1. CASE StatusesChange
    BY <1>0, <1>2, <2>1 DEF StatusesChange, OneSuccessor, Issued
  <2>2. ASSUME NEW k \in TokenIds, Makes(k, 0, epoch) PROVE m = n
    BY <1>0, <1>2, <2>2 DEF Makes, OneSuccessor, Issued
  <2>3. ASSUME NEW p \in RefreshCalls, NEW k \in TokenIds,
               RotateIssue(p, k), Makes(k, refreshReq[p].old, refreshReq[p].epoch)
        PROVE  m = n
    <3>1. \A j \in TokenIds : Issued(j) => tokens[j].parent # refreshReq[p].old
      BY <1>0, <2>3 DEF OneSuccessor, Between, RotateIssue
    <3> QED
      BY <1>0, <1>2, <2>3, <3>1 DEF Makes, OneSuccessor, Issued
  <2> QED
    BY <2>1, <2>2, <2>3, KindsOfTokenStep
<1> QED
  BY <1>1, <1>2 DEF OneSuccessor, Between, Issued

\* While nothing disturbs the clients, a token is used up only by the request
\* that exchanges it or by the client that gives it up.
Exchanges(q) == (RotateRead(q) \/ RotateMark(q)) /\ Goes(q, "issue") /\ MarksOld(q)

LEMMA CalmTokens ==
    ASSUME TokenInv, TokenNext, tangled' = {}, ~told'
    PROVE  /\ \A n \in TokenIds : tokens'[n].status # "reuse"
           /\ \A q \in RefreshCalls : ~RotateReuse(q) /\ ~Goes(q, "reuse")
           /\ \A n \in TokenIds : Usable(n) =>
                \/ tokens'[n].status \in {"live", "expired"}
                \/ \E q \in RefreshCalls : Exchanges(q) /\ n = refreshReq[q].old
                \/ \E c \in TokenClients : RevokeOwn(c) /\ n = jar[c]
<1> DEFINE Calm ==
             /\ \A n \in TokenIds : tokens'[n].status # "reuse"
             /\ \A n \in TokenIds : Usable(n) =>
                  \/ tokens'[n].status \in {"live", "expired"}
                  \/ \E q \in RefreshCalls : Exchanges(q) /\ n = refreshReq[q].old
                  \/ \E c \in TokenClients : RevokeOwn(c) /\ n = jar[c]
<1>0. Undisturbed /\ TokenTypeOK
  BY HistoriesGrow DEF TokenInv
<1>1. UNCHANGED tokens => Calm
  BY <1>0 DEF Undisturbed, Usable
<1>2. ASSUME NEW q \in RefreshCalls, RotateRead(q) PROVE Calm /\ ~Goes(q, "reuse")
  <2>1. Usable(refreshReq[q].old)
    BY <1>0, <1>2, ReadingAToken DEF Undisturbed
  <2>2. CASE UNCHANGED tokens
    BY <1>1, <1>2, <2>1, <2>2, ReadingAToken DEF Goes
  <2>3. CASE Goes(q, "issue") /\ MarksOld(q)
    <3>1. ~Goes(q, "reuse")
      BY <2>3 DEF Goes
    <3>2. \A n \in TokenIds : n # refreshReq[q].old => tokens'[n] = tokens[n]
      BY <2>3 DEF MarksOld
    <3>3. tokens'[refreshReq[q].old].status = "revoked"
      BY <2>3 DEF MarksOld
    <3> QED
      BY <1>0, <1>2, <2>3, <3>1, <3>2, <3>3 DEF Exchanges, Undisturbed, Usable
  <2> QED
    BY <1>2, <2>1, <2>2, <2>3, ReadingAToken
<1>3. ASSUME NEW q \in RefreshCalls, RotateReuse(q) PROVE FALSE
  BY <1>0, <1>3, RotatingAToken DEF Undisturbed
<1>4. ASSUME NEW q \in RefreshCalls, RotateMark(q) PROVE Calm
  <2>1. /\ Goes(q, "issue") /\ MarksOld(q) /\ tokens'[refreshReq[q].old].status = "revoked"
        /\ \A n \in TokenIds : n # refreshReq[q].old => tokens'[n] = tokens[n]
    BY <1>4, RotatingAToken DEF MarksOld
  <2> QED
    BY <1>0, <1>4, <2>1 DEF Exchanges, Undisturbed, Usable
<1>5. ASSUME NEW n \in TokenIds, NEW parent, NEW e, Makes(n, parent, e) PROVE Calm
  BY <1>0, <1>5 DEF Makes, Undisturbed, Usable
<1>6. ASSUME NEW c \in TokenClients, RevokeOwn(c) PROVE Calm
  BY <1>0, <1>6, OtherTokenSteps DEF Undisturbed, Usable
<1>7. ASSUME NEW n \in TokenIds, TokenExpires(n) PROVE Calm
  BY <1>0, <1>7, OtherTokenSteps DEF Undisturbed, Usable
<1>8. /\ \A n \in TokenIds : ~RevokeSessionById(n)
      /\ \A c \in TokenClients : ~RevokeAllUserTokens(c)
  BY DEF RevokeSessionById, RevokeAllUserTokens
<1>9. /\ \A q \in RefreshCalls, c \in TokenClients : StartRefresh(q, c) => UNCHANGED tokens
      /\ \A q \in RefreshCalls : RotateFails(q) \/ RefreshAnswered(q) \/ ResponseLost(q) => UNCHANGED tokens
      /\ DbFlips => UNCHANGED tokens
  BY DEF StartRefresh, RotateFails, RefreshAnswered, ResponseLost, DbFlips
<1>10. Calm
  <2> HIDE DEF Calm
  <2> QED
    BY <1>1, <1>2, <1>3, <1>4, <1>5, <1>6, <1>7, <1>8, <1>9, RotatingAToken, OtherTokenSteps
       DEF TokenNext, RotateStep
<1>11. ASSUME NEW q \in RefreshCalls, Goes(q, "reuse") PROVE FALSE
  <2>1. refreshReq'[q].pc = "reuse" /\ refreshReq[q].pc # "reuse"
    BY <1>0, <1>11 DEF Goes, Undisturbed
  <2>2. ~RotateRead(q)
    BY <1>2, <1>11
  <2>3. ASSUME NEW p \in RefreshCalls, p # q,
               \/ \E c \in TokenClients : StartRefresh(p, c)
               \/ RotateRead(p) \/ RotateReuse(p) \/ RotateMark(p)
               \/ \E n \in TokenIds : RotateIssue(p, n)
               \/ Ends(p)
        PROVE  refreshReq'[q] = refreshReq[q]
    BY <2>3, ReadingAToken, RotatingAToken, StartingARefresh DEF Goes, Ends
  <2>4. ASSUME \/ \E c \in TokenClients : StartRefresh(q, c)
               \/ RotateReuse(q) \/ RotateMark(q)
               \/ \E n \in TokenIds : RotateIssue(q, n)
               \/ Ends(q)
        PROVE  FALSE
    BY <2>1, <2>4, StartingARefresh, RotatingAToken, TokenShapes DEF Goes, Ends
  <2> QED
    BY <2>1, <2>2, <2>3, <2>4, KindsOfRequestStep
<1> QED
  BY <1>3, <1>10, <1>11

LEMMA UndisturbedKept ==
    ASSUME TokenInv, TokenNext, tangled' = {}, ~told'
    PROVE  Undisturbed'
<1>0. /\ Undisturbed /\ OneRequest /\ HeldByOne /\ HeldWasIssued /\ NewIsAnswered /\ TokenTypeOK
      /\ \A n \in TokenIds : \A parent, e : Makes(n, parent, e) => tokens'[n].status = "live"
  BY HistoriesGrow DEF TokenInv, Makes
\* A token in a request stays usable, unless that request exchanges it.
<1>1. ASSUME NEW p \in RefreshCalls, InFlight(p), NEW n \in TokenIds, Usable(n),
             n \in {refreshReq[p].old, refreshReq[p].new},
             ~Exchanges(p) \/ n # refreshReq[p].old
      PROVE  tokens'[n].status \in {"live", "expired"}
  <2>0. refreshReq[p].client \in TokenClients /\ Holds(refreshReq[p].client, n)
    <3>1. refreshReq[p] \in RefreshReq
      BY <1>0, <1>1, TokenFacts DEF InFlight
    <3> QED
      BY <1>1, <3>1 DEF Holds, RefreshReq
  <2>1. ASSUME NEW q \in RefreshCalls, Exchanges(q), n = refreshReq[q].old PROVE FALSE
    <3>1. InFlight(q) /\ refreshReq[q].client \in TokenClients /\ refreshReq[q].pc \in {"read", "mark"}
      BY <2>1, ReadingAToken, RotatingAToken, TokenShapes DEF Exchanges, Goes, InFlight, RefreshReq
    <3>2. Holds(refreshReq[q].client, n)
      BY <2>1, <3>1 DEF Holds
    <3>3. p = q
      BY <1>0, <1>1, <2>0, <3>1, <3>2 DEF HeldByOne, OneRequest
    <3> QED
      BY <1>1, <2>1, <3>3
  <2>2. ASSUME NEW c \in TokenClients, RevokeOwn(c), n = jar[c] PROVE FALSE
    <3>1. refreshReq[p].client = c
      BY <1>0, <2>0, <2>2 DEF HeldByOne, Holds
    <3>2. Overlaps(c) = {"overlap"}
      BY <1>1, <3>1 DEF Overlaps, InFlight
    <3>3. tangled' = tangled \cup Overlaps(c)
      BY <2>2 DEF RevokeOwn
    <3> QED
      BY <3>2, <3>3
  <2> QED
    BY <1>1, <2>1, <2>2, CalmTokens
\* What is true of each request after the step.
<1> DEFINE Sound(p) ==
             /\ refreshReq'[p].pc # "reuse"
             /\ refreshReq'[p].pc \in {"read", "mark"} =>
                  tokens'[refreshReq'[p].old].status \in {"live", "expired"}
             /\ refreshReq'[p] # NoReq /\ refreshReq'[p].new # 0 =>
                  tokens'[refreshReq'[p].new].status \in {"live", "expired"}
<1>2. ASSUME NEW p \in RefreshCalls, InFlight(p) PROVE refreshReq[p].old \in TokenIds
                                                     /\ (refreshReq[p].new # 0 => refreshReq[p].new \in TokenIds)
  BY <1>0, <1>2, TokenFacts DEF InFlight, RefreshReq
<1>3. ASSUME NEW p \in RefreshCalls, refreshReq'[p] = refreshReq[p], ~Exchanges(p) PROVE Sound(p)
  <2>1. CASE refreshReq[p] = NoReq
    BY <1>3, <2>1, TokenShapes
  <2>2. CASE InFlight(p)
    BY <1>0, <1>1, <1>2, <1>3, <2>2 DEF Undisturbed, InFlight
  <2> QED
    BY <2>1, <2>2 DEF InFlight
<1>4. ASSUME NEW q \in RefreshCalls, NEW p \in RefreshCalls \ {q},
             \/ \E c \in TokenClients : StartRefresh(q, c)
             \/ RotateRead(q) \/ RotateReuse(q) \/ RotateMark(q)
             \/ \E n \in TokenIds : RotateIssue(q, n)
             \/ Ends(q)
      PROVE  refreshReq'[p] = refreshReq[p] /\ ~Exchanges(p)
  <2>1. /\ refreshReq'[p] = refreshReq[p]
        /\ refreshReq'[q] # refreshReq[q] \/ ~Exchanges(p)
    BY <1>4, ReadingAToken, RotatingAToken, StartingARefresh, TokenShapes DEF Goes, Ends, Exchanges
  <2>2. Exchanges(p) => refreshReq'[p] # refreshReq[p]
    BY ReadingAToken, RotatingAToken DEF Exchanges, Goes
  <2> QED
    BY <2>1, <2>2
<1>5. ASSUME NEW q \in RefreshCalls, NEW c \in TokenClients, StartRefresh(q, c) PROVE Sound(q)
  <2>1. \A p \in RefreshCalls : InFlight(p) => refreshReq[p].client # c
    BY <1>5, HistoriesGrow
  <2>2. Usable(jar[c])
    BY <1>0, <1>5, <2>1, StartingARefresh DEF Undisturbed
  <2> QED
    BY <1>5, <2>2, StartingARefresh DEF Usable
<1>6. ASSUME NEW q \in RefreshCalls, Exchanges(q) PROVE Sound(q)
  <2>1. /\ refreshReq'[q].pc = "issue" /\ refreshReq'[q].new = refreshReq[q].new
        /\ refreshReq[q].pc \in {"read", "mark"} /\ InFlight(q)
    BY <1>6, ReadingAToken, RotatingAToken, TokenShapes DEF Exchanges, Goes, InFlight
  <2>2. refreshReq'[q].new = 0
    BY <1>0, <2>1 DEF NewIsAnswered
  <2> QED
    BY <2>1, <2>2
<1>7. ASSUME NEW q \in RefreshCalls, RotateRead(q), ~Exchanges(q) PROVE Sound(q)
  <2>1. /\ refreshReq[q].pc = "read" /\ InFlight(q) /\ Usable(refreshReq[q].old)
        /\ refreshReq'[q].new = refreshReq[q].new /\ refreshReq'[q].old = refreshReq[q].old
    BY <1>0, <1>7, ReadingAToken, TokenShapes DEF Goes, InFlight, Undisturbed
  <2>2. refreshReq'[q].new = 0
    BY <1>0, <2>1 DEF NewIsAnswered
  <2>3. refreshReq'[q].pc \in {"mark", "answer"}
    BY <1>7, <2>1, ReadingAToken DEF Goes, Exchanges
  <2>4. tokens'[refreshReq[q].old].status \in {"live", "expired"}
    BY <1>1, <1>2, <1>7, <2>1
  <2> QED
    BY <2>1, <2>2, <2>3, <2>4
<1>8. ASSUME NEW q \in RefreshCalls, NEW n \in TokenIds, RotateIssue(q, n) PROVE Sound(q)
  BY <1>0, <1>8, RotatingAToken DEF Goes
<1>9. ASSUME NEW q \in RefreshCalls, Ends(q) PROVE Sound(q)
  BY <1>9, TokenShapes DEF Ends
<1>10. ASSUME NEW q \in RefreshCalls, RotateMark(q) PROVE Exchanges(q)
  BY <1>10, RotatingAToken DEF Exchanges
<1>11. ASSUME NEW p \in RefreshCalls PROVE Sound(p)
  <2> HIDE DEF Sound
  <2>1. CASE UNCHANGED refreshReq
    <3>1. ~Exchanges(p)
      BY <2>1, ReadingAToken, RotatingAToken DEF Exchanges, Goes
    <3> QED
      BY <1>3, <2>1, <3>1
  <2>2. CASE ~UNCHANGED refreshReq
    BY <1>3, <1>4, <1>5, <1>6, <1>7, <1>8, <1>9, <1>10, <2>2, CalmTokens, KindsOfRequestStep
  <2> QED
    BY <2>1, <2>2
\* A cookie holds a usable token, or its request is about to replace it.
<1> DEFINE Replacing(c) ==
             \E q \in RefreshCalls : /\ refreshReq'[q] # NoReq /\ refreshReq'[q].client = c
                                    /\ refreshReq'[q].pc \in {"issue", "answer"}
<1>12. ASSUME NEW c \in TokenClients, jar'[c] = jar[c], jar[c] # 0, NEW q \in RefreshCalls, InFlight(q),
              refreshReq[q].client = c, refreshReq[q].pc \in {"issue", "answer"}, ~Ends(q)
       PROVE  Replacing(c)
  <2>1. CASE refreshReq'[q] = refreshReq[q]
    BY <1>12, <2>1 DEF InFlight
  <2>2. ASSUME NEW n \in TokenIds, RotateIssue(q, n) PROVE Replacing(c)
    BY <1>12, <2>2, RotatingAToken, TokenShapes DEF Goes
  <2>3. ~(\E d \in TokenClients : StartRefresh(q, d)) /\ ~RotateRead(q) /\ ~RotateReuse(q) /\ ~RotateMark(q)
    BY <1>12, StartingARefresh, ReadingAToken, RotatingAToken DEF InFlight
  <2> HIDE DEF Replacing
  <2> QED
    BY <1>4, <1>12, <2>1, <2>2, <2>3, KindsOfRequestStep
<1>13. ASSUME NEW c \in TokenClients, jar'[c] = jar[c], jar[c] # 0,
              tokens'[jar[c]].status \notin {"live", "expired"}, \A q \in RefreshCalls : ~Ends(q)
       PROVE  Replacing(c)
  <2>0. jar[c] \in TokenIds
    BY <1>0, <1>13, TokenFacts
  <2>1. CASE ~Usable(jar[c])
    <3> HIDE DEF Replacing
    <3> QED
      BY <1>0, <1>12, <1>13, <2>1 DEF Undisturbed
  <2>2. ASSUME NEW q \in RefreshCalls, Exchanges(q), jar[c] = refreshReq[q].old PROVE Replacing(c)
    <3>1. /\ InFlight(q) /\ refreshReq[q].client \in TokenClients /\ refreshReq'[q] # NoReq
          /\ refreshReq'[q].client = refreshReq[q].client /\ refreshReq'[q].pc = "issue"
      BY <2>2, TokenShapes DEF Exchanges, Goes, InFlight, RefreshReq
    <3>2. refreshReq[q].client = c
      BY <1>0, <2>0, <2>2, <3>1 DEF HeldByOne, Holds
    <3> QED
      BY <3>1, <3>2
  <2>3. ASSUME NEW d \in TokenClients, RevokeOwn(d), jar[c] = jar[d] PROVE FALSE
    <3>1. c = d
      BY <1>0, <2>0, <2>3 DEF HeldByOne, Holds
    <3>2. jar' = [jar EXCEPT ![d] = 0]
      BY <2>3 DEF RevokeOwn
    <3> QED
      BY <1>0, <1>13, <3>1, <3>2, TokenFacts
  <2> HIDE DEF Replacing
  <2> QED
    BY <1>13, <2>0, <2>1, <2>2, <2>3, CalmTokens
<1>14. ASSUME NEW c \in TokenClients, jar'[c] # 0, tokens'[jar'[c]].status \notin {"live", "expired"}
       PROVE  Replacing(c)
  <2>1. ASSUME NEW d \in TokenClients, NEW n \in TokenIds, Login(d, n) PROVE Replacing(c)
    <3>1. c # d /\ jar'[c] = jar[c] /\ UNCHANGED refreshReq
      BY <1>0, <1>14, <2>1, TokenFacts, OtherTokenSteps DEF Login
    <3>2. \A q \in RefreshCalls : ~Ends(q)
      BY <3>1, TokenShapes DEF Ends
    <3> HIDE DEF Replacing
    <3> QED
      BY <1>13, <1>14, <3>1, <3>2
  <2>2. ASSUME NEW q \in RefreshCalls, RefreshAnswered(q) PROVE Replacing(c)
    <3>0. Ends(q) /\ UNCHANGED tokens /\ InFlight(q) /\ refreshReq[q].client \in TokenClients
      BY <2>2, RotatingAToken, TokenShapes DEF RefreshAnswered, Ends, InFlight, RefreshReq
    <3>1. CASE c = refreshReq[q].client
      <4>1. jar'[c] = refreshReq[q].new
        BY <1>0, <2>2, <3>1, TokenFacts DEF RefreshAnswered
      <4> QED
        BY <1>0, <1>14, <3>0, <4>1 DEF Undisturbed, Usable
    <3>2. CASE c # refreshReq[q].client
      <4>1. jar'[c] = jar[c]
        BY <1>0, <2>2, <3>0, <3>2, TokenFacts DEF RefreshAnswered
      <4>2. PICK p \in RefreshCalls : /\ InFlight(p) /\ refreshReq[p].client = c
                                      /\ refreshReq[p].pc \in {"issue", "answer"}
        BY <1>0, <1>14, <3>0, <4>1 DEF Undisturbed, Usable
      <4>3. refreshReq'[p] = refreshReq[p]
        BY <3>0, <3>2, <4>2 DEF Ends
      <4> QED
        BY <4>2, <4>3 DEF InFlight
    <3> QED
      BY <3>1, <3>2
  <2>3. ASSUME NEW q \in RefreshCalls, RotateFails(q) PROVE Replacing(c)
    <3>0. /\ Ends(q) /\ UNCHANGED <<tokens, jar>> /\ InFlight(q)
          /\ refreshReq[q].pc \notin {"issue", "answer"}
      BY <2>3, RotatingAToken, TokenShapes DEF RotateFails, Ends, InFlight
    <3>1. PICK p \in RefreshCalls : /\ InFlight(p) /\ refreshReq[p].client = c
                                    /\ refreshReq[p].pc \in {"issue", "answer"}
      BY <1>0, <1>14, <3>0 DEF Undisturbed, Usable
    <3>2. refreshReq'[p] = refreshReq[p]
      BY <3>0, <3>1 DEF Ends
    <3> QED
      BY <3>1, <3>2 DEF InFlight
  <2>4. \A q \in RefreshCalls : ~ResponseLost(q)
    BY DEF ResponseLost
  <2>5. ASSUME NEW d \in TokenClients, RevokeOwn(d) \/ RevokeAllUserTokens(d) PROVE Replacing(c)
    <3>1. jar' = [jar EXCEPT ![d] = 0] /\ UNCHANGED refreshReq
      BY <2>5 DEF RevokeOwn, RevokeAllUserTokens
    <3>2. jar'[c] = jar[c] /\ \A q \in RefreshCalls : ~Ends(q)
      BY <1>0, <1>14, <3>1, TokenFacts, TokenShapes DEF Ends
    <3> HIDE DEF Replacing
    <3> QED
      BY <1>13, <1>14, <3>2
  <2>6. ASSUME UNCHANGED jar, \A q \in RefreshCalls : ~Ends(q) PROVE Replacing(c)
    <3> HIDE DEF Replacing
    <3> QED
      BY <1>13, <1>14, <2>6
  <2>7. ASSUME NEW q \in RefreshCalls,
               \/ \E d \in TokenClients : StartRefresh(q, d)
               \/ RotateRead(q) \/ RotateReuse(q) \/ RotateMark(q)
               \/ \E n \in TokenIds : RotateIssue(q, n)
        PROVE  UNCHANGED jar /\ \A p \in RefreshCalls : ~Ends(p)
    <3>1. UNCHANGED jar
      BY <2>7 DEF StartRefresh, RotateRead, RotateReuse, RotateMark, RotateIssue
    <3>2. refreshReq'[q] # NoReq
      BY <2>7, StartingARefresh, ReadingAToken, RotatingAToken, TokenShapes DEF Goes
    <3>3. ASSUME NEW p \in RefreshCalls, p # q PROVE ~Ends(p)
      <4>1. refreshReq'[p] = refreshReq[p]
        BY <1>4, <2>7, <3>3
      <4> QED
        BY <4>1, TokenShapes DEF Ends
    <3>4. ~Ends(q)
      BY <3>2 DEF Ends
    <3> QED
      BY <3>1, <3>3, <3>4
  <2>8. ASSUME \/ \E n \in TokenIds : RevokeSessionById(n) \/ TokenExpires(n)
               \/ DbFlips
        PROVE  UNCHANGED jar /\ \A p \in RefreshCalls : ~Ends(p)
    <3>1. UNCHANGED <<jar, refreshReq>>
      BY <2>8 DEF RevokeSessionById, TokenExpires, DbFlips
    <3> QED
      BY <3>1, TokenShapes DEF Ends
  <2> HIDE DEF Replacing
  <2> QED
    BY <2>1, <2>2, <2>3, <2>4, <2>5, <2>6, <2>7, <2>8 DEF TokenNext, RotateStep
<1>15. /\ \A n \in TokenIds : tokens'[n].status # "reuse"
       /\ \A p \in RefreshCalls : Sound(p)
       /\ \A c \in TokenClients : jar'[c] # 0 /\ tokens'[jar'[c]].status \notin {"live", "expired"} => Replacing(c)
  <2> HIDE DEF Sound, Replacing
  <2> QED
    BY <1>11, <1>14, CalmTokens
<1> QED
  BY <1>15 DEF Undisturbed, Usable, InFlight

LEMMA EpochKept ==
    ASSUME TokenInv, TokenNext, ~straddled'
    PROVE  OfThisEpoch'
<1>0. OfThisEpoch /\ TokenTypeOK
  BY HistoriesGrow DEF TokenInv
<1>1. CASE \E c \in TokenClients : RevokeAllUserTokens(c)
  <2>1. PICK c \in TokenClients : RevokeAllUserTokens(c)
    BY <1>1
  <2>2. straddled' = (straddled \/ MidRotation \/ \E n \in TokenIds : tokens[n] # NoToken /\ ~Known(n))
    BY <2>1 DEF RevokeAllUserTokens
  <2>3. UNCHANGED refreshReq
    BY <2>1 DEF RevokeAllUserTokens
  <2>4. \A q \in RefreshCalls : refreshReq'[q].pc \notin {"mark", "issue"}
    BY <2>2, <2>3 DEF MidRotation
  <2>5. ASSUME NEW n \in TokenIds, tokens'[n].status = "live" PROVE FALSE
    <3>1. tokens[n].status = "live" /\ tokens[n] \in Token
      BY <1>0, <2>1, <2>5, OtherTokenSteps, TokenFacts, TokenShapes DEF StatusesChange
    <3>2. Known(n)
      BY <2>2, <3>1, TokenShapes
    <3>3. tokens'[n] = Marked(tokens[n], "revoked")
      BY <2>1, <3>1, <3>2 DEF RevokeAllUserTokens, Marked
    <3> QED
      BY <2>5, <3>1, <3>3, TokenShapes
  <2> QED
    BY <2>4, <2>5 DEF OfThisEpoch, Between
<1>2. CASE ~\E c \in TokenClients : RevokeAllUserTokens(c)
  <2>0. UNCHANGED epoch
    <3>1. \A q \in RefreshCalls : RotateStep(q) => UNCHANGED epoch
      BY DEF RotateStep, RotateRead, RotateReuse, RotateMark, RotateFails, RefreshAnswered, ResponseLost, RotateIssue
    <3>2. \A c \in TokenClients : RevokeOwn(c) => UNCHANGED epoch
      BY DEF RevokeOwn
    <3> QED
      BY <1>2, <3>1, <3>2 DEF TokenNext, Login, StartRefresh, RevokeSessionById, TokenExpires, DbFlips
  <2>1. ASSUME NEW q \in RefreshCalls, refreshReq'[q].pc \in {"mark", "issue"} PROVE refreshReq'[q].epoch = epoch
    BY <1>0, <2>1, ComingBetween DEF OfThisEpoch
  <2>2. ASSUME NEW n \in TokenIds, tokens'[n].status = "live" PROVE tokens'[n].epoch = epoch
    <3>1. CASE StatusesChange
      BY <1>0, <2>2, <3>1 DEF StatusesChange, OfThisEpoch
    <3>2. ASSUME NEW m \in TokenIds, NEW parent, Makes(m, parent, epoch) PROVE tokens'[n].epoch = epoch
      BY <1>0, <2>2, <3>2 DEF Makes, OfThisEpoch
    <3>3. ASSUME NEW q \in RefreshCalls, NEW m \in TokenIds, RotateIssue(q, m) PROVE refreshReq[q].epoch = epoch
      BY <1>0, <3>3, RotatingAToken DEF OfThisEpoch, Between
    <3> QED
      BY <3>1, <3>2, <3>3, KindsOfTokenStep
  <2> QED
    BY <2>0, <2>1, <2>2 DEF OfThisEpoch, Between
<1> QED
  BY <1>1, <1>2

LEMMA TokenStep ==
    ASSUME TokenInv, [TokenNext]_tokenVars
    PROVE  TokenInv'
<1>1. CASE TokenNext
  BY <1>1, TokenTypesKept, HoldersKept, AnswersKept, ReplacementsKept, OneRequestKept, OneSuccessorKept,
     UndisturbedKept, EpochKept DEF TokenInv
<1>2. CASE UNCHANGED tokenVars
  BY <1>2 DEF tokenVars, TokenInv, TokenTypeOK, HeldWasIssued, HeldByOne, NewIsAnswered, ReplacedIsSpent,
              OneRequest, OneSuccessor, Undisturbed, OfThisEpoch, Issued, Usable, InFlight, Between, Holds
<1> QED
  BY <1>1, <1>2

(* A refresh token has at most one successor unless a client overlaps its  *)
(* requests: a row that was not yet marked has none, and only the request  *)
(* that marked it issues one.                                              *)
LEMMA TokensAreExchangedOnce ==
    ASSUME TokenInv
    PROVE  ExchangedOnce
<1> SUFFICES ASSUME "overlap" \notin tangled, NEW n \in TokenIds PROVE Cardinality(Successors(n)) <= 1
  BY DEF ExchangedOnce
<1>1. \A j, k \in Successors(n) : j = k
  BY TokenFacts DEF TokenInv, OneSuccessor, Issued, Successors
<1>2. CASE Successors(n) = {}
  BY <1>2, FS_EmptySet
<1>3. CASE Successors(n) # {}
  <2>1. PICK k : k \in Successors(n)
    BY <1>3
  <2>2. Successors(n) = {k}
    BY <1>1, <2>1
  <2> QED
    BY <2>2, FS_Singleton
<1> QED
  BY <1>2, <1>3

(* Sessions are safe, for every number of clients, requests, tokens,       *)
(* logouts and outages: a token is good for one exchange, replay detection *)
(* spares honest clients, and a logout leaves no older token live.         *)
THEOREM SessionsStaySafe == TokenSpec => []SessionsAreSafe
<1>1. TokenInv => ExchangedOnce
  BY TokensAreExchangedOnce
<1>2. TokenInv => HonestClientsKeepSessions /\ NothingOutlivesLogout
  BY DEF TokenInv, HonestClientsKeepSessions, NothingOutlivesLogout, Undisturbed, OfThisEpoch
<1>3. TokenInv => SessionsAreSafe
  BY <1>1, <1>2 DEF SessionsAreSafe
<1> QED
  BY <1>3, TokensAtTheStart, TokenStep, PTL DEF TokenSpec

--------------------------------------------------------------------------------
(***************************************************************************)
(* The accounts of a wallet and what a loader shows of the one in use.     *)
(***************************************************************************)
\* Removing an entry shifts those behind it.
LEMMA RemovedEntries ==
    ASSUME NEW S, NEW s \in Seq(S), NEW i \in 1 .. Len(s)
    PROVE  /\ RemoveAt(s, i) \in Seq(S)
           /\ Len(RemoveAt(s, i)) = Len(s) - 1 /\ Len(s) \in Nat
           /\ \A j \in 1 .. Len(s) - 1 : RemoveAt(s, i)[j] = IF j < i THEN s[j] ELSE s[j + 1]
<1> DEFINE front == SubSeq(s, 1, i - 1)
           back == SubSeq(s, i + 1, Len(s))
<1>0. Len(s) \in Nat /\ i \in Nat /\ 1 <= i /\ i <= Len(s)
  BY LenProperties
<1>1. /\ front \in Seq(S) /\ Len(front) = i - 1
      /\ \A j \in 1 .. i - 1 : front[j] = s[j]
  <2>1. 1 \in Int /\ i - 1 \in Int /\ \A j \in 1 .. i - 1 : s[j] \in S
    BY <1>0, ElementOfSeq
  <2>2. /\ front \in Seq(S) /\ Len(front) = IF 1 <= i - 1 THEN (i - 1) - 1 + 1 ELSE 0
        /\ \A j \in 1 .. (i - 1) - 1 + 1 : front[j] = s[1 + j - 1]
    BY <2>1, SubSeqProperties
  <2> HIDE DEF front
  <2> QED
    BY <1>0, <2>2
<1>2. /\ back \in Seq(S) /\ Len(back) = Len(s) - i
      /\ \A j \in 1 .. Len(s) - i : back[j] = s[i + j]
  <2> DEFINE m == i + 1
             n == Len(s)
  <2>0. m \in Int /\ n \in Int /\ m = i + 1 /\ n = Len(s) /\ back = SubSeq(s, m, n)
    BY <1>0
  <2> HIDE DEF m, n
  <2>1. \A j \in m .. n : s[j] \in S
    BY <1>0, <2>0, ElementOfSeq
  <2>2. /\ back \in Seq(S) /\ Len(back) = IF m <= n THEN n - m + 1 ELSE 0
        /\ \A j \in 1 .. n - m + 1 : back[j] = s[m + j - 1]
    BY <2>0, <2>1, SubSeqProperties
  <2> HIDE DEF back
  <2>3. Len(back) = Len(s) - i
    BY <1>0, <2>0, <2>2
  <2>4. ASSUME NEW j \in 1 .. Len(s) - i PROVE back[j] = s[i + j]
    <3>1. j \in 1 .. n - m + 1 /\ m + j - 1 = i + j
      BY <1>0, <2>0, <2>4
    <3> QED
      BY <2>2, <3>1
  <2> QED
    BY <2>2, <2>3, <2>4
<1> HIDE DEF front, back
<1>3. /\ front \o back \in Seq(S) /\ Len(front \o back) = Len(front) + Len(back)
      /\ \A j \in 1 .. Len(front) + Len(back) : (front \o back)[j] =
                     IF j <= Len(front) THEN front[j] ELSE back[j - Len(front)]
  BY <1>1, <1>2, ConcatProperties
<1>4. RemoveAt(s, i) = front \o back
  BY DEF RemoveAt, front, back
<1>5. ASSUME NEW j \in 1 .. Len(s) - 1 PROVE (front \o back)[j] = IF j < i THEN s[j] ELSE s[j + 1]
  <2>1. j \in 1 .. Len(front) + Len(back)
    BY <1>0, <1>1, <1>2
  <2>2. CASE j < i
    <3>1. j \in 1 .. i - 1 /\ j <= Len(front)
      BY <1>0, <1>1, <2>2
    <3> QED
      BY <1>1, <1>3, <2>1, <2>2, <3>1
  <2>3. CASE ~(j < i)
    <3>1. j - Len(front) \in 1 .. Len(s) - i /\ ~(j <= Len(front)) /\ i + (j - Len(front)) = j + 1
      BY <1>0, <1>1, <2>3
    <3>2. (front \o back)[j] = back[j - Len(front)]
      BY <1>3, <2>1, <3>1
    <3>3. back[j - Len(front)] = s[j + 1]
      BY <1>2, <3>1
    <3> QED
      BY <2>3, <3>2, <3>3
  <2> QED
    BY <2>2, <2>3
<1>6. Len(front \o back) = Len(s) - 1
  BY <1>0, <1>1, <1>2, <1>3
<1> QED
  BY <1>0, <1>3, <1>4, <1>5, <1>6

-----------------------------------------------------------------------------
\* A list of accounts and a selection in it.
Selection(list, index) ==
    /\ list \in Seq(WalletKeys) /\ IsInjective(list)
    /\ index \in Nat \ {0} /\ index <= IF list = <<>> THEN 1 ELSE Len(list)

DashboardTypes ==
    /\ loads \in Seq(WalletKeys) /\ loader \in Loaders /\ adding \subseteq WalletKeys
    /\ walletReady \in BOOLEAN /\ lastFailed \in BOOLEAN /\ overtaken \in BOOLEAN

\* Unless answers overtook each other, the newest request is for the account in use,
\* and the last answer was its own.
ViewFollows ==
    ~overtaken /\ Active # "none" =>
        IF loads = <<>> THEN lastFailed \/ view = Active
        ELSE loads[Len(loads)] = Active

DashboardInv == Selection(accounts, activeIndex) /\ DashboardTypes /\ ViewFollows

LEMMA ActiveIs == Active = ActiveOf(accounts, activeIndex)
BY DEF Active, ActiveOf

\* What is selected.
LEMMA Selected ==
    ASSUME NEW list, NEW index, Selection(list, index)
    PROVE  /\ list = <<>> => ActiveOf(list, index) = "none"
           /\ list # <<>> => /\ index \in 1 .. Len(list) /\ ActiveOf(list, index) = list[index]
                             /\ ActiveOf(list, index) \in WalletKeys
<1>1. list \in Seq(WalletKeys) /\ index \in Nat \ {0}
  BY DEF Selection
<1>2. CASE list = <<>>
  <2>1. Len(list) = 0
    BY <1>2, EmptySeq
  <2>2. ~(index \in 1 .. Len(list))
    BY <1>1, <2>1
  <2> QED
    BY <1>2, <2>2 DEF ActiveOf
<1>3. CASE list # <<>>
  <2>1. index \in 1 .. Len(list)
    <3>1. Len(list) \in Nat \ {0}
      BY <1>1, <1>3, EmptySeq
    <3> QED
      BY <1>1, <1>3, <3>1 DEF Selection
  <2>2. list[index] \in WalletKeys
    BY <1>1, <2>1, ElementOfSeq
  <2> QED
    BY <1>3, <2>1, <2>2 DEF ActiveOf
<1> QED
  BY <1>2, <1>3

\* A new key at the end of the list.
LEMMA AppendedAccount ==
    ASSUME NEW list \in Seq(WalletKeys), IsInjective(list), NEW k \in WalletKeys, ~Contains(list, k)
    PROVE  /\ Append(list, k) \in Seq(WalletKeys) /\ IsInjective(Append(list, k))
           /\ Len(Append(list, k)) = Len(list) + 1 /\ Len(list) \in Nat
           /\ \A j \in 1 .. Len(list) : Append(list, k)[j] = list[j]
           /\ Append(list, k) # <<>>
<1> DEFINE long == Append(list, k)
<1>1. /\ long \in Seq(WalletKeys) /\ Len(long) = Len(list) + 1 /\ Len(list) \in Nat
      /\ long[Len(list) + 1] = k /\ \A j \in 1 .. Len(list) : long[j] = list[j]
      /\ DOMAIN list = 1 .. Len(list)
  BY LenProperties, AppendProperties
<1>2. DOMAIN long = 1 .. Len(list) + 1
  BY <1>1, LenProperties
<1>3. \A j \in 1 .. Len(list) : list[j] # k
  BY DEF Contains
<1>4. long # <<>>
  BY <1>1, EmptySeq
<1> HIDE DEF long
<1>5. ASSUME NEW a \in DOMAIN long, NEW b \in DOMAIN long, long[a] = long[b] PROVE a = b
  <2>1. CASE a \in 1 .. Len(list) /\ b \in 1 .. Len(list)
    BY <1>1, <1>5, <2>1 DEF IsInjective
  <2>2. CASE ~(a \in 1 .. Len(list)) /\ ~(b \in 1 .. Len(list))
    <3>1. a = Len(list) + 1 /\ b = Len(list) + 1
      BY <1>1, <1>2, <2>2
    <3> QED
      BY <3>1
  <2>3. CASE a \in 1 .. Len(list) /\ ~(b \in 1 .. Len(list))
    <3>1. b = Len(list) + 1
      BY <1>1, <1>2, <2>3
    <3> QED
      BY <1>1, <1>3, <1>5, <2>3, <3>1
  <2>4. CASE ~(a \in 1 .. Len(list)) /\ b \in 1 .. Len(list)
    <3>1. a = Len(list) + 1
      BY <1>1, <1>2, <2>4
    <3> QED
      BY <1>1, <1>3, <1>5, <2>4, <3>1
  <2> QED
    BY <2>1, <2>2, <2>3, <2>4
<1> QED
  BY <1>1, <1>4, <1>5 DEF IsInjective, long

\* The list without an account, and the selection removeAccount computes.
LEMMA RemovedAccount ==
    ASSUME Selection(accounts, activeIndex), NEW i \in 1 .. Len(accounts), Len(accounts) > 1,
           NEW list, list = RemoveAt(accounts, i), NEW n, n = NextIndex(i, Len(accounts) - 1)
    PROVE  /\ Selection(list, n)
           /\ Contains(list, Active) => ActiveOf(list, n) = Active
<1>1. /\ accounts \in Seq(WalletKeys) /\ IsInjective(accounts) /\ Len(accounts) \in Nat
      /\ DOMAIN accounts = 1 .. Len(accounts)
  BY LenProperties DEF Selection
<1>2. /\ list \in Seq(WalletKeys) /\ Len(list) = Len(accounts) - 1
      /\ \A j \in 1 .. Len(accounts) - 1 : list[j] = IF j < i THEN accounts[j] ELSE accounts[j + 1]
  BY <1>1, RemovedEntries
<1>3. DOMAIN list = 1 .. Len(accounts) - 1 /\ list # <<>> /\ accounts # <<>>
  BY <1>1, <1>2, LenProperties, EmptySeq
<1>4. i \in Nat /\ 1 <= i /\ i <= Len(accounts)
  BY <1>1
<1>5. activeIndex \in 1 .. Len(accounts) /\ Active = accounts[activeIndex]
  BY <1>3, Selected, ActiveIs
<1> DEFINE shifted == IF activeIndex > i THEN activeIndex - 1 ELSE activeIndex
<1>6. shifted \in 1 .. Len(accounts) /\ n = IF shifted < Len(accounts) - 1 THEN shifted ELSE Len(accounts) - 1
  <2>1. n = IF shifted < Len(accounts) - 1 THEN shifted ELSE Len(accounts) - 1
    BY DEF NextIndex
  <2>2. CASE activeIndex > i
    <3>1. shifted = activeIndex - 1
      BY <2>2
    <3> HIDE DEF shifted
    <3>2. activeIndex \in Nat /\ activeIndex <= Len(accounts)
      BY <1>1, <1>5
    <3>3. shifted \in 1 .. Len(accounts)
      BY <1>1, <1>4, <2>2, <3>1, <3>2
    <3> QED
      BY <2>1, <3>3
  <2>3. CASE ~(activeIndex > i)
    <3>1. shifted = activeIndex
      BY <2>3
    <3> QED
      BY <1>5, <2>1, <3>1
  <2> QED
    BY <2>2, <2>3
<1> HIDE DEF shifted
<1>7. n \in 1 .. Len(accounts) - 1
  BY <1>1, <1>6
<1>8. IsInjective(list)
  <2> SUFFICES ASSUME NEW a \in 1 .. Len(accounts) - 1, NEW b \in 1 .. Len(accounts) - 1, list[a] = list[b]
               PROVE  a = b
    BY <1>3 DEF IsInjective
  <2> DEFINE from(j) == IF j < i THEN j ELSE j + 1
  <2>1. from(a) \in 1 .. Len(accounts) /\ from(b) \in 1 .. Len(accounts)
    BY <1>1, <1>4
  <2>2. list[a] = accounts[from(a)] /\ list[b] = accounts[from(b)]
    BY <1>2
  <2>3. from(a) = from(b)
    BY <1>1, <2>1, <2>2 DEF IsInjective
  <2> QED
    BY <1>1, <1>4, <2>3
<1>9. Selection(list, n)
  BY <1>1, <1>2, <1>3, <1>7, <1>8 DEF Selection
<1>10. ASSUME Contains(list, Active) PROVE ActiveOf(list, n) = Active
  <2>1. ActiveOf(list, n) = list[n]
    BY <1>3, <1>9, Selected
  <2>2. activeIndex # i
    <3> SUFFICES ASSUME activeIndex = i PROVE FALSE
      OBVIOUS
    <3>1. PICK j \in 1 .. Len(list) : list[j] = Active
      BY <1>10 DEF Contains
    <3>2. j \in 1 .. Len(accounts) - 1
      BY <1>2, <3>1
    <3>3. CASE j < i
      <4>1. accounts[j] = accounts[i] /\ j \in 1 .. Len(accounts) /\ j # i
        BY <1>1, <1>2, <1>4, <1>5, <3>1, <3>2, <3>3
      <4> QED
        BY <1>1, <4>1 DEF IsInjective
    <3>4. CASE ~(j < i)
      <4>1. accounts[j + 1] = accounts[i] /\ j + 1 \in 1 .. Len(accounts) /\ j + 1 # i
        BY <1>1, <1>2, <1>4, <1>5, <3>1, <3>2, <3>4
      <4> QED
        BY <1>1, <4>1 DEF IsInjective
    <3> QED
      BY <3>3, <3>4
  <2>3. CASE activeIndex > i
    <3>1. n = activeIndex - 1
      BY <1>1, <1>4, <1>5, <1>6, <2>3 DEF shifted
    <3>2. ~(n < i) /\ n + 1 = activeIndex
      BY <1>1, <1>4, <1>5, <2>3, <3>1
    <3> QED
      BY <1>2, <1>5, <1>7, <2>1, <3>2
  <2>4. CASE activeIndex < i
    <3>1. n = activeIndex
      BY <1>1, <1>4, <1>5, <1>6, <2>4 DEF shifted
    <3> QED
      BY <1>2, <1>5, <1>7, <2>1, <2>4, <3>1
  <2> QED
    BY <1>1, <1>4, <1>5, <2>2, <2>3, <2>4
<1> QED
  BY <1>9, <1>10

\* A step that keeps the account in use unless the user left it.
FocusStep ==
    /\ Len(accounts') < Len(accounts) \/ (walletReady' /\ ~walletReady)
    /\ Contains(accounts', Active)
    => ActiveOf(accounts', activeIndex') = Active

\* The list or the selection is set, and the effect of the loader runs.
LEMMA AccountsAreSet ==
    ASSUME DashboardInv, NEW list, NEW index, Selection(list, index), SetAccounts(list, index),
           adding' \subseteq WalletKeys, walletReady' \in BOOLEAN
    PROVE  DashboardInv'
<1> DEFINE a == ActiveOf(list, index)
<1>1. /\ accounts' = list /\ activeIndex' = index /\ Effect(a)
      /\ UNCHANGED <<loader, snapshots, view, lastFailed>>
  BY DEF SetAccounts
<1>2. Active' = a
  BY <1>1 DEF Active, ActiveOf
<1>3. a = "none" \/ a \in WalletKeys
  BY Selected
<1>4. DashboardTypes /\ ViewFollows
  BY DEF DashboardInv
<1>5. Selection(accounts, activeIndex)'
  BY <1>1 DEF Selection
<1> HIDE DEF a
<1>6. DashboardTypes' /\ ViewFollows'
  <2>1. CASE a = Active \/ a = "none"
    <3>1. UNCHANGED <<loads, overtaken>>
      BY <1>1, <2>1 DEF Effect
    <3>2. DashboardTypes'
      BY <1>1, <1>4, <3>1 DEF DashboardTypes
    <3>3. CASE a = "none"
      BY <1>2, <3>2, <3>3 DEF ViewFollows
    <3>4. CASE a # "none"
      <4>1. Active' = Active
        BY <1>2, <2>1, <3>4
      <4> QED
        BY <1>1, <1>4, <3>1, <3>2, <4>1 DEF ViewFollows
    <3> QED
      BY <3>3, <3>4
  <2>2. CASE ~(a = Active \/ a = "none")
    <3>1. loads' = Append(loads, a) /\ overtaken' = (overtaken /\ loads # <<>>) /\ a \in WalletKeys
      BY <1>1, <1>3, <2>2 DEF Effect
    <3>2. /\ loads' \in Seq(WalletKeys) /\ Len(loads') = Len(loads) + 1 /\ Len(loads) \in Nat
          /\ loads'[Len(loads) + 1] = a
      BY <1>4, <3>1, LenProperties, AppendProperties DEF DashboardTypes
    <3>3. loads' # <<>>
      BY <3>2, EmptySeq
    <3>4. overtaken' \in BOOLEAN
      BY <1>4, <3>1 DEF DashboardTypes
    <3>5. DashboardTypes'
      BY <1>1, <1>4, <3>2, <3>4 DEF DashboardTypes
    <3>6. loads'[Len(loads')] = Active'
      BY <1>2, <3>2
    <3> QED
      BY <3>3, <3>5, <3>6 DEF ViewFollows
  <2> QED
    BY <2>1, <2>2
<1> QED
  BY <1>5, <1>6 DEF DashboardInv

\* Steps that leave the accounts alone keep the account in use.
LEMMA SameAccounts ==
    ASSUME UNCHANGED accounts, walletReady' = walletReady \/ walletReady' = FALSE
    PROVE  FocusStep
<1>1. ~(Len(accounts') < Len(accounts))
  <2>1. Len(accounts') = Len(accounts)
    OBVIOUS
  <2> QED
    BY <2>1, SMT
<1> QED
  BY <1>1 DEF FocusStep

\* A key the wallet or the user adds.
LEMMA AddedIsSelected ==
    ASSUME DashboardInv, NEW k \in WalletKeys, ReduceAddAccount(k),
           adding' \subseteq WalletKeys, UNCHANGED walletReady
    PROVE  DashboardInv' /\ FocusStep
<1>1. /\ accounts \in Seq(WalletKeys) /\ IsInjective(accounts) /\ walletReady \in BOOLEAN
      /\ Len(accounts) \in Nat /\ DOMAIN accounts = 1 .. Len(accounts)
  BY LenProperties DEF DashboardInv, Selection, DashboardTypes
<1>2. CASE Contains(accounts, k)
  <2> DEFINE i == CHOOSE i \in DOMAIN accounts : accounts[i] = k
  <2>1. i \in 1 .. Len(accounts) /\ SetAccounts(accounts, i)
    BY <1>1, <1>2 DEF ReduceAddAccount, Contains
  <2> HIDE DEF i
  <2>2. accounts # <<>>
    BY <1>1, <2>1, EmptySeq
  <2>3. Selection(accounts, i)
    BY <1>1, <2>1, <2>2 DEF Selection
  <2>4. DashboardInv'
    BY <1>1, <2>1, <2>3, AccountsAreSet
  <2>5. accounts' = accounts
    BY <2>1 DEF SetAccounts
  <2> QED
    BY <2>4, <2>5, SameAccounts
<1>3. CASE ~Contains(accounts, k)
  <2> DEFINE list == Append(accounts, k)
  <2>1. SetAccounts(list, Len(accounts) + 1)
    BY <1>3 DEF ReduceAddAccount
  <2>2. /\ list \in Seq(WalletKeys) /\ IsInjective(list) /\ Len(list) = Len(accounts) + 1 /\ list # <<>>
    BY <1>1, <1>3, AppendedAccount
  <2> HIDE DEF list
  <2>3. Selection(list, Len(accounts) + 1)
    BY <1>1, <2>2 DEF Selection
  <2>4. DashboardInv'
    BY <1>1, <2>1, <2>3, AccountsAreSet
  <2>5. ~(Len(accounts') < Len(accounts))
    <3>1. accounts' = list
      BY <2>1 DEF SetAccounts
    <3> QED
      BY <1>1, <2>2, <3>1
  <2> QED
    BY <2>4, <2>5 DEF FocusStep
<1> QED
  BY <1>2, <1>3

\* The list is dropped.
LEMMA DroppedAccounts ==
    ASSUME DashboardInv, SetAccounts(<<>>, 1), adding' \subseteq WalletKeys, walletReady' \in BOOLEAN
    PROVE  DashboardInv' /\ FocusStep
<1>1. <<>> \in Seq(WalletKeys) /\ Len(<<>>) = 0 /\ DOMAIN <<>> = 1 .. Len(<<>>)
  BY EmptySeq, LenProperties
<1>2. Selection(<<>>, 1)
  BY <1>1 DEF Selection, IsInjective
<1>3. DashboardInv'
  BY <1>2, AccountsAreSet
<1>4. ~Contains(accounts', Active)
  BY <1>1 DEF SetAccounts, Contains
<1> QED
  BY <1>3, <1>4 DEF FocusStep

LEMMA MountKeeps ==
    ASSUME DashboardInv, NEW k \in Keys, MountCheck(k)
    PROVE  DashboardInv' /\ FocusStep
<1>1. /\ accounts \in Seq(WalletKeys) /\ IsInjective(accounts)
      /\ Len(accounts) \in Nat /\ DOMAIN accounts = 1 .. Len(accounts)
      /\ Selection(accounts, activeIndex) /\ adding' \subseteq WalletKeys /\ walletReady' \in BOOLEAN
  BY LenProperties DEF DashboardInv, Selection, DashboardTypes, MountCheck
<1>2. CASE k = "none"
  BY <1>1, <1>2, DroppedAccounts DEF MountCheck
<1>3. CASE k # "none" /\ Contains(accounts, k)
  <2>1. SetAccounts(accounts, activeIndex)
    BY <1>3 DEF MountCheck
  <2>2. DashboardInv'
    BY <1>1, <2>1, AccountsAreSet
  <2>3. ActiveOf(accounts', activeIndex') = Active
    BY <2>1, ActiveIs DEF SetAccounts
  <2> QED
    BY <2>2, <2>3 DEF FocusStep
<1>4. CASE k # "none" /\ ~Contains(accounts, k)
  <2> DEFINE list == Append(accounts, k)
             index == IF accounts = <<>> THEN 1 ELSE activeIndex
  <2>0. k \in WalletKeys
    BY <1>4 DEF Keys
  <2>1. SetAccounts(list, index)
    BY <1>4 DEF MountCheck
  <2>2. /\ list \in Seq(WalletKeys) /\ IsInjective(list) /\ Len(list) = Len(accounts) + 1 /\ list # <<>>
        /\ \A j \in 1 .. Len(accounts) : list[j] = accounts[j]
    BY <1>1, <1>4, <2>0, AppendedAccount
  <2> HIDE DEF list
  <2>3. CASE accounts = <<>>
    <3>1. index = 1 /\ Len(accounts) = 0 /\ Active = "none"
      BY <1>1, <2>3, Selected, ActiveIs, EmptySeq
    <3>2. Selection(list, index)
      BY <2>2, <3>1 DEF Selection
    <3>3. DashboardInv'
      BY <1>1, <2>1, <3>2, AccountsAreSet
    <3>4. ~Contains(accounts', Active)
      <4>1. accounts' = list
        BY <2>1 DEF SetAccounts
      <4>2. \A j \in 1 .. Len(list) : list[j] \in WalletKeys
        BY <2>2, ElementOfSeq
      <4> QED
        BY <3>1, <4>1, <4>2, DashboardAssumption DEF Contains
    <3> QED
      BY <3>3, <3>4 DEF FocusStep
  <2>4. CASE accounts # <<>>
    <3>1. index = activeIndex /\ activeIndex \in 1 .. Len(accounts) /\ Active = accounts[activeIndex]
      BY <1>1, <2>4, Selected, ActiveIs
    <3> HIDE DEF index
    <3>2. Selection(list, index)
      BY <1>1, <2>2, <3>1 DEF Selection
    <3>3. DashboardInv'
      BY <1>1, <2>1, <3>2, AccountsAreSet
    <3>4. ActiveOf(list, index) = list[index]
      BY <2>2, <3>2, Selected
    <3>5. ActiveOf(accounts', activeIndex') = Active
      BY <2>1, <2>2, <3>1, <3>4 DEF SetAccounts
    <3> QED
      BY <3>3, <3>5 DEF FocusStep
  <2> QED
    BY <2>3, <2>4
<1> QED
  BY <1>2, <1>3, <1>4

LEMMA SelectKeeps ==
    ASSUME DashboardInv, NEW i \in DOMAIN accounts, SetActiveAccount(i)
    PROVE  DashboardInv' /\ FocusStep
<1>1. /\ accounts \in Seq(WalletKeys) /\ IsInjective(accounts)
      /\ Len(accounts) \in Nat /\ DOMAIN accounts = 1 .. Len(accounts)
      /\ adding' \subseteq WalletKeys /\ walletReady' \in BOOLEAN /\ walletReady' = walletReady
  BY LenProperties DEF DashboardInv, Selection, DashboardTypes, SetActiveAccount
<1>2. SetAccounts(accounts, i) /\ i \in 1 .. Len(accounts) /\ accounts # <<>>
  BY <1>1, EmptySeq DEF SetActiveAccount
<1>3. Selection(accounts, i)
  BY <1>1, <1>2 DEF Selection
<1>4. DashboardInv'
  BY <1>1, <1>2, <1>3, AccountsAreSet
<1>5. accounts' = accounts
  BY <1>2 DEF SetAccounts
<1> QED
  BY <1>1, <1>4, <1>5, SameAccounts

LEMMA RemoveKeeps ==
    ASSUME DashboardInv, NEW i \in DOMAIN accounts, RemoveAccount(i)
    PROVE  DashboardInv' /\ FocusStep
<1> DEFINE list == RemoveAt(accounts, i)
           n == NextIndex(i, Len(accounts) - 1)
<1>1. /\ DOMAIN accounts = 1 .. Len(accounts) /\ Selection(accounts, activeIndex)
      /\ adding' \subseteq WalletKeys /\ walletReady' \in BOOLEAN
  BY LenProperties DEF DashboardInv, Selection, DashboardTypes, RemoveAccount
<1>2. Len(accounts) > 1 /\ SetAccounts(list, n)
  BY DEF RemoveAccount
<1>3. Selection(list, n) /\ (Contains(list, Active) => ActiveOf(list, n) = Active)
  BY <1>1, <1>2, RemovedAccount
<1> HIDE DEF list, n
<1>4. DashboardInv'
  BY <1>1, <1>2, <1>3, AccountsAreSet
<1>5. accounts' = list /\ activeIndex' = n
  BY <1>2 DEF SetAccounts
<1> QED
  BY <1>3, <1>4, <1>5 DEF FocusStep

LEMMA ProvedKeeps ==
    ASSUME DashboardInv, NEW k \in WalletKeys, AccountProved(k)
    PROVE  DashboardInv' /\ FocusStep
<1>1. adding' \subseteq WalletKeys /\ walletReady' = walletReady
  BY DEF AccountProved, DashboardInv, DashboardTypes
<1>2. CASE ReduceAddAccount(k)
  BY <1>1, <1>2, AddedIsSelected
<1>3. CASE UNCHANGED <<jwt, accounts, activeIndex, loader, loads, snapshots, view, lastFailed, overtaken>>
  <2>1. Selection(accounts, activeIndex)' /\ DashboardTypes' /\ ViewFollows'
    BY <1>1, <1>3 DEF DashboardInv, Selection, DashboardTypes, ViewFollows, Active
  <2> QED
    BY <1>1, <1>3, <2>1, SameAccounts DEF DashboardInv
<1> QED
  BY <1>2, <1>3 DEF AccountProved

LEMMA AddKeeps ==
    ASSUME DashboardInv, NEW k \in WalletKeys, AddAccount(k)
    PROVE  DashboardInv' /\ FocusStep
<1>1. /\ adding' \subseteq WalletKeys
      /\ UNCHANGED <<accounts, activeIndex, walletReady, loader, loads, view, lastFailed, overtaken>>
  BY DEF AddAccount, DashboardInv, DashboardTypes
<1>2. Selection(accounts, activeIndex)' /\ DashboardTypes' /\ ViewFollows'
  BY <1>1 DEF DashboardInv, Selection, DashboardTypes, ViewFollows, Active
<1> QED
  BY <1>1, <1>2, SameAccounts DEF DashboardInv

LEMMA DisconnectKeeps ==
    ASSUME DashboardInv, DisconnectWallet
    PROVE  DashboardInv' /\ FocusStep
<1>1. SetAccounts(<<>>, 1) /\ adding' \subseteq WalletKeys /\ walletReady' \in BOOLEAN
  BY DEF DisconnectWallet, DashboardInv, DashboardTypes
<1> QED
  BY <1>1, DroppedAccounts

LEMMA RefreshKeeps ==
    ASSUME DashboardInv, Refresh
    PROVE  DashboardInv' /\ FocusStep
<1>1. /\ Active # "none" /\ loads' = Append(loads, Active)
      /\ overtaken' = (overtaken /\ loads # <<>>)
      /\ UNCHANGED <<accounts, activeIndex, walletReady, adding, loader, view, lastFailed>>
  BY DEF Refresh
<1>2. DashboardTypes /\ Selection(accounts, activeIndex)
  BY DEF DashboardInv
<1>3. Active \in WalletKeys /\ Active' = Active
  <2>1. Active \in WalletKeys
    BY <1>1, <1>2, Selected, ActiveIs
  <2>2. Active' = Active
    BY <1>1 DEF Active
  <2> QED
    BY <2>1, <2>2
<1>4. /\ loads' \in Seq(WalletKeys) /\ Len(loads') = Len(loads) + 1 /\ Len(loads) \in Nat
      /\ loads'[Len(loads) + 1] = Active
  BY <1>1, <1>2, <1>3, LenProperties, AppendProperties DEF DashboardTypes
<1>5. loads' # <<>> /\ loads'[Len(loads')] = Active'
  BY <1>3, <1>4, EmptySeq
<1>6. overtaken' \in BOOLEAN
  BY <1>1, <1>2 DEF DashboardTypes
<1>7. DashboardTypes'
  BY <1>1, <1>2, <1>4, <1>6 DEF DashboardTypes
<1>8. ViewFollows'
  BY <1>5 DEF ViewFollows
<1>9. Selection(accounts, activeIndex)'
  BY <1>1, <1>2 DEF Selection
<1> QED
  BY <1>1, <1>7, <1>8, <1>9, SameAccounts DEF DashboardInv

LEMMA ReloadKeeps ==
    ASSUME DashboardInv, ReloadDashboard
    PROVE  DashboardInv' /\ FocusStep
<1>1. /\ walletReady' = FALSE /\ adding' = {} /\ activeIndex' = 1 /\ lastFailed' = FALSE
      /\ overtaken' = FALSE /\ UNCHANGED <<accounts, loader>>
      /\ loads' = IF accounts = <<>> THEN <<>> ELSE <<accounts[1]>>
  BY DEF ReloadDashboard
<1>2. /\ accounts \in Seq(WalletKeys) /\ IsInjective(accounts) /\ DashboardTypes
  BY DEF DashboardInv, Selection
<1>3. accounts # <<>> => Len(accounts) \in Nat \ {0} /\ accounts[1] \in WalletKeys
  BY <1>2, EmptySeq, ElementOfSeq
<1>4. Selection(accounts, 1)
  BY <1>2, <1>3 DEF Selection
<1>5. Selection(accounts, activeIndex)'
  BY <1>1, <1>4 DEF Selection
<1>6. Active' = ActiveOf(accounts, 1)
  BY <1>1 DEF Active, ActiveOf
<1>7. CASE accounts = <<>>
  <2>1. Active' = "none" /\ loads' \in Seq(WalletKeys)
    BY <1>1, <1>4, <1>6, <1>7, Selected, EmptySeq
  <2>2. DashboardTypes'
    BY <1>1, <1>2, <2>1 DEF DashboardTypes
  <2>3. ViewFollows'
    BY <2>1 DEF ViewFollows
  <2> QED
    BY <1>1, <1>5, <2>2, <2>3, SameAccounts DEF DashboardInv
<1>8. CASE accounts # <<>>
  <2>1. Active' = accounts[1]
    BY <1>4, <1>6, <1>8, Selected
  <2>2. loads' = <<accounts[1]>> /\ accounts[1] \in WalletKeys
    BY <1>1, <1>3, <1>8
  <2>3. loads' \in Seq(WalletKeys) /\ Len(loads') = 1 /\ loads'[1] = accounts[1] /\ loads' # <<>>
    BY <2>2
  <2>4. DashboardTypes'
    BY <1>1, <1>2, <2>3 DEF DashboardTypes
  <2>5. ViewFollows'
    BY <2>1, <2>3 DEF ViewFollows
  <2> QED
    BY <1>1, <1>5, <2>4, <2>5, SameAccounts DEF DashboardInv
<1> QED
  BY <1>7, <1>8

\* A loader shows the account of an answer that is no error.
LEMMA AnswersShow ==
    ASSUME DashboardTypes, NEW a, NEW offline
    PROVE  Loaded(a, TRUE, offline) = a
<1>1. loader \in AllLoaders
  BY DashboardAssumption DEF DashboardTypes
<1> QED
  BY <1>1 DEF AllLoaders, Loaded, FetchBalance, FetchPaymentStats, FetchContractEventCount,
              FetchSpendingHistory, FetchSparklineData, FetchThirtyDayVolume, FetchTopRecipients

LEMMA AnsweredKeeps ==
    ASSUME DashboardInv, NEW i, NEW ok \in BOOLEAN, NEW offline \in BOOLEAN, LoadAnswered(i, ok, offline)
    PROVE  DashboardInv' /\ FocusStep
<1>1. /\ i \in DOMAIN loads /\ loads' = RemoveAt(loads, i)
      /\ view' = Loaded(loads[i], ok, offline) /\ lastFailed' = ~ok
      /\ overtaken' = (overtaken \/ i > 1)
      /\ UNCHANGED <<accounts, activeIndex, walletReady, adding, loader>>
  BY DEF LoadAnswered
<1>2. DashboardTypes /\ Selection(accounts, activeIndex) /\ ViewFollows
  BY DEF DashboardInv
<1>3. i \in 1 .. Len(loads) /\ loads \in Seq(WalletKeys)
  BY <1>1, <1>2, LenProperties DEF DashboardTypes
<1>4. /\ loads' \in Seq(WalletKeys) /\ Len(loads') = Len(loads) - 1 /\ Len(loads) \in Nat
      /\ \A j \in 1 .. Len(loads) - 1 : loads'[j] = IF j < i THEN loads[j] ELSE loads[j + 1]
  BY <1>1, <1>3, RemovedEntries
<1>5. lastFailed' \in BOOLEAN /\ overtaken' \in BOOLEAN
  BY <1>1, <1>2 DEF DashboardTypes
<1>6. DashboardTypes'
  BY <1>1, <1>2, <1>4, <1>5 DEF DashboardTypes
<1>7. Selection(accounts, activeIndex)'
  BY <1>1, <1>2 DEF Selection
<1>8. Active' = Active
  BY <1>1 DEF Active
<1>9. ViewFollows'
  <2> SUFFICES ASSUME ~overtaken', Active # "none"
               PROVE  IF loads' = <<>> THEN lastFailed' \/ view' = Active
                      ELSE loads'[Len(loads')] = Active
    BY <1>8 DEF ViewFollows
  <2>1. ~overtaken /\ i = 1
    <3>1. ~overtaken /\ ~(i > 1)
      BY <1>1
    <3> QED
      BY <1>3, <1>4, <3>1
  <2>2. loads # <<>>
    BY <1>3, <2>1, EmptySeq
  <2>3. loads[Len(loads)] = Active
    BY <1>2, <2>1, <2>2 DEF ViewFollows
  <2>4. CASE loads' = <<>>
    <3>1. Len(loads) = 1
      <4>1. Len(loads') = 0
        BY <2>4, EmptySeq
      <4> QED
        BY <1>4, <4>1
    <3>2. loads[i] = Active
      BY <2>1, <2>3, <3>1
    <3>3. CASE ok = TRUE
      <4>1. view' = Loaded(Active, TRUE, offline)
        BY <1>1, <3>2, <3>3, Zenon
      <4> QED
        BY <1>2, <2>4, <4>1, AnswersShow
    <3>4. CASE ok = FALSE
      BY <1>1, <2>4, <3>4
    <3> QED
      BY <3>3, <3>4
  <2>5. CASE loads' # <<>>
    <3>1. Len(loads') \in Nat \ {0}
      BY <1>4, <2>5, EmptySeq
    <3>2. Len(loads) - 1 \in 1 .. Len(loads) - 1 /\ ~(Len(loads) - 1 < i) /\ (Len(loads) - 1) + 1 = Len(loads)
      BY <1>4, <2>1, <3>1
    <3>3. loads'[Len(loads')] = loads[Len(loads)]
      BY <1>4, <3>2
    <3> QED
      BY <2>3, <2>5, <3>3
  <2> QED
    BY <2>4, <2>5
<1> QED
  BY <1>1, <1>6, <1>7, <1>9, SameAccounts DEF DashboardInv

-----------------------------------------------------------------------------
LEMMA DashboardStart == DashboardInit => DashboardInv
<1> SUFFICES ASSUME DashboardInit PROVE DashboardInv
  OBVIOUS
<1>1. <<>> \in Seq(WalletKeys) /\ Len(<<>>) = 0 /\ DOMAIN <<>> = 1 .. Len(<<>>)
  BY EmptySeq, LenProperties
<1>2. Selection(accounts, activeIndex)
  BY <1>1 DEF DashboardInit, Selection, IsInjective
<1>3. DashboardTypes
  BY <1>1 DEF DashboardInit, DashboardTypes
<1>4. Active = "none"
  BY <1>2, Selected, ActiveIs DEF DashboardInit
<1> QED
  BY <1>2, <1>3, <1>4 DEF DashboardInv, ViewFollows

LEMMA DashboardStep ==
    ASSUME DashboardInv, [DashboardNext]_dashboardVars
    PROVE  DashboardInv' /\ FocusStep
<1>1. ASSUME NEW i \in 1 .. MaxLoads, NEW ok \in BOOLEAN, NEW offline \in BOOLEAN,
             LoadAnswered(i, ok, offline)
      PROVE  DashboardInv' /\ FocusStep
  BY <1>1, AnsweredKeeps
<1>2. ASSUME Refresh \/ DisconnectWallet \/ ReloadDashboard PROVE DashboardInv' /\ FocusStep
  BY <1>2, RefreshKeeps, DisconnectKeeps, ReloadKeeps
<1>3. ASSUME NEW k \in Keys, MountCheck(k) PROVE DashboardInv' /\ FocusStep
  BY <1>3, MountKeeps
<1>4. ASSUME NEW k \in WalletKeys, AddAccount(k) \/ AccountProved(k) PROVE DashboardInv' /\ FocusStep
  BY <1>4, AddKeeps, ProvedKeeps
<1>5. ASSUME NEW i \in DOMAIN accounts, SetActiveAccount(i) \/ RemoveAccount(i)
      PROVE  DashboardInv' /\ FocusStep
  BY <1>5, SelectKeeps, RemoveKeeps
<1>6. ASSUME UNCHANGED dashboardVars PROVE DashboardInv' /\ FocusStep
  <2>1. UNCHANGED <<accounts, activeIndex, walletReady, adding, loader, loads, view, lastFailed, overtaken>>
    BY <1>6 DEF dashboardVars
  <2>2. Selection(accounts, activeIndex)' /\ DashboardTypes' /\ ViewFollows'
    BY <2>1 DEF DashboardInv, Selection, DashboardTypes, ViewFollows, Active
  <2> QED
    BY <2>1, <2>2, SameAccounts DEF DashboardInv
<1> QED
  BY <1>1, <1>2, <1>3, <1>4, <1>5, <1>6 DEF DashboardNext

LEMMA DashboardShows ==
    ASSUME DashboardInv
    PROVE  SelectionIsValid /\ QuietViewIsActive
<1>1. SelectionIsValid
  BY DEF DashboardInv, Selection, SelectionIsValid
<1>2. QuietViewIsActive
  BY DEF DashboardInv, ViewFollows, QuietViewIsActive
<1> QED
  BY <1>1, <1>2

(***************************************************************************)
(* useWallet.tsx and dashboard.tsx: for any keys and any loader, the list  *)
(* of accounts holds none twice and the selection points into it, removing *)
(* another account or the check on mount never moves the focus, and a      *)
(* loader with nothing under way shows the account in use unless its last  *)
(* answer was an error or came out of order.                               *)
(***************************************************************************)
THEOREM DashboardFollowsAccount == DashboardSpec => DashboardKeepsAccount
<1>1. DashboardInv /\ [DashboardNext]_dashboardVars => DashboardInv' /\ FocusStep
  BY DashboardStep
<1>2. FocusStep => ( /\ Len(accounts') < Len(accounts) \/ (walletReady' /\ ~walletReady)
                     /\ Contains(accounts', Active)
                     => ActiveOf(accounts', activeIndex') = Active )
  BY DEF FocusStep
<1>3. DashboardInv => SelectionIsValid /\ QuietViewIsActive
  BY DashboardShows
<1> QED
  BY DashboardStart, <1>1, <1>2, <1>3, PTL DEF DashboardSpec, DashboardKeepsAccount, FocusIsKept

-----------------------------------------------------------------------------
(***************************************************************************)
(* The balance hook.  Everything under way was started for a run of the    *)
(* effect: one of the current run is for the connected account, and no     *)
(* run is later than the current one.                                      *)
(***************************************************************************)
Calls == [Connects -> Connecting \cup {NotConnecting}]
OfThisRun(w) == w.generation <= generation /\ (Current(w) => w.of = wallet)
CallsOfRuns(cs) == \A c \in Connects : cs[c] # NotConnecting => OfThisRun(cs[c].watch)

HookInv ==
    /\ BalanceHookTypeOK
    /\ wallet # "none" => generation # 0
    /\ reconnect # 0 \/ sourceRef # "none" => wallet # "none"
    /\ CallsOfRuns(conn)
    /\ \A w \in polls : OfThisRun(w)
    /\ pollTimer # NoWatch => OfThisRun(pollTimer)

LEMMA CallShapes ==
    /\ \A x \in Connecting : x.watch \in Watch /\ x.pc \in {"token", "ticket", "open"}
    /\ NotConnecting.pc = "idle"
    /\ NotConnecting \notin Connecting
    /\ \A w \in Watch : [pc |-> "token", watch |-> w] \in Connecting
    /\ \A x \in Connecting : [x EXCEPT !.pc = "ticket"] \in Connecting
    /\ \A x \in Connecting : [x EXCEPT !.pc = "open"] \in Connecting
    /\ \A x \in Connecting : [x EXCEPT !.pc = "ticket"].watch = x.watch
    /\ \A x \in Connecting : [x EXCEPT !.pc = "open"].watch = x.watch
    /\ \A x \in Connecting : [x EXCEPT !.pc = "ticket"].pc = "ticket"
    /\ \A x \in Connecting : [x EXCEPT !.pc = "open"].pc = "open"
<1>1. \A x \in Connecting : x.watch \in Watch /\ x.pc \in {"token", "ticket", "open"}
  BY DEF Connecting
<1>2. NotConnecting.pc = "idle"
  BY DEF NotConnecting
<1>3. NotConnecting \notin Connecting
  BY <1>1, <1>2
<1>4. \A w \in Watch : [pc |-> "token", watch |-> w] \in Connecting
  BY DEF Connecting
<1>5. ASSUME NEW x \in Connecting
      PROVE  /\ [x EXCEPT !.pc = "ticket"] \in Connecting
             /\ [x EXCEPT !.pc = "open"] \in Connecting
             /\ [x EXCEPT !.pc = "ticket"].watch = x.watch
             /\ [x EXCEPT !.pc = "open"].watch = x.watch
             /\ [x EXCEPT !.pc = "ticket"].pc = "ticket"
             /\ [x EXCEPT !.pc = "open"].pc = "open"
  BY <1>5 DEF Connecting
<1> QED
  BY <1>1, <1>2, <1>3, <1>4, <1>5

LEMMA WatchShapes ==
    /\ \A w \in Watch : w.of \in Wallets /\ w.generation \in 1 .. MaxSwitches
    /\ NoWatch \notin Watch
    /\ \A a \in Wallets, g \in 1 .. MaxSwitches : [of |-> a, generation |-> g] \in Watch
<1>1. \A w \in Watch : w.of \in Wallets /\ w.generation \in 1 .. MaxSwitches
  BY DEF Watch, Generations
<1>2. NoWatch \notin Watch
  <2>1. NoWatch.of = "none"
    BY DEF NoWatch
  <2> QED
    BY <1>1, <2>1, BalanceHookAssumption
<1>3. \A a \in Wallets, g \in 1 .. MaxSwitches : [of |-> a, generation |-> g] \in Watch
  BY DEF Watch, Generations
<1> QED
  BY <1>1, <1>2, <1>3

\* closeSource only frees calls.
LEMMA ClosedFrees ==
    ASSUME BalanceHookTypeOK
    PROVE  /\ Closed(conn) \in Calls
           /\ \A c \in Connects : Closed(conn)[c] \in {conn[c], NotConnecting}
<1>1. conn \in Calls /\ sourceRef \in Connects \cup {"none"}
  BY DEF BalanceHookTypeOK, Calls
<1> QED
  BY <1>1 DEF Closed, Calls

\* connect() takes one free call.
LEMMA StartedTakes ==
    ASSUME NEW cs \in Calls, CanConnect(cs), NEW w \in Watch
    PROVE  /\ Started(cs, w) \in Calls
           /\ \E c \in Connects :
                /\ cs[c] = NotConnecting
                /\ Started(cs, w)[c] = [pc |-> "token", watch |-> w]
                /\ \A d \in Connects \ {c} : Started(cs, w)[d] = cs[d]
<1> DEFINE n == CHOOSE c \in Connects : cs[c] = NotConnecting
<1>1. n \in Connects /\ cs[n] = NotConnecting
  BY DEF CanConnect
<1>2. Started(cs, w) = [cs EXCEPT ![n] = [pc |-> "token", watch |-> w]]
  BY DEF Started
<1>3. [pc |-> "token", watch |-> w] \in Connecting
  BY CallShapes
<1> HIDE DEF n
<1>4. Started(cs, w) \in Calls
  BY <1>1, <1>2, <1>3 DEF Calls
<1>5. Started(cs, w)[n] = [pc |-> "token", watch |-> w]
  BY <1>1, <1>2 DEF Calls
<1>6. \A d \in Connects \ {n} : Started(cs, w)[d] = cs[d]
  BY <1>1, <1>2 DEF Calls
<1> QED
  BY <1>1, <1>4, <1>5, <1>6

LEMMA HookTypes ==
    ASSUME BalanceHookTypeOK
    PROVE  /\ conn \in Calls /\ generation \in Nat /\ MaxSwitches \in Nat
           /\ \A c \in Connects : conn[c] = NotConnecting \/ conn[c] \in Connecting
           /\ \A c \in Connects : conn[c].pc # "idle" => conn[c] \in Connecting /\ conn[c] # NotConnecting
<1>1. conn \in Calls /\ generation \in Nat /\ MaxSwitches \in Nat
  BY BalanceHookAssumption DEF BalanceHookTypeOK, Calls
<1>2. \A c \in Connects : conn[c] = NotConnecting \/ conn[c] \in Connecting
  BY <1>1 DEF Calls
<1> QED
  BY <1>1, <1>2, CallShapes

LEMMA HookStart == BalanceHookInit => HookInv
<1> SUFFICES ASSUME BalanceHookInit PROVE HookInv
  OBVIOUS
<1>1. MaxSwitches \in Nat /\ MaxHides \in Nat
  BY BalanceHookAssumption
<1>2. conn \in [Connects -> Connecting \cup {NotConnecting}]
  BY DEF BalanceHookInit
<1>3. 0 \in 0 .. MaxSwitches /\ 0 \in 0 .. MaxHides
  BY <1>1
<1>4. BalanceHookTypeOK
  BY <1>2, <1>3 DEF BalanceHookInit, BalanceHookTypeOK
<1> QED
  BY <1>4 DEF BalanceHookInit, HookInv, CallsOfRuns

\* A step that starts and ends nothing of another run.
LEMMA SameRun ==
    ASSUME HookInv, UNCHANGED <<wallet, generation>>, BalanceHookTypeOK', CallsOfRuns(conn'),
           polls' \subseteq polls \cup {w \in Watch : OfThisRun(w)},
           pollTimer' \in {NoWatch, pollTimer} \cup {w \in Watch : OfThisRun(w)},
           reconnect' # 0 \/ sourceRef' # "none" => wallet # "none"
    PROVE  HookInv'
<1>1. \A w \in polls' : OfThisRun(w)
  BY DEF HookInv
<1>2. pollTimer' # NoWatch => OfThisRun(pollTimer')
  BY DEF HookInv
<1> QED
  BY <1>1, <1>2 DEF HookInv, OfThisRun, Current, CallsOfRuns

LEMMA PollingStarts ==
    ASSUME HookInv, NEW w \in Watch, StartPolling(w)
    PROVE  /\ pollTimer' \in Watch \cup {NoWatch} /\ polls' \subseteq Watch
           /\ polls' \subseteq polls \cup {w}
           /\ pollTimer' \in {NoWatch, pollTimer, w}
<1>1. pollTimer \in Watch \cup {NoWatch} /\ polls \subseteq Watch
  BY DEF HookInv, BalanceHookTypeOK
<1> QED
  BY <1>1 DEF StartPolling

LEMMA SwitchKeeps ==
    ASSUME HookInv, NEW a \in Wallets \cup {"none"}, SwitchWallet(a)
    PROVE  HookInv' /\ (shown' # shown => shown' = wallet')
<1> DEFINE w == [of |-> a, generation |-> generation + 1]
           left == IF wallet = "none" THEN conn ELSE Closed(conn)
           cs == IF a # "none" /\ ~hidden THEN Started(left, w) ELSE left
<1>1. /\ wallet' = a /\ generation' = generation + 1 /\ generation < MaxSwitches
      /\ (a # "none" /\ ~hidden => CanConnect(left))
      /\ IF wallet = "none" THEN UNCHANGED <<reconnect, pollTimer, sourceRef>>
         ELSE reconnect' = 0 /\ pollTimer' = NoWatch /\ sourceRef' = "none"
      /\ conn' = cs
      /\ shown' = IF a = "none" THEN "none" ELSE shown
      /\ UNCHANGED <<hidden, hides, polls>>
  BY DEF SwitchWallet, Teardown
<1>2. BalanceHookTypeOK /\ CallsOfRuns(conn) /\ \A x \in polls : OfThisRun(x)
  BY DEF HookInv
<1>3. conn \in Calls /\ generation \in Nat /\ MaxSwitches \in Nat
  BY <1>2, HookTypes
<1>4. generation + 1 \in 1 .. MaxSwitches
  BY <1>1, <1>3
<1>5. left \in Calls /\ \A c \in Connects : left[c] \in {conn[c], NotConnecting}
  BY <1>2, <1>3, ClosedFrees
<1>6. a # "none" => w \in Watch
  BY <1>4, WatchShapes
<1>7. cs \in Calls /\ \A c \in Connects :
          cs[c] \in {conn[c], NotConnecting} \/ cs[c] = [pc |-> "token", watch |-> w]
  <2>1. CASE a # "none" /\ ~hidden
    <3> HIDE DEF w, left
    <3>1. /\ Started(left, w) \in Calls
          /\ \E c \in Connects :
               /\ Started(left, w)[c] = [pc |-> "token", watch |-> w]
               /\ \A d \in Connects \ {c} : Started(left, w)[d] = left[d]
      BY <1>1, <1>5, <1>6, <2>1, StartedTakes
    <3> QED
      BY <1>5, <2>1, <3>1
  <2>2. CASE ~(a # "none" /\ ~hidden)
    BY <1>5, <2>2
  <2> QED
    BY <2>1, <2>2
<1> HIDE DEF cs
<1>t. pollTimer' \in {pollTimer, NoWatch} /\ reconnect' = 0 /\ sourceRef' = "none"
  BY <1>1 DEF HookInv
<1>8. BalanceHookTypeOK'
  BY <1>1, <1>2, <1>3, <1>4, <1>7, <1>t DEF BalanceHookTypeOK, Calls
<1> DEFINE Fits(x) == x.generation <= generation' /\ (x.generation = generation' => x.of = wallet')
<1>9. \A x \in Watch : OfThisRun(x) => Fits(x)
  <2> SUFFICES ASSUME NEW x \in Watch, OfThisRun(x) PROVE Fits(x)
    OBVIOUS
  <2>1. x.generation \in Nat
    BY <1>3, WatchShapes
  <2>2. x.generation <= generation
    BY DEF OfThisRun
  <2> QED
    BY <1>1, <1>3, <2>1, <2>2
<1>10. CallsOfRuns(conn)'
  <2>1. ASSUME NEW c \in Connects, cs[c] # NotConnecting PROVE Fits(cs[c].watch)
    <3>1. CASE cs[c] = conn[c]
      <4>1. OfThisRun(conn[c].watch) /\ conn[c].watch \in Watch
        BY <1>2, <2>1, <3>1, HookTypes, CallShapes DEF CallsOfRuns
      <4> QED
        BY <1>9, <3>1, <4>1
    <3>2. CASE cs[c] = [pc |-> "token", watch |-> w]
      <4>1. cs[c].watch.generation = generation + 1 /\ cs[c].watch.of = a
        BY <3>2
      <4> QED
        BY <1>1, <1>3, <4>1
    <3> QED
      BY <1>7, <2>1, <3>1, <3>2
  <2> QED
    BY <1>1, <2>1 DEF CallsOfRuns, OfThisRun, Current
<1>11. \A x \in polls' : OfThisRun(x)'
  BY <1>1, <1>2, <1>9 DEF BalanceHookTypeOK, OfThisRun, Current
<1>12. (pollTimer # NoWatch => OfThisRun(pollTimer))'
  <2> SUFFICES ASSUME pollTimer' # NoWatch PROVE OfThisRun(pollTimer)'
    OBVIOUS
  <2>1. pollTimer' = pollTimer /\ pollTimer \in Watch /\ OfThisRun(pollTimer)
    BY <1>2, <1>t DEF HookInv, BalanceHookTypeOK
  <2>2. Fits(pollTimer)
    BY <1>9, <2>1
  <2> QED
    BY <2>1, <2>2 DEF OfThisRun, Current
<1>13. HookInv'
  BY <1>1, <1>3, <1>8, <1>10, <1>11, <1>12, <1>t DEF HookInv
<1> QED
  BY <1>1, <1>13

LEMMA HideKeeps ==
    ASSUME HookInv, HideTab
    PROVE  HookInv' /\ UNCHANGED shown
<1>1. BalanceHookTypeOK /\ CallsOfRuns(conn)
  BY DEF HookInv
<1>2. hides' \in 0 .. MaxHides /\ hidden' \in BOOLEAN
  BY <1>1, BalanceHookAssumption DEF HideTab, BalanceHookTypeOK
<1>3. Closed(conn) \in Calls /\ \A c \in Connects : Closed(conn)[c] \in {conn[c], NotConnecting}
  BY <1>1, ClosedFrees
<1>4. CASE wallet = "none"
  <2>1. BalanceHookTypeOK'
    BY <1>1, <1>2, <1>4 DEF HideTab, BalanceHookTypeOK
  <2> QED
    BY <1>1, <1>4, <2>1, SameRun DEF HideTab, HookInv
<1>5. CASE wallet # "none"
  <2>1. /\ reconnect' = 0 /\ pollTimer' = NoWatch /\ sourceRef' = "none"
        /\ conn' = Closed(conn) /\ UNCHANGED <<wallet, generation, polls, shown>>
    BY <1>5 DEF HideTab, Teardown
  <2>2. 0 \in 0 .. MaxSwitches
    BY BalanceHookAssumption
  <2>3. BalanceHookTypeOK'
    BY <1>1, <1>2, <1>3, <2>1, <2>2 DEF BalanceHookTypeOK, Calls
  <2>4. CallsOfRuns(conn')
    BY <1>1, <1>3, <2>1 DEF CallsOfRuns
  <2> QED
    BY <2>1, <2>3, <2>4, SameRun
<1> QED
  BY <1>4, <1>5

\* connect() for the run of now.
LEMMA StartKeeps ==
    ASSUME HookInv, wallet # "none", CanConnect(conn)
    PROVE  LET cs == Started(conn, [of |-> wallet, generation |-> generation]) IN
           /\ cs \in Calls /\ CallsOfRuns(cs)
           /\ sourceRef # "none" => cs[sourceRef].pc = "open"
<1> DEFINE w == [of |-> wallet, generation |-> generation]
           cs == Started(conn, w)
<1>1. BalanceHookTypeOK /\ CallsOfRuns(conn) /\ generation # 0
  BY DEF HookInv
<1>2. conn \in Calls /\ generation \in Nat
  BY <1>1, HookTypes
<1>3. wallet \in Wallets /\ generation \in 1 .. MaxSwitches
  BY <1>1, BalanceHookAssumption DEF BalanceHookTypeOK
<1>4. w \in Watch /\ w.of = wallet /\ w.generation = generation
  BY <1>3, WatchShapes
<1>5. OfThisRun(w)
  BY <1>2, <1>4 DEF OfThisRun
<1> HIDE DEF w
<1>6. PICK c \in Connects :
         /\ conn[c] = NotConnecting
         /\ cs[c] = [pc |-> "token", watch |-> w]
         /\ \A d \in Connects \ {c} : cs[d] = conn[d]
  BY <1>2, <1>4, StartedTakes
<1>7. cs \in Calls
  BY <1>2, <1>4, StartedTakes
<1> HIDE DEF cs
<1>8. cs[c].watch = w
  BY <1>6
<1>9. CallsOfRuns(cs)
  BY <1>1, <1>5, <1>6, <1>8 DEF CallsOfRuns
<1>10. sourceRef # "none" => cs[sourceRef].pc = "open"
  BY <1>1, <1>6, CallShapes DEF BalanceHookTypeOK
<1> QED
  BY <1>7, <1>9, <1>10 DEF cs, w

LEMMA ShowKeeps ==
    ASSUME HookInv, ShowTab
    PROVE  HookInv' /\ UNCHANGED shown
<1>1. BalanceHookTypeOK /\ CallsOfRuns(conn)
  BY DEF HookInv
<1>2. /\ conn' \in Calls /\ CallsOfRuns(conn')
      /\ sourceRef # "none" => conn'[sourceRef].pc = "open"
  BY <1>1, HookTypes, StartKeeps DEF ShowTab, BalanceHookTypeOK
<1>3. BalanceHookTypeOK'
  BY <1>1, <1>2 DEF ShowTab, BalanceHookTypeOK, Calls
<1> QED
  BY <1>2, <1>3, SameRun DEF ShowTab, HookInv

LEMMA ReconnectKeeps ==
    ASSUME HookInv, ReconnectFires
    PROVE  HookInv' /\ UNCHANGED shown
<1>1. BalanceHookTypeOK /\ wallet # "none"
  BY DEF HookInv, ReconnectFires
<1>2. /\ conn' \in Calls /\ CallsOfRuns(conn')
      /\ sourceRef # "none" => conn'[sourceRef].pc = "open"
  BY <1>1, StartKeeps DEF ReconnectFires
<1>3. 0 \in 0 .. MaxSwitches
  BY BalanceHookAssumption
<1>4. BalanceHookTypeOK'
  BY <1>1, <1>2, <1>3 DEF ReconnectFires, BalanceHookTypeOK, Calls
<1> QED
  BY <1>2, <1>4, SameRun DEF ReconnectFires, HookInv

\* A step of one call that keeps its watch, or frees it.
LEMMA CallMoves ==
    ASSUME HookInv, NEW c \in Connects, conn[c].pc # "idle",
           NEW x, conn' = [conn EXCEPT ![c] = x],
           x = NotConnecting \/ (x \in Connecting /\ x.watch = conn[c].watch)
    PROVE  /\ conn' \in Calls /\ CallsOfRuns(conn')
           /\ \A d \in Connects \ {c} : conn'[d] = conn[d]
           /\ conn'[c] = x
<1>1. conn \in Calls /\ CallsOfRuns(conn) /\ conn[c] # NotConnecting
  BY HookTypes DEF HookInv
<1> QED
  BY <1>1 DEF Calls, CallsOfRuns

LEMMA CallWatch ==
    ASSUME HookInv, NEW c \in Connects, conn[c].pc # "idle"
    PROVE  /\ conn[c] \in Connecting /\ conn[c].watch \in Watch /\ OfThisRun(conn[c].watch)
           /\ Current(conn[c].watch) => conn[c].watch.of = wallet /\ wallet \in Wallets /\ wallet # "none"
<1>1. conn[c] \in Connecting /\ conn[c] # NotConnecting
  BY HookTypes DEF HookInv
<1>2. conn[c].watch \in Watch /\ OfThisRun(conn[c].watch)
  BY <1>1, CallShapes DEF HookInv, CallsOfRuns
<1>3. conn[c].watch.of \in Wallets
  BY <1>2, WatchShapes
<1> QED
  BY <1>1, <1>2, <1>3, BalanceHookAssumption DEF OfThisRun

LEMMA TokenKeeps ==
    ASSUME HookInv, NEW c \in Connects, TokenAnswered(c)
    PROVE  HookInv' /\ UNCHANGED shown
<1> DEFINE w == conn[c].watch
<1>1. BalanceHookTypeOK /\ conn[c].pc = "token" /\ conn \in Calls
  BY HookTypes DEF HookInv, TokenAnswered
<1>2. w \in Watch /\ OfThisRun(w) /\ conn[c] \in Connecting
  BY <1>1, CallWatch
<1>3. UNCHANGED <<wallet, generation, hidden, hides, sourceRef, reconnect, shown>>
  BY DEF TokenAnswered
<1>4. /\ \/ conn' = [conn EXCEPT ![c] = [conn[c] EXCEPT !.pc = "ticket"]]
         \/ conn' = [conn EXCEPT ![c] = NotConnecting]
      /\ UNCHANGED <<pollTimer, polls>> \/ StartPolling(w)
  BY <1>1 DEF TokenAnswered
<1>5. /\ pollTimer' \in Watch \cup {NoWatch} /\ polls' \subseteq Watch
      /\ polls' \subseteq polls \cup {w} /\ pollTimer' \in {NoWatch, pollTimer, w}
  BY <1>1, <1>2, <1>4, PollingStarts DEF BalanceHookTypeOK
<1>6. conn' \in Calls /\ CallsOfRuns(conn') /\ \A d \in Connects \ {c} : conn'[d] = conn[d]
  BY <1>1, <1>2, <1>4, CallShapes, CallMoves
<1> HIDE DEF w
<1>7. sourceRef # "none" => conn'[sourceRef].pc = "open"
  BY <1>1, <1>6 DEF BalanceHookTypeOK
<1>8. BalanceHookTypeOK'
  BY <1>1, <1>3, <1>5, <1>6, <1>7 DEF BalanceHookTypeOK, Calls
<1> QED
  BY <1>2, <1>3, <1>5, <1>6, <1>8, SameRun DEF HookInv

LEMMA TicketKeeps ==
    ASSUME HookInv, NEW c \in Connects, TicketGranted(c) \/ TicketRefused(c)
    PROVE  HookInv' /\ UNCHANGED shown
<1> DEFINE w == conn[c].watch
<1>1. BalanceHookTypeOK /\ conn[c].pc = "ticket" /\ conn \in Calls
  BY HookTypes DEF HookInv, TicketGranted, TicketRefused
<1>2. w \in Watch /\ OfThisRun(w) /\ conn[c] \in Connecting
  BY <1>1, CallWatch
<1>3. UNCHANGED <<wallet, generation, hidden, hides, reconnect, shown>>
  BY DEF TicketGranted, TicketRefused
<1>4. /\ \/ conn' = [conn EXCEPT ![c] = [conn[c] EXCEPT !.pc = "open"]] /\ sourceRef' = c
         \/ conn' = [conn EXCEPT ![c] = NotConnecting] /\ UNCHANGED sourceRef
      /\ UNCHANGED <<pollTimer, polls>> \/ StartPolling(w)
  <2>1. CASE TicketGranted(c)
    BY <1>1, <2>1 DEF TicketGranted
  <2>2. CASE TicketRefused(c)
    BY <1>1, <2>2 DEF TicketRefused
  <2> QED
    BY <2>1, <2>2
<1>s. sourceRef' # "none" => wallet # "none"
  <2>1. CASE TicketGranted(c) /\ Current(w)
    BY <1>1, <2>1, CallWatch
  <2>2. CASE ~(TicketGranted(c) /\ Current(w))
    BY <2>2 DEF TicketGranted, TicketRefused, HookInv
  <2> QED
    BY <2>1, <2>2
<1>5. /\ pollTimer' \in Watch \cup {NoWatch} /\ polls' \subseteq Watch
      /\ polls' \subseteq polls \cup {w} /\ pollTimer' \in {NoWatch, pollTimer, w}
  BY <1>1, <1>2, <1>4, PollingStarts DEF BalanceHookTypeOK
<1>6. conn' \in Calls /\ CallsOfRuns(conn') /\ \A d \in Connects \ {c} : conn'[d] = conn[d]
  <2>1. CASE conn' = [conn EXCEPT ![c] = NotConnecting]
    BY <1>1, <2>1, CallMoves
  <2>2. CASE conn' = [conn EXCEPT ![c] = [conn[c] EXCEPT !.pc = "open"]]
    <3> DEFINE x == [conn[c] EXCEPT !.pc = "open"]
    <3>1. x \in Connecting /\ x.watch = conn[c].watch
      BY <1>2, CallShapes
    <3>2. conn' = [conn EXCEPT ![c] = x]
      BY <2>2
    <3> HIDE DEF x
    <3> QED
      BY <1>1, <3>1, <3>2, CallMoves
  <2> QED
    BY <1>4, <2>1, <2>2
<1>7. sourceRef' \in Connects \cup {"none"} /\ (sourceRef' # "none" => conn'[sourceRef'].pc = "open")
  <2>1. CASE conn' = [conn EXCEPT ![c] = [conn[c] EXCEPT !.pc = "open"]] /\ sourceRef' = c
    <3>1. conn'[c] = [conn[c] EXCEPT !.pc = "open"]
      BY <1>1, <2>1 DEF Calls
    <3> QED
      BY <1>2, <2>1, <3>1, CallShapes
  <2>2. CASE UNCHANGED sourceRef
    BY <1>1, <1>6, <2>2 DEF BalanceHookTypeOK
  <2> QED
    BY <1>4, <2>1, <2>2
<1> HIDE DEF w
<1>8. BalanceHookTypeOK'
  BY <1>1, <1>3, <1>5, <1>6, <1>7 DEF BalanceHookTypeOK, Calls
<1> QED
  BY <1>2, <1>3, <1>5, <1>6, <1>8, <1>s, SameRun DEF HookInv

LEMMA EventKeeps ==
    ASSUME HookInv, NEW c \in Connects, BalanceEvent(c)
    PROVE  HookInv' /\ shown' = wallet'
<1>1. BalanceHookTypeOK /\ CallsOfRuns(conn) /\ conn[c].pc = "open" /\ Current(conn[c].watch)
  BY DEF HookInv, BalanceEvent
<1>2. conn[c].watch.of = wallet /\ wallet \in Wallets
  BY <1>1, CallWatch
<1>3. BalanceHookTypeOK'
  BY <1>1, <1>2 DEF BalanceEvent, BalanceHookTypeOK
<1>4. HookInv'
  BY <1>1, <1>3, SameRun DEF BalanceEvent, HookInv
<1> QED
  BY <1>2, <1>4 DEF BalanceEvent

LEMMA ErrorKeeps ==
    ASSUME HookInv, NEW c \in Connects, SourceError(c)
    PROVE  HookInv' /\ UNCHANGED shown
<1> DEFINE w == conn[c].watch
<1>1. BalanceHookTypeOK /\ CallsOfRuns(conn) /\ conn[c].pc = "open" /\ Current(w)
  BY DEF HookInv, SourceError
<1>2. w \in Watch /\ OfThisRun(w) /\ wallet # "none"
  BY <1>1, CallWatch
<1>3. /\ conn' = Closed(conn) /\ sourceRef' = "none" /\ reconnect' = generation /\ StartPolling(w)
      /\ UNCHANGED <<wallet, generation, hidden, hides, shown>>
  BY DEF SourceError
<1>4. /\ pollTimer' \in Watch \cup {NoWatch} /\ polls' \subseteq Watch
      /\ polls' \subseteq polls \cup {w} /\ pollTimer' \in {NoWatch, pollTimer, w}
  BY <1>2, <1>3, PollingStarts
<1>5. Closed(conn) \in Calls /\ \A d \in Connects : Closed(conn)[d] \in {conn[d], NotConnecting}
  BY <1>1, ClosedFrees
<1> HIDE DEF w
<1>6. CallsOfRuns(conn')
  BY <1>1, <1>3, <1>5 DEF CallsOfRuns
<1>7. BalanceHookTypeOK'
  BY <1>1, <1>3, <1>4, <1>5 DEF BalanceHookTypeOK, Calls
<1> QED
  BY <1>2, <1>3, <1>4, <1>6, <1>7, SameRun

LEMMA PollKeeps ==
    ASSUME HookInv,
           \/ PollTick
           \/ \E w \in Watch : PollAnswered(w) \/ PollFails(w)
    PROVE  HookInv' /\ (shown' # shown => shown' = wallet')
<1>1. BalanceHookTypeOK /\ CallsOfRuns(conn) /\ \A w \in polls : OfThisRun(w)
  BY DEF HookInv
<1>2. CASE PollTick
  <2>1. pollTimer \in Watch /\ OfThisRun(pollTimer)
    BY <1>1, <1>2 DEF PollTick, HookInv, BalanceHookTypeOK
  <2>2. BalanceHookTypeOK'
    BY <1>1, <1>2, <2>1 DEF PollTick, BalanceHookTypeOK
  <2> QED
    BY <1>1, <1>2, <2>1, <2>2, SameRun DEF PollTick, HookInv
<1>3. ASSUME NEW w \in Watch, PollAnswered(w) \/ PollFails(w)
      PROVE  HookInv' /\ (shown' # shown => shown' = wallet')
  <2>1. w \in polls /\ polls' = polls \ {w} /\ OfThisRun(w) /\ w.of \in Wallets
    BY <1>1, <1>3, WatchShapes DEF PollAnswered, PollFails
  <2>2. UNCHANGED <<wallet, generation, hidden, hides, conn, sourceRef, pollTimer, reconnect>>
    BY <1>3 DEF PollAnswered, PollFails
  <2>3. shown' = shown \/ (shown' = w.of /\ w.of = wallet)
    BY <1>3, <2>1 DEF PollAnswered, PollFails, OfThisRun
  <2>4. BalanceHookTypeOK'
    BY <1>1, <2>1, <2>2, <2>3 DEF BalanceHookTypeOK
  <2>5. HookInv'
    BY <1>1, <2>1, <2>2, <2>4, SameRun DEF HookInv
  <2> QED
    BY <2>2, <2>3, <2>5
<1> QED
  BY <1>2, <1>3

LEMMA HookStep ==
    ASSUME HookInv, [BalanceHookNext]_balanceHookVars
    PROVE  HookInv' /\ (shown' # shown => shown' = wallet')
<1>1. ASSUME NEW a \in Wallets \cup {"none"}, SwitchWallet(a)
      PROVE  HookInv' /\ (shown' # shown => shown' = wallet')
  BY <1>1, SwitchKeeps
<1>2. ASSUME HideTab \/ ShowTab \/ ReconnectFires PROVE HookInv' /\ UNCHANGED shown
  BY <1>2, HideKeeps, ShowKeeps, ReconnectKeeps
<1>3. ASSUME NEW c \in Connects, ConnectStep(c) \/ BalanceEvent(c) \/ SourceError(c)
      PROVE  HookInv' /\ (shown' # shown => shown' = wallet')
  BY <1>3, TokenKeeps, TicketKeeps, EventKeeps, ErrorKeeps DEF ConnectStep
<1>4. ASSUME UNCHANGED balanceHookVars PROVE HookInv' /\ UNCHANGED shown
  <2>1. UNCHANGED <<wallet, generation, hidden, hides, conn, sourceRef, pollTimer, polls, reconnect, shown>>
    BY <1>4 DEF balanceHookVars
  <2>2. BalanceHookTypeOK'
    BY <2>1 DEF HookInv, BalanceHookTypeOK
  <2> QED
    BY <2>1, <2>2, SameRun DEF HookInv
<1> QED
  BY <1>1, <1>2, <1>3, <1>4, PollKeeps DEF BalanceHookNext

(***************************************************************************)
(* useBalanceStream.ts: for any accounts, any number of connects and any   *)
(* bounds, the balance on the screen changes only to one of the account    *)
(* connected at that moment, or to none, whatever polls, tickets and       *)
(* EventSources an earlier run of the effect left under way.               *)
(***************************************************************************)
THEOREM HookShowsConnected == BalanceHookSpec => ShownIsConnected
<1>1. HookInv /\ [BalanceHookNext]_balanceHookVars => HookInv' /\ (shown' # shown => shown' = wallet')
  BY HookStep
<1> QED
  BY HookStart, <1>1, PTL DEF BalanceHookSpec, ShownIsConnected
================================================================================
