----------------------------- MODULE InboundSecrets -----------------------------
(***************************************************************************)
(* Shared secrets of inbound webhook endpoints                              *)
(* (inboundWebhookSecretService.js), for one endpoint: overlapping          *)
(* rotations, revocation by hand and grace periods.  Every query is a step. *)
(***************************************************************************)
EXTENDS Naturals

CONSTANTS
    Rotations,     \* calls of rotateSecret (bound)
    MaxSecrets     \* bound of the model

ASSUME SecretAssumption == MaxSecrets \in Nat \ {0}

VARIABLES
    secrets,        \* table inbound_webhook_secrets
    rotation,       \* rotateSecret calls
    revoked         \* history: secrets revoked by hand

secretVars == <<secrets, rotation, revoked>>

SecretIds == 1 .. MaxSecrets
NoSecret == [active |-> FALSE, expires |-> "unborn"]
\* expires: expires_at is null, lies ahead or has passed
Secret == [active : BOOLEAN, expires : {"null", "ahead", "passed"}]
NotRotating == [pc |-> "idle"]
Rotating == [pc : {"insert", "retire"}, old : SUBSET SecretIds, grace : BOOLEAN]

\* Type invariant.
SecretTypeOK ==
    /\ secrets \in [SecretIds -> Secret \cup {NoSecret}]
    /\ rotation \in [Rotations -> Rotating \cup {NotRotating, [pc |-> "done"]}]
    /\ revoked \subseteq SecretIds

\* ensureSecretExists made the first secret at startup.
SecretInit ==
    /\ secrets = [k \in SecretIds |-> IF k = 1 THEN [active |-> TRUE, expires |-> "null"] ELSE NoSecret]
    /\ rotation = [r \in Rotations |-> NotRotating]
    /\ revoked = {}

Born(k) == secrets[k] # NoSecret
Newest(k) == Born(k) /\ \A j \in SecretIds : Born(j) => j <= k
\* getActiveSecrets
Valid(k) == secrets[k].active /\ secrets[k].expires # "passed"

--------------------------------------------------------------------------------
StartRotation(r, grace) ==
    /\ rotation[r] = NotRotating
    /\ rotation' = [rotation EXCEPT ![r] =
         [pc |-> "insert", old |-> {k \in SecretIds : secrets[k].active}, grace |-> grace]]
    /\ UNCHANGED <<secrets, revoked>>

CreateSecret_ReadLateFault(r, k) ==
    /\ rotation[r].pc = "insert" /\ ~Born(k) /\ \A j \in 1 .. k - 1 : Born(j)
    /\ secrets' = [secrets EXCEPT ![k] = [active |-> TRUE, expires |-> "null"]]
    /\ rotation' = [rotation EXCEPT ![r] =
         [@ EXCEPT !.pc = "retire", !.old = {j \in SecretIds : secrets'[j].active}]]
    /\ UNCHANGED revoked

CreateSecret(r, k) ==
    /\ rotation[r].pc = "insert" /\ ~Born(k) /\ \A j \in 1 .. k - 1 : Born(j)
    /\ secrets' = [secrets EXCEPT ![k] = [active |-> TRUE, expires |-> "null"]]
    /\ rotation' = [rotation EXCEPT ![r].pc = "retire"]
    /\ UNCHANGED revoked

\* The secrets that were active, also those whose grace has passed, get a new
\* grace period; without one they are deactivated.
RetireSecrets(r) ==
    /\ rotation[r].pc = "retire"
    /\ secrets' = [k \in SecretIds |->
         IF k \notin rotation[r].old THEN secrets[k]
         ELSE IF rotation[r].grace THEN [secrets[k] EXCEPT !.expires = "ahead"]
         ELSE [secrets[k] EXCEPT !.active = FALSE]]
    /\ rotation' = [rotation EXCEPT ![r] = [pc |-> "done"]]
    /\ UNCHANGED revoked

RevokeSecret(k) ==
    /\ Born(k) /\ k \notin revoked
    /\ secrets' = [secrets EXCEPT ![k] = [active |-> FALSE, expires |-> "passed"]]
    /\ revoked' = revoked \cup {k}
    /\ UNCHANGED rotation

GracePasses(k) ==
    /\ secrets[k].expires = "ahead"
    /\ secrets' = [secrets EXCEPT ![k].expires = "passed"]
    /\ UNCHANGED <<rotation, revoked>>

--------------------------------------------------------------------------------
SecretNext ==
    \/ \E r \in Rotations : RetireSecrets(r) \/ \E grace \in BOOLEAN : StartRotation(r, grace)
    \/ \E r \in Rotations, k \in SecretIds : CreateSecret(r, k)
    \/ \E k \in SecretIds : RevokeSecret(k) \/ GracePasses(k)

--------------------------------------------------------------------------------
(* An endpoint is never left without a secret: the newest one is valid      *)
(* whatever rotations overlap, die half-way or end their grace, unless it   *)
(* was revoked by hand.                                                     *)
NewestSecretIsValid == \A k \in SecretIds : Newest(k) => Valid(k) \/ k \in revoked

(* A revoked secret never verifies again, also when a rotation that read it *)
(* as active retires it with a grace period afterwards (revokeSecret:       *)
(* "regardless of any grace period").                                       *)
RevokedStaysRevoked == \A k \in revoked : ~Valid(k)

(* An endpoint can always be verified, and never with a secret that was     *)
(* revoked.                                                                 *)
SecretsAreUsable == NewestSecretIsValid /\ RevokedStaysRevoked
================================================================================
