----------------------------- MODULE AnchorCallbacks -----------------------------
(***************************************************************************)
(* SEP-24 transfers through an anchor: sep24Service.js proxies a deposit or *)
(* withdrawal and takes the anchor's signed status callbacks, which         *)
(* verifyInboundWebhookSignature.js lets through once.  One backend         *)
(* process.  A status is its number in the anchor's order; a callback is    *)
(* named by transfer and status, which make its signature.  Which secrets   *)
(* are valid is the matter of InboundSecrets; the local mock store of       *)
(* SEP-24 is left out.                                                      *)
(***************************************************************************)
EXTENDS Naturals, FiniteSets

CONSTANTS
    Transfers,                      \* POST /deposit and /withdraw requests
    CallbackReqs,                   \* concurrent POST /callback requests
    LastStatus, MaxCallbackFaults   \* bounds of the model

ASSUME CallbackAssumption == {LastStatus, MaxCallbackFaults} \subseteq Nat \ {0}

VARIABLES
    anchorStatus,   \* status of a transfer at the anchor
    posted,         \* callbacks the anchor sends until they are acknowledged
    transferReq,    \* deposit and withdraw requests
    callback,       \* POST /callback requests
    nonces,         \* signatures seen (setIfNotExists)
    anchorTransactions, \* the process's records: status of a transfer, or none
    applied,        \* history: how often a callback was applied, up to twice
    outrun,      \* history: transfers whose answer or callbacks were outrun
    callbackFaults

callbackVars == <<anchorStatus, posted, transferReq, callback, nonces, anchorTransactions, applied, outrun, callbackFaults>>

Statuses == 0 .. LastStatus
Callback == [of : Transfers, status : Statuses]
NoCallback == [pc |-> "idle"]
Verifying == [pc : {"nonce", "handle"}, msg : Callback]
Unknown == LastStatus + 1

\* Type invariant.
CallbackTypeOK ==
    /\ anchorStatus \in [Transfers -> Statuses \cup {Unknown}]
    /\ posted \subseteq Callback /\ nonces \subseteq Callback
    /\ transferReq \in [Transfers -> {"unsent", "sent", "answered", "done"}]
    /\ callback \in [CallbackReqs -> Verifying \cup {NoCallback}]
    /\ anchorTransactions \in [Transfers -> Statuses \cup {Unknown}]
    /\ applied \in [Callback -> 0 .. 2]
    /\ outrun \subseteq Transfers
    /\ callbackFaults \in 0 .. MaxCallbackFaults

CallbackInit ==
    /\ anchorStatus = [t \in Transfers |-> Unknown]
    /\ posted = {} /\ nonces = {} /\ callback = [c \in CallbackReqs |-> NoCallback]
    /\ transferReq = [t \in Transfers |-> "unsent"]
    /\ anchorTransactions = [t \in Transfers |-> Unknown]
    /\ applied = [m \in Callback |-> 0]
    /\ outrun = {} /\ callbackFaults = 0

CallbackFault == callbackFaults < MaxCallbackFaults /\ callbackFaults' = callbackFaults + 1

--------------------------------------------------------------------------------
(* The anchor (external) *)

AnchorAdvances(t) ==
    /\ anchorStatus[t] < LastStatus
    /\ anchorStatus' = [anchorStatus EXCEPT ![t] = @ + 1]
    /\ posted' = posted \cup {[of |-> t, status |-> anchorStatus[t] + 1]}
    /\ UNCHANGED <<transferReq, callback, nonces, anchorTransactions, applied, outrun,
                   callbackFaults>>

--------------------------------------------------------------------------------
(* callAnchorDeposit, callAnchorWithdraw *)

CallAnchor(t) ==
    /\ transferReq[t] = "unsent"
    /\ transferReq' = [transferReq EXCEPT ![t] = "sent"]
    /\ UNCHANGED <<anchorStatus, posted, callback, nonces, anchorTransactions, applied,
                   outrun, callbackFaults>>

\* The anchor opens the transfer; its answer may be lost (502 to the user).
AnchorOpens(t) ==
    /\ transferReq[t] = "sent"
    /\ anchorStatus' = [anchorStatus EXCEPT ![t] = 0]
    /\ \/ transferReq' = [transferReq EXCEPT ![t] = "answered"] /\ UNCHANGED callbackFaults
       \/ transferReq' = [transferReq EXCEPT ![t] = "done"] /\ CallbackFault
    /\ UNCHANGED <<posted, callback, nonces, anchorTransactions, applied, outrun>>

\* The answer is stored as pending_external over what a callback brought.
StoreTransfer(t) ==
    /\ transferReq[t] = "answered"
    /\ transferReq' = [transferReq EXCEPT ![t] = "done"]
    /\ anchorTransactions' = [anchorTransactions EXCEPT ![t] = 0]
    /\ outrun' = IF anchorTransactions[t] = Unknown THEN outrun ELSE outrun \cup {t}
    /\ UNCHANGED <<anchorStatus, posted, callback, nonces, applied, callbackFaults>>

--------------------------------------------------------------------------------
(* POST /callback *)

\* The timestamp is fresh and an active secret matches.
VerifySignature(c, m) ==
    /\ callback[c] = NoCallback /\ m \in posted
    /\ callback' = [callback EXCEPT ![c] = [pc |-> "nonce", msg |-> m]]
    /\ UNCHANGED <<anchorStatus, posted, transferReq, nonces, anchorTransactions, applied,
                   outrun, callbackFaults>>

\* The anchor gives up on a callback that is answered 401 or not at all.
AnchorGivesUp(m) ==
    /\ m \in posted
    /\ posted' = posted \ {m}
    /\ UNCHANGED <<anchorStatus, transferReq, callback, nonces, anchorTransactions, applied,
                   outrun, callbackFaults>>

\* setIfNotExists: a signature seen before is refused.
CheckNonce(c) ==
    /\ callback[c].pc = "nonce"
    /\ callback' = [callback EXCEPT ![c] = IF @.msg \in nonces THEN NoCallback ELSE [@ EXCEPT !.pc = "handle"]]
    /\ nonces' = nonces \cup {callback[c].msg}
    /\ UNCHANGED <<anchorStatus, posted, transferReq, anchorTransactions, applied, outrun,
                   callbackFaults>>

HandleCallback_KeepFault(c) ==
    LET m == callback[c].msg IN
    /\ callback[c].pc = "handle"
    /\ anchorTransactions' = [anchorTransactions EXCEPT ![m.of] = IF @ = Unknown THEN m.status ELSE @]
    /\ applied' = [applied EXCEPT ![m] = IF @ < 2 THEN @ + 1 ELSE @]
    /\ posted' \in {posted, posted \ {m}}
    /\ callback' = [callback EXCEPT ![c] = NoCallback]
    /\ UNCHANGED <<anchorStatus, transferReq, nonces, outrun, callbackFaults>>

\* handleAnchorCallback takes over the status, whatever the record holds; the
\* answer may not reach the anchor.
HandleCallback(c) ==
    LET m == callback[c].msg IN
    /\ callback[c].pc = "handle"
    /\ anchorTransactions' = [anchorTransactions EXCEPT ![m.of] = m.status]
    /\ outrun' = IF anchorTransactions[m.of] \in Statuses /\ anchorTransactions[m.of] > m.status
                    THEN outrun \cup {m.of} ELSE outrun
    /\ applied' = [applied EXCEPT ![m] = IF @ < 2 THEN @ + 1 ELSE @]
    /\ posted' \in {posted, posted \ {m}}
    /\ callback' = [callback EXCEPT ![c] = NoCallback]
    /\ UNCHANGED <<anchorStatus, transferReq, nonces, callbackFaults>>

\* The nonce expires after twice the replay window, or its LRU entry is evicted.
NonceExpires(m) ==
    /\ m \in nonces /\ CallbackFault
    /\ nonces' = nonces \ {m}
    /\ UNCHANGED <<anchorStatus, posted, transferReq, callback, anchorTransactions, applied,
                   outrun>>

\* The process restarts with Redis holding the nonces, or without.
RestartBackend ==
    /\ CallbackFault
    /\ anchorTransactions' = [t \in Transfers |-> Unknown]
    /\ transferReq' = [t \in Transfers |-> IF transferReq[t] = "unsent" THEN "unsent" ELSE "done"]
    /\ callback' = [c \in CallbackReqs |-> NoCallback]
    /\ nonces' \in {nonces, {}}
    /\ UNCHANGED <<anchorStatus, posted, applied, outrun>>

--------------------------------------------------------------------------------
CallbackNext ==
    \/ \E t \in Transfers : AnchorAdvances(t) \/ CallAnchor(t) \/ AnchorOpens(t) \/ StoreTransfer(t)
    \/ \E c \in CallbackReqs, m \in posted : VerifySignature(c, m)
    \/ \E m \in posted : AnchorGivesUp(m)
    \/ \E m \in nonces : NonceExpires(m)
    \/ \E c \in CallbackReqs : CheckNonce(c) \/ HandleCallback(c)
    \/ RestartBackend

--------------------------------------------------------------------------------
(* A callback is applied once, although the anchor repeats it until it has  *)
(* the answer, as long as its nonce is kept.                                *)
CallbackAppliedOnce == \A m \in Callback : applied[m] > 1 => callbackFaults > 0

(* The record of a transfer holds the last status of all its applied        *)
(* callbacks, unless the stored answer or a callback overtook another one   *)
(* or the process restarted and forgot.                                     *)
AppliedIsRecorded ==
    \A m \in Callback :
      applied[m] > 0 /\ m.of \notin outrun /\ callbackFaults = 0 => anchorTransactions[m.of] >= m.status

(* The record of a transfer follows the anchor: every callback is applied   *)
(* once and none is forgotten.                                              *)
RecordFollowsAnchor == CallbackAppliedOnce /\ AppliedIsRecorded
================================================================================
