-------------------------------- MODULE MCClient --------------------------------
(***************************************************************************)
(* Three parts of the web client, the offline queue, the balance hook and  *)
(* the send form, and the backend's balance feed.  They share no variable  *)
(* here, so `part` picks the one whose behaviours are generated and the    *)
(* others stay in their initial state; the fairness of a part binds only   *)
(* its own behaviours.                                                     *)
(***************************************************************************)
EXTENDS OfflineQueue, BalanceHook, SendPayment, BalanceFeed

VARIABLE part

clientVars == <<part, offlineVars, balanceHookVars, sendVars, balanceFeedVars>>

ClientInit ==
    /\ part \in {"offline", "hook", "send", "feed"}
    /\ OfflineInit /\ BalanceHookInit /\ SendInit /\ BalanceFeedInit
    /\ part # "feed" => redisReady

\* Bound: faults of the feed are looked at with one payment, a second payment
\* without faults.
OnePaymentOrNoFault == ledgerBalance' <= 1 \/ feedFaults' = 0

ClientNext ==
    \/ /\ part = "offline" /\ OfflineNext
       /\ UNCHANGED <<part, balanceHookVars, sendVars, balanceFeedVars>>
    \/ /\ part = "hook" /\ BalanceHookNext
       /\ UNCHANGED <<part, offlineVars, sendVars, balanceFeedVars>>
    \/ /\ part = "send" /\ SendNext
       /\ UNCHANGED <<part, offlineVars, balanceHookVars, balanceFeedVars>>
    \/ /\ part = "feed" /\ BalanceFeedNext /\ OnePaymentOrNoFault
       /\ UNCHANGED <<part, offlineVars, balanceHookVars, sendVars>>

\* Offline queue: every started run goes on, the browser is online again and
\* again, and a connected page or worker starts a run (the online, sync and retry
\* handlers).  Balance hook: awaits end, timers fire, polls do not fail for ever,
\* and the server sends a balance as soon as a stream is open.  Send form: every
\* await ends, the wallet answers and requests time out.  Feed: every started
\* call goes on and Horizon reports payments on an open stream.
ClientFairness ==
    /\ \A d \in Drains : WF_offlineVars(part = "offline" /\ DrainStep(d))
    /\ SF_offlineVars(part = "offline" /\ \E d \in Drains : StartDrain(d))
    /\ WF_offlineVars(part = "offline" /\ ConnectivityChanges /\ ~online)
    /\ \A c \in Connects : WF_balanceHookVars(part = "hook" /\ ConnectStep(c))
    /\ SF_balanceHookVars(part = "hook" /\ \E c \in Connects : BalanceEvent(c))
    /\ WF_balanceHookVars(part = "hook" /\ ReconnectFires)
    /\ WF_balanceHookVars(part = "hook" /\ PollTick)
    /\ SF_balanceHookVars(part = "hook" /\ \E w \in polls : Current(w) /\ PollAnswered(w))
    /\ WF_sendVars(part = "send" /\ \E s \in Sends : SendStep(s))
    /\ WF_balanceFeedVars(part = "feed" /\ PaymentReported)
    /\ WF_balanceFeedVars(part = "feed" /\ \E r \in Refreshes : RefreshStep(r))

ClientSpec == ClientInit /\ [][ClientNext]_clientVars /\ ClientFairness

(* Every record the browser keeps, every screen value, cache entry and run  *)
(* under way holds a value of its type.                                     *)
ClientTypeOK ==
    /\ part = "offline" => OfflineTypeOK
    /\ part = "hook" => BalanceHookTypeOK
    /\ part = "send" => SendTypeOK
    /\ part = "feed" => BalanceFeedTypeOK
=============================================================================
