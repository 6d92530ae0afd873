------------------------------ MODULE BalanceHook ------------------------------
(***************************************************************************)
(* useBalanceStream: the balance of the dashboard, over an EventSource with *)
(* polling as the fallback, while the user switches accounts and hides or  *)
(* shows the tab.  Every await of connect and every poll is a step of its  *)
(* own.  A balance is named by the account it belongs to; the generation   *)
(* counts runs of the effect.  reconcile is left out: nothing calls it.    *)
(***************************************************************************)
EXTENDS Naturals, FiniteSets

CONSTANTS
    Wallets,                  \* accounts the user may connect
    Connects,                 \* connect() calls and their EventSources (bound)
    MaxSwitches, MaxHides     \* bounds of the model

ASSUME BalanceHookAssumption ==
    /\ {MaxSwitches, MaxHides} \subseteq Nat
    /\ "none" \notin Wallets

VARIABLES
    wallet,         \* publicKey, or "none"
    generation,     \* generationRef
    hidden,         \* document.hidden
    hides,          \* how often the tab was hidden
    conn,           \* connect() calls; one that got its ticket is an open EventSource
    sourceRef,      \* the EventSource that closeSource closes
    pollTimer,      \* what the interval of pollTimerRef polls
    polls,          \* getXLMBalance calls under way
    reconnect,      \* generation the reconnect timer belongs to, 0 when not set
    shown           \* account of the confirmed balance on the screen

balanceHookVars == <<wallet, generation, hidden, hides, conn, sourceRef, pollTimer, polls,
                     reconnect, shown>>

Generations == 1 .. MaxSwitches
Watch == [of : Wallets, generation : Generations]
NotConnecting == [pc |-> "idle"]
Connecting == [pc : {"token", "ticket", "open"}, watch : Watch]
NoWatch == [of |-> "none"]

\* Type invariant.
BalanceHookTypeOK ==
    /\ wallet \in Wallets \cup {"none"} /\ shown \in Wallets \cup {"none"}
    /\ generation \in 0 .. MaxSwitches
    /\ hidden \in BOOLEAN /\ hides \in 0 .. MaxHides
    /\ conn \in [Connects -> Connecting \cup {NotConnecting}]
    /\ sourceRef \in Connects \cup {"none"}
    /\ sourceRef # "none" => conn[sourceRef].pc = "open"
    /\ pollTimer \in Watch \cup {NoWatch} /\ polls \subseteq Watch
    /\ reconnect \in 0 .. MaxSwitches

BalanceHookInit ==
    /\ wallet = "none" /\ generation = 0 /\ hidden = FALSE /\ hides = 0
    /\ conn = [c \in Connects |-> NotConnecting]
    /\ sourceRef = "none" /\ pollTimer = NoWatch /\ polls = {} /\ reconnect = 0
    /\ shown = "none"

--------------------------------------------------------------------------------
\* sourceRef.current?.close()
Closed(cs) == IF sourceRef = "none" THEN cs ELSE [cs EXCEPT ![sourceRef] = NotConnecting]

\* connect() up to its first await, in the first free call.
CanConnect(cs) == \E c \in Connects : cs[c] = NotConnecting
Started(cs, w) ==
    [cs EXCEPT ![CHOOSE c \in Connects : cs[c] = NotConnecting] = [pc |-> "token", watch |-> w]]

Teardown_KeepSourceFault ==
    /\ reconnect' = 0
    /\ pollTimer' = NoWatch
    /\ UNCHANGED sourceRef

\* teardown()
Teardown ==
    /\ reconnect' = 0
    /\ pollTimer' = NoWatch
    /\ sourceRef' = "none"

\* startPolling: an interval that is set is kept, whatever it polls.
StartPolling(w) ==
    /\ pollTimer' = IF pollTimer = NoWatch THEN w ELSE pollTimer
    /\ polls' = IF pollTimer = NoWatch THEN polls \cup {w} ELSE polls

\* The effect: the cleanup of its last run, then the new run.  A run without an
\* account has no cleanup, so an interval set meanwhile outlives it.
SwitchWallet(a) ==
    LET w == [of |-> a, generation |-> generation + 1]
        left == IF wallet = "none" THEN conn ELSE Closed(conn) IN
    /\ wallet # a /\ generation < MaxSwitches
    /\ a # "none" /\ ~hidden => CanConnect(left)
    /\ wallet' = a
    /\ generation' = generation + 1
    /\ IF wallet = "none" THEN UNCHANGED <<reconnect, pollTimer, sourceRef>> ELSE Teardown
    /\ conn' = IF a # "none" /\ ~hidden THEN Started(left, w) ELSE left
    /\ shown' = IF a = "none" THEN "none" ELSE shown
    /\ UNCHANGED <<hidden, hides, polls>>

\* visibilitychange, which the effect listens to while there is an account.
HideTab ==
    /\ ~hidden /\ hides < MaxHides
    /\ hidden' = TRUE /\ hides' = hides + 1
    /\ IF wallet = "none" THEN UNCHANGED <<reconnect, pollTimer, sourceRef, conn>>
       ELSE Teardown /\ conn' = Closed(conn)
    /\ UNCHANGED <<wallet, generation, polls, shown>>

ShowTab ==
    /\ hidden
    /\ wallet # "none" => CanConnect(conn)
    /\ hidden' = FALSE
    /\ conn' = IF wallet = "none" THEN conn
               ELSE Started(conn, [of |-> wallet, generation |-> generation])
    /\ UNCHANGED <<wallet, generation, hides, sourceRef, pollTimer, polls, reconnect, shown>>

--------------------------------------------------------------------------------
(* connect *)

Current(w) == w.generation = generation

\* ensureAccessToken answers with a token or without one.
TokenAnswered(c) ==
    /\ conn[c].pc = "token"
    /\ \/ /\ Current(conn[c].watch)
          /\ conn' = [conn EXCEPT ![c].pc = "ticket"]
          /\ UNCHANGED <<pollTimer, polls>>
       \/ /\ conn' = [conn EXCEPT ![c] = NotConnecting]
          /\ IF Current(conn[c].watch) THEN StartPolling(conn[c].watch) ELSE UNCHANGED <<pollTimer, polls>>
    /\ UNCHANGED <<wallet, generation, hidden, hides, sourceRef, reconnect, shown>>

\* The ticket arrives: the EventSource replaces the one sourceRef held.
TicketGranted(c) ==
    /\ conn[c].pc = "ticket"
    /\ IF Current(conn[c].watch)
       THEN /\ conn' = [conn EXCEPT ![c].pc = "open"]
            /\ sourceRef' = c
       ELSE /\ conn' = [conn EXCEPT ![c] = NotConnecting]
            /\ UNCHANGED sourceRef
    /\ UNCHANGED <<wallet, generation, hidden, hides, pollTimer, polls, reconnect, shown>>

\* The ticket request fails: polling starts without a look at the generation.
TicketRefused(c) ==
    /\ conn[c].pc = "ticket"
    /\ conn' = [conn EXCEPT ![c] = NotConnecting]
    /\ StartPolling(conn[c].watch)
    /\ UNCHANGED <<wallet, generation, hidden, hides, sourceRef, reconnect, shown>>

\* A balance event: the stream works, polling stops.
BalanceEvent(c) ==
    /\ conn[c].pc = "open" /\ Current(conn[c].watch)
    /\ shown' = conn[c].watch.of
    /\ pollTimer' = NoWatch
    /\ UNCHANGED <<wallet, generation, hidden, hides, conn, sourceRef, polls, reconnect>>

\* onerror closes what sourceRef holds, polls, and arms the reconnect timer.
SourceError(c) ==
    /\ conn[c].pc = "open" /\ Current(conn[c].watch)
    /\ conn' = Closed(conn)
    /\ sourceRef' = "none"
    /\ StartPolling(conn[c].watch)
    /\ reconnect' = generation
    /\ UNCHANGED <<wallet, generation, hidden, hides, shown>>

ReconnectFires ==
    /\ reconnect # 0 /\ CanConnect(conn)
    /\ reconnect' = 0
    /\ conn' = Started(conn, [of |-> wallet, generation |-> generation])
    /\ UNCHANGED <<wallet, generation, hidden, hides, sourceRef, pollTimer, polls, shown>>

--------------------------------------------------------------------------------
(* Polling *)

PollTick ==
    /\ pollTimer # NoWatch
    /\ polls' = polls \cup {pollTimer}
    /\ UNCHANGED <<wallet, generation, hidden, hides, conn, sourceRef, pollTimer, reconnect, shown>>

PollAnswered_UnguardedFault(w) ==
    /\ w \in polls
    /\ polls' = polls \ {w}
    /\ shown' = w.of
    /\ UNCHANGED <<wallet, generation, hidden, hides, conn, sourceRef, pollTimer, reconnect>>

\* An answer for an earlier generation is dropped.
PollAnswered(w) ==
    /\ w \in polls
    /\ polls' = polls \ {w}
    /\ shown' = IF Current(w) THEN w.of ELSE shown
    /\ UNCHANGED <<wallet, generation, hidden, hides, conn, sourceRef, pollTimer, reconnect>>

PollFails(w) ==
    /\ w \in polls
    /\ polls' = polls \ {w}
    /\ UNCHANGED <<wallet, generation, hidden, hides, conn, sourceRef, pollTimer, reconnect, shown>>

--------------------------------------------------------------------------------
ConnectStep(c) == TokenAnswered(c) \/ TicketGranted(c) \/ TicketRefused(c)

BalanceHookNext ==
    \/ \E a \in Wallets \cup {"none"} : SwitchWallet(a)
    \/ HideTab \/ ShowTab
    \/ \E c \in Connects : ConnectStep(c) \/ BalanceEvent(c) \/ SourceError(c)
    \/ ReconnectFires
    \/ PollTick
    \/ \E w \in Watch : PollAnswered(w) \/ PollFails(w)

BalanceHookSpec == BalanceHookInit /\ [][BalanceHookNext]_balanceHookVars

--------------------------------------------------------------------------------
(* What changes the screen is for the connected account: a slow answer      *)
(* never brings back an account the user has left, whatever polls, connects *)
(* and streams were under way when the account changed (generationRef).     *)
(* The balance already on the screen stays over a direct change of account  *)
(* until the new one arrives.                                               *)
ShownIsConnected == [][shown' # shown => shown' = wallet']_balanceHookVars

\* The interval belongs to an account the user has left.
StaleTimer == pollTimer # NoWatch /\ ~Current(pollTimer)

(* The balance of the connected account comes up in a visible tab, over the *)
(* stream or by polling, unless the interval of an account the user has     *)
(* left keeps startPolling from starting one for the new account.           *)
BalanceComesUp ==
    \A a \in Wallets :
      (wallet = a /\ ~hidden) ~> (shown = a \/ wallet # a \/ hidden \/ StaleTimer)

(* The screen follows the wallet: no answer for an account the user has     *)
(* left changes it, and the balance of the connected one comes up.          *)
HookFollowsWallet == ShownIsConnected /\ BalanceComesUp
================================================================================
