---------------------------- MODULE WalletDashboard ----------------------------
(***************************************************************************)
(* The accounts of the wallet (useWallet.tsx, wallet.ts) and a loader of    *)
(* the dashboard that follows the active one (dashboard.tsx).  Loaders do   *)
(* not share state, so one of them is picked at the start.  The in-memory   *)
(* JWT is named by the account it was issued to.                            *)
(***************************************************************************)
EXTENDS Naturals, Sequences, SequencesExt

CONSTANTS
    WalletKeys,        \* public keys
    Loaders,           \* loaders of the dashboard, among AllLoaders
    MaxLoads           \* bound of the model: requests of a loader under way

AllLoaders == {"balance", "stats", "events", "spending", "sparkline", "volume", "recipients"}

ASSUME DashboardAssumption ==
    MaxLoads \in Nat \ {0} /\ Loaders \subseteq AllLoaders /\ "none" \notin WalletKeys

VARIABLES
    accounts, activeIndex,  \* AccountsState; the list is saved on every change
    walletReady,            \* getConnectedPublicKey has answered
    jwt,                    \* inMemoryAccessToken, or "none"
    adding,                 \* addAccount calls: keys being proved with SEP-0010
    loader,                 \* which loader is looked at
    loads,                  \* its requests under way, oldest first, by account
    snapshots,              \* accounts with a balance snapshot in localStorage
    view,                   \* account whose data is shown, or "none"
    lastFailed,             \* history: the last answer was an error
    overtaken               \* history: an older answer came in after a newer one

dashboardVars == <<accounts, activeIndex, walletReady, jwt, adding, loader, loads, snapshots, view,
                   lastFailed, overtaken>>

Keys == WalletKeys \cup {"none"}

\* activeAccount
Active == IF activeIndex \in 1 .. Len(accounts) THEN accounts[activeIndex]
          ELSE IF accounts # <<>> THEN accounts[1] ELSE "none"

\* Type invariant.
DashboardTypeOK ==
    /\ accounts \in SeqOf(WalletKeys, 3) /\ activeIndex \in Nat \ {0}
    /\ walletReady \in BOOLEAN /\ jwt \in Keys /\ adding \subseteq WalletKeys
    /\ loader \in Loaders /\ loads \in SeqOf(WalletKeys, MaxLoads)
    /\ snapshots \subseteq WalletKeys /\ view \in Keys
    /\ {lastFailed, overtaken} \subseteq BOOLEAN

DashboardInit ==
    /\ accounts = <<>> /\ activeIndex = 1 /\ walletReady = FALSE /\ jwt = "none" /\ adding = {}
    /\ loader \in Loaders /\ loads = <<>> /\ snapshots = {} /\ view = "none"
    /\ lastFailed = FALSE /\ overtaken = FALSE

--------------------------------------------------------------------------------
(* The loaders: what is shown after an answer for account a *)

FetchBalance(a, ok, offline) == IF ok \/ (a \in snapshots /\ offline) THEN a ELSE "none"
FetchPaymentStats(a, ok) == IF ok THEN a ELSE "none"
FetchContractEventCount(a, ok) == IF ok THEN a ELSE "none"
FetchSpendingHistory(a, ok) == IF ok THEN a ELSE view
FetchSparklineData(a, ok) == IF ok THEN a ELSE view
FetchThirtyDayVolume(a, ok) == IF ok THEN a ELSE view
FetchTopRecipients(a, ok) == IF ok THEN a ELSE view

Loaded(a, ok, offline) ==
    CASE loader = "balance" -> FetchBalance(a, ok, offline)
      [] loader = "stats" -> FetchPaymentStats(a, ok)
      [] loader = "events" -> FetchContractEventCount(a, ok)
      [] loader = "spending" -> FetchSpendingHistory(a, ok)
      [] loader = "sparkline" -> FetchSparklineData(a, ok)
      [] loader = "volume" -> FetchThirtyDayVolume(a, ok)
      [] loader = "recipients" -> FetchTopRecipients(a, ok)

\* An answer is applied whatever account is active by now; offline: !navigator.onLine.
LoadAnswered(i, ok, offline) ==
    /\ i \in DOMAIN loads
    /\ loads' = RemoveAt(loads, i)
    /\ view' = Loaded(loads[i], ok, offline)
    /\ snapshots' = IF ok /\ loader = "balance" THEN snapshots \cup {loads[i]} ELSE snapshots
    /\ lastFailed' = ~ok
    /\ overtaken' = (overtaken \/ i > 1)
    /\ UNCHANGED <<accounts, activeIndex, walletReady, jwt, adding, loader>>

\* The effect of a loader runs when the public key has changed.
Effect(a) ==
    IF a = Active \/ a = "none" THEN UNCHANGED <<loads, overtaken>>
    ELSE /\ Len(loads) < MaxLoads
         /\ loads' = Append(loads, a)
         /\ overtaken' = (overtaken /\ loads # <<>>)

\* ... and when refreshKey changes or the user asks for it.
Refresh ==
    /\ Active # "none" /\ Len(loads) < MaxLoads
    /\ loads' = Append(loads, Active)
    /\ overtaken' = (overtaken /\ loads # <<>>)
    /\ UNCHANGED <<accounts, activeIndex, walletReady, jwt, adding, loader, snapshots, view, lastFailed>>

--------------------------------------------------------------------------------
(* Accounts *)

ActiveOf(list, index) ==
    IF index \in 1 .. Len(list) THEN list[index] ELSE IF list # <<>> THEN list[1] ELSE "none"

SetAccounts(list, index) ==
    /\ accounts' = list /\ activeIndex' = index
    /\ Effect(ActiveOf(list, index))
    /\ UNCHANGED <<loader, snapshots, view, lastFailed>>

\* reduceAddAccount: a known key is selected, a new one added and selected.
ReduceAddAccount(k) ==
    IF Contains(accounts, k)
    THEN SetAccounts(accounts, CHOOSE i \in DOMAIN accounts : accounts[i] = k)
    ELSE SetAccounts(Append(accounts, k), Len(accounts) + 1)

MountCheck_FocusFault(k) ==
    /\ ~walletReady /\ walletReady' = TRUE
    /\ IF k = "none" THEN SetAccounts(<<>>, 1) ELSE ReduceAddAccount(k)
    /\ UNCHANGED <<jwt, adding>>

\* The mount effect: the wallet's own address is added without taking the focus;
\* without site access the list is dropped.
MountCheck(k) ==
    /\ ~walletReady /\ walletReady' = TRUE
    /\ IF k = "none" THEN SetAccounts(<<>>, 1)
       ELSE IF Contains(accounts, k) THEN SetAccounts(accounts, activeIndex)
       ELSE SetAccounts(Append(accounts, k), IF accounts = <<>> THEN 1 ELSE activeIndex)
    /\ UNCHANGED <<jwt, adding>>

SetActiveAccount(i) ==
    /\ i \in DOMAIN accounts /\ i # activeIndex
    /\ SetAccounts(accounts, i)
    /\ UNCHANGED <<walletReady, jwt, adding>>

\* addAccount: the wallet connects, then SEP-0010 proves the key.
AddAccount(k) ==
    /\ adding = {}                    \* the button waits for the last call
    /\ adding' = adding \cup {k}
    /\ UNCHANGED <<accounts, activeIndex, walletReady, jwt, loader, loads, snapshots, view, lastFailed, overtaken>>

\* performSEP0010Auth fails or sets the JWT; then connectWallet.
AccountProved(k) ==
    /\ k \in adding
    /\ adding' = adding \ {k}
    /\ \/ jwt' = k /\ ReduceAddAccount(k)
       \/ UNCHANGED <<jwt, accounts, activeIndex, loader, loads, snapshots, view, lastFailed, overtaken>>
    /\ UNCHANGED walletReady

\* disconnectWallet forgets the JWT and the list.
DisconnectWallet ==
    /\ accounts # <<>>
    /\ jwt' = "none"
    /\ SetAccounts(<<>>, 1)
    /\ UNCHANGED <<walletReady, adding>>

NextIndex(i, n) ==
    LET shifted == IF activeIndex > i THEN activeIndex - 1 ELSE activeIndex IN
    IF shifted < n THEN shifted ELSE n

\* removeAccount; the last one disconnects the wallet.
RemoveAccount(i) ==
    /\ i \in DOMAIN accounts /\ Len(accounts) > 1
    /\ SetAccounts(RemoveAt(accounts, i), NextIndex(i, Len(accounts) - 1))
    /\ UNCHANGED <<walletReady, jwt, adding>>

\* A reload: the saved list, its first account active, no JWT.
ReloadDashboard ==
    /\ walletReady' = FALSE /\ jwt' = "none" /\ adding' = {}
    /\ activeIndex' = 1 /\ view' = "none" /\ lastFailed' = FALSE /\ overtaken' = FALSE
    /\ loads' = IF accounts = <<>> THEN <<>> ELSE <<accounts[1]>>
    /\ UNCHANGED <<accounts, loader, snapshots>>

--------------------------------------------------------------------------------
DashboardNext ==
    \/ \E i \in 1 .. MaxLoads, ok, offline \in BOOLEAN : LoadAnswered(i, ok, offline)
    \/ Refresh \/ DisconnectWallet \/ ReloadDashboard
    \/ \E k \in Keys : MountCheck(k)
    \/ \E k \in WalletKeys : AddAccount(k) \/ AccountProved(k)
    \/ \E i \in DOMAIN accounts : SetActiveAccount(i) \/ RemoveAccount(i)

DashboardSpec == DashboardInit /\ [][DashboardNext]_dashboardVars

--------------------------------------------------------------------------------
(* The list holds no account twice and the selection points into it,        *)
(* whatever the wallet, the user and late answers add and remove.           *)
SelectionIsValid ==
    /\ IsInjective(accounts)
    /\ activeIndex <= IF accounts = <<>> THEN 1 ELSE Len(accounts)

(* The account in use stays in use when another one is removed, or when the *)
(* wallet's own address is added on load ("must not steal focus").          *)
FocusIsKept ==
    [][ /\ Len(accounts') < Len(accounts) \/ (walletReady' /\ ~walletReady)
        /\ Contains(accounts', Active)
        => ActiveOf(accounts', activeIndex') = Active ]_dashboardVars

(* With nothing under way a loader shows the account in use, unless its     *)
(* last request failed or an answer of an account left before came in late. *)
QuietViewIsActive ==
    loads = <<>> /\ ~lastFailed /\ ~overtaken /\ Active # "none" => view = Active

(* The dashboard shows the account in use, and only the user changes which  *)
(* one that is.                                                             *)
DashboardKeepsAccount == [](SelectionIsValid /\ QuietViewIsActive) /\ FocusIsKept
================================================================================
