----------------------------- MODULE RefreshTokens -----------------------------
(***************************************************************************)
(* Refresh tokens of one user (tokenService.js, routes/auth.js).  A client  *)
(* is a browser with one cookie jar; its tabs send requests side by side.   *)
(* Every query is a step boundary.  Each call looks anew whether the        *)
(* database answers and else works on the process's own store, so a token   *)
(* lives in one of two stores.                                              *)
(***************************************************************************)
EXTENDS Naturals, FiniteSets

CONSTANTS
    TokenClients,            \* browsers of the user
    RefreshCalls,            \* concurrent POST /refresh requests (bound)
    MaxTokens, MaxLogouts, MaxTokenFaults   \* bounds of the model

ASSUME TokenAssumption == {MaxTokens, MaxLogouts, MaxTokenFaults} \subseteq Nat

VARIABLES
    tokens,        \* both stores
    store,         \* the store isDbAvailable leads to
    jar,           \* refreshToken cookie of a client, 0 without one
    refreshReq,    \* POST /refresh requests
    epoch,         \* history: how often all tokens were revoked
    told,          \* history: a user revoked one session
    tangled,       \* history: a client overlapped its requests, or lost a response
    straddled,     \* history: all tokens were revoked in the middle of a rotation
    tokenFaults    \* database outages, restarts and lost responses so far

tokenVars == <<tokens, store, jar, refreshReq, epoch, told, tangled, straddled, tokenFaults>>

TokenIds == 1 .. MaxTokens
NoToken == [status |-> "none"]
\* parent: the token it replaced, 0 after a login; expired: not revoked before
Token == [status : {"live", "expired", "revoked", "reuse"}, store : {"db", "memory"}, parent : 0 .. MaxTokens,
          epoch : 0 .. MaxLogouts]
NoReq == [pc |-> "idle"]
RefreshReq == [pc : {"read", "reuse", "mark", "issue", "answer"}, client : TokenClients,
               old : TokenIds, new : 0 .. MaxTokens, epoch : 0 .. MaxLogouts]

\* Type invariant.
TokenTypeOK ==
    /\ tokens \in [TokenIds -> Token \cup {NoToken}]
    /\ store \in {"db", "memory"}
    /\ jar \in [TokenClients -> 0 .. MaxTokens]
    /\ refreshReq \in [RefreshCalls -> RefreshReq \cup {NoReq}]
    /\ epoch \in 0 .. MaxLogouts /\ tokenFaults \in 0 .. MaxTokenFaults
    /\ {told, straddled} \subseteq BOOLEAN /\ tangled \subseteq {"overlap", "lost"}

TokenInit ==
    /\ tokens = [n \in TokenIds |-> NoToken] /\ store \in {"db", "memory"}
    /\ jar = [c \in TokenClients |-> 0]
    /\ refreshReq = [q \in RefreshCalls |-> NoReq]
    /\ epoch = 0 /\ told = FALSE /\ tangled = {} /\ straddled = FALSE /\ tokenFaults = 0

FreeTokens == {n \in TokenIds : tokens[n] = NoToken}
NewToken(n) == n \in FreeTokens /\ \A k \in FreeTokens : n <= k

\* A row of the store in use; the other store is not seen.
Known(n) == tokens[n] # NoToken /\ tokens[n].store = store

TokenFault == tokenFaults < MaxTokenFaults /\ tokenFaults' = tokenFaults + 1

\* UPDATE ... WHERE public_key = ...
AllRevoked(by) == [n \in TokenIds |-> IF Known(n) THEN [tokens[n] EXCEPT !.status = by] ELSE tokens[n]]
Overlaps(c) ==
    IF \E q \in RefreshCalls : refreshReq[q] # NoReq /\ refreshReq[q].client = c THEN {"overlap"} ELSE {}
MidRotation == \E q \in RefreshCalls : refreshReq[q].pc \in {"mark", "issue"}

--------------------------------------------------------------------------------
\* POST /api/auth: issueTokens in a new family.
Login(c, n) ==
    /\ NewToken(n)
    /\ tokens' = [tokens EXCEPT ![n] =
         [status |-> "live", store |-> store, parent |-> 0, epoch |-> epoch]]
    /\ jar' = [jar EXCEPT ![c] = n]
    /\ tangled' = tangled \cup Overlaps(c)
    /\ UNCHANGED <<store, refreshReq, epoch, told, straddled, tokenFaults>>

\* POST /api/auth/refresh with the cookie.
StartRefresh(q, c) ==
    /\ refreshReq[q] = NoReq /\ jar[c] # 0
    /\ refreshReq' = [refreshReq EXCEPT ![q] =
         [pc |-> "read", client |-> c, old |-> jar[c], new |-> 0, epoch |-> 0]]
    /\ tangled' = tangled \cup Overlaps(c)
    /\ UNCHANGED <<tokens, store, jar, epoch, told, straddled, tokenFaults>>

\* rotateRefreshToken: the row is read.  With the store in memory the update
\* follows without an await.
RotateRead(q) ==
    LET r == refreshReq[q]  t == tokens[r.old] IN
    /\ r.pc = "read"
    /\ LET next == IF ~Known(r.old) \/ t.status = "expired" THEN "answer"
                   ELSE IF t.status # "live" THEN "reuse" ELSE "mark"
           inMemory == store = "memory" /\ next \in {"reuse", "mark"} IN
       /\ refreshReq' = [refreshReq EXCEPT ![q] = [@ EXCEPT !.epoch = epoch, !.pc =
            IF ~inMemory THEN next ELSE IF next = "reuse" THEN "answer" ELSE "issue"]]
       /\ tokens' = IF ~inMemory THEN tokens
                    ELSE IF next = "reuse" THEN AllRevoked("reuse")
                    ELSE [tokens EXCEPT ![r.old].status = "revoked"]
       /\ straddled' = (straddled \/ (inMemory /\ next = "reuse" /\ MidRotation))
    /\ UNCHANGED <<store, jar, epoch, told, tangled, tokenFaults>>

\* A revoked token was presented: every token of the user is revoked.
RotateReuse(q) ==
    /\ refreshReq[q].pc = "reuse" /\ store = "db"
    /\ tokens' = AllRevoked("reuse")
    /\ straddled' = (straddled \/ MidRotation)
    /\ refreshReq' = [refreshReq EXCEPT ![q].pc = "answer"]
    /\ UNCHANGED <<store, jar, epoch, told, tangled, tokenFaults>>

RotateMark_ForgetFault(q) ==
    /\ refreshReq[q].pc = "mark"
    /\ refreshReq' = [refreshReq EXCEPT ![q].pc = "issue"]
    /\ UNCHANGED <<tokens, store, jar, epoch, told, tangled, straddled, tokenFaults>>

\* The UPDATE names the row, not its status: two requests may both get here.
RotateMark(q) ==
    /\ refreshReq[q].pc = "mark" /\ store = "db"
    /\ tokens' = [tokens EXCEPT ![refreshReq[q].old].status = "revoked"]
    /\ refreshReq' = [refreshReq EXCEPT ![q].pc = "issue"]
    /\ UNCHANGED <<store, jar, epoch, told, tangled, straddled, tokenFaults>>

\* The database went away after the row was read: the query throws, and the route,
\* which catches nothing, leaves the request without an answer.
RotateFails(q) ==
    /\ refreshReq[q].pc \in {"reuse", "mark"} /\ store = "memory"
    /\ refreshReq' = [refreshReq EXCEPT ![q] = NoReq]
    /\ UNCHANGED <<tokens, store, jar, epoch, told, tangled, straddled, tokenFaults>>

\* issueTokens in the family of the old token.
RotateIssue(q, n) ==
    /\ refreshReq[q].pc = "issue" /\ NewToken(n)
    /\ tokens' = [tokens EXCEPT ![n] =
         [status |-> "live", store |-> store, parent |-> refreshReq[q].old,
          epoch |-> refreshReq[q].epoch]]
    /\ refreshReq' = [refreshReq EXCEPT ![q] = [@ EXCEPT !.pc = "answer", !.new = n]]
    /\ UNCHANGED <<store, jar, epoch, told, tangled, straddled, tokenFaults>>

\* The response sets the cookie, or clears it when there is no new token.
RefreshAnswered(q) ==
    /\ refreshReq[q].pc = "answer"
    /\ jar' = [jar EXCEPT ![refreshReq[q].client] = refreshReq[q].new]
    /\ refreshReq' = [refreshReq EXCEPT ![q] = NoReq]
    /\ UNCHANGED <<tokens, store, epoch, told, tangled, straddled, tokenFaults>>

ResponseLost(q) ==
    /\ refreshReq[q].pc = "answer" /\ TokenFault
    /\ refreshReq' = [refreshReq EXCEPT ![q] = NoReq]
    /\ tangled' = tangled \cup {"lost"}
    /\ UNCHANGED <<tokens, store, jar, epoch, told, straddled>>

--------------------------------------------------------------------------------
\* POST /revoke without a session id: the token of the cookie.
RevokeOwn(c) ==
    /\ jar[c] # 0
    /\ tokens' = [tokens EXCEPT ![jar[c]] = IF Known(jar[c]) THEN [@ EXCEPT !.status = "revoked"] ELSE @]
    /\ jar' = [jar EXCEPT ![c] = 0]
    /\ tangled' = tangled \cup Overlaps(c)
    /\ UNCHANGED <<store, refreshReq, epoch, told, straddled, tokenFaults>>

\* POST /revoke with the id of a session, possibly that of another client.
RevokeSessionById(n) ==
    /\ Known(n) /\ tokens[n].status = "live"     \* the list shows live sessions
    /\ tokens' = [tokens EXCEPT ![n].status = "revoked"]
    /\ told' = TRUE
    /\ UNCHANGED <<store, jar, refreshReq, epoch, tangled, straddled, tokenFaults>>

\* POST /logout, or /revoke with all: every live token of the store in use.
RevokeAllUserTokens(c) ==
    /\ jar[c] # 0 /\ epoch < MaxLogouts
    /\ tokens' = [n \in TokenIds |->
         IF Known(n) /\ tokens[n].status \in {"live", "expired"} THEN [tokens[n] EXCEPT !.status = "revoked"] ELSE tokens[n]]
    /\ jar' = [jar EXCEPT ![c] = 0]
    /\ epoch' = epoch + 1
    /\ straddled' = (straddled \/ MidRotation \/ \E n \in TokenIds : tokens[n] # NoToken /\ ~Known(n))
    /\ told' = TRUE
    /\ UNCHANGED <<store, refreshReq, tangled, tokenFaults>>

TokenExpires(n) ==
    /\ tokens[n].status = "live"
    /\ tokens' = [tokens EXCEPT ![n].status = "expired"]
    /\ UNCHANGED <<store, jar, refreshReq, epoch, told, tangled, straddled, tokenFaults>>

\* isDbAvailable changes its answer.
DbFlips ==
    /\ TokenFault
    /\ store' = IF store = "db" THEN "memory" ELSE "db"
    /\ UNCHANGED <<tokens, jar, refreshReq, epoch, told, tangled, straddled>>

--------------------------------------------------------------------------------
RotateStep(q) ==
    \/ RotateRead(q) \/ RotateReuse(q) \/ RotateMark(q) \/ RotateFails(q)
    \/ RefreshAnswered(q) \/ ResponseLost(q)
    \/ \E n \in TokenIds : RotateIssue(q, n)

TokenNext ==
    \/ \E c \in TokenClients : RevokeOwn(c) \/ RevokeAllUserTokens(c)
    \/ \E c \in TokenClients, n \in TokenIds : Login(c, n)
    \/ \E q \in RefreshCalls, c \in TokenClients : StartRefresh(q, c)
    \/ \E q \in RefreshCalls : RotateStep(q)
    \/ \E n \in TokenIds : RevokeSessionById(n) \/ TokenExpires(n)
    \/ DbFlips

--------------------------------------------------------------------------------
Successors(n) == {k \in TokenIds : tokens[k] # NoToken /\ tokens[k].parent = n}

(* A refresh token is exchanged at most once, whatever is revoked, expires  *)
(* or fails, and also when a client repeats a request whose response was    *)
(* lost; only two overlapping requests may both read the row before either  *)
(* marks it.                                                                *)
ExchangedOnce == "overlap" \notin tangled => \A n \in TokenIds : Cardinality(Successors(n)) <= 1

(* Replay detection does not hit honest clients: a client that sends one    *)
(* refresh after the other and receives every response never sets it off,   *)
(* as long as no session is revoked by hand (the revoked client's next      *)
(* refresh counts as a replay and revokes the sessions of all clients).     *)
HonestClientsKeepSessions ==
    \A n \in TokenIds : tokens[n].status = "reuse" => tangled # {} \/ told

(* After a logout of the user no token from before it is live, except one   *)
(* that a rotation issued which was under way at that moment, or one in the *)
(* store that was not in use.                                               *)
NothingOutlivesLogout ==
    ~straddled => \A n \in TokenIds : tokens[n].status = "live" => tokens[n].epoch = epoch

(* Sessions are safe: a refresh token is good for one exchange, honest      *)
(* clients stay logged in, and a logout is complete.                        *)
SessionsAreSafe == ExchangedOnce /\ HonestClientsKeepSessions /\ NothingOutlivesLogout
================================================================================
