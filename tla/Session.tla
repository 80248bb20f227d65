------------------------------- MODULE Session -------------------------------
(***************************************************************************)
(* Signing in and staying signed in: apiRequest, ensureAccessToken and     *)
(* refreshAccessToken of src/src/app/api in the browser, the handlers of   *)
(* internal/http/auth.go, and the tables users and refresh_tokens.         *)
(*                                                                         *)
(* The browser has one identity and one place for its tokens, localStorage,*)
(* which all calls share.  A pair p is an access and a refresh token that  *)
(* were signed together; pairs are numbered in the order of their rows.    *)
(* A handler is a server goroutine: it may go on after the browser has     *)
(* given up on it.                                                         *)
(***************************************************************************)
EXTENDS Naturals, FiniteSets

CONSTANTS
    Calls,          \* calls of apiRequest that may be under way together
    Handlers,       \* requests to /auth that may be under way together
    MaxPairs,       \* bound on the pairs that are stored
    MaxEndings,     \* bound on the expiries and logouts
    FaultKinds,     \* the kinds of failure that may happen
    MaxFaults,      \* how many failures one behaviour may contain
    Nothing         \* null

AllFaultKinds ==
    { "db_error",       \* a statement fails and is not applied
      "db_ambiguous",   \* a statement is applied, its reply is an error
      "net_error" }     \* fetch rejects: the request or its answer is lost

Pairs == 1 .. MaxPairs

ASSUME SessionBounds == MaxPairs \in Nat /\ MaxEndings \in Nat /\ MaxFaults \in Nat
ASSUME SessionFaults == FaultKinds \subseteq AllFaultKinds
ASSUME NothingAssumption == Nothing \notin Calls /\ Nothing \notin Nat

VARIABLES
    user,       \* the row of users for the identity of this browser exists
    row,        \* refresh_tokens, by pair
    age,        \* which tokens of each pair have expired
    origin,     \* the pair each pair was exchanged for (history)
    handler,    \* the requests to /auth
    stored,     \* the tokens in localStorage
    call,       \* how far each call is
    pair,       \* the pair each call works with
    endings,    \* expiries and logouts so far
    faults      \* failures so far

tables == <<user, row, origin>>
browser == <<stored, call, pair>>
vars == <<tables, age, handler, browser, endings, faults>>

Free == [stage |-> "free", kind |-> "none", for |-> Nothing, token |-> Nothing]
HandlerStages == {"free", "received", "checked", "granted", "ok", "refused"}
CallStages == {"idle", "registering", "logging_in", "sent", "denied", "refreshing",
               "resent", "done", "failed"}

TypeOK ==
    /\ user \in BOOLEAN
    /\ row \in [Pairs -> {"none", "valid", "revoked"}]
    /\ age \in [Pairs -> {"fresh", "stale", "dead"}]
    /\ origin \in [Pairs -> Pairs \cup {Nothing}]
    /\ handler \in [Handlers ->
          [stage : HandlerStages, kind : {"none", "register", "login", "refresh"},
           for : Calls \cup {Nothing}, token : Pairs \cup {Nothing}]]
    /\ stored \in Pairs \cup {Nothing}
    /\ call \in [Calls -> CallStages]
    /\ pair \in [Calls -> Pairs \cup {Nothing}]
    /\ \A c \in Calls :
          call[c] \in {"sent", "denied", "refreshing", "resent"} => pair[c] # Nothing
    /\ endings \in 0 .. MaxEndings
    /\ faults \in 0 .. MaxFaults

Init ==
    /\ user = FALSE
    /\ row = [p \in Pairs |-> "none"]
    /\ age = [p \in Pairs |-> "fresh"]
    /\ origin = [p \in Pairs |-> Nothing]
    /\ handler = [h \in Handlers |-> Free]
    /\ stored = Nothing
    /\ call = [c \in Calls |-> "idle"]
    /\ pair = [c \in Calls |-> Nothing]
    /\ endings = 0
    /\ faults = 0

Fault(kind) ==
    /\ kind \in FaultKinds
    /\ faults < MaxFaults
    /\ faults' = faults + 1

-------------------------------------------------------------------------------
(***************************************************************************)
(* The tables.                                                             *)
(***************************************************************************)
Issued(p) == row[p] # "none"

\* signToken puts a fresh UUID into each token.
NextPair(p) == ~Issued(p) /\ \A q \in 1 .. p - 1 : Issued(q)

InsertToken(p) == row' = [row EXCEPT ![p] = "valid"]

RevokeToken(p) == row' = [row EXCEPT ![p] = IF @ = "valid" THEN "revoked" ELSE @]

\* The access token lives 15 minutes, the refresh token 7 days; the browser may
\* be closed for any time between two calls.
Expire(p) ==
    /\ Issued(p)
    /\ age[p] # "dead"
    /\ endings < MaxEndings
    /\ \E later \in {"stale", "dead"} \ {age[p]} : age' = [age EXCEPT ![p] = later]
    /\ endings' = endings + 1
    /\ UNCHANGED <<tables, handler, browser, faults>>

-------------------------------------------------------------------------------
(***************************************************************************)
(* handleRegister, handleLogin, handleRefresh: one action per statement.   *)
(***************************************************************************)
At(h, stage, kind) == handler[h].stage = stage /\ handler[h].kind = kind
Goto(h, stage) == handler' = [handler EXCEPT ![h].stage = stage]

\* Any error is answered 409 or 500; the browser does not tell them apart.
CreateUser(h) ==
    /\ At(h, "received", "register")
    /\ \/ ~user /\ user' = TRUE /\ Goto(h, "granted") /\ UNCHANGED faults
       \/ user /\ Goto(h, "refused") /\ UNCHANGED <<user, faults>>
       \/ Fault("db_error") /\ Goto(h, "refused") /\ UNCHANGED user
       \/ Fault("db_ambiguous") /\ Goto(h, "refused") /\ user' = TRUE
    /\ UNCHANGED <<row, origin, age, browser, endings>>

GetUserByEmail(h) ==
    /\ At(h, "received", "login")
    /\ \/ Goto(h, IF user THEN "granted" ELSE "refused") /\ UNCHANGED faults
       \/ Fault("db_error") /\ Goto(h, "refused")
    /\ UNCHANGED <<tables, age, browser, endings>>

\* A token may expire between ParseToken and the look at expires_at: then its
\* row is revoked on the way.
GetRefreshToken(h) ==
    /\ At(h, "received", "refresh")
    /\ LET p == handler[h].token IN
       \/ /\ age[p] # "dead" /\ row[p] = "valid"
          /\ Goto(h, "checked")
          /\ UNCHANGED <<row, faults>>
       \/ /\ age[p] = "dead" \/ row[p] # "valid"
          /\ Goto(h, "refused")
          /\ UNCHANGED row \/ (age[p] = "dead" /\ RevokeToken(p))
          /\ UNCHANGED faults
       \/ Fault("db_error") /\ Goto(h, "refused") /\ UNCHANGED row
    /\ UNCHANGED <<user, origin, age, browser, endings>>

\* Mutant: the old token is left as it is.
RevokeRefreshTokenForgotten(h) ==
    /\ At(h, "checked", "refresh")
    /\ Goto(h, "granted")
    /\ UNCHANGED <<tables, age, browser, endings, faults>>

\* The UPDATE does not tell whether it found the token still valid.
RevokeRefreshToken(h) ==
    /\ At(h, "checked", "refresh")
    /\ \/ RevokeToken(handler[h].token) /\ Goto(h, "granted") /\ UNCHANGED faults
       \/ Fault("db_error") /\ Goto(h, "refused") /\ UNCHANGED row
       \/ Fault("db_ambiguous") /\ Goto(h, "refused") /\ RevokeToken(handler[h].token)
    /\ UNCHANGED <<user, origin, age, browser, endings>>

\* Mutant: the error is not looked at.
StoreRefreshTokenUnchecked(h) ==
    /\ handler[h].stage = "granted"
    /\ \E p \in Pairs :
          /\ NextPair(p)
          /\ InsertToken(p) \/ UNCHANGED row
          /\ handler' = [handler EXCEPT ![h].stage = "ok", ![h].token = p]
          /\ origin' = [origin EXCEPT ![p] = handler[h].token]
    /\ UNCHANGED <<user, age, browser, endings, faults>>

\* NewTokenPair and StoreRefreshToken: the end of all three handlers.
StoreRefreshToken(h) ==
    /\ handler[h].stage = "granted"
    /\ \/ \E p \in Pairs :
             /\ NextPair(p)
             /\ InsertToken(p)
             /\ handler' = [handler EXCEPT ![h].stage = "ok", ![h].token = p]
             /\ origin' = [origin EXCEPT ![p] = handler[h].token]
             /\ UNCHANGED faults
       \/ Fault("db_error") /\ Goto(h, "refused") /\ UNCHANGED <<row, origin>>
       \/ /\ Fault("db_ambiguous") /\ Goto(h, "refused")
          /\ \E p \in Pairs :
                NextPair(p) /\ InsertToken(p)
                    /\ origin' = [origin EXCEPT ![p] = handler[h].token]
    /\ UNCHANGED <<user, age, browser, endings>>

\* The browser is gone and the request's context is cancelled: the handler ends
\* here, or after some more of its statements.
Cancel(h) ==
    /\ handler[h].stage # "free" /\ handler[h].for = Nothing
    /\ handler' = [handler EXCEPT ![h] = Free]
    /\ UNCHANGED <<tables, age, browser, endings, faults>>

\* handleLogout, from any client that has the token; this browser never asks.
Logout(p) ==
    /\ row[p] = "valid"
    /\ endings < MaxEndings
    /\ RevokeToken(p)
    /\ endings' = endings + 1
    /\ UNCHANGED <<user, origin, age, handler, browser, faults>>

-------------------------------------------------------------------------------
(***************************************************************************)
(* apiRequest.                                                             *)
(***************************************************************************)
Post(h, kind, c, token) ==
    handler' = [handler EXCEPT ![h] =
        [stage |-> "received", kind |-> kind, for |-> c, token |-> token]]

Send(c, stage, p) ==
    /\ call' = [call EXCEPT ![c] = stage]
    /\ pair' = [pair EXCEPT ![c] = p]

\* ensureAccessToken: the tokens that are there are used unseen; without tokens
\* the demo user is registered, or logged in if that is refused.
Start(c) ==
    /\ call[c] = "idle"
    /\ \/ stored # Nothing /\ Send(c, "sent", stored) /\ UNCHANGED handler
       \/ /\ stored = Nothing
          /\ Send(c, "registering", Nothing)
          /\ \E h \in Handlers : handler[h] = Free /\ Post(h, "register", c, Nothing)
    /\ UNCHANGED <<tables, age, stored, endings, faults>>

\* authMiddleware looks at the access token only.  An error of the request
\* itself, or of the network, ends the call.
Answer(c) ==
    /\ call[c] \in {"sent", "resent"}
    /\ \/ /\ call' = [call EXCEPT ![c] =
                 CASE age[pair[c]] = "fresh" -> "done"
                   [] age[pair[c]] # "fresh" /\ call[c] = "sent" -> "denied"
                   [] age[pair[c]] # "fresh" /\ call[c] = "resent" -> "failed"]
          /\ UNCHANGED faults
       \/ \E kind \in {"db_error", "net_error"} :
             Fault(kind) /\ call' = [call EXCEPT ![c] = "failed"]
    /\ UNCHANGED <<tables, age, handler, stored, pair, endings>>

\* Mutant: a refresh is sent even if no tokens are stored.
RefreshWithoutTokens(c) ==
    /\ call[c] = "denied"
    /\ Send(c, "refreshing", stored)
    /\ \E h \in Handlers : handler[h] = Free /\ Post(h, "refresh", c, stored)
    /\ UNCHANGED <<tables, age, stored, endings, faults>>

\* refreshAccessToken takes the tokens that are stored now, which need not be
\* the ones that were denied.
Refresh(c) ==
    /\ call[c] = "denied"
    /\ \/ stored = Nothing /\ Send(c, "failed", Nothing) /\ UNCHANGED handler
       \/ /\ stored # Nothing
          /\ Send(c, "refreshing", stored)
          /\ \E h \in Handlers : handler[h] = Free /\ Post(h, "refresh", c, stored)
    /\ UNCHANGED <<tables, age, stored, endings, faults>>

Answered(c, h, stage, outcome) ==
    handler[h].for = c /\ call[c] = stage /\ handler[h].stage = outcome

TakeTokens(c, h, stage) ==
    /\ stored' = handler[h].token
    /\ Send(c, stage, handler[h].token)
    /\ handler' = [handler EXCEPT ![h] = Free]

\* Mutant: the registration is tried once more.
SignedUpAgain(c, h) ==
    \/ Answered(c, h, "registering", "ok") /\ TakeTokens(c, h, "sent")
    \/ /\ Answered(c, h, "registering", "refused")
       /\ Post(h, "register", c, Nothing)
       /\ UNCHANGED browser

\* registerOrLogin: whatever the registration was refused for, log in.
SignedUp(c, h) ==
    \/ Answered(c, h, "registering", "ok") /\ TakeTokens(c, h, "sent")
    \/ /\ Answered(c, h, "registering", "refused")
       /\ Post(h, "login", c, Nothing)
       /\ Send(c, "logging_in", Nothing)
       /\ UNCHANGED stored

LoggedIn(c, h) ==
    \/ Answered(c, h, "logging_in", "ok") /\ TakeTokens(c, h, "sent")
    \/ /\ Answered(c, h, "logging_in", "refused")
       /\ Send(c, "failed", Nothing)
       /\ handler' = [handler EXCEPT ![h] = Free]
       /\ UNCHANGED stored

\* Mutant: the tokens are kept when the server refuses them.
RefreshedKeepsTokens(c, h) ==
    \/ Answered(c, h, "refreshing", "ok") /\ TakeTokens(c, h, "resent")
    \/ /\ Answered(c, h, "refreshing", "refused")
       /\ Send(c, "failed", Nothing)
       /\ handler' = [handler EXCEPT ![h] = Free]
       /\ UNCHANGED stored

\* setTokens(null) drops whatever is stored by now, new tokens included.
Refreshed(c, h) ==
    \/ Answered(c, h, "refreshing", "ok") /\ TakeTokens(c, h, "resent")
    \/ /\ Answered(c, h, "refreshing", "refused")
       /\ stored' = Nothing
       /\ Send(c, "failed", Nothing)
       /\ handler' = [handler EXCEPT ![h] = Free]

Deliver(c, h) ==
    /\ SignedUp(c, h) \/ LoggedIn(c, h) \/ Refreshed(c, h)
    /\ UNCHANGED <<tables, age, endings, faults>>

\* fetch rejects, and nothing up to the caller catches it.
GiveUp(c, h) ==
    /\ handler[h].for = c
    /\ Fault("net_error")
    /\ handler' = [handler EXCEPT ![h].for = Nothing]
    /\ Send(c, "failed", Nothing)
    /\ UNCHANGED <<tables, age, stored, endings>>

Settle(c) ==    \* the promise of the call is settled
    /\ call[c] \in {"done", "failed"}
    /\ Send(c, "idle", Nothing)
    /\ UNCHANGED <<tables, age, handler, stored, endings, faults>>

-------------------------------------------------------------------------------
HandlerStep(h) ==
    \/ CreateUser(h) \/ GetUserByEmail(h)
    \/ GetRefreshToken(h) \/ RevokeRefreshToken(h)
    \/ StoreRefreshToken(h)
    \/ Cancel(h)

CallStep(c) ==
    \/ Answer(c) \/ Refresh(c) \/ Settle(c)
    \/ \E h \in Handlers : Deliver(c, h)

Next ==
    \/ \E h \in Handlers : HandlerStep(h)
    \/ \E c \in Calls : Start(c) \/ CallStep(c) \/ \E h \in Handlers : GiveUp(c, h)
    \/ \E p \in Pairs : Expire(p) \/ Logout(p)

Spec == Init /\ [][Next]_vars

\* Handlers run on and calls are answered; nobody has to call or to log out, and
\* no token has to expire.
Fairness ==
    /\ \A h \in Handlers : WF_vars(HandlerStep(h))
    /\ \A c \in Calls : WF_vars(CallStep(c))

FairSpec == Spec /\ Fairness

-------------------------------------------------------------------------------
(***************************************************************************)
(* Properties.                                                             *)
(***************************************************************************)

\* Whatever is lost or fails, tokens that the browser works with are tokens the
\* server has stored, of a user it can log in again (auth.go:63 and 149 run
\* before the answer): a browser never holds tokens only it knows of.
TokensAreBacked ==
    \A p \in {stored} \cup {pair[c] : c \in Calls} : p # Nothing => Issued(p) /\ user

\* Rotation: a refresh token is exchanged no more often than refreshes can be in
\* flight together (auth.go:124 to 149); with one at a time, once at most, however
\* often its answers are lost and it is presented again.
ExchangedFrom(p) == {q \in Pairs : origin[q] = p}
RotationIsBounded ==
    \A p \in Pairs : Cardinality(ExchangedFrom(p)) <= Cardinality(Handlers)

\* Every call ends, by an answer or by an error: none goes on registering,
\* logging in and refreshing for ever (auth.ts:54-76, client.ts:27-39).
CallsEnd == \A c \in Calls : call[c] # "idle" ~> call[c] = "idle"

\* Nobody is locked out: once failures and endings have stopped, calls stop
\* failing, in whatever order parallel refreshes have stored and dropped tokens
\* (auth.ts:98-105).
CallsRecover == \A c \in Calls : <>[](call[c] # "failed")

-------------------------------------------------------------------------------
(***************************************************************************)
(* Inductive invariants.                                                   *)
(***************************************************************************)

\* What the handlers hold is stored too: a token to be exchanged, and the pair
\* of an answer; other handlers hold none.
HandlersAreBacked ==
    \A h \in Handlers :
        /\ handler[h].stage \in {"granted", "ok"} \/ handler[h].kind = "refresh" => user
        /\ handler[h].stage = "ok" \/ handler[h].kind = "refresh" =>
              handler[h].token # Nothing /\ Issued(handler[h].token)
        /\ handler[h].stage = "checked" => handler[h].kind = "refresh"
        /\ handler[h].stage \in {"received", "granted"} /\ handler[h].kind # "refresh" =>
              handler[h].token = Nothing

SessionInv == TypeOK /\ TokensAreBacked /\ HandlersAreBacked

\* A token is exchanged by handlers that found it valid, all of them before the
\* first of them revoked it.
Exchanging(p) ==
    {h \in Handlers : handler[h].stage \in {"checked", "granted"} /\ handler[h].token = p}

RotationInv ==
    \A p \in Pairs :
        /\ row[p] # "revoked" =>
              /\ ExchangedFrom(p) = {}
              /\ \A h \in Handlers : handler[h].stage = "granted" => handler[h].token # p
        /\ Cardinality(ExchangedFrom(p)) + Cardinality(Exchanging(p)) <= Cardinality(Handlers)

\* What each kind of request to /auth is asked for.
Awaiting == [register |-> "registering", login |-> "logging_in", refresh |-> "refreshing"]

\* Answers and calls find each other: a call that waits for /auth has one handler
\* that works for it, and that handler does what the call waits for.
CallsAreServed ==
    /\ \A h \in Handlers : handler[h].for # Nothing =>
          /\ handler[h].stage # "free" /\ handler[h].kind \in DOMAIN Awaiting
          /\ call[handler[h].for] = Awaiting[handler[h].kind]
    /\ \A c \in Calls : call[c] \in {"registering", "logging_in", "refreshing"} =>
          \E h \in Handlers : handler[h].for = c
    /\ \A h, k \in Handlers :
          handler[h].for = handler[k].for /\ handler[h].for # Nothing => h = k

\* The order of the stages of a call.
Order ==
    [ idle |-> 0, registering |-> 1, logging_in |-> 2, sent |-> 3, denied |-> 4,
      refreshing |-> 5, resent |-> 6, done |-> 7, failed |-> 7 ]

\* A call moves on in this order until its promise is settled.
CallsMoveOn ==
    \A c \in Calls : call'[c] = call[c] \/ call'[c] = "idle" \/ Order[call[c]] < Order[call'[c]]
==============================================================================
