---------------------------- MODULE SessionProofs ----------------------------
(***************************************************************************)
(* Theorems about Session, for any number of calls, of requests to /auth,  *)
(* of pairs, of expiries and of failures.                                  *)
(***************************************************************************)
EXTENDS Session, FiniteSetTheorems, TLAPS

\* SessionInv holds at the start.
LEMMA InitSession == Init => SessionInv
<1> SUFFICES ASSUME Init PROVE SessionInv
  OBVIOUS
<1>0. user \in BOOLEAN
  BY Zenon DEF Init
<1>1. endings \in 0 .. MaxEndings /\ faults \in 0 .. MaxFaults
  BY SessionBounds DEF Init
<1>2. handler \in [Handlers -> [stage : HandlerStages, kind : {"none", "register", "login", "refresh"},
                               for : Calls \cup {Nothing}, token : Pairs \cup {Nothing}]]
  BY DEF Init, Free, HandlerStages
<1>3. TypeOK
  BY <1>0, <1>1, <1>2 DEF Init, TypeOK, CallStages
<1>4. TokensAreBacked
  BY DEF Init, TokensAreBacked
<1>5. HandlersAreBacked
  BY DEF Init, HandlersAreBacked, Free
<1> QED
  BY <1>3, <1>4, <1>5 DEF SessionInv

\* A handler takes a step.
LEMMA HandlerSession ==
    ASSUME SessionInv, NEW h \in Handlers, HandlerStep(h)
    PROVE  SessionInv'
<1> USE NothingAssumption, SessionBounds
    DEF SessionInv, TypeOK, TokensAreBacked, HandlersAreBacked, Issued, HandlerStages,
        CallStages, Fault, At, Goto, RevokeToken, InsertToken, Free, tables, browser
<1>1. CASE CreateUser(h)
  <2>1. /\ user' \in BOOLEAN /\ (user => user')
        /\ \E s \in {"granted", "refused"} :
              handler' = [handler EXCEPT ![h].stage = s] /\ (s = "granted" => user')
    BY <1>1, Zenon DEF CreateUser
  <2>2. /\ faults' \in 0 .. MaxFaults
        /\ UNCHANGED <<row, origin, age, stored, call, pair, endings>>
        /\ handler[h].kind = "register" /\ handler[h].stage = "received"
    BY <1>1 DEF CreateUser
  <2>3. TypeOK'
    BY <2>1, <2>2
  <2>4. TokensAreBacked'
    BY <2>1, <2>2
  <2>5. HandlersAreBacked'
    <3>1. PICK s \in {"granted", "refused"} :
             handler' = [handler EXCEPT ![h].stage = s] /\ (s = "granted" => user')
      BY <2>1
    <3>2. ASSUME NEW k \in Handlers, k # h
          PROVE  handler'[k] = handler[k]
      BY <3>1, <3>2
    <3>3. /\ handler'[h].stage = s
          /\ handler'[h].kind = handler[h].kind
          /\ handler'[h].token = handler[h].token
      BY <3>1
    <3>4. handler[h].token = Nothing
      BY <2>2
    <3> QED
      BY <2>1, <2>2, <3>1, <3>2, <3>3, <3>4
  <2> QED
    BY <2>3, <2>4, <2>5
<1>2. CASE GetUserByEmail(h)
  <2>1. \E s \in {"granted", "refused"} :
           handler' = [handler EXCEPT ![h].stage = s] /\ (s = "granted" => user)
    BY <1>2, Zenon DEF GetUserByEmail
  <2>2. /\ faults' \in 0 .. MaxFaults
        /\ UNCHANGED <<user, row, origin, age, stored, call, pair, endings>>
        /\ handler[h].kind = "login" /\ handler[h].stage = "received"
    BY <1>2 DEF GetUserByEmail
  <2>3. TypeOK'
    BY <2>1, <2>2
  <2>4. TokensAreBacked'
    BY <2>1, <2>2
  <2>5. HandlersAreBacked'
    <3>1. PICK s \in {"granted", "refused"} :
             handler' = [handler EXCEPT ![h].stage = s] /\ (s = "granted" => user)
      BY <2>1
    <3>2. ASSUME NEW k \in Handlers, k # h
          PROVE  handler'[k] = handler[k]
      BY <3>1, <3>2
    <3>3. /\ handler'[h].stage = s
          /\ handler'[h].kind = handler[h].kind
          /\ handler'[h].token = handler[h].token
      BY <3>1
    <3>4. handler[h].token = Nothing
      BY <2>2
    <3> QED
      BY <2>1, <2>2, <3>1, <3>2, <3>3, <3>4
  <2> QED
    BY <2>3, <2>4, <2>5
<1>3. CASE GetRefreshToken(h)
  <2>1. TypeOK'
    BY <1>3 DEF GetRefreshToken
  <2>2. TokensAreBacked'
    BY <1>3 DEF GetRefreshToken
  <2>3. HandlersAreBacked'
    BY <1>3 DEF GetRefreshToken
  <2> QED
    BY <2>1, <2>2, <2>3
<1>4. CASE RevokeRefreshToken(h)
  <2>1. TypeOK'
    BY <1>4 DEF RevokeRefreshToken
  <2>2. TokensAreBacked'
    BY <1>4 DEF RevokeRefreshToken
  <2>3. HandlersAreBacked'
    BY <1>4 DEF RevokeRefreshToken
  <2> QED
    BY <2>1, <2>2, <2>3
<1>5. CASE StoreRefreshToken(h)
  <2>1. TypeOK'
    BY <1>5 DEF StoreRefreshToken
  <2>2. TokensAreBacked'
    BY <1>5 DEF StoreRefreshToken
  <2>3. HandlersAreBacked'
    <3>1. /\ user' = user /\ user
          /\ \A p : Issued(p) /\ p \in Pairs => Issued(p)'
      BY <1>5 DEF StoreRefreshToken
    <3>2. ASSUME NEW k \in Handlers, k # h
          PROVE  handler'[k] = handler[k]
      BY <1>5, <3>2 DEF StoreRefreshToken
    <3>3. handler'[h].kind = handler[h].kind /\ handler'[h].stage \in {"ok", "refused"}
      BY <1>5 DEF StoreRefreshToken
    <3>4. CASE \E p \in Pairs :
                  /\ InsertToken(p)
                  /\ handler' = [handler EXCEPT ![h].stage = "ok", ![h].token = p]
      <4>1. PICK p \in Pairs :
               /\ row' = [row EXCEPT ![p] = "valid"]
               /\ handler' = [handler EXCEPT ![h].stage = "ok", ![h].token = p]
        BY <3>4
      <4>2. handler'[h].token = p /\ p # Nothing /\ row'[p] = "valid" /\ handler'[h].stage = "ok"
        BY <4>1 DEF Pairs
      <4> QED
        BY <3>1, <3>2, <3>3, <4>2
    <3>5. CASE Goto(h, "refused")
      <4>1. handler'[h].token = handler[h].token /\ handler'[h].stage = "refused"
        BY <3>5
      <4>2. handler[h].kind = "refresh" => row'[handler[h].token] # "none"
        BY <3>1, <4>1
      <4> QED
        BY <3>1, <3>2, <3>3, <4>1, <4>2
    <3> QED
      BY <1>5, <3>4, <3>5, Zenon DEF StoreRefreshToken
  <2> QED
    BY <2>1, <2>2, <2>3
<1>6. CASE Cancel(h)
  <2>1. TypeOK'
    BY <1>6 DEF Cancel
  <2>2. TokensAreBacked'
    BY <1>6 DEF Cancel
  <2>3. HandlersAreBacked'
    BY <1>6 DEF Cancel
  <2> QED
    BY <2>1, <2>2, <2>3
<1> QED
  BY <1>1, <1>2, <1>3, <1>4, <1>5, <1>6 DEF HandlerStep

\* A call takes a step of its own.
LEMMA CallSession ==
    ASSUME SessionInv, NEW c \in Calls, Start(c) \/ Answer(c) \/ Refresh(c) \/ Settle(c)
    PROVE  SessionInv'
<1> USE NothingAssumption, SessionBounds
    DEF SessionInv, TypeOK, TokensAreBacked, HandlersAreBacked, Issued, HandlerStages,
        CallStages, Fault, Send, Post, Free, tables, browser
<1>1. CASE Start(c)
  <2>1. TypeOK'
    BY <1>1 DEF Start
  <2>2. TokensAreBacked'
    BY <1>1 DEF Start
  <2>3. HandlersAreBacked'
    BY <1>1 DEF Start
  <2> QED
    BY <2>1, <2>2, <2>3
<1>2. CASE Answer(c)
  <2>1. TypeOK'
    BY <1>2 DEF Answer
  <2>2. TokensAreBacked'
    BY <1>2 DEF Answer
  <2>3. HandlersAreBacked'
    BY <1>2 DEF Answer
  <2> QED
    BY <2>1, <2>2, <2>3
<1>3. CASE Refresh(c)
  <2>1. TypeOK'
    BY <1>3 DEF Refresh
  <2>2. TokensAreBacked'
    BY <1>3 DEF Refresh
  <2>3. HandlersAreBacked'
    BY <1>3 DEF Refresh
  <2> QED
    BY <2>1, <2>2, <2>3
<1>4. CASE Settle(c)
  <2>1. TypeOK'
    BY <1>4 DEF Settle
  <2>2. TokensAreBacked'
    BY <1>4 DEF Settle
  <2>3. HandlersAreBacked'
    BY <1>4 DEF Settle
  <2> QED
    BY <2>1, <2>2, <2>3
<1> QED
  BY <1>1, <1>2, <1>3, <1>4

\* A call is answered, or gives up.
LEMMA DeliverSession ==
    ASSUME SessionInv, NEW c \in Calls, NEW h \in Handlers, Deliver(c, h) \/ GiveUp(c, h)
    PROVE  SessionInv'
<1> USE NothingAssumption, SessionBounds
    DEF SessionInv, TypeOK, TokensAreBacked, HandlersAreBacked, Issued, HandlerStages,
        CallStages, Fault, Send, Post, Free, tables, browser, Answered, TakeTokens
<1>1. CASE Deliver(c, h) /\ SignedUp(c, h)
  <2>1. TypeOK'
    <3>1. CASE Answered(c, h, "registering", "ok") /\ TakeTokens(c, h, "sent")
      BY <1>1, <3>1 DEF Deliver
    <3>2. CASE Answered(c, h, "registering", "refused") /\ Post(h, "login", c, Nothing)
                 /\ Send(c, "logging_in", Nothing) /\ UNCHANGED stored
      BY <1>1, <3>2 DEF Deliver
    <3> QED
      BY <1>1, <3>1, <3>2 DEF SignedUp
  <2>2. TokensAreBacked'
    BY <1>1 DEF Deliver, SignedUp
  <2>3. HandlersAreBacked'
    BY <1>1 DEF Deliver, SignedUp
  <2> QED
    BY <2>1, <2>2, <2>3
<1>2. CASE Deliver(c, h) /\ LoggedIn(c, h)
  <2>1. TypeOK'
    <3>1. CASE Answered(c, h, "logging_in", "ok") /\ TakeTokens(c, h, "sent")
      BY <1>2, <3>1 DEF Deliver
    <3>2. CASE Answered(c, h, "logging_in", "refused") /\ Send(c, "failed", Nothing)
                 /\ handler' = [handler EXCEPT ![h] = Free] /\ UNCHANGED stored
      BY <1>2, <3>2 DEF Deliver
    <3> QED
      BY <1>2, <3>1, <3>2 DEF LoggedIn
  <2>2. TokensAreBacked'
    BY <1>2 DEF Deliver, LoggedIn
  <2>3. HandlersAreBacked'
    BY <1>2 DEF Deliver, LoggedIn
  <2> QED
    BY <2>1, <2>2, <2>3
<1>3. CASE Deliver(c, h) /\ Refreshed(c, h)
  <2>1. TypeOK'
    BY <1>3 DEF Deliver, Refreshed
  <2>2. TokensAreBacked'
    BY <1>3 DEF Deliver, Refreshed
  <2>3. HandlersAreBacked'
    BY <1>3 DEF Deliver, Refreshed
  <2> QED
    BY <2>1, <2>2, <2>3
<1>4. CASE GiveUp(c, h)
  <2>1. TypeOK'
    BY <1>4 DEF GiveUp
  <2>2. TokensAreBacked'
    BY <1>4 DEF GiveUp
  <2>3. HandlersAreBacked'
    BY <1>4 DEF GiveUp
  <2> QED
    BY <2>1, <2>2, <2>3
<1> QED
  BY <1>1, <1>2, <1>3, <1>4 DEF Deliver

\* SessionInv is inductive.
LEMMA NextSession == SessionInv /\ [Next]_vars => SessionInv'
<1>1. ASSUME SessionInv, NEW p \in Pairs, Expire(p) \/ Logout(p)
      PROVE  SessionInv'
  BY <1>1, SessionBounds DEF Expire, Logout, SessionInv, TypeOK, TokensAreBacked, HandlersAreBacked,
     Issued, RevokeToken, tables, browser
<1>2. SessionInv /\ UNCHANGED vars => SessionInv'
  BY DEF vars, tables, browser, SessionInv, TypeOK, TokensAreBacked, HandlersAreBacked, Issued
<1> QED
  BY <1>1, <1>2, HandlerSession, CallSession, DeliverSession DEF Next, CallStep

\* SessionInv is an invariant of every behaviour, whatever fails.
THEOREM SessionInvariance == Spec => []SessionInv
BY InitSession, NextSession, PTL DEF Spec

\* Every variable keeps its type.
THEOREM SessionTypeCorrectness == Spec => []TypeOK
<1>1. SessionInv => TypeOK
  BY DEF SessionInv
<1> QED
  BY <1>1, SessionInvariance, PTL

\* The browser never holds tokens that the server has not stored, or of a user
\* that does not exist.
THEOREM BackedTokens == Spec => []TokensAreBacked
<1>1. SessionInv => TokensAreBacked
  BY DEF SessionInv
<1> QED
  BY <1>1, SessionInvariance, PTL

-------------------------------------------------------------------------------
(***************************************************************************)
(* Rotation.                                                               *)
(***************************************************************************)

\* A step that exchanges nothing, and lets no handler come nearer to it.
Quiet ==
    /\ origin' = origin
    /\ \A p \in Pairs :
          /\ row'[p] = row[p] \/ row'[p] = "revoked"
          /\ Exchanging(p)' \subseteq Exchanging(p)
          /\ \A h \in Handlers :
                handler'[h].stage = "granted" /\ handler'[h].token = p =>
                    handler[h].stage = "granted" /\ handler[h].token = p

\* The sets that RotationInv counts are finite.
LEMMA FiniteExchanges ==
    ASSUME IsFiniteSet(Handlers), NEW p
    PROVE  /\ IsFiniteSet(ExchangedFrom(p)) /\ IsFiniteSet(Exchanging(p))
           /\ Cardinality(ExchangedFrom(p)) \in Nat /\ Cardinality(Exchanging(p)) \in Nat
           /\ Cardinality(Handlers) \in Nat
           /\ Cardinality(Exchanging(p)) <= Cardinality(Handlers)
<1>1. IsFiniteSet(Pairs)
  BY SessionBounds, FS_Interval DEF Pairs
<1>2. ExchangedFrom(p) \subseteq Pairs /\ Exchanging(p) \subseteq Handlers
  BY DEF ExchangedFrom, Exchanging
<1> QED
  BY <1>1, <1>2, FS_Subset, FS_CardinalityType

\* A quiet step keeps RotationInv.
LEMMA QuietRotation ==
    ASSUME IsFiniteSet(Handlers), RotationInv, Quiet
    PROVE  RotationInv'
<1> SUFFICES ASSUME NEW p \in Pairs
             PROVE  /\ row'[p] # "revoked" =>
                          /\ ExchangedFrom(p)' = {}
                          /\ \A h \in Handlers :
                                handler'[h].stage = "granted" => handler'[h].token # p
                    /\ Cardinality(ExchangedFrom(p)') + Cardinality(Exchanging(p)')
                          <= Cardinality(Handlers)
  BY DEF RotationInv
<1>1. ExchangedFrom(p)' = ExchangedFrom(p)
  BY DEF Quiet, ExchangedFrom
<1>2. /\ Exchanging(p)' \subseteq Exchanging(p)
      /\ row'[p] = row[p] \/ row'[p] = "revoked"
      /\ \A h \in Handlers : handler'[h].stage = "granted" /\ handler'[h].token = p =>
             handler[h].stage = "granted" /\ handler[h].token = p
  BY DEF Quiet
<1>3. /\ Cardinality(Exchanging(p)') \in Nat
      /\ Cardinality(Exchanging(p)') <= Cardinality(Exchanging(p))
  BY <1>2, FiniteExchanges, FS_Subset, FS_CardinalityType
<1>4. /\ row[p] # "revoked" =>
            /\ ExchangedFrom(p) = {}
            /\ \A h \in Handlers : handler[h].stage = "granted" => handler[h].token # p
      /\ Cardinality(ExchangedFrom(p)) + Cardinality(Exchanging(p)) <= Cardinality(Handlers)
  BY DEF RotationInv
<1>5. Cardinality(ExchangedFrom(p)') + Cardinality(Exchanging(p)') <= Cardinality(Handlers)
  BY <1>1, <1>3, <1>4, FiniteExchanges
<1> QED
  BY <1>1, <1>2, <1>4, <1>5

\* A step of one handler is quiet if the handler is not left with a token to be
\* exchanged that it did not have at the same stage before.
LEMMA OneHandlerIsQuiet ==
    ASSUME NEW h \in Handlers, origin' = origin, row' = row,
           \A k \in Handlers \ {h} : handler'[k] = handler[k],
           \/ handler'[h].stage \notin {"checked", "granted"}
           \/ handler'[h].token = Nothing
           \/ handler'[h].token = handler[h].token /\ handler'[h].stage = handler[h].stage
    PROVE  Quiet
<1>1. ASSUME NEW p \in Pairs
      PROVE  p # Nothing
  BY NothingAssumption, SessionBounds DEF Pairs
<1>2. ASSUME NEW p \in Pairs, NEW k \in Handlers,
             handler'[k].stage \in {"checked", "granted"}, handler'[k].token = p
      PROVE  handler[k].stage = handler'[k].stage /\ handler[k].token = p
  BY <1>1, <1>2
<1>3. ASSUME NEW p \in Pairs
      PROVE  Exchanging(p)' \subseteq Exchanging(p)
  BY <1>2 DEF Exchanging
<1> QED
  BY <1>2, <1>3 DEF Quiet

\* Only handleRefresh and the insert of a pair are not quiet.
LEMMA OtherStepsAreQuiet ==
    ASSUME SessionInv, [Next]_vars,
           \A h \in Handlers : ~GetRefreshToken(h) /\ ~RevokeRefreshToken(h) /\ ~StoreRefreshToken(h)
    PROVE  Quiet
<1> USE DEF SessionInv, TypeOK, HandlersAreBacked, tables, browser
<1>1. ASSUME NEW h \in Handlers, CreateUser(h) \/ GetUserByEmail(h) \/ Cancel(h)
      PROVE  Quiet
  <2>1. origin' = origin /\ row' = row /\ \A k \in Handlers \ {h} : handler'[k] = handler[k]
    BY <1>1 DEF CreateUser, GetUserByEmail, Cancel, Goto
  <2>2. handler'[h].stage \notin {"checked", "granted"} \/ handler'[h].token = Nothing
    <3>1. CASE CreateUser(h)
      BY <3>1 DEF CreateUser, At, Goto
    <3>2. CASE GetUserByEmail(h)
      BY <3>2 DEF GetUserByEmail, At, Goto
    <3>3. CASE Cancel(h)
      BY <3>3 DEF Cancel, Free
    <3> QED
      BY <1>1, <3>1, <3>2, <3>3
  <2> QED
    BY <2>1, <2>2, OneHandlerIsQuiet
<1>2. ASSUME NEW c \in Calls, Start(c) \/ Refresh(c)
      PROVE  Quiet
  <2>1. CASE handler' = handler /\ origin' = origin /\ row' = row
    BY <2>1 DEF Quiet, Exchanging
  <2>2. ASSUME NEW h \in Handlers, NEW kind, NEW token, Post(h, kind, c, token)
        PROVE  /\ handler'[h].stage \notin {"checked", "granted"}
               /\ \A k \in Handlers \ {h} : handler'[k] = handler[k]
    BY <2>2 DEF Post
  <2>3. CASE /\ origin' = origin /\ row' = row
             /\ \E h \in Handlers : \E kind, token : Post(h, kind, c, token)
    BY <2>2, <2>3, OneHandlerIsQuiet
  <2> QED
    BY <1>2, <2>1, <2>3 DEF Start, Refresh
<1>3. ASSUME NEW c \in Calls, Answer(c) \/ Settle(c)
      PROVE  Quiet
  BY <1>3 DEF Answer, Settle, Quiet, Exchanging
<1>4. ASSUME NEW c \in Calls, NEW h \in Handlers, Deliver(c, h) \/ GiveUp(c, h)
      PROVE  Quiet
  <2>1. /\ origin' = origin /\ row' = row
        /\ \A k \in Handlers \ {h} : handler'[k] = handler[k]
        /\ \/ handler'[h].token = handler[h].token /\ handler'[h].stage = handler[h].stage
           \/ handler'[h].stage \notin {"checked", "granted"}
    BY <1>4 DEF Deliver, SignedUp, LoggedIn, Refreshed, TakeTokens, Free, Post, GiveUp
  <2> QED
    BY <2>1, OneHandlerIsQuiet
<1>5. ASSUME NEW p \in Pairs, Expire(p) \/ Logout(p)
      PROVE  Quiet
  BY <1>5 DEF Expire, Logout, RevokeToken, Quiet, Exchanging
<1>6. CASE UNCHANGED vars
  BY <1>6 DEF vars, Quiet, Exchanging
<1> QED
  BY <1>1, <1>2, <1>3, <1>4, <1>5, <1>6 DEF Next, HandlerStep, CallStep

\* handleRefresh finds a token valid: then nothing was exchanged for it yet.
LEMMA CheckRotation ==
    ASSUME IsFiniteSet(Handlers), SessionInv, RotationInv, NEW h \in Handlers, GetRefreshToken(h)
    PROVE  RotationInv'
<1>0. PICK t : t = handler[h].token
  OBVIOUS
<1> USE <1>0 DEF SessionInv, TypeOK, HandlersAreBacked
<1>1. t \in Pairs
  BY DEF GetRefreshToken, At
<1>2. CASE Goto(h, "checked") /\ row[t] = "valid" /\ UNCHANGED <<row, origin>>
  <2>1. ASSUME NEW p \in Pairs, p # t
        PROVE  Exchanging(p)' = Exchanging(p) /\ ExchangedFrom(p)' = ExchangedFrom(p)
    BY <1>2, <2>1 DEF Goto, Exchanging, ExchangedFrom
  <2>2. ExchangedFrom(t)' = {}
    <3>1. ExchangedFrom(t) = {}
      BY <1>1, <1>2 DEF RotationInv
    <3>2. ExchangedFrom(t)' = ExchangedFrom(t)
      BY <1>2 DEF ExchangedFrom
    <3> QED
      BY <3>1, <3>2
  <2>3. ASSUME NEW p \in Pairs, NEW k \in Handlers, handler'[k].stage = "granted", handler'[k].token = p
        PROVE  handler[k].stage = "granted" /\ handler[k].token = p
    BY <1>2, <2>3 DEF Goto
  <2>4. Cardinality(Exchanging(t)') <= Cardinality(Handlers) /\ Cardinality(Exchanging(t)') \in Nat
    BY FS_Subset, FS_CardinalityType, FiniteExchanges DEF Exchanging
  <2>5. Cardinality(ExchangedFrom(t)') = 0
    BY <2>2, FS_EmptySet
  <2>6. Cardinality(ExchangedFrom(t)') + Cardinality(Exchanging(t)') <= Cardinality(Handlers)
    BY <2>4, <2>5, FiniteExchanges
  <2>7. ASSUME NEW p \in Pairs, p # t
        PROVE  /\ row'[p] # "revoked" =>
                    /\ ExchangedFrom(p)' = {}
                    /\ \A k \in Handlers : handler'[k].stage = "granted" => handler'[k].token # p
               /\ Cardinality(ExchangedFrom(p)') + Cardinality(Exchanging(p)')
                    <= Cardinality(Handlers)
    BY <1>2, <2>1, <2>3, <2>7 DEF RotationInv
  <2>8. \A k \in Handlers : handler'[k].stage = "granted" => handler'[k].token # t
    BY <1>1, <1>2, <2>3 DEF RotationInv
  <2> QED
    BY <2>2, <2>6, <2>7, <2>8 DEF RotationInv
<1>3. CASE Goto(h, "refused") /\ (UNCHANGED row \/ RevokeToken(t)) /\ UNCHANGED origin
  <2>1. ASSUME NEW p \in Pairs
        PROVE  row'[p] = row[p] \/ row'[p] = "revoked"
    BY <1>3 DEF RevokeToken
  <2>2. ASSUME NEW k \in Handlers, handler'[k].stage \in {"checked", "granted"}
        PROVE  handler'[k] = handler[k]
    BY <1>3, <2>2 DEF Goto
  <2>3. Quiet
    BY <1>3, <2>1, <2>2 DEF Quiet, Exchanging
  <2> QED
    BY <2>3, QuietRotation
<1> QED
  BY <1>2, <1>3 DEF GetRefreshToken

\* The token is revoked: nothing is counted anew.
LEMMA RevokeRotation ==
    ASSUME IsFiniteSet(Handlers), SessionInv, RotationInv, NEW h \in Handlers, RevokeRefreshToken(h)
    PROVE  RotationInv'
<1>0. PICK t : t = handler[h].token
  OBVIOUS
<1> USE <1>0 DEF SessionInv, TypeOK, HandlersAreBacked
<1>1. t \in Pairs /\ row[t] # "none" /\ handler[h].stage = "checked"
  BY DEF RevokeRefreshToken, At, Issued
<1>2. origin' = origin /\ \A p \in Pairs : row'[p] = row[p] \/ row'[p] = "revoked"
  BY DEF RevokeRefreshToken, RevokeToken
<1>3. CASE Goto(h, "refused")
  <2>1. ASSUME NEW k \in Handlers, handler'[k].stage \in {"checked", "granted"}
        PROVE  handler'[k] = handler[k]
    BY <1>3, <2>1 DEF Goto
  <2>2. Quiet
    BY <1>2, <2>1 DEF Quiet, Exchanging
  <2> QED
    BY <2>2, QuietRotation
<1>4. CASE Goto(h, "granted") /\ RevokeToken(t)
  <2>1. row'[t] = "revoked"
    BY <1>1, <1>4 DEF RevokeToken
  <2>2. ASSUME NEW p \in Pairs
        PROVE  Exchanging(p)' = Exchanging(p) /\ ExchangedFrom(p)' = ExchangedFrom(p)
    BY <1>1, <1>2, <1>4 DEF Goto, Exchanging, ExchangedFrom
  <2>3. ASSUME NEW p \in Pairs, p # t, NEW k \in Handlers,
               handler'[k].stage = "granted", handler'[k].token = p
        PROVE  handler[k].stage = "granted" /\ handler[k].token = p
    BY <1>4, <2>3 DEF Goto
  <2> QED
    BY <1>2, <2>1, <2>2, <2>3 DEF RotationInv
<1> QED
  BY <1>3, <1>4 DEF RevokeRefreshToken

\* A pair is stored: one handler less is exchanging the token it came from, and
\* one pair more at most was exchanged for it.
LEMMA StoreRotation ==
    ASSUME IsFiniteSet(Handlers), SessionInv, RotationInv, NEW h \in Handlers, StoreRefreshToken(h)
    PROVE  RotationInv'
<1>0. PICK t : t = handler[h].token
  OBVIOUS
<1> USE <1>0 DEF SessionInv, TypeOK, HandlersAreBacked
<1>1. handler[h].stage = "granted"
  BY DEF StoreRefreshToken
<1>2. /\ \A k \in Handlers \ {h} : handler'[k] = handler[k]
      /\ handler'[h].stage \notin {"checked", "granted"}
  BY DEF StoreRefreshToken, Goto
<1>3. \A p \in Pairs : Exchanging(p)' = Exchanging(p) \ {h}
  BY <1>2 DEF Exchanging
<1>4. CASE UNCHANGED <<row, origin>>
  <2>1. Quiet
    BY <1>2, <1>3, <1>4 DEF Quiet
  <2> QED
    BY <2>1, QuietRotation
<1>5. ASSUME NEW q \in Pairs, NextPair(q), InsertToken(q), origin' = [origin EXCEPT ![q] = t]
      PROVE  RotationInv'
  <2>1. row[q] = "none" /\ row' = [row EXCEPT ![q] = "valid"]
    BY <1>5 DEF NextPair, Issued, InsertToken
  <2>2. t \in Pairs => row[t] = "revoked" /\ t # q
    BY <1>1, <2>1 DEF RotationInv
  <2>3. ASSUME NEW p \in Pairs, p # t
        PROVE  ExchangedFrom(p)' \subseteq ExchangedFrom(p)
    BY <1>5, <2>3 DEF ExchangedFrom
  <2>4. ASSUME t \in Pairs
        PROVE  ExchangedFrom(t)' \subseteq ExchangedFrom(t) \cup {q}
    BY <1>5, <2>4 DEF ExchangedFrom
  <2>5. ASSUME NEW p \in Pairs
        PROVE  /\ IsFiniteSet(ExchangedFrom(p)) /\ IsFiniteSet(Exchanging(p))
               /\ Cardinality(ExchangedFrom(p)) \in Nat /\ Cardinality(Exchanging(p)) \in Nat
               /\ Cardinality(Handlers) \in Nat
               /\ Cardinality(ExchangedFrom(p)) + Cardinality(Exchanging(p)) <= Cardinality(Handlers)
    BY FiniteExchanges DEF RotationInv
  <2>6. ASSUME NEW p \in Pairs, p # t
        PROVE  /\ row'[p] # "revoked" =>
                    /\ ExchangedFrom(p)' = {}
                    /\ \A k \in Handlers : handler'[k].stage = "granted" => handler'[k].token # p
               /\ Cardinality(ExchangedFrom(p)') + Cardinality(Exchanging(p)')
                    <= Cardinality(Handlers)
    <3>1. row'[p] # "revoked" => row[p] # "revoked"
      BY <2>1
    <3>2. row[p] # "revoked" =>
             /\ ExchangedFrom(p) = {}
             /\ \A k \in Handlers : handler[k].stage = "granted" => handler[k].token # p
      BY DEF RotationInv
    <3>3. \A k \in Handlers : handler'[k].stage = "granted" => handler'[k] = handler[k]
      BY <1>2
    <3>4. /\ Cardinality(ExchangedFrom(p)') \in Nat /\ Cardinality(Exchanging(p)') \in Nat
          /\ Cardinality(ExchangedFrom(p)') <= Cardinality(ExchangedFrom(p))
          /\ Cardinality(Exchanging(p)') <= Cardinality(Exchanging(p))
      BY <1>3, <2>3, <2>5, <2>6, FS_Subset, FS_CardinalityType
    <3> QED
      BY <2>3, <2>5, <2>6, <3>1, <3>2, <3>3, <3>4
  <2>7. ASSUME t \in Pairs
        PROVE  /\ row'[t] = "revoked"
               /\ Cardinality(ExchangedFrom(t)') + Cardinality(Exchanging(t)')
                    <= Cardinality(Handlers)
    <3>1. row'[t] = "revoked"
      BY <2>1, <2>2, <2>7
    <3>2. h \in Exchanging(t)
      BY <1>1 DEF Exchanging
    <3>3. /\ Cardinality(Exchanging(t)') = Cardinality(Exchanging(t)) - 1
          /\ Cardinality(Exchanging(t)') \in Nat
      BY <1>3, <2>5, <2>7, <3>2, FS_RemoveElement, FS_CardinalityType
    <3>4. /\ IsFiniteSet(ExchangedFrom(t) \cup {q})
          /\ Cardinality(ExchangedFrom(t) \cup {q}) <= Cardinality(ExchangedFrom(t)) + 1
      <4>1. /\ IsFiniteSet(ExchangedFrom(t) \cup {q})
            /\ \/ Cardinality(ExchangedFrom(t) \cup {q}) = Cardinality(ExchangedFrom(t))
               \/ Cardinality(ExchangedFrom(t) \cup {q}) = Cardinality(ExchangedFrom(t)) + 1
        BY <2>5, <2>7, FS_AddElement
      <4> QED
        BY <2>5, <2>7, <4>1
    <3>5. /\ Cardinality(ExchangedFrom(t)') \in Nat
          /\ Cardinality(ExchangedFrom(t)') <= Cardinality(ExchangedFrom(t) \cup {q})
      BY <2>4, <2>7, <3>4, FS_Subset, FS_CardinalityType
    <3>6. Cardinality(ExchangedFrom(t) \cup {q}) \in Nat
      BY <3>4, FS_CardinalityType
    <3> QED
      BY <2>5, <2>7, <3>1, <3>3, <3>4, <3>5, <3>6
  <2> QED
    BY <2>6, <2>7 DEF RotationInv
<1> QED
  BY <1>4, <1>5 DEF StoreRefreshToken

\* RotationInv is inductive.
LEMMA NextRotation ==
    ASSUME IsFiniteSet(Handlers)
    PROVE  /\ Init => RotationInv
           /\ SessionInv /\ RotationInv /\ [Next]_vars => RotationInv'
<1>1. ASSUME Init PROVE RotationInv
  <2>1. ASSUME NEW p \in Pairs
        PROVE  ExchangedFrom(p) = {} /\ Exchanging(p) = {}
    BY <1>1, NothingAssumption, SessionBounds DEF Init, ExchangedFrom, Exchanging, Free, Pairs
  <2>2. Cardinality({}) = 0 /\ Cardinality(Handlers) \in Nat
    BY FS_EmptySet, FS_CardinalityType
  <2>3. \A h \in Handlers : handler[h].stage = "free"
    BY <1>1 DEF Init, Free
  <2>4. ASSUME NEW p \in Pairs
        PROVE  Cardinality(ExchangedFrom(p)) + Cardinality(Exchanging(p)) <= Cardinality(Handlers)
    BY <2>1, <2>2
  <2> QED
    BY <2>1, <2>3, <2>4 DEF RotationInv
<1> QED
  BY <1>1, OtherStepsAreQuiet, QuietRotation, CheckRotation, RevokeRotation, StoreRotation

\* A refresh token is exchanged at most once for each request to /auth that can
\* be under way with it: with one at a time it is good for one exchange, however
\* often its answers are lost and it is presented again.
THEOREM Rotation == IsFiniteSet(Handlers) => (Spec => []RotationIsBounded)
<1> SUFFICES ASSUME IsFiniteSet(Handlers) PROVE Spec => []RotationIsBounded
  OBVIOUS
<1>1. RotationInv => RotationIsBounded
  <2> SUFFICES ASSUME RotationInv, NEW p \in Pairs
               PROVE  Cardinality(ExchangedFrom(p)) <= Cardinality(Handlers)
    BY DEF RotationIsBounded
  <2>1. Cardinality(ExchangedFrom(p)) + Cardinality(Exchanging(p)) <= Cardinality(Handlers)
    BY DEF RotationInv
  <2> QED
    BY <2>1, FiniteExchanges
<1>2. Init => RotationInv
  BY NextRotation
<1>3. SessionInv /\ RotationInv /\ [Next]_vars => RotationInv'
  BY NextRotation
<1> QED
  BY <1>1, <1>2, <1>3, SessionInvariance, PTL DEF Spec

-------------------------------------------------------------------------------
(***************************************************************************)
(* Calls and the handlers that work for them: what the end of every call   *)
(* rests on.                                                               *)
(***************************************************************************)

\* A handler keeps its kind and its call until it is answered or cancelled.
LEMMA HandlerServes ==
    ASSUME SessionInv, CallsAreServed, NEW h \in Handlers, HandlerStep(h)
    PROVE  CallsAreServed'
<1> USE NothingAssumption DEF SessionInv, TypeOK, HandlerStages, CallsAreServed, Awaiting
<1>1. CASE Cancel(h)
  BY <1>1 DEF Cancel, Free, browser
<1>2. CASE ~Cancel(h)
  <2>1. /\ call' = call
        /\ handler[h].stage # "free"
        /\ \/ \E s \in HandlerStages \ {"free"} : handler' = [handler EXCEPT ![h].stage = s]
           \/ \E p \in Pairs : handler' = [handler EXCEPT ![h].stage = "ok", ![h].token = p]
    BY <1>2 DEF HandlerStep, CreateUser, GetUserByEmail, GetRefreshToken, RevokeRefreshToken,
                StoreRefreshToken, At, Goto, browser
  <2>2. \A k \in Handlers :
          /\ handler'[k].for = handler[k].for /\ handler'[k].kind = handler[k].kind
          /\ handler[k].stage # "free" => handler'[k].stage # "free"
    BY <2>1
  <2> QED
    BY <2>1, <2>2
<1> QED
  BY <1>1, <1>2

\* A call that begins, or is denied, gets a handler of its own; an answer goes to
\* the call that waits for it, and frees the handler or gives it the next request.
LEMMA CallServed ==
    ASSUME SessionInv, CallsAreServed, NEW c \in Calls,
           Start(c) \/ CallStep(c) \/ \E h \in Handlers : GiveUp(c, h)
    PROVE  CallsAreServed' /\ CallsMoveOn
<1> USE NothingAssumption DEF SessionInv, TypeOK, CallStages, HandlerStages
<1> DEFINE Waiting(stage) == stage \in {"registering", "logging_in", "refreshing"}
<1> DEFINE Idle(h) == handler'[h].for = Nothing
<1>0. \A d \in Calls \ {c} : call'[d] = call[d]
  BY DEF Start, CallStep, Answer, Refresh, Settle, Deliver, SignedUp, LoggedIn, Refreshed,
         TakeTokens, GiveUp, Send, browser
<1>1. ASSUME UNCHANGED handler, ~Waiting(call[c]), ~Waiting(call'[c])
      PROVE  CallsAreServed'
  BY <1>0, <1>1 DEF CallsAreServed, Awaiting
<1>2. ASSUME NEW h \in Handlers, handler[h] = Free \/ handler[h].for = c, ~Waiting(call[c]) \/ handler[h].for = c,
             NEW kind \in DOMAIN Awaiting, NEW token, Post(h, kind, c, token),
             call'[c] = Awaiting[kind]
      PROVE  CallsAreServed'
  <2>1. \A k \in Handlers \ {h} : handler'[k] = handler[k] /\ handler[k].for # c
    BY <1>2 DEF Post, CallsAreServed, Awaiting
  <2>2. handler'[h].stage = "received" /\ handler'[h].kind = kind /\ handler'[h].for = c
    BY <1>2 DEF Post
  <2>3. \A d \in Calls \ {c} : Waiting(call[d]) => \E k \in Handlers \ {h} : handler[k].for = d
    BY <1>2 DEF CallsAreServed, Free
  <2> QED
    BY <1>0, <1>2, <2>1, <2>2, <2>3 DEF CallsAreServed
<1>3. ASSUME NEW h \in Handlers, handler[h].for = c, ~Waiting(call'[c]),
             handler' = [handler EXCEPT ![h] = Free] \/ handler' = [handler EXCEPT ![h].for = Nothing]
      PROVE  CallsAreServed'
  <2>1. \A k \in Handlers \ {h} : handler'[k] = handler[k] /\ handler[k].for # c
    BY <1>3 DEF CallsAreServed
  <2>2. handler'[h].for = Nothing
    BY <1>3 DEF Free
  <2>3. \A d \in Calls \ {c} : Waiting(call[d]) => \E k \in Handlers \ {h} : handler[k].for = d
    BY <1>3 DEF CallsAreServed
  <2>4. ASSUME NEW k \in Handlers, handler'[k].for # Nothing
        PROVE  /\ k # h /\ handler'[k] = handler[k]
               /\ handler[k].for \in Calls \ {c} /\ call'[handler[k].for] = call[handler[k].for]
    BY <1>0, <2>1, <2>2, <2>4
  <2>5. ASSUME NEW d \in Calls, Waiting(call'[d])
        PROVE  \E k \in Handlers : handler'[k].for = d
    <3>1. d # c /\ Waiting(call[d])
      BY <1>0, <1>3, <2>5
    <3> QED
      BY <2>1, <2>3, <3>1
  <2> QED
    BY <2>4, <2>5 DEF CallsAreServed
<1> HIDE DEF Waiting
<1>4. CASE Start(c)
  <2>1. CASE stored # Nothing /\ Send(c, "sent", stored) /\ UNCHANGED handler
    BY <1>0, <1>1, <1>4, <2>1 DEF Start, Send, CallsMoveOn, Order, Waiting
  <2>2. ASSUME Send(c, "registering", Nothing), NEW h \in Handlers, handler[h] = Free,
               Post(h, "register", c, Nothing)
        PROVE  CallsAreServed' /\ CallsMoveOn
    BY <1>0, <1>2, <1>4, <2>2 DEF Start, Send, CallsMoveOn, Order, Waiting, Awaiting
  <2> QED
    BY <1>4, <2>1, <2>2 DEF Start
<1>5. CASE Answer(c)
  BY <1>0, <1>1, <1>5 DEF Answer, CallsMoveOn, Order, Waiting
<1>6. CASE Refresh(c)
  <2>1. CASE Send(c, "failed", Nothing) /\ UNCHANGED handler
    BY <1>0, <1>1, <1>6, <2>1 DEF Refresh, Send, CallsMoveOn, Order, Waiting
  <2>2. ASSUME Send(c, "refreshing", stored), NEW h \in Handlers, handler[h] = Free,
               Post(h, "refresh", c, stored)
        PROVE  CallsAreServed' /\ CallsMoveOn
    BY <1>0, <1>2, <1>6, <2>2 DEF Refresh, Send, CallsMoveOn, Order, Waiting, Awaiting
  <2> QED
    BY <1>6, <2>1, <2>2 DEF Refresh
<1>7. CASE Settle(c)
  BY <1>0, <1>1, <1>7 DEF Settle, Send, CallsMoveOn, Waiting
<1>8. ASSUME NEW h \in Handlers, Deliver(c, h)
      PROVE  CallsAreServed' /\ CallsMoveOn
  <2>1. CASE Answered(c, h, "registering", "refused") /\ Post(h, "login", c, Nothing)
             /\ Send(c, "logging_in", Nothing)
    BY <1>0, <1>2, <2>1 DEF Answered, Send, CallsMoveOn, Order, Awaiting
  <2>2. CASE \E stage \in {"sent", "resent", "failed"} :
               /\ handler[h].for = c /\ Waiting(call[c]) /\ call' = [call EXCEPT ![c] = stage]
               /\ call[c] = "refreshing" => stage # "sent"
               /\ handler' = [handler EXCEPT ![h] = Free]
    <3>1. PICK stage \in {"sent", "resent", "failed"} :
            call' = [call EXCEPT ![c] = stage] /\ (call[c] = "refreshing" => stage # "sent")
      BY <2>2
    <3>2. call'[c] = stage /\ ~Waiting(call'[c])
      BY <3>1 DEF Waiting
    <3>3. CallsAreServed'
      BY <1>3, <2>2, <3>2
    <3>4. Order[call[c]] < Order[stage]
      BY <2>2, <3>1 DEF Order, Waiting
    <3> QED
      BY <1>0, <3>2, <3>3, <3>4 DEF CallsMoveOn
  <2> QED
    BY <1>8, <2>1, <2>2
       DEF Deliver, SignedUp, LoggedIn, Refreshed, TakeTokens, Answered, Send, Waiting
<1>9. ASSUME NEW h \in Handlers, GiveUp(c, h)
      PROVE  CallsAreServed' /\ CallsMoveOn
  <2>1. Waiting(call[c]) /\ handler[h].for = c
    BY <1>9 DEF GiveUp, CallsAreServed, Awaiting, Waiting
  <2>2. call' = [call EXCEPT ![c] = "failed"] /\ handler' = [handler EXCEPT ![h].for = Nothing]
    BY <1>9 DEF GiveUp, Send
  <2>3. CallsAreServed'
    BY <1>3, <2>1, <2>2 DEF Waiting
  <2>4. call'[c] = "failed" /\ Order[call[c]] < Order["failed"]
    BY <2>1, <2>2 DEF Order, Waiting
  <2> QED
    BY <1>0, <2>3, <2>4 DEF CallsMoveOn
<1> QED
  BY <1>4, <1>5, <1>6, <1>7, <1>8, <1>9 DEF CallStep

\* Every step keeps calls and handlers together, and moves calls on.
LEMMA NextServed ==
    ASSUME SessionInv, CallsAreServed, [Next]_vars
    PROVE  CallsAreServed' /\ [CallsMoveOn]_vars
<1>1. ASSUME UNCHANGED call PROVE CallsMoveOn
  BY <1>1 DEF CallsMoveOn
<1>2. ASSUME UNCHANGED <<call, handler>> PROVE CallsAreServed'
  BY <1>2 DEF CallsAreServed
<1>3. ASSUME NEW h \in Handlers, HandlerStep(h)
      PROVE  UNCHANGED call
  BY <1>3 DEF HandlerStep, CreateUser, GetUserByEmail, GetRefreshToken, RevokeRefreshToken,
              StoreRefreshToken, Cancel, browser
<1>4. ASSUME NEW p \in Pairs, Expire(p) \/ Logout(p)
      PROVE  UNCHANGED <<call, handler>>
  BY <1>4 DEF Expire, Logout, browser
<1> QED
  BY <1>1, <1>2, <1>3, <1>4, HandlerServes, CallServed DEF Next, vars, browser

\* A call never waits for an answer that nobody is working on, and an answer
\* never reaches a call that waits for another one, whatever is lost, refused or
\* given up, for any number of calls (auth.ts:54-106).
THEOREM NoCallWaitsForNobody == Spec => []CallsAreServed
<1>1. Init => CallsAreServed
  BY NothingAssumption DEF Init, CallsAreServed, Free
<1> QED
  BY <1>1, NextServed, SessionInvariance, PTL DEF Spec

\* No call goes round in circles: it registers, logs in, is sent, refreshes and is
\* sent again at most once each before it is settled (client.ts:27-39).  With
\* NoCallWaitsForNobody this is what CallsEnd adds fairness to.
THEOREM NoCallGoesBack == Spec => [][CallsMoveOn]_vars
BY NextServed, NoCallWaitsForNobody, SessionInvariance, PTL DEF Spec
==============================================================================
