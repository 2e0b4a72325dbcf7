---------------------------- MODULE Sessions_proofs ----------------------------
(***************************************************************************)
(* Proofs about Sessions, for every number of tokens and requests, and     *)
(* every idle timeout, ceiling and window.                                 *)
(***************************************************************************)
EXTENDS Sessions, TLAPS

USE IdleAssumption, MaxAssumption, WindowAssumption, PasswordsAssumption

(***************************************************************************)
(* What the requests at each stage are known to carry.                     *)
(***************************************************************************)
WithSession == {"found", "touch", "held", "enrol", "serving", "verified", "drop"}

CarriesToken ==
  \A r \in Requests :
    /\ req[r].at \in WithSession => req[r].token \in Tokens
    /\ req[r].token # None => req[r].token \in drawn

TypeInv == TypeOK /\ CarriesToken

--------------------------------------------------------------------------------
(* Time *)

LEMMA SoonerIsLess ==
  ASSUME NEW n \in Nat
  PROVE  Sooner(n) \in Nat /\ Sooner(n) <= n /\ (n > 0 => Sooner(n) = n - 1)
BY DEF Sooner

LEMMA OlderIsCapped ==
  ASSUME NEW cap \in Nat, NEW n \in 0..cap
  PROVE  Older(n, cap) \in 0..cap /\ Older(n, cap) <= n + 1
BY DEF Older

LEMMA ExpiryIsBounded ==
  ASSUME NEW age \in 0..SessionMax
  PROVE  /\ SessionExpiryWith(age) \in 0..Idle
         /\ SessionExpiryWith(age) + age <= SessionMax
BY DEF SessionExpiryWith, Smaller

LEMMA NoRequestIsOne == NoRequest \in Request
BY DEF NoRequest, Request, Stages

LEMMA RowsAreRows ==
  ASSUME TypeOK, NEW s \in rows
  PROVE  /\ s \in Tokens /\ s \in drawn
         /\ row[s] \in Row
         /\ row[s].left \in 0..Idle /\ row[s].age \in 0..SessionMax /\ row[s].seen \in 0..Idle
BY DEF TypeOK, rows, Row

LEMMA AgedIsARow ==
  ASSUME NEW x \in Row
  PROVE  /\ Aged(x) \in Row
         /\ Aged(x).left = Sooner(x.left)
         /\ Aged(x).age = Older(x.age, SessionMax)
         /\ Aged(x).seen = Older(x.seen, Idle)
<1>1. Sooner(x.left) \in 0..Idle
  BY SoonerIsLess DEF Row
<1>2. Older(x.age, SessionMax) \in 0..SessionMax /\ Older(x.seen, Idle) \in 0..Idle
  BY OlderIsCapped DEF Row
<1> QED
  BY <1>1, <1>2 DEF Aged, Row

--------------------------------------------------------------------------------
(* Types *)

THEOREM TypeInvInit == Init => TypeInv
<1> SUFFICES ASSUME Init PROVE TypeInv
  OBVIOUS
<1>1. rows = {}
  BY DEF Init, rows
<1>2. TypeOK
  BY <1>1, NoRequestIsOne DEF Init, TypeOK, Passwords
<1>3. CarriesToken
  BY DEF Init, CarriesToken, NoRequest, WithSession
<1> QED
  BY <1>2, <1>3 DEF TypeInv

\* A request goes on as q, the others stay what they are.
LEMMA GoesOn ==
  ASSUME TypeInv, NEW r \in Requests, NEW q \in Request, req' = [req EXCEPT ![r] = q],
         q.at \in WithSession => q.token \in Tokens, q.token # None => q.token \in drawn,
         drawn \subseteq drawn'
  PROVE  req' \in [Requests -> Request] /\ CarriesToken'
BY DEF TypeInv, TypeOK, CarriesToken

\* A request that ends leaves the others as they were.
LEMMA AnswerKeepsTypes ==
  ASSUME TypeInv, NEW r \in Requests, Answer(r), drawn' = drawn
  PROVE  req' \in [Requests -> Request] /\ CarriesToken'
BY NoRequestIsOne DEF TypeInv, TypeOK, CarriesToken, Answer, NoRequest, WithSession

\* Rows may go; those that stay are what they were.
LEMMA KeepRowsKeepsTypes ==
  ASSUME TypeInv, NEW S, row' = KeepRows(S), drawn' = drawn
  PROVE  /\ row' \in [Tokens -> Row \cup {None}] /\ rows' \subseteq rows
         /\ \A s \in rows' : row'[s] = row[s]
BY NoneAssumption DEF TypeInv, TypeOK, KeepRows, rows

\* Requests that change nothing but themselves.
Quiet == UNCHANGED <<table, confirmations, credentials>>

LEMMA QuietKeepsTypes ==
  ASSUME TypeInv, Quiet, req' \in [Requests -> Request], CarriesToken'
  PROVE  TypeInv'
BY DEF TypeInv, TypeOK, Quiet, table, confirmations, credentials, rows

LEMMA RequireLoginType ==
  ASSUME TypeInv, NEW r \in Requests, requireLogin(r)
  PROVE  TypeInv'
<1>0. USE DEF At
<1>1. ASSUME NEW s \in Tokens, NEW sensitive \in BOOLEAN, currentSession(r, s, sensitive)
      PROVE  TypeInv'
  <2> DEFINE q == [NoRequest EXCEPT !.at = "found", !.token = s, !.sensitive = sensitive,
                                    !.standing = IF sensitive THEN InForce ELSE {}]
  <2>1. req' = [req EXCEPT ![r] = q] /\ Quiet /\ s \in drawn
    BY <1>1 DEF TypeInv, TypeOK, currentSession, Live, Quiet
  <2>2. q \in Request /\ q.token = s
    <3>1. InForce \in SUBSET Passwords
      BY DEF TypeInv, TypeOK, InForce
    <3>2. (IF sensitive THEN InForce ELSE {}) \in SUBSET Passwords
      BY <3>1
    <3> HIDE DEF InForce
    <3>3. 0 \in 0..Idle
      OBVIOUS
    <3> QED
      BY <3>2, <3>3 DEF NoRequest, Request, Stages
  <2> QED
    BY <2>1, <2>2, GoesOn, QuietKeepsTypes DEF Quiet, table
<1>2. CASE Extend(r)
  <2>1. ASSUME req[r].token \in rows PROVE SessionExpiryWith(row[req[r].token].age) \in 0..Idle
    BY <2>1, ExpiryIsBounded, RowsAreRows DEF TypeInv
  <2> DEFINE q == [req[r] EXCEPT !.at = "touch",
                     !.due = IF req[r].token \in rows
                             THEN SessionExpiryWith(row[req[r].token].age) ELSE 0]
  <2>2. req' = [req EXCEPT ![r] = q] /\ Quiet
    BY <1>2 DEF TypeInv, TypeOK, Extend, Quiet
  <2>3. q \in Request /\ q.token = req[r].token
    <3>1. req[r] \in Request
      BY DEF TypeInv, TypeOK
    <3>2. (IF req[r].token \in rows THEN SessionExpiryWith(row[req[r].token].age) ELSE 0) \in 0..Idle
      BY <2>1
    <3> QED
      BY <3>1, <3>2 DEF Request, Stages
  <2>4. req[r].token \in Tokens /\ req[r].token \in drawn
    BY <1>2, NoneAssumption DEF TypeInv, CarriesToken, Extend, WithSession
  <2> QED
    BY <2>2, <2>3, <2>4, GoesOn, QuietKeepsTypes DEF Quiet, table
<1>3. ASSUME Admitted(r), At(r, "touch"), drawn' = drawn
      PROVE  req' \in [Requests -> Request] /\ CarriesToken'
  <2> DEFINE q == [req[r] EXCEPT !.at = IF req[r].sensitive THEN "held" ELSE "enrol", !.due = 0]
  <2>1. req' = [req EXCEPT ![r] = q]
    BY <1>3 DEF TypeInv, TypeOK, Admitted
  <2>2. q \in Request /\ q.token = req[r].token
    <3>1. req[r] \in Request
      BY DEF TypeInv, TypeOK
    <3>2. 0 \in 0..Idle /\ (IF req[r].sensitive THEN "held" ELSE "enrol") \in Stages
      BY DEF Stages
    <3> QED
      BY <3>1, <3>2 DEF Request
  <2>3. req[r].token \in Tokens /\ req[r].token \in drawn
    BY <1>3, NoneAssumption DEF TypeInv, CarriesToken, WithSession
  <2> QED
    BY <1>3, <2>1, <2>2, <2>3, GoesOn
<1>4. CASE TouchSession(r)
  <2> DEFINE s == req[r].token
  <2>1. s \in Tokens
    BY <1>4 DEF TypeInv, CarriesToken, TouchSession, WithSession
  <2>2. req[r].due \in 0..Idle
    BY DEF TypeInv, TypeOK, Request
  <2>3. row' \in [Tokens -> Row \cup {None}] /\ rows' = rows
    <3>1. 0 \in 0..Idle
      OBVIOUS
    <3>2. ASSUME s \in rows
          PROVE  [row[s] EXCEPT !.left = req[r].due, !.seen = 0] \in Row
      BY <2>2, <3>1, <3>2, RowsAreRows DEF TypeInv, Row
    <3>3. row' = [row EXCEPT ![s] = IF s \in rows
                                   THEN [row[s] EXCEPT !.left = req[r].due, !.seen = 0] ELSE None]
      BY <1>4 DEF TouchSession
    <3> QED
      BY <2>1, <3>2, <3>3, NoneAssumption DEF TypeInv, TypeOK, rows
  <2> QED
    BY <1>3, <1>4, <2>3 DEF TypeInv, TypeOK, TouchSession, confirmations, credentials
<1>5. CASE TouchFails(r)
  BY <1>3, <1>5, QuietKeepsTypes DEF TouchFails, Quiet, table
<1>6. CASE needsConfirmation(r)
  <2>1. CASE Answer(r)
    BY <1>6, <2>1, AnswerKeepsTypes, QuietKeepsTypes DEF needsConfirmation, Quiet, table
  <2>2. CASE req' = [req EXCEPT ![r] = [@ EXCEPT !.at = "enrol", !.typed = by[req[r].token]]]
    <3>1. req[r].token \in Tokens
      BY <1>6 DEF TypeInv, CarriesToken, needsConfirmation, WithSession
    <3> DEFINE q == [req[r] EXCEPT !.at = "enrol", !.typed = by[req[r].token]]
    <3>2. req' = [req EXCEPT ![r] = q] /\ Quiet
      BY <1>6, <2>2 DEF TypeInv, TypeOK, needsConfirmation, Quiet
    <3>3. q \in Request /\ q.token = req[r].token
      BY <3>1 DEF TypeInv, TypeOK, Request, Stages
    <3>4. req[r].token \in drawn
      BY <3>1, NoneAssumption DEF TypeInv, CarriesToken
    <3> QED
      BY <3>1, <3>2, <3>3, <3>4, GoesOn, QuietKeepsTypes DEF Quiet, table
  <2> QED
    BY <1>6, <2>1, <2>2 DEF needsConfirmation
<1>7. CASE mustEnrol(r)
  <2>1. CASE Answer(r)
    BY <1>7, <2>1, AnswerKeepsTypes, QuietKeepsTypes DEF mustEnrol, Quiet, table
  <2>2. CASE Goto(r, "serving")
    <3>1. req' \in [Requests -> Request] /\ CarriesToken'
      BY <1>7, <2>2 DEF TypeInv, TypeOK, CarriesToken, mustEnrol, Goto, Request, Stages,
                        WithSession, table
    <3> QED
      BY <1>7, <3>1, QuietKeepsTypes DEF mustEnrol, Quiet
  <2> QED
    BY <1>7, <2>1, <2>2 DEF mustEnrol
<1> QED
  BY <1>1, <1>2, <1>4, <1>5, <1>6, <1>7 DEF requireLogin

LEMMA HandleType ==
  ASSUME TypeInv, NEW r \in Requests, Handle(r)
  PROVE  TypeInv'
<1>0. USE DEF At
<1>1. ASSUME Reply(r) \/ Abandon(r)
      PROVE  TypeInv'
  BY <1>1, AnswerKeepsTypes, QuietKeepsTypes DEF Reply, Abandon, Quiet, table
<1>2. ASSUME NEW next \in {"verified", "set"}, NEW typed \in {0} \cup Passwords,
             verify(r, next, typed)
      PROVE  TypeInv'
  <2> DEFINE q == [req[r] EXCEPT !.at = next, !.typed = typed]
  <2>1. req' = [req EXCEPT ![r] = q] /\ Quiet
    BY <1>2 DEF TypeInv, TypeOK, verify, Quiet
  <2>2. q \in Request /\ q.token = req[r].token
    BY DEF TypeInv, TypeOK, Request, Stages
  <2>3. req[r].token \in Tokens /\ req[r].token \in drawn
    BY <1>2, NoneAssumption DEF TypeInv, CarriesToken, verify, Serving, WithSession
  <2> QED
    BY <2>1, <2>2, <2>3, GoesOn, QuietKeepsTypes DEF Quiet, table
<1>3. CASE doConfirm(r) \/ changeOwnPassword(r)
  BY <1>2, <1>3 DEF doConfirm, changeOwnPassword, TypeInv, TypeOK
<1>4. CASE grant(r)
  <2>1. req[r].token \in Tokens /\ req[r].typed \in {0} \cup Passwords
    BY <1>4 DEF TypeInv, TypeOK, CarriesToken, grant, WithSession, Request
  <2>2. /\ confirmed' \in [Tokens -> 0..ConfirmWindow]
        /\ by' \in [Tokens -> {0} \cup Passwords]
    BY <1>4, <2>1 DEF grant, TypeInv, TypeOK
  <2> QED
    BY <1>4, <2>2, AnswerKeepsTypes DEF grant, TypeInv, TypeOK, table, credentials, rows
<1>5. ASSUME NEW next \in {"open", "set"}, At(r, "none"),
             req' = [req EXCEPT ![r] = [NoRequest EXCEPT !.at = next]], Quiet
      PROVE  TypeInv'
  <2>1. req' \in [Requests -> Request] /\ CarriesToken'
    BY <1>5, NoRequestIsOne DEF TypeInv, TypeOK, CarriesToken, NoRequest, Request, Stages,
                                WithSession, Quiet, table
  <2> QED
    BY <1>5, <2>1, QuietKeepsTypes
<1>6. CASE doLogin(r) \/ resetPassword(r)
  BY <1>5, <1>6 DEF doLogin, resetPassword, Quiet
<1>7. ASSUME NEW s \in Tokens, CreateSession(r, s)
      PROVE  TypeInv'
  <2>1. SessionExpiryWith(0) \in 0..Idle
    BY ExpiryIsBounded
  <2>2. row' \in [Tokens -> Row \cup {None}] /\ rows' \subseteq rows \cup {s}
    BY <1>7, <2>1 DEF CreateSession, TypeInv, TypeOK, Row, rows
  <2>3. req' \in [Requests -> Request] /\ CarriesToken'
    BY <1>7, NoRequestIsOne DEF CreateSession, TypeInv, TypeOK, CarriesToken, Answer, NoRequest,
                                WithSession
  <2> QED
    BY <1>7, <2>2, <2>3 DEF CreateSession, TypeInv, TypeOK, confirmations, credentials
<1>8. CASE DeleteSession(r)
  <2>1. req' \in [Requests -> Request] /\ CarriesToken'
    BY <1>8 DEF DeleteSession, Serving, Goto, TypeInv, TypeOK, CarriesToken, Request, Stages,
                WithSession
  <2>2. row' \in [Tokens -> Row \cup {None}] /\ rows' \subseteq rows
    <3>1. CASE row' = row
      BY <3>1 DEF TypeInv, TypeOK, rows
    <3> QED
      BY <1>8, <3>1, KeepRowsKeepsTypes DEF DeleteSession
  <2> QED
    BY <1>8, <2>1, <2>2 DEF DeleteSession, TypeInv, TypeOK, confirmations, credentials
<1>9. CASE drop(r)
  <2>1. /\ confirmed' \in [Tokens -> 0..ConfirmWindow]
        /\ by' \in [Tokens -> {0} \cup Passwords]
    <3>1. 0 \in 0..ConfirmWindow /\ 0 \in {0} \cup Passwords
      OBVIOUS
    <3> QED
      BY <1>9, <3>1 DEF drop, TypeInv, TypeOK
  <2> QED
    BY <1>9, <2>1, AnswerKeepsTypes DEF drop, TypeInv, TypeOK, table, credentials, rows
<1>10. CASE SetUserCredentials(r)
  <2>0. InForce \subseteq Passwords
    BY DEF InForce, TypeInv, TypeOK
  <2>1. password + 1 \in Passwords
    <3>1. password \in Passwords /\ password < MaxPasswords
      BY <1>10 DEF SetUserCredentials, TypeInv, TypeOK
    <3> QED
      BY <3>1 DEF Passwords
  <2>2. req' \in [Requests -> Request] /\ CarriesToken'
    <3> DEFINE q(x) == [req[x] EXCEPT !.at = IF x = r THEN "close" ELSE @,
                          !.standing = IF @ = {} THEN {} ELSE @ \cup {password + 1}]
    <3>1. req' = [x \in Requests |-> q(x)]
      BY <1>10 DEF SetUserCredentials
    <3>2. ASSUME NEW x \in Requests
          PROVE  /\ q(x) \in Request /\ q(x).token = req[x].token
                 /\ q(x).at \in {req[x].at, "close"}
      <4>1. req[x] \in Request
        BY DEF TypeInv, TypeOK
      <4>2. (IF req[x].standing = {} THEN {} ELSE req[x].standing \cup {password + 1})
              \in SUBSET Passwords
        BY <2>1, <4>1 DEF Request
      <4>3. (IF x = r THEN "close" ELSE req[x].at) \in Stages
        BY <4>1 DEF Request, Stages
      <4> QED
        BY <4>1, <4>2, <4>3 DEF Request
    <3> HIDE DEF q
    <3> QED
      <4>1. drawn' = drawn /\ "close" \notin WithSession
        BY <1>10 DEF SetUserCredentials, table, WithSession
      <4> QED
        BY <3>1, <3>2, <4>1 DEF TypeInv, CarriesToken
  <2> QED
    BY <1>10, <2>0, <2>1, <2>2 DEF SetUserCredentials, TypeInv, TypeOK, table, confirmations, rows
<1>11. ASSUME Closed(r), drawn' = drawn
       PROVE  req' \in [Requests -> Request] /\ CarriesToken'
  <2>1. CASE Answer(r)
    BY <1>11, <2>1, AnswerKeepsTypes
  <2>2. CASE req' = [req EXCEPT ![r] = [NoRequest EXCEPT !.at = "open"]]
    BY <1>11, <2>2, NoRequestIsOne DEF TypeInv, TypeOK, CarriesToken, NoRequest, Request, Stages,
                                       WithSession
  <2> QED
    BY <1>11, <2>1, <2>2 DEF Closed
<1>12. CASE DeleteUserSessions(r)
  <2>1. row' \in [Tokens -> Row \cup {None}] /\ rows' \subseteq rows
    BY <1>12, KeepRowsKeepsTypes DEF DeleteUserSessions
  <2> QED
    BY <1>11, <1>12, <2>1 DEF DeleteUserSessions, TypeInv, TypeOK, confirmations
<1>13. CASE CloseFails(r)
  BY <1>11, <1>13, QuietKeepsTypes DEF CloseFails, Quiet, table
<1> QED
  BY <1>1, <1>3, <1>4, <1>6, <1>7, <1>8, <1>9, <1>10, <1>12, <1>13 DEF Handle

LEMMA TypeInvStep == TypeInv /\ [Next]_vars => TypeInv'
<1> SUFFICES ASSUME TypeInv, [Next]_vars PROVE TypeInv'
  OBVIOUS
<1>1. CASE PurgeExpiredSessions
  <2>1. row' \in [Tokens -> Row \cup {None}] /\ rows' \subseteq rows
    BY <1>1, KeepRowsKeepsTypes DEF PurgeExpiredSessions
  <2> QED
    BY <1>1, <2>1 DEF PurgeExpiredSessions, TypeInv, TypeOK, CarriesToken, confirmations, credentials
<1>2. CASE Restart
  <2>1. req' \in [Requests -> Request] /\ CarriesToken'
    BY <1>2, NoRequestIsOne DEF Restart, CarriesToken, NoRequest, WithSession
  <2> QED
    BY <1>2, <2>1 DEF Restart, TypeInv, TypeOK, table, credentials, rows
<1>3. CASE Tick
  <2>1. row' \in [Tokens -> Row \cup {None}] /\ rows' \subseteq rows
    BY <1>3, AgedIsARow, RowsAreRows, NoneAssumption DEF Tick, TypeInv, TypeOK, rows
  <2>2. /\ confirmed' \in [Tokens -> 0..ConfirmWindow]
        /\ by' \in [Tokens -> {0} \cup Passwords]
    BY <1>3, SoonerIsLess DEF Tick, TypeInv, TypeOK
  <2>3. req' \in [Requests -> Request] /\ CarriesToken'
    <3> DEFINE q(x) == [req[x] EXCEPT !.due = Sooner(@)]
    <3>1. req' = [x \in Requests |-> q(x)] /\ drawn' = drawn
      BY <1>3 DEF Tick
    <3>2. ASSUME NEW x \in Requests
          PROVE  /\ q(x) \in Request /\ q(x).token = req[x].token
                 /\ q(x).at = req[x].at
      <4>1. req[x] \in Request /\ Sooner(req[x].due) \in 0..Idle
        BY SoonerIsLess DEF TypeInv, TypeOK, Request
      <4> QED
        BY <4>1 DEF Request
    <3> HIDE DEF q
    <3> QED
      BY <3>1, <3>2 DEF TypeInv, CarriesToken
  <2> QED
    BY <1>3, <2>1, <2>2, <2>3 DEF Tick, TypeInv, TypeOK, credentials
<1>4. CASE UNCHANGED vars
  BY <1>4 DEF vars, TypeInv, TypeOK, CarriesToken, table, confirmations, credentials, rows
<1> QED
  BY <1>1, <1>2, <1>3, <1>4, RequireLoginType, HandleType DEF Next

\* Every variable stays of its type.
THEOREM TypeCorrect == Spec => []TypeOK
<1>1. TypeInv => TypeOK
  BY DEF TypeInv
<1> QED
  BY <1>1, TypeInvInit, TypeInvStep, PTL DEF Spec

--------------------------------------------------------------------------------
(* Sessions lapse in time *)

\* An expiry computed and not yet stored keeps to the ceiling, for as long as the
\* row it is meant for is there.
DueInTime ==
  \A r \in Requests :
    At(r, "touch") /\ req[r].token \in rows => req[r].due + row[req[r].token].age <= SessionMax

LapseInv == LapsesInTime /\ DueInTime

\* A step that extends no session: rows stay what they are or go, and no expiry
\* is computed.
Calm ==
  /\ \A s \in rows' : s \in rows /\ row'[s] = row[s]
  /\ \A r \in Requests : req'[r].at = "touch" =>
       req[r].at = "touch" /\ req'[r].token = req[r].token /\ req'[r].due = req[r].due

LEMMA QuietIsCalm ==
  ASSUME TypeInv, row' = row, NEW r \in Requests, NEW q, q.at # "touch", req' = [req EXCEPT ![r] = q]
  PROVE  Calm
BY DEF TypeInv, TypeOK, Calm, rows

LEMMA AnswerIsCalm ==
  ASSUME TypeInv, NEW r \in Requests, Answer(r), \A s \in rows' : s \in rows /\ row'[s] = row[s]
  PROVE  Calm
BY DEF TypeInv, TypeOK, Calm, Answer, NoRequest

LEMMA OthersAreCalm ==
  ASSUME TypeInv, [Next]_vars
  PROVE  \/ \E r \in Requests : Extend(r) \/ TouchSession(r)
         \/ \E r \in Requests, s \in Tokens : CreateSession(r, s)
         \/ Tick
         \/ Calm
<1>0. USE DEF At
<1>1. ASSUME NEW r \in Requests, requireLogin(r)
      PROVE  Extend(r) \/ TouchSession(r) \/ Calm
  <2>1. ASSUME NEW s \in Tokens, NEW sensitive \in BOOLEAN, currentSession(r, s, sensitive)
        PROVE  Calm
    <3> DEFINE q == [NoRequest EXCEPT !.at = "found", !.token = s, !.sensitive = sensitive,
                                      !.standing = IF sensitive THEN InForce ELSE {}]
    <3>1. q.at # "touch"
      BY DEF NoRequest
    <3> QED
      BY <2>1, <3>1, QuietIsCalm DEF currentSession, table
  <2>2. CASE TouchFails(r)
    <3> DEFINE q == [req[r] EXCEPT !.at = IF req[r].sensitive THEN "held" ELSE "enrol", !.due = 0]
    <3>1. q.at # "touch" /\ req' = [req EXCEPT ![r] = q] /\ row' = row
      BY <2>2 DEF TouchFails, Admitted, TypeInv, TypeOK, Request, table
    <3> QED
      BY <3>1, QuietIsCalm
  <2>3. CASE needsConfirmation(r)
    <3> DEFINE q == [req[r] EXCEPT !.at = "enrol", !.typed = by[req[r].token]]
    <3>1. q.at # "touch" /\ row' = row
      BY <2>3 DEF needsConfirmation, TypeInv, TypeOK, Request, table
    <3>2. CASE Answer(r)
      BY <3>1, <3>2, AnswerIsCalm DEF rows
    <3>3. CASE req' = [req EXCEPT ![r] = q]
      BY <3>1, <3>3, QuietIsCalm
    <3> QED
      BY <2>3, <3>2, <3>3 DEF needsConfirmation
  <2>4. CASE mustEnrol(r)
    <3> DEFINE q == [req[r] EXCEPT !.at = "serving"]
    <3>1. q.at # "touch" /\ row' = row
      BY <2>4 DEF mustEnrol, TypeInv, TypeOK, Request, table
    <3>2. CASE Answer(r)
      BY <3>1, <3>2, AnswerIsCalm DEF rows
    <3>3. CASE req' = [req EXCEPT ![r] = q]
      BY <3>1, <3>3, QuietIsCalm
    <3> QED
      BY <2>4, <3>2, <3>3 DEF mustEnrol, Goto
  <2> QED
    BY <1>1, <2>1, <2>2, <2>3, <2>4 DEF requireLogin
<1>2. ASSUME NEW r \in Requests, Handle(r)
      PROVE  (\E s \in Tokens : CreateSession(r, s)) \/ Calm
  <2>1. CASE Reply(r) \/ Abandon(r) \/ grant(r) \/ drop(r)
    <3>1. Answer(r) /\ row' = row
      BY <2>1 DEF Reply, Abandon, grant, drop, table
    <3> QED
      BY <3>1, AnswerIsCalm DEF rows
  <2>2. ASSUME NEW next \in {"verified", "set"}, NEW typed, verify(r, next, typed)
        PROVE  Calm
    <3> DEFINE q == [req[r] EXCEPT !.at = next, !.typed = typed]
    <3>1. q.at # "touch" /\ req' = [req EXCEPT ![r] = q] /\ row' = row
      BY <2>2 DEF verify, TypeInv, TypeOK, Request, table
    <3> QED
      BY <3>1, QuietIsCalm
  <2>3. CASE doConfirm(r) \/ changeOwnPassword(r)
    BY <2>2, <2>3 DEF doConfirm, changeOwnPassword
  <2>4. ASSUME NEW next \in {"open", "set"}, req' = [req EXCEPT ![r] = [NoRequest EXCEPT !.at = next]],
               row' = row
        PROVE  Calm
    <3>1. [NoRequest EXCEPT !.at = next].at # "touch"
      BY DEF NoRequest
    <3> QED
      BY <2>4, <3>1, QuietIsCalm
  <2>5. CASE doLogin(r) \/ resetPassword(r)
    BY <2>4, <2>5 DEF doLogin, resetPassword, table
  <2>6. CASE DeleteSession(r)
    <3>1. \A s \in rows' : s \in rows /\ row'[s] = row[s]
      BY <2>6, KeepRowsKeepsTypes DEF DeleteSession, rows
    <3>2. req' = [req EXCEPT ![r] = [req[r] EXCEPT !.at = "drop"]]
      BY <2>6 DEF DeleteSession, Goto
    <3> QED
      BY <3>1, <3>2 DEF Calm, TypeInv, TypeOK, Request
  <2>7. CASE SetUserCredentials(r)
    <3>1. row' = row
      BY <2>7 DEF SetUserCredentials, table
    <3>2. ASSUME NEW x \in Requests
          PROVE  /\ req'[x].at \in {req[x].at, "close"}
                 /\ req'[x].token = req[x].token /\ req'[x].due = req[x].due
      <4>1. req[x] \in Request
        BY DEF TypeInv, TypeOK
      <4> QED
        BY <2>7, <4>1 DEF SetUserCredentials, Request
    <3> QED
      BY <3>1, <3>2 DEF Calm, rows
  <2>8. ASSUME Closed(r), \A s \in rows' : s \in rows /\ row'[s] = row[s]
        PROVE  Calm
    BY <2>8 DEF Closed, Answer, Calm, NoRequest, TypeInv, TypeOK
  <2>9. CASE DeleteUserSessions(r)
    BY <2>8, <2>9, KeepRowsKeepsTypes DEF DeleteUserSessions
  <2>10. CASE CloseFails(r)
    BY <2>8, <2>10 DEF CloseFails, table, rows
  <2> QED
    BY <1>2, <2>1, <2>3, <2>5, <2>6, <2>7, <2>9, <2>10 DEF Handle
<1>3. CASE PurgeExpiredSessions
  <2>1. \A s \in rows' : s \in rows /\ row'[s] = row[s]
    BY <1>3, KeepRowsKeepsTypes DEF PurgeExpiredSessions
  <2> QED
    BY <1>3, <2>1 DEF PurgeExpiredSessions, Calm
<1>4. CASE Restart
  BY <1>4 DEF Restart, Calm, NoRequest, table, rows
<1>5. CASE UNCHANGED vars
  BY <1>5 DEF vars, table, Calm, rows
<1> QED
  BY <1>1, <1>2, <1>3, <1>4, <1>5 DEF Next

LEMMA LapseInvStep == TypeInv /\ TypeInv' /\ LapseInv /\ [Next]_vars => LapseInv'
<1> SUFFICES ASSUME TypeInv, TypeInv', LapseInv, [Next]_vars PROVE LapseInv'
  OBVIOUS
<1>0. USE DEF At
<1>1. CASE Calm
  BY <1>1 DEF Calm, LapseInv, LapsesInTime, DueInTime
<1>2. ASSUME NEW r \in Requests, Extend(r) PROVE LapseInv'
  <2>1. row' = row
    BY <1>2 DEF Extend, table
  <2>2. ASSUME NEW x \in Requests, x # r PROVE req'[x] = req[x]
    BY <1>2, <2>2 DEF Extend, TypeInv, TypeOK
  <2>3. req[r].token \in rows => req'[r].due = SessionExpiryWith(row[req[r].token].age)
    BY <1>2 DEF Extend, TypeInv, TypeOK, Request
  <2>4. req'[r].token = req[r].token
    BY <1>2 DEF Extend, TypeInv, TypeOK, Request
  <2>5. req[r].token \in rows => req'[r].due + row[req[r].token].age <= SessionMax
    BY <2>3, ExpiryIsBounded, RowsAreRows DEF TypeInv
  <2> QED
    BY <2>1, <2>2, <2>4, <2>5 DEF LapseInv, LapsesInTime, DueInTime, rows
<1>3. ASSUME NEW r \in Requests, TouchSession(r) PROVE LapseInv'
  <2> DEFINE t == req[r].token
  <2>1. t \in Tokens /\ At(r, "touch")
    BY <1>3 DEF TypeInv, CarriesToken, TouchSession, WithSession
  <2>3. req[r].due \in 0..Idle
    BY DEF TypeInv, TypeOK, Request
  <2>2. /\ rows' = rows
        /\ \A s \in rows : /\ row'[s].age = row[s].age
                           /\ s # t => row'[s] = row[s]
                           /\ s = t => row'[s].left = req[r].due /\ row'[s].seen = 0
    <3> DEFINE touched == [row[t] EXCEPT !.left = req[r].due, !.seen = 0]
    <3>1. row' = [row EXCEPT ![t] = IF t \in rows THEN touched ELSE None]
      BY <1>3 DEF TouchSession
    <3>2. row \in [Tokens -> Row \cup {None}] /\ None \notin Row
      BY NoneAssumption DEF TypeInv, TypeOK
    <3>3. ASSUME t \in rows
          PROVE  /\ touched \in Row /\ touched.age = row[t].age
                 /\ touched.left = req[r].due /\ touched.seen = 0
      <4>1. row[t] \in Row
        BY <3>3, RowsAreRows DEF TypeInv
      <4>2. 0 \in 0..Idle
        BY IdleAssumption
      <4> QED
        BY <2>3, <4>1, <4>2 DEF Row
    <3> HIDE DEF touched
    <3>4. \A s \in Tokens : s # t => row'[s] = row[s]
      BY <3>1, <3>2
    <3>5. row'[t] = IF t \in rows THEN touched ELSE None
      BY <2>1, <3>1, <3>2
    <3>6. rows' = rows
      BY <2>1, <3>2, <3>3, <3>4, <3>5 DEF rows
    <3> QED
      BY <3>3, <3>4, <3>5, <3>6 DEF rows
  <2>4. LapsesInTime'
    BY <2>1, <2>2, <2>3 DEF LapseInv, LapsesInTime, DueInTime
  <2>5. ASSUME NEW x \in Requests, req'[x].at = "touch" PROVE x # r /\ req'[x] = req[x]
    BY <1>3, <2>5 DEF TouchSession, Admitted, TypeInv, TypeOK, Request
  <2> QED
    BY <2>2, <2>4, <2>5 DEF LapseInv, DueInTime
<1>4. ASSUME NEW r \in Requests, NEW s \in Tokens, CreateSession(r, s) PROVE LapseInv'
  <2>1. /\ row'[s].left = SessionExpiryWith(0) /\ row'[s].age = 0 /\ row'[s].seen = 0
        /\ \A t \in rows' : t # s => t \in rows /\ row'[t] = row[t]
    <3>1. row' = [row EXCEPT ![s] = [left |-> SessionExpiryWith(0), age |-> 0, seen |-> 0]]
      BY <1>4 DEF CreateSession
    <3>2. row \in [Tokens -> Row \cup {None}]
      BY DEF TypeInv, TypeOK
    <3>3. row'[s] = [left |-> SessionExpiryWith(0), age |-> 0, seen |-> 0]
      BY <3>1, <3>2
    <3>4. \A t \in Tokens : t # s => row'[t] = row[t]
      BY <3>1, <3>2
    <3> QED
      BY <3>3, <3>4 DEF rows
  <2>2. SessionExpiryWith(0) \in 0..Idle /\ SessionExpiryWith(0) + 0 <= SessionMax
    <3>1. 0 \in 0..SessionMax
      BY MaxAssumption
    <3> QED
      BY <3>1, ExpiryIsBounded
  <2>3. LapsesInTime'
    BY <2>1, <2>2 DEF LapseInv, LapsesInTime
  <2>4. ASSUME NEW x \in Requests, req'[x].at = "touch"
        PROVE  req'[x] = req[x] /\ req[x].token # s
    BY <1>4, <2>4, NoneAssumption DEF CreateSession, Answer, NoRequest, TypeInv, TypeOK, CarriesToken
  <2> QED
    BY <2>1, <2>3, <2>4 DEF LapseInv, DueInTime
<1>5. CASE Tick
  <2>1. rows' = rows /\ \A s \in rows : row'[s] = Aged(row[s])
    BY <1>5, RowsAreRows, AgedIsARow, NoneAssumption DEF Tick, TypeInv, TypeOK, rows
  <2>2. ASSUME NEW s \in rows
        PROVE  /\ row'[s].left = Sooner(row[s].left)
               /\ row'[s].age = Older(row[s].age, SessionMax)
               /\ row'[s].seen = Older(row[s].seen, Idle)
    BY <2>1, <2>2, RowsAreRows, AgedIsARow DEF TypeInv
  <2>3. LapsesInTime'
    <3> SUFFICES ASSUME NEW s \in rows
                 PROVE  /\ row'[s].left + row'[s].seen <= Idle
                        /\ row'[s].left + row'[s].age <= SessionMax
      BY <2>1 DEF LapsesInTime
    <3>1. /\ row[s].left \in 0..Idle /\ row[s].age \in 0..SessionMax /\ row[s].seen \in 0..Idle
          /\ row[s].left + row[s].seen <= Idle /\ row[s].left + row[s].age <= SessionMax
      BY RowsAreRows DEF TypeInv, LapseInv, LapsesInTime
    <3> QED
      BY <2>2, <3>1 DEF Sooner, Older
  <2>4. ASSUME NEW r \in Requests, req'[r].at = "touch", req'[r].token \in rows
        PROVE  req'[r].due + row'[req'[r].token].age <= SessionMax
    <3>1. /\ req'[r].token = req[r].token /\ req[r].at = "touch"
          /\ req'[r].due = Sooner(req[r].due) /\ req[r].due \in 0..Idle
      BY <1>5, <2>4 DEF Tick, TypeInv, TypeOK, Request
    <3>2. /\ req[r].due + row[req[r].token].age <= SessionMax
          /\ row[req[r].token].age \in 0..SessionMax
      BY <2>4, <3>1, RowsAreRows DEF TypeInv, LapseInv, DueInTime
    <3> QED
      BY <2>2, <2>4, <3>1, <3>2 DEF Sooner, Older
  <2> QED
    BY <2>1, <2>3, <2>4 DEF LapseInv, DueInTime
<1> QED
  BY <1>1, <1>2, <1>3, <1>4, <1>5, OthersAreCalm

\* An idle session has lapsed after the timeout, and any session after the
\* ceiling, in whatever order requests compute and store its expiry.
THEOREM SessionsLapse == Spec => []LapsesInTime
<1>1. Init => LapseInv
  BY DEF Init, LapseInv, LapsesInTime, DueInTime, rows, NoRequest, At
<1>2. LapseInv => LapsesInTime
  BY DEF LapseInv
<1> QED
  BY <1>1, <1>2, TypeInvInit, TypeInvStep, LapseInvStep, PTL DEF Spec

--------------------------------------------------------------------------------
(***************************************************************************)
(* The password behind what cannot be undone.  A confirmation that still   *)
(* counts was given with a password in force; a password just verified is  *)
(* in force as long as the session lives; and for a sensitive request that *)
(* has not passed the confirmation yet, the password in force and those    *)
(* its session was or is about to be confirmed with stood while it ran.    *)
(***************************************************************************)
Waiting == {"found", "touch", "held"}
Past == {"enrol", "serving"}
HeldBack(x) == x.sensitive /\ x.at \in Waiting

ConfirmedAreDrawn == \A s \in Tokens : confirmed[s] > 0 => s \in drawn
ConfirmedInForce == \A s \in rows : confirmed[s] > 0 => by[s] \in InForce
VerifiedInForce ==
  \A r \in Requests : At(r, "verified") /\ req[r].token \in rows => req[r].typed \in InForce
PastStood ==
  \A r \in Requests : req[r].sensitive /\ req[r].at \in Past => req[r].typed \in req[r].standing
PasswordStands ==
  \A r \in Requests : HeldBack(req[r]) => password \in req[r].standing
ConfirmedStands ==
  \A r \in Requests :
    HeldBack(req[r]) /\ confirmed[req[r].token] > 0 => by[req[r].token] \in req[r].standing
VerifiedStands ==
  \A r, q \in Requests :
    At(r, "verified") /\ HeldBack(req[q]) /\ req[r].token = req[q].token
      => req[r].typed \in req[q].standing

ConfirmInv ==
  /\ ConfirmedAreDrawn /\ ConfirmedInForce /\ VerifiedInForce
  /\ PastStood /\ PasswordStands /\ ConfirmedStands /\ VerifiedStands

\* What one step makes of a request in most actions: nothing is verified, nothing
\* passes the confirmation.
Follows(y, x) ==
  /\ y.at = "verified" => x.at = "verified" /\ y.token = x.token /\ y.typed = x.typed
  /\ y.sensitive => /\ x.sensitive /\ y.token = x.token
                    /\ y.typed = x.typed /\ y.standing = x.standing
                    /\ y.at \in Waiting => x.at \in Waiting
                    /\ y.at \in Past => x.at \in Past

CarriedOn == \A q \in Requests : Follows(req'[q], req[q])

\* A session that appears is a new one, and a confirmation may only lapse.
NothingGranted ==
  /\ \A s \in rows' : s \in rows \/ s \notin drawn
  /\ drawn \subseteq drawn'
  /\ \A s \in Tokens : confirmed'[s] > 0 => confirmed[s] > 0 /\ by'[s] = by[s]

LEMMA OneCarriedOn ==
  ASSUME TypeInv, NEW r \in Requests, NEW q, Follows(q, req[r]), req' = [req EXCEPT ![r] = q]
  PROVE  CarriedOn
BY DEF TypeInv, TypeOK, CarriedOn, Follows

LEMMA AnswerCarriesOn ==
  ASSUME TypeInv, NEW r \in Requests, Answer(r)
  PROVE  CarriedOn
<1>1. Follows(NoRequest, req[r])
  BY DEF Follows, NoRequest
<1> QED
  BY <1>1, OneCarriedOn DEF Answer

LEMMA PlainKeeps ==
  ASSUME TypeInv, TypeInv', ConfirmInv, CarriedOn, NothingGranted,
         password' = password, unclosed' = unclosed \/ rows' = {}
  PROVE  ConfirmInv'
<1>0. USE DEF At
<1>1. ConfirmedAreDrawn'
  BY DEF ConfirmInv, ConfirmedAreDrawn, NothingGranted
<1>2. ConfirmedInForce'
  <2> SUFFICES ASSUME NEW s \in rows', confirmed'[s] > 0 PROVE by'[s] \in InForce'
    BY DEF ConfirmedInForce
  <2>1. s \in Tokens /\ unclosed' = unclosed
    BY DEF rows
  <2>2. confirmed[s] > 0 /\ by'[s] = by[s] /\ s \in rows
    BY <2>1 DEF NothingGranted, ConfirmInv, ConfirmedAreDrawn
  <2> QED
    BY <2>1, <2>2 DEF ConfirmInv, ConfirmedInForce, InForce
<1>3. VerifiedInForce'
  <2> SUFFICES ASSUME NEW r \in Requests, req'[r].at = "verified", req'[r].token \in rows'
               PROVE  req'[r].typed \in InForce'
    BY DEF VerifiedInForce
  <2>1. /\ req[r].at = "verified" /\ req'[r].token = req[r].token /\ req'[r].typed = req[r].typed
    BY DEF CarriedOn, Follows
  <2>2. req[r].token \in drawn
    BY <2>1, NoneAssumption DEF TypeInv, CarriesToken, WithSession
  <2>3. req[r].token \in rows /\ unclosed' = unclosed
    BY <2>1, <2>2 DEF NothingGranted
  <2> QED
    BY <2>1, <2>3 DEF ConfirmInv, VerifiedInForce, InForce
<1>4. PastStood'
  BY DEF ConfirmInv, PastStood, CarriedOn, Follows
<1>5. PasswordStands'
  BY DEF ConfirmInv, PasswordStands, HeldBack, CarriedOn, Follows
<1>6. ConfirmedStands'
  <2> SUFFICES ASSUME NEW r \in Requests, HeldBack(req'[r]), confirmed'[req'[r].token] > 0
               PROVE  by'[req'[r].token] \in req'[r].standing
    BY DEF ConfirmedStands, HeldBack
  <2>1. HeldBack(req[r]) /\ req'[r].token = req[r].token /\ req'[r].standing = req[r].standing
    BY DEF CarriedOn, Follows, HeldBack
  <2>2. req[r].token \in Tokens
    BY <2>1 DEF TypeInv, CarriesToken, HeldBack, Waiting, WithSession
  <2> QED
    BY <2>1, <2>2 DEF NothingGranted, ConfirmInv, ConfirmedStands
<1>7. VerifiedStands'
  BY DEF ConfirmInv, VerifiedStands, HeldBack, CarriedOn, Follows
<1> QED
  BY <1>1, <1>2, <1>3, <1>4, <1>5, <1>6, <1>7 DEF ConfirmInv

LEMMA CurrentSessionConfirms ==
  ASSUME TypeInv, TypeInv', ConfirmInv, NEW r \in Requests, NEW s \in Tokens,
         NEW sensitive \in BOOLEAN, currentSession(r, s, sensitive)
  PROVE  ConfirmInv'
<1>0. USE DEF At
<1> DEFINE q == [NoRequest EXCEPT !.at = "found", !.token = s, !.sensitive = sensitive,
                                  !.standing = IF sensitive THEN InForce ELSE {}]
<1>1. /\ q.at = "found" /\ q.token = s /\ q.sensitive = sensitive
      /\ sensitive => q.standing = InForce
  BY DEF NoRequest
<1>2. req' = [req EXCEPT ![r] = q] /\ s \in rows
  BY DEF currentSession, Live
<1> HIDE DEF q
<1>3. req'[r] = q /\ \A x \in Requests : x # r => req'[x] = req[x]
  BY <1>2 DEF TypeInv, TypeOK
<1>4. /\ rows' = rows /\ drawn' = drawn /\ confirmed' = confirmed /\ by' = by
      /\ InForce' = InForce /\ password' = password
  BY DEF currentSession, table, confirmations, credentials, rows, InForce
<1>5. ConfirmedAreDrawn' /\ ConfirmedInForce'
  BY <1>4 DEF ConfirmInv, ConfirmedAreDrawn, ConfirmedInForce
<1>6. VerifiedInForce' /\ PastStood'
  BY <1>1, <1>3, <1>4 DEF ConfirmInv, VerifiedInForce, PastStood, Past
<1>7. password \in InForce /\ (confirmed[s] > 0 => by[s] \in InForce)
  BY <1>2 DEF ConfirmInv, ConfirmedInForce, InForce
<1>8. PasswordStands'
  BY <1>1, <1>3, <1>4, <1>7 DEF ConfirmInv, PasswordStands, HeldBack
<1>9. ConfirmedStands'
  BY <1>1, <1>3, <1>4, <1>7 DEF ConfirmInv, ConfirmedStands, HeldBack
<1>10. VerifiedStands'
  <2> SUFFICES ASSUME NEW x \in Requests, NEW y \in Requests, req'[x].at = "verified",
                      HeldBack(req'[y]), req'[x].token = req'[y].token
               PROVE  req'[x].typed \in req'[y].standing
    BY DEF VerifiedStands, HeldBack
  <2>1. req'[x] = req[x] /\ req[x].at = "verified"
    BY <1>1, <1>3
  <2>2. CASE y = r
    BY <1>1, <1>2, <1>3, <2>1, <2>2 DEF ConfirmInv, VerifiedInForce, HeldBack
  <2>3. CASE y # r
    BY <1>3, <2>1, <2>3 DEF ConfirmInv, VerifiedStands
  <2> QED
    BY <2>2, <2>3
<1> QED
  BY <1>5, <1>6, <1>8, <1>9, <1>10 DEF ConfirmInv

LEMMA NeedsConfirmationConfirms ==
  ASSUME TypeInv, TypeInv', ConfirmInv, NEW r \in Requests, needsConfirmation(r)
  PROVE  ConfirmInv'
<1>0. USE DEF At
<1> DEFINE t == req[r].token
           q == [req[r] EXCEPT !.at = "enrol", !.typed = by[t]]
<1>1. /\ rows' = rows /\ drawn' = drawn /\ confirmed' = confirmed /\ by' = by
      /\ InForce' = InForce /\ password' = password /\ unclosed' = unclosed
  BY DEF needsConfirmation, table, confirmations, credentials, rows, InForce
<1>2. CASE Answer(r)
  BY <1>1, <1>2, AnswerCarriesOn, PlainKeeps DEF NothingGranted
<1>3. CASE confirmed[t] # 0 /\ req' = [req EXCEPT ![r] = q]
  <2>1. req[r] \in Request /\ req[r].at = "held" /\ t \in Tokens
    BY DEF needsConfirmation, TypeInv, TypeOK, CarriesToken, WithSession
  <2>2. /\ q.at = "enrol" /\ q.typed = by[t]
        /\ q.standing = req[r].standing /\ q.sensitive = req[r].sensitive
    BY <2>1 DEF Request
  <2>3. confirmed[t] > 0
    BY <1>3, <2>1, WindowAssumption DEF TypeInv, TypeOK
  <2>4. req[r].sensitive => by[t] \in req[r].standing
    BY <2>1, <2>3 DEF ConfirmInv, ConfirmedStands, HeldBack, Waiting
  <2> HIDE DEF q
  <2>5. req'[r] = q /\ \A x \in Requests : x # r => req'[x] = req[x]
    BY <1>3 DEF TypeInv, TypeOK
  <2>6. ConfirmedAreDrawn' /\ ConfirmedInForce'
    BY <1>1 DEF ConfirmInv, ConfirmedAreDrawn, ConfirmedInForce
  <2>7. VerifiedInForce'
    BY <1>1, <2>2, <2>5 DEF ConfirmInv, VerifiedInForce
  <2>8. PastStood'
    BY <2>2, <2>4, <2>5 DEF ConfirmInv, PastStood
  <2>9. PasswordStands' /\ ConfirmedStands'
    BY <1>1, <2>2, <2>5 DEF ConfirmInv, PasswordStands, ConfirmedStands, HeldBack, Waiting
  <2>10. VerifiedStands'
    BY <2>2, <2>5 DEF ConfirmInv, VerifiedStands, HeldBack, Waiting
  <2> QED
    BY <2>6, <2>7, <2>8, <2>9, <2>10 DEF ConfirmInv
<1> QED
  BY <1>2, <1>3 DEF needsConfirmation

LEMMA DoConfirmConfirms ==
  ASSUME TypeInv, TypeInv', ConfirmInv, NEW r \in Requests, doConfirm(r)
  PROVE  ConfirmInv'
<1>0. USE DEF At
<1> DEFINE q == [req[r] EXCEPT !.at = "verified", !.typed = password]
<1>1. req[r] \in Request /\ ~req[r].sensitive
  BY DEF doConfirm, verify, Serving, TypeInv, TypeOK
<1>2. q.at = "verified" /\ q.typed = password /\ q.token = req[r].token /\ ~q.sensitive
  BY <1>1 DEF Request
<1>3. req' = [req EXCEPT ![r] = q]
  BY DEF doConfirm, verify
<1> HIDE DEF q
<1>4. req'[r] = q /\ \A x \in Requests : x # r => req'[x] = req[x]
  BY <1>3 DEF TypeInv, TypeOK
<1>5. /\ rows' = rows /\ drawn' = drawn /\ confirmed' = confirmed /\ by' = by
      /\ InForce' = InForce /\ password' = password
  BY DEF doConfirm, verify, table, confirmations, credentials, rows, InForce
<1>6. ConfirmedAreDrawn' /\ ConfirmedInForce'
  BY <1>5 DEF ConfirmInv, ConfirmedAreDrawn, ConfirmedInForce
<1>7. VerifiedInForce'
  BY <1>2, <1>4, <1>5 DEF ConfirmInv, VerifiedInForce, InForce
<1>8. PastStood' /\ PasswordStands' /\ ConfirmedStands'
  BY <1>2, <1>4, <1>5 DEF ConfirmInv, PastStood, PasswordStands, ConfirmedStands, HeldBack
<1>9. VerifiedStands'
  BY <1>2, <1>4 DEF ConfirmInv, VerifiedStands, PasswordStands, HeldBack
<1> QED
  BY <1>6, <1>7, <1>8, <1>9 DEF ConfirmInv

LEMMA GrantConfirms ==
  ASSUME TypeInv, TypeInv', ConfirmInv, NEW r \in Requests, grant(r)
  PROVE  ConfirmInv'
<1>0. USE DEF At
<1> DEFINE t == req[r].token
<1>1. /\ rows' = rows /\ drawn' = drawn /\ InForce' = InForce /\ password' = password
      /\ t \in drawn /\ t \in Tokens /\ req[r].at = "verified" /\ Answer(r)
  BY NoneAssumption DEF grant, table, credentials, rows, InForce, TypeInv, CarriesToken, WithSession
<1>2. CarriedOn
  BY <1>1, AnswerCarriesOn
<1>3. /\ by'[t] = req[r].typed
      /\ \A s \in Tokens : s # t => confirmed'[s] = confirmed[s] /\ by'[s] = by[s]
  BY <1>1 DEF grant, TypeInv, TypeOK
<1>4. ConfirmedAreDrawn'
  BY <1>1, <1>3 DEF ConfirmInv, ConfirmedAreDrawn
<1>5. ConfirmedInForce'
  <2> SUFFICES ASSUME NEW s \in rows, confirmed'[s] > 0 PROVE by'[s] \in InForce
    BY <1>1 DEF ConfirmedInForce
  <2> QED
    BY <1>1, <1>3 DEF ConfirmInv, ConfirmedInForce, VerifiedInForce, rows
<1>6. VerifiedInForce' /\ PastStood' /\ PasswordStands'
  BY <1>1, <1>2 DEF ConfirmInv, VerifiedInForce, PastStood, PasswordStands, HeldBack,
                    CarriedOn, Follows
<1>7. ConfirmedStands'
  <2> SUFFICES ASSUME NEW x \in Requests, HeldBack(req'[x]), confirmed'[req'[x].token] > 0
               PROVE  by'[req'[x].token] \in req'[x].standing
    BY DEF ConfirmedStands, HeldBack
  <2>1. HeldBack(req[x]) /\ req'[x].token = req[x].token /\ req'[x].standing = req[x].standing
    BY <1>2 DEF CarriedOn, Follows, HeldBack
  <2>2. req[x].token \in Tokens
    BY <2>1 DEF TypeInv, CarriesToken, HeldBack, Waiting, WithSession
  <2>3. CASE req[x].token = t
    BY <1>1, <1>3, <2>1, <2>3 DEF ConfirmInv, VerifiedStands
  <2>4. CASE req[x].token # t
    BY <1>3, <2>1, <2>2, <2>4 DEF ConfirmInv, ConfirmedStands
  <2> QED
    BY <2>3, <2>4
<1>8. VerifiedStands'
  BY <1>2 DEF ConfirmInv, VerifiedStands, HeldBack, CarriedOn, Follows
<1> QED
  BY <1>4, <1>5, <1>6, <1>7, <1>8 DEF ConfirmInv

LEMMA SetUserCredentialsConfirms ==
  ASSUME TypeInv, TypeInv', ConfirmInv, NEW r \in Requests, SetUserCredentials(r)
  PROVE  ConfirmInv'
<1>0. USE DEF At
<1>1. /\ rows' = rows /\ drawn' = drawn /\ confirmed' = confirmed /\ by' = by
      /\ password' = password + 1 /\ InForce \subseteq InForce'
  BY DEF SetUserCredentials, table, confirmations, rows, InForce
<1>2. ASSUME NEW x \in Requests
      PROVE  /\ req'[x].at = IF x = r THEN "close" ELSE req[x].at
             /\ req'[x].token = req[x].token /\ req'[x].typed = req[x].typed
             /\ req'[x].sensitive = req[x].sensitive
             /\ req'[x].standing = IF req[x].standing = {} THEN {}
                                   ELSE req[x].standing \cup {password'}
  <2>1. req[x] \in Request
    BY DEF TypeInv, TypeOK
  <2> QED
    BY <1>1, <2>1 DEF SetUserCredentials, Request
<1>3. ASSUME NEW x \in Requests, HeldBack(req'[x])
      PROVE  /\ HeldBack(req[x])
             /\ password' \in req'[x].standing /\ req[x].standing \subseteq req'[x].standing
  <2>1. HeldBack(req[x])
    BY <1>2, <1>3 DEF HeldBack, Waiting
  <2>2. req[x].standing # {}
    BY <2>1 DEF ConfirmInv, PasswordStands
  <2> QED
    BY <1>2, <2>1, <2>2
<1>4. ConfirmedAreDrawn' /\ ConfirmedInForce'
  BY <1>1 DEF ConfirmInv, ConfirmedAreDrawn, ConfirmedInForce
<1>5. VerifiedInForce'
  <2> SUFFICES ASSUME NEW x \in Requests, req'[x].at = "verified", req'[x].token \in rows
               PROVE  req'[x].typed \in InForce'
    BY <1>1 DEF VerifiedInForce
  <2>1. req[x].at = "verified" /\ req'[x].token = req[x].token /\ req'[x].typed = req[x].typed
    BY <1>2
  <2> QED
    BY <1>1, <2>1 DEF ConfirmInv, VerifiedInForce
<1>6. PastStood'
  <2> SUFFICES ASSUME NEW x \in Requests, req'[x].sensitive, req'[x].at \in Past
               PROVE  req'[x].typed \in req'[x].standing
    BY DEF PastStood
  <2>1. req[x].sensitive /\ req[x].at \in Past
    BY <1>2 DEF Past
  <2>2. req[x].typed \in req[x].standing
    BY <2>1 DEF ConfirmInv, PastStood
  <2> QED
    BY <1>2, <2>2
<1>7. PasswordStands'
  BY <1>3 DEF PasswordStands, HeldBack
<1>8. ConfirmedStands'
  <2> SUFFICES ASSUME NEW x \in Requests, HeldBack(req'[x]), confirmed'[req'[x].token] > 0
               PROVE  by'[req'[x].token] \in req'[x].standing
    BY DEF ConfirmedStands, HeldBack
  <2> QED
    BY <1>1, <1>2, <1>3 DEF ConfirmInv, ConfirmedStands
<1>9. VerifiedStands'
  <2> SUFFICES ASSUME NEW x \in Requests, NEW y \in Requests, req'[x].at = "verified",
                      HeldBack(req'[y]), req'[x].token = req'[y].token
               PROVE  req'[x].typed \in req'[y].standing
    BY DEF VerifiedStands, HeldBack
  <2>1. req[x].at = "verified" /\ req[x].token = req[y].token /\ req'[x].typed = req[x].typed
    BY <1>2
  <2> QED
    BY <1>3, <2>1 DEF ConfirmInv, VerifiedStands
<1> QED
  BY <1>4, <1>5, <1>6, <1>7, <1>8, <1>9 DEF ConfirmInv

\* The actions behind requireLogin that neither look a session up nor pass the
\* confirmation.
LEMMA GoOnConfirms ==
  ASSUME TypeInv, TypeInv', ConfirmInv, NEW r \in Requests,
         Extend(r) \/ TouchSession(r) \/ TouchFails(r) \/ mustEnrol(r)
  PROVE  ConfirmInv'
<1>0. USE DEF At
<1>1. req[r] \in Request
  BY DEF TypeInv, TypeOK
<1>2. /\ confirmed' = confirmed /\ by' = by /\ drawn' = drawn
      /\ password' = password /\ unclosed' = unclosed
  BY DEF Extend, TouchSession, TouchFails, mustEnrol, table, confirmations, credentials
<1>3. rows' \subseteq rows
  <2>1. CASE TouchSession(r)
    <3>1. \A s \in Tokens : s # req[r].token => row'[s] = row[s]
      BY <2>1 DEF TouchSession, TypeInv, TypeOK
    <3>2. req[r].token \notin rows /\ row'[req[r].token] # None => req[r].token \notin Tokens
      BY <2>1 DEF TouchSession, TypeInv, TypeOK
    <3> QED
      BY <3>1, <3>2 DEF rows
  <2>2. CASE Extend(r) \/ TouchFails(r) \/ mustEnrol(r)
    BY <2>2 DEF Extend, TouchFails, mustEnrol, table, rows
  <2> QED
    BY <2>1, <2>2
<1>4. NothingGranted
  BY <1>2, <1>3 DEF NothingGranted
<1>5. CASE Extend(r)
  <2> DEFINE due == IF req[r].token \in rows
                    THEN SessionExpiryWith(row[req[r].token].age) ELSE 0
             q == [req[r] EXCEPT !.at = "touch", !.due = due]
  <2>1. req' = [req EXCEPT ![r] = q] /\ req[r].at = "found"
    BY <1>5 DEF Extend
  <2> HIDE DEF due
  <2>2. Follows(q, req[r])
    BY <1>1, <2>1 DEF Request, Follows, Waiting, Past
  <2> HIDE DEF q
  <2> QED
    BY <1>2, <1>4, <2>1, <2>2, OneCarriedOn, PlainKeeps
<1>6. CASE TouchSession(r) \/ TouchFails(r)
  <2> DEFINE q == [req[r] EXCEPT !.at = IF req[r].sensitive THEN "held" ELSE "enrol", !.due = 0]
  <2>1. req' = [req EXCEPT ![r] = q] /\ req[r].at = "touch"
    BY <1>6 DEF TouchSession, TouchFails, Admitted
  <2>2. Follows(q, req[r])
    BY <1>1, <2>1 DEF Request, Follows, Waiting, Past
  <2> HIDE DEF q
  <2> QED
    BY <1>2, <1>4, <2>1, <2>2, OneCarriedOn, PlainKeeps
<1>7. CASE mustEnrol(r)
  <2> DEFINE q == [req[r] EXCEPT !.at = "serving"]
  <2>1. CASE Answer(r)
    BY <1>2, <1>4, <2>1, AnswerCarriesOn, PlainKeeps
  <2>2. CASE Goto(r, "serving")
    <3>1. req' = [req EXCEPT ![r] = q] /\ req[r].at = "enrol"
      BY <1>7, <2>2 DEF mustEnrol, Goto
    <3>2. Follows(q, req[r])
      BY <1>1, <3>1 DEF Request, Follows, Waiting, Past
    <3> HIDE DEF q
    <3> QED
      BY <1>2, <1>4, <3>1, <3>2, OneCarriedOn, PlainKeeps
  <2> QED
    BY <1>7, <2>1, <2>2 DEF mustEnrol
<1> QED
  BY <1>5, <1>6, <1>7

\* The handlers, but for the three that touch a confirmation or a password.
LEMMA HandleConfirms ==
  ASSUME TypeInv, TypeInv', ConfirmInv, NEW r \in Requests, Handle(r),
         ~doConfirm(r), ~grant(r), ~SetUserCredentials(r)
  PROVE  ConfirmInv'
<1>0. USE DEF At
<1>1. req[r] \in Request
  BY DEF TypeInv, TypeOK
<1>2. ASSUME UNCHANGED <<table, confirmations, credentials>>
      PROVE  NothingGranted /\ password' = password /\ unclosed' = unclosed
  BY <1>2 DEF NothingGranted, table, confirmations, credentials, rows
<1>3. CASE Reply(r) \/ Abandon(r)
  BY <1>2, <1>3, AnswerCarriesOn, PlainKeeps DEF Reply, Abandon
<1>4. ASSUME NEW next \in {"open", "set"}, req' = [req EXCEPT ![r] = [NoRequest EXCEPT !.at = next]]
      PROVE  CarriedOn
  <2>1. Follows([NoRequest EXCEPT !.at = next], req[r])
    BY DEF Follows, NoRequest
  <2> QED
    BY <1>4, <2>1, OneCarriedOn
<1>5. CASE doLogin(r) \/ resetPassword(r)
  BY <1>2, <1>4, <1>5, PlainKeeps DEF doLogin, resetPassword
<1>6. ASSUME NEW s \in Tokens, CreateSession(r, s)
      PROVE  ConfirmInv'
  <2>1. \A t \in Tokens : t # s => row'[t] = row[t]
    BY <1>6 DEF CreateSession, TypeInv, TypeOK
  <2>2. NothingGranted /\ password' = password /\ unclosed' = unclosed
    BY <1>6, <2>1 DEF CreateSession, NothingGranted, confirmations, credentials, rows
  <2> QED
    BY <1>6, <2>2, AnswerCarriesOn, PlainKeeps DEF CreateSession
<1>7. CASE DeleteSession(r)
  <2> DEFINE q == [req[r] EXCEPT !.at = "drop"]
  <2>1. Follows(q, req[r])
    BY <1>1, <1>7 DEF DeleteSession, Serving, Request, Follows
  <2>2. req' = [req EXCEPT ![r] = q]
    BY <1>7 DEF DeleteSession, Goto
  <2>3. rows' \subseteq rows
    BY <1>7, KeepRowsKeepsTypes DEF DeleteSession, rows
  <2> HIDE DEF q
  <2>4. NothingGranted /\ password' = password /\ unclosed' = unclosed
    BY <1>7, <2>3 DEF DeleteSession, NothingGranted, confirmations, credentials
  <2> QED
    BY <2>1, <2>2, <2>4, OneCarriedOn, PlainKeeps
<1>8. CASE drop(r)
  <2>1. CarriedOn
    BY <1>8, AnswerCarriesOn DEF drop
  <2>2. \A s \in Tokens : confirmed'[s] > 0 => confirmed'[s] = confirmed[s] /\ by'[s] = by[s]
    BY <1>8 DEF drop, TypeInv, TypeOK
  <2>3. NothingGranted /\ password' = password /\ unclosed' = unclosed
    BY <1>8, <2>2 DEF drop, NothingGranted, table, credentials, rows
  <2> QED
    BY <2>1, <2>3, PlainKeeps
<1>9. CASE changeOwnPassword(r)
  <2> DEFINE q == [req[r] EXCEPT !.at = "set", !.typed = 0]
  <2>1. req' = [req EXCEPT ![r] = q] /\ ~req[r].sensitive
    BY <1>9 DEF changeOwnPassword, verify, Serving
  <2>2. Follows(q, req[r])
    BY <1>1, <2>1 DEF Request, Follows
  <2> HIDE DEF q
  <2> QED
    BY <1>2, <1>9, <2>1, <2>2, OneCarriedOn, PlainKeeps DEF changeOwnPassword, verify
<1>10. ASSUME Closed(r) PROVE CarriedOn
  BY <1>4, <1>10, AnswerCarriesOn DEF Closed
<1>11. CASE DeleteUserSessions(r)
  <2>1. rows' = {}
    BY <1>11 DEF DeleteUserSessions, KeepRows, rows
  <2>2. NothingGranted /\ password' = password
    BY <1>11, <2>1 DEF DeleteUserSessions, NothingGranted, confirmations
  <2> QED
    BY <1>10, <1>11, <2>1, <2>2, PlainKeeps DEF DeleteUserSessions
<1>12. CASE CloseFails(r)
  BY <1>2, <1>10, <1>12, PlainKeeps DEF CloseFails
<1> QED
  BY <1>3, <1>5, <1>6, <1>7, <1>8, <1>9, <1>11, <1>12 DEF Handle

LEMMA ConfirmInvStep == TypeInv /\ TypeInv' /\ ConfirmInv /\ [Next]_vars => ConfirmInv'
<1> SUFFICES ASSUME TypeInv, TypeInv', ConfirmInv, [Next]_vars PROVE ConfirmInv'
  OBVIOUS
<1>1. ASSUME NEW r \in Requests, requireLogin(r)
      PROVE  ConfirmInv'
  BY <1>1, CurrentSessionConfirms, NeedsConfirmationConfirms, GoOnConfirms DEF requireLogin
<1>2. ASSUME NEW r \in Requests, Handle(r)
      PROVE  ConfirmInv'
  BY <1>2, HandleConfirms, DoConfirmConfirms, GrantConfirms, SetUserCredentialsConfirms
<1>3. CASE PurgeExpiredSessions
  <2>1. rows' \subseteq rows
    BY <1>3, KeepRowsKeepsTypes DEF PurgeExpiredSessions
  <2>2. NothingGranted /\ password' = password /\ unclosed' = unclosed /\ req' = req
    BY <1>3, <2>1 DEF PurgeExpiredSessions, NothingGranted, confirmations, credentials
  <2>3. CarriedOn
    BY <2>2 DEF CarriedOn, Follows
  <2> QED
    BY <2>2, <2>3, PlainKeeps
<1>4. CASE Restart
  <2>1. NothingGranted /\ password' = password /\ unclosed' = unclosed
    BY <1>4 DEF Restart, NothingGranted, table, credentials, rows
  <2>2. CarriedOn
    BY <1>4 DEF Restart, CarriedOn, Follows, NoRequest
  <2> QED
    BY <2>1, <2>2, PlainKeeps
<1>5. CASE Tick
  <2>1. rows' \subseteq rows
    BY <1>5 DEF Tick, rows
  <2>2. ASSUME NEW s \in Tokens, confirmed'[s] > 0
        PROVE  confirmed[s] > 0 /\ by'[s] = by[s]
    <3>1. confirmed'[s] = Sooner(confirmed[s]) /\ confirmed[s] \in Nat
      BY <1>5, WindowAssumption DEF Tick, TypeInv, TypeOK
    <3>2. confirmed[s] > 1
      BY <2>2, <3>1 DEF Sooner
    <3> QED
      BY <1>5, <3>1, <3>2 DEF Tick
  <2>3. NothingGranted /\ password' = password /\ unclosed' = unclosed
    BY <1>5, <2>1, <2>2 DEF Tick, NothingGranted, credentials
  <2>4. ASSUME NEW x \in Requests
        PROVE  Follows(req'[x], req[x])
    <3>1. req[x] \in Request /\ req'[x] = [req[x] EXCEPT !.due = Sooner(req[x].due)]
      BY <1>5 DEF Tick, TypeInv, TypeOK
    <3> QED
      BY <3>1 DEF Follows, Request
  <2> QED
    BY <2>3, <2>4, PlainKeeps DEF CarriedOn
<1>6. CASE UNCHANGED vars
  <2>1. NothingGranted /\ CarriedOn /\ password' = password /\ unclosed' = unclosed
    BY <1>6 DEF vars, table, confirmations, credentials, NothingGranted, CarriedOn, Follows, rows
  <2> QED
    BY <2>1, PlainKeeps
<1> QED
  BY <1>1, <1>2, <1>3, <1>4, <1>5, <1>6 DEF Next

\* Whatever overlaps what, a sensitive request is served only behind a password
\* that stood for the account while it ran.
THEOREM SensitiveIsConfirmed == Spec => []ConfirmedByItsPassword
<1>1. Init => ConfirmInv
  BY DEF Init, ConfirmInv, ConfirmedAreDrawn, ConfirmedInForce, VerifiedInForce, PastStood,
         PasswordStands, ConfirmedStands, VerifiedStands, HeldBack, NoRequest, At, rows
<1>2. ConfirmInv => ConfirmedByItsPassword
  BY DEF ConfirmInv, PastStood, Past, ConfirmedByItsPassword, At
<1> QED
  BY <1>1, <1>2, TypeInvInit, TypeInvStep, ConfirmInvStep, PTL DEF Spec
================================================================================
