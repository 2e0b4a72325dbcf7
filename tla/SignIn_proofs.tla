---------------------------- MODULE SignIn_proofs ----------------------------
(***************************************************************************)
(* Proofs about SignIn, for every number of accounts, keys, requests in    *)
(* flight and restarts.                                                    *)
(***************************************************************************)
EXTENDS SignIn, FiniteSetTheorems, TLAPS

\* Three variables that mostly stay together.
USE DEF policy

(***************************************************************************)
(* Types.  A request is replaced by another, answered, or moves to another *)
(* stage of its kind.                                                      *)
(***************************************************************************)
ReqTypeOK == req \in [Requests -> Request] /\ \A r \in Requests : RequestOK(req[r])

LEMMA IdleIsARequest == Idle \in Request /\ RequestOK(Idle)
<1>0. Nothing \in Bys
  BY DEF Bys
<1>1. Idle \in Request
  BY <1>0, BoundsAssumption DEF Idle, Request, Kinds, StageNames
<1>2. RequestOK(Idle)
  BY DEF Idle, RequestOK, Stages
<1> QED
  BY <1>1, <1>2

LEMMA StepType ==
  ASSUME ReqTypeOK, NEW r \in Requests, NEW o, o \in Request, RequestOK(o), Step(r, o)
  PROVE  ReqTypeOK'
<1>1. req' \in [Requests -> Request]
  BY DEF ReqTypeOK, Step
<1>2. \A q \in Requests : req'[q] = IF q = r THEN o ELSE req[q]
  BY DEF ReqTypeOK, Step
<1> QED
  BY <1>1, <1>2 DEF ReqTypeOK

LEMMA AnswerType ==
  ASSUME ReqTypeOK, NEW r \in Requests, Answer(r)
  PROVE  ReqTypeOK'
BY IdleIsARequest, StepType DEF Answer

LEMMA GotoType ==
  ASSUME ReqTypeOK, NEW r \in Requests, NEW stage \in StageNames, Goto(r, stage),
         RequestOK([req[r] EXCEPT !.at = stage])
  PROVE  ReqTypeOK'
<1> DEFINE o == [req[r] EXCEPT !.at = stage]
<1>1. req[r] \in Request
  BY DEF ReqTypeOK
<1>2. o \in Request
  BY <1>1 DEF Request
<1>3. Step(r, o)
  BY DEF Goto, Step
<1> QED
  BY <1>2, <1>3, StepType

\* A request of a known stage and kind, moved to another stage.
LEMMA MovedOK ==
  ASSUME ReqTypeOK, NEW r \in Requests, NEW stage \in StageNames,
         <<req[r].kind, stage>> \in Stages,
         stage \in {"close", "open"} => req[r].password # 0
  PROVE  RequestOK([req[r] EXCEPT !.at = stage])
<1> DEFINE o == [req[r] EXCEPT !.at = stage]
<1>1. req[r] \in Request /\ RequestOK(req[r])
  BY DEF ReqTypeOK
<1>2. o.kind = req[r].kind /\ o.at = stage /\ o.user = req[r].user
        /\ o.password = req[r].password
  BY <1>1 DEF Request
<1> QED
  BY <1>1, <1>2 DEF RequestOK

LEMMA MoveType ==
  ASSUME ReqTypeOK, NEW r \in Requests, NEW stage \in StageNames, Goto(r, stage),
         <<req[r].kind, stage>> \in Stages,
         stage \in {"close", "open"} => req[r].password # 0
  PROVE  ReqTypeOK'
BY GotoType, MovedOK

\* Everything but the requests and what Watch records.
RowsOK ==
  /\ required \in BOOLEAN /\ pinned \in BOOLEAN /\ setting \in BOOLEAN
  /\ password \in [Users -> 1..MaxPasswords]
  /\ totp \in [Users -> Secrets \cup {None}]
  /\ codes \in [Users -> [batch : 0..MaxBatches, unused : SUBSET (1..BatchSize)]]
  /\ owner \in [Keys -> Users \cup {"blank"}]
  /\ opened \in Seq(Session) /\ Len(opened) =< MaxSessions
  /\ live \subseteq DOMAIN opened
  /\ pending \subseteq [user : Users, password : 1..MaxPasswords]
  /\ posed \in 0..MaxChallenges
  /\ challenge \in [Users -> 0..posed]
  /\ minted \in 1..MaxBatches
  /\ stash \in [Users -> 0..MaxBatches]
  /\ restarts \in 0..MaxRestarts
  /\ unclosed \subseteq Users /\ uncoded \subseteq Users

WatchOK ==
  /\ served \in Nat
  /\ stood \in [Requests -> SUBSET (Secrets \cup Keys)]
  /\ orderly \subseteq Users

LEMMA TypeParts == TypeOK <=> RowsOK /\ ReqTypeOK /\ WatchOK
BY DEF TypeOK, RowsOK, ReqTypeOK, WatchOK

TypeNow == RowsOK /\ ReqTypeOK

LEMMA InitType == Init => TypeOK
<1> SUFFICES ASSUME Init PROVE RowsOK /\ ReqTypeOK /\ WatchOK
  BY TypeParts
<1>1. ReqTypeOK
  BY IdleIsARequest DEF Init, ReqTypeOK
<1>2. WatchOK
  BY DEF Init, WatchOK
<1>3. opened \in Seq(Session) /\ Len(opened) =< MaxSessions
  <2> DEFINE first(u) == [user |-> u, password |-> 1, by |-> [how |-> "password"],
                          late |-> FALSE]
  <2>1. \A u \in Users : first(u) \in Session
    BY BoundsAssumption DEF Session, Bys
  <2>2. opened = <<>> \/ \E u \in Users : opened = <<first(u)>>
    BY DEF Init
  <2> HIDE DEF first
  <2>3. CASE opened = <<>>
    BY <2>3, BoundsAssumption
  <2>4. CASE \E u \in Users : opened = <<first(u)>>
    BY <2>1, <2>4, BoundsAssumption
  <2> QED
    BY <2>2, <2>3, <2>4
<1>4. codes \in [Users -> [batch : 0..MaxBatches, unused : SUBSET (1..BatchSize)]]
  BY BoundsAssumption DEF Init, NoBatch, Batch
<1>5. RowsOK
  BY <1>3, <1>4, BoundsAssumption DEF Init, RowsOK
<1> QED
  BY <1>1, <1>2, <1>5

LEMMA RowsSame ==
  ASSUME RowsOK, UNCHANGED <<store, memory>>, UNCHANGED <<restarts, unclosed, uncoded>>
  PROVE  RowsOK'
BY DEF RowsOK, store, memory

\* What a request that is past its arrival says of itself.
LEMMA RequestFacts ==
  ASSUME ReqTypeOK, NEW r \in Requests
  PROVE  /\ req[r] \in Request /\ RequestOK(req[r])
         /\ req[r].kind # "none" => req[r].user \in Users
         /\ req[r].kind \in {"signin", "code", "key"} \/ req[r].at \in {"close", "open"}
              => req[r].password \in 1..MaxPasswords
<1>1. req[r] \in Request /\ RequestOK(req[r])
  BY DEF ReqTypeOK
<1>2. req[r].password \in 0..MaxPasswords
  BY <1>1 DEF Request
<1> QED
  BY <1>1, <1>2, BoundsAssumption DEF RequestOK

\* A sign-in that is about to open its session knows its password.
LEMMA OpensType ==
  ASSUME ReqTypeOK, NEW r \in Requests, req[r].kind \in {"signin", "code", "key"},
         Goto(r, "open")
  PROVE  ReqTypeOK'
<1>1. req[r].password \in 1..MaxPasswords
  BY RequestFacts
<1>2. req[r].password # 0
  BY <1>1, BoundsAssumption
<1>3. <<req[r].kind, "open">> \in Stages /\ "open" \in StageNames
  BY DEF Stages, StageNames
<1> QED
  BY <1>2, <1>3, MoveType

LEMMA SignInStepType ==
  ASSUME TypeNow, NEW r \in Requests, ServeSignIn(r), UNCHANGED <<restarts, unclosed, uncoded>>
  PROVE  TypeNow'
<1> USE DEF TypeNow
<1>r. /\ req[r] \in Request /\ RequestOK(req[r])
      /\ req[r].kind # "none" => req[r].user \in Users
      /\ req[r].kind \in {"signin", "code", "key"} \/ req[r].at \in {"close", "open"}
           => req[r].password \in 1..MaxPasswords
  BY RequestFacts
<1>1. ASSUME NEW u \in Users, SignIn(r, u) PROVE TypeNow'
  <2> DEFINE o == [Idle EXCEPT !.kind = "signin", !.at = "app", !.user = u,
                               !.password = password[u], !.by = [how |-> "password"]]
  <2>1. [how |-> "password"] \in Bys /\ password[u] \in 0..MaxPasswords
          /\ password[u] # 0
    BY BoundsAssumption DEF Bys, RowsOK
  <2>2. o \in Request
    BY <2>1, IdleIsARequest DEF Request, Kinds, StageNames
  <2>3. RequestOK(o)
    BY <2>1 DEF Idle, RequestOK, Stages
  <2>4. ReqTypeOK'
    BY <1>1, <2>2, <2>3, StepType DEF SignIn
  <2> QED
    BY <1>1, <2>4, RowsSame DEF SignIn
<1>2. ASSUME ReadApp(r) PROVE TypeNow'
  <2>1. RowsOK'
    BY <1>2, RowsSame DEF ReadApp
  <2>2. ASSUME NEW stage \in {"bare", "asked"}, Goto(r, stage) PROVE ReqTypeOK'
    BY <1>2, <2>2, MoveType DEF ReadApp, At, Stages, StageNames
  <2> QED
    BY <1>2, <2>1, <2>2 DEF ReadApp
<1>3. ASSUME ReadKeys(r) PROVE TypeNow'
  <2> DEFINE cookie == [user |-> req[r].user, password |-> req[r].password]
  <2>1. req[r].kind = "signin"
    BY <1>3 DEF ReadKeys
  <2>2. cookie \in [user : Users, password : 1..MaxPasswords]
    BY <1>r, <2>1
  <2>3. pending' \subseteq pending \cup {cookie}
    BY <1>3 DEF ReadKeys
  <2>4. RowsOK'
    BY <1>3, <2>2, <2>3 DEF ReadKeys, RowsOK, store
  <2>5. ASSUME Goto(r, "open") PROVE ReqTypeOK'
    BY <2>1, <2>5, OpensType
  <2> QED
    BY <1>3, <2>4, <2>5, AnswerType DEF ReadKeys
<1>4. ASSUME FactorsUnread(r) PROVE TypeNow'
  <2>1. ReqTypeOK'
    BY <1>4, MoveType DEF FactorsUnread, Stages, StageNames
  <2> QED
    BY <1>4, <2>1, RowsSame DEF FactorsUnread
<1>5. ASSUME NEW cookie \in pending, NEW proof \in Proofs, PresentCode(r, cookie, proof)
      PROVE  TypeNow'
  <2> DEFINE o == [Idle EXCEPT !.kind = "code", !.at = "app", !.user = cookie.user,
                               !.password = cookie.password, !.by = proof]
  <2>1. cookie.user \in Users /\ cookie.password \in 0..MaxPasswords
          /\ cookie.password # 0 /\ proof \in Bys
    BY BoundsAssumption DEF RowsOK, Bys
  <2>2. o \in Request
    BY <2>1, IdleIsARequest DEF Request, Kinds, StageNames
  <2>3. RequestOK(o)
    BY <2>1 DEF Idle, RequestOK, Stages
  <2>4. ReqTypeOK'
    BY <1>5, <2>2, <2>3, StepType DEF PresentCode
  <2> QED
    BY <1>5, <2>4, RowsSame DEF PresentCode
<1>6. ASSUME CheckApp(r) PROVE TypeNow'
  <2>1. ASSUME Goto(r, "open") PROVE ReqTypeOK'
    BY <1>6, <2>1, OpensType DEF CheckApp, At
  <2>2. ASSUME Goto(r, "spend") PROVE ReqTypeOK'
    BY <1>6, <2>2, MoveType DEF CheckApp, At, Stages, StageNames
  <2> QED
    BY <1>6, <2>1, <2>2, RowsSame DEF CheckApp
<1>7. ASSUME SpendCode(r) PROVE TypeNow'
  <2>1. req[r].kind = "code" /\ req[r].user \in Users
    BY <1>r, <1>7 DEF SpendCode, At
  <2>2. codes' \in [Users -> [batch : 0..MaxBatches, unused : SUBSET (1..BatchSize)]]
    <3> DEFINE u == req[r].user
               rest == [codes[u] EXCEPT !.unused = @ \ {req[r].by.code}]
    <3>1. codes \in [Users -> [batch : 0..MaxBatches, unused : SUBSET (1..BatchSize)]]
      BY DEF RowsOK
    <3>2. rest \in [batch : 0..MaxBatches, unused : SUBSET (1..BatchSize)]
      BY <2>1, <3>1
    <3>3. codes' = codes \/ codes' = [codes EXCEPT ![u] = rest]
      BY <1>7 DEF SpendCode
    <3> HIDE DEF rest
    <3> QED
      BY <2>1, <3>1, <3>2, <3>3
  <2>3. RowsOK'
    BY <1>7, <2>2 DEF SpendCode, RowsOK, memory
  <2>4. ASSUME Goto(r, "open") PROVE ReqTypeOK'
    BY <2>1, <2>4, OpensType
  <2> QED
    BY <1>7, <2>3, <2>4, AnswerType DEF SpendCode
<1>8. ASSUME NEW cookie \in pending, NEW a \in Signed, PresentAnswer(r, cookie, a)
      PROVE  TypeNow'
  <2> DEFINE by == [how |-> "key", key |-> a.key, challenge |-> a.challenge]
             o == [Idle EXCEPT !.kind = "key", !.at = "lookup", !.user = cookie.user,
                               !.password = cookie.password,
                               !.question = challenge[cookie.user], !.by = by]
  <2>1. cookie.user \in Users /\ cookie.password \in 0..MaxPasswords
          /\ cookie.password # 0
    BY BoundsAssumption DEF RowsOK
  <2>2. by \in Bys
    BY BoundsAssumption DEF RowsOK, Bys, KeyProofs, Signed
  <2>3. challenge[cookie.user] \in 0..MaxChallenges
    BY <2>1, BoundsAssumption DEF RowsOK
  <2> HIDE DEF by
  <2>4. o \in Request
    BY <2>1, <2>2, <2>3, IdleIsARequest DEF Request, Kinds, StageNames
  <2>5. RequestOK(o)
    BY <2>1 DEF Idle, RequestOK, Stages
  <2>6. ReqTypeOK'
    BY <1>8, <2>4, <2>5, StepType DEF PresentAnswer, by
  <2>7. challenge' \in [Users -> 0..posed]
    BY <1>8 DEF PresentAnswer, RowsOK
  <2>8. RowsOK'
    BY <1>8, <2>7 DEF PresentAnswer, RowsOK, store
  <2> QED
    BY <2>6, <2>8
<1>9. ASSUME CheckAnswer(r) PROVE TypeNow'
  <2>1. ASSUME Goto(r, "open") PROVE ReqTypeOK'
    BY <1>9, <2>1, OpensType DEF CheckAnswer, At
  <2> QED
    BY <1>9, <2>1, RowsSame, AnswerType DEF CheckAnswer
<1>10. ASSUME Open(r) PROVE TypeNow'
  <2> DEFINE new == [user |-> req[r].user, password |-> req[r].password,
                     by |-> req[r].by,
                     late |-> req[r].password # password[req[r].user]]
  <2>1. req[r].kind # "none"
    BY <1>r, <1>10 DEF Open, Opening, RequestOK, Stages
  <2>2. req[r].password \in 1..MaxPasswords
    BY <1>r, <1>10, <2>1 DEF Open, Opening, RequestOK, Stages
  <2>3. new \in Session
    BY <1>r, <2>1, <2>2 DEF Session, Request
  <2> HIDE DEF new
  <2>4. opened' = Append(opened, new) /\ Len(opened) < MaxSessions
    BY <1>10 DEF Open, new
  <2>5. /\ opened' \in Seq(Session) /\ Len(opened') =< MaxSessions
        /\ DOMAIN opened' = DOMAIN opened \cup {Len(opened) + 1}
    BY <2>3, <2>4, BoundsAssumption DEF RowsOK
  <2>6. live' \subseteq DOMAIN opened'
    BY <1>10, <2>5 DEF Open, RowsOK
  <2>7. RowsOK'
    BY <1>10, <2>5, <2>6 DEF Open, RowsOK, memory
  <2> QED
    BY <1>10, <2>7, AnswerType DEF Open
<1>11. ASSUME OpenFails(r) PROVE TypeNow'
  BY <1>11, RowsSame, AnswerType DEF OpenFails
<1> QED
  BY <1>1, <1>2, <1>3, <1>4, <1>5, <1>6, <1>7, <1>8, <1>9, <1>10, <1>11 DEF ServeSignIn

LEMMA LiveSession ==
  ASSUME RowsOK, NEW i \in live
  PROVE  opened[i] \in Session /\ opened[i].user \in Users
<1>1. i \in 1..Len(opened) /\ opened \in Seq(Session)
  BY DEF RowsOK
<1>2. opened[i] \in Session
  BY <1>1
<1> QED
  BY <1>2 DEF Session

\* A request of the kind it had, at another stage that is not an opening.
LEMMA StageOK ==
  ASSUME NEW o, NEW kind \in Kinds, NEW stage \in StageNames, o.kind = kind, o.at = stage,
         o.user \in Users, <<kind, stage>> \in Stages,
         o.password # 0 \/ (kind \notin {"signin", "code", "key"}
                             /\ stage \notin {"close", "open"})
  PROVE  RequestOK(o)
BY DEF RequestOK

LEMMA PasswordStepType ==
  ASSUME TypeNow, NEW r \in Requests, ServePassword(r), UNCHANGED <<restarts, uncoded>>
  PROVE  TypeNow'
<1> USE DEF TypeNow
<1>r. /\ req[r] \in Request /\ RequestOK(req[r])
      /\ req[r].kind # "none" => req[r].user \in Users
      /\ req[r].at = "close" => req[r].password \in 1..MaxPasswords
  BY RequestFacts
<1>1. ASSUME NEW u \in Users, NEW kind \in {"reset", "own"}, UNCHANGED <<store, memory, unclosed>>,
             Step(r, [Idle EXCEPT !.kind = kind, !.at = "set", !.user = u])
      PROVE  TypeNow'
  <2> DEFINE o == [Idle EXCEPT !.kind = kind, !.at = "set", !.user = u]
  <2>1. o \in Request
    BY IdleIsARequest DEF Request, Kinds, StageNames
  <2>2. RequestOK(o)
    BY DEF Idle, RequestOK, Stages
  <2> QED
    BY <1>1, <2>1, <2>2, StepType, RowsSame
<1>2. ASSUME NEW u \in Users, ResetPassword(r, u) PROVE TypeNow'
  BY <1>1, <1>2 DEF ResetPassword
<1>3. ASSUME NEW i \in live, ChangeOwnPassword(r, i) PROVE TypeNow'
  BY <1>1, <1>3, LiveSession DEF ChangeOwnPassword
<1>4. ASSUME SetUserCredentials(r) PROVE TypeNow'
  <2> DEFINE new == password[req[r].user] + 1
             o == [req[r] EXCEPT !.at = "close", !.by = [how |-> "own"], !.password = new]
  <2>1. req[r].kind \in {"reset", "own"} /\ req[r].user \in Users
    BY <1>r, <1>4 DEF SetUserCredentials
  <2>2. new \in 1..MaxPasswords /\ new # 0
    BY <1>4, <2>1, BoundsAssumption DEF SetUserCredentials, RowsOK
  <2>3. password' = [password EXCEPT ![req[r].user] = new]
    BY <1>4, <2>1 DEF SetUserCredentials, RowsOK
  <2>4. [how |-> "own"] \in Bys
    BY DEF Bys
  <2> HIDE DEF new
  <2>5. RowsOK'
    BY <1>4, <2>1, <2>2, <2>3 DEF SetUserCredentials, RowsOK, memory
  <2>6. new \in 0..MaxPasswords
    BY <2>2
  <2>7. o \in Request
    BY <1>r, <2>4, <2>6 DEF Request, StageNames
  <2>8. /\ o.kind = req[r].kind /\ o.at = "close" /\ o.user = req[r].user
        /\ o.password = new
    BY <1>r DEF Request
  <2>9. RequestOK(o)
    <3>1. <<req[r].kind, "close">> \in Stages /\ "close" \in StageNames /\ req[r].kind \in Kinds
      BY <2>1 DEF Stages, StageNames, Kinds
    <3> HIDE DEF o
    <3> QED
      BY <2>1, <2>2, <2>8, <3>1, StageOK
  <2>10. Step(r, o)
    BY <1>4 DEF SetUserCredentials, new
  <2> QED
    BY <2>5, <2>7, <2>9, <2>10, StepType
<1>5. ASSUME req[r].kind \in {"reset", "own"}, req[r].at = "close", Closed(r)
      PROVE  ReqTypeOK'
  <2>1. CASE req[r].kind = "own"
    <3>1. Goto(r, "open") /\ req[r].password # 0
      BY <1>r, <1>5, <2>1, BoundsAssumption DEF Closed
    <3> QED
      BY <2>1, <3>1, MoveType DEF Stages, StageNames
  <2>2. CASE req[r].kind # "own"
    BY <1>5, <2>2, AnswerType DEF Closed
  <2> QED
    BY <2>1, <2>2
<1>6. ASSUME DeleteUserSessions(r) PROVE TypeNow'
  <2>1. RowsOK'
    BY <1>6 DEF DeleteUserSessions, RowsOK, memory
  <2> QED
    BY <1>5, <1>6, <2>1 DEF DeleteUserSessions
<1>7. ASSUME CloseFails(r) PROVE TypeNow'
  <2>1. req[r].user \in Users
    BY <1>r, <1>7 DEF CloseFails
  <2>2. RowsOK'
    BY <1>7, <2>1 DEF CloseFails, RowsOK, store, memory
  <2> QED
    BY <1>5, <1>7, <2>2 DEF CloseFails
<1> QED
  BY <1>2, <1>3, <1>4, <1>6, <1>7 DEF ServePassword

LEMMA FactorStepType ==
  ASSUME TypeNow, NEW r \in Requests, ServeFactors(r), UNCHANGED <<restarts, unclosed, uncoded>>
  PROVE  TypeNow'
<1> USE DEF TypeNow
<1>r. /\ req[r] \in Request /\ RequestOK(req[r])
      /\ req[r].kind # "none" => req[r].user \in Users
  BY RequestFacts
\* Nothing is written but the request.
<1>a. ASSUME NEW o, o \in Request, RequestOK(o), Step(r, o), UNCHANGED <<store, memory>>
      PROVE  TypeNow'
  BY <1>a, StepType, RowsSame
<1>b. ASSUME NEW stage \in StageNames, Goto(r, stage), <<req[r].kind, stage>> \in Stages,
             stage \notin {"close", "open"}, UNCHANGED <<store, memory>>
      PROVE  TypeNow'
  BY <1>b, MoveType, RowsSame
<1>1. ASSUME NEW i \in live, NEW s \in Secrets, EnableTwoFactor(r, i, s) PROVE TypeNow'
  <2> DEFINE o == [Idle EXCEPT !.kind = "enable", !.at = "store",
                               !.user = opened[i].user, !.secret = s]
  <2>1. opened[i].user \in Users
    BY LiveSession
  <2>2. o \in Request
    BY <2>1, IdleIsARequest DEF Request, Kinds, StageNames
  <2>3. RequestOK(o)
    BY <2>1 DEF Idle, RequestOK, Stages
  <2> QED
    BY <1>a, <1>1, <2>2, <2>3 DEF EnableTwoFactor
<1>2. ASSUME NEW i \in live, DisableTwoFactor(r, i) PROVE TypeNow'
  <2> DEFINE o == [Idle EXCEPT !.kind = "disable", !.at = "count",
                               !.user = opened[i].user]
  <2>1. opened[i].user \in Users
    BY LiveSession
  <2>2. o \in Request
    BY <2>1, IdleIsARequest DEF Request, Kinds, StageNames
  <2>3. RequestOK(o)
    BY <2>1 DEF Idle, RequestOK, Stages
  <2> QED
    BY <1>a, <1>2, <2>2, <2>3 DEF DisableTwoFactor
<1>3. ASSUME NEW i \in live, NEW k \in Keys, RegisterKey(r, i, k) PROVE TypeNow'
  <2> DEFINE o == [Idle EXCEPT !.kind = "addkey", !.at = "add",
                               !.user = opened[i].user, !.key = k]
  <2>1. opened[i].user \in Users
    BY LiveSession
  <2>2. o \in Request
    BY <2>1, IdleIsARequest DEF Request, Kinds, StageNames
  <2>3. RequestOK(o)
    BY <2>1 DEF Idle, RequestOK, Stages
  <2> QED
    BY <1>a, <1>3, <2>2, <2>3 DEF RegisterKey
<1>4. ASSUME NEW i \in live, NEW k \in Keys, RemoveSecurityKey(r, i, k) PROVE TypeNow'
  <2> DEFINE o == [Idle EXCEPT !.kind = "dropkey", !.at = "list",
                               !.user = opened[i].user, !.key = k]
  <2>1. opened[i].user \in Users
    BY LiveSession
  <2>2. o \in Request
    BY <2>1, IdleIsARequest DEF Request, Kinds, StageNames
  <2>3. RequestOK(o)
    BY <2>1 DEF Idle, RequestOK, Stages
  <2> QED
    BY <1>a, <1>4, <2>2, <2>3 DEF RemoveSecurityKey
<1>5. ASSUME StoreSecret(r) PROVE TypeNow'
  <2>1. req[r].user \in Users /\ req[r].secret \in Secrets \cup {None}
    BY <1>r, <1>5 DEF StoreSecret, At, Request
  <2>2. Batch(minted + 1) \in [batch : 0..MaxBatches, unused : SUBSET (1..BatchSize)]
          /\ minted + 1 \in 1..MaxBatches
    BY <1>5, BoundsAssumption DEF StoreSecret, RowsOK, Batch
  <2>3. RowsOK'
    BY <1>5, <2>1, <2>2 DEF StoreSecret, SetTOTPSecret, RowsOK
  <2> QED
    BY <1>5, <2>3, AnswerType DEF StoreSecret
<1>6. ASSUME CountSecurityKeys(r) PROVE TypeNow'
  <2>1. ASSUME Answer(r) PROVE TypeNow'
    BY <1>6, <2>1, AnswerType, RowsSame DEF CountSecurityKeys
  <2>2. ASSUME NEW stage \in {"clear all", "clear secret"}, Goto(r, stage) PROVE TypeNow'
    BY <1>b, <1>6, <2>2 DEF CountSecurityKeys, At, Stages, StageNames
  <2> QED
    BY <1>6, <2>1, <2>2 DEF CountSecurityKeys
<1>7. ASSUME ClearTOTP(r) PROVE TypeNow'
  <2> DEFINE u == req[r].user
             left == IF req[r].at = "clear all" THEN NoBatch ELSE codes[u]
  <2>1. u \in Users
    BY <1>r, <1>7 DEF ClearTOTP
  <2>2. left \in [batch : 0..MaxBatches, unused : SUBSET (1..BatchSize)]
    <3>1. NoBatch \in [batch : 0..MaxBatches, unused : SUBSET (1..BatchSize)]
      BY BoundsAssumption DEF NoBatch
    <3> QED
      BY <2>1, <3>1 DEF RowsOK
  <2>3. totp' = [totp EXCEPT ![u] = None] /\ codes' = [codes EXCEPT ![u] = left]
    BY <1>7 DEF ClearTOTP, SetTOTPSecret
  <2> HIDE DEF u, left
  <2>4. RowsOK'
    BY <1>7, <2>1, <2>2, <2>3 DEF ClearTOTP, RowsOK, memory
  <2> QED
    BY <1>7, <2>4, AnswerType DEF ClearTOTP
<1>8. ASSUME AddSecurityKey(r) PROVE TypeNow'
  <2>1. req[r].user \in Users
    BY <1>r, <1>8 DEF AddSecurityKey, At
  <2>2. RowsOK'
    BY <1>8, <2>1 DEF AddSecurityKey, RowsOK, memory
  <2>3. ASSUME Goto(r, "left") PROVE ReqTypeOK'
    BY <1>8, <2>3, MoveType DEF AddSecurityKey, At, Stages, StageNames
  <2> QED
    BY <1>8, <2>2, <2>3, AnswerType DEF AddSecurityKey
<1>9. ASSUME CountUnusedRecoveryCodes(r) PROVE TypeNow'
  <2>1. ASSUME Goto(r, "secret") PROVE TypeNow'
    BY <1>b, <1>9, <2>1 DEF CountUnusedRecoveryCodes, At, Stages, StageNames
  <2> QED
    BY <1>9, <2>1, AnswerType, RowsSame DEF CountUnusedRecoveryCodes
<1>10. ASSUME KeepSecret(r) PROVE TypeNow'
  <2> DEFINE o == [req[r] EXCEPT !.at = "mint", !.secret = totp[req[r].user]]
  <2>1. req[r].kind = "addkey" /\ totp[req[r].user] \in Secrets \cup {None}
    BY <1>r, <1>10 DEF KeepSecret, At, RowsOK
  <2>2. o \in Request
    BY <1>r, <2>1 DEF Request, StageNames
  <2>3. /\ o.kind = req[r].kind /\ o.at = "mint" /\ o.user = req[r].user
        /\ o.password = req[r].password
    BY <1>r DEF Request
  <2>4. RequestOK(o)
    <3>1. <<"addkey", "mint">> \in Stages /\ "mint" \in StageNames /\ "addkey" \in Kinds
      BY DEF Stages, StageNames, Kinds
    <3> HIDE DEF o
    <3> QED
      BY <1>r, <2>1, <2>3, <3>1, StageOK
  <2> QED
    BY <1>10, <2>2, <2>4, StepType, RowsSame DEF KeepSecret
<1>11. ASSUME MintCodes(r) PROVE TypeNow'
  <2> DEFINE o == [req[r] EXCEPT !.at = "stash", !.batch = minted + 1]
  <2>1. req[r].kind = "addkey" /\ req[r].user \in Users
          /\ req[r].secret \in Secrets \cup {None}
    BY <1>r, <1>11 DEF MintCodes, At, Request
  <2>2. Batch(minted + 1) \in [batch : 0..MaxBatches, unused : SUBSET (1..BatchSize)]
          /\ minted + 1 \in 1..MaxBatches
    BY <1>11, BoundsAssumption DEF MintCodes, RowsOK, Batch
  <2>3. RowsOK'
    BY <1>11, <2>1, <2>2 DEF MintCodes, SetTOTPSecret, RowsOK
  <2>4. minted + 1 \in 0..MaxBatches
    BY <2>2
  <2>5. o \in Request
    BY <1>r, <2>4 DEF Request, StageNames
  <2>6. /\ o.kind = req[r].kind /\ o.at = "stash" /\ o.user = req[r].user
        /\ o.password = req[r].password
    BY <1>r DEF Request
  <2>7. RequestOK(o)
    <3>1. <<"addkey", "stash">> \in Stages /\ "stash" \in StageNames /\ "addkey" \in Kinds
      BY DEF Stages, StageNames, Kinds
    <3> HIDE DEF o
    <3> QED
      BY <1>r, <2>1, <2>6, <3>1, StageOK
  <2> QED
    BY <1>11, <2>3, <2>5, <2>7, StepType DEF MintCodes
<1>12. ASSUME StashCodes(r) PROVE TypeNow'
  <2>1. req[r].batch \in 0..MaxBatches
    BY <1>r DEF Request
  <2>2. RowsOK'
    BY <1>12, <2>1 DEF StashCodes, RowsOK, store
  <2> QED
    BY <1>12, <2>2, AnswerType DEF StashCodes
<1>13. ASSUME ListKeys(r) PROVE TypeNow'
  <2>1. PICK stage \in {"app", "delete"} : Goto(r, stage)
    BY <1>13 DEF ListKeys
  <2> QED
    BY <1>b, <1>13, <2>1 DEF ListKeys, At, Stages, StageNames
<1>14. ASSUME OtherFactor(r) PROVE TypeNow'
  <2>1. ASSUME Goto(r, "delete") PROVE TypeNow'
    BY <1>b, <1>14, <2>1 DEF OtherFactor, At, Stages, StageNames
  <2> QED
    BY <1>14, <2>1, AnswerType, RowsSame DEF OtherFactor
<1>15. ASSUME DeleteSecurityKey(r) PROVE TypeNow'
  <2>1. RowsOK'
    BY <1>15 DEF DeleteSecurityKey, RowsOK, memory
  <2> QED
    BY <1>15, <2>1, AnswerType DEF DeleteSecurityKey
<1> QED
  BY <1>1, <1>2, <1>3, <1>4, <1>5, <1>6, <1>7, <1>8, <1>9, <1>10, <1>11, <1>12, <1>13,
     <1>14, <1>15 DEF ServeFactors

LEMMA PolicyStepType ==
  ASSUME TypeNow, NEW r \in Requests, ServePolicy(r), UNCHANGED <<restarts, unclosed, uncoded>>
  PROVE  TypeNow'
<1> USE DEF TypeNow
<1>1. ASSUME NEW i \in live, NEW want \in {"require", "relax"},
             SaveServerSettings(r, i, want)
      PROVE  TypeNow'
  <2> DEFINE first == IF want = "require" THEN "has" ELSE "save"
             o == [Idle EXCEPT !.kind = want, !.user = opened[i].user, !.at = first]
  <2>1. opened[i].user \in Users
    BY LiveSession
  <2>2. o \in Request
    BY <2>1, IdleIsARequest DEF Request, Kinds, StageNames
  <2>3. RequestOK(o)
    BY <2>1 DEF Idle, RequestOK, Stages
  <2> QED
    BY <1>1, <2>2, <2>3, StepType, RowsSame DEF SaveServerSettings
<1>2. ASSUME HasSecondFactor(r) PROVE TypeNow'
  <2>1. ASSUME Goto(r, "save") PROVE ReqTypeOK'
    BY <1>2, <2>1, MoveType DEF HasSecondFactor, At, Stages, StageNames
  <2> QED
    BY <1>2, <2>1, AnswerType, RowsSame DEF HasSecondFactor
<1>3. ASSUME SetServerSetting(r) PROVE TypeNow'
  <2>1. ReqTypeOK'
    BY <1>3, MoveType DEF SetServerSetting, Stages, StageNames
  <2> QED
    BY <1>3, <2>1 DEF SetServerSetting, RowsOK, store
<1>4. ASSUME Require(r) PROVE TypeNow'
  BY <1>4, AnswerType DEF Require, RowsOK, store
<1> QED
  BY <1>1, <1>2, <1>3, <1>4 DEF ServePolicy

LEMMA BrowserStepType ==
  ASSUME TypeNow, Browser, UNCHANGED <<restarts, unclosed, uncoded>>
  PROVE  TypeNow'
<1> USE DEF TypeNow
<1>1. ASSUME NEW cookie \in pending, PoseChallenge(cookie) PROVE TypeNow'
  <2>1. posed + 1 \in 0..MaxChallenges /\ posed \in Nat
    BY <1>1, BoundsAssumption DEF PoseChallenge, RowsOK
  <2>2. challenge' \in [Users -> 0..posed']
    BY <1>1, <2>1 DEF PoseChallenge, RowsOK
  <2> QED
    BY <1>1, <2>1, <2>2 DEF PoseChallenge, RowsOK, ReqTypeOK, store
<1>2. ASSUME NEW i \in live, EndSession(i) PROVE TypeNow'
  BY <1>2 DEF EndSession, RowsOK, ReqTypeOK, memory
<1>3. ASSUME NEW u \in Users, TakeStash(u) PROVE TypeNow'
  BY <1>3, BoundsAssumption DEF TakeStash, RowsOK, ReqTypeOK, store
<1> QED
  BY <1>1, <1>2, <1>3 DEF Browser

LEMMA FailureType ==
  ASSUME TypeNow, NEW r \in Requests, Fails(r), UNCHANGED <<restarts, unclosed>>
  PROVE  TypeNow'
<1>1. RowsOK'
  BY DEF TypeNow, Fails, RowsOK, store, memory
<1> QED
  BY <1>1, AnswerType DEF TypeNow, Fails

LEMMA RestartStepType ==
  ASSUME TypeNow, Restart, UNCHANGED uncoded
  PROVE  TypeNow'
<1> USE DEF TypeNow
<1>1. req' \in [Requests -> Request] /\ \A r \in Requests : RequestOK(req[r])'
  BY IdleIsARequest DEF Restart
<1>2. restarts' \in 0..MaxRestarts /\ required' \in BOOLEAN /\ pinned' \in BOOLEAN
  BY BoundsAssumption DEF Restart, RowsOK
<1>3. challenge' \in [Users -> 0..posed'] /\ stash' \in [Users -> 0..MaxBatches]
  BY BoundsAssumption DEF Restart, RowsOK
<1> QED
  BY <1>1, <1>2, <1>3 DEF Restart, RowsOK, ReqTypeOK, store

LEMMA WatchType ==
  ASSUME TypeNow, TypeNow', WatchOK, Watch
  PROVE  WatchOK'
<1>1. \A u \in Users : FactorsIn(totp', owner', u) \subseteq Secrets \cup Keys
  BY DEF FactorsIn, TypeNow, RowsOK
<1>2. \A r \in Requests : req'[r].kind = "signin" => req'[r].user \in Users
  BY DEF TypeNow, ReqTypeOK, RequestOK
<1>3. stood' \in [Requests -> SUBSET (Secrets \cup Keys)]
  BY <1>1, <1>2 DEF Watch, WatchOK
<1> QED
  BY <1>3 DEF Watch, WatchOK

LEMMA NextType == TypeOK /\ [Next]_vars => TypeOK'
<1> SUFFICES ASSUME TypeNow, WatchOK, [Next]_vars PROVE TypeNow' /\ WatchOK'
  BY TypeParts, PTL DEF TypeNow
<1>1. CASE Next
  <2>1. TypeNow'
    BY <1>1, SignInStepType, PasswordStepType, FactorStepType, PolicyStepType,
       BrowserStepType, FailureType, RestartStepType DEF Next
  <2> QED
    BY <1>1, <2>1, WatchType DEF Next
<1>2. CASE UNCHANGED vars
  BY <1>2 DEF vars, store, memory, history, TypeNow, RowsOK, ReqTypeOK, WatchOK
<1> QED
  BY <1>1, <1>2

\* Every variable holds what its rows, its map or its cookies can hold, for
\* every number of accounts, keys, codes and requests: what login.go,
\* twofactor.go and securitykey.go write is what they expect to read.
THEOREM Typing == Spec => []TypeOK
<1>1. Init => TypeOK
  BY InitType
<1>2. TypeOK /\ [Next]_vars => TypeOK'
  BY NextType
<1> QED
  BY <1>1, <1>2, PTL DEF Spec

(***************************************************************************)
(* Requests in flight: a step is taken by one of them and leaves the       *)
(* others where they are.                                                  *)
(***************************************************************************)
LEMMA StepLeavesOthers ==
  ASSUME ReqTypeOK, NEW r \in Requests, NEW q \in Requests, q # r,
         (\E o : Step(r, o)) \/ Answer(r) \/ (\E stage : Goto(r, stage))
  PROVE  req'[q] = req[q]
BY DEF ReqTypeOK, Step, Answer, Goto

LEMMA SignInLeavesOthers ==
  ASSUME ReqTypeOK, NEW r \in Requests, NEW q \in Requests, q # r, ServeSignIn(r)
  PROVE  req'[q] = req[q]
BY StepLeavesOthers DEF ServeSignIn, SignIn, ReadApp, ReadKeys, FactorsUnread,
   PresentCode, CheckApp, SpendCode, PresentAnswer, CheckAnswer, Open, OpenFails

LEMMA PasswordLeavesOthers ==
  ASSUME ReqTypeOK, NEW r \in Requests, NEW q \in Requests, q # r, ServePassword(r)
  PROVE  req'[q] = req[q]
BY StepLeavesOthers DEF ServePassword, ResetPassword, ChangeOwnPassword,
   SetUserCredentials, DeleteUserSessions, CloseFails, Closed

LEMMA FactorsLeaveOthers ==
  ASSUME ReqTypeOK, NEW r \in Requests, NEW q \in Requests, q # r, ServeFactors(r)
  PROVE  req'[q] = req[q]
BY StepLeavesOthers DEF ServeFactors, EnableTwoFactor, DisableTwoFactor, RegisterKey,
   RemoveSecurityKey, StoreSecret, CountSecurityKeys, ClearTOTP, AddSecurityKey,
   CountUnusedRecoveryCodes, KeepSecret, MintCodes, StashCodes, ListKeys, OtherFactor,
   DeleteSecurityKey

LEMMA FailureLeavesOthers ==
  ASSUME ReqTypeOK, NEW r \in Requests, NEW q \in Requests, q # r, Fails(r)
  PROVE  req'[q] = req[q]
BY StepLeavesOthers DEF Fails

\* A request about the policy writes nothing of an account.
LEMMA PolicyFacts ==
  ASSUME ReqTypeOK, NEW r \in Requests, ServePolicy(r)
  PROVE  /\ UNCHANGED store
         /\ req[r].at # "close"
         /\ {req[r].kind, req'[r].kind} \subseteq {"none", "require", "relax"}
         /\ \A q \in Requests : q # r => req'[q] = req[q]
<1>r. req[r] \in Request
  BY DEF ReqTypeOK
<1>a. ASSUME Answer(r) PROVE req'[r].kind = "none"
  BY <1>a DEF Answer, Step, ReqTypeOK, Idle
<1>b. ASSUME NEW stage, Goto(r, stage) PROVE req'[r].kind = req[r].kind
  BY <1>r, <1>b DEF Goto, ReqTypeOK, Request
<1>1. UNCHANGED store
  BY DEF ServePolicy, SaveServerSettings, HasSecondFactor, SetServerSetting, Require
<1>2. \A q \in Requests : q # r => req'[q] = req[q]
  BY StepLeavesOthers DEF ServePolicy, SaveServerSettings, HasSecondFactor,
     SetServerSetting, Require
<1>3. req[r].at # "close" /\ req[r].kind \in {"none", "require", "relax"}
  <2>1. CASE req[r] = Idle
    BY <2>1 DEF Idle
  <2>2. ASSUME HasSecondFactor(r) \/ SetServerSetting(r) \/ Require(r)
        PROVE  req[r].at # "close" /\ req[r].kind \in {"require", "relax"}
    BY <2>2 DEF HasSecondFactor, SetServerSetting, Require, At
  <2>3. req[r] = Idle \/ HasSecondFactor(r) \/ SetServerSetting(r) \/ Require(r)
    BY DEF ServePolicy, SaveServerSettings, Arrives
  <2> QED
    BY <2>1, <2>2, <2>3
<1>4. req'[r].kind \in {"none", "require", "relax"}
  <2>1. ASSUME NEW i \in live, NEW want \in {"require", "relax"},
               SaveServerSettings(r, i, want)
        PROVE  req'[r].kind = want
    BY <2>1 DEF SaveServerSettings, Step, ReqTypeOK, Idle
  <2>2. ASSUME HasSecondFactor(r) \/ SetServerSetting(r) \/ Require(r)
        PROVE  req'[r].kind \in {"none", "require", "relax"}
    BY <1>a, <1>b, <1>3, <2>2 DEF HasSecondFactor, SetServerSetting, Require
  <2> QED
    BY <2>1, <2>2 DEF ServePolicy
<1> QED
  BY <1>1, <1>2, <1>3, <1>4

LEMMA BrowserLeavesAll == Browser => req' = req
BY DEF Browser, PoseChallenge, EndSession, TakeStash

(***************************************************************************)
(* A change of password closes the sessions opened before it.              *)
(***************************************************************************)

\* A step that closes no change and opens no session keeps what it excuses.
LEMMA ClosingStays ==
  ASSUME OldSessionsAreClosed, UNCHANGED password, live' \subseteq live,
         \A i \in live' : opened'[i] = opened[i], unclosed \subseteq unclosed',
         \A q \in Requests : req[q].at = "close" => req'[q] = req[q]
  PROVE  OldSessionsAreClosed'
BY DEF OldSessionsAreClosed

LEMMA SignInLeavesClosing ==
  ASSUME ReqTypeOK, NEW r \in Requests, ServeSignIn(r)
  PROVE  req[r].at # "close" /\ UNCHANGED password
         /\ (Open(r) \/ UNCHANGED <<opened, live>>)
<1>1. ASSUME NEW u \in Users, SignIn(r, u)
      PROVE  req[r].at # "close" /\ UNCHANGED <<password, opened, live>>
  BY <1>1 DEF SignIn, Arrives, Idle, store
<1>2. ASSUME ReadApp(r) \/ ReadKeys(r) \/ FactorsUnread(r)
      PROVE  req[r].at # "close" /\ UNCHANGED <<password, opened, live>>
  BY <1>2 DEF ReadApp, ReadKeys, FactorsUnread, At, store
<1>3. ASSUME NEW cookie \in pending, NEW proof \in Proofs, PresentCode(r, cookie, proof)
      PROVE  req[r].at # "close" /\ UNCHANGED <<password, opened, live>>
  BY <1>3 DEF PresentCode, Arrives, Idle, store
<1>4. ASSUME CheckApp(r) \/ SpendCode(r) \/ CheckAnswer(r)
      PROVE  req[r].at # "close" /\ UNCHANGED <<password, opened, live>>
  BY <1>4 DEF CheckApp, SpendCode, CheckAnswer, At, store
<1>5. ASSUME NEW cookie \in pending, NEW a \in Signed, PresentAnswer(r, cookie, a)
      PROVE  req[r].at # "close" /\ UNCHANGED <<password, opened, live>>
  BY <1>5 DEF PresentAnswer, Arrives, Idle, store
<1>6. ASSUME OpenFails(r)
      PROVE  req[r].at # "close" /\ UNCHANGED <<password, opened, live>>
  BY <1>6 DEF OpenFails, Opening, store
<1>7. ASSUME Open(r) PROVE req[r].at # "close" /\ UNCHANGED password
  BY <1>7 DEF Open, Opening
<1> QED
  BY <1>1, <1>2, <1>3, <1>4, <1>5, <1>6, <1>7 DEF ServeSignIn

LEMMA FactorsLeaveClosing ==
  ASSUME ReqTypeOK, NEW r \in Requests, ServeFactors(r)
  PROVE  req[r].at # "close" /\ UNCHANGED <<password, opened, live>>
<1>1. ASSUME NEW i \in live,
             \/ DisableTwoFactor(r, i)
             \/ \E s \in Secrets : EnableTwoFactor(r, i, s)
             \/ \E k \in Keys : RegisterKey(r, i, k) \/ RemoveSecurityKey(r, i, k)
      PROVE  req[r].at # "close" /\ UNCHANGED <<password, opened, live>>
  <2>1. req[r] = Idle /\ UNCHANGED store
    BY <1>1 DEF EnableTwoFactor, DisableTwoFactor, RegisterKey, RemoveSecurityKey, Arrives
  <2> QED
    BY <2>1 DEF Idle, store
<1>2. ASSUME StoreSecret(r) \/ CountSecurityKeys(r) \/ ClearTOTP(r)
      PROVE  req[r].at # "close" /\ UNCHANGED <<password, opened, live>>
  BY <1>2 DEF StoreSecret, CountSecurityKeys, ClearTOTP, At, store
<1>3. ASSUME AddSecurityKey(r) \/ CountUnusedRecoveryCodes(r) \/ KeepSecret(r)
             \/ MintCodes(r) \/ StashCodes(r)
      PROVE  req[r].at # "close" /\ UNCHANGED <<password, opened, live>>
  BY <1>3 DEF AddSecurityKey, CountUnusedRecoveryCodes, KeepSecret, MintCodes,
     StashCodes, At, store
<1>4. ASSUME ListKeys(r) \/ OtherFactor(r) \/ DeleteSecurityKey(r)
      PROVE  req[r].at # "close" /\ UNCHANGED <<password, opened, live>>
  BY <1>4 DEF ListKeys, OtherFactor, DeleteSecurityKey, At, store
<1> QED
  BY <1>1, <1>2, <1>3, <1>4 DEF ServeFactors

LEMMA NextClosing ==
  ASSUME TypeOK, OldSessionsAreClosed, Next
  PROVE  OldSessionsAreClosed'
<1>t. RowsOK /\ ReqTypeOK
  BY TypeParts
<1>1. ASSUME NEW r \in Requests, ServeSignIn(r), UNCHANGED <<restarts, unclosed, uncoded>>
      PROVE  OldSessionsAreClosed'
  <2>1. \A q \in Requests : req[q].at = "close" => req'[q] = req[q]
    BY <1>t, <1>1, SignInLeavesOthers, SignInLeavesClosing
  <2>2. CASE UNCHANGED <<opened, live>>
    BY <1>t, <1>1, <2>1, <2>2, SignInLeavesClosing, ClosingStays
  <2>3. CASE Open(r)
    <3> DEFINE n == Len(opened) + 1
    <3>1. UNCHANGED password /\ live' = live \cup {n} /\ n \notin live
      BY <1>t, <2>3 DEF Open, RowsOK
    <3>2. \A i \in live : opened'[i] = opened[i]
      BY <1>t, <2>3 DEF Open, RowsOK
    <3>3. /\ opened'[n].user = req[r].user
          /\ opened'[n].password = req[r].password
          /\ opened'[n].late = (req[r].password # password[req[r].user])
      BY <1>t, <2>3 DEF Open, RowsOK
    <3> HIDE DEF n
    <3>4. \A i \in live' : i = n \/ i \in live
      BY <3>1
    <3> QED
      <4>1. ASSUME NEW i \in live,
                   opened'[i].password # password'[opened'[i].user], ~ opened'[i].late
            PROVE  LET u == opened'[i].user IN
                     u \in unclosed' \/ \E q \in Requests : req'[q].user = u
                                                         /\ req'[q].at = "close"
        BY <1>1, <2>1, <3>1, <3>2, <4>1 DEF OldSessionsAreClosed
      <4>2. opened'[n].password # password'[opened'[n].user] => opened'[n].late
        BY <3>1, <3>3
      <4> QED
        BY <3>4, <4>1, <4>2 DEF OldSessionsAreClosed
  <2> QED
    BY <1>t, <1>1, <2>2, <2>3, SignInLeavesClosing
<1>2. ASSUME NEW r \in Requests, ServeFactors(r), UNCHANGED <<restarts, unclosed, uncoded>>
      PROVE  OldSessionsAreClosed'
  <2>1. \A q \in Requests : req[q].at = "close" => req'[q] = req[q]
    BY <1>t, <1>2, FactorsLeaveOthers, FactorsLeaveClosing
  <2> QED
    BY <1>t, <1>2, <2>1, FactorsLeaveClosing, ClosingStays
<1>3. ASSUME NEW r \in Requests, ServePassword(r), UNCHANGED restarts
      PROVE  OldSessionsAreClosed'
  <2>1. \A q \in Requests : q # r => req'[q] = req[q]
    BY <1>t, <1>3, PasswordLeavesOthers
  <2>2. ASSUME NEW u \in Users, ResetPassword(r, u) PROVE OldSessionsAreClosed'
    BY <2>1, <2>2, ClosingStays DEF ResetPassword, Arrives, Idle, store
  <2>3. ASSUME NEW i \in live, ChangeOwnPassword(r, i) PROVE OldSessionsAreClosed'
    BY <2>1, <2>3, ClosingStays DEF ChangeOwnPassword, Arrives, Idle, store
  <2>4. ASSUME SetUserCredentials(r) PROVE OldSessionsAreClosed'
    <3> DEFINE u == req[r].user
    <3>1. req'[r].user = u /\ req'[r].at = "close" /\ req[r].at # "close"
      BY <1>t, <2>4 DEF SetUserCredentials, Step, ReqTypeOK, Request
    <3>2. \A v \in Users : v # u => password'[v] = password[v]
      BY <1>t, <2>4 DEF SetUserCredentials, RowsOK
    <3>3. UNCHANGED <<opened, live, unclosed>>
      BY <2>4 DEF SetUserCredentials
    <3>4. \A i \in live : opened[i].user \in Users
      BY <1>t, LiveSession
    <3> HIDE DEF u
    <3> QED
      BY <2>1, <3>1, <3>2, <3>3, <3>4 DEF OldSessionsAreClosed
  <2>5. ASSUME DeleteUserSessions(r) PROVE OldSessionsAreClosed'
    <3> DEFINE u == req[r].user
    <3>1. /\ UNCHANGED <<password, opened>>
          /\ \A i \in live' : i \in live /\ opened[i].user # u
          /\ unclosed' = unclosed \ {u}
      BY <2>5 DEF DeleteUserSessions, SessionsOf
    <3> HIDE DEF u
    <3>2. \A q \in Requests : req[q].user # u => req'[q] = req[q]
      BY <2>1 DEF u
    <3> QED
      BY <3>1, <3>2 DEF OldSessionsAreClosed
  <2>6. ASSUME CloseFails(r) PROVE OldSessionsAreClosed'
    <3> DEFINE u == req[r].user
    <3>1. UNCHANGED <<password, opened, live>> /\ unclosed' = unclosed \cup {u}
      BY <2>6 DEF CloseFails, store
    <3> HIDE DEF u
    <3>2. \A q \in Requests : req[q].user # u => req'[q] = req[q]
      BY <2>1 DEF u
    <3> QED
      BY <3>1, <3>2 DEF OldSessionsAreClosed
  <2> QED
    BY <1>3, <2>2, <2>3, <2>4, <2>5, <2>6 DEF ServePassword
<1>4. ASSUME Browser, UNCHANGED <<restarts, unclosed, uncoded>> PROVE OldSessionsAreClosed'
  <2>1. UNCHANGED <<password, opened>> /\ live' \subseteq live
    BY <1>4 DEF Browser, PoseChallenge, EndSession, TakeStash, store
  <2> QED
    BY <1>4, <2>1, BrowserLeavesAll, ClosingStays
<1>5. ASSUME Restart PROVE OldSessionsAreClosed'
  <2>1. UNCHANGED <<password, opened, live>>
    BY <1>5 DEF Restart, store
  <2>2. \A i \in live : opened[i].user \in Users
    BY <1>t, LiveSession
  <2>3. \A u \in Users : u \in unclosed \/ (\E q \in Requests : req[q].user = u /\ req[q].at = "close")
          => u \in unclosed'
    BY <1>5 DEF Restart
  <2> QED
    BY <2>1, <2>2, <2>3 DEF OldSessionsAreClosed
<1>6. ASSUME NEW r \in Requests, Fails(r), UNCHANGED <<restarts, unclosed>>
      PROVE  OldSessionsAreClosed'
  <2>1. \A q \in Requests : req[q].at = "close" => req'[q] = req[q]
    BY <1>t, <1>6, FailureLeavesOthers DEF Fails
  <2> QED
    BY <1>6, <2>1, ClosingStays DEF Fails, store
<1>7. ASSUME NEW r \in Requests, ServePolicy(r), UNCHANGED <<restarts, unclosed, uncoded>>
      PROVE  OldSessionsAreClosed'
  <2>1. \A q \in Requests : req[q].at = "close" => req'[q] = req[q]
    BY <1>t, <1>7, PolicyFacts
  <2> QED
    BY <1>t, <1>7, <2>1, PolicyFacts, ClosingStays DEF store
<1> QED
  BY <1>1, <1>2, <1>3, <1>4, <1>5, <1>6, <1>7 DEF Next

\* A session that rests on a password no longer in force was opened after the
\* change by a sign-in that had given the old one before it, or the second
\* statement of the change failed, was never run, or is about to run: for
\* every number of accounts, sessions and requests (settings.go, accounts.go).
THEOREM OldSessionsClosed == Spec => []OldSessionsAreClosed
<1>1. Init => OldSessionsAreClosed
  BY BoundsAssumption DEF Init, OldSessionsAreClosed
<1>2. TypeOK /\ OldSessionsAreClosed /\ [Next]_vars => OldSessionsAreClosed'
  <2>1. ASSUME OldSessionsAreClosed, UNCHANGED vars PROVE OldSessionsAreClosed'
    BY <2>1 DEF OldSessionsAreClosed, vars, store, history
  <2> QED
    BY <2>1, NextClosing
<1> QED
  BY <1>1, <1>2, Typing, PTL DEF Spec

(***************************************************************************)
(* A factor that stands all along is asked for.  What a sign-in has had    *)
(* before it is still there at its next read: once the secret was found    *)
(* missing, only keys can have stood; once the keys are too, nothing has.  *)
(***************************************************************************)
StoodOK(r) ==
  req[r].kind = "signin" =>
    /\ stood[r] \subseteq FactorsOf(req[r].user)
    /\ req[r].at = "bare" => stood[r] \subseteq Keys
    /\ req[r].at = "open" => stood[r] = {}

\* How a request comes to be, or goes on being, a sign-in.
SignInMoves(r) ==
  \/ req'[r] = req[r]
  \/ req[r] = Idle /\ req'[r].at = "app"
  \/ ReadApp(r) \/ ReadKeys(r) \/ FactorsUnread(r)

LEMMA SignInSteps ==
  ASSUME ReqTypeOK, NEW r \in Requests, ServeSignIn(r), req'[r].kind = "signin"
  PROVE  SignInMoves(r)
<1>r. req[r] \in Request
  BY DEF ReqTypeOK
<1>a. ASSUME Answer(r) PROVE FALSE
  BY <1>a DEF Answer, Step, ReqTypeOK, Idle
<1>b. ASSUME NEW stage, Goto(r, stage), req[r].kind # "signin" PROVE FALSE
  BY <1>r, <1>b DEF Goto, ReqTypeOK, Request
<1>c. ASSUME NEW o, Step(r, o) PROVE req'[r] = o
  BY <1>c DEF Step, ReqTypeOK
<1>1. ASSUME NEW u \in Users, SignIn(r, u) PROVE SignInMoves(r)
  BY <1>c, <1>1 DEF SignIn, Arrives, SignInMoves, Idle
<1>2. ASSUME NEW cookie \in pending, NEW proof \in Proofs, PresentCode(r, cookie, proof)
      PROVE  FALSE
  BY <1>c, <1>2 DEF PresentCode, Idle
<1>3. ASSUME CheckApp(r) \/ SpendCode(r) \/ CheckAnswer(r) PROVE FALSE
  BY <1>a, <1>b, <1>3 DEF CheckApp, SpendCode, CheckAnswer, At
<1>4. ASSUME NEW cookie \in pending, NEW a \in Signed, PresentAnswer(r, cookie, a)
      PROVE  FALSE
  BY <1>c, <1>4 DEF PresentAnswer, Idle
<1>5. ASSUME Open(r) \/ OpenFails(r) PROVE FALSE
  BY <1>a, <1>5 DEF Open, OpenFails
<1> QED
  BY <1>1, <1>2, <1>3, <1>4, <1>5 DEF ServeSignIn, SignInMoves

LEMMA PasswordSteps ==
  ASSUME ReqTypeOK, NEW r \in Requests, ServePassword(r)
  PROVE  req'[r].kind # "signin"
<1>r. req[r] \in Request
  BY DEF ReqTypeOK
<1>a. ASSUME Answer(r) PROVE req'[r].kind = "none"
  BY <1>a DEF Answer, Step, ReqTypeOK, Idle
<1>b. ASSUME NEW stage, Goto(r, stage) PROVE req'[r].kind = req[r].kind
  BY <1>r, <1>b DEF Goto, ReqTypeOK, Request
<1>c. ASSUME NEW o, Step(r, o) PROVE req'[r] = o
  BY <1>c DEF Step, ReqTypeOK
<1>1. ASSUME NEW u \in Users, ResetPassword(r, u) PROVE req'[r].kind # "signin"
  BY <1>c, <1>1 DEF ResetPassword, Idle
<1>2. ASSUME NEW i \in live, ChangeOwnPassword(r, i) PROVE req'[r].kind # "signin"
  BY <1>c, <1>2 DEF ChangeOwnPassword, Idle
<1>3. ASSUME SetUserCredentials(r) PROVE req'[r].kind # "signin"
  BY <1>r, <1>c, <1>3 DEF SetUserCredentials, Request
<1>4. ASSUME DeleteUserSessions(r) \/ CloseFails(r) PROVE req'[r].kind # "signin"
  BY <1>a, <1>b, <1>4 DEF DeleteUserSessions, CloseFails, Closed
<1> QED
  BY <1>1, <1>2, <1>3, <1>4 DEF ServePassword

LEMMA FactorSteps ==
  ASSUME ReqTypeOK, NEW r \in Requests, ServeFactors(r)
  PROVE  req'[r].kind # "signin"
<1>r. req[r] \in Request
  BY DEF ReqTypeOK
<1>a. ASSUME Answer(r) PROVE req'[r].kind = "none"
  BY <1>a DEF Answer, Step, ReqTypeOK, Idle
<1>b. ASSUME NEW stage, Goto(r, stage) PROVE req'[r].kind = req[r].kind
  BY <1>r, <1>b DEF Goto, ReqTypeOK, Request
<1>c. ASSUME NEW o, Step(r, o) PROVE req'[r] = o
  BY <1>c DEF Step, ReqTypeOK
<1>1. ASSUME NEW i \in live, NEW s \in Secrets, EnableTwoFactor(r, i, s)
      PROVE  req'[r].kind # "signin"
  BY <1>c, <1>1 DEF EnableTwoFactor, Idle
<1>2. ASSUME NEW i \in live, DisableTwoFactor(r, i) PROVE req'[r].kind # "signin"
  BY <1>c, <1>2 DEF DisableTwoFactor, Idle
<1>3. ASSUME NEW i \in live, NEW k \in Keys, RegisterKey(r, i, k)
      PROVE  req'[r].kind # "signin"
  BY <1>c, <1>3 DEF RegisterKey, Idle
<1>4. ASSUME NEW i \in live, NEW k \in Keys, RemoveSecurityKey(r, i, k)
      PROVE  req'[r].kind # "signin"
  BY <1>c, <1>4 DEF RemoveSecurityKey, Idle
<1>5. ASSUME StoreSecret(r) \/ CountSecurityKeys(r) \/ ClearTOTP(r)
      PROVE  req'[r].kind # "signin"
  BY <1>a, <1>b, <1>5 DEF StoreSecret, CountSecurityKeys, ClearTOTP, At
<1>6. ASSUME AddSecurityKey(r) \/ CountUnusedRecoveryCodes(r) \/ StashCodes(r)
      PROVE  req'[r].kind # "signin"
  BY <1>a, <1>b, <1>6 DEF AddSecurityKey, CountUnusedRecoveryCodes, StashCodes, At
<1>7. ASSUME KeepSecret(r) \/ MintCodes(r) PROVE req'[r].kind # "signin"
  BY <1>r, <1>c, <1>7 DEF KeepSecret, MintCodes, At, Request
<1>8. ASSUME ListKeys(r) \/ OtherFactor(r) \/ DeleteSecurityKey(r)
      PROVE  req'[r].kind # "signin"
  BY <1>a, <1>b, <1>8 DEF ListKeys, OtherFactor, DeleteSecurityKey, At
<1> QED
  BY <1>1, <1>2, <1>3, <1>4, <1>5, <1>6, <1>7, <1>8 DEF ServeFactors

LEMMA NextSignInMoves ==
  ASSUME ReqTypeOK, Next, NEW r \in Requests, req'[r].kind = "signin"
  PROVE  SignInMoves(r)
<1>1. ASSUME NEW q \in Requests, ServeSignIn(q) PROVE SignInMoves(r)
  BY <1>1, SignInSteps, SignInLeavesOthers DEF SignInMoves
<1>2. ASSUME NEW q \in Requests, ServeFactors(q) PROVE SignInMoves(r)
  BY <1>2, FactorSteps, FactorsLeaveOthers DEF SignInMoves
<1>3. ASSUME NEW q \in Requests, ServePassword(q) PROVE SignInMoves(r)
  BY <1>3, PasswordSteps, PasswordLeavesOthers DEF SignInMoves
<1>4. ASSUME Browser PROVE SignInMoves(r)
  BY <1>4, BrowserLeavesAll DEF SignInMoves
<1>5. ASSUME Restart PROVE FALSE
  BY <1>5 DEF Restart, Idle
<1>6. ASSUME NEW q \in Requests, Fails(q) PROVE SignInMoves(r)
  <2>1. req'[q].kind = "none"
    BY <1>6 DEF Fails, Answer, Step, ReqTypeOK, Idle
  <2> QED
    BY <1>6, <2>1, FailureLeavesOthers DEF SignInMoves
<1>7. ASSUME NEW q \in Requests, ServePolicy(q) PROVE SignInMoves(r)
  BY <1>7, PolicyFacts DEF SignInMoves
<1> QED
  BY <1>1, <1>2, <1>3, <1>4, <1>5, <1>6, <1>7 DEF Next

LEMMA NextStood ==
  ASSUME TypeOK, \A r \in Requests : StoodOK(r), Next, NEW r \in Requests
  PROVE  StoodOK(r)'
<1>t. RowsOK /\ ReqTypeOK /\ WatchOK /\ req[r] \in Request
  BY TypeParts DEF ReqTypeOK
<1> DEFINE now == FactorsIn(totp', owner', req'[r].user)
<1> SUFFICES ASSUME req'[r].kind = "signin"
             PROVE  /\ stood'[r] \subseteq now
                    /\ req'[r].at = "bare" => stood'[r] \subseteq Keys
                    /\ req'[r].at = "open" => stood'[r] = {}
  BY DEF StoodOK, FactorsOf
<1>1. stood'[r] = IF req[r].kind = "signin" THEN stood[r] \cap now ELSE now
  BY <1>t DEF Next, Watch, WatchOK
<1> HIDE DEF now
<1>2. SignInMoves(r)
  BY <1>t, NextSignInMoves
<1>3. CASE req'[r] = req[r]
  BY <1>1, <1>3 DEF StoodOK
<1>4. CASE req[r] = Idle /\ req'[r].at = "app"
  BY <1>1, <1>4 DEF Idle
<1>5. ASSUME ReadApp(r) PROVE stood'[r] \subseteq now /\ req'[r].at # "open"
                              /\ (req'[r].at = "bare" => stood'[r] \subseteq Keys)
  <2>1. req[r].kind = "signin" /\ stood[r] \subseteq FactorsOf(req[r].user)
    BY <1>5 DEF ReadApp, At, StoodOK
  <2>2. req'[r].at = IF totp[req[r].user] = None THEN "bare" ELSE "asked"
    BY <1>t, <1>5 DEF ReadApp, Goto, ReqTypeOK, Request
  <2>3. totp[req[r].user] = None => FactorsOf(req[r].user) \subseteq Keys
    BY DEF FactorsOf, FactorsIn
  <2> QED
    BY <1>1, <2>1, <2>2, <2>3
<1>6. ASSUME ReadKeys(r) PROVE stood'[r] \subseteq now /\ req'[r].at # "bare"
                               /\ (req'[r].at = "open" => stood'[r] = {})
  <2>1. /\ req[r].kind = "signin" /\ req[r].user \in Users
        /\ stood[r] \subseteq FactorsOf(req[r].user)
        /\ req[r].at = "bare" => stood[r] \subseteq Keys
    BY <1>t, <1>6, RequestFacts DEF ReadKeys, StoodOK
  <2>2. ~ Answer(r)
    BY <1>t DEF Answer, Step, ReqTypeOK, Idle
  <2>3. req'[r].at = "open" /\ req[r].at = "bare" /\ KeysOf(req[r].user) = {}
    BY <1>t, <1>6, <2>2 DEF ReadKeys, Goto, ReqTypeOK, Request
  <2>4. FactorsOf(req[r].user) \cap Keys = {}
    BY <1>t, <2>1, <2>3, FactorsAssumption, NoneAssumption
    DEF FactorsOf, FactorsIn, KeysOf, RowsOK
  <2> QED
    BY <1>1, <2>1, <2>3, <2>4
<1>7. ASSUME FactorsUnread(r) PROVE stood'[r] \subseteq now /\ req'[r].at = "unread"
  <2>1. req[r].kind = "signin" /\ req'[r].at = "unread"
    BY <1>t, <1>7 DEF FactorsUnread, Goto, ReqTypeOK, Request
  <2> QED
    BY <1>1, <2>1
<1> QED
  BY <1>2, <1>3, <1>4, <1>5, <1>6, <1>7 DEF SignInMoves

\* A sign-in that reads no second factor and goes on with the password alone
\* had none before it all along, for every number of accounts and keys: the
\* two reads of secondFactors (login.go) can miss a factor that comes or goes
\* between them, and no other.
THEOREM StandingFactorAsked == Spec => []StandingFactorIsAsked
<1> DEFINE Inv == \A r \in Requests : StoodOK(r)
<1>1. Init => Inv
  BY DEF Init, StoodOK, Idle
<1>2. TypeOK /\ Inv /\ [Next]_vars => Inv'
  <2>1. ASSUME Inv, UNCHANGED vars PROVE Inv'
    BY <2>1 DEF StoodOK, FactorsOf, FactorsIn, vars, store, history
  <2>2. ASSUME TypeOK, Inv, Next PROVE Inv'
    BY <2>2, NextStood
  <2> QED
    BY <2>1, <2>2
<1>3. Inv => StandingFactorIsAsked
  BY DEF StoodOK, StandingFactorIsAsked, At
<1> HIDE DEF Inv
<1> QED
  BY <1>1, <1>2, <1>3, Typing, PTL DEF Spec

(***************************************************************************)
(* Changes of factor made one at a time.  What a request has read about    *)
(* the account it changes is still so when it writes.                      *)
(***************************************************************************)
ChangeOK(r) ==
  LET u == req[r].user
      key == req[r].key
  IN  /\ At(r, "enable", "store") => req[r].secret # None
      /\ At(r, "disable", "clear all") => KeysOf(u) = {} /\ ~ required
      /\ At(r, "disable", "clear secret") => KeysOf(u) # {}
      /\ At(r, "dropkey", "delete") /\ required /\ key \in KeysOf(u)
           => totp[u] # None \/ \E k \in KeysOf(u) : k # key
      /\ At(r, "addkey", "mint") => req[r].secret = totp[u]

Orderly(u) ==
  /\ \A r1, r2 \in Changing(req, u) : r1 = r2
  /\ \A r \in Changing(req, u) : ChangeOK(r)
  /\ u \notin uncoded /\ FactorsOf(u) # {}
       => codes[u].batch # 0 \/ \E r \in Requests : Minting(r, u)

CodesOK == \A u \in Users : codes[u].batch = 0 => codes[u].unused = {}

\* What an account carries.
Still(u) == /\ totp'[u] = totp[u] /\ KeysOf(u)' = KeysOf(u)
            /\ codes'[u].batch = codes[u].batch

\* The statements that change it.
Writes(r) == StoreSecret(r) \/ ClearTOTP(r) \/ AddSecurityKey(r)
               \/ MintCodes(r) \/ DeleteSecurityKey(r)

LEMMA FactorsFromRows ==
  ASSUME NEW u \in Users
  PROVE  /\ FactorsOf(u) = (IF totp[u] = None THEN {} ELSE {totp[u]}) \cup KeysOf(u)
         /\ FactorsIn(totp', owner', u)
              = (IF totp'[u] = None THEN {} ELSE {totp'[u]}) \cup KeysOf(u)'
BY DEF FactorsOf, FactorsIn, KeysOf

\* Accounts other than the one a statement is about keep what they carry.
LEMMA WritesOneAccount ==
  ASSUME RowsOK, NEW r \in Requests, Writes(r), NEW u \in Users, u # req[r].user
  PROVE  Still(u) /\ codes'[u] = codes[u]
<1>1. CASE StoreSecret(r) \/ ClearTOTP(r) \/ MintCodes(r)
  BY <1>1 DEF StoreSecret, ClearTOTP, MintCodes, SetTOTPSecret, Still, KeysOf, RowsOK
<1>2. CASE AddSecurityKey(r)
  <2>1. \A k \in Keys : owner[k] = u <=> owner'[k] = u
    BY <1>2, OwnersAssumption DEF AddSecurityKey, RowsOK
  <2> QED
    BY <1>2, <2>1 DEF AddSecurityKey, Still, KeysOf
<1>3. CASE DeleteSecurityKey(r)
  <2>1. \A k \in Keys : owner[k] = u <=> owner'[k] = u
    BY <1>3, OwnersAssumption DEF DeleteSecurityKey, RowsOK
  <2> QED
    BY <1>3, <2>1 DEF DeleteSecurityKey, Still, KeysOf
<1> QED
  BY <1>1, <1>2, <1>3 DEF Writes

\* A step that is none of these statements: a recovery code may be spent.
LEMMA OtherStepsWriteNothing ==
  ASSUME RowsOK, NEW u \in Users,
         \/ Browser \/ Restart
         \/ \E r \in Requests : ServeSignIn(r) \/ ServePassword(r) \/ Fails(r)
         \/ \E r \in Requests : ReqTypeOK /\ ServePolicy(r)
         \/ \E r \in Requests : ServeFactors(r) /\ ~ Writes(r)
  PROVE  Still(u) /\ codes'[u].unused \subseteq codes[u].unused
<1>0. ASSUME UNCHANGED <<totp, codes, owner>>
      PROVE  Still(u) /\ codes'[u].unused \subseteq codes[u].unused
  BY <1>0 DEF Still, KeysOf
<1>1. ASSUME NEW r \in Requests, ServeSignIn(r)
      PROVE  Still(u) /\ codes'[u].unused \subseteq codes[u].unused
  <2>1. CASE SpendCode(r)
    <3>1. UNCHANGED <<totp, owner>>
      BY <2>1 DEF SpendCode
    <3> DEFINE v == req[r].user
               rest == [codes[v] EXCEPT !.unused = @ \ {req[r].by.code}]
    <3>2. codes' = codes \/ codes' = [codes EXCEPT ![v] = rest]
      BY <2>1 DEF SpendCode
    <3>3. codes'[u].batch = codes[u].batch /\ codes'[u].unused \subseteq codes[u].unused
      <4>1. codes[u] \in [batch : 0..MaxBatches, unused : SUBSET (1..BatchSize)]
        BY DEF RowsOK
      <4>2. u = v => rest.batch = codes[u].batch /\ rest.unused \subseteq codes[u].unused
        BY <4>1
      <4>3. codes'[u] = codes[u] \/ (u = v /\ codes'[u] = rest)
        BY <3>2 DEF RowsOK
      <4> HIDE DEF rest
      <4> QED
        BY <4>2, <4>3
    <3> QED
      BY <3>1, <3>3 DEF Still, KeysOf
  <2>2. CASE ~ SpendCode(r)
    BY <1>0, <1>1, <2>2 DEF ServeSignIn, SignIn, ReadApp, ReadKeys, FactorsUnread,
       PresentCode, CheckApp, PresentAnswer, CheckAnswer, Open, OpenFails, store
  <2> QED
    BY <2>1, <2>2
<1>2. ASSUME NEW r \in Requests, ServePassword(r) PROVE UNCHANGED <<totp, codes, owner>>
  BY <1>2 DEF ServePassword, ResetPassword, ChangeOwnPassword, SetUserCredentials,
     DeleteUserSessions, CloseFails, store
<1>3. ASSUME NEW r \in Requests, ServeFactors(r), ~ Writes(r)
      PROVE  UNCHANGED <<totp, codes, owner>>
  BY <1>3 DEF ServeFactors, Writes, EnableTwoFactor, DisableTwoFactor, RegisterKey,
     RemoveSecurityKey, CountSecurityKeys, CountUnusedRecoveryCodes, KeepSecret,
     StashCodes, ListKeys, OtherFactor, store
<1>4. ASSUME Browser PROVE UNCHANGED <<totp, codes, owner>>
  BY <1>4 DEF Browser, PoseChallenge, EndSession, TakeStash, store
<1>5. ASSUME Restart PROVE UNCHANGED <<totp, codes, owner>>
  BY <1>5 DEF Restart, store
<1>6. ASSUME NEW r \in Requests, Fails(r) PROVE UNCHANGED <<totp, codes, owner>>
  BY <1>6 DEF Fails, store
<1>7. ASSUME NEW r \in Requests, ReqTypeOK, ServePolicy(r)
      PROVE  UNCHANGED <<totp, codes, owner>>
  BY <1>7, PolicyFacts DEF store
<1> QED
  BY <1>0, <1>1, <1>2, <1>3, <1>4, <1>5, <1>6, <1>7

LEMMA NoWriteNoChange ==
  ASSUME RowsOK, ReqTypeOK, Next, \A r \in Requests : ~ Writes(r), NEW u \in Users
  PROVE  Still(u) /\ codes'[u].unused \subseteq codes[u].unused
BY OtherStepsWriteNothing DEF Next

\* A step that leaves what the account carries, and whose requests have read it
\* right or are where they were.
LEMMA OrderlyStays ==
  ASSUME NEW u \in Users, Orderly(u), Still(u), required' => required,
         uncoded \subseteq uncoded',
         \A r1, r2 \in Changing(req', u) : r1 = r2,
         \A r \in Changing(req', u) : req'[r] = req[r] \/ ChangeOK(r)',
         \A r \in Requests :
           Minting(r, u) => codes[u].batch # 0 \/ Minting(r, u)' \/ u \in uncoded'
  PROVE  Orderly(u)'
<1>1. FactorsOf(u)' = FactorsOf(u)
  BY FactorsFromRows DEF Still, FactorsOf
<1>2. ASSUME NEW r \in Changing(req', u), req'[r] = req[r] PROVE ChangeOK(r)'
  <2>1. ChangeOK(r) /\ req[r].user = u
    BY <1>2 DEF Changing, Orderly
  <2> QED
    BY <1>2, <2>1 DEF ChangeOK, At, Still
<1>3. \A r1, r2 \in Changing(req, u)' : r1 = r2
  BY DEF Changing
<1>4. \A r \in Changing(req, u)' : ChangeOK(r)'
  BY <1>2 DEF Changing
<1>5. u \notin uncoded' /\ FactorsOf(u)' # {}
        => codes'[u].batch # 0 \/ \E r \in Requests : Minting(r, u)'
  BY <1>1 DEF Orderly, Still
<1> QED
  BY <1>3, <1>4, <1>5 DEF Orderly

\* Requests that change no factor do not come near those that do.
LEMMA OthersChangeNothing ==
  ASSUME ReqTypeOK, NEW q \in Requests, ServeSignIn(q) \/ ServePassword(q)
  PROVE  req[q].kind \notin Changes /\ req'[q].kind \notin Changes
<1>r. req[q] \in Request /\ RequestOK(req[q])
  BY DEF ReqTypeOK
<1>a. ASSUME Answer(q) PROVE req'[q].kind = "none"
  BY <1>a DEF Answer, Step, ReqTypeOK, Idle
<1>b. ASSUME NEW stage, Goto(q, stage) PROVE req'[q].kind = req[q].kind
  BY <1>r, <1>b DEF Goto, ReqTypeOK, Request
<1>c. ASSUME NEW o, Step(q, o) PROVE req'[q] = o
  BY <1>c DEF Step, ReqTypeOK
<1>d. req[q] = Idle => req[q].kind = "none"
  BY DEF Idle
<1>e. {"none", "signin", "code", "key", "reset", "own"} \cap Changes = {}
  BY DEF Changes
<1>1. ASSUME NEW u \in Users, SignIn(q, u)
      PROVE  req[q].kind \notin Changes /\ req'[q].kind \notin Changes
  <2>1. req[q].kind = "none"
    BY <1>d, <1>1 DEF SignIn, Arrives
  <2>2. req'[q].kind = "signin"
    BY <1>c, <1>1 DEF SignIn, Idle
  <2> QED
    BY <1>e, <2>1, <2>2
<1>2. ASSUME NEW cookie \in pending, NEW proof \in Proofs, PresentCode(q, cookie, proof)
      PROVE  req[q].kind \notin Changes /\ req'[q].kind \notin Changes
  <2>1. req[q].kind = "none"
    BY <1>d, <1>2 DEF PresentCode, Arrives
  <2>2. req'[q].kind = "code"
    BY <1>c, <1>2 DEF PresentCode, Idle
  <2> QED
    BY <1>e, <2>1, <2>2
<1>3. ASSUME NEW cookie \in pending, NEW a \in Signed, PresentAnswer(q, cookie, a)
      PROVE  req[q].kind \notin Changes /\ req'[q].kind \notin Changes
  <2>1. req[q].kind = "none"
    BY <1>d, <1>3 DEF PresentAnswer, Arrives
  <2>2. req'[q].kind = "key"
    BY <1>c, <1>3 DEF PresentAnswer, Idle
  <2> QED
    BY <1>e, <2>1, <2>2
<1>4. ASSUME ReadApp(q) \/ ReadKeys(q) \/ FactorsUnread(q)
             \/ CheckApp(q) \/ SpendCode(q) \/ CheckAnswer(q)
      PROVE  req[q].kind \notin Changes /\ req'[q].kind \notin Changes
  BY <1>a, <1>b, <1>4 DEF ReadApp, ReadKeys, FactorsUnread, CheckApp, SpendCode,
     CheckAnswer, At, Changes
<1>5. ASSUME Open(q) \/ OpenFails(q)
      PROVE  req[q].kind \notin Changes /\ req'[q].kind \notin Changes
  <2>1. req[q].kind \notin Changes
    BY <1>r, <1>5 DEF Open, OpenFails, Opening, RequestOK, Stages, Changes
  <2> QED
    BY <1>a, <1>5, <2>1 DEF Open, OpenFails, Changes
<1>6. ASSUME NEW u \in Users, ResetPassword(q, u)
      PROVE  req[q].kind \notin Changes /\ req'[q].kind \notin Changes
  <2>1. req[q].kind = "none"
    BY <1>d, <1>6 DEF ResetPassword, Arrives
  <2>2. req'[q].kind = "reset"
    BY <1>c, <1>6 DEF ResetPassword, Idle
  <2> QED
    BY <1>e, <2>1, <2>2
<1>7. ASSUME NEW i \in live, ChangeOwnPassword(q, i)
      PROVE  req[q].kind \notin Changes /\ req'[q].kind \notin Changes
  <2>1. req[q].kind = "none"
    BY <1>d, <1>7 DEF ChangeOwnPassword, Arrives
  <2>2. req'[q].kind = "own"
    BY <1>c, <1>7 DEF ChangeOwnPassword, Idle
  <2> QED
    BY <1>e, <2>1, <2>2
<1>8. ASSUME SetUserCredentials(q)
      PROVE  req[q].kind \notin Changes /\ req'[q].kind \notin Changes
  BY <1>r, <1>c, <1>8 DEF SetUserCredentials, Request, Changes
<1>9. ASSUME DeleteUserSessions(q) \/ CloseFails(q)
      PROVE  req[q].kind \notin Changes /\ req'[q].kind \notin Changes
  BY <1>a, <1>b, <1>9 DEF DeleteUserSessions, CloseFails, Closed, Changes
<1> QED
  BY <1>1, <1>2, <1>3, <1>4, <1>5, <1>6, <1>7, <1>8, <1>9 DEF ServeSignIn, ServePassword

\* A read of a change of factor: it moves on having read right, or ends.
LEMMA ReadsRight ==
  ASSUME TypeNow, CodesOK, NEW r \in Requests, ServeFactors(r), ~ Writes(r)
  PROVE  /\ req'[r].kind \in Changes => ChangeOK(r)'
         /\ \A u \in Users : Minting(r, u) => codes[u].batch # 0 \/ Minting(r, u)'
<1>r. req[r] \in Request /\ RequestOK(req[r]) /\ RowsOK /\ ReqTypeOK
        /\ (req[r].kind # "none" => req[r].user \in Users)
  BY RequestFacts DEF TypeNow, ReqTypeOK
<1>a. ASSUME Answer(r) PROVE req'[r].kind = "none"
  BY <1>a DEF Answer, Step, ReqTypeOK, Idle, TypeNow
<1>b. ASSUME NEW stage, Goto(r, stage)
      PROVE  /\ req'[r].kind = req[r].kind /\ req'[r].at = stage
             /\ req'[r].user = req[r].user /\ req'[r].key = req[r].key
             /\ req'[r].secret = req[r].secret
  BY <1>r, <1>b DEF Goto, ReqTypeOK, Request
<1>c. ASSUME NEW o, Step(r, o) PROVE req'[r] = o
  BY <1>r, <1>c DEF Step, ReqTypeOK
<1>d. req[r] = Idle => req[r].kind = "none"
  BY DEF Idle
<1>e. req[r].kind # "addkey" => \A u \in Users : ~ Minting(r, u)
  BY DEF Minting
<1>f. ASSUME UNCHANGED owner, NEW u PROVE KeysOf(u)' = KeysOf(u)
  BY <1>f DEF KeysOf
<1> DEFINE Right == /\ req'[r].kind \in Changes => ChangeOK(r)'
                    /\ \A u \in Users : Minting(r, u) => codes[u].batch # 0 \/ Minting(r, u)'
<1>1. ASSUME NEW i \in live, NEW s \in Secrets, EnableTwoFactor(r, i, s) PROVE Right
  <2>1. req[r].kind = "none"
    BY <1>d, <1>1 DEF EnableTwoFactor, Arrives
  <2>2. req'[r].kind = "enable" /\ req'[r].at = "store" /\ req'[r].secret = s
    BY <1>c, <1>1 DEF EnableTwoFactor, Idle
  <2> QED
    BY <2>1, <2>2, NoneAssumption DEF ChangeOK, Minting, At
<1>2. ASSUME NEW i \in live, DisableTwoFactor(r, i) PROVE Right
  <2>1. req[r].kind = "none"
    BY <1>d, <1>2 DEF DisableTwoFactor, Arrives
  <2>2. req'[r].kind = "disable" /\ req'[r].at = "count"
    BY <1>c, <1>2 DEF DisableTwoFactor, Idle
  <2> QED
    BY <2>1, <2>2 DEF ChangeOK, Minting, At
<1>3. ASSUME NEW i \in live, NEW k \in Keys, RegisterKey(r, i, k) PROVE Right
  <2>1. req[r].kind = "none"
    BY <1>d, <1>3 DEF RegisterKey, Arrives
  <2>2. req'[r].kind = "addkey" /\ req'[r].at = "add"
    BY <1>c, <1>3 DEF RegisterKey, Idle
  <2> QED
    BY <2>1, <2>2 DEF ChangeOK, Minting, At
<1>4. ASSUME NEW i \in live, NEW k \in Keys, RemoveSecurityKey(r, i, k) PROVE Right
  <2>1. req[r].kind = "none"
    BY <1>d, <1>4 DEF RemoveSecurityKey, Arrives
  <2>2. req'[r].kind = "dropkey" /\ req'[r].at = "list"
    BY <1>c, <1>4 DEF RemoveSecurityKey, Idle
  <2> QED
    BY <2>1, <2>2 DEF ChangeOK, Minting, At
<1>5. ASSUME CountSecurityKeys(r) PROVE Right
  <2>1. req[r].kind = "disable" /\ UNCHANGED <<owner, required>>
    BY <1>5 DEF CountSecurityKeys, At, store, memory
  <2>2. CASE Answer(r)
    BY <1>a, <2>1, <2>2 DEF Changes, Minting
  <2>3. ASSUME KeysOf(req[r].user) = {}, ~ required, Goto(r, "clear all") PROVE Right
    <3>1. req'[r].kind = "disable" /\ req'[r].at = "clear all" /\ req'[r].user = req[r].user
      BY <1>b, <2>1, <2>3
    <3>2. ChangeOK(r)'
      BY <1>f, <2>1, <2>3, <3>1 DEF ChangeOK, At
    <3> QED
      BY <1>e, <2>1, <3>2
  <2>4. ASSUME KeysOf(req[r].user) # {}, Goto(r, "clear secret") PROVE Right
    <3>1. req'[r].kind = "disable" /\ req'[r].at = "clear secret" /\ req'[r].user = req[r].user
      BY <1>b, <2>1, <2>4
    <3>2. ChangeOK(r)'
      BY <1>f, <2>1, <2>4, <3>1 DEF ChangeOK, At
    <3> QED
      BY <1>e, <2>1, <3>2
  <2> QED
    BY <1>5, <2>2, <2>3, <2>4 DEF CountSecurityKeys
<1>6. ASSUME CountUnusedRecoveryCodes(r) PROVE Right
  <2>1. req[r].kind = "addkey" /\ req[r].user \in Users
    BY <1>r, <1>6 DEF CountUnusedRecoveryCodes, At
  <2>2. CASE Answer(r) /\ codes[req[r].user].unused # {}
    BY <1>a, <2>1, <2>2 DEF Changes, Minting, CodesOK
  <2>3. CASE Goto(r, "secret")
    BY <1>b, <2>1, <2>3 DEF ChangeOK, At, Minting
  <2> QED
    BY <1>6, <2>2, <2>3 DEF CountUnusedRecoveryCodes
<1>7. ASSUME KeepSecret(r) PROVE Right
  <2>1. req[r].kind = "addkey" /\ UNCHANGED totp
    BY <1>7 DEF KeepSecret, At, store
  <2>2. /\ req'[r].kind = "addkey" /\ req'[r].at = "mint" /\ req'[r].user = req[r].user
        /\ req'[r].secret = totp[req[r].user]
    BY <1>r, <1>c, <1>7, <2>1 DEF KeepSecret, Request
  <2> QED
    BY <2>1, <2>2 DEF ChangeOK, At, Minting
<1>8. ASSUME StashCodes(r) PROVE Right
  BY <1>a, <1>8 DEF StashCodes, At, Changes, Minting
<1>9. ASSUME ListKeys(r) PROVE Right
  <2>1. req[r].kind = "dropkey" /\ UNCHANGED <<totp, owner, required>>
    BY <1>9 DEF ListKeys, At, store, memory
  <2>2. ASSUME Goto(r, "app") PROVE Right
    <3>1. req'[r].kind = "dropkey" /\ req'[r].at = "app"
      BY <1>b, <2>1, <2>2
    <3>2. ChangeOK(r)'
      BY <3>1 DEF ChangeOK, At
    <3> QED
      BY <1>e, <2>1, <3>2
  <2>3. ASSUME Goto(r, "delete"), ~ (required /\ Cardinality(KeysOf(req[r].user)) = 1)
        PROVE  Right
    <3>1. ASSUME required, NEW k, KeysOf(req[r].user) = {k} PROVE FALSE
      <4>1. Cardinality({k}) = 1
        BY FS_Singleton
      <4>2. Cardinality(KeysOf(req[r].user)) = 1
        BY <3>1, <4>1
      <4> QED
        BY <2>3, <3>1, <4>2
    <3>2. /\ req'[r].kind = "dropkey" /\ req'[r].at = "delete"
          /\ req'[r].user = req[r].user /\ req'[r].key = req[r].key
      BY <1>b, <2>1, <2>3
    <3>3. \A k \in Keys : owner'[k] = req'[r].user <=> owner[k] = req[r].user
      BY <2>1, <3>2
    <3>4. ASSUME required, req[r].key \in KeysOf(req[r].user)
          PROVE  \E k \in KeysOf(req[r].user) : k # req[r].key
      <4>1. KeysOf(req[r].user) # {req[r].key}
        BY <3>1, <3>4
      <4> QED
        BY <3>4, <4>1
    <3>5. ChangeOK(r)'
      BY <2>1, <3>2, <3>3, <3>4 DEF ChangeOK, At, KeysOf
    <3> QED
      BY <1>e, <2>1, <3>5
  <2> QED
    BY <1>9, <2>2, <2>3 DEF ListKeys
<1>10. ASSUME OtherFactor(r) PROVE Right
  <2>1. req[r].kind = "dropkey" /\ UNCHANGED <<totp, owner, required>>
    BY <1>10 DEF OtherFactor, At, store, memory
  <2>2. CASE Answer(r)
    BY <1>a, <2>1, <2>2 DEF Changes, Minting
  <2>3. ASSUME Goto(r, "delete"), totp[req[r].user] # None PROVE Right
    BY <1>b, <2>1, <2>3 DEF ChangeOK, At, Minting
  <2> QED
    BY <1>10, <2>2, <2>3 DEF OtherFactor
<1> QED
  BY <1>1, <1>2, <1>3, <1>4, <1>5, <1>6, <1>7, <1>8, <1>9, <1>10 DEF ServeFactors, Writes

\* A write, by the only change under way, of what it has read right.
LEMMA WritesRight ==
  ASSUME TypeNow, NEW r \in Requests, Writes(r), NEW u \in Users, u = req[r].user,
         Orderly(u), \A r1, r2 \in Changing(req', u) : r1 = r2,
         \A q \in Requests : q # r => req'[q] = req[q], UNCHANGED uncoded
  PROVE  Orderly(u)'
<1>r. req[r] \in Request /\ RowsOK /\ ReqTypeOK
  BY DEF TypeNow, ReqTypeOK
<1>a. ASSUME Answer(r) PROVE req'[r].kind = "none"
  BY <1>a DEF Answer, Step, ReqTypeOK, Idle, TypeNow
<1>k. r \in Changing(req, u)
  BY DEF Writes, StoreSecret, ClearTOTP, AddSecurityKey, MintCodes, DeleteSecurityKey,
     At, Changing, Changes
<1>b. \A q \in Changing(req', u) : q = r
  BY <1>k DEF Orderly, Changing
<1>c. req[r].kind # "addkey" \/ req[r].at = "add" => \A q \in Requests : ~ Minting(q, u)
  BY <1>k DEF Orderly, Changing, Minting, Changes
<1>d. ChangeOK(r)
  BY <1>k DEF Orderly
<1>e. ASSUME Answer(r), u \notin uncoded /\ FactorsOf(u)' # {} => codes'[u].batch # 0
      PROVE  Orderly(u)'
  <2>1. Changing(req', u) = {}
    BY <1>a, <1>b, <1>e DEF Changing, Changes
  <2>2. Changing(req, u)' = {}
    BY <2>1 DEF Changing
  <2> QED
    BY <1>e, <2>2 DEF Orderly
<1>1. ASSUME StoreSecret(r) PROVE Orderly(u)'
  <2>1. codes'[u].batch = minted + 1 /\ minted \in Nat
    BY <1>r, <1>1 DEF StoreSecret, SetTOTPSecret, Batch, RowsOK
  <2> QED
    BY <1>1, <1>e, <2>1 DEF StoreSecret
<1>2. ASSUME ClearTOTP(r) PROVE Orderly(u)'
  <2>1. totp'[u] = None /\ KeysOf(u)' = KeysOf(u)
    BY <1>r, <1>2 DEF ClearTOTP, SetTOTPSecret, KeysOf, RowsOK
  <2>2. FactorsOf(u)' = KeysOf(u)
    BY <2>1, FactorsFromRows DEF FactorsOf
  <2>3. CASE req[r].at = "clear all"
    <3>1. KeysOf(u) = {}
      BY <1>2, <1>d, <2>3 DEF ChangeOK, At, ClearTOTP
    <3> QED
      BY <1>2, <1>e, <2>2, <3>1 DEF ClearTOTP
  <2>4. CASE req[r].at = "clear secret"
    <3>1. KeysOf(u) # {} /\ codes'[u] = codes[u]
      BY <1>r, <1>2, <1>d, <2>4 DEF ChangeOK, At, ClearTOTP, SetTOTPSecret, RowsOK
    <3>2. u \notin uncoded => codes[u].batch # 0
      BY <1>2, <1>c, <3>1, FactorsFromRows DEF ClearTOTP, Orderly
    <3> QED
      BY <1>2, <1>e, <3>1, <3>2 DEF ClearTOTP
  <2> QED
    BY <1>2, <2>3, <2>4 DEF ClearTOTP
<1>3. ASSUME AddSecurityKey(r) PROVE Orderly(u)'
  <2>1. req[r].kind = "addkey" /\ req[r].at = "add" /\ codes' = codes /\ totp' = totp
    BY <1>3 DEF AddSecurityKey, At
  <2>2. CASE Goto(r, "left")
    <3>1. req'[r].kind = "addkey" /\ req'[r].user = u /\ req'[r].at = "left"
      BY <1>r, <2>1, <2>2 DEF Goto, ReqTypeOK, Request
    <3>2. Minting(r, u)' /\ ChangeOK(r)'
      BY <3>1 DEF Minting, ChangeOK, At
    <3>3. \A q \in Changing(req, u)' : q = r
      BY <1>b DEF Changing
    <3> QED
      BY <3>2, <3>3 DEF Orderly
  <2>3. CASE Answer(r) /\ UNCHANGED owner
    <3>1. FactorsOf(u)' = FactorsOf(u)
      BY <2>1, <2>3 DEF FactorsOf, FactorsIn
    <3>2. u \notin uncoded /\ FactorsOf(u) # {} => codes[u].batch # 0
      BY <1>c, <2>1 DEF Orderly
    <3> QED
      BY <1>e, <2>1, <2>3, <3>1, <3>2
  <2> QED
    BY <1>3, <2>2, <2>3 DEF AddSecurityKey
<1>4. ASSUME MintCodes(r) PROVE Orderly(u)'
  <2>1. codes'[u].batch = minted + 1 /\ minted \in Nat
    BY <1>r, <1>4 DEF MintCodes, SetTOTPSecret, Batch, RowsOK
  <2>2. req'[r].kind = "addkey" /\ req'[r].at = "stash"
    BY <1>r, <1>4 DEF MintCodes, At, Step, ReqTypeOK, Request
  <2>3. ChangeOK(r)'
    BY <2>2 DEF ChangeOK, At
  <2>4. \A q \in Changing(req, u)' : q = r
    BY <1>b DEF Changing
  <2> QED
    BY <2>1, <2>3, <2>4 DEF Orderly
<1>5. ASSUME DeleteSecurityKey(r) PROVE Orderly(u)'
  <2>1. req[r].kind = "dropkey" /\ codes' = codes /\ totp' = totp /\ Answer(r)
    BY <1>5 DEF DeleteSecurityKey, At
  <2>2. KeysOf(u)' \subseteq KeysOf(u)
    BY <1>r, <1>5, OwnersAssumption DEF DeleteSecurityKey, KeysOf, RowsOK
  <2>3. FactorsOf(u)' \subseteq FactorsOf(u)
    BY <2>1, <2>2, FactorsFromRows DEF FactorsOf
  <2>4. u \notin uncoded /\ FactorsOf(u) # {} => codes[u].batch # 0
    BY <1>c, <2>1 DEF Orderly
  <2> QED
    BY <1>e, <2>1, <2>3, <2>4
<1> QED
  BY <1>1, <1>2, <1>3, <1>4, <1>5 DEF Writes

LEMMA RequiredStays ==
  ASSUME \/ Browser
         \/ \E r \in Requests : \/ ServeSignIn(r) \/ ServePassword(r)
                                \/ ServeFactors(r) \/ Fails(r)
  PROVE  UNCHANGED required
<1>1. ASSUME NEW r \in Requests, ServeSignIn(r) PROVE UNCHANGED required
  BY <1>1 DEF ServeSignIn, SignIn, ReadApp, ReadKeys, FactorsUnread, PresentCode,
     CheckApp, SpendCode, PresentAnswer, CheckAnswer, Open, OpenFails, memory
<1>2. ASSUME NEW r \in Requests, ServePassword(r) PROVE UNCHANGED required
  BY <1>2 DEF ServePassword, ResetPassword, ChangeOwnPassword, SetUserCredentials,
     DeleteUserSessions, CloseFails, memory
<1>3. ASSUME NEW r \in Requests, ServeFactors(r) PROVE UNCHANGED required
  BY <1>3 DEF ServeFactors, EnableTwoFactor, DisableTwoFactor, RegisterKey,
     RemoveSecurityKey, StoreSecret, CountSecurityKeys, ClearTOTP, AddSecurityKey,
     CountUnusedRecoveryCodes, KeepSecret, MintCodes, StashCodes, ListKeys, OtherFactor,
     DeleteSecurityKey, memory
<1>4. ASSUME Browser PROVE UNCHANGED required
  BY <1>4 DEF Browser, PoseChallenge, EndSession, TakeStash, memory
<1>5. ASSUME NEW r \in Requests, Fails(r) PROVE UNCHANGED required
  BY <1>5 DEF Fails, memory
<1> QED
  BY <1>1, <1>2, <1>3, <1>4, <1>5

LEMMA WriterMoves ==
  ASSUME ReqTypeOK, NEW r \in Requests, Writes(r)
  PROVE  /\ ServeFactors(r) /\ req[r].kind \in Changes
         /\ req'[r].kind \in Changes => req'[r].user = req[r].user
<1>r. req[r] \in Request
  BY DEF ReqTypeOK
<1>1. ServeFactors(r)
  BY DEF Writes, ServeFactors
<1>2. req[r].kind \in Changes
  BY DEF Writes, StoreSecret, ClearTOTP, AddSecurityKey, MintCodes, DeleteSecurityKey,
     At, Changes
<1>3. Answer(r) => req'[r].kind = "none"
  BY DEF Answer, Step, ReqTypeOK, Idle
<1>4. Answer(r) \/ req'[r].user = req[r].user
  BY <1>r DEF Writes, StoreSecret, ClearTOTP, AddSecurityKey, MintCodes,
     DeleteSecurityKey, Goto, Step, ReqTypeOK, Request
<1> QED
  BY <1>1, <1>2, <1>3, <1>4 DEF Changes

LEMMA NextOrderly ==
  ASSUME TypeOK, CodesOK, \A u \in orderly : Orderly(u), Next, NEW u \in orderly'
  PROVE  Orderly(u)'
<1>t. TypeNow /\ RowsOK /\ ReqTypeOK /\ WatchOK
  BY TypeParts DEF TypeNow
<1>w. /\ u \in Users /\ Orderly(u)
      /\ \A r1, r2 \in Changing(req', u) : r1 = r2
      /\ restarts' # restarts \/ (required' /\ ~ required) => Changing(req, u) = {}
  BY <1>t DEF Next, Watch, WatchOK
<1>1. ASSUME NEW r \in Requests, Writes(r), UNCHANGED uncoded PROVE Orderly(u)'
  <2>1. /\ ServeFactors(r) /\ (req'[r].kind \in Changes => req'[r].user = req[r].user)
        /\ \A q \in Requests : q # r => req'[q] = req[q]
    BY <1>t, <1>1, WriterMoves, FactorsLeaveOthers
  <2>2. CASE u = req[r].user
    BY <1>t, <1>w, <1>1, <2>1, <2>2, WritesRight
  <2>3. CASE u # req[r].user
    <3>1. Still(u)
      BY <1>t, <1>w, <1>1, <2>3, WritesOneAccount
    <3>2. UNCHANGED required
      BY <1>1 DEF Writes, StoreSecret, ClearTOTP, AddSecurityKey, MintCodes,
         DeleteSecurityKey, memory
    <3>3. \A q \in Changing(req', u) : req'[q] = req[q]
      BY <2>1, <2>3 DEF Changing
    <3>4. \A q \in Requests : Minting(q, u) => Minting(q, u)'
      BY <2>1, <2>3 DEF Minting
    <3> QED
      BY <1>w, <1>1, <3>1, <3>2, <3>3, <3>4, OrderlyStays
  <2> QED
    BY <2>2, <2>3
<1>2. ASSUME NEW q \in Requests, ServeSignIn(q) \/ ServePassword(q),
             UNCHANGED <<restarts, uncoded>>,
             \A r \in Requests : r # q => req'[r] = req[r]
      PROVE  Orderly(u)'
  <2>0. Still(u)
    BY <1>t, <1>w, <1>2, OtherStepsWriteNothing
  <2>1. req[q].kind \notin Changes /\ req'[q].kind \notin Changes
    BY <1>t, <1>2, OthersChangeNothing
  <2>2. UNCHANGED required
    BY <1>2, RequiredStays
  <2>3. \A r \in Changing(req', u) : req'[r] = req[r]
    BY <1>2, <2>1 DEF Changing
  <2>4. \A r \in Requests : Minting(r, u) => Minting(r, u)'
    BY <1>2, <2>1 DEF Minting, Changes
  <2> QED
    BY <1>w, <1>2, <2>0, <2>2, <2>3, <2>4, OrderlyStays
<1>3. ASSUME NEW q \in Requests, ServeFactors(q), ~ Writes(q), UNCHANGED <<restarts, uncoded>>
      PROVE  Orderly(u)'
  <2>0. Still(u)
    BY <1>t, <1>w, <1>3, OtherStepsWriteNothing
  <2>1. \A r \in Requests : r # q => req'[r] = req[r]
    BY <1>t, <1>3, FactorsLeaveOthers
  <2>2. /\ req'[q].kind \in Changes => ChangeOK(q)'
        /\ Minting(q, u) => codes[u].batch # 0 \/ Minting(q, u)'
    BY <1>t, <1>w, <1>3, ReadsRight
  <2>3. UNCHANGED required
    BY <1>3, RequiredStays
  <2>4. \A r \in Changing(req', u) : req'[r] = req[r] \/ ChangeOK(r)'
    BY <2>1, <2>2 DEF Changing
  <2>5. \A r \in Requests : Minting(r, u) => codes[u].batch # 0 \/ Minting(r, u)'
    <3>1. ASSUME NEW r \in Requests, r # q, Minting(r, u) PROVE Minting(r, u)'
      BY <2>1, <3>1 DEF Minting
    <3> QED
      BY <2>2, <3>1
  <2> QED
    BY <1>w, <1>3, <2>0, <2>3, <2>4, <2>5, OrderlyStays
<1>4. ASSUME Browser, UNCHANGED <<restarts, uncoded>> PROVE Orderly(u)'
  <2>0. Still(u)
    BY <1>t, <1>w, <1>4, OtherStepsWriteNothing
  <2>1. req' = req /\ UNCHANGED required
    BY <1>4, BrowserLeavesAll, RequiredStays
  <2>2. \A r \in Requests : Minting(r, u) => Minting(r, u)'
    BY <2>1 DEF Minting
  <2>3. \A r \in Changing(req', u) : req'[r] = req[r]
    BY <2>1
  <2> QED
    BY <1>w, <1>4, <2>0, <2>1, <2>2, <2>3, OrderlyStays
<1>5. ASSUME Restart, UNCHANGED uncoded PROVE Orderly(u)'
  <2>0. Still(u)
    BY <1>t, <1>w, <1>5, OtherStepsWriteNothing
  <2>1. Changing(req, u) = {}
    BY <1>t, <1>w, <1>5 DEF Restart, RowsOK
  <2>2. Changing(req, u)' = {}
    BY <1>5 DEF Restart, Changing, Changes, Idle
  <2>3. \A r \in Requests : ~ Minting(r, u)
    BY <2>1 DEF Changing, Minting, Changes
  <2>4. FactorsOf(u)' = FactorsOf(u)
    BY <1>w, <2>0, FactorsFromRows DEF Still, FactorsOf
  <2> QED
    BY <1>w, <1>5, <2>0, <2>2, <2>3, <2>4 DEF Orderly, Still
<1>6. ASSUME NEW q \in Requests, Fails(q), UNCHANGED restarts PROVE Orderly(u)'
  <2>0. Still(u)
    BY <1>t, <1>w, <1>6, OtherStepsWriteNothing
  <2>1. req'[q].kind = "none" /\ \A r \in Requests : r # q => req'[r] = req[r]
    BY <1>t, <1>6, FailureLeavesOthers DEF Fails, Answer, Step, ReqTypeOK, Idle
  <2>2. UNCHANGED required
    BY <1>6, RequiredStays
  <2>3. uncoded \subseteq uncoded' /\ (Minting(q, u) => u \in uncoded')
    BY <1>w, <1>6 DEF Fails
  <2>4. \A r \in Changing(req', u) : req'[r] = req[r]
    BY <2>1 DEF Changing, Changes
  <2>5. ASSUME NEW r \in Requests, Minting(r, u)
        PROVE  Minting(r, u)' \/ u \in uncoded'
    BY <2>1, <2>3, <2>5 DEF Minting
  <2> QED
    BY <1>w, <1>6, <2>0, <2>2, <2>3, <2>4, <2>5, OrderlyStays
<1>7. ASSUME NEW q \in Requests, ServePolicy(q), UNCHANGED <<restarts, uncoded>>
      PROVE  Orderly(u)'
  <2>0. Still(u)
    BY <1>t, <1>w, <1>7, OtherStepsWriteNothing
  <2>1. /\ \A r \in Requests : r # q => req'[r] = req[r]
        /\ req[q].kind \notin Changes /\ req'[q].kind \notin Changes
    BY <1>t, <1>7, PolicyFacts DEF Changes
  <2>2. \A r \in Changing(req', u) : r \in Changing(req, u) /\ req'[r] = req[r]
    BY <2>1 DEF Changing
  <2>3. \A r \in Requests : Minting(r, u) => Minting(r, u)'
    BY <2>1 DEF Minting, Changes
  <2>4. CASE required' => required
    BY <1>w, <1>7, <2>0, <2>2, <2>3, <2>4, OrderlyStays
  <2>5. CASE required' /\ ~ required
    <3>1. Changing(req, u) = {} /\ Changing(req, u)' = {}
      BY <1>w, <2>2, <2>5 DEF Changing
    <3>2. FactorsOf(u)' = FactorsOf(u)
      BY <1>w, <2>0, FactorsFromRows DEF Still, FactorsOf
    <3> QED
      BY <1>w, <1>7, <2>0, <2>3, <3>1, <3>2 DEF Orderly, Still
  <2> QED
    BY <2>4, <2>5
<1> QED
  BY <1>t, <1>1, <1>2, <1>3, <1>4, <1>5, <1>6, <1>7, SignInLeavesOthers,
     PasswordLeavesOthers DEF Next

LEMMA NextCodes ==
  ASSUME TypeOK, CodesOK, Next
  PROVE  CodesOK'
<1>t. RowsOK /\ ReqTypeOK
  BY TypeParts
<1>1. ASSUME NEW r \in Requests, Writes(r) PROVE CodesOK'
  <2>1. ASSUME NEW v \in Users, NEW b,
               b.batch = 0 => b.unused = {}, codes' = [codes EXCEPT ![v] = b]
        PROVE  CodesOK'
    BY <1>t, <2>1 DEF CodesOK, RowsOK
  <2>2. Batch(minted + 1).batch # 0
    BY <1>t DEF Batch, RowsOK
  <2>3. NoBatch.unused = {}
    BY DEF NoBatch
  <2>4. req[r].user \in Users
    BY TypeParts, RequestFacts, <1>1 DEF Writes, StoreSecret, ClearTOTP, AddSecurityKey,
       MintCodes, DeleteSecurityKey, At
  <2>5. CASE StoreSecret(r) \/ MintCodes(r)
    BY <2>1, <2>2, <2>4, <2>5 DEF StoreSecret, MintCodes, SetTOTPSecret
  <2>6. CASE ClearTOTP(r)
    <3>1. codes' = [codes EXCEPT ![req[r].user] = NoBatch]
            \/ codes' = [codes EXCEPT ![req[r].user] = codes[req[r].user]]
      BY <2>6 DEF ClearTOTP, SetTOTPSecret
    <3> QED
      BY <2>1, <2>3, <2>4, <3>1 DEF CodesOK
  <2>7. CASE AddSecurityKey(r) \/ DeleteSecurityKey(r)
    BY <2>7 DEF AddSecurityKey, DeleteSecurityKey, CodesOK
  <2> QED
    BY <1>1, <2>5, <2>6, <2>7 DEF Writes
<1>2. ASSUME \A r \in Requests : ~ Writes(r) PROVE CodesOK'
  <2>1. \A u \in Users : codes'[u].batch = codes[u].batch
                         /\ codes'[u].unused \subseteq codes[u].unused
    BY <1>t, <1>2, NoWriteNoChange DEF Still
  <2> QED
    BY <2>1 DEF CodesOK
<1> QED
  BY <1>1, <1>2

OrderlyInv == CodesOK /\ \A u \in orderly : Orderly(u)

LEMMA InitOrderly == Init => OrderlyInv
<1> SUFFICES ASSUME Init PROVE OrderlyInv
  OBVIOUS
<1> DEFINE spent == [Batch(1) EXCEPT !.unused = {}]
<1>1. \A u \in Users : codes[u] \in {NoBatch, Batch(1), spent}
  BY DEF Init
<1>2. NoBatch.batch = 0 /\ NoBatch.unused = {} /\ Batch(1).batch = 1 /\ spent.batch = 1
  BY DEF NoBatch, Batch
<1> HIDE DEF spent
<1>3. CodesOK
  <2> SUFFICES ASSUME NEW u \in Users, codes[u].batch = 0 PROVE codes[u].unused = {}
    BY DEF CodesOK
  <2>1. codes[u] = NoBatch
    BY <1>1, <1>2
  <2> QED
    BY <1>2, <2>1
<1>0. orderly = Users /\ \A u \in Users : FactorsOf(u) # {} => codes[u] # NoBatch
  BY DEF Init
<1>4. ASSUME NEW u \in orderly PROVE Orderly(u)
  <2>1. u \in Users /\ (FactorsOf(u) # {} => codes[u] # NoBatch)
    BY <1>0, <1>4
  <2>2. Changing(req, u) = {}
    BY DEF Init, Changing, Changes, Idle
  <2>3. codes[u] # NoBatch => codes[u].batch # 0
    BY <1>1, <1>2, <2>1
  <2> QED
    BY <2>1, <2>2, <2>3 DEF Orderly
<1> QED
  BY <1>3, <1>4 DEF OrderlyInv

LEMMA NextOrderlyInv == TypeOK /\ OrderlyInv /\ [Next]_vars => OrderlyInv'
<1>1. ASSUME TypeOK, OrderlyInv, Next PROVE OrderlyInv'
  BY <1>1, NextCodes, NextOrderly DEF OrderlyInv
<1>2. ASSUME TypeOK, OrderlyInv, UNCHANGED vars PROVE OrderlyInv'
  <2>1. UNCHANGED <<required, totp, codes, owner, req, orderly, uncoded>>
    BY <1>2 DEF vars, store, memory, history
  <2>2. CodesOK'
    BY <1>2, <2>1 DEF OrderlyInv, CodesOK
  <2>3. ASSUME NEW u \in orderly PROVE Orderly(u)'
    <3>1. u \in Users /\ Orderly(u)
      BY <1>2 DEF OrderlyInv, TypeOK
    <3>2. Still(u) /\ (\A r \in Requests : Minting(r, u) => Minting(r, u)')
      BY <2>1 DEF Still, KeysOf, Minting
    <3>3. \A r1, r2 \in Changing(req', u) : r1 = r2
      BY <2>1, <3>1 DEF Orderly
    <3> QED
      BY <2>1, <3>1, <3>2, <3>3, OrderlyStays
  <2> QED
    BY <2>1, <2>2, <2>3 DEF OrderlyInv
<1> QED
  BY <1>1, <1>2

LEMMA SpecOrderly == Spec => [](TypeOK /\ OrderlyInv)
<1>1. Init => OrderlyInv
  BY InitOrderly
<1>2. TypeOK /\ OrderlyInv /\ [Next]_vars => OrderlyInv'
  BY NextOrderlyInv
<1> QED
  BY <1>1, <1>2, Typing, PTL DEF Spec

\* An account with a factor and no change under way has been given recovery
\* codes, and keeps them until its last factor goes, for every number of
\* accounts, keys and requests: disableTwoFactor forgets them only when it saw
\* no key, and a key is stored before its codes are counted (securitykey.go).
THEOREM FactorsComeWithCodes == Spec => []FactorComesWithCodes
<1>1. OrderlyInv => FactorComesWithCodes
  <2> SUFFICES ASSUME OrderlyInv, NEW u \in orderly \ uncoded, FactorsOf(u) # {},
                      Changing(req, u) = {}
               PROVE  codes[u].batch # 0
    BY DEF FactorComesWithCodes
  <2>1. \A r \in Requests : ~ Minting(r, u)
    BY DEF Minting, Changing, Changes
  <2> QED
    BY <2>1 DEF OrderlyInv, Orderly
<1> QED
  BY <1>1, SpecOrderly, PTL

\* The last factor of an account stays on a server that insists on one, when
\* its changes are made one at a time: for every number of keys, what
\* disableTwoFactor counted and what removeSecurityKey found is still so when
\* they delete (twofactor.go, securitykey.go).
LEMMA LastFactorKept ==
  ASSUME TypeOK, OrderlyInv, Next, NEW u \in orderly'
  PROVE  KeepsAFactor(u)
<1> SUFFICES ASSUME required, FactorsIn(totp, owner, u) # {}
             PROVE  FactorsIn(totp', owner', u) # {}
  BY DEF KeepsAFactor
<1>1. FactorsIn(totp', owner', u) # {}
  <2>t. RowsOK /\ ReqTypeOK /\ u \in orderly /\ u \in Users
    BY TypeParts DEF Next, Watch, WatchOK
  <2>0. Still(u) => FactorsIn(totp', owner', u) # {}
    BY <2>t, FactorsFromRows DEF Still, FactorsOf
  <2>1. CASE \A r \in Requests : ~ Writes(r)
    BY <2>0, <2>1, <2>t, NoWriteNoChange
  <2>2. ASSUME NEW r \in Requests, Writes(r) PROVE FactorsIn(totp', owner', u) # {}
    <3>1. CASE u # req[r].user
      BY <2>0, <2>2, <2>t, <3>1, WritesOneAccount
    <3>2. ASSUME u = req[r].user PROVE FactorsIn(totp', owner', u) # {}
      <4>1. ChangeOK(r)
        BY <2>2, <2>t, <3>2, WriterMoves DEF OrderlyInv, Orderly, Changing
      <4>2. CASE StoreSecret(r)
        <5>1. totp'[u] # None
          BY <2>t, <3>2, <4>1, <4>2 DEF StoreSecret, SetTOTPSecret, ChangeOK, At, RowsOK
        <5> QED
          BY <5>1 DEF FactorsIn
      <4>3. CASE ClearTOTP(r)
        <5>1. KeysOf(u) # {} /\ owner' = owner
          BY <3>2, <4>1, <4>3 DEF ClearTOTP, ChangeOK, At
        <5> QED
          BY <5>1 DEF FactorsIn, KeysOf
      <4>4. CASE AddSecurityKey(r)
        <5>1. totp' = totp /\ \A k \in Keys : owner[k] = u => owner'[k] = u
          BY <2>t, <3>2, <4>4 DEF AddSecurityKey, RowsOK
        <5> QED
          BY <5>1 DEF FactorsIn
      <4>5. CASE MintCodes(r)
        <5>1. totp'[u] = totp[u] /\ owner' = owner
          BY <2>t, <3>2, <4>1, <4>5 DEF MintCodes, SetTOTPSecret, ChangeOK, At, RowsOK
        <5> QED
          BY <5>1 DEF FactorsIn
      <4>6. CASE DeleteSecurityKey(r)
        <5>1. /\ totp' = totp
              /\ \A k \in Keys : owner[k] = u /\ k # req[r].key => owner'[k] = u
              /\ req[r].key \notin KeysOf(u) =>
                   \A k \in Keys : owner[k] = u => owner'[k] = u
          BY <2>t, <3>2, <4>6 DEF DeleteSecurityKey, KeysOf, RowsOK
        <5>2. req[r].key \in KeysOf(u) => totp[u] # None \/ \E k \in KeysOf(u) : k # req[r].key
          BY <3>2, <4>1, <4>6 DEF DeleteSecurityKey, ChangeOK, At
        <5> QED
          BY <5>1, <5>2 DEF FactorsIn, KeysOf
      <4> QED
        BY <2>2, <4>2, <4>3, <4>4, <4>5, <4>6 DEF Writes
    <3> QED
      BY <3>1, <3>2
  <2> QED
    BY <2>1, <2>2
<1> QED
  BY <1>1

\* Codes minted for a key write back the secret the account has, for every
\* number of requests, when its changes are made one at a time: only
\* enableTwoFactor and disableTwoFactor change it (ensureRecoveryCodes).
LEMMA SecretSurvives ==
  ASSUME TypeOK, OrderlyInv, Next, NEW u \in orderly'
  PROVE  KeepsItsSecret(u)
<1> SUFFICES ASSUME totp'[u] # totp[u]
             PROVE  \E r \in Requests : req[r].kind \in {"enable", "disable"}
                                        /\ req[r].user = u
  BY DEF KeepsItsSecret
<1>1. \E r \in Requests : req[r].kind \in {"enable", "disable"} /\ req[r].user = u
  <2>t. RowsOK /\ ReqTypeOK /\ u \in orderly /\ u \in Users
    BY TypeParts DEF Next, Watch, WatchOK
  <2>1. PICK r \in Requests : Writes(r)
    BY <2>t, NoWriteNoChange DEF Still
  <2>2. u = req[r].user
    BY <2>1, <2>t, WritesOneAccount DEF Still
  <2>3. ChangeOK(r)
    BY <2>1, <2>2, <2>t, WriterMoves DEF OrderlyInv, Orderly, Changing
  <2>4. ~ MintCodes(r)
    BY <2>2, <2>3, <2>t DEF MintCodes, SetTOTPSecret, ChangeOK, At, RowsOK
  <2>5. ~ AddSecurityKey(r) /\ ~ DeleteSecurityKey(r)
    BY DEF AddSecurityKey, DeleteSecurityKey
  <2>6. req[r].kind \in {"enable", "disable"}
    BY <2>1, <2>4, <2>5 DEF Writes, StoreSecret, ClearTOTP, At
  <2> QED
    BY <2>2, <2>6
<1> QED
  BY <1>1

\* Both, in every behaviour, for every number of accounts, keys and requests.
THEOREM FactorsAreKept == Spec => FactorsSurvive
<1>1. TypeOK /\ OrderlyInv /\ [Next]_vars
        => [\A u \in orderly' : KeepsAFactor(u) /\ KeepsItsSecret(u)]_vars
  BY LastFactorKept, SecretSurvives
<1> QED
  BY <1>1, SpecOrderly, PTL DEF Spec, FactorsSurvive

(***************************************************************************)
(* What can be presented once: a recovery code and the question put to a   *)
(* key.  Each is unspent until a request takes it, in the statement or     *)
(* under the lock that marks it spent, and belongs from then on to that    *)
(* request, then to the session it opens; batches and questions yet to     *)
(* come are unspent too, so that what is spent is never unspent again.     *)
(***************************************************************************)
Token == [kind : {"code", "question"}, of : Nat, code : Nat]
CodeToken(batch, code) == [kind |-> "code", of |-> batch, code |-> code]
QuestionToken(question) == [kind |-> "question", of |-> question, code |-> 0]

\* What a session, or a request that opens one, rests on.
TokensOf(by) ==
  IF by.how = "recovery" THEN {CodeToken(by.batch, by.code)}
  ELSE IF by.how = "key" THEN {QuestionToken(by.challenge)}
  ELSE {}

\* What a request in flight has taken.
TakenBy(o) ==
  IF o.kind = "code" /\ o.at = "open" THEN TokensOf(o.by)
  ELSE IF o.kind = "key" THEN {QuestionToken(o.question)}
  ELSE {}

Unspent(u, t) ==
  \/ /\ t.kind = "code"
     /\ t.of > minted \/ (t.of = codes[u].batch /\ t.code \in codes[u].unused)
  \/ /\ t.kind = "question"
     /\ t.of > posed \/ (t.of = challenge[u] /\ t.of # 0)

\* What a request means to open a session with is what it has taken.
ProofOK(o) ==
  /\ o.kind \in {"signin", "own"} => TokensOf(o.by) = {}
  /\ o.kind = "key" => /\ o.by.how = "key"
                       /\ o.at = "open" => o.by.challenge = o.question

SessionsSpent == \A i \in DOMAIN opened : \A t \in TokensOf(opened[i].by) :
                   ~ Unspent(opened[i].user, t)
RequestsSpent == \A r \in Requests : \A t \in TakenBy(req[r]) : ~ Unspent(req[r].user, t)
SessionsApart == \A i, j \in DOMAIN opened :
  i # j /\ opened[i].user = opened[j].user
    => TokensOf(opened[i].by) \cap TokensOf(opened[j].by) = {}
OpenedApart == \A i \in DOMAIN opened, r \in Requests :
  opened[i].user = req[r].user => TokensOf(opened[i].by) \cap TakenBy(req[r]) = {}
RequestsApart == \A q, r \in Requests :
  q # r /\ req[q].user = req[r].user => TakenBy(req[q]) \cap TakenBy(req[r]) = {}

SpentInv ==
  /\ \A u \in Users : codes[u].batch =< minted
  /\ \A r \in Requests : ProofOK(req[r])
  /\ SessionsSpent /\ RequestsSpent
  /\ SessionsApart /\ OpenedApart /\ RequestsApart

LEMMA ByTokens ==
  ASSUME NEW by \in Bys
  PROVE  TokensOf(by) \subseteq Token
<1>1. CASE by \in [how : {"recovery"}, batch : 1..MaxBatches, code : 1..BatchSize]
  BY <1>1, BoundsAssumption DEF TokensOf, Token, CodeToken
<1>2. CASE by \in KeyProofs
  BY <1>2, BoundsAssumption DEF TokensOf, Token, QuestionToken, KeyProofs
<1>3. CASE by.how \notin {"recovery", "key"}
  BY <1>3 DEF TokensOf
<1> QED
  BY <1>1, <1>2, <1>3 DEF Bys, Nothing, Proofs

LEMMA RequestTokens ==
  ASSUME NEW o \in Request
  PROVE  TakenBy(o) \subseteq Token
<1>1. TokensOf(o.by) \subseteq Token
  BY ByTokens DEF Request
<1>2. QuestionToken(o.question) \in Token
  BY BoundsAssumption DEF Request, QuestionToken, Token
<1> QED
  BY <1>1, <1>2 DEF TakenBy

\* A request that has nothing to do with these.
Quiet(o) == /\ o.kind \notin {"code", "key"}
            /\ o.kind \in {"signin", "own"} => TokensOf(o.by) = {}

LEMMA QuietTakesNothing ==
  ASSUME NEW o, Quiet(o)
  PROVE  ProofOK(o) /\ TakenBy(o) = {}
BY DEF Quiet, ProofOK, TakenBy

LEMMA IdleIsQuiet == Quiet(Idle)
BY DEF Quiet, Idle

\* A request that opens a session opens it with what it has taken.
LEMMA OpeningTaken ==
  ASSUME ReqTypeOK, NEW r \in Requests, ProofOK(req[r]), Opening(r)
  PROVE  TokensOf(req[r].by) \subseteq TakenBy(req[r])
<1>1. <<req[r].kind, req[r].at>> \in Stages
  BY DEF ReqTypeOK, RequestOK
<1>2. CASE req[r].kind \in {"signin", "own"}
  BY <1>2 DEF ProofOK
<1>3. CASE req[r].kind = "code" /\ req[r].at = "open"
  BY <1>3 DEF TakenBy
<1>4. CASE req[r].kind = "key" /\ req[r].at = "open"
  <2>1. TokensOf(req[r].by) = {QuestionToken(req[r].question)}
    BY <1>4 DEF ProofOK, TokensOf
  <2> QED
    BY <1>4, <2>1 DEF TakenBy
<1> QED
  BY <1>1, <1>2, <1>3, <1>4 DEF Opening, Stages

\* What was spent stays so: rows lose codes, questions are taken, and what is
\* new was never spent.
LEMMA SpentForGood ==
  ASSUME RowsOK, RowsOK', minted' >= minted, posed' >= posed,
         NEW u \in Users, NEW t \in Token,
         \/ codes'[u].batch = codes[u].batch /\ codes'[u].unused \subseteq codes[u].unused
         \/ codes'[u].batch > minted
         \/ codes'[u].unused = {},
         challenge'[u] \in {challenge[u], 0} \/ challenge'[u] > posed,
         Unspent(u, t)'
  PROVE  Unspent(u, t)
<1>1. t.of \in Nat /\ minted \in Nat /\ minted' \in Nat /\ posed \in Nat /\ posed' \in Nat
  BY DEF Token, RowsOK
<1>2. codes[u].batch \in Nat /\ codes'[u].batch \in Nat
  BY DEF RowsOK
<1>3. CASE t.kind = "code"
  BY <1>1, <1>2, <1>3 DEF Unspent
<1>4. CASE t.kind = "question"
  BY <1>1, <1>4 DEF Unspent, RowsOK
<1> QED
  BY <1>3, <1>4 DEF Token

LEMMA TakersHaveUsers ==
  ASSUME ReqTypeOK, NEW r \in Requests, TakenBy(req[r]) # {}
  PROVE  req[r].user \in Users
BY RequestFacts DEF TakenBy

\* A step that opens no session, of one request at most: what that one has taken
\* it had before, or takes now and nobody had it.
LEMMA StepSpends ==
  ASSUME TypeOK, TypeOK', SpentInv, NEW r \in Requests, UNCHANGED opened,
         \A q \in Requests : q # r => req'[q] = req[q],
         \A u \in Users : codes'[u].batch =< minted',
         \A u \in Users, t \in Token : Unspent(u, t)' => Unspent(u, t),
         ProofOK(req'[r]), NEW v, v = req'[r].user,
         \A t \in TakenBy(req'[r]) :
           \/ t \in TakenBy(req[r]) /\ req[r].user = v
           \/ Unspent(v, t) /\ ~ Unspent(v, t)'
  PROVE  SpentInv'
<1>t. RowsOK /\ ReqTypeOK /\ ReqTypeOK'
  BY TypeParts, PTL
<1>s. ASSUME NEW i \in DOMAIN opened
      PROVE  opened[i].user \in Users /\ TokensOf(opened[i].by) \subseteq Token
  <2>1. opened[i] \in Session
    BY <1>t DEF RowsOK
  <2> QED
    BY <2>1, ByTokens DEF Session
<1>q. ASSUME NEW q \in Requests
      PROVE  /\ TakenBy(req[q]) \subseteq Token /\ TakenBy(req'[q]) \subseteq Token
             /\ TakenBy(req[q]) # {} => req[q].user \in Users
             /\ TakenBy(req'[q]) # {} => req'[q].user \in Users
  <2>1. req[q] \in Request /\ req'[q] \in Request
    BY <1>t DEF ReqTypeOK
  <2>2. TakenBy(req'[q]) # {} => req'[q].user \in Users
    BY <1>t, RequestFacts DEF TakenBy, ReqTypeOK, RequestOK
  <2> QED
    BY <1>t, <2>1, <2>2, RequestTokens, TakersHaveUsers
<1>1. \A q \in Requests : ProofOK(req'[q])
  BY DEF SpentInv
<1>2. SessionsSpent'
  <2> SUFFICES ASSUME NEW i \in DOMAIN opened, NEW t \in TokensOf(opened[i].by)
               PROVE  \A u \in Users : u = opened[i].user => ~ Unspent(u, t)'
    BY <1>s DEF SessionsSpent
  <2>1. ~ Unspent(opened[i].user, t)
    BY DEF SpentInv, SessionsSpent
  <2> QED
    BY <1>s, <2>1
<1>3. RequestsSpent'
  <2> SUFFICES ASSUME NEW q \in Requests, NEW t \in TakenBy(req'[q])
               PROVE  \A u \in Users : u = req'[q].user => ~ Unspent(u, t)'
    BY <1>q DEF RequestsSpent
  <2>1. t \in Token
    BY <1>q
  <2>2. CASE t \in TakenBy(req[q]) /\ req[q].user = req'[q].user
    <3>1. ~ Unspent(req[q].user, t)
      BY <2>2 DEF SpentInv, RequestsSpent
    <3> QED
      BY <2>1, <2>2, <3>1
  <2>3. CASE q = r /\ ~ Unspent(v, t)'
    BY <2>3
  <2> QED
    BY <2>2, <2>3
<1>4. SessionsApart'
  BY DEF SpentInv, SessionsApart
<1>5. OpenedApart'
  <2> SUFFICES ASSUME NEW i \in DOMAIN opened, NEW q \in Requests,
                      opened[i].user = req'[q].user,
                      NEW t \in TokensOf(opened[i].by), t \in TakenBy(req'[q])
               PROVE  FALSE
    BY DEF OpenedApart
  <2>1. ~ Unspent(opened[i].user, t)
    BY DEF SpentInv, SessionsSpent
  <2>2. ~ (t \in TakenBy(req[q]) /\ req[q].user = req'[q].user)
    BY DEF SpentInv, OpenedApart
  <2> QED
    BY <2>1, <2>2
<1>6. RequestsApart'
  <2>1. ASSUME NEW q \in Requests, q # r, req'[q].user = v,
               NEW t \in TakenBy(req'[q]), t \in TakenBy(req'[r])
        PROVE  FALSE
    <3>1. t \in TakenBy(req[q]) /\ req[q].user = v
      BY <2>1
    <3>2. ~ Unspent(req[q].user, t)
      BY <3>1 DEF SpentInv, RequestsSpent
    <3>3. ~ (t \in TakenBy(req[r]) /\ req[r].user = v)
      BY <2>1, <3>1 DEF SpentInv, RequestsApart
    <3> QED
      BY <2>1, <3>1, <3>2, <3>3
  <2>2. ASSUME NEW p \in Requests, NEW q \in Requests, p # q,
               req'[p].user = req'[q].user
        PROVE  TakenBy(req'[p]) \cap TakenBy(req'[q]) = {}
    <3>1. CASE p = r \/ q = r
      BY <2>1, <2>2, <3>1
    <3>2. CASE p # r /\ q # r
      BY <2>2, <3>2 DEF SpentInv, RequestsApart
    <3> QED
      BY <3>1, <3>2
  <2> QED
    BY <2>2 DEF RequestsApart
<1> QED
  BY <1>1, <1>2, <1>3, <1>4, <1>5, <1>6 DEF SpentInv

\* A session is opened with what its request had taken.
LEMMA OpenSpends ==
  ASSUME TypeOK, TypeOK', SpentInv, NEW r \in Requests, Open(r)
  PROVE  SpentInv'
<1>t. RowsOK /\ ReqTypeOK /\ opened \in Seq(Session)
  BY TypeParts DEF RowsOK
<1> DEFINE n == Len(opened) + 1
<1>1. PICK u, by : u = req[r].user /\ by = req[r].by
  OBVIOUS
<1>2. /\ Len(opened') = n /\ opened'[n].user = u /\ opened'[n].by = by
      /\ \A i \in DOMAIN opened : opened'[i] = opened[i]
      /\ DOMAIN opened' = DOMAIN opened \cup {n} /\ n \notin DOMAIN opened
  BY <1>t, <1>1 DEF Open
<1> HIDE DEF n
<1>3. req'[r] = Idle /\ \A q \in Requests : q # r => req'[q] = req[q]
  BY <1>t DEF Open, Answer, Step, ReqTypeOK
<1>4. UNCHANGED <<codes, minted, challenge, posed>>
  BY DEF Open, memory
<1>5. \A v, t : Unspent(v, t)' <=> Unspent(v, t)
  BY <1>4 DEF Unspent
<1>6. ProofOK(Idle) /\ TakenBy(Idle) = {}
  BY IdleIsQuiet, QuietTakesNothing
<1>7. TokensOf(by) \subseteq TakenBy(req[r])
  BY <1>t, <1>1, OpeningTaken DEF SpentInv, Open
<1>8. SessionsSpent'
  <2> SUFFICES ASSUME NEW i \in DOMAIN opened', NEW t \in TokensOf(opened'[i].by),
                      NEW v, v = opened'[i].user
               PROVE  ~ Unspent(v, t)
    BY <1>5 DEF SessionsSpent
  <2>1. CASE i = n
    BY <1>1, <1>2, <1>7, <2>1 DEF SpentInv, RequestsSpent
  <2>2. CASE i \in DOMAIN opened
    BY <1>2, <2>2 DEF SpentInv, SessionsSpent
  <2> QED
    BY <1>2, <2>1, <2>2
<1>9. RequestsSpent'
  <2> SUFFICES ASSUME NEW q \in Requests, NEW t \in TakenBy(req'[q]), NEW v, v = req'[q].user
               PROVE  ~ Unspent(v, t)
    BY <1>5 DEF RequestsSpent
  <2> QED
    BY <1>3, <1>6 DEF SpentInv, RequestsSpent
<1>10. SessionsApart'
  <2> SUFFICES ASSUME NEW i \in DOMAIN opened', NEW j \in DOMAIN opened', i # j,
                      opened'[i].user = opened'[j].user
               PROVE  TokensOf(opened'[i].by) \cap TokensOf(opened'[j].by) = {}
    BY DEF SessionsApart
  <2>1. CASE i \in DOMAIN opened /\ j \in DOMAIN opened
    BY <1>2, <2>1 DEF SpentInv, SessionsApart
  <2>2. ASSUME NEW k \in DOMAIN opened, opened[k].user = u
        PROVE  TokensOf(opened[k].by) \cap TokensOf(by) = {}
    BY <1>1, <1>7, <2>2 DEF SpentInv, OpenedApart
  <2> QED
    BY <1>2, <2>1, <2>2
<1>11. OpenedApart'
  <2> SUFFICES ASSUME NEW i \in DOMAIN opened', NEW q \in Requests, q # r,
                      opened'[i].user = req[q].user
               PROVE  TokensOf(opened'[i].by) \cap TakenBy(req[q]) = {}
    BY <1>3, <1>6 DEF OpenedApart
  <2>1. CASE i \in DOMAIN opened
    BY <1>2, <2>1 DEF SpentInv, OpenedApart
  <2>2. CASE i = n
    <3>1. TakenBy(req[q]) \cap TakenBy(req[r]) = {}
      BY <1>1, <1>2, <2>2 DEF SpentInv, RequestsApart
    <3> QED
      BY <1>2, <1>7, <2>2, <3>1
  <2> QED
    BY <1>2, <2>1, <2>2
<1>12. RequestsApart'
  BY <1>3, <1>6 DEF SpentInv, RequestsApart
<1> QED
  BY <1>3, <1>4, <1>6, <1>8, <1>9, <1>10, <1>11, <1>12 DEF SpentInv

\* Rows and questions left alone: nothing is spent, nothing comes back.
LEMMA NothingSpent ==
  ASSUME UNCHANGED <<codes, minted, challenge, posed>>
  PROVE  \A u, t : Unspent(u, t)' <=> Unspent(u, t)
BY DEF Unspent

LEMMA StillSpends ==
  ASSUME TypeOK, TypeOK', SpentInv, NEW r \in Requests,
         UNCHANGED <<opened, codes, minted, challenge, posed>>,
         \A q \in Requests : q # r => req'[q] = req[q],
         ProofOK(req'[r]),
         \/ TakenBy(req'[r]) = {}
         \/ TakenBy(req'[r]) \subseteq TakenBy(req[r]) /\ req'[r].user = req[r].user
  PROVE  SpentInv'
<1>1. \A u \in Users : codes'[u].batch =< minted'
  BY DEF SpentInv
<1>2. PICK v : v = req'[r].user
  OBVIOUS
<1> QED
  BY <1>1, <1>2, NothingSpent, StepSpends

\* What becomes of a request.
LEMMA Moves ==
  ASSUME ReqTypeOK, NEW r \in Requests
  PROVE  /\ Answer(r) => req'[r] = Idle
         /\ \A o : Step(r, o) => req'[r] = o
         /\ \A stage : Goto(r, stage) =>
              /\ req'[r].at = stage /\ req'[r].kind = req[r].kind
              /\ req'[r].user = req[r].user /\ req'[r].by = req[r].by
              /\ req'[r].question = req[r].question
BY DEF Answer, Step, Goto, ReqTypeOK, Request

LEMMA SignInSpends ==
  ASSUME TypeOK, TypeOK', SpentInv, NEW r \in Requests, ServeSignIn(r)
  PROVE  SpentInv'
<1>p. RowsOK /\ ReqTypeOK /\ RowsOK'
  BY TypeParts, PTL
<1>n. minted \in Nat /\ posed \in Nat
  BY <1>p DEF RowsOK
<1>t. RowsOK /\ ReqTypeOK /\ RowsOK' /\ req[r] \in Request /\ ProofOK(req[r])
        /\ minted \in Nat /\ posed \in Nat
  BY <1>n, <1>p DEF ReqTypeOK, SpentInv
<1>o. \A q \in Requests : q # r => req'[q] = req[q]
  BY <1>t, SignInLeavesOthers
<1>i. ProofOK(Idle) /\ TakenBy(Idle) = {}
  BY IdleIsQuiet, QuietTakesNothing
<1>q. ASSUME UNCHANGED <<opened, codes, minted, challenge, posed>>,
             req'[r] = Idle \/ Quiet(req'[r])
      PROVE  SpentInv'
  BY <1>i, <1>o, <1>q, QuietTakesNothing, StillSpends
<1>1. ASSUME NEW u \in Users, SignIn(r, u) PROVE SpentInv'
  <2>1. req'[r].kind = "signin" /\ req'[r].by = [how |-> "password"]
    BY <1>t, <1>1, Moves DEF SignIn, Idle
  <2>2. Quiet(req'[r])
    BY <2>1 DEF Quiet, TokensOf
  <2> QED
    BY <1>1, <1>q, <2>2 DEF SignIn, store, memory
<1>2. ASSUME ReadApp(r) \/ ReadKeys(r) \/ FactorsUnread(r) PROVE SpentInv'
  <2>1. req[r].kind = "signin" /\ UNCHANGED <<opened, codes, minted, challenge, posed>>
    BY <1>2 DEF ReadApp, ReadKeys, FactorsUnread, At, store, memory
  <2>2. Quiet(req[r])
    BY <1>t, <2>1 DEF Quiet, ProofOK
  <2>3. Answer(r) \/ \E stage : Goto(r, stage)
    BY <1>2 DEF ReadApp, ReadKeys, FactorsUnread
  <2>4. req'[r] = Idle \/ Quiet(req'[r])
    BY <1>t, <2>2, <2>3, Moves DEF Quiet
  <2> QED
    BY <1>q, <2>1, <2>4
<1>3. ASSUME NEW cookie \in pending, NEW proof \in Proofs, PresentCode(r, cookie, proof)
      PROVE  SpentInv'
  <2> DEFINE o == [Idle EXCEPT !.kind = "code", !.at = "app", !.user = cookie.user,
                               !.password = cookie.password, !.by = proof]
  <2>0. req'[r] = o
    BY <1>t, <1>3, Moves DEF PresentCode
  <2>1. req'[r].kind = "code" /\ req'[r].at = "app"
    BY <2>0 DEF Idle
  <2>2. ProofOK(req'[r]) /\ TakenBy(req'[r]) = {}
    BY <2>1 DEF ProofOK, TakenBy
  <2> QED
    BY <1>3, <1>o, <2>2, StillSpends DEF PresentCode, store, memory
<1>4. ASSUME CheckApp(r) PROVE SpentInv'
  <2>1. req[r].kind = "code" /\ UNCHANGED <<opened, codes, minted, challenge, posed>>
    BY <1>4 DEF CheckApp, At, store, memory
  <2>2. /\ req'[r].kind = "code" /\ req'[r].by = req[r].by
        /\ req'[r].at = "open" => req[r].by.how = "app"
    BY <1>t, <1>4, <2>1, Moves DEF CheckApp
  <2>3. ProofOK(req'[r]) /\ TakenBy(req'[r]) = {}
    BY <2>2 DEF ProofOK, TakenBy, TokensOf
  <2> QED
    BY <1>o, <2>1, <2>3, StillSpends
<1>5. ASSUME SpendCode(r) PROVE SpentInv'
  <2>1. /\ req[r].kind = "code" /\ req[r].at = "spend" /\ req[r].user \in Users
        /\ UNCHANGED <<opened, minted, challenge, posed>>
    BY <1>t, <1>5, RequestFacts DEF SpendCode, At, memory
  <2>2. CASE Answer(r) /\ UNCHANGED codes
    BY <1>t, <1>q, <2>1, <2>2, Moves
  <2>3. CASE ~ (Answer(r) /\ UNCHANGED codes)
    <3>1. PICK u, by, rest :
            /\ u = req[r].user /\ by = req[r].by
            /\ rest = [codes[u] EXCEPT !.unused = @ \ {by.code}]
      OBVIOUS
    <3>2. /\ by.how = "recovery" /\ by.batch = codes[u].batch
          /\ by.code \in codes[u].unused
          /\ codes' = [codes EXCEPT ![u] = rest] /\ Goto(r, "open")
      BY <1>5, <2>3, <3>1 DEF SpendCode
    <3>3. codes[u] \in [batch : 0..MaxBatches, unused : SUBSET (1..BatchSize)]
      BY <1>t, <2>1, <3>1 DEF RowsOK
    <3>4. rest.batch = codes[u].batch /\ rest.unused = codes[u].unused \ {by.code}
      BY <3>1, <3>3
    <3>5. codes'[u] = rest /\ \A w \in Users : w # u => codes'[w] = codes[w]
      BY <1>t, <2>1, <3>1, <3>2 DEF RowsOK
    <3>6. /\ req'[r].kind = "code" /\ req'[r].at = "open" /\ req'[r].by = by
          /\ req'[r].user = u
      BY <1>t, <2>1, <3>1, <3>2, Moves
    <3>7. ProofOK(req'[r]) /\ TakenBy(req'[r]) = {CodeToken(by.batch, by.code)}
      BY <3>2, <3>6 DEF ProofOK, TakenBy, TokensOf
    <3>8. Unspent(u, CodeToken(by.batch, by.code))
      BY <3>2 DEF Unspent, CodeToken
    <3>9. ~ Unspent(u, CodeToken(by.batch, by.code))'
      <4>1. codes[u].batch =< minted /\ codes[u].batch \in Nat /\ minted \in Nat
        BY <1>t, <2>1, <3>1, <3>3 DEF SpentInv, RowsOK
      <4> QED
        BY <2>1, <3>2, <3>4, <3>5, <4>1 DEF Unspent, CodeToken
    <3>10. \A w \in Users : /\ codes'[w].batch = codes[w].batch
                            /\ codes'[w].unused \subseteq codes[w].unused
      BY <3>4, <3>5
    <3>11. \A w \in Users : codes'[w].batch =< minted'
      BY <2>1, <3>10 DEF SpentInv
    <3>12. \A w \in Users, t \in Token : Unspent(w, t)' => Unspent(w, t)
      <4>1. minted' >= minted /\ posed' >= posed
        BY <1>t, <2>1
      <4> QED
        BY <1>t, <2>1, <3>10, <4>1, SpentForGood
    <3> QED
      BY <1>o, <2>1, <3>6, <3>7, <3>8, <3>9, <3>11, <3>12, StepSpends
  <2> QED
    BY <2>2, <2>3
<1>6. ASSUME NEW cookie \in pending, NEW a \in Signed, PresentAnswer(r, cookie, a)
      PROVE  SpentInv'
  <2>1. PICK u, c : u = cookie.user /\ c = challenge[u]
    OBVIOUS
  <2>2. u \in Users /\ c # 0 /\ c \in 0..posed
    BY <1>6, <1>t, <2>1 DEF PresentAnswer, RowsOK
  <2>3. /\ challenge' = [challenge EXCEPT ![u] = 0]
        /\ UNCHANGED <<opened, codes, minted, posed>>
    BY <1>6, <2>1 DEF PresentAnswer, store
  <2>4. challenge'[u] = 0 /\ \A w \in Users : w # u => challenge'[w] = challenge[w]
    BY <1>t, <2>2, <2>3 DEF RowsOK
  <2> DEFINE by == [how |-> "key", key |-> a.key, challenge |-> a.challenge]
             o == [Idle EXCEPT !.kind = "key", !.at = "lookup", !.user = cookie.user,
                               !.password = cookie.password,
                               !.question = challenge[cookie.user], !.by = by]
  <2>p. req'[r] = o
    BY <1>6, <1>t, Moves DEF PresentAnswer
  <2>5. /\ req'[r].kind = "key" /\ req'[r].at = "lookup" /\ req'[r].user = u
        /\ req'[r].question = c /\ req'[r].by.how = "key"
    BY <2>1, <2>p DEF Idle
  <2>6. ProofOK(req'[r]) /\ TakenBy(req'[r]) = {QuestionToken(c)}
    BY <2>5 DEF ProofOK, TakenBy
  <2>7. Unspent(u, QuestionToken(c)) /\ ~ Unspent(u, QuestionToken(c))'
    BY <1>t, <2>1, <2>2, <2>3, <2>4 DEF Unspent, QuestionToken, RowsOK
  <2>8. \A w \in Users, t \in Token : Unspent(w, t)' => Unspent(w, t)
    <3>1. minted' >= minted /\ posed' >= posed
      BY <1>t, <2>3
    <3> QED
      BY <1>t, <2>3, <2>4, <3>1, SpentForGood
  <2>9. \A w \in Users : codes'[w].batch =< minted'
    BY <2>3 DEF SpentInv
  <2> QED
    BY <1>o, <2>3, <2>5, <2>6, <2>7, <2>8, <2>9, StepSpends
<1>7. ASSUME CheckAnswer(r) PROVE SpentInv'
  <2>1. req[r].kind = "key" /\ UNCHANGED <<opened, codes, minted, challenge, posed>>
    BY <1>7 DEF CheckAnswer, At, store, memory
  <2>2. CASE Answer(r)
    BY <1>t, <1>q, <2>1, <2>2, Moves
  <2>3. CASE Goto(r, "open") /\ req[r].by.challenge = req[r].question
    <3>1. /\ req'[r].kind = "key" /\ req'[r].by = req[r].by
          /\ req'[r].question = req[r].question /\ req'[r].user = req[r].user
      BY <1>t, <2>1, <2>3, Moves
    <3>2. ProofOK(req'[r]) /\ TakenBy(req'[r]) = TakenBy(req[r])
      BY <1>t, <2>1, <2>3, <3>1 DEF ProofOK, TakenBy
    <3> QED
      BY <1>o, <2>1, <3>1, <3>2, StillSpends
  <2> QED
    BY <1>7, <2>2, <2>3 DEF CheckAnswer
<1>8. ASSUME Open(r) PROVE SpentInv'
  BY <1>8, OpenSpends
<1>9. ASSUME OpenFails(r) PROVE SpentInv'
  BY <1>9, <1>q, <1>t, Moves DEF OpenFails, store, memory
<1> QED
  BY <1>1, <1>2, <1>3, <1>4, <1>5, <1>6, <1>7, <1>8, <1>9 DEF ServeSignIn

LEMMA PasswordSpends ==
  ASSUME TypeOK, TypeOK', SpentInv, NEW r \in Requests, ServePassword(r)
  PROVE  SpentInv'
<1>p. RowsOK /\ ReqTypeOK
  BY TypeParts
<1>t. RowsOK /\ ReqTypeOK /\ req[r] \in Request /\ ProofOK(req[r])
  BY <1>p DEF ReqTypeOK, SpentInv
<1>o. \A q \in Requests : q # r => req'[q] = req[q]
  BY <1>t, PasswordLeavesOthers
<1>1. UNCHANGED <<opened, codes, minted, challenge, posed>>
  BY DEF ServePassword, ResetPassword, ChangeOwnPassword, SetUserCredentials,
     DeleteUserSessions, CloseFails, store, memory
<1>2. ASSUME NEW u \in Users, NEW kind \in {"reset", "own"},
             Step(r, [Idle EXCEPT !.kind = kind, !.at = "set", !.user = u])
      PROVE  Quiet(req'[r])
  <2> DEFINE o == [Idle EXCEPT !.kind = kind, !.at = "set", !.user = u]
  <2>1. req'[r] = o
    BY <1>t, <1>2, Moves
  <2>2. o.kind = kind /\ o.by = Nothing
    BY DEF Idle
  <2> QED
    BY <2>1, <2>2 DEF Quiet, TokensOf, Nothing
<1>3. ASSUME NEW u \in Users, ResetPassword(r, u) PROVE Quiet(req'[r])
  BY <1>2, <1>3 DEF ResetPassword
<1>4. ASSUME NEW i \in live, ChangeOwnPassword(r, i) PROVE Quiet(req'[r])
  BY <1>2, <1>4, <1>t, LiveSession DEF ChangeOwnPassword
<1>5. ASSUME SetUserCredentials(r) PROVE Quiet(req'[r])
  <2>1. req'[r].kind \in {"reset", "own"} /\ req'[r].by = [how |-> "own"]
    BY <1>t, <1>5, Moves DEF SetUserCredentials, Request
  <2> QED
    BY <2>1 DEF Quiet, TokensOf
<1>6. ASSUME DeleteUserSessions(r) \/ CloseFails(r) PROVE Quiet(req'[r])
  <2>1. req[r].kind \in {"reset", "own"} /\ (Answer(r) \/ Goto(r, "open"))
    BY <1>6 DEF DeleteUserSessions, CloseFails, Closed
  <2> QED
    BY <1>t, <2>1, Moves, IdleIsQuiet DEF Quiet, ProofOK
<1>7. Quiet(req'[r])
  BY <1>3, <1>4, <1>5, <1>6 DEF ServePassword
<1> QED
  BY <1>1, <1>7, <1>o, QuietTakesNothing, StillSpends

\* Requests about factors take neither codes nor questions.
LEMMA FactorKinds ==
  ASSUME ReqTypeOK, NEW r \in Requests, ServeFactors(r)
  PROVE  Quiet(req'[r])
<1> SUFFICES req'[r].kind \in Changes \cup {"none"}
  BY DEF Quiet, Changes
<1>r. req[r] \in Request
  BY DEF ReqTypeOK
<1>1. ASSUME NEW i \in live, NEW s \in Secrets, EnableTwoFactor(r, i, s)
      PROVE  req'[r].kind = "enable"
  BY <1>1, Moves DEF EnableTwoFactor, Idle
<1>2. ASSUME NEW i \in live, DisableTwoFactor(r, i) PROVE req'[r].kind = "disable"
  BY <1>2, Moves DEF DisableTwoFactor, Idle
<1>3. ASSUME NEW i \in live, NEW k \in Keys, RegisterKey(r, i, k)
      PROVE  req'[r].kind = "addkey"
  BY <1>3, Moves DEF RegisterKey, Idle
<1>4. ASSUME NEW i \in live, NEW k \in Keys, RemoveSecurityKey(r, i, k)
      PROVE  req'[r].kind = "dropkey"
  BY <1>4, Moves DEF RemoveSecurityKey, Idle
<1>5. ASSUME \/ StoreSecret(r) \/ CountSecurityKeys(r) \/ ClearTOTP(r)
             \/ AddSecurityKey(r) \/ CountUnusedRecoveryCodes(r) \/ StashCodes(r)
             \/ ListKeys(r) \/ OtherFactor(r) \/ DeleteSecurityKey(r)
      PROVE  req'[r].kind \in Changes \cup {"none"}
  <2>1. req[r].kind \in Changes
    BY <1>5 DEF StoreSecret, CountSecurityKeys, ClearTOTP, AddSecurityKey,
       CountUnusedRecoveryCodes, StashCodes, ListKeys, OtherFactor, DeleteSecurityKey,
       At, Changes
  <2>2. Answer(r) \/ \E stage : Goto(r, stage)
    BY <1>5 DEF StoreSecret, CountSecurityKeys, ClearTOTP, AddSecurityKey,
       CountUnusedRecoveryCodes, StashCodes, ListKeys, OtherFactor, DeleteSecurityKey
  <2> QED
    BY <2>1, <2>2, Moves DEF Idle
<1>6. ASSUME KeepSecret(r) \/ MintCodes(r) PROVE req'[r].kind = "addkey"
  BY <1>r, <1>6, Moves DEF KeepSecret, MintCodes, At, Request
<1> QED
  BY <1>1, <1>2, <1>3, <1>4, <1>5, <1>6 DEF ServeFactors, Changes

\* Codes are only ever replaced: by those of a batch that nobody has seen, or
\* by none, when the last factor goes.
LEMMA FactorsReplaceCodes ==
  ASSUME RowsOK, ReqTypeOK, NEW r \in Requests, ServeFactors(r), NEW u \in Users
  PROVE  /\ minted' >= minted /\ UNCHANGED <<opened, posed, challenge>>
         /\ \/ codes'[u] = codes[u]
            \/ codes'[u].batch = minted' /\ codes'[u].batch > minted
            \/ codes'[u] = NoBatch
<1>n. minted \in Nat /\ minted + 1 > minted /\ minted + 1 >= minted /\ minted >= minted
  BY DEF RowsOK
<1>c. codes \in [Users -> [batch : 0..MaxBatches, unused : SUBSET (1..BatchSize)]]
  BY DEF RowsOK
<1>1. ASSUME NEW v, NEW secret, NEW batch, SetTOTPSecret(v, secret, batch)
      PROVE  codes'[u] = codes[u] \/ codes'[u] = batch
  BY <1>1, <1>c DEF SetTOTPSecret
<1>2. ASSUME StoreSecret(r) \/ MintCodes(r)
      PROVE  /\ minted' = minted + 1 /\ UNCHANGED <<opened, posed, challenge>>
             /\ codes'[u] = codes[u] \/ codes'[u] = Batch(minted + 1)
  BY <1>1, <1>2 DEF StoreSecret, MintCodes
<1>3. ASSUME ClearTOTP(r)
      PROVE  /\ minted' = minted /\ UNCHANGED <<opened, posed, challenge>>
             /\ codes'[u] = codes[u] \/ codes'[u] = NoBatch
  <2>1. UNCHANGED <<opened, minted, posed, challenge>>
    BY <1>3 DEF ClearTOTP, memory
  <2>2. PICK v, batch : /\ v = req[r].user
                        /\ batch = IF req[r].at = "clear all" THEN NoBatch ELSE codes[v]
    OBVIOUS
  <2>3. codes' = [codes EXCEPT ![v] = batch]
    BY <1>3, <2>2 DEF ClearTOTP, SetTOTPSecret
  <2>4. codes'[u] = codes[u] \/ (u = v /\ codes'[u] = batch)
    BY <1>c, <2>3
  <2> QED
    BY <2>1, <2>2, <2>4
<1>4. CASE ~ (StoreSecret(r) \/ MintCodes(r) \/ ClearTOTP(r))
  <2>1. UNCHANGED <<codes, opened, minted, posed, challenge>>
    BY <1>4 DEF ServeFactors, EnableTwoFactor, DisableTwoFactor, RegisterKey,
       RemoveSecurityKey, CountSecurityKeys, AddSecurityKey, CountUnusedRecoveryCodes,
       KeepSecret, StashCodes, ListKeys, OtherFactor, DeleteSecurityKey, store, memory
  <2> QED
    BY <1>n, <2>1
<1>5. Batch(minted + 1).batch = minted + 1
  BY DEF Batch
<1> QED
  BY <1>n, <1>2, <1>3, <1>4, <1>5

LEMMA FactorsSpend ==
  ASSUME TypeOK, TypeOK', SpentInv, NEW r \in Requests, ServeFactors(r)
  PROVE  SpentInv'
<1>p. RowsOK /\ ReqTypeOK /\ RowsOK'
  BY TypeParts, PTL
<1>n. minted \in Nat /\ minted' \in Nat /\ posed \in Nat /\ posed >= posed
  BY <1>p DEF RowsOK
<1>o. \A q \in Requests : q # r => req'[q] = req[q]
  BY <1>p, FactorsLeaveOthers
<1>1. ProofOK(req'[r]) /\ TakenBy(req'[r]) = {}
  BY <1>p, FactorKinds, QuietTakesNothing
<1>2. ASSUME NEW u \in Users
      PROVE  /\ codes'[u].batch =< minted'
             /\ \/ codes'[u].batch = codes[u].batch
                     /\ codes'[u].unused \subseteq codes[u].unused
                \/ codes'[u].batch > minted
                \/ codes'[u].unused = {}
             /\ minted' >= minted /\ UNCHANGED <<opened, posed, challenge>>
  <2>1. /\ minted' >= minted /\ UNCHANGED <<opened, posed, challenge>>
        /\ \/ codes'[u] = codes[u]
           \/ codes'[u].batch = minted' /\ codes'[u].batch > minted
           \/ codes'[u] = NoBatch
    BY <1>p, FactorsReplaceCodes
  <2>2. codes[u].batch =< minted /\ codes[u].batch \in Nat
    BY <1>p DEF SpentInv, RowsOK
  <2>3. NoBatch.batch = 0 /\ NoBatch.unused = {}
    BY DEF NoBatch
  <2> QED
    BY <1>n, <2>1, <2>2, <2>3
<1>3. UNCHANGED opened
  BY <1>p DEF ServeFactors, EnableTwoFactor, DisableTwoFactor, RegisterKey,
     RemoveSecurityKey, StoreSecret, CountSecurityKeys, ClearTOTP, AddSecurityKey,
     CountUnusedRecoveryCodes, KeepSecret, MintCodes, StashCodes, ListKeys, OtherFactor,
     DeleteSecurityKey, store
<1>4. \A u \in Users, t \in Token : Unspent(u, t)' => Unspent(u, t)
  BY <1>p, <1>n, <1>2, SpentForGood
<1>5. PICK v : v = req'[r].user
  OBVIOUS
<1> QED
  BY <1>1, <1>2, <1>3, <1>4, <1>5, <1>o, StepSpends

LEMMA FailureSpends ==
  ASSUME TypeOK, TypeOK', SpentInv, NEW r \in Requests, Fails(r)
  PROVE  SpentInv'
<1>p. RowsOK /\ ReqTypeOK
  BY TypeParts
<1>1. \A q \in Requests : q # r => req'[q] = req[q]
  BY <1>p, FailureLeavesOthers
<1>2. ProofOK(req'[r]) /\ TakenBy(req'[r]) = {}
  BY <1>p, Moves, IdleIsQuiet, QuietTakesNothing DEF Fails
<1>3. UNCHANGED <<opened, codes, minted, challenge, posed>>
  BY DEF Fails, store, memory
<1> QED
  BY <1>1, <1>2, <1>3, StillSpends

LEMMA PolicySpends ==
  ASSUME TypeOK, TypeOK', SpentInv, NEW r \in Requests, ServePolicy(r)
  PROVE  SpentInv'
<1>p. RowsOK /\ ReqTypeOK
  BY TypeParts
<1>1. UNCHANGED store /\ \A q \in Requests : q # r => req'[q] = req[q]
  BY <1>p, PolicyFacts
<1>2. req'[r].kind \in {"none", "require", "relax"}
  BY <1>p, PolicyFacts
<1>3. ProofOK(req'[r]) /\ TakenBy(req'[r]) = {}
  BY <1>2, QuietTakesNothing DEF Quiet
<1>4. UNCHANGED <<minted, challenge, posed>>
  BY DEF ServePolicy, SaveServerSettings, HasSecondFactor, SetServerSetting, Require, memory
<1> QED
  BY <1>1, <1>3, <1>4, StillSpends DEF store

\* What is left of the invariant when no request or session is new.
LEMMA AloneSpends ==
  ASSUME TypeOK, SpentInv, UNCHANGED opened,
         req' = req \/ \A r \in Requests : req'[r] = Idle,
         \A u \in Users : codes'[u].batch =< minted',
         \A u \in Users, t \in Token : Unspent(u, t)' => Unspent(u, t)
  PROVE  SpentInv'
<1>t. RowsOK /\ ReqTypeOK
  BY TypeParts
<1>s. ASSUME NEW i \in DOMAIN opened
      PROVE  opened[i].user \in Users /\ TokensOf(opened[i].by) \subseteq Token
  <2>1. opened[i] \in Session
    BY <1>t DEF RowsOK
  <2> QED
    BY <2>1, ByTokens DEF Session
<1>i. ProofOK(Idle) /\ TakenBy(Idle) = {}
  BY IdleIsQuiet, QuietTakesNothing
<1>q. ASSUME NEW q \in Requests
      PROVE  /\ TakenBy(req[q]) \subseteq Token
             /\ TakenBy(req[q]) # {} => req[q].user \in Users
             /\ TakenBy(req'[q]) = {} \/ req'[q] = req[q]
  BY <1>t, <1>i, RequestTokens, TakersHaveUsers DEF ReqTypeOK
<1>1. \A q \in Requests : ProofOK(req'[q])
  BY <1>i DEF SpentInv
<1>2. SessionsSpent'
  <2> SUFFICES ASSUME NEW i \in DOMAIN opened, NEW t \in TokensOf(opened[i].by)
               PROVE  \A u \in Users : u = opened[i].user => ~ Unspent(u, t)'
    BY <1>s DEF SessionsSpent
  <2>1. ~ Unspent(opened[i].user, t)
    BY DEF SpentInv, SessionsSpent
  <2> QED
    BY <1>s, <2>1
<1>3. RequestsSpent'
  <2> SUFFICES ASSUME NEW q \in Requests, NEW t \in TakenBy(req'[q])
               PROVE  \A u \in Users : u = req'[q].user => ~ Unspent(u, t)'
    BY <1>q DEF RequestsSpent
  <2>1. ~ Unspent(req[q].user, t) /\ t \in Token /\ req'[q] = req[q]
    BY <1>q DEF SpentInv, RequestsSpent
  <2> QED
    BY <2>1
<1>4. SessionsApart'
  BY DEF SpentInv, SessionsApart
<1>5. OpenedApart'
  <2> SUFFICES ASSUME NEW i \in DOMAIN opened, NEW q \in Requests,
                      opened[i].user = req'[q].user
               PROVE  TokensOf(opened[i].by) \cap TakenBy(req'[q]) = {}
    BY DEF OpenedApart
  <2> QED
    BY <1>q DEF SpentInv, OpenedApart
<1>6. RequestsApart'
  <2> SUFFICES ASSUME NEW p \in Requests, NEW q \in Requests, p # q,
                      req'[p].user = req'[q].user
               PROVE  TakenBy(req'[p]) \cap TakenBy(req'[q]) = {}
    BY DEF RequestsApart
  <2> QED
    BY <1>q DEF SpentInv, RequestsApart
<1> QED
  BY <1>1, <1>2, <1>3, <1>4, <1>5, <1>6 DEF SpentInv

LEMMA BrowserSpends ==
  ASSUME TypeOK, TypeOK', SpentInv, Browser
  PROVE  SpentInv'
<1>p. RowsOK /\ RowsOK'
  BY TypeParts, PTL
<1>n. minted \in Nat /\ posed \in Nat /\ minted >= minted /\ posed >= posed
        /\ posed + 1 > posed /\ posed + 1 >= posed
  BY <1>p DEF RowsOK
<1>1. UNCHANGED <<opened, codes, minted, req>>
  BY DEF Browser, PoseChallenge, EndSession, TakeStash, store, memory
<1>2. ASSUME NEW u \in Users
      PROVE  posed' >= posed /\ (challenge'[u] = challenge[u] \/ challenge'[u] > posed)
  <2>1. CASE \E cookie \in pending : PoseChallenge(cookie)
    BY <1>n, <1>p, <2>1 DEF PoseChallenge, RowsOK
  <2>2. CASE UNCHANGED <<posed, challenge>>
    BY <1>n, <2>2
  <2> QED
    BY <2>1, <2>2 DEF Browser, EndSession, TakeStash, memory
<1>3. \A u \in Users : codes'[u].batch =< minted'
  BY <1>1 DEF SpentInv
<1>4. \A u \in Users, t \in Token : Unspent(u, t)' => Unspent(u, t)
  BY <1>n, <1>p, <1>1, <1>2, SpentForGood
<1> QED
  BY <1>1, <1>3, <1>4, AloneSpends

LEMMA RestartSpends ==
  ASSUME TypeOK, TypeOK', SpentInv, Restart
  PROVE  SpentInv'
<1>p. RowsOK /\ RowsOK'
  BY TypeParts, PTL
<1>n. minted \in Nat /\ posed \in Nat /\ minted >= minted /\ posed >= posed
  BY <1>p DEF RowsOK
<1>1. UNCHANGED <<opened, codes, minted, posed>> /\ \A r \in Requests : req'[r] = Idle
  BY DEF Restart, store
<1>2. \A u \in Users : challenge'[u] = 0
  BY DEF Restart
<1>3. \A u \in Users : codes'[u].batch =< minted'
  BY <1>1 DEF SpentInv
<1>4. \A u \in Users, t \in Token : Unspent(u, t)' => Unspent(u, t)
  BY <1>n, <1>p, <1>1, <1>2, SpentForGood
<1> QED
  BY <1>1, <1>3, <1>4, AloneSpends

LEMMA NextSpends == TypeOK /\ SpentInv /\ [Next]_vars => SpentInv'
<1> SUFFICES ASSUME TypeOK, SpentInv, [Next]_vars PROVE SpentInv'
  OBVIOUS
<1>1. TypeOK'
  BY NextType
<1>2. CASE Next
  BY <1>1, <1>2, SignInSpends, PasswordSpends, FactorsSpend, FailureSpends, PolicySpends,
     BrowserSpends, RestartSpends DEF Next
<1>3. CASE UNCHANGED vars
  <2>1. UNCHANGED <<opened, req, codes, minted, challenge, posed>>
    BY <1>3 DEF vars, store, memory
  <2>2. \A u \in Users : codes'[u].batch =< minted'
    BY <2>1 DEF SpentInv
  <2> QED
    BY <2>1, <2>2, NothingSpent, AloneSpends
<1> QED
  BY <1>2, <1>3

LEMMA InitSpends == Init => SpentInv
<1> SUFFICES ASSUME Init PROVE SpentInv
  OBVIOUS
<1>1. \A u \in Users : codes[u].batch =< minted
  BY DEF Init, NoBatch, Batch
<1>2. \A r \in Requests : ProofOK(req[r]) /\ TakenBy(req[r]) = {}
  BY IdleIsQuiet, QuietTakesNothing DEF Init
<1>3. \A i \in DOMAIN opened : i = 1 /\ opened[i].by = [how |-> "password"]
  BY DEF Init
<1>4. \A i \in DOMAIN opened : TokensOf(opened[i].by) = {}
  BY <1>3 DEF TokensOf
<1> QED
  BY <1>1, <1>2, <1>4 DEF SpentInv, SessionsSpent, RequestsSpent, SessionsApart,
     OpenedApart, RequestsApart

\* No recovery code and no question put to a key opens two sessions, for every
\* number of accounts, codes, keys and requests presenting the same one at once,
\* and through every restart: one UPDATE both finds and marks the code
\* (UseRecoveryCode), and the question is taken before its answer is looked at
\* (finishKeyAssertion).
THEOREM ProofsSpentOnce == Spec => []ProofsAreSpent
<1>1. SpentInv => ProofsAreSpent
  <2> SUFFICES ASSUME SpentInv, NEW i \in DOMAIN opened, NEW j \in DOMAIN opened,
                      opened[i].user = opened[j].user, opened[i].by = opened[j].by,
                      opened[i].by.how \in {"recovery", "key"}, i # j
               PROVE  FALSE
    BY DEF ProofsAreSpent
  <2>1. TokensOf(opened[i].by) # {}
    BY DEF TokensOf
  <2> QED
    BY <2>1 DEF SpentInv, SessionsApart
<1>2. TypeOK /\ SpentInv /\ [Next]_vars => SpentInv'
  BY NextSpends
<1> QED
  BY <1>1, <1>2, InitSpends, Typing, PTL DEF Spec
================================================================================
