------------------------------- MODULE SignIn -------------------------------
(***************************************************************************)
(* Signing in to the web interface, the second factors an account carries, *)
(* and the sessions that come of it: internal/web/login.go, twofactor.go,  *)
(* securitykey.go, settings.go and accounts.go, over the rows of           *)
(* internal/store/repo_session.go, repo_totp.go and repo_security_key.go.  *)
(*                                                                         *)
(* Every request is an actor with a stage of its own: the database is read *)
(* and written in separate statements, none of them inside a transaction   *)
(* that spans two, so that anything may happen between two stages.         *)
(* A password is its version: 1 is the first one the account had.  Ten     *)
(* recovery codes are a batch of BatchSize codes.  What the browser keeps  *)
(* (the pending cookie, the answer of a key) can be presented again.       *)
(***************************************************************************)
EXTENDS Integers, Sequences, FiniteSets

CONSTANTS Users,         \* accounts
          Secrets,       \* secrets an application may be enrolled with
          Keys,          \* credentials a security key may register
          Requests,      \* requests being served at once
          None,          \* no account, no secret, no key
          BatchSize,
          MaxPasswords,  \* bound: passwords an account has in turn
          MaxBatches,    \* bound: batches of recovery codes ever minted
          MaxChallenges, \* bound: questions ever posed to a key
          MaxSessions,   \* bound: sessions ever opened
          MaxServed,     \* bound: requests ever served
          MaxRestarts    \* bound

ASSUME NoneAssumption == None \notin Users \cup Secrets \cup Keys
ASSUME FactorsAssumption == Secrets \cap Keys = {}
ASSUME OwnersAssumption == "blank" \notin Users
ASSUME BoundsAssumption == /\ BatchSize \in Nat \ {0}
                           /\ MaxPasswords \in Nat \ {0}
                           /\ MaxBatches \in Nat \ {0}
                           /\ MaxChallenges \in Nat
                           /\ MaxSessions \in Nat \ {0}
                           /\ MaxServed \in Nat
                           /\ MaxRestarts \in Nat

VARIABLES
  required,   \* what requiresFactor answers: the server insists on a second factor
  pinned,     \* the command line said so, or that it does not
  setting,    \* the stored setting, which counts when the command line is silent
  password,   \* [Users -> version of the password in force]
  totp,       \* [Users -> the enrolled secret, or None]
  codes,      \* [Users -> the batch stored, and which of its codes are unused]
  owner,      \* [Keys -> the account it is registered on, or "blank"]
  opened,     \* every session ever opened, in order
  live,       \* which of them still have a row
  pending,    \* sign-ins that owe a proof: what the signed cookies say
  challenge,  \* [Users -> the question outstanding, 0 when there is none]
  posed,      \* how many questions were posed
  minted,     \* how many batches were minted
  stash,      \* [Users -> the batch waiting to be shown, 0 when none is]
  req,        \* [Requests -> its stage and what it has read]
  restarts,
  served,     \* how many requests arrived
  stood,      \* history: the factors that stood during all of a request
  orderly,    \* history: accounts whose changes of factor ran one at a time
  unclosed,   \* history: accounts whose sessions a change failed to close
  uncoded     \* history: accounts whose codes for a key could not be stored

store == <<password, totp, codes, owner, opened, live>>
policy == <<required, pinned, setting>>
memory == <<policy, pending, challenge, posed, minted, stash>>
history == <<served, stood, orderly, unclosed, uncoded>>
vars == <<store, memory, req, restarts, history>>

Nothing == [how |-> "none"]
Idle == [kind |-> "none", at |-> "none", user |-> None, password |-> 0,
         by |-> Nothing, question |-> 0, key |-> None, secret |-> None, batch |-> 0]
NoBatch == [batch |-> 0, unused |-> {}]
\* A plausible bug: one code too many in a batch.
BatchFromZero(n) == [batch |-> n, unused |-> 0..BatchSize]
Batch(n) == [batch |-> n, unused |-> 1..BatchSize]

KeysOf(u) == {k \in Keys : owner[k] = u}
\* What HasSecondFactor looks for, in the rows t and o.
FactorsIn(t, o, u) == (IF t[u] = None THEN {} ELSE {t[u]})
                        \cup {k \in Keys : o[k] = u}
FactorsOf(u) == FactorsIn(totp, owner, u)

\* The requests that change what an account carries.
Changes == {"enable", "disable", "addkey", "dropkey"}
Changing(q, u) == {r \in Requests : q[r].kind \in Changes /\ q[r].user = u}

At(r, kind, stage) == req[r].kind = kind /\ req[r].at = stage
\* Every kind of request that ends in establishSession or reissueSession.
Opening(r) == req[r].at \in {"open", "unread"}

Arrives(r) == req[r] = Idle /\ served < MaxServed
Step(r, record) == req' = [req EXCEPT ![r] = record]
Answer(r) == Step(r, Idle)
Goto(r, stage) == req' = [req EXCEPT ![r].at = stage]

\* A plausible bug: the latest session is closed instead of them all.
LatestSessionOf(u) == {i \in live : opened[i].user = u /\ i = Len(opened)}
SessionsOf(u) == {i \in live : opened[i].user = u}

(***************************************************************************)
(* doLogin.  The verifier is read once, and the derivation that follows    *)
(* compares with what was read; an attempt with another password changes   *)
(* nothing here.                                                           *)
(***************************************************************************)
SignIn(r, u) ==
  /\ Arrives(r)
  /\ Step(r, [Idle EXCEPT !.kind = "signin", !.at = "app", !.user = u,
                          !.password = password[u], !.by = [how |-> "password"]])
  /\ UNCHANGED <<store, memory>>

\* A plausible bug: the count of keys overwrites what the secret said.
ReadAppInVain(r) ==
  /\ At(r, "signin", "app")
  /\ Goto(r, "bare")
  /\ UNCHANGED <<store, memory>>

\* secondFactors reads the secret and then counts the keys.
ReadApp(r) ==
  /\ At(r, "signin", "app")
  /\ Goto(r, IF totp[req[r].user] = None THEN "bare" ELSE "asked")
  /\ UNCHANGED <<store, memory>>

ReadKeys(r) ==
  /\ req[r].kind = "signin" /\ req[r].at \in {"bare", "asked"}
  /\ LET u == req[r].user IN
       IF req[r].at = "asked" \/ KeysOf(u) # {}
       THEN /\ pending' = pending \cup {[user |-> u, password |-> req[r].password]}
            /\ Answer(r)
       ELSE Goto(r, "open") /\ UNCHANGED pending
  /\ UNCHANGED <<store, policy, challenge, posed, minted, stash>>

\* A read that fails is logged, and its zero values are used: the sign-in goes
\* on as one of an account without a second factor.
FactorsUnread(r) ==
  /\ req[r].kind = "signin" /\ req[r].at \in {"app", "bare", "asked"}
  /\ Goto(r, "unread")
  /\ UNCHANGED <<store, memory>>

(***************************************************************************)
(* establishSession and reissueSession.                                    *)
(***************************************************************************)
Open(r) ==
  /\ Opening(r)
  /\ Len(opened) < MaxSessions
  /\ LET u == req[r].user IN
       opened' = Append(opened, [user |-> u, password |-> req[r].password,
                                 by |-> req[r].by,
                                 late |-> req[r].password # password[u]])
  /\ live' = live \cup {Len(opened) + 1}
  /\ Answer(r)
  /\ UNCHANGED <<memory, password, totp, codes, owner>>

\* CreateSession or the database fails: the person is told to try again.
OpenFails(r) ==
  /\ Opening(r)
  /\ Answer(r)
  /\ UNCHANGED <<store, memory>>

(***************************************************************************)
(* finishSecondFactor: a code of the application or a recovery code.       *)
(***************************************************************************)
Proofs == [how : {"app"}, secret : Secrets]
            \cup [how : {"recovery"}, batch : 1..MaxBatches, code : 1..BatchSize]

PresentCode(r, cookie, proof) ==
  /\ Arrives(r)
  /\ Step(r, [Idle EXCEPT !.kind = "code", !.at = "app", !.user = cookie.user,
                          !.password = cookie.password, !.by = proof])
  /\ UNCHANGED <<store, memory>>

CheckApp(r) ==
  /\ At(r, "code", "app")
  /\ LET by == req[r].by IN
       Goto(r, IF by.how = "app" /\ by.secret = totp[req[r].user]
               THEN "open" ELSE "spend")
  /\ UNCHANGED <<store, memory>>

\* A plausible bug: the code is looked up and not marked.
SpendCodeUnmarked(r) ==
  /\ At(r, "code", "spend")
  /\ LET u == req[r].user
         by == req[r].by
     IN  IF by.how = "recovery" /\ by.batch = codes[u].batch
                                /\ by.code \in codes[u].unused
         THEN Goto(r, "open") ELSE Answer(r)
  /\ UNCHANGED <<store, memory>>

\* UseRecoveryCode is one UPDATE: finding the code unused and spending it.
SpendCode(r) ==
  /\ At(r, "code", "spend")
  /\ LET u == req[r].user
         by == req[r].by
     IN  IF by.how = "recovery" /\ by.batch = codes[u].batch
                                /\ by.code \in codes[u].unused
         THEN /\ codes' = [codes EXCEPT ![u].unused = @ \ {by.code}]
              /\ Goto(r, "open")
         ELSE Answer(r) /\ UNCHANGED codes
  /\ UNCHANGED <<memory, password, totp, owner, opened, live>>

(***************************************************************************)
(* Security keys at sign-in.  A question posed replaces the one that was   *)
(* outstanding.  The keys are read just before it is posed: a key removed  *)
(* in between is one removed just after.                                   *)
(***************************************************************************)
PoseChallenge(cookie) ==
  /\ KeysOf(cookie.user) # {}
  /\ posed < MaxChallenges
  /\ posed' = posed + 1
  /\ challenge' = [challenge EXCEPT ![cookie.user] = posed + 1]
  /\ UNCHANGED <<store, policy, pending, minted, stash, req>>

\* What keys sign, and sign at any time: an answer to any question ever posed.
Signed == [key : Keys, challenge : 1..posed]

\* finishKeyAssertion takes the question before it looks at the answer.
PresentAnswer(r, cookie, a) ==
  /\ Arrives(r)
  /\ challenge[cookie.user] # 0
  /\ Step(r, [Idle EXCEPT !.kind = "key", !.at = "lookup", !.user = cookie.user,
                          !.password = cookie.password,
                          !.question = challenge[cookie.user],
                          !.by = [how |-> "key", key |-> a.key,
                                  challenge |-> a.challenge]])
  /\ challenge' = [challenge EXCEPT ![cookie.user] = 0]
  /\ UNCHANGED <<store, policy, pending, posed, minted, stash>>

CheckAnswer(r) ==
  /\ At(r, "key", "lookup")
  /\ LET by == req[r].by IN
       IF owner[by.key] = req[r].user /\ by.challenge = req[r].question
       THEN Goto(r, "open") ELSE Answer(r)
  /\ UNCHANGED <<store, memory>>

(***************************************************************************)
(* A new password, set by an administrator or from the shell ("reset"), or *)
(* by the person from a session ("own").  Sessions are closed by a second  *)
(* statement, whose failure is only logged; the browser that changed its   *)
(* own password is then given a new one.                                   *)
(***************************************************************************)
ResetPassword(r, u) ==
  /\ Arrives(r)
  /\ Step(r, [Idle EXCEPT !.kind = "reset", !.at = "set", !.user = u])
  /\ UNCHANGED <<store, memory, unclosed>>

ChangeOwnPassword(r, i) ==
  /\ Arrives(r)
  /\ Step(r, [Idle EXCEPT !.kind = "own", !.at = "set", !.user = opened[i].user])
  /\ UNCHANGED <<store, memory, unclosed>>

SetUserCredentials(r) ==
  /\ req[r].kind \in {"reset", "own"} /\ req[r].at = "set"
  /\ password[req[r].user] < MaxPasswords
  /\ password' = [password EXCEPT ![req[r].user] = @ + 1]
  /\ Step(r, [req[r] EXCEPT !.at = "close", !.by = [how |-> "own"],
                            !.password = password[req[r].user] + 1])
  /\ UNCHANGED <<memory, totp, codes, owner, opened, live, unclosed>>

Closed(r) == IF req[r].kind = "own" THEN Goto(r, "open") ELSE Answer(r)

DeleteUserSessions(r) ==
  /\ req[r].kind \in {"reset", "own"} /\ req[r].at = "close"
  /\ live' = live \ SessionsOf(req[r].user)
  /\ unclosed' = unclosed \ {req[r].user}
  /\ Closed(r)
  /\ UNCHANGED <<memory, password, totp, codes, owner, opened>>

CloseFails(r) ==
  /\ req[r].kind \in {"reset", "own"} /\ req[r].at = "close"
  /\ unclosed' = unclosed \cup {req[r].user}
  /\ Closed(r)
  /\ UNCHANGED <<store, memory>>

\* doLogout, and a session that lapses.
EndSession(i) ==
  /\ live' = live \ {i}
  /\ UNCHANGED <<memory, password, totp, codes, owner, opened, req>>

(***************************************************************************)
(* SetTOTPSecret: the secret and the codes that go with it, in one         *)
(* transaction.                                                            *)
(***************************************************************************)
SetTOTPSecret(u, secret, batch) ==
  /\ totp' = [totp EXCEPT ![u] = secret]
  /\ codes' = [codes EXCEPT ![u] = batch]

\* Every change of factor comes from a session that was live when the request
\* arrived; that the password was typed again is left to the browser.
EnableTwoFactor(r, i, secret) ==
  /\ Arrives(r)
  /\ Step(r, [Idle EXCEPT !.kind = "enable", !.at = "store",
                          !.user = opened[i].user, !.secret = secret])
  /\ UNCHANGED <<store, memory>>

StoreSecret(r) ==
  /\ At(r, "enable", "store")
  /\ minted < MaxBatches
  /\ minted' = minted + 1
  /\ SetTOTPSecret(req[r].user, req[r].secret, Batch(minted + 1))
  /\ Answer(r)
  /\ UNCHANGED <<password, owner, opened, live, policy, pending, challenge,
                 posed, stash>>

DisableTwoFactor(r, i) ==
  /\ Arrives(r)
  /\ Step(r, [Idle EXCEPT !.kind = "disable", !.at = "count", !.user = opened[i].user])
  /\ UNCHANGED <<store, memory>>

\* A plausible bug: the policy of the server is not asked.
CountKeysOnly(r) ==
  /\ At(r, "disable", "count")
  /\ Goto(r, IF KeysOf(req[r].user) = {} THEN "clear all" ELSE "clear secret")
  /\ UNCHANGED <<store, memory>>

CountSecurityKeys(r) ==
  /\ At(r, "disable", "count")
  /\ LET keys == KeysOf(req[r].user) IN
       IF required /\ keys = {} THEN Answer(r)
       ELSE Goto(r, IF keys = {} THEN "clear all" ELSE "clear secret")
  /\ UNCHANGED <<store, memory>>

\* A plausible bug: the codes go with the application although a key remains.
ClearAll(r) ==
  /\ req[r].kind = "disable" /\ req[r].at \in {"clear all", "clear secret"}
  /\ SetTOTPSecret(req[r].user, None, NoBatch)
  /\ Answer(r)
  /\ UNCHANGED <<memory, password, owner, opened, live>>

\* ClearTOTP forgets the codes too; ClearTOTPSecret keeps them for the key.
ClearTOTP(r) ==
  /\ req[r].kind = "disable" /\ req[r].at \in {"clear all", "clear secret"}
  /\ LET u == req[r].user IN
       SetTOTPSecret(u, None, IF req[r].at = "clear all" THEN NoBatch ELSE codes[u])
  /\ Answer(r)
  /\ UNCHANGED <<memory, password, owner, opened, live>>

(***************************************************************************)
(* finishKeyRegistration, and the recovery codes that come with a key.     *)
(***************************************************************************)
RegisterKey(r, i, k) ==
  /\ Arrives(r)
  /\ Step(r, [Idle EXCEPT !.kind = "addkey", !.at = "add",
                          !.user = opened[i].user, !.key = k])
  /\ UNCHANGED <<store, memory>>

AddSecurityKey(r) ==
  /\ At(r, "addkey", "add")
  /\ IF owner[req[r].key] = "blank"
     THEN owner' = [owner EXCEPT ![req[r].key] = req[r].user] /\ Goto(r, "left")
     ELSE Answer(r) /\ UNCHANGED owner
  /\ UNCHANGED <<memory, password, totp, codes, opened, live>>

CountUnusedRecoveryCodes(r) ==
  /\ At(r, "addkey", "left")
  /\ IF codes[req[r].user].unused = {} THEN Goto(r, "secret") ELSE Answer(r)
  /\ UNCHANGED <<store, memory>>

KeepSecret(r) ==
  /\ At(r, "addkey", "secret")
  /\ Step(r, [req[r] EXCEPT !.at = "mint", !.secret = totp[req[r].user]])
  /\ UNCHANGED <<store, memory>>

MintCodes(r) ==
  /\ At(r, "addkey", "mint")
  /\ minted < MaxBatches
  /\ minted' = minted + 1
  /\ SetTOTPSecret(req[r].user, req[r].secret, Batch(minted + 1))
  /\ Step(r, [req[r] EXCEPT !.at = "stash", !.batch = minted + 1])
  /\ UNCHANGED <<password, owner, opened, live, policy, pending, challenge,
                 posed, stash>>

StashCodes(r) ==
  /\ At(r, "addkey", "stash")
  /\ stash' = [stash EXCEPT ![req[r].user] = req[r].batch]
  /\ Answer(r)
  /\ UNCHANGED <<store, policy, pending, challenge, posed, minted>>

\* showFreshRecoveryCodes, or ten minutes gone by.
TakeStash(u) ==
  /\ stash[u] # 0
  /\ stash' = [stash EXCEPT ![u] = 0]
  /\ UNCHANGED <<store, policy, pending, challenge, posed, minted, req>>

(***************************************************************************)
(* removeSecurityKey.                                                      *)
(***************************************************************************)
RemoveSecurityKey(r, i, k) ==
  /\ Arrives(r)
  /\ Step(r, [Idle EXCEPT !.kind = "dropkey", !.at = "list",
                          !.user = opened[i].user, !.key = k])
  /\ UNCHANGED <<store, memory>>

ListKeys(r) ==
  /\ At(r, "dropkey", "list")
  /\ Goto(r, IF required /\ Cardinality(KeysOf(req[r].user)) = 1
             THEN "app" ELSE "delete")
  /\ UNCHANGED <<store, memory>>

OtherFactor(r) ==
  /\ At(r, "dropkey", "app")
  /\ IF totp[req[r].user] = None THEN Answer(r) ELSE Goto(r, "delete")
  /\ UNCHANGED <<store, memory>>

DeleteSecurityKey(r) ==
  /\ At(r, "dropkey", "delete")
  /\ owner' = IF owner[req[r].key] = req[r].user
              THEN [owner EXCEPT ![req[r].key] = "blank"] ELSE owner
  /\ Answer(r)
  /\ UNCHANGED <<memory, password, totp, codes, opened, live>>

\* A key was stored and its codes are about to be.
Minting(r, u) == /\ req[r].kind = "addkey" /\ req[r].user = u
                 /\ req[r].at \in {"left", "secret", "mint"}

\* A statement fails: the request ends with nothing more done.  When it was
\* storing the codes of a key, the key stays and the failure is only logged.
Fails(r) ==
  /\ req[r].kind \in Changes \cup {"code", "key", "reset", "own", "require", "relax"}
  /\ req[r].at \notin {"open", "close", "stash", "cache"}
  /\ uncoded' = uncoded \cup {u \in Users : Minting(r, u)}
  /\ Answer(r)
  /\ UNCHANGED <<store, memory>>

(***************************************************************************)
(* saveServerSettings: an administrator turns the policy on, from an       *)
(* account that carries a factor, or off.  The row is written first and    *)
(* what requiresFactor answers follows.                                    *)
(***************************************************************************)
SaveServerSettings(r, i, want) ==
  /\ Arrives(r)
  /\ ~ pinned
  /\ Step(r, [Idle EXCEPT !.kind = want, !.user = opened[i].user,
                          !.at = IF want = "require" THEN "has" ELSE "save"])
  /\ UNCHANGED <<store, memory>>

HasSecondFactor(r) ==
  /\ At(r, "require", "has")
  /\ IF FactorsOf(req[r].user) = {} THEN Answer(r) ELSE Goto(r, "save")
  /\ UNCHANGED <<store, memory>>

SetServerSetting(r) ==
  /\ req[r].kind \in {"require", "relax"} /\ req[r].at = "save"
  /\ setting' = (req[r].kind = "require")
  /\ Goto(r, "cache")
  /\ UNCHANGED <<store, required, pinned, pending, challenge, posed,
                 minted, stash>>

Require(r) ==
  /\ req[r].kind \in {"require", "relax"} /\ req[r].at = "cache"
  /\ required' = (req[r].kind = "require")
  /\ Answer(r)
  /\ UNCHANGED <<store, pinned, setting, pending, challenge, posed,
                 minted, stash>>

(***************************************************************************)
(* A restart forgets all that is kept in memory, the key that signs        *)
(* pending cookies included, and stops the requests being served; the      *)
(* command line may then settle the policy, or leave it to what is stored. *)
(* A cookie or a question that lapses is one not presented any more.       *)
(***************************************************************************)
Restart ==
  /\ restarts < MaxRestarts
  /\ restarts' = restarts + 1
  /\ pinned' \in BOOLEAN
  /\ required' \in IF pinned' THEN BOOLEAN ELSE {setting}
  /\ pending' = {}
  /\ challenge' = [u \in Users |-> 0]
  /\ stash' = [u \in Users |-> 0]
  /\ req' = [r \in Requests |-> Idle]
  /\ unclosed' = unclosed \cup {u \in Users : \E r \in Requests :
                                    req[r].user = u /\ req[r].at = "close"}
  /\ UNCHANGED <<store, setting, posed, minted>>

\* The server starts on a database of some past: accounts with or without
\* factors, with a batch of recovery codes, spent or not, if they have a factor,
\* and one session at most that is still open.
Init ==
  /\ setting \in BOOLEAN
  /\ pinned \in BOOLEAN
  /\ required \in IF pinned THEN BOOLEAN ELSE {setting}
  /\ password = [u \in Users |-> 1]
  /\ totp \in [Users -> Secrets \cup {None}]
  /\ owner \in [Keys -> Users \cup {"blank"}]
  /\ codes \in [Users -> {NoBatch, Batch(1), [Batch(1) EXCEPT !.unused = {}]}]
  /\ \A u \in Users : FactorsOf(u) # {} => codes[u] # NoBatch
  /\ opened \in {<<>>} \cup
       {<<[user |-> u, password |-> 1, by |-> [how |-> "password"], late |-> FALSE]>> :
          u \in Users}
  /\ live = DOMAIN opened
  /\ pending = {}
  /\ challenge = [u \in Users |-> 0]
  /\ posed = 0
  /\ minted = 1
  /\ stash = [u \in Users |-> 0]
  /\ req = [r \in Requests |-> Idle]
  /\ restarts = 0
  /\ served = 0
  /\ stood = [r \in Requests |-> {}]
  /\ orderly = Users
  /\ unclosed = {} /\ uncoded = {}

ServeSignIn(r) ==
  \/ \E u \in Users : SignIn(r, u)
  \/ ReadApp(r) \/ ReadKeys(r) \/ FactorsUnread(r)
  \/ \E cookie \in pending, proof \in Proofs : PresentCode(r, cookie, proof)
  \/ CheckApp(r) \/ SpendCode(r)
  \/ \E cookie \in pending, a \in Signed : PresentAnswer(r, cookie, a)
  \/ CheckAnswer(r)
  \/ Open(r) \/ OpenFails(r)

ServePassword(r) ==
  \/ \E u \in Users : ResetPassword(r, u)
  \/ \E i \in live : ChangeOwnPassword(r, i)
  \/ SetUserCredentials(r) \/ DeleteUserSessions(r) \/ CloseFails(r)

ServeFactors(r) ==
  \/ \E i \in live, s \in Secrets : EnableTwoFactor(r, i, s)
  \/ \E i \in live : DisableTwoFactor(r, i)
  \/ \E i \in live, k \in Keys : RegisterKey(r, i, k) \/ RemoveSecurityKey(r, i, k)
  \/ StoreSecret(r) \/ CountSecurityKeys(r) \/ ClearTOTP(r)
  \/ AddSecurityKey(r) \/ CountUnusedRecoveryCodes(r) \/ KeepSecret(r)
  \/ MintCodes(r) \/ StashCodes(r)
  \/ ListKeys(r) \/ OtherFactor(r) \/ DeleteSecurityKey(r)

ServePolicy(r) ==
  \/ \E i \in live, want \in {"require", "relax"} : SaveServerSettings(r, i, want)
  \/ HasSecondFactor(r) \/ SetServerSetting(r) \/ Require(r)

Browser ==
  \/ \E cookie \in pending : PoseChallenge(cookie)
  \/ \E i \in live : EndSession(i)
  \/ \E u \in Users : TakeStash(u)

\* What the properties need to know of the past.  stood: the factors that a
\* sign-in had before it from its first read on.  orderly: the accounts whose
\* changes of factor never overlapped, and never met a restart or the policy
\* being turned on.
Watch ==
  /\ served' = IF \E r \in Requests : req[r] = Idle /\ req'[r] # Idle
               THEN served + 1 ELSE served
  /\ stood' = [r \in Requests |->
       IF req'[r].kind # "signin" THEN {}
       ELSE LET now == FactorsIn(totp', owner', req'[r].user)
            IN  IF req[r].kind = "signin" THEN stood[r] \cap now ELSE now]
  /\ orderly' = {u \in orderly :
       /\ \A r1, r2 \in Changing(req', u) : r1 = r2
       /\ restarts' # restarts \/ (required' /\ ~ required) => Changing(req, u) = {}}

Next ==
  /\ \/ \E r \in Requests : /\ ServeSignIn(r) \/ ServeFactors(r) \/ ServePolicy(r)
                           /\ UNCHANGED <<restarts, unclosed, uncoded>>
     \/ \E r \in Requests : ServePassword(r) /\ UNCHANGED <<restarts, uncoded>>
     \/ \E r \in Requests : Fails(r) /\ UNCHANGED <<restarts, unclosed>>
     \/ Browser /\ UNCHANGED <<restarts, unclosed, uncoded>>
     \/ Restart /\ UNCHANGED uncoded
  /\ Watch

Spec == Init /\ [][Next]_vars

(***************************************************************************)
(* Types.                                                                  *)
(***************************************************************************)
KeyProofs == [how : {"key"}, key : Keys, challenge : 1..MaxChallenges]
Bys == {Nothing, [how |-> "password"], [how |-> "own"]} \cup Proofs \cup KeyProofs

Session == [user : Users, password : 1..MaxPasswords, by : Bys, late : BOOLEAN]

\* The stages of a request of each kind.
Stages == ({"none"} \X {"none"})
  \cup ({"signin"} \X {"app", "bare", "asked", "open", "unread"})
  \cup ({"code"} \X {"app", "spend", "open"})
  \cup ({"key"} \X {"lookup", "open"})
  \cup ({"reset"} \X {"set", "close"})
  \cup ({"own"} \X {"set", "close", "open"})
  \cup ({"enable"} \X {"store"})
  \cup ({"disable"} \X {"count", "clear all", "clear secret"})
  \cup ({"addkey"} \X {"add", "left", "secret", "mint", "stash"})
  \cup ({"dropkey"} \X {"list", "app", "delete"})
  \cup ({"require"} \X {"has", "save", "cache"})
  \cup ({"relax"} \X {"save", "cache"})

Kinds == {"none", "signin", "code", "key", "reset", "own",
          "enable", "disable", "addkey", "dropkey", "require", "relax"}
StageNames == {"none", "app", "bare", "asked", "open", "unread", "spend", "lookup",
               "set", "close", "store", "count", "clear all", "clear secret", "add",
               "left", "secret", "mint", "stash", "list", "delete", "has", "save",
               "cache"}

Request == [kind : Kinds, at : StageNames,
            user : Users \cup {None}, password : 0..MaxPasswords, by : Bys,
            question : 0..MaxChallenges, key : Keys \cup {None},
            secret : Secrets \cup {None}, batch : 0..MaxBatches]

RequestOK(o) ==
  /\ <<o.kind, o.at>> \in Stages
  /\ o.kind # "none" => o.user \in Users
  /\ o.kind \in {"signin", "code", "key"} \/ o.at \in {"close", "open"}
       => o.password # 0

\* Every variable holds what its rows, its map or its cookies can hold.
TypeOK ==
  /\ required \in BOOLEAN /\ pinned \in BOOLEAN /\ setting \in BOOLEAN
  /\ password \in [Users -> 1..MaxPasswords]
  /\ totp \in [Users -> Secrets \cup {None}]
  /\ codes \in [Users -> [batch : 0..MaxBatches, unused : SUBSET (1..BatchSize)]]
  /\ owner \in [Keys -> Users \cup {"blank"}]
  /\ opened \in Seq(Session) /\ Len(opened) =< MaxSessions
  /\ live \subseteq DOMAIN opened
  /\ pending \subseteq [user : Users, password : 1..MaxPasswords]
  /\ posed \in 0..MaxChallenges
  /\ challenge \in [Users -> 0..posed]
  /\ minted \in 1..MaxBatches
  /\ stash \in [Users -> 0..MaxBatches]
  /\ restarts \in 0..MaxRestarts /\ served \in Nat
  /\ req \in [Requests -> Request]
  /\ \A r \in Requests : RequestOK(req[r])
  /\ stood \in [Requests -> SUBSET (Secrets \cup Keys)]
  /\ orderly \subseteq Users /\ unclosed \subseteq Users /\ uncoded \subseteq Users

(***************************************************************************)
(* Properties.                                                             *)
(***************************************************************************)

\* No recovery code and no question put to a key opens two sessions, however
\* many requests present it at once and whatever is minted or asked meanwhile:
\* "two requests racing on the same one cannot both succeed"
\* (twofactor.go), and a challenge is taken by its answer (securitykey.go).
ProofsAreSpent ==
  \A i, j \in DOMAIN opened :
    /\ opened[i].user = opened[j].user /\ opened[i].by = opened[j].by
    /\ opened[i].by.how \in {"recovery", "key"}
    => i = j

\* A sign-in goes on with the password alone only if no factor of the account
\* was there from the first of its reads to the last: the secret and the keys
\* are read one after the other, and factors may come and go between the two.
StandingFactorIsAsked ==
  \A r \in Requests : At(r, "signin", "open") => stood[r] = {}

\* A session that rests on a password no longer in force was opened after the
\* change, by a sign-in that had given the old one before; every other is
\* closed by the change, unless its second statement failed or was never run.
OldSessionsAreClosed ==
  \A i \in live :
    LET u == opened[i].user IN
      opened[i].password # password[u] =>
        \/ opened[i].late
        \/ u \in unclosed
        \/ \E r \in Requests : req[r].user = u /\ req[r].at = "close"

\* An account with a factor and no change under way has been given recovery
\* codes, unless the database refused them, and keeps them until its last
\* factor goes: "sans eux, perdre l'objet ferme le compte definitivement"
\* (docs/administration.md).
FactorComesWithCodes ==
  \A u \in orderly \ uncoded :
    FactorsOf(u) # {} /\ Changing(req, u) = {} => codes[u].batch # 0

\* On a server that insists on a second factor, an account that has one keeps
\* one, as long as its changes are made one at a time: disableTwoFactor looks
\* for a key and removeSecurityKey for another factor before they act.
KeepsAFactor(u) ==
  required /\ FactorsIn(totp, owner, u) # {} => FactorsIn(totp', owner', u) # {}

\* The secret of the application changes by enableTwoFactor and
\* disableTwoFactor only; minting codes for a key writes back the one the
\* account had, "the secret it already has must survive" (securitykey.go).
KeepsItsSecret(u) ==
  totp'[u] # totp[u] =>
    \E r \in Requests : req[r].kind \in {"enable", "disable"} /\ req[r].user = u

\* What an account that changes one factor at a time has, a change of another
\* leaves alone: never its last factor, never its secret.
FactorsSurvive == [][\A u \in orderly' : KeepsAFactor(u) /\ KeepsItsSecret(u)]_vars

\* What the documentation says of a change of password: every session of the
\* account is closed by it, so that none goes on with the old password
\* (docs/administration.md, usercmd.go), when its statements all succeed.
PasswordChangeClosesSessions ==
  \A i \in live :
    LET u == opened[i].user IN
      opened[i].password # password[u] =>
        \/ u \in unclosed
        \/ \E r \in Requests : req[r].user = u /\ req[r].at = "close"
=============================================================================
