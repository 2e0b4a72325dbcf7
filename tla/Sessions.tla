-------------------------------- MODULE Sessions --------------------------------
(***************************************************************************)
(* The sessions of one account of the web interface: how long each may     *)
(* last, how it ends, and the password asked for again before an action    *)
(* that cannot be undone.                                                  *)
(*                                                                         *)
(* Every page of the interface runs behind requireLogin, which looks the   *)
(* session up, pushes its expiry back, and holds back what is sensitive or *)
(* what an account owing a second factor may not reach; these are separate *)
(* statements, and so are those of the handlers behind it.  A request may  *)
(* take any time between two of them.                                      *)
(*                                                                         *)
(* Time is kept as what is left: an expiry, a confirmation and the age of  *)
(* a session are distances to now, and Tick moves them all.                *)
(*                                                                         *)
(* internal/web/session.go, confirm.go and login.go,                       *)
(* internal/store/repo_session.go, internal/auth/session.go,               *)
(* cmd/synsec/janitor.go                                                   *)
(***************************************************************************)
EXTENDS Naturals

CONSTANTS
  Tokens,        \* session tokens, drawn at random and never reused
  Requests,      \* requests being served at once, commands of the shell
  Idle,          \* the idle timeout of the server
  SessionMax,    \* what no activity extends
  ConfirmWindow, \* how long a confirmation lasts
  MaxPasswords,  \* bound: passwords the account has in turn
  None

ASSUME IdleAssumption == Idle \in Nat \ {0}
ASSUME MaxAssumption == SessionMax \in Nat \ {0}
ASSUME WindowAssumption == ConfirmWindow \in Nat \ {0}
ASSUME PasswordsAssumption == MaxPasswords \in Nat \ {0}

VARIABLES
  drawn,      \* the tokens issued so far
  row,        \* [Tokens -> its row in the table, or None]
  confirmed,  \* [Tokens -> time until its confirmation lapses, 0 without one]
  by,         \* history: the password typed for that confirmation
  password,   \* the version of the password in force
  unclosed,   \* passwords replaced, whose sessions were not closed since
  req         \* [Requests -> how far it is and what it has read]

table == <<drawn, row>>
confirmations == <<confirmed, by>>
credentials == <<password, unclosed>>
vars == <<table, confirmations, credentials, req>>

Passwords == 1..MaxPasswords

\* left: time until expires_at, 0 once it has passed; age: since created_at;
\* seen: since last_seen_at.
Row == [left : 0..Idle, age : 0..SessionMax, seen : 0..Idle]

ASSUME NoneAssumption == None \notin Tokens \cup Row

rows == {s \in Tokens : row[s] # None}

(***************************************************************************)
(* A request: how far it is behind requireLogin ("found" to "serving"), or *)
(* in what a handler does in several statements.  A sensitive one is held  *)
(* back until the password has been typed again.  Signing in, and a reset  *)
(* by an administrator or from the shell, have no session.                 *)
(***************************************************************************)
Stages == {"none", "found", "touch", "held", "enrol", "serving", "verified",
           "drop", "set", "close", "open"}

NoRequest == [at |-> "none", sensitive |-> FALSE, token |-> None, due |-> 0,
              typed |-> 0, standing |-> {}]

Request == [at : Stages, sensitive : BOOLEAN, token : Tokens \cup {None},
            due : 0..Idle,                \* the expiry computed, not yet stored
            typed : {0} \cup Passwords,   \* history: the password verified
            standing : SUBSET Passwords]  \* history: in force while it ran

At(r, stage) == req[r].at = stage
Goto(r, stage) == req' = [req EXCEPT ![r].at = stage]
Answer(r) == req' = [req EXCEPT ![r] = NoRequest]

\* The passwords that may still speak for the account.
InForce == {password} \cup unclosed

Smaller(m, n) == IF m < n THEN m ELSE n
Sooner(n) == IF n = 0 THEN 0 ELSE n - 1
Older(n, cap) == IF n < cap THEN n + 1 ELSE n

--------------------------------------------------------------------------------
(* requireLogin *)

\* A row that has expired is no session.
Live(s) == s \in rows /\ row[s].left > 0

currentSession(r, s, sensitive) ==
  /\ At(r, "none")
  /\ Live(s)
  /\ req' = [req EXCEPT ![r] =
       [NoRequest EXCEPT !.at = "found", !.token = s, !.sensitive = sensitive,
                         !.standing = IF sensitive THEN InForce ELSE {}]]
  /\ UNCHANGED <<table, confirmations, credentials>>

\* A plausible bug: activity extends a session for ever.
SessionExpiryIdle(age) == Idle

SessionExpiryWith(age) == Smaller(Idle, SessionMax - age)

\* The body has been read and its token is right; the expiry is computed.  What
\* it would be does not matter once the row is gone: it is stored nowhere.
Extend(r) ==
  LET s == req[r].token
  IN /\ At(r, "found")
     /\ req' = [req EXCEPT ![r] = [@ EXCEPT !.at = "touch",
                  !.due = IF s \in rows THEN SessionExpiryWith(row[s].age) ELSE 0]]
     /\ UNCHANGED <<table, confirmations, credentials>>

Admitted(r) ==
  req' = [req EXCEPT ![r] = [@ EXCEPT !.at = IF req[r].sensitive THEN "held" ELSE "enrol",
                                      !.due = 0]]

\* A plausible bug: last_seen_at is not written.
TouchExpiry(r) ==
  LET s == req[r].token
  IN /\ At(r, "touch")
     /\ row' = [row EXCEPT ![s] = IF s \in rows
                                  THEN [@ EXCEPT !.left = req[r].due] ELSE None]
     /\ Admitted(r)
     /\ UNCHANGED <<drawn, confirmations, credentials>>

\* A session deleted or purged meanwhile is updated in no row.
TouchSession(r) ==
  LET s == req[r].token
  IN /\ At(r, "touch")
     /\ row' = [row EXCEPT ![s] = IF s \in rows
                                  THEN [@ EXCEPT !.left = req[r].due, !.seen = 0] ELSE None]
     /\ Admitted(r)
     /\ UNCHANGED <<drawn, confirmations, credentials>>

\* A failure is logged and the page goes on.
TouchFails(r) ==
  /\ At(r, "touch")
  /\ Admitted(r)
  /\ UNCHANGED <<table, confirmations, credentials>>

\* Held back to the page that asks for the password, unless it was typed lately.
needsConfirmation(r) ==
  LET s == req[r].token
  IN /\ At(r, "held")
     /\ IF confirmed[s] = 0 THEN Answer(r)
        ELSE req' = [req EXCEPT ![r] = [@ EXCEPT !.at = "enrol", !.typed = by[s]]]
     /\ UNCHANGED <<table, confirmations, credentials>>

\* Whether the account owes a second factor, and whether this page is one it may
\* reach all the same, is left open here.
mustEnrol(r) ==
  /\ At(r, "enrol")
  /\ Answer(r) \/ Goto(r, "serving")
  /\ UNCHANGED <<table, confirmations, credentials>>

Serving(r) == At(r, "serving") /\ ~req[r].sensitive

\* A handler that changes nothing here, as all the sensitive ones, replies.
Reply(r) ==
  /\ At(r, "serving")
  /\ Answer(r)
  /\ UNCHANGED <<table, confirmations, credentials>>

--------------------------------------------------------------------------------
(* The password, typed again *)

\* doConfirm and changeOwnPassword compare what was typed with the verifier they
\* read, and go on if it is the right one.
verify(r, next, typed) ==
  /\ Serving(r)
  /\ req' = [req EXCEPT ![r] = [@ EXCEPT !.at = next, !.typed = typed]]
  /\ UNCHANGED <<table, confirmations, credentials>>

doConfirm(r) == verify(r, "verified", password)

grant(r) ==
  LET s == req[r].token
  IN /\ At(r, "verified")
     /\ confirmed' = [confirmed EXCEPT ![s] = ConfirmWindow]
     /\ by' = [by EXCEPT ![s] = req[r].typed]
     /\ Answer(r)
     /\ UNCHANGED <<table, credentials>>

--------------------------------------------------------------------------------
(* How a session begins and ends *)

\* doLogin, with every factor given by the time it opens the session.
doLogin(r) ==
  /\ At(r, "none")
  /\ req' = [req EXCEPT ![r] = [NoRequest EXCEPT !.at = "open"]]
  /\ UNCHANGED <<table, confirmations, credentials>>

\* A plausible bug: a new session is given all the time there is.
CreateForMax(r, s) ==
  /\ At(r, "open")
  /\ s \notin drawn
  /\ drawn' = drawn \cup {s}
  /\ row' = [row EXCEPT ![s] = [left |-> SessionMax, age |-> 0, seen |-> 0]]
  /\ Answer(r)
  /\ UNCHANGED <<confirmations, credentials>>

\* establishSession, reissueSession.
CreateSession(r, s) ==
  /\ At(r, "open")
  /\ s \notin drawn
  /\ drawn' = drawn \cup {s}
  /\ row' = [row EXCEPT ![s] = [left |-> SessionExpiryWith(0), age |-> 0, seen |-> 0]]
  /\ Answer(r)
  /\ UNCHANGED <<confirmations, credentials>>

KeepRows(S) == [s \in Tokens |-> IF s \in S THEN row[s] ELSE None]

\* doLogout looks the session up once more; a failure is logged.
DeleteSession(r) ==
  LET s == req[r].token
  IN /\ Serving(r)
     /\ row' \in {row, KeepRows({t \in rows : t = s => ~Live(s)})}
     /\ Goto(r, "drop")
     /\ UNCHANGED <<drawn, confirmations, credentials>>

drop(r) ==
  /\ At(r, "drop")
  /\ confirmed' = [confirmed EXCEPT ![req[r].token] = 0]
  /\ by' = [by EXCEPT ![req[r].token] = 0]
  /\ Answer(r)
  /\ UNCHANGED <<table, credentials>>

changeOwnPassword(r) == verify(r, "set", 0)

\* resetPassword, by an administrator, and synsec utilisateur passwd.
resetPassword(r) ==
  /\ At(r, "none")
  /\ req' = [req EXCEPT ![r] = [NoRequest EXCEPT !.at = "set"]]
  /\ UNCHANGED <<table, confirmations, credentials>>

SetUserCredentials(r) ==
  /\ At(r, "set")
  /\ password < MaxPasswords
  /\ password' = password + 1
  /\ unclosed' = InForce
  /\ req' = [q \in Requests |->
               [req[q] EXCEPT !.at = IF q = r THEN "close" ELSE @,
                              !.standing = IF @ = {} THEN {} ELSE @ \cup {password + 1}]]
  /\ UNCHANGED <<table, confirmations>>

\* The browser that changed its own password is given a new session.
Closed(r) ==
  IF req[r].token = None THEN Answer(r)
  ELSE req' = [req EXCEPT ![r] = [NoRequest EXCEPT !.at = "open"]]

\* A plausible bug: only the other sessions are closed.
DeleteOtherSessions(r) ==
  /\ At(r, "close")
  /\ row' = KeepRows({req[r].token})
  /\ unclosed' = {}
  /\ Closed(r)
  /\ UNCHANGED <<drawn, confirmations, password>>

DeleteUserSessions(r) ==
  /\ At(r, "close")
  /\ row' = KeepRows({})
  /\ unclosed' = {}
  /\ Closed(r)
  /\ UNCHANGED <<drawn, confirmations, password>>

\* A failure is logged by the web server, and said by the shell.
CloseFails(r) ==
  /\ At(r, "close")
  /\ Closed(r)
  /\ UNCHANGED <<table, confirmations, credentials>>

\* sweep, every hour: what has expired goes.
PurgeExpiredSessions ==
  /\ \E s \in rows : ~Live(s)
  /\ row' = KeepRows({s \in rows : Live(s)})
  /\ UNCHANGED <<drawn, confirmations, credentials, req>>

\* A request is refused, fails, or is abandoned by its browser.
Abandon(r) ==
  /\ ~At(r, "none")
  /\ Answer(r)
  /\ UNCHANGED <<table, confirmations, credentials>>

\* Confirmations are kept in memory only.
Restart ==
  /\ confirmed' = [s \in Tokens |-> 0]
  /\ by' = [s \in Tokens |-> 0]
  /\ req' = [r \in Requests |-> NoRequest]
  /\ UNCHANGED <<table, credentials>>

Aged(x) == [left |-> Sooner(x.left), age |-> Older(x.age, SessionMax),
            seen |-> Older(x.seen, Idle)]

Tick ==
  /\ row' = [s \in Tokens |-> IF s \in rows THEN Aged(row[s]) ELSE None]
  /\ confirmed' = [s \in Tokens |-> Sooner(confirmed[s])]
  /\ by' = [s \in Tokens |-> IF confirmed[s] > 1 THEN by[s] ELSE 0]
  /\ req' = [r \in Requests |-> [req[r] EXCEPT !.due = Sooner(@)]]
  /\ UNCHANGED <<drawn, credentials>>

--------------------------------------------------------------------------------
Init ==
  /\ drawn = {}
  /\ row = [s \in Tokens |-> None]
  /\ confirmed = [s \in Tokens |-> 0]
  /\ by = [s \in Tokens |-> 0]
  /\ password = 1 /\ unclosed = {}
  /\ req = [r \in Requests |-> NoRequest]

requireLogin(r) ==
  \/ \E s \in Tokens, sensitive \in BOOLEAN : currentSession(r, s, sensitive)
  \/ Extend(r) \/ TouchSession(r) \/ TouchFails(r)
  \/ needsConfirmation(r) \/ mustEnrol(r)

Handle(r) ==
  \/ Reply(r) \/ doConfirm(r) \/ grant(r)
  \/ doLogin(r) \/ \E s \in Tokens : CreateSession(r, s)
  \/ DeleteSession(r) \/ drop(r)
  \/ changeOwnPassword(r) \/ resetPassword(r)
  \/ SetUserCredentials(r) \/ DeleteUserSessions(r) \/ CloseFails(r)
  \/ Abandon(r)

Next ==
  \/ \E r \in Requests : requireLogin(r) \/ Handle(r)
  \/ PurgeExpiredSessions
  \/ Restart
  \/ Tick

Spec == Init /\ [][Next]_vars

\* Time goes on, and one of the sweeps succeeds: the loop survives its failures.
Fairness == WF_vars(Tick) /\ WF_vars(PurgeExpiredSessions)

FairSpec == Spec /\ Fairness

--------------------------------------------------------------------------------
(* Safety *)

\* Every variable holds what its row, its map or its request can hold.
TypeOK ==
  /\ drawn \subseteq Tokens /\ rows \subseteq drawn
  /\ row \in [Tokens -> Row \cup {None}]
  /\ confirmed \in [Tokens -> 0..ConfirmWindow]
  /\ by \in [Tokens -> {0} \cup Passwords]
  /\ password \in Passwords /\ unclosed \subseteq Passwords
  /\ req \in [Requests -> Request]

\* A session that nobody has used for the idle timeout has lapsed, and so has one
\* older than the ceiling, although the expiry is computed before it is stored
\* and requests store theirs in any order: "what dies is the tab left open on an
\* unlocked machine", "the hard stop that no amount of activity can extend"
\* (auth/session.go).
LapsesInTime ==
  \A s \in rows :
    /\ row[s].left + row[s].seen <= Idle
    /\ row[s].left + row[s].age <= SessionMax

\* What cannot be undone is done by somebody who typed a password of the account
\* that was in force while the request ran, or whose change had not closed the
\* sessions yet: however a confirmation, a change of password and a sign-out
\* overlap, none is left standing for a session that lives on (confirm.go).
ConfirmedByItsPassword ==
  \A r \in Requests :
    At(r, "serving") /\ req[r].sensitive => req[r].typed \in req[r].standing

--------------------------------------------------------------------------------
(* What must eventually happen *)

\* Every session ends and leaves the table, however busy its browser keeps it.
EverySessionEnds == \A s \in Tokens : s \in rows ~> s \notin rows
================================================================================
