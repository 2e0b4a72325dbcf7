----------------------------- MODULE AlertWatcher -----------------------------
(***************************************************************************)
(* The follower of the journal that turns its lines into messages:         *)
(* internal/alert/watcher.go, kinds.go, settings.go and webhook.go, over   *)
(* the rows of internal/store/repo_audit.go, repo_seen.go and              *)
(* repo_settings.go, beside the two surfaces that configure it             *)
(* (internal/web/alerts.go, cmd/synsec/alertcmd.go) and the janitor that   *)
(* ages the journal (cmd/synsec/janitor.go).                               *)
(*                                                                         *)
(* A journal line keeps what the watcher tells lines apart by: its action  *)
(* and the address it came from; the actor, the vault and the target are   *)
(* the same for all.  Its number is its place in the journal.  Time is     *)
(* kept as ages and as what is left to wait, so that it needs no bound.    *)
(* Reads and writes of the database are statements of their own; what      *)
(* several statements of the watcher touch and nothing else does (the      *)
(* addresses seen, its cursor) is one step.                                *)
(***************************************************************************)
EXTENDS Integers, Sequences, FiniteSets

CONSTANTS Actions,    \* the actions that lines of the journal carry
          Addresses,  \* client addresses
          OldLines,   \* what the journal holds when the watcher first starts
          Levels,     \* the severities somebody may choose as the level
          Faults,     \* which statements may fail: "start", "config", "note",
                      \* "cursor", "post"
          FlushAfter, MuteFor, DailyCap, BatchSize, MaxRounds, MaxAttempts,
          MaxLines,   \* bound: lines ever written to the journal
          MaxTrouble  \* bound: changes of the configuration, statements that
                      \* fail, stops of the server and sweeps of the janitor

Info == 0
Warning == 1
Critical == 2

\* The rules of kinds.go: a kind and its severity, and the actions it is made of.
rules ==
  {[kind |-> "vault.recovered", sev |-> Critical, actions |-> {"vault.recovered"}],
   [kind |-> "auth.locked", sev |-> Critical, actions |-> {"auth.throttled"}],
   [kind |-> "vault.deleted", sev |-> Critical, actions |-> {"vault.delete"}],
   [kind |-> "secret.deleted", sev |-> Critical, actions |-> {"secret.delete"}],
   [kind |-> "access.granted", sev |-> Warning,
    actions |-> {"vault.grant", "vault.share", "secret.share", "share.grant", "audit.grant"}],
   [kind |-> "token.created", sev |-> Warning, actions |-> {"token.create"}],
   [kind |-> "token.scope", sev |-> Warning, actions |-> {"token.scope"}],
   [kind |-> "account.changed", sev |-> Warning,
    actions |-> {"user.create", "user.delete", "user.password", "auth.recovery",
                 "auth.2fa.disable", "auth.key.remove"}],
   [kind |-> "server.policy", sev |-> Warning,
    actions |-> {"server.policy", "secret.pin", "secret.unpin"}],
   [kind |-> "auth.failed", sev |-> Info, actions |-> {"auth.failed"}],
   [kind |-> "account.changed", sev |-> Info, actions |-> {"secret.import"}],
   [kind |-> "server.policy", sev |-> Info, actions |-> {"vault.rotate", "secret.revert"}]}

\* A refusal is told apart by its cause, the detail of the line: the address,
\* the scope of the token, or anything else.
refusals ==
  {[kind |-> "access.denied.address", sev |-> Critical, actions |-> {"access.denied/address"}],
   [kind |-> "access.denied.scope", sev |-> Warning, actions |-> {"access.denied/scope"}],
   [kind |-> "access.denied", sev |-> Critical, actions |-> {"access.denied"}]}

\* What a line's action becomes: at most one rule; none is a line that is not told.
classify(action) == {r \in rules \cup refusals : action \in r.actions}

AddressRule == [kind |-> "address.new", sev |-> Info]

Kinds == {r.kind : r \in rules \cup refusals} \cup {AddressRule.kind}

Lines == [action : Actions, ip : Addresses]
PolicyLine == "server.policy"

ASSUME ConstantsAssumption ==
  /\ FlushAfter \in Nat \ {0} /\ MuteFor \in Nat \ {0} /\ DailyCap \in Nat \ {0}
  /\ BatchSize \in Nat \ {0} /\ MaxRounds \in Nat \ {0} /\ MaxAttempts \in Nat \ {0}
  /\ MaxLines \in Nat /\ MaxTrouble \in Nat
ASSUME LinesAssumption ==
  /\ OldLines \in Seq(Lines) /\ PolicyLine \in Actions
  /\ Levels \subseteq Info..Critical /\ Levels # {}

VARIABLES
  journal,    \* every line ever written, in order: its number is its place
  purged,     \* how many of the oldest lines have been deleted
  saved,      \* the cursor of the database; -1 before the first start
  seen,       \* addresses the actor was seen at
  config,     \* the settings: [enabled, level, url]
  edit,       \* what a change of the settings in flight still has to write
  pc,         \* where the watcher is
  cfg,        \* the settings this pass has read
  at,         \* the cursor of this pass
  last,       \* the last line of the page in memory
  round,      \* pages read by this pass
  pending,    \* [kind and address -> the event waiting]
  age,        \* for how long the oldest has waited, up to FlushAfter
  muted,      \* [Kinds -> for how long it stays quiet]
  sentToday,
  sameDay,    \* sentDay is today
  batch,      \* the events of the message being sent
  attempt,
  wanted,     \* history: lines every configuration since has wanted announced
  taken,      \* history: the news taken out of what waits, to be sent or barred
  lost,       \* history: the news a stop has lost
  outToday,   \* history: events handed to the sender since midnight
  budget      \* what is left of MaxTrouble

database == <<journal, purged, saved, seen, config, edit>>
pass == <<pc, cfg, at, last, round>>
held == <<pending, age, muted, sentToday, sameDay>>
message == <<batch, attempt>>
history == <<wanted, taken, lost, outToday>>
vars == <<database, pass, held, message, history, budget>>

Configs == [enabled : BOOLEAN, level : Levels, url : BOOLEAN]
NoConfig == CHOOSE c \in Configs : ~c.enabled
NoEvents == [k \in {} |-> 0]

\* A piece of news is a line under a kind; those a set of events stands for.
NewsOf(events) == UNION {{<<e.kind, i>> : i \in e.lines} : e \in events}
Waiting == {pending[k] : k \in DOMAIN pending}

\* A configuration that has a line announced.
Wants(c, line) == c.enabled /\ \E r \in classify(line.action) : r.sev >= c.level

-----------------------------------------------------------------------------
(* The journal, the settings and the janitor.  The four values a pass reads  *)
(* of the settings are read at once: a mix of two settings announces no      *)
(* more and no less than NothingMissed asks.                                 *)

May(fault) == fault \in Faults /\ budget > 0
Spent == budget > 0 /\ budget' = budget - 1

\* A line is written by the server or by a command, whether the watcher runs or not.
Written(line) ==
  /\ journal' = Append(journal, line)
  /\ wanted' = IF Wants(config, line) /\ (pc \in {"idle", "down"} \/ Wants(cfg, line))
               THEN wanted \cup {Len(journal) + 1} ELSE wanted

AppendAudit ==
  /\ Len(journal) < MaxLines
  /\ \E line \in Lines : line.action # PolicyLine /\ Written(line)
  /\ UNCHANGED <<purged, saved, seen, config, edit, pass, held, message,
                 taken, lost, outToday, budget>>

\* The four writes of the page, or the one of a command, then the line that says so.
Url(on) == [field |-> "url", value |-> on]
Enabled(on) == [field |-> "enabled", value |-> on]
Level(l) == [field |-> "level", value |-> l]
Said == [field |-> "line", value |-> TRUE]

saveAlerts(want, url, level) ==
  /\ ~(want /\ ~url)
  /\ edit' = <<Url(url), Enabled(want), Level(level), Said>>

runAlertsWebhook(url) == edit' = <<Url(url), Said>>

runAlertsLevel(level) == edit' = <<Level(level), Said>>

runAlertsSwitch(on) ==
  /\ on => config.url
  /\ edit' = <<Enabled(on), Said>>

StartEdit ==
  /\ edit = <<>> /\ budget > 0
  /\ \/ \E want, url \in BOOLEAN, level \in Levels : saveAlerts(want, url, level)
     \/ \E url \in BOOLEAN : runAlertsWebhook(url)
     \/ \E level \in Levels : runAlertsLevel(level)
     \/ \E on \in BOOLEAN : runAlertsSwitch(on)
  /\ Spent
  /\ UNCHANGED <<journal, purged, saved, seen, config, pass, held, message, history>>

\* One write of the change; a line written earlier stays wanted if it still is.
WriteSetting ==
  /\ edit # <<>> /\ Head(edit).field # "line"
  /\ config' = [config EXCEPT ![Head(edit).field] = Head(edit).value]
  /\ edit' = Tail(edit)
  /\ wanted' = {i \in wanted : Wants(config', journal[i])}
  /\ UNCHANGED <<journal, purged, saved, seen, pass, held, message,
                 taken, lost, outToday, budget>>

\* The line that records it.  The append is best effort: it may be missing.
SaySetting ==
  /\ edit # <<>> /\ Head(edit).field = "line"
  /\ edit' = Tail(edit)
  /\ \/ /\ Len(journal) < MaxLines
        /\ \E ip \in Addresses : Written([action |-> PolicyLine, ip |-> ip])
     \/ UNCHANGED <<journal, wanted>>
  /\ UNCHANGED <<purged, saved, seen, config, pass, held, message,
                 taken, lost, outToday, budget>>

\* A change that fails half-way leaves what it wrote.
EditFails ==
  /\ edit # <<>> /\ Head(edit).field # "line" /\ budget > 0
  /\ edit' = <<>>
  /\ Spent
  /\ UNCHANGED <<journal, purged, saved, seen, config, pass, held, message, history>>

\* The janitor deletes what is older than the retention the owner chose.
PurgeAuditBefore ==
  /\ budget > 0
  /\ purged' \in purged + 1 .. Len(journal)
  /\ Spent
  /\ UNCHANGED <<journal, saved, seen, config, edit, pass, held, message, history>>

-----------------------------------------------------------------------------
(* The watcher.                                                             *)

\* LastAuditID of what is left of the journal: 0 when nothing is.
LastAuditID == IF purged = Len(journal) THEN 0 ELSE Len(journal)

\* A new process; the first one ever places the cursor at the end.
Start ==
  /\ pc = "down"
  /\ pc' = "idle"
  /\ saved' = IF saved = -1 THEN LastAuditID ELSE saved
  /\ wanted' = IF saved = -1 THEN {} ELSE wanted
  /\ UNCHANGED <<journal, purged, seen, config, edit, cfg, at, last, round,
                 held, message, taken, lost, outToday, budget>>

\* The cursor could not be placed: the error is noted and the watcher runs.
StartFails ==
  /\ pc = "down" /\ saved = -1 /\ May("start")
  /\ pc' = "idle"
  /\ Spent
  /\ UNCHANGED <<database, cfg, at, last, round, held, message, history>>

\* Mutant: a mute is never over.
LessNever(n) == n

\* Time passes, by one turn of the ticker; midnight may.
Less(n) == IF n > 0 THEN n - 1 ELSE 0

Elapse ==
  /\ age' = IF pending # NoEvents /\ age < FlushAfter THEN age + 1 ELSE age
  /\ muted' = [k \in Kinds |-> Less(muted[k])]
  /\ \/ UNCHANGED <<sameDay, outToday>>
     \/ sameDay' = FALSE /\ outToday' = 0
  /\ UNCHANGED <<pending, sentToday, wanted, taken, lost>>

\* The ticker has a pass begin by reading the settings, then where it stopped.
ReadConfig ==
  /\ pc = "idle"
  /\ Elapse
  /\ pc' = "reading"
  /\ cfg' = [config EXCEPT !.url = config.enabled /\ config.url]
  /\ at' = IF saved = -1 THEN 0 ELSE saved
  /\ last' = at'
  /\ round' = 0
  /\ UNCHANGED <<database, message, budget>>

\* They cannot be read, the server being sealed for one: no pass.
ConfigFails ==
  /\ pc = "idle" /\ config.enabled /\ May("config")
  /\ Elapse
  /\ Spent
  /\ UNCHANGED <<database, pass, message>>

\* AuditSince: the next lines there are, at most a page of them.
LinesSince(cursor) == Len(journal) - (IF purged > cursor THEN purged ELSE cursor)

AuditSince ==
  /\ pc = "reading" /\ at = last /\ round < MaxRounds
  /\ LinesSince(at) > 0
  /\ LET from == IF purged > at THEN purged ELSE at
     IN /\ at' = from
        /\ last' = IF LinesSince(at) > BatchSize THEN from + BatchSize ELSE Len(journal)
        /\ round' = IF LinesSince(at) < BatchSize THEN MaxRounds ELSE round + 1
  /\ UNCHANGED <<database, pc, cfg, held, message, history, budget>>

CaughtUp ==
  /\ pc = "reading" /\ at = last
  /\ round = MaxRounds \/ LinesSince(at) = 0
  /\ pc' = IF round > 0 THEN "saving" ELSE "flushing"
  /\ UNCHANGED <<database, cfg, at, last, round, held, message, history, budget>>

\* A first address is recorded quietly; a new one is worth an event.
AddressNew(ip) == seen # {} /\ ip \notin seen

\* An event is folded into the one waiting under the same key.
hold(waiting, rule, line, i) ==
  LET key == <<rule.kind, line.ip>>
  IN IF rule.sev < cfg.level
     THEN waiting
     ELSE IF key \in DOMAIN waiting
     THEN [waiting EXCEPT ![key].count = @ + 1, ![key].lines = @ \cup {i}]
     ELSE [k \in DOMAIN waiting \cup {key} |->
             IF k = key
             THEN [kind |-> rule.kind, sev |-> rule.sev, action |-> line.action,
                   count |-> 1, lines |-> {i}]
             ELSE waiting[k]]

\* The events of a line: its address, then its rule.
holdAll(waiting, line, i) ==
  LET addressed == IF AddressNew(line.ip)
                   THEN hold(waiting, AddressRule, line, i) ELSE waiting
  IN IF classify(line.action) = {} THEN addressed
     ELSE hold(addressed, CHOOSE r \in classify(line.action) : TRUE, line, i)

\* One line of the page: its address is noted in a transaction, whoever listens.
absorb ==
  /\ pc = "reading" /\ at < last
  /\ LET i == at + 1
         line == journal[i]
     IN /\ at' = i
        /\ seen' = seen \cup {line.ip}
        /\ pending' = IF cfg.enabled THEN holdAll(pending, line, i) ELSE pending
  /\ age' = IF pending = NoEvents THEN 0 ELSE age
  /\ UNCHANGED <<journal, purged, saved, config, edit, pc, cfg, last, round,
                 muted, sentToday, sameDay, message, history, budget>>

\* Mutant: the line that could not be noted is stepped over.
NoteAddressSkips ==
  /\ pc = "reading" /\ at < last /\ May("note")
  /\ at' = at + 1
  /\ Spent
  /\ UNCHANGED <<database, pc, cfg, last, round, held, message, history>>

\* The transaction fails: the pass ends, with the cursor where it was and what
\* it has held still held.
NoteAddressFails ==
  /\ pc = "reading" /\ at < last /\ May("note")
  /\ pc' = "idle"
  /\ Spent
  /\ UNCHANGED <<database, cfg, at, last, round, held, message, history>>

SaveCursor ==
  /\ pc = "saving"
  /\ saved' = at
  /\ pc' = "flushing"
  /\ UNCHANGED <<journal, purged, seen, config, edit, cfg, at, last, round,
                 held, message, history, budget>>

\* Mutant: a cursor that could not be saved does not end the pass.
SaveCursorIgnored ==
  /\ pc = "saving" /\ May("cursor")
  /\ pc' = "flushing"
  /\ Spent
  /\ UNCHANGED <<database, cfg, at, last, round, held, message, history>>

SaveCursorFails ==
  /\ pc = "saving" /\ May("cursor")
  /\ pc' = "idle"
  /\ Spent
  /\ UNCHANGED <<database, cfg, at, last, round, held, message, history>>

\* The clock is read when an event is held and when the pass would send: a pass
\* that takes its time takes it in between.
SlowPass ==
  /\ pc = "flushing"
  /\ Elapse
  /\ UNCHANGED <<database, pass, message, budget>>

\* Nothing is due: the pass is over.
NothingDue ==
  /\ pc = "flushing"
  /\ pending = NoEvents \/ age < FlushAfter
  /\ pc' = "idle"
  /\ UNCHANGED <<database, cfg, at, last, round, held, message, history, budget>>

\* What is taken when the window is over: everything that is not muted.
Ready == {k \in DOMAIN pending : muted[pending[k].kind] = 0}

\* Mutant: the ceiling is looked at before this message is counted.
chargeBefore(n) ==
  LET before == IF sameDay THEN sentToday ELSE 0
  IN IF before > DailyCap THEN [sent |-> before, verdict |-> "barred"]
     ELSE [sent |-> before + n, verdict |-> IF before >= DailyCap THEN "reached" ELSE "free"]

\* Against the ceiling of the day: barred already, reached now, or neither.
chargeLocked(n) ==
  LET before == IF sameDay THEN sentToday ELSE 0
  IN IF before >= DailyCap THEN [sent |-> before, verdict |-> "barred"]
     ELSE [sent |-> before + n,
           verdict |-> IF before + n >= DailyCap THEN "reached" ELSE "free"]

Capped == [kind |-> "alert.capped", sev |-> Warning, action |-> "alert.capped",
           count |-> 1, lines |-> {}]

flush ==
  /\ pc = "flushing"
  /\ pending # NoEvents /\ age >= FlushAfter
  /\ LET ready == {pending[k] : k \in Ready}
         charge == chargeLocked(Cardinality(ready))
     IN /\ pending' = [k \in DOMAIN pending \ Ready |-> pending[k]]
        /\ age' = 0
        /\ IF ready = {}
           THEN /\ pc' = "idle"
                /\ UNCHANGED <<muted, sentToday, sameDay, message, taken, outToday>>
           ELSE /\ muted' = [k \in Kinds |->
                               IF \E e \in ready : e.kind = k THEN MuteFor ELSE muted[k]]
                /\ sentToday' = charge.sent
                /\ sameDay' = TRUE
                /\ pc' = IF charge.verdict = "barred" THEN "idle" ELSE "sending"
                /\ batch' = CASE charge.verdict = "free" -> ready
                              [] charge.verdict = "reached" -> {Capped}
                              [] OTHER -> {}
                /\ attempt' = IF charge.verdict = "barred" THEN 0 ELSE 1
                /\ taken' = taken \cup NewsOf(ready)
                /\ outToday' = outToday + Cardinality(batch')
  /\ UNCHANGED <<database, cfg, at, last, round, wanted, lost, budget>>

\* Mutant: the message stays behind.
OverKeeps ==
  /\ attempt' = 0
  /\ pc' = "idle"
  /\ UNCHANGED batch

\* The message is over, one way or the other, and so is the pass.
Over ==
  /\ batch' = {}
  /\ attempt' = 0
  /\ pc' = "idle"

\* It arrives; or there is no destination, and nothing is tried.
send ==
  /\ pc = "sending"
  /\ Over
  /\ UNCHANGED <<database, cfg, at, last, round, held, history, budget>>

\* The receiver says no: an answer, and the last one.
Refused ==
  /\ pc = "sending" /\ cfg.url /\ May("post")
  /\ Over
  /\ Spent
  /\ UNCHANGED <<database, cfg, at, last, round, held, history>>

\* It cannot be reached, or its answer is lost: another attempt, or the end.
Unreachable ==
  /\ pc = "sending" /\ cfg.url /\ May("post")
  /\ IF attempt < MaxAttempts
     THEN attempt' = attempt + 1 /\ UNCHANGED <<pc, batch>>
     ELSE Over
  /\ Spent
  /\ UNCHANGED <<database, cfg, at, last, round, held, history>>

\* The process stops: what it holds in memory is lost.
Crash ==
  /\ pc # "down" /\ budget > 0
  /\ pc' = "down"
  /\ cfg' = NoConfig /\ at' = 0 /\ last' = 0 /\ round' = 0
  /\ pending' = NoEvents /\ age' = 0
  /\ muted' = [k \in Kinds |-> 0]
  /\ sentToday' = 0 /\ sameDay' = FALSE /\ outToday' = 0
  /\ batch' = {} /\ attempt' = 0
  /\ lost' = lost \cup {n \in NewsOf(Waiting) : n[2] <= saved}
  /\ Spent
  /\ UNCHANGED <<database, wanted, taken>>

-----------------------------------------------------------------------------

Init ==
  /\ journal = OldLines /\ purged = 0 /\ saved = -1 /\ seen = {}
  /\ config \in {c \in Configs : c.enabled => c.url}
  /\ edit = <<>>
  /\ pc = "down" /\ cfg = NoConfig /\ at = 0 /\ last = 0 /\ round = 0
  /\ pending = NoEvents /\ age = 0 /\ muted = [k \in Kinds |-> 0]
  /\ sentToday = 0 /\ sameDay = FALSE
  /\ batch = {} /\ attempt = 0
  /\ wanted = {} /\ taken = {} /\ lost = {} /\ outToday = 0
  /\ budget = MaxTrouble

Settings == StartEdit \/ WriteSetting \/ SaySetting \/ EditFails

Pass == \/ Start \/ ReadConfig \/ AuditSince \/ CaughtUp \/ absorb \/ SaveCursor
        \/ NothingDue \/ flush \/ send

Failures == \/ StartFails \/ ConfigFails \/ NoteAddressFails \/ SaveCursorFails
            \/ Refused \/ Unreachable \/ Crash

Next == AppendAudit \/ Settings \/ PurgeAuditBefore \/ Pass \/ SlowPass \/ Failures

Spec == Init /\ [][Next]_vars

\* The ticker of Run calls pass for ever, and a service that stops is started
\* again (Restart=always of its unit).
Fairness == WF_vars(Pass)
FairSpec == Spec /\ Fairness

-----------------------------------------------------------------------------
(* Properties.                                                              *)

Events == [kind : Kinds \cup {Capped.kind}, sev : Info..Critical,
           action : Actions \cup {Capped.action}, count : Nat, lines : SUBSET (1..Len(journal))]

\* What the variables hold: an event waits under its own kind, nothing waits
\* with an age and nothing is sent outside of sending.
TypeOK ==
  /\ journal \in Seq(Lines) /\ purged \in 0..Len(journal)
  /\ saved \in -1..Len(journal) /\ seen \subseteq Addresses /\ config \in Configs
  /\ pc \in {"down", "idle", "reading", "saving", "flushing", "sending"}
  /\ cfg \in Configs /\ at \in 0..Len(journal) /\ last \in at..Len(journal)
  /\ round \in 0..MaxRounds
  /\ DOMAIN pending \subseteq Kinds \X Addresses
  /\ \A k \in DOMAIN pending : pending[k] \in Events /\ pending[k].kind = k[1]
  /\ age \in 0..FlushAfter /\ (pending = NoEvents => age = 0)
  /\ muted \in [Kinds -> 0..MuteFor] /\ sentToday \in Nat /\ sameDay \in BOOLEAN
  /\ batch \subseteq Events /\ (batch # {} <=> pc = "sending") /\ attempt \in 0..MaxAttempts

\* A line that every configuration wanted announced, the one a pass in flight
\* has read included, is never passed over: once the cursor is saved beyond
\* it, its event waits, was taken to be sent (or barred by the ceiling), or
\* was lost by a stop while it waited - whatever fails in between, and unless
\* it was deleted before it was read.
NothingMissed ==
  \A i \in wanted :
    \/ i > saved \/ i <= purged
    \/ \E r \in classify(journal[i].action) :
         <<r.kind, i>> \in NewsOf(Waiting) \cup taken \cup lost

\* No message carries a line that an earlier message of the same kind carried,
\* whatever pass failed and was read again, and across stops and restarts.
AnnouncedOnce ==
  [][taken' # taken => (NewsOf(Waiting) \ NewsOf({pending'[k] : k \in DOMAIN pending'}))
                          \cap taken = {}]_vars

\* What is handed to the sender between two midnights, the notice included,
\* stays within the ceiling, for as long as the process runs.
CeilingHolds == outToday <= DailyCap

\* Everything that is wanted leaves the journal's queue and the buffer: muted
\* kinds come out, failed passes are read again, a stop is followed by a start.
WantedIsSettled ==
  []<>(\A i \in wanted : i <= purged \/ \E n \in taken \cup lost : n[2] = i)
================================================================================
