------------------------- MODULE AlertWatcher_proofs -------------------------
(***************************************************************************)
(* Proofs about AlertWatcher, for every set of actions, addresses, levels  *)
(* and faults, every page, ceiling, window and mute, and with no bound on  *)
(* the lines of the journal or on what may go wrong.                       *)
(***************************************************************************)
EXTENDS AlertWatcher, FiniteSetTheorems, FunctionTheorems, SequenceTheorems, TLAPS

-----------------------------------------------------------------------------
(***************************************************************************)
(* The rules: a line is of one at most.                                    *)
(***************************************************************************)
Rules == rules \cup refusals

RuleOK(r) == r.kind \in Kinds /\ r.sev \in Info..Critical

LEMMA RulesAreTyped == \A r \in Rules : RuleOK(r)
<1>1. \A r \in Rules : r.kind \in Kinds
  BY DEF Rules, Kinds
<1>2. \A r \in Rules : r.sev \in Info..Critical
  BY DEF Rules, rules, refusals, Info, Warning, Critical
<1> QED
  BY <1>1, <1>2 DEF RuleOK

LEMMA AddressRuleIsTyped == RuleOK(AddressRule)
BY DEF RuleOK, AddressRule, Kinds, Info, Critical

LEMMA OneRule ==
  ASSUME NEW action, NEW r1 \in classify(action), NEW r2 \in classify(action)
  PROVE  r1 = r2
BY DEF classify, rules, refusals

-----------------------------------------------------------------------------
(***************************************************************************)
(* What waits: a function from keys to events of their kind, finitely many,*)
(* about lines of the journal.                                             *)
(***************************************************************************)
EventsTo(n) == [kind : Kinds \cup {Capped.kind}, sev : Info..Critical,
                action : Actions \cup {Capped.action}, count : Nat, lines : SUBSET (1..n)]

Holds(w, n) ==
  /\ DOMAIN w \subseteq Kinds \X Addresses /\ IsFiniteSet(DOMAIN w)
  /\ w \in [DOMAIN w -> EventsTo(n)]
  /\ \A k \in DOMAIN w : w[k].kind = k[1]

NewsIn(w) == NewsOf({w[k] : k \in DOMAIN w})

LEMMA NewsMember ==
  ASSUME NEW w, NEW n
  PROVE  n \in NewsIn(w) <=> \E k \in DOMAIN w : \E i \in w[k].lines : n = <<w[k].kind, i>>
BY DEF NewsIn, NewsOf

LEMMA NothingHeld == Holds(NoEvents, 0) /\ NewsIn(NoEvents) = {} /\ DOMAIN NoEvents = {}
<1>1. DOMAIN NoEvents = {}
  BY DEF NoEvents
<1>2. NoEvents \in [{} -> EventsTo(0)]
  BY DEF NoEvents
<1> QED
  BY <1>1, <1>2, NewsMember, FS_EmptySet DEF Holds

LEMMA EmptyIsNothing ==
  ASSUME NEW w, NEW n, Holds(w, n), DOMAIN w = {}
  PROVE  w = NoEvents
BY DEF Holds, NoEvents

LEMMA HoldsOn ==
  ASSUME NEW w, NEW m \in Nat, NEW n \in Nat, m =< n, Holds(w, m)
  PROVE  Holds(w, n)
BY DEF Holds, EventsTo

LEMMA NewsAreOfLines ==
  ASSUME NEW w, NEW n \in Nat, Holds(w, n), NEW m \in NewsIn(w)
  PROVE  m \in Kinds \X (1..n) /\ m[1] \in Kinds /\ m[2] \in 1..n
<1>1. PICK k \in DOMAIN w : \E i \in w[k].lines : m = <<w[k].kind, i>>
  BY NewsMember
<1>2. PICK i \in w[k].lines : m = <<w[k].kind, i>>
  BY <1>1
<1>3. w[k].kind \in Kinds /\ w[k].lines \subseteq 1..n
  BY DEF Holds, EventsTo
<1> QED
  BY <1>2, <1>3

\* An event held is one more, or folded into the one that waits under its key.
LEMMA HoldFacts ==
  ASSUME NEW w, NEW n \in Nat, Holds(w, n), NEW rule, RuleOK(rule),
         NEW line \in Lines, NEW i \in 1..n
  PROVE  /\ Holds(hold(w, rule, line, i), n)
         /\ NewsIn(w) \subseteq NewsIn(hold(w, rule, line, i))
         /\ NewsIn(hold(w, rule, line, i)) \subseteq NewsIn(w) \cup {<<rule.kind, i>>}
         /\ ~(rule.sev < cfg.level) => <<rule.kind, i>> \in NewsIn(hold(w, rule, line, i))
         /\ DOMAIN w \subseteq DOMAIN hold(w, rule, line, i)
<1> DEFINE key == <<rule.kind, line.ip>>
<1>0. key \in Kinds \X Addresses /\ line.action \in Actions
      /\ rule.kind \in Kinds /\ rule.sev \in Info..Critical
  BY DEF Lines, RuleOK
<1>1. CASE rule.sev < cfg.level
  BY <1>1 DEF hold
<1>2. CASE ~(rule.sev < cfg.level) /\ key \in DOMAIN w
  <2> DEFINE v == [w EXCEPT ![key].count = @ + 1, ![key].lines = @ \cup {i}]
  <2>1. hold(w, rule, line, i) = v
    BY <1>2 DEF hold
  <2>2. /\ DOMAIN v = DOMAIN w /\ \A k \in DOMAIN w : k # key => v[k] = w[k]
        /\ v[key] = [w[key] EXCEPT !.count = w[key].count + 1,
                                     !.lines = w[key].lines \cup {i}]
    BY <1>2 DEF Holds, EventsTo
  <2>3. w[key] \in EventsTo(n) /\ w[key].kind = rule.kind
    BY <1>2 DEF Holds
  <2>4. v[key] \in EventsTo(n) /\ v[key].kind = rule.kind /\ v[key].lines = w[key].lines \cup {i}
    <3>1. PICK e \in EventsTo(n) : e = w[key]
      BY <2>3
    <3>2. e.count + 1 \in Nat /\ e.lines \cup {i} \in SUBSET (1..n)
      BY DEF EventsTo
    <3>3. PICK c \in Nat, l \in SUBSET (1..n) : c = e.count + 1 /\ l = e.lines \cup {i}
      BY <3>2
    <3>4. PICK f : f = v[key]
      OBVIOUS
    <3>5. f = [e EXCEPT !.count = c, !.lines = l]
      BY <2>2, <3>1, <3>3, <3>4
    <3>6. f \in EventsTo(n) /\ f.kind = e.kind /\ f.lines = l
      BY <3>5 DEF EventsTo
    <3> QED
      BY <2>3, <3>1, <3>3, <3>4, <3>6
  <2>5. v \in [DOMAIN v -> EventsTo(n)]
    BY <2>2, <2>4 DEF Holds
  <2>6. \A k \in DOMAIN v : v[k].kind = w[k].kind /\ w[k].lines \subseteq v[k].lines
    BY <2>2, <2>3, <2>4
  <2>7. \A k \in DOMAIN v : v[k].lines \subseteq w[k].lines \cup (IF k = key THEN {i} ELSE {})
    BY <2>2, <2>4
  <2> HIDE DEF v
  <2>8. Holds(v, n)
    BY <2>2, <2>5, <2>6 DEF Holds
  <2>9. NewsIn(w) \subseteq NewsIn(v)
    BY <2>2, <2>6, NewsMember
  <2>10. NewsIn(v) \subseteq NewsIn(w) \cup {<<rule.kind, i>>}
    <3> SUFFICES ASSUME NEW m \in NewsIn(v), m # <<rule.kind, i>> PROVE m \in NewsIn(w)
      OBVIOUS
    <3>1. PICK k \in DOMAIN v : \E j \in v[k].lines : m = <<v[k].kind, j>>
      BY NewsMember
    <3>2. PICK j \in v[k].lines : m = <<v[k].kind, j>>
      BY <3>1
    <3>3. j \in w[k].lines
      BY <2>4, <2>7, <3>2
    <3> QED
      BY <2>2, <2>6, <3>2, <3>3, NewsMember
  <2>11. <<rule.kind, i>> \in NewsIn(v)
    BY <1>2, <2>2, <2>4, NewsMember
  <2> QED
    BY <2>1, <2>2, <2>8, <2>9, <2>10, <2>11
<1>3. CASE ~(rule.sev < cfg.level) /\ key \notin DOMAIN w
  <2> DEFINE e == [kind |-> rule.kind, sev |-> rule.sev, action |-> line.action,
                   count |-> 1, lines |-> {i}]
             v == [k \in DOMAIN w \cup {key} |-> IF k = key THEN e ELSE w[k]]
  <2>1. hold(w, rule, line, i) = v
    BY <1>3 DEF hold
  <2>2. e \in EventsTo(n) /\ e.kind = rule.kind /\ e.lines = {i}
    BY <1>0 DEF EventsTo
  <2> HIDE DEF e
  <2>3. /\ DOMAIN v = DOMAIN w \cup {key} /\ v[key] = e
        /\ \A k \in DOMAIN w : v[k] = w[k]
    BY <1>3
  <2>4. v \in [DOMAIN v -> EventsTo(n)]
    BY <2>2 DEF Holds
  <2> HIDE DEF v
  <2>5. IsFiniteSet(DOMAIN v)
    BY <2>3, FS_AddElement DEF Holds
  <2>6. Holds(v, n)
    BY <1>0, <2>2, <2>3, <2>4, <2>5 DEF Holds
  <2>7. NewsIn(w) \subseteq NewsIn(v)
    BY <2>3, NewsMember
  <2>8. NewsIn(v) \subseteq NewsIn(w) \cup {<<rule.kind, i>>}
    BY <2>2, <2>3, NewsMember
  <2>9. <<rule.kind, i>> \in NewsIn(v)
    BY <2>2, <2>3, NewsMember
  <2> QED
    BY <2>1, <2>3, <2>6, <2>7, <2>8, <2>9
<1> QED
  BY <1>1, <1>2, <1>3

\* A line held adds news of itself, under its rule if it has one that counts.
LEMMA HoldAllFacts ==
  ASSUME NEW w, NEW n \in Nat, Holds(w, n), NEW line \in Lines, NEW i \in 1..n
  PROVE  /\ Holds(holdAll(w, line, i), n)
         /\ NewsIn(w) \subseteq NewsIn(holdAll(w, line, i))
         /\ \A m \in NewsIn(holdAll(w, line, i)) : m \in NewsIn(w) \/ m[2] = i
         /\ \A r \in classify(line.action) :
              ~(r.sev < cfg.level) => <<r.kind, i>> \in NewsIn(holdAll(w, line, i))
         /\ DOMAIN w \subseteq DOMAIN holdAll(w, line, i)
<1> DEFINE v == IF AddressNew(line.ip) THEN hold(w, AddressRule, line, i) ELSE w
<1>1. /\ Holds(v, n) /\ NewsIn(w) \subseteq NewsIn(v) /\ DOMAIN w \subseteq DOMAIN v
      /\ \A m \in NewsIn(v) : m \in NewsIn(w) \/ m[2] = i
  <2> DEFINE rule == AddressRule
             h == hold(w, rule, line, i)
  <2>0. RuleOK(rule)
    BY AddressRuleIsTyped
  <2> HIDE DEF rule
  <2>1. /\ Holds(h, n) /\ NewsIn(w) \subseteq NewsIn(h)
        /\ NewsIn(h) \subseteq NewsIn(w) \cup {<<rule.kind, i>>}
        /\ DOMAIN w \subseteq DOMAIN h
    BY <2>0, HoldFacts
  <2>2. v = IF AddressNew(line.ip) THEN h ELSE w
    BY DEF rule
  <2> HIDE DEF h, v
  <2> QED
    BY <2>1, <2>2
<1>2. CASE classify(line.action) = {}
  BY <1>1, <1>2 DEF holdAll
<1>3. CASE classify(line.action) # {}
  <2> DEFINE r == CHOOSE r \in classify(line.action) : TRUE
  <2>1. r \in classify(line.action)
    BY <1>3
  <2>2. RuleOK(r) /\ \A s \in classify(line.action) : s = r
    BY <2>1, RulesAreTyped, OneRule DEF classify, Rules
  <2>3. holdAll(w, line, i) = hold(v, r, line, i)
    BY <1>3 DEF holdAll
  <2> HIDE DEF v, r
  <2>4. /\ Holds(hold(v, r, line, i), n)
        /\ NewsIn(v) \subseteq NewsIn(hold(v, r, line, i))
        /\ NewsIn(hold(v, r, line, i)) \subseteq NewsIn(v) \cup {<<r.kind, i>>}
        /\ ~(r.sev < cfg.level) => <<r.kind, i>> \in NewsIn(hold(v, r, line, i))
        /\ DOMAIN v \subseteq DOMAIN hold(v, r, line, i)
    BY <1>1, <2>2, HoldFacts
  <2> QED
    BY <1>1, <2>2, <2>3, <2>4
<1> QED
  BY <1>2, <1>3

-----------------------------------------------------------------------------
(***************************************************************************)
(* Types.  Beside what TypeOK says: what a change of the settings still    *)
(* has to write, and which lines the histories are about.                  *)
(***************************************************************************)
EditSteps == {Url(on) : on \in BOOLEAN} \cup {Enabled(on) : on \in BOOLEAN}
               \cup {Level(l) : l \in Levels} \cup {Said}

TypeInv ==
  /\ TypeOK
  /\ Holds(pending, Len(journal))
  /\ edit \in Seq(EditSteps) /\ budget \in Nat /\ outToday \in Nat
  /\ wanted \subseteq 1..Len(journal)
  /\ taken \subseteq Kinds \X (1..Len(journal))

LEMMA NoConfigIsTyped == NoConfig \in Configs /\ ~NoConfig.enabled
<1>1. \E c \in Configs : ~c.enabled
  <2>1. PICK l \in Levels : TRUE
    BY LinesAssumption
  <2>2. [enabled |-> FALSE, level |-> l, url |-> FALSE] \in Configs
    BY <2>1 DEF Configs
  <2> QED
    BY <2>2
<1> QED
  BY <1>1 DEF NoConfig

LEMMA EventsAreEventsTo == Events = EventsTo(Len(journal))
BY DEF Events, EventsTo

LEMMA InitTypes == Init => TypeInv
<1> SUFFICES ASSUME Init PROVE TypeInv
  OBVIOUS
<1>1. journal \in Seq(Lines) /\ Len(journal) \in Nat /\ journal = OldLines
  BY LinesAssumption DEF Init
<1>2. Holds(pending, Len(journal)) /\ DOMAIN pending = {}
  BY <1>1, NothingHeld, HoldsOn DEF Init
<1>3. cfg \in Configs /\ config \in Configs
  BY NoConfigIsTyped DEF Init
<1>4. /\ purged \in 0..Len(journal) /\ saved \in -1..Len(journal) /\ at \in 0..Len(journal)
      /\ last \in at..Len(journal) /\ round \in 0..MaxRounds /\ age \in 0..FlushAfter
      /\ 0 \in 0..MuteFor /\ sentToday \in Nat /\ attempt \in 0..MaxAttempts
      /\ budget \in Nat /\ outToday \in Nat
  <2>1. 0 \in 0..Len(journal) /\ -1 \in -1..Len(journal)
    BY <1>1
  <2> QED
    BY <2>1, ConstantsAssumption DEF Init
<1>5. muted \in [Kinds -> 0..MuteFor]
  BY <1>4 DEF Init
<1>6. TypeOK
  BY <1>1, <1>2, <1>3, <1>4, <1>5 DEF Init, TypeOK
<1> QED
  BY <1>1, <1>2, <1>4, <1>6 DEF Init, TypeInv

\* A line written is one more at the end, and nothing else moves.
LEMMA WrittenFacts ==
  ASSUME TypeInv, NEW line \in Lines, Written(line)
  PROVE  /\ journal' \in Seq(Lines) /\ Len(journal') = Len(journal) + 1
         /\ \A i \in 1..Len(journal) : journal'[i] = journal[i]
         /\ journal'[Len(journal) + 1] = line
         /\ wanted' \subseteq 1..Len(journal')
<1>1. /\ journal \in Seq(Lines) /\ journal' = Append(journal, line)
      /\ wanted \subseteq 1..Len(journal) /\ wanted' \subseteq wanted \cup {Len(journal) + 1}
  BY DEF TypeInv, TypeOK, Written
<1>2. /\ journal' \in Seq(Lines) /\ Len(journal') = Len(journal) + 1
      /\ \A i \in 1..Len(journal) : journal'[i] = journal[i]
      /\ journal'[Len(journal) + 1] = line
  BY <1>1, AppendProperties
<1> QED
  BY <1>1, <1>2

\* The types, when the journal grows and the watcher stands still.
LEMMA GrowingKeepsTypes ==
  ASSUME TypeInv, journal' \in Seq(Lines), Len(journal') >= Len(journal),
         wanted' \subseteq 1..Len(journal'), config' \in Configs, edit' \in Seq(EditSteps),
         budget' \in Nat, purged' \in purged..Len(journal'),
         UNCHANGED <<saved, seen, pass, held, message, taken, lost, outToday>>
  PROVE  TypeInv'
<1>1. Len(journal) \in Nat /\ Len(journal') \in Nat
  BY DEF TypeInv, TypeOK
<1>2. Holds(pending, Len(journal'))
  BY <1>1, HoldsOn DEF TypeInv
<1>3. Events \subseteq EventsTo(Len(journal'))
  BY <1>1, EventsAreEventsTo DEF EventsTo
<1>4. pending' = pending /\ batch' = batch /\ Events' = EventsTo(Len(journal'))
  BY DEF held, message, Events, EventsTo
<1>5. Holds(pending', Len(journal'))
  BY <1>2, <1>4
<1>6. \A k \in DOMAIN pending' : pending'[k] \in Events' /\ pending'[k].kind = k[1]
  BY <1>4, <1>5 DEF Holds
<1>7. batch' \subseteq Events'
  BY <1>3, <1>4 DEF TypeInv, TypeOK
<1>8. TypeOK'
  BY <1>1, <1>4, <1>6, <1>7 DEF TypeInv, TypeOK, pass, held, message
<1> QED
  BY <1>1, <1>5, <1>8 DEF TypeInv

LEMMA SettingsKeepTypes ==
  ASSUME TypeInv, AppendAudit \/ Settings \/ PurgeAuditBefore
  PROVE  TypeInv'
<1>0. /\ journal \in Seq(Lines) /\ Len(journal) \in Nat /\ purged \in 0..Len(journal)
      /\ config \in Configs /\ edit \in Seq(EditSteps) /\ budget \in Nat
      /\ wanted \subseteq 1..Len(journal)
  BY DEF TypeInv, TypeOK
<1>1. CASE AppendAudit
  <2>1. PICK line \in Lines : Written(line)
    BY <1>1 DEF AppendAudit
  <2> QED
    BY <1>0, <1>1, <2>1, WrittenFacts, GrowingKeepsTypes DEF AppendAudit
<1>2. CASE StartEdit
  <2>1. edit' \in Seq(EditSteps)
    <3>1. /\ Said \in EditSteps
          /\ \A on \in BOOLEAN : Url(on) \in EditSteps /\ Enabled(on) \in EditSteps
          /\ \A l \in Levels : Level(l) \in EditSteps
      BY DEF EditSteps
    <3> QED
      <4>1. ASSUME NEW want \in BOOLEAN, NEW url \in BOOLEAN, NEW level \in Levels,
                   saveAlerts(want, url, level)
            PROVE  edit' \in Seq(EditSteps)
        BY <3>1, <4>1 DEF saveAlerts
      <4>2. ASSUME NEW url \in BOOLEAN, runAlertsWebhook(url)
            PROVE  edit' \in Seq(EditSteps)
        BY <3>1, <4>2 DEF runAlertsWebhook
      <4>3. ASSUME NEW level \in Levels, runAlertsLevel(level)
            PROVE  edit' \in Seq(EditSteps)
        BY <3>1, <4>3 DEF runAlertsLevel
      <4>4. ASSUME NEW on \in BOOLEAN, runAlertsSwitch(on)
            PROVE  edit' \in Seq(EditSteps)
        BY <3>1, <4>4 DEF runAlertsSwitch
      <4> QED
        BY <1>2, <4>1, <4>2, <4>3, <4>4 DEF StartEdit
  <2> QED
    BY <1>0, <1>2, <2>1, GrowingKeepsTypes DEF StartEdit, Spent, history
<1>3. CASE WriteSetting
  <2>1. Head(edit) \in EditSteps /\ edit' \in Seq(EditSteps)
    BY <1>0, <1>3 DEF WriteSetting
  <2>2. config' \in Configs
    <3>1. \/ \E on \in BOOLEAN : Head(edit) = Url(on)
          \/ \E on \in BOOLEAN : Head(edit) = Enabled(on)
          \/ \E l \in Levels : Head(edit) = Level(l)
      BY <1>3, <2>1 DEF WriteSetting, EditSteps, Said
    <3> QED
      BY <1>0, <1>3, <3>1 DEF WriteSetting, Url, Enabled, Level, Configs
  <2>3. wanted' \subseteq 1..Len(journal')
    BY <1>0, <1>3 DEF WriteSetting
  <2>4. UNCHANGED <<journal, purged, saved, seen, pass, held, message, taken, lost,
                    outToday, budget>>
    BY <1>3 DEF WriteSetting
  <2> QED
    BY <1>0, <2>1, <2>2, <2>3, <2>4, GrowingKeepsTypes
<1>4. CASE SaySetting
  <2>1. edit' \in Seq(EditSteps)
    BY <1>0, <1>4 DEF SaySetting
  <2>2. CASE UNCHANGED <<journal, wanted>>
    BY <1>0, <1>4, <2>1, <2>2, GrowingKeepsTypes DEF SaySetting
  <2>3. ASSUME NEW ip \in Addresses, Written([action |-> PolicyLine, ip |-> ip])
        PROVE  TypeInv'
    <3>1. [action |-> PolicyLine, ip |-> ip] \in Lines
      BY LinesAssumption DEF Lines
    <3> QED
      BY <1>0, <1>4, <2>1, <2>3, <3>1, WrittenFacts, GrowingKeepsTypes DEF SaySetting
  <2> QED
    BY <1>4, <2>2, <2>3 DEF SaySetting
<1>5. CASE EditFails
  BY <1>0, <1>5, GrowingKeepsTypes DEF EditFails, Spent, history
<1>6. CASE PurgeAuditBefore
  BY <1>0, <1>6, GrowingKeepsTypes DEF PurgeAuditBefore, Spent, history
<1> QED
  BY <1>1, <1>2, <1>3, <1>4, <1>5, <1>6 DEF Settings

\* What the steps of the watcher that hold no event have in common: the journal
\* stands, and what waits stands or shrinks.
LEMMA StandingKeepsTypes ==
  ASSUME TypeInv, UNCHANGED <<journal, purged, config, edit>>,
         saved' \in -1..Len(journal), seen' \subseteq Addresses,
         pc' \in {"down", "idle", "reading", "saving", "flushing", "sending"},
         cfg' \in Configs, at' \in 0..Len(journal), last' \in at'..Len(journal),
         round' \in 0..MaxRounds,
         Holds(pending', Len(journal)),
         age' \in 0..FlushAfter, pending' = NoEvents => age' = 0,
         muted' \in [Kinds -> 0..MuteFor], sentToday' \in Nat, sameDay' \in BOOLEAN,
         batch' \subseteq Events, batch' # {} <=> pc' = "sending",
         attempt' \in 0..MaxAttempts,
         budget' \in Nat, outToday' \in Nat, wanted' \subseteq wanted,
         taken' \subseteq Kinds \X (1..Len(journal))
  PROVE  TypeInv'
<1>1. Events' = Events /\ Events = EventsTo(Len(journal))
  BY EventsAreEventsTo DEF Events
<1>2. \A k \in DOMAIN pending' : pending'[k] \in Events' /\ pending'[k].kind = k[1]
  BY <1>1 DEF Holds
<1>3. DOMAIN pending' \subseteq Kinds \X Addresses
  BY DEF Holds
<1>4. TypeOK'
  BY <1>1, <1>2, <1>3 DEF TypeInv, TypeOK
<1> QED
  BY <1>4 DEF TypeInv

\* The types as facts, for the steps of the watcher.
LEMMA Typing ==
  ASSUME TypeInv
  PROVE  /\ journal \in Seq(Lines) /\ Len(journal) \in Nat /\ purged \in 0..Len(journal)
         /\ saved \in -1..Len(journal) /\ seen \subseteq Addresses
         /\ config \in Configs /\ cfg \in Configs
         /\ pc \in {"down", "idle", "reading", "saving", "flushing", "sending"}
         /\ at \in 0..Len(journal) /\ last \in at..Len(journal) /\ round \in 0..MaxRounds
         /\ Holds(pending, Len(journal))
         /\ age \in 0..FlushAfter /\ (pending = NoEvents => age = 0)
         /\ muted \in [Kinds -> 0..MuteFor] /\ sentToday \in Nat /\ sameDay \in BOOLEAN
         /\ batch \subseteq Events /\ (batch # {} <=> pc = "sending")
         /\ attempt \in 0..MaxAttempts
         /\ budget \in Nat /\ outToday \in Nat /\ wanted \subseteq 1..Len(journal)
         /\ taken \subseteq Kinds \X (1..Len(journal))
BY DEF TypeInv, TypeOK

LEMMA Naturals ==
  /\ FlushAfter \in Nat \ {0} /\ MuteFor \in Nat \ {0} /\ DailyCap \in Nat \ {0}
  /\ BatchSize \in Nat \ {0} /\ MaxRounds \in Nat \ {0} /\ MaxAttempts \in Nat \ {0}
BY ConstantsAssumption

LEMMA SpentIsLess == ASSUME TypeInv, Spent PROVE budget' \in Nat
BY Typing DEF Spent

LEMMA ElapseFacts ==
  ASSUME TypeInv, Elapse
  PROVE  /\ age' \in 0..FlushAfter /\ (pending' = NoEvents => age' = 0)
         /\ muted' \in [Kinds -> 0..MuteFor] /\ sameDay' \in BOOLEAN
         /\ outToday' \in Nat
         /\ UNCHANGED <<pending, sentToday, wanted, taken, lost>>
         /\ (UNCHANGED <<sameDay, outToday>> \/ (sameDay' = FALSE /\ outToday' = 0))
<1>1. age' \in 0..FlushAfter /\ (pending' = NoEvents => age' = 0)
  BY Typing, Naturals DEF Elapse
<1>2. \A n \in 0..MuteFor : Less(n) \in 0..MuteFor
  BY Naturals DEF Less
<1>3. muted' \in [Kinds -> 0..MuteFor]
  BY <1>2, Typing DEF Elapse
<1>4. UNCHANGED <<sameDay, outToday>> \/ (sameDay' = FALSE /\ outToday' = 0)
  BY DEF Elapse
<1>5. sameDay' \in BOOLEAN /\ outToday' \in Nat
  <2>1. outToday' = outToday \/ outToday' = 0
    BY <1>4
  <2>2. sameDay' = sameDay \/ sameDay' = FALSE
    BY <1>4
  <2>3. sameDay \in BOOLEAN /\ outToday \in Nat
    BY Typing
  <2>4. sameDay' \in BOOLEAN
    BY <2>2, <2>3, Zenon
  <2> QED
    BY <2>1, <2>3, <2>4
<1> QED
  BY <1>1, <1>3, <1>4, <1>5 DEF Elapse

\* A page ends where the journal does, or a page further.
LEMMA PageFacts ==
  ASSUME TypeInv, AuditSince
  PROVE  /\ at = last /\ pc = "reading" /\ round < MaxRounds
         /\ at' = IF purged > at THEN purged ELSE at
         /\ at' \in 0..Len(journal) /\ last' \in at'..Len(journal)
         /\ round' \in round + 1..MaxRounds
         /\ \/ last' = Len(journal) /\ last' =< at' + BatchSize
            \/ last' = at' + BatchSize /\ round' = round + 1
<1> DEFINE from == IF purged > at THEN purged ELSE at
<1>1. from \in 0..Len(journal) /\ LinesSince(at) = Len(journal) - from
  BY Typing DEF LinesSince
<1>2. /\ at = last /\ pc = "reading" /\ round < MaxRounds /\ LinesSince(at) > 0
      /\ at' = from
      /\ last' = IF LinesSince(at) > BatchSize THEN from + BatchSize ELSE Len(journal)
      /\ round' = IF LinesSince(at) < BatchSize THEN MaxRounds ELSE round + 1
  BY DEF AuditSince
<1>3. at' = IF purged > at THEN purged ELSE at
  BY <1>2
<1> HIDE DEF from
<1>4. round' \in round + 1..MaxRounds
  BY <1>2, Typing, Naturals
<1>5. Len(journal) \in Nat /\ BatchSize \in Nat /\ round \in Nat
  BY Typing, Naturals
<1>6. CASE LinesSince(at) > BatchSize
  <2>1. last' = from + BatchSize /\ round' = round + 1
    BY <1>1, <1>2, <1>5, <1>6
  <2> QED
    BY <1>1, <1>2, <1>3, <1>4, <1>5, <1>6, <2>1
<1>7. CASE ~(LinesSince(at) > BatchSize)
  <2>1. last' = Len(journal)
    BY <1>2, <1>7
  <2> QED
    BY <1>1, <1>2, <1>3, <1>4, <1>5, <1>7, <2>1
<1> QED
  BY <1>6, <1>7

\* A line absorbed: what waits is of lines of the journal still, and what is new
\* in it is of that line.
LEMMA AbsorbFacts ==
  ASSUME TypeInv, absorb
  PROVE  /\ pc = "reading" /\ at < last /\ at' = at + 1 /\ at' \in 1..Len(journal)
         /\ journal[at'] \in Lines /\ seen' \subseteq Addresses
         /\ Holds(pending', Len(journal))
         /\ NewsIn(pending) \subseteq NewsIn(pending')
         /\ \A m \in NewsIn(pending') : m \in NewsIn(pending) \/ m[2] = at'
         /\ \A r \in classify(journal[at'].action) :
              cfg.enabled /\ ~(r.sev < cfg.level) => <<r.kind, at'>> \in NewsIn(pending')
         /\ DOMAIN pending \subseteq DOMAIN pending'
<1> DEFINE i == at + 1
           line == journal[i]
           w == holdAll(pending, line, i)
<1>1. /\ pc = "reading" /\ at < last /\ at' = i /\ seen' = seen \cup {line.ip}
      /\ pending' = IF cfg.enabled THEN w ELSE pending
  BY DEF absorb
<1>2. i \in 1..Len(journal) /\ Len(journal) \in Nat
  BY <1>1, Typing
<1>3. line \in Lines /\ line.ip \in Addresses
  <2>1. journal \in Seq(Lines)
    BY Typing
  <2>2. line \in Lines
    BY <1>2, <2>1
  <2> HIDE DEF line
  <2> QED
    BY <2>2 DEF Lines
<1>4. Holds(pending, Len(journal))
  BY Typing
<1>5. at' = i /\ line = journal[at']
  BY <1>1
<1> HIDE DEF i, line
<1>6. /\ Holds(w, Len(journal)) /\ NewsIn(pending) \subseteq NewsIn(w)
      /\ \A m \in NewsIn(w) : m \in NewsIn(pending) \/ m[2] = i
      /\ \A r \in classify(line.action) : ~(r.sev < cfg.level) => <<r.kind, i>> \in NewsIn(w)
      /\ DOMAIN pending \subseteq DOMAIN w
  BY <1>2, <1>3, <1>4, HoldAllFacts
<1>7. at' = at + 1
  BY DEF absorb
<1> HIDE DEF w
<1>8. seen' \subseteq Addresses
  BY <1>1, <1>3, Typing
<1>9. CASE cfg.enabled
  <2>1. pending' = w
    BY <1>1, <1>9
  <2> QED
    BY <1>1, <1>2, <1>3, <1>5, <1>6, <1>7, <1>8, <2>1
<1>10. CASE ~cfg.enabled
  <2>1. pending' = pending
    BY <1>1, <1>10
  <2> QED
    BY <1>1, <1>2, <1>3, <1>4, <1>5, <1>7, <1>8, <1>10, <2>1
<1> QED
  BY <1>9, <1>10

ReadyEvents == {pending[k] : k \in Ready}
Rest == [k \in DOMAIN pending \ Ready |-> pending[k]]
Charge == chargeLocked(Cardinality(ReadyEvents))

\* What is ready is part of what waits; what is left is what is muted.
LEMMA ReadyFacts ==
  ASSUME TypeInv
  PROVE  /\ Cardinality(ReadyEvents) \in Nat /\ ReadyEvents \subseteq Events
         /\ Holds(Rest, Len(journal))
         /\ NewsIn(Rest) \subseteq NewsIn(pending)
         /\ NewsOf(ReadyEvents) \subseteq NewsIn(pending)
         /\ NewsIn(pending) \subseteq NewsIn(Rest) \cup NewsOf(ReadyEvents)
         /\ NewsIn(Rest) \cap NewsOf(ReadyEvents) = {}
         /\ ReadyEvents = {} => NewsIn(Rest) = NewsIn(pending)
<1> DEFINE ready == {pending[k] : k \in Ready}
           rest == [k \in DOMAIN pending \ Ready |-> pending[k]]
<1>1. /\ Ready \subseteq DOMAIN pending
      /\ \A k \in DOMAIN pending : k \in Ready <=> muted[pending[k].kind] = 0
  BY DEF Ready
<1>2. Holds(pending, Len(journal))
  BY Typing
<1>3. /\ DOMAIN rest = DOMAIN pending \ Ready
      /\ \A k \in DOMAIN rest : rest[k] = pending[k]
      /\ rest \in [DOMAIN rest -> EventsTo(Len(journal))]
  BY <1>2 DEF Holds
<1>4. \A e \in ready : \E k \in Ready : e = pending[k]
  OBVIOUS
<1>5. \A k \in Ready : pending[k] \in ready
  OBVIOUS
<1>6. IsFiniteSet(ready)
  <2>1. IsFiniteSet(Ready)
    BY <1>1, <1>2, FS_Subset DEF Holds
  <2> DEFINE f == [k \in Ready |-> pending[k]]
  <2>2. f \in Surjection(Ready, ready)
    <3>1. f \in [Ready -> ready] /\ \A e \in ready : \E k \in Ready : f[k] = e
      OBVIOUS
    <3> HIDE DEF f, ready
    <3> QED
      BY <3>1, Fun_IsSurj
  <2> HIDE DEF f, ready
  <2> QED
    BY <2>1, <2>2, FS_Surjection
<1>7. Cardinality(ready) \in Nat
  BY <1>6, FS_CardinalityType
<1> HIDE DEF ready, rest
<1>8. ready \subseteq Events
  BY <1>1, <1>2, <1>4, EventsAreEventsTo DEF Holds
<1>9. Holds(rest, Len(journal))
  BY <1>2, <1>3, FS_Subset DEF Holds
<1>10. NewsIn(rest) \subseteq NewsIn(pending)
  BY <1>3, NewsMember
<1>11. \A m : m \in NewsOf(ready) <=> \E k \in Ready : \E i \in pending[k].lines : m = <<pending[k].kind, i>>
  BY <1>4, <1>5 DEF NewsOf
<1>12. NewsOf(ready) \subseteq NewsIn(pending)
  BY <1>1, <1>11, NewsMember
<1>13. NewsIn(pending) \subseteq NewsIn(rest) \cup NewsOf(ready)
  <2> SUFFICES ASSUME NEW m \in NewsIn(pending), m \notin NewsOf(ready) PROVE m \in NewsIn(rest)
    OBVIOUS
  <2>1. PICK k \in DOMAIN pending : \E i \in pending[k].lines : m = <<pending[k].kind, i>>
    BY NewsMember
  <2>2. k \notin Ready
    BY <1>11, <2>1
  <2> QED
    BY <1>3, <2>1, <2>2, NewsMember
<1>14. NewsIn(rest) \cap NewsOf(ready) = {}
  <2> SUFFICES ASSUME NEW m \in NewsIn(rest), m \in NewsOf(ready) PROVE FALSE
    OBVIOUS
  <2>1. PICK k \in DOMAIN rest : \E i \in rest[k].lines : m = <<rest[k].kind, i>>
    BY NewsMember
  <2>2. PICK j \in Ready : \E i \in pending[j].lines : m = <<pending[j].kind, i>>
    BY <1>11
  <2>3. pending[k].kind = pending[j].kind
    BY <1>3, <2>1, <2>2
  <2> QED
    BY <1>1, <1>3, <2>2, <2>3
<1>15. ready = {} => NewsIn(rest) = NewsIn(pending)
  <2>1. NewsOf({}) = {}
    BY DEF NewsOf
  <2> QED
    BY <1>10, <1>13, <2>1
<1>16. ready = ReadyEvents /\ rest = Rest
  BY DEF ready, rest, ReadyEvents, Rest
<1> QED
  BY <1>7, <1>8, <1>9, <1>10, <1>12, <1>13, <1>14, <1>15, <1>16

LEMMA CappedIsTyped == Capped \in Events
BY DEF Capped, Events, Info, Warning, Critical

LEMMA ChargeFacts ==
  ASSUME TypeInv, NEW n \in Nat
  PROVE  LET before == IF sameDay THEN sentToday ELSE 0 IN
           /\ before \in Nat
           /\ \/ /\ before >= DailyCap /\ chargeLocked(n).sent = before
                 /\ chargeLocked(n).verdict = "barred"
              \/ /\ before < DailyCap /\ chargeLocked(n).sent = before + n
                 /\ chargeLocked(n).verdict = IF before + n >= DailyCap THEN "reached" ELSE "free"
<1>1. (IF sameDay THEN sentToday ELSE 0) \in Nat
  BY Typing
<1> QED
  BY <1>1, Naturals DEF chargeLocked

\* A flush takes what is ready, charges it, and hands over what the verdict says.
LEMMA FlushFacts ==
  ASSUME TypeInv, flush
  PROVE  /\ pc = "flushing" /\ pending' = Rest /\ age' = 0
         /\ UNCHANGED <<database, cfg, at, last, round, wanted, lost, budget>>
         /\ \/ /\ ReadyEvents = {} /\ pc' = "idle"
               /\ UNCHANGED <<muted, sentToday, sameDay, message, taken, outToday>>
            \/ /\ ReadyEvents # {} /\ taken' = taken \cup NewsOf(ReadyEvents)
               /\ muted' = [k \in Kinds |->
                              IF \E e \in ReadyEvents : e.kind = k THEN MuteFor ELSE muted[k]]
               /\ sameDay' = TRUE /\ sentToday' = Charge.sent
               /\ outToday' = outToday + Cardinality(batch')
               /\ \/ /\ Charge.verdict = "barred"
                     /\ pc' = "idle" /\ batch' = {} /\ attempt' = 0
                  \/ /\ Charge.verdict = "reached"
                     /\ pc' = "sending" /\ batch' = {Capped} /\ attempt' = 1
                  \/ /\ Charge.verdict = "free"
                     /\ pc' = "sending" /\ batch' = ReadyEvents /\ attempt' = 1
<1>1. Charge.verdict \in {"barred", "reached", "free"}
  <2>1. Cardinality(ReadyEvents) \in Nat
    BY ReadyFacts
  <2> QED
    BY <2>1, ChargeFacts DEF Charge
<1>2. /\ pc = "flushing" /\ pending' = Rest /\ age' = 0
      /\ UNCHANGED <<database, cfg, at, last, round, wanted, lost, budget>>
  BY DEF flush, Rest
<1>3. IF ReadyEvents = {}
      THEN /\ pc' = "idle"
           /\ UNCHANGED <<muted, sentToday, sameDay, message, taken, outToday>>
      ELSE /\ muted' = [k \in Kinds |->
                          IF \E e \in ReadyEvents : e.kind = k THEN MuteFor ELSE muted[k]]
           /\ sentToday' = Charge.sent
           /\ sameDay' = TRUE
           /\ pc' = IF Charge.verdict = "barred" THEN "idle" ELSE "sending"
           /\ batch' = CASE Charge.verdict = "free" -> ReadyEvents
                         [] Charge.verdict = "reached" -> {Capped}
                         [] OTHER -> {}
           /\ attempt' = IF Charge.verdict = "barred" THEN 0 ELSE 1
           /\ taken' = taken \cup NewsOf(ReadyEvents)
           /\ outToday' = outToday + Cardinality(batch')
  BY DEF flush, ReadyEvents, Charge
<1>4. CASE ReadyEvents = {}
  BY <1>2, <1>3, <1>4
<1>5. CASE ReadyEvents # {}
  BY <1>1, <1>2, <1>3, <1>5
<1> QED
  BY <1>4, <1>5

LEMMA FlushKeepsTypes == ASSUME TypeInv, flush PROVE TypeInv'
<1>1. /\ UNCHANGED <<journal, purged, saved, seen, config, edit>>
      /\ UNCHANGED <<cfg, at, last, round, wanted, lost, budget>>
      /\ pending' = Rest /\ age' = 0
  BY FlushFacts DEF database
<1>2. Holds(pending', Len(journal)) /\ ReadyEvents \subseteq Events
  BY <1>1, ReadyFacts
<1>3. age' \in 0..FlushAfter
  BY <1>1, Naturals
<1>4. taken' \subseteq Kinds \X (1..Len(journal))
  <2>1. NewsOf(ReadyEvents) \subseteq NewsIn(pending) /\ Holds(pending, Len(journal))
    BY ReadyFacts, Typing
  <2>2. NewsIn(pending) \subseteq Kinds \X (1..Len(journal))
    BY <2>1, NewsAreOfLines, Typing
  <2> QED
    BY <2>1, <2>2, FlushFacts, Typing
<1>5. muted' \in [Kinds -> 0..MuteFor]
  <2>1. MuteFor \in 0..MuteFor
    BY Naturals
  <2> QED
    BY <2>1, FlushFacts, Typing
<1>6. sentToday' \in Nat
  <2>1. Charge.sent \in Nat
    BY ChargeFacts, ReadyFacts DEF Charge
  <2> QED
    BY <2>1, FlushFacts, Typing
<1>7. sameDay' \in BOOLEAN
  <2>1. sameDay' = TRUE \/ sameDay' = sameDay
    BY FlushFacts
  <2>2. sameDay \in BOOLEAN
    BY Typing
  <2> QED
    BY <2>1, <2>2, Zenon
<1>8. /\ pc' \in {"idle", "sending"} /\ batch' \subseteq Events /\ (batch' # {} <=> pc' = "sending")
      /\ attempt' \in 0..MaxAttempts
  <2>1. 0 \in 0..MaxAttempts /\ 1 \in 0..MaxAttempts
    BY Naturals
  <2>2. batch = {}
    BY FlushFacts, Typing
  <2> QED
    BY <1>2, <2>1, <2>2, CappedIsTyped, FlushFacts, Typing DEF message
<1>9. outToday' \in Nat
  <2>1. Cardinality({}) = 0 /\ Cardinality({Capped}) = 1
    BY FS_EmptySet, FS_Singleton
  <2>2. Cardinality(ReadyEvents) \in Nat /\ outToday \in Nat
    BY ReadyFacts, Typing
  <2>3. outToday' = outToday \/ (outToday' = outToday + Cardinality(batch')
                                  /\ batch' \in {{}, {Capped}, ReadyEvents})
    BY FlushFacts
  <2> QED
    BY <2>1, <2>2, <2>3
<1>10. /\ saved' \in -1..Len(journal) /\ seen' \subseteq Addresses /\ cfg' \in Configs
       /\ at' \in 0..Len(journal) /\ last' \in at'..Len(journal) /\ round' \in 0..MaxRounds
       /\ budget' \in Nat /\ wanted' \subseteq wanted
  BY <1>1, Typing
<1>11. pc' \in {"down", "idle", "reading", "saving", "flushing", "sending"}
  BY <1>8
<1> QED
  BY <1>1, <1>2, <1>3, <1>4, <1>5, <1>6, <1>7, <1>8, <1>9, <1>10, <1>11, StandingKeepsTypes

\* The steps that move the watcher and nothing of what it holds.
LEMMA MovingKeepsTypes ==
  ASSUME TypeInv, UNCHANGED <<journal, purged, config, edit, seen, pending, age, muted,
                              sentToday, sameDay, outToday, taken>>,
         saved' \in -1..Len(journal), wanted' \subseteq wanted,
         pc' \in {"down", "idle", "reading", "saving", "flushing", "sending"},
         cfg' \in Configs, at' \in 0..Len(journal), last' \in at'..Len(journal),
         round' \in 0..MaxRounds, batch' \subseteq Events, batch' # {} <=> pc' = "sending",
         attempt' \in 0..MaxAttempts, budget' \in Nat
  PROVE  TypeInv'
<1>1. /\ seen' \subseteq Addresses /\ Holds(pending', Len(journal)) /\ age' \in 0..FlushAfter
      /\ (pending' = NoEvents => age' = 0) /\ muted' \in [Kinds -> 0..MuteFor]
      /\ sentToday' \in Nat /\ outToday' \in Nat /\ taken' \subseteq Kinds \X (1..Len(journal))
  BY Typing
<1>2. sameDay' \in BOOLEAN
  BY Typing, Zenon
<1> QED
  BY <1>1, <1>2, StandingKeepsTypes

LEMMA ReadingKeepsTypes ==
  ASSUME TypeInv, Start \/ StartFails \/ AuditSince \/ CaughtUp \/ SaveCursor \/ NothingDue
                    \/ NoteAddressFails \/ SaveCursorFails
  PROVE  TypeInv'
<1>0. /\ batch \subseteq Events /\ (batch # {} <=> pc = "sending") /\ attempt \in 0..MaxAttempts
      /\ saved \in -1..Len(journal) /\ cfg \in Configs /\ at \in 0..Len(journal)
      /\ last \in at..Len(journal) /\ round \in 0..MaxRounds /\ budget \in Nat
  BY Typing
<1>1. CASE Start
  <2>1. LastAuditID \in 0..Len(journal)
    BY Typing DEF LastAuditID
  <2>2. saved' \in -1..Len(journal) /\ wanted' \subseteq wanted
    BY <1>0, <1>1, <2>1 DEF Start
  <2>3. /\ UNCHANGED <<journal, purged, seen, config, edit, cfg, at, last, round, pending, age,
                       muted, sentToday, sameDay, batch, attempt, taken, outToday, budget>>
        /\ pc = "down" /\ pc' = "idle"
    BY <1>1 DEF Start, held, message
  <2> QED
    BY <1>0, <2>2, <2>3, MovingKeepsTypes
<1>2. CASE AuditSince
  <2>1. /\ UNCHANGED <<journal, purged, saved, seen, config, edit, pc, cfg, pending, age, muted,
                       sentToday, sameDay, batch, attempt, wanted, taken, outToday, budget>>
    BY <1>2 DEF AuditSince, database, held, message, history
  <2>2. at' \in 0..Len(journal) /\ last' \in at'..Len(journal) /\ round' \in 0..MaxRounds
    BY <1>0, <1>2, PageFacts, Naturals
  <2> QED
    BY <1>0, <2>1, <2>2, MovingKeepsTypes, Typing
<1>3. CASE SaveCursor
  <2>1. /\ UNCHANGED <<journal, purged, seen, config, edit, cfg, at, last, round, pending, age,
                       muted, sentToday, sameDay, batch, attempt, wanted, taken, outToday, budget>>
        /\ pc = "saving" /\ pc' = "flushing" /\ saved' = at
    BY <1>3 DEF SaveCursor, held, message, history
  <2> QED
    BY <1>0, <2>1, MovingKeepsTypes, Typing
<1>4. ASSUME UNCHANGED <<database, cfg, at, last, round, held, message, history>>,
             pc # "sending", pc' \in {"idle", "saving", "flushing"}, budget' \in Nat
      PROVE  TypeInv'
  BY <1>0, <1>4, MovingKeepsTypes DEF database, held, message, history
<1>5. CASE StartFails
  BY <1>4, <1>5, SpentIsLess DEF StartFails
<1>6. CASE CaughtUp
  BY <1>0, <1>4, <1>6 DEF CaughtUp
<1>7. CASE NothingDue
  BY <1>0, <1>4, <1>7 DEF NothingDue
<1>8. CASE NoteAddressFails
  BY <1>4, <1>8, SpentIsLess DEF NoteAddressFails
<1>9. CASE SaveCursorFails
  BY <1>4, <1>9, SpentIsLess DEF SaveCursorFails
<1> QED
  BY <1>1, <1>2, <1>3, <1>5, <1>6, <1>7, <1>8, <1>9

LEMMA SendingKeepsTypes ==
  ASSUME TypeInv, send \/ Refused \/ Unreachable
  PROVE  TypeInv'
<1>0. /\ batch \subseteq Events /\ attempt \in 0..MaxAttempts
      /\ saved \in -1..Len(journal) /\ cfg \in Configs /\ at \in 0..Len(journal)
      /\ last \in at..Len(journal) /\ round \in 0..MaxRounds /\ budget \in Nat
      /\ 0 \in 0..MaxAttempts
  BY Typing, Naturals
<1>1. ASSUME UNCHANGED <<database, cfg, at, last, round, held, history>>,
             pc' \in {"idle", "sending"}, batch' \subseteq Events, batch' # {} <=> pc' = "sending",
             attempt' \in 0..MaxAttempts, budget' \in Nat
      PROVE  TypeInv'
  BY <1>0, <1>1, MovingKeepsTypes DEF database, held, history
<1>2. CASE send
  BY <1>0, <1>1, <1>2 DEF send, Over
<1>3. CASE Refused
  BY <1>0, <1>1, <1>3, SpentIsLess DEF Refused, Over
<1>4. CASE Unreachable
  <2>1. budget' \in Nat /\ UNCHANGED <<database, cfg, at, last, round, held, history>>
    BY <1>4, SpentIsLess DEF Unreachable
  <2>2. CASE attempt < MaxAttempts
    <3>1. attempt' = attempt + 1 /\ pc' = pc /\ batch' = batch /\ pc = "sending"
      BY <1>4, <2>2 DEF Unreachable
    <3>2. attempt' \in 0..MaxAttempts
      BY <1>0, <2>2, <3>1, Naturals
    <3> QED
      BY <1>0, <1>1, <2>1, <3>1, <3>2, Typing
  <2>3. CASE ~(attempt < MaxAttempts)
    BY <1>0, <1>1, <1>4, <2>1, <2>3 DEF Unreachable, Over
  <2> QED
    BY <2>2, <2>3
<1> QED
  BY <1>2, <1>3, <1>4

LEMMA TimingKeepsTypes ==
  ASSUME TypeInv, ReadConfig \/ ConfigFails \/ SlowPass
  PROVE  TypeInv'
<1>0. /\ batch \subseteq Events /\ (batch # {} <=> pc = "sending") /\ attempt \in 0..MaxAttempts
      /\ saved \in -1..Len(journal) /\ cfg \in Configs /\ at \in 0..Len(journal)
      /\ last \in at..Len(journal) /\ round \in 0..MaxRounds /\ budget \in Nat
      /\ seen \subseteq Addresses /\ Holds(pending, Len(journal)) /\ sentToday \in Nat
      /\ taken \subseteq Kinds \X (1..Len(journal))
  BY Typing
<1>1. ASSUME Elapse, UNCHANGED <<database, message>>, pc # "sending",
             pc' \in {"idle", "reading", "flushing"}, cfg' \in Configs, at' \in 0..Len(journal),
             last' \in at'..Len(journal), round' \in 0..MaxRounds, budget' \in Nat
      PROVE  TypeInv'
  <2>1. /\ age' \in 0..FlushAfter /\ (pending' = NoEvents => age' = 0)
        /\ muted' \in [Kinds -> 0..MuteFor] /\ sameDay' \in BOOLEAN /\ outToday' \in Nat
        /\ UNCHANGED <<pending, sentToday, wanted, taken>>
    BY <1>1, ElapseFacts
  <2>2. UNCHANGED <<journal, purged, saved, seen, config, edit, batch, attempt>>
    BY <1>1 DEF database, message
  <2> QED
    BY <1>0, <1>1, <2>1, <2>2, StandingKeepsTypes
<1>2. CASE ReadConfig
  <2>1. /\ Elapse /\ UNCHANGED <<database, message, budget>> /\ pc = "idle" /\ pc' = "reading"
        /\ at' = (IF saved = -1 THEN 0 ELSE saved) /\ last' = at' /\ round' = 0
        /\ cfg' = [config EXCEPT !.url = config.enabled /\ config.url]
    BY <1>2 DEF ReadConfig
  <2>2. Len(journal) \in Nat /\ config \in Configs
    BY Typing
  <2>3. at' \in 0..Len(journal) /\ last' \in at'..Len(journal) /\ round' \in 0..MaxRounds
    BY <1>0, <2>1, <2>2, Naturals
  <2>4. cfg' \in Configs
    BY <2>1, <2>2 DEF Configs
  <2> QED
    BY <1>0, <1>1, <2>1, <2>3, <2>4
<1>3. CASE ConfigFails
  <2>1. budget' \in Nat
    BY <1>3, SpentIsLess DEF ConfigFails
  <2> QED
    BY <1>0, <1>1, <1>3, <2>1 DEF ConfigFails, pass
<1>4. CASE SlowPass
  BY <1>0, <1>1, <1>4 DEF SlowPass, pass
<1> QED
  BY <1>2, <1>3, <1>4

LEMMA AbsorbingKeepsTypes == ASSUME TypeInv, absorb PROVE TypeInv'
<1>1. /\ UNCHANGED <<journal, purged, saved, config, edit, pc, cfg, last, round, muted, sentToday,
                     sameDay, batch, attempt, wanted, taken, outToday, budget>>
      /\ age' = IF pending = NoEvents THEN 0 ELSE age
  BY DEF absorb, message, history
<1>2. /\ saved \in -1..Len(journal) /\ Len(journal) \in Nat
      /\ pc \in {"down", "idle", "reading", "saving", "flushing", "sending"}
      /\ cfg \in Configs /\ at \in 0..Len(journal) /\ last \in at..Len(journal)
      /\ round \in 0..MaxRounds /\ age \in 0..FlushAfter /\ 0 \in 0..FlushAfter
      /\ muted \in [Kinds -> 0..MuteFor] /\ sentToday \in Nat /\ batch \subseteq Events
      /\ (batch # {} <=> pc = "sending") /\ attempt \in 0..MaxAttempts
      /\ budget \in Nat /\ outToday \in Nat /\ taken \subseteq Kinds \X (1..Len(journal))
  BY Typing, Naturals
<1>3. sameDay' \in BOOLEAN
  <2>1. sameDay \in BOOLEAN
    BY Typing
  <2> QED
    BY <1>1, <2>1, Zenon
<1>4. at' \in 0..Len(journal) /\ last' \in at'..Len(journal)
  BY <1>1, <1>2, AbsorbFacts
<1>5. pending' = NoEvents => age' = 0
  <2>1. SUFFICES ASSUME pending' = NoEvents PROVE pending = NoEvents
    BY <1>1
  <2>2. DOMAIN pending = {}
    BY <2>1, NothingHeld, AbsorbFacts
  <2> QED
    BY <2>2, EmptyIsNothing, Typing
<1>6. seen' \subseteq Addresses /\ Holds(pending', Len(journal))
  BY AbsorbFacts
<1>7. age' \in 0..FlushAfter
  BY <1>1, <1>2
<1> QED
  BY <1>1, <1>2, <1>3, <1>4, <1>5, <1>6, <1>7, StandingKeepsTypes

LEMMA CrashingKeepsTypes == ASSUME TypeInv, Crash PROVE TypeInv'
<1>1. /\ UNCHANGED <<journal, purged, saved, seen, config, edit, wanted, taken>>
      /\ pc' = "down" /\ cfg' = NoConfig /\ at' = 0 /\ last' = 0 /\ round' = 0
      /\ pending' = NoEvents /\ age' = 0 /\ muted' = [k \in Kinds |-> 0]
      /\ sentToday' = 0 /\ sameDay' = FALSE /\ outToday' = 0 /\ batch' = {} /\ attempt' = 0
  BY DEF Crash, database
<1>2. budget' \in Nat
  BY SpentIsLess DEF Crash
<1>3. Len(journal) \in Nat
  BY Typing
<1>4. Holds(pending', Len(journal))
  BY <1>1, <1>3, NothingHeld, HoldsOn
<1>5. /\ at' \in 0..Len(journal) /\ last' \in at'..Len(journal) /\ round' \in 0..MaxRounds
      /\ age' \in 0..FlushAfter /\ attempt' \in 0..MaxAttempts /\ 0 \in 0..MuteFor
  BY <1>1, <1>3, Naturals
<1>6. muted' \in [Kinds -> 0..MuteFor]
  BY <1>1, <1>5
<1>7. cfg' \in Configs /\ saved' \in -1..Len(journal) /\ seen' \subseteq Addresses
      /\ taken' \subseteq Kinds \X (1..Len(journal))
  BY <1>1, NoConfigIsTyped, Typing
<1>8. sameDay' \in BOOLEAN
  BY <1>1, Zenon
<1> QED
  BY <1>1, <1>2, <1>4, <1>5, <1>6, <1>7, <1>8, StandingKeepsTypes

LEMMA NextKeepsTypes == TypeInv /\ [Next]_vars => TypeInv'
<1> SUFFICES ASSUME TypeInv, [Next]_vars PROVE TypeInv'
  OBVIOUS
<1>1. CASE UNCHANGED vars
  <2>1. UNCHANGED <<journal, purged, saved, seen, config, edit, pc, cfg, at, last, round, pending,
                    age, muted, sentToday, sameDay, batch, attempt, wanted, taken, outToday, budget>>
    BY <1>1 DEF vars, database, pass, held, message, history
  <2>2. Events' = Events
    BY <2>1 DEF Events
  <2> QED
    BY <2>1, <2>2 DEF TypeInv, TypeOK
<1>2. CASE Next
  BY <1>2, SettingsKeepTypes, FlushKeepsTypes, ReadingKeepsTypes, SendingKeepsTypes,
     TimingKeepsTypes, AbsorbingKeepsTypes, CrashingKeepsTypes
     DEF Next, Pass, Failures
<1> QED
  BY <1>1, <1>2

LEMMA TypesHold == Spec => []TypeInv
BY InitTypes, NextKeepsTypes, PTL DEF Spec

\* What the variables of the watcher hold is what its rows and its memory can
\* hold; an event waits under its own kind, and a batch is there while it is
\* sent and never besides (watcher.go, webhook.go).
THEOREM TypeCorrect == Spec => []TypeOK
<1>1. TypeInv => TypeOK
  BY DEF TypeInv
<1> QED
  BY <1>1, TypesHold, PTL

-----------------------------------------------------------------------------
(***************************************************************************)
(* The ceiling.  What was handed over today is what was charged today,     *)
(* until the ceiling is reached, and from then on at most the ceiling: the *)
(* message that reaches it is replaced by a notice, which counts for one.  *)
(***************************************************************************)
CeilingInv ==
  /\ ~sameDay => outToday = 0
  /\ sameDay => outToday =< IF sentToday < DailyCap THEN sentToday ELSE DailyCap

LEMMA CeilingStands ==
  ASSUME CeilingInv, UNCHANGED <<sameDay, outToday, sentToday>>
  PROVE  CeilingInv'
BY DEF CeilingInv

LEMMA FlushKeepsCeiling ==
  ASSUME TypeInv, CeilingInv, flush
  PROVE  CeilingInv'
<1> DEFINE n == Cardinality(ReadyEvents)
           before == IF sameDay THEN sentToday ELSE 0
<1>1. n \in Nat /\ before \in Nat /\ sentToday \in Nat /\ outToday \in Nat /\ DailyCap \in Nat
  BY ReadyFacts, Typing, Naturals
<1>2. outToday =< IF before < DailyCap THEN before ELSE DailyCap
  BY <1>1 DEF CeilingInv
<1>3. \/ before >= DailyCap /\ Charge.sent = before /\ Charge.verdict = "barred"
      \/ /\ before < DailyCap /\ Charge.sent = before + n
         /\ Charge.verdict = IF before + n >= DailyCap THEN "reached" ELSE "free"
  BY <1>1, ChargeFacts DEF Charge
<1>4. Cardinality({}) = 0 /\ Cardinality({Capped}) = 1
  BY FS_EmptySet, FS_Singleton
<1>5. CASE UNCHANGED <<sentToday, sameDay, outToday>>
  BY <1>5, CeilingStands
<1>6. CASE ~UNCHANGED <<sentToday, sameDay, outToday>>
  <2>1. /\ sameDay' = TRUE /\ sentToday' = Charge.sent
        /\ outToday' = outToday + Cardinality(batch')
        /\ \/ Charge.verdict = "barred" /\ batch' = {}
           \/ Charge.verdict = "reached" /\ batch' = {Capped}
           \/ Charge.verdict = "free" /\ batch' = ReadyEvents
    BY <1>6, FlushFacts
  <2> DEFINE out == Cardinality(batch')
  <2>2. /\ outToday' = outToday + out /\ sentToday' = Charge.sent
        /\ \/ Charge.verdict = "barred" /\ out = 0
           \/ Charge.verdict = "reached" /\ out = 1
           \/ Charge.verdict = "free" /\ out = n
    BY <1>4, <2>1
  <2> HIDE DEF n, before, out
  <2>3. outToday' =< IF sentToday' < DailyCap THEN sentToday' ELSE DailyCap
    BY <1>1, <1>2, <1>3, <2>2
  <2> QED
    BY <2>1, <2>3 DEF CeilingInv
<1> QED
  BY <1>5, <1>6

LEMMA NextKeepsCeiling == TypeInv /\ CeilingInv /\ [Next]_vars => CeilingInv'
<1> SUFFICES ASSUME TypeInv, CeilingInv, [Next]_vars PROVE CeilingInv'
  OBVIOUS
<1>1. ASSUME Elapse PROVE CeilingInv'
  <2>1. sentToday' = sentToday /\ (UNCHANGED <<sameDay, outToday>> \/ (sameDay' = FALSE /\ outToday' = 0))
    BY <1>1, ElapseFacts
  <2> QED
    BY <2>1, CeilingStands DEF CeilingInv
<1>2. CASE UNCHANGED held /\ UNCHANGED outToday
  BY <1>2, CeilingStands DEF held
<1>3. CASE flush
  BY <1>3, FlushKeepsCeiling
<1>4. CASE ReadConfig \/ ConfigFails \/ SlowPass
  BY <1>1, <1>4 DEF ReadConfig, ConfigFails, SlowPass
<1>5. CASE absorb
  BY <1>5, CeilingStands DEF absorb, history
<1>6. CASE Crash
  BY <1>6 DEF Crash, CeilingInv
<1>7. CASE UNCHANGED vars
  BY <1>2, <1>7 DEF vars, history
<1>8. CASE AppendAudit \/ Settings \/ PurgeAuditBefore
  BY <1>2, <1>8 DEF AppendAudit, Settings, StartEdit, WriteSetting, SaySetting, EditFails,
                    PurgeAuditBefore, history
<1>9. CASE Start \/ StartFails \/ AuditSince \/ CaughtUp \/ SaveCursor \/ NothingDue
             \/ NoteAddressFails \/ SaveCursorFails
  BY <1>2, <1>9 DEF Start, StartFails, AuditSince, CaughtUp, SaveCursor, NothingDue,
                    NoteAddressFails, SaveCursorFails, history
<1>10. CASE send \/ Refused \/ Unreachable
  BY <1>2, <1>10 DEF send, Refused, Unreachable, history
<1> QED
  BY <1>3, <1>4, <1>5, <1>6, <1>7, <1>8, <1>9, <1>10 DEF Next, Pass, Failures

\* Between two midnights, no more than the ceiling is handed to the sender, the
\* notice included, whatever order midnights, flushes and stops come in
\* (chargeLocked of watcher.go).
THEOREM CeilingCorrect == Spec => []CeilingHolds
<1>1. Init => CeilingInv
  BY Naturals DEF Init, CeilingInv
<1>2. TypeInv /\ CeilingInv => CeilingHolds
  <2> SUFFICES ASSUME TypeInv, CeilingInv PROVE CeilingHolds
    OBVIOUS
  <2>1. sentToday \in Nat /\ outToday \in Nat /\ DailyCap \in Nat
    BY Typing, Naturals
  <2> QED
    BY <2>1 DEF CeilingInv, CeilingHolds
<1> QED
  BY <1>1, <1>2, TypesHold, NextKeepsCeiling, PTL DEF Spec

-----------------------------------------------------------------------------
(***************************************************************************)
(* Nothing is announced twice.  What waits has a number that the next pass *)
(* is sure to reach: a pass that is read again starts where the last one   *)
(* started, or where the janitor has swept to, and its pages are as long.  *)
(* So when a pass comes to flush, what waits is behind its cursor or swept *)
(* away, and a line behind either is never read again.                     *)
(***************************************************************************)
Sup(a, b) == IF a > b THEN a ELSE b
Top == Sup(saved, purged)
Room(k) == k * BatchSize
Upto(news, n) == \A m \in news : m[2] =< n

Reading ==
  /\ last =< Top + Room(round)
  /\ Upto(NewsIn(pending), Sup(last, purged) + Room(MaxRounds - round))
  /\ round = 0 => at = last /\ at =< Top
  /\ at < last => Upto(taken, at)

ReachInv ==
  /\ pc \in {"reading", "saving"} => saved =< at
  /\ pc = "reading" => Reading
  /\ pc = "saving" => Upto(NewsIn(pending), Sup(at, purged))
  /\ pc = "flushing" => Upto(NewsIn(pending), Top)
  /\ Upto(NewsIn(pending), Top + Room(MaxRounds))
  /\ Upto(taken, Top)
  /\ NewsIn(pending) \cap taken = {}

LEMMA Rooms ==
  /\ Room(0) = 0 /\ \A k \in Nat : Room(k) \in Nat
  /\ \A k \in Nat : Room(k + 1) = Room(k) + BatchSize
  /\ \A j, k \in Nat : j =< k => Room(j) =< Room(k)
<1>1. Room(0) = 0 /\ \A k \in Nat : Room(k) \in Nat
  BY Naturals DEF Room
<1>2. \A k \in Nat : Room(k + 1) = Room(k) + BatchSize
  BY Naturals DEF Room
<1>3. ASSUME NEW j \in Nat, NEW k \in Nat, j =< k PROVE Room(j) =< Room(k)
  <2>1. k - j \in Nat /\ (k - j) * BatchSize \in Nat
    BY <1>3, Naturals
  <2>2. k * BatchSize = j * BatchSize + (k - j) * BatchSize
    BY Naturals
  <2> QED
    BY <1>3, <2>1, <2>2, Naturals DEF Room
<1> QED
  BY <1>1, <1>2, <1>3

\* What the numbers are, and whose.
LEMMA Numbers ==
  ASSUME TypeInv
  PROVE  /\ saved \in Int /\ purged \in Nat /\ at \in Nat /\ last \in Nat /\ round \in Nat
         /\ Len(journal) \in Nat /\ purged =< Len(journal) /\ at =< last /\ last =< Len(journal)
         /\ round =< MaxRounds /\ Top \in Nat /\ Top =< Len(journal) /\ saved =< Top /\ purged =< Top
         /\ (Top = saved \/ Top = purged) /\ saved >= -1
         /\ MaxRounds \in Nat /\ MaxRounds > 0 /\ BatchSize \in Nat
         /\ MaxRounds - round \in Nat /\ Room(round) \in Nat /\ Room(MaxRounds - round) \in Nat
         /\ Room(MaxRounds) \in Nat
<1>1. /\ Len(journal) \in Nat /\ purged \in 0..Len(journal) /\ saved \in -1..Len(journal)
      /\ at \in 0..Len(journal) /\ last \in at..Len(journal) /\ round \in 0..MaxRounds
      /\ MaxRounds \in Nat \ {0} /\ BatchSize \in Nat
  BY Typing, Naturals
<1>2. Top \in Nat /\ Top =< Len(journal) /\ saved =< Top /\ purged =< Top /\ (Top = saved \/ Top = purged)
  BY <1>1 DEF Top, Sup
<1>3. MaxRounds - round \in Nat
  BY <1>1
<1>4. Room(round) \in Nat /\ Room(MaxRounds - round) \in Nat /\ Room(MaxRounds) \in Nat
  <2>1. round \in Nat /\ MaxRounds \in Nat
    BY <1>1
  <2> QED
    BY <1>3, <2>1, Rooms
<1> QED
  BY <1>1, <1>2, <1>3, <1>4

LEMMA NewsNumbers ==
  ASSUME TypeInv
  PROVE  /\ \A m \in NewsIn(pending) : m[2] \in Nat /\ m[2] =< Len(journal)
         /\ \A m \in taken : m[2] \in Nat /\ m[2] =< Len(journal)
<1>1. Len(journal) \in Nat /\ Holds(pending, Len(journal)) /\ taken \subseteq Kinds \X (1..Len(journal))
  BY Typing
<1>2. \A m \in NewsIn(pending) : m[2] \in 1..Len(journal)
  BY <1>1, NewsAreOfLines
<1>3. \A m \in taken : m[2] \in 1..Len(journal)
  BY <1>1
<1> QED
  BY <1>1, <1>2, <1>3

LEMMA UptoMore ==
  ASSUME NEW S, \A m \in S : m[2] \in Nat, NEW a \in Int, NEW b \in Int, a =< b, Upto(S, a)
  PROVE  Upto(S, b)
BY DEF Upto

LEMMA ReachStands ==
  ASSUME ReachInv, UNCHANGED <<pc, saved, at, last, round, purged, pending, taken>>
  PROVE  ReachInv'
BY DEF ReachInv, Reading, Top

\* A pass that ends, or the process that stops: what waits stands or shrinks.
LEMMA EndingKeepsReach ==
  ASSUME ReachInv, UNCHANGED <<saved, purged, taken>>, pc' \in {"idle", "down", "sending"},
         NewsIn(pending') \subseteq NewsIn(pending)
  PROVE  ReachInv'
<1>1. /\ Upto(NewsIn(pending), Top + Room(MaxRounds)) /\ Upto(taken, Top)
      /\ NewsIn(pending) \cap taken = {} /\ Top' = Top
  BY DEF ReachInv, Top
<1>2. Upto(NewsIn(pending'), Top + Room(MaxRounds))
  BY <1>1 DEF Upto
<1> QED
  BY <1>1, <1>2 DEF ReachInv

\* The janitor sweeps on, or the cursor is placed: both only help.
LEMMA RaisingKeepsReach ==
  ASSUME TypeInv, TypeInv', ReachInv, purged' >= purged, saved' >= saved,
         saved' = saved \/ pc' = "idle",
         UNCHANGED <<at, last, round, pending, taken>>, pc' = pc \/ pc' = "idle"
  PROVE  ReachInv'
<1> DEFINE top == Top'
           sup == Sup(last, purged')
           sup2 == Sup(at, purged')
<1>1. /\ top \in Nat /\ Top =< top /\ sup \in Nat /\ Sup(last, purged) \in Nat
      /\ Sup(last, purged) =< sup /\ sup2 \in Nat /\ Sup(at, purged) \in Nat /\ Sup(at, purged) =< sup2
  <2>1. journal' \in Seq(Lines) /\ purged' \in 0..Len(journal') /\ saved' \in -1..Len(journal')
    BY DEF TypeInv, TypeOK
  <2>2. Len(journal') \in Nat
    BY <2>1
  <2>3. purged' \in Nat /\ saved' \in Int
    BY <2>1, <2>2
  <2>4. /\ purged \in Nat /\ saved \in Int /\ last \in Nat /\ at \in Nat
        /\ purged' >= purged /\ saved' >= saved
    BY Numbers
  <2>5. top = IF saved' > purged' THEN saved' ELSE purged'
    BY DEF Top, Sup
  <2> QED
    BY <2>3, <2>4, <2>5 DEF Top, Sup
<1>2. /\ \A m \in NewsIn(pending) : m[2] \in Nat
      /\ \A m \in taken : m[2] \in Nat
  BY NewsNumbers
<1>3. Top \in Nat /\ Room(round) \in Nat /\ Room(MaxRounds - round) \in Nat /\ Room(MaxRounds) \in Nat
      /\ last \in Nat
  BY Numbers
<1>4. top = Top'
  OBVIOUS
<1> HIDE DEF top, sup, sup2
<1>5. Upto(NewsIn(pending), top + Room(MaxRounds)) /\ Upto(taken, top)
  BY <1>1, <1>2, <1>3, UptoMore DEF ReachInv
<1>6. CASE pc' = "idle"
  BY <1>4, <1>5, <1>6 DEF ReachInv
<1>7. CASE pc' = pc /\ saved' = saved
  <2>1. pc = "reading" => Reading'
    <3> SUFFICES ASSUME pc = "reading" PROVE Reading'
      OBVIOUS
    <3>1. Reading
      BY DEF ReachInv
    <3>2. last =< top + Room(round)
      BY <1>1, <1>3, <3>1 DEF Reading
    <3>3. Upto(NewsIn(pending), sup + Room(MaxRounds - round))
      BY <1>1, <1>2, <1>3, <3>1, UptoMore DEF Reading
    <3>4. at =< Top => at =< top
      BY <1>1, <1>3, Numbers
    <3> QED
      BY <1>4, <3>1, <3>2, <3>3, <3>4 DEF Reading, sup
  <2>2. pc = "saving" => Upto(NewsIn(pending), sup2)
    BY <1>1, <1>2, UptoMore DEF ReachInv
  <2>3. pc = "flushing" => Upto(NewsIn(pending), top)
    BY <1>1, <1>2, <1>3, UptoMore DEF ReachInv
  <2> QED
    BY <1>4, <1>5, <1>7, <2>1, <2>2, <2>3 DEF ReachInv, sup2
<1> QED
  BY <1>6, <1>7

LEMMA BeginningKeepsReach ==
  ASSUME TypeInv, ReachInv, ReadConfig
  PROVE  ReachInv'
<1>1. /\ UNCHANGED <<saved, purged>> /\ pc' = "reading"
      /\ at' = (IF saved = -1 THEN 0 ELSE saved) /\ last' = at' /\ round' = 0
  BY DEF ReadConfig, database
<1>2. UNCHANGED <<pending, taken>>
  BY ElapseFacts DEF ReadConfig
<1>3. /\ saved \in Int /\ saved >= -1 /\ purged \in Nat /\ Top \in Nat /\ saved =< Top /\ MaxRounds \in Nat
      /\ Room(MaxRounds) \in Nat /\ Top' = Top
  BY <1>1, Numbers DEF Top
<1>4. at' \in Nat /\ saved =< at' /\ at' =< Top
  BY <1>1, <1>3
<1>5. Sup(last', purged) \in Nat /\ Top =< Sup(last', purged)
  BY <1>1, <1>3, <1>4 DEF Sup, Top
<1>6. Upto(NewsIn(pending), Sup(last', purged) + Room(MaxRounds))
  <2>1. Upto(NewsIn(pending), Top + Room(MaxRounds))
    BY DEF ReachInv
  <2> DEFINE sup == Sup(last', purged)
  <2>2. sup \in Nat /\ Top =< sup
    BY <1>5
  <2> HIDE DEF sup
  <2>3. Upto(NewsIn(pending), sup + Room(MaxRounds))
    BY <1>3, <2>1, <2>2, NewsNumbers, UptoMore
  <2> QED
    BY <2>3 DEF sup
<1>7. last' =< Top + Room(round')
  BY <1>1, <1>3, <1>4, Rooms
<1>8. MaxRounds - round' = MaxRounds
  BY <1>1, <1>3
<1>9. ~(at' < last')
  BY <1>1, <1>4
<1>10. Reading'
  BY <1>1, <1>2, <1>3, <1>4, <1>6, <1>7, <1>8, <1>9 DEF Reading
<1> QED
  BY <1>1, <1>2, <1>3, <1>4, <1>10 DEF ReachInv

LEMMA Difference == ASSUME NEW m \in Nat, NEW n \in Nat, m =< n PROVE n - m \in Nat
OBVIOUS

LEMMA PageEnds ==
  ASSUME NEW top \in Nat, NEW from \in Nat, NEW end \in Nat, NEW here \in Nat, NEW next \in Nat,
         NEW page \in Nat, end =< from + page, from =< top + here, here + page =< next
  PROVE  end =< top + next
OBVIOUS

LEMMA PageCovers ==
  ASSUME NEW from \in Nat, NEW end \in Nat, NEW sup \in Nat, NEW left \in Nat, NEW was \in Nat,
         NEW page \in Nat, sup >= end, end = from + page, was = left + page
  PROVE  from + was \in Nat /\ sup + left \in Nat /\ from + was =< sup + left
OBVIOUS

\* A page: what it leaves for the pages to come shrinks by what it covers.
LEMMA PageKeepsReach ==
  ASSUME TypeInv, ReachInv, AuditSince
  PROVE  ReachInv'
<1>1. /\ UNCHANGED <<saved, purged, pending, taken>> /\ pc' = "reading" /\ pc = "reading"
  BY DEF AuditSince, database, held, history
<1>2. /\ at = last /\ round < MaxRounds
      /\ at' = Sup(last, purged)
      /\ at' \in 0..Len(journal) /\ last' \in at'..Len(journal)
      /\ round' \in round + 1..MaxRounds
      /\ \/ last' = Len(journal) /\ last' =< at' + BatchSize
         \/ last' = at' + BatchSize /\ round' = round + 1
  <2>1. /\ at = last /\ round < MaxRounds
        /\ at' \in 0..Len(journal) /\ last' \in at'..Len(journal)
        /\ round' \in round + 1..MaxRounds
        /\ \/ last' = Len(journal) /\ last' =< at' + BatchSize
           \/ last' = at' + BatchSize /\ round' = round + 1
    BY PageFacts
  <2>2. at' = IF purged > at THEN purged ELSE at
    BY PageFacts
  <2>3. at' = Sup(last, purged)
    BY <2>1, <2>2, Numbers DEF Sup
  <2> QED
    BY <2>1, <2>3
<1>3. /\ saved \in Int /\ purged \in Nat /\ at \in Nat /\ round \in Nat /\ Len(journal) \in Nat
      /\ Top \in Nat /\ purged =< Top /\ saved =< Top /\ (Top = saved \/ Top = purged)
      /\ MaxRounds \in Nat /\ BatchSize \in Nat /\ Room(round) \in Nat
  BY Numbers
<1>4. at' \in Nat /\ last' \in Nat /\ round' \in Nat /\ at' =< last' /\ last' =< at' + BatchSize
      /\ round' >= round + 1 /\ round' =< MaxRounds
  BY <1>2, <1>3
<1>5. Reading /\ saved =< at
  BY <1>1 DEF ReachInv
<1>6. at' >= at /\ at' >= purged /\ at' =< Top + Room(round) /\ saved =< at' /\ Top =< at'
  BY <1>2, <1>3, <1>5 DEF Reading, Sup
<1>7. last' =< Top + Room(round')
  <2>1. Room(round + 1) = Room(round) + BatchSize /\ Room(round + 1) =< Room(round')
        /\ Room(round') \in Nat
    <3>1. round + 1 \in Nat /\ round + 1 =< round'
      BY <1>2, <1>3
    <3> QED
      BY <1>3, <1>4, <3>1, Rooms
  <2> DEFINE here == Room(round)
             next == Room(round')
  <2>2. here \in Nat /\ next \in Nat /\ here + BatchSize =< next /\ at' =< Top + here
    BY <1>3, <1>6, <2>1
  <2> HIDE DEF here, next
  <2>3. /\ Top \in Nat /\ at' \in Nat /\ last' \in Nat /\ BatchSize \in Nat
        /\ last' =< at' + BatchSize
    BY <1>3, <1>4
  <2>4. last' =< Top + next
    BY <2>2, <2>3, PageEnds
  <2> QED
    BY <2>4 DEF next
<1>8. Upto(NewsIn(pending), Sup(last', purged) + Room(MaxRounds - round'))
  <2> DEFINE left == Room(MaxRounds - round')
             sup == Sup(last', purged)
  <2>1. MaxRounds - round' \in Nat /\ left \in Nat
    <3>1. MaxRounds \in Nat /\ round' \in Nat /\ round' =< MaxRounds
      BY <1>3, <1>4
    <3>2. MaxRounds - round' \in Nat
      BY <3>1, Difference
    <3> QED
      BY <3>2, Rooms
  <2>2. sup \in Nat /\ sup >= last'
    BY <1>3, <1>4 DEF Sup
  <2>3. CASE last' = Len(journal)
    <3> HIDE DEF left, sup
    <3>1. Upto(NewsIn(pending), Len(journal))
      BY NewsNumbers DEF Upto
    <3>2. Upto(NewsIn(pending), sup + left)
      BY <1>3, <2>1, <2>2, <2>3, <3>1, NewsNumbers, UptoMore
    <3> QED
      BY <3>2 DEF left, sup
  <2>4. CASE last' = at' + BatchSize /\ round' = round + 1
    <3> DEFINE was == Room(MaxRounds - round)
    <3>1. was = left + BatchSize
      <4> DEFINE k == MaxRounds - round'
      <4>1. k \in Nat /\ MaxRounds - round = k + 1
        BY <1>3, <2>1, <2>4
      <4> HIDE DEF k
      <4>2. Room(k + 1) = Room(k) + BatchSize
        BY <4>1, Rooms
      <4> QED
        BY <4>1, <4>2 DEF k
    <3>2. Upto(NewsIn(pending), at' + was)
      BY <1>2, <1>5 DEF Reading
    <3> HIDE DEF left, sup, was
    <3>3. at' + was \in Nat /\ sup + left \in Nat /\ at' + was =< sup + left
      <4>1. /\ at' \in Nat /\ last' \in Nat /\ BatchSize \in Nat /\ left \in Nat /\ sup \in Nat
            /\ sup >= last' /\ last' = at' + BatchSize /\ was = left + BatchSize
        BY <1>3, <1>4, <2>1, <2>2, <2>4, <3>1
      <4>2. was \in Nat
        BY <4>1
      <4> QED
        BY <4>1, <4>2, PageCovers
    <3>4. Upto(NewsIn(pending), sup + left)
      BY <3>2, <3>3, NewsNumbers, UptoMore
    <3> QED
      BY <3>4 DEF left, sup
  <2> QED
    BY <1>2, <2>3, <2>4
<1>9. Upto(taken, at')
  BY <1>3, <1>4, <1>6, NewsNumbers, UptoMore DEF ReachInv
<1>10. round' # 0
  BY <1>2, <1>3
<1>11. Top' = Top
  BY <1>1 DEF Top
<1>12. Reading'
  BY <1>1, <1>7, <1>8, <1>9, <1>10, <1>11 DEF Reading
<1> QED
  BY <1>1, <1>6, <1>11, <1>12 DEF ReachInv

\* The end of the pages: what waits is behind the cursor of the pass.
LEMMA CatchingUpKeepsReach ==
  ASSUME TypeInv, ReachInv, CaughtUp
  PROVE  ReachInv'
<1>1. /\ UNCHANGED <<saved, purged, at, last, round, pending, taken>> /\ pc = "reading" /\ at = last
      /\ (round = MaxRounds \/ LinesSince(at) = 0)
      /\ pc' = IF round > 0 THEN "saving" ELSE "flushing"
  BY DEF CaughtUp, database, held, history
<1>2. Reading /\ saved =< at
  BY <1>1 DEF ReachInv
<1>3. /\ saved \in Int /\ purged \in Nat /\ at \in Nat /\ round \in Nat /\ Len(journal) \in Nat
      /\ purged =< Len(journal) /\ at =< Len(journal) /\ Top \in Nat /\ purged =< Top
      /\ MaxRounds \in Nat /\ MaxRounds > 0
  BY <1>1, Numbers
<1>4. Sup(at, purged) \in Nat
  BY <1>3 DEF Sup
<1>5. Upto(NewsIn(pending), Sup(at, purged))
  <2>1. CASE round = MaxRounds
    <3>1. MaxRounds - round = 0
      BY <1>3, <2>1
    <3>2. Sup(last, purged) + Room(MaxRounds - round) = Sup(at, purged)
      BY <1>1, <1>4, <3>1, Rooms
    <3> QED
      BY <1>2, <3>2 DEF Reading
  <2>2. CASE LinesSince(at) = 0
    <3>1. Sup(at, purged) = Len(journal)
      BY <1>3, <2>2 DEF LinesSince, Sup
    <3> QED
      BY <3>1, NewsNumbers DEF Upto
  <2> QED
    BY <1>1, <2>1, <2>2
<1>6. CASE round > 0
  BY <1>1, <1>2, <1>5, <1>6 DEF ReachInv, Top
<1>7. CASE ~(round > 0)
  <2>1. at =< Top
    BY <1>2, <1>3, <1>7 DEF Reading
  <2>2. Sup(at, purged) =< Top
    BY <1>3, <2>1 DEF Sup
  <2>3. Upto(NewsIn(pending), Top)
    BY <1>3, <1>4, <1>5, <2>2, NewsNumbers, UptoMore
  <2> QED
    BY <1>1, <1>7, <2>3 DEF ReachInv, Top
<1> QED
  BY <1>6, <1>7

LEMMA AbsorbingKeepsReach ==
  ASSUME TypeInv, ReachInv, absorb
  PROVE  ReachInv'
<1>1. UNCHANGED <<saved, purged, last, round, taken, pc>>
  BY DEF absorb, history
<1>2. /\ pc = "reading" /\ at < last /\ at' = at + 1
      /\ \A m \in NewsIn(pending') : m \in NewsIn(pending) \/ m[2] = at'
  BY AbsorbFacts
<1>3. Reading /\ saved =< at
  BY <1>2 DEF ReachInv
<1>4. /\ saved \in Int /\ purged \in Nat /\ at \in Nat /\ last \in Nat /\ round \in Nat
      /\ Top \in Nat /\ MaxRounds \in Nat /\ Room(MaxRounds - round) \in Nat
      /\ Room(round) \in Nat /\ Room(MaxRounds) \in Nat /\ round =< MaxRounds
  BY Numbers
<1>5. Top' = Top
  BY <1>1 DEF Top
<1>6. Room(round) =< Room(MaxRounds)
  BY <1>4, Rooms
<1>7. at' =< Top + Room(MaxRounds)
  BY <1>2, <1>3, <1>4, <1>6 DEF Reading
<1>8. at' =< Sup(last, purged) + Room(MaxRounds - round)
  BY <1>2, <1>4 DEF Sup
<1>9. Upto(NewsIn(pending'), Sup(last, purged) + Room(MaxRounds - round))
  BY <1>2, <1>3, <1>8 DEF Reading, Upto
<1>10. Upto(NewsIn(pending'), Top + Room(MaxRounds))
  BY <1>2, <1>7 DEF ReachInv, Upto
<1>11. Upto(taken, at) /\ Upto(taken, at')
  <2>1. Upto(taken, at)
    BY <1>2, <1>3 DEF Reading
  <2> QED
    BY <1>2, <1>4, <2>1, NewsNumbers, UptoMore
<1>12. NewsIn(pending') \cap taken = {}
  <2> SUFFICES ASSUME NEW m \in NewsIn(pending'), m \in taken PROVE FALSE
    OBVIOUS
  <2>1. m \notin NewsIn(pending)
    BY DEF ReachInv
  <2>2. m[2] = at + 1 /\ m[2] =< at
    BY <1>2, <1>11, <2>1 DEF Upto
  <2> QED
    BY <1>4, <2>2
<1>13. round # 0 /\ saved =< at'
  BY <1>2, <1>3, <1>4 DEF Reading
<1>14. Reading'
  BY <1>1, <1>3, <1>5, <1>9, <1>11, <1>13 DEF Reading
<1> QED
  BY <1>1, <1>2, <1>5, <1>10, <1>12, <1>13, <1>14 DEF ReachInv

LEMMA SavingKeepsReach ==
  ASSUME TypeInv, ReachInv, SaveCursor
  PROVE  ReachInv'
<1>1. /\ UNCHANGED <<purged, pending, taken>> /\ pc = "saving" /\ pc' = "flushing" /\ saved' = at
  BY DEF SaveCursor, held, history
<1>2. saved =< at /\ Upto(NewsIn(pending), Sup(at, purged))
  BY <1>1 DEF ReachInv
<1>3. /\ saved \in Int /\ purged \in Nat /\ at \in Nat /\ Top \in Nat /\ Room(MaxRounds) \in Nat
  BY Numbers
<1>4. Top' = Sup(at, purged)
  BY <1>1 DEF Top
<1>5. Sup(at, purged) \in Nat /\ Top =< Sup(at, purged)
  BY <1>2, <1>3 DEF Top, Sup
<1> DEFINE sup == Sup(at, purged)
<1>6. sup \in Nat /\ Top =< sup /\ Top' = sup /\ Upto(NewsIn(pending), sup)
  BY <1>2, <1>4, <1>5
<1> HIDE DEF sup
<1>7. Upto(taken, sup) /\ Upto(NewsIn(pending), sup + Room(MaxRounds))
  BY <1>3, <1>6, NewsNumbers, UptoMore DEF ReachInv
<1> QED
  BY <1>1, <1>6, <1>7 DEF ReachInv

LEMMA FlushKeepsReach ==
  ASSUME TypeInv, ReachInv, flush
  PROVE  ReachInv'
<1>1. /\ UNCHANGED <<saved, purged>> /\ pending' = Rest /\ pc = "flushing" /\ pc' \in {"idle", "sending"}
      /\ taken' \subseteq taken \cup NewsOf(ReadyEvents)
  BY FlushFacts DEF database
<1>2. /\ NewsIn(pending') \subseteq NewsIn(pending)
      /\ NewsOf(ReadyEvents) \subseteq NewsIn(pending)
      /\ NewsIn(pending') \cap NewsOf(ReadyEvents) = {}
  BY <1>1, ReadyFacts
<1>3. Upto(NewsIn(pending), Top) /\ Top' = Top
  BY <1>1 DEF ReachInv, Top
<1>4. Upto(taken', Top)
  BY <1>1, <1>2, <1>3 DEF ReachInv, Upto
<1>5. Upto(NewsIn(pending'), Top + Room(MaxRounds))
  BY <1>2 DEF ReachInv, Upto
<1>6. NewsIn(pending') \cap taken' = {}
  BY <1>1, <1>2 DEF ReachInv
<1> QED
  BY <1>1, <1>3, <1>4, <1>5, <1>6 DEF ReachInv

LEMMA NextKeepsReach == TypeInv /\ TypeInv' /\ ReachInv /\ [Next]_vars => ReachInv'
<1> SUFFICES ASSUME TypeInv, TypeInv', ReachInv, [Next]_vars PROVE ReachInv'
  OBVIOUS
<1>1. CASE UNCHANGED vars
  BY <1>1, ReachStands DEF vars, database, pass, held, history
<1>2. CASE AppendAudit \/ Settings
  BY <1>2, ReachStands DEF AppendAudit, Settings, StartEdit, WriteSetting, SaySetting, EditFails,
                           pass, held, history
<1>3. CASE PurgeAuditBefore
  <2>1. UNCHANGED <<saved, pc, at, last, round, pending, taken>>
    BY <1>3 DEF PurgeAuditBefore, pass, held, history
  <2>2. purged' \in purged + 1..Len(journal) /\ purged \in Nat /\ Len(journal) \in Nat
    BY <1>3, Numbers DEF PurgeAuditBefore
  <2>3. purged' >= purged /\ saved' >= saved
    BY <2>1, <2>2, Numbers
  <2> QED
    BY <2>1, <2>3, RaisingKeepsReach
<1>4. CASE Start
  <2>1. UNCHANGED <<purged, at, last, round, pending, taken>> /\ pc' = "idle"
    BY <1>4 DEF Start, held
  <2>2. LastAuditID \in Nat
    BY Numbers DEF LastAuditID
  <2>3. purged' >= purged /\ saved' >= saved
    BY <1>4, <2>1, <2>2, Numbers DEF Start
  <2> QED
    BY <2>1, <2>3, RaisingKeepsReach
<1>5. CASE ReadConfig
  BY <1>5, BeginningKeepsReach
<1>6. CASE AuditSince
  BY <1>6, PageKeepsReach
<1>7. CASE CaughtUp
  BY <1>7, CatchingUpKeepsReach
<1>8. CASE absorb
  BY <1>8, AbsorbingKeepsReach
<1>9. CASE SaveCursor
  BY <1>9, SavingKeepsReach
<1>10. CASE flush
  BY <1>10, FlushKeepsReach
<1>11. CASE SlowPass
  BY <1>11, ElapseFacts, ReachStands DEF SlowPass, database, pass
<1>12. CASE ConfigFails
  BY <1>12, ElapseFacts, ReachStands DEF ConfigFails, database, pass
<1>13. CASE StartFails \/ NothingDue \/ NoteAddressFails \/ SaveCursorFails
  BY <1>13, EndingKeepsReach DEF StartFails, NothingDue, NoteAddressFails, SaveCursorFails,
                                 database, held, history
<1>14. CASE send \/ Refused
  BY <1>14, EndingKeepsReach DEF send, Refused, Over, database, held, history
<1>15. CASE Unreachable
  <2>1. UNCHANGED <<saved, purged, pending, taken>> /\ pc = "sending"
        /\ (pc' = pc \/ pc' = "idle")
    BY <1>15 DEF Unreachable, Over, database, held, history
  <2> QED
    BY <2>1, EndingKeepsReach
<1>16. CASE Crash
  <2>1. UNCHANGED <<saved, purged, taken>> /\ pc' = "down" /\ pending' = NoEvents
    BY <1>16 DEF Crash, database
  <2>2. NewsIn(pending') \subseteq NewsIn(pending)
    BY <2>1, NothingHeld
  <2> QED
    BY <2>1, <2>2, EndingKeepsReach
<1> QED
  BY <1>1, <1>2, <1>3, <1>4, <1>5, <1>6, <1>7, <1>8, <1>9, <1>10, <1>11, <1>12, <1>13, <1>14,
     <1>15, <1>16 DEF Next, Pass, Failures

LEMMA ReachHolds == Spec => []ReachInv
<1>1. Init => ReachInv
  <2> SUFFICES ASSUME Init PROVE ReachInv
    OBVIOUS
  <2>1. NewsIn(pending) = {} /\ taken = {} /\ pc = "down"
    BY NothingHeld DEF Init
  <2> QED
    BY <2>1 DEF ReachInv, Upto
<1> QED
  BY <1>1, TypesHold, NextKeepsReach, PTL DEF Spec

\* No line is told twice under the same kind, whatever pass fails and is read
\* again, whatever the janitor sweeps meanwhile, and across stops and restarts:
\* pass saves its cursor before it calls flush (watcher.go).
THEOREM NeverTwice == Spec => AnnouncedOnce
<1>1. ASSUME ReachInv
      PROVE  [taken' # taken => (NewsOf(Waiting) \ NewsOf({pending'[k] : k \in DOMAIN pending'}))
                                  \cap taken = {}]_vars
  <2>1. NewsOf(Waiting) \cap taken = {}
    BY <1>1 DEF ReachInv, NewsIn, Waiting
  <2> QED
    BY <2>1
<1> QED
  BY <1>1, ReachHolds, PTL DEF AnnouncedOnce

-----------------------------------------------------------------------------
(***************************************************************************)
(* Nothing is passed over.  What is wanted is wanted by the settings, and  *)
(* by those of the pass in flight; behind the cursor of a pass, and not    *)
(* only behind the one that is saved, it has been told or swept away.      *)
(***************************************************************************)
Told(i) ==
  \E r \in classify(journal[i].action) : <<r.kind, i>> \in NewsIn(pending) \cup taken \cup lost

Missed(i) ==
  /\ Wants(config, journal[i])
  /\ pc \notin {"idle", "down"} => Wants(cfg, journal[i])
  /\ i > saved \/ i =< purged \/ Told(i)
  /\ pc \in {"reading", "saving"} => i > at \/ i =< purged \/ Told(i)

MissInv == \A i \in wanted : Missed(i)

LEMMA ToldStays ==
  ASSUME NEW i, journal'[i] = journal[i],
         NewsIn(pending) \cup taken \cup lost \subseteq NewsIn(pending') \cup taken' \cup lost',
         Told(i)
  PROVE  Told(i)'
BY DEF Told

\* A step that leaves the lines, the cursor and what is told where they are, and
\* begins no pass.
LEMMA MissStands ==
  ASSUME MissInv, UNCHANGED <<journal, purged, config, saved, pending, taken, lost, wanted>>,
         \/ pc' \in {"idle", "down"}
         \/ pc' = pc /\ UNCHANGED <<cfg, at>>
         \/ pc' \in {"saving", "flushing"} /\ pc \in {"reading", "saving"} /\ UNCHANGED <<cfg, at>>
  PROVE  MissInv'
<1> SUFFICES ASSUME NEW i \in wanted PROVE Missed(i)'
  BY DEF MissInv
<1>1. Missed(i)
  BY DEF MissInv
<1>2. Told(i) => Told(i)'
  BY ToldStays
<1> QED
  BY <1>1, <1>2 DEF Missed

LEMMA WrittenKeepsMiss ==
  ASSUME TypeInv, MissInv, NEW line \in Lines, Written(line),
         UNCHANGED <<purged, saved, config, pc, cfg, at, pending, taken, lost>>
  PROVE  MissInv'
<1> SUFFICES ASSUME NEW i \in wanted' PROVE Missed(i)'
  BY DEF MissInv
<1>1. CASE i \in wanted
  <2>1. i \in 1..Len(journal) /\ Missed(i)
    BY <1>1, Typing DEF MissInv
  <2>2. journal'[i] = journal[i]
    BY <2>1, WrittenFacts
  <2>3. Told(i) => Told(i)'
    BY <2>2, ToldStays
  <2> QED
    BY <2>1, <2>2, <2>3 DEF Missed
<1>2. CASE i \notin wanted
  <2>1. /\ i = Len(journal) + 1 /\ Wants(config, line)
        /\ (pc \in {"idle", "down"} \/ Wants(cfg, line))
    BY <1>2 DEF Written
  <2>2. journal'[i] = line
    BY <2>1, WrittenFacts
  <2>3. i > saved /\ i > at
    BY <2>1, Numbers
  <2> QED
    BY <2>1, <2>2, <2>3 DEF Missed
<1> QED
  BY <1>1, <1>2

LEMMA SettingsKeepMiss ==
  ASSUME TypeInv, MissInv, AppendAudit \/ Settings \/ PurgeAuditBefore
  PROVE  MissInv'
<1>1. CASE AppendAudit
  <2>1. PICK line \in Lines : Written(line)
    BY <1>1 DEF AppendAudit
  <2> QED
    BY <1>1, <2>1, WrittenKeepsMiss DEF AppendAudit, pass, held
<1>2. CASE StartEdit \/ EditFails
  BY <1>2, MissStands DEF StartEdit, EditFails, pass, held, history
<1>3. CASE WriteSetting
  <2>1. /\ UNCHANGED <<journal, purged, saved, pc, cfg, at, pending, taken, lost>>
        /\ wanted' = {i \in wanted : Wants(config', journal[i])}
    BY <1>3 DEF WriteSetting, pass, held
  <2> SUFFICES ASSUME NEW i \in wanted' PROVE Missed(i)'
    BY DEF MissInv
  <2>2. i \in wanted /\ Wants(config', journal[i]) /\ Missed(i)
    BY <2>1 DEF MissInv
  <2>3. Told(i) => Told(i)'
    BY <2>1, ToldStays
  <2> QED
    BY <2>1, <2>2, <2>3 DEF Missed
<1>4. CASE SaySetting
  <2>0. UNCHANGED <<purged, saved, config, pc, cfg, at, pending, taken, lost>>
    BY <1>4 DEF SaySetting, pass, held
  <2>1. CASE UNCHANGED <<journal, wanted>>
    BY <2>0, <2>1, MissStands
  <2>2. ASSUME NEW ip \in Addresses, Written([action |-> PolicyLine, ip |-> ip])
        PROVE  MissInv'
    <3>1. [action |-> PolicyLine, ip |-> ip] \in Lines
      BY LinesAssumption DEF Lines
    <3> QED
      BY <2>0, <2>2, <3>1, WrittenKeepsMiss
  <2> QED
    BY <1>4, <2>1, <2>2 DEF SaySetting
<1>5. CASE PurgeAuditBefore
  <2>1. /\ UNCHANGED <<journal, saved, config, pc, cfg, at, pending, taken, lost, wanted>>
        /\ purged' \in purged + 1..Len(journal)
    BY <1>5 DEF PurgeAuditBefore, pass, held, history
  <2>2. purged' >= purged /\ purged' \in Nat /\ purged \in Nat
    BY <2>1, Numbers
  <2> SUFFICES ASSUME NEW i \in wanted PROVE Missed(i)'
    BY <2>1 DEF MissInv
  <2>3. Missed(i) /\ i \in Nat
    BY Typing DEF MissInv
  <2>4. Told(i) => Told(i)'
    BY <2>1, ToldStays
  <2>5. i =< purged => i =< purged'
    BY <2>2, <2>3
  <2> QED
    BY <2>1, <2>3, <2>4, <2>5 DEF Missed
<1> QED
  BY <1>1, <1>2, <1>3, <1>4, <1>5 DEF Settings

LEMMA BeginningKeepsMiss ==
  ASSUME TypeInv, MissInv, Start \/ ReadConfig
  PROVE  MissInv'
<1>1. CASE Start
  <2>1. /\ UNCHANGED <<journal, purged, config, pending, taken, lost>> /\ pc' = "idle"
    BY <1>1 DEF Start, held
  <2>2. CASE saved = -1
    BY <1>1, <2>2 DEF Start, MissInv
  <2>3. CASE saved # -1
    BY <1>1, <2>1, <2>3, MissStands DEF Start
  <2> QED
    BY <2>2, <2>3
<1>2. CASE ReadConfig
  <2>1. /\ UNCHANGED <<journal, purged, config, saved>> /\ pc' = "reading"
        /\ cfg' = [config EXCEPT !.url = config.enabled /\ config.url]
        /\ at' = IF saved = -1 THEN 0 ELSE saved
    BY <1>2 DEF ReadConfig, database
  <2>2. UNCHANGED <<pending, taken, lost, wanted>>
    BY <1>2, ElapseFacts DEF ReadConfig
  <2>3. cfg'.enabled = config.enabled /\ cfg'.level = config.level
    BY <2>1, Typing DEF Configs
  <2> SUFFICES ASSUME NEW i \in wanted PROVE Missed(i)'
    BY <2>2 DEF MissInv
  <2>4. Missed(i) /\ i \in Nat /\ i > 0
    BY Typing DEF MissInv
  <2>5. Told(i) => Told(i)'
    BY <2>1, <2>2, ToldStays
  <2>6. Wants(cfg', journal[i])
    BY <2>3, <2>4 DEF Missed, Wants
  <2>7. i > saved => i > at'
    BY <2>1, <2>4
  <2> QED
    BY <2>1, <2>4, <2>5, <2>6, <2>7 DEF Missed
<1> QED
  BY <1>1, <1>2

LEMMA PageKeepsMiss ==
  ASSUME TypeInv, MissInv, AuditSince
  PROVE  MissInv'
<1>1. UNCHANGED <<journal, purged, config, saved, pc, cfg, pending, taken, lost, wanted>>
  BY DEF AuditSince, database, held, history
<1>2. pc = "reading" /\ at' = IF purged > at THEN purged ELSE at
  BY PageFacts
<1> SUFFICES ASSUME NEW i \in wanted PROVE Missed(i)'
  BY <1>1 DEF MissInv
<1>3. Missed(i) /\ i \in Nat
  BY Typing DEF MissInv
<1>4. Told(i) => Told(i)'
  BY <1>1, ToldStays
<1>5. i > at => i > at' \/ i =< purged
  BY <1>2, <1>3, Numbers
<1> QED
  BY <1>1, <1>2, <1>3, <1>4, <1>5 DEF Missed

LEMMA AbsorbingKeepsMiss ==
  ASSUME TypeInv, MissInv, absorb
  PROVE  MissInv'
<1>1. UNCHANGED <<journal, purged, config, saved, pc, cfg, taken, lost, wanted>>
  BY DEF absorb, history
<1>2. /\ pc = "reading" /\ at' = at + 1 /\ at \in Nat
      /\ NewsIn(pending) \subseteq NewsIn(pending')
      /\ \A r \in classify(journal[at'].action) :
           cfg.enabled /\ ~(r.sev < cfg.level) => <<r.kind, at'>> \in NewsIn(pending')
  BY AbsorbFacts, Numbers
<1> SUFFICES ASSUME NEW i \in wanted PROVE Missed(i)'
  BY <1>1 DEF MissInv
<1>3. Missed(i) /\ i \in Nat /\ Wants(cfg, journal[i])
  BY <1>2, Typing DEF MissInv, Missed
<1>4. Told(i) => Told(i)'
  BY <1>1, <1>2, ToldStays
<1>5. CASE i # at'
  <2>1. i > at => i > at'
    BY <1>2, <1>3, <1>5
  <2> QED
    BY <1>1, <1>2, <1>3, <1>4, <2>1 DEF Missed
<1>6. CASE i = at'
  <2>1. PICK r \in classify(journal[i].action) : r.sev >= cfg.level /\ cfg.enabled
    BY <1>3 DEF Wants
  <2>2. r.sev \in Int /\ cfg.level \in Int
    <3>1. r.sev \in Info..Critical
      BY RulesAreTyped DEF classify, Rules, RuleOK
    <3>2. cfg.level \in Info..Critical
      BY Typing, LinesAssumption DEF Configs
    <3> QED
      BY <3>1, <3>2 DEF Info, Critical
  <2>3. <<r.kind, i>> \in NewsIn(pending')
    BY <1>2, <1>6, <2>1, <2>2
  <2>4. Told(i)'
    BY <1>1, <2>3 DEF Told
  <2> QED
    BY <1>1, <1>2, <1>3, <2>4 DEF Missed
<1> QED
  BY <1>5, <1>6

LEMMA SavingKeepsMiss ==
  ASSUME TypeInv, MissInv, SaveCursor
  PROVE  MissInv'
<1>1. /\ UNCHANGED <<journal, purged, config, cfg, at, pending, taken, lost, wanted>>
      /\ pc = "saving" /\ pc' = "flushing" /\ saved' = at
  BY DEF SaveCursor, held, history
<1> SUFFICES ASSUME NEW i \in wanted PROVE Missed(i)'
  BY <1>1 DEF MissInv
<1>2. Missed(i)
  BY DEF MissInv
<1>3. Told(i) => Told(i)'
  BY <1>1, ToldStays
<1> QED
  BY <1>1, <1>2, <1>3 DEF Missed

LEMMA FlushKeepsMiss ==
  ASSUME TypeInv, MissInv, flush
  PROVE  MissInv'
<1>1. /\ UNCHANGED <<journal, purged, config, saved, cfg, lost, wanted>>
      /\ pc = "flushing" /\ pc' \in {"idle", "sending"} /\ pending' = Rest
      /\ taken' = taken \cup NewsOf(ReadyEvents) \/ (ReadyEvents = {} /\ taken' = taken)
  BY FlushFacts DEF database
<1>2. NewsIn(pending) \cup taken \cup lost \subseteq NewsIn(pending') \cup taken' \cup lost'
  BY <1>1, ReadyFacts
<1> SUFFICES ASSUME NEW i \in wanted PROVE Missed(i)'
  BY <1>1 DEF MissInv
<1>3. Missed(i)
  BY DEF MissInv
<1>4. Told(i) => Told(i)'
  BY <1>1, <1>2, ToldStays
<1> QED
  BY <1>1, <1>3, <1>4 DEF Missed

\* What a stop loses is told; what waits from beyond the cursor is read again.
LEMMA CrashKeepsMiss ==
  ASSUME TypeInv, MissInv, Crash
  PROVE  MissInv'
<1>1. /\ UNCHANGED <<journal, purged, config, saved, taken, wanted>> /\ pc' = "down"
      /\ lost' = lost \cup {n \in NewsIn(pending) : n[2] <= saved}
  BY DEF Crash, database, NewsIn, Waiting
<1> SUFFICES ASSUME NEW i \in wanted PROVE Missed(i)'
  BY <1>1 DEF MissInv
<1>2. Missed(i) /\ i \in Nat
  BY Typing DEF MissInv
<1>3. CASE Told(i) /\ ~(i > saved)
  <2>1. PICK r \in classify(journal[i].action) : <<r.kind, i>> \in NewsIn(pending) \cup taken \cup lost
    BY <1>3 DEF Told
  <2>2. i =< saved
    BY <1>2, <1>3, Numbers
  <2>3. <<r.kind, i>> \in taken' \cup lost'
    BY <1>1, <2>1, <2>2
  <2>4. Told(i)'
    BY <1>1, <2>1, <2>3 DEF Told
  <2> QED
    BY <1>1, <1>2, <2>4 DEF Missed
<1>4. CASE ~Told(i) \/ i > saved
  BY <1>1, <1>2, <1>4 DEF Missed
<1> QED
  BY <1>3, <1>4

LEMMA NextKeepsMiss == TypeInv /\ MissInv /\ [Next]_vars => MissInv'
<1> SUFFICES ASSUME TypeInv, MissInv, [Next]_vars PROVE MissInv'
  OBVIOUS
<1>1. CASE UNCHANGED vars
  BY <1>1, MissStands DEF vars, database, pass, held, history
<1>2. CASE AppendAudit \/ Settings \/ PurgeAuditBefore
  BY <1>2, SettingsKeepMiss
<1>3. CASE Start \/ ReadConfig
  BY <1>3, BeginningKeepsMiss
<1>4. CASE AuditSince
  BY <1>4, PageKeepsMiss
<1>5. CASE absorb
  BY <1>5, AbsorbingKeepsMiss
<1>6. CASE SaveCursor
  BY <1>6, SavingKeepsMiss
<1>7. CASE flush
  BY <1>7, FlushKeepsMiss
<1>8. CASE Crash
  BY <1>8, CrashKeepsMiss
<1>9. CASE SlowPass \/ ConfigFails
  <2>1. UNCHANGED <<journal, purged, config, saved, pending, taken, lost, wanted, pc, cfg, at>>
    BY <1>9, ElapseFacts DEF SlowPass, ConfigFails, database, pass
  <2> QED
    BY <2>1, MissStands
<1>10. CASE StartFails \/ CaughtUp \/ NothingDue \/ NoteAddressFails \/ SaveCursorFails
  <2>1. UNCHANGED <<journal, purged, config, saved, pending, taken, lost, wanted, cfg, at>>
    BY <1>10 DEF StartFails, CaughtUp, NothingDue, NoteAddressFails, SaveCursorFails,
                 database, held, history
  <2>2. pc' = "idle" \/ (pc = "reading" /\ pc' \in {"saving", "flushing"})
    BY <1>10 DEF StartFails, CaughtUp, NothingDue, NoteAddressFails, SaveCursorFails
  <2> QED
    BY <2>1, <2>2, MissStands
<1>11. CASE send \/ Refused \/ Unreachable
  <2>1. UNCHANGED <<journal, purged, config, saved, pending, taken, lost, wanted, cfg, at>>
    BY <1>11 DEF send, Refused, Unreachable, database, held, history
  <2>2. pc' = "idle" \/ pc' = pc
    BY <1>11 DEF send, Refused, Unreachable, Over
  <2> QED
    BY <2>1, <2>2, MissStands
<1> QED
  BY <1>1, <1>2, <1>3, <1>4, <1>5, <1>6, <1>7, <1>8, <1>9, <1>10, <1>11 DEF Next, Pass, Failures

\* A line that every configuration wanted announced is told, or lost with the
\* memory of a process that stopped, or was swept away before it was read: never
\* passed over, whatever fails in between (watcher.go, pass and absorb).
THEOREM NothingPassedOver == Spec => []NothingMissed
<1>1. Init => MissInv
  BY DEF Init, MissInv
<1>2. MissInv => NothingMissed
  BY DEF MissInv, Missed, Told, NothingMissed, NewsIn, Waiting
<1> QED
  BY <1>1, <1>2, TypesHold, NextKeepsMiss, PTL DEF Spec
=============================================================================
