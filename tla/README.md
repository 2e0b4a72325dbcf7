# A TLA+ verification project for SYNSEC

SYNSEC is a secret server: one Go binary that is both a server (a JSON API for
machines, a web interface for people) and a command line, on one SQLite database.
This directory holds TLA+ models of its core, the TLC configurations that check
them on small instances, and proofs, checked by TLAPS, that hold for every size.

Everything here is translated from the Go source. The paths below are relative to
`src/` unless they say otherwise.

    tlc -workers 2 -config VaultKeysOverlap.cfg MCVaultKeys     # one run
    tlapm VaultKeys_proofs.tla                                  # one module of proofs

`PROJECT.json` is the index: which run checks what (`runs`), which lines each
definition stands for (`map`), a plausible bug that breaks each property
(`mutants`), where the code and its documentation part (`findings`), what is hard to
test and where (`hazards`), and what is proved (`theorems`).

## 1. The system

Two kinds of process open the same database file: `synsec serve`, whose HTTP requests
run concurrently, and the commands of the shell, which run beside it. SQLite
serialises writers (WAL, `busy_timeout`); nothing else is shared between processes.
Inside a process, a `vault.Manager` holds the unwrapped root key behind a
`sync.RWMutex`.

| component | state it keeps | operations | modelled in |
|---|---|---|---|
| vault keys and secrets: `internal/vault/secrets.go`, `vault.go`, `internal/store/repo_secret.go`, `repo_project.go` | `projects.wrapped_dek`, `secrets`, `secret_versions` | create a vault; put, get, revert, delete a secret; rotate the key of a vault; delete a vault | `VaultKeys`, `SecretHistory` |
| key custody: `internal/vault/vault.go`, `recovery.go`, `internal/unseal`, `cmd/synsec/{init,recovercmd,resealcmd}.go` | `key_slots`, the file `root.key`, the TPM, the printed kit | init, unseal, recover, reseal, seal | `KeySlots` |
| accounts, members, shares: `internal/store/repo_{user,access}.go`, `internal/web/{members,accounts,access,vaults}.go`, `cmd/synsec/{sharecmd,usercmd,vaultcmd}.go` | `users`, `vault_members`, `secret_shares`, `projects.owner_id` | create and delete accounts and vaults; grant and withdraw | `VaultAccess` |
| sign-in and second factors: `internal/web/{login,twofactor,securitykey,settings,serversettings}.go`, `internal/store/repo_{session,totp,security_key}.go` | `users.totp_secret`, `totp_recovery`, `security_keys`; in memory: pending sign-ins, questions, fresh codes; the policy that requires a second factor | sign in, second step, enrol and remove a factor, change a password, set the policy | `SignIn` |
| sessions and confirmations: `internal/web/{session,confirm}.go`, `internal/auth/session.go`, `internal/store/repo_session.go` | `sessions`; in memory: confirmations | open, look up, extend, close, purge; ask for the password again | `Sessions` |
| throttle and derivation limiter: `internal/web/session.go`, `internal/auth/limiter.go` | in memory: failures by address, seats and slots | ask, wait, time out, count, forget | `FrontDoor` |
| service tokens and the API: `internal/api`, `internal/store/repo_token.go`, `internal/web/tokens.go`, `cmd/synsec/tokencmd.go` | `service_tokens`, `token_secrets` | create, limit, revoke; list, read, write, delete | `DeviceAccess` |
| network restrictions: `internal/store/repo_network.go`, `internal/web/networks.go`, `cmd/synsec/networkcmd.go` | `secret_networks` | pin, unpin, check | `DeviceAccess` |
| import: `internal/web/import.go`, `cmd/synsec/importcmd.go` | none | plan, then write one by one | `DeviceAccess` (plan and writes) |
| alerts: `internal/alert`, `internal/store/repo_seen.go`, `internal/web/alerts.go`, `cmd/synsec/alertcmd.go` | a cursor in the audit log, addresses seen; in memory: pending, muted, sent today | follow, fold, mute, send, configure | `AlertWatcher` |
| audit log and janitor: `internal/store/repo_audit.go`, `cmd/synsec/janitor.go` | `audit_log` | append, read after a cursor, purge | `AlertWatcher`, `Sessions` |
| API rate limiter: `internal/api/ratelimit.go` | a bucket per address | take a token | no |
| schema migrations: `internal/store/migrate.go` | `schema_migrations` | apply in order, one transaction each | no |
| settings pages, search, views | rows the forms write | sequential forms and pages | no |
| WebAuthn, cryptographic primitives, platform keystores | none, or the chip's | parse, verify, seal | external |
| process start-up, TLS, services, configuration | files of the host | I/O | no |

How they interact. A request is authenticated (session or token), authorised
(`requireVault`, `requireSecret`, the scope of the token, the address), then calls the
manager, which takes the read lock on the root key, unwraps the key of the vault, and runs
statements or a transaction of the store. Each of these reads something the next one uses, and
**nothing holds across them but the foreign keys of the schema**. That is where the
interesting behaviour is: the models give every SQL statement or transaction a step
of its own, keep in the operation what the code keeps in local variables, and let
everything else move in between.

Behaviours that are hard to test, by component (the full list with lines is
`hazards` in PROJECT.json):

- *vault keys*: a key unwrapped before a transaction and used in it; rotation beside
  writes; two reads answered as one; Seal against requests in flight; crashes.
- *key custody*: four kinds of state (database, file, chip, paper) written in
  sequence and never undone; fallback from one keystore to the other; a data
  directory that moves; interruption between any two steps.
- *access*: check, then act; deletions that cascade under a request; the last
  administrator, the last manager, the first account.
- *sign-in*: a proof used once, guessed in parallel; the last factor removed twice;
  sign-ins that outlive a password.
- *sessions*: an expiry computed from one row and stored over another; a confirmation that
  lands after the sign-out or the change of password it should not survive.
- *throttle and limiter*: attempts that all pass the check before any of them fails; a shift
  that wraps; a record forgotten with its lockout; a waiter that times out with its seat.
- *tokens and networks*: a scope written in two statements and read in two; an address
  checked on one row and a name used later.
- *alerts*: a cursor saved before what it passed is sent, and passes read again; folding,
  muting, a ceiling; a configuration that changes under a pass.

What makes each correct: nothing readable is ever lost, and a history only grows
(vault keys); one root key, one paper that opens it, for ever (custody); no grant
outlives what it is about, the root account stays, a vault keeps a manager
(access); a proof serves once, a standing factor is asked for (sign-in); a session lapses
when it should and what is sensitive stays behind a password (sessions); a lockout is what
the failures promise and is served out, and places are conserved (throttle, limiter); a
token never opens more than its scope (tokens); every line of the log that is wanted is
announced, counted or known to be lost (alerts).

## 2. The models

| module | what it is |
|---|---|
| `VaultKeys` | vaults, keys, secrets and versions; operations in flight; the root key of each process |
| `SecretHistory` | what `VaultKeys` promises: histories that grow at their end |
| `KeySlots` | the machine slot, the recovery slot, `root.key`, the TPM, the paper, and the commands |
| `VaultAccess` | accounts, members, shares, owners; requests in flight |
| `SignIn` | accounts, their factors and codes, sessions; requests in flight; the policy |
| `Sessions` | the sessions of an account in time, and the password asked for again |
| `FrontDoor` | the lockout of an address, the waiting room and the slots; attempts in flight |
| `DeviceAccess` | tokens, secrets and networks; calls of devices and operations of people in flight |
| `AlertWatcher` | the journal, the settings, the passes of the watcher and what it holds in memory |
| `..._proofs` | the theorems about each of the above but `SecretHistory` |
| `MC...` | what TLC needs: who runs where, what is symmetric, what was there before |

The modules meet at rows. `VaultKeys` says what a secret holds, `DeviceAccess` which row is
under a name and who among machines may reach it, `VaultAccess` who among people may; `SignIn`
says what opens a session and which password it rests on, `Sessions` what becomes of it,
`FrontDoor` how often it may be tried. Definitions called "plausible bug" or "Mutant" are not part of
a model: they are what `mutants` puts in the place of the definition after them.

### VaultKeys

| TLA+ | code |
|---|---|
| `wrapped[v]` | `projects.wrapped_dek`; the wrapping is dropped, the root key being the same for all (`KeySlots!OneRoot`) |
| `secrets[v][n]`, `versions[id][i]` | rows of `secrets` and `secret_versions`; a name stands for environment and slug |
| `SealSecret`, `OpenSecret` | `crypto.SealSecret`/`OpenSecret`: authenticated encryption bound to vault, environment, slug and version (`secretRef`) |
| `root[p]` | `Manager.rootKey` with its RWMutex; "sealing": a writer waits, so no reader enters |
| `BeginPut`, `WriteVersion` | `Manager.PutSecret`: `withDEK` unwraps, then one transaction of `store.PutSecret` calls back to seal |
| `ReadMeta`, `BeginGet`, `GetSecret`, `Reply` | `getSecret` of the API and `revealSecret` of the web: `SecretMeta`, checks, `Manager.GetSecret`, the answer |
| `BeginRevert`, `RevertMeta`, `RevertOpen`, `WriteVersion` | `Manager.RevertSecret` |
| `BeginRotate`, `RotateVaultBlobs` | `Manager.RotateVaultKey`, `store.RotateVaultBlobs`: one transaction |
| `CreateVault`, `DeleteProject`, `DeleteSecret` | with the cascades of the schema |
| `Fail`, `Crash`, `Unseal`, `BeginSeal`, `Seal` | error returns, death of a process, start, `Manager.Seal` |

`BeginPut` merges the read lock with the query for the vault's row (a wait for the lock
changes nothing another operation can see). `GetSecret` is one joined query in the
code as well. Labels, comments and allowed networks are left out: they are separate
columns and tables that no key touches.

`SecretHistory` is the same thing without keys or transactions; `KeepsPromise` is the
refinement, under the mapping `History`: the values that the key each vault
advertises recovers.

### KeySlots

One action per step that leaves a trace: `Protect` (the keystore takes the wrapping
key; a keyfile is replaced on the spot by a rename), `SaveMachineSlot`, `SetMeta`,
`SaveRecoverySlot`, `PrintKit`, `Verify`, with `FallBack` for `provisionMachineSlot`'s second
choice and `Abort` for an error or a kill between two steps. `Unseal` is in two: `KeySlotByKind`
reads the slot, `Unseal` asks the keystore. `runInit`, `runRecover`, `runServer` and
`runMaintenanceReseal` start the commands. The world moves while everything is stopped: `TpmChanges`,
`MoveTo` (with `root.key` or without it; the handle of a keyfile slot is a path, so "without"
is also a directory that moved to another path). The keystores are those of Linux; on
Windows the second choice is DPAPI, which keeps no file, and the run `ResealFails` does
not apply there.

### VaultAccess

`users`, `admins`, `roots`, `vaults`, `owner`, `member`, `secret`, `shared` are the tables. A
request moves through stages, one per statement: for instance `removeMember` is `ReadVault`,
`requireVault`, `ListVaultMembers`, `RemoveVaultMember`, and holds in between the owner
and the managers it has seen. Reader and writer are one role, "member". The commands of
the shell go through the same stages where they run the same checks
(`runVaultShare`, `runSecretShare`), and have their own action where they do not
(`RunVaultUnshare`, `ShellSecretOf`). The shell finds the vault or secret before it
identifies its user and the web the other way round; by identifiers that are never
reused the two orders come to the same. `BeginDeleteAccount` reads the session of
the actor and the row of the target in one step; `is_admin` and `is_root` are
never updated after the row is created.

### SignIn

| TLA+ | code |
|---|---|
| `password[u]` | the verifier in `users`, as a version: 1, then 2 after a change |
| `totp[u]`, `codes[u]`, `owner[k]` | `users.totp_secret`, `totp_recovery` (a batch and which of its codes are unused), `security_keys` |
| `opened`, `live` | every session ever created, and those that still have a row |
| `pending` | the signed cookies of sign-ins that owe a proof; they say who, never what has changed since |
| `challenge[u]`, `stash[u]` | `challengeStore` (one question by account) and `codeStash`, both in memory |
| `required`, `pinned`, `setting` | `requiresFactor`, the command line, the row of `server_settings` |
| `SignIn`, `ReadApp`, `ReadKeys`, `FactorsUnread`, `Open` | `doLogin`: the password, the two reads of `secondFactors`, the session |
| `PresentCode`, `CheckApp`, `SpendCode` | `finishSecondFactor`, `acceptSecondFactor`, `UseRecoveryCode` |
| `PoseChallenge`, `PresentAnswer`, `CheckAnswer` | `startKeyAssertion`, `finishKeyAssertion` |
| `ResetPassword`, `ChangeOwnPassword`, `SetUserCredentials`, `DeleteUserSessions`, `CloseFails` | `resetPassword`, `changeOwnPassword`, `runUserPasswd` |
| `EnableTwoFactor` ... `ClearTOTP` | `enableTwoFactor`, `disableTwoFactor` |
| `RegisterKey` ... `StashCodes`, `TakeStash` | `finishKeyRegistration`, `ensureRecoveryCodes`, `showFreshRecoveryCodes` |
| `RemoveSecurityKey` ... `DeleteSecurityKey` | `removeSecurityKey` |
| `SaveServerSettings` ... `Require` | `saveServerSettings` |
| `Fails`, `Restart` | a statement that errors; a restart, which forgets what is in memory |

A request is one of `Requests` with a stage for each statement, as in `VaultAccess`. A browser may
present a cookie, a code or the answer of a key again, at any time; a question or a cookie that
lapses is one not presented. A code of the application is its secret: the thirty seconds of its
life and the codes already used belong to the clock. Which account
is an administrator is not modelled: any session may save the policy.

`stood`, `orderly`, `unclosed`, `uncoded` are history: they say which factors stood during all of a
sign-in, whose changes of factor ran one at a time, and where a second statement failed.
`FactorComesWithCodes` and `FactorsSurvive` (the last factor is kept where one is required, and minting
codes leaves the secret of the application alone) are about accounts whose changes ran one at a time;
section 5 says what happens to the others.

### Sessions

| TLA+ | code |
|---|---|
| `row[s]` | a row of `sessions`, as distances to now: until `expires_at`, since `created_at`, since `last_seen_at` |
| `confirmed[s]` | `confirmations`, in memory |
| `req[r]` | a request: "found", "touch", "held", "enrol", "serving" are the steps of `requireLogin`, the others those of handlers |
| `currentSession`, `Extend`, `TouchSession`, `TouchFails` | the look-up, the new expiry, the statement that stores it or fails |
| `needsConfirmation`, `mustEnrol` | what holds a page back |
| `doConfirm`, `grant` | the password verified, then the confirmation recorded |
| `DeleteSession`, `drop` | `doLogout` |
| `SetUserCredentials`, `DeleteUserSessions`, `CloseFails`, `CreateSession` | the two statements of a change of password, and the session that replaces the browser's own |
| `PurgeExpiredSessions` | the hourly `sweep` of the janitor |
| `Tick`, `Restart` | time; a restart, which forgets confirmations |

One account, since nothing here crosses accounts but the purge, which looks at expiries only. `by`,
`typed`, `standing` and `unclosed` are history: which password was typed for a confirmation, and which ones
spoke for the account while a request ran.

### FrontDoor

`record` is the entry of one client address in `throttle`: the failures, what is left of the lockout and how
long it has been quiet. `wait` is the arithmetic of `fail` with its width: the shift is taken on a signed
word of 64 bits (`Shifted`), and the branch that catches a wrapped result is kept. An attempt is let through
(`doLogin`, `doConfirm`, `finishSecondFactor`, `finishKeyAssertion`), takes a seat and a slot where it derives a
password (`withSlot`: `takeSeat`, `TakeSlot`, `GivesUp`), and is then a failure or a success. A
failure is dated when `doLogin` read the clock, before it waited; the others read it at the end (`dated`).
Other addresses are `Elsewhere`: they hold places, and sweep idle records at their first failure.

### DeviceAccess

| TLA+ | code |
|---|---|
| `row[n]`, `nets[r]` | the secret under a name, and its `secret_networks` |
| `tok[t]` | `service_tokens` with `token_secrets`: no name is the whole vault |
| `call[c]` | a call: `ReadRow` and `ReadScope` are the two statements of `ServiceToken`, `ReadMeta` `SecretMeta`, `CheckAddress` `SecretAllowsAddress`, then the act |
| `CreateServiceToken`, `SetTokenSecrets`, `ShowToken` | a token: its row, its scope, its plaintext shown |
| `saveTokenScope`, `runTokenScope`, `revokeToken`, `runTokenRevoke` | narrowing and revoking, from a page or the shell |
| `saveSecret`, `runSecretSet`, `revertSecret`, `runSecretRevert`, `PutSecret` | looking whether the name is taken, then writing it |
| `BuildPlan`, `runImport`, `ImportFile`, `PutEntry` | the plan on names read once, then one entry at a time |
| `addNetwork`, `removeNetwork` and the commands, `AddSecretNetwork`, `RemoveSecretNetwork` | finding the secret, then pinning its row |
| `Fails` | an error or a stop between two statements |

An address is a model value and a network a set of them; which address a request comes from
(behind a proxy) is left open. `since` is history: what was true of a call's token, scope and secret at some
moment since the call began.

### AlertWatcher

| TLA+ | code |
|---|---|
| `journal`, `purged` | `audit_log`: every line ever written, and how many the janitor has deleted |
| `saved`, `seen` | the cursor of the database, and `seen_addresses` |
| `config`, `edit` | the settings, and what a change in flight still has to write: `saveAlerts` or one of the commands, in the order of their statements |
| `Start` ... `SaveCursor`, `flush`, `send` | `Run`, `tick`, `collect`, `absorb`, `hold`, `flush`, `Send` |
| `pending`, `muted`, `sentToday` | the memory of the watcher |
| `StartFails`, `ConfigFails`, `NoteAddressFails`, `SaveCursorFails`, `Refused`, `Unreachable`, `Crash` | each way a pass may end early, and the stop of the process |
| `Elapse`, `SlowPass` | the ticker; the time a pass takes between holding an event and sending it |

`classify` is the table of `kinds.go`, whole. What is sent is a set of events; how a message is worded is left
out. `wanted`, `taken`, `lost` and `outToday` are history. `NothingMissed` speaks of lines that every
configuration since they were written has wanted, the one a pass in flight has read included: a change
of the settings while a pass runs applies from the next pass on.

## 3. The runs

A *pass* run explores every reachable state of its instance. A *violation* run
checks one statement that a comment, a message or a document makes, and finds the
behaviour that contradicts it.

| run | instance | states | shows |
|---|---|---|---|
| `VaultKeysOverlap` | 2 vaults, 1 name, 2 values, 3 keys, 2 ids, 2 versions; one request, one command, two processes | 0.9 M (symmetry) | everything overlapping at every statement: `HistoryHasNoHole`, `SealedInPlace`, `NothingReadableIsLost`, `HistoryIsImmutable` |
| `VaultKeysAlone` | 1 vault; two requests of one server; rotations only while nothing else uses the vault | 0.6 M | `ReadersAreServed`, the refinement `KeepsPromise`, and that `SealCompletes` |
| `RotationLosesVersion` | as the first, one vault | violation | a value put while its vault is rotated can be sealed under the retired key |
| `KeySlots` | a shell and a server; 2 roots, 4 wrapping keys, 2 codes, 2 hosts; init, reseal and serve interrupted anywhere | 0.2 M | `PrintedCodeOpens` (which contains `OneRoot`), `SuccessOpensNextStart`, `RootIsForever`, `RecoverySucceeds` |
| `ResealFails` | reseal interrupted | violation | a failed reseal has replaced the key file that the stored slot needs |
| `VaultAccess` | 3 accounts, 1 vault, 1 secret; a request and a command | 2.6 M (symmetry) | `NoDanglingGrant`, `OneRootAccount`, `CheckedRemovalIsSafe`, `DestroyedByItsOwner` |
| `SignIn` | 1 account, 1 secret, 2 keys; 2 requests at once, 3 in all; 1 restart | 3.0 M (symmetry) | `ProofsAreSpent`, `StandingFactorIsAsked`, `OldSessionsAreClosed`, `FactorComesWithCodes`, `FactorsSurvive` |
| `SignInOutlivesChange` | the same | violation | a sign-in that gave the old password opens its session after the change |
| `Sessions` | 2 sessions, 2 requests, 2 passwords; idle timeout 1, ceiling 2, window 1 | 0.4 M | `LapsesInTime`, `ConfirmedByItsPassword`, `EverySessionEnds` |
| `FrontDoor` | 3 attempts, 1 slot, 2 seats, attempts that take up to a minute | 1.0 M | `LockoutDoubles`, `LockoutIsServed`, `LockoutEnds`, and seats and slots conserved (`TypeOK`) |
| `DeviceAccess` | 2 names, 1 token, 2 addresses, a call and a person | 5.8 M (symmetry) | `ServedWasAllowed`, `ReachOnlyAsked` |
| `AlertWatcher` | 3 lines, 2 actions, 2 addresses; 2 troubles among faults, changes, stops and sweeps | 2.0 M | `NothingMissed`, `CeilingHolds`, `AnnouncedOnce`, `WantedIsSettled` |

**Bounds, and why they are enough.** Three keys let two rotations follow or cross each
other on one vault; two versions give a history and a current version; two ids let a
secret be deleted and come back while an operation still holds the old row. Two
operations are what each race here needs (one reads, the other writes, the first
acts); the second vault is there for the authenticated data and for keys that must
not mix. `MaxVersion` bounds how many versions a secret may reach and is the only
bound in a guard; keys, identifiers and accounts are drawn from finite sets and never
given back, which bounds rotations, creations and deletions. In `KeySlots` random
values are reused once nothing holds them, so sequences of commands have no bound.
Four wrapping keys are one for the file, one for the slot, one in hand and a fresh one.
Three accounts are an actor, a target and the manager who stays. In `SignIn` one account is
enough for what is stated by account (the proofs are for any number); three requests are a
sign-in and two that present what it left, or two changes and what they meet; a batch of one code
is one that can be spent; two keys are one removed and one that stays, or one of another hand.
`MaxPasswords`, `MaxBatches`, `MaxChallenges`, `MaxSessions`, `MaxServed` and `MaxRestarts` are bounds in
guards: two batches can follow the one an account starts with, and two questions let an answer
meet the wrong one.

In `Sessions` a ceiling of two idle timeouts is the least at which the ceiling, and not the timeout, ends a
session kept busy; two sessions are one that ends and the one that replaces it. Time is relative, so only
`MaxPasswords` and the tokens are bounds, and the proofs lift both. In `FrontDoor` one slot and two seats are a
full room with one who waits and one turned away; `throttleForget` is 16 minutes instead of an hour, since it only
has to exceed the ceiling; `MaxFailures` is 60, past the failure at which the shift becomes zero, where the count
saturates; `MaxLate` is one minute, against the seconds a derivation may take. In `DeviceAccess` `MaxRows` 2 lets a name
be deleted and taken again, or both names exist; `MaxActs` 4 is a token created and limited, a secret
saved, and one thing that changes under the call. In `AlertWatcher` three lines (one of them there before the first
start) pass a page of two; a window of one turn, a mute of two and a ceiling of two events are each
reached and passed; `MaxTrouble` bounds faults, changes of the settings, stops and sweeps together, two at a
time. `MaxAttempts` 2 is a send and a retry.

**Symmetry** (`Permutations`) is used in runs without liveness or refinement, over
sets whose members no constant names one by one. Clients and processes are not
permuted: `Home` and `Runs` tell them apart.

**CHECK_DEADLOCK** is left on in every run but those of `SignIn` and `DeviceAccess`. There something can always
start: `MaxServed` and `MaxActs` end the behaviour, and the bounds on batches, passwords, sessions
or rows can leave an operation before a statement it cannot run.

**Fairness.** `VaultKeys!Fairness`: a request under way takes its next step. Queries have a
busy timeout and end in an error at worst, and Fail is among the steps. The step Seal has the
lock free once every reader has left, and none enters while it waits (Go's RWMutex
blocks new readers behind a waiting writer, which is the guard of `CanEnter`).
`KeySlots!FairSpec`: a command under way goes on; it waits for no other. Nothing is assumed
about commands being started, vaults being deleted or machines being moved. In the run
`KeySlots` a recovery is not in `Interrupted`: `RecoverySucceeds` says what a recovery does when
nothing stops it. `Sessions!Fairness`: time goes on, and one of the hourly sweeps succeeds (the loop
of the janitor survives a failure); nothing is assumed of requests. `FrontDoor!Fairness`: time passes, a waiter gets a slot or its timer
fires, a computation ends; nobody is assumed to stop trying. `AlertWatcher!Fairness`: the watcher goes on, since the ticker of `Run` calls it
for ever and the unit restarts a service that stops (`Restart=always`); faults are bounded by
`MaxTrouble`, so that a receiver or a database that fails for ever is not among the behaviours.

**The discipline of `RotationAlone`.** With the constant TRUE a vault is rotated only while
nothing else uses it. The code does not enforce it; `RotationLosesVersion` is what happens
without it. It separates what always holds (`NothingReadableIsLost`) from what holds for
those who follow it (`ReadersAreServed`, `KeepsPromise`).

## 4. What is proved

TLAPS checks these for any number of vaults, names, versions, accounts, sessions, requests, tokens, lines and
processes, and for any value of the bounds. TLC was run on each invariant first. Every safety
invariant and every action property that a *pass* run checks is a theorem here, and so is the refinement.

| theorem | says |
|---|---|
| `VaultKeys_proofs!TypeCorrect` | `TypeOK` is invariant |
| `!HistoriesAreWhole` | `HistoryHasNoHole` is invariant |
| `!NothingLost` | `NothingReadableIsLost`: a version that opens keeps opening, with its value, whatever overlaps |
| `!HistoriesAreSettled` | `HistoryIsImmutable` |
| `!EverythingInPlace` | `SealedInPlace` is invariant |
| `!RootIsThere` | `RootOutlivesItsUsers` is invariant, with or without the discipline |
| `!RequestsAreServed` | `ReadersAreServed` is invariant, assuming `RotationAlone`: every version opens, every read is served, no Seal takes the root key from a request |
| `!VaultsKeepTheirPromise` | `VaultKeys` implements `SecretHistory` (`KeepsPromise`), assuming `RotationAlone` |
| `VaultAccess_proofs!TypeCorrect` | `TypeOK` is invariant |
| `!GrantsNeverDangle` | `NoDanglingGrant` is invariant |
| `!RootRemains` | `OneRootAccount` is invariant, assuming one shell |
| `!CheckedRemovals` | `CheckedRemovalIsSafe` |
| `!OwnersDestroy` | `DestroyedByItsOwner` |
| `SignIn_proofs!Typing` | `TypeOK` is invariant |
| `!OldSessionsClosed` | `OldSessionsAreClosed` is invariant |
| `!StandingFactorAsked` | `StandingFactorIsAsked` is invariant |
| `!FactorsComeWithCodes` | `FactorComesWithCodes` is invariant |
| `!FactorsAreKept` | `FactorsSurvive` |
| `!ProofsSpentOnce` | `ProofsAreSpent` is invariant |
| `Sessions_proofs!TypeCorrect` | `TypeOK` is invariant |
| `!SessionsLapse` | `LapsesInTime` is invariant |
| `!SensitiveIsConfirmed` | `ConfirmedByItsPassword` is invariant |
| `KeySlots_proofs!TypeCorrect` | `TypeOK` is invariant, whoever runs what |
| `!PrintedCode` | `PrintedCodeOpens`, with its `OneRoot`, is invariant, assuming one shell |
| `!SuccessOpens` | `SuccessOpensNextStart` is invariant, assuming one shell |
| `!RootStays` | `RootIsForever`, assuming one shell |
| `FrontDoor_proofs!TypeCorrect` | `TypeOK` is invariant: seats and slots are conserved |
| `!LockoutCorrect` | `LockoutDoubles` is invariant |
| `!LockoutServed` | `LockoutIsServed` |
| `DeviceAccess_proofs!TypeCorrect` | `TypeOK` is invariant |
| `!ReachIsAsked` | `ReachOnlyAsked` is invariant |
| `!ServedIsAllowed` | `ServedWasAllowed` is invariant |
| `AlertWatcher_proofs!TypeCorrect` | `TypeOK` is invariant |
| `!CeilingCorrect` | `CeilingHolds` is invariant |
| `!NeverTwice` | `AnnouncedOnce` |
| `!NothingPassedOver` | `NothingMissed` is invariant |

**VaultKeys.** `TypeInv` is `TypeOK` with what each stage has in hand (`StageOK`: a "put" has a
vault, a name, a key and a value). `RowInv` adds `NoHole`, `IdsAreUnique`, `NoOrphan` and
that every identifier in use has been drawn: a new row could otherwise take the
identifier of another and overwrite its versions. `NothingLost` follows step by step from
`RowInv`: a rotation that commits opened every version under the key it read, so a
version that was readable is resealed under the key that the vault advertises next, and
if the vault was rotated meanwhile nothing stored opens and it aborts.
`SealedInPlace` rests on `KeysApart`: a key is of one vault only, whether a vault advertises
it, a ciphertext is under it or an operation has it in hand, and it has been drawn, so that
a new vault or a rotation cannot draw it again. `RootOutlivesItsUsers` is inductive by itself.
`EveryVersionReadable` needs more, `KeyInv`: under the discipline, whoever holds a key
of a living vault holds the one it advertises, since a rotation and any other holder
exclude each other, and a fresh key in a rotation is held by it alone.
With that, `History` is the sequence of stored values (`HistoryIsValues`), and the refinement goes step by step:
`WriteVersion` is a `Write` of `SecretHistory` at the end of one history, `DeleteSecret` forgets one, `DeleteProject`
those of a vault, a rotation reseals under the key it is about to advertise, and everything else leaves the rows alone.

**VaultAccess.** `NoDanglingGrant` is inductive with the types alone (`GrantInv`).
`RootInv` says that a request for the first account can be in flight only while there is no root
or with the shell that will make it, and that a request that is about to delete an account never has the
root for its target; one shell is what keeps two such requests apart.
`CheckInv` follows a request from its check to its act: what it counted does not contain
only its target, and the owner it read is still the vault's or gone (a vault's
identifier, once drawn, is never drawn again).

**SignIn.** `OldSessionsAreClosed` is inductive with the types: a session opens with the version its
request holds, and says if that one is old; the step that changes the password leaves a request
that is about to close. `StandingFactorIsAsked` needs `StoodOK`: what stood is still carried; once the
secret was found missing only keys can have stood, and once no key was found nothing has. The last
two share `OrderlyInv`: for an account whose changes run one at a time, what the one
request in flight has read is still so (`ChangeOK`: "clear all" means no key and a policy that requires
none, the secret in hand is the one stored), a factor has codes or a request is about
to mint them, and a count of no unused code in a batch that does not exist is the same as no batch
(`CodesOK`). Turning the policy on is in the discipline: it changes what a check relied on.
`ProofsAreSpent` is not inductive: `SpentInv` gives every recovery code and every question a token and says where it is.
It is unspent, until one request takes it (`UseRecoveryCode`, or the question removed from its store); then it is that
request's, until its session opens; then it is that session's. What a session or a request has taken is no longer unspent, two of them
have never taken the same one, and a batch or a question that is still to come is of a number none of them has.

**Sessions.** `TypeInv` is `TypeOK` with `CarriesToken`: a request behind `requireLogin` carries a token that
was issued. `LapsesInTime` is not inductive, because an expiry is computed in one step and stored in
another: `DueInTime` says that the expiry in hand and the age of the row it is for stay within the
ceiling, whatever time passes between the two (that it is within the idle timeout is its type).
`ConfirmedByItsPassword` needs `ConfirmInv`, in seven parts: only tokens that were drawn are confirmed;
for a session that has its row, the password it was confirmed with, and one that was just verified for it, are in
force or wait for the sessions to be closed; for a sensitive request not yet past the confirmation, the password
in force, the one of its confirmation and any that is about to confirm it stood while it ran; and so did
the one that let it past. A session whose row is gone never comes back, since tokens are
not reused, so that a confirmation left behind by a change of password or a sign-out serves nobody but the
requests that were already past the look-up.

**KeySlots.** `Custody` says three things. Until the machine slot is first saved there is nothing but one setup under way;
from then on its root key is that of everything there is, in the database and in the memory of
every process. The code that is printed, or about to be, is that of the recovery slot. From the moment a command saves the
slot to its end, the slot opens: `OpensOf` carries that through the steps, from the keystore that took the
wrapping key. It needs `OneShell`, that one process at most runs anything but `serve`, because two commands
replace the file and the slot of one another: section 5 says what two shells do. It is a hypothesis of the theorems and not an
assumption of the module; the instance of the run satisfies it.

**FrontDoor.** `WaitIsPromised` says that the lockout computed by a shift of 64 bits is the one that is promised, for
every number of failures: doubled from the threshold on, above the ceiling from the fifth, and from where the shift wraps a value that the code takes
for the ceiling. `TypeInv` adds to `TypeOK` that those who hold a place are finitely many, so that one who
takes or leaves it changes the count by one (`HoldingMoves`), and that what is left of a lockout is what its
last failure promises less the time since. A record is swept only when it was quiet for longer than the ceiling:
nothing of its lockout is left then, and `LockoutIsServed` follows.

**DeviceAccess.** `TypeInv` adds that an operation on a scope has its token stored. `ReachInv`: a token is shown only once its
scope is written, so that the present scope of any token that can be presented is one that was asked for. `SinceInv`
is what a call has in hand at each stage: what it has checked was true at some moment since it began. The row behind
a name may change between the check of its addresses and its use; what saves the call is that a row that takes the
place of another is a new one, which nobody has pinned yet, so that it admits the call when it appears.

**AlertWatcher.** `OneRule`: an action is of one kind at most, so that a line is known by its number. `CeilingInv`: what left today is what was
counted, up to the ceiling. `ReachInv`, for `AnnouncedOnce`: what waits has a number that the next pass is sure to reach,
since a pass that is read again starts where the last one did, or where the janitor has swept to, and its pages are as
long; so when a pass comes to flush, what waits is behind its cursor or swept, and a line behind either is never read again. `MissInv`,
for `NothingMissed`: behind the cursor of a pass, and not only behind the one that is saved, a wanted line has been told
(it waits, was taken, or was lost by a stop) or swept; and the settings that the pass has read want it too.

Assumptions are the named `ASSUME`s of the modules (`DisjointAssumption`: identifiers
and keys are different things; `NoneAssumption`; in `SignIn` also that secrets are not keys, that no account is
called "blank", and that the bounds are numbers; in `Sessions` that the durations are positive; in `FrontDoor` that there are at least as many seats as slots and
that a record is kept for longer than the ceiling; in `AlertWatcher` that the intervals, the page and the ceiling are
positive and that the lines there before are lines; elsewhere that the bounds are numbers), which TLC
evaluates on every run. `RotationAlone` and `OneShell` are hypotheses of the theorems that need them, and each
is true in a run: `VaultKeysAlone`, `KeySlots`.

**Model-checked only.** Liveness (`SealCompletes`, `RecoverySucceeds`, `EverySessionEnds`, `LockoutEnds`,
`WantedIsSettled`): fairness and ENABLED are beyond this prover. The statements of the three *violation* runs are
false, so there is nothing to prove. Two shells at once, or rotations that overlap, are outside the theorems that
exclude them, since the properties do not hold there.

## 5. Where the code and its words part

Each of the first three is a run whose counterexample is the story.

1. *A write and a rotation* (`RotationLosesVersion`). `PutSecret` seals under a key it
   unwrapped before its transaction. If `RotateVaultKey` commits in between, the version is
   stored under the retired key; it does not open, and every later rotation of that
   vault aborts on it. `store/repo_secret.go:381` says what that is called.
2. *A failed reseal* (`ResealFails`). The key file is replaced before the slot that needs
   it is saved; "la protection précédente reste en place" is not so when the previous one was a
   keyfile whose file has been replaced.
3. *A sign-in that outlives a change of password* (`SignInOutlivesChange`). Sessions are closed once;
   a sign-in that verified the old password before, or holds the pending cookie of one, opens its
   session after. `docs/administration.md:64` says that every open session is closed, so that a
   leak does not stay in place.

The others have no run of their own; the models contain the interleavings.

Vaults, keys and secrets:

- The number and the value of an answer come from two reads (`api/secrets.go:79`), so that the API can give
  the new value with the old number; `api_test.go:559` says that a read reports the version it served.
- A read beside a rotation can fail: key from before, blob from after. With the discipline
  it cannot (`RotationIsInvisible`); `docs/administration.md:663` says that a rotation does not show.
- A revert reads by identifier and writes by name: a secret deleted and created again
  in between gets a value of the deleted one (`docs/utilisation.md:209`).
- `createSecret` finds a name free, then writes it (`vaults.go:468`, `:525`): a secret created in between is
  given a new version, though `vaults.go:478-482` says that nothing is overwritten without a word. An
  import plans on names read once and does the same without "remplacer".
- An edit by somebody with whom a secret is shared, beside its deletion, creates it again
  (`secretcmd.go:118`, `vaults.go:436-442`).

Custody and accounts:

- An init interrupted between its slots leaves one way in and no recovery code, and a server that says it
  is already set up (`vault.go:83`, `repo_keyslot.go:109-111`).
- Two setups at once draw a root key each (`KeySlots` with two shells breaks `OneRoot`); two first
  accounts at once are both root (`VaultAccess` with two shells breaks `OneRootAccount`);
  a recover beside a reseal can leave a slot and a file of different hands.
- The web refuses to remove the last manager of a vault; the shell (`sharecmd.go:132`), and a demotion through the
  form that adds one, do not count (`docs/administration.md:84-96`).
- An owner who is demoted or removed leaves a vault that nobody can destroy. A manager
  who is removed while a grant of theirs is in flight still grants it. `createVault` that fails
  before the first member leaves a vault without one.

Sign-in and sessions:

- Two changes of factor that overlap: a removal of the application and one of the last key each see the
  other's factor and both go through (`docs/administration.md:356`); two registrations mint
  two batches and one shown is dead; `ensureRecoveryCodes` writes back a secret that was replaced or cleared
  since it read it.
- A key whose codes could not be stored, or that a restart cut off from them, stays without codes
  (`docs/administration.md:309`).
- `secondFactors` failing to read is logged, and the sign-in goes on with the password
  alone (`web/login.go:318`, the stage "unread"); `web/session.go:59` says of the same question
  that a database that cannot answer must not become a way past the policy.
- Two saves of the policy can write the row in one order and the cache in the other: `web/web.go:220` says
  that the cache "cannot go stale behind its own back".
- `confirm.go:92-93` says that a confirmation is dropped when a password changes; only `doLogout` drops one. It
  does no harm unless `DeleteUserSessions` fails, since the sessions it belonged to are closed.
- A sign-out whose `DeleteSession` fails leaves the session live. A slow request can revive a session
  that lapsed between its look-up and its touch.
- `doLogin` dates a failure before it verifies, which shortens the lockout by as long as the derivation
  took. A correct password empties the counter that failed codes of the same address had filled
  (`twofactor.go:139-143`).

Devices and alerts:

- `networkcmd.go:41-44` and `:129-131` say that a pin binds the browser and the console too; neither the pages
  (`vaults.go:228`) nor `runSecretGet` look at it, as `docs/utilisation.md:378-381` says.
- `SetTokenSecrets` given only blank names stores none, which opens the whole vault. The scope of a token is by
  name: a secret deleted and created again is in it, though `repo_token.go:49-51` says that one created later
  does not join it.
- A revocation (`tokencmd.go:351`) does not reach a call that has read the row of its token.
- Alerts fold by kind, actor, vault, target and address and leave the action out of the key (`watcher.go:258`), while
  `event.go:31` calls the count that of identical events.

## 6. What is not modelled, and why

Parsing, pages, forms and address arithmetic are sequential: what they write goes
through operations that are modelled. Cryptography is external: sealing is a record that opens
under the same key and data. TPM and DPAPI are external, by what `Protect` and
`Expose` promise. The mechanics of SQLite are external: a statement or transaction is atomic and
may fail. The API rate limiter is floating-point arithmetic on one bucket under one lock. Migrations are one
transaction each, at start-up. `SignIn` leaves out the counter of a key, the challenge of a registration, the
life of a code of the application and the removal of an account; `DeviceAccess` the date a token was last
used and its removal with its vault; `AlertWatcher` the test message and the status line.

## 7. The plan

Done: every module of section 2, and proofs of every safety property, action property and refinement that
the runs check.

Models still to write: `Migrations`, two processes that open an old database; the test message and the
status of the watcher; the removal of an account in `SignIn`.

Proofs still worth writing: an abstract specification of `KeySlots` (one root key and one paper, drawn once) and of
`FrontDoor` (a counter of places), which their modules would be shown to implement as `VaultKeys` is; the conditions
under which a revert restores the value it was asked for.
