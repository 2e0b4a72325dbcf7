------------------------------- MODULE VaultKeys -------------------------------
(***************************************************************************)
(* The vaults of a SYNSEC installation: the encryption key of each vault   *)
(* (wrapped by the root key), the secrets, and every stored version of     *)
(* every secret.                                                           *)
(*                                                                         *)
(* Several processes share the database: the server, whose requests run    *)
(* concurrently, and the command line, whose commands run beside it.  One  *)
(* SQL statement or transaction is one atomic step (SQLite serialises      *)
(* writers; one that cannot be serialised fails with SQLITE_BUSY, which is *)
(* Fail).  What an operation keeps in memory from one statement to the     *)
(* next - the unwrapped key, the row it read, the value it decrypted -     *)
(* lives in ops, and may be stale by the time it is used.                  *)
(*                                                                         *)
(* internal/vault/secrets.go, internal/vault/vault.go,                     *)
(* internal/store/repo_secret.go, internal/store/repo_project.go           *)
(***************************************************************************)
EXTENDS Naturals, FiniteSets

CONSTANTS
  Vaults,         \* vault identifiers, drawn at random and never reused
  Names,          \* what names a secret inside a vault: environment and slug
  Values,         \* plaintext values
  Keys,           \* vault encryption keys (DEKs), drawn at random
  Ids,            \* identifiers of secret rows, drawn at random
  Clients,        \* requests in flight in a server, commands of the CLI
  Procs,          \* processes holding a vault.Manager
  Home,           \* the process each client runs in
  MaxVersion,     \* bound: versions a secret may reach
  RotationAlone,  \* TRUE when a vault is rotated only while nothing else uses it
  None            \* absent row, key, value, ...

ASSUME HomeAssumption == Home \in [Clients -> Procs]
ASSUME BoundAssumption == MaxVersion \in Nat \ {0}
ASSUME DisciplineAssumption == RotationAlone \in BOOLEAN
ASSUME DisjointAssumption ==
  /\ Vaults \cap Keys = {}
  /\ Vaults \cap Ids = {}
  /\ Keys \cap Ids = {}

VARIABLES
  wrapped,   \* projects.wrapped_dek: the key each vault advertises, or None
  secrets,   \* rows of secrets, by vault and name: [id, current], or None
  versions,  \* rows of secret_versions, by secret id and version: a blob, or None
  drawn,     \* every random key and identifier drawn so far
  root,      \* per process: the root key "held", a Seal waiting for it, or "absent"
  ops        \* per client: the operation in flight

vars == <<wrapped, secrets, versions, drawn, root, ops>>
stored == <<wrapped, secrets, versions>>

Versions == 1..MaxVersion
Row == [id : Ids, current : Versions]

(***************************************************************************)
(* A ciphertext: the key it is sealed under, the vault, name and version   *)
(* authenticated with it, and the plaintext inside.                        *)
(***************************************************************************)
Blob == [key : Keys, vault : Vaults, name : Names, version : Versions, value : Values]

ASSUME NoneAssumption ==
  None \notin Vaults \cup Names \cup Values \cup Keys \cup Row \cup Blob

SealSecret(k, v, n, i, x) ==
  [key |-> k, vault |-> v, name |-> n, version |-> i, value |-> x]

OpenSecret(k, v, n, i, b) == b = SealSecret(k, v, n, i, b.value)

(***************************************************************************)
(* Operations in flight.  "meta" has read the secret's row and holds no    *)
(* lock yet; the stages in Locked run under withRoot, the read lock on the *)
(* root key; "answered" has its reply and has released it.                 *)
(***************************************************************************)
Locked == {"put", "get", "revert", "open", "restore", "rotate"}
Stages == Locked \cup {"idle", "meta", "answered"}

Op == [at : Stages, vault : Vaults \cup {None}, name : Names \cup {None},
       key : Keys \cup {None},        \* the vault's key, as unwrapped by withDEK
       fresh : Keys \cup {None},      \* rotation: the key that will replace it
       row : Row \cup {None},         \* the row SecretMeta returned
       version : Versions \cup {None},\* revert: toVersion; get: version opened
       value : Values \cup {None}]    \* put: value to seal; get, revert: plaintext

Idle == [at |-> "idle", vault |-> None, name |-> None, key |-> None, fresh |-> None,
         row |-> None, version |-> None, value |-> None]

Root == {"held", "sealing", "absent"}
NoHistory == [i \in Versions |-> None]

TypeOK ==
  /\ wrapped \in [Vaults -> Keys \cup {None}]
  /\ secrets \in [Vaults -> [Names -> Row \cup {None}]]
  /\ versions \in [Ids -> [Versions -> Blob \cup {None}]]
  /\ drawn \in SUBSET (Vaults \cup Keys \cup Ids)
  /\ root \in [Procs -> Root]
  /\ ops \in [Clients -> Op]

Init ==
  /\ wrapped = [v \in Vaults |-> None]
  /\ secrets = [v \in Vaults |-> [n \in Names |-> None]]
  /\ versions = [i \in Ids |-> NoHistory]
  /\ drawn = {}
  /\ root = [p \in Procs |-> "absent"]
  /\ ops = [c \in Clients |-> Idle]

--------------------------------------------------------------------------------
(* Who holds the root key, and who is using a vault *)

\* A plausible bug: a Seal that waits does not keep new readers out.
RootHeldOrWanted(c) == root[Home[c]] # "absent"

RootHeld(c) == root[Home[c]] = "held"
Holds(c) == ops[c].at \in Locked
Using(v) == {c \in Clients : Holds(c) /\ ops[c].vault = v}
Rotating(v) == \E c \in Clients : ops[c].at = "rotate" /\ ops[c].vault = v

\* RLock succeeds: the root is there and no Seal is waiting for the lock.
CanEnter(c, v) ==
  /\ RootHeld(c)
  /\ RotationAlone => ~Rotating(v)

Finish(c) == ops' = [ops EXCEPT ![c] = Idle]

--------------------------------------------------------------------------------
(* Vaults *)

CreateVault(c, v, k) ==
  /\ ops[c] = Idle
  /\ RootHeld(c)
  /\ v \notin drawn /\ k \notin drawn
  /\ wrapped' = [wrapped EXCEPT ![v] = k]
  /\ drawn' = drawn \cup {v, k}
  /\ UNCHANGED <<secrets, versions, root, ops>>

\* Cascades to the vault's secrets and to every version of them.
DeleteProject(v) ==
  /\ wrapped[v] # None
  /\ wrapped' = [wrapped EXCEPT ![v] = None]
  /\ versions' = [i \in Ids |->
       IF \E n \in Names : secrets[v][n] # None /\ secrets[v][n].id = i
       THEN NoHistory ELSE versions[i]]
  /\ secrets' = [secrets EXCEPT ![v] = [n \in Names |-> None]]
  /\ UNCHANGED <<drawn, root, ops>>

\* A plausible bug: the schema lets the versions of a deleted secret be.
DeleteSecretAlone(v, n) ==
  /\ secrets[v][n] # None
  /\ secrets' = [secrets EXCEPT ![v][n] = None]
  /\ UNCHANGED <<wrapped, versions, drawn, root, ops>>

\* Cascades to every version of the secret.
DeleteSecret(v, n) ==
  /\ secrets[v][n] # None
  /\ versions' = [versions EXCEPT ![secrets[v][n].id] = NoHistory]
  /\ secrets' = [secrets EXCEPT ![v][n] = None]
  /\ UNCHANGED <<wrapped, drawn, root, ops>>

--------------------------------------------------------------------------------
(* Writing *)

\* PutSecret: withDEK has unwrapped the vault's key, the write has not begun.
BeginPut(c, v, n, x) ==
  /\ ops[c] = Idle
  /\ CanEnter(c, v)
  /\ wrapped[v] # None
  /\ ops' = [ops EXCEPT ![c] = [Idle EXCEPT !.at = "put", !.vault = v, !.name = n,
                                            !.key = wrapped[v], !.value = x]]
  /\ UNCHANGED <<stored, drawn, root>>

\* Plausible bugs: versions counted from 0, a version not counted.
NextFromZero(row) == IF row = None THEN 0 ELSE row.current + 1
SameVersion(row) == IF row = None THEN 1 ELSE row.current

NextVersion(row) == IF row = None THEN 1 ELSE row.current + 1

\* A plausible bug: a revert copies the old ciphertext, sealed for the old version.
WriteCopied(c, i) ==
  LET o == ops[c]
      old == secrets[o.vault][o.name]
      n == NextVersion(old)
      sealedFor == IF o.version = None THEN n ELSE o.version
  IN /\ o.at \in {"put", "restore"}
     /\ wrapped[o.vault] # None
     /\ n <= MaxVersion
     /\ IF old = None THEN i \notin drawn ELSE i = old.id
     /\ secrets' = [secrets EXCEPT ![o.vault][o.name] = [id |-> i, current |-> n]]
     /\ versions' = [versions EXCEPT ![i][n] =
                       SealSecret(o.key, o.vault, o.name, sealedFor, o.value)]
     /\ drawn' = drawn \cup {i}
     /\ Finish(c)
     /\ UNCHANGED <<wrapped, root>>

\* store.PutSecret: one transaction reads the row, seals the value for the next
\* version, and writes row and version.  A missing vault fails the foreign key.
WriteVersion(c, i) ==
  LET o == ops[c]
      old == secrets[o.vault][o.name]
      n == NextVersion(old)
  IN /\ o.at \in {"put", "restore"}
     /\ wrapped[o.vault] # None
     /\ n <= MaxVersion
     /\ IF old = None THEN i \notin drawn ELSE i = old.id
     /\ secrets' = [secrets EXCEPT ![o.vault][o.name] = [id |-> i, current |-> n]]
     /\ versions' = [versions EXCEPT ![i][n] =
                       SealSecret(o.key, o.vault, o.name, n, o.value)]
     /\ drawn' = drawn \cup {i}
     /\ Finish(c)
     /\ UNCHANGED <<wrapped, root>>

--------------------------------------------------------------------------------
(* Reading.  Every reader first looks the row up, to check who may see it. *)

ReadMeta(c, v, n) ==
  /\ ops[c] = Idle
  /\ secrets[v][n] # None
  /\ ops' = [ops EXCEPT ![c] = [Idle EXCEPT !.at = "meta", !.vault = v, !.name = n,
                                            !.row = secrets[v][n]]]
  /\ UNCHANGED <<stored, drawn, root>>

BeginGet(c) ==
  /\ ops[c].at = "meta"
  /\ CanEnter(c, ops[c].vault)
  /\ wrapped[ops[c].vault] # None
  /\ ops' = [ops EXCEPT ![c] = [@ EXCEPT !.at = "get", !.key = wrapped[ops[c].vault]]]
  /\ UNCHANGED <<stored, drawn, root>>

\* One query joins the row and the blob of its current version; then it is
\* opened.  value stays None when the key in hand does not open it.
GetSecret(c) ==
  LET o == ops[c]
      now == secrets[o.vault][o.name]
      b == versions[now.id][now.current]
  IN /\ o.at = "get"
     /\ now # None
     /\ b # None
     /\ ops' = [ops EXCEPT ![c] = [o EXCEPT !.at = "answered", !.version = now.current,
          !.value = IF OpenSecret(o.key, o.vault, o.name, now.current, b)
                    THEN b.value ELSE None]]
     /\ UNCHANGED <<stored, drawn, root>>

\* The handler replies.
Reply(c) ==
  /\ ops[c].at = "answered"
  /\ Finish(c)
  /\ UNCHANGED <<stored, drawn, root>>

--------------------------------------------------------------------------------
(* Reverting: the old value is decrypted and written back as a new version. *)

BeginRevert(c, v, n, i) ==
  /\ ops[c] = Idle
  /\ CanEnter(c, v)
  /\ wrapped[v] # None
  /\ ops' = [ops EXCEPT ![c] = [Idle EXCEPT !.at = "revert", !.vault = v, !.name = n,
                                            !.key = wrapped[v], !.version = i]]
  /\ UNCHANGED <<stored, drawn, root>>

RevertMeta(c) ==
  LET row == secrets[ops[c].vault][ops[c].name]
  IN /\ ops[c].at = "revert"
     /\ row # None
     /\ ops[c].version <= row.current
     /\ ops' = [ops EXCEPT ![c] = [@ EXCEPT !.at = "open", !.row = row]]
     /\ UNCHANGED <<stored, drawn, root>>

\* The blob is fetched by the identifier read before, the write that follows
\* goes by location.
RevertOpen(c) ==
  LET o == ops[c]
      b == versions[o.row.id][o.version]
  IN /\ o.at = "open"
     /\ b # None
     /\ OpenSecret(o.key, o.vault, o.name, o.version, b)
     /\ ops' = [ops EXCEPT ![c] = [@ EXCEPT !.at = "restore", !.value = b.value]]
     /\ UNCHANGED <<stored, drawn, root>>

--------------------------------------------------------------------------------
(* Rotation *)

BeginRotate(c, v, k) ==
  /\ ops[c] = Idle
  /\ CanEnter(c, v)
  /\ RotationAlone => Using(v) = {}
  /\ wrapped[v] # None
  /\ k \notin drawn
  /\ drawn' = drawn \cup {k}
  /\ ops' = [ops EXCEPT ![c] = [Idle EXCEPT !.at = "rotate", !.vault = v,
                                            !.key = wrapped[v], !.fresh = k]]
  /\ UNCHANGED <<stored, root>>

Alive(v, n) == secrets[v][n] # None
BlobOf(v, n, i) == versions[secrets[v][n].id][i]
Stored(v, n, i) == Alive(v, n) /\ BlobOf(v, n, i) # None

\* A plausible bug: only current versions are resealed, not their history.
ResealCurrent(v, fresh) ==
  [id \in Ids |-> [i \in Versions |->
     IF \E n \in Names : Stored(v, n, i) /\ secrets[v][n].id = id /\ secrets[v][n].current = i
     THEN [versions[id][i] EXCEPT !.key = fresh]
     ELSE versions[id][i]]]

Reseal(v, fresh) ==
  [id \in Ids |-> [i \in Versions |->
     IF \E n \in Names : Stored(v, n, i) /\ secrets[v][n].id = id
     THEN [versions[id][i] EXCEPT !.key = fresh]
     ELSE versions[id][i]]]

\* A plausible bug: the vault goes on advertising its old key.
RotateBlobsOnly(c) ==
  LET o == ops[c]
      v == o.vault
  IN /\ o.at = "rotate"
     /\ \A n \in Names, i \in Versions :
          Stored(v, n, i) => OpenSecret(o.key, v, n, i, BlobOf(v, n, i))
     /\ versions' = Reseal(v, o.fresh)
     /\ Finish(c)
     /\ UNCHANGED <<wrapped, secrets, drawn, root>>

\* One transaction: every version is opened under the old key and sealed under
\* the fresh one, and the vault advertises the fresh key.  One version that does
\* not open aborts it all (Fail).  A vault deleted meanwhile is updated in no row.
RotateVaultBlobs(c) ==
  LET o == ops[c]
      v == o.vault
  IN /\ o.at = "rotate"
     /\ \A n \in Names, i \in Versions :
          Stored(v, n, i) => OpenSecret(o.key, v, n, i, BlobOf(v, n, i))
     /\ versions' = Reseal(v, o.fresh)
     /\ wrapped' = [wrapped EXCEPT ![v] = IF @ = None THEN None ELSE o.fresh]
     /\ Finish(c)
     /\ UNCHANGED <<secrets, drawn, root>>

--------------------------------------------------------------------------------
(* Failure, and the life of a process *)

\* Any operation may give up: a missing row, a blob that does not open, an empty
\* vault, SQLITE_BUSY.  The transaction it was in is rolled back.
Fail(c) ==
  /\ ops[c].at \in Locked \cup {"meta"}
  /\ Finish(c)
  /\ UNCHANGED <<stored, drawn, root>>

\* Unseal, at the start of the server or of a command.
Unseal(p) ==
  /\ root[p] = "absent"
  /\ root' = [root EXCEPT ![p] = "held"]
  /\ UNCHANGED <<stored, drawn, ops>>

\* Seal asks for the write lock: from here on no reader enters.
BeginSeal(p) ==
  /\ root[p] = "held"
  /\ root' = [root EXCEPT ![p] = "sealing"]
  /\ UNCHANGED <<stored, drawn, ops>>

\* A plausible bug: Seal does not wait for those who use the key.
SealAtOnce(p) ==
  /\ root[p] = "sealing"
  /\ root' = [root EXCEPT ![p] = "absent"]
  /\ UNCHANGED <<stored, drawn, ops>>

\* Seal has the write lock: every reader has left.
Seal(p) ==
  /\ root[p] = "sealing"
  /\ \A c \in Clients : Home[c] = p => ~Holds(c)
  /\ root' = [root EXCEPT ![p] = "absent"]
  /\ UNCHANGED <<stored, drawn, ops>>

\* The process dies; SQLite rolls back what it had not committed.
Crash(p) ==
  /\ root[p] # "absent"
  /\ root' = [root EXCEPT ![p] = "absent"]
  /\ ops' = [c \in Clients |-> IF Home[c] = p THEN Idle ELSE ops[c]]
  /\ UNCHANGED <<stored, drawn>>

--------------------------------------------------------------------------------
Write(c) == \E i \in Ids : WriteVersion(c, i)

\* What an operation in flight may do next.
Progress(c) ==
  \/ Write(c) \/ BeginGet(c) \/ GetSecret(c) \/ Reply(c)
  \/ RevertMeta(c) \/ RevertOpen(c)
  \/ RotateVaultBlobs(c) \/ Fail(c)

Begin(c) ==
  \/ \E v \in Vaults, k \in Keys : CreateVault(c, v, k)
  \/ \E v \in Vaults, n \in Names, x \in Values : BeginPut(c, v, n, x)
  \/ \E v \in Vaults, n \in Names : ReadMeta(c, v, n)
  \/ \E v \in Vaults, n \in Names, i \in Versions : BeginRevert(c, v, n, i)
  \/ \E v \in Vaults, k \in Keys : BeginRotate(c, v, k)

Next ==
  \/ \E c \in Clients : Begin(c) \/ Progress(c)
  \/ \E v \in Vaults : DeleteProject(v)
  \/ \E v \in Vaults, n \in Names : DeleteSecret(v, n)
  \/ \E p \in Procs : Unseal(p) \/ BeginSeal(p) \/ Seal(p) \/ Crash(p)

Spec == Init /\ [][Next]_vars

\* A request that is running ends - the queries it waits for have a busy
\* timeout - and a Seal that has the lock free takes it.
Fairness ==
  /\ \A c \in Clients : WF_vars(Progress(c))
  /\ \A p \in Procs : WF_vars(Seal(p))

FairSpec == Spec /\ Fairness

--------------------------------------------------------------------------------
(* Safety *)

Readable(v, n, i) ==
  /\ Stored(v, n, i)
  /\ wrapped[v] # None
  /\ OpenSecret(wrapped[v], v, n, i, BlobOf(v, n, i))

NoHole ==
  \A v \in Vaults, n \in Names : Alive(v, n) =>
    /\ wrapped[v] # None
    /\ \A i \in Versions : BlobOf(v, n, i) # None <=> i <= secrets[v][n].current

IdsAreUnique ==
  \A v, w \in Vaults, m, n \in Names :
    Alive(v, m) /\ Alive(w, n) /\ secrets[v][m].id = secrets[w][n].id => v = w /\ m = n

NoOrphan ==
  \A id \in Ids, i \in Versions : versions[id][i] # None =>
    \E v \in Vaults, n \in Names : Alive(v, n) /\ secrets[v][n].id = id

\* The history of a secret has no hole and nothing beyond its current version,
\* two secrets never share an identifier, and no version outlives its secret:
\* the cascades of the schema and the counter of PutSecret agree.
HistoryHasNoHole == NoHole /\ IdsAreUnique /\ NoOrphan

\* A stored version was sealed for the very place it is stored at, so that the
\* data authenticated with it can match (secretRef), and one key never serves
\* two vaults: whatever the interleaving of writes, reverts and rotations.
SealedInPlace ==
  \A v \in Vaults, n \in Names, i \in Versions : Stored(v, n, i) =>
    LET b == BlobOf(v, n, i)
    IN /\ b.vault = v /\ b.name = n /\ b.version = i
       /\ \A w \in Vaults \ {v} : wrapped[w] # b.key

\* Every version of every secret opens under the key its vault advertises
\* (RotateVaultBlobs: "every one of those values would be unreadable forever -
\* the exact failure a secret server exists to prevent").
EveryVersionReadable ==
  \A v \in Vaults, n \in Names, i \in Versions : Stored(v, n, i) => Readable(v, n, i)

\* A read that found the secret decrypted it: a rotation beside it does not show.
RotationIsInvisible == \A c \in Clients : ops[c].at = "answered" => ops[c].value # None

\* An operation that works with keys runs in a process that holds the root key:
\* Seal never wipes it under an operation in flight (withRoot).
RootOutlivesItsUsers == \A c \in Clients : Holds(c) => root[Home[c]] # "absent"

\* Neither a Seal nor a rotation is seen by those who read, now or later: the root
\* key is there until they end, what they found decrypts, and so does all the rest.
ReadersAreServed == RootOutlivesItsUsers /\ RotationIsInvisible /\ EveryVersionReadable

--------------------------------------------------------------------------------
(* What a step may never do *)

\* A version that could be read stays readable, with the same value, until its
\* secret is deleted: even when writes and several rotations overlap, a rotation
\* that cannot carry everything over changes nothing.
NothingReadableIsLost ==
  [][\A v \in Vaults, n \in Names, i \in Versions :
       Readable(v, n, i) =>
         \/ secrets'[v][n] = None
         \/ Readable(v, n, i)' /\ BlobOf(v, n, i)'.value = BlobOf(v, n, i).value]_vars

\* History is never rewritten: what version i of a secret holds is settled when
\* it is written, readable or not.
HistoryIsImmutable ==
  [][\A id \in Ids, i \in Versions :
       versions[id][i] # None /\ versions'[id][i] # None
         => versions'[id][i] = [versions[id][i] EXCEPT !.key = versions'[id][i].key]]_vars

--------------------------------------------------------------------------------
(* What must eventually happen *)

\* A Seal waiting for the requests in flight gets the lock in the end: they
\* finish, and nobody enters while it waits.
SealCompletes == \A p \in Procs : root[p] = "sealing" ~> root[p] = "absent"

--------------------------------------------------------------------------------
(* The abstract history: what the key each vault advertises recovers *)

Lost == [unreadable |-> TRUE]

History ==
  [v \in Vaults |-> [n \in Names |->
     IF Alive(v, n)
     THEN [i \in 1..secrets[v][n].current |->
             IF Readable(v, n, i) THEN BlobOf(v, n, i).value ELSE Lost]
     ELSE <<>>]]

Promise == INSTANCE SecretHistory WITH history <- History
KeepsPromise == Promise!Spec
================================================================================
