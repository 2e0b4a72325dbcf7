---------------------------- MODULE VaultKeys_proofs ----------------------------
(***************************************************************************)
(* Proofs about VaultKeys, for every number of vaults, names, values,      *)
(* keys, clients and processes.                                            *)
(***************************************************************************)
EXTENDS VaultKeys, Sequences, TLAPS

(***************************************************************************)
(* What an operation in flight is known to carry at each stage.            *)
(***************************************************************************)
StageOK(o) ==
  /\ o.at # "idle" => o.vault \in Vaults
  /\ o.at \notin {"idle", "rotate"} => o.name \in Names
  /\ o.at \in Locked => o.key \in Keys
  /\ o.at \in {"put", "restore"} => o.value \in Values
  /\ o.at = "rotate" => o.fresh \in Keys
  /\ o.at \in {"meta", "get", "open", "answered"} => o.row \in Row
  /\ o.at \in {"revert", "open", "answered"} => o.version \in Versions

StagesOK == \A c \in Clients : StageOK(ops[c])

TypeInv == TypeOK /\ StagesOK

LEMMA IdleIsAnOp == Idle \in Op /\ StageOK(Idle)
BY DEF Idle, Op, StageOK, Stages, Locked

\* Replacing one client's operation by a well-formed one keeps them all so.
LEMMA SetOp ==
  ASSUME TypeInv, NEW c \in Clients, NEW o, o \in Op, StageOK(o),
         ops' = [ops EXCEPT ![c] = o]
  PROVE  ops' \in [Clients -> Op] /\ StagesOK'
BY DEF TypeInv, TypeOK, StagesOK, StageOK

\* Sealing under another key changes nothing else.
LEMMA Rekeyed ==
  ASSUME NEW b \in Blob, NEW k \in Keys
  PROVE  /\ [b EXCEPT !.key = k] \in Blob
         /\ [b EXCEPT !.key = k] = SealSecret(k, b.vault, b.name, b.version, b.value)
BY DEF Blob, SealSecret

THEOREM TypeInvInit == Init => TypeInv
BY IdleIsAnOp DEF Init, TypeInv, TypeOK, StagesOK, NoHistory, Root

THEOREM TypeInvStep == TypeInv /\ [Next]_vars => TypeInv'
<1> SUFFICES ASSUME TypeInv, [Next]_vars PROVE TypeInv'
  OBVIOUS
<1> USE BoundAssumption
<1>1. ASSUME NEW c \in Clients, NEW v \in Vaults, NEW k \in Keys, CreateVault(c, v, k)
      PROVE  TypeInv'
  BY <1>1 DEF CreateVault, TypeInv, TypeOK, StagesOK, StageOK
<1>2. ASSUME NEW v \in Vaults, DeleteProject(v) PROVE TypeInv'
  BY <1>2 DEF DeleteProject, TypeInv, TypeOK, StagesOK, StageOK, NoHistory
<1>3. ASSUME NEW v \in Vaults, NEW n \in Names, DeleteSecret(v, n) PROVE TypeInv'
  BY <1>3 DEF DeleteSecret, TypeInv, TypeOK, StagesOK, StageOK, NoHistory, Row
<1>4. ASSUME NEW c \in Clients, NEW v \in Vaults, NEW n \in Names, NEW x \in Values,
             BeginPut(c, v, n, x)
      PROVE  TypeInv'
  <2> DEFINE o == [Idle EXCEPT !.at = "put", !.vault = v, !.name = n,
                               !.key = wrapped[v], !.value = x]
  <2>1. o \in Op /\ StageOK(o)
    BY <1>4 DEF BeginPut, TypeInv, TypeOK, Op, Idle, Stages, Locked, StageOK
  <2>2. ops' = [ops EXCEPT ![c] = o]
    BY <1>4 DEF BeginPut
  <2> QED
    BY <1>4, <2>1, <2>2, SetOp DEF BeginPut, TypeInv, TypeOK, stored
<1>5. ASSUME NEW c \in Clients, NEW i \in Ids, WriteVersion(c, i) PROVE TypeInv'
  <2> DEFINE o == ops[c]
             n == NextVersion(secrets[o.vault][o.name])
             b == SealSecret(o.key, o.vault, o.name, n, o.value)
  <2>1. o.vault \in Vaults /\ o.name \in Names /\ o.key \in Keys /\ o.value \in Values
    BY <1>5 DEF WriteVersion, TypeInv, TypeOK, StagesOK, StageOK, Locked
  <2>2. n \in Versions
    BY <1>5, <2>1 DEF WriteVersion, TypeInv, TypeOK, NextVersion, Versions, Row
  <2>3. b \in Blob
    BY <2>1, <2>2 DEF SealSecret, Blob
  <2>4. secrets' \in [Vaults -> [Names -> Row \cup {None}]]
    BY <1>5, <2>1, <2>2 DEF WriteVersion, TypeInv, TypeOK, Row
  <2>5. versions' = [versions EXCEPT ![i][n] = b]
    BY <1>5 DEF WriteVersion
  <2>6. versions' \in [Ids -> [Versions -> Blob \cup {None}]]
    BY <2>2, <2>3, <2>5 DEF TypeInv, TypeOK
  <2>7. drawn' \in SUBSET (Vaults \cup Keys \cup Ids) /\ UNCHANGED <<wrapped, root>>
    BY <1>5 DEF WriteVersion, TypeInv, TypeOK
  <2>8. ops' = [ops EXCEPT ![c] = Idle]
    BY <1>5 DEF WriteVersion, Finish
  <2> QED
    BY <2>4, <2>6, <2>7, <2>8, IdleIsAnOp, SetOp DEF TypeInv, TypeOK
<1>6. ASSUME NEW c \in Clients, NEW v \in Vaults, NEW n \in Names, ReadMeta(c, v, n)
      PROVE  TypeInv'
  <2> DEFINE row == secrets[v][n]
             o == [Idle EXCEPT !.at = "meta", !.vault = v, !.name = n, !.row = row]
  <2>0. row \in Row
    BY <1>6 DEF ReadMeta, TypeInv, TypeOK
  <2>1. o \in Op /\ StageOK(o)
    <3> HIDE DEF row
    <3> QED BY <2>0 DEF Op, Idle, Stages, Locked, StageOK
  <2>2. ops' = [ops EXCEPT ![c] = o]
    BY <1>6 DEF ReadMeta
  <2> QED
    BY <1>6, <2>1, <2>2, SetOp DEF ReadMeta, TypeInv, TypeOK, stored
<1>7. ASSUME NEW c \in Clients, BeginGet(c) PROVE TypeInv'
  <2> DEFINE o == [ops[c] EXCEPT !.at = "get", !.key = wrapped[ops[c].vault]]
  <2>1. o \in Op /\ StageOK(o)
    BY <1>7 DEF BeginGet, TypeInv, TypeOK, Op, Stages, Locked, StagesOK, StageOK
  <2>2. ops' = [ops EXCEPT ![c] = o]
    BY <1>7 DEF BeginGet
  <2> QED
    BY <1>7, <2>1, <2>2, SetOp DEF BeginGet, TypeInv, TypeOK, stored
<1>8. ASSUME NEW c \in Clients, GetSecret(c) PROVE TypeInv'
  <2> DEFINE now == secrets[ops[c].vault][ops[c].name]
             b == versions[now.id][now.current]
             x == IF OpenSecret(ops[c].key, ops[c].vault, ops[c].name, now.current, b)
                  THEN b.value ELSE None
             o == [ops[c] EXCEPT !.at = "answered", !.version = now.current, !.value = x]
  <2>1. ops[c].vault \in Vaults /\ ops[c].name \in Names /\ ops[c].row \in Row
    BY <1>8 DEF GetSecret, TypeInv, StagesOK, StageOK
  <2>2. now \in Row /\ b \in Blob
    <3>0. now # None
      BY <1>8 DEF GetSecret
    <3>1. now \in Row
      BY <2>1, <3>0 DEF TypeInv, TypeOK
    <3>2. now.id \in Ids /\ now.current \in Versions
      BY <3>1 DEF Row
    <3>3. b # None
      BY <1>8 DEF GetSecret
    <3> QED
      <4> HIDE DEF now
      <4> QED BY <3>1, <3>2, <3>3 DEF TypeInv, TypeOK
  <2>3. x \in Values \cup {None} /\ now.current \in Versions
    BY <2>2 DEF Blob, Row
  <2>4. o \in Op /\ StageOK(o)
    <3> HIDE DEF x, now
    <3> QED BY <2>1, <2>3 DEF TypeInv, TypeOK, Op, Stages, Locked, StageOK
  <2>5. ops' = [ops EXCEPT ![c] = o]
    BY <1>8 DEF GetSecret
  <2> QED
    BY <1>8, <2>4, <2>5, SetOp DEF GetSecret, TypeInv, TypeOK, stored
<1>9. ASSUME NEW c \in Clients, Reply(c) \/ Fail(c) PROVE TypeInv'
  BY <1>9, IdleIsAnOp, SetOp DEF Reply, Fail, Finish, TypeInv, TypeOK, stored
<1>10. ASSUME NEW c \in Clients, NEW v \in Vaults, NEW n \in Names, NEW i \in Versions,
              BeginRevert(c, v, n, i)
       PROVE  TypeInv'
  <2> DEFINE o == [Idle EXCEPT !.at = "revert", !.vault = v, !.name = n,
                               !.key = wrapped[v], !.version = i]
  <2>1. o \in Op /\ StageOK(o)
    BY <1>10 DEF BeginRevert, TypeInv, TypeOK, Op, Idle, Stages, Locked, StageOK
  <2>2. ops' = [ops EXCEPT ![c] = o]
    BY <1>10 DEF BeginRevert
  <2> QED
    BY <1>10, <2>1, <2>2, SetOp DEF BeginRevert, TypeInv, TypeOK, stored
<1>11. ASSUME NEW c \in Clients, RevertMeta(c) PROVE TypeInv'
  <2> DEFINE row == secrets[ops[c].vault][ops[c].name]
             o == [ops[c] EXCEPT !.at = "open", !.row = row]
  <2>0. row \in Row
    BY <1>11 DEF RevertMeta, TypeInv, TypeOK, StagesOK, StageOK
  <2>1. o \in Op /\ StageOK(o)
    <3> HIDE DEF row
    <3> QED
      BY <1>11, <2>0 DEF RevertMeta, TypeInv, TypeOK, Op, Stages, Locked, StagesOK, StageOK
  <2>2. ops' = [ops EXCEPT ![c] = o]
    BY <1>11 DEF RevertMeta
  <2> QED
    BY <1>11, <2>1, <2>2, SetOp DEF RevertMeta, TypeInv, TypeOK, stored
<1>12. ASSUME NEW c \in Clients, RevertOpen(c) PROVE TypeInv'
  <2> DEFINE b == versions[ops[c].row.id][ops[c].version]
             o == [ops[c] EXCEPT !.at = "restore", !.value = b.value]
  <2>1. ops[c].row \in Row /\ ops[c].version \in Versions
    BY <1>12 DEF RevertOpen, TypeInv, StagesOK, StageOK
  <2>2. b.value \in Values
    BY <1>12, <2>1 DEF RevertOpen, TypeInv, TypeOK, Row, Blob
  <2>3. o \in Op /\ StageOK(o)
    <3> HIDE DEF b
    <3> QED
      BY <1>12, <2>1, <2>2 DEF RevertOpen, TypeInv, TypeOK, Op, Stages, Locked, StagesOK, StageOK
  <2>4. ops' = [ops EXCEPT ![c] = o]
    BY <1>12 DEF RevertOpen
  <2> QED
    BY <1>12, <2>3, <2>4, SetOp DEF RevertOpen, TypeInv, TypeOK, stored
<1>13. ASSUME NEW c \in Clients, NEW v \in Vaults, NEW k \in Keys, BeginRotate(c, v, k)
       PROVE  TypeInv'
  <2> DEFINE o == [Idle EXCEPT !.at = "rotate", !.vault = v,
                               !.key = wrapped[v], !.fresh = k]
  <2>1. o \in Op /\ StageOK(o)
    BY <1>13 DEF BeginRotate, TypeInv, TypeOK, Op, Idle, Stages, Locked, StageOK
  <2>2. ops' = [ops EXCEPT ![c] = o]
    BY <1>13 DEF BeginRotate
  <2> QED
    BY <1>13, <2>1, <2>2, SetOp DEF BeginRotate, TypeInv, TypeOK, stored
<1>14. ASSUME NEW c \in Clients, RotateVaultBlobs(c) PROVE TypeInv'
  <2>1. ops[c].fresh \in Keys /\ ops[c].vault \in Vaults
    BY <1>14 DEF RotateVaultBlobs, TypeInv, StagesOK, StageOK
  <2>2. Reseal(ops[c].vault, ops[c].fresh)
          \in [Ids -> [Versions -> Blob \cup {None}]]
    <3>1. ASSUME NEW id \in Ids, NEW i \in Versions, versions[id][i] # None
          PROVE  [versions[id][i] EXCEPT !.key = ops[c].fresh] \in Blob
      <4> DEFINE b == versions[id][i]
      <4>1. b \in Blob
        BY <3>1 DEF TypeInv, TypeOK
      <4> QED
        BY <2>1, <4>1, Rekeyed
    <3>2. ASSUME NEW id \in Ids, NEW i \in Versions
          PROVE  Reseal(ops[c].vault, ops[c].fresh)[id][i] \in Blob \cup {None}
      BY <3>1, <3>2 DEF Reseal, Stored, BlobOf, TypeInv, TypeOK
    <3> QED
      BY <3>2 DEF Reseal
  <2> QED
    BY <1>14, <2>1, <2>2, IdleIsAnOp, SetOp
    DEF RotateVaultBlobs, Finish, TypeInv, TypeOK
<1>15. ASSUME NEW p \in Procs, Unseal(p) \/ BeginSeal(p) \/ Seal(p) PROVE TypeInv'
  BY <1>15 DEF Unseal, BeginSeal, Seal, TypeInv, TypeOK, StagesOK, StageOK, stored, Root
<1>16. ASSUME NEW p \in Procs, Crash(p) PROVE TypeInv'
  <2>1. ops' \in [Clients -> Op] /\ StagesOK'
    BY <1>16, IdleIsAnOp DEF Crash, TypeInv, TypeOK, StagesOK
  <2> QED
    BY <1>16, <2>1 DEF Crash, TypeInv, TypeOK, stored, Root
<1>17. CASE UNCHANGED vars
  BY <1>17 DEF vars, TypeInv, TypeOK, StagesOK, StageOK
<1> QED
  BY <1>1, <1>2, <1>3, <1>4, <1>5, <1>6, <1>7, <1>8, <1>9, <1>10, <1>11, <1>12, <1>13,
     <1>14, <1>15, <1>16, <1>17
  DEF Next, Begin, Progress, Write

(***************************************************************************)
(* Every row, key, and operation has the type of its column or field, in   *)
(* every state of every run.                                               *)
(***************************************************************************)
THEOREM TypeCorrect == Spec => []TypeOK
<1>1. TypeInv => TypeOK
  BY DEF TypeInv
<1> QED
  BY <1>1, TypeInvInit, TypeInvStep, PTL DEF Spec
--------------------------------------------------------------------------------
(***************************************************************************)
(* The rows.                                                               *)
(***************************************************************************)
DrawnCovers ==
  /\ \A v \in Vaults : wrapped[v] # None => v \in drawn
  /\ \A v \in Vaults, n \in Names : Alive(v, n) => secrets[v][n].id \in drawn

RowInv == DrawnCovers /\ HistoryHasNoHole

\* Only five actions touch the stored rows.
LEMMA QuietSteps ==
  ASSUME [Next]_vars
  PROVE  \/ UNCHANGED stored /\ drawn \subseteq drawn'
         \/ \E c \in Clients, v \in Vaults, k \in Keys : CreateVault(c, v, k)
         \/ \E v \in Vaults : DeleteProject(v)
         \/ \E v \in Vaults, n \in Names : DeleteSecret(v, n)
         \/ \E c \in Clients, i \in Ids : WriteVersion(c, i)
         \/ \E c \in Clients : RotateVaultBlobs(c)
<1> DEFINE Quiet == \/ UNCHANGED stored /\ drawn \subseteq drawn'
                    \/ \E c \in Clients, v \in Vaults, k \in Keys : CreateVault(c, v, k)
                    \/ \E v \in Vaults : DeleteProject(v)
                    \/ \E v \in Vaults, n \in Names : DeleteSecret(v, n)
                    \/ \E c \in Clients, i \in Ids : WriteVersion(c, i)
                    \/ \E c \in Clients : RotateVaultBlobs(c)
<1>1. CASE UNCHANGED vars
  BY <1>1 DEF vars, stored
<1>2. ASSUME NEW c \in Clients, Begin(c) PROVE Quiet
  BY <1>2 DEF Begin, BeginPut, ReadMeta, BeginRevert, BeginRotate
<1>3. ASSUME NEW c \in Clients, Progress(c) PROVE Quiet
  BY <1>3 DEF Progress, Write, BeginGet, GetSecret, Reply, RevertMeta, RevertOpen, Fail
<1>4. ASSUME NEW p \in Procs, Unseal(p) \/ BeginSeal(p) \/ Seal(p) \/ Crash(p)
      PROVE  Quiet
  BY <1>4 DEF Unseal, BeginSeal, Seal, Crash
<1> QED
  BY <1>1, <1>2, <1>3, <1>4 DEF Next

\* Where PutSecret writes: a free slot, right after the last version, under an
\* identifier no other secret has.
WritesAt(c, i, v, n, j) ==
  /\ v = ops[c].vault /\ n = ops[c].name
  /\ SealSecret(ops[c].key, v, n, j, ops[c].value) \in Blob
  /\ wrapped[v] # None
  /\ secrets' = [secrets EXCEPT ![v][n] = [id |-> i, current |-> j]]
  /\ versions' = [versions EXCEPT ![i][j] = SealSecret(ops[c].key, v, n, j, ops[c].value)]
  /\ UNCHANGED wrapped
  /\ drawn' = drawn \cup {i}
  /\ \A q \in Versions : versions[i][q] # None <=> q < j
  /\ \A w \in Vaults, m \in Names :
       Alive(w, m) /\ secrets[w][m].id = i => w = v /\ m = n
  /\ Alive(v, n) => secrets[v][n].id = i /\ j = secrets[v][n].current + 1

LEMMA WriteFacts ==
  ASSUME TypeInv, RowInv, NEW c \in Clients, NEW i \in Ids, WriteVersion(c, i)
  PROVE  \E v \in Vaults, n \in Names, j \in Versions : WritesAt(c, i, v, n, j)
<1> DEFINE v == ops[c].vault
           n == ops[c].name
           old == secrets[v][n]
           j == NextVersion(old)
<1>1. v \in Vaults /\ n \in Names /\ ops[c].key \in Keys /\ ops[c].value \in Values
  BY DEF WriteVersion, TypeInv, StagesOK, StageOK, Locked
<1>2. /\ wrapped[v] # None /\ j <= MaxVersion
      /\ IF old = None THEN i \notin drawn ELSE i = old.id
      /\ secrets' = [secrets EXCEPT ![v][n] = [id |-> i, current |-> j]]
      /\ versions' = [versions EXCEPT ![i][j] =
                        SealSecret(ops[c].key, v, n, j, ops[c].value)]
      /\ UNCHANGED wrapped /\ drawn' = drawn \cup {i}
  BY DEF WriteVersion
<1>3. old \in Row \cup {None}
  BY <1>1 DEF TypeInv, TypeOK
<1>4. j \in Versions
  BY <1>2, <1>3, BoundAssumption DEF NextVersion, Versions, Row
<1>5. \A w \in Vaults, m \in Names :
        Alive(w, m) /\ secrets[w][m].id = i => w = v /\ m = n
  BY <1>1, <1>2 DEF RowInv, DrawnCovers, HistoryHasNoHole, IdsAreUnique, Alive
<1>6. \A q \in Versions : versions[i][q] # None <=> q < j
  <2>1. CASE old = None
    <3>1. j = 1
      BY <2>1 DEF NextVersion
    <3>2. \A q \in Versions : versions[i][q] = None
      BY <2>1, <1>2 DEF RowInv, DrawnCovers, HistoryHasNoHole, NoOrphan
    <3> QED BY <3>1, <3>2 DEF Versions
  <2>2. CASE old # None
    <3>1. old.current \in Nat /\ j = old.current + 1
      BY <2>2, <1>3 DEF NextVersion, Row, Versions
    <3>2. \A q \in Versions : versions[i][q] # None <=> q <= old.current
      BY <2>2, <1>1, <1>2 DEF RowInv, HistoryHasNoHole, NoHole, Alive, BlobOf
    <3> QED BY <3>1, <3>2 DEF Versions
  <2> QED BY <2>1, <2>2
<1>7. Alive(v, n) => old.id = i /\ j = old.current + 1
  BY <1>2 DEF Alive, NextVersion
<1>8. SealSecret(ops[c].key, v, n, j, ops[c].value) \in Blob
  BY <1>1, <1>4 DEF SealSecret, Blob
<1> QED
  BY <1>1, <1>2, <1>4, <1>5, <1>6, <1>7, <1>8 DEF WritesAt

\* Resealing a vault touches the key of its versions, and nothing else.
LEMMA ResealKeepsPlaces ==
  ASSUME TypeInv, NEW v \in Vaults, NEW k \in Keys, NEW id \in Ids, NEW i \in Versions
  PROVE  LET b == versions[id][i]
             new == Reseal(v, k)[id][i]
         IN /\ b = None <=> new = None
            /\ b # None => new \in {b, SealSecret(k, b.vault, b.name, b.version, b.value)}
            /\ b # None /\ (\E n \in Names : Alive(v, n) /\ secrets[v][n].id = id) =>
                 new = SealSecret(k, b.vault, b.name, b.version, b.value)
            /\ ~(\E n \in Names : Alive(v, n) /\ secrets[v][n].id = id) => new = b
<1> DEFINE b == versions[id][i]
           new == Reseal(v, k)[id][i]
           mine == \E n \in Names : Alive(v, n) /\ secrets[v][n].id = id
<1>1. b # None => b \in Blob
  BY DEF TypeInv, TypeOK
<1>2. new = IF mine /\ b # None THEN [b EXCEPT !.key = k] ELSE b
  BY DEF Reseal, Stored, BlobOf
<1>3. b # None => /\ [b EXCEPT !.key = k] # None
                  /\ [b EXCEPT !.key = k] = SealSecret(k, b.vault, b.name, b.version, b.value)
  BY <1>1, Rekeyed, NoneAssumption
<1> HIDE DEF b, new, mine
<1>4. /\ b = None <=> new = None
      /\ b # None => new \in {b, SealSecret(k, b.vault, b.name, b.version, b.value)}
      /\ b # None /\ mine => new = SealSecret(k, b.vault, b.name, b.version, b.value)
      /\ ~mine => new = b
  BY <1>2, <1>3
<1> QED
  BY <1>4 DEF b, new, mine

THEOREM RowInvStep == TypeInv /\ RowInv /\ [Next]_vars => RowInv'
<1> SUFFICES ASSUME TypeInv, RowInv, [Next]_vars PROVE RowInv'
  OBVIOUS
<1>t. TypeInv'
  BY TypeInvStep
<1>1. CASE UNCHANGED stored /\ drawn \subseteq drawn'
  BY <1>1 DEF stored, RowInv, DrawnCovers, HistoryHasNoHole, NoHole, IdsAreUnique,
              NoOrphan, Alive, BlobOf
<1>2. ASSUME NEW c \in Clients, NEW v \in Vaults, NEW k \in Keys, CreateVault(c, v, k)
      PROVE  RowInv'
  <2>1. /\ wrapped' = [wrapped EXCEPT ![v] = k] /\ k # None
        /\ drawn' = drawn \cup {v, k} /\ UNCHANGED <<secrets, versions>>
    BY <1>2, NoneAssumption DEF CreateVault
  <2>2. DrawnCovers'
    BY <2>1 DEF TypeInv, TypeOK, RowInv, DrawnCovers, Alive
  <2>3. NoHole'
    BY <2>1 DEF TypeInv, TypeOK, RowInv, HistoryHasNoHole, NoHole, Alive, BlobOf
  <2>4. (IdsAreUnique /\ NoOrphan)'
    BY <2>1 DEF RowInv, HistoryHasNoHole, IdsAreUnique, NoOrphan, Alive
  <2> QED BY <2>2, <2>3, <2>4 DEF RowInv, HistoryHasNoHole
<1>3. ASSUME NEW v \in Vaults, DeleteProject(v) PROVE RowInv'
  <2>1. \A w \in Vaults : wrapped'[w] = IF w = v THEN None ELSE wrapped[w]
    BY <1>3 DEF DeleteProject, TypeInv, TypeOK
  <2>2. \A w \in Vaults, m \in Names :
          secrets'[w][m] = IF w = v THEN None ELSE secrets[w][m]
    BY <1>3 DEF DeleteProject, TypeInv, TypeOK
  <2>3. \A id \in Ids, i \in Versions : versions'[id][i] =
          IF \E n \in Names : Alive(v, n) /\ secrets[v][n].id = id
          THEN None ELSE versions[id][i]
    BY <1>3 DEF DeleteProject, TypeInv, TypeOK, NoHistory, Alive
  <2>4. \A w \in Vaults, m \in Names : Alive(w, m)' =>
          w # v /\ Alive(w, m) /\ secrets'[w][m] = secrets[w][m]
    BY <2>2 DEF Alive
  <2>5. \A w \in Vaults, m \in Names, i \in Versions :
          Alive(w, m)' => BlobOf(w, m, i)' = BlobOf(w, m, i)
    <3> SUFFICES ASSUME NEW w \in Vaults, NEW m \in Names, NEW i \in Versions, Alive(w, m)'
                 PROVE  BlobOf(w, m, i)' = BlobOf(w, m, i)
      OBVIOUS
    <3>1. w # v /\ Alive(w, m) /\ secrets'[w][m] = secrets[w][m]
      BY <2>4
    <3>2. secrets[w][m].id \in Ids
      BY <3>1 DEF Alive, TypeInv, TypeOK, Row
    <3>3. ~\E n \in Names : Alive(v, n) /\ secrets[v][n].id = secrets[w][m].id
      BY <3>1 DEF RowInv, HistoryHasNoHole, IdsAreUnique
    <3> QED BY <3>1, <3>2, <3>3, <2>3 DEF BlobOf
  <2>6. UNCHANGED drawn
    BY <1>3 DEF DeleteProject
  <2>7. DrawnCovers'
    BY <2>1, <2>4, <2>6 DEF RowInv, DrawnCovers
  <2>8. NoHole'
    BY <2>1, <2>4, <2>5 DEF RowInv, HistoryHasNoHole, NoHole
  <2>9. IdsAreUnique'
    BY <2>4 DEF RowInv, HistoryHasNoHole, IdsAreUnique
  <2>10. NoOrphan'
    BY <2>2, <2>3 DEF RowInv, HistoryHasNoHole, NoOrphan, Alive
  <2> QED BY <2>7, <2>8, <2>9, <2>10 DEF RowInv, HistoryHasNoHole
<1>4. ASSUME NEW v \in Vaults, NEW n \in Names, DeleteSecret(v, n) PROVE RowInv'
  <2> DEFINE gone == secrets[v][n].id
  <2>1. gone \in Ids /\ Alive(v, n)
    BY <1>4 DEF DeleteSecret, TypeInv, TypeOK, Row, Alive
  <2>2. \A w \in Vaults, m \in Names :
          secrets'[w][m] = IF w = v /\ m = n THEN None ELSE secrets[w][m]
    BY <1>4 DEF DeleteSecret, TypeInv, TypeOK
  <2>3. \A id \in Ids, i \in Versions :
          versions'[id][i] = IF id = gone THEN None ELSE versions[id][i]
    BY <1>4, <2>1 DEF DeleteSecret, TypeInv, TypeOK, NoHistory
  <2>4. \A w \in Vaults, m \in Names : Alive(w, m)' =>
          Alive(w, m) /\ secrets'[w][m] = secrets[w][m] /\ secrets[w][m].id # gone
    BY <2>1, <2>2 DEF Alive, RowInv, HistoryHasNoHole, IdsAreUnique
  <2>5. \A w \in Vaults, m \in Names, i \in Versions :
          Alive(w, m)' => BlobOf(w, m, i)' = BlobOf(w, m, i)
    <3> SUFFICES ASSUME NEW w \in Vaults, NEW m \in Names, NEW i \in Versions, Alive(w, m)'
                 PROVE  BlobOf(w, m, i)' = BlobOf(w, m, i)
      OBVIOUS
    <3>1. secrets[w][m].id \in Ids /\ secrets[w][m].id # gone
          /\ secrets'[w][m] = secrets[w][m]
      BY <2>4 DEF Alive, TypeInv, TypeOK, Row
    <3> QED BY <3>1, <2>3 DEF BlobOf
  <2>6. UNCHANGED <<wrapped, drawn>>
    BY <1>4 DEF DeleteSecret
  <2>7. DrawnCovers'
    BY <2>4, <2>6 DEF RowInv, DrawnCovers
  <2>8. NoHole'
    BY <2>4, <2>5, <2>6 DEF RowInv, HistoryHasNoHole, NoHole
  <2>9. IdsAreUnique'
    BY <2>4 DEF RowInv, HistoryHasNoHole, IdsAreUnique
  <2>10. NoOrphan'
    BY <2>1, <2>2, <2>3 DEF RowInv, HistoryHasNoHole, NoOrphan, Alive
  <2> QED BY <2>7, <2>8, <2>9, <2>10 DEF RowInv, HistoryHasNoHole
<1>5. ASSUME NEW c \in Clients, NEW i \in Ids, WriteVersion(c, i) PROVE RowInv'
  <2>0. PICK v \in Vaults, n \in Names, j \in Versions : WritesAt(c, i, v, n, j)
    BY <1>5, WriteFacts
  <2> DEFINE new == [id |-> i, current |-> j]
             blob == SealSecret(ops[c].key, v, n, j, ops[c].value)
  <2>1. /\ wrapped[v] # None /\ UNCHANGED wrapped /\ drawn' = drawn \cup {i}
        /\ \A q \in Versions : versions[i][q] # None <=> q < j
        /\ \A w \in Vaults, m \in Names :
             Alive(w, m) /\ secrets[w][m].id = i => w = v /\ m = n
    BY <2>0 DEF WritesAt
  <2>2. \A w \in Vaults, m \in Names : secrets'[w][m] =
          IF w = v /\ m = n THEN new ELSE secrets[w][m]
    BY <2>0 DEF WritesAt, TypeInv, TypeOK
  <2>3. \A id \in Ids, q \in Versions : versions'[id][q] =
          IF id = i /\ q = j THEN blob ELSE versions[id][q]
    BY <2>0 DEF WritesAt, TypeInv, TypeOK
  <2>4. blob # None
    BY <2>0, NoneAssumption DEF WritesAt
  <2>5. new.id = i /\ new.current = j /\ new # None
    BY NoneAssumption DEF Row
  <2> HIDE DEF new, blob
  <2>6. \A w \in Vaults, m \in Names : Alive(w, m)' <=> (w = v /\ m = n) \/ Alive(w, m)
    BY <2>2, <2>5 DEF Alive
  <2>7. \A w \in Vaults, m \in Names : Alive(w, m)' /\ secrets'[w][m].id = i
          => w = v /\ m = n
    BY <2>1, <2>2, <2>6
  <2>8. DrawnCovers'
    BY <2>1, <2>2, <2>5, <2>6 DEF RowInv, DrawnCovers
  <2>9. NoHole'
    <3> SUFFICES ASSUME NEW w \in Vaults, NEW m \in Names, Alive(w, m)'
                 PROVE  /\ wrapped'[w] # None
                        /\ \A q \in Versions : BlobOf(w, m, q)' # None
                                               <=> q <= secrets'[w][m].current
      BY DEF NoHole
    <3>1. CASE w = v /\ m = n
      <4>1. secrets'[w][m] = new
        BY <3>1, <2>2
      <4>2. \A q \in Versions : BlobOf(w, m, q)' # None <=> q = j \/ q < j
        BY <4>1, <2>1, <2>3, <2>4, <2>5 DEF BlobOf
      <4> QED
        BY <4>1, <4>2, <3>1, <2>1, <2>5 DEF Versions
    <3>2. CASE ~(w = v /\ m = n)
      <4>1. Alive(w, m) /\ secrets'[w][m] = secrets[w][m]
        BY <3>2, <2>2, <2>6
      <4>2. secrets[w][m].id \in Ids /\ secrets[w][m].id # i
        BY <4>1, <3>2, <2>1 DEF Alive, TypeInv, TypeOK, Row
      <4>3. \A q \in Versions : BlobOf(w, m, q)' = BlobOf(w, m, q)
        BY <4>1, <4>2, <2>3 DEF BlobOf
      <4> QED
        BY <4>1, <4>3, <2>1 DEF RowInv, HistoryHasNoHole, NoHole
    <3> QED BY <3>1, <3>2
  <2>10. IdsAreUnique'
    BY <2>2, <2>5, <2>6, <2>7 DEF RowInv, HistoryHasNoHole, IdsAreUnique
  <2>11. NoOrphan'
    <3> SUFFICES ASSUME NEW id \in Ids, NEW q \in Versions, versions'[id][q] # None
                 PROVE  \E w \in Vaults, m \in Names : Alive(w, m)' /\ secrets'[w][m].id = id
      BY DEF NoOrphan
    <3>1. CASE id = i
      BY <3>1, <2>2, <2>5, <2>6
    <3>2. CASE id # i
      <4>1. versions[id][q] # None
        BY <3>2, <2>3
      <4>2. PICK w \in Vaults, m \in Names : Alive(w, m) /\ secrets[w][m].id = id
        BY <4>1 DEF RowInv, HistoryHasNoHole, NoOrphan
      <4>3. ~(w = v /\ m = n)
        BY <4>2, <3>2, <2>0 DEF WritesAt
      <4> QED BY <4>2, <4>3, <2>2, <2>6
    <3> QED BY <3>1, <3>2
  <2> QED BY <2>8, <2>9, <2>10, <2>11 DEF RowInv, HistoryHasNoHole
<1>6. ASSUME NEW c \in Clients, RotateVaultBlobs(c) PROVE RowInv'
  <2>1. \A id \in Ids, i \in Versions : versions'[id][i] = None <=> versions[id][i] = None
    <3>1. ops[c].vault \in Vaults /\ ops[c].fresh \in Keys
      BY <1>6 DEF RotateVaultBlobs, TypeInv, StagesOK, StageOK
    <3>2. versions' = Reseal(ops[c].vault, ops[c].fresh)
      BY <1>6 DEF RotateVaultBlobs
    <3> QED BY <3>1, <3>2, ResealKeepsPlaces
  <2>2. \A v \in Vaults : wrapped'[v] = None <=> wrapped[v] = None
    <3>1. ops[c].fresh # None
      BY <1>6, NoneAssumption DEF RotateVaultBlobs, TypeInv, StagesOK, StageOK
    <3> QED BY <1>6, <3>1 DEF RotateVaultBlobs, TypeInv, TypeOK
  <2>3. UNCHANGED <<secrets, drawn>>
    BY <1>6 DEF RotateVaultBlobs
  <2>4. DrawnCovers'
    BY <2>2, <2>3 DEF RowInv, DrawnCovers, Alive
  <2>5. NoHole'
    <3>1. \A v \in Vaults, n \in Names : Alive(v, n) => secrets[v][n].id \in Ids
      BY DEF Alive, TypeInv, TypeOK, Row
    <3> QED
      BY <2>1, <2>2, <2>3, <3>1 DEF RowInv, HistoryHasNoHole, NoHole, Alive, BlobOf
  <2>6. IdsAreUnique' /\ NoOrphan'
    BY <2>1, <2>3 DEF RowInv, HistoryHasNoHole, IdsAreUnique, NoOrphan, Alive
  <2> QED BY <2>4, <2>5, <2>6 DEF RowInv, HistoryHasNoHole
<1> QED
  BY <1>1, <1>2, <1>3, <1>4, <1>5, <1>6, QuietSteps

THEOREM RowInvInit == Init => RowInv
BY DEF Init, RowInv, DrawnCovers, HistoryHasNoHole, NoHole, IdsAreUnique, NoOrphan, Alive,
       NoHistory

(***************************************************************************)
(* Whatever overlaps, fails or crashes, the versions of a secret are       *)
(* numbered without a hole up to the current one, no two secrets share an  *)
(* identifier and no version outlives its secret.                          *)
(***************************************************************************)
THEOREM HistoriesAreWhole == Spec => []HistoryHasNoHole
<1>1. RowInv => HistoryHasNoHole
  BY DEF RowInv
<1> QED
  BY <1>1, TypeInvInit, TypeInvStep, RowInvInit, RowInvStep, PTL DEF Spec

--------------------------------------------------------------------------------
(***************************************************************************)
(* Nothing readable is lost: the step.                                     *)
(***************************************************************************)
Kept(v, n, i) ==
  \/ secrets'[v][n] = None
  \/ Readable(v, n, i)' /\ BlobOf(v, n, i)'.value = BlobOf(v, n, i).value

\* A version whose row, key and blob a step leaves alone is kept.
LEMMA UntouchedIsKept ==
  ASSUME NEW v \in Vaults, NEW n \in Names, NEW i \in Versions, Readable(v, n, i),
         wrapped'[v] = wrapped[v], secrets'[v][n].id = secrets[v][n].id,
         secrets'[v][n] # None, BlobOf(v, n, i)' = BlobOf(v, n, i)
  PROVE  Kept(v, n, i)
BY DEF Kept, Readable, Stored, Alive, OpenSecret, SealSecret

\* Resealing what opens under the key the vault advertises keeps it readable.
LEMMA RotationKeeps ==
  ASSUME TypeInv, RowInv, NEW c \in Clients, RotateVaultBlobs(c),
         NEW v \in Vaults, NEW n \in Names, NEW i \in Versions, Readable(v, n, i)
  PROVE  Kept(v, n, i)
<1> DEFINE r == ops[c].vault
           b == BlobOf(v, n, i)
           id == secrets[v][n].id
<1>1. r \in Vaults /\ ops[c].fresh \in Keys
  BY DEF RotateVaultBlobs, TypeInv, StagesOK, StageOK
<1>2. /\ versions' = Reseal(r, ops[c].fresh)
      /\ wrapped' = [wrapped EXCEPT ![r] = IF @ = None THEN None ELSE ops[c].fresh]
      /\ UNCHANGED secrets
  BY DEF RotateVaultBlobs
<1>3. /\ Alive(v, n) /\ b # None /\ wrapped[v] # None
      /\ b = SealSecret(wrapped[v], v, n, i, b.value)
  BY DEF Readable, Stored, OpenSecret
<1>4. id \in Ids /\ b = versions[id][i]
  BY <1>3 DEF Alive, TypeInv, TypeOK, Row, BlobOf
<1>5. CASE v = r
  <2>1. versions'[id][i] = SealSecret(ops[c].fresh, b.vault, b.name, b.version, b.value)
    <3>1. \E m \in Names : Alive(r, m) /\ secrets[r][m].id = id
      BY <1>3, <1>5
    <3>2. id \in Ids /\ versions[id][i] = b /\ b # None
      BY <1>3, <1>4
    <3> HIDE DEF b, id
    <3> QED BY <1>1, <1>2, <3>1, <3>2, ResealKeepsPlaces
  <2>2. b.vault = v /\ b.name = n /\ b.version = i
    <3> HIDE DEF b
    <3> QED BY <1>3 DEF SealSecret
  <2>3. wrapped'[v] = ops[c].fresh /\ ops[c].fresh # None
    BY <1>1, <1>2, <1>3, <1>5, NoneAssumption DEF TypeInv, TypeOK
  <2>4. BlobOf(v, n, i)' = SealSecret(wrapped'[v], v, n, i, b.value)
    BY <2>1, <2>2, <2>3, <1>2 DEF BlobOf
  <2>5. SealSecret(wrapped'[v], v, n, i, b.value).value = b.value
    BY DEF SealSecret
  <2>6. BlobOf(v, n, i)' # None
    BY <1>1, <1>2, <1>3, <1>4, ResealKeepsPlaces DEF BlobOf
  <2> QED
    BY <1>2, <1>3, <2>3, <2>4, <2>5, <2>6
    DEF Kept, Readable, Stored, Alive, OpenSecret
<1>6. CASE v # r
  <2>1. ~\E m \in Names : Alive(r, m) /\ secrets[r][m].id = id
    BY <1>1, <1>3, <1>6 DEF RowInv, HistoryHasNoHole, IdsAreUnique
  <2>2. BlobOf(v, n, i)' = b
    BY <1>1, <1>2, <1>4, <2>1, ResealKeepsPlaces DEF BlobOf
  <2>3. wrapped'[v] = wrapped[v]
    BY <1>1, <1>2, <1>6 DEF TypeInv, TypeOK
  <2> QED
    BY <1>2, <1>3, <2>2, <2>3, UntouchedIsKept DEF Alive
<1> QED BY <1>5, <1>6

LEMMA ReadableIsKept ==
  ASSUME TypeInv, RowInv, [Next]_vars,
         NEW v \in Vaults, NEW n \in Names, NEW i \in Versions, Readable(v, n, i)
  PROVE  Kept(v, n, i)
<1>0. Alive(v, n) /\ secrets[v][n].id \in Ids /\ BlobOf(v, n, i) # None /\ wrapped[v] # None
  BY DEF Readable, Stored, Alive, TypeInv, TypeOK, Row
<1>1. CASE UNCHANGED stored
  BY <1>0, <1>1, UntouchedIsKept DEF stored, BlobOf, Alive
<1>2. ASSUME NEW c \in Clients, NEW w \in Vaults, NEW k \in Keys, CreateVault(c, w, k)
      PROVE  Kept(v, n, i)
  <2>1. wrapped'[v] = wrapped[v] /\ UNCHANGED <<secrets, versions>>
    BY <1>0, <1>2 DEF CreateVault, TypeInv, TypeOK, RowInv, DrawnCovers
  <2> QED BY <1>0, <2>1, UntouchedIsKept DEF BlobOf, Alive
<1>3. ASSUME NEW w \in Vaults, DeleteProject(w) PROVE Kept(v, n, i)
  <2>1. CASE w = v
    BY <1>3, <2>1 DEF DeleteProject, TypeInv, TypeOK, Kept
  <2>2. CASE w # v
    <3>1. wrapped'[v] = wrapped[v] /\ secrets'[v] = secrets[v]
      BY <1>3, <2>2 DEF DeleteProject, TypeInv, TypeOK
    <3>2. ~\E m \in Names : secrets[w][m] # None /\ secrets[w][m].id = secrets[v][n].id
      BY <1>0, <2>2 DEF RowInv, HistoryHasNoHole, IdsAreUnique, Alive
    <3>3. versions'[secrets[v][n].id] = versions[secrets[v][n].id]
      BY <1>0, <1>3, <3>2 DEF DeleteProject
    <3> QED BY <1>0, <3>1, <3>3, UntouchedIsKept DEF BlobOf, Alive
  <2> QED BY <2>1, <2>2
<1>4. ASSUME NEW w \in Vaults, NEW m \in Names, DeleteSecret(w, m) PROVE Kept(v, n, i)
  <2>1. CASE w = v /\ m = n
    BY <1>4, <2>1 DEF DeleteSecret, TypeInv, TypeOK, Kept
  <2>2. CASE ~(w = v /\ m = n)
    <3>1. UNCHANGED wrapped /\ secrets'[v][n] = secrets[v][n]
      BY <1>4, <2>2 DEF DeleteSecret, TypeInv, TypeOK
    <3>2. secrets[w][m].id # secrets[v][n].id
      BY <1>0, <1>4, <2>2 DEF DeleteSecret, RowInv, HistoryHasNoHole, IdsAreUnique, Alive
    <3>3. versions'[secrets[v][n].id] = versions[secrets[v][n].id]
      BY <1>0, <1>4, <3>2 DEF DeleteSecret, TypeInv, TypeOK
    <3> QED BY <1>0, <3>1, <3>3, UntouchedIsKept DEF BlobOf, Alive
  <2> QED BY <2>1, <2>2
<1>5. ASSUME NEW c \in Clients, NEW id \in Ids, WriteVersion(c, id) PROVE Kept(v, n, i)
  <2>1. PICK w \in Vaults, m \in Names, j \in Versions : WritesAt(c, id, w, m, j)
    BY <1>5, WriteFacts
  <2> DEFINE new == [id |-> id, current |-> j]
             blob == SealSecret(ops[c].key, w, m, j, ops[c].value)
  <2>2. /\ secrets' = [secrets EXCEPT ![w][m] = new] /\ UNCHANGED wrapped
        /\ versions' = [versions EXCEPT ![id][j] = blob] /\ versions[id][j] = None
        /\ v = w /\ n = m => secrets[v][n].id = id
    BY <1>0, <2>1 DEF WritesAt, Versions
  <2>3. new.id = id /\ new # None
    BY NoneAssumption DEF Row
  <2> HIDE DEF new, blob
  <2>4. secrets'[v][n].id = secrets[v][n].id /\ secrets'[v][n] # None
    BY <1>0, <2>2, <2>3 DEF TypeInv, TypeOK, Alive
  <2>5. versions'[secrets[v][n].id][i] = versions[secrets[v][n].id][i]
    BY <1>0, <2>2 DEF TypeInv, TypeOK, BlobOf
  <2> QED BY <2>2, <2>4, <2>5, UntouchedIsKept DEF BlobOf
<1>6. ASSUME NEW c \in Clients, RotateVaultBlobs(c) PROVE Kept(v, n, i)
  BY <1>6, RotationKeeps
<1> QED
  BY <1>1, <1>2, <1>3, <1>4, <1>5, <1>6, QuietSteps

(***************************************************************************)
(* A version that could be read stays readable, with its value, until its  *)
(* secret is deleted - also when several rotations, writes and crashes     *)
(* overlap, in one process or several.                                     *)
(***************************************************************************)
THEOREM NothingLost == Spec => NothingReadableIsLost
<1>1. TypeInv /\ RowInv /\ [Next]_vars =>
        [\A v \in Vaults, n \in Names, i \in Versions :
           Readable(v, n, i) =>
             \/ secrets'[v][n] = None
             \/ Readable(v, n, i)' /\ BlobOf(v, n, i)'.value = BlobOf(v, n, i).value]_vars
  BY ReadableIsKept DEF Kept
<1> QED
  BY <1>1, TypeInvInit, TypeInvStep, RowInvInit, RowInvStep, PTL
  DEF Spec, NothingReadableIsLost

\* What a step does to one stored version: nothing, deletes it, or reseals it.
LEMMA VersionStep ==
  ASSUME TypeInv, RowInv, [Next]_vars, NEW id \in Ids, NEW i \in Versions,
         versions[id][i] # None, versions'[id][i] # None
  PROVE  versions'[id][i] = [versions[id][i] EXCEPT !.key = versions'[id][i].key]
<1> DEFINE b == versions[id][i]
<1>0. b \in Blob
  BY DEF TypeInv, TypeOK
<1>1. b = [b EXCEPT !.key = b.key]
  BY <1>0 DEF Blob
<1>2. CASE versions'[id][i] = b
  BY <1>1, <1>2
<1>3. ASSUME NEW c \in Clients, NEW j \in Ids, WriteVersion(c, j) PROVE versions'[id][i] = b
  <2>1. PICK v \in Vaults, n \in Names, q \in Versions : WritesAt(c, j, v, n, q)
    BY <1>3, WriteFacts
  <2> DEFINE new == SealSecret(ops[c].key, v, n, q, ops[c].value)
  <2>2. versions' = [versions EXCEPT ![j][q] = new] /\ versions[j][q] = None
    BY <2>1 DEF WritesAt, Versions
  <2> HIDE DEF new
  <2> QED BY <2>2 DEF TypeInv, TypeOK
<1>4. ASSUME NEW v \in Vaults, DeleteProject(v) PROVE versions'[id][i] = b
  BY <1>4 DEF DeleteProject, NoHistory
<1>5. ASSUME NEW v \in Vaults, NEW n \in Names, DeleteSecret(v, n) PROVE versions'[id][i] = b
  BY <1>5 DEF DeleteSecret, NoHistory, TypeInv, TypeOK
<1>6. ASSUME NEW c \in Clients, RotateVaultBlobs(c)
      PROVE  versions'[id][i] = [b EXCEPT !.key = versions'[id][i].key]
  <2>1. /\ ops[c].vault \in Vaults /\ ops[c].fresh \in Keys
        /\ versions' = Reseal(ops[c].vault, ops[c].fresh)
    BY <1>6 DEF RotateVaultBlobs, TypeInv, StagesOK, StageOK
  <2>2. versions'[id][i] \in {b, [b EXCEPT !.key = ops[c].fresh]}
    BY <2>1 DEF Reseal
  <2>3. [b EXCEPT !.key = ops[c].fresh].key = ops[c].fresh
    BY <1>0 DEF Blob
  <2> HIDE DEF b
  <2> QED BY <1>1, <2>2, <2>3
<1> QED
  BY <1>2, <1>3, <1>4, <1>5, <1>6, QuietSteps DEF stored, CreateVault

(***************************************************************************)
(* What a version of a secret holds is settled when it is written: no      *)
(* later write, revert or rotation, overlapping or not, changes more than  *)
(* the key it is sealed under.                                             *)
(***************************************************************************)
THEOREM HistoriesAreSettled == Spec => HistoryIsImmutable
<1>1. TypeInv /\ RowInv /\ [Next]_vars =>
        [\A id \in Ids, i \in Versions :
           versions[id][i] # None /\ versions'[id][i] # None
             => versions'[id][i] = [versions[id][i] EXCEPT !.key = versions'[id][i].key]]_vars
  BY VersionStep
<1> QED
  BY <1>1, TypeInvInit, TypeInvStep, RowInvInit, RowInvStep, PTL
  DEF Spec, HistoryIsImmutable

--------------------------------------------------------------------------------
(***************************************************************************)
(* Every version is readable, as long as a vault is rotated alone.  The    *)
(* invariant that carries it: the key in the hands of an operation is the  *)
(* one its vault advertises (or the vault is gone, for good), and nobody   *)
(* shares a vault with a rotation.                                         *)
(***************************************************************************)
HoldersAreCurrent ==
  \A c \in Clients : Holds(c) =>
    wrapped[ops[c].vault] \in {None, ops[c].key} /\ ops[c].vault \in drawn

RotatesAlone ==
  \A c, d \in Clients : ops[c].at = "rotate" /\ Holds(d) /\ c # d =>
    ops[c].vault # ops[d].vault

KeyInv == HoldersAreCurrent /\ RotatesAlone /\ EveryVersionReadable /\ RotationIsInvisible

\* How an operation in flight gets to hold the root key, or keeps it.
Stays(d) ==
  Holds(d)' => /\ Holds(d) /\ ops'[d].vault = ops[d].vault /\ ops'[d].key = ops[d].key
               /\ ops'[d].at = "rotate" => ops[d].at = "rotate" /\ ops'[d].fresh = ops[d].fresh

Enters(d) ==
  /\ ops'[d].vault \in Vaults
  /\ wrapped[ops'[d].vault] # None
  /\ ops'[d].key = wrapped[ops'[d].vault]
  /\ RootHeld(d)
  /\ UNCHANGED <<stored, root>>
  /\ RotationAlone => /\ ~Rotating(ops'[d].vault)
                      /\ ops'[d].at = "rotate" => Using(ops'[d].vault) = {}
  /\ ops'[d].at = "rotate" => ops'[d].fresh \notin drawn /\ ops'[d].fresh \in drawn'

Enter(c) == Enters(c) /\ \A d \in Clients \ {c} : ops'[d] = ops[d]

LEMMA WhoHolds ==
  ASSUME TypeInv, [Next]_vars
  PROVE  (\A d \in Clients : Stays(d)) \/ (\E c \in Clients : Enter(c))
<1> DEFINE OneMoves == (\A d \in Clients : Stays(d)) \/ (\E c \in Clients : Enter(c))
<1> USE DEF TypeInv, TypeOK
<1>1. CASE UNCHANGED ops
  BY <1>1 DEF Stays, Holds
<1>2. ASSUME NEW c \in Clients, ops' = [ops EXCEPT ![c] = Idle]
      PROVE  \A d \in Clients : Stays(d)
  <2>1. Idle.at \notin Locked
    BY DEF Idle, Locked
  <2> QED BY <1>2, <2>1 DEF Stays, Holds
<1>3. ASSUME NEW c \in Clients, NEW o, ops' = [ops EXCEPT ![c] = o],
             o.at \in Locked => Holds(c) /\ o.vault = ops[c].vault /\ o.key = ops[c].key
                                /\ o.at # "rotate"
      PROVE  \A d \in Clients : Stays(d)
  BY <1>3 DEF Stays, Holds
<1>4. ASSUME NEW c \in Clients, NEW o, ops' = [ops EXCEPT ![c] = o],
             o.vault \in Vaults, wrapped[o.vault] # None, o.key = wrapped[o.vault],
             UNCHANGED <<stored, root>>, CanEnter(c, o.vault),
             RotationAlone /\ o.at = "rotate" => Using(o.vault) = {},
             o.at = "rotate" => o.fresh \notin drawn /\ o.fresh \in drawn'
      PROVE  Enter(c)
  BY <1>4 DEF Enter, Enters, CanEnter
<1>5. ASSUME NEW c \in Clients, Begin(c) PROVE OneMoves
  <2>1. ASSUME NEW v \in Vaults, NEW n \in Names, NEW x \in Values, BeginPut(c, v, n, x)
        PROVE  Enter(c)
    <3> DEFINE o == [Idle EXCEPT !.at = "put", !.vault = v, !.name = n,
                                 !.key = wrapped[v], !.value = x]
    <3>1. o.at = "put" /\ o.vault = v /\ o.key = wrapped[v]
      BY DEF Idle
    <3>2. /\ ops' = [ops EXCEPT ![c] = o] /\ UNCHANGED <<stored, root>>
          /\ CanEnter(c, v) /\ wrapped[v] # None
      BY <2>1 DEF BeginPut
    <3> HIDE DEF o
    <3> QED BY <1>4, <3>1, <3>2
  <2>2. ASSUME NEW v \in Vaults, NEW n \in Names, ReadMeta(c, v, n)
        PROVE  \A d \in Clients : Stays(d)
    <3> DEFINE o == [Idle EXCEPT !.at = "meta", !.vault = v, !.name = n,
                                 !.row = secrets[v][n]]
    <3>1. o.at \notin Locked
      BY DEF Idle, Locked
    <3>2. ops' = [ops EXCEPT ![c] = o]
      BY <2>2 DEF ReadMeta
    <3> HIDE DEF o
    <3> QED BY <1>3, <3>1, <3>2
  <2>3. ASSUME NEW v \in Vaults, NEW n \in Names, NEW i \in Versions,
               BeginRevert(c, v, n, i)
        PROVE  Enter(c)
    <3> DEFINE o == [Idle EXCEPT !.at = "revert", !.vault = v, !.name = n,
                                 !.key = wrapped[v], !.version = i]
    <3>1. o.at = "revert" /\ o.vault = v /\ o.key = wrapped[v]
      BY DEF Idle
    <3>2. /\ ops' = [ops EXCEPT ![c] = o] /\ UNCHANGED <<stored, root>>
          /\ CanEnter(c, v) /\ wrapped[v] # None
      BY <2>3 DEF BeginRevert
    <3> HIDE DEF o
    <3> QED BY <1>4, <3>1, <3>2
  <2>4. ASSUME NEW v \in Vaults, NEW k \in Keys, BeginRotate(c, v, k) PROVE Enter(c)
    <3> DEFINE o == [Idle EXCEPT !.at = "rotate", !.vault = v,
                                 !.key = wrapped[v], !.fresh = k]
    <3>1. o.vault = v /\ o.key = wrapped[v] /\ o.fresh = k
      BY DEF Idle
    <3>2. /\ ops' = [ops EXCEPT ![c] = o] /\ UNCHANGED <<stored, root>>
          /\ CanEnter(c, v) /\ wrapped[v] # None
          /\ RotationAlone => Using(v) = {}
          /\ k \notin drawn /\ k \in drawn'
      BY <2>4 DEF BeginRotate
    <3> HIDE DEF o
    <3> QED BY <1>4, <3>1, <3>2
  <2> QED BY <1>1, <1>5, <2>1, <2>2, <2>3, <2>4 DEF Begin, CreateVault
<1>6. ASSUME NEW c \in Clients, Progress(c) PROVE OneMoves
  <2>1. CASE BeginGet(c)
    <3> DEFINE o == [ops[c] EXCEPT !.at = "get", !.key = wrapped[ops[c].vault]]
    <3>1. o.at = "get" /\ o.vault = ops[c].vault /\ o.key = wrapped[ops[c].vault]
      BY DEF Op
    <3>2. /\ ops' = [ops EXCEPT ![c] = o] /\ UNCHANGED <<stored, root>> /\ ops[c].vault \in Vaults
          /\ CanEnter(c, ops[c].vault) /\ wrapped[ops[c].vault] # None
      BY <2>1 DEF BeginGet, StagesOK, StageOK
    <3> HIDE DEF o
    <3> QED BY <1>4, <3>1, <3>2
  <2>2. CASE GetSecret(c)
    <3> DEFINE now == secrets[ops[c].vault][ops[c].name]
               b == versions[now.id][now.current]
               x == IF OpenSecret(ops[c].key, ops[c].vault, ops[c].name, now.current, b)
                    THEN b.value ELSE None
               o == [ops[c] EXCEPT !.at = "answered", !.version = now.current, !.value = x]
    <3>1. ops' = [ops EXCEPT ![c] = o]
      BY <2>2 DEF GetSecret
    <3> HIDE DEF now, x
    <3>2. o.at \notin Locked
      BY DEF Op, Locked
    <3> HIDE DEF o
    <3> QED BY <1>3, <3>1, <3>2
  <2>3. CASE RevertMeta(c)
    <3> DEFINE o == [ops[c] EXCEPT !.at = "open",
                                   !.row = secrets[ops[c].vault][ops[c].name]]
    <3>1. o.at = "open" /\ o.vault = ops[c].vault /\ o.key = ops[c].key
      BY DEF Op
    <3>2. ops' = [ops EXCEPT ![c] = o] /\ Holds(c)
      BY <2>3 DEF RevertMeta, Holds, Locked
    <3> HIDE DEF o
    <3> QED BY <1>3, <3>1, <3>2
  <2>4. CASE RevertOpen(c)
    <3> DEFINE o == [ops[c] EXCEPT !.at = "restore",
                       !.value = versions[ops[c].row.id][ops[c].version].value]
    <3>1. o.at = "restore" /\ o.vault = ops[c].vault /\ o.key = ops[c].key
      BY DEF Op
    <3>2. ops' = [ops EXCEPT ![c] = o] /\ Holds(c)
      BY <2>4 DEF RevertOpen, Holds, Locked
    <3> HIDE DEF o
    <3> QED BY <1>3, <3>1, <3>2
  <2> QED
    BY <1>2, <1>6, <2>1, <2>2, <2>3, <2>4
    DEF Progress, Write, WriteVersion, Reply, RotateVaultBlobs, Fail, Finish
<1>7. ASSUME NEW p \in Procs, Crash(p) PROVE \A d \in Clients : Stays(d)
  <2>1. Idle.at \notin Locked
    BY DEF Idle, Locked
  <2> QED BY <1>7, <2>1 DEF Crash, Stays, Holds
<1> QED
  BY <1>1, <1>5, <1>6, <1>7
  DEF Next, vars, DeleteProject, DeleteSecret, Unseal, BeginSeal, Seal

THEOREM RootUsersStep ==
  ASSUME TypeInv, RootOutlivesItsUsers, [Next]_vars
  PROVE  RootOutlivesItsUsers'
<1> SUFFICES ASSUME NEW d \in Clients, Holds(d)' PROVE root'[Home[d]] # "absent"
  BY DEF RootOutlivesItsUsers
<1>0. Home[d] \in Procs /\ root \in [Procs -> Root]
  BY HomeAssumption DEF TypeInv, TypeOK
<1>1. CASE ~Holds(d)
  <2>1. ~Stays(d)
    BY <1>1 DEF Stays
  <2>2. PICK c \in Clients : Enter(c)
    BY <2>1, WhoHolds
  <2>3. c = d
    BY <1>1, <2>2 DEF Enter, Holds
  <2> QED BY <2>2, <2>3 DEF Enter, Enters, RootHeld
<1>2. CASE Holds(d)
  <2>1. root[Home[d]] # "absent"
    BY <1>2 DEF RootOutlivesItsUsers
  <2>2. ASSUME NEW p \in Procs, Unseal(p) \/ BeginSeal(p) \/ Seal(p)
        PROVE  root'[Home[d]] # "absent"
    BY <1>0, <1>2, <2>1, <2>2 DEF Unseal, BeginSeal, Seal
  <2>3. ASSUME NEW p \in Procs, Crash(p) PROVE root'[Home[d]] # "absent"
    <3>1. Home[d] # p
      BY <2>3 DEF Crash, Holds, Idle, Locked
    <3> QED BY <1>0, <2>1, <2>3, <3>1 DEF Crash
  <2>4. ASSUME NEW c \in Clients, Begin(c) \/ Progress(c) PROVE UNCHANGED root
    BY <2>4 DEF Begin, CreateVault, BeginPut, ReadMeta, BeginRevert, BeginRotate, Progress,
                Write, WriteVersion, BeginGet, GetSecret, Reply, RevertMeta, RevertOpen,
                RotateVaultBlobs, Fail
  <2> QED
    BY <2>1, <2>2, <2>3, <2>4 DEF Next, vars, DeleteProject, DeleteSecret
<1> QED BY <1>1, <1>2

(***************************************************************************)
(* Whoever works with keys runs in a process that still holds the root     *)
(* key: Seal waits for them, and a crash takes them along.                 *)
(***************************************************************************)
THEOREM RootIsThere == Spec => []RootOutlivesItsUsers
<1>1. Init => RootOutlivesItsUsers
  BY DEF Init, RootOutlivesItsUsers, Holds, Idle, Locked
<1>2. TypeInv /\ RootOutlivesItsUsers /\ [Next]_vars => RootOutlivesItsUsers'
  BY RootUsersStep
<1> QED
  BY <1>1, <1>2, TypeInvInit, TypeInvStep, PTL DEF Spec

\* What has been drawn stays drawn.
LEMMA DrawnGrows == [Next]_vars => drawn \subseteq drawn'
<1>1. [Next]_vars => drawn \subseteq drawn'
  <2>1. ASSUME NEW c \in Clients, Begin(c) PROVE drawn \subseteq drawn'
    BY <2>1 DEF Begin, CreateVault, BeginPut, ReadMeta, BeginRevert, BeginRotate
  <2>2. ASSUME NEW c \in Clients, Progress(c) PROVE drawn \subseteq drawn'
    BY <2>2 DEF Progress, Write, WriteVersion, BeginGet, GetSecret, Reply, RevertMeta,
                RevertOpen, RotateVaultBlobs, Fail
  <2> QED
    BY <2>1, <2>2 DEF Next, vars, DeleteProject, DeleteSecret, Unseal, BeginSeal, Seal, Crash
<1> QED BY <1>1

LEMMA HoldersStep ==
  ASSUME TypeInv, RowInv, HoldersAreCurrent, RotatesAlone, RotationAlone, [Next]_vars
  PROVE  HoldersAreCurrent' /\ RotatesAlone'
<1>1. ASSUME NEW c \in Clients, Enter(c) PROVE HoldersAreCurrent' /\ RotatesAlone'
  <2>1. UNCHANGED stored /\ drawn \subseteq drawn'
    <3>1. UNCHANGED stored
      BY <1>1 DEF Enter, Enters
    <3> QED BY <3>1, DrawnGrows
  <2>2. HoldersAreCurrent'
    BY <1>1, <2>1 DEF Enter, Enters, stored, HoldersAreCurrent, Holds, RowInv, DrawnCovers
  <2>3. ASSUME NEW a \in Clients, NEW d \in Clients, ops'[a].at = "rotate", Holds(d)',
               a # d
        PROVE  ops'[a].vault # ops'[d].vault
    <3>1. CASE a = c
      BY <1>1, <2>3, <3>1 DEF Enter, Enters, Holds, Using
    <3>2. CASE d = c
      BY <1>1, <2>3, <3>2 DEF Enter, Enters, Rotating
    <3>3. CASE a # c /\ d # c
      BY <1>1, <2>3, <3>3 DEF Enter, RotatesAlone, Holds
    <3> QED BY <3>1, <3>2, <3>3
  <2> QED BY <2>2, <2>3 DEF RotatesAlone
<1>2. ASSUME \A d \in Clients : Stays(d) PROVE HoldersAreCurrent' /\ RotatesAlone'
  <2>1. RotatesAlone'
    <3>1. "rotate" \in Locked
      BY DEF Locked
    <3> QED BY <1>2, <3>1 DEF Stays, RotatesAlone, Holds
  <2>2. ASSUME NEW d \in Clients, Holds(d)'
        PROVE  wrapped'[ops'[d].vault] \in {None, ops'[d].key} /\ ops'[d].vault \in drawn'
    <3> DEFINE v == ops[d].vault
    <3>1. /\ Holds(d) /\ ops'[d].vault = v /\ ops'[d].key = ops[d].key
          /\ wrapped[v] \in {None, ops[d].key} /\ v \in drawn /\ v \in Vaults
      BY <1>2, <2>2 DEF Stays, HoldersAreCurrent, TypeInv, StagesOK, StageOK, Holds, Locked
    <3>2. drawn \subseteq drawn'
      BY DrawnGrows
    <3>3. wrapped'[v] \in {None, wrapped[v]}
      <4>1. ASSUME NEW c \in Clients, RotateVaultBlobs(c) PROVE ops[c].vault # v
        <5>1. ops'[c] = Idle /\ ops[c].at = "rotate"
          BY <4>1 DEF RotateVaultBlobs, Finish, TypeInv, TypeOK
        <5>2. c # d
          BY <2>2, <5>1 DEF Holds, Idle, Locked
        <5> QED BY <3>1, <5>1, <5>2 DEF RotatesAlone
      <4>2. ASSUME NEW c \in Clients, RotateVaultBlobs(c) PROVE wrapped'[v] = wrapped[v]
        BY <3>1, <4>1, <4>2 DEF RotateVaultBlobs, TypeInv, TypeOK
      <4>3. ASSUME NEW c \in Clients, NEW w \in Vaults, NEW k \in Keys, CreateVault(c, w, k)
            PROVE  wrapped'[v] = wrapped[v]
        BY <3>1, <4>3 DEF CreateVault, TypeInv, TypeOK
      <4>4. ASSUME NEW w \in Vaults, DeleteProject(w) PROVE wrapped'[v] \in {None, wrapped[v]}
        BY <3>1, <4>4 DEF DeleteProject, TypeInv, TypeOK
      <4> QED
        BY <4>2, <4>3, <4>4, QuietSteps DEF stored, DeleteSecret, WriteVersion
    <3> QED BY <3>1, <3>2, <3>3
  <2>3. HoldersAreCurrent'
    BY <2>2 DEF HoldersAreCurrent, Holds
  <2> QED BY <2>1, <2>3
<1> QED BY <1>1, <1>2, WhoHolds

LEMMA EveryVersionStep ==
  ASSUME TypeInv, RowInv, HoldersAreCurrent, EveryVersionReadable, [Next]_vars
  PROVE  EveryVersionReadable'
<1> SUFFICES ASSUME NEW v \in Vaults, NEW n \in Names, NEW i \in Versions, Stored(v, n, i)'
             PROVE  Readable(v, n, i)'
  BY DEF EveryVersionReadable
<1>1. CASE Stored(v, n, i)
  <2>1. Kept(v, n, i)
    BY <1>1, ReadableIsKept DEF EveryVersionReadable
  <2> QED
    BY <2>1 DEF Kept, Stored, Alive
<1>2. CASE ~Stored(v, n, i)
  <2>1. ASSUME NEW c \in Clients, NEW id \in Ids, WriteVersion(c, id) PROVE Readable(v, n, i)'
    <3>1. PICK w \in Vaults, m \in Names, j \in Versions : WritesAt(c, id, w, m, j)
      BY <2>1, WriteFacts
    <3> DEFINE new == [id |-> id, current |-> j]
               blob == SealSecret(ops[c].key, w, m, j, ops[c].value)
    <3>2. /\ secrets' = [secrets EXCEPT ![w][m] = new] /\ UNCHANGED wrapped
          /\ versions' = [versions EXCEPT ![id][j] = blob] /\ wrapped[w] # None
          /\ \A q \in Versions : versions[id][q] # None <=> q < j
          /\ Alive(w, m) => secrets[w][m].id = id
      BY <3>1 DEF WritesAt
    <3>3. new.id = id /\ blob.value = ops[c].value
      BY DEF SealSecret
    <3>4. ops[c].key = wrapped[w]
      <4>1. ops[c].vault = w
        BY <3>1 DEF WritesAt
      <4>2. Holds(c)
        BY <2>1 DEF WriteVersion, Holds, Locked
      <4> QED BY <3>2, <4>1, <4>2 DEF HoldersAreCurrent
    <3> HIDE DEF new
    <3>5. CASE v = w /\ n = m
      <4>1. secrets'[v][n] = new
        BY <3>2, <3>5 DEF TypeInv, TypeOK
      <4>2. i = j
        <5>1. CASE Alive(v, n)
          BY <1>2, <3>2, <3>3, <3>5, <4>1, <5>1 DEF TypeInv, TypeOK, Stored, Alive, BlobOf
        <5>2. CASE ~Alive(v, n)
          <6>1. \A q \in Versions : versions[id][q] = None
            BY <2>1, <3>1, <3>5, <5>2
            DEF WriteVersion, WritesAt, RowInv, DrawnCovers, HistoryHasNoHole, NoOrphan, Alive
          <6> HIDE DEF blob
          <6> QED
            BY <3>2, <3>3, <4>1, <6>1 DEF TypeInv, TypeOK, Stored, Alive, BlobOf
        <5> QED BY <5>1, <5>2
      <4>3. BlobOf(v, n, i)' = blob
        BY <3>2, <3>3, <4>1, <4>2 DEF BlobOf, TypeInv, TypeOK
      <4>4. blob = SealSecret(wrapped'[v], v, n, i, blob.value)
        BY <3>2, <3>3, <3>4, <3>5, <4>2
      <4> QED
        BY <3>2, <3>5, <4>3, <4>4 DEF Readable, OpenSecret
    <3>6. CASE ~(v = w /\ n = m)
      <4>1. secrets'[v][n] = secrets[v][n]
        BY <3>2, <3>6 DEF TypeInv, TypeOK
      <4>2. Alive(v, n) /\ secrets[v][n].id # id /\ secrets[v][n].id \in Ids
        BY <4>1, <3>1, <3>6 DEF Stored, Alive, WritesAt, TypeInv, TypeOK, Row
      <4>3. BlobOf(v, n, i)' = BlobOf(v, n, i)
        BY <3>2, <4>1, <4>2 DEF BlobOf, TypeInv, TypeOK
      <4> QED BY <1>2, <4>2, <4>3 DEF Stored
    <3> QED BY <3>5, <3>6
  <2>2. ASSUME NEW c \in Clients, RotateVaultBlobs(c) PROVE FALSE
    <3>1. ops[c].vault \in Vaults /\ ops[c].fresh \in Keys
      BY <2>2 DEF RotateVaultBlobs, TypeInv, StagesOK, StageOK
    <3>2. versions' = Reseal(ops[c].vault, ops[c].fresh) /\ UNCHANGED secrets
      BY <2>2 DEF RotateVaultBlobs
    <3>3. Alive(v, n) /\ secrets[v][n].id \in Ids
      BY <3>2 DEF Stored, Alive, TypeInv, TypeOK, Row
    <3> QED
      BY <1>2, <3>1, <3>2, <3>3, ResealKeepsPlaces DEF Stored, Alive, BlobOf
  <2>3. ASSUME NEW w \in Vaults, DeleteProject(w) PROVE FALSE
    <3>1. v # w /\ secrets'[v][n] = secrets[v][n] /\ Alive(v, n)
      BY <2>3 DEF DeleteProject, TypeInv, TypeOK, Stored, Alive
    <3>2. secrets[v][n].id \in Ids
      BY <3>1 DEF Alive, TypeInv, TypeOK, Row
    <3>3. versions'[secrets[v][n].id][i] \in {None, versions[secrets[v][n].id][i]}
      BY <2>3, <3>2 DEF DeleteProject, NoHistory
    <3> QED BY <1>2, <3>1, <3>3 DEF Stored, BlobOf
  <2>4. ASSUME NEW w \in Vaults, NEW m \in Names, DeleteSecret(w, m) PROVE FALSE
    <3>1. secrets'[v][n] = secrets[v][n] /\ Alive(v, n)
      BY <2>4 DEF DeleteSecret, TypeInv, TypeOK, Stored, Alive
    <3>2. secrets[v][n].id \in Ids
      BY <3>1 DEF Alive, TypeInv, TypeOK, Row
    <3>3. versions'[secrets[v][n].id][i] \in {None, versions[secrets[v][n].id][i]}
      BY <2>4, <3>2 DEF DeleteSecret, NoHistory, TypeInv, TypeOK
    <3> QED BY <1>2, <3>1, <3>3 DEF Stored, BlobOf
  <2> QED
    BY <1>2, <2>1, <2>2, <2>3, <2>4, QuietSteps DEF stored, CreateVault, Stored, Alive, BlobOf
<1> QED BY <1>1, <1>2

\* A read in flight holds the key of its vault, and what it finds opens under it.
LEMMA AnswersStep ==
  ASSUME TypeInv, RowInv, HoldersAreCurrent, EveryVersionReadable, RotationIsInvisible,
         [Next]_vars
  PROVE  RotationIsInvisible'
<1> SUFFICES ASSUME NEW c \in Clients, ops'[c].at = "answered" PROVE ops'[c].value # None
  BY DEF RotationIsInvisible
<1>1. CASE ops'[c] = ops[c]
  BY <1>1 DEF RotationIsInvisible
<1>2. CASE GetSecret(c)
  <2> DEFINE now == secrets[ops[c].vault][ops[c].name]
             b == versions[now.id][now.current]
             x == IF OpenSecret(ops[c].key, ops[c].vault, ops[c].name, now.current, b)
                  THEN b.value ELSE None
  <2>1. ops'[c].value = x
    BY <1>2 DEF GetSecret, TypeInv, TypeOK, Op
  <2>2. ops[c].vault \in Vaults /\ ops[c].name \in Names /\ Holds(c) /\ now # None /\ b # None
    BY <1>2 DEF GetSecret, TypeInv, StagesOK, StageOK, Holds, Locked
  <2>3. now \in Row
    BY <2>2 DEF TypeInv, TypeOK
  <2>4. Readable(ops[c].vault, ops[c].name, now.current)
    BY <2>2, <2>3 DEF EveryVersionReadable, Stored, Alive, BlobOf, Row
  <2>5. ops[c].key = wrapped[ops[c].vault]
    BY <2>2, <2>4 DEF HoldersAreCurrent, Readable
  <2>6. x = b.value
    BY <2>4, <2>5 DEF Readable, BlobOf
  <2>7. b \in Blob
    <3>1. now.id \in Ids /\ now.current \in Versions
      BY <2>3 DEF Row
    <3> HIDE DEF now
    <3> QED BY <2>2, <3>1 DEF TypeInv, TypeOK
  <2>8. b.value # None
    <3> HIDE DEF b
    <3> QED BY <2>7, NoneAssumption DEF Blob
  <2> QED BY <2>1, <2>6, <2>8
<1>3. ASSUME ops'[c] # ops[c], ~GetSecret(c) PROVE FALSE
  <2> USE <1>3 DEF TypeInv, TypeOK
  <2>1. Idle.at # "answered"
    BY DEF Idle
  <2>2. ASSUME NEW d \in Clients, Begin(d) PROVE FALSE
    <3>1. ASSUME NEW v \in Vaults, NEW k \in Keys, CreateVault(d, v, k) PROVE FALSE
      BY <3>1 DEF CreateVault
    <3>2. ASSUME NEW v \in Vaults, NEW n \in Names, NEW x \in Values, BeginPut(d, v, n, x)
          PROVE  FALSE
      BY <3>2 DEF BeginPut, Idle
    <3>3. ASSUME NEW v \in Vaults, NEW n \in Names, ReadMeta(d, v, n) PROVE FALSE
      BY <3>3 DEF ReadMeta, Idle
    <3>4. ASSUME NEW v \in Vaults, NEW n \in Names, NEW i \in Versions,
                 BeginRevert(d, v, n, i)
          PROVE  FALSE
      BY <3>4 DEF BeginRevert, Idle
    <3>5. ASSUME NEW v \in Vaults, NEW k \in Keys, BeginRotate(d, v, k) PROVE FALSE
      BY <3>5 DEF BeginRotate, Idle
    <3> QED BY <2>2, <3>1, <3>2, <3>3, <3>4, <3>5 DEF Begin
  <2>3. ASSUME NEW d \in Clients, Progress(d) PROVE FALSE
    <3>1. ASSUME ops' = [ops EXCEPT ![d] = Idle] PROVE FALSE
      BY <2>1, <3>1
    <3>2. ASSUME GetSecret(d) PROVE FALSE
      BY <3>2 DEF GetSecret
    <3>3. ASSUME BeginGet(d) \/ RevertMeta(d) \/ RevertOpen(d) PROVE FALSE
      BY <3>3 DEF BeginGet, RevertMeta, RevertOpen, Op
    <3> QED
      BY <2>3, <3>1, <3>2, <3>3
      DEF Progress, Write, WriteVersion, Reply, RotateVaultBlobs, Fail, Finish
  <2>4. ASSUME NEW p \in Procs, Crash(p) PROVE FALSE
    BY <2>1, <2>4 DEF Crash
  <2> QED
    BY <2>2, <2>3, <2>4
    DEF Next, vars, DeleteProject, DeleteSecret, Unseal, BeginSeal, Seal
<1> QED BY <1>1, <1>2, <1>3

THEOREM KeyInvStep ==
  ASSUME RotationAlone, TypeInv, RowInv, KeyInv, [Next]_vars
  PROVE  KeyInv'
BY HoldersStep, EveryVersionStep, AnswersStep DEF KeyInv

THEOREM KeyInvInit == Init => KeyInv
BY DEF Init, KeyInv, HoldersAreCurrent, RotatesAlone, EveryVersionReadable,
       RotationIsInvisible, Holds, Locked, Idle, Stored, Alive

(***************************************************************************)
(* As long as a vault is rotated while nothing else uses it, every version *)
(* of every secret opens under the key the vault advertises, and every     *)
(* read that finds a secret decrypts it.                                   *)
(***************************************************************************)
THEOREM RotatedAloneAllIsReadable ==
  ASSUME RotationAlone
  PROVE  Spec => [](EveryVersionReadable /\ RotationIsInvisible)
<1>1. Init => TypeInv /\ RowInv /\ KeyInv
  BY TypeInvInit, RowInvInit, KeyInvInit
<1>2. TypeInv /\ RowInv /\ KeyInv /\ [Next]_vars => (TypeInv /\ RowInv /\ KeyInv)'
  BY TypeInvStep, RowInvStep, KeyInvStep
<1>3. KeyInv => EveryVersionReadable /\ RotationIsInvisible
  BY DEF KeyInv
<1> QED
  BY <1>1, <1>2, <1>3, PTL DEF Spec

(***************************************************************************)
(* Under that discipline no request sees the Seal or the rotation that     *)
(* runs beside it, and nothing it has yet to read is lost.                 *)
(***************************************************************************)
THEOREM RequestsAreServed ==
  ASSUME RotationAlone
  PROVE  Spec => []ReadersAreServed
<1>1. RootOutlivesItsUsers /\ RotationIsInvisible /\ EveryVersionReadable => ReadersAreServed
  BY DEF ReadersAreServed
<1> QED
  BY <1>1, RootIsThere, RotatedAloneAllIsReadable, PTL

--------------------------------------------------------------------------------
(***************************************************************************)
(* Every version is sealed for its place, under a key of its vault.  The   *)
(* invariant that carries it: a key is of one vault only, whether a vault  *)
(* advertises it, a ciphertext is under it, or an operation holds it.      *)
(***************************************************************************)
ForItsPlace ==
  \A v \in Vaults, n \in Names, i \in Versions : Stored(v, n, i) =>
    BlobOf(v, n, i).vault = v /\ BlobOf(v, n, i).name = n /\ BlobOf(v, n, i).version = i

Advertises(k, v) == wrapped[v] = k

Under(k, v) ==
  \E id \in Ids, i \in Versions :
    versions[id][i] # None /\ versions[id][i].key = k /\ versions[id][i].vault = v

InHand(k, v) ==
  \E c \in Clients : /\ Holds(c) /\ ops[c].vault = v
                     /\ ops[c].key = k \/ (ops[c].at = "rotate" /\ ops[c].fresh = k)

KeyOf(k, v) == Advertises(k, v) \/ Under(k, v) \/ InHand(k, v)

KeysApart ==
  \A k \in Keys, v \in Vaults : KeyOf(k, v) =>
    k \in drawn /\ \A w \in Vaults : KeyOf(k, w) => v = w

PlaceInv == ForItsPlace /\ KeysApart

\* A version that a step leaves in the same row stays in its place.
LEMMA PlaceStays ==
  ASSUME TypeInv, RowInv, ForItsPlace, [Next]_vars,
         NEW v \in Vaults, NEW n \in Names, NEW i \in Versions, Stored(v, n, i),
         Stored(v, n, i)', secrets'[v][n].id = secrets[v][n].id
  PROVE  LET b == BlobOf(v, n, i)' IN b.vault = v /\ b.name = n /\ b.version = i
<1> DEFINE b == BlobOf(v, n, i)
           k == BlobOf(v, n, i)'.key
<1>1. secrets[v][n].id \in Ids
  BY DEF Stored, Alive, TypeInv, TypeOK, Row
<1>2. BlobOf(v, n, i)' = [b EXCEPT !.key = k]
  BY <1>1, VersionStep DEF Stored, BlobOf
<1>3. b \in Blob
  BY <1>1 DEF Stored, BlobOf, TypeInv, TypeOK
<1>4. b.vault = v /\ b.name = n /\ b.version = i
  BY DEF ForItsPlace
<1> HIDE DEF b, k
<1> QED BY <1>2, <1>3, <1>4 DEF Blob

LEMMA ForItsPlaceStep ==
  ASSUME TypeInv, RowInv, ForItsPlace, [Next]_vars
  PROVE  ForItsPlace'
<1> SUFFICES ASSUME NEW v \in Vaults, NEW n \in Names, NEW i \in Versions, Stored(v, n, i)'
             PROVE  LET b == BlobOf(v, n, i)' IN b.vault = v /\ b.name = n /\ b.version = i
  BY DEF ForItsPlace
<1> DEFINE goal == LET b == BlobOf(v, n, i)' IN b.vault = v /\ b.name = n /\ b.version = i
           id == secrets[v][n].id
<1>1. ASSUME Stored(v, n, i), secrets'[v][n] = secrets[v][n] PROVE goal
  BY <1>1, PlaceStays
<1>2. ASSUME NEW c \in Clients, NEW j \in Ids, WriteVersion(c, j) PROVE goal
  <2>1. PICK w \in Vaults, m \in Names, q \in Versions : WritesAt(c, j, w, m, q)
    BY <1>2, WriteFacts
  <2> DEFINE row == [id |-> j, current |-> q]
             new == SealSecret(ops[c].key, w, m, q, ops[c].value)
  <2>2. /\ secrets' = [secrets EXCEPT ![w][m] = row]
        /\ versions' = [versions EXCEPT ![j][q] = new]
        /\ \A x \in Vaults, y \in Names : Alive(x, y) /\ secrets[x][y].id = j => x = w /\ y = m
        /\ Alive(w, m) => secrets[w][m].id = j
    BY <2>1 DEF WritesAt
  <2>3. row.id = j /\ new.vault = w /\ new.name = m /\ new.version = q
    BY DEF SealSecret
  <2> HIDE DEF row, new
  <2>4. CASE v = w /\ n = m
    <3>1. secrets'[v][n].id = j
      BY <2>2, <2>3, <2>4 DEF TypeInv, TypeOK
    <3>2. CASE i = q
      <4>1. BlobOf(v, n, i)' = new
        BY <2>2, <3>1, <3>2 DEF BlobOf, TypeInv, TypeOK
      <4> QED BY <2>3, <2>4, <3>2, <4>1
    <3>3. CASE i # q
      <4>1. versions[j][i] # None
        BY <2>2, <3>1, <3>3 DEF Stored, BlobOf, TypeInv, TypeOK
      <4>2. Alive(w, m)
        BY <2>2, <4>1 DEF RowInv, HistoryHasNoHole, NoOrphan
      <4>3. Stored(v, n, i) /\ secrets[v][n].id = j
        BY <2>2, <2>4, <4>1, <4>2 DEF Stored, BlobOf
      <4> QED BY <3>1, <4>3, PlaceStays
    <3> QED BY <3>2, <3>3
  <2>5. CASE ~(v = w /\ n = m)
    <3>1. secrets'[v][n] = secrets[v][n]
      BY <2>2, <2>5 DEF TypeInv, TypeOK
    <3>2. Alive(v, n) /\ id # j
      BY <2>2, <2>5, <3>1 DEF Stored, Alive
    <3>3. BlobOf(v, n, i)' = BlobOf(v, n, i)
      BY <2>2, <3>1, <3>2 DEF BlobOf, TypeInv, TypeOK
    <3> QED BY <1>1, <3>1, <3>2, <3>3 DEF Stored
  <2> QED BY <2>4, <2>5
<1>3. ASSUME NEW c \in Clients, RotateVaultBlobs(c) PROVE goal
  <2>1. /\ versions' = Reseal(ops[c].vault, ops[c].fresh) /\ UNCHANGED secrets
        /\ ops[c].vault \in Vaults /\ ops[c].fresh \in Keys
    BY <1>3 DEF RotateVaultBlobs, TypeInv, StagesOK, StageOK
  <2>2. Alive(v, n) /\ id \in Ids
    BY <2>1 DEF Stored, Alive, TypeInv, TypeOK, Row
  <2>3. Stored(v, n, i)
    BY <2>1, <2>2, ResealKeepsPlaces DEF Stored, BlobOf
  <2> QED BY <1>1, <2>1, <2>3
<1>4. ASSUME NEW w \in Vaults, DeleteProject(w) PROVE goal
  <2>1. secrets'[v][n] = secrets[v][n] /\ Alive(v, n)
    BY <1>4 DEF DeleteProject, TypeInv, TypeOK, Stored, Alive
  <2>2. id \in Ids
    BY <2>1 DEF Alive, TypeInv, TypeOK, Row
  <2>3. versions'[id][i] \in {None, versions[id][i]}
    BY <1>4, <2>2 DEF DeleteProject, NoHistory
  <2> QED BY <1>1, <2>1, <2>3 DEF Stored, BlobOf
<1>5. ASSUME NEW w \in Vaults, NEW m \in Names, DeleteSecret(w, m) PROVE goal
  <2>1. secrets'[v][n] = secrets[v][n] /\ Alive(v, n)
    BY <1>5 DEF DeleteSecret, TypeInv, TypeOK, Stored, Alive
  <2>2. id \in Ids
    BY <2>1 DEF Alive, TypeInv, TypeOK, Row
  <2>3. versions'[id][i] \in {None, versions[id][i]}
    BY <1>5, <2>2 DEF DeleteSecret, NoHistory, TypeInv, TypeOK
  <2> QED BY <1>1, <2>1, <2>3 DEF Stored, BlobOf
<1>6. ASSUME UNCHANGED <<secrets, versions>> PROVE goal
  BY <1>1, <1>6 DEF Stored, Alive, BlobOf
<1> QED
  BY <1>2, <1>3, <1>4, <1>5, <1>6, QuietSteps DEF stored, CreateVault

\* A step gives a vault no key it had not, save one drawn in that very step.
LEMMA KeysStep ==
  ASSUME TypeInv, RowInv, ForItsPlace, [Next]_vars
  PROVE  \E k0 \in Keys \cup {None}, v0 \in Vaults \cup {None} :
           /\ k0 # None => k0 \notin drawn /\ k0 \in drawn'
           /\ \A k \in Keys, v \in Vaults : KeyOf(k, v)' => KeyOf(k, v) \/ (k = k0 /\ v = v0)
<1> DEFINE Drawn(k0, v0) ==
      /\ k0 # None => k0 \notin drawn /\ k0 \in drawn'
      /\ \A k \in Keys, v \in Vaults : KeyOf(k, v)' => KeyOf(k, v) \/ (k = k0 /\ v = v0)
<1>1. ASSUME NEW c \in Clients, Enter(c)
      PROVE  \E k0 \in Keys \cup {None}, v0 \in Vaults \cup {None} : Drawn(k0, v0)
  <2> DEFINE o == ops'[c]
  <2>1. /\ UNCHANGED stored /\ o.vault \in Vaults /\ o.key = wrapped[o.vault]
        /\ o.at = "rotate" => o.fresh \notin drawn /\ o.fresh \in drawn'
        /\ \A d \in Clients \ {c} : ops'[d] = ops[d]
    BY <1>1 DEF Enter, Enters
  <2>2. o \in Op
    BY TypeInvStep DEF TypeInv, TypeOK
  <2>3. \A k \in Keys, v \in Vaults : InHand(k, v)' =>
          \/ InHand(k, v) \/ Advertises(k, v)
          \/ o.at = "rotate" /\ k = o.fresh /\ v = o.vault
    BY <2>1 DEF InHand, Advertises, Holds
  <2>4. \A k \in Keys, v \in Vaults :
          (Advertises(k, v)' => Advertises(k, v)) /\ (Under(k, v)' => Under(k, v))
    BY <2>1 DEF stored, Advertises, Under
  <2>5. CASE o.at = "rotate" /\ o.fresh # None
    <3>1. o.fresh \in Keys
      BY <2>2, <2>5 DEF Op
    <3>2. Drawn(o.fresh, o.vault)
      BY <2>1, <2>3, <2>4, <2>5 DEF KeyOf
    <3> QED BY <2>1, <3>1, <3>2
  <2>6. CASE ~(o.at = "rotate" /\ o.fresh # None)
    <3>1. Drawn(None, None)
      BY <2>3, <2>4, <2>6, NoneAssumption DEF KeyOf
    <3> QED BY <3>1
  <2> QED BY <2>5, <2>6
<1>2. ASSUME \A d \in Clients : Stays(d)
      PROVE  \E k0 \in Keys \cup {None}, v0 \in Vaults \cup {None} : Drawn(k0, v0)
  <2>1. ASSUME NEW k \in Keys, NEW v \in Vaults, InHand(k, v)' PROVE InHand(k, v)
    <3>1. PICK c \in Clients :
            /\ Holds(c)' /\ ops'[c].vault = v
            /\ ops'[c].key = k \/ (ops'[c].at = "rotate" /\ ops'[c].fresh = k)
      BY <2>1 DEF InHand
    <3>2. /\ Holds(c) /\ ops'[c].vault = ops[c].vault /\ ops'[c].key = ops[c].key
          /\ ops'[c].at = "rotate" => ops[c].at = "rotate" /\ ops'[c].fresh = ops[c].fresh
      BY <1>2, <3>1 DEF Stays
    <3> QED BY <3>1, <3>2 DEF InHand
  <2>2. ASSUME \A k \in Keys, v \in Vaults :
                 (Advertises(k, v)' \/ Under(k, v)' => KeyOf(k, v))
        PROVE  Drawn(None, None)
    BY <2>1, <2>2 DEF KeyOf
  <2>3. CASE UNCHANGED stored
    BY <2>2, <2>3 DEF stored, Advertises, Under, KeyOf
  <2>4. ASSUME NEW c \in Clients, NEW w \in Vaults, NEW k0 \in Keys, CreateVault(c, w, k0)
        PROVE  Drawn(k0, w)
    <3>1. /\ k0 \notin drawn /\ k0 \in drawn' /\ UNCHANGED versions
          /\ \A v \in Vaults : wrapped'[v] = IF v = w THEN k0 ELSE wrapped[v]
      BY <2>4 DEF CreateVault, TypeInv, TypeOK
    <3> QED BY <2>1, <3>1 DEF KeyOf, Advertises, Under
  <2>5. ASSUME NEW w \in Vaults, DeleteProject(w) PROVE Drawn(None, None)
    <3>1. /\ \A v \in Vaults : wrapped'[v] \in {None, wrapped[v]}
          /\ \A id \in Ids, i \in Versions : versions'[id][i] \in {None, versions[id][i]}
      BY <2>5 DEF DeleteProject, NoHistory, TypeInv, TypeOK
    <3> QED BY <2>2, <3>1, NoneAssumption DEF Advertises, Under, KeyOf
  <2>6. ASSUME NEW w \in Vaults, NEW m \in Names, DeleteSecret(w, m) PROVE Drawn(None, None)
    <3>1. /\ UNCHANGED wrapped
          /\ \A id \in Ids, i \in Versions : versions'[id][i] \in {None, versions[id][i]}
      BY <2>6 DEF DeleteSecret, NoHistory, TypeInv, TypeOK
    <3> QED BY <2>2, <3>1 DEF Advertises, Under, KeyOf
  <2>7. ASSUME NEW c \in Clients, NEW j \in Ids, WriteVersion(c, j) PROVE Drawn(None, None)
    <3>1. PICK w \in Vaults, m \in Names, q \in Versions : WritesAt(c, j, w, m, q)
      BY <2>7, WriteFacts
    <3> DEFINE new == SealSecret(ops[c].key, w, m, q, ops[c].value)
    <3>2. /\ versions' = [versions EXCEPT ![j][q] = new] /\ UNCHANGED wrapped
          /\ ops[c].vault = w
      BY <3>1 DEF WritesAt
    <3>3. new.key = ops[c].key /\ new.vault = w
      BY DEF SealSecret
    <3>4. Holds(c)
      BY <2>7 DEF WriteVersion, Holds, Locked
    <3> HIDE DEF new
    <3>5. \A id \in Ids, i \in Versions : versions'[id][i] \in {new, versions[id][i]}
      BY <3>2 DEF TypeInv, TypeOK
    <3>6. ASSUME NEW k \in Keys, NEW v \in Vaults, Under(k, v)'
          PROVE  Under(k, v) \/ InHand(k, v)
      <4>1. PICK id \in Ids, i \in Versions :
              versions'[id][i] # None /\ versions'[id][i].key = k /\ versions'[id][i].vault = v
        BY <3>6 DEF Under
      <4>2. CASE versions'[id][i] = versions[id][i]
        BY <4>1, <4>2 DEF Under
      <4>3. CASE versions'[id][i] = new
        BY <3>2, <3>3, <3>4, <4>1, <4>3 DEF InHand
      <4> QED BY <3>5, <4>2, <4>3
    <3> QED BY <2>2, <3>2, <3>6 DEF Advertises, KeyOf
  <2>8. ASSUME NEW c \in Clients, RotateVaultBlobs(c) PROVE Drawn(None, None)
    <3> DEFINE w == ops[c].vault
               f == ops[c].fresh
    <3>1. /\ w \in Vaults /\ f \in Keys /\ versions' = Reseal(w, f)
          /\ wrapped' = [wrapped EXCEPT ![w] = IF @ = None THEN None ELSE f]
          /\ Holds(c) /\ ops[c].at = "rotate"
      BY <2>8 DEF RotateVaultBlobs, TypeInv, StagesOK, StageOK, Holds, Locked
    <3>2. InHand(f, w)
      BY <3>1 DEF InHand
    <3>3. \A k \in Keys, v \in Vaults : Advertises(k, v)' => KeyOf(k, v)
      BY <3>1, <3>2, NoneAssumption DEF Advertises, KeyOf, TypeInv, TypeOK
    <3>4. ASSUME NEW k \in Keys, NEW v \in Vaults, Under(k, v)' PROVE KeyOf(k, v)
      <4>1. PICK id \in Ids, i \in Versions :
              versions'[id][i] # None /\ versions'[id][i].key = k /\ versions'[id][i].vault = v
        BY <3>4 DEF Under
      <4> DEFINE b == versions[id][i]
                 mine == \E n \in Names : Alive(w, n) /\ secrets[w][n].id = id
      <4>2. CASE ~mine
        <5>1. versions'[id][i] = b
          BY <3>1, <4>2, ResealKeepsPlaces
        <5> QED BY <4>1, <5>1 DEF KeyOf, Under
      <4>3. CASE mine
        <5>1. b # None
          BY <3>1, <4>1, ResealKeepsPlaces
        <5>2. versions'[id][i] = SealSecret(f, b.vault, b.name, b.version, b.value)
          BY <3>1, <4>3, <5>1, ResealKeepsPlaces
        <5>3. b.vault = w
          BY <3>1, <4>3, <5>1 DEF ForItsPlace, Stored, BlobOf
        <5>4. k = f /\ v = w
          BY <4>1, <5>2, <5>3 DEF SealSecret
        <5> QED BY <3>2, <5>4 DEF KeyOf
      <4> QED BY <4>2, <4>3
    <3> QED BY <2>2, <3>3, <3>4
  <2> HIDE DEF Drawn
  <2> QED BY <2>3, <2>4, <2>5, <2>6, <2>7, <2>8, QuietSteps
<1> QED BY <1>1, <1>2, WhoHolds

THEOREM PlaceInvStep ==
  ASSUME TypeInv, RowInv, PlaceInv, [Next]_vars
  PROVE  PlaceInv'
<1>1. ForItsPlace'
  BY ForItsPlaceStep DEF PlaceInv
<1>2. PICK k0 \in Keys \cup {None}, v0 \in Vaults \cup {None} :
        /\ k0 # None => k0 \notin drawn /\ k0 \in drawn'
        /\ \A k \in Keys, v \in Vaults : KeyOf(k, v)' => KeyOf(k, v) \/ (k = k0 /\ v = v0)
  BY KeysStep DEF PlaceInv
<1>3. ASSUME NEW k \in Keys, NEW v \in Vaults, KeyOf(k, v)'
      PROVE  k \in drawn' /\ \A w \in Vaults : KeyOf(k, w)' => v = w
  <2>1. k # None
    BY NoneAssumption
  <2>2. CASE KeyOf(k, v)
    BY <1>2, <2>1, <2>2, DrawnGrows DEF PlaceInv, KeysApart
  <2>3. CASE ~KeyOf(k, v)
    BY <1>2, <1>3, <2>1, <2>3 DEF PlaceInv, KeysApart
  <2> QED BY <2>2, <2>3
<1>4. KeysApart'
  BY <1>3 DEF KeysApart
<1> QED BY <1>1, <1>4 DEF PlaceInv

THEOREM PlaceInvInit == Init => PlaceInv
BY NoneAssumption
DEF Init, PlaceInv, ForItsPlace, KeysApart, KeyOf, Advertises, Under, InHand, Holds, Locked,
    Idle, Stored, Alive, NoHistory

(***************************************************************************)
(* Every stored version was sealed for the vault, the name and the number  *)
(* it is stored under, and a key never serves two vaults: whatever writes, *)
(* reverts and rotations overlap.                                          *)
(***************************************************************************)
THEOREM EverythingInPlace == Spec => []SealedInPlace
<1>1. TypeInv /\ PlaceInv => SealedInPlace
  <2> SUFFICES ASSUME TypeInv, PlaceInv, NEW v \in Vaults, NEW n \in Names,
                      NEW i \in Versions, Stored(v, n, i), NEW w \in Vaults \ {v},
                      wrapped[w] = BlobOf(v, n, i).key
               PROVE  FALSE
    BY DEF SealedInPlace, PlaceInv, ForItsPlace
  <2>1. secrets[v][n].id \in Ids /\ BlobOf(v, n, i) # None /\ BlobOf(v, n, i).vault = v
    BY DEF Stored, Alive, TypeInv, TypeOK, Row, PlaceInv, ForItsPlace
  <2>2. BlobOf(v, n, i) \in Blob
    BY <2>1 DEF BlobOf, TypeInv, TypeOK
  <2>3. BlobOf(v, n, i).key \in Keys
    BY <2>2 DEF Blob
  <2>4. KeyOf(BlobOf(v, n, i).key, v) /\ KeyOf(BlobOf(v, n, i).key, w)
    BY <2>1 DEF KeyOf, Under, Advertises, BlobOf
  <2> QED BY <2>3, <2>4 DEF PlaceInv, KeysApart
<1>2. Init => TypeInv /\ RowInv /\ PlaceInv
  BY TypeInvInit, RowInvInit, PlaceInvInit
<1>3. TypeInv /\ RowInv /\ PlaceInv /\ [Next]_vars => (TypeInv /\ RowInv /\ PlaceInv)'
  BY TypeInvStep, RowInvStep, PlaceInvStep
<1> QED
  BY <1>1, <1>2, <1>3, PTL DEF Spec

--------------------------------------------------------------------------------
(***************************************************************************)
(* The vaults keep what SecretHistory promises, as long as a vault is      *)
(* rotated alone.  Every version opens then, so that the history of a      *)
(* secret is the values of its versions; a write adds one at its end, a    *)
(* deletion forgets it whole, and every other step is a stutter.           *)
(***************************************************************************)
ValuesOf(v, n) == [i \in 1..secrets[v][n].current |-> BlobOf(v, n, i).value]

AllInv == TypeInv /\ RowInv /\ KeyInv

LEMMA AllInvStep ==
  ASSUME RotationAlone, AllInv, [Next]_vars
  PROVE  AllInv'
BY TypeInvStep, RowInvStep, KeyInvStep DEF AllInv

LEMMA AliveRows ==
  ASSUME TypeInv, NEW v \in Vaults, NEW n \in Names, Alive(v, n)
  PROVE  /\ secrets[v][n] \in Row /\ secrets[v][n].id \in Ids
         /\ secrets[v][n].current \in Versions /\ secrets[v][n].current \in Nat
         /\ 1..secrets[v][n].current \subseteq Versions
<1>1. secrets[v][n] \in Row
  BY DEF Alive, TypeInv, TypeOK
<1> QED
  BY <1>1, BoundAssumption DEF Row, Versions

LEMMA LivingOpen ==
  ASSUME AllInv, NEW v \in Vaults, NEW n \in Names, Alive(v, n),
         NEW i \in 1..secrets[v][n].current
  PROVE  i \in Versions /\ Readable(v, n, i)
<1>1. i \in Versions /\ i <= secrets[v][n].current
  BY AliveRows DEF AllInv
<1>2. BlobOf(v, n, i) # None
  BY <1>1 DEF AllInv, RowInv, HistoryHasNoHole, NoHole
<1> QED
  BY <1>1, <1>2 DEF AllInv, KeyInv, EveryVersionReadable, Stored

HistoryIsValues ==
  \A v \in Vaults, n \in Names :
    History[v][n] = IF Alive(v, n) THEN ValuesOf(v, n) ELSE <<>>

LEMMA HistoryOf == AllInv => HistoryIsValues
<1> SUFFICES ASSUME AllInv, NEW v \in Vaults, NEW n \in Names, Alive(v, n)
             PROVE  History[v][n] = ValuesOf(v, n)
  BY DEF HistoryIsValues, History
<1>1. History[v][n] = [i \in 1..secrets[v][n].current |->
           IF Readable(v, n, i) THEN BlobOf(v, n, i).value ELSE Lost]
  BY DEF History
<1> QED
  BY <1>1, LivingOpen DEF ValuesOf

\* The history of a secret whose row a step leaves alone.
LEMMA HistoryStays ==
  ASSUME RotationAlone, AllInv, AllInv', [Next]_vars, NEW v \in Vaults, NEW n \in Names,
         secrets'[v][n] = secrets[v][n]
  PROVE  History'[v][n] = History[v][n]
<1>0. HistoryIsValues /\ HistoryIsValues'
  BY HistoryOf, PTL
<1>1. CASE ~ Alive(v, n)
  <2>1. ~ Alive(v, n)'
    BY <1>1 DEF Alive
  <2> QED
    BY <1>0, <1>1, <2>1 DEF HistoryIsValues
<1>2. CASE Alive(v, n)
  <2>1. Alive(v, n)'
    BY <1>2 DEF Alive
  <2>2. ASSUME NEW i \in 1..secrets[v][n].current
        PROVE  BlobOf(v, n, i)'.value = BlobOf(v, n, i).value
    <3>1. i \in Versions /\ Readable(v, n, i)
      BY <1>2, LivingOpen
    <3> QED
      BY <1>2, <3>1, ReadableIsKept DEF Kept, Alive, AllInv
  <2>3. ValuesOf(v, n)' = ValuesOf(v, n)
    BY <2>2 DEF ValuesOf
  <2> QED
    BY <1>0, <1>2, <2>1, <2>3 DEF HistoryIsValues
<1> QED
  BY <1>1, <1>2

LEMMA HistoryIsAFunction ==
  /\ History = [v \in Vaults |-> [n \in Names |-> History[v][n]]]
  /\ History' = [v \in Vaults |-> [n \in Names |-> History'[v][n]]]
BY DEF History

LEMMA WriteIsAWrite ==
  ASSUME RotationAlone, AllInv, AllInv', NEW c \in Clients, NEW i \in Ids,
         WriteVersion(c, i), [Next]_vars
  PROVE  \E v \in Vaults, n \in Names, x \in Values : Promise!Write(v, n, x)
<1>0. HistoryIsValues /\ HistoryIsValues'
  BY HistoryOf, PTL
<1>1. PICK v \in Vaults, n \in Names, j \in Versions : WritesAt(c, i, v, n, j)
  BY WriteFacts DEF AllInv
<1>2. PICK x, blob, row : /\ x = ops[c].value /\ row = [id |-> i, current |-> j]
                          /\ blob = SealSecret(ops[c].key, v, n, j, x)
  OBVIOUS
<1>3. x \in Values /\ blob.value = x /\ row.id = i /\ row.current = j /\ row \in Row
  BY <1>1, <1>2 DEF WritesAt, SealSecret, Blob, Row
<1>4. /\ secrets' = [secrets EXCEPT ![v][n] = row]
      /\ versions' = [versions EXCEPT ![i][j] = blob]
  BY <1>1, <1>2 DEF WritesAt
<1>5. /\ secrets'[v][n] = row /\ versions'[i][j] = blob
      /\ \A q \in Versions : q # j => versions'[i][q] = versions[i][q]
      /\ \A w \in Vaults, m \in Names : ~ (w = v /\ m = n) => secrets'[w][m] = secrets[w][m]
  BY <1>4 DEF AllInv, TypeInv, TypeOK
<1>6. History'[v][n] = ValuesOf(v, n)'
  <2>1. Alive(v, n)'
    BY <1>3, <1>5, NoneAssumption DEF Alive
  <2> QED
    BY <1>0, <2>1 DEF HistoryIsValues
<1>7. ValuesOf(v, n)' = [q \in 1..j |-> versions'[i][q].value]
  BY <1>3, <1>5 DEF ValuesOf, BlobOf
<1>8. History'[v][n] = Append(History[v][n], x)
  <2>1. j \in Nat /\ 1..j \subseteq Versions
    BY BoundAssumption DEF Versions
  <2>2. CASE Alive(v, n)
    <3>1. secrets[v][n].id = i /\ j = secrets[v][n].current + 1
            /\ secrets[v][n].current \in Nat
      BY <1>1, <2>2, AliveRows DEF WritesAt, AllInv
    <3>2. History[v][n] = [q \in 1..secrets[v][n].current |-> versions[i][q].value]
      BY <1>0, <2>2, <3>1 DEF HistoryIsValues, ValuesOf, BlobOf
    <3> QED
      BY <1>3, <1>5, <1>6, <1>7, <2>1, <3>1, <3>2
  <2>3. CASE ~ Alive(v, n)
    <3>1. j = 1
      <4>1. NextVersion(secrets[v][n]) = 1 /\ v = ops[c].vault /\ n = ops[c].name
        BY <1>1, <2>3 DEF NextVersion, Alive, WritesAt
      <4>2. secrets' = [secrets EXCEPT ![v][n] = [id |-> i, current |-> 1]]
        BY <4>1 DEF WriteVersion
      <4>3. secrets'[v][n] = [id |-> i, current |-> 1]
        BY <4>2 DEF AllInv, TypeInv, TypeOK
      <4> QED
        BY <1>3, <1>5, <4>3
    <3>2. History[v][n] = <<>>
      BY <1>0, <2>3 DEF HistoryIsValues
    <3> QED
      BY <1>3, <1>5, <1>6, <1>7, <3>1, <3>2
  <2> QED
    BY <2>2, <2>3
<1>9. \A w \in Vaults, m \in Names : ~ (w = v /\ m = n) => History'[w][m] = History[w][m]
  BY <1>5, HistoryStays
<1>10. Promise!Write(v, n, x)
  BY <1>8, <1>9, HistoryIsAFunction DEF Promise!Write
<1> QED
  BY <1>3, <1>10

LEMMA DeletionForgets ==
  ASSUME RotationAlone, AllInv, AllInv', [Next]_vars, NEW v \in Vaults, NEW n \in Names,
         DeleteSecret(v, n)
  PROVE  Promise!Forget(v, n)
<1>0. HistoryIsValues /\ HistoryIsValues'
  BY HistoryOf, PTL
<1>1. /\ Alive(v, n) /\ secrets'[v][n] = None
      /\ \A w \in Vaults, m \in Names : ~ (w = v /\ m = n) => secrets'[w][m] = secrets[w][m]
  BY DEF DeleteSecret, Alive, AllInv, TypeInv, TypeOK
<1>2. History[v][n] # <<>>
  <2>1. History[v][n] = ValuesOf(v, n) /\ secrets[v][n].current \in Versions
    BY <1>0, <1>1, AliveRows DEF HistoryIsValues, AllInv
  <2>2. 1 \in 1..secrets[v][n].current
    BY <2>1 DEF Versions
  <2> QED
    BY <2>1, <2>2 DEF ValuesOf
<1>3. History'[v][n] = <<>>
  <2>1. ~ Alive(v, n)'
    BY <1>1 DEF Alive
  <2> QED
    BY <1>0, <2>1 DEF HistoryIsValues
<1>4. \A w \in Vaults, m \in Names : ~ (w = v /\ m = n) => History'[w][m] = History[w][m]
  BY <1>1, HistoryStays
<1> QED
  BY <1>2, <1>3, <1>4, HistoryIsAFunction DEF Promise!Forget

LEMMA VaultDeletionForgets ==
  ASSUME RotationAlone, AllInv, AllInv', [Next]_vars, NEW v \in Vaults, DeleteProject(v)
  PROVE  Promise!ForgetVault(v)
<1>0. HistoryIsValues'
  BY HistoryOf, PTL
<1>1. /\ \A n \in Names : secrets'[v][n] = None
      /\ \A w \in Vaults \ {v}, m \in Names : secrets'[w][m] = secrets[w][m]
  BY DEF DeleteProject, AllInv, TypeInv, TypeOK
<1>2. \A n \in Names : History'[v][n] = <<>>
  <2>1. \A n \in Names : ~ Alive(v, n)'
    BY <1>1 DEF Alive
  <2> QED
    BY <1>0, <2>1 DEF HistoryIsValues
<1>3. \A w \in Vaults \ {v}, m \in Names : History'[w][m] = History[w][m]
  BY <1>1, HistoryStays
<1> QED
  BY <1>2, <1>3, HistoryIsAFunction DEF Promise!ForgetVault

LEMMA RowsKeptHistoryKept ==
  ASSUME RotationAlone, AllInv, AllInv', [Next]_vars, UNCHANGED secrets
  PROVE  UNCHANGED History
<1>1. \A v \in Vaults, n \in Names : History'[v][n] = History[v][n]
  BY HistoryStays
<1> QED
  BY <1>1, HistoryIsAFunction

LEMMA StepKeepsPromise ==
  ASSUME RotationAlone, AllInv, AllInv', [Next]_vars
  PROVE  [Promise!Next]_History
<1>1. ASSUME NEW c \in Clients, NEW i \in Ids, WriteVersion(c, i) PROVE Promise!Next
  BY <1>1, WriteIsAWrite DEF Promise!Next
<1>2. ASSUME NEW v \in Vaults, NEW n \in Names, DeleteSecret(v, n) PROVE Promise!Next
  BY <1>2, DeletionForgets DEF Promise!Next
<1>3. ASSUME NEW v \in Vaults, DeleteProject(v) PROVE Promise!Next
  BY <1>3, VaultDeletionForgets DEF Promise!Next
<1>4. ASSUME UNCHANGED secrets PROVE UNCHANGED History
  BY <1>4, RowsKeptHistoryKept
<1>5. ASSUME NEW c \in Clients, RotateVaultBlobs(c) PROVE UNCHANGED secrets
  BY <1>5 DEF RotateVaultBlobs
<1>6. ASSUME NEW c \in Clients, NEW v \in Vaults, NEW k \in Keys, CreateVault(c, v, k)
      PROVE  UNCHANGED secrets
  BY <1>6 DEF CreateVault
<1> QED
  BY <1>1, <1>2, <1>3, <1>4, <1>5, <1>6, QuietSteps DEF stored

LEMMA PromiseInit == Init => Promise!Init
BY DEF Init, Promise!Init, History, Alive

\* VaultKeys implements SecretHistory where a vault is rotated alone: what the
\* people who use the vaults see is histories that grow at their end, or go
\* whole, however many processes, requests, failures, crashes and rotations
\* there are behind them (PutSecret, RevertSecret, RotateVaultBlobs).
THEOREM VaultsKeepTheirPromise ==
  ASSUME RotationAlone
  PROVE  Spec => KeepsPromise
<1>1. Init => AllInv
  BY TypeInvInit, RowInvInit, KeyInvInit DEF AllInv
<1>2. AllInv /\ [Next]_vars => AllInv'
  BY AllInvStep
<1>3. AllInv /\ AllInv' /\ [Next]_vars => [Promise!Next]_History
  BY StepKeepsPromise
<1> QED
  BY <1>1, <1>2, <1>3, PromiseInit, PTL DEF Spec, KeepsPromise, Promise!Spec
================================================================================
