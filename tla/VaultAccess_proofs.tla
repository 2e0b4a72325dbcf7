--------------------------- MODULE VaultAccess_proofs ---------------------------
(***************************************************************************)
(* Proofs about VaultAccess, for every number of accounts, vaults, secrets *)
(* and requests in flight.                                                 *)
(***************************************************************************)
EXTENDS VaultAccess, TLAPS

(***************************************************************************)
(* What a request is known to carry at each stage.                         *)
(***************************************************************************)
StageOK(o) ==
  /\ o.at \in {"vault", "managing", "listed", "created", "secret"} => o.vault \in Vaults
  /\ o.at \in {"vault", "managing", "listed", "created"} => o.actor \in Users
  /\ o.at = "secret" => o.secret \in Secrets
  /\ o.at \in {"deleting", "counted", "cleared"} => o.target \in Users

StagesOK == \A c \in Clients : StageOK(ops[c])

TypeInv == TypeOK /\ StagesOK

LEMMA IdleIsAnOp == Idle \in Op /\ StageOK(Idle)
BY DEF Idle, NoneSeen, Op, Stages, StageOK

\* Replacing one request by a well-formed one keeps them all so.
LEMMA SetOp ==
  ASSUME TypeInv, NEW c \in Clients, NEW o, o \in Op, StageOK(o), Become(c, o)
  PROVE  ops' \in [Clients -> Op] /\ StagesOK'
BY DEF TypeInv, TypeOK, StagesOK, StageOK, Become

LEMMA FinishOp ==
  ASSUME TypeInv, NEW c \in Clients, Finish(c)
  PROVE  ops' \in [Clients -> Op] /\ StagesOK'
BY IdleIsAnOp, SetOp DEF Finish

LEMMA ManagersAreUsers ==
  ASSUME TypeInv
  PROVE  [v \in Vaults |-> Managers(v)] \in [Vaults -> SUBSET Users]
BY DEF TypeInv, TypeOK, Managers

THEOREM TypeInvInit == Init => TypeInv
BY IdleIsAnOp DEF Init, TypeInv, TypeOK, StagesOK, Roles

(***************************************************************************)
(* Every step, by the part of the state it changes.                        *)
(***************************************************************************)
AccountOp(c) ==
  \/ BeginUserCreate(c)
  \/ \E a \in Users : BeginCreateAccount(c, a)
  \/ \E u \in Users, admin \in BOOLEAN : CreateUser(c, u, admin)
  \/ \E a \in Users \cup {None}, u \in Users : BeginDeleteAccount(c, a, u)
  \/ CountAdmins(c) \/ CheckSoleManager(c) \/ DeleteUser(c)

VaultOp(c) ==
  \/ \E a \in Users, v \in Vaults : CreateVault(c, a, v) \/ ReadVault(c, a, v)
  \/ EnterOwnVault(c) \/ RequireVault(c) \/ DeleteProject(c)
  \/ \E u \in Users, role \in Roles : SetVaultMember(c, u, role)
  \/ ListVaultMembers(c)
  \/ \E u \in Users : RemoveVaultMember(c, u)
  \/ \E v \in Vaults, u \in Users : RunVaultUnshare(c, v, u)

ShareOp(c) ==
  \/ SecretOf(c) \/ SecretToShare(c)
  \/ \E v \in Vaults : ShellSecretOf(c, v)
  \/ \E u \in Users : SetSecretShare(c, u) \/ RemoveSecretShare(c, u)

\* A page and a command that do the same are the same operation.
LEMMA Surfaces ==
  ASSUME NEW c \in Clients
  PROVE  /\ AccountStep(c) => AccountOp(c)
         /\ VaultStep(c) => VaultOp(c)
         /\ ShareStep(c) => ShareOp(c)
<1>1. AccountStep(c) => AccountOp(c)
  BY DEF AccountStep, AccountOp, createAccount, deleteAccount, runUserRemove
<1>2. VaultStep(c) => VaultOp(c)
  BY DEF VaultStep, VaultOp, createVault, runVaultCreate, requireVault, requireVaultRole,
         deleteVault, runVaultDelete, addMember, runVaultShare, removeMember
<1>3. ShareStep(c) => ShareOp(c)
  BY DEF ShareStep, ShareOp, addShare, runSecretShare, removeShare, runSecretUnshare
<1> QED
  BY <1>1, <1>2, <1>3

LEMMA TypeInvAccounts ==
  ASSUME TypeInv, NEW c \in Clients, AccountOp(c)
  PROVE  TypeInv'
<1>1. CASE BeginUserCreate(c)
  <2> DEFINE o == [Idle EXCEPT !.at = "account", !.first = (users = {})]
  <2>1. o \in Op /\ StageOK(o)
    BY IdleIsAnOp DEF Op, Stages, StageOK, Idle
  <2>2. Become(c, o)
    BY <1>1 DEF BeginUserCreate
  <2> QED
    BY <1>1, <2>1, <2>2, SetOp DEF BeginUserCreate, TypeInv, TypeOK, people, places
<1>2. ASSUME NEW a \in Users, BeginCreateAccount(c, a) PROVE TypeInv'
  <2> DEFINE o == [Idle EXCEPT !.at = "account", !.actor = a]
  <2>1. o \in Op /\ StageOK(o)
    BY IdleIsAnOp DEF Op, Stages, StageOK, Idle
  <2>2. Become(c, o)
    BY <1>2 DEF BeginCreateAccount
  <2> QED
    BY <1>2, <2>1, <2>2, SetOp DEF BeginCreateAccount, TypeInv, TypeOK, people, places
<1>3. ASSUME NEW u \in Users, NEW admin \in BOOLEAN, CreateUser(c, u, admin) PROVE TypeInv'
  BY <1>3, FinishOp DEF CreateUser, TypeInv, TypeOK, places
<1>4. ASSUME NEW a \in Users \cup {None}, NEW u \in Users, BeginDeleteAccount(c, a, u)
      PROVE  TypeInv'
  <2> DEFINE o == [Idle EXCEPT !.at = "deleting", !.actor = a, !.target = u]
  <2>1. o \in Op /\ StageOK(o)
    BY IdleIsAnOp DEF Op, Stages, StageOK, Idle
  <2>2. Become(c, o)
    BY <1>4 DEF BeginDeleteAccount
  <2> QED
    BY <1>4, <2>1, <2>2, SetOp DEF BeginDeleteAccount, TypeInv, TypeOK, people, places
<1>5. CASE CountAdmins(c)
  <2> DEFINE o == [ops[c] EXCEPT !.at = "counted"]
  <2>1. o \in Op /\ StageOK(o)
    BY <1>5 DEF CountAdmins, At, TypeInv, TypeOK, StagesOK, Op, Stages, StageOK
  <2>2. Become(c, o)
    BY <1>5 DEF CountAdmins
  <2> QED
    BY <1>5, <2>1, <2>2, SetOp DEF CountAdmins, TypeInv, TypeOK, people, places
<1>6. CASE CheckSoleManager(c)
  <2> DEFINE o == [ops[c] EXCEPT !.at = "cleared", !.seen = [v \in Vaults |-> Managers(v)]]
  <2>1. o \in Op /\ StageOK(o)
    BY <1>6, ManagersAreUsers
    DEF CheckSoleManager, At, TypeInv, TypeOK, StagesOK, Op, Stages, StageOK
  <2>2. Become(c, o)
    BY <1>6 DEF CheckSoleManager
  <2> QED
    BY <1>6, <2>1, <2>2, SetOp DEF CheckSoleManager, TypeInv, TypeOK, people, places
<1>7. CASE DeleteUser(c)
  <2>1. ops[c].target \in Users
    BY <1>7 DEF DeleteUser, At, TypeInv, StagesOK, StageOK
  <2>2. member' \in [Vaults -> [Users -> Roles]]
    BY <1>7, <2>1 DEF DeleteUser, TypeInv, TypeOK, Roles
  <2> QED
    BY <1>7, <2>1, <2>2, FinishOp DEF DeleteUser, TypeInv, TypeOK
<1> QED
  BY <1>1, <1>2, <1>3, <1>4, <1>5, <1>6, <1>7 DEF AccountOp

LEMMA TypeInvVaults ==
  ASSUME TypeInv, NEW c \in Clients, VaultOp(c)
  PROVE  TypeInv'
<1>1. ASSUME NEW a \in Users, NEW v \in Vaults, CreateVault(c, a, v) PROVE TypeInv'
  <2> DEFINE o == [Idle EXCEPT !.at = "created", !.actor = a, !.vault = v]
  <2>1. o \in Op /\ StageOK(o)
    BY IdleIsAnOp DEF Op, Stages, StageOK, Idle
  <2>2. Become(c, o)
    BY <1>1 DEF CreateVault
  <2> QED
    BY <1>1, <2>1, <2>2, SetOp DEF CreateVault, TypeInv, TypeOK, people
<1>2. ASSUME NEW a \in Users, NEW v \in Vaults, ReadVault(c, a, v) PROVE TypeInv'
  <2> DEFINE o == [Idle EXCEPT !.at = "vault", !.actor = a, !.vault = v, !.owner = owner[v]]
  <2>1. o \in Op /\ StageOK(o)
    BY IdleIsAnOp DEF Op, Stages, StageOK, Idle, TypeInv, TypeOK
  <2>2. Become(c, o)
    BY <1>2 DEF ReadVault
  <2> QED
    BY <1>2, <2>1, <2>2, SetOp DEF ReadVault, TypeInv, TypeOK, people, places
<1>2a. CASE RequireVault(c)
  <2> DEFINE o == [ops[c] EXCEPT !.at = IF ops[c].secret = None THEN "managing" ELSE "secret"]
  <2>1. o \in Op /\ StageOK(o)
    BY <1>2a DEF RequireVault, At, TypeInv, TypeOK, StagesOK, Op, Stages, StageOK
  <2>2. Become(c, o)
    BY <1>2a DEF RequireVault
  <2> QED
    BY <1>2a, <2>1, <2>2, SetOp DEF RequireVault, TypeInv, TypeOK, people, places
<1>3. CASE EnterOwnVault(c)
  BY <1>3, FinishOp DEF EnterOwnVault, TypeInv, TypeOK, people, places, Roles
<1>4. CASE DeleteProject(c)
  BY <1>4, FinishOp DEF DeleteProject, TypeInv, TypeOK, people, Roles
<1>5. ASSUME NEW u \in Users, NEW role \in Roles, SetVaultMember(c, u, role) PROVE TypeInv'
  BY <1>5, FinishOp DEF SetVaultMember, TypeInv, TypeOK, people, places, Roles
<1>6. CASE ListVaultMembers(c)
  <2> DEFINE v == ops[c].vault
             o == [ops[c] EXCEPT !.at = "listed", !.seen = [NoneSeen EXCEPT ![v] = Managers(v)]]
  <2>1. [NoneSeen EXCEPT ![v] = Managers(v)] \in [Vaults -> SUBSET Users]
    BY DEF NoneSeen, Managers, TypeInv, TypeOK
  <2>2. o \in Op /\ StageOK(o)
    <3>1. ASSUME NEW s \in [Vaults -> SUBSET Users]
          PROVE  LET p == [ops[c] EXCEPT !.at = "listed", !.seen = s] IN p \in Op /\ StageOK(p)
      BY <1>6 DEF ListVaultMembers, At, TypeInv, TypeOK, StagesOK, Op, Stages, StageOK
    <3> QED
      BY <2>1, <3>1
  <2>3. Become(c, o)
    BY <1>6 DEF ListVaultMembers
  <2> QED
    BY <1>6, <2>2, <2>3, SetOp DEF ListVaultMembers, TypeInv, TypeOK, people, places
<1>7. ASSUME NEW u \in Users, RemoveVaultMember(c, u) PROVE TypeInv'
  BY <1>7, FinishOp DEF RemoveVaultMember, TypeInv, TypeOK, people, places, Roles
<1>8. ASSUME NEW v \in Vaults, NEW u \in Users, RunVaultUnshare(c, v, u) PROVE TypeInv'
  BY <1>8 DEF RunVaultUnshare, TypeInv, TypeOK, StagesOK, StageOK, people, places, Roles
<1> QED
  BY <1>1, <1>2, <1>2a, <1>3, <1>4, <1>5, <1>6, <1>7, <1>8 DEF VaultOp

LEMMA TypeInvShares ==
  ASSUME TypeInv, NEW c \in Clients, ShareOp(c)
  PROVE  TypeInv'
<1>1. CASE SecretOf(c)
  <2> DEFINE o == [ops[c] EXCEPT !.at = "secret", !.secret = secret[ops[c].vault]]
  <2>1. o \in Op /\ StageOK(o)
    BY <1>1 DEF SecretOf, At, TypeInv, TypeOK, StagesOK, Op, Stages, StageOK
  <2>2. Become(c, o)
    BY <1>1 DEF SecretOf
  <2> QED
    BY <1>1, <2>1, <2>2, SetOp DEF SecretOf, TypeInv, TypeOK, people, places
<1>1a. CASE SecretToShare(c)
  <2> DEFINE o == [ops[c] EXCEPT !.secret = secret[ops[c].vault]]
  <2>1. o \in Op /\ StageOK(o)
    BY <1>1a DEF SecretToShare, At, TypeInv, TypeOK, StagesOK, Op, Stages, StageOK
  <2>2. Become(c, o)
    BY <1>1a DEF SecretToShare
  <2> QED
    BY <1>1a, <2>1, <2>2, SetOp DEF SecretToShare, TypeInv, TypeOK, people, places
<1>2. ASSUME NEW v \in Vaults, ShellSecretOf(c, v) PROVE TypeInv'
  <2> DEFINE o == [Idle EXCEPT !.at = "secret", !.vault = v, !.secret = secret[v]]
  <2>1. o \in Op /\ StageOK(o)
    BY <1>2, IdleIsAnOp DEF ShellSecretOf, Op, Stages, StageOK, Idle, TypeInv, TypeOK
  <2>2. Become(c, o)
    BY <1>2 DEF ShellSecretOf
  <2> QED
    BY <1>2, <2>1, <2>2, SetOp DEF ShellSecretOf, TypeInv, TypeOK, people, places
<1>3. ASSUME NEW u \in Users, SetSecretShare(c, u) PROVE TypeInv'
  BY <1>3, FinishOp DEF SetSecretShare, TypeInv, TypeOK, people, places
<1>4. ASSUME NEW u \in Users, RemoveSecretShare(c, u) PROVE TypeInv'
  BY <1>4, FinishOp DEF RemoveSecretShare, TypeInv, TypeOK, people, places
<1> QED
  BY <1>1, <1>1a, <1>2, <1>3, <1>4 DEF ShareOp

THEOREM TypeInvStep == TypeInv /\ [Next]_vars => TypeInv'
<1> SUFFICES ASSUME TypeInv, [Next]_vars PROVE TypeInv'
  OBVIOUS
<1>1. ASSUME NEW c \in Clients, Abandon(c) PROVE TypeInv'
  BY <1>1, FinishOp DEF Abandon, TypeInv, TypeOK, people, places
<1>2. ASSUME NEW v \in Vaults, NEW s \in Secrets, PutSecret(v, s) PROVE TypeInv'
  BY <1>2 DEF PutSecret, TypeInv, TypeOK, StagesOK, StageOK, people
<1>3. ASSUME NEW v \in Vaults, DeleteSecret(v) PROVE TypeInv'
  BY <1>3 DEF DeleteSecret, TypeInv, TypeOK, StagesOK, StageOK, people
<1>4. CASE UNCHANGED vars
  BY <1>4 DEF vars, TypeInv, TypeOK, StagesOK, StageOK
<1> QED
  BY <1>1, <1>2, <1>3, <1>4, TypeInvAccounts, TypeInvVaults, TypeInvShares, Surfaces
  DEF Next

\* Whatever the requests in flight, the state keeps its type.
THEOREM TypeCorrect == Spec => []TypeOK
<1>1. Spec => []TypeInv
  BY TypeInvInit, TypeInvStep, PTL DEF Spec
<1>2. TypeInv => TypeOK
  BY DEF TypeInv
<1> QED
  BY <1>1, <1>2, PTL

--------------------------------------------------------------------------------
(***************************************************************************)
(* No dangling grant.                                                      *)
(***************************************************************************)
GrantInv == TypeInv /\ NoDanglingGrant

THEOREM GrantInvInit == Init => GrantInv
BY TypeInvInit DEF Init, GrantInv, NoDanglingGrant

THEOREM GrantInvStep == GrantInv /\ [Next]_vars => GrantInv'
<1> SUFFICES ASSUME GrantInv, [Next]_vars PROVE NoDanglingGrant'
  BY TypeInvStep DEF GrantInv
<1> USE DEF GrantInv
<1>1. ASSUME UNCHANGED <<people, places, member, shared>> PROVE NoDanglingGrant'
  BY <1>1 DEF NoDanglingGrant, people, places
<1>2. ASSUME NEW c \in Clients, AccountOp(c) PROVE NoDanglingGrant'
  <2>1. ASSUME NEW u \in Users, NEW admin \in BOOLEAN, CreateUser(c, u, admin)
        PROVE  NoDanglingGrant'
    BY <2>1 DEF CreateUser, NoDanglingGrant, places
  <2>2. CASE DeleteUser(c)
    <3> DEFINE u == ops[c].target
    <3>1. u \in Users
      BY <2>2 DEF DeleteUser, At, TypeInv, StagesOK, StageOK
    <3>2. (admins \cup roots \subseteq users)'
      BY <2>2 DEF DeleteUser, NoDanglingGrant
    <3>3. ASSUME NEW v \in Vaults
          PROVE  (/\ owner[v] \in users \cup {None}
                  /\ \A w \in Users : member[v][w] # "none" => w \in users /\ v \in vaults
                  /\ owner[v] # None \/ secret[v] # None => v \in vaults)'
      BY <2>2, <3>1 DEF DeleteUser, NoDanglingGrant, TypeInv, TypeOK
    <3>4. ASSUME NEW s \in Secrets
          PROVE  (/\ shared[s] \subseteq users
                  /\ shared[s] # {} => \E v \in vaults : secret[v] = s)'
      BY <2>2 DEF DeleteUser, NoDanglingGrant, TypeInv, TypeOK
    <3> QED
      BY <3>2, <3>3, <3>4 DEF NoDanglingGrant
  <2>3. ASSUME ~\E u \in Users, admin \in BOOLEAN : CreateUser(c, u, admin), ~DeleteUser(c)
        PROVE  NoDanglingGrant'
    BY <1>1, <1>2, <2>3 DEF AccountOp, BeginUserCreate, BeginCreateAccount,
                            BeginDeleteAccount, CountAdmins, CheckSoleManager
  <2> QED
    BY <2>1, <2>2, <2>3
<1>3. ASSUME NEW c \in Clients, VaultOp(c) PROVE NoDanglingGrant'
  <2>1. ASSUME NEW a \in Users, NEW v \in Vaults, CreateVault(c, a, v) PROVE NoDanglingGrant'
    BY <2>1 DEF CreateVault, authenticate, NoDanglingGrant, people, TypeInv, TypeOK
  <2>2. CASE EnterOwnVault(c)
    BY <2>2 DEF EnterOwnVault, NoDanglingGrant, people, places, TypeInv, TypeOK
  <2>3. CASE DeleteProject(c)
    BY <2>3 DEF DeleteProject, ownsVault, NoDanglingGrant, people, TypeInv, TypeOK
  <2>4. ASSUME NEW u \in Users, NEW role \in Roles, SetVaultMember(c, u, role)
        PROVE  NoDanglingGrant'
    BY <2>4 DEF SetVaultMember, NoDanglingGrant, people, places, TypeInv, TypeOK
  <2>5. ASSUME NEW u \in Users, RemoveVaultMember(c, u) PROVE NoDanglingGrant'
    BY <2>5 DEF RemoveVaultMember, NoDanglingGrant, people, places, TypeInv, TypeOK
  <2>6. ASSUME NEW v \in Vaults, NEW u \in Users, RunVaultUnshare(c, v, u) PROVE NoDanglingGrant'
    BY <2>6 DEF RunVaultUnshare, NoDanglingGrant, people, places, TypeInv, TypeOK
  <2>7. ASSUME \/ ListVaultMembers(c) \/ RequireVault(c)
               \/ \E a \in Users, v \in Vaults : ReadVault(c, a, v)
        PROVE  NoDanglingGrant'
    BY <1>1, <2>7 DEF ListVaultMembers, RequireVault, ReadVault
  <2> QED
    BY <1>3, <2>1, <2>2, <2>3, <2>4, <2>5, <2>6, <2>7 DEF VaultOp
<1>4. ASSUME NEW c \in Clients, ShareOp(c) PROVE NoDanglingGrant'
  <2>1. ASSUME NEW u \in Users, SetSecretShare(c, u) PROVE NoDanglingGrant'
    BY <2>1 DEF SetSecretShare, NoDanglingGrant, people, places, TypeInv, TypeOK
  <2>2. ASSUME NEW u \in Users, RemoveSecretShare(c, u) PROVE NoDanglingGrant'
    BY <2>2 DEF RemoveSecretShare, NoDanglingGrant, people, places, TypeInv, TypeOK
  <2>3. ASSUME SecretOf(c) \/ SecretToShare(c) \/ \E v \in Vaults : ShellSecretOf(c, v)
        PROVE  NoDanglingGrant'
    BY <1>1, <2>3 DEF SecretOf, SecretToShare, ShellSecretOf
  <2> QED
    BY <1>4, <2>1, <2>2, <2>3 DEF ShareOp
<1>5. ASSUME NEW c \in Clients, Abandon(c) PROVE NoDanglingGrant'
  BY <1>1, <1>5 DEF Abandon
<1>6. ASSUME NEW v \in Vaults, NEW s \in Secrets, PutSecret(v, s) PROVE NoDanglingGrant'
  BY <1>6, NoOneAssumption DEF PutSecret, NoDanglingGrant, people, TypeInv, TypeOK
<1>7. ASSUME NEW v \in Vaults, DeleteSecret(v) PROVE NoDanglingGrant'
  BY <1>7 DEF DeleteSecret, NoDanglingGrant, people, TypeInv, TypeOK
<1>8. CASE UNCHANGED vars
  BY <1>1, <1>8 DEF vars, people, places
<1> QED
  BY <1>2, <1>3, <1>4, <1>5, <1>6, <1>7, <1>8, Surfaces DEF Next

\* No write brings back anything of an account, a vault or a secret deleted while
\* its request was in flight.
THEOREM GrantsNeverDangle == Spec => []NoDanglingGrant
<1>1. Spec => []GrantInv
  BY GrantInvInit, GrantInvStep, PTL DEF Spec
<1>2. GrantInv => NoDanglingGrant
  BY DEF GrantInv
<1> QED
  BY <1>1, <1>2, PTL

--------------------------------------------------------------------------------
(***************************************************************************)
(* The root account.  With one shell, a command that has seen no account   *)
(* is the only one that can create the first; and no deletion that got     *)
(* past its checks is after the root account.                              *)
(***************************************************************************)
Deleting(c) == ops[c].at \in {"deleting", "counted", "cleared"}
Checked(c) == ops[c].at \in {"counted", "cleared"}

Expected ==
  /\ \A c \in Clients : At(c, "account") /\ ops[c].first => users = {} /\ c \in Shells
  /\ \A c \in Clients : At(c, "account") /\ ~ops[c].first => users # {}
  /\ \A c \in Clients : Deleting(c) => users # {}
  /\ \A c \in Clients : Checked(c) => ops[c].target \notin roots

RootInv == GrantInv /\ OneRootAccount /\ Expected

THEOREM RootInvInit == Init => RootInv
BY GrantInvInit DEF Init, Idle, RootInv, OneRootAccount, Expected, At, Deleting, Checked

\* A step that touches no account, and starts or moves on no request about one.
LEMMA RootInvApart ==
  ASSUME RootInv, UNCHANGED people,
         \A c \in Clients : \/ ops'[c] = ops[c]
                            \/ ops'[c].at \notin {"account", "deleting", "counted", "cleared"}
  PROVE  OneRootAccount' /\ Expected'
BY DEF RootInv, OneRootAccount, Expected, people, At, Deleting, Checked

THEOREM RootInvStep ==
  ASSUME \A c, d \in Shells : c = d
  PROVE  RootInv /\ [Next]_vars => RootInv'
<1> SUFFICES ASSUME RootInv, [Next]_vars PROVE OneRootAccount' /\ Expected'
  BY GrantInvStep DEF RootInv
<1>0. TypeInv /\ ops \in [Clients -> Op]
  BY DEF RootInv, GrantInv, TypeInv, TypeOK
<1>a. ASSUME NEW c \in Clients, Finish(c), UNCHANGED people
      PROVE  OneRootAccount' /\ Expected'
  BY <1>0, <1>a, RootInvApart DEF Finish, Become, Idle
<1>b. ASSUME NEW c \in Clients, NEW o, Become(c, o), UNCHANGED people,
             o.at \notin {"account", "deleting", "counted", "cleared"}
      PROVE  OneRootAccount' /\ Expected'
  BY <1>0, <1>b, RootInvApart DEF Become
<1>1. ASSUME NEW c \in Clients, BeginUserCreate(c) PROVE OneRootAccount' /\ Expected'
  BY <1>0, <1>1 DEF BeginUserCreate, Become, RootInv, OneRootAccount, Expected, At, Deleting,
                    Checked, people, Idle
<1>2. ASSUME NEW c \in Clients, NEW a \in Users, BeginCreateAccount(c, a)
      PROVE  OneRootAccount' /\ Expected'
  <2>1. users # {}
    BY <1>2 DEF BeginCreateAccount, RootInv, GrantInv, NoDanglingGrant
  <2> QED
    BY <1>0, <1>2, <2>1 DEF BeginCreateAccount, Become, RootInv, OneRootAccount, Expected, At,
                            Deleting, Checked, people, Idle
<1>3. ASSUME NEW c \in Clients, NEW u \in Users, NEW admin \in BOOLEAN, CreateUser(c, u, admin)
      PROVE  OneRootAccount' /\ Expected'
  <2>1. \A d \in Clients : ops'[d] = IF d = c THEN Idle ELSE ops[d]
    BY <1>0, <1>3 DEF CreateUser, Finish, Become
  <2>2. CASE ops[c].first
    <3>1. users = {} /\ c \in Shells
      BY <1>3, <2>2 DEF CreateUser, RootInv, Expected
    <3>2. admins = {} /\ roots = {}
      BY <3>1 DEF RootInv, GrantInv, NoDanglingGrant
    <3>3. OneRootAccount'
      BY <1>3, <2>2, <3>2 DEF CreateUser, OneRootAccount
    <3>4. \A d \in Clients : ~Deleting(d) /\ (At(d, "account") => d = c)
      BY <3>1 DEF RootInv, Expected
    <3> QED
      BY <1>3, <2>1, <3>3, <3>4 DEF CreateUser, Expected, Idle, At, Deleting, Checked
  <2>3. CASE ~ops[c].first
    <3>1. users # {}
      BY <1>3, <2>3 DEF CreateUser, RootInv, Expected
    <3> QED
      BY <1>3, <2>1, <2>3, <3>1 DEF CreateUser, RootInv, OneRootAccount, Expected, Idle, At,
                                    Deleting, Checked
  <2> QED
    BY <2>2, <2>3
<1>4. ASSUME NEW c \in Clients, NEW a \in Users \cup {None}, NEW u \in Users,
             BeginDeleteAccount(c, a, u)
      PROVE  OneRootAccount' /\ Expected'
  BY <1>0, <1>4 DEF BeginDeleteAccount, Become, RootInv, OneRootAccount, Expected, At, Deleting,
                    Checked, people, Idle
<1>5. ASSUME NEW c \in Clients, CountAdmins(c) PROVE OneRootAccount' /\ Expected'
  <2>1. ops[c] \in Op
    BY <1>0
  <2>2. ops' = [ops EXCEPT ![c] = [ops[c] EXCEPT !.at = "counted"]]
    BY <1>5 DEF CountAdmins, Become
  <2>3. /\ ops'[c].at = "counted" /\ ops'[c].target = ops[c].target
        /\ \A d \in Clients \ {c} : ops'[d] = ops[d]
    BY <1>0, <2>1, <2>2 DEF Op
  <2> QED
    BY <1>5, <2>3 DEF CountAdmins, RootInv, OneRootAccount, Expected, At, Deleting, Checked, people
<1>6. ASSUME NEW c \in Clients, CheckSoleManager(c) PROVE OneRootAccount' /\ Expected'
  <2>1. ops[c] \in Op
    BY <1>0
  <2>2. \E s : ops' = [ops EXCEPT ![c] = [ops[c] EXCEPT !.at = "cleared", !.seen = s]]
    BY <1>6 DEF CheckSoleManager, Become
  <2>3. /\ ops'[c].at = "cleared" /\ ops'[c].target = ops[c].target
        /\ \A d \in Clients \ {c} : ops'[d] = ops[d]
    BY <1>0, <2>1, <2>2 DEF Op
  <2> QED
    BY <1>6, <2>3 DEF CheckSoleManager, RootInv, OneRootAccount, Expected, At, Deleting, Checked,
                      people
<1>7. ASSUME NEW c \in Clients, DeleteUser(c) PROVE OneRootAccount' /\ Expected'
  <2>1. \A d \in Clients : ops'[d] = IF d = c THEN Idle ELSE ops[d]
    BY <1>0, <1>7 DEF DeleteUser, Finish, Become
  <2>2. ops[c].target \notin roots
    BY <1>7 DEF DeleteUser, At, RootInv, Expected, Checked
  <2>3. PICK r \in admins : roots = {r}
    BY <1>7 DEF DeleteUser, RootInv, OneRootAccount
  <2>4. r \in users' /\ r \in admins' /\ roots' = {r}
    BY <1>7, <2>2, <2>3 DEF DeleteUser, RootInv, GrantInv, NoDanglingGrant
  <2> QED
    BY <1>7, <2>1, <2>3, <2>4 DEF DeleteUser, RootInv, OneRootAccount, Expected, Idle, At, Deleting,
                                  Checked
<1>8. ASSUME NEW c \in Clients, VaultOp(c) PROVE OneRootAccount' /\ Expected'
  <2>1. ASSUME NEW a \in Users, NEW v \in Vaults, CreateVault(c, a, v) \/ ReadVault(c, a, v)
        PROVE  OneRootAccount' /\ Expected'
    BY <1>b, <2>1 DEF CreateVault, ReadVault, Idle
  <2>1a. CASE RequireVault(c)
    <3>1. PICK s \in {"managing", "secret"} : Become(c, [ops[c] EXCEPT !.at = s])
      BY <2>1a DEF RequireVault
    <3>2. [ops[c] EXCEPT !.at = s].at = s
      BY <1>0 DEF Op
    <3> QED
      BY <1>b, <2>1a, <3>1, <3>2 DEF RequireVault
  <2>2. CASE ListVaultMembers(c)
    <3>1. ops[c] \in Op
      BY <1>0
    <3>2. PICK s : Become(c, [ops[c] EXCEPT !.at = "listed", !.seen = s])
      BY <2>2 DEF ListVaultMembers
    <3>3. [ops[c] EXCEPT !.at = "listed", !.seen = s].at = "listed"
      BY <3>1 DEF Op
    <3> QED
      BY <1>b, <2>2, <3>2, <3>3 DEF ListVaultMembers
  <2>3. ASSUME \/ EnterOwnVault(c) \/ DeleteProject(c)
               \/ \E u \in Users, role \in Roles : SetVaultMember(c, u, role)
               \/ \E u \in Users : RemoveVaultMember(c, u)
        PROVE  OneRootAccount' /\ Expected'
    BY <1>a, <2>3 DEF EnterOwnVault, DeleteProject, SetVaultMember, RemoveVaultMember
  <2>4. ASSUME NEW v \in Vaults, NEW u \in Users, RunVaultUnshare(c, v, u)
        PROVE  OneRootAccount' /\ Expected'
    BY <2>4, RootInvApart DEF RunVaultUnshare
  <2> QED
    BY <1>8, <2>1, <2>1a, <2>2, <2>3, <2>4 DEF VaultOp
<1>9. ASSUME NEW c \in Clients, ShareOp(c) PROVE OneRootAccount' /\ Expected'
  <2>1. CASE SecretOf(c)
    <3>1. ops[c] \in Op
      BY <1>0
    <3>2. PICK s : Become(c, [ops[c] EXCEPT !.at = "secret", !.secret = s])
      BY <2>1 DEF SecretOf
    <3>3. [ops[c] EXCEPT !.at = "secret", !.secret = s].at = "secret"
      BY <3>1 DEF Op
    <3> QED
      BY <1>b, <2>1, <3>2, <3>3 DEF SecretOf
  <2>1a. CASE SecretToShare(c)
    <3>1. ops[c] \in Op
      BY <1>0
    <3>2. PICK s : Become(c, [ops[c] EXCEPT !.secret = s])
      BY <2>1a DEF SecretToShare
    <3>3. [ops[c] EXCEPT !.secret = s].at = "vault"
      BY <2>1a, <3>1 DEF SecretToShare, At, Op
    <3> QED
      BY <1>b, <2>1a, <3>2, <3>3 DEF SecretToShare
  <2>2. ASSUME NEW v \in Vaults, ShellSecretOf(c, v) PROVE OneRootAccount' /\ Expected'
    BY <1>b, <2>2 DEF ShellSecretOf, Idle
  <2>3. ASSUME NEW u \in Users, SetSecretShare(c, u) \/ RemoveSecretShare(c, u)
        PROVE  OneRootAccount' /\ Expected'
    BY <1>a, <2>3 DEF SetSecretShare, RemoveSecretShare
  <2> QED
    BY <1>9, <2>1, <2>1a, <2>2, <2>3 DEF ShareOp
<1>10. ASSUME NEW c \in Clients, Abandon(c) PROVE OneRootAccount' /\ Expected'
  BY <1>a, <1>10 DEF Abandon
<1>11. ASSUME \/ \E v \in Vaults, s \in Secrets : PutSecret(v, s)
              \/ \E v \in Vaults : DeleteSecret(v)
              \/ UNCHANGED vars
       PROVE  OneRootAccount' /\ Expected'
  BY <1>11, RootInvApart DEF PutSecret, DeleteSecret, vars, people
<1> QED
  BY <1>1, <1>2, <1>3, <1>4, <1>5, <1>6, <1>7, <1>8, <1>9, <1>10, <1>11, Surfaces
  DEF Next, AccountOp

\* With one shell there is, from the first account on, exactly one root account,
\* and it is an administrator: deletions that overlap never take it.
THEOREM RootRemains ==
  ASSUME \A c, d \in Shells : c = d
  PROVE  Spec => []OneRootAccount
<1>1. RootInv /\ [Next]_vars => RootInv'
  BY RootInvStep
<1>2. RootInv => OneRootAccount
  BY DEF RootInv
<1> QED
  BY <1>1, <1>2, RootInvInit, PTL DEF Spec

--------------------------------------------------------------------------------
(***************************************************************************)
(* What was checked is acted on by the request that checked it: a step     *)
(* that moves a request on is a step of that request.                      *)
(***************************************************************************)
LEMMA OnlyMine ==
  ASSUME TypeInv, NEW c \in Clients, NEW d \in Clients, NEW o, Become(d, o), ops'[c] # ops[c]
  PROVE  d = c
BY DEF TypeInv, TypeOK, Become

LEMMA Moves ==
  ASSUME TypeInv, [Next]_vars, NEW c \in Clients, ops'[c] # ops[c]
  PROVE  AccountOp(c) \/ VaultOp(c) \/ ShareOp(c) \/ Abandon(c)
<1>1. ASSUME NEW d \in Clients, AccountOp(d) PROVE d = c
  BY <1>1, OnlyMine DEF AccountOp, BeginUserCreate, BeginCreateAccount, CreateUser,
                        BeginDeleteAccount, CountAdmins, CheckSoleManager, DeleteUser, Finish
<1>2. ASSUME NEW d \in Clients, VaultOp(d) PROVE d = c
  BY <1>2, OnlyMine DEF VaultOp, CreateVault, ReadVault, RequireVault, EnterOwnVault,
                        DeleteProject, SetVaultMember, ListVaultMembers, RemoveVaultMember,
                        RunVaultUnshare, Finish
<1>3. ASSUME NEW d \in Clients, ShareOp(d) PROVE d = c
  BY <1>3, OnlyMine DEF ShareOp, SecretOf, SecretToShare, ShellSecretOf, SetSecretShare, RemoveSecretShare,
                        Finish
<1>4. ASSUME NEW d \in Clients, Abandon(d) PROVE d = c
  BY <1>4, OnlyMine DEF Abandon, Finish
<1> QED
  BY <1>1, <1>2, <1>3, <1>4, Surfaces DEF Next, PutSecret, DeleteSecret, vars

\* The only ways out of the two stages that hold a count of managers.
LEMMA Removals ==
  ASSUME TypeInv, [Next]_vars, NEW c \in Clients, ops[c].at \in {"listed", "cleared"},
         ops'[c] = Idle
  PROVE  \/ At(c, "cleared") /\ DeleteUser(c)
         \/ \E u \in Users : RemoveVaultMember(c, u)
         \/ Abandon(c)
<1>1. ops'[c] # ops[c]
  BY DEF Idle
<1>2. AccountOp(c) \/ VaultOp(c) \/ ShareOp(c) \/ Abandon(c)
  BY <1>1, Moves
<1>3. AccountOp(c) => At(c, "cleared") /\ DeleteUser(c)
  BY DEF AccountOp, BeginUserCreate, BeginCreateAccount, CreateUser, BeginDeleteAccount,
         CountAdmins, CheckSoleManager, DeleteUser, At, Idle, Become, TypeInv, TypeOK
<1>4. VaultOp(c) => \E u \in Users : RemoveVaultMember(c, u)
  BY <1>1 DEF VaultOp, CreateVault, ReadVault, RequireVault, EnterOwnVault, DeleteProject,
              SetVaultMember, ListVaultMembers, RunVaultUnshare, At
<1>5. ~ShareOp(c)
  BY DEF ShareOp, SecretOf, SecretToShare, ShellSecretOf, SetSecretShare, RemoveSecretShare, At
<1> QED
  BY <1>2, <1>3, <1>4, <1>5

(***************************************************************************)
(* Where each step leaves the request that takes it.                       *)
(***************************************************************************)
LEMMA Became ==
  ASSUME TypeInv, NEW c \in Clients, NEW o, Become(c, o)
  PROVE  ops'[c] = o
BY DEF TypeInv, TypeOK, Become

LEMMA Finished ==
  ASSUME TypeInv, NEW c \in Clients, Finish(c)
  PROVE  ops'[c].at = "idle"
BY Became DEF Finish, Idle

LEMMA AccountStages ==
  ASSUME TypeInv, NEW c \in Clients, AccountOp(c)
  PROVE  /\ ops'[c].at \notin {"vault", "managing"}
         /\ ops'[c].at = "cleared" => CheckSoleManager(c)
<1>0. ops[c] \in Op
  BY DEF TypeInv, TypeOK
<1>1. CASE BeginUserCreate(c) \/ \E a \in Users : BeginCreateAccount(c, a)
  <2>1. PICK a, b : Become(c, [Idle EXCEPT !.at = "account", !.first = b])
                 \/ Become(c, [Idle EXCEPT !.at = "account", !.actor = a])
    BY <1>1 DEF BeginUserCreate, BeginCreateAccount
  <2>2. ops'[c].at = "account"
    BY <2>1, Became DEF Idle
  <2> QED
    BY <2>2
<1>2. ASSUME NEW a \in Users \cup {None}, NEW u \in Users, BeginDeleteAccount(c, a, u)
      PROVE  ops'[c].at = "deleting"
  BY <1>2, Became DEF BeginDeleteAccount, Idle
<1>3. CASE CountAdmins(c)
  <2>1. ops'[c] = [ops[c] EXCEPT !.at = "counted"]
    BY <1>3, Became DEF CountAdmins
  <2> QED
    BY <1>0, <2>1 DEF Op
<1>4. CASE CheckSoleManager(c)
  <2>1. PICK s : ops'[c] = [ops[c] EXCEPT !.at = "cleared", !.seen = s]
    BY <1>4, Became DEF CheckSoleManager
  <2> QED
    BY <1>0, <1>4, <2>1 DEF Op
<1>5. CASE DeleteUser(c) \/ \E u \in Users, admin \in BOOLEAN : CreateUser(c, u, admin)
  BY <1>5, Finished DEF DeleteUser, CreateUser
<1> QED
  BY <1>1, <1>2, <1>3, <1>4, <1>5 DEF AccountOp

LEMMA VaultStages ==
  ASSUME TypeInv, NEW c \in Clients, VaultOp(c), ops'[c] # ops[c]
  PROVE  /\ ops'[c].at # "cleared"
         /\ ops'[c].at = "managing" => RequireVault(c)
         /\ ops'[c].at = "vault" => \E a \in Users, v \in Vaults : ReadVault(c, a, v)
<1>0. ops[c] \in Op
  BY DEF TypeInv, TypeOK
<1>1. ASSUME NEW a \in Users, NEW v \in Vaults, CreateVault(c, a, v) PROVE ops'[c].at = "created"
  BY <1>1, Became DEF CreateVault, Idle
<1>2. ASSUME NEW a \in Users, NEW v \in Vaults, ReadVault(c, a, v) PROVE ops'[c].at = "vault"
  BY <1>2, Became DEF ReadVault, Idle
<1>2a. CASE RequireVault(c)
  <2>1. PICK s \in {"managing", "secret"} : ops'[c] = [ops[c] EXCEPT !.at = s]
    BY <1>2a, Became DEF RequireVault
  <2> QED
    BY <1>0, <1>2a, <2>1 DEF Op
<1>3. CASE ListVaultMembers(c)
  <2>1. PICK s : ops'[c] = [ops[c] EXCEPT !.at = "listed", !.seen = s]
    BY <1>3, Became DEF ListVaultMembers
  <2> QED
    BY <1>0, <2>1 DEF Op
<1>4. ASSUME \/ EnterOwnVault(c) \/ DeleteProject(c)
             \/ \E u \in Users, role \in Roles : SetVaultMember(c, u, role)
             \/ \E u \in Users : RemoveVaultMember(c, u)
      PROVE  ops'[c].at = "idle"
  BY <1>4, Finished DEF EnterOwnVault, DeleteProject, SetVaultMember, RemoveVaultMember
<1> QED
  BY <1>1, <1>2, <1>2a, <1>3, <1>4 DEF VaultOp, RunVaultUnshare

LEMMA ShareStages ==
  ASSUME TypeInv, NEW c \in Clients, ShareOp(c) \/ Abandon(c)
  PROVE  /\ ops'[c].at \in {"vault", "secret", "idle"}
         /\ ops'[c].at = "vault" => SecretToShare(c)
<1>0. ops[c] \in Op
  BY DEF TypeInv, TypeOK
<1>1. CASE SecretOf(c)
  <2>1. PICK s : ops'[c] = [ops[c] EXCEPT !.at = "secret", !.secret = s]
    BY <1>1, Became DEF SecretOf
  <2> QED
    BY <1>0, <2>1 DEF Op
<1>1a. CASE SecretToShare(c)
  <2>1. PICK s : ops'[c] = [ops[c] EXCEPT !.secret = s]
    BY <1>1a, Became DEF SecretToShare
  <2> QED
    BY <1>0, <1>1a, <2>1 DEF SecretToShare, At, Op
<1>2. ASSUME NEW v \in Vaults, ShellSecretOf(c, v) PROVE ops'[c].at = "secret"
  BY <1>2, Became DEF ShellSecretOf, Idle
<1>3. ASSUME NEW u \in Users, SetSecretShare(c, u) \/ RemoveSecretShare(c, u)
      PROVE  ops'[c].at = "idle"
  BY <1>3, Finished DEF SetSecretShare, RemoveSecretShare
<1> QED
  BY <1>1, <1>1a, <1>2, <1>3, Finished DEF ShareOp, Abandon

(***************************************************************************)
(* What a request that checked something knows still: the managers it      *)
(* counted are not its target alone; and the owner it read is the owner,   *)
(* unless the owner is gone, since no vault takes another's identifier.    *)
(***************************************************************************)
Counted == \A c \in Clients : At(c, "cleared") =>
  \A v \in Vaults : ops[c].seen[v] # {ops[c].target}

OwnerKnown == \A c \in Clients : ops[c].at \in {"vault", "managing"} =>
  /\ ops[c].vault \in drawn
  /\ ops[c].vault \in vaults => owner[ops[c].vault] \in {None, ops[c].owner}

CheckInv == TypeInv /\ Counted /\ OwnerKnown /\ vaults \subseteq drawn

THEOREM CheckInvInit == Init => CheckInv
BY TypeInvInit DEF Init, Idle, At, CheckInv, Counted, OwnerKnown

LEMMA CountedStep == CheckInv /\ [Next]_vars => Counted'
<1> SUFFICES ASSUME CheckInv, [Next]_vars, NEW c \in Clients, At(c, "cleared")', NEW v \in Vaults
             PROVE  ops'[c].seen[v] # {ops'[c].target}
  BY DEF Counted
<1>1. CASE ops'[c] = ops[c]
  BY <1>1 DEF CheckInv, Counted, At
<1>2. CASE ops'[c] # ops[c]
  <2>1. AccountOp(c) \/ VaultOp(c) \/ ShareOp(c) \/ Abandon(c)
    BY <1>2, Moves DEF CheckInv
  <2>2. ops \in [Clients -> Op] /\ ops[c] \in Op
    BY DEF CheckInv, TypeInv, TypeOK
  <2>3. CASE CheckSoleManager(c)
    <3>1. PICK s : s = [w \in Vaults |-> Managers(w)]
      OBVIOUS
    <3>2. ops' = [ops EXCEPT ![c] = [ops[c] EXCEPT !.at = "cleared", !.seen = s]]
      BY <2>3, <3>1 DEF CheckSoleManager, Become
    <3>3. ops'[c].seen = s /\ ops'[c].target = ops[c].target
      BY <2>2, <3>2 DEF Op
    <3> QED
      BY <2>3, <3>1, <3>3 DEF CheckSoleManager, SoleManages
  <2>4. CheckSoleManager(c)
    BY <1>2, <2>1, AccountStages, VaultStages, ShareStages DEF CheckInv, At
  <2> QED
    BY <2>3, <2>4
<1> QED
  BY <1>1, <1>2

\* What any step may do to the vaults and their owners.
LEMMA OwnersStep ==
  ASSUME CheckInv, [Next]_vars
  PROVE  /\ vaults' \subseteq drawn' /\ drawn \subseteq drawn'
         /\ \A v \in vaults' \cap drawn : v \in vaults /\ owner'[v] \in {None, owner[v]}
<1> USE DEF CheckInv
<1>1. CASE UNCHANGED <<vaults, owner>> /\ drawn \subseteq drawn'
  BY <1>1 DEF TypeInv, TypeOK
<1>2. ASSUME NEW c \in Clients, NEW a \in Users, NEW v \in Vaults, CreateVault(c, a, v)
      PROVE  /\ vaults' \subseteq drawn' /\ drawn \subseteq drawn'
             /\ \A w \in vaults' \cap drawn : w \in vaults /\ owner'[w] \in {None, owner[w]}
  BY <1>2 DEF CreateVault, TypeInv, TypeOK
<1>3. ASSUME NEW c \in Clients, DeleteUser(c) \/ DeleteProject(c)
      PROVE  /\ vaults' \subseteq drawn' /\ drawn \subseteq drawn'
             /\ \A w \in vaults' \cap drawn : w \in vaults /\ owner'[w] \in {None, owner[w]}
  BY <1>3 DEF DeleteUser, DeleteProject, TypeInv, TypeOK
<1>4. ASSUME NEW c \in Clients, AccountOp(c), ~DeleteUser(c)
      PROVE  UNCHANGED <<vaults, owner>> /\ drawn \subseteq drawn'
  BY <1>4 DEF AccountOp, BeginUserCreate, BeginCreateAccount, CreateUser, BeginDeleteAccount,
              CountAdmins, CheckSoleManager, places
<1>5. ASSUME NEW c \in Clients, VaultOp(c), ~DeleteProject(c),
             ~\E a \in Users, v \in Vaults : CreateVault(c, a, v)
      PROVE  UNCHANGED <<vaults, owner>> /\ drawn \subseteq drawn'
  BY <1>5 DEF VaultOp, ReadVault, RequireVault, EnterOwnVault, SetVaultMember, ListVaultMembers,
              RemoveVaultMember, RunVaultUnshare, places
<1>6. ASSUME NEW c \in Clients, ShareOp(c) \/ Abandon(c)
      PROVE  UNCHANGED <<vaults, owner>> /\ drawn \subseteq drawn'
  BY <1>6 DEF ShareOp, SecretOf, SecretToShare, ShellSecretOf, SetSecretShare, RemoveSecretShare, Abandon, places
<1>7. ASSUME \/ \E v \in Vaults, s \in Secrets : PutSecret(v, s)
             \/ \E v \in Vaults : DeleteSecret(v)
             \/ UNCHANGED vars
      PROVE  UNCHANGED <<vaults, owner>> /\ drawn \subseteq drawn'
  BY <1>7 DEF PutSecret, DeleteSecret, vars
<1> QED
  BY <1>1, <1>2, <1>3, <1>4, <1>5, <1>6, <1>7, Surfaces DEF Next

LEMMA OwnerKnownStep == CheckInv /\ [Next]_vars => OwnerKnown'
<1> SUFFICES ASSUME CheckInv, [Next]_vars, NEW c \in Clients,
                    ops'[c].at \in {"vault", "managing"}
             PROVE  /\ ops'[c].vault \in drawn'
                    /\ ops'[c].vault \in vaults' => owner'[ops'[c].vault] \in {None, ops'[c].owner}
  BY DEF OwnerKnown
<1>1. CASE ops'[c] = ops[c]
  BY <1>1, OwnersStep DEF CheckInv, OwnerKnown
<1>2. CASE ops'[c] # ops[c]
  <2>1. AccountOp(c) \/ VaultOp(c) \/ ShareOp(c) \/ Abandon(c)
    BY <1>2, Moves DEF CheckInv
  <2>2. ops \in [Clients -> Op] /\ ops[c] \in Op
    BY DEF CheckInv, TypeInv, TypeOK
  <2>3. ASSUME NEW a \in Users, NEW v \in Vaults, ReadVault(c, a, v)
        PROVE  /\ ops'[c].vault \in drawn'
               /\ ops'[c].vault \in vaults' => owner'[ops'[c].vault] \in {None, ops'[c].owner}
    <3>1. ops'[c].vault = v /\ ops'[c].owner = owner[v]
      BY <2>2, <2>3 DEF ReadVault, Become, Idle
    <3> QED
      BY <2>3, <3>1 DEF ReadVault, places, CheckInv
  <2>4. CASE RequireVault(c)
    <3>1. PICK s : ops'[c] = [ops[c] EXCEPT !.at = s]
      BY <2>4, Became DEF RequireVault, CheckInv
    <3>2. ops'[c].vault = ops[c].vault /\ ops'[c].owner = ops[c].owner
      BY <2>2, <3>1 DEF Op
    <3> QED
      BY <2>4, <3>2, OwnersStep DEF RequireVault, At, CheckInv, OwnerKnown
  <2>4a. CASE SecretToShare(c)
    <3>1. PICK s : ops'[c] = [ops[c] EXCEPT !.secret = s]
      BY <2>4a, Became DEF SecretToShare, CheckInv
    <3>2. ops'[c].vault = ops[c].vault /\ ops'[c].owner = ops[c].owner
      BY <2>2, <3>1 DEF Op
    <3> QED
      BY <2>4a, <3>2, OwnersStep DEF SecretToShare, At, CheckInv, OwnerKnown
  <2>5. RequireVault(c) \/ SecretToShare(c) \/ \E a \in Users, v \in Vaults : ReadVault(c, a, v)
    BY <1>2, <2>1, AccountStages, VaultStages, ShareStages DEF CheckInv
  <2> QED
    BY <2>3, <2>4, <2>4a, <2>5
<1> QED
  BY <1>1, <1>2

THEOREM CheckInvStep == CheckInv /\ [Next]_vars => CheckInv'
BY TypeInvStep, CountedStep, OwnersStep, OwnerKnownStep DEF CheckInv

\* Where the managers counted by a check are still the managers when it is acted
\* on, acting on it leaves a manager: the removal of a member and the deletion of
\* an account look at the right thing, if not at the right time.
THEOREM CheckedRemovals == Spec => CheckedRemovalIsSafe
<1>1. ASSUME CheckInv, [Next]_vars, NEW c \in Clients, ops[c].at \in {"listed", "cleared"},
             ops'[c] = Idle, NEW v \in vaults, Managers(v) # {}, ops[c].seen[v] = Managers(v)
      PROVE  Managers(v)' # {}
  <2>0. v \in Vaults /\ TypeInv
    BY <1>1 DEF CheckInv, TypeInv, TypeOK
  <2>1. CASE At(c, "cleared") /\ DeleteUser(c)
    <3>1. Managers(v) # {ops[c].target}
      BY <1>1, <2>0, <2>1 DEF CheckInv, Counted
    <3>2. PICK m \in Managers(v) : m # ops[c].target
      BY <1>1, <3>1
    <3>3. m \in Managers(v)'
      BY <2>0, <2>1, <3>2 DEF DeleteUser, Managers, TypeInv, TypeOK
    <3> QED
      BY <3>3
  <2>2. ASSUME NEW u \in Users, RemoveVaultMember(c, u) PROVE Managers(v)' # {}
    <3>1. PICK m \in Managers(v) : v = ops[c].vault => m # u
      BY <1>1, <2>2 DEF RemoveVaultMember, LastManager
    <3>2. m \in Managers(v)'
      BY <2>0, <2>2, <3>1 DEF RemoveVaultMember, Managers, people, TypeInv, TypeOK
    <3> QED
      BY <3>2
  <2>3. CASE Abandon(c)
    BY <1>1, <2>3 DEF Abandon, people, Managers
  <2> QED
    BY <1>1, <2>0, <2>1, <2>2, <2>3, Removals
<1>2. CheckInv /\ [Next]_vars =>
        [\A c \in Clients : ops[c].at \in {"listed", "cleared"} /\ ops'[c] = Idle =>
           \A v \in vaults :
             Managers(v) # {} /\ ops[c].seen[v] = Managers(v) => Managers(v)' # {}]_vars
  BY <1>1
<1> QED
  BY <1>2, CheckInvInit, CheckInvStep, PTL DEF Spec, CheckedRemovalIsSafe

\* A vault with an owner is only ever destroyed by a request of that owner.
THEOREM OwnersDestroy == Spec => DestroyedByItsOwner
<1>1. ASSUME CheckInv, [Next]_vars, NEW v \in vaults \ vaults', owner[v] # None
      PROVE  \E c \in Clients : ops[c].vault = v /\ ops[c].actor = owner[v] /\ ops'[c] = Idle
  <2>1. PICK c \in Clients : DeleteProject(c)
    BY <1>1, Surfaces DEF Next, AccountOp, VaultOp, ShareOp, Abandon, PutSecret, DeleteSecret, vars,
                BeginUserCreate, BeginCreateAccount, CreateUser, BeginDeleteAccount, CountAdmins,
                CheckSoleManager, DeleteUser, CreateVault, ReadVault, RequireVault, EnterOwnVault,
                SetVaultMember, ListVaultMembers, RemoveVaultMember, RunVaultUnshare, SecretOf, SecretToShare,
                ShellSecretOf, SetSecretShare, RemoveSecretShare, places
  <2>2. v = ops[c].vault
    BY <1>1, <2>1 DEF DeleteProject
  <2>3. owner[v] = ops[c].owner
    BY <1>1, <2>1, <2>2 DEF DeleteProject, ownsVault, CheckInv, OwnerKnown, At
  <2>4. ops'[c] = Idle
    BY <1>1, <2>1, Became DEF DeleteProject, Finish, CheckInv
  <2> QED
    BY <1>1, <2>1, <2>2, <2>3, <2>4 DEF DeleteProject, ownsVault
<1>2. CheckInv /\ [Next]_vars =>
        [\A v \in vaults \ vaults' : owner[v] # None =>
           \E c \in Clients : ops[c].vault = v /\ ops[c].actor = owner[v] /\ ops'[c] = Idle]_vars
  BY <1>1
<1> QED
  BY <1>2, CheckInvInit, CheckInvStep, PTL DEF Spec, DestroyedByItsOwner
================================================================================
