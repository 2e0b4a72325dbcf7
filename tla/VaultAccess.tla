------------------------------ MODULE VaultAccess ------------------------------
(***************************************************************************)
(* Who may do what: the accounts of the server, the administrators and the *)
(* root account among them, who owns each vault, who is a member of it,    *)
(* and with whom a secret is shared on its own.                            *)
(*                                                                         *)
(* The web server and the command line check first and act later, each in  *)
(* statements of its own, so that what was checked may have changed by the *)
(* time it is acted on.  One SQL statement is one step.  Reader and writer *)
(* are one role here, "member": they differ in what they may do to a       *)
(* secret, never in who may be let in, put out or deleted.                 *)
(*                                                                         *)
(* internal/store/repo_access.go, repo_user.go and repo_project.go,        *)
(* internal/web/members.go, accounts.go, access.go and vaults.go,          *)
(* cmd/synsec/sharecmd.go, usercmd.go and vaultcmd.go                      *)
(***************************************************************************)
EXTENDS Naturals, FiniteSets

CONSTANTS
  Users,    \* account identifiers, drawn at random and never reused
  Vaults,   \* vault identifiers, the same
  Secrets,  \* secret identifiers, the same
  Clients,  \* requests of the web server and commands of the shell
  Shells,   \* those that are commands
  None

ASSUME ShellAssumption == Shells \subseteq Clients
ASSUME NoOneAssumption == None \notin Users \cup Vaults \cup Secrets

VARIABLES
  users,   \* the accounts there are
  admins,  \* those with is_admin
  roots,   \* those with is_root
  vaults,  \* the vaults there are
  owner,   \* projects.owner_id, or None
  member,  \* vault_members: the role of each account on each vault
  secret,  \* the secret in each vault, or None (one name is enough)
  shared,  \* secret_shares: whom each secret is shared with
  drawn,   \* every identifier drawn so far
  ops      \* per client: the request in flight

vars == <<users, admins, roots, vaults, owner, member, secret, shared, drawn, ops>>
people == <<users, admins, roots>>
places == <<vaults, owner, secret>>

Roles == {"none", "member", "manager"}
Managers(v) == {u \in users : member[v][u] = "manager"}

(***************************************************************************)
(* A request: how far it is, and what it has read and keeps.               *)
(*   "vault"     requireVault has read the vault                           *)
(*   "managing"  and seen that its actor is a manager                      *)
(*   "listed"    removeMember has listed the members                       *)
(*   "secret"    the secret of a share has been looked up                  *)
(*   "created"   createVault has its vault and no member yet               *)
(*   "account"   an account may be created                                 *)
(*   "deleting", "counted", "cleared"  the checks of an account's deletion *)
(***************************************************************************)
Stages == {"idle", "vault", "managing", "listed", "secret", "created", "account",
           "deleting", "counted", "cleared"}

Op == [at : Stages,
       actor : Users \cup {None},      \* who asks; None: a shell, unidentified
       vault : Vaults \cup {None},
       owner : Users \cup {None},      \* owner_id, as requireVault read it
       secret : Secrets \cup {None},
       target : Users \cup {None},     \* the account being deleted
       first : BOOLEAN,                \* CountUsers() = 0
       seen : [Vaults -> SUBSET Users]]\* the managers the last check counted

NoneSeen == [v \in Vaults |-> {}]
Idle == [at |-> "idle", actor |-> None, vault |-> None, owner |-> None, secret |-> None,
         target |-> None, first |-> FALSE, seen |-> NoneSeen]

TypeOK ==
  /\ users \subseteq Users /\ admins \subseteq Users /\ roots \subseteq Users
  /\ vaults \subseteq Vaults
  /\ owner \in [Vaults -> Users \cup {None}]
  /\ member \in [Vaults -> [Users -> Roles]]
  /\ secret \in [Vaults -> Secrets \cup {None}]
  /\ shared \in [Secrets -> SUBSET Users]
  /\ drawn \subseteq Users \cup Vaults \cup Secrets
  /\ ops \in [Clients -> Op]

Init ==
  /\ users = {} /\ admins = {} /\ roots = {} /\ vaults = {} /\ drawn = {}
  /\ owner = [v \in Vaults |-> None]
  /\ member = [v \in Vaults |-> [u \in Users |-> "none"]]
  /\ secret = [v \in Vaults |-> None]
  /\ shared = [s \in Secrets |-> {}]
  /\ ops = [c \in Clients |-> Idle]

At(c, stage) == ops[c].at = stage
Become(c, o) == ops' = [ops EXCEPT ![c] = o]
Finish(c) == Become(c, Idle)

Web(c) == c \notin Shells

\* A session, or the password typed for a command, of an account that exists.
authenticate(a) == a \in users

VaultRole(v, u) == member[v][u]

--------------------------------------------------------------------------------
(* Accounts *)

\* synsec utilisateur create: free for the first account, against the recovery
\* code afterwards.  Then the password is asked for.
BeginUserCreate(c) ==
  /\ At(c, "idle") /\ c \in Shells
  /\ Become(c, [Idle EXCEPT !.at = "account", !.first = (users = {})])
  /\ UNCHANGED <<people, places, member, shared, drawn>>

\* The accounts page, for administrators.
BeginCreateAccount(c, a) ==
  /\ At(c, "idle") /\ a \in admins
  /\ Become(c, [Idle EXCEPT !.at = "account", !.actor = a])
  /\ UNCHANGED <<people, places, member, shared, drawn>>

createAccount(c) == Web(c) /\ \E a \in Users : BeginCreateAccount(c, a)

\* The first account is the root account, and an administrator.
CreateUser(c, u, admin) ==
  /\ At(c, "account")
  /\ u \notin drawn
  /\ users' = users \cup {u}
  /\ admins' = IF admin \/ ops[c].first THEN admins \cup {u} ELSE admins
  /\ roots' = IF ops[c].first THEN roots \cup {u} ELSE roots
  /\ drawn' = drawn \cup {u}
  /\ Finish(c)
  /\ UNCHANGED <<places, member, shared>>

\* deleteAccount, by an administrator, of somebody else; synsec utilisateur rm,
\* by whoever holds the recovery code.  The target's row is read.
BeginDeleteAccount(c, a, u) ==
  /\ At(c, "idle")
  /\ \/ a \in admins /\ a # u
     \/ a = None /\ c \in Shells
  /\ u \in users
  /\ Become(c, [Idle EXCEPT !.at = "deleting", !.actor = a, !.target = u])
  /\ UNCHANGED <<people, places, member, shared, drawn>>

deleteAccount(c) == Web(c) /\ \E a, u \in Users : BeginDeleteAccount(c, a, u)
runUserRemove(c) == \E u \in Users : BeginDeleteAccount(c, None, u)

\* A plausible bug: the root account is held for an administrator like another.
CountAdminsOnly(c) ==
  LET u == ops[c].target
  IN /\ At(c, "deleting")
     /\ u \in admins => Cardinality(admins) > 1
     /\ Become(c, [ops[c] EXCEPT !.at = "counted"])
     /\ UNCHANGED <<people, places, member, shared, drawn>>

\* Neither the root account nor the last administrator.
CountAdmins(c) ==
  LET u == ops[c].target
  IN /\ At(c, "deleting")
     /\ u \notin roots
     /\ u \in admins => Cardinality(admins) > 1
     /\ Become(c, [ops[c] EXCEPT !.at = "counted"])
     /\ UNCHANGED <<people, places, member, shared, drawn>>

SoleManages(u, v) == Managers(v) = {u}

\* Nor the only manager of some vault.
CheckSoleManager(c) ==
  /\ At(c, "counted")
  /\ \A v \in Vaults : ~SoleManages(ops[c].target, v)
  /\ Become(c, [ops[c] EXCEPT !.at = "cleared", !.seen = [v \in Vaults |-> Managers(v)]])
  /\ UNCHANGED <<people, places, member, shared, drawn>>

\* The schema takes the memberships and the shares along, and empties owner_id.
DeleteUser(c) ==
  LET u == ops[c].target
  IN /\ At(c, "cleared")
     /\ u \in users
     /\ users' = users \ {u} /\ admins' = admins \ {u} /\ roots' = roots \ {u}
     /\ owner' = [v \in Vaults |-> IF owner[v] = u THEN None ELSE owner[v]]
     /\ member' = [v \in Vaults |-> [member[v] EXCEPT ![u] = "none"]]
     /\ shared' = [s \in Secrets |-> shared[s] \ {u}]
     /\ Finish(c)
     /\ UNCHANGED <<vaults, secret, drawn>>

--------------------------------------------------------------------------------
(* Vaults *)

\* A plausible bug: what is recorded as the owner is not an account.
CreateVaultForRequest(c, a, v) ==
  /\ At(c, "idle") /\ authenticate(a)
  /\ v \notin drawn
  /\ vaults' = vaults \cup {v}
  /\ owner' = [owner EXCEPT ![v] = c]
  /\ drawn' = drawn \cup {v}
  /\ Become(c, [Idle EXCEPT !.at = "created", !.actor = a, !.vault = v])
  /\ UNCHANGED <<people, secret, member, shared>>

\* manager.CreateVault: the vault has its owner, and no member.
CreateVault(c, a, v) ==
  /\ At(c, "idle") /\ authenticate(a)
  /\ v \notin drawn
  /\ vaults' = vaults \cup {v}
  /\ owner' = [owner EXCEPT ![v] = a]
  /\ drawn' = drawn \cup {v}
  /\ Become(c, [Idle EXCEPT !.at = "created", !.actor = a, !.vault = v])
  /\ UNCHANGED <<people, secret, member, shared>>

createVault(c) == Web(c) /\ \E a \in Users, v \in Vaults : CreateVault(c, a, v)
runVaultCreate(c) == c \in Shells /\ \E a \in Users, v \in Vaults : CreateVault(c, a, v)

\* Then its creator is made its manager, unless one of the two is gone.
EnterOwnVault(c) ==
  LET o == ops[c]
  IN /\ At(c, "created")
     /\ o.actor \in users /\ o.vault \in vaults
     /\ member' = [member EXCEPT ![o.vault][o.actor] = "manager"]
     /\ Finish(c)
     /\ UNCHANGED <<people, places, shared, drawn>>

\* The vault is read, by its identifier or its name.
ReadVault(c, a, v) ==
  /\ At(c, "idle") /\ authenticate(a)
  /\ v \in vaults
  /\ Become(c, [Idle EXCEPT !.at = "vault", !.actor = a, !.vault = v, !.owner = owner[v]])
  /\ UNCHANGED <<people, places, member, shared, drawn>>

\* Then the role on it.  A command may have looked a secret up before.
RequireVault(c) ==
  LET o == ops[c]
  IN /\ At(c, "vault")
     /\ VaultRole(o.vault, o.actor) = "manager"
     /\ Become(c, [o EXCEPT !.at = IF o.secret = None THEN "managing" ELSE "secret"])
     /\ UNCHANGED <<people, places, member, shared, drawn>>

requireVault(c) == Web(c) /\ RequireVault(c)
requireVaultRole(c) == c \in Shells /\ RequireVault(c)

\* A plausible bug: managing a vault is enough to destroy it.
DeleteProjectManaged(c) ==
  LET v == ops[c].vault
  IN /\ At(c, "managing")
     /\ v \in vaults
     /\ vaults' = vaults \ {v}
     /\ owner' = [owner EXCEPT ![v] = None]
     /\ member' = [member EXCEPT ![v] = [u \in Users |-> "none"]]
     /\ secret' = [secret EXCEPT ![v] = None]
     /\ shared' = [s \in Secrets |-> IF s = secret[v] THEN {} ELSE shared[s]]
     /\ Finish(c)
     /\ UNCHANGED <<people, drawn>>

\* Only the owner, or any manager of a vault that has none.
ownsVault(c) == ops[c].owner \in {None, ops[c].actor}

\* Secrets, memberships and shares go with a vault.
DeleteProject(c) ==
  LET v == ops[c].vault
  IN /\ At(c, "managing")
     /\ ownsVault(c)
     /\ v \in vaults
     /\ vaults' = vaults \ {v}
     /\ owner' = [owner EXCEPT ![v] = None]
     /\ member' = [member EXCEPT ![v] = [u \in Users |-> "none"]]
     /\ secret' = [secret EXCEPT ![v] = None]
     /\ shared' = [s \in Secrets |-> IF s = secret[v] THEN {} ELSE shared[s]]
     /\ Finish(c)
     /\ UNCHANGED <<people, drawn>>

deleteVault(c) == Web(c) /\ DeleteProject(c)
runVaultDelete(c) == c \in Shells /\ DeleteProject(c)

\* Secrets come and go by the hand of writers and managers.
PutSecret(v, s) ==
  /\ v \in vaults /\ secret[v] = None
  /\ s \notin drawn
  /\ secret' = [secret EXCEPT ![v] = s]
  /\ drawn' = drawn \cup {s}
  /\ UNCHANGED <<people, vaults, owner, member, shared, ops>>

DeleteSecret(v) ==
  /\ secret[v] # None
  /\ shared' = [shared EXCEPT ![secret[v]] = {}]
  /\ secret' = [secret EXCEPT ![v] = None]
  /\ UNCHANGED <<people, vaults, owner, member, drawn, ops>>

--------------------------------------------------------------------------------
(* Members *)

\* An upsert, which demotes as well as it promotes.
\* An account or a vault that is gone fails a foreign key.
SetVaultMember(c, u, role) ==
  LET v == ops[c].vault
  IN /\ At(c, "managing")
     /\ u \in users /\ v \in vaults
     /\ role # "none"
     /\ member' = [member EXCEPT ![v][u] = role]
     /\ Finish(c)
     /\ UNCHANGED <<people, places, shared, drawn>>

addMember(c) == Web(c) /\ \E u \in Users, role \in Roles : SetVaultMember(c, u, role)
runVaultShare(c) == c \in Shells /\ \E u \in Users, role \in Roles : SetVaultMember(c, u, role)

\* removeMember lists the members, to see whether this is the last manager.
ListVaultMembers(c) ==
  LET v == ops[c].vault
  IN /\ At(c, "managing") /\ Web(c)
     /\ Become(c, [ops[c] EXCEPT !.at = "listed", !.seen = [NoneSeen EXCEPT ![v] = Managers(v)]])
     /\ UNCHANGED <<people, places, member, shared, drawn>>

\* A plausible bug: the one to be removed is counted among the others.
NoManagerLeft(seen, u) == u \in seen /\ Cardinality(seen) = 0

LastManager(seen, u) == seen = {u}

RemoveVaultMember(c, u) ==
  LET v == ops[c].vault
  IN /\ At(c, "listed")
     /\ ~LastManager(ops[c].seen[v], u)
     /\ member[v][u] # "none"
     /\ member' = [member EXCEPT ![v][u] = "none"]
     /\ Finish(c)
     /\ UNCHANGED <<people, places, shared, drawn>>

removeMember(c) == \E u \in Users : RemoveVaultMember(c, u)

\* synsec coffre retirer asks who it is of nobody, and counts no manager.
RunVaultUnshare(c, v, u) ==
  /\ At(c, "idle") /\ c \in Shells
  /\ member[v][u] # "none"
  /\ member' = [member EXCEPT ![v][u] = "none"]
  /\ UNCHANGED <<people, places, shared, drawn, ops>>

--------------------------------------------------------------------------------
(* Shares of one secret *)

\* The pages of a manager look the secret up by its name.
SecretOf(c) ==
  LET s == secret[ops[c].vault]
  IN /\ At(c, "managing") /\ Web(c)
     /\ s # None
     /\ Become(c, [ops[c] EXCEPT !.at = "secret", !.secret = s])
     /\ UNCHANGED <<people, places, member, shared, drawn>>

\* synsec secret partager does so first, and asks who it is of afterwards.
SecretToShare(c) ==
  LET s == secret[ops[c].vault]
  IN /\ At(c, "vault") /\ c \in Shells
     /\ s # None
     /\ Become(c, [ops[c] EXCEPT !.secret = s])
     /\ UNCHANGED <<people, places, member, shared, drawn>>

\* So does synsec secret retirer, which asks who it is of nobody.
ShellSecretOf(c, v) ==
  /\ At(c, "idle") /\ c \in Shells
  /\ secret[v] # None
  /\ Become(c, [Idle EXCEPT !.at = "secret", !.vault = v, !.secret = secret[v]])
  /\ UNCHANGED <<people, places, member, shared, drawn>>

\* A plausible bug: the schema does not tie a share to its secret.
SetShareUntied(c, u) ==
  LET s == ops[c].secret
  IN /\ At(c, "secret") /\ ops[c].actor # None
     /\ u \in users
     /\ shared' = [shared EXCEPT ![s] = @ \cup {u}]
     /\ Finish(c)
     /\ UNCHANGED <<people, places, member, drawn>>

\* What follows goes by identifier: a secret deleted since fails a foreign key.
SetSecretShare(c, u) ==
  LET s == ops[c].secret
  IN /\ At(c, "secret") /\ ops[c].actor # None
     /\ u \in users
     /\ \E v \in vaults : secret[v] = s
     /\ shared' = [shared EXCEPT ![s] = @ \cup {u}]
     /\ Finish(c)
     /\ UNCHANGED <<people, places, member, drawn>>

RemoveSecretShare(c, u) ==
  LET s == ops[c].secret
  IN /\ At(c, "secret")
     /\ u \in shared[s]
     /\ shared' = [shared EXCEPT ![s] = @ \ {u}]
     /\ Finish(c)
     /\ UNCHANGED <<people, places, member, drawn>>

addShare(c) == Web(c) /\ \E u \in Users : SetSecretShare(c, u)
runSecretShare(c) == c \in Shells /\ \E u \in Users : SetSecretShare(c, u)
removeShare(c) == Web(c) /\ \E u \in Users : RemoveSecretShare(c, u)
runSecretUnshare(c) ==
  c \in Shells /\ ops[c].actor = None /\ \E u \in Users : RemoveSecretShare(c, u)

\* A request is refused by a check, fails, or dies with its process.
Abandon(c) ==
  /\ ~At(c, "idle")
  /\ Finish(c)
  /\ UNCHANGED <<people, places, member, shared, drawn>>

--------------------------------------------------------------------------------
AccountStep(c) ==
  \/ BeginUserCreate(c) \/ createAccount(c)
  \/ \E u \in Users, admin \in BOOLEAN : CreateUser(c, u, admin)
  \/ deleteAccount(c) \/ runUserRemove(c)
  \/ CountAdmins(c) \/ CheckSoleManager(c) \/ DeleteUser(c)

VaultStep(c) ==
  \/ createVault(c) \/ runVaultCreate(c) \/ EnterOwnVault(c)
  \/ \E a \in Users, v \in Vaults : ReadVault(c, a, v)
  \/ requireVault(c) \/ requireVaultRole(c)
  \/ deleteVault(c) \/ runVaultDelete(c)
  \/ addMember(c) \/ runVaultShare(c)
  \/ ListVaultMembers(c) \/ removeMember(c)
  \/ \E v \in Vaults, u \in Users : RunVaultUnshare(c, v, u)

ShareStep(c) ==
  \/ SecretOf(c) \/ SecretToShare(c)
  \/ \E v \in Vaults : ShellSecretOf(c, v)
  \/ addShare(c) \/ runSecretShare(c) \/ removeShare(c) \/ runSecretUnshare(c)

Next ==
  \/ \E c \in Clients : AccountStep(c) \/ VaultStep(c) \/ ShareStep(c) \/ Abandon(c)
  \/ \E v \in Vaults, s \in Secrets : PutSecret(v, s)
  \/ \E v \in Vaults : DeleteSecret(v)

Spec == Init /\ [][Next]_vars

--------------------------------------------------------------------------------
(* Safety *)

\* Nothing is granted to an account that is gone, on a vault or a secret that is
\* gone, nor owned by one: whatever a request read before the deletion, its write
\* cannot bring any of it back.
NoDanglingGrant ==
  /\ admins \cup roots \subseteq users
  /\ \A v \in Vaults :
       /\ owner[v] \in users \cup {None}
       /\ \A u \in Users : member[v][u] # "none" => u \in users /\ v \in vaults
       /\ owner[v] # None \/ secret[v] # None => v \in vaults
  /\ \A s \in Secrets : shared[s] \subseteq users
  /\ \A s \in Secrets : shared[s] # {} => \E v \in vaults : secret[v] = s

\* Deletions checked side by side never take the root account: once there is an
\* account there is exactly one root, an administrator ("rien ne peut prendre sa
\* place ensuite").  For one shell: see the README for two.
OneRootAccount == users # {} => \E r \in admins : roots = {r}

--------------------------------------------------------------------------------
(* What a step may never do *)

\* A member is removed, or an account, on the strength of a count of managers:
\* where the count still holds, a manager remains.
CheckedRemovalIsSafe ==
  [][\A c \in Clients : ops[c].at \in {"listed", "cleared"} /\ ops'[c] = Idle =>
       \A v \in vaults :
         Managers(v) # {} /\ ops[c].seen[v] = Managers(v) => Managers(v)' # {}]_vars

\* A vault whose owner is there is destroyed by its owner, on a check made by the
\* very request that destroys it.
DestroyedByItsOwner ==
  [][\A v \in vaults \ vaults' : owner[v] # None =>
       \E c \in Clients : ops[c].vault = v /\ ops[c].actor = owner[v] /\ ops'[c] = Idle]_vars
================================================================================
