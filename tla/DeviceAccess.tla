----------------------------- MODULE DeviceAccess -----------------------------
(***************************************************************************)
(* Devices that call the API with a service token, and the people who      *)
(* connect, narrow and revoke them and pin secrets to addresses meanwhile: *)
(* internal/api/middleware.go and secrets.go over the rows of              *)
(* internal/store/repo_token.go and repo_network.go, beside                *)
(* internal/web/tokens.go, networks.go and vaults.go and their commands    *)
(* (cmd/synsec/tokencmd.go, networkcmd.go, secretcmd.go).                  *)
(*                                                                         *)
(* One vault.  A secret is its name and the row that holds it; what it     *)
(* contains is in VaultKeys, and who among people may do what is in        *)
(* VaultAccess.  Every statement of the database is a step of its own.     *)
(***************************************************************************)
EXTENDS Integers, FiniteSets

CONSTANTS Names,      \* names of secrets
          Tokens,     \* service tokens
          Addresses,  \* client addresses; a network is a set of them
          Calls,      \* calls of devices in flight
          People,     \* requests and commands of people in flight
          MaxRows,    \* bound: secrets ever created
          MaxActs     \* bound: operations that people start

ASSUME BoundsAssumption == MaxRows \in Nat /\ MaxActs \in Nat

VARIABLES
  row,     \* [Names -> the row of the secret, 0 for none]
  rows,    \* secrets created so far
  nets,    \* [1..MaxRows -> the addresses the secret is pinned to, {} for any]
  tok,     \* [Tokens -> their row in service_tokens and token_secrets]
  shown,   \* tokens whose plaintext somebody has
  call,    \* [Calls -> where a call is and what it has read]
  hand,    \* [People -> where somebody's operation is and what it has read]
  acts,    \* operations people have started
  asked,   \* history: [Tokens -> the scopes somebody asked them to have]
  since    \* history: [Calls -> what has been true at some moment since it began]

data == <<row, rows, nets, tok>>
vars == <<row, rows, nets, tok, shown, call, hand, acts, asked, since>>

Rows == 1..MaxRows
Ops == {"list", "get", "put", "delete"}

\* A row of service_tokens, with the names in token_secrets: none is the whole
\* vault.  A token without an expiry is one that does not expire in this run.
Token == [stored : BOOLEAN, revoked : BOOLEAN, expired : BOOLEAN, canWrite : BOOLEAN,
          allow : SUBSET Addresses, secrets : SUBSET Names]

NoToken == [stored |-> FALSE, revoked |-> FALSE, expired |-> FALSE, canWrite |-> FALSE,
            allow |-> {}, secrets |-> {}]

Live(t) == t.stored /\ ~t.revoked /\ ~t.expired
AllowsSecret(scope, name) == scope = {} \/ name \in scope
AddressAllowed(entries, ip) == entries = {} \/ ip \in entries

Idle == [pc |-> "idle"]

\* A call, with whether its token was revoked when its row was read and the row
\* of the secret it has found.
Call == [pc : {"row", "scope", "meta", "networks", "act", "served"},
         tok : Tokens, op : Ops, name : Names, ip : Addresses,
         revoked : BOOLEAN, secret : 0..MaxRows]

\* What somebody is doing: a token and the scope it shall have, a name to write,
\* what is left of an import, a row and an address.
Scoping == [pc : {"scoping", "narrowing", "showing"}, tok : Tokens, secrets : SUBSET Names]
Saving == [pc : {"saving"}, name : Names]
Importing == [pc : {"importing"}, left : SUBSET Names]
Pinning == [pc : {"pinning", "unpinning"}, secret : Rows, ip : Addresses]
Hand == Scoping \cup Saving \cup Importing \cup Pinning

-----------------------------------------------------------------------------
(* The rows.                                                                *)

\* PutSecret of a name: its row, made if there is none.
Put(name) ==
  IF row[name] # 0
  THEN UNCHANGED <<row, rows>>
  ELSE /\ rows < MaxRows
       /\ rows' = rows + 1
       /\ row' = [row EXCEPT ![name] = rows + 1]

\* Mutant: the networks of a secret outlive it.
DeleteSecretAlone(name) ==
  /\ row' = [row EXCEPT ![name] = 0]
  /\ UNCHANGED <<nets, tok>>

\* Its networks go with it; the scopes that name it stay as they are.
DeleteSecret(name) ==
  /\ nets' = [nets EXCEPT ![row[name]] = {}]
  /\ row' = [row EXCEPT ![name] = 0]
  /\ UNCHANGED tok

-----------------------------------------------------------------------------
(* A call of a device.                                                      *)

\* A request carries a token and comes from an address.
get(c, op, name) ==
  /\ call[c].pc = "idle"
  /\ \E t \in shown, ip \in Addresses :
       call' = [call EXCEPT
                  ![c] = [pc |-> "row", tok |-> t, op |-> op, name |-> name, ip |-> ip,
                          revoked |-> FALSE, secret |-> 0]]
  /\ UNCHANGED <<data, shown, hand, acts, asked>>

\* The agent lists the names and asks for values one at a time; other devices
\* write and delete as well.
list(c) == \E name \in Names : get(c, "list", name)
value(c) == \E name \in Names : get(c, "get", name)
Other(c) == \E op \in {"put", "delete"}, name \in Names : get(c, op, name)

\* ServiceToken, first statement: the row of the token.
ReadRow(c) ==
  /\ call[c].pc = "row"
  /\ call' = [call EXCEPT ![c].pc = "scope", ![c].revoked = tok[call[c].tok].revoked]
  /\ UNCHANGED <<data, shown, hand, acts, asked>>

\* The token was live when its row was read, or has expired since; it may be
\* presented from that address.
authenticate(c) ==
  LET t == tok[call[c].tok]
  IN ~call[c].revoked /\ ~t.expired /\ AddressAllowed(t.allow, call[c].ip)

\* What it may do, and on which name.
scopedName(c) ==
  LET t == tok[call[c].tok]
  IN /\ call[c].op \in {"put", "delete"} => t.canWrite
     /\ AllowsSecret(t.secrets, call[c].name)

\* ServiceToken, second statement: its scope, and what it decides.
ReadScope(c) ==
  /\ call[c].pc = "scope"
  /\ call' = [call EXCEPT ![c] =
                IF authenticate(c) /\ scopedName(c)
                THEN [@ EXCEPT !.pc = IF call[c].op = "list" THEN "act" ELSE "meta"]
                ELSE Idle]
  /\ UNCHANGED <<data, shown, hand, acts, asked>>

\* SecretMeta: a name that is not there has nothing to read, and no address to check.
ReadMeta(c) ==
  /\ call[c].pc = "meta"
  /\ LET found == row[call[c].name]
     IN call' = [call EXCEPT ![c] =
                   IF found # 0 THEN [@ EXCEPT !.pc = "networks", !.secret = found]
                   ELSE IF call[c].op = "get" THEN Idle
                   ELSE [@ EXCEPT !.pc = "act"]]
  /\ UNCHANGED <<data, shown, hand, acts, asked>>

\* Mutant: the addresses govern reading only.
addressAllowedToRead(c) ==
  call[c].op # "get" \/ AddressAllowed(nets[call[c].secret], call[c].ip)

addressAllowed(c) == AddressAllowed(nets[call[c].secret], call[c].ip)

\* SecretAllowsAddress, of the row read before.
CheckAddress(c) ==
  /\ call[c].pc = "networks"
  /\ call' = [call EXCEPT ![c] = IF addressAllowed(c)
                                 THEN [@ EXCEPT !.pc = "act"] ELSE Idle]
  /\ UNCHANGED <<data, shown, hand, acts, asked>>

Served(c, secret) == call' = [call EXCEPT ![c].pc = "served", ![c].secret = secret]

\* listSecrets and getSecret, of whatever the name is now.
Read(c) ==
  /\ call[c].pc = "act" /\ call[c].op \in {"list", "get"}
  /\ IF row[call[c].name] # 0 THEN Served(c, row[call[c].name])
     ELSE call' = [call EXCEPT ![c] = Idle]
  /\ UNCHANGED <<data, shown, hand, acts, asked>>

Write(c) ==
  /\ call[c].pc = "act" /\ call[c].op = "put"
  /\ Put(call[c].name)
  /\ Served(c, row'[call[c].name])
  /\ UNCHANGED <<nets, tok, shown, hand, acts, asked>>

Delete(c) ==
  /\ call[c].pc = "act" /\ call[c].op = "delete"
  /\ IF row[call[c].name] # 0
     THEN DeleteSecret(call[c].name) /\ Served(c, row[call[c].name])
     ELSE /\ call' = [call EXCEPT ![c] = Idle]
          /\ UNCHANGED <<row, nets, tok>>
  /\ UNCHANGED <<rows, shown, hand, acts, asked>>

\* The answer is sent.
Answer(c) ==
  /\ call[c].pc = "served"
  /\ call' = [call EXCEPT ![c] = Idle]
  /\ UNCHANGED <<data, shown, hand, acts, asked>>

-----------------------------------------------------------------------------
(* What people do.                                                          *)

Starts(p) ==
  /\ hand[p].pc = "idle"
  /\ acts < MaxActs
  /\ acts' = acts + 1

Ends(p) == hand' = [hand EXCEPT ![p] = Idle]

\* Mutant: the plaintext is shown with the row, before the scope is written.
CreateAndShow(p, t, secrets, allow, canWrite) ==
  /\ Starts(p)
  /\ ~tok[t].stored
  /\ tok' = [tok EXCEPT ![t] = [NoToken EXCEPT !.stored = TRUE, !.allow = allow,
                                               !.canWrite = canWrite]]
  /\ hand' = [hand EXCEPT ![p] = [pc |-> "scoping", tok |-> t, secrets |-> secrets]]
  /\ shown' = shown \cup {t}
  /\ UNCHANGED <<row, rows, nets, call, asked>>

\* A token begins as a row, without its scope.
CreateServiceToken(p, t, secrets, allow, canWrite) ==
  /\ Starts(p)
  /\ ~tok[t].stored
  /\ tok' = [tok EXCEPT ![t] = [NoToken EXCEPT !.stored = TRUE, !.allow = allow,
                                               !.canWrite = canWrite]]
  /\ hand' = [hand EXCEPT ![p] = [pc |-> "scoping", tok |-> t, secrets |-> secrets]]
  /\ UNCHANGED <<row, rows, nets, shown, call, asked>>

\* The browser offers the secrets there are; the shell takes any name.
checkedSecrets == SUBSET {n \in Names : row[n] # 0}
splitList == SUBSET Names

createToken(p) ==
  \E t \in Tokens, secrets \in checkedSecrets, allow \in SUBSET Addresses, w \in BOOLEAN :
    CreateServiceToken(p, t, secrets, allow, w)

runTokenCreate(p) ==
  \E t \in Tokens, secrets \in splitList, allow \in SUBSET Addresses, w \in BOOLEAN :
    CreateServiceToken(p, t, secrets, allow, w)

\* SetTokenSecrets replaces the scope in one transaction.
SetTokenSecrets(p) ==
  /\ hand[p].pc \in {"scoping", "narrowing"}
  /\ tok' = [tok EXCEPT ![hand[p].tok].secrets = hand[p].secrets]
  /\ asked' = [asked EXCEPT ![hand[p].tok] = @ \cup {hand[p].secrets}]
  /\ IF hand[p].pc = "scoping" THEN hand' = [hand EXCEPT ![p].pc = "showing"] ELSE Ends(p)
  /\ UNCHANGED <<row, rows, nets, shown, call, acts>>

\* The plaintext is shown, once.
ShowToken(p) ==
  /\ hand[p].pc = "showing"
  /\ shown' = shown \cup {hand[p].tok}
  /\ Ends(p)
  /\ UNCHANGED <<data, call, acts, asked>>

\* The scope of a token that exists is about to be replaced.
Rescope(p, t, secrets) ==
  /\ Starts(p)
  /\ tok[t].stored
  /\ hand' = [hand EXCEPT ![p] = [pc |-> "narrowing", tok |-> t, secrets |-> secrets]]
  /\ UNCHANGED <<data, shown, call, asked>>

saveTokenScope(p) == \E t \in Tokens, secrets \in checkedSecrets : Rescope(p, t, secrets)

runTokenScope(p) == \E t \in Tokens, secrets \in splitList : Rescope(p, t, secrets)

\* The row stays; a token already revoked is refused.
RevokeServiceToken(t) ==
  /\ tok[t].stored /\ ~tok[t].revoked
  /\ tok' = [tok EXCEPT ![t].revoked = TRUE]

\* The page revokes a device of its vault, the shell any that it is given.
revokeToken(p) ==
  /\ Starts(p)
  /\ \E t \in Tokens : RevokeServiceToken(t)
  /\ UNCHANGED <<row, rows, nets, shown, call, hand, asked>>

runTokenRevoke(p) == revokeToken(p)

\* Looking whether the name is taken comes before writing it.
Save(p, name) ==
  /\ Starts(p)
  /\ hand' = [hand EXCEPT ![p] = [pc |-> "saving", name |-> name]]
  /\ UNCHANGED <<data, shown, call, asked>>

\* The form: a name that somebody creates is refused if it is taken.
saveSecret(p) ==
  \E name \in Names, editing \in BOOLEAN :
    (row[name] # 0 => editing) /\ Save(p, name)

\* The shell looks only to tell which right it takes.
runSecretSet(p) == \E name \in Names : Save(p, name)

\* Coming back to an older value is a write too: of a secret that was there
\* when its history was read, by name when it is written.
revertSecret(p) == \E name \in Names : row[name] # 0 /\ Save(p, name)

runSecretRevert(p) == revertSecret(p)

\* What an import will write: a name that is taken is left alone, unless it is
\* to be replaced.
takenNames == {n \in Names : row[n] # 0}
BuildPlan(entries, replace) == {n \in entries : n \notin takenNames \/ replace}

Import(p, plan) ==
  /\ Starts(p)
  /\ plan # {}
  /\ hand' = [hand EXCEPT ![p] = [pc |-> "importing", left |-> plan]]
  /\ UNCHANGED <<data, shown, call, asked>>

\* The page and the command plan first, then write the entries one by one; what
\* is written stays when a later one fails.
runImport(p) ==
  \E entries \in SUBSET Names, replace \in BOOLEAN : Import(p, BuildPlan(entries, replace))

ImportFile(p) == runImport(p)

PutEntry(p) ==
  /\ hand[p].pc = "importing"
  /\ \E name \in hand[p].left :
       /\ Put(name)
       /\ IF hand[p].left = {name} THEN Ends(p)
          ELSE hand' = [hand EXCEPT ![p].left = @ \ {name}]
  /\ UNCHANGED <<nets, tok, shown, call, acts, asked>>

\* And writing it, whatever has become of the name.
PutSecret(p) ==
  /\ hand[p].pc = "saving"
  /\ Put(hand[p].name)
  /\ Ends(p)
  /\ UNCHANGED <<nets, tok, shown, call, acts, asked>>

deleteSecret(p) ==
  /\ Starts(p)
  /\ \E name \in Names : row[name] # 0 /\ DeleteSecret(name)
  /\ UNCHANGED <<rows, shown, call, hand, asked>>

runSecretRemove(p) == deleteSecret(p)

\* A secret is pinned by its row, found by its name.
manageableSecret == {row[n] : n \in Names} \ {0}

Pin(p, pc) ==
  /\ Starts(p)
  /\ \E secret \in manageableSecret, ip \in Addresses :
       hand' = [hand EXCEPT ![p] = [pc |-> pc, secret |-> secret, ip |-> ip]]
  /\ UNCHANGED <<data, shown, call, asked>>

addNetwork(p) == Pin(p, "pinning")
runNetworkAdd(p) == Pin(p, "pinning")
removeNetwork(p) == Pin(p, "unpinning")
runNetworkRemove(p) == Pin(p, "unpinning")

Exists(secret) == \E name \in Names : row[name] = secret

\* The row must still be there: the table refers to it.
AddSecretNetwork(p) ==
  /\ hand[p].pc = "pinning"
  /\ nets' = IF Exists(hand[p].secret)
             THEN [nets EXCEPT ![hand[p].secret] = @ \cup {hand[p].ip}] ELSE nets
  /\ Ends(p)
  /\ UNCHANGED <<row, rows, tok, shown, call, acts, asked>>

RemoveSecretNetwork(p) ==
  /\ hand[p].pc = "unpinning"
  /\ nets' = [nets EXCEPT ![hand[p].secret] = @ \ {hand[p].ip}]
  /\ Ends(p)
  /\ UNCHANGED <<row, rows, tok, shown, call, acts, asked>>

\* The process stops, or a statement fails, between two steps.
Fails(p) ==
  /\ hand[p].pc # "idle"
  /\ Ends(p)
  /\ UNCHANGED <<data, shown, call, acts, asked>>

Expire(t) ==
  /\ tok[t].stored /\ ~tok[t].expired
  /\ tok' = [tok EXCEPT ![t].expired = TRUE]
  /\ UNCHANGED <<row, rows, nets, shown, call, hand, acts, asked>>

-----------------------------------------------------------------------------

Nothing == [live |-> FALSE, covered |-> FALSE, rows |-> {}]

\* What is true now, for the calls in flight, is added to what was since they began.
Watch ==
  since' = [c \in Calls |->
    IF call'[c].pc = "idle" THEN Nothing
    ELSE [live |-> since[c].live \/ Live(tok'[call'[c].tok]),
          covered |-> since[c].covered
                        \/ AllowsSecret(tok'[call'[c].tok].secrets, call'[c].name),
          rows |-> since[c].rows \cup
                     {r \in Rows : /\ \E name \in Names : row'[name] = r
                                   /\ AddressAllowed(nets'[r], call'[c].ip)}]]

Init ==
  /\ row = [n \in Names |-> 0] /\ rows = 0 /\ nets = [r \in Rows |-> {}]
  /\ tok = [t \in Tokens |-> NoToken] /\ shown = {}
  /\ call = [c \in Calls |-> Idle] /\ hand = [p \in People |-> Idle] /\ acts = 0
  /\ asked = [t \in Tokens |-> {}] /\ since = [c \in Calls |-> Nothing]

Device(c) == \/ list(c) \/ value(c) \/ Other(c) \/ ReadRow(c) \/ ReadScope(c) \/ ReadMeta(c)
             \/ CheckAddress(c) \/ Read(c) \/ Write(c) \/ Delete(c) \/ Answer(c)

Person(p) ==
  \/ createToken(p) \/ runTokenCreate(p) \/ saveTokenScope(p) \/ runTokenScope(p)
  \/ SetTokenSecrets(p) \/ ShowToken(p) \/ revokeToken(p) \/ runTokenRevoke(p)
  \/ saveSecret(p) \/ runSecretSet(p) \/ revertSecret(p) \/ runSecretRevert(p)
  \/ PutSecret(p) \/ deleteSecret(p) \/ runSecretRemove(p)
  \/ runImport(p) \/ ImportFile(p) \/ PutEntry(p)
  \/ addNetwork(p) \/ runNetworkAdd(p) \/ removeNetwork(p) \/ runNetworkRemove(p)
  \/ AddSecretNetwork(p) \/ RemoveSecretNetwork(p) \/ Fails(p)

Step == \/ \E c \in Calls : Device(c)
        \/ \E p \in People : Person(p)
        \/ \E t \in Tokens : Expire(t)

Next == Step /\ Watch

Spec == Init /\ [][Next]_vars

-----------------------------------------------------------------------------
(* Properties.                                                              *)

\* What the variables hold: rows are numbered as they are made, no two names
\* share one, and a row that is gone is pinned to nothing.
TypeOK ==
  /\ row \in [Names -> 0..MaxRows] /\ rows \in 0..MaxRows /\ acts \in 0..MaxActs
  /\ nets \in [Rows -> SUBSET Addresses]
  /\ tok \in [Tokens -> Token] /\ shown \subseteq {t \in Tokens : tok[t].stored}
  /\ call \in [Calls -> Call \cup {Idle}] /\ hand \in [People -> Hand \cup {Idle}]
  /\ asked \in [Tokens -> SUBSET SUBSET Names]
  /\ \A n \in Names : row[n] <= rows
  /\ \A m, n \in Names : row[m] = row[n] /\ row[m] # 0 => m = n
  /\ \A r \in Rows : nets[r] # {} => Exists(r)

\* What a call is served was allowed since it began: the token was live at some
\* moment since (so a call that begins after the revocation gets nothing), its
\* scope covered the name at some moment since, and the very row it reads,
\* overwrites or deletes admitted its address at some moment since - though the
\* address is checked on one row and the name is used later.
ServedWasAllowed ==
  \A c \in Calls : call[c].pc = "served" =>
    /\ since[c].live /\ since[c].covered
    /\ call[c].op # "list" => call[c].secret \in since[c].rows

\* A token never reaches a name that no scope it was asked to have covers: not
\* while it is created in two statements, not after a creation that stopped
\* between them, and not because a secret it names was deleted.
ReachOnlyAsked ==
  \A c \in Calls : call[c].pc = "served" =>
    \E secrets \in asked[call[c].tok] : AllowsSecret(secrets, call[c].name)
================================================================================
