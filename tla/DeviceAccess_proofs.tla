------------------------- MODULE DeviceAccess_proofs -------------------------
(***************************************************************************)
(* Proofs about DeviceAccess, for every number of secrets, tokens,         *)
(* addresses, calls of devices and operations of people in flight.         *)
(***************************************************************************)
EXTENDS DeviceAccess, TLAPS

\* Who is about to write the scope of a token, or to show it, has its row.
ScopingIsStored ==
  \A p \in People :
    hand[p].pc \in {"scoping", "narrowing", "showing"} => tok[hand[p].tok].stored

TypeInv == TypeOK /\ ScopingIsStored

--------------------------------------------------------------------------------
(***************************************************************************)
(* Types.  A call moves and nothing else, somebody's operation moves and   *)
(* nothing else, a row comes or goes, a token changes.                     *)
(***************************************************************************)
CallAlone == UNCHANGED <<data, shown, hand, acts, asked>>
HandAlone == UNCHANGED <<data, shown, call, asked>>

LEMMA CallMoves ==
  ASSUME TypeInv, NEW c \in Calls, NEW x \in Call \cup {Idle},
         call' = [call EXCEPT ![c] = x], CallAlone
  PROVE  TypeInv'
BY DEF TypeInv, TypeOK, ScopingIsStored, CallAlone, data, Exists

LEMMA HandMoves ==
  ASSUME TypeInv, NEW p \in People, NEW x \in Hand \cup {Idle},
         hand' = [hand EXCEPT ![p] = x], acts' \in 0..MaxActs, HandAlone,
         x.pc \in {"scoping", "narrowing", "showing"} => tok[x.tok].stored
  PROVE  TypeInv'
BY DEF TypeInv, TypeOK, ScopingIsStored, HandAlone, data, Exists

\* What a step of a call makes of it, where it changes nothing else.
LEMMA ReadingMovesTheCall ==
  ASSUME TypeInv, NEW c \in Calls,
         list(c) \/ value(c) \/ Other(c) \/ ReadRow(c) \/ ReadScope(c) \/ ReadMeta(c)
           \/ CheckAddress(c) \/ Read(c) \/ Answer(c)
  PROVE  /\ CallAlone
         /\ \E x \in Call \cup {Idle} : call' = [call EXCEPT ![c] = x]
<1>0. /\ call[c] \in Call \cup {Idle}
      /\ call[c].pc # "idle" => call[c] \in Call
  BY DEF TypeInv, TypeOK, Idle
<1>1. ASSUME NEW op \in Ops, NEW name \in Names, get(c, op, name)
      PROVE  \E x \in Call : call' = [call EXCEPT ![c] = x]
  <2>1. PICK t \in shown, ip \in Addresses :
          call' = [call EXCEPT ![c] =
                     [pc |-> "row", tok |-> t, op |-> op, name |-> name, ip |-> ip,
                      revoked |-> FALSE, secret |-> 0]]
    BY <1>1 DEF get
  <2>2. t \in Tokens /\ 0 \in 0..MaxRows
    BY BoundsAssumption DEF TypeInv, TypeOK
  <2> QED
    BY <2>1, <2>2 DEF Call
<1>2. CASE list(c) \/ value(c) \/ Other(c)
  <2>1. PICK op \in Ops, name \in Names : get(c, op, name)
    BY <1>2 DEF list, value, Other, Ops
  <2> QED
    BY <1>1, <2>1 DEF get, CallAlone
<1>3. CASE ReadRow(c)
  <2>1. call[c] \in Call /\ tok[call[c].tok].revoked \in BOOLEAN
    BY <1>0, <1>3 DEF ReadRow, TypeInv, TypeOK, Call, Token
  <2> QED
    BY <1>3, <2>1 DEF ReadRow, Call, CallAlone, TypeInv, TypeOK
<1>4. CASE ReadScope(c)
  <2>1. call[c] \in Call
    BY <1>0, <1>4 DEF ReadScope
  <2> QED
    BY <1>4, <2>1 DEF ReadScope, Call, CallAlone, TypeInv, TypeOK
<1>5. CASE ReadMeta(c)
  <2>1. call[c] \in Call /\ row[call[c].name] \in 0..MaxRows
    BY <1>0, <1>5 DEF ReadMeta, TypeInv, TypeOK, Call
  <2> QED
    BY <1>5, <2>1 DEF ReadMeta, Call, CallAlone, TypeInv, TypeOK
<1>6. CASE CheckAddress(c)
  <2>1. call[c] \in Call
    BY <1>0, <1>6 DEF CheckAddress
  <2> QED
    BY <1>6, <2>1 DEF CheckAddress, Call, CallAlone, TypeInv, TypeOK
<1>7. CASE Read(c)
  <2>1. call[c] \in Call /\ row[call[c].name] \in 0..MaxRows
    BY <1>0, <1>7 DEF Read, TypeInv, TypeOK, Call
  <2> QED
    BY <1>7, <2>1 DEF Read, Served, Call, CallAlone, TypeInv, TypeOK
<1>8. CASE Answer(c)
  BY <1>8 DEF Answer, CallAlone
<1> QED
  BY <1>2, <1>3, <1>4, <1>5, <1>6, <1>7, <1>8

\* A row comes, if the name has none, or stays.
LEMMA PutKeepsRows ==
  ASSUME TypeInv, NEW name \in Names, Put(name), UNCHANGED nets
  PROVE  /\ row' \in [Names -> 0..MaxRows] /\ rows' \in 0..MaxRows /\ rows <= rows'
         /\ row'[name] \in Rows
         /\ \A n \in Names : row'[n] <= rows'
         /\ \A n \in Names : row[n] # 0 => row'[n] = row[n]
         /\ \A m, n \in Names : row'[m] = row'[n] /\ row'[m] # 0 => m = n
         /\ \A r \in Rows : Exists(r) => Exists(r)'
<1>1. CASE row[name] # 0
  BY <1>1 DEF Put, TypeInv, TypeOK, Exists, Rows
<1>2. CASE row[name] = 0
  <2>1. rows < MaxRows /\ rows' = rows + 1 /\ row' = [row EXCEPT ![name] = rows + 1]
    BY <1>2 DEF Put
  <2>2. rows + 1 \in Rows /\ row'[name] = rows + 1 /\ rows' \in 0..MaxRows
    BY <2>1, BoundsAssumption DEF TypeInv, TypeOK, Rows
  <2>3. row' \in [Names -> 0..MaxRows]
    BY <2>1, <2>2 DEF TypeInv, TypeOK, Rows
  <2>4. \A n \in Names : n # name => row'[n] = row[n] /\ row[n] <= rows /\ row[n] \in 0..MaxRows
    BY <2>1 DEF TypeInv, TypeOK
  <2>5. \A r \in Rows : Exists(r) => Exists(r)'
    BY <1>2, <2>4 DEF Exists, Rows
  <2> QED
    BY <1>2, <2>1, <2>2, <2>3, <2>4, <2>5, BoundsAssumption DEF TypeInv, TypeOK
<1> QED
  BY <1>1, <1>2

\* A row goes, and what it was pinned to goes with it.
LEMMA DeleteKeepsRows ==
  ASSUME TypeInv, NEW name \in Names, row[name] # 0, DeleteSecret(name)
  PROVE  /\ row' \in [Names -> 0..MaxRows] /\ nets' \in [Rows -> SUBSET Addresses]
         /\ \A n \in Names : row'[n] <= rows
         /\ \A m, n \in Names : row'[m] = row'[n] /\ row'[m] # 0 => m = n
         /\ \A r \in Rows : nets'[r] # {} => Exists(r)'
<1>1. /\ row' = [row EXCEPT ![name] = 0] /\ nets' = [nets EXCEPT ![row[name]] = {}]
      /\ row[name] \in Rows
  BY DEF DeleteSecret, TypeInv, TypeOK, Rows
<1>2. ASSUME NEW r \in Rows, nets'[r] # {}
      PROVE  Exists(r)'
  <2>1. r # row[name] /\ nets[r] # {}
    BY <1>1, <1>2 DEF TypeInv, TypeOK
  <2>2. PICK n \in Names : row[n] = r
    BY <2>1 DEF TypeInv, TypeOK, Exists
  <2> QED
    BY <1>1, <2>1, <2>2 DEF TypeInv, TypeOK, Exists
<1> QED
  BY <1>1, <1>2, BoundsAssumption DEF TypeInv, TypeOK

\* A secret is written, read or deleted by a device.
LEMMA ActingKeepsTypes ==
  ASSUME TypeInv, NEW c \in Calls, Write(c) \/ Delete(c)
  PROVE  TypeInv'
<1>1. call[c] \in Call
  BY DEF Write, Delete, TypeInv, TypeOK, Idle
<1>2. CASE Write(c)
  <2>1. Put(call[c].name) /\ call[c].name \in Names /\ UNCHANGED nets
    BY <1>1, <1>2 DEF Write, Call
  <2>2. row'[call[c].name] \in Rows
    BY <2>1, PutKeepsRows
  <2>3. call' \in [Calls -> Call \cup {Idle}]
    <3>1. row'[call[c].name] \in 0..MaxRows
      BY <2>2 DEF Rows
    <3> DEFINE x == [call[c] EXCEPT !.pc = "served", !.secret = row'[call[c].name]]
    <3>2. x \in Call
      BY <1>1, <3>1 DEF Call
    <3>3. call' = [call EXCEPT ![c] = x]
      BY <1>1, <1>2 DEF Write, Served, TypeInv, TypeOK, Call
    <3> QED
      BY <3>2, <3>3 DEF TypeInv, TypeOK
  <2>4. UNCHANGED <<nets, tok, shown, hand, acts, asked>>
    BY <1>2 DEF Write
  <2>5. \A r \in Rows : nets'[r] # {} => Exists(r)'
    BY <2>1, <2>4, PutKeepsRows DEF TypeInv, TypeOK
  <2>6. TypeOK'
    BY <2>1, <2>3, <2>4, <2>5, PutKeepsRows DEF TypeInv, TypeOK
  <2> QED
    BY <2>4, <2>6 DEF TypeInv, ScopingIsStored
<1>3. CASE Delete(c) /\ row[call[c].name] # 0
  <2>1. DeleteSecret(call[c].name) /\ call[c].name \in Names /\ UNCHANGED <<tok, rows>>
    BY <1>1, <1>3 DEF Delete, DeleteSecret, Call
  <2>2. call' \in [Calls -> Call \cup {Idle}]
    BY <1>1, <1>3 DEF Delete, Served, Call, TypeInv, TypeOK
  <2> QED
    BY <1>3, <2>1, <2>2, DeleteKeepsRows DEF Delete, TypeInv, TypeOK, ScopingIsStored
<1>4. CASE Delete(c) /\ row[call[c].name] = 0
  <2>1. call' = [call EXCEPT ![c] = Idle] /\ CallAlone
    BY <1>4 DEF Delete, CallAlone, data
  <2> QED
    BY <2>1, CallMoves
<1> QED
  BY <1>2, <1>3, <1>4

LEMMA DeviceKeepsTypes ==
  ASSUME TypeInv, NEW c \in Calls, Device(c)
  PROVE  TypeInv'
BY CallMoves, ReadingMovesTheCall, ActingKeepsTypes DEF Device

\* Somebody starts something, or gives it up, before any statement that writes.
LEMMA StartingKeepsTypes ==
  ASSUME TypeInv, NEW p \in People,
         saveTokenScope(p) \/ runTokenScope(p) \/ saveSecret(p) \/ runSecretSet(p)
           \/ revertSecret(p) \/ runSecretRevert(p) \/ runImport(p) \/ ImportFile(p)
           \/ addNetwork(p) \/ runNetworkAdd(p) \/ removeNetwork(p) \/ runNetworkRemove(p)
           \/ Fails(p)
  PROVE  TypeInv' /\ UNCHANGED <<data, shown, call, asked>>
<1>0. ASSUME Starts(p)
      PROVE  acts' \in 0..MaxActs
  BY <1>0, BoundsAssumption DEF Starts, TypeInv, TypeOK
<1>1. ASSUME NEW t \in Tokens, NEW secrets \in SUBSET Names, Rescope(p, t, secrets)
      PROVE  TypeInv' /\ HandAlone
  <2> DEFINE x == [pc |-> "narrowing", tok |-> t, secrets |-> secrets]
  <2>1. x \in Hand /\ hand' = [hand EXCEPT ![p] = x]
    BY <1>1 DEF Rescope, Hand, Scoping
  <2> QED
    BY <1>0, <1>1, <2>1, HandMoves DEF Rescope, HandAlone
<1>2. ASSUME NEW name \in Names, Save(p, name)
      PROVE  TypeInv' /\ HandAlone
  <2> DEFINE x == [pc |-> "saving", name |-> name]
  <2>1. x \in Hand /\ hand' = [hand EXCEPT ![p] = x]
    BY <1>2 DEF Save, Hand, Saving
  <2> QED
    BY <1>0, <1>2, <2>1, HandMoves DEF Save, HandAlone
<1>3. ASSUME NEW entries \in SUBSET Names, NEW replace \in BOOLEAN,
             Import(p, BuildPlan(entries, replace))
      PROVE  TypeInv' /\ HandAlone
  <2> DEFINE x == [pc |-> "importing", left |-> BuildPlan(entries, replace)]
  <2>1. BuildPlan(entries, replace) \subseteq Names
    BY DEF BuildPlan
  <2>2. x \in Hand /\ hand' = [hand EXCEPT ![p] = x]
    BY <1>3, <2>1 DEF Import, Hand, Importing
  <2> QED
    BY <1>0, <1>3, <2>2, HandMoves DEF Import, HandAlone
<1>4. ASSUME NEW pc \in {"pinning", "unpinning"}, Pin(p, pc)
      PROVE  TypeInv' /\ HandAlone
  <2>1. PICK secret \in manageableSecret, ip \in Addresses :
          hand' = [hand EXCEPT ![p] = [pc |-> pc, secret |-> secret, ip |-> ip]]
    BY <1>4 DEF Pin
  <2>2. secret \in Rows
    BY DEF manageableSecret, Rows, TypeInv, TypeOK
  <2> DEFINE x == [pc |-> pc, secret |-> secret, ip |-> ip]
  <2>3. x \in Hand
    BY <2>2 DEF Hand, Pinning
  <2> QED
    BY <1>0, <1>4, <2>1, <2>3, HandMoves DEF Pin, HandAlone
<1>5. CASE Fails(p)
  <2>1. acts' \in 0..MaxActs /\ hand' = [hand EXCEPT ![p] = Idle] /\ HandAlone
    BY <1>5 DEF Fails, Ends, HandAlone, TypeInv, TypeOK
  <2> QED
    BY <2>1, HandMoves DEF Idle, HandAlone
<1>6. CASE saveTokenScope(p) \/ runTokenScope(p)
  BY <1>1, <1>6 DEF saveTokenScope, runTokenScope, checkedSecrets, splitList, HandAlone
<1>7. CASE saveSecret(p) \/ runSecretSet(p) \/ revertSecret(p) \/ runSecretRevert(p)
  BY <1>2, <1>7 DEF saveSecret, runSecretSet, revertSecret, runSecretRevert, HandAlone
<1>8. CASE runImport(p) \/ ImportFile(p)
  BY <1>3, <1>8 DEF runImport, ImportFile, HandAlone
<1>9. CASE addNetwork(p) \/ runNetworkAdd(p) \/ removeNetwork(p) \/ runNetworkRemove(p)
  BY <1>4, <1>9 DEF addNetwork, runNetworkAdd, removeNetwork, runNetworkRemove, HandAlone
<1> QED
  BY <1>5, <1>6, <1>7, <1>8, <1>9 DEF HandAlone, Fails

\* A token begins, is narrowed, shown, revoked, or expires.
LEMMA TokensKeepTypes ==
  ASSUME TypeInv,
         \/ \E p \in People :
              createToken(p) \/ runTokenCreate(p) \/ SetTokenSecrets(p) \/ ShowToken(p)
                \/ revokeToken(p) \/ runTokenRevoke(p)
         \/ \E t \in Tokens : Expire(t)
  PROVE  TypeInv' /\ UNCHANGED <<row, rows, nets, call>>
<1> USE DEF TypeInv, TypeOK, ScopingIsStored
<1>1. ASSUME NEW p \in People, NEW t \in Tokens, NEW secrets \in SUBSET Names,
             NEW allow \in SUBSET Addresses, NEW w \in BOOLEAN,
             CreateServiceToken(p, t, secrets, allow, w)
      PROVE  TypeInv' /\ UNCHANGED <<row, rows, nets, call>>
  <2> DEFINE y == [NoToken EXCEPT !.stored = TRUE, !.allow = allow, !.canWrite = w]
             x == [pc |-> "scoping", tok |-> t, secrets |-> secrets]
  <2>1. y \in Token /\ y.stored
    BY DEF Token, NoToken
  <2>2. tok' = [tok EXCEPT ![t] = y] /\ hand' = [hand EXCEPT ![p] = x]
    BY <1>1 DEF CreateServiceToken
  <2>3. x \in Hand
    BY DEF Hand, Scoping
  <2>4. UNCHANGED <<row, rows, nets, shown, call, asked>> /\ acts' \in 0..MaxActs
    BY <1>1, BoundsAssumption DEF CreateServiceToken, Starts
  <2> HIDE DEF x, y
  <2>5. tok' \in [Tokens -> Token] /\ \A u \in Tokens : tok[u].stored => tok'[u].stored
    BY <2>1, <2>2
  <2>6. TypeOK'
    BY <2>2, <2>3, <2>4, <2>5 DEF Exists
  <2>7. ScopingIsStored'
    <3> SUFFICES ASSUME NEW q \in People,
                        hand'[q].pc \in {"scoping", "narrowing", "showing"}
                 PROVE  tok'[hand'[q].tok].stored
      OBVIOUS
    <3>1. CASE q = p
      BY <2>1, <2>2, <3>1 DEF x
    <3>2. CASE q # p
      <4>1. hand'[q] = hand[q] /\ hand[q] \in Hand
        BY <2>2, <3>2 DEF Idle
      <4>2. hand[q].tok \in Tokens
        BY <4>1 DEF Hand, Scoping, Saving, Importing, Pinning
      <4> QED
        BY <2>5, <4>1, <4>2
    <3> QED
      BY <3>1, <3>2
  <2> QED
    BY <2>4, <2>6, <2>7
<1>2. ASSUME NEW t \in Tokens, NEW y \in Token, y.stored,
             tok' = [tok EXCEPT ![t] = y],
             UNCHANGED <<row, rows, nets, shown, call, hand, asked>>, acts' \in 0..MaxActs
      PROVE  TypeInv'
  <2>1. tok' \in [Tokens -> Token] /\ \A u \in Tokens : tok[u].stored => tok'[u].stored
    BY <1>2
  <2>2. TypeOK'
    BY <1>2, <2>1 DEF Exists
  <2>3. ScopingIsStored'
    BY <1>2, <2>1 DEF Hand, Scoping, Saving, Importing, Pinning, Idle
  <2> QED
    BY <2>2, <2>3
<1>3. ASSUME NEW p \in People, SetTokenSecrets(p)
      PROVE  TypeInv' /\ UNCHANGED <<row, rows, nets, call>>
  <2> DEFINE t == hand[p].tok
             y == [tok[t] EXCEPT !.secrets = hand[p].secrets]
             x == IF hand[p].pc = "scoping" THEN [hand[p] EXCEPT !.pc = "showing"] ELSE Idle
  <2>1. hand[p] \in Scoping /\ t \in Tokens /\ hand[p].secrets \subseteq Names
    BY <1>3 DEF SetTokenSecrets, Hand, Scoping, Saving, Importing, Pinning, Idle
  <2>2. tok[t] \in Token /\ tok[t].stored
    BY <1>3, <2>1 DEF SetTokenSecrets
  <2>3. y \in Token /\ y.stored
    BY <2>1, <2>2 DEF Token
  <2>4. x \in Hand \cup {Idle} /\ (x = Idle \/ x.tok = t)
    BY <2>1 DEF Hand, Scoping
  <2>5. hand' = [hand EXCEPT ![p] = x]
    BY <1>3 DEF SetTokenSecrets, Ends
  <2>6. tok' = [tok EXCEPT ![t] = y]
    BY <1>3, <2>1, <2>2 DEF SetTokenSecrets
  <2>7. asked' \in [Tokens -> SUBSET SUBSET Names]
    BY <1>3, <2>1 DEF SetTokenSecrets
  <2>8. UNCHANGED <<row, rows, nets, shown, call, acts>>
    BY <1>3 DEF SetTokenSecrets
  <2> HIDE DEF x, y, t
  <2>9. tok' \in [Tokens -> Token] /\ \A u \in Tokens : tok[u].stored => tok'[u].stored
    BY <2>1, <2>3, <2>6
  <2>10. TypeOK'
    BY <2>4, <2>5, <2>7, <2>8, <2>9 DEF Exists
  <2>11. ScopingIsStored'
    <3> SUFFICES ASSUME NEW q \in People,
                        hand'[q].pc \in {"scoping", "narrowing", "showing"}
                 PROVE  tok'[hand'[q].tok].stored
      OBVIOUS
    <3>1. CASE q = p
      BY <2>1, <2>3, <2>4, <2>5, <2>6, <3>1 DEF Idle
    <3>2. CASE q # p
      <4>1. hand'[q] = hand[q] /\ hand[q] \in Hand
        BY <2>5, <3>2 DEF Idle
      <4>2. hand[q].tok \in Tokens
        BY <4>1 DEF Hand, Scoping, Saving, Importing, Pinning
      <4> QED
        BY <2>9, <4>1, <4>2
    <3> QED
      BY <3>1, <3>2
  <2> QED
    BY <2>8, <2>10, <2>11
<1>4. ASSUME NEW p \in People, ShowToken(p)
      PROVE  TypeInv' /\ UNCHANGED <<row, rows, nets, call>>
  <2>1. hand[p].tok \in Tokens /\ tok[hand[p].tok].stored
    BY <1>4 DEF ShowToken, Hand, Scoping, Saving, Importing, Pinning, Idle
  <2>2. /\ UNCHANGED <<data, call, acts, asked>> /\ hand' = [hand EXCEPT ![p] = Idle]
        /\ shown' = shown \cup {hand[p].tok}
    BY <1>4 DEF ShowToken, Ends
  <2>3. TypeOK'
    BY <2>1, <2>2 DEF data, Exists
  <2>4. ScopingIsStored'
    BY <2>2 DEF data, Idle
  <2> QED
    BY <2>2, <2>3, <2>4 DEF data
<1>5. ASSUME NEW t \in Tokens, RevokeServiceToken(t) \/ Expire(t),
             UNCHANGED <<row, rows, nets, shown, call, hand, asked>>, acts' \in 0..MaxActs
      PROVE  TypeInv'
  <2>1. PICK y \in Token : y.stored /\ tok' = [tok EXCEPT ![t] = y]
    <3>0. tok[t] \in Token /\ tok[t].stored
      BY <1>5 DEF RevokeServiceToken, Expire
    <3>1. CASE RevokeServiceToken(t)
      <4> DEFINE y == [tok[t] EXCEPT !.revoked = TRUE]
      <4>1. y \in Token /\ y.stored
        BY <3>0 DEF Token
      <4>2. tok' = [tok EXCEPT ![t] = y]
        BY <3>1 DEF RevokeServiceToken
      <4> QED
        BY <4>1, <4>2
    <3>2. CASE Expire(t)
      <4> DEFINE y == [tok[t] EXCEPT !.expired = TRUE]
      <4>1. y \in Token /\ y.stored
        BY <3>0 DEF Token
      <4>2. tok' = [tok EXCEPT ![t] = y]
        BY <3>2 DEF Expire
      <4> QED
        BY <4>1, <4>2
    <3> QED
      BY <1>5, <3>1, <3>2
  <2> QED
    BY <1>2, <1>5, <2>1
<1>6. ASSUME NEW p \in People, revokeToken(p) \/ runTokenRevoke(p)
      PROVE  TypeInv' /\ UNCHANGED <<row, rows, nets, call>>
  <2>1. /\ UNCHANGED <<row, rows, nets, shown, call, hand, asked>> /\ acts' \in 0..MaxActs
        /\ \E t \in Tokens : RevokeServiceToken(t)
    BY <1>6, BoundsAssumption DEF revokeToken, runTokenRevoke, Starts
  <2> QED
    BY <1>5, <2>1
<1>7. ASSUME NEW t \in Tokens, Expire(t)
      PROVE  TypeInv' /\ UNCHANGED <<row, rows, nets, call>>
  <2>1. UNCHANGED <<row, rows, nets, shown, call, hand, asked>> /\ acts' \in 0..MaxActs
    BY <1>7 DEF Expire
  <2> QED
    BY <1>5, <1>7, <2>1
<1>8. ASSUME NEW p \in People, createToken(p) \/ runTokenCreate(p)
      PROVE  TypeInv' /\ UNCHANGED <<row, rows, nets, call>>
  <2>1. PICK t \in Tokens, secrets \in SUBSET Names, allow \in SUBSET Addresses, w \in BOOLEAN :
          CreateServiceToken(p, t, secrets, allow, w)
    <3>1. checkedSecrets \subseteq splitList /\ splitList = SUBSET Names
      BY DEF checkedSecrets, splitList
    <3> QED
      BY <1>8, <3>1 DEF createToken, runTokenCreate
  <2> QED
    BY <1>1, <2>1
<1> QED
  BY <1>3, <1>4, <1>6, <1>7, <1>8

\* A secret is written, imported or deleted by somebody, or pinned to an address.
LEMMA RowsKeepTypes ==
  ASSUME TypeInv, NEW p \in People,
         \/ PutEntry(p) \/ PutSecret(p) \/ deleteSecret(p) \/ runSecretRemove(p)
         \/ AddSecretNetwork(p) \/ RemoveSecretNetwork(p)
  PROVE  TypeInv' /\ UNCHANGED <<tok, shown, call, asked>>
<1>0. ASSUME NEW x \in Hand \cup {Idle}, hand' = [hand EXCEPT ![p] = x],
             UNCHANGED <<tok, shown, call, asked>>,
             x.pc \notin {"scoping", "narrowing", "showing"}
      PROVE  ScopingIsStored' /\ hand' \in [People -> Hand \cup {Idle}]
  BY <1>0 DEF TypeInv, TypeOK, ScopingIsStored
<1>1. ASSUME NEW name \in Names, Put(name), NEW x \in Hand \cup {Idle},
             hand' = [hand EXCEPT ![p] = x],
             x.pc \notin {"scoping", "narrowing", "showing"},
             UNCHANGED <<nets, tok, shown, call, acts, asked>>
      PROVE  TypeInv'
  <2>1. \A r \in Rows : nets'[r] # {} => Exists(r)'
    BY <1>1, PutKeepsRows DEF TypeInv, TypeOK
  <2>2. TypeOK'
    BY <1>0, <1>1, <2>1, PutKeepsRows DEF TypeInv, TypeOK
  <2> QED
    BY <1>0, <1>1, <2>2 DEF TypeInv
<1>2. CASE PutSecret(p)
  <2>1. hand[p].name \in Names
    BY <1>2 DEF PutSecret, TypeInv, TypeOK, Hand, Scoping, Saving, Importing, Pinning, Idle
  <2>2. Idle.pc \notin {"scoping", "narrowing", "showing"}
    BY DEF Idle
  <2> QED
    BY <1>1, <1>2, <2>1, <2>2 DEF PutSecret, Ends
<1>3. CASE PutEntry(p)
  <2>1. hand[p] \in Importing
    BY <1>3 DEF PutEntry, TypeInv, TypeOK, Hand, Scoping, Saving, Importing, Pinning, Idle
  <2>2. PICK name \in hand[p].left :
          /\ Put(name)
          /\ IF hand[p].left = {name} THEN Ends(p)
             ELSE hand' = [hand EXCEPT ![p].left = @ \ {name}]
    BY <1>3 DEF PutEntry
  <2> DEFINE x == IF hand[p].left = {name} THEN Idle
                  ELSE [hand[p] EXCEPT !.left = @ \ {name}]
  <2>3. x \in Hand \cup {Idle} /\ x.pc \notin {"scoping", "narrowing", "showing"}
    BY <2>1 DEF Hand, Importing, Idle
  <2>4. hand' = [hand EXCEPT ![p] = x]
    BY <2>2 DEF Ends
  <2>5. name \in Names /\ UNCHANGED <<nets, tok, shown, call, acts, asked>>
    BY <1>3, <2>1, <2>2 DEF PutEntry, Importing
  <2> HIDE DEF x
  <2> QED
    BY <1>1, <2>2, <2>3, <2>4, <2>5
<1>4. CASE deleteSecret(p) \/ runSecretRemove(p)
  <2>1. PICK name \in Names : row[name] # 0 /\ DeleteSecret(name)
    BY <1>4 DEF deleteSecret, runSecretRemove
  <2>2. UNCHANGED <<rows, tok, shown, call, hand, asked>> /\ acts' \in 0..MaxActs
    BY <1>4, <2>1, BoundsAssumption
    DEF deleteSecret, runSecretRemove, DeleteSecret, Starts, TypeInv, TypeOK
  <2> QED
    BY <2>1, <2>2, DeleteKeepsRows DEF TypeInv, TypeOK, ScopingIsStored
<1>5. CASE AddSecretNetwork(p) \/ RemoveSecretNetwork(p)
  <2>1. hand[p] \in Pinning
    BY <1>5 DEF AddSecretNetwork, RemoveSecretNetwork, TypeInv, TypeOK, Hand, Scoping, Saving,
                Importing, Pinning, Idle
  <2>2. /\ hand' = [hand EXCEPT ![p] = Idle]
        /\ UNCHANGED <<row, rows, tok, shown, call, acts, asked>>
    BY <1>5 DEF AddSecretNetwork, RemoveSecretNetwork, Ends
  <2>3. nets' \in [Rows -> SUBSET Addresses] /\ \A r \in Rows : nets'[r] # {} => Exists(r)
    BY <1>5, <2>1 DEF AddSecretNetwork, RemoveSecretNetwork, Pinning, TypeInv, TypeOK
  <2>4. ScopingIsStored' /\ hand' \in [People -> Hand \cup {Idle}]
    BY <1>0, <2>2 DEF Idle
  <2>5. TypeOK'
    BY <2>2, <2>3, <2>4 DEF TypeInv, TypeOK, Exists
  <2> QED
    BY <2>2, <2>4, <2>5 DEF TypeInv
<1> QED
  BY <1>2, <1>3, <1>4, <1>5
     DEF PutSecret, PutEntry, deleteSecret, runSecretRemove, DeleteSecret, AddSecretNetwork,
         RemoveSecretNetwork

LEMMA InitTypes == Init => TypeInv
BY BoundsAssumption DEF Init, TypeInv, TypeOK, ScopingIsStored, Rows, Idle, NoToken, Token

LEMMA PersonKeepsTypes ==
  ASSUME TypeInv, NEW p \in People, Person(p)
  PROVE  TypeInv'
BY StartingKeepsTypes, TokensKeepTypes, RowsKeepTypes DEF Person

LEMMA StepKeepsTypes == TypeInv /\ [Next]_vars => TypeInv'
<1>1. ASSUME TypeInv, Step PROVE TypeInv'
  BY <1>1, DeviceKeepsTypes, PersonKeepsTypes, TokensKeepTypes DEF Step
<1>2. ASSUME TypeInv, UNCHANGED vars PROVE TypeInv'
  BY <1>2 DEF vars, TypeInv, TypeOK, ScopingIsStored, Exists
<1> QED
  BY <1>1, <1>2 DEF Next

\* What the variables hold is what the tables and the requests can hold: rows
\* are numbered as they are made, no two names share one, and what a deleted
\* secret was pinned to is gone with it.
THEOREM TypeCorrect == Spec => []TypeOK
<1>1. Spec => []TypeInv
  BY InitTypes, StepKeepsTypes, PTL DEF Spec
<1> QED
  BY <1>1, PTL DEF TypeInv

--------------------------------------------------------------------------------
(***************************************************************************)
(* What a token reaches.  A scope counts as asked for once it is written,  *)
(* and a token is shown only then: whoever presents a token presents one   *)
(* whose present scope somebody asked for, and what was asked for once     *)
(* stays asked for.                                                        *)
(***************************************************************************)
Asked(t, name) == \E secrets \in asked[t] : AllowsSecret(secrets, name)

Past == {"meta", "networks", "act", "served"}

CallReaches(x) ==
  /\ x.pc # "idle" => x.tok \in shown
  /\ x.pc \in Past => Asked(x.tok, x.name)

ReachInv ==
  /\ \A t \in shown : tok[t].secrets \in asked[t]
  /\ \A p \in People :
       hand[p].pc = "showing" => tok[hand[p].tok].secrets \in asked[hand[p].tok]
  /\ \A c \in Calls : CallReaches(call[c])

LEMMA DeviceReaches ==
  ASSUME TypeInv, ReachInv, NEW c \in Calls, Device(c)
  PROVE  ReachInv'
<1> USE DEF TypeInv, TypeOK, Past
<1>0. /\ call[c] \in Call \cup {Idle} /\ CallReaches(call[c])
      /\ call[c].pc # "idle" => call[c] \in Call
  BY DEF ReachInv, Idle
<1>1. UNCHANGED <<tok, shown, hand, asked>>
  BY DEF Device, list, value, Other, get, ReadRow, ReadScope, ReadMeta, CheckAddress, Read, Write,
         Delete, DeleteSecret, Answer, data
<1>2. /\ \A d \in Calls : d # c => call'[d] = call[d]
      /\ call'[c].pc # "idle" => CallReaches(call'[c])
  <2>1. CASE list(c) \/ value(c) \/ Other(c)
    <3>1. PICK op \in Ops, name \in Names : get(c, op, name)
      BY <2>1 DEF list, value, Other, Ops
    <3> QED
      BY <3>1 DEF get, CallReaches
  <2>2. CASE ReadRow(c)
    BY <1>0, <2>2 DEF ReadRow, CallReaches, Call
  <2>3. CASE ReadScope(c)
    <3>1. call[c] \in Call /\ call[c].tok \in shown
      BY <1>0, <2>3 DEF ReadScope, CallReaches
    <3>2. tok[call[c].tok].secrets \in asked[call[c].tok]
      BY <3>1 DEF ReachInv
    <3>3. scopedName(c) => Asked(call[c].tok, call[c].name)
      BY <3>2 DEF scopedName, Asked
    <3> QED
      BY <2>3, <3>1, <3>3 DEF ReadScope, CallReaches, Call, Idle
  <2>4. CASE ReadMeta(c)
    BY <1>0, <2>4 DEF ReadMeta, CallReaches, Call, Idle
  <2>5. CASE CheckAddress(c)
    BY <1>0, <2>5 DEF CheckAddress, CallReaches, Call, Idle
  <2>6. CASE Read(c) \/ Write(c) \/ Delete(c)
    BY <1>0, <2>6 DEF Read, Write, Delete, Served, CallReaches, Call, Idle
  <2>7. CASE Answer(c)
    BY <2>7 DEF Answer, Idle
  <2> QED
    BY <2>1, <2>2, <2>3, <2>4, <2>5, <2>6, <2>7 DEF Device
<1>3. CallReaches(call'[c]) /\ \A d \in Calls : CallReaches(call'[d])
  <2>1. call'[c] \in Call \cup {Idle}
    BY DeviceKeepsTypes
  <2> QED
    BY <1>2, <2>1 DEF ReachInv, CallReaches, Idle
<1> QED
  BY <1>1, <1>3 DEF ReachInv, CallReaches, Asked

LEMMA TokensReach ==
  ASSUME TypeInv, ReachInv,
         \/ \E p \in People :
              createToken(p) \/ runTokenCreate(p) \/ SetTokenSecrets(p) \/ ShowToken(p)
                \/ revokeToken(p) \/ runTokenRevoke(p)
         \/ \E t \in Tokens : Expire(t)
  PROVE  ReachInv'
<1> USE DEF TypeInv, TypeOK
<1>0. ASSUME UNCHANGED call, \A t \in Tokens : asked[t] \subseteq asked'[t], shown \subseteq shown'
      PROVE  \A c \in Calls : CallReaches(call[c])'
  BY <1>0 DEF ReachInv, CallReaches, Asked, Past, Call, Idle
<1>1. ASSUME NEW p \in People, NEW t \in Tokens, NEW secrets \in SUBSET Names,
             NEW allow \in SUBSET Addresses, NEW w \in BOOLEAN,
             CreateServiceToken(p, t, secrets, allow, w)
      PROVE  ReachInv'
  <2>1. ~tok[t].stored /\ \A u \in Tokens : u # t => tok'[u] = tok[u]
    BY <1>1 DEF CreateServiceToken
  <2>2. UNCHANGED <<shown, call, asked>>
    BY <1>1 DEF CreateServiceToken
  <2>3. \A u \in shown : tok'[u].secrets \in asked'[u]
    BY <2>1, <2>2 DEF ReachInv
  <2>4. \A q \in People : hand'[q].pc = "showing" => hand'[q] = hand[q] /\ hand[q].tok # t
    BY <1>1, <2>1 DEF CreateServiceToken, ScopingIsStored
  <2>5. \A q \in People : hand[q].pc = "showing" => hand[q].tok \in Tokens
    BY DEF Hand, Scoping, Saving, Importing, Pinning, Idle
  <2> QED
    BY <1>0, <2>1, <2>2, <2>3, <2>4, <2>5 DEF ReachInv
<1>2. ASSUME NEW p \in People, SetTokenSecrets(p)
      PROVE  ReachInv'
  <2> DEFINE t == hand[p].tok
  <2>1. t \in Tokens /\ hand[p].secrets \in SUBSET Names /\ hand[p] \in Scoping
    BY <1>2 DEF SetTokenSecrets, Hand, Scoping, Saving, Importing, Pinning, Idle
  <2>2. /\ tok'[t].secrets = hand[p].secrets /\ asked'[t] = asked[t] \cup {hand[p].secrets}
        /\ \A u \in Tokens : u # t => tok'[u] = tok[u] /\ asked'[u] = asked[u]
        /\ UNCHANGED <<shown, call>>
    BY <1>2, <2>1 DEF SetTokenSecrets, Token
  <2>3. \A q \in People : hand'[q].pc = "showing" =>
          \/ hand'[q] = hand[q]
          \/ hand'[q].tok = t
    BY <1>2, <2>1 DEF SetTokenSecrets, Ends, Idle, Scoping
  <2>4. \A q \in People : hand[q].pc = "showing" => hand[q].tok \in Tokens
    BY DEF Hand, Scoping, Saving, Importing, Pinning, Idle
  <2> HIDE DEF t
  <2>5. \A u \in Tokens : asked[u] \subseteq asked'[u]
    BY <2>2
  <2>6. \A u \in Tokens : tok[u].secrets \in asked[u] => tok'[u].secrets \in asked'[u]
    BY <2>2
  <2>7. tok'[t].secrets \in asked'[t]
    BY <2>2
  <2> QED
    BY <1>0, <2>2, <2>3, <2>4, <2>5, <2>6, <2>7 DEF ReachInv
<1>3. ASSUME NEW p \in People, ShowToken(p)
      PROVE  ReachInv'
  <2>1. /\ shown' = shown \cup {hand[p].tok} /\ UNCHANGED <<tok, call, asked>>
        /\ hand[p].pc = "showing" /\ \A q \in People : q # p => hand'[q] = hand[q]
        /\ hand'[p] = Idle
    BY <1>3 DEF ShowToken, Ends, data
  <2> QED
    BY <1>0, <2>1 DEF ReachInv, Idle
<1>4. ASSUME NEW t \in Tokens, RevokeServiceToken(t) \/ Expire(t),
             UNCHANGED <<shown, call, hand, asked>>
      PROVE  ReachInv'
  <2>1. \A u \in Tokens : tok'[u].secrets = tok[u].secrets
    BY <1>4 DEF RevokeServiceToken, Expire, Token
  <2>2. \A q \in People : hand[q].pc = "showing" => hand[q].tok \in Tokens
    BY DEF Hand, Scoping, Saving, Importing, Pinning, Idle
  <2> QED
    BY <1>0, <1>4, <2>1, <2>2 DEF ReachInv
<1>5. ASSUME NEW p \in People, createToken(p) \/ runTokenCreate(p)
      PROVE  ReachInv'
  <2>1. PICK t \in Tokens, secrets \in SUBSET Names, allow \in SUBSET Addresses, w \in BOOLEAN :
          CreateServiceToken(p, t, secrets, allow, w)
    <3>1. checkedSecrets \subseteq splitList /\ splitList = SUBSET Names
      BY DEF checkedSecrets, splitList
    <3> QED
      BY <1>5, <3>1 DEF createToken, runTokenCreate
  <2> QED
    BY <1>1, <2>1
<1> QED
  BY <1>2, <1>3, <1>4, <1>5 DEF revokeToken, runTokenRevoke, Expire

\* Nobody else shows a token, or touches what is asked of one.
LEMMA OthersReach ==
  ASSUME TypeInv, ReachInv, NEW p \in People,
         \/ saveTokenScope(p) \/ runTokenScope(p) \/ saveSecret(p) \/ runSecretSet(p)
         \/ revertSecret(p) \/ runSecretRevert(p) \/ runImport(p) \/ ImportFile(p)
         \/ addNetwork(p) \/ runNetworkAdd(p) \/ removeNetwork(p) \/ runNetworkRemove(p)
         \/ Fails(p) \/ PutEntry(p) \/ PutSecret(p) \/ deleteSecret(p) \/ runSecretRemove(p)
         \/ AddSecretNetwork(p) \/ RemoveSecretNetwork(p)
  PROVE  ReachInv'
<1>1. UNCHANGED <<tok, shown, call, asked>>
  BY StartingKeepsTypes, RowsKeepTypes DEF data
<1>2. ASSUME NEW x, hand' = [hand EXCEPT ![p] = x], x.pc # "showing"
      PROVE  \A q \in People : hand'[q].pc = "showing" => hand'[q] = hand[q]
  BY <1>2 DEF TypeInv, TypeOK
<1>3. \A q \in People : hand'[q].pc = "showing" => hand'[q] = hand[q]
  <2>1. CASE saveTokenScope(p) \/ runTokenScope(p)
    BY <2>1 DEF saveTokenScope, runTokenScope, Rescope, TypeInv, TypeOK
  <2>2. CASE saveSecret(p) \/ runSecretSet(p) \/ revertSecret(p) \/ runSecretRevert(p)
    BY <2>2 DEF saveSecret, runSecretSet, revertSecret, runSecretRevert, Save, TypeInv, TypeOK
  <2>3. CASE runImport(p) \/ ImportFile(p)
    BY <2>3 DEF runImport, ImportFile, Import, TypeInv, TypeOK
  <2>4. CASE addNetwork(p) \/ runNetworkAdd(p) \/ removeNetwork(p) \/ runNetworkRemove(p)
    BY <2>4 DEF addNetwork, runNetworkAdd, removeNetwork, runNetworkRemove, Pin, TypeInv, TypeOK
  <2>5. CASE Fails(p) \/ PutSecret(p) \/ AddSecretNetwork(p) \/ RemoveSecretNetwork(p)
    BY <1>2, <2>5 DEF Fails, PutSecret, AddSecretNetwork, RemoveSecretNetwork, Ends, Idle
  <2>6. CASE deleteSecret(p) \/ runSecretRemove(p)
    BY <2>6 DEF deleteSecret, runSecretRemove
  <2>7. CASE PutEntry(p)
    <3>1. hand[p] \in Importing
      BY <2>7 DEF PutEntry, TypeInv, TypeOK, Hand, Scoping, Saving, Importing, Pinning, Idle
    <3>2. PICK name \in hand[p].left :
            IF hand[p].left = {name} THEN Ends(p)
            ELSE hand' = [hand EXCEPT ![p].left = @ \ {name}]
      BY <2>7 DEF PutEntry
    <3>3. CASE Ends(p)
      BY <1>2, <3>3 DEF Ends, Idle
    <3>4. CASE hand' = [hand EXCEPT ![p].left = @ \ {name}]
      BY <3>1, <3>4 DEF Importing, TypeInv, TypeOK
    <3> QED
      BY <3>2, <3>3, <3>4
  <2> QED
    BY <2>1, <2>2, <2>3, <2>4, <2>5, <2>6, <2>7
<1> QED
  BY <1>1, <1>3 DEF ReachInv, CallReaches, Asked

LEMMA InitReaches == Init => ReachInv
BY DEF Init, ReachInv, CallReaches, Idle, Past

LEMMA StepReaches == TypeInv /\ ReachInv /\ [Next]_vars => ReachInv'
<1>1. ASSUME TypeInv, ReachInv, Step PROVE ReachInv'
  BY <1>1, DeviceReaches, TokensReach, OthersReach DEF Step, Person
<1>2. ASSUME ReachInv, UNCHANGED vars PROVE ReachInv'
  BY <1>2 DEF vars, ReachInv, CallReaches, Asked
<1> QED
  BY <1>1, <1>2 DEF Next

\* Whatever a token is served under, some scope somebody asked it to have
\* covers it: a token that is still being created is nobody's to present, a
\* creation that stops between its statements leaves none behind, and a
\* deleted secret narrows a scope without emptying it.
THEOREM ReachIsAsked == Spec => []ReachOnlyAsked
<1>1. ReachInv => ReachOnlyAsked
  BY DEF ReachInv, ReachOnlyAsked, CallReaches, Asked, Past
<1> QED
  BY <1>1, InitTypes, StepKeepsTypes, InitReaches, StepReaches, PTL DEF Spec

--------------------------------------------------------------------------------
(***************************************************************************)
(* What a call was allowed.  The row a name stands for changes between the *)
(* check of its addresses and its use; what saves the call is that a row   *)
(* that takes the place of another is new, so pinned to nothing yet.       *)
(***************************************************************************)
Moment == [live : BOOLEAN, covered : BOOLEAN, rows : SUBSET Rows]

\* The row behind a name is none or one that has admitted the call.
NameAdmits(c) == row[call[c].name] \in {0} \cup since[c].rows

Admitted(c) ==
  /\ call[c].pc = "scope" /\ ~call[c].revoked /\ ~tok[call[c].tok].expired => since[c].live
  /\ call[c].pc \in Past => since[c].live /\ since[c].covered
  /\ call[c].op # "list" =>
       /\ call[c].pc = "networks" =>
            /\ call[c].secret \in Rows /\ call[c].secret <= rows
            /\ row[call[c].name] = call[c].secret \/ NameAdmits(c)
       /\ call[c].pc = "act" => NameAdmits(c)
       /\ call[c].pc = "served" => call[c].secret \in since[c].rows

SinceInv ==
  /\ since \in [Calls -> Moment]
  /\ \A c \in Calls : call[c].pc # "idle" => Admitted(c)

\* What is true of a call in flight now has been true since it began.
LEMMA WatchSees ==
  ASSUME TypeInv', SinceInv, Watch
  PROVE  /\ since' \in [Calls -> Moment]
         /\ \A c \in Calls : call'[c].pc # "idle" =>
              /\ since[c].live => since'[c].live
              /\ Live(tok'[call'[c].tok]) => since'[c].live
              /\ since[c].covered => since'[c].covered
              /\ AllowsSecret(tok'[call'[c].tok].secrets, call'[c].name) => since'[c].covered
              /\ since[c].rows \subseteq since'[c].rows
              /\ \A n \in Names :
                   row'[n] \in Rows /\ AddressAllowed(nets'[row'[n]], call'[c].ip)
                     => row'[n] \in since'[c].rows
<1>1. \A t \in Tokens : Live(tok'[t]) \in BOOLEAN
  BY DEF TypeInv, TypeOK, Token, Live
<1>2. ASSUME NEW c \in Calls, call'[c].pc # "idle"
      PROVE  /\ call'[c].tok \in Tokens /\ call'[c].name \in Names
             /\ since[c] \in Moment /\ since[c].rows \subseteq Rows
  BY <1>2 DEF TypeInv, TypeOK, Call, Idle, SinceInv, Moment
<1>3. ASSUME NEW c \in Calls, call'[c].pc # "idle"
      PROVE  /\ since'[c].live = (since[c].live \/ Live(tok'[call'[c].tok]))
             /\ since'[c].covered = (since[c].covered
                   \/ AllowsSecret(tok'[call'[c].tok].secrets, call'[c].name))
             /\ since'[c].rows = since[c].rows \cup
                     {r \in Rows : /\ \E name \in Names : row'[name] = r
                                   /\ AddressAllowed(nets'[r], call'[c].ip)}
             /\ since'[c] \in Moment
  <2>1. AllowsSecret(tok'[call'[c].tok].secrets, call'[c].name) \in BOOLEAN
    BY DEF AllowsSecret
  <2> DEFINE m == [live |-> since[c].live \/ Live(tok'[call'[c].tok]),
                   covered |-> since[c].covered
                        \/ AllowsSecret(tok'[call'[c].tok].secrets, call'[c].name),
                   rows |-> since[c].rows \cup
                     {r \in Rows : /\ \E name \in Names : row'[name] = r
                                   /\ AddressAllowed(nets'[r], call'[c].ip)}]
  <2>2. since'[c] = m
    BY <1>3 DEF Watch
  <2>3. m \in Moment
    BY <1>1, <1>2, <1>3, <2>1 DEF Moment
  <2> QED
    BY <2>2, <2>3
<1>4. since' \in [Calls -> Moment]
  <2>1. since' = [c \in Calls |-> since'[c]]
    BY DEF Watch
  <2>2. \A c \in Calls : call'[c].pc = "idle" => since'[c] = Nothing
    BY DEF Watch
  <2>3. Nothing \in Moment
    BY DEF Nothing, Moment
  <2> QED
    BY <1>3, <2>1, <2>2, <2>3
<1> QED
  BY <1>3, <1>4

\* A name keeps its row, loses it, or gets a new one, pinned to nothing.
LEMMA RowsMove ==
  ASSUME TypeInv, Step
  PROVE  /\ rows \in 0..MaxRows /\ rows' \in 0..MaxRows /\ rows <= rows'
         /\ \A n \in Names : \/ row'[n] \in {row[n], 0}
                             \/ row'[n] \in Rows /\ nets'[row'[n]] = {}
<1> USE DEF TypeInv, TypeOK
<1>1. ASSUME UNCHANGED <<row, rows>>
      PROVE  rows' \in 0..MaxRows /\ rows <= rows' /\ \A n \in Names : row'[n] = row[n]
  BY <1>1, BoundsAssumption
<1>2. ASSUME NEW name \in Names, Put(name), UNCHANGED nets
      PROVE  /\ rows' \in 0..MaxRows /\ rows <= rows'
             /\ \A n \in Names : \/ row'[n] = row[n]
                                 \/ row'[n] \in Rows /\ nets'[row'[n]] = {}
  <2>1. CASE row[name] # 0
    BY <1>1, <1>2, <2>1 DEF Put
  <2>2. CASE row[name] = 0
    <3>1. rows' = rows + 1 /\ row' = [row EXCEPT ![name] = rows + 1]
      BY <1>2, <2>2 DEF Put
    <3>2. rows + 1 \in Rows /\ ~ Exists(rows + 1)
      BY <1>2, <2>2, BoundsAssumption DEF Put, Rows, Exists
    <3>3. nets'[rows + 1] = {}
      BY <1>2, <3>2
    <3> QED
      BY <1>2, <3>1, <3>2, <3>3, PutKeepsRows
  <2> QED
    BY <2>1, <2>2
<1>3. ASSUME NEW name \in Names, DeleteSecret(name)
      PROVE  \A n \in Names : row'[n] \in {row[n], 0}
  BY <1>3 DEF DeleteSecret
<1>4. ASSUME NEW c \in Calls, Device(c)
      PROVE  /\ rows' \in 0..MaxRows /\ rows <= rows'
             /\ \A n \in Names : \/ row'[n] \in {row[n], 0}
                                 \/ row'[n] \in Rows /\ nets'[row'[n]] = {}
  <2>1. CASE Write(c)
    <3>1. call[c].name \in Names
      BY <2>1 DEF Write, Call, Idle
    <3> QED
      BY <1>2, <2>1, <3>1 DEF Write
  <2>2. CASE Delete(c)
    <3>1. call[c].name \in Names
      BY <2>2 DEF Delete, Call, Idle
    <3> QED
      BY <1>1, <1>3, <2>2, <3>1, BoundsAssumption DEF Delete
  <2>3. CASE ~ Write(c) /\ ~ Delete(c)
    BY <1>1, <1>4, <2>3, ReadingMovesTheCall DEF Device, CallAlone, data
  <2> QED
    BY <2>1, <2>2, <2>3
<1>5. ASSUME NEW p \in People, Person(p)
      PROVE  /\ rows' \in 0..MaxRows /\ rows <= rows'
             /\ \A n \in Names : \/ row'[n] \in {row[n], 0}
                                 \/ row'[n] \in Rows /\ nets'[row'[n]] = {}
  <2>1. CASE PutSecret(p)
    <3>1. hand[p].name \in Names
      BY <2>1 DEF PutSecret, Hand, Scoping, Saving, Importing, Pinning, Idle
    <3> QED
      BY <1>2, <2>1, <3>1 DEF PutSecret
  <2>2. CASE PutEntry(p)
    <3>1. hand[p].left \subseteq Names
      BY <2>2 DEF PutEntry, Hand, Scoping, Saving, Importing, Pinning, Idle
    <3> QED
      BY <1>2, <2>2, <3>1 DEF PutEntry
  <2>3. CASE deleteSecret(p) \/ runSecretRemove(p)
    BY <1>3, <2>3, BoundsAssumption DEF deleteSecret, runSecretRemove
  <2>4. CASE AddSecretNetwork(p) \/ RemoveSecretNetwork(p)
    BY <1>1, <2>4 DEF AddSecretNetwork, RemoveSecretNetwork
  <2>5. CASE createToken(p) \/ runTokenCreate(p) \/ SetTokenSecrets(p) \/ ShowToken(p)
               \/ revokeToken(p) \/ runTokenRevoke(p)
    BY <1>1, <2>5, TokensKeepTypes
  <2> QED
    BY <1>1, <1>5, <2>1, <2>2, <2>3, <2>4, <2>5, StartingKeepsTypes DEF Person, data
<1>6. ASSUME NEW t \in Tokens, Expire(t)
      PROVE  /\ rows' \in 0..MaxRows /\ rows <= rows'
             /\ \A n \in Names : row'[n] = row[n]
  BY <1>1, <1>6 DEF Expire
<1> QED
  BY <1>4, <1>5, <1>6, BoundsAssumption DEF Step

\* A token that is there stays, and what has expired stays expired.
LEMMA TokensAge ==
  ASSUME TypeInv, Step, NEW t \in Tokens, tok[t].stored
  PROVE  tok[t].expired => tok'[t].expired
<1> USE DEF TypeInv, TypeOK
<1>1. ASSUME NEW p \in People, createToken(p) \/ runTokenCreate(p)
      PROVE  tok'[t] = tok[t]
  BY <1>1 DEF createToken, runTokenCreate, CreateServiceToken
<1>2. ASSUME NEW p \in People, SetTokenSecrets(p)
      PROVE  tok'[t].expired = tok[t].expired
  BY <1>2 DEF SetTokenSecrets, Token
<1>3. ASSUME NEW p \in People, ShowToken(p)
      PROVE  tok' = tok
  BY <1>3 DEF ShowToken, data
<1>4. ASSUME NEW p \in People, revokeToken(p) \/ runTokenRevoke(p)
      PROVE  tok'[t].expired = tok[t].expired
  BY <1>4 DEF revokeToken, runTokenRevoke, RevokeServiceToken, Token
<1>5. ASSUME NEW u \in Tokens, Expire(u)
      PROVE  tok[t].expired => tok'[t].expired
  BY <1>5 DEF Expire, Token
<1>6. ASSUME NEW c \in Calls, Device(c)
      PROVE  tok' = tok
  BY <1>6 DEF Device, list, value, Other, get, ReadRow, ReadScope, ReadMeta, CheckAddress, Read,
              Write, Delete, DeleteSecret, Answer, data
<1> QED
  BY <1>1, <1>2, <1>3, <1>4, <1>5, <1>6, StartingKeepsTypes, RowsKeepTypes DEF Step, Person, data

\* Only a step of the call moves it.
LEMMA OthersWait ==
  ASSUME TypeInv, Step, NEW c \in Calls
  PROVE  Device(c) \/ call'[c] = call[c]
<1>1. ASSUME NEW d \in Calls, Device(d), d # c
      PROVE  call'[c] = call[c]
  BY <1>1 DEF Device, list, value, Other, get, ReadRow, ReadScope, ReadMeta, CheckAddress, Read,
              Write, Delete, Served, Answer, TypeInv, TypeOK
<1> QED
  BY <1>1, StartingKeepsTypes, TokensKeepTypes, RowsKeepTypes DEF Step, Person, data

\* A call that waits: whatever changes meanwhile is seen, or admits it.
LEMMA WaitingIsAdmitted ==
  ASSUME TypeInv, TypeInv', ReachInv, SinceInv, Step, Watch,
         NEW c \in Calls, call'[c] = call[c], call[c].pc # "idle"
  PROVE  Admitted(c)'
<1>1. /\ Admitted(c) /\ call[c] \in Call /\ call[c].name \in Names /\ call[c].tok \in Tokens
      /\ call[c].tok \in shown /\ tok[call[c].tok].stored
  BY DEF SinceInv, ReachInv, CallReaches, TypeInv, TypeOK, Call, Idle
<1>2. tok[call[c].tok].expired => tok'[call[c].tok].expired
  BY <1>1, TokensAge
<1>3. /\ since[c].live => since'[c].live
      /\ since[c].covered => since'[c].covered
      /\ since[c].rows \subseteq since'[c].rows
  BY WatchSees
<1>4. \/ row'[call[c].name] \in {row[call[c].name], 0}
      \/ row'[call[c].name] \in since'[c].rows
  BY <1>1, RowsMove, WatchSees DEF AddressAllowed
<1>5. NameAdmits(c) => NameAdmits(c)'
  BY <1>3, <1>4 DEF NameAdmits
<1>6. call[c].secret \in Rows /\ call[c].secret <= rows => call[c].secret <= rows'
  BY RowsMove, BoundsAssumption DEF Rows
<1>7. row[call[c].name] = call[c].secret =>
        row'[call[c].name] = call[c].secret \/ NameAdmits(c)'
  BY <1>4 DEF NameAdmits
<1> QED
  BY <1>1, <1>2, <1>3, <1>5, <1>6, <1>7 DEF Admitted

\* A call that moves.
LEMMA MovingIsAdmitted ==
  ASSUME TypeInv, TypeInv', ReachInv, SinceInv, Watch,
         NEW c \in Calls, Device(c), call'[c].pc # "idle"
  PROVE  Admitted(c)'
<1> USE DEF Past
<1>0. /\ call[c] \in Call \cup {Idle} /\ (call[c].pc # "idle" => Admitted(c))
      /\ call[c].pc # "idle" =>
           /\ call[c] \in Call /\ call[c].name \in Names /\ call[c].tok \in Tokens
           /\ tok[call[c].tok].stored
  BY DEF SinceInv, ReachInv, CallReaches, TypeInv, TypeOK, Call, Idle
<1>1. /\ since[c].live => since'[c].live
      /\ Live(tok'[call'[c].tok]) => since'[c].live
      /\ since[c].covered => since'[c].covered
      /\ AllowsSecret(tok'[call'[c].tok].secrets, call'[c].name) => since'[c].covered
      /\ since[c].rows \subseteq since'[c].rows
      /\ \A n \in Names : row'[n] \in Rows /\ AddressAllowed(nets'[row'[n]], call'[c].ip)
                            => row'[n] \in since'[c].rows
  BY WatchSees
<1>2. CASE list(c) \/ value(c) \/ Other(c)
  <2>1. PICK op \in Ops, name \in Names : get(c, op, name)
    BY <1>2 DEF list, value, Other, Ops
  <2> QED
    BY <2>1 DEF get, Admitted, TypeInv, TypeOK
<1>3. CASE ReadRow(c)
  <2>1. /\ call'[c] = [call[c] EXCEPT !.pc = "scope", !.revoked = tok[call[c].tok].revoked]
        /\ call[c] \in Call /\ UNCHANGED tok
    BY <1>0, <1>3 DEF ReadRow, data, TypeInv, TypeOK, Call
  <2>2. ~call'[c].revoked /\ ~tok'[call'[c].tok].expired => Live(tok'[call'[c].tok])
    <3>1. /\ call'[c].revoked = tok[call[c].tok].revoked /\ call'[c].tok = call[c].tok
          /\ tok' = tok
      BY <2>1 DEF Call
    <3>2. tok[call[c].tok].revoked \in BOOLEAN /\ tok[call[c].tok].expired \in BOOLEAN
      BY <1>0, <2>1 DEF TypeInv, TypeOK, Token, Call
    <3> QED
      BY <1>0, <1>3, <3>1, <3>2 DEF ReadRow, Live
  <2> QED
    BY <1>1, <2>1, <2>2 DEF Admitted, Call
<1>4. CASE ReadScope(c)
  <2>1. call[c] \in Call /\ Admitted(c) /\ call[c].pc = "scope" /\ UNCHANGED tok
    BY <1>0, <1>4 DEF ReadScope, data
  <2>2. authenticate(c) /\ scopedName(c)
    BY <1>4 DEF ReadScope, Idle, TypeInv, TypeOK
  <2>3. call'[c] = [call[c] EXCEPT !.pc = IF call[c].op = "list" THEN "act" ELSE "meta"]
    BY <1>4, <2>2 DEF ReadScope, TypeInv, TypeOK
  <2>4. since[c].live
    BY <2>1, <2>2 DEF authenticate, Admitted
  <2>5. AllowsSecret(tok'[call'[c].tok].secrets, call'[c].name)
    BY <2>1, <2>2, <2>3 DEF scopedName, Call
  <2>6. /\ call'[c].pc \in {"act", "meta"} /\ call'[c].op = call[c].op
        /\ call'[c].op # "list" => call'[c].pc = "meta"
    BY <2>1, <2>3 DEF Call
  <2> QED
    BY <1>1, <2>4, <2>5, <2>6 DEF Admitted
<1>5. CASE ReadMeta(c)
  <2>1. /\ call[c] \in Call /\ Admitted(c) /\ call[c].pc = "meta" /\ UNCHANGED <<row, rows>>
        /\ since[c].live /\ since[c].covered /\ row[call[c].name] \in 0..MaxRows
        /\ row[call[c].name] <= rows
    BY <1>0, <1>5 DEF ReadMeta, data, Admitted, TypeInv, TypeOK
  <2>2. CASE row[call[c].name] # 0
    <3>1. call'[c] = [call[c] EXCEPT !.pc = "networks", !.secret = row[call[c].name]]
      BY <1>5, <2>2 DEF ReadMeta, TypeInv, TypeOK
    <3>2. row[call[c].name] \in Rows
      BY <2>1, <2>2, BoundsAssumption DEF Rows
    <3>3. /\ call'[c].pc = "networks" /\ call'[c].secret = row[call[c].name]
          /\ call'[c].name = call[c].name
      BY <2>1, <3>1 DEF Call
    <3> QED
      BY <1>1, <2>1, <3>2, <3>3 DEF Admitted
  <2>3. CASE row[call[c].name] = 0
    <3>1. call'[c] = [call[c] EXCEPT !.pc = "act"]
      BY <1>5, <2>3 DEF ReadMeta, TypeInv, TypeOK, Idle
    <3>2. call'[c].pc = "act" /\ call'[c].name = call[c].name
      BY <2>1, <3>1 DEF Call
    <3> QED
      BY <1>1, <2>1, <2>3, <3>2 DEF Admitted, NameAdmits
  <2> QED
    BY <2>2, <2>3
<1>6. CASE CheckAddress(c)
  <2>1. /\ call[c] \in Call /\ Admitted(c) /\ call[c].pc = "networks" /\ UNCHANGED <<row, nets>>
        /\ since[c].live /\ since[c].covered
    BY <1>0, <1>6 DEF CheckAddress, data, Admitted
  <2>2. addressAllowed(c) /\ call'[c] = [call[c] EXCEPT !.pc = "act"]
    BY <1>6 DEF CheckAddress, TypeInv, TypeOK, Idle
  <2>3. /\ call'[c].pc = "act" /\ call'[c].op = call[c].op /\ call'[c].ip = call[c].ip
        /\ call'[c].name = call[c].name /\ call[c].name \in Names
    BY <2>1, <2>2 DEF Call
  <2>4. call[c].op # "list" => NameAdmits(c)'
    <3>1. CASE call[c].op # "list" /\ row[call[c].name] = call[c].secret
      <4>1. row'[call[c].name] \in Rows /\ AddressAllowed(nets'[row'[call[c].name]], call'[c].ip)
        BY <2>1, <2>2, <2>3, <3>1 DEF Admitted, addressAllowed
      <4> QED
        BY <1>1, <2>3, <4>1 DEF NameAdmits
    <3>2. CASE call[c].op # "list" /\ NameAdmits(c)
      BY <1>1, <2>1, <2>3, <3>2 DEF NameAdmits
    <3> QED
      BY <2>1, <3>1, <3>2 DEF Admitted
  <2> QED
    BY <1>1, <2>1, <2>3, <2>4 DEF Admitted
<1>7. CASE Read(c)
  <2>1. /\ call[c] \in Call /\ Admitted(c) /\ call[c].pc = "act"
        /\ since[c].live /\ since[c].covered
    BY <1>0, <1>7 DEF Read, Admitted
  <2>2. /\ row[call[c].name] # 0
        /\ call'[c] = [call[c] EXCEPT !.pc = "served", !.secret = row[call[c].name]]
    <3>1. row[call[c].name] # 0
      BY <1>7 DEF Read, Idle, TypeInv, TypeOK
    <3>2. Served(c, row[call[c].name])
      BY <1>7, <3>1 DEF Read
    <3> QED
      BY <2>1, <3>1, <3>2 DEF Served, TypeInv, TypeOK, Call
  <2>3. call'[c].pc = "served" /\ call'[c].op = call[c].op /\ call'[c].secret = row[call[c].name]
    BY <2>1, <2>2 DEF Call
  <2> QED
    BY <1>1, <2>1, <2>2, <2>3 DEF Admitted, NameAdmits
<1>8. CASE Write(c)
  <2>1. /\ call[c] \in Call /\ Admitted(c) /\ call[c].pc = "act" /\ call[c].name \in Names
        /\ since[c].live /\ since[c].covered /\ Put(call[c].name) /\ UNCHANGED nets
    BY <1>0, <1>8 DEF Write, Admitted
  <2>2. call'[c] = [call[c] EXCEPT !.pc = "served", !.secret = row'[call[c].name]]
    BY <1>8, <2>1 DEF Write, Served, TypeInv, TypeOK, Call
  <2>3. call'[c].pc = "served" /\ call'[c].op = call[c].op /\ call'[c].secret = row'[call[c].name]
    BY <2>1, <2>2 DEF Call
  <2>4. Step
    BY DEF Step
  <2>5. row'[call[c].name] \in Rows
    BY <2>1, PutKeepsRows
  <2>6. row'[call[c].name] = row[call[c].name] \/ nets'[row'[call[c].name]] = {}
    BY <2>1, <2>4, <2>5, RowsMove DEF Rows
  <2>7. nets'[row'[call[c].name]] = {} => row'[call[c].name] \in since'[c].rows
    BY <1>1, <2>1, <2>5 DEF AddressAllowed
  <2>8. ~ (0 \in Rows)
    BY DEF Rows
  <2> QED
    BY <1>1, <2>1, <2>3, <2>5, <2>6, <2>7, <2>8 DEF Admitted, NameAdmits
<1>9. CASE Delete(c)
  <2>1. /\ call[c] \in Call /\ Admitted(c) /\ call[c].pc = "act"
        /\ since[c].live /\ since[c].covered
    BY <1>0, <1>9 DEF Delete, Admitted
  <2>2. /\ row[call[c].name] # 0
        /\ call'[c] = [call[c] EXCEPT !.pc = "served", !.secret = row[call[c].name]]
    <3>1. row[call[c].name] # 0
      BY <1>9 DEF Delete, Idle, TypeInv, TypeOK
    <3>2. Served(c, row[call[c].name])
      BY <1>9, <3>1 DEF Delete
    <3> QED
      BY <2>1, <3>1, <3>2 DEF Served, TypeInv, TypeOK, Call
  <2>3. call'[c].pc = "served" /\ call'[c].op = call[c].op /\ call'[c].secret = row[call[c].name]
    BY <2>1, <2>2 DEF Call
  <2> QED
    BY <1>1, <2>1, <2>2, <2>3 DEF Admitted, NameAdmits
<1>10. CASE Answer(c)
  BY <1>10 DEF Answer, Idle, TypeInv, TypeOK
<1> QED
  BY <1>2, <1>3, <1>4, <1>5, <1>6, <1>7, <1>8, <1>9, <1>10 DEF Device

LEMMA InitSince == Init => SinceInv
BY DEF Init, SinceInv, Nothing, Moment, Idle

LEMMA StepSince == TypeInv /\ TypeInv' /\ ReachInv /\ SinceInv /\ [Next]_vars => SinceInv'
<1>1. ASSUME TypeInv, TypeInv', ReachInv, SinceInv, Step, Watch
      PROVE  SinceInv'
  <2>1. \A c \in Calls : call'[c].pc # "idle" => Admitted(c)'
    BY <1>1, OthersWait, WaitingIsAdmitted, MovingIsAdmitted
  <2> QED
    BY <1>1, <2>1, WatchSees DEF SinceInv
<1>2. ASSUME SinceInv, UNCHANGED vars
      PROVE  SinceInv'
  BY <1>2 DEF vars, SinceInv, Admitted, NameAdmits
<1> QED
  BY <1>1, <1>2 DEF Next

\* What a call is served it was allowed at some moment since it began: its token
\* was live, its scope covered the name, and the very row it reads, overwrites
\* or deletes admitted its address - whoever revoked, narrowed, pinned, deleted
\* or wrote meanwhile, although the address is checked on one row and the name
\* is used later.
THEOREM ServedIsAllowed == Spec => []ServedWasAllowed
<1>1. SinceInv => ServedWasAllowed
  BY DEF SinceInv, ServedWasAllowed, Admitted, Past
<1> QED
  BY <1>1, InitTypes, StepKeepsTypes, InitReaches, StepReaches, InitSince, StepSince, PTL
     DEF Spec

================================================================================
