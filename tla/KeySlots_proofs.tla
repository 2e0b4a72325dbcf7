---------------------------- MODULE KeySlots_proofs ----------------------------
(***************************************************************************)
(* Proofs about KeySlots, for every number of processes, hosts, keys and   *)
(* codes, whatever the processes run and whatever is interrupted.  What is *)
(* proved of the custody of the root key is under the condition the code   *)
(* makes: one shell at a time runs the commands that write the slots.      *)
(***************************************************************************)
EXTENDS KeySlots, FiniteSetTheorems, TLAPS

\* Every process but one runs the server and nothing else.
OneShell == \E shell \in Procs : \A p \in Procs : p # shell => Runs[p] \subseteq {"serve"}

--------------------------------------------------------------------------------
(***************************************************************************)
(* Types, with what a process holds at each step of a command.             *)
(***************************************************************************)
Sealing == {"init", "recover", "reseal"}

Shaped(p, me) ==
  /\ me.at = "idle" => me = Idle
  /\ me.at # "idle" => me.cmd \in Runs[p]
  /\ me.at \notin {"idle", "expose", "open"} => me.cmd \in Sealing
  /\ me.at = "expose" => me.slot \in MachineSlot /\ me.cmd \in {"reseal", "serve"}
  /\ me.at # "expose" => me.slot = None
  /\ me.at \notin {"idle", "expose"} => me.root \in Roots
  /\ me.at \in {"protect", "save"} => me.provider \in Providers
  /\ me.at = "save" => me.wrap \in Wraps
  /\ me.at \in {"recovery", "kit"} => me.cmd = "init"
  /\ me.at = "kit" => me.code \in Codes

TypeInv == TypeOK /\ \A p \in Procs : Shaped(p, procs[p])

\* A step of a process gives it another record, of the same shape.
LEMMA SetKeepsTypes ==
  ASSUME TypeInv, NEW p \in Procs, NEW x \in Proc, Shaped(p, x), Set(p, x)
  PROVE  /\ procs' \in [Procs -> Proc] /\ \A q \in Procs : Shaped(q, procs'[q])
         /\ procs'[p] = x /\ \A q \in Procs : q # p => procs'[q] = procs[q]
BY DEF TypeInv, TypeOK, Set

LEMMA IdleIsShaped == Idle \in Proc /\ \A p \in Procs : Shaped(p, Idle)
BY DEF Idle, Proc, Steps, Shaped

LEMMA ReprovisionIsShaped ==
  ASSUME NEW p \in Procs, NEW cmd \in Sealing \cap Runs[p], NEW root \in Roots
  PROVE  /\ ReprovisionMachineSlot(cmd, root) \in Proc
         /\ Shaped(p, ReprovisionMachineSlot(cmd, root))
<1> DEFINE x == ReprovisionMachineSlot(cmd, root)
<1>1. x \in Proc
  BY DEF ReprovisionMachineSlot, Idle, Proc, Steps, Commands, Sealing, Providers, Detect
<1>2. Shaped(p, x)
  BY DEF ReprovisionMachineSlot, Idle, Shaped, Providers, Detect
<1> QED
  BY <1>1, <1>2

\* What a process holds where it stands.
LEMMA Holds ==
  ASSUME TypeInv, NEW p \in Procs
  PROVE  procs[p] \in Proc /\ Shaped(p, procs[p])
BY DEF TypeInv, TypeOK

LEMMA BeginningKeepsTypes ==
  ASSUME TypeInv, NEW p \in Procs,
         runInit(p) \/ runRecover(p) \/ runServer(p) \/ runMaintenanceReseal(p)
  PROVE  TypeInv' /\ UNCHANGED <<disk, world, vaults, printed>>
<1>1. ASSUME NEW x \in Proc, Shaped(p, x), Set(p, x), UNCHANGED <<disk, world, vaults, printed>>
      PROVE  TypeInv'
  BY <1>1, SetKeepsTypes DEF TypeInv, TypeOK, disk, world
<1>2. CASE runInit(p)
  BY <1>1, <1>2, ReprovisionIsShaped DEF runInit, BeginInit, Sealing
<1>3. CASE runRecover(p)
  <2>1. recovery # None /\ recovery.root \in Roots
    BY <1>3 DEF runRecover, BeginRecover, TypeInv, TypeOK, RecoverySlot
  <2>2. "recover" \in Sealing \cap Runs[p]
    BY <1>3 DEF runRecover, BeginRecover, Sealing
  <2>3. Set(p, ReprovisionMachineSlot("recover", recovery.root))
        /\ UNCHANGED <<disk, world, vaults, printed>>
    BY <1>3 DEF runRecover, BeginRecover
  <2> QED
    BY <1>1, <2>1, <2>2, <2>3, ReprovisionIsShaped
<1>4. ASSUME NEW cmd \in {"reseal", "serve"}, KeySlotByKind(p, cmd)
      PROVE  TypeInv' /\ UNCHANGED <<disk, world, vaults, printed>>
  <2> DEFINE x == [Idle EXCEPT !.at = "expose", !.cmd = cmd, !.slot = machine]
  <2>1. machine \in MachineSlot /\ cmd \in Runs[p] /\ Set(p, x)
        /\ UNCHANGED <<disk, world, vaults, printed>>
    BY <1>4 DEF KeySlotByKind, TypeInv, TypeOK
  <2>2. x \in Proc /\ Shaped(p, x)
    BY <2>1 DEF Idle, Proc, Steps, Commands, Shaped
  <2> HIDE DEF x
  <2> QED
    BY <1>1, <2>1, <2>2
<1>5. CASE runServer(p) \/ runMaintenanceReseal(p)
  BY <1>4, <1>5 DEF runServer, runMaintenanceReseal
<1> QED
  BY <1>2, <1>3, <1>5 DEF runInit, BeginInit, runRecover, BeginRecover

LEMMA StepKeepsTypes ==
  ASSUME TypeInv, NEW p \in Procs, Step(p) \/ CreateVault(p) \/ Leave(p)
  PROVE  TypeInv'
<1> DEFINE me == procs[p]
<1>0. me \in Proc /\ Shaped(p, me)
  BY Holds
<1>1. ASSUME NEW x \in Proc, Shaped(p, x), Set(p, x),
             machine' \in MachineSlot \cup {None}, recovery' \in RecoverySlot \cup {None},
             keyfile' \in Wraps \cup {None}, UNCHANGED <<world, vaults>>, printed' \subseteq Codes
      PROVE  TypeInv'
  BY <1>1, SetKeepsTypes DEF TypeInv, TypeOK, world
<1>2. ASSUME NEW x \in Proc, Shaped(p, x), Set(p, x), UNCHANGED <<disk, world, vaults, printed>>
      PROVE  TypeInv'
  BY <1>1, <1>2 DEF TypeInv, TypeOK, disk
<1>3. CASE Unseal(p)
  <2>1. CASE me.cmd = "serve"
    <3> DEFINE x == [Idle EXCEPT !.at = "open", !.cmd = "serve", !.root = me.slot.root]
    <3>1. me.slot \in MachineSlot /\ "serve" \in Runs[p]
      BY <1>0, <1>3, <2>1 DEF Unseal, At, Shaped
    <3>2. x \in Proc /\ Shaped(p, x)
      BY <3>1 DEF Idle, Proc, Steps, Commands, Shaped, MachineSlot
    <3>3. Set(p, x)
      BY <1>3, <2>1 DEF Unseal
    <3> HIDE DEF x
    <3> QED
      BY <1>2, <1>3, <3>2, <3>3 DEF Unseal
  <2>2. CASE me.cmd # "serve"
    <3>1. me.slot \in MachineSlot /\ me.cmd = "reseal" /\ "reseal" \in Runs[p]
      BY <1>0, <1>3, <2>2 DEF Unseal, At, Shaped
    <3>2. Set(p, ReprovisionMachineSlot("reseal", me.slot.root)) /\ me.slot.root \in Roots
          /\ UNCHANGED <<disk, world, vaults, printed>>
      BY <1>3, <2>2, <3>1 DEF Unseal, MachineSlot
    <3> QED
      BY <1>2, <3>1, <3>2, ReprovisionIsShaped DEF Sealing
  <2> QED
    BY <2>1, <2>2
<1>4. ASSUME NEW w \in Wraps, Protect(p, w)
      PROVE  TypeInv'
  <2> DEFINE x == [me EXCEPT !.at = "save", !.wrap = w]
  <2>1. x \in Proc /\ Shaped(p, x) /\ Set(p, x)
    BY <1>0, <1>4 DEF Protect, At, Proc, Steps, Shaped
  <2> HIDE DEF x
  <2> QED
    BY <1>1, <1>4, <2>1 DEF Protect, KeyfileProtect, TypeInv, TypeOK
<1>5. CASE SaveMachineSlot(p)
  <2> DEFINE x == [me EXCEPT !.at = "meta", !.wrap = None]
  <2>1. x \in Proc /\ Shaped(p, x) /\ Set(p, x)
    BY <1>0, <1>5 DEF SaveMachineSlot, At, Proc, Steps, Shaped
  <2>2. machine' \in MachineSlot
    BY <1>0, <1>5 DEF SaveMachineSlot, At, Shaped, MachineSlot, TypeInv, TypeOK
  <2> HIDE DEF x
  <2> QED
    BY <1>1, <1>5, <2>1, <2>2 DEF SaveMachineSlot, TypeInv, TypeOK
<1>6. CASE FallBack(p)
  <2> DEFINE x == [me EXCEPT !.at = "protect", !.provider = Fallback, !.wrap = None]
  <2>1. x \in Proc /\ Shaped(p, x) /\ Set(p, x)
    BY <1>0, <1>6 DEF FallBack, Proc, Steps, Shaped, Fallback, Providers
  <2> HIDE DEF x
  <2> QED
    BY <1>2, <1>6, <2>1 DEF FallBack
<1>7. CASE SetMeta(p)
  <2> DEFINE s == CASE me.cmd = "init"    -> "recovery"
                    [] me.cmd = "reseal"  -> "verify"
                    [] me.cmd = "recover" -> "open"
             x == [me EXCEPT !.at = s]
  <2>1. me.at = "meta" /\ me.cmd \in Sealing
    BY <1>0, <1>7 DEF SetMeta, At, Shaped
  <2>2. s = IF me.cmd = "init" THEN "recovery" ELSE IF me.cmd = "reseal" THEN "verify" ELSE "open"
    BY <2>1 DEF Sealing
  <2>3. Set(p, x)
    BY <1>7 DEF SetMeta, Goto
  <2> HIDE DEF s
  <2>4. x \in Proc /\ Shaped(p, x)
    BY <1>0, <2>1, <2>2 DEF Proc, Steps, Shaped, Sealing
  <2> HIDE DEF x
  <2> QED
    BY <1>2, <1>7, <2>3, <2>4 DEF SetMeta
<1>8. ASSUME NEW c \in Codes, SaveRecoverySlot(p, c)
      PROVE  TypeInv'
  <2> DEFINE x == [me EXCEPT !.at = "kit", !.code = c]
  <2>1. x \in Proc /\ Shaped(p, x) /\ Set(p, x)
    BY <1>0, <1>8 DEF SaveRecoverySlot, At, Proc, Steps, Shaped
  <2>2. recovery' \in RecoverySlot
    BY <1>0, <1>8 DEF SaveRecoverySlot, At, Shaped, RecoverySlot
  <2> HIDE DEF x
  <2> QED
    BY <1>1, <1>8, <2>1, <2>2 DEF SaveRecoverySlot, TypeInv, TypeOK
<1>9. CASE PrintKit(p)
  <2> DEFINE x == [me EXCEPT !.at = "open"]
  <2>1. x \in Proc /\ Shaped(p, x) /\ Set(p, x) /\ me.code \in Codes
    BY <1>0, <1>9 DEF PrintKit, Goto, At, Proc, Steps, Shaped
  <2> HIDE DEF x
  <2> QED
    BY <1>1, <1>9, <2>1 DEF PrintKit, TypeInv, TypeOK, disk
<1>10. CASE Verify(p)
  <2> DEFINE x == [me EXCEPT !.at = "open"]
  <2>1. x \in Proc /\ Shaped(p, x) /\ Set(p, x)
    BY <1>0, <1>10 DEF Verify, Goto, At, Proc, Steps, Shaped
  <2> HIDE DEF x
  <2> QED
    BY <1>2, <1>10, <2>1 DEF Verify
<1>11. CASE Abort(p) \/ Leave(p)
  BY <1>2, <1>11, IdleIsShaped DEF Abort, Leave
<1>12. CASE CreateVault(p)
  <2>1. me.root \in Roots
    BY <1>0, <1>12 DEF CreateVault, At, Shaped
  <2> QED
    BY <1>12, <2>1 DEF CreateVault, TypeInv, TypeOK, disk, world
<1> QED
  BY <1>3, <1>4, <1>5, <1>6, <1>7, <1>8, <1>9, <1>10, <1>11, <1>12 DEF Step

LEMMA InitTypes == Init => TypeInv
BY IdleIsShaped DEF Init, TypeInv, TypeOK

LEMMA NextKeepsTypes == TypeInv /\ [Next]_vars => TypeInv'
<1>1. ASSUME TypeInv, TpmChanges PROVE TypeInv'
  BY <1>1 DEF TpmChanges, TypeInv, TypeOK, disk
<1>2. ASSUME TypeInv, NEW h \in Hosts, MoveTo(h) PROVE TypeInv'
  BY <1>2 DEF MoveTo, TypeInv, TypeOK
<1>3. ASSUME TypeInv, UNCHANGED vars PROVE TypeInv'
  BY <1>3 DEF vars, TypeInv, TypeOK
<1> QED
  BY <1>1, <1>2, <1>3, BeginningKeepsTypes, StepKeepsTypes DEF Next

\* What the slots, the file and the processes hold, at every step of every command.
THEOREM TypeCorrect == Spec => []TypeOK
BY InitTypes, NextKeepsTypes, PTL DEF Spec, TypeInv

--------------------------------------------------------------------------------
(***************************************************************************)
(* Custody.  Until the machine slot is first saved there is nothing but    *)
(* one setup under way.  From then on its root key is that of everything   *)
(* there is, in the database and in memory.  The code that was printed, or *)
(* is about to be, is that of the recovery slot.  And from the moment the  *)
(* slot is saved to the end of the command that saved it, it opens.        *)
(***************************************************************************)
BeforeOf(me) == me.at = "idle" \/ (me.cmd = "init" /\ me.at \in {"protect", "save"})

AfterOf(me) ==
  /\ me.root \in {None, machine.root}
  /\ me.at = "expose" => me.slot.root = machine.root
  /\ me.cmd = "init" => me.at \notin {"protect", "save"}

PaperOf(me) ==
  /\ me.cmd = "init" /\ me.at \in {"meta", "recovery"} => recovery = None
  /\ me.at = "kit" => recovery # None /\ recovery.code = me.code /\ printed = {}

OpensOf(me) ==
  /\ me.at \in {"protect", "save"} /\ me.provider = "tpm" => tpm
  /\ me.at = "save" /\ me.provider = "keyfile" => keyfile = me.wrap
  /\ me.at \in {"meta", "recovery", "kit", "verify", "open"} /\ me.cmd # "serve"
       => machine # None /\ Exposes(machine)

ProcOf(me) ==
  /\ machine = None => BeforeOf(me)
  /\ machine # None => AfterOf(me)
  /\ PaperOf(me) /\ OpensOf(me)

SlotsAgree ==
  /\ machine = None => recovery = None /\ vaults = {}
  /\ machine # None => /\ recovery # None => recovery.root = machine.root
                       /\ vaults \subseteq {machine.root}
  /\ printed # {} => recovery # None /\ printed = {recovery.code}

Custody == SlotsAgree /\ \A p \in Procs : ProcOf(procs[p])

\* Where one process may write the slots, the others serve or do nothing.
LEMMA OthersServe ==
  ASSUME OneShell, TypeInv, NEW p \in Procs, NEW cmd \in Sealing, cmd \in Runs[p],
         NEW q \in Procs, q # p
  PROVE  procs[q] = Idle \/ (procs[q].cmd = "serve" /\ procs[q].at \in {"expose", "open"})
<1>1. Runs[q] \subseteq {"serve"}
  BY DEF OneShell, Sealing
<1>2. Shaped(q, procs[q])
  BY Holds
<1> QED
  BY <1>1, <1>2 DEF Shaped, Sealing

\* A step that changes nothing but what its process holds.
LEMMA SetKeepsCustody ==
  ASSUME Custody, TypeInv, NEW p \in Procs, NEW x \in Proc, Shaped(p, x), Set(p, x), ProcOf(x),
         UNCHANGED <<disk, world, vaults, printed>>
  PROVE  Custody'
<1>1. \A y : ProcOf(y)' <=> ProcOf(y)
  BY DEF ProcOf, BeforeOf, AfterOf, PaperOf, OpensOf, Exposes, SystemdTPM2Exposes, KeyfileExposes,
         disk, world
<1>2. SlotsAgree'
  BY DEF Custody, SlotsAgree, disk
<1>3. \A q \in Procs : ProcOf(procs'[q])
  BY SetKeepsTypes DEF Custody
<1> QED
  BY <1>1, <1>2, <1>3 DEF Custody

LEMMA IdleIsProcOf == ProcOf(Idle) /\ ProcOf(Idle)'
BY DEF Idle, ProcOf, BeforeOf, AfterOf, PaperOf, OpensOf

LEMMA BeginningKeepsCustody ==
  ASSUME OneShell, Custody, TypeInv, NEW p \in Procs,
         runInit(p) \/ runRecover(p) \/ runServer(p) \/ runMaintenanceReseal(p)
  PROVE  Custody'
<1>1. ASSUME NEW r \in Roots, BeginInit(p, r)
      PROVE  Custody'
  <2>1. machine = None /\ "init" \in Sealing \cap Runs[p]
    BY <1>1 DEF BeginInit, Initialized, Sealing
  <2> DEFINE x == ReprovisionMachineSlot("init", r)
  <2>2. x \in Proc /\ Shaped(p, x)
    BY <2>1, ReprovisionIsShaped
  <2>3. ProcOf(x)
    BY <2>1 DEF ReprovisionMachineSlot, Idle, Detect, ProcOf, BeforeOf, PaperOf, OpensOf
  <2> HIDE DEF x
  <2> QED
    BY <1>1, <2>2, <2>3, SetKeepsCustody DEF BeginInit, x
<1>2. ASSUME NEW code \in Codes, BeginRecover(p, code)
      PROVE  Custody'
  <2> DEFINE x == ReprovisionMachineSlot("recover", recovery.root)
  <2>1. /\ recovery # None /\ recovery.root \in Roots /\ machine # None
        /\ "recover" \in Sealing \cap Runs[p] /\ recovery.root = machine.root
    BY <1>2 DEF BeginRecover, Sealing, TypeInv, TypeOK, RecoverySlot, Custody, SlotsAgree
  <2>2. x \in Proc /\ Shaped(p, x)
    BY <2>1, ReprovisionIsShaped
  <2>3. ProcOf(x)
    BY <2>1 DEF ReprovisionMachineSlot, Idle, Detect, ProcOf, AfterOf, PaperOf, OpensOf
  <2> HIDE DEF x
  <2> QED
    BY <1>2, <2>2, <2>3, SetKeepsCustody DEF BeginRecover, x
<1>3. ASSUME NEW cmd \in {"reseal", "serve"}, KeySlotByKind(p, cmd)
      PROVE  Custody'
  <2> DEFINE x == [Idle EXCEPT !.at = "expose", !.cmd = cmd, !.slot = machine]
  <2>1. machine # None /\ machine \in MachineSlot /\ cmd \in Runs[p] /\ Set(p, x)
        /\ UNCHANGED <<disk, world, vaults, printed>>
    BY <1>3 DEF KeySlotByKind, TypeInv, TypeOK
  <2>2. x \in Proc /\ Shaped(p, x)
    BY <2>1 DEF Idle, Proc, Steps, Commands, Shaped
  <2>3. ProcOf(x)
    BY <2>1 DEF Idle, ProcOf, AfterOf, PaperOf, OpensOf
  <2> HIDE DEF x
  <2> QED
    BY <2>1, <2>2, <2>3, SetKeepsCustody
<1> QED
  BY <1>1, <1>2, <1>3 DEF runInit, runRecover, runServer, runMaintenanceReseal

\* The steps of a command that write nothing.
LEMMA GoingOnKeepsCustody ==
  ASSUME OneShell, Custody, TypeInv, NEW p \in Procs,
         Unseal(p) \/ FallBack(p) \/ SetMeta(p) \/ Verify(p) \/ Abort(p) \/ Leave(p)
  PROVE  Custody'
<1> DEFINE me == procs[p]
<1>0. me \in Proc /\ Shaped(p, me) /\ ProcOf(me)
  BY Holds DEF Custody
<1>1. CASE Unseal(p) /\ me.cmd = "serve"
  <2> DEFINE x == [Idle EXCEPT !.at = "open", !.cmd = "serve", !.root = me.slot.root]
  <2>1. me.slot \in MachineSlot /\ "serve" \in Runs[p] /\ machine # None
        /\ me.slot.root = machine.root
    BY <1>0, <1>1 DEF Unseal, At, Shaped, ProcOf, BeforeOf, AfterOf
  <2>2. x \in Proc /\ Shaped(p, x)
    BY <2>1 DEF Idle, Proc, Steps, Commands, Shaped, MachineSlot
  <2>3. Set(p, x) /\ UNCHANGED <<disk, world, vaults, printed>>
    BY <1>1 DEF Unseal
  <2>4. ProcOf(x)
    BY <2>1 DEF Idle, ProcOf, AfterOf, PaperOf, OpensOf
  <2> HIDE DEF x
  <2> QED
    BY <2>2, <2>3, <2>4, SetKeepsCustody
<1>2. CASE Unseal(p) /\ me.cmd # "serve"
  <2> DEFINE x == ReprovisionMachineSlot("reseal", me.slot.root)
  <2>1. /\ me.slot \in MachineSlot /\ me.slot.root \in Roots /\ "reseal" \in Sealing \cap Runs[p]
        /\ machine # None /\ me.slot.root = machine.root
    BY <1>0, <1>2 DEF Unseal, At, Shaped, ProcOf, BeforeOf, AfterOf, Sealing, MachineSlot
  <2>2. x \in Proc /\ Shaped(p, x)
    BY <2>1, ReprovisionIsShaped
  <2>3. Set(p, x) /\ UNCHANGED <<disk, world, vaults, printed>>
    BY <1>2 DEF Unseal
  <2>4. ProcOf(x)
    BY <2>1 DEF ReprovisionMachineSlot, Idle, Detect, ProcOf, AfterOf, PaperOf, OpensOf
  <2> HIDE DEF x
  <2> QED
    BY <2>2, <2>3, <2>4, SetKeepsCustody
<1>3. CASE FallBack(p)
  <2> DEFINE x == [me EXCEPT !.at = "protect", !.provider = Fallback, !.wrap = None]
  <2>1. x \in Proc /\ Shaped(p, x)
    BY <1>0, <1>3 DEF FallBack, Proc, Steps, Shaped, Fallback, Providers
  <2>2. /\ x.at = "protect" /\ x.provider = "keyfile" /\ x.cmd = me.cmd /\ x.root = me.root
        /\ me.at \in {"protect", "save"}
    BY <1>0, <1>3 DEF FallBack, Proc, Fallback
  <2> HIDE DEF x
  <2>3. ProcOf(x)
    BY <1>0, <2>2 DEF ProcOf, BeforeOf, AfterOf, PaperOf, OpensOf
  <2> QED
    BY <1>3, <2>1, <2>3, SetKeepsCustody DEF FallBack, x
<1>4. ASSUME NEW s \in {"recovery", "verify", "open"}, me.at \in {"meta", "verify"},
             Goto(p, s), UNCHANGED <<disk, world, vaults, printed>>, Shaped(p, [me EXCEPT !.at = s]),
             s = "recovery" => me.at = "meta" /\ me.cmd = "init", me.cmd # "serve"
      PROVE  Custody'
  <2> DEFINE x == [me EXCEPT !.at = s]
  <2>1. x \in Proc /\ Shaped(p, x) /\ Set(p, x)
    BY <1>0, <1>4 DEF Goto, Proc, Steps
  <2>2. x.at = s /\ x.cmd = me.cmd /\ x.root = me.root
    BY <1>0 DEF Proc
  <2> HIDE DEF x
  <2>3. ProcOf(x)
    BY <1>0, <1>4, <2>2 DEF ProcOf, BeforeOf, AfterOf, PaperOf, OpensOf
  <2> QED
    BY <1>4, <2>1, <2>3, SetKeepsCustody
<1>5. CASE SetMeta(p)
  <2> DEFINE s == CASE me.cmd = "init"    -> "recovery"
                    [] me.cmd = "reseal"  -> "verify"
                    [] me.cmd = "recover" -> "open"
  <2>1. me.at = "meta" /\ me.cmd \in Sealing
    BY <1>0, <1>5 DEF SetMeta, At, Shaped
  <2>2. s = IF me.cmd = "init" THEN "recovery" ELSE IF me.cmd = "reseal" THEN "verify" ELSE "open"
    BY <2>1 DEF Sealing
  <2>3. Goto(p, s) /\ UNCHANGED <<disk, world, vaults, printed>>
    BY <1>5 DEF SetMeta
  <2> HIDE DEF s
  <2>4. Shaped(p, [me EXCEPT !.at = s])
    BY <1>0, <2>1, <2>2 DEF Proc, Steps, Shaped, Sealing
  <2> QED
    BY <1>4, <2>1, <2>2, <2>3, <2>4 DEF Sealing
<1>6. CASE Verify(p)
  <2>1. Shaped(p, [me EXCEPT !.at = "open"]) /\ me.at = "verify" /\ me.cmd \in Sealing
    BY <1>0, <1>6 DEF Verify, At, Proc, Shaped
  <2> QED
    BY <1>4, <1>6, <2>1 DEF Verify, Sealing
<1>7. CASE Abort(p) \/ Leave(p)
  BY <1>7, IdleIsShaped, IdleIsProcOf, SetKeepsCustody DEF Abort, Leave
<1> QED
  BY <1>1, <1>2, <1>3, <1>5, <1>6, <1>7

\* The steps of a command that write: the file, the slots, a sheet of paper, a vault.
LEMMA WritingKeepsCustody ==
  ASSUME OneShell, Custody, TypeInv, NEW p \in Procs,
         \/ \E w \in Wraps : Protect(p, w)
         \/ SaveMachineSlot(p)
         \/ \E c \in Codes : SaveRecoverySlot(p, c)
         \/ PrintKit(p)
  PROVE  Custody'
<1> DEFINE me == procs[p]
<1>0. /\ me \in Proc /\ Shaped(p, me) /\ ProcOf(me)
      /\ me.at \in {"protect", "save", "recovery", "kit"} /\ me.cmd \in Sealing \cap Runs[p]
      /\ me.root \in Roots /\ me.root # None
  BY Holds, NoneAssumption
  DEF Custody, Protect, SaveMachineSlot, SaveRecoverySlot, PrintKit, At, Shaped
<1>1. ASSUME NEW x \in Proc, procs' = [procs EXCEPT ![p] = x], SlotsAgree', ProcOf(x)',
             UNCHANGED <<vaults, tpm, host>>, machine' # None,
             machine # None => machine'.root = machine.root
      PROVE  Custody'
  <2>1. ASSUME NEW q \in Procs, q # p
        PROVE  ProcOf(procs[q])'
    <3>1. procs'[q] = procs[q] /\ procs[q] \in Proc /\ Shaped(q, procs[q]) /\ ProcOf(procs[q])
      BY <1>1, <2>1, Holds DEF TypeInv, TypeOK, Custody
    <3>2. CASE procs[q] = Idle
      BY <3>1, <3>2, IdleIsProcOf DEF ProcOf, BeforeOf, AfterOf, PaperOf, OpensOf, Idle
    <3>3. CASE procs[q].cmd = "serve" /\ procs[q].at \in {"expose", "open"}
      BY <1>1, <3>1, <3>3 DEF ProcOf, BeforeOf, AfterOf, PaperOf, OpensOf
    <3> QED
      BY <1>0, <2>1, <3>2, <3>3, OthersServe
  <2>2. procs'[p] = x
    BY <1>1 DEF TypeInv, TypeOK
  <2> QED
    BY <1>1, <2>1, <2>2 DEF Custody
<1>2. ASSUME NEW w \in Wraps, Protect(p, w)
      PROVE  Custody'
  <2>0. [me EXCEPT !.at = "save", !.wrap = w] \in Proc
    BY <1>0 DEF Proc, Steps
  <2>1. PICK x \in Proc : /\ x = [me EXCEPT !.at = "save", !.wrap = w]
                         /\ x.at = "save" /\ x.wrap = w /\ x.cmd = me.cmd /\ x.root = me.root
                         /\ x.provider = me.provider
    BY <1>0, <2>0 DEF Proc
  <2>2. /\ procs' = [procs EXCEPT ![p] = x] /\ me.at = "protect"
        /\ UNCHANGED <<machine, recovery, vaults, printed, tpm, host>>
        /\ me.provider = "keyfile" => keyfile' = w
    BY <1>2, <2>1 DEF Protect, KeyfileProtect, Set, At, world
  <2>3. ProcOf(x)' /\ SlotsAgree'
    BY <1>0, <2>1, <2>2 DEF ProcOf, BeforeOf, AfterOf, PaperOf, OpensOf, Custody, SlotsAgree
  <2>4. CASE machine # None
    BY <1>1, <2>1, <2>2, <2>3, <2>4
  <2>5. CASE machine = None
    <3>1. ASSUME NEW q \in Procs, q # p
          PROVE  ProcOf(procs[q])'
      <4>1. procs[q] = Idle
        BY <1>0, <2>5, <3>1, OthersServe DEF Custody, ProcOf, BeforeOf
      <4>2. procs'[q] = Idle
        BY <2>2, <3>1, <4>1 DEF TypeInv, TypeOK
      <4> QED
        BY <4>2, IdleIsProcOf DEF ProcOf, BeforeOf, AfterOf, PaperOf, OpensOf, Idle
    <3>2. procs'[p] = x
      BY <2>2 DEF TypeInv, TypeOK
    <3> QED
      BY <2>3, <3>1, <3>2 DEF Custody
  <2> QED
    BY <2>4, <2>5
<1>3. CASE SaveMachineSlot(p)
  <2>0. [me EXCEPT !.at = "meta", !.wrap = None] \in Proc
    BY <1>0 DEF Proc, Steps
  <2>1. PICK x \in Proc : /\ x = [me EXCEPT !.at = "meta", !.wrap = None]
                         /\ x.at = "meta" /\ x.cmd = me.cmd /\ x.root = me.root
    BY <1>0, <2>0 DEF Proc
  <2>2. /\ procs' = [procs EXCEPT ![p] = x] /\ me.at = "save"
        /\ UNCHANGED <<recovery, keyfile, vaults, printed, tpm, host>>
        /\ machine' = [root |-> me.root, wrap |-> me.wrap, provider |-> me.provider,
                       host |-> host]
    BY <1>3, <2>1 DEF SaveMachineSlot, Set, At, world
  <2>3. machine' \in MachineSlot
    BY <1>0, <2>2 DEF Shaped, MachineSlot, TypeInv, TypeOK
  <2>4. machine' # None /\ machine'.root = me.root
    BY <2>2, <2>3, NoneAssumption
  <2>5. /\ machine # None => me.root = machine.root /\ me.cmd # "init"
        /\ machine = None => me.cmd = "init" /\ recovery = None
    BY <1>0, <2>2 DEF ProcOf, BeforeOf, AfterOf, Custody, SlotsAgree
  <2>6. SlotsAgree'
    BY <2>2, <2>4, <2>5 DEF Custody, SlotsAgree
  <2>7. Exposes(machine)'
    BY <1>0, <2>2 DEF Shaped, Providers, ProcOf, OpensOf, Exposes, SystemdTPM2Exposes, KeyfileExposes
  <2>8. ProcOf(x)'
    BY <2>1, <2>2, <2>4, <2>5, <2>7 DEF ProcOf, AfterOf, PaperOf, OpensOf
  <2> QED
    BY <1>1, <2>1, <2>2, <2>4, <2>5, <2>6, <2>8
<1>4. ASSUME NEW c \in Codes, SaveRecoverySlot(p, c)
      PROVE  Custody'
  <2>0. [me EXCEPT !.at = "kit", !.code = c] \in Proc
    BY <1>0 DEF Proc, Steps
  <2>1. PICK x \in Proc : /\ x = [me EXCEPT !.at = "kit", !.code = c]
                         /\ x.at = "kit" /\ x.cmd = me.cmd /\ x.root = me.root /\ x.code = c
    BY <1>0, <2>0 DEF Proc
  <2>2. /\ procs' = [procs EXCEPT ![p] = x] /\ me.at = "recovery"
        /\ recovery' = [root |-> me.root, code |-> c]
        /\ UNCHANGED <<machine, keyfile, vaults, printed, tpm, host>>
    BY <1>4, <2>1 DEF SaveRecoverySlot, Set, At, world
  <2>3. me.cmd = "init" /\ recovery = None /\ printed = {} /\ machine # None
    BY <1>0, <2>2 DEF Shaped, ProcOf, BeforeOf, PaperOf, Custody, SlotsAgree
  <2>4. recovery' \in RecoverySlot /\ recovery' # None
    BY <1>0, <2>2, NoneAssumption DEF RecoverySlot
  <2>5. me.root = machine.root /\ Exposes(machine)
    BY <1>0, <2>2, <2>3 DEF ProcOf, AfterOf, OpensOf
  <2>6. SlotsAgree'
    BY <2>2, <2>3, <2>4, <2>5 DEF Custody, SlotsAgree
  <2>7. Exposes(machine)'
    BY <2>2, <2>5 DEF Exposes, SystemdTPM2Exposes, KeyfileExposes
  <2>8. ProcOf(x)'
    BY <2>1, <2>2, <2>3, <2>4, <2>5, <2>7 DEF ProcOf, AfterOf, PaperOf, OpensOf
  <2> QED
    BY <1>1, <2>1, <2>2, <2>3, <2>6, <2>8
<1>5. CASE PrintKit(p)
  <2>0. [me EXCEPT !.at = "open"] \in Proc
    BY <1>0 DEF Proc, Steps
  <2>1. PICK x \in Proc : /\ x = [me EXCEPT !.at = "open"]
                         /\ x.at = "open" /\ x.cmd = me.cmd /\ x.root = me.root
    BY <1>0, <2>0 DEF Proc
  <2>2. /\ procs' = [procs EXCEPT ![p] = x] /\ me.at = "kit"
        /\ printed' = printed \cup {me.code}
        /\ UNCHANGED <<machine, recovery, keyfile, vaults, tpm, host>>
    BY <1>5, <2>1 DEF PrintKit, Goto, Set, At, disk, world
  <2>3. /\ recovery # None /\ recovery.code = me.code /\ printed = {} /\ machine # None
        /\ me.root = machine.root /\ Exposes(machine) /\ me.cmd = "init"
    BY <1>0, <2>2 DEF Shaped, ProcOf, BeforeOf, AfterOf, PaperOf, OpensOf, Sealing
  <2>4. SlotsAgree'
    BY <2>2, <2>3 DEF Custody, SlotsAgree
  <2>5. Exposes(machine)'
    BY <2>2, <2>3 DEF Exposes, SystemdTPM2Exposes, KeyfileExposes
  <2>6. ProcOf(x)'
    BY <2>1, <2>2, <2>3, <2>5 DEF ProcOf, AfterOf, PaperOf, OpensOf
  <2> QED
    BY <1>1, <2>1, <2>2, <2>3, <2>4, <2>6
<1> QED
  BY <1>2, <1>3, <1>4, <1>5

LEMMA CreatingKeepsCustody ==
  ASSUME Custody, TypeInv, NEW p \in Procs, CreateVault(p)
  PROVE  Custody'
<1>1. procs[p].at = "open" /\ procs[p].root \in Roots /\ procs[p].cmd = "serve"
      /\ vaults' = vaults \cup {procs[p].root} /\ UNCHANGED <<disk, world, printed, procs>>
  BY Holds DEF CreateVault, At, Shaped
<1>2. machine # None /\ procs[p].root = machine.root
  BY <1>1, NoneAssumption DEF Custody, ProcOf, BeforeOf, AfterOf
<1>3. SlotsAgree'
  BY <1>1, <1>2 DEF Custody, SlotsAgree, disk
<1> QED
  BY <1>1, <1>3 DEF Custody, ProcOf, BeforeOf, AfterOf, PaperOf, OpensOf, Exposes,
                    SystemdTPM2Exposes, KeyfileExposes, disk, world

\* The machine changes while it is off, so no command relies on it.
LEMMA WorldKeepsCustody ==
  ASSUME Custody, TypeInv, TpmChanges \/ \E h \in Hosts : MoveTo(h)
  PROVE  Custody'
<1>1. /\ \A p \in Procs : procs[p] = Idle
      /\ UNCHANGED <<machine, recovery, vaults, printed, procs>>
  BY Holds DEF TpmChanges, MoveTo, AllStopped, At, Shaped, disk
<1>2. SlotsAgree'
  BY <1>1 DEF Custody, SlotsAgree
<1>3. \A p \in Procs : ProcOf(procs[p])'
  BY <1>1, IdleIsProcOf DEF ProcOf, BeforeOf, AfterOf, PaperOf, OpensOf, Idle
<1> QED
  BY <1>2, <1>3 DEF Custody

LEMMA InitCustody == Init => Custody
BY IdleIsProcOf DEF Init, Custody, SlotsAgree, ProcOf, BeforeOf, AfterOf, PaperOf, OpensOf, Idle

LEMMA NextKeepsCustody == OneShell /\ TypeInv /\ Custody /\ [Next]_vars => Custody'
<1>1. ASSUME Custody, UNCHANGED vars PROVE Custody'
  BY <1>1 DEF vars, Custody, SlotsAgree, ProcOf, BeforeOf, AfterOf, PaperOf, OpensOf, Exposes,
              SystemdTPM2Exposes, KeyfileExposes
<1> QED
  BY <1>1, BeginningKeepsCustody, GoingOnKeepsCustody, WritingKeepsCustody, CreatingKeepsCustody,
     WorldKeepsCustody DEF Next, Step

LEMMA Kept == OneShell => (Spec => [](TypeInv /\ Custody))
<1>1. OneShell /\ TypeInv /\ Custody /\ [Next]_vars => (TypeInv /\ Custody)'
  BY NextKeepsTypes, NextKeepsCustody
<1> SUFFICES ASSUME OneShell PROVE Spec => [](TypeInv /\ Custody)
  OBVIOUS
<1>2. TypeInv /\ Custody /\ [Next]_vars => (TypeInv /\ Custody)'
  BY <1>1
<1> QED
  BY <1>2, InitTypes, InitCustody, PTL DEF Spec

\* There is one sheet of paper and it is never stale: with one shell at a time,
\* whatever is interrupted and whatever keystores refuse, the printed code opens
\* the recovery slot, and the root key there is that of every slot and vault.
THEOREM PrintedCode == OneShell => (Spec => []PrintedCodeOpens)
<1>1. Custody => PrintedCodeOpens
  <2> SUFFICES ASSUME Custody PROVE PrintedCodeOpens
    OBVIOUS
  <2>1. \E r : RootsInUse \subseteq {r}
    <3>1. CASE machine = None
      BY <3>1 DEF Custody, SlotsAgree, RootsInUse, Slots
    <3>2. CASE machine # None
      BY <3>2 DEF Custody, SlotsAgree, RootsInUse, Slots
    <3> QED
      BY <3>1, <3>2
  <2>2. PICK r : RootsInUse \subseteq {r}
    BY <2>1
  <2>3. RootsInUse = {} \/ RootsInUse = {r}
    BY <2>2
  <2>4. Cardinality(RootsInUse) <= 1
    <3>1. CASE RootsInUse = {}
      BY <3>1, FS_EmptySet
    <3>2. CASE RootsInUse = {r}
      <4>1. Cardinality({r}) = 1
        BY FS_Singleton, Zenon
      <4> QED
        BY <3>2, <4>1
    <3> QED
      BY <2>3, <3>1, <3>2
  <2> QED
    BY <2>4 DEF PrintedCodeOpens, OneRoot, Custody, SlotsAgree
<1> QED
  BY <1>1, Kept, PTL

\* A command that says it succeeded, alone in changing the slots, leaves a
\* machine slot that opens at the next start, whichever keystore took the key.
THEOREM SuccessOpens == OneShell => (Spec => []SuccessOpensNextStart)
<1>1. Custody => SuccessOpensNextStart
  BY DEF Custody, ProcOf, OpensOf, SuccessOpensNextStart, At
<1> QED
  BY <1>1, Kept, PTL

\* Once sealed into both slots the root key is never replaced, and recovering or
\* resealing, finished or not, leaves the recovery slot as it was.
THEOREM RootStays == OneShell => (Spec => RootIsForever)
<1>1. ASSUME TypeInv, Custody, machine # None, recovery # None, Next
      PROVE  machine' # None /\ machine'.root = machine.root /\ recovery' = recovery
  <2>1. ASSUME NEW p \in Procs, SaveMachineSlot(p)
        PROVE  machine' # None /\ machine'.root = machine.root /\ recovery' = recovery
    <3>1. procs[p].at = "save" /\ procs[p].root \in Roots /\ Shaped(p, procs[p])
      BY <2>1, <1>1, Holds DEF SaveMachineSlot, At, Shaped
    <3>2. procs[p].root = machine.root
      BY <1>1, <3>1, NoneAssumption DEF Custody, ProcOf, AfterOf
    <3>3. machine' = [root |-> procs[p].root, wrap |-> procs[p].wrap,
                      provider |-> procs[p].provider, host |-> host]
      BY <2>1 DEF SaveMachineSlot
    <3>4. machine' \in MachineSlot
      BY <1>1, <3>1, <3>3 DEF Shaped, MachineSlot, TypeInv, TypeOK
    <3> QED
      BY <2>1, <3>2, <3>3, <3>4, NoneAssumption DEF SaveMachineSlot
  <2>2. ASSUME NEW p \in Procs, NEW c \in Codes, SaveRecoverySlot(p, c)
        PROVE  FALSE
    BY <1>1, <2>2, Holds DEF SaveRecoverySlot, At, Shaped, Custody, ProcOf, PaperOf
  <2>3. ASSUME NEW p \in Procs, Step(p), ~SaveMachineSlot(p),
               ~ \E c \in Codes : SaveRecoverySlot(p, c)
        PROVE  UNCHANGED <<machine, recovery>>
    BY <2>3 DEF Step, Unseal, Protect, FallBack, SetMeta, PrintKit, Verify, Abort, disk
  <2>4. ASSUME NEW p \in Procs,
               CreateVault(p) \/ Leave(p) \/ runInit(p) \/ runRecover(p) \/ runServer(p)
                 \/ runMaintenanceReseal(p)
        PROVE  UNCHANGED <<machine, recovery>>
    BY <2>4 DEF CreateVault, Leave, runInit, BeginInit, runRecover, BeginRecover, runServer,
                runMaintenanceReseal, KeySlotByKind, disk
  <2>5. ASSUME TpmChanges \/ \E h \in Hosts : MoveTo(h)
        PROVE  UNCHANGED <<machine, recovery>>
    BY <2>5 DEF TpmChanges, MoveTo, disk
  <2> QED
    BY <1>1, <2>1, <2>2, <2>3, <2>4, <2>5 DEF Next
<1>2. TypeInv /\ Custody /\ [Next]_vars =>
        [machine # None /\ recovery # None =>
           machine' # None /\ machine'.root = machine.root /\ recovery' = recovery]_vars
  BY <1>1
<1> QED
  BY <1>2, Kept, PTL DEF Spec, RootIsForever

================================================================================
