------------------------------- MODULE KeySlots --------------------------------
(***************************************************************************)
(* The custody of the root key: the machine slot, which lets the server    *)
(* start unattended, the recovery slot, which the printed code opens, and  *)
(* the file or chip of this host that holds the machine slot's wrapping    *)
(* key.  synsec init, recover and maintenance sceller write them in        *)
(* several steps, none of which is undone when a later one fails; any      *)
(* command may be interrupted between two steps, and several may run.      *)
(*                                                                         *)
(* internal/vault/vault.go, internal/store/repo_keyslot.go,                *)
(* internal/unseal/keyfile.go, cmd/synsec/{init,recovercmd,resealcmd}.go   *)
(***************************************************************************)
EXTENDS Naturals, FiniteSets

CONSTANTS
  Procs,        \* processes
  Runs,         \* the commands each process may run
  Roots,        \* root keys
  Wraps,        \* wrapping keys of the machine slot
  Codes,        \* recovery codes
  Hosts,        \* machines the data directory may live on
  Interrupted,  \* the commands that may fail, or be killed, between two steps
  None

Commands == {"init", "recover", "reseal", "serve"}
Providers == {"tpm", "keyfile"}   \* SystemdTPM2 and Keyfile, those of Linux

ASSUME RunsAssumption == Runs \in [Procs -> SUBSET Commands]
ASSUME InterruptedAssumption == Interrupted \subseteq Commands

VARIABLES
  machine,   \* the machine slot: a record, or None
  recovery,  \* the recovery slot: a record, or None
  keyfile,   \* content of root.key: a wrapping key, or None
  host,      \* the machine the data directory is on
  tpm,       \* whether that machine has a usable TPM
  vaults,    \* the root keys under which the key of some vault is wrapped
  printed,   \* the recovery codes the owner has been shown
  procs      \* per process: the command running, and what it holds in memory

vars == <<machine, recovery, keyfile, host, tpm, vaults, printed, procs>>
disk == <<machine, recovery, keyfile>>
world == <<host, tpm>>

\* A slot seals the root key under a wrapping key or a code.  A TPM seals the
\* wrapping key into the handle, for one host; a keyfile keeps it in root.key.
MachineSlot == [root : Roots, wrap : Wraps, provider : Providers, host : Hosts]
RecoverySlot == [root : Roots, code : Codes]

\* Nothing that is there is None.
ASSUME NoneAssumption ==
  None \notin Roots \cup Wraps \cup Codes \cup MachineSlot \cup RecoverySlot

\* at: "protect", "save" and "meta" are the steps of provisionMachineSlot,
\* "recovery" and "kit" what Initialize does next, "expose" Unseal between the
\* slot and the keystore, "verify" the check of a reseal, "open" a command that
\* holds the root key and has succeeded.
Steps == {"protect", "save", "meta", "recovery", "kit", "expose", "verify", "open"}

Proc == [at : Steps \cup {"idle"}, cmd : Commands \cup {None},
         root : Roots \cup {None},        \* the root key in memory
         provider : Providers \cup {None},\* the keystore being provisioned
         wrap : Wraps \cup {None},        \* the wrapping key just protected
         code : Codes \cup {None},        \* init: the code just drawn
         slot : MachineSlot \cup {None}]  \* Unseal: the slot it read

Idle == [at |-> "idle", cmd |-> None, root |-> None, provider |-> None, wrap |-> None,
         code |-> None, slot |-> None]

TypeOK ==
  /\ machine \in MachineSlot \cup {None}
  /\ recovery \in RecoverySlot \cup {None}
  /\ keyfile \in Wraps \cup {None}
  /\ host \in Hosts
  /\ tpm \in BOOLEAN
  /\ vaults \subseteq Roots
  /\ printed \subseteq Codes
  /\ procs \in [Procs -> Proc]

Init ==
  /\ machine = None /\ recovery = None /\ keyfile = None
  /\ host \in Hosts
  /\ tpm \in BOOLEAN
  /\ vaults = {} /\ printed = {}
  /\ procs = [p \in Procs |-> Idle]

--------------------------------------------------------------------------------
Set(p, r) == procs' = [procs EXCEPT ![p] = r]
Goto(p, step) == Set(p, [procs[p] EXCEPT !.at = step])
At(p, step) == procs[p].at = step

\* unseal.Detect and unseal.Fallback.
Detect == IF tpm THEN "tpm" ELSE "keyfile"
Fallback == "keyfile"

\* The chip opens what was sealed on its own machine; a file gives what it holds.
SystemdTPM2Exposes(slot) == tpm /\ slot.host = host
KeyfileExposes(slot) == keyfile = slot.wrap

\* Provider.Expose gives the wrapping key the slot was sealed under.
Exposes(slot) ==
  IF slot.provider = "tpm" THEN SystemdTPM2Exposes(slot) ELSE KeyfileExposes(slot)

(***************************************************************************)
(* Keys and codes are random: a new one differs from every one that some   *)
(* slot, file, vault, sheet of paper or process still holds.               *)
(***************************************************************************)
Slots == {machine, recovery} \ {None}
RootsKnown == vaults \cup {s.root : s \in Slots} \cup {procs[p].root : p \in Procs}
CodesKnown == printed \cup {procs[p].code : p \in Procs}
                \cup (IF recovery = None THEN {} ELSE {recovery.code})
WrapsKnown == {keyfile} \cup {procs[p].wrap : p \in Procs}
                \cup {s.wrap : s \in ({machine} \cup {procs[p].slot : p \in Procs}) \ {None}}

Initialized == machine # None \/ recovery # None

--------------------------------------------------------------------------------
(* Beginning a command *)

\* The root key in memory is to be sealed to this host, by what it does best.
ReprovisionMachineSlot(cmd, root) ==
  [Idle EXCEPT !.at = "protect", !.cmd = cmd, !.root = root, !.provider = Detect]

\* A plausible bug: setup run again makes another root key.
BeginInitAgain(p, r) ==
  /\ At(p, "idle") /\ "init" \in Runs[p]
  /\ r \notin RootsKnown
  /\ Set(p, ReprovisionMachineSlot("init", r))
  /\ UNCHANGED <<disk, world, vaults, printed>>

\* Initialize draws a root key once it has seen no slot.
BeginInit(p, r) ==
  /\ At(p, "idle") /\ "init" \in Runs[p]
  /\ ~Initialized
  /\ r \notin RootsKnown
  /\ Set(p, ReprovisionMachineSlot("init", r))
  /\ UNCHANGED <<disk, world, vaults, printed>>

\* synsec init, whatever protection it has announced.
runInit(p) == \E r \in Roots : BeginInit(p, r)

\* A plausible bug: recovering opens the vault and seals nothing to this host.
RecoverWithoutResealing(p, code) ==
  /\ At(p, "idle") /\ "recover" \in Runs[p]
  /\ recovery # None /\ recovery.code = code
  /\ Set(p, [Idle EXCEPT !.at = "open", !.cmd = "recover", !.root = recovery.root])
  /\ UNCHANGED <<disk, world, vaults, printed>>

\* UnsealWithRecovery: the code opens the recovery slot, and the machine slot is
\* made again for this host.
BeginRecover(p, code) ==
  /\ At(p, "idle") /\ "recover" \in Runs[p]
  /\ recovery # None /\ recovery.code = code
  /\ Set(p, ReprovisionMachineSlot("recover", recovery.root))
  /\ UNCHANGED <<disk, world, vaults, printed>>

\* synsec recover, with a code somebody types.
runRecover(p) == \E code \in Codes : BeginRecover(p, code)

\* Unseal begins by reading the machine slot.
KeySlotByKind(p, cmd) ==
  /\ At(p, "idle") /\ cmd \in Runs[p]
  /\ machine # None
  /\ Set(p, [Idle EXCEPT !.at = "expose", !.cmd = cmd, !.slot = machine])
  /\ UNCHANGED <<disk, world, vaults, printed>>

\* synsec serve, and every command that needs the root key.
runServer(p) == KeySlotByKind(p, "serve")

\* synsec maintenance sceller goes on only where this host offers other than what
\* the slot was sealed by.
CurrentProvider == machine.provider

runMaintenanceReseal(p) == KeySlotByKind(p, "reseal") /\ CurrentProvider # Detect

\* A plausible bug: the reseal goes on without the root key it unsealed.
UnsealForgets(p) ==
  LET me == procs[p]
  IN /\ At(p, "expose")
     /\ Exposes(me.slot)
     /\ Set(p, [Idle EXCEPT !.at = IF me.cmd = "serve" THEN "open" ELSE "protect",
                            !.cmd = me.cmd, !.provider = Detect])
     /\ UNCHANGED <<disk, world, vaults, printed>>

\* Then the keystore gives the wrapping key, and the slot opens.
Unseal(p) ==
  LET me == procs[p]
  IN /\ At(p, "expose")
     /\ Exposes(me.slot)
     /\ Set(p, IF me.cmd = "serve"
               THEN [Idle EXCEPT !.at = "open", !.cmd = "serve", !.root = me.slot.root]
               ELSE ReprovisionMachineSlot("reseal", me.slot.root))
     /\ UNCHANGED <<disk, world, vaults, printed>>

--------------------------------------------------------------------------------
(* provisionMachineSlot *)

\* The file is replaced on the spot, before the slot that needs it is saved.
KeyfileProtect(w) == keyfile' = w

\* storeMachineSlot draws a wrapping key and the keystore takes it; a chip keeps
\* nothing here but the handle it gives.
Protect(p, w) ==
  /\ At(p, "protect")
  /\ w \notin WrapsKnown
  /\ IF procs[p].provider = "keyfile" THEN KeyfileProtect(w) ELSE UNCHANGED keyfile
  /\ Set(p, [procs[p] EXCEPT !.at = "save", !.wrap = w])
  /\ UNCHANGED <<machine, recovery, world, vaults, printed>>

SaveMachineSlot(p) ==
  LET me == procs[p]
  IN /\ At(p, "save")
     /\ machine' = [root |-> me.root, wrap |-> me.wrap, provider |-> me.provider,
                    host |-> host]
     /\ Set(p, [me EXCEPT !.at = "meta", !.wrap = None])
     /\ UNCHANGED <<recovery, keyfile, world, vaults, printed>>

\* A plausible bug: the slot is saved for a second keystore that never took the key.
FallBackUnprotected(p) ==
  /\ procs[p].at \in {"protect", "save"}
  /\ procs[p].provider # Fallback
  /\ Set(p, [procs[p] EXCEPT !.provider = Fallback])
  /\ UNCHANGED <<disk, world, vaults, printed>>

\* The preferred keystore refuses, or the slot cannot be saved: the platform's
\* second choice is tried.
FallBack(p) ==
  /\ procs[p].at \in {"protect", "save"}
  /\ procs[p].provider # Fallback
  /\ Set(p, [procs[p] EXCEPT !.at = "protect", !.provider = Fallback, !.wrap = None])
  /\ UNCHANGED <<disk, world, vaults, printed>>

\* A plausible bug: a recovery draws a new code, as setup does.
SetMetaThenNewCode(p) ==
  /\ At(p, "meta")
  /\ Goto(p, IF procs[p].cmd = "reseal" THEN "verify" ELSE "recovery")
  /\ UNCHANGED <<disk, world, vaults, printed>>

\* SetMeta records the provider (nothing reads it back but messages).
SetMeta(p) ==
  /\ At(p, "meta")
  /\ Goto(p, CASE procs[p].cmd = "init"    -> "recovery"
               [] procs[p].cmd = "reseal"  -> "verify"
               [] procs[p].cmd = "recover" -> "open")
  /\ UNCHANGED <<disk, world, vaults, printed>>

--------------------------------------------------------------------------------
(* The end of each command *)

\* Initialize seals the root key under a fresh code.
SaveRecoverySlot(p, code) ==
  /\ At(p, "recovery")
  /\ code \notin CodesKnown
  /\ recovery' = [root |-> procs[p].root, code |-> code]
  /\ Set(p, [procs[p] EXCEPT !.at = "kit", !.code = code])
  /\ UNCHANGED <<machine, keyfile, world, vaults, printed>>

\* Initialize returns, and init prints the recovery kit: the only time ever.
PrintKit(p) ==
  /\ At(p, "kit")
  /\ printed' = printed \cup {procs[p].code}
  /\ Goto(p, "open")
  /\ UNCHANGED <<disk, world, vaults>>

\* A reseal seals and unseals again, to see the new slot open.
Verify(p) ==
  /\ At(p, "verify")
  /\ machine # None /\ Exposes(machine)
  /\ Goto(p, "open")
  /\ UNCHANGED <<disk, world, vaults, printed>>

\* The server wraps the key of a new vault under the root key it holds.
CreateVault(p) ==
  /\ At(p, "open") /\ procs[p].cmd = "serve"
  /\ vaults' = vaults \cup {procs[p].root}
  /\ UNCHANGED <<disk, world, printed, procs>>

\* Seal: the command ends, the server stops.
Leave(p) ==
  /\ At(p, "open")
  /\ Set(p, Idle)
  /\ UNCHANGED <<disk, world, vaults, printed>>

\* A step fails with nothing left to try, or the process dies: what it wrote
\* stays written.  An Unseal that does not open ends the command that needs it.
Abort(p) ==
  /\ \/ procs[p].cmd \in Interrupted
     \/ At(p, "expose") /\ ~Exposes(procs[p].slot)
     \/ At(p, "verify") /\ ~(machine # None /\ Exposes(machine))
  /\ Set(p, Idle)
  /\ UNCHANGED <<disk, world, vaults, printed>>

--------------------------------------------------------------------------------
(* The machine, while it is off *)

AllStopped == \A p \in Procs : At(p, "idle")

\* A TPM is enabled, disabled or cleared away in the firmware.
TpmChanges ==
  /\ AllStopped
  /\ tpm' = ~tpm
  /\ UNCHANGED <<disk, host, vaults, printed, procs>>

\* The data directory moves to another machine, with root.key or without it.
MoveTo(h) ==
  /\ AllStopped
  /\ h # host
  /\ host' = h
  /\ tpm' \in BOOLEAN
  /\ keyfile' \in {keyfile, None}
  /\ UNCHANGED <<machine, recovery, vaults, printed, procs>>

--------------------------------------------------------------------------------
Step(p) ==
  \/ Unseal(p)
  \/ \E w \in Wraps : Protect(p, w)
  \/ SaveMachineSlot(p) \/ FallBack(p) \/ SetMeta(p)
  \/ \E c \in Codes : SaveRecoverySlot(p, c)
  \/ PrintKit(p) \/ Verify(p) \/ Abort(p)

Next ==
  \/ \E p \in Procs : \/ Step(p) \/ CreateVault(p) \/ Leave(p)
                      \/ runInit(p) \/ runRecover(p)
                      \/ runServer(p) \/ runMaintenanceReseal(p)
  \/ TpmChanges
  \/ \E h \in Hosts : MoveTo(h)

Spec == Init /\ [][Next]_vars

\* A command under way goes on: nothing it waits for is held by another.
FairSpec == Spec /\ \A p \in Procs : WF_vars(Step(p))

--------------------------------------------------------------------------------
(* Safety *)

RootsInUse == vaults \cup {s.root : s \in Slots}

\* The two slots and every vault are under one root key: nothing that exists is
\* stranded behind another ("Running setup again would generate a new root key
\* and strand every existing secret").
OneRoot == Cardinality(RootsInUse) <= 1

\* There is one sheet of paper and it is never stale: its code opens the recovery
\* slot, and the root key found there is that of every vault and slot.
PrintedCodeOpens ==
  /\ OneRoot
  /\ printed # {} => recovery # None /\ printed = {recovery.code}

\* A command that says it succeeded, alone in changing the slots, leaves a machine
\* slot that opens on this host at the next start - whatever keystores refused.
SuccessOpensNextStart ==
  \A p \in Procs : At(p, "open") /\ procs[p].cmd # "serve" => machine # None /\ Exposes(machine)

\* A reseal that has opened the machine slot and then fails leaves it opening as
\* before ("la protection precedente reste en place").
FailedResealChangesNothing ==
  [][\A p \in Procs :
       procs[p].cmd = "reseal" /\ procs[p].root # None /\ ~At(p, "open") /\ procs'[p] = Idle
         => Exposes(machine)']_vars

\* Once sealed into both slots, the root key is never replaced, and recovering or
\* resealing leaves the printed code as good as it was.
RootIsForever ==
  [][machine # None /\ recovery # None =>
       machine' # None /\ machine'.root = machine.root /\ recovery' = recovery]_vars

--------------------------------------------------------------------------------
(* What must eventually happen *)

\* With its code at hand a moved or broken server is opened again: a recovery
\* that nothing interrupts ends with a machine slot that opens.
RecoverySucceeds ==
  \A p \in Procs : procs[p].cmd = "recover" ~> machine # None /\ Exposes(machine)
================================================================================
