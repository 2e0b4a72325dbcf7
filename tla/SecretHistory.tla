----------------------------- MODULE SecretHistory -----------------------------
(***************************************************************************)
(* What the vaults promise to the people who use them, without keys,       *)
(* ciphertexts, rows or transactions: under each name of each vault, a     *)
(* history of values that only ever grows at its end, until it is deleted  *)
(* whole.  Rotating a key, failing and crashing are invisible.             *)
(*                                                                         *)
(* VaultKeys implements it.                                                *)
(***************************************************************************)
EXTENDS Sequences

CONSTANTS Vaults, Names, Values

VARIABLE history   \* by vault and name: the values written, oldest first

Init == history = [v \in Vaults |-> [n \in Names |-> <<>>]]

\* A value is written, or an older one brought back: the rest stays.
Write(v, n, x) == history' = [history EXCEPT ![v][n] = Append(@, x)]

\* A secret is deleted with its history.
Forget(v, n) ==
  /\ history[v][n] # <<>>
  /\ history' = [history EXCEPT ![v][n] = <<>>]

\* A vault is deleted with its secrets.
ForgetVault(v) == history' = [history EXCEPT ![v] = [n \in Names |-> <<>>]]

Next ==
  \/ \E v \in Vaults, n \in Names, x \in Values : Write(v, n, x)
  \/ \E v \in Vaults, n \in Names : Forget(v, n)
  \/ \E v \in Vaults : ForgetVault(v)

Spec == Init /\ [][Next]_history
================================================================================
