------------------------------ MODULE MCVaultKeys ------------------------------
(* Small instances of VaultKeys: who runs where, and what may be permuted.   *)
EXTENDS VaultKeys, TLC

CONSTANTS web1, web2, cli, server, shell

\* One request of the server, and a command of the shell.
MCHomeSmall == (web1 :> server) @@ (cli :> shell)

\* Two requests of one server.
MCHomeServer == (web1 :> server) @@ (web2 :> server)

Symmetry == Permutations(Vaults) \cup Permutations(Keys) \cup Permutations(Ids)
              \cup Permutations(Names) \cup Permutations(Values)
================================================================================
