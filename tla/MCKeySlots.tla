------------------------------- MODULE MCKeySlots ------------------------------
(* A small instance of KeySlots: what each process runs. *)
EXTENDS KeySlots, TLC

CONSTANTS shell, server

\* A shell, one command at a time, beside the server.
MCOneShell == (shell :> {"init", "recover", "reseal"}) @@ (server :> {"serve"})
================================================================================
