----------------------------- MODULE MCFrontDoor -----------------------------
(* Small instances of FrontDoor.                                             *)
EXTENDS FrontDoor, TLC
================================================================================
