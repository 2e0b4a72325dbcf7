------------------------------ MODULE MCSessions ------------------------------
(* One account for TLC, two requests at a time. *)
EXTENDS Sessions
================================================================================
