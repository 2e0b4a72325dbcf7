---------------------------- MODULE MCAlertWatcher ----------------------------
(* Small instances of AlertWatcher.                                          *)
EXTENDS AlertWatcher, TLC

CONSTANTS a1, a2

\* A year of history before the watcher first starts, in one line.
OneOldLine == <<[action |-> "secret.delete", ip |-> a1]>>
================================================================================
