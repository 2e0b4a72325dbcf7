\* The follower of the journal, with edits, faults, a stop and a sweep.
CONSTANTS
  a1 = a1  a2 = a2
  Actions = {"secret.delete", "server.policy"}
  Addresses = {a1, a2}
  OldLines <- OneOldLine
  Levels = {0, 1}
  Faults = {"start", "config", "note", "cursor", "post"}
  FlushAfter = 1
  MuteFor = 2
  DailyCap = 2
  BatchSize = 2
  MaxRounds = 2
  MaxAttempts = 2
  MaxLines = 3
  MaxTrouble = 2
SPECIFICATION FairSpec
INVARIANTS TypeOK NothingMissed CeilingHolds
PROPERTIES AnnouncedOnce WantedIsSettled
