------------------------------- MODULE FrontDoor -------------------------------
(***************************************************************************)
(* What stands between a browser and the work of checking who is there:    *)
(* the lockout of internal/web/session.go, the waiting room and the slots  *)
(* of internal/auth/limiter.go, and the four handlers that go through      *)
(* them, in internal/web/login.go, confirm.go, twofactor.go and            *)
(* securitykey.go.                                                         *)
(*                                                                         *)
(* One client address is followed.  What the others do to it is to hold    *)
(* slots, and to have idle records swept when one of them fails for the    *)
(* first time.  Time is in minutes and relative: a record keeps what is    *)
(* left of its lockout and for how long it has been quiet, so the clock    *)
(* needs no bound.  An attempt that is given a seat was let through just   *)
(* before; between the two it only reads the database.                     *)
(***************************************************************************)
EXTENDS Integers, FiniteSets

CONSTANTS Attempts,       \* requests in flight that ask for a proof
          Slots,          \* derivations at once
          Seats,          \* the waiting room, those who derive included
          throttleForget, \* minutes after which a quiet record is swept
          MaxLate,        \* bound: minutes that an attempt may take
          MaxFailures     \* bound: failures are counted up to here

throttleAfter == 5
throttleBase == 1
throttleCeiling == 15

ASSUME DoorAssumption ==
  /\ Slots \in Nat \ {0} /\ Seats \in Nat /\ Seats >= Slots
  /\ MaxLate \in Nat /\ MaxFailures \in Nat /\ MaxFailures > throttleAfter
  /\ throttleForget \in Nat /\ throttleForget > throttleCeiling

VARIABLES
  record,   \* the failures of the address that is followed, or NoRecord
  attempt,  \* [Attempts -> where an attempt is]
  queued,   \* seats taken in the waiting room
  slots     \* slots taken

vars == <<record, attempt, queued, slots>>

NoRecord == [failures |-> 0, left |-> 0, quiet |-> 0]
Quiet == throttleForget + MaxLate + 1

\* doLogin, doConfirm, finishSecondFactor and finishKeyAssertion from the
\* address, and a derivation for somebody else: a sign-in from another address,
\* or the hash of a new password.
Derives == {"login", "confirm", "other"}
Kinds == Derives \cup {"code", "key"}

Idle == [pc |-> "idle"]
Attempt == [pc : {"waiting", "deriving", "checking"}, kind : Kinds, late : 0..MaxLate]

-----------------------------------------------------------------------------
(* The lockout.                                                             *)

\* throttleBase << k, on a signed word of 64 bits.  A minute is 60 * 10^9 ns,
\* which is 29296875 * 2^11: shifted by k, it is a multiple of 2^(11 + k), and
\* Shifted is that multiple.
Minute == 29296875

Shifted(k) ==
  IF k < 28 THEN Minute
  ELSE IF k >= 53 THEN 0
  ELSE LET low == Minute % 2^(53 - k)
       IN IF low >= 2^(52 - k) THEN low - 2^(53 - k) ELSE low

\* What the ceiling is in that unit, rounded down.
CeilingIn(k) == (throttleCeiling * Minute) \div 2^(IF k > 29 THEN 29 ELSE k)

\* Mutant: an overflow that comes out negative or zero is not looked at.
waitUnchecked(failures) ==
  LET k == failures - throttleAfter
  IN IF k < 0 THEN 0
     ELSE IF Shifted(k) > CeilingIn(k) THEN throttleCeiling
     ELSE IF Shifted(k) <= 0 THEN 0
     ELSE throttleBase * 2^k

\* The lockout that follows a failure, in minutes.
wait(failures) ==
  LET k == failures - throttleAfter
  IN IF k < 0 THEN 0
     ELSE IF Shifted(k) > CeilingIn(k) \/ Shifted(k) <= 0 THEN throttleCeiling
     ELSE throttleBase * 2^k

blocked == record.left > 0

Less(n, m) == IF n > m THEN n - m ELSE 0

\* A failure dated `late` minutes ago: the record is counted, dated and locked
\* out from that moment on.  Swept are the others, when this one is new.
fail(late) ==
  LET n == IF record.failures < MaxFailures THEN record.failures + 1 ELSE MaxFailures
  IN record' = [failures |-> n, left |-> Less(wait(n), late), quiet |-> late]

\* Mutant: what is swept is what has been quiet for as long as the first lockout.
forgetSoon(late) ==
  record' = IF record # NoRecord /\ record.quiet - late > throttleBase
            THEN NoRecord ELSE record

\* The sweep that the first failure of another address starts.
forgetIdle(late) ==
  record' = IF record # NoRecord /\ record.quiet - late > throttleForget
            THEN NoRecord ELSE record

succeed == record' = NoRecord

-----------------------------------------------------------------------------
(* The waiting room.                                                        *)

At(t, pc, kind) == attempt' = [attempt EXCEPT ![t] = [pc |-> pc, kind |-> kind, late |-> 0]]
Leaves(t) == attempt' = [attempt EXCEPT ![t] = Idle]

\* A seat, or the answer that the server is busy.
takeSeat(t, kind) ==
  IF queued < Seats
  THEN queued' = queued + 1 /\ At(t, "waiting", kind)
  ELSE UNCHANGED <<queued, attempt>>

\* Mutant: an address that is locked out is counted another failure for trying.
doLoginCounted(t) ==
  /\ attempt[t].pc = "idle"
  /\ IF blocked THEN fail(0) /\ UNCHANGED <<queued, attempt>>
     ELSE takeSeat(t, "login") /\ UNCHANGED record
  /\ UNCHANGED slots

doLogin(t) ==
  /\ attempt[t].pc = "idle"
  /\ ~blocked
  /\ takeSeat(t, "login")
  /\ UNCHANGED <<record, slots>>

doConfirm(t) ==
  /\ attempt[t].pc = "idle"
  /\ ~blocked
  /\ takeSeat(t, "confirm")
  /\ UNCHANGED <<record, slots>>

Elsewhere(t) ==
  /\ attempt[t].pc = "idle"
  /\ takeSeat(t, "other")
  /\ UNCHANGED <<record, slots>>

finishSecondFactor(t) ==
  /\ attempt[t].pc = "idle"
  /\ ~blocked
  /\ At(t, "checking", "code")
  /\ UNCHANGED <<record, queued, slots>>

finishKeyAssertion(t) ==
  /\ attempt[t].pc = "idle"
  /\ ~blocked
  /\ At(t, "checking", "key")
  /\ UNCHANGED <<record, queued, slots>>

\* withSlot: a slot is free.
TakeSlot(t) ==
  /\ attempt[t].pc = "waiting"
  /\ slots < Slots
  /\ slots' = slots + 1
  /\ attempt' = [attempt EXCEPT ![t].pc = "deriving"]
  /\ UNCHANGED <<record, queued>>

\* Mutant: who gives up waiting keeps their seat.
GivesUpSeated(t) ==
  /\ attempt[t].pc = "waiting"
  /\ Leaves(t)
  /\ UNCHANGED <<record, queued, slots>>

\* The timer goes first: the server is busy, which is no failure.
GivesUp(t) ==
  /\ attempt[t].pc = "waiting"
  /\ queued' = queued - 1
  /\ Leaves(t)
  /\ UNCHANGED <<record, slots>>

\* The date of a failure: doLogin reads the clock once, before it is let in.
dated(t) == IF attempt[t].kind = "login" THEN attempt[t].late ELSE 0

Failed(t) ==
  IF attempt[t].kind = "other"
  THEN \/ \E late \in 0..attempt[t].late : forgetIdle(late)
       \/ UNCHANGED record
  ELSE fail(dated(t))

Succeeded(t) == IF attempt[t].kind = "other" THEN UNCHANGED record ELSE succeed

\* The derivation ends: slot and seat are given back, and the answer counts.
Derived(t) ==
  /\ attempt[t].pc = "deriving"
  /\ queued' = queued - 1 /\ slots' = slots - 1
  /\ Failed(t) \/ Succeeded(t)
  /\ Leaves(t)

\* A code or a key is checked without a slot.
Checked(t) ==
  /\ attempt[t].pc = "checking"
  /\ Failed(t) \/ Succeeded(t)
  /\ Leaves(t)
  /\ UNCHANGED <<queued, slots>>

\* A key whose question is gone, or an account: neither a failure nor a success.
Dropped(t) ==
  /\ attempt[t].pc = "checking"
  /\ Leaves(t)
  /\ UNCHANGED <<record, queued, slots>>

-----------------------------------------------------------------------------

Older(a) == IF a.pc = "idle" THEN a ELSE [a EXCEPT !.late = @ + 1]

\* A minute passes.
Tick ==
  /\ \A t \in Attempts : attempt[t].pc # "idle" => attempt[t].late < MaxLate
  /\ record' = IF record = NoRecord THEN record
               ELSE [record EXCEPT !.left = Less(@, 1),
                                   !.quiet = IF @ < Quiet THEN @ + 1 ELSE @]
  /\ attempt' = [t \in Attempts |-> Older(attempt[t])]
  /\ UNCHANGED <<queued, slots>>

\* All of it is in memory.
Restart ==
  /\ record' = NoRecord
  /\ attempt' = [t \in Attempts |-> Idle]
  /\ queued' = 0 /\ slots' = 0

Init ==
  /\ record = NoRecord
  /\ attempt = [t \in Attempts |-> Idle]
  /\ queued = 0 /\ slots = 0

Arrives(t) == \/ doLogin(t) \/ doConfirm(t) \/ finishSecondFactor(t)
              \/ finishKeyAssertion(t) \/ Elsewhere(t)

Succeeds(t) == attempt[t].pc # "idle" /\ attempt'[t].pc = "idle" /\ Succeeded(t)

Ends(t) == Derived(t) \/ Checked(t)

Next == \/ \E t \in Attempts : \/ Arrives(t) \/ TakeSlot(t) \/ GivesUp(t)
                               \/ Ends(t) \/ Dropped(t)
        \/ Tick \/ Restart

Spec == Init /\ [][Next]_vars

\* Time passes, a timer that has run out fires and a computation ends.
Fairness == /\ WF_vars(Tick)
            /\ \A t \in Attempts : WF_vars(GivesUp(t) \/ TakeSlot(t)) /\ WF_vars(Ends(t))

FairSpec == Spec /\ Fairness

-----------------------------------------------------------------------------
(* Properties.                                                              *)

Holding(pcs) == {t \in Attempts : attempt[t].pc \in pcs}

\* What the variables hold.  Every seat and every slot that is taken is held by
\* an attempt in flight: those who give up or have their answer leave none
\* behind, so a server that was once full has room again.
TypeOK ==
  /\ record \in [failures : 0..MaxFailures, left : 0..throttleCeiling, quiet : 0..Quiet]
  /\ attempt \in [Attempts -> Attempt \cup {Idle}]
  /\ queued = Cardinality(Holding({"waiting", "deriving"})) /\ queued <= Seats
  /\ slots = Cardinality(Holding({"deriving"})) /\ slots <= Slots

\* The lockout the n-th failure promises: "doubling each time up to the ceiling".
promised(n) ==
  CASE n < throttleAfter -> 0
    [] n - throttleAfter \in 0..3 -> throttleBase * 2^(n - throttleAfter)
    [] OTHER -> throttleCeiling

\* However many failures there were, from however many attempts at once and in
\* whatever order they were dated, the address is locked out for what the last
\* one promises: the shift never wraps to a lockout that is shorter.
LockoutDoubles == record.left = Less(promised(record.failures), record.quiet)

\* "An address serving out its lockout is never forgotten early": before it is
\* over, nothing but a success of that address ends it, or a restart.
LockoutIsServed ==
  [][blocked /\ record' = NoRecord => Restart \/ \E t \in Attempts : Succeeds(t)]_vars

\* Nobody is locked out for ever, however often they keep trying.
LockoutEnds == []<>~blocked
================================================================================
