---------------------------- MODULE FrontDoor_proofs ----------------------------
(***************************************************************************)
(* Proofs about FrontDoor, for every number of attempts, slots and seats,  *)
(* every bound on how late an attempt may be and on the failures counted.  *)
(***************************************************************************)
EXTENDS FrontDoor, FiniteSetTheorems, TLAPS

--------------------------------------------------------------------------------
(***************************************************************************)
(* The shift.  A lockout is a minute shifted left by the failures beyond   *)
(* the first few, in 64 bits.  Up to three it doubles; from four to        *)
(* twenty-seven it is above the ceiling; from there on it wraps, and what  *)
(* is left is above the ceiling, negative or zero.                         *)
(***************************************************************************)
Power(j) == 2^j

LEMMA PowerTable ==
  /\ Power(0) = 1 /\ Power(1) = 2 /\ Power(2) = 4 /\ Power(3) = 8 /\ Power(4) = 16
  /\ Power(5) = 32 /\ Power(6) = 64 /\ Power(7) = 128 /\ Power(8) = 256 /\ Power(9) = 512
  /\ Power(10) = 1024 /\ Power(11) = 2048 /\ Power(12) = 4096 /\ Power(13) = 8192 /\ Power(14) = 16384
  /\ Power(15) = 32768 /\ Power(16) = 65536 /\ Power(17) = 131072 /\ Power(18) = 262144 /\ Power(19) = 524288
  /\ Power(20) = 1048576 /\ Power(21) = 2097152 /\ Power(22) = 4194304 /\ Power(23) = 8388608 /\ Power(24) = 16777216
  /\ Power(25) = 33554432 /\ Power(26) = 67108864 /\ Power(27) = 134217728 /\ Power(28) = 268435456 /\ Power(29) = 536870912
BY SMT DEF Power

LEMMA Powers == \A j \in 0..29 : Power(j) \in Nat /\ Power(j) >= 1 /\ (j >= 4 => Power(j) >= 16)
<1>1. \A j \in 0..9 : Power(j) \in Nat /\ Power(j) >= 1 /\ (j >= 4 => Power(j) >= 16)
  <2>1. \A j \in 0..9 :
          \/ j = 0 \/ j = 1 \/ j = 2 \/ j = 3 \/ j = 4 \/ j = 5 \/ j = 6 \/ j = 7 \/ j = 8
          \/ j = 9
    OBVIOUS
  <2> QED
    BY <2>1, PowerTable, SMT
<1>2. \A j \in 10..19 : Power(j) \in Nat /\ Power(j) >= 16
  <2>1. \A j \in 10..19 :
          \/ j = 10 \/ j = 11 \/ j = 12 \/ j = 13 \/ j = 14 \/ j = 15 \/ j = 16 \/ j = 17 \/ j = 18
          \/ j = 19
    OBVIOUS
  <2> QED
    BY <2>1, PowerTable, SMT
<1>3. \A j \in 20..29 : Power(j) \in Nat /\ Power(j) >= 16
  <2>1. \A j \in 20..29 :
          \/ j = 20 \/ j = 21 \/ j = 22 \/ j = 23 \/ j = 24 \/ j = 25 \/ j = 26 \/ j = 27 \/ j = 28
          \/ j = 29
    OBVIOUS
  <2> QED
    BY <2>1, PowerTable, SMT
<1>4. \A j \in 0..29 : j \in 0..9 \/ j \in 10..19 \/ j \in 20..29
  OBVIOUS
<1> QED
  BY <1>1, <1>2, <1>3, <1>4, SMT

\* Fifteen minutes are less than sixteen.
LEMMA SixteenthOfCeiling ==
  ASSUME NEW P \in Nat, P >= 16
  PROVE  (throttleCeiling * Minute) \div P \in Int /\ (throttleCeiling * Minute) \div P < Minute
<1> DEFINE q == (throttleCeiling * Minute) \div P
<1>1. q \in Int /\ P * q <= 15 * Minute
  BY SMT DEF Minute, throttleCeiling
<1>2. SUFFICES ASSUME q >= Minute PROVE FALSE
  BY <1>1, SMT DEF Minute
<1> HIDE DEF q
<1>3. P * q >= 16 * q
  BY <1>1, <1>2, SMT DEF Minute
<1> QED
  BY <1>1, <1>2, <1>3, SMT DEF Minute

LEMMA DoublesBelow ==
  ASSUME NEW k \in 0..3
  PROVE  /\ Power(k) \in 1..8
         /\ Shifted(k) = Minute /\ CeilingIn(k) \in Int /\ CeilingIn(k) >= Minute
<1>1. k = 0 \/ k = 1 \/ k = 2 \/ k = 3
  OBVIOUS
<1>2. CeilingIn(k) = (throttleCeiling * Minute) \div Power(k)
  BY DEF CeilingIn, Power
<1> QED
  BY <1>1, <1>2, PowerTable, SMT DEF Shifted, Minute, throttleCeiling

LEMMA CeilingBetween ==
  ASSUME NEW k \in 4..27
  PROVE  Shifted(k) > CeilingIn(k)
<1>1. CeilingIn(k) = (throttleCeiling * Minute) \div Power(k) /\ Shifted(k) = Minute
  BY DEF CeilingIn, Power, Shifted
<1>2. Power(k) \in Nat /\ Power(k) >= 16
  BY Powers, SMT
<1> QED
  BY <1>1, <1>2, SixteenthOfCeiling, SMT DEF Minute

LEMMA CeilingAbove ==
  ASSUME NEW k \in Nat, k >= 28
  PROVE  Shifted(k) > CeilingIn(k) \/ Shifted(k) <= 0
<1>1. CASE k = 28
  <2>1. Minute % Power(25) = Minute /\ Minute >= Power(24) /\ Minute - Power(25) <= 0
    BY PowerTable, SMT DEF Minute
  <2>2. Shifted(28) = Minute - Power(25)
    BY <2>1, SMT DEF Shifted, Power
  <2> QED
    BY <1>1, <2>1, <2>2
<1>2. CASE k \in 29..52
  <2>1. CeilingIn(k) = 0
    <3>1. CeilingIn(k) = (throttleCeiling * Minute) \div Power(29)
      <4>1. (IF k > 29 THEN 29 ELSE k) = 29
        BY <1>2
      <4> QED
        BY <4>1 DEF CeilingIn, Power
    <3> QED
      BY <3>1, PowerTable, SMT DEF Minute, throttleCeiling
  <2>2. /\ Power(53 - k) \in Nat /\ Power(53 - k) >= 1
        /\ Power(52 - k) \in Nat /\ Power(52 - k) >= 1
    BY <1>2, Powers, SMT
  <2> DEFINE low == Minute % Power(53 - k)
  <2>3. low \in Int
    BY <2>2, SMT DEF Minute
  <2>4. Shifted(k) = IF low >= Power(52 - k) THEN low - Power(53 - k) ELSE low
    BY <1>2 DEF Shifted, Power
  <2> HIDE DEF low
  <2>5. Shifted(k) \in Int
    BY <2>2, <2>3, <2>4
  <2> QED
    BY <2>1, <2>5
<1>3. CASE k >= 53
  BY <1>3 DEF Shifted
<1> QED
  BY <1>1, <1>2, <1>3

\* The lockout the code computes is the one it promises, whatever the count.
LEMMA WaitIsPromised == \A n \in Nat : wait(n) = promised(n) /\ promised(n) \in 0..throttleCeiling
<1> SUFFICES ASSUME NEW n \in Nat
             PROVE  wait(n) = promised(n) /\ promised(n) \in 0..throttleCeiling
  OBVIOUS
<1>1. CASE n < throttleAfter
  BY <1>1 DEF wait, promised, throttleAfter, throttleCeiling
<1>2. CASE n - throttleAfter \in 0..3
  <2> DEFINE k == n - throttleAfter
  <2>1. k \in 0..3 /\ ~(n < throttleAfter) /\ ~(k < 0)
    BY <1>2 DEF throttleAfter
  <2>2. promised(n) = throttleBase * Power(k)
    BY <1>2, <2>1 DEF promised, Power
  <2>3. ~(Shifted(k) > CeilingIn(k)) /\ ~(Shifted(k) <= 0)
    BY <2>1, DoublesBelow, SMT DEF Minute
  <2>4. wait(n) = throttleBase * Power(k)
    BY <2>1, <2>3 DEF wait, Power
  <2>5. throttleBase * Power(k) \in 0..throttleCeiling
    BY <2>1, DoublesBelow DEF throttleBase, throttleCeiling
  <2> QED
    BY <2>2, <2>4, <2>5
<1>3. CASE n - throttleAfter >= 4
  <2>1. promised(n) = throttleCeiling
    BY <1>3 DEF promised, throttleAfter
  <2>2. Shifted(n - throttleAfter) > CeilingIn(n - throttleAfter)
          \/ Shifted(n - throttleAfter) <= 0
    BY <1>3, CeilingBetween, CeilingAbove DEF throttleAfter
  <2>3. wait(n) = throttleCeiling
    BY <1>3, <2>2 DEF wait, throttleAfter
  <2> QED
    BY <2>1, <2>3 DEF throttleCeiling
<1> QED
  BY <1>1, <1>2, <1>3 DEF throttleAfter

--------------------------------------------------------------------------------
(***************************************************************************)
(* Seats and slots.  An attempt that moves into or out of the waiting room *)
(* moves the count by one; nothing bounds the number of attempts, but      *)
(* those who hold a seat are finitely many, for each took it in a step.    *)
(***************************************************************************)
Records == [failures : 0..MaxFailures, left : 0..throttleCeiling, quiet : 0..Quiet]

Seated == Holding({"waiting", "deriving"})
Deriving == Holding({"deriving"})

Counted ==
  /\ IsFiniteSet(Seated)
  /\ queued = Cardinality(Seated) /\ slots = Cardinality(Deriving)

Moving == attempt \in [Attempts -> Attempt \cup {Idle}]

TypeInv == TypeOK /\ IsFiniteSet(Seated) /\ LockoutDoubles

LEMMA DerivingIsFinite == IsFiniteSet(Seated) => IsFiniteSet(Deriving)
BY FS_Subset DEF Seated, Deriving, Holding

\* How one attempt that moves changes who holds what.
LEMMA HoldingMoves ==
  ASSUME Moving, NEW t \in Attempts, NEW x \in Attempt \cup {Idle},
         attempt' = [attempt EXCEPT ![t] = x], NEW pcs
  PROVE  Holding(pcs)' = IF x.pc \in pcs THEN Holding(pcs) \cup {t} ELSE Holding(pcs) \ {t}
BY DEF Moving, Holding

LEMMA SeatsMove ==
  ASSUME Moving, IsFiniteSet(Seated), NEW t \in Attempts, NEW x \in Attempt \cup {Idle},
         attempt' = [attempt EXCEPT ![t] = x]
  PROVE  /\ Moving' /\ IsFiniteSet(Seated)'
         /\ Cardinality(Seated) \in Nat /\ Cardinality(Seated)' \in Nat
         /\ Cardinality(Seated)' - Cardinality(Seated) =
              (IF x.pc \in {"waiting", "deriving"} THEN 1 ELSE 0)
                - (IF attempt[t].pc \in {"waiting", "deriving"} THEN 1 ELSE 0)
<1>1. Seated' = IF x.pc \in {"waiting", "deriving"} THEN Seated \cup {t} ELSE Seated \ {t}
  BY HoldingMoves DEF Seated
<1>2. t \in Seated <=> attempt[t].pc \in {"waiting", "deriving"}
  BY DEF Seated, Holding
<1>3. Moving'
  BY DEF Moving
<1>4. Cardinality(Seated) \in Nat
  BY FS_CardinalityType
<1>5. /\ IsFiniteSet(Seated \cup {t})
      /\ Cardinality(Seated \cup {t}) =
           IF t \in Seated THEN Cardinality(Seated) ELSE Cardinality(Seated) + 1
  BY FS_AddElement
<1>6. /\ IsFiniteSet(Seated \ {t})
      /\ Cardinality(Seated \ {t}) =
           IF t \in Seated THEN Cardinality(Seated) - 1 ELSE Cardinality(Seated)
  BY FS_RemoveElement
<1>7. IsFiniteSet(Seated') /\ Cardinality(Seated') \in Nat
  BY <1>1, <1>5, <1>6, FS_CardinalityType
<1>8. CASE x.pc \in {"waiting", "deriving"}
  BY <1>1, <1>2, <1>3, <1>4, <1>5, <1>7, <1>8
<1>9. CASE x.pc \notin {"waiting", "deriving"}
  BY <1>1, <1>2, <1>3, <1>4, <1>6, <1>7, <1>9
<1> QED
  BY <1>8, <1>9

LEMMA SlotsMove ==
  ASSUME Moving, IsFiniteSet(Seated), NEW t \in Attempts, NEW x \in Attempt \cup {Idle},
         attempt' = [attempt EXCEPT ![t] = x]
  PROVE  /\ Cardinality(Deriving) \in Nat
         /\ Cardinality(Deriving)' - Cardinality(Deriving) =
              (IF x.pc = "deriving" THEN 1 ELSE 0) - (IF attempt[t].pc = "deriving" THEN 1 ELSE 0)
         /\ attempt[t].pc = "deriving" => Cardinality(Deriving) >= 1
<1>0. IsFiniteSet(Deriving)
  BY DerivingIsFinite
<1>1. Deriving' = IF x.pc = "deriving" THEN Deriving \cup {t} ELSE Deriving \ {t}
  BY HoldingMoves DEF Deriving
<1>2. t \in Deriving <=> attempt[t].pc = "deriving"
  BY DEF Deriving, Holding
<1>3. Cardinality(Deriving) \in Nat
  BY <1>0, FS_CardinalityType
<1>4. Cardinality(Deriving \cup {t}) =
        IF t \in Deriving THEN Cardinality(Deriving) ELSE Cardinality(Deriving) + 1
  BY <1>0, FS_AddElement
<1>5. Cardinality(Deriving \ {t}) =
        IF t \in Deriving THEN Cardinality(Deriving) - 1 ELSE Cardinality(Deriving)
  BY <1>0, FS_RemoveElement
<1>6. t \in Deriving => Cardinality(Deriving) >= 1
  BY <1>0, <1>3, FS_EmptySet
<1>7. CASE x.pc = "deriving"
  BY <1>1, <1>2, <1>3, <1>4, <1>6, <1>7
<1>8. CASE x.pc # "deriving"
  BY <1>1, <1>2, <1>3, <1>5, <1>6, <1>8
<1> QED
  BY <1>7, <1>8

--------------------------------------------------------------------------------
(***************************************************************************)
(* The record.  It is what the last failure promised, less the time since. *)
(***************************************************************************)
Doubling == record \in Records /\ LockoutDoubles

LEMMA FailDoubles ==
  ASSUME Doubling, NEW late \in 0..MaxLate, fail(late)
  PROVE  Doubling' /\ record' # NoRecord
<1> DEFINE n == IF record.failures < MaxFailures THEN record.failures + 1 ELSE MaxFailures
<1>1. n \in 1..MaxFailures
  BY DoorAssumption DEF Doubling, Records, throttleAfter
<1>2. wait(n) = promised(n) /\ promised(n) \in 0..throttleCeiling
  BY <1>1, WaitIsPromised
<1>3. record' = [failures |-> n, left |-> Less(wait(n), late), quiet |-> late]
  BY DEF fail
<1> HIDE DEF n
<1>4. Less(promised(n), late) \in 0..throttleCeiling /\ late \in 0..Quiet
  BY <1>2, DoorAssumption DEF Less, Quiet, throttleCeiling
<1> QED
  BY <1>1, <1>2, <1>3, <1>4 DEF Doubling, Records, LockoutDoubles, NoRecord

LEMMA NoRecordDoubles ==
  ASSUME record' = NoRecord
  PROVE  Doubling'
<1>1. promised(0) = 0
  BY DEF promised, throttleAfter
<1> QED
  BY <1>1, DoorAssumption
     DEF Doubling, Records, LockoutDoubles, NoRecord, Less, Quiet, throttleAfter, throttleCeiling

\* What is swept has been quiet for longer than any lockout.
LEMMA SweptIsNotBlocked ==
  ASSUME Doubling, NEW late \in 0..MaxLate, forgetIdle(late), blocked
  PROVE  record' = record
<1>1. record.failures \in Nat /\ record.quiet \in Nat
  BY DoorAssumption DEF Doubling, Records, Quiet
<1>2. promised(record.failures) \in 0..throttleCeiling
  BY <1>1, WaitIsPromised
<1>3. ~(record.quiet - late > throttleForget)
  BY <1>1, <1>2, DoorAssumption DEF Doubling, LockoutDoubles, blocked, Less, throttleCeiling
<1> QED
  BY <1>3 DEF forgetIdle

LEMMA OutcomeDoubles ==
  ASSUME Doubling, Moving, NEW t \in Attempts, attempt[t].pc # "idle", Failed(t) \/ Succeeded(t)
  PROVE  /\ Doubling'
         /\ blocked /\ record' = NoRecord => Succeeded(t)
<1>0. attempt[t] \in Attempt /\ attempt[t].late \in 0..MaxLate
  BY DEF Moving, Attempt, Idle
<1>1. ASSUME UNCHANGED record
      PROVE  Doubling' /\ (blocked => record' # NoRecord)
  BY <1>1, DoorAssumption DEF Doubling, LockoutDoubles, blocked, NoRecord
<1>2. CASE Succeeded(t)
  BY <1>1, <1>2, NoRecordDoubles DEF Succeeded, succeed
<1>3. CASE attempt[t].kind = "other" /\ Failed(t)
  <2>1. CASE UNCHANGED record
    BY <1>1, <2>1
  <2>2. ASSUME NEW late \in 0..attempt[t].late, forgetIdle(late)
        PROVE  Doubling' /\ (blocked => record' # NoRecord)
    <3>1. late \in 0..MaxLate
      BY <1>0, DoorAssumption
    <3>2. record' = record \/ record' = NoRecord
      BY <2>2 DEF forgetIdle
    <3> QED
      BY <1>1, <2>2, <3>1, <3>2, SweptIsNotBlocked, NoRecordDoubles
  <2> QED
    BY <1>3, <2>1, <2>2 DEF Failed
<1>4. CASE attempt[t].kind # "other" /\ Failed(t)
  <2>1. dated(t) \in 0..MaxLate /\ fail(dated(t))
    BY <1>0, <1>4, DoorAssumption DEF dated, Failed
  <2> QED
    BY <2>1, FailDoubles
<1> QED
  BY <1>2, <1>3, <1>4

LEMMA TickDoubles ==
  ASSUME Doubling, Tick
  PROVE  /\ Doubling'
         /\ blocked => record' # NoRecord
<1>1. CASE record = NoRecord
  BY <1>1, NoRecordDoubles DEF Tick, blocked, NoRecord
<1>2. CASE record # NoRecord
  <2> DEFINE q == IF record.quiet < Quiet THEN record.quiet + 1 ELSE record.quiet
  <2>1. /\ record.failures \in 0..MaxFailures /\ record.left \in 0..throttleCeiling
        /\ record.quiet \in 0..Quiet /\ record \in Records
    BY DEF Doubling, Records
  <2>2. record' = [record EXCEPT !.left = Less(record.left, 1), !.quiet = q]
    BY <1>2, <2>1 DEF Tick, Records
  <2>3. /\ record' \in Records /\ record'.failures = record.failures
        /\ record'.left = Less(record.left, 1) /\ record'.quiet = q
    <3>1. Less(record.left, 1) \in 0..throttleCeiling
      BY <2>1 DEF Less, throttleCeiling
    <3>2. q \in 0..Quiet
      BY <2>1, DoorAssumption DEF Quiet
    <3> HIDE DEF q
    <3> QED
      BY <2>1, <2>2, <3>1, <3>2 DEF Records
  <2>4. promised(record.failures) \in 0..throttleCeiling /\ record.failures \in Nat
    BY <2>1, WaitIsPromised, DoorAssumption
  <2>5. Quiet \in Nat /\ Quiet > throttleCeiling
    BY DoorAssumption DEF Quiet, throttleCeiling
  <2>6. Less(record.left, 1) = Less(promised(record.failures), q)
    <3>1. record.left = Less(promised(record.failures), record.quiet)
      BY DEF Doubling, LockoutDoubles
    <3> QED
      BY <2>1, <2>4, <2>5, <3>1 DEF Less, throttleCeiling
  <2>7. blocked => record.failures # 0
    <3>1. promised(0) = 0
      BY DEF promised, throttleAfter
    <3> QED
      BY <2>1, <2>5, <3>1 DEF Doubling, LockoutDoubles, blocked, Less
  <2> QED
    BY <2>3, <2>6, <2>7 DEF Doubling, LockoutDoubles, NoRecord
<1> QED
  BY <1>1, <1>2

--------------------------------------------------------------------------------
(***************************************************************************)
(* The steps of an attempt.                                                *)
(***************************************************************************)
Within == queued <= Seats /\ slots <= Slots

LEMMA TypeInvParts ==
  /\ TypeInv <=> Doubling /\ Moving /\ Counted /\ Within
  /\ TypeInv' <=> Doubling' /\ Moving' /\ Counted' /\ Within'
BY DEF Within, TypeInv, TypeOK, Doubling, Records, Moving, Counted, Seated, Deriving

\* What a step of an attempt does to the seats and the slots, and to itself.
Takes(t, x, seats, taken) ==
  /\ attempt' = [attempt EXCEPT ![t] = x]
  /\ queued' = queued + seats /\ slots' = slots + taken
  /\ seats = (IF x.pc \in {"waiting", "deriving"} THEN 1 ELSE 0)
               - (IF attempt[t].pc \in {"waiting", "deriving"} THEN 1 ELSE 0)
  /\ taken = (IF x.pc = "deriving" THEN 1 ELSE 0) - (IF attempt[t].pc = "deriving" THEN 1 ELSE 0)

LEMMA TakingIsCounted ==
  ASSUME Moving, Counted, NEW t \in Attempts, NEW x \in Attempt \cup {Idle},
         NEW seats \in Int, NEW taken \in Int, Takes(t, x, seats, taken)
  PROVE  /\ Moving' /\ Counted'
         /\ queued \in Nat /\ slots \in Nat /\ queued' \in Nat
<1>1. /\ Moving' /\ IsFiniteSet(Seated)'
      /\ Cardinality(Seated) \in Nat /\ Cardinality(Seated)' \in Nat
      /\ Cardinality(Seated)' - Cardinality(Seated) = seats
  BY SeatsMove DEF Takes, Counted
<1>2. /\ Cardinality(Deriving) \in Nat
      /\ Cardinality(Deriving)' - Cardinality(Deriving) = taken
  BY SlotsMove DEF Takes, Counted
<1>3. Cardinality(Deriving)' \in Nat
  <2>1. IsFiniteSet(Deriving')
    BY <1>1, FS_Subset DEF Seated, Deriving, Holding
  <2> QED
    BY <2>1, FS_CardinalityType
<1>4. queued' = Cardinality(Seated)' /\ slots' = Cardinality(Deriving)'
  BY <1>1, <1>2, <1>3 DEF Counted, Takes
<1> QED
  BY <1>1, <1>2, <1>3, <1>4 DEF Counted

LEMMA ArrivalsKeepTypes ==
  ASSUME TypeInv, NEW t \in Attempts, Arrives(t)
  PROVE  TypeInv' /\ UNCHANGED record
<1> USE TypeInvParts, DoorAssumption
<1>0. attempt[t] = Idle
  BY DEF Arrives, doLogin, doConfirm, finishSecondFactor, finishKeyAssertion, Elsewhere, Moving,
         Attempt, Idle
<1>1. UNCHANGED <<record, slots>>
  BY DEF Arrives, doLogin, doConfirm, finishSecondFactor, finishKeyAssertion, Elsewhere
<1>2. Doubling'
  BY <1>1 DEF Doubling, LockoutDoubles
<1>3. ASSUME NEW kind \in Derives, takeSeat(t, kind)
      PROVE  TypeInv'
  <2>1. CASE queued < Seats
    <3> DEFINE x == [pc |-> "waiting", kind |-> kind, late |-> 0]
    <3>1. x \in Attempt
      BY DEF Attempt, Kinds
    <3>2. Takes(t, x, 1, 0)
      BY <1>0, <1>1, <1>3, <2>1, FS_CardinalityType, DerivingIsFinite
      DEF takeSeat, At, Takes, Idle, Counted
    <3>3. Moving' /\ Counted' /\ queued \in Nat
      BY <3>1, <3>2, TakingIsCounted
    <3> QED
      BY <1>1, <1>2, <3>2, <3>3, <2>1 DEF Takes, Within
  <2>2. CASE ~(queued < Seats)
    BY <1>1, <1>2, <1>3, <2>2 DEF takeSeat, Moving, Counted, Seated, Deriving, Holding, Within
  <2> QED
    BY <2>1, <2>2
<1>4. ASSUME NEW kind \in {"code", "key"}, At(t, "checking", kind), UNCHANGED queued
      PROVE  TypeInv'
  <2> DEFINE x == [pc |-> "checking", kind |-> kind, late |-> 0]
  <2>1. x \in Attempt
    BY DEF Attempt, Kinds
  <2>2. Takes(t, x, 0, 0)
    BY <1>0, <1>1, <1>4, FS_CardinalityType, DerivingIsFinite DEF At, Takes, Idle, Counted
  <2>3. Moving' /\ Counted'
    BY <2>1, <2>2, TakingIsCounted
  <2> QED
    BY <1>1, <1>2, <1>4, <2>3 DEF Within
<1> QED
  BY <1>1, <1>3, <1>4
     DEF Arrives, doLogin, doConfirm, finishSecondFactor, finishKeyAssertion, Elsewhere, Derives

LEMMA AttemptsKeepTypes ==
  ASSUME TypeInv, NEW t \in Attempts,
         TakeSlot(t) \/ GivesUp(t) \/ Ends(t) \/ Dropped(t)
  PROVE  /\ TypeInv'
         /\ blocked /\ record' = NoRecord => Succeeds(t)
<1> USE TypeInvParts, DoorAssumption
<1>0. attempt[t] \in Attempt
  BY DEF TakeSlot, GivesUp, Ends, Derived, Checked, Dropped, Moving, Idle
<1>1. queued \in Nat /\ slots \in Nat
  BY FS_CardinalityType, DerivingIsFinite DEF Counted
<1>2. ASSUME UNCHANGED record
      PROVE  Doubling' /\ (blocked => record' # NoRecord)
  BY <1>2 DEF Doubling, LockoutDoubles, blocked, NoRecord
<1>3. CASE TakeSlot(t)
  <2> DEFINE x == [attempt[t] EXCEPT !.pc = "deriving"]
  <2>1. x \in Attempt /\ x.pc = "deriving" /\ attempt[t].pc = "waiting"
    BY <1>0, <1>3 DEF TakeSlot, Attempt
  <2>2. attempt' = [attempt EXCEPT ![t] = x]
    BY <1>3 DEF TakeSlot, Moving
  <2>3. slots < Slots /\ slots' = slots + 1 /\ queued' = queued
    BY <1>3 DEF TakeSlot
  <2> HIDE DEF x
  <2>4. Takes(t, x, 0, 1)
    BY <1>1, <2>1, <2>2, <2>3 DEF Takes
  <2>5. Moving' /\ Counted'
    BY <2>1, <2>4, TakingIsCounted
  <2> QED
    BY <1>1, <1>2, <1>3, <2>3, <2>5 DEF TakeSlot, Within
<1>4. ASSUME Leaves(t), NEW taken \in {0, 1}, queued' = queued - taken,
             taken = (IF attempt[t].pc \in {"waiting", "deriving"} THEN 1 ELSE 0),
             slots' = slots - (IF attempt[t].pc = "deriving" THEN 1 ELSE 0)
      PROVE  Moving' /\ Counted' /\ Within'
  <2>1. Takes(t, Idle, -taken, - (IF attempt[t].pc = "deriving" THEN 1 ELSE 0))
    BY <1>1, <1>4 DEF Takes, Leaves, Idle
  <2>2. Moving' /\ Counted'
    BY <2>1, TakingIsCounted
  <2> QED
    BY <1>1, <1>4, <2>2 DEF Within
<1>5. CASE GivesUp(t)
  BY <1>1, <1>2, <1>4, <1>5 DEF GivesUp
<1>6. CASE Dropped(t)
  BY <1>1, <1>2, <1>4, <1>6 DEF Dropped
<1>7. CASE Ends(t)
  <2>1. Failed(t) \/ Succeeded(t)
    BY <1>7 DEF Ends, Derived, Checked
  <2>2. attempt[t].pc # "idle" /\ Leaves(t)
    BY <1>7 DEF Ends, Derived, Checked
  <2>3. Doubling' /\ (blocked /\ record' = NoRecord => Succeeded(t))
    BY <2>1, <2>2, OutcomeDoubles
  <2>4. Moving' /\ Counted' /\ Within'
    BY <1>1, <1>4, <1>7 DEF Ends, Derived, Checked
  <2>5. attempt'[t].pc = "idle"
    BY <2>2 DEF Leaves, Moving, Idle
  <2> QED
    BY <2>2, <2>3, <2>4, <2>5 DEF Succeeds
<1> QED
  BY <1>3, <1>5, <1>6, <1>7

--------------------------------------------------------------------------------
LEMMA NobodySeated ==
  ASSUME attempt' = [t \in Attempts |-> Idle], queued' = 0, slots' = 0
  PROVE  Moving' /\ Counted'
<1>1. Seated' = {} /\ Deriving' = {}
  BY DEF Seated, Deriving, Holding, Idle
<1> QED
  BY <1>1, FS_EmptySet DEF Moving, Counted

LEMMA TickKeepsTypes ==
  ASSUME TypeInv, Tick
  PROVE  TypeInv'
<1> USE TypeInvParts, DoorAssumption
<1>1. ASSUME NEW t \in Attempts
      PROVE  Older(attempt[t]) \in Attempt \cup {Idle} /\ Older(attempt[t]).pc = attempt[t].pc
  <2>1. CASE attempt[t].pc = "idle"
    BY <2>1 DEF Older, Moving
  <2>2. CASE attempt[t].pc # "idle"
    <3>1. attempt[t] \in Attempt /\ attempt[t].late \in 0..MaxLate /\ attempt[t].late < MaxLate
      BY <2>2 DEF Tick, Moving, Attempt, Idle
    <3>2. attempt[t].late + 1 \in 0..MaxLate
      BY <3>1
    <3> QED
      BY <2>2, <3>1, <3>2 DEF Older, Attempt
  <2> QED
    BY <2>1, <2>2
<1>2. Moving' /\ UNCHANGED <<Seated, Deriving, queued, slots>>
  BY <1>1 DEF Tick, Moving, Seated, Deriving, Holding
<1> QED
  BY <1>2, TickDoubles DEF Counted, Within

LEMMA InitTypes == Init => TypeInv
<1> USE TypeInvParts, DoorAssumption
<1> SUFFICES ASSUME Init PROVE TypeInv
  OBVIOUS
<1>1. Seated = {} /\ Deriving = {}
  BY DEF Init, Seated, Deriving, Holding, Idle
<1>2. promised(0) = 0
  BY DEF promised, throttleAfter
<1>3. Doubling
  BY <1>2 DEF Init, Doubling, Records, LockoutDoubles, NoRecord, Less, Quiet, throttleAfter,
              throttleCeiling
<1> QED
  BY <1>1, <1>3, FS_EmptySet DEF Init, Moving, Counted, Within

LEMMA NextKeepsTypes == TypeInv /\ [Next]_vars => TypeInv'
<1>1. ASSUME TypeInv, Restart PROVE TypeInv'
  BY <1>1, TypeInvParts, DoorAssumption, NobodySeated, NoRecordDoubles DEF Restart, Within
<1>2. ASSUME TypeInv, UNCHANGED vars PROVE TypeInv'
  BY <1>2 DEF vars, TypeInv, TypeOK, LockoutDoubles, Seated, Holding
<1> QED
  BY <1>1, <1>2, ArrivalsKeepTypes, AttemptsKeepTypes, TickKeepsTypes DEF Next

LEMMA Invariance == Spec => []TypeInv
BY InitTypes, NextKeepsTypes, PTL DEF Spec

\* Every seat of the waiting room and every slot that is taken is held by an
\* attempt in flight, and there are never more than there is room for: who
\* gives up, fails or has their answer leaves none behind.
THEOREM TypeCorrect == Spec => []TypeOK
BY Invariance, PTL DEF TypeInv

\* However many failures there were, from however many attempts at once and in
\* whatever order they were dated, the lockout is the one that the last failure
\* promises; the shift of 64 bits never wraps to a shorter one.
THEOREM LockoutCorrect == Spec => []LockoutDoubles
BY Invariance, PTL DEF TypeInv

\* Before it is over, nothing but a success of the address ends a lockout, or a
\* restart: the sweep of quiet records, which looks at how long a record was
\* quiet and not at its lockout, never takes one that is being served.
THEOREM LockoutServed == Spec => LockoutIsServed
<1>1. TypeInv /\ [Next]_vars =>
        [blocked /\ record' = NoRecord => Restart \/ \E t \in Attempts : Succeeds(t)]_vars
  <2> SUFFICES ASSUME TypeInv, Next, blocked, record' = NoRecord
               PROVE  Restart \/ \E t \in Attempts : Succeeds(t)
    OBVIOUS
  <2>1. record # NoRecord
    BY DoorAssumption DEF blocked, NoRecord
  <2> QED
    BY <2>1, ArrivalsKeepTypes, AttemptsKeepTypes, TickDoubles, TypeInvParts DEF Next
<1> QED
  BY <1>1, Invariance, PTL DEF Spec, LockoutIsServed

================================================================================
