--------------------------- MODULE BatteryProofs ---------------------------
(***************************************************************************)
(* Proofs about battery.c for every set of voltages, every threshold and   *)
(* every count allowed by BatteryAssumption.                               *)
(***************************************************************************)
EXTENDS Battery, TLAPS

\* As long as the shutdown has not come, the counter of the code is the number
\* of low judgements in a row.
RowCounted == ~battery_is_critical_low => lows = critical_low

IndInv == TypeOK /\ RowCounted

-----------------------------------------------------------------------------
(* Division, as battery_get_percentage uses it.                            *)

LEMMA DivIsNat ==
  ASSUME NEW x \in Nat, NEW c \in Nat, c > 0
  PROVE  x \div c \in Nat /\ (x \div c) * c <= x /\ x < (x \div c) * c + c
BY Z3

LEMMA DivUnique ==
  ASSUME NEW q \in Nat, NEW r \in Nat, NEW c \in Nat, c > 0, q * c < r * c + c
  PROVE  q <= r
BY Z3

LEMMA DivMonotone ==
  ASSUME NEW x \in Nat, NEW y \in Nat, NEW c \in Nat, c > 0, x <= y
  PROVE  x \div c <= y \div c
<1>. DEFINE q == x \div c
            r == y \div c
<1>1. q \in Nat /\ q * c <= x
  BY DivIsNat
<1>2. r \in Nat /\ y < r * c + c
  BY DivIsNat
<1>. HIDE DEF q, r
<1>3. q * c \in Nat /\ r * c \in Nat
  BY <1>1, <1>2
<1>4. q * c < r * c + c
  BY <1>1, <1>2, <1>3
<1>5. q <= r
  BY <1>1, <1>2, <1>4, DivUnique
<1>. QED
  BY <1>5 DEF q, r

LEMMA DivOfMultiple ==
  ASSUME NEW k \in Nat, NEW c \in Nat, c > 0
  PROVE  (c * k) \div c = k
BY Z3

(* The percentage.                                                         *)

LEMMA UpperPart ==
  ASSUME NEW v \in Nat, v > EMPTY_VOLTAGE_VALUE, v <= FULL_VOLTAGE_VALUE
  PROVE  battery_get_percentage(v) \in 20 .. 100
<1>. DEFINE c == FULL_VOLTAGE_VALUE - EMPTY_VOLTAGE_VALUE
            x == (v - EMPTY_VOLTAGE_VALUE) * 80
<1>1. c \in Nat /\ c > 0 /\ x \in Nat /\ x <= c * 80 /\ c * 80 \in Nat
  BY BatteryAssumption
<1>2. battery_get_percentage(v) = x \div c + 20
  BY BatteryAssumption DEF battery_get_percentage
<1>. HIDE DEF c, x
<1>3. x \div c \in Nat
  BY <1>1, DivIsNat
<1>4. x \div c <= 80
  BY <1>1, DivMonotone, DivOfMultiple
<1>. QED
  BY <1>2, <1>3, <1>4

LEMMA LowerPart ==
  ASSUME NEW v \in Nat, v > SHUTDOWN_VOLTAGE_VALUE, v <= EMPTY_VOLTAGE_VALUE
  PROVE  /\ battery_get_percentage(v) \in 0 .. 20
         /\ v < EMPTY_VOLTAGE_VALUE => battery_get_percentage(v) < 20
         /\ v = EMPTY_VOLTAGE_VALUE => battery_get_percentage(v) = 20
<1>. DEFINE c == EMPTY_VOLTAGE_VALUE - SHUTDOWN_VOLTAGE_VALUE
            x == (v - SHUTDOWN_VOLTAGE_VALUE) * 20
            q == x \div c
<1>1. /\ c \in Nat /\ c > 0 /\ x \in Nat /\ x <= c * 20 /\ c * 20 \in Nat
      /\ v < EMPTY_VOLTAGE_VALUE => x < c * 20
      /\ v = EMPTY_VOLTAGE_VALUE => x = c * 20
  BY BatteryAssumption
<1>2. battery_get_percentage(v) = q
  BY BatteryAssumption DEF battery_get_percentage
<1>. HIDE DEF c, x
<1>3. q \in Nat /\ q * c <= x
  BY <1>1, DivIsNat
<1>4. q <= 20
  BY <1>1, DivMonotone, DivOfMultiple
<1>5. x = c * 20 => q = 20
  BY <1>1, DivOfMultiple
<1>. HIDE DEF q
<1>6. x < c * 20 => q # 20
  BY <1>1, <1>3
<1>. QED
  BY <1>1, <1>2, <1>3, <1>4, <1>5, <1>6

\* battery_get_percentage is a percentage, at least 20 exactly from the voltage of
\* an empty battery on, and never falls as the voltage rises.
LEMMA PercentageRange ==
  ASSUME NEW v \in Nat
  PROVE  /\ battery_get_percentage(v) \in 0 .. 100
         /\ battery_get_percentage(v) >= 20 <=> v >= EMPTY_VOLTAGE_VALUE
<1>1. CASE v > FULL_VOLTAGE_VALUE
  BY <1>1, BatteryAssumption DEF battery_get_percentage
<1>2. CASE v > EMPTY_VOLTAGE_VALUE /\ v <= FULL_VOLTAGE_VALUE
  BY <1>2, BatteryAssumption, UpperPart
<1>3. CASE v > SHUTDOWN_VOLTAGE_VALUE /\ v <= EMPTY_VOLTAGE_VALUE
  BY <1>3, BatteryAssumption, LowerPart
<1>4. CASE v <= SHUTDOWN_VOLTAGE_VALUE
  BY <1>4, BatteryAssumption DEF battery_get_percentage
<1>. QED
  BY <1>1, <1>2, <1>3, <1>4, BatteryAssumption

LEMMA PercentageMonotone ==
  ASSUME NEW u \in Nat, NEW v \in Nat, u <= v
  PROVE  battery_get_percentage(u) <= battery_get_percentage(v)
<1>. DEFINE P(w) == battery_get_percentage(w)
<1>1. P(u) \in 0 .. 100 /\ P(v) \in 0 .. 100
  BY PercentageRange
<1>2. CASE v > FULL_VOLTAGE_VALUE
  BY <1>1, <1>2, BatteryAssumption DEF battery_get_percentage
<1>3. CASE u <= SHUTDOWN_VOLTAGE_VALUE
  <2>1. P(u) = 0
    BY <1>3, BatteryAssumption DEF battery_get_percentage
  <2>. QED
    BY <2>1, <1>1
<1>4. CASE u <= EMPTY_VOLTAGE_VALUE /\ v > EMPTY_VOLTAGE_VALUE /\ v <= FULL_VOLTAGE_VALUE
  <2>1. P(v) \in 20 .. 100
    BY <1>4, UpperPart
  <2>2. CASE u > SHUTDOWN_VOLTAGE_VALUE
    BY <1>4, <2>1, <2>2, LowerPart
  <2>. QED
    BY <1>3, <2>2, BatteryAssumption
<1>5. CASE u > EMPTY_VOLTAGE_VALUE /\ v <= FULL_VOLTAGE_VALUE
  <2>. DEFINE c == FULL_VOLTAGE_VALUE - EMPTY_VOLTAGE_VALUE
              X(w) == (w - EMPTY_VOLTAGE_VALUE) * 80
  <2>1. c \in Nat /\ c > 0 /\ X(u) \in Nat /\ X(v) \in Nat /\ X(u) <= X(v)
    BY <1>5, BatteryAssumption
  <2>2. P(u) = X(u) \div c + 20 /\ P(v) = X(v) \div c + 20
    BY <1>5, BatteryAssumption DEF battery_get_percentage
  <2>. HIDE DEF c, X
  <2>3. X(u) \div c <= X(v) \div c /\ X(u) \div c \in Nat /\ X(v) \div c \in Nat
    BY <2>1, DivMonotone, DivIsNat
  <2>. QED
    BY <2>2, <2>3
<1>6. CASE u > SHUTDOWN_VOLTAGE_VALUE /\ v <= EMPTY_VOLTAGE_VALUE
  <2>. DEFINE c == EMPTY_VOLTAGE_VALUE - SHUTDOWN_VOLTAGE_VALUE
              X(w) == (w - SHUTDOWN_VOLTAGE_VALUE) * 20
  <2>1. c \in Nat /\ c > 0 /\ X(u) \in Nat /\ X(v) \in Nat /\ X(u) <= X(v)
    BY <1>6, BatteryAssumption
  <2>2. P(u) = X(u) \div c /\ P(v) = X(v) \div c
    BY <1>6, BatteryAssumption DEF battery_get_percentage
  <2>. HIDE DEF c, X
  <2>. QED
    BY <2>1, <2>2, DivMonotone
<1>. QED
  BY <1>2, <1>3, <1>4, <1>5, <1>6, BatteryAssumption

-----------------------------------------------------------------------------
(* The counters.                                                           *)

LEMMA InitHolds == Init => IndInv
<1>. SUFFICES ASSUME Init PROVE IndInv
  OBVIOUS
<1>1. {connected, wireless, usb, backlight, asked} \subseteq BOOLEAN
  BY Zenon DEF Init
<1>2. TypeOK
  BY <1>1, BatteryAssumption DEF Init, TypeOK
<1>. QED
  BY <1>2 DEF IndInv, RowCounted, Init

\* One step per action; what the task does to the counters is the heart of it.
LEMMA StepHolds == IndInv /\ [Next]_vars => IndInv'
<1>. SUFFICES ASSUME IndInv, [Next]_vars PROVE IndInv'
  OBVIOUS
<1>. USE BatteryAssumption DEF IndInv, TypeOK, RowCounted, battery_is_critical_low
<1>1. CASE battery_task
  <2>1. CASE MeasureDue
    <3>. DEFINE empty == battery_check_empty
                critical == battery_check_critical_low
    <3>1. empty \in 0 .. BATTERY_EMPTY_COUNT + 1
      BY DEF battery_check_empty, battery_is_empty
    <3>2. critical \in 0 .. CRITICAL_LOW_COUNT + 1
      BY DEF battery_check_critical_low
    <3>3. bat_empty' \in 0 .. BATTERY_EMPTY_COUNT + 1
      BY <1>1, <2>1, <3>1 DEF battery_task, Powered
    <3>4. critical_low' = IF usb THEN 0 ELSE critical
      BY <1>1, <2>1 DEF battery_task, Powered
    <3>5. lows' = IF usb \/ voltage >= SHUTDOWN_VOLTAGE_VALUE THEN 0
                  ELSE IF lows > CRITICAL_LOW_COUNT THEN lows ELSE lows + 1
      BY <1>1, <2>1 DEF battery_task
    <3>6. power_on_sample' \in 0 .. VOLTAGE_POWER_ON_MEASURE_COUNT
      BY <1>1, <2>1 DEF battery_task, battery_power_on_sample
    <3>7. UNCHANGED <<voltage, connected, wireless, usb, backlight>> /\ age' = 0 /\ asked' = TRUE
      BY <1>1, <2>1 DEF battery_task, world
    <3>8. TypeOK'
      BY <3>2, <3>3, <3>4, <3>5, <3>6, <3>7
    <3>9. voltage \in Nat
      OBVIOUS
    <3>10. RowCounted'
      BY <3>2, <3>4, <3>5, <3>9 DEF battery_check_critical_low
    <3>. QED
      BY <3>8, <3>10
  <2>2. CASE ~MeasureDue
    BY <1>1, <2>2 DEF battery_task, world
  <2>. QED
    BY <2>1, <2>2
<1>2. CASE battery_set_voltage
  BY <1>2 DEF battery_set_voltage, counters, world
<1>3. CASE Tick
  BY <1>3 DEF Tick, counters, world
<1>4. CASE Link
  BY <1>4 DEF Link, counters
<1>5. CASE Surroundings
  BY <1>5 DEF Surroundings, counters
<1>6. CASE UNCHANGED vars
  BY <1>6 DEF vars, counters, world
<1>. QED
  BY <1>1, <1>2, <1>3, <1>4, <1>5, <1>6 DEF Next

\* Until the shutdown the code's counter is the number of low judgements in a
\* row, for every count and threshold.
THEOREM Inductive == Spec => []IndInv
BY InitHolds, StepHolds, PTL DEF Spec

\* A keyboard is shut down only after CRITICAL_LOW_COUNT + 1 low judgements in a
\* row without USB power (battery_check_critical_low).
THEOREM NoShutdownByADip == Spec => ShutdownNeedsARow
<1>. DEFINE Step == ~battery_is_critical_low /\ battery_is_critical_low'
                      => lows' = CRITICAL_LOW_COUNT + 1
<1>1. IndInv /\ [Next]_vars => [Step]_vars
  <2>. SUFFICES ASSUME IndInv, Next, ~battery_is_critical_low, battery_is_critical_low'
                PROVE  lows' = CRITICAL_LOW_COUNT + 1
    OBVIOUS
  <2>. USE BatteryAssumption DEF IndInv, TypeOK, RowCounted, battery_is_critical_low
  <2>1. critical_low' # critical_low
    OBVIOUS
  <2>2. battery_task
    BY <2>1 DEF Next, battery_set_voltage, Tick, Link, Surroundings, counters
  <2>3. MeasureDue /\ ~usb
    BY <2>2 DEF battery_task, Powered
  <2>4. critical_low' = battery_check_critical_low
    BY <2>2, <2>3 DEF battery_task, Powered
  <2>5. voltage < SHUTDOWN_VOLTAGE_VALUE /\ critical_low = CRITICAL_LOW_COUNT /\ voltage \in Nat
    BY <2>4 DEF battery_check_critical_low
  <2>. QED
    BY <2>2, <2>3, <2>5 DEF battery_task
<1>. QED
  BY <1>1, Inductive, PTL DEF Spec, ShutdownNeedsARow

\* A critically low battery stays so until USB power comes, whatever voltage is
\* measured next.
THEOREM CriticalStays == Spec => CriticalUntilPower
<1>. DEFINE Step == battery_is_critical_low /\ ~battery_is_critical_low' => usb
<1>1. IndInv /\ [Next]_vars => [Step]_vars
  <2>. SUFFICES ASSUME IndInv, Next, battery_is_critical_low, ~battery_is_critical_low', ~usb
                PROVE  FALSE
    OBVIOUS
  <2>. USE BatteryAssumption DEF battery_is_critical_low
  <2>1. critical_low' # critical_low
    OBVIOUS
  <2>2. battery_task
    BY <2>1 DEF Next, battery_set_voltage, Tick, Link, Surroundings, counters
  <2>. QED
    BY <2>1, <2>2 DEF battery_task, battery_check_critical_low, Powered
<1>. QED
  BY <1>1, Inductive, PTL DEF Spec, CriticalUntilPower

\* The percentage the keyboard reports is right for every voltage: between 0 and
\* 100, at least 20 exactly from the empty voltage on, and monotone.
THEOREM PercentageCorrect == Spec => []PercentageOrdered
<1>1. IndInv => PercentageOrdered
  <2>. SUFFICES ASSUME voltage \in Voltages PROVE PercentageOrdered
    BY DEF IndInv, TypeOK
  <2>1. voltage \in Nat /\ \A v \in Voltages : v \in Nat
    BY BatteryAssumption
  <2>. QED
    BY <2>1, PercentageRange, PercentageMonotone DEF PercentageOrdered
<1>. QED
  BY <1>1, Inductive, PTL
============================================================================
