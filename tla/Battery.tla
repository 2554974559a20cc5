------------------------------- MODULE Battery -------------------------------
(***************************************************************************)
(* Battery monitoring (battery.c): the measurements asked of the radio      *)
(* module, the two counters of low measurements, the shutdown of the link   *)
(* and the percentage that is reported.                                     *)
(*                                                                          *)
(* battery_task first judges the voltage of the measurement before, then    *)
(* asks for a new one; the answer comes in with a later event of the module *)
(* or not at all.  Time is in units of the short interval.                  *)
(***************************************************************************)
EXTENDS Integers

CONSTANTS Voltages,               \* what a measurement may bring
          FULL_VOLTAGE_VALUE, EMPTY_VOLTAGE_VALUE, SHUTDOWN_VOLTAGE_VALUE,
          BATTERY_EMPTY_COUNT, CRITICAL_LOW_COUNT,          \* 10, 20
          VOLTAGE_POWER_ON_MEASURE_COUNT,                   \* 15
          VOLTAGE_MEASURE_INTERVAL,                         \* 3000 ms
          BACKLIGHT_OFF_VOLTAGE_MEASURE_INTERVAL            \* 200 ms

ASSUME BatteryAssumption ==
  /\ Voltages \subseteq Nat /\ FULL_VOLTAGE_VALUE \in Voltages
  /\ SHUTDOWN_VOLTAGE_VALUE \in Nat
  /\ EMPTY_VOLTAGE_VALUE \in Nat /\ FULL_VOLTAGE_VALUE \in Nat
  /\ SHUTDOWN_VOLTAGE_VALUE < EMPTY_VOLTAGE_VALUE
  /\ EMPTY_VOLTAGE_VALUE < FULL_VOLTAGE_VALUE
  /\ BATTERY_EMPTY_COUNT \in Nat /\ CRITICAL_LOW_COUNT \in Nat
  /\ VOLTAGE_POWER_ON_MEASURE_COUNT \in Nat
  /\ BACKLIGHT_OFF_VOLTAGE_MEASURE_INTERVAL \in Nat
  /\ VOLTAGE_MEASURE_INTERVAL \in Nat
  /\ BACKLIGHT_OFF_VOLTAGE_MEASURE_INTERVAL < VOLTAGE_MEASURE_INTERVAL

VARIABLES voltage, bat_empty, critical_low, power_on_sample,
          age,            \* rtc_timer_elapsed_ms(bat_monitor_timer_buffer)
          connected,      \* wireless_get_state() == WT_CONNECTED
          wireless,       \* get_transport() & TRANSPORT_WIRELESS
          usb,            \* usb_power_connected()
          backlight,      \* indicator_is_enabled()
          asked,          \* a measurement was asked for
          lows            \* history: judgements in a row that found the battery
                          \* below the shutdown voltage, without USB power

counters == <<bat_empty, critical_low, power_on_sample>>
world    == <<connected, wireless, usb, backlight>>
vars     == <<voltage, counters, age, world, asked, lows>>

-----------------------------------------------------------------------------
\* Mutant: the part above empty starts at zero.
PercentageFromZero(v) ==
  IF v > FULL_VOLTAGE_VALUE THEN 100
  ELSE IF v > EMPTY_VOLTAGE_VALUE
  THEN ((v - EMPTY_VOLTAGE_VALUE) * 80) \div (FULL_VOLTAGE_VALUE - EMPTY_VOLTAGE_VALUE)
  ELSE IF v > SHUTDOWN_VOLTAGE_VALUE
  THEN ((v - SHUTDOWN_VOLTAGE_VALUE) * 20) \div (EMPTY_VOLTAGE_VALUE - SHUTDOWN_VOLTAGE_VALUE)
  ELSE 0
battery_get_percentage(v) ==
  IF v > FULL_VOLTAGE_VALUE THEN 100
  ELSE IF v > EMPTY_VOLTAGE_VALUE
  THEN ((v - EMPTY_VOLTAGE_VALUE) * 80) \div (FULL_VOLTAGE_VALUE - EMPTY_VOLTAGE_VALUE) + 20
  ELSE IF v > SHUTDOWN_VOLTAGE_VALUE
  THEN ((v - SHUTDOWN_VOLTAGE_VALUE) * 20) \div (EMPTY_VOLTAGE_VALUE - SHUTDOWN_VOLTAGE_VALUE)
  ELSE 0

battery_is_empty        == bat_empty > BATTERY_EMPTY_COUNT
battery_is_critical_low == critical_low > CRITICAL_LOW_COUNT
battery_power_on_sample == power_on_sample < VOLTAGE_POWER_ON_MEASURE_COUNT

battery_check_empty ==
  IF voltage < EMPTY_VOLTAGE_VALUE /\ ~battery_is_empty THEN bat_empty + 1 ELSE bat_empty

\* Mutants: a good measurement does not start the count again; a good
\* measurement after the shutdown takes it back.
CriticalKeepsCount ==
  IF voltage < SHUTDOWN_VOLTAGE_VALUE /\ ~battery_is_critical_low THEN critical_low + 1
  ELSE critical_low
CriticalRecovers ==
  IF voltage < SHUTDOWN_VOLTAGE_VALUE
  THEN IF battery_is_critical_low THEN critical_low ELSE critical_low + 1
  ELSE 0
battery_check_critical_low ==
  IF battery_is_critical_low THEN critical_low
  ELSE IF voltage < SHUTDOWN_VOLTAGE_VALUE THEN critical_low + 1 ELSE 0

\* Mutant: with the backlight on nothing is measured.
DueInTheDark ==
  /\ wireless /\ (connected \/ battery_power_on_sample) /\ ~backlight
  /\ \/ battery_power_on_sample /\ age > BACKLIGHT_OFF_VOLTAGE_MEASURE_INTERVAL
     \/ age > VOLTAGE_MEASURE_INTERVAL
MeasureDue ==
  /\ wireless /\ (connected \/ battery_power_on_sample)
  /\ \/ battery_power_on_sample /\ ~backlight /\ age > BACKLIGHT_OFF_VOLTAGE_MEASURE_INTERVAL
     \/ age > VOLTAGE_MEASURE_INTERVAL

\* The counters are cleared by USB power at the end of the task.
Powered(count) == IF usb THEN 0 ELSE count

battery_task ==
  \/ /\ MeasureDue
     /\ LET empty == battery_check_empty
            critical == battery_check_critical_low
        IN  /\ bat_empty' = Powered(empty) /\ critical_low' = Powered(critical)
            /\ power_on_sample' =
                 IF (empty > BATTERY_EMPTY_COUNT /\ ~battery_is_empty)
                    \/ ~battery_power_on_sample
                 THEN VOLTAGE_POWER_ON_MEASURE_COUNT ELSE power_on_sample + 1
     /\ age' = 0 /\ asked' = TRUE
     /\ lows' = IF usb \/ voltage >= SHUTDOWN_VOLTAGE_VALUE THEN 0
                ELSE IF lows > CRITICAL_LOW_COUNT THEN lows ELSE lows + 1
     /\ UNCHANGED <<voltage, world>>
  \/ /\ ~MeasureDue /\ (bat_empty # 0 \/ critical_low # 0) /\ usb
     /\ bat_empty' = 0 /\ critical_low' = 0 /\ lows' = 0
     /\ UNCHANGED <<voltage, power_on_sample, age, world, asked>>

-----------------------------------------------------------------------------
\* battery_calculate_voltage, from the battery event of the module.
battery_set_voltage ==
  /\ asked /\ asked' = FALSE
  /\ voltage' \in Voltages
  /\ UNCHANGED <<counters, age, world, lows>>

Tick ==
  /\ age <= VOLTAGE_MEASURE_INTERVAL
  /\ age' = age + 1
  /\ UNCHANGED <<voltage, counters, world, asked, lows>>

\* The link is lost, wireless_low_battery_shutdown included, or made; it is not
\* made with a battery that is critically low.
Link ==
  /\ connected' = ~connected /\ (connected' => ~battery_is_critical_low)
  /\ UNCHANGED <<voltage, counters, age, wireless, usb, backlight, asked, lows>>

\* set_transport, the USB plug and the backlight.
Surroundings ==
  /\ \/ wireless' = ~wireless /\ UNCHANGED <<usb, backlight>>
     \/ usb' = ~usb /\ UNCHANGED <<wireless, backlight>>
     \/ backlight' = ~backlight /\ UNCHANGED <<wireless, usb>>
  /\ UNCHANGED <<voltage, counters, age, connected, asked, lows>>

Init ==
  /\ voltage = FULL_VOLTAGE_VALUE
  /\ bat_empty = 0 /\ critical_low = 0 /\ power_on_sample = 0
  /\ age = 0 /\ connected = FALSE /\ asked = FALSE /\ lows = 0
  /\ wireless \in BOOLEAN /\ usb \in BOOLEAN /\ backlight \in BOOLEAN

Next == battery_task \/ battery_set_voltage \/ Tick \/ Link \/ Surroundings

Spec == Init /\ [][Next]_vars

\* The main loop runs the task, time passes, and the module answers.
FairSpec == Spec /\ WF_vars(battery_task) /\ WF_vars(Tick) /\ WF_vars(battery_set_voltage)

-----------------------------------------------------------------------------
TypeOK ==
  /\ voltage \in Voltages
  /\ bat_empty \in 0 .. BATTERY_EMPTY_COUNT + 1
  /\ critical_low \in 0 .. CRITICAL_LOW_COUNT + 1
  /\ power_on_sample \in 0 .. VOLTAGE_POWER_ON_MEASURE_COUNT
  /\ age \in 0 .. VOLTAGE_MEASURE_INTERVAL + 1
  /\ {connected, wireless, usb, backlight, asked} \subseteq BOOLEAN
  /\ lows \in 0 .. CRITICAL_LOW_COUNT + 1

\* The link is only shut down for a battery that was found too low time after
\* time: CRITICAL_LOW_COUNT + 1 judgements in a row since the last good one and
\* since USB power was last seen.  A dip that a good measurement follows in time never
\* does it; one whose next measurement stays unanswered is judged again and may.
ShutdownNeedsARow ==
  [][~battery_is_critical_low /\ battery_is_critical_low' => lows' = CRITICAL_LOW_COUNT + 1]_vars

\* Once critically low the keyboard stays so, and refuses to connect, until USB
\* power comes; the voltage that recovers without load does not start it again.
CriticalUntilPower ==
  [][battery_is_critical_low /\ ~battery_is_critical_low' => usb]_vars

\* A battery that stays too low while the link is up does end in a shutdown.
LowEndsInShutdown ==
  <>[](wireless /\ connected /\ ~usb /\ voltage < SHUTDOWN_VOLTAGE_VALUE)
    => <>[]battery_is_critical_low

\* The percentage never rises as the voltage falls, is at least 20 exactly from
\* the voltage of an empty battery on, and stays below 101.
PercentageOrdered ==
  /\ battery_get_percentage(voltage) \in 0 .. 100
  /\ battery_get_percentage(voltage) >= 20 <=> voltage >= EMPTY_VOLTAGE_VALUE
  /\ \A v \in Voltages : v <= voltage =>
       battery_get_percentage(v) <= battery_get_percentage(voltage)
=============================================================================
