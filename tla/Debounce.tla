------------------------------ MODULE Debounce ------------------------------
(***************************************************************************)
(* The symmetric eager per-key debouncing of quantum/debounce/             *)
(* sym_eager_pk.c, as the Q3 Max uses it: every pass of the main loop reads *)
(* the switches into raw_matrix (common/matrix.c, quantum/matrix_common.c) *)
(* and calls debounce, which lets a key of the cooked matrix follow its    *)
(* switch at once and then ignores the switch for g_debounce ms.           *)
(* g_debounce can be set over USB at any time, and a wakeup from low power  *)
(* mode initializes the matrix anew, but not the flags of debounce.        *)
(***************************************************************************)
EXTENDS Integers

CONSTANTS Keys,
          Debounces,    \* the values g_debounce is given
          UINT8_MAX     \* the largest counter, and the largest time counted at once

ASSUME DebounceAssumption == UINT8_MAX \in Nat /\ Debounces \subseteq 0 .. UINT8_MAX

VARIABLES pins,         \* the switches: closed or not
          raw, cooked,  \* raw_matrix and matrix
          debounce_counters, counters_need_update, matrix_need_update,
          g_debounce,
          last_age,     \* ms since last_time, clamped to UINT8_MAX as elapsed_time is
          since, lock   \* history: ms since a key of the cooked matrix changed, and
                        \* the g_debounce it changed under

matrices == <<raw, cooked>>
flags    == <<counters_need_update, matrix_need_update>>
vars     == <<pins, matrices, debounce_counters, flags, g_debounce, last_age, since, lock>>

\* No counter and no time since last_time is larger: a longer time is as good.
LongAgo == 2 * UINT8_MAX
Open == [k \in Keys |-> FALSE]

-----------------------------------------------------------------------------
\* update_debounce_counters is called, and what it makes of each counter.
Updating == counters_need_update /\ last_age > 0

\* Mutant: a counter that has elapsed is decremented like any other.
CountedBelowZero(k) ==
  IF Updating /\ debounce_counters[k] # 0 THEN debounce_counters[k] - last_age
  ELSE debounce_counters[k]

Counted(k) ==
  IF ~Updating THEN debounce_counters[k]
  ELSE IF debounce_counters[k] <= last_age THEN 0 ELSE debounce_counters[k] - last_age

\* Mutant: an elapsed counter does not ask for a transfer.
ElapsedForgotten == ~Updating /\ matrix_need_update

\* matrix_need_update after it.
Elapsed ==
  IF Updating
  THEN \E k \in Keys : debounce_counters[k] # 0 /\ debounce_counters[k] <= last_age
  ELSE matrix_need_update

\* Mutant: a counter that still runs does not keep the flag set.
CountingStops == ~Updating /\ counters_need_update

\* counters_need_update after it.
Counting ==
  IF Updating THEN \E k \in Keys : debounce_counters[k] > last_age ELSE counters_need_update

\* transfer_matrix_values is called, and the keys that change in it.
Transferring == pins # raw \/ Elapsed

Accepted == {k \in Keys : Transferring /\ pins[k] # cooked[k] /\ Counted(k) = 0}

\* Mutant: last_time is only set when a matrix is transferred.
TimeReadOnTransfer == IF Transferring THEN 0 ELSE last_age

TimeRead == IF counters_need_update \/ Transferring THEN 0 ELSE last_age

\* matrix_scan.
Scan ==
  /\ raw' = pins
  /\ cooked' = [k \in Keys |-> IF k \in Accepted THEN pins[k] ELSE cooked[k]]
  /\ debounce_counters' = [k \in Keys |-> IF k \in Accepted THEN g_debounce ELSE Counted(k)]
  /\ counters_need_update' = (Counting \/ Accepted # {})
  /\ matrix_need_update' = IF Transferring THEN FALSE ELSE Elapsed
  /\ last_age' = TimeRead
  /\ since' = [k \in Keys |-> IF k \in Accepted THEN 0 ELSE since[k]]
  /\ lock' = [k \in Keys |-> IF k \in Accepted THEN g_debounce ELSE lock[k]]
  /\ UNCHANGED <<pins, g_debounce>>

-----------------------------------------------------------------------------
\* matrix_init, with no switch closed yet.
Init ==
  /\ pins = Open /\ raw = Open /\ cooked = Open
  /\ debounce_counters = [k \in Keys |-> 0]
  /\ counters_need_update = FALSE /\ matrix_need_update = FALSE
  /\ g_debounce \in Debounces
  /\ last_age = 0
  /\ since = [k \in Keys |-> LongAgo] /\ lock = [k \in Keys |-> 0]

\* A switch closes, opens or bounces.
Switch(k) ==
  /\ pins' = [pins EXCEPT ![k] = ~@]
  /\ UNCHANGED <<matrices, debounce_counters, flags, g_debounce, last_age, since, lock>>

Clock ==
  /\ last_age' = IF last_age < UINT8_MAX THEN last_age + 1 ELSE last_age
  /\ since' = [k \in Keys |-> IF since[k] < LongAgo THEN since[k] + 1 ELSE since[k]]
  /\ UNCHANGED <<pins, matrices, debounce_counters, flags, g_debounce, lock>>

\* The configuration message of the remote control layer.
SetDebounce(d) ==
  /\ g_debounce' = d
  /\ UNCHANGED <<pins, matrices, debounce_counters, flags, last_age, since, lock>>

\* lpm_task sleeps after a second without key events and with no key down;
\* lpm_wakeup calls debounce_free and matrix_init.  The system timer may have
\* been restarted, which makes last_time look old.
Wakeup ==
  /\ cooked = Open /\ \A k \in Keys : since[k] >= UINT8_MAX
  /\ raw' = Open /\ cooked' = Open
  /\ debounce_counters' = [k \in Keys |-> 0]
  /\ last_age' \in {last_age, UINT8_MAX}
  /\ UNCHANGED <<pins, flags, g_debounce, since, lock>>

Next ==
  \/ Scan \/ Clock \/ Wakeup
  \/ \E k \in Keys : Switch(k)
  \/ \E d \in Debounces : SetDebounce(d)

Spec == Init /\ [][Next]_vars

\* The main loop scans forever and the clock runs.
LiveSpec == Spec /\ WF_vars(Scan) /\ WF_vars(Clock)

-----------------------------------------------------------------------------
TypeOK ==
  /\ pins \in [Keys -> BOOLEAN] /\ raw \in [Keys -> BOOLEAN] /\ cooked \in [Keys -> BOOLEAN]
  /\ debounce_counters \in [Keys -> 0 .. UINT8_MAX]
  /\ counters_need_update \in BOOLEAN /\ matrix_need_update \in BOOLEAN
  /\ g_debounce \in Debounces /\ last_age \in 0 .. UINT8_MAX
  /\ since \in [Keys -> 0 .. LongAgo] /\ lock \in [Keys -> 0 .. UINT8_MAX]

\* "No further inputs are accepted until DEBOUNCE milliseconds have occurred":
\* two changes of a key are at least the g_debounce of the first one apart,
\* however rarely the matrix is scanned and whatever g_debounce becomes.
LockedOut == [][\A k \in Keys : cooked'[k] # cooked[k] => since[k] >= lock[k]]_vars

\* A change of a switch that was scanned but not accepted is not forgotten: a
\* counter is running that will ask for another transfer.
NothingForgotten ==
  \A k \in Keys : raw[k] # cooked[k] => debounce_counters[k] > 0 /\ counters_need_update

\* A switch that stops bouncing is eventually what the keyboard sees.
Settles ==
  \A k \in Keys, v \in BOOLEAN : <>[](pins[k] = v) => <>[](cooked[k] = v)

\* What makes LockedOut inductive: the counter of a key, as of last_time, covers
\* the rest of its lock, and runs only if the flag says so.
Covered ==
  \A k \in Keys :
    /\ debounce_counters[k] = 0 => since[k] >= lock[k]
    /\ debounce_counters[k] > 0 => /\ counters_need_update
                                   /\ since[k] + debounce_counters[k] >= lock[k] + last_age
IndInv == TypeOK /\ NothingForgotten /\ Covered
=============================================================================
