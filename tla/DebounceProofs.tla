--------------------------- MODULE DebounceProofs ---------------------------
(***************************************************************************)
(* Proofs about Debounce, for every set of keys and every range of         *)
(* debounce times.                                                         *)
(***************************************************************************)
EXTENDS Debounce, TLAPS

\* The types of the counter update, for the arithmetic of the other proofs.
LEMMA CountedType ==
  ASSUME TypeOK, NEW k \in Keys
  PROVE  /\ Counted(k) \in 0 .. UINT8_MAX
         /\ Counted(k) <= debounce_counters[k]
BY DebounceAssumption DEF TypeOK, Counted

\* A counter that has not been updated to zero is running before and after.
LEMMA CountedRuns ==
  ASSUME TypeOK, Covered, NEW k \in Keys, Counted(k) > 0
  PROVE  /\ counters_need_update /\ Counting
         /\ since[k] + Counted(k) >= lock[k] + TimeRead
<1>1. debounce_counters[k] > 0
  BY DebounceAssumption DEF TypeOK, Counted
<1>2. counters_need_update /\ since[k] + debounce_counters[k] >= lock[k] + last_age
  BY <1>1 DEF Covered
<1>3. TimeRead = 0
  BY <1>2 DEF TimeRead
<1>4. Counting
  BY <1>2, DebounceAssumption DEF Counting, Counted, TypeOK
<1>5. since[k] + Counted(k) >= lock[k] + 0
  BY <1>2, DebounceAssumption DEF TypeOK, Counted, Updating, LongAgo
<1> QED
  BY <1>2, <1>3, <1>4, <1>5

\* A key whose counter has come to zero has been locked long enough.
LEMMA CountedOut ==
  ASSUME TypeOK, Covered, NEW k \in Keys, Counted(k) = 0
  PROVE  since[k] >= lock[k]
<1>1. CASE debounce_counters[k] = 0
  BY <1>1 DEF Covered
<1>2. CASE debounce_counters[k] > 0
  <2>1. since[k] + debounce_counters[k] >= lock[k] + last_age
    BY <1>2 DEF Covered
  <2>2. debounce_counters[k] <= last_age
    BY <1>2, DebounceAssumption DEF TypeOK, Counted
  <2> QED
    BY <2>1, <2>2, DebounceAssumption DEF TypeOK, LongAgo
<1> QED
  BY <1>1, <1>2, DebounceAssumption DEF TypeOK

\* A scan keeps the types.
LEMMA ScanType ==
  ASSUME TypeOK, Scan
  PROVE  TypeOK'
<1>1. \A k \in Keys : Counted(k) \in 0 .. UINT8_MAX
  BY CountedType
<1>2. g_debounce \in 0 .. UINT8_MAX /\ UINT8_MAX \in Nat
  BY DebounceAssumption DEF TypeOK
<1>3. debounce_counters' \in [Keys -> 0 .. UINT8_MAX]
  BY <1>1, <1>2 DEF Scan
<1>4. since' \in [Keys -> 0 .. LongAgo] /\ lock' \in [Keys -> 0 .. UINT8_MAX]
  BY <1>2 DEF Scan, TypeOK, LongAgo
<1>5. pins' \in [Keys -> BOOLEAN] /\ raw' \in [Keys -> BOOLEAN] /\ cooked' \in [Keys -> BOOLEAN]
  BY DEF Scan, TypeOK
<1>6. last_age' \in 0 .. UINT8_MAX
  BY <1>2 DEF Scan, TypeOK, TimeRead
<1>7. counters_need_update' \in BOOLEAN /\ matrix_need_update' \in BOOLEAN
  BY DEF Scan, TypeOK, Counting, Elapsed, Transferring
<1>8. g_debounce' \in Debounces
  BY DEF Scan, TypeOK
<1> QED
  BY <1>3, <1>4, <1>5, <1>6, <1>7, <1>8 DEF TypeOK

\* After a scan, a key that still differs from its switch has a running counter.
LEMMA ScanForgetsNothing ==
  ASSUME IndInv, Scan
  PROVE  NothingForgotten'
<1> SUFFICES ASSUME NEW k \in Keys, raw'[k] # cooked'[k]
             PROVE  debounce_counters'[k] > 0 /\ counters_need_update'
  BY DEF NothingForgotten
<1>1. k \notin Accepted /\ cooked'[k] = cooked[k] /\ pins[k] # cooked[k]
  BY DEF Scan, IndInv, TypeOK
<1>2. Counted(k) > 0
  <2>1. CASE Transferring
    BY <1>1, <2>1, CountedType DEF Accepted, IndInv
  <2>2. CASE ~Transferring
    <3>1. pins = raw /\ ~Elapsed
      BY <2>2 DEF Transferring
    <3>2. debounce_counters[k] > 0 /\ counters_need_update
      BY <1>1, <3>1 DEF IndInv, NothingForgotten
    <3> QED
      BY <3>1, <3>2, DebounceAssumption DEF Elapsed, Counted, Updating, IndInv, TypeOK
  <2> QED
    BY <2>1, <2>2
<1>3. Counting
  BY <1>2, CountedRuns DEF IndInv
<1> QED
  BY <1>1, <1>2, <1>3 DEF Scan

\* After a scan every running counter still covers the rest of its lock.
LEMMA ScanCovers ==
  ASSUME IndInv, Scan
  PROVE  Covered'
<1> SUFFICES ASSUME NEW k \in Keys
             PROVE  /\ debounce_counters'[k] = 0 => since'[k] >= lock'[k]
                    /\ debounce_counters'[k] > 0 =>
                         /\ counters_need_update'
                         /\ since'[k] + debounce_counters'[k] >= lock'[k] + last_age'
  BY DEF Covered
<1>1. CASE k \in Accepted
  <2>1. debounce_counters'[k] = g_debounce /\ since'[k] = 0 /\ lock'[k] = g_debounce
    BY <1>1 DEF Scan
  <2>2. Transferring
    BY <1>1 DEF Accepted
  <2>3. last_age' = 0 /\ counters_need_update'
    BY <1>1, <2>2 DEF Scan, TimeRead
  <2>4. g_debounce \in Nat
    BY DebounceAssumption DEF IndInv, TypeOK
  <2> QED
    BY <2>1, <2>3, <2>4
<1>2. CASE k \notin Accepted
  <2>1. debounce_counters'[k] = Counted(k) /\ since'[k] = since[k] /\ lock'[k] = lock[k]
    BY <1>2 DEF Scan
  <2>2. ASSUME Counted(k) = 0 PROVE since[k] >= lock[k]
    BY <2>2, CountedOut DEF IndInv
  <2>3. ASSUME Counted(k) > 0
        PROVE  counters_need_update' /\ since[k] + Counted(k) >= lock[k] + last_age'
    BY <2>3, CountedRuns DEF IndInv, Scan
  <2> QED
    BY <2>1, <2>2, <2>3
<1> QED
  BY <1>1, <1>2

\* The clock ages a lock and the time since last_time together.
LEMMA ClockKeeps ==
  ASSUME IndInv, Clock
  PROVE  IndInv'
<1>1. TypeOK'
  BY DebounceAssumption DEF IndInv, TypeOK, Clock, matrices, flags, LongAgo
<1>2. NothingForgotten'
  BY DEF IndInv, NothingForgotten, Clock, matrices, flags
<1>3. Covered'
  <2> SUFFICES ASSUME NEW k \in Keys
               PROVE  /\ debounce_counters[k] = 0 => since'[k] >= lock[k]
                      /\ debounce_counters[k] > 0 =>
                           /\ counters_need_update
                           /\ since'[k] + debounce_counters[k] >= lock[k] + last_age'
    BY DEF Covered, Clock, flags
  <2>1. /\ since[k] \in 0 .. 2 * UINT8_MAX /\ lock[k] \in 0 .. UINT8_MAX
        /\ debounce_counters[k] \in 0 .. UINT8_MAX /\ last_age \in 0 .. UINT8_MAX
        /\ UINT8_MAX \in Nat
    BY DebounceAssumption DEF IndInv, TypeOK, LongAgo
  <2>2. since'[k] = IF since[k] < 2 * UINT8_MAX THEN since[k] + 1 ELSE since[k]
    BY DEF Clock, LongAgo
  <2>3. last_age' = IF last_age < UINT8_MAX THEN last_age + 1 ELSE last_age
    BY DEF Clock
  <2>4. /\ debounce_counters[k] = 0 => since[k] >= lock[k]
        /\ debounce_counters[k] > 0 => /\ counters_need_update
                                       /\ since[k] + debounce_counters[k] >= lock[k] + last_age
    BY DEF IndInv, Covered
  <2> QED
    BY <2>1, <2>2, <2>3, <2>4
<1> QED
  BY <1>1, <1>2, <1>3 DEF IndInv

\* A wakeup stops every counter, which nothing depends on after the long pause.
LEMMA WakeupKeeps ==
  ASSUME IndInv, Wakeup
  PROVE  IndInv'
<1>1. TypeOK'
  BY DebounceAssumption DEF IndInv, TypeOK, Wakeup, Open, flags
<1>2. NothingForgotten'
  BY DEF NothingForgotten, Wakeup
<1>3. Covered'
  <2>1. \A k \in Keys : since[k] >= UINT8_MAX /\ lock[k] <= UINT8_MAX
    BY DebounceAssumption DEF Wakeup, IndInv, TypeOK
  <2>2. \A k \in Keys : since[k] \in Int /\ lock[k] \in Int
    BY DebounceAssumption DEF IndInv, TypeOK, LongAgo
  <2>3. \A k \in Keys : debounce_counters'[k] = 0 /\ since'[k] = since[k] /\ lock'[k] = lock[k]
    BY DEF Wakeup
  <2> QED
    BY <2>1, <2>2, <2>3, DebounceAssumption DEF Covered
<1> QED
  BY <1>1, <1>2, <1>3 DEF IndInv

-----------------------------------------------------------------------------
\* The inductive invariant holds in every reachable state of the debouncing.
THEOREM Inductive == Spec => []IndInv
<1>1. Init => IndInv
  <2> SUFFICES ASSUME Init
               PROVE  IndInv
    OBVIOUS
  <2>1. UINT8_MAX \in Nat /\ 0 \in 0 .. UINT8_MAX /\ 2 * UINT8_MAX \in 0 .. 2 * UINT8_MAX
    BY DebounceAssumption
  <2>2. NothingForgotten
    BY DEF Init, NothingForgotten
  <2>3. \A k \in Keys : debounce_counters[k] = 0 /\ lock[k] = 0 /\ since[k] = 2 * UINT8_MAX
    BY DEF Init, LongAgo
  <2>4. Covered
    <3>1. 2 * UINT8_MAX >= 0 /\ ~(0 > 0)
      BY <2>1
    <3> QED
      BY <2>3, <3>1 DEF Covered
  <2>5. TypeOK
    BY <2>1 DEF Init, TypeOK, Open, LongAgo
  <2> QED
    BY <2>2, <2>4, <2>5 DEF IndInv
<1>2. IndInv /\ [Next]_vars => IndInv'
  <2> SUFFICES ASSUME IndInv, [Next]_vars
               PROVE  IndInv'
    OBVIOUS
  <2>1. CASE Scan
    BY <2>1, ScanType, ScanForgetsNothing, ScanCovers DEF IndInv
  <2>2. CASE Clock
    BY <2>2, ClockKeeps
  <2>3. CASE Wakeup
    BY <2>3, WakeupKeeps
  <2>4. ASSUME NEW k \in Keys, Switch(k)
        PROVE  IndInv'
    BY <2>4 DEF Switch, IndInv, TypeOK, NothingForgotten, Covered, matrices, flags
  <2>5. ASSUME NEW d \in Debounces, SetDebounce(d)
        PROVE  IndInv'
    BY <2>5 DEF SetDebounce, IndInv, TypeOK, NothingForgotten, Covered, matrices, flags
  <2>6. CASE UNCHANGED vars
    BY <2>6 DEF vars, IndInv, TypeOK, NothingForgotten, Covered, matrices, flags
  <2> QED
    BY <2>1, <2>2, <2>3, <2>4, <2>5, <2>6 DEF Next
<1> QED
  BY <1>1, <1>2, PTL DEF Spec

\* Every variable of the debouncing keeps its type: no counter underflows.
THEOREM TypeCorrect == Spec => []TypeOK
<1>1. IndInv => TypeOK
  BY DEF IndInv
<1> QED
  BY <1>1, Inductive, PTL

\* No scanned change of a switch is forgotten.
THEOREM ForgetsNothing == Spec => []NothingForgotten
<1>1. IndInv => NothingForgotten
  BY DEF IndInv
<1> QED
  BY <1>1, Inductive, PTL

\* A key never changes before its debounce time is over.
THEOREM Debounced == Spec => LockedOut
<1>1. IndInv /\ [Next]_vars
        => [\A k \in Keys : cooked'[k] # cooked[k] => since[k] >= lock[k]]_vars
  <2> SUFFICES ASSUME IndInv, Next, NEW k \in Keys, cooked'[k] # cooked[k]
               PROVE  since[k] >= lock[k]
    OBVIOUS
  <2>1. CASE Scan
    <3>1. k \in Accepted
      BY <2>1 DEF Scan
    <3>2. Counted(k) = 0
      BY <3>1 DEF Accepted
    <3> QED
      BY <3>2, CountedOut DEF IndInv
  <2>2. CASE Clock \/ Wakeup \/ (\E j \in Keys : Switch(j)) \/ (\E d \in Debounces : SetDebounce(d))
    <3>1. cooked' = cooked
      BY <2>2 DEF Clock, Wakeup, Switch, SetDebounce, matrices, Open
    <3> QED
      BY <3>1
  <2> QED
    BY <2>1, <2>2 DEF Next
<1> QED
  BY <1>1, Inductive, PTL DEF Spec, LockedOut
=============================================================================
