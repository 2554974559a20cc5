------------------------ MODULE DeferredExecProofs ------------------------
(***************************************************************************)
(* Proofs about deferred_exec.c for every number of slots, tokens and      *)
(* clients, as long as no callback cancels the executor it runs for.       *)
(***************************************************************************)
EXTENDS DeferredExec, TLAPS

Types ==
  /\ token \in [Slot -> Token] /\ callback \in [Slot -> Client \cup {None}]
  /\ current_token \in Token /\ held \in [Client -> Token]
  /\ slot \in Slot

\* Every entry belongs to the client whose callback it has, which holds its
\* token; every client that holds a token has an entry; no two entries share one.
Entries == \A i \in Slot : token[i] # 0 => callback[i] \in Client /\ held[callback[i]] = token[i]
Holders == \A c \in Client : held[c] # 0 => \E i \in Slot : token[i] = held[c] /\ callback[i] = c
Distinct == \A i, j \in Slot : i # j /\ token[i] # 0 => token[i] # token[j]

\* While a callback runs, the entry the scan is at is still its own.
Running == pc = "callback" => /\ running \in Client /\ running = callback[slot]
                              /\ ran = token[slot] /\ ran # 0

IndInv == Types /\ Entries /\ Holders /\ Distinct /\ Running

-----------------------------------------------------------------------------
\* The pairs of the table are those of the clients.
LEMMA ImpliesRegistered == IndInv => RegisteredExactly
<1>. SUFFICES ASSUME IndInv PROVE RegisteredExactly
  OBVIOUS
<1>. DEFINE T == {<<callback[i], token[i]>> : i \in {j \in Slot : token[j] # 0}}
            H == {<<c, held[c]>> : c \in {b \in Client : held[b] # 0}}
<1>1. ASSUME NEW x \in T PROVE x \in H
  <2>1. PICK i \in Slot : token[i] # 0 /\ x = <<callback[i], token[i]>>
    BY <1>1
  <2>2. callback[i] \in Client /\ held[callback[i]] = token[i]
    BY <2>1 DEF IndInv, Entries
  <2>. QED
    BY <2>1, <2>2
<1>2. ASSUME NEW x \in H PROVE x \in T
  <2>1. PICK c \in Client : held[c] # 0 /\ x = <<c, held[c]>>
    BY <1>2
  <2>2. PICK i \in Slot : token[i] = held[c] /\ callback[i] = c
    BY <2>1 DEF IndInv, Holders
  <2>. QED
    BY <2>1, <2>2
<1>3. T = H
  BY <1>1, <1>2
<1>. QED
  BY <1>3 DEF RegisteredExactly, IndInv, Distinct

LEMMA InitHolds == Init => IndInv
<1>. SUFFICES ASSUME Init PROVE IndInv
  OBVIOUS
<1>1. 1 \in Slot /\ 0 \in Token
  BY DeferredExecAssumption DEF Slot, Token
<1>2. Types
  BY <1>1 DEF Init, Types
<1>. QED
  BY <1>2 DEF Init, IndInv, Entries, Holders, Distinct, Running

\* The scan moves on to a slot of the table.
LEMMA LeaveHolds ==
  ASSUME NEW i \in Slot, Leave(i)
  PROVE  slot' \in Slot /\ pc' # "callback"
BY DeferredExecAssumption DEF Leave, Slot

\* A token that allocate_token hands out is one, and no entry has it.
LEMMA TokenFree ==
  ASSUME Types, NEW k \in 1 .. TokenMod, FirstUsable(k)
  PROVE  LET t == (current_token + k) % TokenMod
         IN  t \in Token /\ t # 0 /\ \A i \in Slot : token[i] # t
<1>1. (current_token + k) % TokenMod \in Token
  BY DeferredExecAssumption DEF Types, Token
<1>. QED
  BY <1>1 DEF FirstUsable, token_can_be_used

LEMMA DeferHolds ==
  ASSUME IndInv, NEW c \in Client, NEW d \in Delays, defer_exec(c, d)
  PROVE  IndInv'
<1>1. CASE \A i \in Slot : token[i] # 0 /\ UNCHANGED <<table, held, due>>
  BY <1>1 DEF defer_exec, table, scan, IndInv, Types, Entries, Holders, Distinct, Running
<1>2. ASSUME NEW i \in Slot, NEW k \in 1 .. TokenMod,
             FirstFree(i), FirstUsable(k),
             current_token' = (current_token + k) % TokenMod,
             token' = [token EXCEPT ![i] = current_token'],
             callback' = [callback EXCEPT ![i] = c],
             held' = [held EXCEPT ![c] = current_token']
      PROVE  IndInv'
  <2>. DEFINE t == current_token'
  <2>1. t \in Token /\ t # 0 /\ \A j \in Slot : token[j] # t
    BY <1>2, TokenFree DEF IndInv
  <2>2. UNCHANGED <<pc, slot, running, ran>> /\ held[c] = 0 /\ token[i] = 0
    BY <1>2 DEF defer_exec, scan, FirstFree
  <2>3. /\ token' = [token EXCEPT ![i] = t] /\ callback' = [callback EXCEPT ![i] = c]
        /\ held' = [held EXCEPT ![c] = t]
    BY <1>2
  <2>. HIDE DEF t
  <2>. USE DEF IndInv, Types
  <2>4. Types'
    BY <2>1, <2>2, <2>3, <1>2 DEF t
  <2>5. Entries'
    BY <2>1, <2>2, <2>3 DEF Entries
  <2>6. Holders'
    <3>. SUFFICES ASSUME NEW b \in Client, held'[b] # 0
                  PROVE  \E j \in Slot : token'[j] = held'[b] /\ callback'[j] = b
      BY DEF Holders
    <3>1. CASE b = c
      BY <3>1, <2>1, <2>3
    <3>2. CASE b # c
      <4>1. PICK j \in Slot : token[j] = held[b] /\ callback[j] = b
        BY <3>2, <2>3 DEF Holders
      <4>2. j # i
        BY <4>1, <3>2, <2>2, <2>3
      <4>. QED
        BY <4>1, <4>2, <3>2, <2>3
    <3>. QED
      BY <3>1, <3>2
  <2>7. Distinct'
    BY <2>1, <2>2, <2>3 DEF Distinct
  <2>8. Running'
    BY <2>1, <2>2, <2>3 DEF Running
  <2>. QED
    BY <2>4, <2>5, <2>6, <2>7, <2>8
<1>. QED
  BY <1>1, <1>2 DEF defer_exec

\* Clearing the entry of a client that gives up its token leaves the others.
LEMMA ClearHolds ==
  ASSUME Types, Entries, Holders, Distinct,
         NEW i \in Slot, NEW c \in Client, Cleared(i),
         token[i] = held[c], held[c] # 0, held' = [held EXCEPT ![c] = 0],
         UNCHANGED current_token, slot' \in Slot
  PROVE  Types' /\ Entries' /\ Holders' /\ Distinct'
<1>. USE DEF Types, Cleared
<1>0. 0 \in Token
  BY DeferredExecAssumption DEF Token
<1>1. Types'
  BY <1>0
<1>2. callback[i] = c
  BY DEF Entries, Holders, Distinct
<1>3. Entries'
  BY <1>2 DEF Entries, Distinct
<1>4. Holders'
  <2>. SUFFICES ASSUME NEW b \in Client, held'[b] # 0
                PROVE  \E j \in Slot : token'[j] = held'[b] /\ callback'[j] = b
    BY DEF Holders
  <2>1. b # c /\ held'[b] = held[b]
    OBVIOUS
  <2>2. PICK j \in Slot : token[j] = held[b] /\ callback[j] = b
    BY <2>1 DEF Holders
  <2>3. j # i
    BY <2>1, <2>2, <1>2
  <2>. QED
    BY <2>1, <2>2, <2>3
<1>5. Distinct'
  BY DEF Distinct
<1>. QED
  BY <1>1, <1>3, <1>4, <1>5

LEMMA CancelHolds ==
  ASSUME IndInv, ~CancelSelf, NEW c \in Client, cancel_deferred_exec(c)
  PROVE  IndInv'
<1>1. PICK i \in Slot : token[i] = held[c] /\ Cleared(i)
  BY DEF cancel_deferred_exec
<1>2. /\ held[c] # 0 /\ held' = [held EXCEPT ![c] = 0]
      /\ UNCHANGED <<current_token, pc, slot, running, ran>>
      /\ ~(pc = "callback" /\ c = running)
  BY DEF cancel_deferred_exec, scan
<1>3. slot' \in Slot
  BY <1>2 DEF IndInv, Types
<1>4. Types' /\ Entries' /\ Holders' /\ Distinct'
  BY <1>1, <1>2, <1>3, ClearHolds DEF IndInv
<1>5. Running'
  <2>. SUFFICES ASSUME pc = "callback" PROVE Running'
    BY <1>2 DEF Running
  <2>1. callback[i] = c
    BY <1>1, <1>2 DEF IndInv, Entries, Holders, Distinct
  <2>2. running # c /\ running = callback[slot] /\ slot \in Slot
    BY <1>2 DEF IndInv, Running, Types
  <2>3. i # slot
    BY <2>1, <2>2
  <2>. QED
    BY <1>1, <1>2, <2>2, <2>3 DEF IndInv, Running, Cleared, Types
<1>. QED
  BY <1>4, <1>5 DEF IndInv

LEMMA UnregisterHolds ==
  ASSUME IndInv, Unregister
  PROVE  IndInv'
<1>1. /\ running \in Client /\ running = callback[slot] /\ ran = token[slot] /\ ran # 0
      /\ slot \in Slot
  BY DEF Unregister, IndInv, Running, Types
<1>2. held[running] = ran
  BY <1>1 DEF IndInv, Entries
<1>3. held' = [held EXCEPT ![running] = 0] /\ Cleared(slot) /\ UNCHANGED current_token
  BY <1>2 DEF Unregister
<1>4. slot' \in Slot /\ pc' # "callback"
  BY <1>1, LeaveHolds DEF Unregister
<1>5. Types' /\ Entries' /\ Holders' /\ Distinct'
  BY <1>1, <1>2, <1>3, <1>4, ClearHolds DEF IndInv
<1>. QED
  BY <1>4, <1>5 DEF IndInv, Running

\* One step per action.
LEMMA StepHolds == ~CancelSelf /\ IndInv /\ [Next]_vars => IndInv'
<1>. SUFFICES ASSUME ~CancelSelf, IndInv, [Next]_vars PROVE IndInv'
  OBVIOUS
<1>. DEFINE Same == UNCHANGED <<token, callback, current_token, held>>
<1>1. ASSUME Same, slot' \in Slot, Running' PROVE IndInv'
  BY <1>1 DEF IndInv, Types, Entries, Holders, Distinct
<1>2. slot \in Slot
  BY DEF IndInv, Types
<1>3. CASE Call
  <2>1. ASSUME NEW c \in Client, NEW d \in Delays, extend_deferred_exec(c, d) PROVE IndInv'
    <3>1. Same /\ UNCHANGED <<pc, slot, running, ran>>
      BY <2>1 DEF extend_deferred_exec, scan
    <3>. QED
      BY <3>1, <1>1, <1>2 DEF IndInv, Running
  <2>. QED
    BY <1>3, <2>1, CancelHolds, DeferHolds DEF Call
<1>4. CASE deferred_exec_task
  <2>1. Same /\ slot' = 1 /\ pc' = "scan"
    BY <1>4 DEF deferred_exec_task, table
  <2>. QED
    BY <2>1, <1>1, DeferredExecAssumption DEF Running, Slot
<1>5. CASE SkipEntry
  <2>1. Same /\ slot' \in Slot /\ pc' # "callback"
    BY <1>5, <1>2, LeaveHolds DEF SkipEntry, table
  <2>. QED
    BY <2>1, <1>1 DEF Running
<1>6. CASE EnterCallback
  <2>1. Same /\ slot' = slot /\ token[slot] # 0 /\ running' = callback[slot] /\ ran' = token[slot]
    BY <1>6 DEF EnterCallback, table, IsDue
  <2>2. callback[slot] \in Client
    BY <2>1, <1>2 DEF IndInv, Entries
  <2>. QED
    BY <2>1, <2>2, <1>1, <1>2 DEF Running
<1>7. ASSUME NEW d \in Delays, Repeat(d) PROVE IndInv'
  <2>1. Same /\ slot' \in Slot /\ pc' # "callback"
    BY <1>7, <1>2, LeaveHolds DEF Repeat
  <2>. QED
    BY <2>1, <1>1 DEF Running
<1>8. CASE Unregister
  BY <1>8, UnregisterHolds
<1>9. CASE Tick \/ UNCHANGED vars
  <2>1. Same /\ UNCHANGED <<pc, slot, running, ran>>
    BY <1>9 DEF Tick, vars, table, scan
  <2>. QED
    BY <2>1, <1>1, <1>2 DEF IndInv, Running
<1>. QED
  BY <1>3, <1>4, <1>5, <1>6, <1>7, <1>8, <1>9 DEF Next

LEMMA Owned == ~CancelSelf => (Spec => []IndInv)
<1>. SUFFICES ASSUME ~CancelSelf PROVE Spec => []IndInv
  OBVIOUS
<1>1. IndInv /\ [Next]_vars => IndInv'
  BY StepHolds
<1>. QED
  BY <1>1, InitHolds, PTL DEF Spec

\* The table of deferred_exec.c is what its clients registered, whatever their
\* callbacks defer, extend and cancel while it is scanned, for every number of
\* slots and however often the tokens wrap, unless a callback cancels itself.
THEOREM TableIsRegistry == ~CancelSelf => (Spec => []RegisteredExactly)
BY Owned, ImpliesRegistered, PTL

-----------------------------------------------------------------------------
(* Time.  Half the range of the timer is far more than any delay and stall. *)

Half == TimerMod \div 2

\* The client of entry i expects its call d ms from now.  An entry the scan has
\* passed, or that no scan has reached, is not due at the time the last scan
\* began; one the scan has yet to look at is at most a stall late by then.
Timed(i) ==
  LET d == due[callback[i]]
  IN  /\ trigger[i] = (clock + d) % TimerMod
      /\ d + since > (IF pc # "idle" /\ i >= slot THEN -Stall ELSE 0)
      /\ d + 2 * Stall < Half

Timing == \A i \in Slot : token[i] # 0 => Timed(i)

Clocks == /\ clock \in Time /\ now \in Time /\ since \in 0 .. Stall
          /\ clock = (now + since) % TimerMod
          /\ due \in [Client -> Int] /\ trigger \in [Slot -> Int]
          /\ pc \in {"idle", "scan", "callback"}

\* A callback that extends itself and returns a delay stays within half the timer.
Small == pc = "callback" => \A d \in Delays : due[running] + d + 2 * Stall < Half

TimeInv == IndInv /\ Clocks /\ Timing /\ Small

LEMMA Room ==
  /\ Stall \in Nat \ {0} /\ TimerMod \in Nat /\ TimerMod > 0
  /\ Half \in Nat /\ TimerMod = 2 * Half /\ 2 * Stall < Half
  /\ \A d \in Delays : d \in Nat /\ 2 * Stall <= d /\ 2 * (d + Stall) < Half
<1>1. PICK d \in Delays : TRUE
  BY DeferredExecAssumption
<1>2. TimerMod \in Nat /\ TimerMod % 2 = 0 /\ Stall \in Nat \ {0} /\ d \in Nat
  BY <1>1, DeferredExecAssumption
<1>3. 2 * (d + Stall) < TimerMod \div 2
  BY <1>1, DeferredExecAssumption
<1>4. Half \in Nat /\ TimerMod = 2 * Half
  BY <1>2 DEF Half
<1>. QED
  BY <1>2, <1>3, <1>4, DeferredExecAssumption DEF Half

\* What % does near the range of the timer.
LEMMA ModCases ==
  ASSUME NEW x \in Int, -TimerMod <= x, x < 2 * TimerMod
  PROVE  x % TimerMod = IF x < 0 THEN x + TimerMod
                        ELSE IF x >= TimerMod THEN x - TimerMod ELSE x
BY Room, Z3

\* The signed difference of a wrapped time is the true one.
LEMMA DiffIsTrue ==
  ASSUME NEW n \in Time, NEW x \in Int, -Half <= x, x < Half
  PROVE  TIMER_DIFF_32((n + x) % TimerMod, n) = x
<1>1. n \in Nat /\ n < TimerMod
  BY Room DEF Time
<1>. DEFINE a == (n + x) % TimerMod
<1>2. a = IF n + x < 0 THEN n + x + TimerMod
          ELSE IF n + x >= TimerMod THEN n + x - TimerMod ELSE n + x
  BY <1>1, Room, ModCases
<1>. HIDE DEF a
<1>3. a \in Int /\ -TimerMod <= a - n /\ a - n < 2 * TimerMod
  BY <1>1, <1>2, Room
<1>4. (a - n) % TimerMod = IF a - n < 0 THEN a - n + TimerMod
                           ELSE IF a - n >= TimerMod THEN a - n - TimerMod ELSE a - n
  BY <1>1, <1>3, ModCases
<1>5. (a - n) % TimerMod = IF x < 0 THEN x + TimerMod ELSE x
  BY <1>1, <1>2, <1>4, Room
<1>6. TIMER_DIFF_32(a, n) = x
  BY <1>5, Room DEF TIMER_DIFF_32, Half
<1>. QED
  BY <1>6 DEF a

\* Shifting a wrapped time and wrapping again wraps once.
LEMMA ModTwice ==
  ASSUME NEW n \in Time, NEW x \in Int, NEW y \in Int,
         -Half <= x, x < Half, -Half <= y, y < Half, -Half <= x + y, x + y < Half
  PROVE  (((n + x) % TimerMod) + y) % TimerMod = (n + (x + y)) % TimerMod
<1>1. n \in Nat /\ n < TimerMod
  BY Room DEF Time
<1>. DEFINE a == (n + x) % TimerMod
<1>2. a = IF n + x < 0 THEN n + x + TimerMod
          ELSE IF n + x >= TimerMod THEN n + x - TimerMod ELSE n + x
  BY <1>1, Room, ModCases
<1>. HIDE DEF a
<1>3. (a + y) % TimerMod = IF a + y < 0 THEN a + y + TimerMod
                           ELSE IF a + y >= TimerMod THEN a + y - TimerMod ELSE a + y
  BY <1>1, <1>2, Room, ModCases
<1>4. (n + (x + y)) % TimerMod = IF n + (x + y) < 0 THEN n + (x + y) + TimerMod
                                 ELSE IF n + (x + y) >= TimerMod THEN n + (x + y) - TimerMod
                                 ELSE n + (x + y)
  BY <1>1, Room, ModCases
<1>5. (a + y) % TimerMod = (n + (x + y)) % TimerMod
  BY <1>1, <1>2, <1>3, <1>4, Room
<1>. QED
  BY <1>5 DEF a

\* An entry is due for the scan exactly when its time is not after its beginning.
LEMMA DueIsTrue ==
  ASSUME TimeInv, NEW i \in Slot, token[i] # 0, pc # "idle"
  PROVE  IsDue(i) <=> due[callback[i]] + since <= 0
<1>. DEFINE d == due[callback[i]]
<1>1. d \in Int
  BY DEF TimeInv, IndInv, Entries, Clocks
<1>2. trigger[i] = (clock + d) % TimerMod /\ d + since > -Stall /\ d + 2 * Stall < Half
  BY Room, <1>1 DEF TimeInv, Timing, Timed, Clocks
<1>3. now \in Time /\ since \in 0 .. Stall /\ clock = (now + since) % TimerMod
  BY DEF TimeInv, Clocks
<1>. HIDE DEF d
<1>4. trigger[i] = (now + (since + d)) % TimerMod
  BY <1>1, <1>2, <1>3, Room, ModTwice
<1>5. TIMER_DIFF_32(trigger[i], now) = since + d
  BY <1>1, <1>2, <1>3, <1>4, Room, DiffIsTrue
<1>6. IsDue(i) <=> d + since <= 0
  BY <1>1, <1>3, <1>5 DEF IsDue
<1>. QED
  BY <1>6 DEF d

\* Two entries have different clients.
LEMMA OtherClient ==
  ASSUME IndInv, NEW i \in Slot, NEW j \in Slot, i # j, token[i] # 0, token[j] # 0
  PROVE  callback[i] # callback[j]
BY DEF IndInv, Entries, Distinct

LEMMA TimeInit == Init => TimeInv
<1>. SUFFICES ASSUME Init PROVE TimeInv
  OBVIOUS
<1>1. 0 \in Time /\ 0 % TimerMod = 0
  BY Room, ModCases DEF Time
<1>2. Clocks
  BY <1>1, Room DEF Init, Clocks
<1>. QED
  BY <1>2, InitHolds DEF TimeInv, Timing, Small, Init

\* A delay asked for now.
LEMMA Asked ==
  ASSUME Clocks, NEW d \in Delays
  PROVE  d \in Int /\ d + since > 0 /\ d + 2 * Stall < Half /\ -Stall < 0
BY Room DEF Clocks

LEMMA Wrapped ==
  ASSUME Clocks, NEW d \in Delays
  PROVE  (clock + d) % TimerMod \in Int
BY Room DEF Clocks, Time

LEMMA TimeDefer ==
  ASSUME TimeInv, IndInv', NEW c \in Client, NEW d \in Delays, defer_exec(c, d)
  PROVE  TimeInv'
<1>1. CASE \A i \in Slot : token[i] # 0 /\ UNCHANGED <<table, held, due>>
  BY <1>1 DEF defer_exec, table, scan, clocks, TimeInv, Clocks, Timing, Timed, Small
<1>2. ASSUME NEW i \in Slot, FirstFree(i),
             token' = [token EXCEPT ![i] = current_token'],
             trigger' = [trigger EXCEPT ![i] = (clock + d) % TimerMod],
             callback' = [callback EXCEPT ![i] = c],
             due' = [due EXCEPT ![c] = d]
      PROVE  TimeInv'
  <2>1. UNCHANGED <<now, pc, slot, running, ran, clock, since>> /\ held[c] = 0 /\ token[i] = 0
    BY <1>2 DEF defer_exec, scan, clocks, FirstFree
  <2>2. Clocks'
    BY <2>1, <1>2, Wrapped, Room DEF TimeInv, Clocks
  <2>3. Types /\ Types' /\ due \in [Client -> Int] /\ trigger' = [trigger EXCEPT ![i] = (clock + d) % TimerMod]
    BY <1>2 DEF TimeInv, IndInv, Clocks
  <2>4. Timing'
    <3>. SUFFICES ASSUME NEW j \in Slot, token'[j] # 0 PROVE Timed(j)'
      BY DEF Timing
    <3>1. CASE j = i
      <4>1. callback'[j] = c /\ due'[c] = d
        BY <3>1, <1>2, <2>3 DEF Types
      <4>2. trigger'[j] = (clock + d) % TimerMod
        BY <3>1, <1>2 DEF TimeInv, Clocks
      <4>. QED
        BY <4>1, <4>2, <2>1, Asked, Room DEF Timed, TimeInv, Clocks
    <3>2. CASE j # i
      <4>1. token[j] # 0 /\ callback'[j] = callback[j] /\ trigger'[j] = trigger[j]
        BY <3>2, <1>2, <2>3 DEF Types
      <4>2. callback[j] # c /\ callback[j] \in Client
        BY <4>1, <2>1 DEF TimeInv, IndInv, Entries
      <4>3. due'[callback[j]] = due[callback[j]]
        BY <4>2, <1>2, <2>3
      <4>. QED
        BY <4>1, <4>3, <2>1 DEF TimeInv, Timing, Timed
    <3>. QED
      BY <3>1, <3>2
  <2>5. Small'
    <3>. SUFFICES ASSUME pc = "callback", NEW e \in Delays
                  PROVE  due'[running] + e + 2 * Stall < Half
      BY <2>1 DEF Small
    <3>1. running # c /\ running \in Client
      BY <2>1 DEF TimeInv, IndInv, Running, Entries, Types
    <3>2. due'[running] = due[running]
      BY <3>1, <1>2, <2>3
    <3>. QED
      BY <3>2 DEF TimeInv, Small
  <2>. QED
    BY <2>2, <2>4, <2>5 DEF TimeInv
<1>. QED
  BY <1>1, <1>2 DEF defer_exec

LEMMA TimeExtend ==
  ASSUME TimeInv, IndInv', NEW c \in Client, NEW d \in Delays, extend_deferred_exec(c, d)
  PROVE  TimeInv'
<1>1. PICK i \in Slot : token[i] = held[c] /\ trigger' = [trigger EXCEPT ![i] = (clock + d) % TimerMod]
  BY DEF extend_deferred_exec
<1>2. /\ held[c] # 0 /\ due' = [due EXCEPT ![c] = d]
      /\ UNCHANGED <<token, callback, now, pc, slot, running, ran, clock, since>>
  BY DEF extend_deferred_exec, scan, clocks
<1>3. callback[i] = c
  BY <1>1, <1>2 DEF TimeInv, IndInv, Entries, Holders, Distinct
<1>4. Clocks'
  BY <1>1, <1>2, Wrapped, Room DEF TimeInv, Clocks
<1>5. due'[c] = d /\ \A b \in Client \ {c} : due'[b] = due[b]
  BY <1>2 DEF TimeInv, Clocks
<1>6. Timing'
  <2>. SUFFICES ASSUME NEW j \in Slot, token[j] # 0 PROVE Timed(j)'
    BY <1>2 DEF Timing
  <2>1. CASE j = i
    <3>1. trigger'[j] = (clock + d) % TimerMod
      BY <2>1, <1>1 DEF TimeInv, Clocks
    <3>. QED
      BY <3>1, <2>1, <1>2, <1>3, <1>5, Asked, Room DEF Timed, TimeInv, Clocks
  <2>2. CASE j # i
    <3>1. trigger'[j] = trigger[j]
      BY <2>2, <1>1
    <3>2. callback[j] \in Client \ {c}
      BY <2>2, <1>1, <1>2, <1>3, OtherClient DEF TimeInv, IndInv, Entries
    <3>. QED
      BY <3>1, <3>2, <1>2, <1>5 DEF TimeInv, Timing, Timed
  <2>. QED
    BY <2>1, <2>2
<1>7. Small'
  <2>. SUFFICES ASSUME pc = "callback", NEW e \in Delays
                PROVE  due'[running] + e + 2 * Stall < Half
    BY <1>2 DEF Small
  <2>1. running \in Client
    BY DEF TimeInv, IndInv, Running
  <2>2. CASE running = c
    BY <2>2, <1>5, Room
  <2>3. CASE running # c
    BY <2>1, <2>3, <1>5 DEF TimeInv, Small
  <2>. QED
    BY <2>2, <2>3
<1>. QED
  BY <1>4, <1>6, <1>7 DEF TimeInv

\* Clearing entries takes nothing away from the times of the others.
LEMMA TimeCancel ==
  ASSUME TimeInv, IndInv', NEW c \in Client, cancel_deferred_exec(c)
  PROVE  TimeInv'
<1>1. PICK i \in Slot : token[i] = held[c] /\ Cleared(i)
  BY DEF cancel_deferred_exec
<1>2. UNCHANGED <<due, now, pc, slot, running, ran, clock, since>>
  BY DEF cancel_deferred_exec, scan, clocks
<1>3. \A j \in Slot : token'[j] # 0 => token[j] # 0 /\ callback'[j] = callback[j] /\ trigger'[j] = trigger[j]
  BY <1>1 DEF Cleared, TimeInv, IndInv, Types
<1>4. Timing'
  BY <1>2, <1>3 DEF TimeInv, Timing, Timed
<1>5. trigger' \in [Slot -> Int]
  BY <1>1 DEF Cleared, TimeInv, Clocks
<1>. QED
  BY <1>2, <1>4, <1>5 DEF TimeInv, Clocks, Small

LEMMA TimeTask ==
  ASSUME TimeInv, IndInv', deferred_exec_task
  PROVE  TimeInv'
<1>1. /\ pc = "idle" /\ now' = clock /\ pc' = "scan" /\ slot' = 1 /\ since' = 0
      /\ UNCHANGED <<token, trigger, callback, clock, due>>
  BY DEF deferred_exec_task, table
<1>2. clock % TimerMod = clock
  BY Room, ModCases DEF TimeInv, Clocks, Time
<1>3. Clocks'
  BY <1>1, <1>2, Room DEF TimeInv, Clocks, Time
<1>4. Timing'
  <2>. SUFFICES ASSUME NEW i \in Slot, token[i] # 0 PROVE Timed(i)'
    BY <1>1 DEF Timing
  <2>. DEFINE d == due[callback[i]]
  <2>1. d \in Int
    BY DEF TimeInv, IndInv, Entries, Clocks
  <2>2. trigger[i] = (clock + d) % TimerMod /\ d + since > 0 /\ d + 2 * Stall < Half
    BY <1>1 DEF TimeInv, Timing, Timed
  <2>3. d + 0 > -Stall /\ i >= 1 /\ since \in 0 .. Stall
    BY <2>1, <2>2, Room DEF TimeInv, Clocks, Slot
  <2>. QED
    BY <1>1, <2>1, <2>2, <2>3 DEF Timed
<1>. QED
  BY <1>1, <1>3, <1>4 DEF TimeInv, Small

\* The scan leaves an entry that is not due as seen from its beginning.
LEMMA TimeLeave ==
  ASSUME TimeInv, IndInv', pc # "idle", Leave(slot),
         UNCHANGED <<clock, since, now>>, due' \in [Client -> Int],
         trigger' \in [Slot -> Int],
         \A i \in Slot : token'[i] # 0 =>
           /\ trigger'[i] = (clock + due'[callback'[i]]) % TimerMod
           /\ due'[callback'[i]] + 2 * Stall < Half
           /\ due'[callback'[i]] + since > (IF i > slot THEN -Stall ELSE 0)
  PROVE  TimeInv'
<1>1. slot \in Slot
  BY DEF TimeInv, IndInv, Types
<1>2. pc' # "callback" /\ pc' \in {"idle", "scan"}
  BY DEF Leave
<1>3. Clocks'
  BY <1>2 DEF TimeInv, Clocks
<1>4. Timing'
  <2>. SUFFICES ASSUME NEW i \in Slot, token'[i] # 0 PROVE Timed(i)'
    BY DEF Timing
  <2>1. CASE slot < Slots
    BY <2>1, <1>1 DEF Timed, Leave, Slot
  <2>2. CASE slot >= Slots
    BY <2>2, <1>1, DeferredExecAssumption DEF Timed, Leave, Slot
  <2>. QED
    BY <2>1, <2>2, <1>1, DeferredExecAssumption DEF Slot
<1>. QED
  BY <1>2, <1>3, <1>4 DEF TimeInv, Small

\* What the scan knows of the entries when it leaves one.
LEMMA TimeScanned ==
  ASSUME TimeInv, pc # "idle", NEW i \in Slot, token[i] # 0, i # slot
  PROVE  /\ trigger[i] = (clock + due[callback[i]]) % TimerMod
         /\ due[callback[i]] + 2 * Stall < Half
         /\ due[callback[i]] + since > (IF i > slot THEN -Stall ELSE 0)
BY DeferredExecAssumption DEF TimeInv, Timing, Timed, IndInv, Types, Slot

LEMMA TimeSkip ==
  ASSUME TimeInv, IndInv', SkipEntry
  PROVE  TimeInv'
<1>1. /\ pc = "scan" /\ ~IsDue(slot) /\ Leave(slot)
      /\ UNCHANGED <<token, trigger, callback, clock, since, now, due>>
  BY DEF SkipEntry, table, clocks
<1>2. slot \in Slot
  BY DEF TimeInv, IndInv, Types
<1>3. ASSUME NEW i \in Slot, token[i] # 0
      PROVE  /\ trigger[i] = (clock + due[callback[i]]) % TimerMod
             /\ due[callback[i]] + 2 * Stall < Half
             /\ due[callback[i]] + since > (IF i > slot THEN -Stall ELSE 0)
  <2>1. CASE i # slot
    BY <2>1, <1>1, <1>3, TimeScanned
  <2>2. CASE i = slot
    <3>1. due[callback[i]] \in Int /\ since \in Int
      BY <1>3, Room DEF TimeInv, IndInv, Entries, Clocks
    <3>2. ~(due[callback[i]] + since <= 0)
      BY <2>2, <1>1, <1>3, DueIsTrue
    <3>3. due[callback[i]] + since > 0
      BY <3>1, <3>2
    <3>4. ~(i > slot)
      BY <2>2, <1>2 DEF Slot
    <3>. QED
      BY <1>3, <3>3, <3>4 DEF TimeInv, Timing, Timed
  <2>. QED
    BY <2>1, <2>2
<1>4. due' \in [Client -> Int] /\ trigger' \in [Slot -> Int]
  BY <1>1 DEF TimeInv, Clocks
<1>. QED
  BY <1>1, <1>3, <1>4, TimeLeave

LEMMA TimeEnter ==
  ASSUME TimeInv, IndInv', EnterCallback
  PROVE  TimeInv' /\ due[callback[slot]] <= 0
<1>1. /\ pc = "scan" /\ IsDue(slot) /\ pc' = "callback" /\ running' = callback[slot]
      /\ UNCHANGED <<token, trigger, callback, clock, since, now, slot, due>>
  BY DEF EnterCallback, table, clocks
<1>2. token[slot] # 0 /\ slot \in Slot
  BY <1>1 DEF IsDue, TimeInv, IndInv, Types
<1>3. due[callback[slot]] \in Int /\ since \in 0 .. Stall
  BY <1>2 DEF TimeInv, IndInv, Entries, Clocks
<1>4. due[callback[slot]] + since <= 0
  BY <1>1, <1>2, DueIsTrue
<1>5. due[callback[slot]] <= 0
  BY <1>3, <1>4, Room
<1>6. Small'
  BY <1>1, <1>3, <1>5, Room DEF Small
<1>7. Clocks' /\ Timing'
  BY <1>1 DEF TimeInv, Clocks, Timing, Timed
<1>. QED
  BY <1>5, <1>6, <1>7 DEF TimeInv

LEMMA TimeRepeat ==
  ASSUME TimeInv, IndInv', NEW d \in Delays, Repeat(d)
  PROVE  TimeInv'
<1>1. /\ pc = "callback" /\ Leave(slot) /\ trigger' = [trigger EXCEPT ![slot] = (@ + d) % TimerMod]
      /\ UNCHANGED <<token, callback, clock, since, now>>
  BY DEF Repeat, clocks
<1>2. /\ slot \in Slot /\ running \in Client /\ running = callback[slot]
      /\ token[slot] # 0 /\ held[running] = ran
  BY <1>1 DEF TimeInv, IndInv, Types, Running, Entries
<1>3. due' = [due EXCEPT ![running] = @ + d] /\ due \in [Client -> Int] /\ d \in Nat
  BY <1>2, Room DEF Repeat, TimeInv, Clocks
<1>4. due' \in [Client -> Int] /\ trigger' \in [Slot -> Int]
  <2>1. (trigger[slot] + d) % TimerMod \in Int
    BY <1>2, <1>3, Room DEF TimeInv, Clocks
  <2>. QED
    BY <1>1, <1>2, <1>3, <2>1 DEF TimeInv, Clocks
<1>5. ASSUME NEW i \in Slot, token[i] # 0
      PROVE  /\ trigger'[i] = (clock + due'[callback[i]]) % TimerMod
             /\ due'[callback[i]] + 2 * Stall < Half
             /\ due'[callback[i]] + since > (IF i > slot THEN -Stall ELSE 0)
  <2>1. CASE i # slot
    <3>1. callback[i] # running /\ callback[i] \in Client
      BY <2>1, <1>2, <1>5, OtherClient DEF TimeInv, IndInv, Entries
    <3>2. due'[callback[i]] = due[callback[i]] /\ trigger'[i] = trigger[i]
      BY <3>1, <2>1, <1>1, <1>3
    <3>. QED
      BY <3>2, <2>1, <1>1, <1>5, TimeScanned
  <2>2. CASE i = slot
    <3>. DEFINE x == due[running]
    <3>1. x \in Int /\ due'[callback[i]] = x + d
      BY <2>2, <1>2, <1>3
    <3>2. /\ trigger[i] = (clock + x) % TimerMod /\ x + 2 * Stall < Half
      BY <2>2, <1>2 DEF TimeInv, Timing, Timed
    <3>3. x + since > -Stall
      BY <2>2, <1>1, <1>2 DEF TimeInv, Timing, Timed, Slot
    <3>4. x + d + 2 * Stall < Half
      BY <1>1 DEF TimeInv, Small
    <3>5. since \in 0 .. Stall /\ clock \in Time
      BY DEF TimeInv, Clocks
    <3>. HIDE DEF x
    <3>6. trigger'[i] = (trigger[i] + d) % TimerMod
      BY <2>2, <1>1, <1>2 DEF TimeInv, Clocks
    <3>7. (((clock + x) % TimerMod) + d) % TimerMod = (clock + (x + d)) % TimerMod
      BY <3>1, <3>2, <3>3, <3>4, <3>5, <1>3, Room, ModTwice
    <3>8. x + d + since > 0 /\ ~(i > slot)
      BY <2>2, <1>2, <1>3, <3>1, <3>3, <3>5, Room DEF Slot
    <3>. QED
      BY <3>1, <3>2, <3>4, <3>6, <3>7, <3>8
  <2>. QED
    BY <2>1, <2>2
<1>. QED
  BY <1>1, <1>4, <1>5, TimeLeave

LEMMA TimeUnregister ==
  ASSUME TimeInv, IndInv', Unregister
  PROVE  TimeInv'
<1>1. pc = "callback" /\ Cleared(slot) /\ Leave(slot) /\ UNCHANGED <<clock, since, now, due>>
  BY DEF Unregister, clocks
<1>2. slot \in Slot
  BY DEF TimeInv, IndInv, Types
<1>3. ASSUME NEW i \in Slot, token'[i] # 0
      PROVE  i # slot /\ token[i] # 0 /\ callback'[i] = callback[i] /\ trigger'[i] = trigger[i]
  BY <1>1, <1>2, <1>3 DEF Cleared, TimeInv, IndInv, Types
<1>4. due' \in [Client -> Int]
  BY <1>1 DEF TimeInv, Clocks
<1>5. trigger' \in [Slot -> Int]
  BY <1>1, <1>2 DEF Cleared, TimeInv, Clocks
<1>. QED
  BY <1>1, <1>3, <1>4, <1>5, TimeScanned, TimeLeave

LEMMA TimeTick ==
  ASSUME TimeInv, IndInv', Tick
  PROVE  TimeInv'
<1>1. /\ since < Stall /\ clock' = (clock + 1) % TimerMod /\ since' = since + 1
      /\ due' = [c \in Client |-> IF held[c] = 0 THEN 0 ELSE due[c] - 1]
      /\ UNCHANGED <<token, trigger, callback, held, now, pc, slot, running>>
  BY DEF Tick, table, scan
<1>2. clock \in Time /\ now \in Time /\ since \in 0 .. Stall /\ due \in [Client -> Int]
  BY DEF TimeInv, Clocks
<1>3. clock' = (now + (since + 1)) % TimerMod
  <2>1. clock = (now + since) % TimerMod
    BY DEF TimeInv, Clocks
  <2>2. since \in Int /\ -Half <= since /\ since < Half /\ since + 1 < Half /\ 1 < Half
    BY <1>2, Room
  <2>3. (((now + since) % TimerMod) + 1) % TimerMod = (now + (since + 1)) % TimerMod
    BY <1>2, <2>2, Room, ModTwice
  <2>. QED
    BY <1>1, <2>1, <2>3
<1>4. clock' \in Time
  BY <1>1, <1>2, Room, ModCases DEF Time
<1>5. Clocks'
  BY <1>1, <1>2, <1>3, <1>4, Room DEF TimeInv, Clocks
<1>6. Timing'
  <2>. SUFFICES ASSUME NEW i \in Slot, token[i] # 0 PROVE Timed(i)'
    BY <1>1 DEF Timing
  <2>. DEFINE d == due[callback[i]]
  <2>1. callback[i] \in Client /\ held[callback[i]] # 0
    BY DEF TimeInv, IndInv, Entries
  <2>2. d \in Int /\ due'[callback[i]] = d - 1
    BY <2>1, <1>1, <1>2
  <2>3. /\ trigger[i] = (clock + d) % TimerMod /\ d + 2 * Stall < Half
        /\ d + since > (IF pc # "idle" /\ i >= slot THEN -Stall ELSE 0)
    BY DEF TimeInv, Timing, Timed
  <2>. HIDE DEF d
  <2>4. d > -2 * Stall
    BY <2>2, <2>3, <1>2, Room
  <2>5. ((((clock + 1) % TimerMod)) + (d - 1)) % TimerMod = (clock + (1 + (d - 1))) % TimerMod
    BY <2>2, <2>3, <2>4, <1>2, Room, ModTwice
  <2>6. trigger'[i] = (clock' + (d - 1)) % TimerMod
    BY <2>2, <2>3, <2>5, <1>1, <1>2 DEF Time
  <2>. QED
    BY <2>2, <2>3, <2>6, <1>1, <1>2, Room DEF Timed
<1>7. Small'
  <2>. SUFFICES ASSUME pc = "callback", NEW e \in Delays
                PROVE  due'[running] + e + 2 * Stall < Half
    BY <1>1 DEF Small
  <2>1. running \in Client /\ held[running] # 0
    BY DEF TimeInv, IndInv, Running, Entries, Types
  <2>2. due'[running] = due[running] - 1 /\ due[running] \in Int
    BY <2>1, <1>1, <1>2
  <2>. QED
    BY <2>2, Room DEF TimeInv, Small
<1>. QED
  BY <1>5, <1>6, <1>7 DEF TimeInv

LEMMA TimeStep == ~CancelSelf /\ TimeInv /\ [Next]_vars => TimeInv'
<1>. SUFFICES ASSUME ~CancelSelf, TimeInv, [Next]_vars PROVE TimeInv'
  OBVIOUS
<1>1. IndInv'
  BY StepHolds DEF TimeInv
<1>2. CASE Call
  BY <1>1, <1>2, TimeDefer, TimeExtend, TimeCancel DEF Call
<1>3. CASE UNCHANGED vars
  BY <1>1, <1>3 DEF vars, table, scan, clocks, TimeInv, Clocks, Timing, Timed, Small
<1>. QED
  BY <1>1, <1>2, <1>3, TimeTask, TimeSkip, TimeEnter, TimeRepeat, TimeUnregister, TimeTick DEF Next

LEMMA InTime == ~CancelSelf => (Spec => []TimeInv)
<1>. SUFFICES ASSUME ~CancelSelf PROVE Spec => []TimeInv
  OBVIOUS
<1>1. TimeInv /\ [Next]_vars => TimeInv'
  BY TimeStep
<1>. QED
  BY <1>1, TimeInit, PTL DEF Spec

\* No callback is called before its time, for every timer width, delay and stall
\* of the main loop (the signed comparison of deferred_exec_advanced_task).
THEOREM CalledNeverEarly == ~CancelSelf => (Spec => NeverEarly)
<1>. SUFFICES ASSUME ~CancelSelf PROVE Spec => NeverEarly
  OBVIOUS
<1>1. TimeInv /\ [Next]_vars => [EnterCallback => due[callback[slot]] <= 0]_vars
  <2>. SUFFICES ASSUME TimeInv, Next, EnterCallback PROVE due[callback[slot]] <= 0
    OBVIOUS
  <2>1. IndInv'
    BY StepHolds DEF TimeInv
  <2>. QED
    BY <2>1, TimeEnter
<1>. QED
  BY <1>1, InTime, PTL DEF Spec, NeverEarly

\* No callback waits longer than two stalls of the main loop after its time, and
\* repetitions do not add up to a drift.
THEOREM CalledNeverLate == ~CancelSelf => (Spec => []NeverLate)
<1>. SUFFICES ASSUME ~CancelSelf PROVE Spec => []NeverLate
  OBVIOUS
<1>1. TimeInv => NeverLate
  <2>. SUFFICES ASSUME TimeInv, NEW c \in Client, held[c] # 0 PROVE due[c] >= -(2 * Stall)
    BY DEF NeverLate
  <2>1. PICK i \in Slot : token[i] = held[c] /\ callback[i] = c
    BY DEF TimeInv, IndInv, Holders
  <2>2. due[c] + since > (IF pc # "idle" /\ i >= slot THEN -Stall ELSE 0)
    BY <2>1 DEF TimeInv, Timing, Timed
  <2>3. due[c] \in Int /\ since \in 0 .. Stall
    BY DEF TimeInv, Clocks
  <2>. QED
    BY <2>2, <2>3, Room
<1>. QED
  BY <1>1, InTime, PTL
============================================================================
