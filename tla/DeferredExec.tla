---------------------------- MODULE DeferredExec ----------------------------
(***************************************************************************)
(* Deferred execution, quantum/deferred_exec.c: a table of executors, each *)
(* with a token, a trigger time and a callback, scanned at most once per   *)
(* millisecond.  Callbacks run inside the scan and may themselves defer,   *)
(* extend and cancel.                                                      *)
(*                                                                         *)
(* The users of the API are the set Client, one callback each.  A client   *)
(* keeps the token it was given as docs/custom_quantum_functions.md asks:  *)
(* it holds at most one, uses it only while its executor is pending and    *)
(* forgets it when it cancels or when its callback returns 0.  Tokens and  *)
(* times are counted modulo TokenMod and TimerMod (2^8 and 2^32), so both  *)
(* wrap and a behaviour needs no bound.                                    *)
(***************************************************************************)
EXTENDS Integers, FiniteSets

CONSTANTS Client,       \* the callbacks
          None,         \* NULL
          Slots,        \* table_count (MAX_DEFERRED_EXECUTORS)
          TokenMod,     \* values of deferred_token
          TimerMod,     \* values of timer_read32()
          Delays,       \* delays asked for, in ms
          Stall,        \* ms between the starts of two scans, at most
          CancelSelf    \* a callback may cancel the executor it runs for

ASSUME DeferredExecAssumption ==
  /\ None \notin Client
  /\ Slots \in Nat \ {0} /\ TokenMod \in Nat /\ TokenMod > Slots + 1
  /\ TimerMod \in Nat /\ TimerMod % 2 = 0
  /\ Stall \in Nat \ {0}
  /\ Delays \subseteq Nat /\ Delays # {}
  /\ \A d \in Delays : 2 * Stall <= d /\ 2 * (d + Stall) < TimerMod \div 2
  /\ CancelSelf \in BOOLEAN

VARIABLES token, trigger, callback,   \* the fields of the table's entries
          current_token,
          clock,            \* timer_read32()
          last, now,        \* *last_execution_time, and the scan's own "now"
          pc, slot,         \* where the scan is: "idle", "scan", "callback"
          running, ran,     \* the client whose callback runs, and its token
          held,             \* the token each client holds, 0 for none
          due,              \* history: ms until the client expects its call
          since             \* ms since the last scan began

table  == <<token, trigger, callback, current_token>>
scan   == <<last, now, pc, slot, running, ran>>
clocks == <<clock, since>>
vars   == <<table, scan, clocks, held, due>>

Slot  == 1 .. Slots
Token == 0 .. TokenMod - 1      \* 0 is INVALID_DEFERRED_TOKEN
Time  == 0 .. TimerMod - 1

\* (int32_t)TIMER_DIFF_32(a, b)
TIMER_DIFF_32(a, b) ==
  LET d == (a - b) % TimerMod
  IN  IF d < TimerMod \div 2 THEN d ELSE d - TimerMod

-----------------------------------------------------------------------------
(* The API.                                                                *)

token_can_be_used(t) == t # 0 /\ \A i \in Slot : token[i] # t

\* Mutant: the token is not looked up in the table.
NextToken(k) == /\ (current_token + k) % TokenMod # 0
                /\ \A j \in 1 .. k - 1 : (current_token + j) % TokenMod = 0
\* The token k places after current_token is the first that can be used.
FirstUsable(k) ==
  /\ token_can_be_used((current_token + k) % TokenMod)
  /\ \A j \in 1 .. k - 1 : ~token_can_be_used((current_token + j) % TokenMod)

\* The slot the search stops at, if there is one.
FirstFree(i) == token[i] = 0 /\ \A j \in 1 .. i - 1 : token[j] # 0

\* The callback of c is deferred.  With a token for every slot and more,
\* allocate_token always finds one.
defer_exec(c, d) ==
  /\ held[c] = 0
  /\ \/ \E i \in Slot, k \in 1 .. TokenMod :
          /\ FirstFree(i) /\ FirstUsable(k)
          /\ current_token' = (current_token + k) % TokenMod
          /\ token' = [token EXCEPT ![i] = current_token']
          /\ trigger' = [trigger EXCEPT ![i] = (clock + d) % TimerMod]
          /\ callback' = [callback EXCEPT ![i] = c]
          /\ held' = [held EXCEPT ![c] = current_token']
          /\ due' = [due EXCEPT ![c] = d]
     \/ /\ \A i \in Slot : token[i] # 0
        /\ UNCHANGED <<table, held, due>>
  /\ UNCHANGED <<scan, clocks>>

extend_deferred_exec(c, d) ==
  /\ held[c] # 0
  /\ \E i \in Slot :
       /\ token[i] = held[c] /\ \A j \in 1 .. i - 1 : token[j] # held[c]
       /\ trigger' = [trigger EXCEPT ![i] = (clock + d) % TimerMod]
  /\ due' = [due EXCEPT ![c] = d]
  /\ UNCHANGED <<token, callback, current_token, scan, clocks, held>>

Cleared(i) == /\ token' = [token EXCEPT ![i] = 0]
              /\ trigger' = [trigger EXCEPT ![i] = 0]
              /\ callback' = [callback EXCEPT ![i] = None]

cancel_deferred_exec(c) ==
  /\ held[c] # 0
  /\ pc = "callback" /\ c = running => CancelSelf
  /\ \E i \in Slot :
       /\ token[i] = held[c] /\ \A j \in 1 .. i - 1 : token[j] # held[c]
       /\ Cleared(i)
  /\ held' = [held EXCEPT ![c] = 0]
  /\ UNCHANGED <<current_token, scan, clocks, due>>

\* API calls come from callbacks, and from the rest of the main loop.
Call == /\ pc # "scan"
        /\ \E c \in Client :
             \/ cancel_deferred_exec(c)
             \/ \E d \in Delays : defer_exec(c, d) \/ extend_deferred_exec(c, d)

-----------------------------------------------------------------------------
(* deferred_exec_task.                                                     *)

\* The task begins a scan, at most once per millisecond.
deferred_exec_task ==
  /\ pc = "idle" /\ TIMER_DIFF_32(clock, last) > 0
  /\ last' = clock /\ now' = clock
  /\ pc' = "scan" /\ slot' = 1 /\ since' = 0
  /\ UNCHANGED <<table, clock, running, ran, held, due>>

Leave(i) == IF i < Slots THEN pc' = "scan" /\ slot' = i + 1
                         ELSE pc' = "idle" /\ slot' = 1

\* Mutant: an entry is run a millisecond before its trigger time.
IsDueEarly(i) == token[i] # 0 /\ TIMER_DIFF_32(trigger[i], now) <= 1
IsDue(i)      == token[i] # 0 /\ TIMER_DIFF_32(trigger[i], now) <= 0

SkipEntry ==
  /\ pc = "scan" /\ ~IsDue(slot)
  /\ Leave(slot)
  /\ UNCHANGED <<table, clocks, last, now, running, ran, held, due>>

EnterCallback ==
  /\ pc = "scan" /\ IsDue(slot)
  /\ pc' = "callback" /\ running' = callback[slot] /\ ran' = token[slot]
  /\ UNCHANGED <<table, clocks, last, now, slot, held, due>>

\* Mutant: the repetition is counted from the time the callback was run.
RepeatFromNow(d) ==
  /\ pc = "callback" /\ d > 0
  /\ trigger' = [trigger EXCEPT ![slot] = (now + d) % TimerMod]
  /\ due' = IF held[running] = ran THEN [due EXCEPT ![running] = @ + d] ELSE due
  /\ Leave(slot) /\ running' = None /\ ran' = 0
  /\ UNCHANGED <<token, callback, current_token, clocks, last, now, held>>

\* The callback returns d > 0: it wants to be called again, d after the time
\* it should have been called at.
Repeat(d) ==
  /\ pc = "callback" /\ d > 0
  /\ trigger' = [trigger EXCEPT ![slot] = (@ + d) % TimerMod]
  /\ due' = IF held[running] = ran THEN [due EXCEPT ![running] = @ + d] ELSE due
  /\ Leave(slot) /\ running' = None /\ ran' = 0
  /\ UNCHANGED <<token, callback, current_token, clocks, last, now, held>>

\* The callback returns 0: the entry it was run from is cleared.
Unregister ==
  /\ pc = "callback"
  /\ Cleared(slot)
  /\ held' = IF held[running] = ran THEN [held EXCEPT ![running] = 0] ELSE held
  /\ Leave(slot) /\ running' = None /\ ran' = 0
  /\ UNCHANGED <<current_token, clocks, last, now, due>>

\* A millisecond passes.  The main loop begins a scan at least every Stall.
Tick ==
  /\ since < Stall
  /\ clock' = (clock + 1) % TimerMod /\ since' = since + 1
  /\ due' = [c \in Client |-> IF held[c] = 0 THEN 0 ELSE due[c] - 1]
  /\ UNCHANGED <<table, scan, held>>

-----------------------------------------------------------------------------
Init ==
  /\ token = [i \in Slot |-> 0] /\ trigger = [i \in Slot |-> 0]
  /\ callback = [i \in Slot |-> None] /\ current_token = 0
  /\ clock = 0 /\ last = 0 /\ now = 0
  /\ pc = "idle" /\ slot = 1 /\ running = None /\ ran = 0
  /\ held = [c \in Client |-> 0] /\ due = [c \in Client |-> 0]
  /\ since = 0

Next == \/ Call \/ deferred_exec_task \/ SkipEntry \/ EnterCallback
        \/ (\E d \in Delays : Repeat(d)) \/ Unregister \/ Tick

Spec == Init /\ [][Next]_vars

-----------------------------------------------------------------------------
(* Properties.                                                             *)

TypeOK ==
  /\ token \in [Slot -> Token] /\ trigger \in [Slot -> Time]
  /\ callback \in [Slot -> Client \cup {None}] /\ current_token \in Token
  /\ clock \in Time /\ last \in Time /\ now \in Time
  /\ pc \in {"idle", "scan", "callback"} /\ slot \in Slot
  /\ running \in Client \cup {None} /\ ran \in Token
  /\ held \in [Client -> Token] /\ due \in [Client -> Int]
  /\ since \in 0 .. Stall

\* The executors in the table are exactly the ones whose tokens the clients
\* hold, each under its own callback: no token of two executors is the same
\* although tokens wrap at 8 bits, no executor is lost, replaced or cleared
\* while its client counts on it, and none runs on after it was cancelled
\* (deferred_exec.c; the callbacks may defer, extend and cancel others while
\* the table is being scanned).
RegisteredExactly ==
  /\ {<<callback[i], token[i]>> : i \in {j \in Slot : token[j] # 0}}
       = {<<c, held[c]>> : c \in {b \in Client : held[b] # 0}}
  /\ \A i, j \in Slot : i # j /\ token[i] # 0 => token[i] # token[j]

\* No callback is called before the delay its client asked for has passed,
\* also when the timer wraps in between.
NeverEarly == [][EnterCallback => due[callback[slot]] <= 0]_vars

\* No callback is called, or still waiting, more than the stall of one scan
\* and the length of the next after its time: repetitions do not drift.
NeverLate == \A c \in Client : held[c] # 0 => due[c] >= -(2 * Stall)
=============================================================================
