------------------------------- MODULE Tapping -------------------------------
(***************************************************************************)
(* The tap/hold state machine of quantum/action_tapping.c, between the     *)
(* debounced matrix and process_record.  A dual-role (mod-tap) key is      *)
(* settled as a tap or as a hold only later, so its press, and every event *)
(* that must not overtake it, waits.                                       *)
(*                                                                         *)
(* action_tapping_process handles one event, then works off the waiting    *)
(* buffer until process_tapping holds a record back; the model takes one   *)
(* step per call of process_tapping ("pc" says which record it looks at),  *)
(* and nothing happens in between.                                         *)
(***************************************************************************)
EXTENDS Integers, Sequences

CONSTANTS TapKeys,         \* mod-tap keys (is_tap_record)
          ModKeys,         \* plain modifiers
          PlainKeys,       \* all other keys
          NoKey,           \* tapping_key is IS_NOEVENT
          TappingTerm, QuickTapTerm,
          BufferSize,      \* WAITING_BUFFER_SIZE (8); one slot stays free
          Builds,          \* decision modes and ways of typing: see build
          MaxStall,        \* bound on the stall of every build
          MaxPresses       \* bound: key presses

Keys == TapKeys \cup ModKeys \cup PlainKeys

ASSUME TappingAssumption ==
  /\ TapKeys \cap ModKeys = {} /\ TapKeys \cap PlainKeys = {} /\ ModKeys \cap PlainKeys = {}
  /\ TappingTerm \in Nat \ {0} /\ QuickTapTerm \in 0 .. TappingTerm
  /\ BufferSize \in Nat /\ BufferSize >= 2
  /\ Builds \subseteq [PermissiveHold : SUBSET TapKeys, HoldOnOtherKeyPress : SUBSET TapKeys,
                       SameScan : BOOLEAN, Stall : 1 .. MaxStall]
  /\ MaxStall \in Nat \ {0} /\ MaxPresses \in Nat
  /\ NoKey \notin Keys

VARIABLES tapping_key,     \* the record being settled or last settled
          waiting_buffer,  \* the records held back, oldest first
          arrived, pc,     \* the record looked at is the one that arrived
                           \* (pc = "new"), or the oldest one waiting ("drain")
          tick_age,        \* ms since generate_tick_event's last_tick
          down, changed,   \* keys physically down; changed since the last quiet scan
          registered,      \* <<key, "tap" or "hold">>: what process_action registered
          build,           \* never changes: the keys get_permissive_hold and
                           \* get_hold_on_other_key_press are true for; whether
                           \* several keys may change before a scan finds no change,
                           \* and the ms that may pass without such a scan
          presses, last,   \* history: presses numbered; all up to last processed
          overtaken,       \* history: a key changed while records waited that no
                           \* undecided key held back
          unscanned        \* history: a key became the tapping key although its
                           \* release was waiting, and the buffer was not searched

vars == <<tapping_key, waiting_buffer, arrived, pc, tick_age, down, changed,
          registered, build, presses, last, overtaken, unscanned>>

\* A keyrecord_t.  Its time is kept as an age: ms since the event, saturated at
\* AgeMax, an age only a settled tapping key reaches (each tick settles one of
\* the tap keys that wait).  "no" is the number of the press it belongs to.
\* A tick is the IS_NOEVENT record of a scan without changes.
AgeMax == TappingTerm + BufferSize * MaxStall
Record(k, p, n) ==
  [key |-> k, pressed |-> p, age |-> 0, count |-> 0, interrupted |-> FALSE, no |-> n]
Nothing == Record(NoKey, FALSE, 0)
IsTick(e) == e.key = NoKey

\* The tapping key is down and not settled.
Undecided(t) == t.pressed /\ t.count = 0

Cur == IF pc = "new" THEN arrived ELSE Head(waiting_buffer)

\* What waits behind the record looked at.
Rest == IF pc = "new" THEN waiting_buffer ELSE Tail(waiting_buffer)

\* TIMER_DIFF_16 of two records against a term: an event older than the tapping
\* key wraps to a large difference.  A key settled long ago has an age that may
\* have wrapped around 16 bits, so both answers are possible.
Within(e, t, term) ==
  IF t.age = AgeMax THEN BOOLEAN ELSE {t.age - e.age \in 0 .. term - 1}

\* The opposite event of the same key waits.
waiting_buffer_typed(e) ==
  \E i \in DOMAIN waiting_buffer :
    waiting_buffer[i].key = e.key /\ waiting_buffer[i].pressed # e.pressed

\* process_action: a tapped key registers its keycode, a held one its modifier.
\* (A tap that HOLD_ON_OTHER_KEY_PRESS would turn into a hold here is never
\* interrupted: the interrupting press has settled it.)
Kind(r) == IF r.count > 0 THEN "tap" ELSE "hold"
process_record(reg, r) ==
  IF r.pressed THEN reg \cup {<<r.key, Kind(r)>>} ELSE reg \ {<<r.key, Kind(r)>>}
Passed(r) == IF r.pressed THEN r.no ELSE last

-----------------------------------------------------------------------------
(* How process_tapping ends: the record is consumed, or held back.         *)

Consumed(tk, reg, upto, waiting) ==
  /\ tapping_key' = tk /\ registered' = reg /\ last' = upto
  /\ waiting_buffer' = waiting
  /\ pc' = IF waiting = << >> THEN "idle" ELSE "drain"
  /\ UNCHANGED <<arrived, tick_age, down, changed, build, presses, overtaken>>

\* A held record that was waiting ends the pass.  A new one is enqueued; when
\* the buffer is full everything is cleared instead.
Held(tk, reg, upto, e) ==
  /\ IF pc = "drain"
     THEN /\ waiting_buffer' = <<e>> \o Tail(waiting_buffer) /\ pc' = "idle"
          /\ tapping_key' = tk /\ registered' = reg /\ last' = upto
     ELSE IF ~IsTick(e) /\ Len(waiting_buffer) = BufferSize - 1
     THEN /\ waiting_buffer' = << >> /\ pc' = "idle"
          /\ tapping_key' = Nothing /\ registered' = {} /\ last' = presses
     ELSE /\ waiting_buffer' = waiting_buffer \o (IF IsTick(e) THEN << >> ELSE <<e>>)
          /\ pc' = IF waiting_buffer' = << >> THEN "idle" ELSE "drain"
          /\ tapping_key' = tk /\ registered' = reg /\ last' = upto
  /\ UNCHANGED <<arrived, tick_age, down, changed, build, presses, overtaken>>

\* The record looked at is processed as it is.
PassOn(tk, e) == Consumed(tk, process_record(registered, e), Passed(e), Rest)

\* Mutant: the waiting buffer is not searched for the release.
StartTappingBlind(reg, e) == Consumed(e, reg, last, Rest)

\* e becomes the tapping key; waiting_buffer_scan_tap settles it as a tap if
\* its release is already waiting.
TapReleases(e) ==
  {i \in DOMAIN Rest : /\ Rest[i].key = e.key /\ ~Rest[i].pressed
                       /\ TRUE \in Within(Rest[i], e, TappingTerm)}
StartTapping(reg, e) ==
  IF TapReleases(e) = {}
  THEN Consumed(e, reg, last, Rest)
  ELSE LET tk == [e EXCEPT !.count = 1]
           i  == CHOOSE i \in TapReleases(e) : \A j \in TapReleases(e) : i <= j
       IN  Consumed(tk, process_record(reg, tk), e.no, [Rest EXCEPT ![i].count = 1])

-----------------------------------------------------------------------------
(* process_tapping, one disjunct per branch; e is the record looked at and  *)
(* t the tapping key.                                                       *)

\* No tapping key.
Reset(e) ==
  /\ tapping_key.key = NoKey
  /\ \/ IsTick(e) /\ Consumed(tapping_key, registered, last, Rest)
     \/ e.pressed /\ e.key \in TapKeys /\ StartTapping(registered, e)
     \/ ~IsTick(e) /\ ~(e.pressed /\ e.key \in TapKeys) /\ PassOn(tapping_key, e)

\* Mutant: the release is enqueued without the tap count.
FirstTapForgets(t, e) ==
  /\ e.key = t.key /\ ~e.pressed
  /\ LET tk == [t EXCEPT !.count = 1]
     IN  Held(tk, process_record(registered, tk), t.no, e)

\* The tapping key is down and not settled yet.
FirstTap(t, e) ==
  /\ e.key = t.key /\ ~e.pressed
  /\ LET tk == [t EXCEPT !.count = 1]
     IN  Held(tk, process_record(registered, tk), t.no,
              [e EXCEPT !.count = 1, !.interrupted = t.interrupted])

\* Mutant: the record that settled the key is not enqueued.
SettleAsHoldConsumes(t, e) == Consumed(Nothing, process_record(registered, t), t.no, Rest)

SettleAsHold(t, e) == Held(Nothing, process_record(registered, t), t.no, e)

\* Modifiers stay registered until the tapping key is settled.
Retained(e) == e.key \in ModKeys \/ (e.key \in TapKeys /\ e.count = 0)

\* Mutant: a plain key is not made to wait for the tapping key.
UnsettledPasses(t, e) ==
  \/ FirstTap(t, e)
  \/ e.key # t.key /\ ~e.pressed /\ PassOn(t, e)
  \/ e.pressed /\ e.key \in PlainKeys /\ PassOn([t EXCEPT !.interrupted = TRUE], e)
  \/ e.pressed /\ e.key \notin PlainKeys /\ Held([t EXCEPT !.interrupted = TRUE], registered, last, e)

Unsettled(t, e) ==
  \/ FirstTap(t, e)
  \/ /\ e.key # t.key /\ ~e.pressed /\ waiting_buffer_typed(e)
     /\ IF t.key \in build.PermissiveHold THEN SettleAsHold(t, e) ELSE Held(t, registered, last, e)
  \/ /\ e.key # t.key /\ ~e.pressed /\ ~waiting_buffer_typed(e)
     /\ IF Retained(e) THEN Held(t, registered, last, e) ELSE PassOn(t, e)
  \/ /\ e.pressed
     /\ LET tk == [t EXCEPT !.interrupted = TRUE]
        IN  IF t.key \in build.HoldOnOtherKeyPress
            THEN SettleAsHold(tk, e) ELSE Held(tk, registered, last, e)

\* The tapping key is down and registered as a tap; after is what it becomes
\* when it is released.
SettledRelease(t, e, after) ==
  LET r == [e EXCEPT !.count = t.count, !.interrupted = t.interrupted]
  IN  Consumed(IF after = "keep" THEN r ELSE Nothing, process_record(registered, r), last, Rest)

Settled(t, e, after) ==
  \/ e.key = t.key /\ ~e.pressed /\ SettledRelease(t, e, after)
  \/ /\ e.key \in TapKeys /\ e.pressed
     /\ StartTapping(IF t.count > 1
                     THEN process_record(registered, [t EXCEPT !.pressed = FALSE])
                     ELSE registered, e)
  \/ /\ ~(e.key = t.key /\ ~e.pressed) /\ ~(e.key \in TapKeys /\ e.pressed)
     /\ PassOn(t, e)

Pressed(t, e) ==
  /\ t.key # NoKey /\ t.pressed
  /\ \E within \in Within(e, t, TappingTerm) :
     IF within
     THEN \/ IsTick(e) /\ Consumed(t, registered, last, Rest)
          \/ ~IsTick(e) /\ t.count = 0 /\ Unsettled(t, e)
          \/ ~IsTick(e) /\ t.count > 0 /\ Settled(t, e, "keep")
     ELSE \/ t.count = 0 /\ SettleAsHold(t, e)
          \/ t.count > 0 /\ IsTick(e) /\ Consumed(t, registered, last, Rest)
          \/ t.count > 0 /\ ~IsTick(e) /\ Settled(t, e, "clear")

\* The tapping key has been tapped and released.
Again(t, e) ==
  IF TRUE \in Within(e, t, QuickTapTerm) /\ ~t.interrupted /\ t.count > 0
  THEN LET tk == [e EXCEPT !.count = IF t.count < 15 THEN t.count + 1 ELSE t.count]
       IN  Consumed(tk, process_record(registered, tk), e.no, Rest)
  ELSE Consumed(e, registered, last, Rest)

\* "FIX: start new tap again" leaves out the waiting_buffer_scan_tap that every other
\* press of a tap key makes.
RestartsUnscanned(t, e) ==
  /\ t.key # NoKey /\ ~t.pressed /\ e.pressed /\ e.key = t.key
  /\ TapReleases(e) # {} /\ tapping_key' = e

Released(t, e) ==
  /\ t.key # NoKey /\ ~t.pressed
  /\ \E within \in Within(e, t, TappingTerm) :
     IF within
     THEN \/ IsTick(e) /\ Consumed(t, registered, last, Rest)
          \/ e.pressed /\ e.key = t.key /\ Again(t, e)
          \/ e.pressed /\ e.key # t.key /\ e.key \in TapKeys /\ StartTapping(registered, e)
          \/ e.pressed /\ e.key \notin TapKeys /\ PassOn([t EXCEPT !.interrupted = TRUE], e)
          \/ ~IsTick(e) /\ ~e.pressed /\ PassOn(t, e)
     ELSE Held(Nothing, registered, last, e)

process_tapping ==
  /\ pc # "idle"
  /\ Reset(Cur) \/ Pressed(tapping_key, Cur) \/ Released(tapping_key, Cur)
  /\ unscanned' = (unscanned \/ RestartsUnscanned(tapping_key, Cur))

-----------------------------------------------------------------------------
Init ==
  /\ tapping_key = Nothing /\ waiting_buffer = << >> /\ arrived = Nothing /\ pc = "idle"
  /\ tick_age = 0 /\ down = {} /\ changed = {}
  /\ registered = {} /\ build \in Builds /\ presses = 0 /\ last = 0
  /\ overtaken = FALSE /\ unscanned = FALSE

\* A scan finds a key changed.  The debouncing keeps one key from changing twice
\* without a quiet scan in between; other keys may change in the same scan.
Event(e) ==
  /\ pc = "idle" /\ IF build.SameScan THEN e.key \notin changed ELSE changed = {}
  /\ changed' = changed \cup {e.key}
  /\ arrived' = e /\ pc' = "new"
  /\ overtaken' = (overtaken \/ (waiting_buffer # << >> /\ ~Undecided(tapping_key)))
  /\ UNCHANGED <<tapping_key, waiting_buffer, tick_age, registered, build, last, unscanned>>

Press(k) ==
  /\ k \notin down /\ presses < MaxPresses
  /\ down' = down \cup {k} /\ presses' = presses + 1
  /\ Event(Record(k, TRUE, presses + 1))

Release(k) ==
  /\ k \in down
  /\ down' = down \ {k} /\ UNCHANGED presses
  /\ Event(Record(k, FALSE, 0))

\* A scan finds no change: generate_tick_event, at most one tick per millisecond.
Tick ==
  /\ pc = "idle" /\ tick_age > 0
  /\ arrived' = Nothing /\ pc' = "new" /\ tick_age' = 0 /\ changed' = {}
  /\ UNCHANGED <<tapping_key, waiting_buffer, down, registered, build, presses, last,
                 overtaken, unscanned>>

\* Mutant: a record is stamped anew at every scan, so that no tapping term ends.
OlderNever(r) == r

Older(r) == IF IsTick(r) \/ r.age = AgeMax THEN r ELSE [r EXCEPT !.age = @ + 1]

Clock ==
  /\ pc = "idle" /\ tick_age < build.Stall
  /\ tick_age' = tick_age + 1
  /\ tapping_key' = Older(tapping_key)
  /\ waiting_buffer' = [i \in DOMAIN waiting_buffer |-> Older(waiting_buffer[i])]
  /\ UNCHANGED <<arrived, pc, down, changed, registered, build, presses, last,
                 overtaken, unscanned>>

Next ==
  \/ \E k \in Keys : Press(k) \/ Release(k)
  \/ Tick \/ Clock
  \/ process_tapping

Spec == Init /\ [][Next]_vars

\* The matrix is scanned forever, and the clock runs.
LiveSpec == Spec /\ WF_vars(process_tapping) /\ WF_vars(Tick) /\ WF_vars(Clock)

-----------------------------------------------------------------------------
Waits(k) == \/ \E i \in DOMAIN waiting_buffer : waiting_buffer[i].key = k
            \/ pc = "new" /\ arrived.key = k
            \/ tapping_key.key = k /\ Undecided(tapping_key)

Records == [key : Keys \cup {NoKey}, pressed : BOOLEAN, age : 0 .. AgeMax,
            count : 0 .. 15, interrupted : BOOLEAN, no : 0 .. MaxPresses]

\* The waiting buffer never takes its last slot, and nothing that is still to be
\* settled grows so old that its 16-bit time wraps: only a tapping key registered
\* as a tap may be down that long.
TypeOK ==
  /\ tapping_key \in Records /\ arrived \in Records
  /\ tapping_key.age = AgeMax => tapping_key.pressed /\ tapping_key.count > 0
  /\ waiting_buffer \in Seq(Records) /\ Len(waiting_buffer) < BufferSize
  /\ \A i \in DOMAIN waiting_buffer : waiting_buffer[i].age < AgeMax
  /\ pc \in {"idle", "new", "drain"} /\ tick_age \in 0 .. MaxStall
  /\ down \subseteq Keys /\ changed \subseteq Keys
  /\ registered \subseteq Keys \X {"tap", "hold"} /\ build \in Builds
  /\ presses \in 0 .. MaxPresses /\ last \in 0 .. presses
  /\ overtaken \in BOOLEAN /\ unscanned \in BOOLEAN

\* The drain loop of action_tapping_process ends at a record that settles the
\* tapping key, although no decision is open then, and a key event before the next
\* tick is processed first.  In the default mode that needs several keys that change
\* in one scan, more than a millisecond without a quiet scan when the term of the
\* tapping key ends, or a key restarted without a search of the buffer; with
\* permissive hold the release of a modifier that is pressed again behind it is
\* enough, with hold-on-other-key-press any press.
NotOvertaken ==
  (/\ build.HoldOnOtherKeyPress = {} /\ build.PermissiveHold = {}
   /\ ~build.SameScan /\ build.Stall = 1 /\ ~unscanned) => ~overtaken

\* No stuck key: once a key is up and no event of it waits, neither its tap nor
\* its hold action is still registered with the host, in every decision mode, as
\* long as no key event has overtaken the ones that wait and every tapping key whose
\* release waited was found by waiting_buffer_scan_tap.
NoStuckKey ==
  ~overtaken /\ ~unscanned =>
    \A k \in Keys \ down :
      ~Waits(k) => <<k, "tap">> \notin registered /\ <<k, "hold">> \notin registered

\* Key presses are processed in the order they were made, however the tapping
\* key they had to wait for is settled, in every decision mode.
PressesInOrder == [][~overtaken' => last' >= last]_vars

\* The presses not yet processed are the tapping key and the ones that wait:
\* settling a key loses none and processes none twice.
Line == IF pc = "new" /\ ~IsTick(arrived) THEN Append(waiting_buffer, arrived)
                                          ELSE waiting_buffer
Numbers(s) == {s[i].no : i \in {j \in DOMAIN s : s[j].pressed}}
Unprocessed ==
  Numbers(Line) \cup (IF Undecided(tapping_key) THEN {tapping_key.no} ELSE {})
NoPressLost == ~overtaken => Unprocessed = (last + 1) .. presses

\* What the comment "should none in buffer" says of the released state: when a
\* plain key is pressed just after a tap and marks it interrupted, nothing waits
\* behind it.  Not so with two tap keys: the README (Known departures) has the case.
NoneInBuffer ==
  (/\ pc # "idle" /\ tapping_key.key # NoKey /\ ~tapping_key.pressed
   /\ Cur.pressed /\ Cur.key \notin TapKeys /\ TRUE \in Within(Cur, tapping_key, TappingTerm))
    => Rest = << >>

\* Every key press is eventually processed, as a tap or as a hold, in every
\* decision mode: the ticks settle a tapping key that no other event settles.
EveryPressProcessed == \A n \in 1 .. MaxPresses : n \in Unprocessed ~> n \notin Unprocessed

-----------------------------------------------------------------------------
(* What makes NoPressLost inductive.                                       *)

\* A press that waits is not counted as a tap; a tick never waits.
WaitingRecord == {r \in Records : r.key # NoKey /\ (r.pressed => r.count = 0)}
TappingRecord == {r \in Records : r.key = NoKey => ~r.pressed}

Shape ==
  /\ waiting_buffer \in Seq(WaitingRecord) /\ Len(waiting_buffer) < BufferSize
  /\ tapping_key \in TappingRecord
  /\ arrived \in TappingRecord /\ arrived.count = 0
  /\ pc \in {"idle", "new", "drain"} /\ (pc = "drain" => waiting_buffer # << >>)
  /\ presses \in 0 .. MaxPresses /\ last \in Nat /\ overtaken \in BOOLEAN

\* The presses stand in line in the order they were made, behind an undecided
\* tapping key; and a key event finds an undecided key or an empty buffer.
Ordered(s) ==
  \A i, j \in DOMAIN s : i < j /\ s[i].pressed /\ s[j].pressed => s[i].no < s[j].no
InLine ==
  /\ Unprocessed = (last + 1) .. presses /\ last <= presses
  /\ Ordered(Line)
  /\ Undecided(tapping_key) => \A n \in Numbers(Line) : tapping_key.no < n
  /\ pc = "new" /\ ~IsTick(arrived) /\ waiting_buffer # << >> => Undecided(tapping_key)

TapInv == Shape /\ (~overtaken => InLine)
=============================================================================
