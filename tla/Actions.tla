------------------------------ MODULE Actions ------------------------------
(***************************************************************************)
(* From key events to reports: layers, modifiers, one-shot keys and the    *)
(* two keyboard reports (quantum/action.c, action_layer.c, action_util.c,  *)
(* tmk_core/protocol/report.c).                                            *)
(*                                                                         *)
(* The firmware's state is one record k, and every C function that changes *)
(* it is an operator from k to k: action_exec and the functions it calls   *)
(* run to completion in the main loop.  Between two events lies the        *)
(* tap/hold state machine of action_tapping.c, here only as far as it      *)
(* orders the events: a tap key waits until it is released or its term is  *)
(* over, and other events wait behind it (module Tapping has the rest; the *)
(* build modelled has QUICK_TAP_TERM 0, one TAPPING_TERM, neither          *)
(* PERMISSIVE_HOLD nor HOLD_ON_OTHER_KEY_PRESS).  Mouse, consumer and      *)
(* system usages, swap hands and TT() are left out.                        *)
(***************************************************************************)
EXTENDS Naturals, FiniteSets, FiniteSetsExt, Sequences, SequencesExt

CONSTANTS Builds,    \* keymaps and build options: see build
          NoKey,
          MaxWaiting \* bound: events that arrive while a tap key is undecided

VARIABLES build,    \* never changes: the action of each key on each layer, the
                    \* keys a 6KRO report holds, the size of the waiting buffer,
                    \* whether ONESHOT_TIMEOUT is defined, and whether the module
                    \* may ask for a pin code
          k,        \* the state of the keyboard: see Init
          tapping,  \* the undecided tap key
          waiting,  \* waiting_buffer
          draining, \* the loop over the waiting records has not ended
          down      \* the keys that are physically down

vars == <<build, k, tapping, waiting, draining, down>>

Keymap               == build.Keymap
Layers               == DOMAIN Keymap
Keys                 == DOMAIN Keymap[0]
KEYBOARD_REPORT_KEYS == build.KEYBOARD_REPORT_KEYS
WAITING_BUFFER_SIZE  == build.WAITING_BUFFER_SIZE

ASSUME BuildsAssumption ==
  \A b \in Builds :
    /\ IsFiniteSet(DOMAIN b.Keymap) /\ 0 \in DOMAIN b.Keymap
    /\ DOMAIN b.Keymap = 0 .. Cardinality(DOMAIN b.Keymap) - 1
    /\ \A l \in DOMAIN b.Keymap : DOMAIN b.Keymap[l] = DOMAIN b.Keymap[0]
    /\ NoKey \notin DOMAIN b.Keymap[0]
    /\ b.KEYBOARD_REPORT_KEYS \in Nat \ {0} /\ b.WAITING_BUFFER_SIZE \in Nat \ {0, 1}
    /\ {b.OneshotTimeout, b.PinCode} \subseteq BOOLEAN
ASSUME BoundAssumption == MaxWaiting \in Nat

(* The actions of a keymap; "" and {} stand for no keycode and no modifier. *)
Action(kind, layer, mods, code) ==
  [kind |-> kind, layer |-> layer, mods |-> mods, code |-> code]
KC(code)        == Action("key", 0, {}, code)
ModKey(mod)     == Action("mod", 0, {mod}, "")
Shifted(mod, c) == Action("key", 0, {mod}, c)
MO(layer)       == Action("mo", layer, {}, "")
LM(layer, mod)  == Action("lm", layer, {mod}, "")
LT(layer, c)    == Action("lt", layer, {}, c)
MT(mod, c)      == Action("mt", 0, {mod}, c)
OSM(mod)        == Action("osm", 0, {mod}, "")
OSL(layer)      == Action("osl", layer, {}, "")
TG(layer)       == Action("tg", layer, {}, "")
TO(layer)       == Action("to", layer, {}, "")
DF(layer)       == Action("df", layer, {}, "")
Plain(kind)     == Action(kind, 0, {}, "")
TRNS    == Plain("trans")
NK_TOGG == Plain("nk_togg")
OS_TOGG == Plain("os_togg")

-----------------------------------------------------------------------------
(* Reports: report.c and send_keyboard_report.  k.report[TRUE] holds the   *)
(* NKRO report, k.report[FALSE] the 6KRO one, and k.host what was last sent *)
(* of each.                                                                 *)

\* The host presses what either report holds.
HostKeys(s) == s.host[TRUE].keys \cup s.host[FALSE].keys
HostMods(s) == s.host[TRUE].mods \cup s.host[FALSE].mods

add_key(s, code) ==
  IF s.nkro \/ Cardinality(s.report[FALSE]) < KEYBOARD_REPORT_KEYS
  THEN [s EXCEPT !.report[s.nkro] = @ \cup {code}] ELSE s
del_key(s, code) == [s EXCEPT !.report[s.nkro] = @ \ {code}]

\* Mutant: a one-shot modifier stays on for the keys that follow.
SendKeepsOneshot(s) ==
  [s EXCEPT !.host[s.nkro] = [mods |-> s.real_mods \cup s.weak_mods \cup s.oneshot_mods,
                              keys |-> s.report[s.nkro]]]

\* A report that holds a key uses up the one-shot modifiers.
send_keyboard_report(s) ==
  [s EXCEPT !.host[s.nkro] = [mods |-> s.real_mods \cup s.weak_mods \cup s.oneshot_mods,
                              keys |-> s.report[s.nkro]],
            !.oneshot_mods = IF s.report[s.nkro] = {} THEN @ ELSE {}]

\* A key that is already reported is released first.
register_code(s, code) ==
  LET again == code \in s.report[s.nkro]
      up    == IF again THEN send_keyboard_report(del_key(s, code)) ELSE s
  IN  send_keyboard_report(add_key(up, code))
unregister_code(s, code) == send_keyboard_report(del_key(s, code))

\* Mutant: no report tells the host.
UnregisterSilently(s, mods) == [s EXCEPT !.real_mods = @ \ mods]

register_mods(s, mods)   == send_keyboard_report([s EXCEPT !.real_mods = @ \cup mods])
unregister_mods(s, mods) == send_keyboard_report([s EXCEPT !.real_mods = @ \ mods])

clear_keyboard(s) ==
  send_keyboard_report([s EXCEPT !.real_mods = {}, !.weak_mods = {}, !.report[s.nkro] = {}])

-----------------------------------------------------------------------------
(* Layers: action_layer.c.                                                  *)

layer_on(s, layer)  == [s EXCEPT !.layer_state = @ \cup {layer}]
layer_off(s, layer) == [s EXCEPT !.layer_state = @ \ {layer}]

\* The topmost active layer on which the key is not transparent.
layer_switch_get_layer(s, key) ==
  LET solid == {l \in s.layer_state \cup s.default_layer_state :
                  Keymap[l][key].kind # "trans"}
  IN  IF solid = {} THEN 0 ELSE Max(solid)
layer_switch_get_action(s, key) == Keymap[layer_switch_get_layer(s, key)][key]

\* Mutant: a release looks its action up on the layers of now.
ActionOfNow(s, e) == layer_switch_get_action(s, e.key)

\* get_event_keycode and store_or_get_action: a press notes the layer its
\* action came from, and the release takes the action of that layer.
update_source_layers_cache(s, e) ==
  IF e.pressed THEN [s EXCEPT !.source_layers_cache[e.key] = layer_switch_get_layer(s, e.key)]
               ELSE s
store_or_get_action(s, e) == Keymap[s.source_layers_cache[e.key]][e.key]

-----------------------------------------------------------------------------
(* One-shot layers: action_util.c.  s.oneshot is oneshot_layer_data.        *)

is_oneshot_layer_active(s) == s.oneshot.state # {}
NoOneshot == [layer |-> 0, state |-> {}]

set_oneshot_layer(s, layer) ==
  layer_on([s EXCEPT !.oneshot = [layer |-> layer, state |-> {"PRESSED", "OTHER_KEY_PRESSED"}]],
           layer)

\* Mutant: the layer is left on when the one-shot is over.
ClearKeepsLayer(s, bit) ==
  LET state == s.oneshot.state \ {bit}
  IN  IF state = {} /\ state # s.oneshot.state /\ s.oneshot_enable
      THEN [s EXCEPT !.oneshot = NoOneshot] ELSE [s EXCEPT !.oneshot.state = state]

clear_oneshot_layer_state(s, bit) ==
  LET state == s.oneshot.state \ {bit}
  IN  IF state = {} /\ state # s.oneshot.state /\ s.oneshot_enable
      THEN [layer_off(s, s.oneshot.layer) EXCEPT !.oneshot = NoOneshot]
      ELSE [s EXCEPT !.oneshot.state = state]

\* oneshot_set: the setting changes before the layer is given up.
oneshot_toggle(s) ==
  clear_oneshot_layer_state([s EXCEPT !.oneshot_enable = ~@], "OTHER_KEY_PRESSED")

-----------------------------------------------------------------------------
(* process_action.  A record e has the key, pressed, and the tap count:     *)
(* 0 for a key that is held, 1 for one that was tapped.                     *)

Tapped(e) == e.count > 0

\* case ACT_LMODS, ACT_RMODS: the modifiers of a keycode are weak ones.
process_key(s, e, a) ==
  IF e.pressed
  THEN LET weak == send_keyboard_report([s EXCEPT !.weak_mods = @ \cup a.mods])
       IN  register_code(IF a.mods = {} THEN s ELSE weak, a.code)
  ELSE LET up == unregister_code(s, a.code)
       IN  IF a.mods = {} THEN up
           ELSE send_keyboard_report([up EXCEPT !.weak_mods = @ \ a.mods])
process_mod(s, e, a) ==
  IF e.pressed THEN register_mods(s, a.mods) ELSE unregister_mods(s, a.mods)
process_code(s, e, a) ==
  IF e.pressed THEN register_code(s, a.code) ELSE unregister_code(s, a.code)
process_layer(s, e, a) ==
  IF e.pressed THEN layer_on(s, a.layer) ELSE layer_off(s, a.layer)

process_osm(s, e, a) ==
  IF ~s.oneshot_enable THEN process_mod(s, e, a)
  ELSE IF ~Tapped(e)
  THEN LET held == process_mod(s, e, a)
       IN  IF e.pressed THEN held ELSE [held EXCEPT !.oneshot_mods = @ \ a.mods]
  ELSE IF e.pressed THEN [s EXCEPT !.oneshot_mods = @ \cup a.mods] ELSE s

process_osl(s, e, a) ==
  IF ~s.oneshot_enable THEN process_layer(s, e, a)
  ELSE IF e.pressed THEN set_oneshot_layer(s, a.layer)
  ELSE clear_oneshot_layer_state(s, "PRESSED")

\* Mutant: the layer of a layer-modifier key outlives it.
LmKeepsLayer(s, e, a) ==
  IF e.pressed THEN register_mods(layer_on(s, a.layer), a.mods) ELSE unregister_mods(s, a.mods)

process_lm(s, e, a) ==
  IF e.pressed THEN register_mods(layer_on(s, a.layer), a.mods)
               ELSE layer_off(unregister_mods(s, a.mods), a.layer)

\* case ACT_LAYER: TG and DF act on the release, TO on the press.
process_layer_bitop(s, e, a) ==
  CASE a.kind = "tg" /\ ~e.pressed -> [s EXCEPT !.layer_state = SymDiff(@, {a.layer})]
    [] a.kind = "to" /\ e.pressed  -> [s EXCEPT !.layer_state = {a.layer}]
    [] a.kind = "df" /\ ~e.pressed -> [s EXCEPT !.default_layer_state = {a.layer}]
    [] OTHER -> s

Switch(s, e, a) ==
  CASE a.kind = "key" -> process_key(s, e, a)
    [] a.kind = "mod" -> process_mod(s, e, a)
    [] a.kind = "mt"  -> IF Tapped(e) THEN process_code(s, e, a) ELSE process_mod(s, e, a)
    [] a.kind = "lt"  -> IF Tapped(e) THEN process_code(s, e, a) ELSE process_layer(s, e, a)
    [] a.kind = "mo"  -> process_layer(s, e, a)
    [] a.kind = "lm"  -> process_lm(s, e, a)
    [] a.kind = "osm" -> process_osm(s, e, a)
    [] a.kind = "osl" -> process_osl(s, e, a)
    [] a.kind \in {"tg", "to", "df"} -> process_layer_bitop(s, e, a)
    [] OTHER -> s

\* Every key but a modifier ends a one-shot layer.
EndsOneshot(e, a) == a.kind \notin {"mod", "osm"} /\ ~(a.kind = "mt" /\ ~Tapped(e))

\* A key that has ended a one-shot layer is released at once, on that layer.
ReleasedAtOnce(s, e) ==
  LET back  == layer_on(s, s.oneshot.layer)
      up    == [e EXCEPT !.pressed = FALSE]
      freed == Switch(back, up, store_or_get_action(back, up))
  IN  layer_off(freed, freed.oneshot.layer)

process_action(s, e, a) ==
  LET ends    == is_oneshot_layer_active(s) /\ e.pressed /\ EndsOneshot(e, a) /\ s.oneshot_enable
      cleared == IF ends THEN clear_oneshot_layer_state(s, "OTHER_KEY_PRESSED") ELSE s
      done    == Switch(cleared, e, a)
  IN  IF ends /\ ~is_oneshot_layer_active(cleared) /\ "PRESSED" \notin done.oneshot.state
      THEN ReleasedAtOnce(done, e) ELSE done

\* Mutant: the keys of the report that is given up stay pressed.
NkroKeepsKeys(s) ==
  clear_keyboard([s EXCEPT !.nkro = ~s.eeprom_nkro, !.eeprom_nkro = ~@])

\* process_magic: the setting is taken from the EEPROM, turned over and saved.
nkro_toggle(s) ==
  LET cleared == clear_keyboard([s EXCEPT !.nkro = s.eeprom_nkro])
  IN  clear_keyboard([cleared EXCEPT !.nkro = ~@, !.eeprom_nkro = ~@])

\* History: what each key that is held has done, as long as it is held, the layers
\* whose toggle key was typed an odd number of times, and the layers that are still
\* on though the release of their key was lost with the waiting buffer (Enqueue).
Note(s, e, a) ==
  [s EXCEPT !.acted[e.key] = IF e.pressed THEN <<[action |-> a, count |-> e.count]>> ELSE << >>,
            !.toggled = IF ~e.pressed /\ a.kind = "tg" THEN SymDiff(@, {a.layer}) ELSE @,
            !.forgotten = @ \cap s.layer_state]

\* The layers that the given keys hold on.
HoldsLayer(h) == h.action.kind \in {"mo", "lm", "osl"} \/ (h.action.kind = "lt" /\ h.count = 0)
LayersHeld(s, keys) ==
  {h.action.layer : h \in {g \in UNION {Range(s.acted[x]) : x \in keys} : HoldsLayer(g)}}

process_record(s0, e) ==
  LET s == update_source_layers_cache(s0, e)
      a == store_or_get_action(s, e)
  IN  IF e.pressed /\ a.kind = "nk_togg"
      THEN LET t == nkro_toggle(s)
           IN  IF t.oneshot_enable THEN clear_oneshot_layer_state(t, "OTHER_KEY_PRESSED") ELSE t
      ELSE Note(process_action(IF e.pressed /\ a.kind = "os_togg" THEN oneshot_toggle(s) ELSE s,
                               e, a), e, a)

-----------------------------------------------------------------------------
(* action_exec and the order in which action_tapping.c lets events through. *)

Event(key, pressed, count) == [key |-> key, pressed |-> pressed, count |-> count]

is_tap_action(a) == a.kind \in {"mt", "lt", "osm", "osl"}

\* The release of a modifier or layer key waits for the undecided key.
Retained(a, e) ==
  \/ a.kind \in {"mod", "lt", "mo"}
  \/ a.kind \in {"mt", "osm"} /\ ~Tapped(e)

waiting_buffer_typed(key) == \E i \in DOMAIN waiting : waiting[i].key = key /\ waiting[i].pressed

\* The release of a key pressed before the undecided one need not wait.
Passes(s, e) ==
  /\ ~e.pressed /\ e.key # tapping /\ ~waiting_buffer_typed(e.key)
  /\ ~Retained(layer_switch_get_action(s, e.key), e)

\* How action_tapping_process goes on: the record is done, or it waits.
Done(s, undecided, rest) ==
  k' = s /\ tapping' = undecided /\ waiting' = rest /\ draining' = (rest # << >>)
Enqueue(s, e, undecided) ==
  IF Len(waiting) = WAITING_BUFFER_SIZE - 1
  THEN Done([clear_keyboard(s) EXCEPT
               !.acted = [x \in Keys |-> IF x \in down' THEN @[x] ELSE << >>],
               !.forgotten = @ \cup LayersHeld(s, Keys \ down')],
            NoKey, << >>)
  ELSE Done(s, undecided, Append(waiting, e))

\* action_exec with a press; the layer cache is written before tapping.
Press(key) ==
  /\ ~draining /\ key \notin down /\ Len(waiting) < MaxWaiting
  /\ down' = down \cup {key}
  /\ LET e == Event(key, TRUE, 0)
         s == update_source_layers_cache([k EXCEPT !.weak_mods = {}], e)
     IN  IF tapping # NoKey THEN Enqueue(s, e, tapping)
         ELSE IF is_tap_action(layer_switch_get_action(s, key)) THEN Done(s, key, waiting)
         ELSE Done(process_record(s, e), NoKey, waiting)

\* The undecided key is released: it was a tap.
FirstTap ==
  Enqueue(process_record(k, Event(tapping, TRUE, 1)), Event(tapping, FALSE, 1), NoKey)

Release(key) ==
  /\ ~draining /\ key \in down /\ Len(waiting) < MaxWaiting
  /\ down' = down \ {key}
  /\ LET e == Event(key, FALSE, 0)
     IN  IF key = tapping THEN FirstTap
         ELSE IF tapping = NoKey \/ Passes(k, e) THEN Done(process_record(k, e), tapping, waiting)
         ELSE Enqueue(k, e, tapping)

\* The term of the undecided key is over: it is held.
TappingTerm ==
  /\ tapping # NoKey /\ ~draining
  /\ Done(process_record(k, Event(tapping, TRUE, 0)), NoKey, waiting)
  /\ UNCHANGED down

\* The next record that waits.  A tap key becomes the undecided one, unless its
\* release is already waiting (waiting_buffer_scan_tap): with one TAPPING_TERM for
\* all keys, a release that had to wait is within the term.
Drain ==
  /\ draining
  /\ LET e    == Head(waiting)
         rest == Tail(waiting)
         ups  == {i \in DOMAIN rest : rest[i].key = e.key /\ ~rest[i].pressed}
     IN  IF tapping # NoKey
         THEN IF Passes(k, e) THEN Done(process_record(k, e), tapping, rest)
              ELSE draining' = FALSE /\ UNCHANGED <<k, tapping, waiting>>
         ELSE IF e.pressed /\ is_tap_action(layer_switch_get_action(k, e.key))
         THEN IF ups = {} THEN Done(k, e.key, rest)
              ELSE Done(process_record(k, [e EXCEPT !.count = 1]), NoKey,
                        [rest EXCEPT ![Min(ups)].count = 1])
         ELSE Done(process_record(k, e), NoKey, rest)
  /\ UNCHANGED down

\* A tick after ONESHOT_TIMEOUT.
OneshotLayerTimedOut ==
  /\ build.OneshotTimeout /\ ~draining /\ k.oneshot_enable /\ is_oneshot_layer_active(k)
  /\ k' = clear_oneshot_layer_state(k, "OTHER_KEY_PRESSED")
  /\ UNCHANGED <<tapping, waiting, draining, down>>
OneshotModsTimedOut ==
  /\ build.OneshotTimeout /\ ~draining /\ k.oneshot_enable /\ k.oneshot_mods # {}
  /\ k' = [k EXCEPT !.oneshot_mods = {}] /\ UNCHANGED <<tapping, waiting, draining, down>>

\* wireless_enter_bluetooth_pin_code_entry and its opposite.
PinCodeEntry ==
  /\ build.PinCode /\ ~draining
  /\ k' = [k EXCEPT !.nkro = FALSE] /\ UNCHANGED <<tapping, waiting, draining, down>>
PinCodeExit ==
  /\ build.PinCode /\ ~draining
  /\ k' = [k EXCEPT !.nkro = k.eeprom_nkro] /\ UNCHANGED <<tapping, waiting, draining, down>>

Init ==
  /\ build \in Builds
  /\ \E nkro \in BOOLEAN :
       k = [layer_state |-> {}, default_layer_state |-> {0},
            source_layers_cache |-> [x \in Keys |-> 0],
            real_mods |-> {}, weak_mods |-> {}, oneshot_mods |-> {},
            oneshot |-> NoOneshot, oneshot_enable |-> TRUE,
            nkro |-> nkro, eeprom_nkro |-> nkro,
            report |-> [n \in BOOLEAN |-> {}],
            host |-> [n \in BOOLEAN |-> [mods |-> {}, keys |-> {}]],
            acted |-> [x \in Keys |-> << >>], toggled |-> {}, forgotten |-> {}]
  /\ tapping = NoKey /\ waiting = << >> /\ draining = FALSE /\ down = {}

Next ==
  /\ UNCHANGED build
  /\ \/ \E key \in Keys : Press(key) \/ Release(key)
     \/ TappingTerm \/ Drain \/ OneshotLayerTimedOut \/ OneshotModsTimedOut
     \/ PinCodeEntry \/ PinCodeExit

Spec == Init /\ [][Next]_vars
-----------------------------------------------------------------------------
(* What must hold.                                                          *)

Records == {Event(x, p, n) : x \in Keys, p \in BOOLEAN, n \in 0 .. 1}

\* The layers stay in range, a 6KRO report never holds more keys than it has
\* room for, and the buffer never more records than it has slots.
TypeOK ==
  /\ build \in Builds
  /\ k.layer_state \subseteq Layers /\ k.default_layer_state \subseteq Layers
  /\ k.source_layers_cache \in [Keys -> Layers] /\ k.oneshot.layer \in Layers
  /\ Cardinality(k.report[FALSE]) <= KEYBOARD_REPORT_KEYS
  /\ tapping \in Keys \cup {NoKey} /\ draining \in BOOLEAN /\ down \subseteq Keys
  /\ Range(waiting) \subseteq Records /\ Len(waiting) < WAITING_BUFFER_SIZE

\* What the keys that are held account for.
Held       == UNION {Range(k.acted[x]) : x \in Keys}
HeldCodes  == {h.action.code : h \in {g \in Held : g.action.kind = "key" \/ g.count = 1}}
HeldMods   == UNION {h.action.mods : h \in {g \in Held : g.action.kind # "key"}}
HeldLayers == LayersHeld(k, Keys)

ActionsOf(key)  == {Keymap[l][key] : l \in Layers}
ActionsInMap    == UNION {ActionsOf(x) : x \in Keys}
Kinds           == {a.kind : a \in ActionsInMap}
LayersOn(kinds) == {a.layer : a \in {b \in ActionsInMap : b.kind \in kinds}}

\* The host presses no key and the firmware holds no modifier that no held key
\* accounts for, through layer changes between a press and its release, NKRO
\* switched in between, and a full waiting buffer ("Make sure the action
\* triggered when the key is released is the same one as the one triggered on
\* press", action_layer.c).  Pin code entry is left out: it takes NKRO away
\* without clearing the report.
NoPhantomKey ==
  ~build.PinCode => HostKeys(k) \subseteq HeldCodes /\ k.real_mods \subseteq HeldMods

\* On keymaps without one-shot modifiers, when every key has been released the
\* host presses no modifier: whatever takes one away sends a report without it.
NoPhantomModifier ==
  "osm" \notin Kinds /\ Held = {} /\ waiting = << >> => HostMods(k) = {}

\* The keymaps on which a layer has one owner: no TO; no layer that one key toggles
\* and another holds; one one-shot layer, and neither a toggle nor OS_TOGG beside it;
\* and, where events may wait for a tap key, a layer key that is a layer key of the
\* same layer, or transparent, on every layer.  Each condition is needed: without it
\* there are keymaps on which the code leaves a layer on that no key accounts for.
LayersApart ==
  /\ "to" \notin Kinds
  /\ LayersOn({"tg"}) \cap LayersOn({"mo", "lm", "lt", "osl"}) = {}
  /\ "osl" \in Kinds => {"tg", "os_togg"} \cap Kinds = {}
  /\ \A l, m \in LayersOn({"osl"}) : l = m
  /\ (\E a \in ActionsInMap : is_tap_action(a)) =>
       \A x \in Keys : \A a, b \in ActionsOf(x) \ {TRNS} :
          a.kind \in {"mo", "lm", "lt", "osl"} => a = b

\* On such keymaps a layer is on only while a held key, a pending one-shot or a toggle
\* accounts for it ("As soon as you let go of the key, the layer is deactivated",
\* docs/feature_layers.md), or its key's release was lost when the waiting buffer
\* overflowed: clear_keyboard does not clear the layers.  It goes off with the next
\* use of a key of that layer.
NoPhantomLayer ==
  LayersApart =>
    k.layer_state \subseteq HeldLayers \cup k.toggled \cup k.forgotten
      \cup (IF is_oneshot_layer_active(k) THEN {k.oneshot.layer} ELSE {})

\* A one-shot modifier is for one key: the step that lets the host see a new key
\* leaves no one-shot modifier behind for the next.
OneshotForOneKey ==
  [][HostKeys(k') \ HostKeys(k) # {} => k'.oneshot_mods = {}]_vars
=============================================================================
