----------------------------- MODULE MCActions -----------------------------
(* Keymaps for model checking Actions: a row is a layer, a column a key.    *)
EXTENDS Actions

MapOf(rows) == [l \in 0 .. Len(rows) - 1 |-> rows[l + 1]]

\* Momentary, layer-tap, layer-modifier and toggle keys above two that differ.
LayerMap == MapOf(<<
  <<MO(1), LT(1, "c"), KC("a"),           ModKey("S"), LM(1, "C"), TG(2)>>,
  <<TRNS,  TRNS,       Shifted("S", "b"), TRNS,        TRNS,       TRNS>>,
  <<TRNS,  TRNS,       KC("d"),           TRNS,        TRNS,       TRNS>> >>)

\* Moves between layers and default layers, and the NKRO switch.
MoveMap == MapOf(<<
  <<TO(1), MT("C", "c"), KC("a"), ModKey("S"), NK_TOGG>>,
  <<TO(0), TRNS,         KC("b"), TRNS,        DF(1)>> >>)

\* One-shot layer and modifier keys beside a plain and a modifier key.
OneshotMap == MapOf(<<
  <<OSL(1), OSM("S"), KC("a"), ModKey("A")>>,
  <<TRNS,   TRNS,     KC("b"), TRNS>> >>)

\* A keymap without tap keys, as the keyboard comes with: momentary layers above the
\* base and the NKRO switch; here a toggled layer and a layer-modifier key as well.
FnMap == MapOf(<<
  <<MO(1), KC("a"),           ModKey("S"), TG(2)>>,
  <<TRNS,  Shifted("A", "b"), TRNS,        NK_TOGG>>,
  <<TRNS,  LM(1, "C"),        KC("d"),     TRNS>> >>)

\* Layer keys of every kind in a waiting buffer that is soon full.
CrowdedMap == MapOf(<<
  <<MO(1), LT(2, "c"), LM(1, "S"), KC("a")>>,
  <<TRNS,  TRNS,       TRNS,       KC("b")>>,
  <<TRNS,  TRNS,       TRNS,       TRNS>> >>)

Build(keymap, keys, size, timeout, pincode) ==
  [Keymap |-> keymap, KEYBOARD_REPORT_KEYS |-> keys, WAITING_BUFFER_SIZE |-> size,
   OneshotTimeout |-> timeout, PinCode |-> pincode]

\* A report that is soon full, a buffer that overflows, timeouts and pin codes.
AllBuilds == {Build(LayerMap, 1, 8, FALSE, FALSE), Build(MoveMap, 1, 3, FALSE, FALSE),
              Build(FnMap, 1, 8, FALSE, FALSE), Build(CrowdedMap, 6, 3, FALSE, FALSE),
              Build(OneshotMap, 6, 8, TRUE, TRUE)}
=============================================================================
