---------------------------- MODULE ActionsProofs ----------------------------
(***************************************************************************)
(* Proofs about Actions for every report size and waiting buffer: first    *)
(* what holds for every keymap, then what holds for the keymaps without    *)
(* tap keys.                                                               *)
(***************************************************************************)
EXTENDS Actions, FiniteSetTheorems, WellFoundedInduction, TLAPS

-----------------------------------------------------------------------------
(***************************************************************************)
(* The reports.  Of the keyboard's state only the reports, what the host   *)
(* saw of them and the one-shot modifiers matter here.                     *)
(***************************************************************************)

Fields == {"report", "host", "oneshot_mods", "nkro", "eeprom_nkro"}

\* The host knows the keys of both reports.
Told(s) ==
  /\ Fields \subseteq DOMAIN s
  /\ DOMAIN s.report = BOOLEAN /\ DOMAIN s.host = BOOLEAN
  /\ s.nkro \in BOOLEAN /\ s.eeprom_nkro \in BOOLEAN
  /\ \A n \in BOOLEAN : s.host[n].keys = s.report[n]

\* The host sees a new key only without one-shot modifiers for the next; where it
\* Stays, none is added either.
OneKey(s, r) == Told(r) /\ (HostKeys(r) \subseteq HostKeys(s) \/ r.oneshot_mods = {})
Stays(s, r) == OneKey(s, r) /\ r.oneshot_mods \subseteq s.oneshot_mods

\* Neither the reports nor what the host saw changes.
Silent(s, r) ==
  /\ DOMAIN r = DOMAIN s /\ r.report = s.report /\ r.host = s.host
  /\ r.oneshot_mods = s.oneshot_mods
  /\ r.nkro \in BOOLEAN /\ r.eeprom_nkro \in BOOLEAN

LEMMA SilentStays ==
  ASSUME NEW s, NEW r, Told(s), Silent(s, r)
  PROVE  Stays(s, r)
BY DEF Told, Silent, Stays, OneKey, HostKeys

LEMMA StaysAfter ==
  ASSUME NEW s, NEW r, NEW q, OneKey(s, r), Stays(r, q)
  PROVE  OneKey(s, q) /\ (Stays(s, r) => Stays(s, q))
BY DEF Stays, OneKey

LEMMA HostKeysOf ==
  ASSUME NEW s, NEW x
  PROVE  x \in HostKeys(s) <=> \E n \in BOOLEAN : x \in s.host[n].keys
BY DEF HostKeys

\* A report is sent that has changed in one of the two modes only.
LEMMA SendStays ==
  ASSUME NEW s, NEW r, Told(s), DOMAIN r = DOMAIN s, r.host = s.host, DOMAIN r.report = BOOLEAN,
         r.oneshot_mods = s.oneshot_mods, r.nkro = s.nkro, r.eeprom_nkro = s.eeprom_nkro,
         \A n \in BOOLEAN : n # s.nkro => r.report[n] = s.report[n]
  PROVE  Stays(s, send_keyboard_report(r))
<1> DEFINE q == send_keyboard_report(r)
           b == s.nkro
<1>1. /\ b \in BOOLEAN /\ Fields \subseteq DOMAIN r /\ DOMAIN r.host = BOOLEAN
      /\ r.eeprom_nkro \in BOOLEAN
  BY DEF Told
<1>2. /\ DOMAIN q = DOMAIN r /\ q.report = r.report /\ q.nkro = r.nkro
      /\ q.eeprom_nkro = r.eeprom_nkro
      /\ q.host = [r.host EXCEPT ![b] = [mods |-> r.real_mods \cup r.weak_mods \cup r.oneshot_mods,
                                         keys |-> r.report[b]]]
      /\ q.oneshot_mods = IF r.report[b] = {} THEN r.oneshot_mods ELSE {}
  BY <1>1 DEF send_keyboard_report, Fields
<1> HIDE DEF q
<1>3. /\ DOMAIN q.host = BOOLEAN /\ q.host[b].keys = r.report[b]
      /\ \A n \in BOOLEAN : n # b => q.host[n] = r.host[n]
  BY <1>1, <1>2
<1>4. \A n \in BOOLEAN : q.host[n].keys = q.report[n]
  BY <1>2, <1>3 DEF Told
<1>5. Told(q)
  BY <1>1, <1>2, <1>3, <1>4 DEF Told
<1>6. ASSUME r.report[b] = {} PROVE HostKeys(q) \subseteq HostKeys(s)
  BY <1>3, <1>6, HostKeysOf
<1>7. q.oneshot_mods = {} \/ (r.report[b] = {} /\ q.oneshot_mods = s.oneshot_mods)
  BY <1>2
<1> QED
  BY <1>5, <1>6, <1>7 DEF Stays, OneKey, q

LEMMA KeyStays ==
  ASSUME NEW s, Told(s), NEW code
  PROVE  /\ Stays(s, register_code(s, code)) /\ Stays(s, unregister_code(s, code))
<1>1. ASSUME NEW t, Told(t)
      PROVE  Stays(t, send_keyboard_report(del_key(t, code)))
  <2> DEFINE r == del_key(t, code)
  <2>1. /\ DOMAIN r = DOMAIN t /\ r.host = t.host /\ r.oneshot_mods = t.oneshot_mods
        /\ r.nkro = t.nkro /\ r.eeprom_nkro = t.eeprom_nkro
        /\ r.report = [t.report EXCEPT ![t.nkro] = @ \ {code}]
    BY <1>1 DEF del_key, Told, Fields
  <2> HIDE DEF r
  <2>2. DOMAIN r.report = BOOLEAN /\ \A n \in BOOLEAN : n # t.nkro => r.report[n] = t.report[n]
    BY <1>1, <2>1 DEF Told
  <2>3. Stays(t, send_keyboard_report(r))
    BY <1>1, <2>1, <2>2, SendStays
  <2> QED
    BY <2>3 DEF r
<1>2. ASSUME NEW t, Told(t)
      PROVE  Stays(t, send_keyboard_report(add_key(t, code)))
  <2> DEFINE r == add_key(t, code)
  <2>1. /\ DOMAIN r = DOMAIN t /\ r.host = t.host /\ r.oneshot_mods = t.oneshot_mods
        /\ r.nkro = t.nkro /\ r.eeprom_nkro = t.eeprom_nkro
        /\ r.report = t.report \/ r.report = [t.report EXCEPT ![t.nkro] = @ \cup {code}]
    BY <1>2 DEF add_key, Told, Fields
  <2> HIDE DEF r
  <2>2. DOMAIN r.report = BOOLEAN /\ \A n \in BOOLEAN : n # t.nkro => r.report[n] = t.report[n]
    BY <1>2, <2>1 DEF Told
  <2>3. Stays(t, send_keyboard_report(r))
    BY <1>2, <2>1, <2>2, SendStays
  <2> QED
    BY <2>3 DEF r
<1>3. Stays(s, s)
  BY DEF Stays, OneKey
<1>4. PICK up : Stays(s, up) /\ register_code(s, code) = send_keyboard_report(add_key(up, code))
  BY <1>1, <1>3 DEF register_code
<1>5. Stays(up, send_keyboard_report(add_key(up, code)))
  BY <1>2, <1>4 DEF Stays, OneKey
<1>6. Stays(s, register_code(s, code))
  BY <1>4, <1>5, StaysAfter DEF Stays
<1> QED
  BY <1>1, <1>6 DEF unregister_code

\* Modifiers change and the report is sent.
LEMMA ModsStay ==
  ASSUME NEW s, Told(s), NEW mods
  PROVE  /\ Stays(s, register_mods(s, mods)) /\ Stays(s, unregister_mods(s, mods))
         /\ Stays(s, send_keyboard_report([s EXCEPT !.weak_mods = @ \cup mods]))
         /\ Stays(s, send_keyboard_report([s EXCEPT !.weak_mods = @ \ mods]))
         /\ Stays(s, clear_keyboard(s))
<1>1. ASSUME NEW r, DOMAIN r = DOMAIN s, r.report = s.report, r.host = s.host,
             r.oneshot_mods = s.oneshot_mods, r.nkro = s.nkro, r.eeprom_nkro = s.eeprom_nkro
      PROVE  Stays(s, send_keyboard_report(r))
  BY <1>1, SendStays DEF Told
<1>2. ASSUME NEW m
      PROVE  /\ Stays(s, send_keyboard_report([s EXCEPT !.real_mods = m]))
             /\ Stays(s, send_keyboard_report([s EXCEPT !.weak_mods = m]))
  <2> DEFINE r == [s EXCEPT !.real_mods = m]
             q == [s EXCEPT !.weak_mods = m]
  <2>1. /\ DOMAIN r = DOMAIN s /\ r.report = s.report /\ r.host = s.host
        /\ r.oneshot_mods = s.oneshot_mods /\ r.nkro = s.nkro /\ r.eeprom_nkro = s.eeprom_nkro
    BY DEF Told, Fields
  <2>2. /\ DOMAIN q = DOMAIN s /\ q.report = s.report /\ q.host = s.host
        /\ q.oneshot_mods = s.oneshot_mods /\ q.nkro = s.nkro /\ q.eeprom_nkro = s.eeprom_nkro
    BY DEF Told, Fields
  <2> HIDE DEF r, q
  <2>3. Stays(s, send_keyboard_report(r)) /\ Stays(s, send_keyboard_report(q))
    BY <1>1, <2>1, <2>2
  <2> QED
    BY <2>3 DEF r, q
<1> HIDE DEF send_keyboard_report
<1>3. /\ Stays(s, register_mods(s, mods)) /\ Stays(s, unregister_mods(s, mods))
      /\ Stays(s, send_keyboard_report([s EXCEPT !.weak_mods = @ \cup mods]))
      /\ Stays(s, send_keyboard_report([s EXCEPT !.weak_mods = @ \ mods]))
  <2>1. Stays(s, send_keyboard_report([s EXCEPT !.weak_mods = s.weak_mods \cup mods]))
    BY <1>2
  <2>2. Stays(s, send_keyboard_report([s EXCEPT !.weak_mods = s.weak_mods \ mods]))
    BY <1>2
  <2>3. Stays(s, register_mods(s, mods))
    BY <1>2 DEF register_mods
  <2>4. Stays(s, unregister_mods(s, mods))
    BY <1>2 DEF unregister_mods
  <2> QED
    BY <2>1, <2>2, <2>3, <2>4
<1>4. Stays(s, clear_keyboard(s))
  <2> DEFINE r == [s EXCEPT !.real_mods = {}, !.weak_mods = {}, !.report[s.nkro] = {}]
  <2>1. /\ DOMAIN r = DOMAIN s /\ r.host = s.host /\ r.oneshot_mods = s.oneshot_mods
        /\ r.nkro = s.nkro /\ r.eeprom_nkro = s.eeprom_nkro
        /\ r.report = [s.report EXCEPT ![s.nkro] = {}]
    BY DEF Told, Fields
  <2> HIDE DEF r
  <2>2. DOMAIN r.report = BOOLEAN /\ \A n \in BOOLEAN : n # s.nkro => r.report[n] = s.report[n]
    BY <2>1 DEF Told
  <2>3. Stays(s, send_keyboard_report(r))
    BY <2>1, <2>2, SendStays
  <2> QED
    BY <2>3 DEF r, clear_keyboard
<1> QED
  BY <1>2, <1>3, <1>4

\* Layers, caches and histories are of no account to the reports.
LEMMA LayersSilent ==
  ASSUME NEW s, Told(s), NEW layer, NEW bit, NEW e, NEW a
  PROVE  /\ Silent(s, layer_on(s, layer)) /\ Silent(s, layer_off(s, layer))
         /\ Silent(s, set_oneshot_layer(s, layer))
         /\ Silent(s, clear_oneshot_layer_state(s, bit)) /\ Silent(s, oneshot_toggle(s))
         /\ Silent(s, update_source_layers_cache(s, e)) /\ Silent(s, Note(s, e, a))
         /\ Silent(s, process_layer_bitop(s, e, a))
<1>1. s.nkro \in BOOLEAN /\ s.eeprom_nkro \in BOOLEAN
  BY DEF Told
<1>2. Silent(s, layer_on(s, layer)) /\ Silent(s, layer_off(s, layer))
  BY <1>1 DEF Silent, layer_on, layer_off
<1>3. Silent(s, set_oneshot_layer(s, layer))
  BY <1>1 DEF Silent, set_oneshot_layer, layer_on
<1>4. ASSUME NEW t, t.nkro \in BOOLEAN, t.eeprom_nkro \in BOOLEAN
      PROVE  Silent(t, clear_oneshot_layer_state(t, bit))
             /\ Silent(t, clear_oneshot_layer_state(t, "OTHER_KEY_PRESSED"))
  BY <1>4 DEF Silent, clear_oneshot_layer_state, layer_off
<1>5. Silent(s, oneshot_toggle(s))
  <2> DEFINE t == [s EXCEPT !.oneshot_enable = ~@]
  <2>1. Silent(s, t)
    BY <1>1 DEF Silent
  <2> HIDE DEF t
  <2>2. Silent(t, clear_oneshot_layer_state(t, "OTHER_KEY_PRESSED"))
    BY <1>4, <2>1 DEF Silent
  <2>3. oneshot_toggle(s) = clear_oneshot_layer_state(t, "OTHER_KEY_PRESSED")
    BY DEF oneshot_toggle, t
  <2> QED
    BY <2>1, <2>2, <2>3 DEF Silent
<1>6. Silent(s, update_source_layers_cache(s, e)) /\ Silent(s, Note(s, e, a))
  BY <1>1 DEF Silent, update_source_layers_cache, Note
<1>7. Silent(s, process_layer_bitop(s, e, a))
  BY <1>1 DEF Silent, process_layer_bitop
<1> QED
  BY <1>1, <1>2, <1>3, <1>4, <1>5, <1>6, <1>7

-----------------------------------------------------------------------------
(* process_action, by the kind of the action.                              *)

LEMMA StaysTwice ==
  ASSUME NEW s, NEW r, NEW q, Stays(s, r), Stays(r, q)
  PROVE  Stays(s, q)
BY StaysAfter DEF Stays

LEMMA KindStays ==
  ASSUME NEW s, Told(s), NEW e, NEW a
  PROVE  /\ Stays(s, s) /\ Stays(s, process_key(s, e, a)) /\ Stays(s, process_mod(s, e, a))
         /\ Stays(s, process_code(s, e, a)) /\ Stays(s, process_layer(s, e, a))
         /\ Stays(s, process_lm(s, e, a)) /\ Stays(s, process_osl(s, e, a))
         /\ Stays(s, process_layer_bitop(s, e, a))
<1>1. \A t : Stays(s, t) => Told(t)
  BY DEF Stays, OneKey
<1>2. Stays(s, s)
  BY DEF Stays, OneKey
<1>3. Stays(s, process_key(s, e, a))
  <2> DEFINE weak == send_keyboard_report([s EXCEPT !.weak_mods = @ \cup a.mods])
             d == IF a.mods = {} THEN s ELSE weak
             up == unregister_code(s, a.code)
  <2>1. Stays(s, d) /\ Stays(s, up)
    BY <1>2, ModsStay, KeyStays
  <2>2. Stays(d, register_code(d, a.code))
    BY <1>1, <2>1, KeyStays
  <2>3. Stays(up, send_keyboard_report([up EXCEPT !.weak_mods = @ \ a.mods]))
    BY <1>1, <2>1, ModsStay
  <2>4. Stays(s, register_code(d, a.code))
    BY <2>1, <2>2, StaysTwice
  <2>5. Stays(s, send_keyboard_report([up EXCEPT !.weak_mods = @ \ a.mods]))
    BY <2>1, <2>3, StaysTwice
  <2> QED
    BY <2>1, <2>4, <2>5 DEF process_key
<1>4. Stays(s, process_mod(s, e, a)) /\ Stays(s, process_code(s, e, a))
  BY ModsStay, KeyStays DEF process_mod, process_code
<1>5. Stays(s, layer_on(s, a.layer)) /\ Stays(s, layer_off(s, a.layer))
  BY LayersSilent, SilentStays
<1>6. Stays(s, process_layer(s, e, a))
  BY <1>5 DEF process_layer
<1>7. Stays(s, process_lm(s, e, a))
  <2> DEFINE on == layer_on(s, a.layer)
             up == unregister_mods(s, a.mods)
  <2>1. Stays(on, register_mods(on, a.mods))
    BY <1>1, <1>5, ModsStay
  <2>2. Stays(s, up)
    BY ModsStay
  <2>3. Stays(up, layer_off(up, a.layer))
    BY <1>1, <2>2, LayersSilent, SilentStays
  <2>4. Stays(s, register_mods(on, a.mods))
    BY <1>5, <2>1, StaysTwice
  <2>5. Stays(s, layer_off(up, a.layer))
    BY <2>2, <2>3, StaysTwice
  <2> QED
    BY <2>4, <2>5 DEF process_lm
<1>8. Stays(s, process_osl(s, e, a))
  <2>1. /\ Stays(s, set_oneshot_layer(s, a.layer))
        /\ Stays(s, clear_oneshot_layer_state(s, "PRESSED"))
    BY LayersSilent, SilentStays
  <2> QED
    BY <1>6, <2>1 DEF process_osl
<1>9. Stays(s, process_layer_bitop(s, e, a))
  BY LayersSilent, SilentStays
<1> QED
  BY <1>2, <1>3, <1>4, <1>6, <1>7, <1>8, <1>9

\* Only a tapped one-shot key adds a one-shot modifier, and the host sees no key then.
LEMMA OsmOneKey ==
  ASSUME NEW s, Told(s), NEW e, NEW a
  PROVE  /\ OneKey(s, process_osm(s, e, a))
         /\ ~e.pressed => Stays(s, process_osm(s, e, a))
<1>1. Stays(s, process_mod(s, e, a)) /\ Stays(s, s)
  BY KindStays
<1>2. ASSUME NEW t, Told(t), NEW m
      PROVE  /\ Told([t EXCEPT !.oneshot_mods = m])
             /\ HostKeys([t EXCEPT !.oneshot_mods = m]) = HostKeys(t)
             /\ [t EXCEPT !.oneshot_mods = m].oneshot_mods = m
  BY <1>2 DEF Told, HostKeys, Fields
<1> DEFINE held == process_mod(s, e, a)
           off == [held EXCEPT !.oneshot_mods = @ \ a.mods]
           on == [s EXCEPT !.oneshot_mods = @ \cup a.mods]
<1>3. Stays(held, off)
  BY <1>1, <1>2 DEF Stays, OneKey
<1>4. Stays(s, off)
  BY <1>1, <1>3, StaysTwice
<1>5. OneKey(s, on)
  BY <1>2 DEF OneKey
<1>6. \/ process_osm(s, e, a) \in {held, off, s}
      \/ e.pressed /\ process_osm(s, e, a) = on
  BY DEF process_osm
<1> HIDE DEF held, off, on
<1> QED
  BY <1>1, <1>4, <1>5, <1>6 DEF Stays, held

LEMMA SwitchOneKey ==
  ASSUME NEW s, Told(s), NEW e, NEW a
  PROVE  /\ OneKey(s, Switch(s, e, a))
         /\ ~e.pressed \/ a.kind # "osm" => Stays(s, Switch(s, e, a))
<1>1. \/ a.kind = "osm" /\ Switch(s, e, a) = process_osm(s, e, a)
      \/ /\ a.kind # "osm"
         /\ Switch(s, e, a) \in
              {process_key(s, e, a), process_mod(s, e, a), process_code(s, e, a),
               process_layer(s, e, a), process_lm(s, e, a), process_osl(s, e, a),
               process_layer_bitop(s, e, a), s}
  <2> HIDE DEF process_key, process_mod, process_code, process_layer, process_lm, process_osl,
               process_osm, process_layer_bitop
  <2>1. CASE a.kind = "osm"
    BY <2>1 DEF Switch
  <2>2. CASE a.kind \in {"key", "mod", "mo", "lm", "osl"}
    BY <2>2 DEF Switch
  <2>3. CASE a.kind \in {"mt", "lt"}
    BY <2>3 DEF Switch
  <2>4. CASE a.kind \in {"tg", "to", "df"}
    BY <2>4 DEF Switch
  <2>5. CASE a.kind \notin {"osm", "key", "mod", "mo", "lm", "osl", "mt", "lt", "tg", "to", "df"}
    BY <2>5 DEF Switch
  <2> QED
    BY <2>1, <2>2, <2>3, <2>4, <2>5
<1>2. CASE a.kind = "osm" /\ Switch(s, e, a) = process_osm(s, e, a)
  BY <1>2, OsmOneKey
<1>3. CASE a.kind # "osm" /\ Stays(s, Switch(s, e, a))
  BY <1>3 DEF Stays
<1> QED
  BY <1>1, <1>2, <1>3, KindStays

LEMMA ActionOneKey ==
  ASSUME NEW s, Told(s), NEW e, "pressed" \in DOMAIN e, NEW a
  PROVE  OneKey(s, process_action(s, e, a))
<1> DEFINE ends    == is_oneshot_layer_active(s) /\ e.pressed /\ EndsOneshot(e, a) /\ s.oneshot_enable
           cleared == IF ends THEN clear_oneshot_layer_state(s, "OTHER_KEY_PRESSED") ELSE s
           done    == Switch(cleared, e, a)
           back    == layer_on(done, done.oneshot.layer)
           up      == [e EXCEPT !.pressed = FALSE]
           freed   == Switch(back, up, store_or_get_action(back, up))
           off     == layer_off(freed, freed.oneshot.layer)
<1>1. process_action(s, e, a) =
        IF ends /\ ~is_oneshot_layer_active(cleared) /\ "PRESSED" \notin done.oneshot.state
        THEN off ELSE done
  BY DEF process_action, ReleasedAtOnce
<1>2. ~up.pressed /\ (ends => a.kind # "osm")
  BY DEF EndsOneshot
<1>3. Stays(s, cleared)
  <2>1. Stays(s, clear_oneshot_layer_state(s, "OTHER_KEY_PRESSED")) /\ Stays(s, s)
    BY LayersSilent, SilentStays, KindStays
  <2> QED
    BY <2>1
<1> HIDE DEF ends, cleared, up
<1>4. Told(cleared)
  BY <1>3 DEF Stays, OneKey
<1>5. OneKey(cleared, done) /\ (a.kind # "osm" => Stays(cleared, done))
  BY <1>4, SwitchOneKey
<1>6. Told(done)
  BY <1>5 DEF OneKey
<1> HIDE DEF done
<1>7. HostKeys(cleared) = HostKeys(s)
  <2>1. Silent(s, clear_oneshot_layer_state(s, "OTHER_KEY_PRESSED"))
    BY LayersSilent
  <2> QED
    BY <2>1 DEF cleared, HostKeys, Silent
<1>8. OneKey(s, done)
  BY <1>5, <1>7 DEF OneKey
<1>9. Stays(done, back)
  BY <1>6, LayersSilent, SilentStays
<1> HIDE DEF back
<1>10. Told(back)
  BY <1>9 DEF Stays, OneKey
<1>11. Stays(back, freed)
  BY <1>2, <1>10, SwitchOneKey
<1> HIDE DEF freed
<1>12. Told(freed)
  BY <1>11 DEF Stays, OneKey
<1>13. Stays(freed, off)
  BY <1>12, LayersSilent, SilentStays
<1> HIDE DEF off
<1>14. Stays(done, off)
  BY <1>9, <1>11, <1>13, StaysTwice
<1>15. OneKey(s, off)
  BY <1>8, <1>14, StaysAfter
<1> QED
  BY <1>1, <1>8, <1>15

LEMMA RecordOneKey ==
  ASSUME NEW s, Told(s), NEW e, "pressed" \in DOMAIN e
  PROVE  OneKey(s, process_record(s, e))
<1> DEFINE c == update_source_layers_cache(s, e)
           a == store_or_get_action(c, e)
           t == nkro_toggle(c)
           o == IF e.pressed /\ a.kind = "os_togg" THEN oneshot_toggle(c) ELSE c
           p == process_action(o, e, a)
<1>1. process_record(s, e) \in {t, clear_oneshot_layer_state(t, "OTHER_KEY_PRESSED"), Note(p, e, a)}
  BY DEF process_record
<1>2. Silent(s, c)
  BY LayersSilent
<1>3. Told(c)
  BY <1>2, SilentStays DEF Stays, OneKey
<1>4. HostKeys(c) = HostKeys(s) /\ \A q : OneKey(c, q) => OneKey(s, q)
  BY <1>2 DEF HostKeys, Silent, OneKey
<1> HIDE DEF c, a
<1>5. Stays(c, t)
  <2> DEFINE n == [c EXCEPT !.nkro = c.eeprom_nkro]
             f == clear_keyboard(n)
             m == [f EXCEPT !.nkro = ~@, !.eeprom_nkro = ~@]
  <2>1. t = clear_keyboard(m)
    BY DEF nkro_toggle
  <2>2. Silent(c, n)
    BY <1>3 DEF Silent, Told, Fields
  <2>3. Stays(c, n)
    BY <1>3, <2>2, SilentStays
  <2> HIDE DEF n
  <2>4. Stays(n, f)
    BY <2>3, ModsStay DEF Stays, OneKey
  <2>5. Told(f)
    BY <2>4 DEF Stays, OneKey
  <2> HIDE DEF f
  <2>6. Silent(f, m)
    BY <2>5 DEF Silent, Told, Fields
  <2>7. Stays(f, m)
    BY <2>5, <2>6, SilentStays
  <2> HIDE DEF m
  <2>8. Stays(m, t)
    <3>1. Told(m)
      BY <2>7 DEF Stays, OneKey
    <3>2. Stays(m, clear_keyboard(m))
      BY <3>1, ModsStay
    <3> QED
      BY <2>1, <3>2
  <2> QED
    BY <2>3, <2>4, <2>7, <2>8, StaysTwice
<1> HIDE DEF t
<1>6. Stays(c, clear_oneshot_layer_state(t, "OTHER_KEY_PRESSED"))
  <2>1. Told(t)
    BY <1>5 DEF Stays, OneKey
  <2>2. Stays(t, clear_oneshot_layer_state(t, "OTHER_KEY_PRESSED"))
    BY <2>1, LayersSilent, SilentStays
  <2> QED
    BY <1>5, <2>2, StaysTwice
<1>7. OneKey(c, Note(p, e, a))
  <2>1. Told(o) /\ HostKeys(o) = HostKeys(c)
    <3>1. Silent(c, oneshot_toggle(c))
      BY <1>3, LayersSilent
    <3>2. Told(oneshot_toggle(c)) /\ HostKeys(oneshot_toggle(c)) = HostKeys(c)
      BY <1>3, <3>1, SilentStays DEF Stays, OneKey, HostKeys, Silent
    <3> QED
      BY <1>3, <3>2
  <2> HIDE DEF o
  <2>2. OneKey(o, p)
    BY <2>1, ActionOneKey
  <2> HIDE DEF p
  <2>3. Told(p)
    BY <2>2 DEF OneKey
  <2>4. Stays(p, Note(p, e, a))
    BY <2>3, LayersSilent, SilentStays
  <2>5. OneKey(o, Note(p, e, a))
    BY <2>2, <2>4, StaysAfter
  <2> QED
    BY <2>1, <2>5 DEF OneKey
<1> QED
  BY <1>1, <1>4, <1>5, <1>6, <1>7 DEF Stays

-----------------------------------------------------------------------------
(***************************************************************************)
(* The steps of the main loop.                                             *)
(***************************************************************************)

Events == [key : Keys, pressed : BOOLEAN, count : 0 .. 1]

\* Events is Records, written as a set of records; while the loop drains, one waits.
ReportInv ==
  /\ Told(k) /\ tapping \in Keys \cup {NoKey}
  /\ waiting \in Seq(Events) /\ (draining => waiting # << >>)

LEMMA OneKeyAfterSilent ==
  ASSUME NEW s, NEW r, NEW q, Told(s), Silent(s, r), OneKey(r, q)
  PROVE  OneKey(s, q)
BY DEF Silent, OneKey, HostKeys

\* The record that waited is let through, or the buffer overflows.
LEMMA EnqueueOneKey ==
  ASSUME ReportInv, UNCHANGED build, NEW s, OneKey(k, s), NEW e \in Events,
         NEW u \in Keys \cup {NoKey}, Enqueue(s, e, u)
  PROVE  ReportInv' /\ OneKey(k, k')
<1>1. Told(s)
  BY DEF OneKey
<1>2. Events' = Events /\ Keys' = Keys
  BY DEF Events, Keys, Keymap
<1>3. CASE Len(waiting) = WAITING_BUFFER_SIZE - 1
  <2> DEFINE c == clear_keyboard(s)
             f == [x \in Keys |-> IF x \in down' THEN c.acted[x] ELSE << >>]
             g == c.forgotten \cup LayersHeld(s, Keys \ down')
             q == [c EXCEPT !.acted = f, !.forgotten = g]
  <2>1. k' = q /\ tapping' = NoKey /\ waiting' = << >> /\ draining' = (<< >> # << >>)
    BY <1>3 DEF Enqueue, Done
  <2>2. Stays(s, c)
    BY <1>1, ModsStay
  <2>3. Told(c)
    BY <2>2 DEF Stays, OneKey
  <2> HIDE DEF c, f, g
  <2>4. Silent(c, q)
    BY <2>3 DEF Told, Silent, Fields
  <2> HIDE DEF q
  <2>5. Stays(c, q)
    BY <2>3, <2>4, SilentStays
  <2>6. OneKey(k, q)
    BY <2>2, <2>5, StaysAfter
  <2>7. << >> \in Seq(Events)'
    BY <1>2
  <2> QED
    BY <2>1, <2>6, <2>7 DEF ReportInv, OneKey
<1>4. CASE Len(waiting) # WAITING_BUFFER_SIZE - 1
  <2>1. /\ k' = s /\ tapping' = u /\ waiting' = Append(waiting, e)
        /\ draining' = (Append(waiting, e) # << >>)
    BY <1>4 DEF Enqueue, Done
  <2>2. waiting \in Seq(Events)
    BY DEF ReportInv
  <2> HIDE DEF Events
  <2>3. Append(waiting, e) \in Seq(Events) /\ Len(Append(waiting, e)) = Len(waiting) + 1
    BY <2>2
  <2>4. Append(waiting, e) # << >>
    <3>1. Len(waiting) \in Nat
      BY <2>2
    <3>2. Len(Append(waiting, e)) # 0
      BY <2>3, <3>1
    <3>3. Len(<< >>) = 0
      OBVIOUS
    <3> QED
      BY <3>2, <3>3, Zenon
  <2> QED
    BY <1>1, <1>2, <2>1, <2>3, <2>4 DEF ReportInv
<1> QED
  BY <1>3, <1>4

\* A record is done, and rest waits.
LEMMA DoneOneKey ==
  ASSUME ReportInv, UNCHANGED build, NEW s, OneKey(k, s), NEW rest \in Seq(Events),
         NEW u \in Keys \cup {NoKey}, Done(s, u, rest)
  PROVE  ReportInv' /\ OneKey(k, k')
<1>1. Told(s)
  BY DEF OneKey
<1>2. Events' = Events /\ Keys' = Keys
  BY DEF Events, Keys, Keymap
<1>3. k' = s /\ tapping' = u /\ waiting' = rest /\ draining' = (rest # << >>)
  BY DEF Done
<1> QED
  BY <1>1, <1>2, <1>3 DEF ReportInv

LEMMA PressOneKey ==
  ASSUME ReportInv, UNCHANGED build, NEW key \in Keys, Press(key)
  PROVE  ReportInv' /\ OneKey(k, k')
<1> DEFINE e == Event(key, TRUE, 0)
           w == [k EXCEPT !.weak_mods = {}]
           s == update_source_layers_cache(w, e)
<1>1. e \in Events /\ "pressed" \in DOMAIN e
  BY DEF Event, Events
<1>2. Told(k) /\ tapping \in Keys \cup {NoKey} /\ waiting \in Seq(Events)
  BY DEF ReportInv
<1>3. \/ tapping # NoKey /\ Enqueue(s, e, tapping)
      \/ Done(s, key, waiting)
      \/ Done(process_record(s, e), NoKey, waiting)
  BY DEF Press
<1>4. Silent(k, w)
  BY <1>2 DEF Told, Silent, Fields
<1>5. Told(w)
  BY <1>2, <1>4, SilentStays DEF Stays, OneKey
<1> HIDE DEF e, w, Events
<1>6. Silent(w, s)
  BY <1>5, LayersSilent
<1> HIDE DEF s
<1>7. Silent(k, s)
  BY <1>4, <1>6 DEF Silent
<1>8. Told(s) /\ OneKey(k, s)
  BY <1>2, <1>7, SilentStays DEF Stays, OneKey
<1>9. OneKey(s, process_record(s, e))
  BY <1>1, <1>8, RecordOneKey
<1>10. OneKey(k, process_record(s, e))
  BY <1>2, <1>7, <1>9, OneKeyAfterSilent
<1> QED
  BY <1>1, <1>2, <1>3, <1>8, <1>10, EnqueueOneKey, DoneOneKey

LEMMA ReleaseOneKey ==
  ASSUME ReportInv, UNCHANGED build, NEW key \in Keys, Release(key)
  PROVE  ReportInv' /\ OneKey(k, k')
<1> DEFINE e == Event(key, FALSE, 0)
           tap == Event(tapping, TRUE, 1)
           up == Event(tapping, FALSE, 1)
<1>1. e \in Events /\ "pressed" \in DOMAIN e /\ "pressed" \in DOMAIN tap
  BY DEF Event, Events
<1>2. Told(k) /\ tapping \in Keys \cup {NoKey} /\ waiting \in Seq(Events)
  BY DEF ReportInv
<1>3. key = tapping => up \in Events
  BY DEF Event, Events
<1>4. \/ key = tapping /\ Enqueue(process_record(k, tap), up, NoKey)
      \/ Done(process_record(k, e), tapping, waiting)
      \/ Enqueue(k, e, tapping)
  BY DEF Release, FirstTap
<1> HIDE DEF e, tap, up, Events
<1>5. OneKey(k, process_record(k, tap)) /\ OneKey(k, process_record(k, e)) /\ OneKey(k, k)
  BY <1>1, <1>2, RecordOneKey DEF OneKey
<1> QED
  BY <1>1, <1>2, <1>3, <1>4, <1>5, EnqueueOneKey, DoneOneKey

LEMMA TappingTermOneKey ==
  ASSUME ReportInv, UNCHANGED build, TappingTerm
  PROVE  ReportInv' /\ OneKey(k, k')
<1> DEFINE e == Event(tapping, TRUE, 0)
<1>1. "pressed" \in DOMAIN e
  BY DEF Event
<1>2. Told(k) /\ waiting \in Seq(Events)
  BY DEF ReportInv
<1>3. Done(process_record(k, e), NoKey, waiting)
  BY DEF TappingTerm
<1> HIDE DEF e, Events
<1>4. OneKey(k, process_record(k, e))
  BY <1>1, <1>2, RecordOneKey
<1> QED
  BY <1>2, <1>3, <1>4, DoneOneKey

LEMMA DrainOneKey ==
  ASSUME ReportInv, UNCHANGED build, Drain
  PROVE  ReportInv' /\ OneKey(k, k')
<1> DEFINE e    == Head(waiting)
           rest == Tail(waiting)
           ups  == {i \in DOMAIN rest : rest[i].key = e.key /\ ~rest[i].pressed}
           tap  == [e EXCEPT !.count = 1]
           then == [rest EXCEPT ![Min(ups)].count = 1]
<1>1. Told(k) /\ tapping \in Keys \cup {NoKey} /\ waiting \in Seq(Events) /\ waiting # << >>
  BY DEF ReportInv, Drain
<1>2. \/ Done(process_record(k, e), tapping, rest)
      \/ draining' = FALSE /\ UNCHANGED <<k, tapping, waiting>>
      \/ Done(k, e.key, rest)
      \/ Done(process_record(k, tap), NoKey, then)
      \/ Done(process_record(k, e), NoKey, rest)
  BY DEF Drain
<1>3. e \in Events /\ rest \in Seq(Events)
  <2> HIDE DEF Events
  <2> QED
    BY <1>1
<1> DEFINE m == Min(ups)
<1> HIDE DEF e, rest, ups, m
<1>4. "pressed" \in DOMAIN e /\ "pressed" \in DOMAIN tap /\ e.key \in Keys
  BY <1>3 DEF Events
<1>5. then \in Seq(Events)
  <2> DEFINE f == [rest EXCEPT ![m].count = 1]
  <2>1. \A i \in 1 .. Len(rest) : rest[i] \in Events
    BY <1>3
  <2>2. \A r \in Events : [r EXCEPT !.count = 1] \in Events
    BY DEF Events
  <2>3. DOMAIN f = 1 .. Len(rest) /\ Len(rest) \in Nat
    BY <1>3
  <2>4. \A i \in 1 .. Len(rest) : f[i] = rest[i] \/ f[i] = [rest[i] EXCEPT !.count = 1]
    BY <1>3
  <2>5. f = [i \in 1 .. Len(rest) |-> f[i]]
    BY <2>3
  <2> HIDE DEF f, Events
  <2>6. f \in [1 .. Len(rest) -> Events]
    BY <2>1, <2>2, <2>4, <2>5
  <2>7. f \in Seq(Events)
    BY <2>3, <2>6
  <2> QED
    BY <2>7 DEF f, m
<1> HIDE DEF tap, then, Events
<1>6. OneKey(k, process_record(k, e)) /\ OneKey(k, process_record(k, tap)) /\ OneKey(k, k)
  BY <1>1, <1>4, RecordOneKey DEF OneKey
<1>7. CASE draining' = FALSE /\ UNCHANGED <<k, tapping, waiting>>
  <2>1. Events' = Events /\ Keys' = Keys
    BY DEF Events, Keys, Keymap
  <2> QED
    BY <1>1, <1>6, <1>7, <2>1 DEF ReportInv
<1> QED
  BY <1>1, <1>2, <1>3, <1>4, <1>5, <1>6, <1>7, DoneOneKey

\* A step that changes only k.
LEMMA OnlyKOneKey ==
  ASSUME ReportInv, UNCHANGED build, UNCHANGED <<tapping, waiting, draining>>, OneKey(k, k')
  PROVE  ReportInv'
<1>1. Events' = Events /\ Keys' = Keys
  BY DEF Events, Keys, Keymap
<1> HIDE DEF Events
<1> QED
  BY <1>1 DEF ReportInv, OneKey

LEMMA TimeoutOneKey ==
  ASSUME ReportInv, UNCHANGED build,
         OneshotLayerTimedOut \/ OneshotModsTimedOut \/ PinCodeEntry \/ PinCodeExit
  PROVE  ReportInv' /\ OneKey(k, k')
<1>1. Told(k)
  BY DEF ReportInv
<1>2. CASE OneshotLayerTimedOut
  BY <1>1, <1>2, LayersSilent, SilentStays, OnlyKOneKey DEF OneshotLayerTimedOut, Stays
<1>3. CASE OneshotModsTimedOut
  <2>1. k' = [k EXCEPT !.oneshot_mods = {}] /\ UNCHANGED <<tapping, waiting, draining>>
    BY <1>3 DEF OneshotModsTimedOut
  <2>2. OneKey(k, k')
    BY <1>1, <2>1 DEF OneKey, Told, Fields
  <2> QED
    BY <2>1, <2>2, OnlyKOneKey
<1>4. ASSUME NEW b \in BOOLEAN, k' = [k EXCEPT !.nkro = b], UNCHANGED <<tapping, waiting, draining>>
      PROVE  ReportInv' /\ OneKey(k, k')
  <2>1. Silent(k, k')
    BY <1>1, <1>4 DEF Silent, Told, Fields
  <2>2. OneKey(k, k')
    BY <1>1, <2>1, SilentStays DEF Stays
  <2> QED
    BY <1>4, <2>2, OnlyKOneKey
<1>5. CASE PinCodeEntry
  BY <1>4, <1>5 DEF PinCodeEntry
<1>6. CASE PinCodeExit
  <2>1. k.eeprom_nkro \in BOOLEAN
    BY <1>1 DEF Told
  <2> QED
    BY <1>4, <1>6, <2>1 DEF PinCodeExit
<1> QED
  BY <1>2, <1>3, <1>5, <1>6

LEMMA ReportInvStart == Init => ReportInv
<1> SUFFICES ASSUME Init PROVE ReportInv
  OBVIOUS
<1>1. Told(k)
  BY DEF Init, Told, Fields
<1>2. waiting \in Seq(Events) /\ tapping = NoKey /\ draining = FALSE
  <2> HIDE DEF Events
  <2> QED
    BY DEF Init
<1> QED
  BY <1>1, <1>2 DEF ReportInv

LEMMA ReportInvStep == ReportInv /\ [Next]_vars => ReportInv' /\ (OneKey(k, k') \/ k' = k)
<1> SUFFICES ASSUME ReportInv, [Next]_vars PROVE ReportInv' /\ (OneKey(k, k') \/ k' = k)
  OBVIOUS
<1>1. CASE UNCHANGED vars
  BY <1>1 DEF vars, ReportInv, Events, Keys, Keymap, Told
<1>2. CASE Next
  <2>1. UNCHANGED build
    BY <1>2 DEF Next
  <2>2. ASSUME NEW key \in Keys, Press(key) PROVE ReportInv' /\ OneKey(k, k')
    BY <2>1, <2>2, PressOneKey
  <2>3. ASSUME NEW key \in Keys, Release(key) PROVE ReportInv' /\ OneKey(k, k')
    BY <2>1, <2>3, ReleaseOneKey
  <2>4. CASE TappingTerm
    BY <2>1, <2>4, TappingTermOneKey
  <2>5. CASE Drain
    BY <2>1, <2>5, DrainOneKey
  <2>6. CASE OneshotLayerTimedOut \/ OneshotModsTimedOut \/ PinCodeEntry \/ PinCodeExit
    BY <2>1, <2>6, TimeoutOneKey
  <2> QED
    BY <1>2, <2>2, <2>3, <2>4, <2>5, <2>6 DEF Next
<1> QED
  BY <1>1, <1>2

\* A one-shot modifier is for one key, whatever the keymap: the step in which the
\* host sees a new key, through any of the calls of send_keyboard_report, leaves
\* no one-shot modifier behind.  A full waiting buffer, NKRO switched in between
\* and a pin code entry make no exception.
THEOREM OneshotOnce == Spec => OneshotForOneKey
<1>1. ReportInv /\ [Next]_vars =>
        [HostKeys(k') \ HostKeys(k) # {} => k'.oneshot_mods = {}]_vars
  <2> SUFFICES ASSUME ReportInv, [Next]_vars, HostKeys(k') \ HostKeys(k) # {}
               PROVE  k'.oneshot_mods = {}
    OBVIOUS
  <2>1. OneKey(k, k') \/ k' = k
    BY ReportInvStep
  <2>2. k' # k
    <3>1. SUFFICES ASSUME k' = k PROVE FALSE
      OBVIOUS
    <3>2. HostKeys(k') = HostKeys(k)
      BY <3>1
    <3> QED
      BY <3>2
  <2> QED
    BY <2>1, <2>2 DEF OneKey
<1> QED
  BY <1>1, ReportInvStart, ReportInvStep, PTL DEF Spec, OneshotForOneKey

-----------------------------------------------------------------------------
(***************************************************************************)
(* Keymaps without tap keys.  A key acts when it is pressed and when it is *)
(* released, nothing waits, and the layer a press noted stays noted until  *)
(* the release.                                                            *)
(***************************************************************************)

\* No key waits for a decision, every layer a key names is there, and no pin code is
\* asked for: the keymaps the keyboard comes with (MO and NK_TOGG keys only), as long
\* as no Bluetooth host asks for a pin code.
PlainKeymap ==
  /\ ~build.PinCode
  /\ \A l \in Layers, x \in Keys :
       ~is_tap_action(Keymap[l][x]) /\ Keymap[l][x].layer \in Layers

KFields ==
  {"layer_state", "default_layer_state", "source_layers_cache", "real_mods", "weak_mods",
   "oneshot_mods", "oneshot", "oneshot_enable", "nkro", "eeprom_nkro", "report", "host",
   "acted", "toggled", "forgotten"}

\* The keys of C, the modifiers of M and the weak ones of W account for the reports
\* and for what the host saw; the report not in use is empty, and no one-shot key is
\* pending.
Clean(s, C, M, W) ==
  /\ KFields \subseteq DOMAIN s
  /\ DOMAIN s.report = BOOLEAN /\ DOMAIN s.host = BOOLEAN
  /\ s.nkro \in BOOLEAN /\ s.eeprom_nkro = s.nkro
  /\ \A n \in BOOLEAN :
       n # s.nkro => s.report[n] = {} /\ s.host[n].keys = {} /\ s.host[n].mods = {}
  /\ s.report[s.nkro] \subseteq C /\ s.host[s.nkro].keys \subseteq C
  /\ s.real_mods \subseteq M /\ s.weak_mods \subseteq W
  /\ s.host[s.nkro].mods \subseteq M \cup W
  /\ s.oneshot_mods = {} /\ "state" \in DOMAIN s.oneshot /\ s.oneshot.state = {}

\* What the reports are made of.
SameReports(s, r) ==
  /\ DOMAIN r = DOMAIN s /\ r.report = s.report /\ r.host = s.host
  /\ r.nkro = s.nkro /\ r.eeprom_nkro = s.eeprom_nkro
  /\ r.real_mods = s.real_mods /\ r.weak_mods = s.weak_mods
  /\ r.oneshot_mods = s.oneshot_mods /\ r.oneshot = s.oneshot

\* What the reports say nothing of.
SameLayers(s, r) ==
  /\ r.layer_state = s.layer_state /\ r.default_layer_state = s.default_layer_state
  /\ r.source_layers_cache = s.source_layers_cache
  /\ r.acted = s.acted /\ r.toggled = s.toggled

LEMMA CleanMore ==
  ASSUME NEW s, NEW C, NEW M, NEW W, Clean(s, C, M, W),
         NEW D, NEW N, NEW V, C \subseteq D, M \subseteq N, W \subseteq V
  PROVE  Clean(s, D, N, V)
BY DEF Clean

LEMMA SameClean ==
  ASSUME NEW s, NEW r, NEW C, NEW M, NEW W, Clean(s, C, M, W), SameReports(s, r)
  PROVE  Clean(r, C, M, W)
BY DEF Clean, SameReports

LEMMA SendClean ==
  ASSUME NEW s, NEW C, NEW M, NEW W, Clean(s, C, M, W), NEW r,
         DOMAIN r = DOMAIN s, r.host = s.host, r.nkro = s.nkro, r.eeprom_nkro = s.eeprom_nkro,
         r.oneshot_mods = s.oneshot_mods, r.oneshot = s.oneshot, SameLayers(s, r),
         DOMAIN r.report = BOOLEAN,
         \A n \in BOOLEAN : n # s.nkro => r.report[n] = s.report[n],
         NEW D, NEW N, NEW V, r.report[s.nkro] \subseteq D,
         r.real_mods \subseteq N, r.weak_mods \subseteq V
  PROVE  Clean(send_keyboard_report(r), D, N, V) /\ SameLayers(s, send_keyboard_report(r))
<1> DEFINE q == send_keyboard_report(r)
           b == s.nkro
           h == [mods |-> r.real_mods \cup r.weak_mods \cup r.oneshot_mods, keys |-> r.report[b]]
<1>1. /\ b \in BOOLEAN /\ KFields \subseteq DOMAIN r /\ DOMAIN r.host = BOOLEAN
      /\ r.oneshot_mods = {} /\ r.eeprom_nkro = b
      /\ "state" \in DOMAIN r.oneshot /\ r.oneshot.state = {}
  BY DEF Clean
<1>2. /\ DOMAIN q = DOMAIN r /\ q.report = r.report /\ q.nkro = b /\ q.eeprom_nkro = b
      /\ q.host = [r.host EXCEPT ![b] = h] /\ q.oneshot_mods = {} /\ q.oneshot = r.oneshot
      /\ q.real_mods = r.real_mods /\ q.weak_mods = r.weak_mods
  BY <1>1 DEF send_keyboard_report, KFields
<1>3. SameLayers(r, q)
  BY <1>1 DEF send_keyboard_report, KFields, SameLayers
<1> HIDE DEF q
<1>4. /\ DOMAIN q.host = BOOLEAN /\ q.host[b].keys = r.report[b]
      /\ q.host[b].mods = r.real_mods \cup r.weak_mods
      /\ \A n \in BOOLEAN : n # b => q.host[n] = r.host[n]
  BY <1>1, <1>2
<1>5. \A n \in BOOLEAN : n # b => q.report[n] = {} /\ q.host[n].keys = {} /\ q.host[n].mods = {}
  BY <1>2, <1>4 DEF Clean
<1>6. Clean(q, D, N, V)
  BY <1>1, <1>2, <1>4, <1>5 DEF Clean
<1> QED
  BY <1>3, <1>6 DEF q, SameLayers

LEMMA CodeClean ==
  ASSUME NEW s, NEW C, NEW M, NEW W, Clean(s, C, M, W), NEW code
  PROVE  /\ Clean(register_code(s, code), C \cup {code}, M, W)
         /\ SameLayers(s, register_code(s, code))
         /\ Clean(unregister_code(s, code), C \ {code}, M, W)
         /\ SameLayers(s, unregister_code(s, code))
<1>1. ASSUME NEW t, NEW B, Clean(t, B, M, W)
      PROVE  /\ Clean(send_keyboard_report(del_key(t, code)), B \ {code}, M, W)
             /\ SameLayers(t, send_keyboard_report(del_key(t, code)))
             /\ Clean(send_keyboard_report(add_key(t, code)), B \cup {code}, M, W)
             /\ SameLayers(t, send_keyboard_report(add_key(t, code)))
  <2> DEFINE r == del_key(t, code)
             q == add_key(t, code)
  <2>1. KFields \subseteq DOMAIN t /\ DOMAIN t.report = BOOLEAN /\ t.nkro \in BOOLEAN
        /\ t.report[t.nkro] \subseteq B /\ t.real_mods \subseteq M /\ t.weak_mods \subseteq W
    BY <1>1 DEF Clean
  <2>2. /\ DOMAIN r = DOMAIN t /\ r.host = t.host /\ r.oneshot_mods = t.oneshot_mods
        /\ r.oneshot = t.oneshot /\ r.nkro = t.nkro /\ r.eeprom_nkro = t.eeprom_nkro
        /\ r.real_mods = t.real_mods /\ r.weak_mods = t.weak_mods
        /\ r.report = [t.report EXCEPT ![t.nkro] = @ \ {code}]
    BY <2>1 DEF del_key, KFields
  <2>3. /\ DOMAIN q = DOMAIN t /\ q.host = t.host /\ q.oneshot_mods = t.oneshot_mods
        /\ q.oneshot = t.oneshot /\ q.nkro = t.nkro /\ q.eeprom_nkro = t.eeprom_nkro
        /\ q.real_mods = t.real_mods /\ q.weak_mods = t.weak_mods
        /\ q.report = t.report \/ q.report = [t.report EXCEPT ![t.nkro] = @ \cup {code}]
    BY <2>1 DEF add_key, KFields
  <2>4. SameLayers(t, r) /\ SameLayers(t, q)
    BY <2>1 DEF del_key, add_key, SameLayers, KFields
  <2> HIDE DEF r, q
  <2>5. /\ DOMAIN r.report = BOOLEAN /\ r.report[t.nkro] \subseteq B \ {code}
        /\ \A n \in BOOLEAN : n # t.nkro => r.report[n] = t.report[n]
    BY <2>1, <2>2
  <2>6. /\ DOMAIN q.report = BOOLEAN /\ q.report[t.nkro] \subseteq B \cup {code}
        /\ \A n \in BOOLEAN : n # t.nkro => q.report[n] = t.report[n]
    BY <2>1, <2>3
  <2>7. /\ Clean(send_keyboard_report(r), B \ {code}, M, W)
        /\ SameLayers(t, send_keyboard_report(r))
    BY <1>1, <2>1, <2>2, <2>4, <2>5, SendClean
  <2>8. /\ Clean(send_keyboard_report(q), B \cup {code}, M, W)
        /\ SameLayers(t, send_keyboard_report(q))
    BY <1>1, <2>1, <2>3, <2>4, <2>6, SendClean
  <2> QED
    BY <2>7, <2>8 DEF r, q
<1> DEFINE again == code \in s.report[s.nkro]
           up == IF again THEN send_keyboard_report(del_key(s, code)) ELSE s
<1>2. register_code(s, code) = send_keyboard_report(add_key(up, code))
  BY DEF register_code
<1>3. Clean(up, C, M, W) /\ SameLayers(s, up)
  <2>1. Clean(send_keyboard_report(del_key(s, code)), C \ {code}, M, W)
        /\ SameLayers(s, send_keyboard_report(del_key(s, code)))
    BY <1>1
  <2>2. Clean(send_keyboard_report(del_key(s, code)), C, M, W)
    BY <2>1, CleanMore
  <2>3. SameLayers(s, s)
    BY DEF SameLayers
  <2> QED
    BY <2>1, <2>2, <2>3
<1> HIDE DEF up
<1>4. /\ Clean(register_code(s, code), C \cup {code}, M, W)
      /\ SameLayers(up, register_code(s, code))
  BY <1>1, <1>2, <1>3
<1>5. SameLayers(s, register_code(s, code))
  BY <1>3, <1>4 DEF SameLayers
<1> QED
  BY <1>1, <1>4, <1>5 DEF unregister_code

\* Real and weak modifiers.
LEMMA ModClean ==
  ASSUME NEW s, NEW C, NEW M, NEW W, Clean(s, C, M, W), NEW m
  PROVE  /\ Clean(register_mods(s, m), C, M \cup m, W) /\ SameLayers(s, register_mods(s, m))
         /\ Clean(unregister_mods(s, m), C, M \ m, W) /\ SameLayers(s, unregister_mods(s, m))
         /\ Clean(send_keyboard_report([s EXCEPT !.weak_mods = @ \cup m]), C, M, W \cup m)
         /\ SameLayers(s, send_keyboard_report([s EXCEPT !.weak_mods = @ \cup m]))
         /\ Clean(send_keyboard_report([s EXCEPT !.weak_mods = @ \ m]), C, M, W \ m)
         /\ SameLayers(s, send_keyboard_report([s EXCEPT !.weak_mods = @ \ m]))
<1>1. /\ KFields \subseteq DOMAIN s /\ DOMAIN s.report = BOOLEAN /\ s.report[s.nkro] \subseteq C
      /\ s.real_mods \subseteq M /\ s.weak_mods \subseteq W
  BY DEF Clean
<1>2. ASSUME NEW x, NEW N, x \subseteq N
      PROVE  /\ Clean(send_keyboard_report([s EXCEPT !.real_mods = x]), C, N, W)
             /\ SameLayers(s, send_keyboard_report([s EXCEPT !.real_mods = x]))
  <2> DEFINE r == [s EXCEPT !.real_mods = x]
  <2>1. /\ DOMAIN r = DOMAIN s /\ r.report = s.report /\ r.host = s.host
        /\ r.oneshot_mods = s.oneshot_mods /\ r.oneshot = s.oneshot /\ r.nkro = s.nkro
        /\ r.eeprom_nkro = s.eeprom_nkro /\ r.real_mods = x /\ r.weak_mods = s.weak_mods
    BY <1>1 DEF KFields
  <2>2. SameLayers(s, r)
    BY <1>1 DEF KFields, SameLayers
  <2> HIDE DEF r
  <2>3. Clean(send_keyboard_report(r), C, N, W) /\ SameLayers(s, send_keyboard_report(r))
    BY <1>1, <1>2, <2>1, <2>2, SendClean
  <2> QED
    BY <2>3 DEF r
<1>3. ASSUME NEW x, NEW V, x \subseteq V
      PROVE  /\ Clean(send_keyboard_report([s EXCEPT !.weak_mods = x]), C, M, V)
             /\ SameLayers(s, send_keyboard_report([s EXCEPT !.weak_mods = x]))
  <2> DEFINE r == [s EXCEPT !.weak_mods = x]
  <2>1. /\ DOMAIN r = DOMAIN s /\ r.report = s.report /\ r.host = s.host
        /\ r.oneshot_mods = s.oneshot_mods /\ r.oneshot = s.oneshot /\ r.nkro = s.nkro
        /\ r.eeprom_nkro = s.eeprom_nkro /\ r.weak_mods = x /\ r.real_mods = s.real_mods
    BY <1>1 DEF KFields
  <2>2. SameLayers(s, r)
    BY <1>1 DEF KFields, SameLayers
  <2> HIDE DEF r
  <2>3. Clean(send_keyboard_report(r), C, M, V) /\ SameLayers(s, send_keyboard_report(r))
    BY <1>1, <1>3, <2>1, <2>2, SendClean
  <2> QED
    BY <2>3 DEF r
<1>4. /\ Clean(register_mods(s, m), C, M \cup m, W) /\ SameLayers(s, register_mods(s, m))
  <2>1. s.real_mods \cup m \subseteq M \cup m
    BY <1>1
  <2> QED
    BY <1>2, <2>1 DEF register_mods
<1>5. /\ Clean(unregister_mods(s, m), C, M \ m, W) /\ SameLayers(s, unregister_mods(s, m))
  <2>1. s.real_mods \ m \subseteq M \ m
    BY <1>1
  <2> QED
    BY <1>2, <2>1 DEF unregister_mods
<1>6. /\ Clean(send_keyboard_report([s EXCEPT !.weak_mods = s.weak_mods \cup m]), C, M, W \cup m)
      /\ SameLayers(s, send_keyboard_report([s EXCEPT !.weak_mods = s.weak_mods \cup m]))
  <2>1. s.weak_mods \cup m \subseteq W \cup m
    BY <1>1
  <2> QED
    BY <1>3, <2>1
<1>7. /\ Clean(send_keyboard_report([s EXCEPT !.weak_mods = s.weak_mods \ m]), C, M, W \ m)
      /\ SameLayers(s, send_keyboard_report([s EXCEPT !.weak_mods = s.weak_mods \ m]))
  <2>1. s.weak_mods \ m \subseteq W \ m
    BY <1>1
  <2> QED
    BY <1>3, <2>1
<1> QED
  BY <1>4, <1>5, <1>6, <1>7

LEMMA ClearClean ==
  ASSUME NEW s, NEW C, NEW M, NEW W, Clean(s, C, M, W)
  PROVE  Clean(clear_keyboard(s), {}, {}, {}) /\ SameLayers(s, clear_keyboard(s))
<1> DEFINE r == [s EXCEPT !.real_mods = {}, !.weak_mods = {}, !.report[s.nkro] = {}]
<1>1. KFields \subseteq DOMAIN s /\ DOMAIN s.report = BOOLEAN /\ s.nkro \in BOOLEAN
  BY DEF Clean
<1>2. /\ DOMAIN r = DOMAIN s /\ r.host = s.host /\ r.oneshot_mods = s.oneshot_mods
      /\ r.oneshot = s.oneshot /\ r.nkro = s.nkro /\ r.eeprom_nkro = s.eeprom_nkro
      /\ r.report = [s.report EXCEPT ![s.nkro] = {}] /\ r.real_mods = {} /\ r.weak_mods = {}
  BY <1>1 DEF KFields
<1>3. SameLayers(s, r)
  BY <1>1 DEF KFields, SameLayers
<1> HIDE DEF r
<1>4. /\ DOMAIN r.report = BOOLEAN /\ r.report[s.nkro] \subseteq {}
      /\ \A n \in BOOLEAN : n # s.nkro => r.report[n] = s.report[n]
  BY <1>1, <1>2
<1>5. Clean(send_keyboard_report(r), {}, {}, {}) /\ SameLayers(s, send_keyboard_report(r))
  BY <1>2, <1>3, <1>4, SendClean
<1> QED
  BY <1>5 DEF r, clear_keyboard

\* process_magic empties both reports.
LEMMA NkroClean ==
  ASSUME NEW s, NEW C, NEW M, NEW W, Clean(s, C, M, W)
  PROVE  Clean(nkro_toggle(s), {}, {}, {}) /\ SameLayers(s, nkro_toggle(s))
<1> DEFINE n == [s EXCEPT !.nkro = s.eeprom_nkro]
           f == clear_keyboard(n)
           m == [f EXCEPT !.nkro = ~@, !.eeprom_nkro = ~@]
<1>1. nkro_toggle(s) = clear_keyboard(m)
  BY DEF nkro_toggle
<1>2. SameReports(s, n) /\ SameLayers(s, n)
  BY DEF Clean, KFields, SameReports, SameLayers
<1>3. Clean(n, C, M, W)
  BY <1>2, SameClean
<1> HIDE DEF n
<1>4. Clean(f, {}, {}, {}) /\ SameLayers(n, f)
  BY <1>3, ClearClean
<1> HIDE DEF f
<1>5. /\ KFields \subseteq DOMAIN f /\ f.nkro \in BOOLEAN /\ f.eeprom_nkro = f.nkro
      /\ \A b \in BOOLEAN : f.report[b] = {} /\ f.host[b].keys = {} /\ f.host[b].mods = {}
  BY <1>4 DEF Clean
<1>6. /\ DOMAIN m = DOMAIN f /\ m.report = f.report /\ m.host = f.host
      /\ m.nkro = ~f.nkro /\ m.eeprom_nkro = ~f.nkro
      /\ m.real_mods = f.real_mods /\ m.weak_mods = f.weak_mods
      /\ m.oneshot_mods = f.oneshot_mods /\ m.oneshot = f.oneshot
  BY <1>5 DEF KFields
<1>7. SameLayers(f, m)
  BY <1>5 DEF KFields, SameLayers
<1> HIDE DEF m
<1>8. m.nkro \in BOOLEAN /\ m.eeprom_nkro = m.nkro
  BY <1>5, <1>6
<1>9. Clean(m, {}, {}, {})
  BY <1>4, <1>5, <1>6, <1>8 DEF Clean
<1>10. Clean(clear_keyboard(m), {}, {}, {}) /\ SameLayers(m, clear_keyboard(m))
  BY <1>9, ClearClean
<1> QED
  BY <1>1, <1>2, <1>4, <1>7, <1>10 DEF SameLayers

\* What a key's action does to the layers.
LayersOf(s, r, e, a) ==
  /\ r.layer_state = IF a.kind \in {"mo", "lm"}
                     THEN IF e.pressed THEN s.layer_state \cup {a.layer}
                                       ELSE s.layer_state \ {a.layer}
                     ELSE IF a.kind = "tg" /\ ~e.pressed THEN SymDiff(s.layer_state, {a.layer})
                     ELSE IF a.kind = "to" /\ e.pressed THEN {a.layer}
                     ELSE s.layer_state
  /\ r.default_layer_state \in {s.default_layer_state, {a.layer}}
  /\ r.source_layers_cache = s.source_layers_cache
  /\ r.acted = s.acted /\ r.toggled = s.toggled

LEMMA LayerOnOff ==
  ASSUME NEW s, KFields \subseteq DOMAIN s, NEW layer
  PROVE  /\ SameReports(s, layer_on(s, layer)) /\ SameReports(s, layer_off(s, layer))
         /\ layer_on(s, layer).layer_state = s.layer_state \cup {layer}
         /\ layer_off(s, layer).layer_state = s.layer_state \ {layer}
         /\ layer_on(s, layer).default_layer_state = s.default_layer_state
         /\ layer_off(s, layer).default_layer_state = s.default_layer_state
         /\ layer_on(s, layer).source_layers_cache = s.source_layers_cache
         /\ layer_off(s, layer).source_layers_cache = s.source_layers_cache
         /\ layer_on(s, layer).acted = s.acted /\ layer_off(s, layer).acted = s.acted
         /\ layer_on(s, layer).toggled = s.toggled /\ layer_off(s, layer).toggled = s.toggled
BY DEF KFields, SameReports, layer_on, layer_off

LEMMA BitopLayers ==
  ASSUME NEW s, KFields \subseteq DOMAIN s, NEW e, NEW a, a.kind \in {"tg", "to", "df"}
  PROVE  /\ SameReports(s, process_layer_bitop(s, e, a))
         /\ LayersOf(s, process_layer_bitop(s, e, a), e, a)
<1>1. CASE a.kind = "tg" /\ ~e.pressed
  BY <1>1 DEF process_layer_bitop, KFields, SameReports, LayersOf
<1>2. CASE a.kind = "to" /\ e.pressed
  BY <1>2 DEF process_layer_bitop, KFields, SameReports, LayersOf
<1>3. CASE a.kind = "df" /\ ~e.pressed
  BY <1>3 DEF process_layer_bitop, KFields, SameReports, LayersOf
<1>4. CASE ~(a.kind = "tg" /\ ~e.pressed) /\ ~(a.kind = "to" /\ e.pressed)
           /\ ~(a.kind = "df" /\ ~e.pressed)
  <2>1. process_layer_bitop(s, e, a) = s
    BY <1>4 DEF process_layer_bitop
  <2> QED
    BY <1>4, <2>1 DEF SameReports, LayersOf
<1> QED
  BY <1>1, <1>2, <1>3, <1>4

\* The keys and modifiers that account for the reports once a has acted.
CodesAfter(C, e, a) == IF a.kind # "key" THEN C
                       ELSE IF e.pressed THEN C \cup {a.code} ELSE C \ {a.code}
ModsAfter(M, e, a)  == IF a.kind \notin {"mod", "lm"} THEN M
                       ELSE IF e.pressed THEN M \cup a.mods ELSE M \ a.mods
WeakAfter(W, e, a)  == IF a.kind # "key" THEN W
                       ELSE IF e.pressed THEN W \cup a.mods ELSE W \ a.mods

LEMMA SwitchClean ==
  ASSUME NEW s, NEW C, NEW M, NEW W, Clean(s, C, M, W), NEW e, NEW a, ~is_tap_action(a)
  PROVE  /\ Clean(Switch(s, e, a), CodesAfter(C, e, a), ModsAfter(M, e, a), WeakAfter(W, e, a))
         /\ LayersOf(s, Switch(s, e, a), e, a)
<1> DEFINE r == Switch(s, e, a)
           D == CodesAfter(C, e, a)
           N == ModsAfter(M, e, a)
           V == WeakAfter(W, e, a)
<1>1. KFields \subseteq DOMAIN s
  BY DEF Clean
<1>2. CASE a.kind = "key"
  <2>1. r = process_key(s, e, a) /\ N = M
    BY <1>2 DEF Switch, ModsAfter
  <2>2. SUFFICES Clean(r, D, M, V) /\ SameLayers(s, r)
    BY <1>2, <2>1 DEF SameLayers, LayersOf
  <2>3. CASE e.pressed
    <3> DEFINE weak == send_keyboard_report([s EXCEPT !.weak_mods = @ \cup a.mods])
               d == IF a.mods = {} THEN s ELSE weak
    <3>1. r = register_code(d, a.code) /\ D = C \cup {a.code} /\ V = W \cup a.mods
      BY <1>2, <2>1, <2>3 DEF process_key, CodesAfter, WeakAfter
    <3> HIDE DEF r, D, V
    <3>2. Clean(weak, C, M, V) /\ SameLayers(s, weak)
      <4>1. Clean(weak, C, M, W \cup a.mods) /\ SameLayers(s, weak)
        BY ModClean
      <4> QED
        BY <3>1, <4>1
    <3>3. Clean(s, C, M, V) /\ SameLayers(s, s)
      BY <3>1, CleanMore DEF SameLayers
    <3>4. Clean(d, C, M, V) /\ SameLayers(s, d)
      BY <3>2, <3>3
    <3> HIDE DEF d
    <3>5. Clean(r, D, M, V) /\ SameLayers(d, r)
      BY <3>1, <3>4, CodeClean
    <3> QED
      BY <3>4, <3>5 DEF SameLayers
  <2>4. CASE ~e.pressed
    <3> DEFINE up == unregister_code(s, a.code)
    <3>1. /\ r = IF a.mods = {} THEN up ELSE send_keyboard_report([up EXCEPT !.weak_mods = @ \ a.mods])
          /\ D = C \ {a.code} /\ V = W \ a.mods
      BY <1>2, <2>1, <2>4 DEF process_key, CodesAfter, WeakAfter
    <3> HIDE DEF r, D, V
    <3>2. Clean(up, D, M, W) /\ SameLayers(s, up)
      <4>1. Clean(up, C \ {a.code}, M, W) /\ SameLayers(s, up)
        BY CodeClean
      <4> QED
        BY <3>1, <4>1
    <3> HIDE DEF up
    <3>3. CASE a.mods = {}
      <4>1. V = W
        BY <3>1, <3>3
      <4> QED
        BY <3>1, <3>2, <3>3, <4>1
    <3>4. CASE a.mods # {}
      <4>1. Clean(r, D, M, V) /\ SameLayers(up, r)
        BY <3>1, <3>2, <3>4, ModClean
      <4> QED
        BY <3>2, <4>1 DEF SameLayers
    <3> QED
      BY <3>3, <3>4
  <2> QED
    BY <2>3, <2>4
<1>3. CASE a.kind = "mod"
  <2>1. r = (IF e.pressed THEN register_mods(s, a.mods) ELSE unregister_mods(s, a.mods))
        /\ D = C /\ V = W /\ N = IF e.pressed THEN M \cup a.mods ELSE M \ a.mods
    BY <1>3 DEF Switch, process_mod, CodesAfter, ModsAfter, WeakAfter
  <2> HIDE DEF r, D, N, V
  <2>2. Clean(r, D, N, V) /\ SameLayers(s, r)
    BY <2>1, ModClean
  <2> QED
    BY <1>3, <2>2 DEF SameLayers, LayersOf, r, D, N, V
<1>4. CASE a.kind = "lm"
  <2>1. r = process_lm(s, e, a) /\ D = C /\ V = W
        /\ N = IF e.pressed THEN M \cup a.mods ELSE M \ a.mods
    BY <1>4 DEF Switch, CodesAfter, ModsAfter, WeakAfter
  <2>2. CASE e.pressed
    <3> DEFINE on == layer_on(s, a.layer)
    <3>1. r = register_mods(on, a.mods) /\ N = M \cup a.mods
      BY <2>1, <2>2 DEF process_lm
    <3>2. Clean(on, C, M, W)
      BY <1>1, LayerOnOff, SameClean
    <3>3. LayersOf(s, on, e, a)
      BY <1>1, <1>4, <2>2, LayerOnOff DEF LayersOf
    <3> HIDE DEF on, r, D, N, V
    <3>4. Clean(r, D, N, V) /\ SameLayers(on, r)
      <4>1. /\ Clean(register_mods(on, a.mods), C, M \cup a.mods, W)
            /\ SameLayers(on, register_mods(on, a.mods))
        BY <3>2, ModClean
      <4> QED
        BY <2>1, <3>1, <4>1
    <3> QED
      BY <3>3, <3>4 DEF SameLayers, LayersOf, r, D, N, V
  <2>3. CASE ~e.pressed
    <3> DEFINE up == unregister_mods(s, a.mods)
    <3>1. r = layer_off(up, a.layer) /\ N = M \ a.mods
      BY <2>1, <2>3 DEF process_lm
    <3> HIDE DEF r, D, N, V
    <3>2. Clean(up, D, N, V) /\ SameLayers(s, up)
      <4>1. Clean(up, C, M \ a.mods, W) /\ SameLayers(s, up)
        BY ModClean
      <4> QED
        BY <2>1, <3>1, <4>1
    <3>3. KFields \subseteq DOMAIN up
      BY <3>2 DEF Clean
    <3> HIDE DEF up
    <3>4. Clean(r, D, N, V)
      BY <3>1, <3>2, <3>3, LayerOnOff, SameClean
    <3>5. LayersOf(s, r, e, a)
      BY <1>4, <2>3, <3>1, <3>2, <3>3, LayerOnOff DEF LayersOf, SameLayers
    <3> QED
      BY <3>4, <3>5 DEF r, D, N, V
  <2> QED
    BY <2>2, <2>3
<1>5. CASE a.kind = "mo"
  <2>1. r = (IF e.pressed THEN layer_on(s, a.layer) ELSE layer_off(s, a.layer))
        /\ D = C /\ N = M /\ V = W
    BY <1>5 DEF Switch, process_layer, CodesAfter, ModsAfter, WeakAfter
  <2> HIDE DEF r, D, N, V
  <2>2. SameReports(s, r)
    BY <1>1, <2>1, LayerOnOff
  <2>3. LayersOf(s, r, e, a)
    <3>1. CASE e.pressed
      BY <1>1, <1>5, <2>1, <3>1, LayerOnOff DEF LayersOf
    <3>2. CASE ~e.pressed
      BY <1>1, <1>5, <2>1, <3>2, LayerOnOff DEF LayersOf
    <3> QED
      BY <3>1, <3>2
  <2> QED
    BY <2>1, <2>2, <2>3, SameClean DEF r, D, N, V
<1>6. CASE a.kind \in {"tg", "to", "df"}
  <2>1. r = process_layer_bitop(s, e, a) /\ D = C /\ N = M /\ V = W
    BY <1>6 DEF Switch, CodesAfter, ModsAfter, WeakAfter
  <2> HIDE DEF r, D, N, V
  <2> QED
    BY <1>1, <1>6, <2>1, BitopLayers, SameClean DEF r, D, N, V
<1>7. CASE a.kind \notin {"key", "mod", "lm", "mo", "tg", "to", "df"}
  <2>1. r = s /\ D = C /\ N = M /\ V = W
    BY <1>7 DEF Switch, CodesAfter, ModsAfter, WeakAfter, is_tap_action
  <2> HIDE DEF r, D, N, V
  <2> QED
    BY <1>7, <2>1 DEF LayersOf, r, D, N, V
<1> QED
  BY <1>2, <1>3, <1>4, <1>5, <1>6, <1>7

\* A record is processed.  Only the NKRO key leaves no note of its press.
Noted(s, r, e, a) ==
  LayersOf([s EXCEPT !.acted[e.key] = IF e.pressed THEN <<[action |-> a, count |-> e.count]>>
                                                   ELSE << >>,
                     !.toggled = IF ~e.pressed /\ a.kind = "tg" THEN SymDiff(@, {a.layer}) ELSE @],
           r, e, a)

LEMMA RecordClean ==
  ASSUME NEW s, NEW C, NEW M, NEW W, Clean(s, C, M, W), NEW e,
         NEW c, c = update_source_layers_cache(s, e), NEW a, a = store_or_get_action(c, e), ~is_tap_action(a)
  PROVE  \/ /\ e.pressed /\ a.kind = "nk_togg" /\ SameLayers(c, process_record(s, e))
            /\ Clean(process_record(s, e), {}, {}, {})
         \/ /\ ~(e.pressed /\ a.kind = "nk_togg") /\ Noted(c, process_record(s, e), e, a)
            /\ Clean(process_record(s, e), CodesAfter(C, e, a), ModsAfter(M, e, a),
                     WeakAfter(W, e, a))
<1>1. KFields \subseteq DOMAIN s
  BY DEF Clean
<1>2. SameReports(s, c)
  BY <1>1 DEF update_source_layers_cache, SameReports, KFields
<1>3. Clean(c, C, M, W)
  BY <1>2, SameClean
<1>4. ASSUME NEW t, NEW X, NEW Y, NEW Z, Clean(t, X, Y, Z)
      PROVE  /\ Clean(clear_oneshot_layer_state(t, "OTHER_KEY_PRESSED"), X, Y, Z)
             /\ SameLayers(t, clear_oneshot_layer_state(t, "OTHER_KEY_PRESSED"))
  <2> DEFINE r == [t EXCEPT !.oneshot.state = {}]
  <2>1. KFields \subseteq DOMAIN t /\ "state" \in DOMAIN t.oneshot /\ t.oneshot.state = {}
    BY <1>4 DEF Clean
  <2>2. clear_oneshot_layer_state(t, "OTHER_KEY_PRESSED") = r
    BY <2>1 DEF clear_oneshot_layer_state
  <2>3. /\ DOMAIN r = DOMAIN t /\ r.report = t.report /\ r.host = t.host
        /\ r.nkro = t.nkro /\ r.eeprom_nkro = t.eeprom_nkro
        /\ r.real_mods = t.real_mods /\ r.weak_mods = t.weak_mods
        /\ r.oneshot_mods = t.oneshot_mods
        /\ r.oneshot = [t.oneshot EXCEPT !.state = {}]
    BY <2>1 DEF KFields
  <2>4. SameLayers(t, r)
    BY <2>1 DEF KFields, SameLayers
  <2> HIDE DEF r
  <2>5. "state" \in DOMAIN r.oneshot /\ r.oneshot.state = {}
    BY <2>1, <2>3
  <2>6. Clean(r, X, Y, Z)
    BY <1>4, <2>3, <2>5 DEF Clean
  <2> QED
    BY <2>2, <2>4, <2>6
<1>5. CASE e.pressed /\ a.kind = "nk_togg"
  <2> DEFINE t == nkro_toggle(c)
             u == clear_oneshot_layer_state(t, "OTHER_KEY_PRESSED")
  <2>1. process_record(s, e) = IF t.oneshot_enable THEN u ELSE t
    BY <1>5 DEF process_record
  <2>2. Clean(t, {}, {}, {}) /\ SameLayers(c, t)
    BY <1>3, NkroClean
  <2> HIDE DEF t
  <2>3. Clean(u, {}, {}, {}) /\ SameLayers(t, u)
    BY <1>4, <2>2
  <2>4. SameLayers(c, u)
    BY <2>2, <2>3 DEF SameLayers
  <2> HIDE DEF u
  <2> QED
    BY <1>5, <2>1, <2>2, <2>3, <2>4
<1>6. CASE ~(e.pressed /\ a.kind = "nk_togg")
  <2> DEFINE o == IF e.pressed /\ a.kind = "os_togg" THEN oneshot_toggle(c) ELSE c
             p == process_action(o, e, a)
             D == CodesAfter(C, e, a)
             N == ModsAfter(M, e, a)
             V == WeakAfter(W, e, a)
  <2>1. process_record(s, e) = Note(p, e, a)
    BY <1>6 DEF process_record
  <2>2. Clean(o, C, M, W) /\ SameLayers(c, o)
    <3> DEFINE t == [c EXCEPT !.oneshot_enable = ~@]
    <3>1. SameReports(c, t) /\ SameLayers(c, t)
      BY <1>3 DEF Clean, SameReports, SameLayers, KFields
    <3>2. Clean(t, C, M, W)
      BY <1>3, <3>1, SameClean
    <3>3. oneshot_toggle(c) = clear_oneshot_layer_state(t, "OTHER_KEY_PRESSED")
      BY DEF oneshot_toggle
    <3> HIDE DEF t
    <3>4. Clean(oneshot_toggle(c), C, M, W) /\ SameLayers(t, oneshot_toggle(c))
      BY <1>4, <3>2, <3>3
    <3>5. SameLayers(c, oneshot_toggle(c)) /\ SameLayers(c, c)
      BY <3>1, <3>4 DEF SameLayers
    <3> QED
      BY <1>3, <3>4, <3>5
  <2> HIDE DEF o
  <2>3. p = Switch(o, e, a)
    <3>1. ~is_oneshot_layer_active(o)
      BY <2>2 DEF Clean, is_oneshot_layer_active
    <3> QED
      BY <3>1 DEF process_action
  <2> HIDE DEF p
  <2>4. Clean(p, D, N, V) /\ LayersOf(o, p, e, a)
    BY <2>2, <2>3, SwitchClean
  <2> HIDE DEF D, N, V
  <2>5. KFields \subseteq DOMAIN p /\ KFields \subseteq DOMAIN c
    BY <1>3, <2>4 DEF Clean
  <2>6. SameReports(p, Note(p, e, a))
    BY <2>5 DEF Note, KFields, SameReports
  <2>7. Clean(Note(p, e, a), D, N, V)
    BY <2>4, <2>6, SameClean
  <2>8. LayersOf(c, p, e, a)
    BY <2>2, <2>4 DEF LayersOf, SameLayers
  <2>9. Noted(c, Note(p, e, a), e, a)
    BY <2>5, <2>8 DEF Noted, LayersOf, Note, KFields
  <2> QED
    BY <1>6, <2>1, <2>7, <2>9 DEF D, N, V
<1> QED
  BY <1>5, <1>6

-----------------------------------------------------------------------------
(* What the keys that are held account for.                                *)

ActionOf(s, x)   == Keymap[s.source_layers_cache[x]][x]
HeldAs(s, kinds) == {x \in Keys : s.acted[x] # << >> /\ ActionOf(s, x).kind \in kinds}

CodesOf(s) == {ActionOf(s, x).code : x \in HeldAs(s, {"key"})}
WeakOf(s)  == UNION {ActionOf(s, x).mods : x \in HeldAs(s, {"key"})}
ModsOf(s)  == UNION {ActionOf(s, x).mods : x \in HeldAs(s, {"mod", "lm"})}
HoldsOn(s) == {ActionOf(s, x).layer : x \in HeldAs(s, {"mo", "lm"})}

\* A key that is noted is down, with the action of the layer its press noted.
Linked(s, keys) ==
  /\ s.layer_state \subseteq Layers /\ s.default_layer_state \subseteq Layers
  /\ s.source_layers_cache \in [Keys -> Layers] /\ DOMAIN s.acted = Keys
  /\ \A x \in Keys :
       s.acted[x] # << >> =>
         x \in keys /\ s.acted[x] = <<[action |-> ActionOf(s, x), count |-> 0]>>

PlainInv ==
  /\ build \in Builds
  /\ PlainKeymap =>
       /\ tapping = NoKey /\ waiting = << >> /\ draining = FALSE
       /\ Linked(k, down) /\ Clean(k, CodesOf(k), ModsOf(k), WeakOf(k))

LEMMA MaxIn ==
  ASSUME NEW n \in Nat, NEW T, T \subseteq 0 .. n, T # {}
  PROVE  Max(T) \in T
<1> DEFINE R == OpToRel(<, Nat)
           U == {n - x : x \in T}
<1>1. \A x \in T : x \in Nat /\ n - x \in Nat
  OBVIOUS
<1>2. U \subseteq Nat /\ U # {}
  BY <1>1
<1>3. IsWellFoundedOn(R, Nat)
  BY NatLessThanWellFounded, Zenon
<1> HIDE DEF R
<1>4. PICK u \in U : \A y \in U : ~(<<y, u>> \in R)
  BY <1>2, <1>3, WFMin
<1>5. \A y \in U : ~(y < u)
  BY <1>2, <1>4 DEF R, OpToRel
<1>6. PICK m \in T : u = n - m
  OBVIOUS
<1>7. ASSUME NEW y \in T PROVE m >= y
  <2>1. n - y \in U
    OBVIOUS
  <2>2. ~(n - y < n - m)
    BY <1>5, <1>6, <2>1
  <2> HIDE DEF U
  <2>3. y \in Nat /\ m \in Nat
    BY <1>1
  <2> QED
    BY <2>2, <2>3
<1> QED
  BY <1>7 DEF Max

LEMMA LayerExists ==
  ASSUME build \in Builds, NEW s, s.layer_state \subseteq Layers, s.default_layer_state \subseteq Layers,
         NEW x
  PROVE  layer_switch_get_layer(s, x) \in Layers
<1> DEFINE c == Cardinality(Layers)
           solid == {l \in s.layer_state \cup s.default_layer_state : Keymap[l][x].kind # "trans"}
<1>1. IsFiniteSet(Layers) /\ 0 \in Layers /\ Layers = 0 .. c - 1
  BY BuildsAssumption DEF Layers, Keymap
<1>2. c \in Nat
  BY <1>1, FS_CardinalityType
<1>3. solid \subseteq Layers
  OBVIOUS
<1> HIDE DEF c, solid
<1>4. c - 1 \in Nat
  BY <1>1, <1>2
<1>5. solid # {} => Max(solid) \in solid
  BY <1>1, <1>3, <1>4, MaxIn
<1> QED
  BY <1>1, <1>3, <1>5 DEF layer_switch_get_layer, solid

\* One key's note changes: what the others account for stays.
LEMMA Others ==
  ASSUME NEW s, NEW r, NEW key \in Keys,
         \A x \in Keys \ {key} : r.acted[x] = s.acted[x]
                                 /\ r.source_layers_cache[x] = s.source_layers_cache[x],
         NEW kinds
  PROVE  /\ HeldAs(s, kinds) \ {key} \subseteq HeldAs(r, kinds)
         /\ \A x \in HeldAs(s, kinds) \ {key} : ActionOf(r, x) = ActionOf(s, x)
BY DEF HeldAs, ActionOf

LEMMA PressPlain ==
  ASSUME PlainInv, PlainKeymap, UNCHANGED build, NEW key \in Keys, Press(key)
  PROVE  /\ tapping' = NoKey /\ waiting' = << >> /\ draining' = FALSE
         /\ Linked(k', down') /\ Clean(k', CodesOf(k'), ModsOf(k'), WeakOf(k'))
         /\ k.acted[key] = << >>
         /\ \A x \in Keys \ {key} : k'.acted[x] = k.acted[x]
                                    /\ k'.source_layers_cache[x] = k.source_layers_cache[x]
         /\ k'.toggled = k.toggled
         /\ LET a == ActionOf(k', key)
            IN  /\ a.layer \in Layers /\ \E l \in Layers : a = Keymap[l][key]
                /\ \/ a.kind = "nk_togg" /\ k'.layer_state = k.layer_state
                   \/ /\ k'.acted[key] # << >>
                      /\ k'.layer_state = IF a.kind \in {"mo", "lm"} THEN k.layer_state \cup {a.layer}
                                          ELSE IF a.kind = "to" THEN {a.layer} ELSE k.layer_state
<1> DEFINE e == Event(key, TRUE, 0)
           w == [k EXCEPT !.weak_mods = {}]
           l == layer_switch_get_layer(w, key)
           s == update_source_layers_cache(w, e)
           r == process_record(s, e)
           a == Keymap[l][key]
<1>1. /\ tapping = NoKey /\ waiting = << >> /\ draining = FALSE /\ key \notin down
      /\ down' = down \cup {key} /\ Linked(k, down)
      /\ Clean(k, CodesOf(k), ModsOf(k), WeakOf(k)) /\ build \in Builds
  BY DEF PlainInv, Press
<1>2. /\ KFields \subseteq DOMAIN k /\ k.source_layers_cache \in [Keys -> Layers]
      /\ k.layer_state \subseteq Layers /\ k.default_layer_state \subseteq Layers
      /\ DOMAIN k.acted = Keys /\ k.acted[key] = << >>
  BY <1>1 DEF Clean, Linked
<1>3. /\ DOMAIN w = DOMAIN k /\ SameLayers(k, w)
      /\ Clean(w, CodesOf(k), ModsOf(k), WeakOf(k))
  <2>1. /\ DOMAIN w = DOMAIN k /\ w.report = k.report /\ w.host = k.host
        /\ w.nkro = k.nkro /\ w.eeprom_nkro = k.eeprom_nkro
        /\ w.real_mods = k.real_mods /\ w.weak_mods = {}
        /\ w.oneshot_mods = k.oneshot_mods /\ w.oneshot = k.oneshot
    BY <1>2 DEF KFields
  <2>2. SameLayers(k, w)
    BY <1>2 DEF KFields, SameLayers
  <2> HIDE DEF w
  <2> QED
    BY <1>1, <2>1, <2>2 DEF Clean
<1> HIDE DEF w
<1>4. l \in Layers
  BY <1>1, <1>2, <1>3, LayerExists DEF SameLayers
<1>5. e.key = key /\ e.pressed = TRUE /\ e.count = 0
  BY DEF Event
<1> HIDE DEF e
<1>6. s = [w EXCEPT !.source_layers_cache[key] = l]
  BY <1>5 DEF update_source_layers_cache
<1> HIDE DEF l, s
<1>7. /\ DOMAIN s = DOMAIN w /\ SameReports(w, s)
      /\ s.source_layers_cache = [k.source_layers_cache EXCEPT ![key] = l]
      /\ s.layer_state = k.layer_state /\ s.default_layer_state = k.default_layer_state
      /\ s.acted = k.acted /\ s.toggled = k.toggled
  BY <1>2, <1>3, <1>6 DEF KFields, SameReports, SameLayers
<1>8. Clean(s, CodesOf(k), ModsOf(k), WeakOf(k))
  BY <1>3, <1>7, SameClean
<1>9. layer_switch_get_layer(s, key) = l
  BY <1>3, <1>7 DEF layer_switch_get_layer, SameLayers, l
<1>10. a.layer \in Layers /\ ~is_tap_action(a)
  BY <1>4 DEF PlainKeymap
<1>11. k' = r /\ tapping' = NoKey /\ waiting' = << >> /\ draining' = (<< >> # << >>)
  <2>1. Done(r, NoKey, waiting)
    BY <1>1, <1>9, <1>10
       DEF Press, layer_switch_get_action, is_tap_action, s, w, e
  <2> QED
    BY <1>1, <2>1 DEF Done
<1>12. update_source_layers_cache(s, e) = s
  <2>1. update_source_layers_cache(s, e) = [s EXCEPT !.source_layers_cache[key] = l]
    BY <1>5, <1>9 DEF update_source_layers_cache
  <2>2. s.source_layers_cache[key] = l /\ key \in DOMAIN s.source_layers_cache
    BY <1>2, <1>4, <1>7
  <2>3. [s.source_layers_cache EXCEPT ![key] = l] = s.source_layers_cache
    BY <1>2, <1>4, <1>7
  <2>4. s = [x \in DOMAIN s |-> s[x]]
    BY <1>6
  <2> QED
    BY <2>1, <2>2, <2>3, <2>4
<1>13. store_or_get_action(s, e) = a
  BY <1>2, <1>5, <1>7 DEF store_or_get_action
<1>14. \/ /\ a.kind = "nk_togg" /\ SameLayers(s, r) /\ Clean(r, {}, {}, {})
       \/ /\ a.kind # "nk_togg" /\ Noted(s, r, e, a)
          /\ Clean(r, CodesAfter(CodesOf(k), e, a), ModsAfter(ModsOf(k), e, a),
                   WeakAfter(WeakOf(k), e, a))
  BY <1>5, <1>8, <1>10, <1>12, <1>13, RecordClean
<1> HIDE DEF r
<1>15. /\ r.source_layers_cache = s.source_layers_cache /\ r.toggled = k.toggled
       /\ r.default_layer_state \subseteq Layers /\ r.layer_state \subseteq Layers
       /\ DOMAIN r.acted = Keys /\ \A x \in Keys \ {key} : r.acted[x] = k.acted[x]
       /\ \/ a.kind = "nk_togg" /\ r.layer_state = k.layer_state /\ r.acted[key] = << >>
          \/ /\ r.acted[key] = <<[action |-> a, count |-> 0]>>
             /\ r.layer_state = IF a.kind \in {"mo", "lm"} THEN k.layer_state \cup {a.layer}
                                ELSE IF a.kind = "to" THEN {a.layer} ELSE k.layer_state
  <2> HIDE DEF a
  <2>1. CASE a.kind = "nk_togg" /\ SameLayers(s, r)
    BY <1>2, <1>7, <2>1 DEF SameLayers
  <2>2. CASE Noted(s, r, e, a)
    <3>1. /\ r.source_layers_cache = s.source_layers_cache /\ r.toggled = s.toggled
          /\ r.acted = [s.acted EXCEPT ![key] = <<[action |-> a, count |-> 0]>>]
          /\ r.default_layer_state \in {s.default_layer_state, {a.layer}}
          /\ r.layer_state = IF a.kind \in {"mo", "lm"} THEN s.layer_state \cup {a.layer}
                             ELSE IF a.kind = "to" THEN {a.layer} ELSE s.layer_state
      BY <1>2, <1>3, <1>5, <1>7, <2>2 DEF Noted, LayersOf, KFields
    <3> QED
      BY <1>2, <1>7, <1>10, <3>1
  <2> QED
    BY <1>14, <2>1, <2>2
<1>16. /\ r.source_layers_cache \in [Keys -> Layers] /\ ActionOf(r, key) = a
       /\ \A x \in Keys \ {key} : r.source_layers_cache[x] = k.source_layers_cache[x]
  BY <1>2, <1>4, <1>7, <1>15 DEF ActionOf
<1>17. Linked(r, down')
  <2>1. ASSUME NEW x \in Keys, r.acted[x] # << >>
        PROVE  x \in down' /\ r.acted[x] = <<[action |-> ActionOf(r, x), count |-> 0]>>
    <3>1. CASE x = key
      BY <1>1, <1>15, <1>16, <2>1, <3>1
    <3>2. CASE x # key
      <4>1. r.acted[x] = k.acted[x] /\ ActionOf(r, x) = ActionOf(k, x)
        BY <1>15, <1>16, <3>2 DEF ActionOf
      <4> QED
        BY <1>1, <2>1, <4>1 DEF Linked
    <3> QED
      BY <3>1, <3>2
  <2> QED
    BY <1>15, <1>16, <2>1 DEF Linked
<1>18. Clean(r, CodesOf(r), ModsOf(r), WeakOf(r))
  <2>1. CASE Clean(r, {}, {}, {})
    BY <2>1, CleanMore
  <2>2. CASE /\ a.kind # "nk_togg"
             /\ Clean(r, CodesAfter(CodesOf(k), e, a), ModsAfter(ModsOf(k), e, a),
                      WeakAfter(WeakOf(k), e, a))
    <3>1. ASSUME NEW kinds
          PROVE  /\ HeldAs(k, kinds) \subseteq HeldAs(r, kinds)
                 /\ \A x \in HeldAs(k, kinds) : ActionOf(r, x) = ActionOf(k, x)
                 /\ a.kind \in kinds => key \in HeldAs(r, kinds)
      <4>1. key \notin HeldAs(k, kinds)
        BY <1>2 DEF HeldAs
      <4>2. HeldAs(k, kinds) \ {key} \subseteq HeldAs(r, kinds)
            /\ \A x \in HeldAs(k, kinds) \ {key} : ActionOf(r, x) = ActionOf(k, x)
        BY <1>15, <1>16, Others
      <4>3. r.acted[key] # << >>
        <5>1. r.acted[key] = <<[action |-> a, count |-> 0]>>
          BY <1>15, <2>2
        <5> QED
          BY <5>1
      <4> QED
        BY <1>16, <4>1, <4>2, <4>3 DEF HeldAs
    <3>2. CodesAfter(CodesOf(k), e, a) \subseteq CodesOf(r)
      <4>1. CodesOf(k) \subseteq CodesOf(r)
        BY <3>1 DEF CodesOf
      <4>2. a.kind = "key" => a.code \in CodesOf(r)
        BY <1>16, <3>1 DEF CodesOf
      <4> QED
        BY <1>5, <4>1, <4>2 DEF CodesAfter
    <3>3. ModsAfter(ModsOf(k), e, a) \subseteq ModsOf(r)
      <4>1. ModsOf(k) \subseteq ModsOf(r)
        BY <3>1 DEF ModsOf
      <4>2. a.kind \in {"mod", "lm"} => a.mods \subseteq ModsOf(r)
        BY <1>16, <3>1 DEF ModsOf
      <4> QED
        BY <1>5, <4>1, <4>2 DEF ModsAfter
    <3>4. WeakAfter(WeakOf(k), e, a) \subseteq WeakOf(r)
      <4>1. WeakOf(k) \subseteq WeakOf(r)
        BY <3>1 DEF WeakOf
      <4>2. a.kind = "key" => a.mods \subseteq WeakOf(r)
        BY <1>16, <3>1 DEF WeakOf
      <4> QED
        BY <1>5, <4>1, <4>2 DEF WeakAfter
    <3> QED
      BY <2>2, <3>2, <3>3, <3>4, CleanMore
  <2> QED
    BY <1>14, <2>1, <2>2
<1> QED
  <2>1. Linked(k', down') /\ Clean(k', CodesOf(k'), ModsOf(k'), WeakOf(k'))
    BY <1>11, <1>17, <1>18
  <2>2. ActionOf(k', key) = a /\ \E i \in Layers : a = Keymap[i][key]
    BY <1>4, <1>11, <1>16
  <2>3. r.acted[key] = <<[action |-> a, count |-> 0]>> => r.acted[key] # << >>
    OBVIOUS
  <2> HIDE DEF a
  <2> QED
    BY <1>2, <1>10, <1>11, <1>15, <1>16, <2>1, <2>2, <2>3

LEMMA ReleasePlain ==
  ASSUME PlainInv, PlainKeymap, UNCHANGED build, NEW key \in Keys, Release(key)
  PROVE  /\ tapping' = NoKey /\ waiting' = << >> /\ draining' = FALSE
         /\ Linked(k', down') /\ Clean(k', CodesOf(k'), ModsOf(k'), WeakOf(k'))
         /\ k'.source_layers_cache = k.source_layers_cache /\ k'.acted[key] = << >>
         /\ \A x \in Keys \ {key} : k'.acted[x] = k.acted[x]
         /\ LET a == ActionOf(k, key)
            IN  /\ \E l \in Layers : a = Keymap[l][key]
                /\ k'.toggled = IF a.kind = "tg" THEN SymDiff(k.toggled, {a.layer}) ELSE k.toggled
                /\ k'.layer_state = IF a.kind \in {"mo", "lm"} THEN k.layer_state \ {a.layer}
                                    ELSE IF a.kind = "tg" THEN SymDiff(k.layer_state, {a.layer})
                                    ELSE k.layer_state
<1> DEFINE e == Event(key, FALSE, 0)
           r == process_record(k, e)
           a == ActionOf(k, key)
<1>1. /\ tapping = NoKey /\ waiting = << >> /\ draining = FALSE
      /\ down' = down \ {key} /\ Linked(k, down)
      /\ Clean(k, CodesOf(k), ModsOf(k), WeakOf(k)) /\ build \in Builds
  BY DEF PlainInv, Release
<1>2. /\ KFields \subseteq DOMAIN k /\ k.source_layers_cache \in [Keys -> Layers]
      /\ k.layer_state \subseteq Layers /\ k.default_layer_state \subseteq Layers
      /\ DOMAIN k.acted = Keys
  BY <1>1 DEF Clean, Linked
<1>3. k' = r /\ tapping' = NoKey /\ waiting' = << >> /\ draining' = (<< >> # << >>)
  <2>1. key # NoKey
    BY <1>1, BuildsAssumption DEF Keys, Keymap
  <2>2. Done(r, tapping, waiting)
    BY <1>1, <2>1 DEF Release
  <2> QED
    BY <1>1, <2>2 DEF Done
<1>4. e.key = key /\ e.pressed = FALSE /\ e.count = 0
  BY DEF Event
<1> HIDE DEF e
<1>5. update_source_layers_cache(k, e) = k /\ store_or_get_action(k, e) = a
  BY <1>4 DEF update_source_layers_cache, store_or_get_action, ActionOf
<1>6. a.layer \in Layers /\ ~is_tap_action(a) /\ \E l \in Layers : a = Keymap[l][key]
  BY <1>2 DEF PlainKeymap, ActionOf
<1>7. /\ Noted(k, r, e, a)
      /\ Clean(r, CodesAfter(CodesOf(k), e, a), ModsAfter(ModsOf(k), e, a),
               WeakAfter(WeakOf(k), e, a))
  BY <1>1, <1>4, <1>5, <1>6, RecordClean
<1> HIDE DEF r, a
<1>8. /\ r.source_layers_cache = k.source_layers_cache
      /\ r.acted = [k.acted EXCEPT ![key] = << >>]
      /\ r.toggled = (IF a.kind = "tg" THEN SymDiff(k.toggled, {a.layer}) ELSE k.toggled)
      /\ r.default_layer_state \in {k.default_layer_state, {a.layer}}
      /\ r.layer_state = IF a.kind \in {"mo", "lm"} THEN k.layer_state \ {a.layer}
                         ELSE IF a.kind = "tg" THEN SymDiff(k.layer_state, {a.layer})
                         ELSE k.layer_state
  BY <1>2, <1>4, <1>7 DEF Noted, LayersOf, KFields
<1>9. r.default_layer_state \subseteq Layers /\ r.layer_state \subseteq Layers
  BY <1>2, <1>6, <1>8 DEF SymDiff
<1>10. /\ DOMAIN r.acted = Keys /\ r.acted[key] = << >>
       /\ \A x \in Keys \ {key} : r.acted[x] = k.acted[x]
       /\ \A x \in Keys : ActionOf(r, x) = ActionOf(k, x)
  BY <1>2, <1>8 DEF ActionOf
<1>11. Linked(r, down')
  <2>1. ASSUME NEW x \in Keys, r.acted[x] # << >>
        PROVE  x \in down' /\ r.acted[x] = <<[action |-> ActionOf(r, x), count |-> 0]>>
    <3>1. x # key /\ r.acted[x] = k.acted[x] /\ ActionOf(r, x) = ActionOf(k, x)
      BY <1>10, <2>1
    <3> QED
      BY <1>1, <2>1, <3>1 DEF Linked
  <2> QED
    BY <1>2, <1>8, <1>9, <1>10, <2>1 DEF Linked
<1>12. ASSUME NEW kinds
       PROVE  /\ HeldAs(k, kinds) \ {key} \subseteq HeldAs(r, kinds)
              /\ \A x \in HeldAs(k, kinds) \ {key} : ActionOf(r, x) = ActionOf(k, x)
              /\ key \in HeldAs(k, kinds) => a.kind \in kinds
  BY <1>8, <1>10, Others DEF HeldAs, a
<1>13. CodesAfter(CodesOf(k), e, a) \subseteq CodesOf(r)
  <2> SUFFICES ASSUME NEW c \in CodesAfter(CodesOf(k), e, a) PROVE c \in CodesOf(r)
    OBVIOUS
  <2>1. c \in CodesOf(k) /\ (a.kind = "key" => c # a.code)
    BY <1>4 DEF CodesAfter
  <2>2. PICK x \in HeldAs(k, {"key"}) : c = ActionOf(k, x).code
    BY <2>1 DEF CodesOf
  <2>3. x # key
    BY <1>12, <2>1, <2>2 DEF a
  <2> QED
    BY <1>12, <2>2, <2>3 DEF CodesOf
<1>14. ModsAfter(ModsOf(k), e, a) \subseteq ModsOf(r)
  <2> SUFFICES ASSUME NEW m \in ModsAfter(ModsOf(k), e, a) PROVE m \in ModsOf(r)
    OBVIOUS
  <2>1. m \in ModsOf(k) /\ (a.kind \in {"mod", "lm"} => m \notin a.mods)
    BY <1>4 DEF ModsAfter
  <2>2. PICK x \in HeldAs(k, {"mod", "lm"}) : m \in ActionOf(k, x).mods
    BY <2>1 DEF ModsOf
  <2>3. x # key
    BY <1>12, <2>1, <2>2 DEF a
  <2> QED
    BY <1>12, <2>2, <2>3 DEF ModsOf
<1>15. WeakAfter(WeakOf(k), e, a) \subseteq WeakOf(r)
  <2> SUFFICES ASSUME NEW m \in WeakAfter(WeakOf(k), e, a) PROVE m \in WeakOf(r)
    OBVIOUS
  <2>1. m \in WeakOf(k) /\ (a.kind = "key" => m \notin a.mods)
    BY <1>4 DEF WeakAfter
  <2>2. PICK x \in HeldAs(k, {"key"}) : m \in ActionOf(k, x).mods
    BY <2>1 DEF WeakOf
  <2>3. x # key
    BY <1>12, <2>1, <2>2 DEF a
  <2> QED
    BY <1>12, <2>2, <2>3 DEF WeakOf
<1>16. Clean(r, CodesOf(r), ModsOf(r), WeakOf(r))
  BY <1>7, <1>13, <1>14, <1>15, CleanMore
<1>17. Linked(k', down') /\ Clean(k', CodesOf(k'), ModsOf(k'), WeakOf(k'))
  BY <1>3, <1>11, <1>16
<1> QED
  BY <1>3, <1>6, <1>8, <1>10, <1>17 DEF a

\* Where no key is undecided and none is one-shot, nothing else can happen.
LEMMA OnlyKeys ==
  ASSUME PlainInv, PlainKeymap, Next
  PROVE  UNCHANGED build /\ \E key \in Keys : Press(key) \/ Release(key)
<1>1. tapping = NoKey /\ draining = FALSE /\ k.oneshot_mods = {} /\ k.oneshot.state = {}
  BY DEF PlainInv, Clean
<1>2. ~TappingTerm /\ ~Drain
  BY <1>1 DEF TappingTerm, Drain
<1>3. ~OneshotLayerTimedOut /\ ~OneshotModsTimedOut
  BY <1>1 DEF OneshotLayerTimedOut, OneshotModsTimedOut, is_oneshot_layer_active
<1>4. ~PinCodeEntry /\ ~PinCodeExit
  BY DEF PinCodeEntry, PinCodeExit, PlainKeymap
<1> QED
  BY <1>2, <1>3, <1>4 DEF Next

\* The keymap never changes.
LEMMA SameBuild ==
  ASSUME UNCHANGED build
  PROVE  /\ PlainKeymap' <=> PlainKeymap
         /\ Linked(k, down)' <=> Linked(k', down')
         /\ CodesOf(k)' = CodesOf(k') /\ ModsOf(k)' = ModsOf(k') /\ WeakOf(k)' = WeakOf(k')
         /\ HoldsOn(k)' = HoldsOn(k') /\ Layers' = Layers /\ Keys' = Keys /\ Keymap' = Keymap
BY DEF PlainKeymap, Linked, CodesOf, ModsOf, WeakOf, HoldsOn, HeldAs, ActionOf, Layers, Keys, Keymap

LEMMA PlainStart == Init => PlainInv
<1> SUFFICES ASSUME Init PROVE PlainInv
  OBVIOUS
<1>1. build \in Builds /\ tapping = NoKey /\ waiting = << >> /\ draining = FALSE
  BY DEF Init
<1>2. PICK nkro \in BOOLEAN :
       k = [layer_state |-> {}, default_layer_state |-> {0},
            source_layers_cache |-> [x \in Keys |-> 0],
            real_mods |-> {}, weak_mods |-> {}, oneshot_mods |-> {},
            oneshot |-> NoOneshot, oneshot_enable |-> TRUE,
            nkro |-> nkro, eeprom_nkro |-> nkro,
            report |-> [n \in BOOLEAN |-> {}],
            host |-> [n \in BOOLEAN |-> [mods |-> {}, keys |-> {}]],
            acted |-> [x \in Keys |-> << >>], toggled |-> {}, forgotten |-> {}]
  BY DEF Init
<1>3. 0 \in Layers
  BY <1>1, BuildsAssumption DEF Layers, Keymap
<1>4. Linked(k, down)
  BY <1>2, <1>3 DEF Linked
<1>5. Clean(k, CodesOf(k), ModsOf(k), WeakOf(k))
  BY <1>2 DEF Clean, KFields, NoOneshot
<1> QED
  BY <1>1, <1>4, <1>5 DEF PlainInv

LEMMA PlainStep == PlainInv /\ [Next]_vars => PlainInv'
<1> SUFFICES ASSUME PlainInv, [Next]_vars PROVE PlainInv'
  OBVIOUS
<1>1. UNCHANGED build
  BY DEF Next, vars
<1>2. CASE UNCHANGED vars
  <2>1. UNCHANGED <<k, tapping, waiting, draining, down>>
    BY <1>2 DEF vars
  <2> QED
    BY <1>1, <2>1, SameBuild DEF PlainInv
<1>3. CASE Next
  <2>1. build' \in Builds
    BY <1>1 DEF PlainInv
  <2>2. ASSUME PlainKeymap
        PROVE  /\ tapping' = NoKey /\ waiting' = << >> /\ draining' = FALSE
               /\ Linked(k', down') /\ Clean(k', CodesOf(k'), ModsOf(k'), WeakOf(k'))
    <3>1. PICK key \in Keys : Press(key) \/ Release(key)
      BY <1>3, <2>2, OnlyKeys
    <3> QED
      BY <1>1, <2>2, <3>1, PressPlain, ReleasePlain
  <2> QED
    BY <1>1, <2>1, <2>2, SameBuild DEF PlainInv
<1> QED
  BY <1>2, <1>3

LEMMA PhantomFree == PlainInv => (PlainKeymap => NoPhantomKey /\ NoPhantomModifier)
<1> SUFFICES ASSUME PlainInv, PlainKeymap PROVE NoPhantomKey /\ NoPhantomModifier
  OBVIOUS
<1>1. Linked(k, down) /\ Clean(k, CodesOf(k), ModsOf(k), WeakOf(k))
  BY DEF PlainInv
<1>2. ASSUME NEW kinds, NEW x \in HeldAs(k, kinds)
      PROVE  \E h \in Held : h.action = ActionOf(k, x)
  <2>1. x \in Keys /\ k.acted[x] = <<[action |-> ActionOf(k, x), count |-> 0]>>
    BY <1>1 DEF HeldAs, Linked
  <2>2. [action |-> ActionOf(k, x), count |-> 0] \in Range(k.acted[x])
    BY <2>1 DEF Range
  <2> QED
    BY <2>1, <2>2 DEF Held
<1>3. CodesOf(k) \subseteq HeldCodes
  <2> SUFFICES ASSUME NEW x \in HeldAs(k, {"key"}) PROVE ActionOf(k, x).code \in HeldCodes
    BY DEF CodesOf
  <2>1. PICK h \in Held : h.action = ActionOf(k, x)
    BY <1>2
  <2>2. h.action.kind = "key"
    BY <2>1 DEF HeldAs
  <2> QED
    BY <2>1, <2>2 DEF HeldCodes
<1>4. ModsOf(k) \subseteq HeldMods
  <2> SUFFICES ASSUME NEW x \in HeldAs(k, {"mod", "lm"}) PROVE ActionOf(k, x).mods \subseteq HeldMods
    BY DEF ModsOf
  <2>1. PICK h \in Held : h.action = ActionOf(k, x)
    BY <1>2
  <2>2. h.action.kind # "key"
    BY <2>1 DEF HeldAs
  <2> QED
    BY <2>1, <2>2 DEF HeldMods
<1>5. /\ HostKeys(k) \subseteq CodesOf(k) /\ k.real_mods \subseteq ModsOf(k)
      /\ HostMods(k) \subseteq ModsOf(k) \cup WeakOf(k)
  <2>1. /\ k.nkro \in BOOLEAN
        /\ \A n \in BOOLEAN : /\ k.host[n].keys \subseteq CodesOf(k)
                              /\ k.host[n].mods \subseteq ModsOf(k) \cup WeakOf(k)
    BY <1>1 DEF Clean
  <2>2. k.real_mods \subseteq ModsOf(k)
    BY <1>1 DEF Clean
  <2> HIDE DEF CodesOf, ModsOf, WeakOf
  <2> QED
    BY <2>1, <2>2 DEF HostKeys, HostMods
<1>6. NoPhantomKey
  BY <1>3, <1>4, <1>5 DEF NoPhantomKey
<1>7. ASSUME Held = {} PROVE ModsOf(k) = {} /\ WeakOf(k) = {}
  <2>1. \A kinds : HeldAs(k, kinds) = {}
    BY <1>2, <1>7
  <2> QED
    BY <2>1 DEF ModsOf, WeakOf
<1>8. NoPhantomModifier
  BY <1>5, <1>7 DEF NoPhantomModifier
<1> QED
  BY <1>6, <1>8

\* On a keymap without tap keys, one-shot keys and pin codes, whatever its layers and
\* through every change of them and of NKRO, the host presses no key and the firmware
\* holds no modifier that no held key accounts for: the release takes the action
\* that get_event_keycode noted for the press, and del_key and unregister_mods undo
\* what it did.
THEOREM NothingPhantom == Spec => [](PlainKeymap => NoPhantomKey)
<1>1. PlainInv => (PlainKeymap => NoPhantomKey)
  BY PhantomFree
<1> QED
  BY <1>1, PlainStart, PlainStep, PTL DEF Spec

\* On such a keymap the host presses no modifier when every key is up: whatever takes
\* a modifier away in process_action or process_magic sends a report without it.
THEOREM NoModifierLeft == Spec => [](PlainKeymap => NoPhantomModifier)
<1>1. PlainInv => (PlainKeymap => NoPhantomModifier)
  BY PhantomFree
<1> QED
  BY <1>1, PlainStart, PlainStep, PTL DEF Spec

-----------------------------------------------------------------------------
(* Layers that are toggled.                                                *)

\* No key moves to a layer, and no layer has both a toggle and a momentary key.
TogglesApart ==
  \A l, m \in Layers, x, y \in Keys :
    /\ Keymap[l][x].kind # "to"
    /\ Keymap[l][x].kind = "tg" /\ Keymap[m][y].kind \in {"mo", "lm"} =>
         Keymap[l][x].layer # Keymap[m][y].layer

ToggleLayers == {t \in Layers : \E l \in Layers, x \in Keys : /\ Keymap[l][x].kind = "tg"
                                                                /\ Keymap[l][x].layer = t}

\* What is toggled on is on, and what is on is held or toggled.
ToggleInv ==
  PlainKeymap /\ TogglesApart =>
    /\ k.toggled \subseteq k.layer_state /\ k.toggled \subseteq ToggleLayers
    /\ k.layer_state \subseteq HoldsOn(k) \cup k.toggled

LEMMA HeldApart ==
  ASSUME PlainInv, PlainKeymap, TogglesApart
  PROVE  HoldsOn(k) \cap ToggleLayers = {}
<1> SUFFICES ASSUME NEW x \in HeldAs(k, {"mo", "lm"}), ActionOf(k, x).layer \in ToggleLayers
             PROVE  FALSE
  BY DEF HoldsOn
<1>1. x \in Keys /\ k.source_layers_cache[x] \in Layers /\ ActionOf(k, x).kind \in {"mo", "lm"}
  BY DEF PlainInv, Linked, HeldAs
<1>2. PICK l \in Layers, y \in Keys :
        Keymap[l][y].kind = "tg" /\ Keymap[l][y].layer = ActionOf(k, x).layer
  BY DEF ToggleLayers
<1> QED
  BY <1>1, <1>2 DEF TogglesApart, ActionOf

LEMMA ToggleStep == PlainInv /\ ToggleInv /\ [Next]_vars => ToggleInv'
<1> SUFFICES ASSUME PlainInv, ToggleInv, [Next]_vars PROVE ToggleInv'
  OBVIOUS
<1>1. UNCHANGED build
  BY DEF Next, vars
<1>2. (TogglesApart' <=> TogglesApart) /\ ToggleLayers' = ToggleLayers
  BY <1>1 DEF TogglesApart, ToggleLayers, Layers, Keys, Keymap
<1>3. SUFFICES ASSUME PlainKeymap, TogglesApart
               PROVE  /\ k'.toggled \subseteq k'.layer_state /\ k'.toggled \subseteq ToggleLayers
                      /\ k'.layer_state \subseteq HoldsOn(k') \cup k'.toggled
  BY <1>1, <1>2, SameBuild DEF ToggleInv
<1>4. /\ k.toggled \subseteq k.layer_state /\ k.toggled \subseteq ToggleLayers
      /\ k.layer_state \subseteq HoldsOn(k) \cup k.toggled
  BY <1>3 DEF ToggleInv
<1>5. HoldsOn(k) \cap ToggleLayers = {}
  BY <1>3, HeldApart
<1>6. CASE UNCHANGED vars
  <2>1. k' = k
    BY <1>6 DEF vars
  <2> QED
    BY <1>4, <2>1
<1>7. ASSUME NEW key \in Keys, Press(key)
      PROVE  /\ k'.toggled \subseteq k'.layer_state /\ k'.toggled \subseteq ToggleLayers
             /\ k'.layer_state \subseteq HoldsOn(k') \cup k'.toggled
  <2> DEFINE a == ActionOf(k', key)
  <2>1. /\ k.acted[key] = << >> /\ k'.toggled = k.toggled
        /\ \A x \in Keys \ {key} : k'.acted[x] = k.acted[x]
                                   /\ k'.source_layers_cache[x] = k.source_layers_cache[x]
        /\ \E l \in Layers : a = Keymap[l][key]
        /\ \/ a.kind = "nk_togg" /\ k'.layer_state = k.layer_state
           \/ /\ k'.acted[key] # << >>
              /\ k'.layer_state = IF a.kind \in {"mo", "lm"} THEN k.layer_state \cup {a.layer}
                                  ELSE IF a.kind = "to" THEN {a.layer} ELSE k.layer_state
    BY <1>1, <1>3, <1>7, PressPlain
  <2>2. a.kind # "to"
    BY <1>3, <2>1 DEF TogglesApart
  <2>3. HoldsOn(k) \subseteq HoldsOn(k')
    <3>1. key \notin HeldAs(k, {"mo", "lm"})
      BY <2>1 DEF HeldAs
    <3>2. /\ HeldAs(k, {"mo", "lm"}) \ {key} \subseteq HeldAs(k', {"mo", "lm"})
          /\ \A x \in HeldAs(k, {"mo", "lm"}) \ {key} : ActionOf(k', x) = ActionOf(k, x)
      BY <2>1 DEF HeldAs, ActionOf
    <3> QED
      BY <3>1, <3>2 DEF HoldsOn
  <2>4. k'.acted[key] # << >> /\ a.kind \in {"mo", "lm"} => a.layer \in HoldsOn(k')
    BY DEF HoldsOn, HeldAs
  <2> HIDE DEF a
  <2> QED
    BY <1>4, <2>1, <2>2, <2>3, <2>4
<1>8. ASSUME NEW key \in Keys, Release(key)
      PROVE  /\ k'.toggled \subseteq k'.layer_state /\ k'.toggled \subseteq ToggleLayers
             /\ k'.layer_state \subseteq HoldsOn(k') \cup k'.toggled
  <2> DEFINE a == ActionOf(k, key)
  <2>1. /\ k'.source_layers_cache = k.source_layers_cache
        /\ \A x \in Keys \ {key} : k'.acted[x] = k.acted[x]
        /\ \E l \in Layers : a = Keymap[l][key]
        /\ k'.toggled = (IF a.kind = "tg" THEN SymDiff(k.toggled, {a.layer}) ELSE k.toggled)
        /\ k'.layer_state = IF a.kind \in {"mo", "lm"} THEN k.layer_state \ {a.layer}
                            ELSE IF a.kind = "tg" THEN SymDiff(k.layer_state, {a.layer})
                            ELSE k.layer_state
    BY <1>1, <1>3, <1>8, ReleasePlain
  <2>2. /\ a.layer \in Layers /\ (a.kind = "tg" => a.layer \in ToggleLayers)
        /\ (a.kind \in {"mo", "lm"} => a.layer \notin ToggleLayers)
    <3>1. PICK l \in Layers : a = Keymap[l][key]
      BY <2>1
    <3> QED
      BY <1>3, <3>1 DEF PlainKeymap, ToggleLayers, TogglesApart
  <2>3. \A t \in HoldsOn(k) : t \in HoldsOn(k') \/ (a.kind \in {"mo", "lm"} /\ t = a.layer)
    <3> TAKE t \in HoldsOn(k)
    <3>1. PICK x \in HeldAs(k, {"mo", "lm"}) : t = ActionOf(k, x).layer
      BY DEF HoldsOn
    <3>2. CASE x = key
      BY <3>1, <3>2 DEF HeldAs
    <3>3. CASE x # key
      <4>1. x \in HeldAs(k', {"mo", "lm"}) /\ ActionOf(k', x) = ActionOf(k, x)
        BY <2>1, <3>3 DEF HeldAs, ActionOf
      <4> QED
        BY <3>1, <4>1 DEF HoldsOn
    <3> QED
      BY <3>2, <3>3
  <2> HIDE DEF a
  <2>4. CASE a.kind = "tg"
    BY <1>4, <1>5, <2>1, <2>2, <2>3, <2>4 DEF SymDiff
  <2>5. CASE a.kind \in {"mo", "lm"}
    BY <1>4, <2>1, <2>2, <2>3, <2>5
  <2>6. CASE a.kind \notin {"tg", "mo", "lm"}
    BY <1>4, <2>1, <2>3, <2>6
  <2> QED
    BY <2>4, <2>5, <2>6
<1> QED
  BY <1>3, <1>6, <1>7, <1>8, OnlyKeys

LEMMA ToggleStart == Init => ToggleInv
<1> SUFFICES ASSUME Init PROVE ToggleInv
  OBVIOUS
<1>1. k.toggled = {} /\ k.layer_state = {}
  BY DEF Init
<1> QED
  BY <1>1 DEF ToggleInv

\* What LayersApart says of the keys on a keymap without tap keys.
LEMMA ApartKeys == LayersApart => TogglesApart
<1> SUFFICES ASSUME LayersApart,
                    NEW l \in Layers, NEW m \in Layers, NEW x \in Keys, NEW y \in Keys
             PROVE  /\ Keymap[l][x].kind # "to"
                    /\ Keymap[l][x].kind = "tg" /\ Keymap[m][y].kind \in {"mo", "lm"} =>
                         Keymap[l][x].layer # Keymap[m][y].layer
  BY DEF TogglesApart
<1> DEFINE a == Keymap[l][x]
           b == Keymap[m][y]
<1>1. a \in ActionsInMap /\ b \in ActionsInMap
  BY DEF ActionsInMap, ActionsOf
<1>2. a.kind # "to"
  BY <1>1 DEF LayersApart, Kinds
<1>3. ASSUME a.kind = "tg", b.kind \in {"mo", "lm"}, a.layer = b.layer PROVE FALSE
  <2>1. a.layer \in LayersOn({"tg"})
    BY <1>1, <1>3 DEF LayersOn
  <2>2. b.layer \in LayersOn({"mo", "lm", "lt", "osl"})
    BY <1>1, <1>3 DEF LayersOn
  <2> QED
    BY <1>3, <2>1, <2>2 DEF LayersApart
<1> QED
  BY <1>2, <1>3

LEMMA LayersFree ==
  PlainInv /\ ToggleInv =>
    (PlainKeymap => NoPhantomLayer
                      /\ (LayersApart => k.layer_state \subseteq HeldLayers \cup k.toggled))
<1> SUFFICES ASSUME PlainInv, ToggleInv, PlainKeymap, LayersApart
             PROVE  k.layer_state \subseteq HeldLayers \cup k.toggled
  BY DEF NoPhantomLayer
<1>1. k.layer_state \subseteq HoldsOn(k) \cup k.toggled
  BY ApartKeys DEF ToggleInv
<1>2. HoldsOn(k) \subseteq HeldLayers
  <2> SUFFICES ASSUME NEW x \in HeldAs(k, {"mo", "lm"}) PROVE ActionOf(k, x).layer \in HeldLayers
    BY DEF HoldsOn
  <2> DEFINE h == [action |-> ActionOf(k, x), count |-> 0]
  <2>1. x \in Keys /\ k.acted[x] = <<h>> /\ h.action.kind \in {"mo", "lm"}
    BY DEF HeldAs, PlainInv, Linked
  <2>2. h \in Range(k.acted[x])
    BY <2>1 DEF Range
  <2>3. h \in UNION {Range(k.acted[y]) : y \in Keys}
    BY <2>1, <2>2
  <2> QED
    BY <2>1, <2>3 DEF HeldLayers, LayersHeld, HoldsLayer
<1> QED
  BY <1>1, <1>2

\* On a keymap without tap keys on which a layer has one owner, a layer is on only while
\* a held key or a toggle accounts for it: layer_on and layer_off of different keys never
\* meet a layer that is toggled, and nothing is forgotten, because nothing waits.
THEOREM LayersAccountedFor ==
  Spec => [](PlainKeymap => NoPhantomLayer
                              /\ (LayersApart => k.layer_state \subseteq HeldLayers \cup k.toggled))
<1> DEFINE Accounted == PlainKeymap => NoPhantomLayer
                          /\ (LayersApart => k.layer_state \subseteq HeldLayers \cup k.toggled)
<1>1. PlainInv /\ ToggleInv => Accounted
  BY LayersFree
<1> QED
  BY <1>1, PlainStart, PlainStep, ToggleStart, ToggleStep, PTL DEF Spec
=============================================================================
