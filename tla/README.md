# Verification of the Keychron wireless firmware

TLA+ models of the firmware in this repository: a fork of QMK for Keychron's
wireless keyboards, with the Keychron wireless stack
(`keyboards/keychron/common/wireless`), the Q3 Max keyboard and the QMKata
(Firmata over USB raw HID) remote-control layer. TLC checks the models on small
instances and TLAPS proves the central results for every size.

The thread through the project is *the journey of a key press*: switch ->
debouncing -> tap/hold decision -> report -> report buffer -> radio module ->
host. Correctness in one sentence: every press and every release reaches the
host it was made for, once and in order, or is dropped at one of the places
where the code decides to drop it.

## 1. Inventory

Everything runs on one thread (`keyboard_task` and the `*_task` functions it
calls), except the USB and GPIO interrupts. The hard behaviours are therefore
not preemption but *order between passes of the main loop*: reports, module
events, acknowledgements and timers interleave in any order, the radio module
answers late or not at all, and the microcontroller stops and restarts.

| part | state | operations | interacts with | correct when |
|---|---|---|---|---|
| matrix scan and debouncing (`matrix_common.c`, `sym_eager_pk.c`) | raw and cooked matrix, a counter per key, two flags, the last time | scan, init, free | `lpm_wakeup` initializes it, QMKata writes `g_debounce` | no change within the debounce time, none forgotten |
| tap/hold (`action_tapping.c`) | tapping key, waiting buffer of 8 records | one event or tick; drain | `matrix_task` feeds it, `process_record` takes its records | no press lost, overtaken or stuck |
| actions and layers (`action.c`, `action_layer.c`, `action_util.c`) | layers, modifiers, one-shot state, source-layer cache | process_record | host driver | every register has its unregister |
| report buffer (`report_buffer.c`) | ring of 256 reports, two indices, the report in flight, retries left, pacing timers | enqueue, dequeue, init, task, set interval | filled by `wireless.c`, drained to `lkbt51.c`, cleared by `lpm.c` and by a disconnection | a bounded queue, nothing lost silently |
| wireless state machine (`wireless.c`) | `wireless_state`, `host_index`, `pincodeEntry`, event queue of 16 | connect, pair, disconnect, event handlers, senders | events from `lkbt51.c`, requests from `keychron_wireless_common.c` and `transport.c` | its state is what the module last reported |
| radio driver (`lkbt51.c`) | payload, sequence number, scanner state | send command, scan packets, acknowledge | SPI to the LKBT51 module | every valid packet is handled once |
| low power (`lpm.c`, `lpm_stm32f401.c`) | `lpm_timer_buffer`, power mode | task, pre-enter, enter, wakeup | every sender restarts its timer | sleeps only when nothing is pending |
| battery (`battery.c`) | voltage, low and critical counters, power-on samples | measure, calculate, check, task | indicator, `wireless_low_battery_shutdown` | shuts down on a low battery only |
| indicator (`indicator.c`) | running indicator, its timer, backlight state | set, stop, timer callback | keeps the keyboard awake | ends, and shows the current state |
| transport (`transport.c`, `wireless_main.c`) | transport, saved NKRO settings | enable, set, remote wakeup | switches the host driver | each mode keeps its own settings |
| deferred execution (`deferred_exec.c`) | table of executors, 8-bit token | defer, extend, cancel, task | callbacks that call it back | a token names one executor |
| storage (`wear_leveling.c`) | cache, log, write address | init, write, consolidate | flash | a power loss leaves old or new data |
| QMKata (`qmkata/*`, `qmkata_sysex_handler.c`) | stream buffers, flush timer | feed, dispatch, print, send, flush | USB raw HID; writes configuration in place | every byte reaches the host once and in order |

`PROJECT.json` lists these parts, the ones left out (effects, USB and ChibiOS
drivers, factory test, the older `bluetooth` stack no keyboard here builds) and
the hazards, each at its line.

## 2. Modules

| module | models | state and actions |
|---|---|---|
| `ReportFifo` | what the report buffer promises | abstract queue: put, take, clear |
| `ReportBuffer` | `report_buffer.c`, the senders of `wireless.c`, `ack_handler` of `lkbt51.c`, `lpm_task` | the ring and its indices; one action per sender, acknowledgement, link event and task. `phase` orders `report_buffer_task` before `lpm_task` in a pass, everything else happens between passes |
| `ReportLink` | `ReportBuffer` composed with the radio module and the host | adds the module's queue and its acknowledgements (external, modelled from how `lkbt51.c` uses them) |
| `PacketScanner` | the packet scan of `lkbt51_task` | the static variables; one action per SPI read. A read is the set of headers in its buffer |
| `WirelessLink` | `wireless.c`, `keychron_wireless_common.c`, `transport.c`, the event block of `lkbt51_task` | the keyboard's state, its event queue, the NKRO settings, the host key timer; one action per handler, key, command and step of a transport switch (`pc = "wait"` is its 50 ms loop); the module's link, its unread reports and the commands on their way to it |
| `Battery` | `battery.c` | voltage, the three counters, the measuring timer; task, measurement, surroundings |
| `DeferredExec` | `deferred_exec.c` | the table, the token counter, the scan in progress; one action per API call and per entry of the scan, so that callbacks call the API between two entries |
| `Tapping` | `action_tapping.c`, `matrix_task`, the mod-tap branch of `process_action` | one step per call of `process_tapping`; `pc` says whether it looks at the event that arrived or at the oldest one waiting. The history variables `overtaken` and `unscanned` say that a key changed while records waited that no undecided key held back, and that a key was made the tapping key without a search of the buffer although its release waited |
| `Actions` | `action.c`, `action_layer.c`, `action_util.c`, `report.c`, the source layer cache of `quantum.c`, `process_magic` for NKRO | one record `k` with layers, modifiers, one-shot state, both reports and what the host last saw; every C function is an operator from `k` to `k` of the same name, an action is one key event, timeout or pass of the drain loop |
| `Debounce` | `sym_eager_pk.c` and `matrix_scan` | one action per scan, with the counter update and the transfer inside it; switches, clock, `g_debounce`, wakeup |
| `Eeprom` | what the storage promises | a byte memory: `durable` (after a restart), `live` (what reads return), the span of the write in progress, restarts, and a store that has failed |
| `WearLeveling` | `wear_leveling.c` on a backing store | consolidated data, checksum and log words in the store, cache and write address in RAM; one action per backing store operation, with an action for its failure, and a loss of power between any two |
| `QMKataStream` | the outgoing streams of `QMKata.cpp`, the marshalling of `FirmataMarshaller.cpp` | the two buffers, the packets on the wire; one action per print, response, first message, task pass |
| `ReportLinkProofs`, `TappingProofs`, `ActionsProofs`, `WirelessLinkProofs`, `DebounceProofs`, `PacketScannerProofs`, `BatteryProofs`, `DeferredExecProofs` | the proofs | lemmas about the operators, one lemma per action or branch, the theorems at the end |
| `MC*` | instances for TLC | |

How they fit together: `Debounce` ends with the cooked matrix whose changes are
the events of `Tapping` and `Actions`; `Actions` ends with the reports that
`ReportBuffer` takes as numbers; `ReportLink` carries them to the host;
`WirelessLink` is where the `link` of `ReportBuffer` and the `connected` of
`Battery` come from; `PacketScanner` finds the acknowledgements that
`ReportBuffer` acts on. `Tapping` and `Actions` overlap on purpose: `Tapping`
has every branch of the tap/hold machine with abstract registration, `Actions`
has the full dispatch with only the default decision mode.

Conventions:

* Data is abstract: a report is the number of the enqueue call that carried it,
  a key is a model value, a console character its number, times are ages in
  milliseconds. An age is saturated beyond everything it is compared with;
  where the code's difference of wrapping times matters (`timer_elapsed` of 16
  bits in `Tapping` and `QMKataStream`, tokens and 32-bit triggers in
  `DeferredExec`) it wraps or has both outcomes.
* `WearLeveling` keeps bytes: log entries are encoded bit field by bit field as
  the macros of `wear_leveling_internal.h` do and decoded by the recovery,
  because what a torn entry decodes to is what its properties are about.
* The compile-time options of `Tapping` (decision modes), `Actions` (keymap,
  report and buffer size) and `WearLeveling` (width of a flash word, log size)
  are a variable (`build`, `flash`) that `Init` chooses from a constant set and
  no action changes: one run covers all of them.
* History variables record what happened and guard nothing but bounds, except
  that `Wakeup` of `Debounce` reads `since` for the second without key events
  that `lpm_task` waits for. Bounds are the constants named `Max*`.
* A definition whose comment starts with "Mutant" is a plausible bug of the
  definition after it; no specification uses it. `PROJECT.json` says which
  property notices it.

Environment assumptions, stated where they are used: the module answers a
packet or misses it, its answers are read in order but at any time later, and it
delivers what it took in order (`ReportLink`); it obeys commands in order and
reports every change of its link, but for the end of pin code entry, which it may
pass over (`WirelessLink`); a flash word is programmed, and a sector erased, as
one step, and the flash behind the store reads as erased (`WearLeveling`, whose
faults are those of unlocking, erasing, writing and reading: a failed lock only
makes a call report `FAILED` after its work is done); the clients of deferred execution hold at most one token and
forget it as `docs/custom_quantum_functions.md` asks (`DeferredExec`); the main
loop runs in every unit of the clock (`QMKataStream`, `ran`). `ReportBuffer`
leaves the other conditions of `lpm_task` (USB power, lighting) open, so it
sleeps whenever the modelled ones allow.

## 3. Runs

| run | question | bounds and why they are enough |
|---|---|---|
| `report_buffer` | ring accounting, order, retry budget, sleep, refinement of `ReportFifo`, draining | 3 slots (2 usable) and 3 reports: full, wrap-around and clearing all happen. One retry; the half-full pacing step is 0 here and 1 in `report_link` |
| `report_link` | with consumer and system reports beside the keyboard's and acknowledgements read at any time: no key report lost before its retries end, unless an acknowledgement of something else could be read while it was in flight (`~strayed`); host order | module queue of 2, so half, full and missed occur; 2 acknowledgements under way and 2 retries, so a report is retried while its first answer is late, and answered twice |
| `report_link_extras_lost` | *violation*: `NoReportLost` without that condition | same |
| `tapping` | no press lost, out of order or stuck until a key event overtakes the records that wait; none does in the default mode; every press is processed | two mod-tap keys, a modifier and a plain key, term 5 ms (the shortest in which a key restarted without a search lets an event overtake others in the default mode), quick tap term 1 ms, a buffer of 5 (4 usable) that overflows, 4 presses; two builds: the default mode with a quiet scan every millisecond, and permissive hold with hold on other key press, several changes per scan and stalls of 2 ms. The safety properties also hold with three mod-tap keys and a modifier (10 million states), and with 5 presses and longer terms |
| `debounce` | lock-out, nothing forgotten, settling | two keys, debounce times 0, 1 and the largest, scans as late as the clamp of the elapsed time |
| `wear_leveling` | durability, writes only to erased words inside the store, refinement of `Eeprom`, every call returns | 4 logical bytes; words of 4 bytes with 3 log words and of 2 bytes with 5 (limits of the short entries scaled down, so that every kind of entry is used); 2 writes of 1, 2 or 4 bytes, 1 loss of power, 1 failed operation (an unlock, an erase, a write, or a read of the data, of a log word or of the checksum): a write, its consolidation and the recovery from a cut in either |
| `deferred_exec` | the table is what the clients registered; never early, never late | 3 clients for 2 slots, 3 tokens that wrap, a timer that wraps; no bound on the length |
| `wireless_link` | state, host and pin code entry agree with the module when nothing is under way; a connection is noticed | a queue of 3 (2 usable) with packets of 2 events and 2 unread reports beside it, so it overflows, with LED and interval reports too; one Bluetooth host and the 2.4 GHz one, NKRO off at start-up (one `NK_TOGG` switches it on), 2 commands under way, 2 keys or switches, 2 spontaneous changes. `ConnectionNoticed` also holds with 1 key and 4 changes |
| `packet_scanner_long` | *violation*: `LastPacketHandled` with a header longer than the buffer | one length that fits, one that is cut off, one too long |
| `battery` | percentage, shutdown after measurements in a row, until power comes, and eventually | the code's own counts and thresholds, voltages on both sides of each |
| `actions` | phantom keys, modifiers and layers; one-shot modifiers | five keymaps of 4 to 6 keys on 2 or 3 layers, one of them without tap keys: layer keys with a report that one key fills, and in a waiting buffer that overflows; `TO`, `DF`, `NK_TOGG` with such a buffer; one-shot keys with timeouts and pin code entry. 3 waiting events. `LayersApart`, the condition of `NoPhantomLayer`, holds on all but the keymap with `TO`; the property was also checked on five other keymaps that satisfy it (layer keys of every kind on shared layers, toggles reached through layers, one-shot keys with `DF` and `NK_TOGG`), with buffers of 3 and of 8 |
| `qmkata_stream` | bytes once and in order, console without a gap, nothing kept for good | packets of 4, a console of 4 and a transmit buffer of 14 bytes, so that messages cross packets and fill both; 4 characters, 4 messages |

Deadlock is checked where the model can always go on. It is off in
`wear_leveling`, `wireless_link`, `actions` and `qmkata_stream`, whose behaviours
end when the bounded supply of calls, keys or messages is used up.

Two runs show where the code departs from what it says:

* `report_link_extras_lost`: `ack_handler` ends the retries of the report in
  flight for *any* acknowledgement. A key report the module missed is given up
  when the acknowledgement of a consumer or system report, sent past the
  buffer, arrives.
* `packet_scanner_long`: the length of a header is only compared with its
  complement. One that is longer than the buffer is refused with
  `wait_for_new_pkt` left false, and no later packet is looked for.

Fairness is that of a main loop: the tasks of a pass, `process_tapping`, tick
generation, the scan, the measurement, the steps of a storage call and the
handling of events are weakly fair, because `keyboard_task` runs forever and its
waits are finite; so is the clock. In `ReportBuffer` the clock is strongly fair,
because it can advance only between passes while the hardware timer advances all
the time; in `WirelessLink` so is `drain`, the pass of the main loop that handles
the events a `send_string_task` has left in the queue: string after string may come
between, but every pass of `keyboard_task` handles the queue. The module is assumed
to obey commands. `LowEndsInShutdown` of `Battery` assumes that asked measurements are
answered. Nothing is assumed about users, switches or the link.

### Known departures

Where a property needs a condition, the model shows what happens without it.
Each of these is reproduced by changing the constants named:

| condition | how to drop it | what TLC then shows |
|---|---|---|
| `ReportLink`: no acknowledgement of something else while a report is in flight (`KeyReportsRetried`) | `~strayed` removed, `Extras = FALSE` | keyboard reports alone lose one: a report is sent again before its first acknowledgement is read (`lkbt51_task` reads one packet in a pass, only when the module shows one), both are answered, and the second answer ends the retries of the next report, which the module missed (`lkbt51.c:681-684`) |
| `ReportLink`: no NKRO (`HostInOrder`) | `Nkro = TRUE` | `HostInOrder` fails: `wireless_send_nkro` queues a report and sends it directly as well (`wireless.c:365-370`); the queued copy of an older state comes last |
| `Tapping`: no stalls, no permissive hold, no unscanned restart (`NotOvertaken`) | the build's condition removed | the drain loop ends at a record that settles the tapping key as a hold and leaves records waiting with no decision open (`action_tapping.c:101-109`); a key event before the next tick is processed first. In permissive hold, with a modifier held: two mod-tap keys down, the modifier up and down again, the first key times out, and the release settles the second. In the default mode it takes three mod-tap keys and two milliseconds without a quiet scan at the end of a term, or several changes in one scan |
| `Tapping`: every key whose release waits is found by the search (`NotOvertaken`, `NoStuckKey`) | `~unscanned` removed | "FIX: start new tap again" (`action_tapping.c:401-403`) makes a press the tapping key without the `waiting_buffer_scan_tap` that every other press of a tap key makes. `NotOvertaken`, default mode, on the instance of the run: `t2` down, `t1` down, up, down, up within the term of `t2`, which times out; the second press of `t1` restarts unscanned, the drain loop makes its waiting release the first tap and ends there, with records waiting and no decision open. `NoStuckKey`, default mode, nothing overtaken (term and buffer 6, quick tap term 2, 5 presses, `t1`, `t2` and a modifier `m`): `t1` down, `t2` down, up, down, `m` down, `t2` up; `t1` times out and the second press of `t2` restarts unscanned; `t2` down, `t1` up, `t2` up arrive. The newest release is marked as the tap, an older one releases the key, the third press restarts unscanned and times out as a hold although it was released after 2 ms, and its release carries the tap count: the tap is unregistered once more and the modifier stays held. `docs/tap_hold.md:121` and the rule at `action_tapping.c:162-163` select the hold only for a key held longer than the term |
| `Tapping`: no event overtaken (`NoStuckKey`, `NoPressLost`, `PressesInOrder`) | `~overtaken` removed | the event that overtakes is a release and its own press waits: the key stays registered |
| `Tapping`: nothing is said of `NoneInBuffer` | `NoneInBuffer` as an invariant, term and buffer of 5, 4 presses, default mode | the comment "should none in buffer" (`action_tapping.c:412`) is not true: two mod-tap keys go down, the second up again, then a plain key and a modifier down, all within the term; the drain loop reaches the plain key in the released state with the modifier still waiting. Nothing goes wrong, the modifier is processed next |
| `DeferredExec`: no callback cancels itself | `CancelSelf = TRUE` | `RegisteredExactly` fails: the callback defers again into its own slot and its return value is applied to the new executor (`deferred_exec.c:134-147`; `custom_quantum_functions.md:365`) |
| `WirelessLink`: `QueueSize >= 3` | `QueueSize = 2` | `InSync` fails: a queue that holds one event forgets `DISCOVERABLE` before a `SLEEP` or a pin code request, which say nothing to a keyboard that does not know of the pairing. The code has 16 slots |
| `WirelessLink`: no LED or interval report in a queue that overflows (`InSync`), none about pin codes forgotten (`PincodeInSync`) | `~crowded` or `~overrun` removed, `MaxMoves = 4` | LED and interval reports share the queue (`lkbt51.c:812-834`). In the 50 ms of a transport switch, or while a string is sent, they drive the last report of a state out of it; the keyboard has the old state until the module reports another |
| `WirelessLink`: the module reports the end of pin code entry (`PincodeInSync`) | `~silent` removed | with `WIRELESS_NKRO_ENABLE` (`q3_max/config.h:71`) `wireless_enter_connected` does not restore NKRO (`wireless.c:224-225`), and `pincodeEntry` stays set |
| `WirelessLink`: the EEPROM holds the NKRO setting that pin code entry switched off, and no transport switch comes between (`PincodeInSync`) | `\/ unsaved` removed, `MaxKeys = 3`, `SavedNkro = {TRUE, FALSE}` | the EEPROM has one bit and each transport a setting of its own; the exit reads the EEPROM (`wireless.c:280-286`), and a transport switch during the entry saves the setting as off (`transport.c:145-176`) |
| `WearLeveling`: no fault (`WritesErasedWords`) | the condition `faults = 0` removed | a failed erase leaves the write address at the end of the store (`wear_leveling.c:306-310`) and the next write goes behind it |
| `WearLeveling`: no reported failure (`DurableUnlessReported`) | `~failed` weakened to the last call | a write that failed is in the cache, the same write tried again returns success without storing anything (`wear_leveling.c:687-688`) |
| `WearLeveling`: the checksum was read (`DurableUnlessReported`) | `~misread` removed | the result of reading the checksum is not looked at (`wear_leveling.c:226-232`): if the read fails, the words do not match, the cache is cleared and `wear_leveling_init` returns `WEAR_LEVELING_SUCCESS`. Reads then answer with zeros, and the next consolidation writes them over the good data |
| `WearLeveling`: the flash behind the store reads as erased | | a multi-word entry torn in the last log word makes the recovery read behind the store (`wear_leveling.c:553`) |
| `Actions`: `NoPhantomModifier` without `OSM` | the condition removed | a one-shot modifier tapped, then held alone: its release sends the report before the pending modifier is deleted (`action.c:472-473`); `ONESHOT_TIMEOUT` drops one without a report (`action.c:104-106`) |
| `Actions`: `NoPhantomKey` without pin codes | the condition removed | pin code entry changes `keymap_config.nkro` while a key is down (`wireless.c:271-278`), its release changes the other report |
| `Actions`: keymaps with one owner for every layer (`LayersApart` of `NoPhantomLayer`) | `TO` | the layer stays on until another `TO`, by design |
| | `TG` and `MO` of one layer | the toggle key pressed while the layer is held turns it off, the toggle typed again turns it on with nothing to account for it |
| | two `OSL` layers | the second overwrites the pending one, whose layer stays on (`action_util.c:172-183`) |
| | `OSL` and `OS_TOGG` | the setting changes before the pending layer is cleared, and the clear then does nothing (`action_util.c:199-226`) |
| | `OSL` and `TG` | the key that ends the one-shot is released by the firmware and by the user, and toggles twice (`action.c:868-876`) |
| | beside a mod-tap key, a layer or modifier key that differs on the next layer | its retained release waits while a new press overwrites its source layer (`quantum.c:225-251`), and the release is that of the other key |
| `Actions`: a layer whose key's release was lost is accounted for (`NoPhantomLayer`) | `k.forgotten` removed | an overflow of the waiting buffer forgets the layer key's release and clears everything but the layers (`action_tapping.c:88-94`): the layer stays on until a key of that layer is used again |
| `QMKataStream`: padding is not counted as data | | a full transmit buffer is flushed inside a message and the packet filled with zeros (`QMKata.cpp:177-183`, `240-245`) |

## 4. Proofs

`ReportLinkProofs` first proves, for every queue size of at least 2, every retry
count and interval allowed by `ReportBufferAssumption` and every number of
reports, that `IndInv` is inductive, and from it `TypeOK`, `NothingVanishes`,
`RetryBudget`, `InOrder`, `SleepDropsNothing` and that the ring implements
`ReportFifo`. The assumption asks that the pacing intervals and the retry delay
are shorter than the low power timeout (at most 62 ms against 1000 ms in the
code). The argument has three parts:

* *The ring.* Lemmas about `%` show that an enqueue appends to `Contents`, a
  dequeue takes its head and an initialization empties it. `NothingVanishes`
  is not inductive: it needs `Sorted` (the queued numbers increase), so that
  the head is the smallest report after `sent` that was not dropped.
* *The scalars.* Types and the retry budget.
* *The timers.* `SleepDropsNothing` needs `Timing`: the low power timer is
  never older than the retry timer, nor, once the connected indication has
  ended, than the report timer, because every action that restarts one of them
  restarts it too. A pending report has been retried before the low power timer
  can expire.

It then composes the ring with the module and the host. For every
size of both queues, every retry count, number of reports and of acknowledgements
under way, it proves `KeyReportsRetried` and, as long as there is no NKRO (which the
known departures show to be needed), `HostInOrder`. The invariant `LinkInv` adds to `IndInv`
that the module holds, in increasing order, every report it took that the host
does not have, none older than the last one the host heard (`ModuleInOrder`); that
a report that may still be retried is the newest one and has used exactly the
other retries (`InFlight`); and that, unless an acknowledgement of something else
could be read since that report was started (`strayed`), one that ends the retries
is about it, however many are under way and however late they are read
(`AcksAreAboutSent`). The order at the host follows: what the module takes is
always the newest report.

`TappingProofs` is about `action_tapping.c`, for every set of keys, terms, buffer of
at least 2 slots, stall, choice of decision modes per key and number of presses. It
has four parts.

* *The line* (`NoPressLost`, `PressesInOrder`): no press is lost or processed twice,
  and the order is kept, until an event overtakes the records that wait. The line is
  the waiting buffer with the record that has arrived at its end. Every branch of
  `process_tapping` does one of four things to it (`Takes`, `Keeps`, `Settles`,
  `Clears`): takes the press at its head, keeps all presses, processes the undecided
  tapping key, or overflows. `KindsInLine` shows that each of the four keeps the
  unprocessed presses `last + 1 .. presses`, in order, behind the undecided key.
  `NoPressLost` is not inductive without that order, and without the fact that a new
  event finds an undecided key or an empty buffer. Terms and ages play no part here:
  whether a record is within the term is left open.
* *Ages* (`TypeOK`): the waiting buffer keeps a slot free, and nothing that may still
  decide something grows so old that its time wraps. A tick comes at most `MaxStall`
  milliseconds after the last, and settles the tapping key or lets the first record
  go; so the more records wait, the younger they are (`Limit`). `AgeInv` has that bound
  for every point of a pass, and that an undecided key is older than what it holds back.
* *Keys* (`NoStuckKey`): the events of a key alternate along the line and end with the
  state of its switch. A key that is registered, or is the settled tapping key, is
  *due* a release: its switch is down or its first event in line is a release
  (`DueInv`). A tap count marks the next release of the key that was tapped and no
  other (`MarkInv`), and what is registered as a tap or as a hold is what the next
  release will take back (`KindInv`). That needs that an undecided key has no release
  in line within its term (`Late`), which is what `waiting_buffer_scan_tap` ensures,
  hence the condition `~unscanned`.
* *Time* (`NotOvertaken`): in the default mode, with one key changing at a time and a
  quiet scan every millisecond, no event overtakes another. At most one event comes
  between two ticks, so the records that wait are spread out (`Spread`, `Aged`). A tick
  settles an undecided key as soon as it is as old as the term; the next in line is
  then at most as old as the term and everything behind it within its term (`Calm`),
  so the drain loop ends at an undecided key or when nothing waits (`Tight`). The pass
  of an event may leave settled records behind, but only ones as young as the event
  (`LeftOver`), and no second event comes before the tick. `OnTime` says which of these
  holds at which point of a pass.

The second and third part reason about the branches of `process_tapping` regrouped by
what they do to the tapping key and the record looked at (`Branch`; `ProcessBranch`
shows that they are all).

`ActionsProofs` has two parts. `OneshotForOneKey` is proved for every keymap, report
size, waiting buffer and build option. The invariant is that the host knows the keys
of both reports (`Told`), so that a function that sends the report in use shows the
host nothing new of the other. The C functions are related two states at a time:
`Stays` (a new key only without one-shot modifiers left, and none added) composes
along `register_code`, `process_key` and the others, and `OneKey` allows in addition
what a tapped one-shot key does last.

The other properties depend on the keymap (the known departures show keymaps they do
not hold for). `NoPhantomKey` and `NoPhantomModifier` are proved for every keymap
without tap keys and pin codes (`PlainKeymap`), which the keymaps the keyboard comes
with are: their only layer keys are `MO` keys. For the same keymaps `NoPhantomLayer`
is proved, and that nothing but held keys and toggles is needed to account for the
layers: nothing waits there, so no release is forgotten. Its condition `LayersApart`
comes down to no `TO` and no layer with both a toggle and a momentary key
(`TogglesApart`). The invariant `PlainInv` says that a key that is noted is down and
has the action of the layer its press noted in the source layer cache (`Linked`);
that the codes, real and weak modifiers of those keys account for the report in use
and for what the host saw, and that the other report is empty (`Clean`). `Clean` takes
these three sets as parameters, so that each C function has a lemma about what it adds
to them or takes from them. `ToggleInv` adds that what is toggled is on and what is
on is held or toggled.

`WirelessLinkProofs` proves `InSync` and `PincodeInSync` for every event queue of at
least 3 slots, every size of a packet that fits into it and every number of hosts,
reports and commands. `InSync` speaks of quiet states only, so the invariant has to
say what the unread reports will lead to. `Converges`: with no command under way,
the last unread report *of a state* tells the module's, and only LED and interval
reports are behind it; or, for the reports that count only during pairing, the state
before it announced the pairing; or nothing unread tells a state and the keyboard has
the module's already, or the queue was crowded. A queue of connection reports that
overwrites its oldest event still has the two that matter; one that LED and interval
reports fill may not, hence `crowded`, which the next report of a state ends.
`PincodeConverges` says that the last report about pin codes, or `pincodeEntry` if
there is none, tells whether the module asks for one, and that NKRO is off because of
an entry only while `pincodeEntry` is set and the EEPROM says it is on.

`DebounceProofs` proves for every set of keys and every set of debounce times
that a key does not change within its debounce time (`LockedOut`) and that no
change is forgotten. The strengthening is `Covered`: a running counter, taken
as of `last_time`, covers the rest of the lock, and the flag that makes it run
is set.

`PacketScannerProofs` proves for every buffer size and every set of lengths that
fit (`LengthsFit`) that the scanner waits for a new packet after every read
(`NeverStuck`, which is inductive) and that a whole last packet is handled
(`LastPacketCorrect`): the condition that the violation run drops is exactly the
one the code relies on and does not check. The lemmas say that a header read at
its index has the fields that were written there, that headers do not overlap,
and that the scan ends at the last.

`BatteryProofs` proves for every set of voltages, every threshold and every count
`ShutdownNeedsARow`, `CriticalUntilPower` and `PercentageOrdered`. The inductive
invariant adds `RowCounted`: until the shutdown the code's `critical_low` is the
number of low judgements in a row. The percentage needs that `\div` is monotone,
proved from its quotient and remainder.

`DeferredExecProofs` proves, for every number of slots and clients, every token
and timer range allowed by `DeferredExecAssumption` and every stall of the main
loop, `RegisteredExactly`, `NeverEarly` and `NeverLate`, under `~CancelSelf`
(which the known departures show to be needed). The first invariant says that
every entry belongs to the client that holds its token, that every holder has an
entry, that tokens are distinct and that a running callback's entry is still its
own. `TimeInv` adds the times: a trigger is the clock plus what its client still
expects to wait, entries that the scan has passed are not due at its beginning,
the others at most a stall late. Wrapping times reduce to case distinctions by
`ModCases`, and `DueIsTrue` shows that the signed comparison of the code is the
true one.

Only model-checked: the liveness properties (fairness is out of the provers'
reach); the refinement of `Eeprom`, `DurableUnlessReported` and
`WritesErasedWords`, which need induction over the words of the log;
`StreamInOrder` and `ConsoleWithoutGap` of `QMKataStream`, which flatten sequences of
messages and of packets and need induction over their number; and what `NoPhantomKey`,
`NoPhantomModifier` and `NoPhantomLayer` of `Actions` say of keymaps with tap keys,
where they hold for the keymaps that are checked; what is known to break them is among
the departures. The
type invariants `TypeOK` of these modules hold on the same instances.

## 5. Not modelled

* `Actions`: mouse, consumer and system usages, swap hands, `TT`, key overrides,
  the ring-buffered 6KRO report, `QUICK_TAP_TERM` other than 0, per-key terms
  and the `process_*` features of `quantum`. Retro shift is left out of
  `Tapping` and `Actions`.
* `WirelessLink`: the debouncing of the mode switch pins, USB remote wakeup, the
  effect of a transport switch between two wireless modes on the saved NKRO
  setting of USB (`transport.c:157`) and a host key held across a switch
  (`keychron_wireless_common.c:113`) are in the model without a property: no
  document says what should happen.
* `ReportBuffer`: `wireless_low_battery_shutdown` (`wireless.c:436`), which clears the
  buffer as well, is not an action of its own beside the other clears.
* `QMKataStream`: a NUL among the printed characters, which ends the string that is
  sent (`QMKata.cpp:273-274`).
* `lkbt51.c`: the wake line, the parameter commands and the firmware update of
  the module. `indicator.c`: periods and colours.
* QMKata: the 7-bit parser of `FirmataParser.cpp` is not compiled
  (`QMKATA_7BIT_SYSEX_ENABLE` is not defined), the command handlers read and
  write settings directly.
* LED effects, USB and ChibiOS drivers, pin and clock setup, the factory test,
  the older `bluetooth` stack, and the other features of QMK this keyboard does
  not build. They are most of the repository's lines: vendored libraries and
  drivers without behaviour of their own here.

## 6. Plan

What is left:

1. `Actions`: conditions under which `NoPhantomKey` holds for keymaps with tap keys,
   and the proof of it and of `NoPhantomLayer` there.
2. The composition of `Tapping` and `Actions`: a keymap that changes under a waiting
   release.
