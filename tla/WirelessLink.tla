---------------------------- MODULE WirelessLink ----------------------------
(***************************************************************************)
(* The wireless state machine of the Keychron boards: the events of the    *)
(* radio module and their queue (lkbt51.c, wireless.c), the state the      *)
(* senders look at, the host and pairing keys (keychron_wireless_common.c),*)
(* the switch between USB, Bluetooth and 2.4 GHz (transport.c) and the     *)
(* shutdown on a low battery.                                              *)
(*                                                                         *)
(* The keyboard only knows the module from its events, and changes its own *)
(* state ahead of them whenever it sends a command.  The module runs by    *)
(* itself: it obeys the commands in order, loses and finds its host, asks  *)
(* for a pin code, times out and resets, and reports every change.         *)
(*                                                                         *)
(* An event is <<type, host>>.  The queue, a ring in the code, is the      *)
(* sequence of its contents.  The events that tell the host's LEDs and the *)
(* connection interval share it; what they set (led_state, and the report  *)
(* interval: SetInterval of ReportBuffer) is not part of this module.      *)
(***************************************************************************)
EXTENDS Integers, Sequences, FiniteSets

CONSTANTS Hosts,          \* Bluetooth hosts, numbers below 24
          QueueSize,      \* WT_EVENT_QUEUE_SIZE (16)
          PacketEvents,   \* events in a packet of the module (4, and 1 behind them)
          SavedNkro,      \* what the EEPROM may hold of NKRO at start-up
          MaxOut,         \* bound: reports of the module not yet read
          MaxCmds,        \* bound: commands the module has not yet obeyed
          MaxKeys,        \* bound: host key presses and mode switches after start-up
          MaxMoves        \* bound: spontaneous changes of the module

P24G_INDEX == 24
LastBt     == 30          \* connect_ex(30): the last Bluetooth host
Current    == 0           \* the current host

ASSUME WirelessLinkAssumption ==
  /\ Hosts # {} /\ Hosts \subseteq 1 .. 23
  /\ QueueSize \in Nat /\ QueueSize >= 3   \* room for a pairing and what follows it
  /\ PacketEvents \in Nat \ {0} /\ PacketEvents < QueueSize
  /\ SavedNkro \subseteq BOOLEAN
  /\ MaxOut \in Nat \ {0} /\ MaxCmds \in Nat /\ MaxCmds >= 2
  /\ MaxKeys \in Nat /\ MaxMoves \in Nat

VARIABLES transport, wireless_state, host_index, pincodeEntry,
          events,               \* wireless_event_queue
          firstDisconnect,      \* and the first second after start-up
          key_host,             \* pairing_key_timer runs, for this host's key
          critical,             \* battery_is_critical_low()
          nkro,                 \* keymap_config.nkro
          saved,                \* nkro.usb and nkro.bluetooth
          eeprom_nkro,          \* the nkro bit eeconfig_read_keymap() returns
          pc,                   \* "loop", "events": draining the queue,
                                \* "wait": the 50 ms of a transport switch,
                                \* "packet": in lkbt51_task, with more of a packet
          part,                 \* and how much of it is in the queue
          radio, bt_host,       \* the module: link and host, last Bluetooth host
          cmds, out,            \* commands to it, reports from it
          nkro_cut,             \* history: NKRO is off since pin code entry
          unsaved,              \* history: and that setting was not in the EEPROM, or
                                \* a transport switch has put it away as off
          overrun,              \* history: the queue forgot a report about pin codes
          crowded,              \* history: the queue overflowed with LED or interval
                                \* reports in it, and no state was reported since
          silent,               \* history: the last pin code entry ended unreported
          keys, moves           \* history: counts, for the bounds

modes  == <<nkro, saved, eeprom_nkro, nkro_cut, unsaved>>
module == <<radio, bt_host, out, silent>>
lost   == <<overrun, crowded>>
vars   == <<transport, wireless_state, host_index, pincodeEntry, events,
            firstDisconnect, key_host, critical, modes, pc, part, module, cmds,
            lost, keys, moves>>

Wireless == {"BLUETOOTH", "P2P4"}
States   == {"RESET", "INITIALIZED", "DISCONNECTED", "CONNECTED", "PARING",
             "RECONNECTING", "SUSPEND"}
Notices     == {"HID_INDICATOR", "CONECTION_INTERVAL"}
StateEvents == {"CONNECTED", "DISCOVERABLE", "RECONNECTING", "DISCONNECTED"}
PinEvents   == {"PINCODE_ENTRY", "EXIT_PINCODE_ENTRY"}
\* EVT_HID_SET_PROTOCOL has a handler, but nothing enqueues it.
EventTypes  == {"RESET", "SLEEP"} \cup StateEvents \cup PinEvents \cup Notices
AnyHost  == Hosts \cup {P24G_INDEX, Current}
Event    == EventTypes \X AnyHost
Command  == {"connect", "pair", "disconnect"} \X (AnyHost \cup {LastBt})

-----------------------------------------------------------------------------
(* The queue.                                                              *)

\* Mutant: a full queue refuses the new event.
EnqueueRefuses(q, e) == IF Len(q) = QueueSize - 1 THEN q ELSE Append(q, e)
\* A full queue forgets its oldest event.
wireless_event_enqueue(q, e) ==
  IF Len(q) = QueueSize - 1 THEN Append(Tail(q), e) ELSE Append(q, e)

-----------------------------------------------------------------------------
(* Commands.  A command is an SPI transfer; what it does happens later.    *)

Send(c) == Len(cmds) < MaxCmds /\ cmds' = Append(cmds, c)

\* wireless_connect, from a sender or from the first disconnection
wireless_connect ==
  cmds' = Append(cmds, <<"connect", Current>>) /\ wireless_state' = "RECONNECTING"

\* wireless_connect_ex(h): nothing if that host is connected.
wireless_connect_ex(h) ==
  IF critical \/ (h = host_index /\ wireless_state = "CONNECTED")
  THEN UNCHANGED <<cmds, host_index, wireless_state>>
  ELSE /\ Send(<<"connect", h>>)
       /\ host_index' = h
       /\ wireless_state' = "RECONNECTING"

wireless_pairing_ex(h) ==
  IF critical THEN UNCHANGED <<cmds, host_index, wireless_state>>
  ELSE /\ Send(<<"pair", h>>)
       /\ host_index' = h
       /\ wireless_state' = "PARING"

-----------------------------------------------------------------------------
(* wireless_event_task: the handlers, one event at a time.                 *)

\* The first disconnection after start-up reconnects in Bluetooth mode.
EnterDisconnected ==
  IF firstDisconnect /\ transport = "BLUETOOTH"
  THEN /\ firstDisconnect' = FALSE
       /\ IF critical THEN wireless_state' = "DISCONNECTED" /\ UNCHANGED cmds
                      ELSE wireless_connect
  ELSE /\ firstDisconnect' = FALSE
       /\ wireless_state' = "DISCONNECTED" /\ UNCHANGED cmds

\* Mutant: only a connection that was asked for counts.
ConnectedIfAsked ==
  wireless_state' = IF wireless_state = "RECONNECTING" THEN "CONNECTED" ELSE wireless_state
wireless_enter_connected == wireless_state' = "CONNECTED"

wireless_enter_sleep ==
  wireless_state' = IF wireless_state = "PARING" THEN "SUSPEND" ELSE wireless_state

\* Pin code entry and NKRO.  Mutants: the flag is not cleared; the setting of
\* NKRO is not read back.
LeavePincodeCut == pincodeEntry' = FALSE /\ UNCHANGED <<nkro, nkro_cut, unsaved>>
LeavePincodeOpen ==
  /\ nkro' = eeprom_nkro /\ nkro_cut' = (nkro_cut /\ ~eeprom_nkro)
  /\ pincodeEntry' = TRUE /\ UNCHANGED unsaved
wireless_exit_bluetooth_pin_code_entry ==
  /\ nkro' = eeprom_nkro /\ nkro_cut' = (nkro_cut /\ ~eeprom_nkro)
  /\ pincodeEntry' = FALSE /\ UNCHANGED unsaved
wireless_enter_bluetooth_pin_code_entry ==
  /\ nkro' = FALSE /\ pincodeEntry' = TRUE
  /\ nkro_cut' = (nkro \/ nkro_cut)
  /\ unsaved' = IF nkro THEN ~eeprom_nkro ELSE unsaved

Handle(e) ==
  LET type == e[1] host == e[2]
  IN  /\ \/ type = "PINCODE_ENTRY" /\ wireless_enter_bluetooth_pin_code_entry
         \/ type = "EXIT_PINCODE_ENTRY" /\ wireless_exit_bluetooth_pin_code_entry
         \/ type \notin PinEvents /\ UNCHANGED <<nkro, pincodeEntry, nkro_cut, unsaved>>
      /\ \/ type = "DISCONNECTED" /\ EnterDisconnected
         \/ type # "DISCONNECTED" /\ UNCHANGED <<firstDisconnect, cmds>>
      /\ \/ type = "DISCONNECTED"
         \/ type = "RESET" /\ wireless_state' = "RESET"
         \/ type = "CONNECTED" /\ wireless_enter_connected
         \/ type = "DISCOVERABLE" /\ wireless_state' = "PARING"
         \/ type = "RECONNECTING" /\ wireless_state' = "RECONNECTING"
         \/ type = "SLEEP" /\ wireless_enter_sleep
         \/ type \in PinEvents \cup Notices /\ UNCHANGED wireless_state
      /\ host_index' = IF type \in {"CONNECTED", "DISCOVERABLE", "RECONNECTING"}
                       THEN host ELSE host_index

wireless_event_task ==
  /\ pc = "events" /\ events # <<>>
  /\ Handle(Head(events)) /\ events' = Tail(events)
  /\ pc' = IF Tail(events) = <<>> THEN "loop" ELSE "events"
  /\ UNCHANGED <<transport, key_host, critical, saved, eeprom_nkro, part, module, keys,
                 moves, lost>>

\* What is lost for good when a full queue forgets its oldest event for e.
Forget(e) ==
  /\ overrun' = (overrun \/ (Len(events) = QueueSize - 1 /\ events[1][1] \in PinEvents))
  /\ crowded' = /\ e[1] \notin StateEvents
                /\ \/ crowded
                   \/ /\ Len(events) = QueueSize - 1
                      /\ \E i \in DOMAIN events' : events'[i][1] \in Notices

\* A packet holds, in this order, a reset, a change of the connection, the LEDs and
\* the interval; behind them lkbt51_event_handler may find a reset or the LEDs.
Place(e) == CASE e[1] = "RESET" -> 1 [] e[1] = "HID_INDICATOR" -> 3
              [] e[1] = "CONECTION_INTERVAL" -> 4 [] OTHER -> 2
InPacket(e, next) == Place(e) < Place(next) \/ next[1] \in {"RESET", "HID_INDICATOR"}

\* wireless_transport.task() reads one packet of the module, a report per step.  In
\* the main loop the events are handled at once; in the 50 ms of a transport switch,
\* and in send_string_task while connected, they stay in the queue.
lkbt51_task ==
  /\ out # <<>> /\ pc \in {"loop", "wait", "packet"}
  /\ events' = wireless_event_enqueue(events, Head(out)) /\ out' = Tail(out)
  /\ Forget(Head(out))
  /\ \/ pc = "wait" /\ UNCHANGED <<pc, part>>
     \/ pc # "wait" /\ pc' = "events" /\ part' = 0
     \/ /\ pc # "wait" /\ pc' = "packet" /\ part' = part + 1
        /\ part + 1 < PacketEvents /\ Tail(out) # <<>> /\ InPacket(out[1], out[2])
     \/ /\ pc = "loop" /\ UNCHANGED <<pc, part>>
        /\ transport \in Wireless /\ wireless_state = "CONNECTED"
  /\ UNCHANGED <<transport, wireless_state, host_index, pincodeEntry, firstDisconnect,
                 key_host, critical, modes, radio, bt_host, silent, cmds, keys, moves>>

\* A pass of the main loop after a send_string_task that left events behind.
drain ==
  /\ pc = "loop" /\ events # <<>> /\ pc' = "events"
  /\ UNCHANGED <<transport, wireless_state, host_index, pincodeEntry, events,
                 firstDisconnect, key_host, critical, modes, part, module, cmds,
                 keys, moves, lost>>

-----------------------------------------------------------------------------
(* Keys, battery and the mode switch.                                      *)

\* A report that cannot go out in the present state asks for a connection.
ReportAsks(silently) ==
  /\ pc = "loop" /\ transport \in Wireless /\ ~critical
  /\ wireless_state \notin silently
  /\ Len(cmds) < MaxCmds /\ wireless_connect
  /\ UNCHANGED <<transport, host_index, pincodeEntry, events, firstDisconnect, key_host,
                 critical, modes, pc, part, module, keys, moves, lost>>

\* wireless_send_keyboard and wireless_send_nkro leave a pairing alone,
wireless_send_keyboard == ReportAsks({"PARING", "CONNECTED", "RESET"})
\* wireless_send_mouse, wireless_send_system and wireless_send_consumer end it.
wireless_send_mouse == ReportAsks({"CONNECTED", "RESET"})

\* The release of a host key is only seen in the mode it belongs to.
host_key_press(h) ==
  /\ pc = "loop" /\ keys < MaxKeys /\ keys' = keys + 1
  /\ key_host' = h
  /\ \/ transport = "BLUETOOTH" /\ h \in Hosts /\ wireless_connect_ex(h)
     \/ /\ transport = "P2P4" /\ h = P24G_INDEX
        /\ UNCHANGED <<cmds, host_index, wireless_state>>
  /\ UNCHANGED <<transport, pincodeEntry, events, firstDisconnect, critical, modes, pc,
                 part, module, moves, lost>>

host_key_release ==
  /\ pc = "loop" /\ key_host # Current
  /\ IF key_host = P24G_INDEX THEN transport = "P2P4" ELSE transport = "BLUETOOTH"
  /\ key_host' = Current
  /\ UNCHANGED <<transport, wireless_state, host_index, pincodeEntry, events,
                 firstDisconnect, critical, modes, pc, part, module, cmds,
                 keys, moves, lost>>

\* The key was held for more than 2 s.  The file's own host_idx is never assigned:
\* the module pairs its current host.
keychron_wireless_common_task ==
  /\ pc = "loop" /\ key_host # Current
  /\ wireless_pairing_ex(Current)
  /\ key_host' = Current
  /\ UNCHANGED <<transport, pincodeEntry, events, firstDisconnect, critical, modes, pc,
                 part, module, keys, moves, lost>>

\* battery_check_critical_low finds the battery low: wireless_low_battery_shutdown
wireless_low_battery_shutdown ==
  /\ pc = "loop" /\ transport \in Wireless /\ ~critical /\ keys < MaxKeys
  /\ keys' = keys + 1 /\ critical' = TRUE
  /\ Send(<<"disconnect", Current>>)
  /\ UNCHANGED <<transport, wireless_state, host_index, pincodeEntry, events,
                 firstDisconnect, key_host, modes, pc, part, module, moves, lost>>

\* battery_task sees USB power.
usb_power_connected ==
  /\ pc = "loop" /\ critical /\ critical' = FALSE
  /\ UNCHANGED <<transport, wireless_state, host_index, pincodeEntry, events,
                 firstDisconnect, key_host, modes, pc, part, module, cmds,
                 keys, moves, lost>>

\* set_transport up to the wait of bt_transport_enable and p24g_transport_enable,
\* or all of it when the new transport is USB.
set_transport(t) ==
  /\ pc = "loop" /\ t # transport
  /\ IF transport = "NONE" THEN UNCHANGED keys ELSE keys < MaxKeys /\ keys' = keys + 1
  /\ transport' = t
  /\ Send(<<"disconnect", Current>>)
  /\ \/ /\ t = "USB" /\ pc' = pc
        /\ saved' = [saved EXCEPT !.bluetooth = nkro] /\ nkro' = saved.usb
        /\ unsaved' = (unsaved \/ nkro_cut)
     \/ t \in Wireless /\ pc' = "wait" /\ UNCHANGED <<saved, nkro, unsaved>>
  /\ UNCHANGED <<wireless_state, host_index, pincodeEntry, events, firstDisconnect,
                 key_host, critical, eeprom_nkro, nkro_cut, part, module, moves, lost>>

\* The wait is over: connect, and swap the NKRO settings.
set_transport_wireless ==
  /\ pc = "wait" /\ pc' = "loop"
  /\ wireless_connect_ex(IF transport = "BLUETOOTH" THEN LastBt ELSE P24G_INDEX)
  /\ saved' = [saved EXCEPT !.usb = nkro] /\ nkro' = saved.bluetooth
  /\ unsaved' = (unsaved \/ nkro_cut)
  /\ UNCHANGED <<transport, pincodeEntry, events, firstDisconnect, key_host, critical,
                 eeprom_nkro, nkro_cut, part, module, keys, moves, lost>>

\* NK_TOGG: keymap_config is read from the EEPROM, changed and saved.
nkro_toggle ==
  /\ pc = "loop" /\ keys < MaxKeys /\ keys' = keys + 1
  /\ nkro' = ~eeprom_nkro /\ eeprom_nkro' = ~eeprom_nkro /\ nkro_cut' = FALSE
  /\ UNCHANGED <<transport, wireless_state, host_index, pincodeEntry, events, saved,
                 unsaved, firstDisconnect, key_host, critical, pc, part, module, cmds,
                 moves, lost>>

\* A second has passed since start-up.
StartupOver ==
  /\ firstDisconnect /\ firstDisconnect' = FALSE
  /\ UNCHANGED <<transport, wireless_state, host_index, pincodeEntry, events, key_host,
                 critical, modes, pc, part, module, cmds, keys, moves, lost>>

-----------------------------------------------------------------------------
(* The module (external): it reports each of its changes, in order.        *)

Report(es) == Len(out) + Len(es) <= MaxOut /\ out' = out \o es

Becomes(link, host, es) == radio' = [link |-> link, host |-> host] /\ Report(es)

\* The link changes, and the end of pin code entry is reported first, or is not.
Turns(link, host, es) ==
  \/ /\ radio.link # "PINCODE"
     /\ Becomes(link, host, es) /\ UNCHANGED silent
  \/ /\ radio.link = "PINCODE" /\ silent' = FALSE
     /\ Becomes(link, host, <<<<"EXIT_PINCODE_ENTRY", radio.host>>>> \o es)
  \/ /\ radio.link = "PINCODE" /\ silent' = TRUE
     /\ Becomes(link, host, es)

Target(h) == IF h = LastBt THEN bt_host ELSE IF h = Current THEN radio.host ELSE h

Obey ==
  /\ cmds # <<>> /\ cmds' = Tail(cmds)
  /\ LET name == Head(cmds)[1]
         host == Target(Head(cmds)[2])
     IN  /\ \/ /\ name = "connect"
               /\ Turns("RECONNECTING", host, <<<<"RECONNECTING", host>>>>)
            \/ /\ name = "pair"
               /\ Turns("PARING", host, <<<<"DISCOVERABLE", host>>>>)
            \/ /\ name = "disconnect"
               /\ Turns("DISCONNECTED", radio.host, <<<<"DISCONNECTED", radio.host>>>>)
         /\ bt_host' = IF host \in Hosts THEN host ELSE bt_host
  /\ UNCHANGED <<transport, wireless_state, host_index, pincodeEntry, events,
                 firstDisconnect, key_host, critical, modes, pc, part, keys, moves, lost>>

\* What a link may turn into by itself, and what is reported then.
Drift ==
  LET h == radio.host
  IN  \/ /\ radio.link \in {"RECONNECTING", "PARING", "PINCODE"}
         /\ Turns("CONNECTED", h, <<<<"CONNECTED", h>>>>)
      \/ /\ radio.link \in {"RECONNECTING", "CONNECTED", "PINCODE"}
         /\ Turns("DISCONNECTED", h, <<<<"DISCONNECTED", h>>>>)
      \/ /\ radio.link = "PARING"
         /\ Turns("SUSPEND", h, <<<<"SLEEP", h>>>>)
      \/ /\ radio.link = "PARING" /\ silent' = FALSE
         /\ Becomes("PINCODE", h, <<<<"PINCODE_ENTRY", h>>>>)
      \/ Turns("DISCONNECTED", h, <<<<"RESET", h>>, <<"DISCONNECTED", h>>>>)

\* The host sets its LEDs, or the connection interval changes.
Notify ==
  /\ \E t \in Notices : Report(<<<<t, radio.host>>>>)
  /\ UNCHANGED <<radio, silent>>

Move ==
  /\ moves < MaxMoves /\ moves' = moves + 1
  /\ Drift \/ Notify
  /\ UNCHANGED <<transport, wireless_state, host_index, pincodeEntry, events,
                 firstDisconnect, key_host, critical, modes, pc, part, bt_host, cmds,
                 keys, lost>>

-----------------------------------------------------------------------------
\* keymap_config is what the EEPROM has kept, nkro of transport.c is all off.
Init ==
  /\ transport = "NONE" /\ wireless_state = "INITIALIZED" /\ host_index = Current
  /\ pincodeEntry = FALSE /\ events = <<>> /\ firstDisconnect = TRUE
  /\ key_host = Current /\ critical = FALSE
  /\ eeprom_nkro \in SavedNkro /\ nkro = eeprom_nkro
  /\ nkro_cut = FALSE /\ unsaved = FALSE
  /\ saved = [usb |-> FALSE, bluetooth |-> FALSE]
  /\ pc = "loop" /\ part = 0 /\ bt_host \in Hosts
  /\ radio = [link |-> "DISCONNECTED", host |-> bt_host]
  /\ cmds = <<>> /\ out = <<<<"DISCONNECTED", bt_host>>>>
  /\ overrun = FALSE /\ crowded = FALSE /\ silent = FALSE /\ keys = 0 /\ moves = 0

Keyboard == \/ wireless_event_task \/ lkbt51_task \/ drain
            \/ wireless_send_keyboard \/ wireless_send_mouse
            \/ keychron_wireless_common_task \/ host_key_release
            \/ (\E h \in Hosts \cup {P24G_INDEX} : host_key_press(h))
            \/ wireless_low_battery_shutdown \/ usb_power_connected
            \/ (\E t \in {"USB"} \cup Wireless : set_transport(t))
            \/ set_transport_wireless \/ nkro_toggle \/ StartupOver

Next == Keyboard \/ Obey \/ Move

Spec == Init /\ [][Next]_vars

\* The main loop runs, and the module obeys, if nothing else does anything.
Loop == lkbt51_task \/ drain \/ wireless_event_task \/ set_transport_wireless
FairSpec == Spec /\ WF_vars(Loop) /\ WF_vars(Obey) /\ SF_vars(drain)

-----------------------------------------------------------------------------
TypeOK ==
  /\ transport \in {"NONE", "USB"} \cup Wireless /\ wireless_state \in States
  /\ host_index \in AnyHost \cup {LastBt}
  /\ {pincodeEntry, firstDisconnect, critical, nkro, eeprom_nkro, nkro_cut,
      unsaved, overrun, crowded, silent} \subseteq BOOLEAN
  /\ events \in Seq(Event) /\ Len(events) < QueueSize
  /\ key_host \in AnyHost
  /\ saved \in [usb : BOOLEAN, bluetooth : BOOLEAN]
  /\ pc \in {"loop", "events", "wait", "packet"} /\ (pc = "events" => events # <<>>)
  /\ part \in 0 .. PacketEvents - 1
  /\ radio \in [link : States \cup {"PINCODE"}, host : AnyHost]
  /\ bt_host \in Hosts
  /\ cmds \in Seq(Command) /\ out \in Seq(Event)

\* Every command was obeyed and every report of the module read and handled.
Quiet == events = <<>> /\ cmds = <<>> /\ out = <<>> /\ pc = "loop"

\* When nothing is under way the state that the senders look at is that of the
\* module: a report is queued only for a connected or pairing module, and never
\* refused to one.  The keyboard runs ahead of the module on every command, the
\* events come in late, and a full queue (in the 50 ms of a transport switch, or
\* while a string is sent) forgets its oldest.  A queue of connection reports forgets
\* none that matters; one that LED and interval reports have filled may, until the
\* module tells its state again.
Agree ==
  /\ wireless_state = "CONNECTED" <=> radio.link = "CONNECTED"
  /\ wireless_state = "PARING" <=> radio.link \in {"PARING", "PINCODE"}
  /\ wireless_state \in {"CONNECTED", "PARING"} => host_index = radio.host
InSync == Quiet /\ ~crowded => Agree

\* Pin code entry leaves nothing behind, if the module reports its end and the queue
\* does not forget that report: keys typed in pairing state go out exactly while the
\* module asks for a pin code (wireless_send_keyboard tests pincodeEntry), and NKRO,
\* switched off by the entry, is on again when it is over, although
\* wireless_enter_connected never sets it ("Enable NKRO since it may be disabled in
\* pin code entry").  That is so only when the EEPROM held the setting (it has one for
\* all transports, each of which may have another) and no transport switch came
\* between: it saves the setting as it finds it.
PincodeInSync ==
  Quiet /\ ~overrun /\ ~silent =>
    /\ pincodeEntry <=> radio.link = "PINCODE"
    /\ radio.link # "PINCODE" => ~nkro_cut \/ unsaved

\* A connection of the module is noticed: wireless_state follows, or the link is
\* lost again.  LED and interval reports may drive CONNECTED out of the queue in the
\* 50 ms of a transport switch, but the connect at its end makes the module start
\* again; in the main loop they cannot, a packet fits into the queue.
ConnectionNoticed ==
  radio.link = "CONNECTED" ~> (wireless_state = "CONNECTED" \/ radio.link # "CONNECTED")

-----------------------------------------------------------------------------
(* What makes InSync and PincodeInSync inductive.                          *)

\* The reports of the module that were not handled yet, oldest first.
Unread == events \o out

\* The report e tells the state r of the module.  Pin code entry and sleep do so only
\* to a keyboard that knows of the pairing.
Tells(r, e) ==
  \/ e = <<"CONNECTED", r.host>>     /\ r.link = "CONNECTED"
  \/ e = <<"DISCOVERABLE", r.host>>  /\ r.link = "PARING"
  \/ e = <<"RECONNECTING", r.host>>  /\ r.link = "RECONNECTING"
  \/ e = <<"DISCONNECTED", r.host>>  /\ r.link = "DISCONNECTED"
TellsPaired(r, e) ==
  \/ e = <<"PINCODE_ENTRY", r.host>> /\ r.link = "PINCODE"
  \/ e = <<"SLEEP", r.host>>         /\ r.link = "SUSPEND"

\* Behind index i there are only LED and interval reports, but for the one at j.
OnlyNotices(s, i, j) == \A k \in 1 .. Len(s) : k > i => k = j \/ s[k][1] \in Notices

\* The last state reported is that of the module, or the pairing it came from.
LeadsAt(r, s, i) ==
  \/ Tells(r, s[i]) /\ OnlyNotices(s, i, i)
  \/ /\ s[i] = <<"DISCOVERABLE", r.host>>
     /\ \E j \in 1 .. Len(s) : j > i /\ TellsPaired(r, s[j]) /\ OnlyNotices(s, i, j)
Leads(r, s) == \E i \in 1 .. Len(s) : LeadsAt(r, s, i)

\* No state is left to be read, and the keyboard has the one of the module, or knows
\* of the pairing and has its outcome still to read.
NoState(s) == \A k \in 1 .. Len(s) : s[k][1] \notin StateEvents
Settled ==
  \/ Agree /\ OnlyNotices(Unread, 0, 0)
  \/ /\ wireless_state = "PARING" /\ host_index = radio.host
     /\ \E j \in 1 .. Len(Unread) :
          TellsPaired(radio, Unread[j]) /\ OnlyNotices(Unread, 0, j)

\* With no command on its way to the module, what is unread leads to its state.
Converges ==
  cmds = << >> => \/ Leads(radio, Unread)
                  \/ NoState(Unread) /\ (crowded \/ Settled)

\* The last report about pin code entry, or pincodeEntry if there is none, tells
\* whether the module asks for a pin code.
PinEnd(s, before, after) ==
  /\ (\A i \in DOMAIN s : s[i][1] \notin PinEvents) => (before <=> after)
  /\ \A i \in DOMAIN s :
       /\ s[i][1] \in PinEvents
       /\ \A j \in DOMAIN s : j > i => s[j][1] \notin PinEvents
       => (s[i][1] = "PINCODE_ENTRY" <=> after)
PincodeConverges ==
  /\ ~overrun /\ ~silent => PinEnd(Unread, pincodeEntry, radio.link = "PINCODE")
  /\ nkro_cut /\ ~unsaved => pincodeEntry /\ eeprom_nkro

LinkInv == TypeOK /\ Converges /\ PincodeConverges
=============================================================================
