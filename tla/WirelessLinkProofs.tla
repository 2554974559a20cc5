------------------------- MODULE WirelessLinkProofs -------------------------
(***************************************************************************)
(* Machine-checked proofs about WirelessLink, for every set of hosts,      *)
(* every event queue that holds at least two events, packets of any length *)
(* and any number of commands, reports, keys and changes of the module     *)
(* under way.                                                              *)
(***************************************************************************)
EXTENDS WirelessLink, SequenceTheorems, TLAPS

LEMMA ConstantFacts ==
  /\ QueueSize \in Nat /\ QueueSize >= 3
  /\ PacketEvents \in Nat \ {0}
  /\ Hosts \subseteq AnyHost /\ P24G_INDEX \in AnyHost /\ Current \in AnyHost
BY WirelessLinkAssumption DEF AnyHost

-----------------------------------------------------------------------------
(* Sequences of events.                                                    *)

\* Reading a report moves it from the module to the queue.
LEMMA ReadSeq ==
  ASSUME NEW S, NEW q \in Seq(S), NEW o \in Seq(S), o # << >>
  PROVE  /\ Append(q, Head(o)) \o Tail(o) = q \o o
         /\ q # << >> => Append(Tail(q), Head(o)) \o Tail(o) = Tail(q \o o)
<1>1. Head(o) \in S /\ Tail(o) \in Seq(S) /\ Len(o) \in Nat /\ Len(o) > 0 /\ Len(q) \in Nat
  OBVIOUS
<1>2. Append(q, Head(o)) \o Tail(o) = q \o o
  <2>1. /\ Append(q, Head(o)) \in Seq(S) /\ q \o o \in Seq(S)
        /\ Append(q, Head(o)) \o Tail(o) \in Seq(S)
        /\ Len(Append(q, Head(o)) \o Tail(o)) = Len(q) + Len(o)
        /\ Len(q \o o) = Len(q) + Len(o)
    BY <1>1
  <2>2. \A i \in 1 .. Len(q) + Len(o) : (Append(q, Head(o)) \o Tail(o))[i] = (q \o o)[i]
    BY <1>1
  <2> QED
    BY <2>1, <2>2, SeqEqual
<1>3. ASSUME q # << >>
      PROVE  Append(Tail(q), Head(o)) \o Tail(o) = Tail(q \o o)
  <2>1. Tail(q) \in Seq(S) /\ Len(q) > 0 /\ Len(Tail(q)) = Len(q) - 1
    BY <1>3
  <2>2. /\ Append(Tail(q), Head(o)) \in Seq(S) /\ q \o o \in Seq(S)
        /\ Append(Tail(q), Head(o)) \o Tail(o) \in Seq(S)
        /\ Len(Append(Tail(q), Head(o)) \o Tail(o)) = Len(q) + Len(o) - 1
        /\ Len(q \o o) = Len(q) + Len(o) /\ q \o o # << >>
        /\ Tail(q \o o) \in Seq(S)
        /\ Len(Tail(q \o o)) = Len(q) + Len(o) - 1
    BY <1>1, <2>1
  <2>3. \A i \in 1 .. Len(q) + Len(o) - 1 :
          (Append(Tail(q), Head(o)) \o Tail(o))[i] = Tail(q \o o)[i]
    <3> SUFFICES ASSUME NEW i \in 1 .. Len(q) + Len(o) - 1
                 PROVE  (Append(Tail(q), Head(o)) \o Tail(o))[i] = Tail(q \o o)[i]
      OBVIOUS
    <3>1. Tail(q \o o)[i] = (q \o o)[i + 1]
      BY <1>1, <2>2
    <3>2. Len(Append(Tail(q), Head(o))) = Len(q)
      BY <1>1, <2>1
    <3>3. CASE i < Len(q)
      <4>1. i \in 1 .. Len(q) - 1 /\ i + 1 \in 1 .. Len(q)
        BY <1>1, <3>3
      <4>2. Append(Tail(q), Head(o))[i] = Tail(q)[i] /\ Tail(q)[i] = q[i + 1]
        BY <1>1, <2>1, <4>1
      <4>3. (Append(Tail(q), Head(o)) \o Tail(o))[i] = Append(Tail(q), Head(o))[i]
        BY <1>1, <2>2, <3>2, <4>1
      <4>4. (q \o o)[i + 1] = q[i + 1]
        BY <1>1, <4>1
      <4> QED
        BY <3>1, <4>2, <4>3, <4>4
    <3>4. CASE i = Len(q)
      BY <1>1, <2>1, <3>1, <3>2, <3>4
    <3>5. CASE i > Len(q)
      <4>1. i - Len(q) \in 1 .. Len(o) - 1 /\ i + 1 - Len(q) \in 1 .. Len(o)
        BY <1>1, <3>5
      <4>2. (Append(Tail(q), Head(o)) \o Tail(o))[i] = Tail(o)[i - Len(q)]
        <5> DEFINE a == Append(Tail(q), Head(o))
                   b == Tail(o)
        <5>1. a \in Seq(S) /\ b \in Seq(S) /\ Len(a) = Len(q) /\ Len(b) = Len(o) - 1
          BY <1>1, <2>2, <3>2
        <5> HIDE DEF a, b
        <5>2. (a \o b)[i] = b[i - Len(a)]
          BY <1>1, <3>5, <4>1, <5>1
        <5> QED
          BY <5>1, <5>2 DEF a, b
      <4>3. Tail(o)[i - Len(q)] = o[i - Len(q) + 1]
        BY <1>1, <4>1
      <4>4. (q \o o)[i + 1] = o[i + 1 - Len(q)]
        BY <1>1, <3>5, <4>1
      <4> QED
        BY <1>1, <3>1, <4>2, <4>3, <4>4
    <3> QED
      BY <1>1, <3>3, <3>4, <3>5
  <2> QED
    BY <2>2, <2>3, SeqEqual
<1> QED
  BY <1>2, <1>3

\* Handling an event takes the oldest report away.
LEMMA HandleSeq ==
  ASSUME NEW S, NEW q \in Seq(S), NEW o \in Seq(S), q # << >>
  PROVE  Tail(q) \o o = Tail(q \o o) /\ Head(q) = (q \o o)[1]
<1>1. Len(q) \in Nat /\ Len(q) > 0 /\ Len(o) \in Nat /\ Tail(q) \in Seq(S)
  OBVIOUS
<1>2. /\ Tail(q) \o o \in Seq(S) /\ q \o o \in Seq(S) /\ q \o o # << >>
      /\ Tail(q \o o) \in Seq(S)
      /\ Len(Tail(q) \o o) = Len(q) + Len(o) - 1
      /\ Len(Tail(q \o o)) = Len(q) + Len(o) - 1
  BY <1>1
<1>3. \A i \in 1 .. Len(q) + Len(o) - 1 : (Tail(q) \o o)[i] = Tail(q \o o)[i]
  BY <1>1, <1>2
<1> QED
  BY <1>1, <1>2, <1>3, SeqEqual

-----------------------------------------------------------------------------
(* Types.                                                                  *)

\* What the handler of an event does to the keyboard's own state.
LEMMA HandleTypes ==
  ASSUME TypeOK, NEW e \in Event, Handle(e)
  PROVE  /\ wireless_state' \in States /\ host_index' \in AnyHost \cup {LastBt}
         /\ {pincodeEntry', firstDisconnect', nkro', nkro_cut', unsaved'} \subseteq BOOLEAN
         /\ cmds' \in Seq(Command)
<1>1. e[1] \in EventTypes /\ e[2] \in AnyHost
  BY DEF Event
<1>2. {pincodeEntry', nkro', nkro_cut', unsaved'} \subseteq BOOLEAN
  BY DEF Handle, TypeOK, wireless_enter_bluetooth_pin_code_entry,
    wireless_exit_bluetooth_pin_code_entry
<1>3. <<"connect", Current>> \in Command
  BY ConstantFacts DEF Command
<1>4. CASE e[1] = "DISCONNECTED"
  <2>1. EnterDisconnected /\ host_index' = host_index
    BY <1>4 DEF Handle
  <2>2. cmds \in Seq(Command) /\ Append(cmds, <<"connect", Current>>) \in Seq(Command)
    BY <1>3 DEF TypeOK
  <2>3. /\ cmds' = cmds \/ cmds' = Append(cmds, <<"connect", Current>>)
        /\ wireless_state' \in {"DISCONNECTED", "RECONNECTING"}
        /\ firstDisconnect' = FALSE
    BY <2>1 DEF EnterDisconnected, wireless_connect
  <2>4. cmds' \in Seq(Command)
    BY <2>2, <2>3
  <2>5. wireless_state' \in States
    BY <2>3 DEF States
  <2> QED
    BY <1>2, <2>1, <2>3, <2>4, <2>5 DEF TypeOK
<1>5. CASE e[1] # "DISCONNECTED"
  <2>1. UNCHANGED <<firstDisconnect, cmds>>
    BY <1>5 DEF Handle
  <2>2. wireless_state' \in States
    BY <1>1, <1>5 DEF Handle, EventTypes, States, TypeOK, wireless_enter_connected,
      wireless_enter_sleep
  <2>3. host_index' \in AnyHost \cup {LastBt}
    BY <1>1 DEF Handle, TypeOK
  <2> QED
    BY <1>2, <2>1, <2>2, <2>3 DEF TypeOK
<1> QED
  BY <1>4, <1>5

LEMMA SendTypes ==
  ASSUME TypeOK, NEW h \in AnyHost \cup {LastBt},
         wireless_connect_ex(h) \/ wireless_pairing_ex(h)
  PROVE  /\ wireless_state' \in States /\ host_index' \in AnyHost \cup {LastBt}
         /\ cmds' \in Seq(Command)
<1>1. <<"connect", h>> \in Command /\ <<"pair", h>> \in Command
  BY DEF Command
<1>2. cmds \in Seq(Command)
  BY DEF TypeOK
<1>3. \/ UNCHANGED <<cmds, host_index, wireless_state>>
      \/ /\ cmds' = Append(cmds, <<"connect", h>>) \/ cmds' = Append(cmds, <<"pair", h>>)
         /\ host_index' = h /\ wireless_state' \in {"RECONNECTING", "PARING"}
  BY DEF wireless_connect_ex, wireless_pairing_ex, Send
<1>4. /\ Append(cmds, <<"connect", h>>) \in Seq(Command)
      /\ Append(cmds, <<"pair", h>>) \in Seq(Command)
  BY <1>1, <1>2
<1>5. cmds' \in Seq(Command)
  BY <1>2, <1>3, <1>4
<1> QED
  BY <1>3, <1>5 DEF TypeOK, States

\* A change of the module, and what it reports.
LEMMA TurnTypes ==
  ASSUME TypeOK, NEW l \in States \cup {"PINCODE"}, NEW h \in AnyHost, NEW es \in Seq(Event),
         Turns(l, h, es)
  PROVE  /\ radio' \in [link : States \cup {"PINCODE"}, host : AnyHost]
         /\ out' \in Seq(Event) /\ silent' \in BOOLEAN
<1>1. radio.host \in AnyHost /\ out \in Seq(Event) /\ silent \in BOOLEAN
  BY DEF TypeOK
<1>2. <<<<"EXIT_PINCODE_ENTRY", radio.host>>>> \in Seq(Event)
  BY <1>1 DEF Event, EventTypes, PinEvents
<1>3. ASSUME NEW fs \in Seq(Event), Becomes(l, h, fs)
      PROVE  /\ radio' \in [link : States \cup {"PINCODE"}, host : AnyHost]
             /\ out' \in Seq(Event)
  BY <1>1, <1>3 DEF Becomes, Report
<1>4. <<<<"EXIT_PINCODE_ENTRY", radio.host>>>> \o es \in Seq(Event)
  BY <1>2
<1> QED
  BY <1>1, <1>3, <1>4 DEF Turns

\* What the module reports, and what it becomes.
LEMMA ModuleTypes ==
  ASSUME TypeOK, Obey \/ Move
  PROVE  /\ radio' \in [link : States \cup {"PINCODE"}, host : AnyHost]
         /\ bt_host' \in Hosts /\ cmds' \in Seq(Command) /\ out' \in Seq(Event)
         /\ silent' \in BOOLEAN
<1>1. /\ radio \in [link : States \cup {"PINCODE"}, host : AnyHost]
      /\ radio.host \in AnyHost /\ radio.link \in States \cup {"PINCODE"}
      /\ bt_host \in Hosts /\ bt_host \in AnyHost /\ out \in Seq(Event)
      /\ cmds \in Seq(Command) /\ silent \in BOOLEAN
  BY ConstantFacts DEF TypeOK
<1>2. \A t \in EventTypes, h \in AnyHost : <<<<t, h>>>> \in Seq(Event)
  BY DEF Event
<1>3. {"CONNECTED", "PARING", "RECONNECTING", "DISCONNECTED", "SUSPEND", "PINCODE"}
        \subseteq States \cup {"PINCODE"}
  BY DEF States
<1>4. CASE Obey
  <2>1. /\ cmds # << >> /\ cmds' = Tail(cmds) /\ cmds' \in Seq(Command)
        /\ Head(cmds) \in Command
    BY <1>1, <1>4 DEF Obey
  <2>2. Head(cmds)[2] \in AnyHost \cup {LastBt}
    BY <2>1 DEF Command
  <2> DEFINE h == Target(Head(cmds)[2])
  <2>3. h \in AnyHost
    BY <1>1, <2>2 DEF Target
  <2>4. bt_host' = IF h \in Hosts THEN h ELSE bt_host
    BY <1>4 DEF Obey
  <2>5. \/ Turns("RECONNECTING", h, <<<<"RECONNECTING", h>>>>)
        \/ Turns("PARING", h, <<<<"DISCOVERABLE", h>>>>)
        \/ Turns("DISCONNECTED", radio.host, <<<<"DISCONNECTED", radio.host>>>>)
    BY <1>4 DEF Obey
  <2> HIDE DEF h
  <2>6. /\ <<<<"RECONNECTING", h>>>> \in Seq(Event)
        /\ <<<<"DISCOVERABLE", h>>>> \in Seq(Event)
        /\ <<<<"DISCONNECTED", radio.host>>>> \in Seq(Event)
    BY <1>1, <1>2, <2>3 DEF EventTypes, StateEvents
  <2>7. /\ radio' \in [link : States \cup {"PINCODE"}, host : AnyHost]
        /\ out' \in Seq(Event) /\ silent' \in BOOLEAN
    BY <1>1, <1>3, <2>3, <2>5, <2>6, TurnTypes
  <2> QED
    BY <1>1, <2>1, <2>4, <2>7
<1>5. CASE Move
  <2>1. UNCHANGED <<bt_host, cmds>>
    BY <1>5 DEF Move
  <2> DEFINE h == radio.host
  <2>2. /\ <<<<"CONNECTED", h>>>> \in Seq(Event) /\ <<<<"DISCONNECTED", h>>>> \in Seq(Event)
        /\ <<<<"SLEEP", h>>>> \in Seq(Event) /\ <<<<"PINCODE_ENTRY", h>>>> \in Seq(Event)
        /\ <<<<"RESET", h>>, <<"DISCONNECTED", h>>>> \in Seq(Event)
    BY <1>1, <1>2 DEF EventTypes, StateEvents, PinEvents, Event
  <2>3. CASE Notify
    <3>1. PICK t \in Notices : out' = out \o <<<<t, h>>>>
      BY <2>3 DEF Notify, Report
    <3>2. <<<<t, h>>>> \in Seq(Event)
      BY <1>1, <1>2 DEF EventTypes
    <3>3. out' \in Seq(Event)
      BY <1>1, <3>1, <3>2
    <3> QED
      BY <1>1, <2>1, <2>3, <3>3 DEF Notify
  <2>4. CASE Drift
    <3>1. \/ Turns("CONNECTED", h, <<<<"CONNECTED", h>>>>)
          \/ Turns("DISCONNECTED", h, <<<<"DISCONNECTED", h>>>>)
          \/ Turns("SUSPEND", h, <<<<"SLEEP", h>>>>)
          \/ silent' = FALSE /\ Becomes("PINCODE", h, <<<<"PINCODE_ENTRY", h>>>>)
          \/ Turns("DISCONNECTED", h, <<<<"RESET", h>>, <<"DISCONNECTED", h>>>>)
      BY <2>4 DEF Drift
    <3>2. CASE silent' = FALSE /\ Becomes("PINCODE", h, <<<<"PINCODE_ENTRY", h>>>>)
      <4>1. radio' = [link |-> "PINCODE", host |-> h] /\ out' = out \o <<<<"PINCODE_ENTRY", h>>>>
        BY <3>2 DEF Becomes, Report
      <4>2. out' \in Seq(Event)
        BY <1>1, <2>2, <4>1
      <4>3. radio' \in [link : States \cup {"PINCODE"}, host : AnyHost]
        BY <1>1, <4>1
      <4> QED
        BY <1>1, <2>1, <3>2, <4>2, <4>3
    <3>3. CASE Turns("CONNECTED", h, <<<<"CONNECTED", h>>>>)
      BY <1>1, <1>3, <2>1, <2>2, <3>3, TurnTypes
    <3>4. CASE Turns("DISCONNECTED", h, <<<<"DISCONNECTED", h>>>>)
      BY <1>1, <1>3, <2>1, <2>2, <3>4, TurnTypes
    <3>5. CASE Turns("SUSPEND", h, <<<<"SLEEP", h>>>>)
      BY <1>1, <1>3, <2>1, <2>2, <3>5, TurnTypes
    <3>6. CASE Turns("DISCONNECTED", h, <<<<"RESET", h>>, <<"DISCONNECTED", h>>>>)
      BY <1>1, <1>3, <2>1, <2>2, <3>6, TurnTypes
    <3> QED
      BY <3>1, <3>2, <3>3, <3>4, <3>5, <3>6
  <2> QED
    BY <1>5, <2>3, <2>4 DEF Move
<1> QED
  BY <1>4, <1>5

-----------------------------------------------------------------------------
(* The type invariant.                                                     *)

LEMMA TypeInit == Init => TypeOK
<1> SUFFICES ASSUME Init PROVE TypeOK
  OBVIOUS
<1>1. bt_host \in AnyHost
  BY ConstantFacts DEF Init
<1>2. <<"DISCONNECTED", bt_host>> \in Event
  BY <1>1 DEF Event, EventTypes, StateEvents
<1>3. out \in Seq(Event) /\ events \in Seq(Event) /\ Len(events) = 0 /\ cmds \in Seq(Command)
  BY <1>2 DEF Init
<1>4. radio \in [link : States \cup {"PINCODE"}, host : AnyHost]
  BY <1>1 DEF Init, States
<1>5. part \in 0 .. PacketEvents - 1 /\ Len(events) < QueueSize
  BY <1>3, ConstantFacts DEF Init
<1>6. eeprom_nkro \in BOOLEAN
  BY WirelessLinkAssumption DEF Init
<1> QED
  BY <1>1, <1>3, <1>4, <1>5, <1>6, ConstantFacts DEF Init, TypeOK, States

LEMMA TypeStep == TypeOK /\ [Next]_vars => TypeOK'
<1> SUFFICES ASSUME TypeOK, [Next]_vars PROVE TypeOK'
  OBVIOUS
<1> USE DEF module, modes, lost
<1>1. CASE wireless_event_task
  <2>1. /\ events # << >> /\ events \in Seq(Event) /\ Len(events) < QueueSize
        /\ Handle(Head(events)) /\ events' = Tail(events)
        /\ pc' = IF Tail(events) = <<>> THEN "loop" ELSE "events"
    BY <1>1 DEF wireless_event_task, TypeOK
  <2>2. /\ Head(events) \in Event /\ events' \in Seq(Event)
        /\ Len(events') < QueueSize
    BY <2>1, ConstantFacts
  <2>3. /\ wireless_state' \in States /\ host_index' \in AnyHost \cup {LastBt}
        /\ {pincodeEntry', firstDisconnect', nkro', nkro_cut', unsaved'} \subseteq BOOLEAN
        /\ cmds' \in Seq(Command)
    BY <2>1, <2>2, HandleTypes
  <2> QED
    BY <1>1, <2>1, <2>2, <2>3 DEF wireless_event_task, TypeOK
<1>2. CASE lkbt51_task
  <2>1. /\ out # << >> /\ events \in Seq(Event) /\ Len(events) < QueueSize
        /\ out \in Seq(Event) /\ out' = Tail(out)
        /\ events' = wireless_event_enqueue(events, Head(out))
        /\ pc' \in {"loop", "events", "wait", "packet"}
        /\ overrun' \in BOOLEAN /\ crowded' \in BOOLEAN
    BY <1>2 DEF lkbt51_task, TypeOK, Forget
  <2>2. Head(out) \in Event /\ out' \in Seq(Event)
    BY <2>1
  <2>5. part' \in 0 .. PacketEvents - 1
    BY <1>2, ConstantFacts DEF lkbt51_task, TypeOK
  <2>3. CASE Len(events) = QueueSize - 1
    <3>1. events' = Append(Tail(events), Head(out)) /\ events # << >>
      BY <2>1, <2>3, ConstantFacts DEF wireless_event_enqueue
    <3>2. Tail(events) \in Seq(Event) /\ Len(Tail(events)) = QueueSize - 2
      BY <2>1, <2>3, <3>1, ConstantFacts
    <3>3. /\ Append(Tail(events), Head(out)) \in Seq(Event)
          /\ Len(Append(Tail(events), Head(out))) = QueueSize - 1
      BY <2>2, <3>2, ConstantFacts
    <3>4. events' \in Seq(Event) /\ Len(events') < QueueSize /\ events' # << >>
      BY <3>1, <3>3, ConstantFacts
    <3> QED
      BY <1>2, <2>1, <2>2, <2>5, <3>4 DEF lkbt51_task, TypeOK
  <2>4. CASE Len(events) # QueueSize - 1
    <3>1. events' = Append(events, Head(out))
      BY <2>1, <2>4 DEF wireless_event_enqueue
    <3>2. /\ Append(events, Head(out)) \in Seq(Event)
          /\ Len(Append(events, Head(out))) = Len(events) + 1
          /\ Len(events) \in Nat /\ Len(events) + 1 < QueueSize
      BY <2>1, <2>2, <2>4, ConstantFacts
    <3>3. events' \in Seq(Event) /\ Len(events') < QueueSize /\ events' # << >>
      BY <3>1, <3>2, ConstantFacts
    <3> QED
      BY <1>2, <2>1, <2>2, <2>5, <3>3 DEF lkbt51_task, TypeOK
  <2> QED
    BY <2>3, <2>4
<1>3. CASE drain
  BY <1>3 DEF drain, TypeOK
<1>4. CASE wireless_send_keyboard \/ wireless_send_mouse
  <2>1. <<"connect", Current>> \in Command /\ cmds \in Seq(Command)
    BY ConstantFacts DEF Command, TypeOK
  <2>2. PICK silently : ReportAsks(silently)
    BY <1>4 DEF wireless_send_keyboard, wireless_send_mouse
  <2>3. cmds' = Append(cmds, <<"connect", Current>>) /\ wireless_state' = "RECONNECTING"
    BY <2>2 DEF ReportAsks, wireless_connect
  <2>4. cmds' \in Seq(Command) /\ wireless_state' \in States
    BY <2>1, <2>3 DEF States
  <2> QED
    BY <2>2, <2>4 DEF ReportAsks, TypeOK
<1>5. CASE keychron_wireless_common_task
  <2>1. /\ wireless_state' \in States /\ host_index' \in AnyHost \cup {LastBt}
        /\ cmds' \in Seq(Command)
    BY <1>5, ConstantFacts, SendTypes DEF keychron_wireless_common_task
  <2>2. key_host' \in AnyHost
    BY <1>5, ConstantFacts DEF keychron_wireless_common_task
  <2> QED
    BY <1>5, <2>1, <2>2 DEF keychron_wireless_common_task, TypeOK
<1>6. CASE host_key_release
  <2>1. key_host' \in AnyHost
    BY <1>6, ConstantFacts DEF host_key_release
  <2> QED
    BY <1>6, <2>1 DEF host_key_release, TypeOK
<1>8. CASE \E h \in Hosts \cup {P24G_INDEX} : host_key_press(h)
  <2>1. PICK h \in Hosts \cup {P24G_INDEX} : host_key_press(h)
    BY <1>8
  <2>2. h \in AnyHost
    BY ConstantFacts
  <2>3. /\ wireless_state' \in States /\ host_index' \in AnyHost \cup {LastBt}
        /\ cmds' \in Seq(Command)
    <3>1. CASE wireless_connect_ex(h)
      BY <2>2, <3>1, SendTypes
    <3>2. CASE UNCHANGED <<cmds, host_index, wireless_state>>
      BY <3>2 DEF TypeOK
    <3> QED
      BY <2>1, <3>1, <3>2 DEF host_key_press
  <2>4. key_host' \in AnyHost
    BY <2>1, <2>2, ConstantFacts DEF host_key_press
  <2> QED
    BY <2>1, <2>3, <2>4 DEF host_key_press, TypeOK
<1>9. CASE wireless_low_battery_shutdown
  <2>1. <<"disconnect", Current>> \in Command /\ cmds \in Seq(Command)
    BY ConstantFacts DEF Command, TypeOK
  <2>2. cmds' = Append(cmds, <<"disconnect", Current>>)
    BY <1>9 DEF wireless_low_battery_shutdown, Send
  <2>3. cmds' \in Seq(Command)
    BY <2>1, <2>2
  <2> QED
    BY <1>9, <2>3 DEF wireless_low_battery_shutdown, TypeOK
<1>10. CASE usb_power_connected
  BY <1>10 DEF usb_power_connected, TypeOK
<1>11. CASE \E t \in {"USB"} \cup Wireless : set_transport(t)
  <2>1. PICK t \in {"USB"} \cup Wireless : set_transport(t)
    BY <1>11
  <2>2. <<"disconnect", Current>> \in Command /\ cmds \in Seq(Command)
    BY ConstantFacts DEF Command, TypeOK
  <2>3. cmds' = Append(cmds, <<"disconnect", Current>>)
    BY <2>1 DEF set_transport, Send
  <2>4. cmds' \in Seq(Command)
    BY <2>2, <2>3
  <2>5. /\ saved' \in [usb : BOOLEAN, bluetooth : BOOLEAN]
        /\ nkro' \in BOOLEAN /\ unsaved' \in BOOLEAN
    BY <2>1 DEF set_transport, TypeOK
  <2>6. /\ pc' \in {"loop", "events", "wait", "packet"} /\ pc' # "events"
        /\ transport' \in {"NONE", "USB"} \cup Wireless
    BY <2>1 DEF set_transport, TypeOK
  <2> QED
    BY <2>1, <2>4, <2>5, <2>6 DEF set_transport, TypeOK
<1>12. CASE set_transport_wireless
  <2>1. /\ wireless_state' \in States /\ host_index' \in AnyHost \cup {LastBt}
        /\ cmds' \in Seq(Command)
    <3>1. (IF transport = "BLUETOOTH" THEN LastBt ELSE P24G_INDEX) \in AnyHost \cup {LastBt}
      BY ConstantFacts
    <3> QED
      BY <1>12, <3>1, SendTypes DEF set_transport_wireless
  <2>2. /\ saved' \in [usb : BOOLEAN, bluetooth : BOOLEAN]
        /\ nkro' \in BOOLEAN /\ unsaved' \in BOOLEAN
    BY <1>12 DEF set_transport_wireless, TypeOK
  <2> QED
    BY <1>12, <2>1, <2>2 DEF set_transport_wireless, TypeOK
<1>13. CASE nkro_toggle
  <2>1. {nkro', eeprom_nkro', nkro_cut'} \subseteq BOOLEAN
    BY <1>13 DEF nkro_toggle
  <2> QED
    BY <1>13, <2>1 DEF nkro_toggle, TypeOK
<1>14. CASE StartupOver
  BY <1>14 DEF StartupOver, TypeOK
<1>15. CASE Obey
  <2>1. /\ radio' \in [link : States \cup {"PINCODE"}, host : AnyHost]
        /\ bt_host' \in Hosts /\ cmds' \in Seq(Command) /\ out' \in Seq(Event)
        /\ silent' \in BOOLEAN
    BY <1>15, ModuleTypes
  <2> QED
    BY <1>15, <2>1 DEF Obey, TypeOK
<1>16. CASE Move
  <2>1. /\ radio' \in [link : States \cup {"PINCODE"}, host : AnyHost]
        /\ bt_host' \in Hosts /\ cmds' \in Seq(Command) /\ out' \in Seq(Event)
        /\ silent' \in BOOLEAN
    BY <1>16, ModuleTypes
  <2> QED
    BY <1>16, <2>1 DEF Move, TypeOK
<1>17. CASE UNCHANGED vars
  BY <1>17 DEF vars, TypeOK
<1> QED
  BY <1>1, <1>2, <1>3, <1>4, <1>5, <1>6, <1>8, <1>9, <1>10, <1>11, <1>12, <1>13,
    <1>14, <1>15, <1>16, <1>17 DEF Next, Keyboard

-----------------------------------------------------------------------------
(* The four kinds of step, by what they do to the unread reports.          *)

\* Nothing is reported or handled: the keyboard sends a command, reads a report
\* into the queue, or does something else.
Still ==
  /\ Unread' = Unread /\ UNCHANGED <<radio, pincodeEntry, silent>>
  /\ cmds' # << >> \/ UNCHANGED <<cmds, wireless_state, host_index>>
  /\ crowded => crowded' \/ \E k \in 1 .. Len(Unread) : Unread[k][1] \in StateEvents
  /\ overrun => overrun'
  /\ nkro_cut' /\ ~unsaved' => nkro_cut /\ ~unsaved /\ eeprom_nkro' = eeprom_nkro

\* The first n reports, the queue, have no notice among them, or end with a state.
Uncrowded(s, n) ==
  s[n][1] \in StateEvents \/ (~crowded /\ \A k \in 1 .. n : s[k][1] \notin Notices)
\* The full queue takes a report and forgets its oldest.
Forgets ==
  /\ Unread # << >> /\ Unread' = Tail(Unread)
  /\ UNCHANGED <<radio, cmds, wireless_state, host_index, pincodeEntry, silent, nkro_cut,
                 unsaved, eeprom_nkro>>
  /\ overrun' = (overrun \/ Unread[1][1] \in PinEvents)
  /\ ~crowded' => \E n \in 2 .. Len(Unread) - 1 : Uncrowded(Tail(Unread), n)
\* The oldest report is handled.
Handles ==
  /\ Unread # << >> /\ Handle(Unread[1]) /\ Unread' = Tail(Unread)
  /\ UNCHANGED <<radio, overrun, crowded, silent, eeprom_nkro>>

LEMMA SentSeq ==
  ASSUME TypeOK
  PROVE  \A c : Append(cmds, c) # << >>
<1> SUFFICES ASSUME NEW c PROVE Append(cmds, c) # << >>
  OBVIOUS
<1>1. cmds \in Seq(Command)
  BY DEF TypeOK
<1>2. cmds \in Seq(Command \cup {c}) /\ Len(cmds) \in Nat
  BY <1>1
<1>3. Append(cmds, c) \in Seq(Command \cup {c}) /\ Len(Append(cmds, c)) = Len(cmds) + 1
  BY <1>2
<1> QED
  BY <1>2, <1>3

LEMMA UnreadType == TypeOK => Unread \in Seq(Event)
BY DEF TypeOK, Unread

LEMMA ReadStep ==
  ASSUME TypeOK, lkbt51_task
  PROVE  Still \/ Forgets
<1> DEFINE e == Head(out)
<1>1. /\ out # << >> /\ events \in Seq(Event) /\ out \in Seq(Event) /\ out' = Tail(out)
      /\ events' = wireless_event_enqueue(events, e)
      /\ overrun' = (overrun \/ (Len(events) = QueueSize - 1 /\ events[1][1] \in PinEvents))
      /\ UNCHANGED <<radio, cmds, wireless_state, host_index, pincodeEntry, silent,
                     nkro_cut, unsaved, eeprom_nkro>>
  BY DEF lkbt51_task, TypeOK, modes, Forget
<1>2. crowded' = /\ e[1] \notin StateEvents
                 /\ \/ crowded
                    \/ /\ Len(events) = QueueSize - 1
                       /\ \E i \in DOMAIN events' : events'[i][1] \in Notices
  BY DEF lkbt51_task, Forget
<1>3. /\ e \in Event /\ Len(out) \in Nat /\ Len(out) > 0 /\ Len(events) \in Nat
      /\ Unread \in Seq(Event) /\ Len(Unread) = Len(events) + Len(out)
      /\ Unread[Len(events) + 1] = e
  BY <1>1 DEF Unread
<1> HIDE DEF e
<1>4. CASE Len(events) = QueueSize - 1
  <2>0. events # << >> /\ Tail(events) \in Seq(Event) /\ Len(Tail(events)) = QueueSize - 2
        /\ Unread # << >>
    BY <1>1, <1>3, <1>4, ConstantFacts
  <2>1. events' = Append(Tail(events), e)
    BY <1>1, <1>4 DEF wireless_event_enqueue
  <2>2. Unread' = Tail(Unread)
    BY <1>1, <2>0, <2>1, ReadSeq DEF Unread, e
  <2>3. Unread[1] = events[1]
    BY <1>1, <1>3, <1>4, ConstantFacts DEF Unread
  <2> DEFINE n == QueueSize - 1
             q == Append(Tail(events), e)
  <2>4. q \in Seq(Event) /\ Len(q) = n /\ DOMAIN q = 1 .. n
    BY <1>3, <2>0, ConstantFacts
  <2>5. n \in 2 .. Len(Unread) - 1
    BY <1>3, <1>4, ConstantFacts
  <2>6. Tail(out) \in Seq(Event) /\ q \o Tail(out) = Tail(Unread)
    BY <1>1, <2>1, <2>2 DEF Unread
  <2>7. \A k \in 1 .. n : Tail(Unread)[k] = q[k]
    <3> HIDE DEF q
    <3>1. \A k \in 1 .. n : (q \o Tail(out))[k] = q[k]
      BY <2>4, <2>6
    <3> QED
      BY <2>6, <3>1
  <2>8. q[n] = e
    BY <1>3, <2>0, ConstantFacts
  <2>9. ~crowded' => Uncrowded(Tail(Unread), n)
    <3>0. n \in 1 .. n
      BY ConstantFacts
    <3>1. events' = q /\ Tail(Unread)[n] = e
      BY <2>1, <2>7, <2>8, <3>0
    <3> HIDE DEF q, n
    <3> QED
      BY <1>2, <1>4, <2>4, <2>7, <3>1 DEF Uncrowded
  <2> HIDE DEF n
  <2> QED
    BY <1>1, <1>4, <2>0, <2>2, <2>3, <2>5, <2>9 DEF Forgets
<1>5. CASE Len(events) # QueueSize - 1
  <2>1. events' = Append(events, e)
    BY <1>1, <1>5 DEF wireless_event_enqueue
  <2>2. Unread' = Unread
    BY <1>1, <2>1, ReadSeq DEF Unread, e
  <2>3. crowded => crowded' \/ \E k \in 1 .. Len(Unread) : Unread[k][1] \in StateEvents
    <3>1. Len(events) + 1 \in 1 .. Len(Unread)
      BY <1>3
    <3> QED
      BY <1>2, <1>3, <3>1
  <2> QED
    BY <1>1, <2>2, <2>3 DEF Still
<1> QED
  BY <1>4, <1>5

LEMMA HandleStep ==
  ASSUME TypeOK, wireless_event_task
  PROVE  Handles
<1>1. /\ events # << >> /\ events \in Seq(Event) /\ out \in Seq(Event) /\ out' = out
      /\ Handle(Head(events)) /\ events' = Tail(events)
      /\ UNCHANGED <<radio, overrun, crowded, silent, eeprom_nkro>>
  BY DEF wireless_event_task, TypeOK, module, lost
<1>2. Unread' = Tail(Unread) /\ Head(events) = Unread[1]
  BY <1>1, HandleSeq DEF Unread
<1>3. Unread # << >>
  BY <1>1 DEF Unread
<1> QED
  BY <1>1, <1>2, <1>3 DEF Handles

LEMMA ConnectStep ==
  ASSUME TypeOK, NEW h, wireless_connect_ex(h) \/ wireless_pairing_ex(h)
  PROVE  cmds' # << >> \/ UNCHANGED <<cmds, wireless_state, host_index>>
BY SentSeq DEF wireless_connect_ex, wireless_pairing_ex, Send

LEMMA StepKinds ==
  ASSUME TypeOK, [Next]_vars
  PROVE  Still \/ Forgets \/ Handles \/ Obey \/ Move
<1> USE DEF module, modes, lost
<1>1. CASE wireless_event_task
  BY <1>1, HandleStep
<1>2. CASE lkbt51_task
  BY <1>2, ReadStep
<1>3. CASE drain
  BY <1>3 DEF drain, Still, Unread
<1>4. CASE wireless_send_keyboard \/ wireless_send_mouse
  BY <1>4, SentSeq DEF wireless_send_keyboard, wireless_send_mouse, ReportAsks,
    wireless_connect, Still, Unread
<1>5. CASE keychron_wireless_common_task
  BY <1>5, ConnectStep DEF keychron_wireless_common_task, Still, Unread
<1>6. CASE host_key_release
  BY <1>6 DEF host_key_release, Still, Unread
<1>7. CASE \E h \in Hosts \cup {P24G_INDEX} : host_key_press(h)
  <2>1. PICK h \in Hosts \cup {P24G_INDEX} : host_key_press(h)
    BY <1>7
  <2>2. cmds' # << >> \/ UNCHANGED <<cmds, wireless_state, host_index>>
    BY <2>1, ConnectStep DEF host_key_press
  <2> QED
    BY <2>1, <2>2 DEF host_key_press, Still, Unread
<1>8. CASE wireless_low_battery_shutdown
  BY <1>8, SentSeq DEF wireless_low_battery_shutdown, Send, Still, Unread
<1>9. CASE usb_power_connected
  BY <1>9 DEF usb_power_connected, Still, Unread
<1>10. CASE \E t \in {"USB"} \cup Wireless : set_transport(t)
  <2>1. PICK t \in {"USB"} \cup Wireless : set_transport(t)
    BY <1>10
  <2>2. cmds' # << >>
    BY <2>1, SentSeq DEF set_transport, Send
  <2>3. UNCHANGED <<events, out, radio, pincodeEntry, silent, crowded, overrun, nkro_cut,
                    eeprom_nkro>>
    BY <2>1 DEF set_transport
  <2>4. unsaved' = (unsaved \/ nkro_cut) \/ unsaved' = unsaved
    BY <2>1 DEF set_transport
  <2> QED
    BY <2>2, <2>3, <2>4 DEF Still, Unread
<1>11. CASE set_transport_wireless
  <2>1. cmds' # << >> \/ UNCHANGED <<cmds, wireless_state, host_index>>
    BY <1>11, ConnectStep DEF set_transport_wireless
  <2> QED
    BY <1>11, <2>1 DEF set_transport_wireless, Still, Unread
<1>12. CASE nkro_toggle
  BY <1>12 DEF nkro_toggle, Still, Unread
<1>13. CASE StartupOver
  BY <1>13 DEF StartupOver, Still, Unread
<1>14. CASE UNCHANGED vars
  BY <1>14 DEF vars, Still, Unread
<1> QED
  BY <1>1, <1>2, <1>3, <1>4, <1>5, <1>6, <1>7, <1>8, <1>9, <1>10, <1>11, <1>12, <1>13,
    <1>14 DEF Next, Keyboard

-----------------------------------------------------------------------------
(* What is left of the lead when a report is taken away or added.          *)

LEMMA TailFacts ==
  ASSUME NEW S, NEW s \in Seq(S), s # << >>
  PROVE  /\ Len(s) \in Nat /\ Len(s) >= 1 /\ Tail(s) \in Seq(S) /\ Len(Tail(s)) = Len(s) - 1
         /\ \A i \in 1 .. Len(s) - 1 : Tail(s)[i] = s[i + 1]
OBVIOUS

LEMMA AppendFacts ==
  ASSUME NEW S, NEW s \in Seq(S), NEW e \in S
  PROVE  /\ Len(s) \in Nat /\ s \o <<e>> \in Seq(S) /\ Len(s \o <<e>>) = Len(s) + 1
         /\ \A i \in 1 .. Len(s) : (s \o <<e>>)[i] = s[i]
         /\ (s \o <<e>>)[Len(s) + 1] = e
OBVIOUS

\* Only notices behind i, and behind i - 1 when the first report is gone.
LEMMA NoticesTail ==
  ASSUME NEW s \in Seq(Event), s # << >>, NEW i \in Nat, NEW j \in Nat, OnlyNotices(s, i, j)
  PROVE  /\ i >= 1 => OnlyNotices(Tail(s), i - 1, j - 1)
         /\ OnlyNotices(Tail(s), i, j - 1)
<1>1. /\ Len(s) \in Nat /\ Len(s) >= 1 /\ Len(Tail(s)) = Len(s) - 1
      /\ \A k \in 1 .. Len(s) - 1 : Tail(s)[k] = s[k + 1]
  BY TailFacts
<1>2. ASSUME NEW m \in Int, m + 1 >= i
      PROVE  OnlyNotices(Tail(s), m, j - 1)
  <2> SUFFICES ASSUME NEW k \in 1 .. Len(s) - 1, k > m, k # j - 1
               PROVE  Tail(s)[k][1] \in Notices
    BY <1>1 DEF OnlyNotices
  <2>1. k + 1 \in 1 .. Len(s) /\ k + 1 > i /\ k + 1 # j
    BY <1>1, <1>2
  <2>2. s[k + 1][1] \in Notices
    BY <2>1 DEF OnlyNotices
  <2> QED
    BY <1>1, <2>2
<1>3. i - 1 \in Int /\ (i - 1) + 1 >= i /\ i \in Int /\ i + 1 >= i
  OBVIOUS
<1> QED
  BY <1>2, <1>3

LEMMA LeadsTail ==
  ASSUME NEW s \in Seq(Event), NEW r, NEW i \in 2 .. Len(s), LeadsAt(r, s, i)
  PROVE  Leads(r, Tail(s))
<1>0. s # << >> /\ Len(s) \in Nat /\ i \in Nat /\ i >= 1
  OBVIOUS
<1>1. /\ Len(Tail(s)) = Len(s) - 1
      /\ \A k \in 1 .. Len(s) - 1 : Tail(s)[k] = s[k + 1]
  BY <1>0, TailFacts
<1> DEFINE m == i - 1
<1>2. m \in 1 .. Len(Tail(s)) /\ Tail(s)[m] = s[i]
  <2>1. m \in 1 .. Len(s) - 1 /\ m + 1 = i
    BY <1>0
  <2> QED
    BY <1>1, <2>1
<1>3. CASE Tells(r, s[i]) /\ OnlyNotices(s, i, i)
  <2>1. OnlyNotices(Tail(s), m, m)
    BY <1>0, <1>3, NoticesTail
  <2> HIDE DEF m
  <2> QED
    BY <1>2, <1>3, <2>1 DEF Leads, LeadsAt
<1>4. CASE /\ s[i] = <<"DISCOVERABLE", r.host>>
           /\ \E j \in 1 .. Len(s) : j > i /\ TellsPaired(r, s[j]) /\ OnlyNotices(s, i, j)
  <2>1. PICK j \in 1 .. Len(s) : j > i /\ TellsPaired(r, s[j]) /\ OnlyNotices(s, i, j)
    BY <1>4
  <2> DEFINE l == j - 1
  <2>2. l \in 1 .. Len(Tail(s)) /\ l > m /\ Tail(s)[l] = s[j] /\ j \in Nat
    <3>1. l \in 1 .. Len(s) - 1 /\ l + 1 = j /\ l > m /\ j \in Nat
      BY <1>0, <2>1
    <3> QED
      BY <1>1, <3>1
  <2>3. OnlyNotices(Tail(s), m, l)
    BY <1>0, <2>1, <2>2, NoticesTail
  <2> HIDE DEF m, l
  <2> QED
    BY <1>2, <1>4, <2>1, <2>2, <2>3 DEF Leads, LeadsAt
<1> QED
  BY <1>3, <1>4 DEF LeadsAt

LEMMA NoStateTail ==
  ASSUME NEW s \in Seq(Event), s # << >>,
         \A k \in 1 .. Len(s) : k > 1 => s[k][1] \notin StateEvents
  PROVE  NoState(Tail(s))
<1>1. /\ Len(s) \in Nat /\ Len(Tail(s)) = Len(s) - 1
      /\ \A k \in 1 .. Len(s) - 1 : Tail(s)[k] = s[k + 1]
  BY TailFacts
<1> SUFFICES ASSUME NEW k \in 1 .. Len(s) - 1 PROVE Tail(s)[k][1] \notin StateEvents
  BY <1>1 DEF NoState
<1>2. k + 1 \in 1 .. Len(s) /\ k + 1 > 1
  BY <1>1
<1> QED
  BY <1>1, <1>2

\* Behind the report that leads, no other tells a state.
LEMMA NothingBehind ==
  ASSUME NEW s \in Seq(Event), NEW i \in Nat, NEW j \in Nat, OnlyNotices(s, i, j),
         j <= i \/ s[j][1] \notin StateEvents
  PROVE  \A k \in 1 .. Len(s) : k > i => s[k][1] \notin StateEvents
<1> SUFFICES ASSUME NEW k \in 1 .. Len(s), k > i PROVE s[k][1] \notin StateEvents
  OBVIOUS
<1>1. CASE s[k][1] \in Notices
  BY <1>1 DEF Notices, StateEvents
<1>2. CASE k = j
  BY <1>2
<1> QED
  BY <1>1, <1>2 DEF OnlyNotices

LEMMA PairedNoState == \A r, e : TellsPaired(r, e) => e[1] \notin StateEvents
BY DEF TellsPaired, StateEvents

\* A notice, or the outcome of a pairing, is added.
LEMMA NoticesAppend ==
  ASSUME NEW s \in Seq(Event), NEW e \in Event, NEW i \in Nat, NEW j \in Nat,
         OnlyNotices(s, i, j)
  PROVE  /\ e[1] \in Notices => OnlyNotices(s \o <<e>>, i, j)
         /\ j <= i => OnlyNotices(s \o <<e>>, i, Len(s) + 1)
<1>1. /\ Len(s) \in Nat /\ Len(s \o <<e>>) = Len(s) + 1
      /\ \A k \in 1 .. Len(s) : (s \o <<e>>)[k] = s[k]
      /\ (s \o <<e>>)[Len(s) + 1] = e
  BY AppendFacts
<1> DEFINE u == s \o <<e>>
<1> HIDE DEF u
<1>2. ASSUME e[1] \in Notices PROVE OnlyNotices(u, i, j)
  <2> SUFFICES ASSUME NEW k \in 1 .. Len(s) + 1, k > i, k # j PROVE u[k][1] \in Notices
    BY <1>1 DEF OnlyNotices, u
  <2>1. k \in 1 .. Len(s) \/ k = Len(s) + 1
    BY <1>1
  <2> QED
    BY <1>1, <1>2, <2>1 DEF OnlyNotices, u
<1>3. ASSUME j <= i PROVE OnlyNotices(u, i, Len(s) + 1)
  <2> SUFFICES ASSUME NEW k \in 1 .. Len(s) + 1, k > i, k # Len(s) + 1
               PROVE  u[k][1] \in Notices
    BY <1>1 DEF OnlyNotices, u
  <2>1. k \in 1 .. Len(s) /\ k # j
    BY <1>1, <1>3
  <2> QED
    BY <1>1, <2>1 DEF OnlyNotices, u
<1> QED
  BY <1>2, <1>3 DEF u

LEMMA LeadsNotice ==
  ASSUME NEW s \in Seq(Event), NEW e \in Event, NEW r, e[1] \in Notices, Leads(r, s)
  PROVE  Leads(r, s \o <<e>>)
<1> DEFINE u == s \o <<e>>
<1>1. /\ Len(s) \in Nat /\ Len(u) = Len(s) + 1
      /\ \A k \in 1 .. Len(s) : u[k] = s[k] /\ k \in 1 .. Len(u) /\ k \in Nat
  BY AppendFacts
<1>2. PICK i \in 1 .. Len(s) : LeadsAt(r, s, i)
  BY DEF Leads
<1>3. \A k \in Nat, j \in Nat : OnlyNotices(s, k, j) => OnlyNotices(u, k, j)
  BY NoticesAppend
<1> HIDE DEF u
<1>4. LeadsAt(r, u, i)
  BY <1>1, <1>2, <1>3 DEF LeadsAt
<1> QED
  BY <1>1, <1>2, <1>4 DEF Leads, u

LEMMA NoStateAppend ==
  ASSUME NEW s \in Seq(Event), NEW e \in Event, e[1] \notin StateEvents, NoState(s)
  PROVE  NoState(s \o <<e>>)
<1>1. /\ Len(s) \in Nat /\ Len(s \o <<e>>) = Len(s) + 1
      /\ \A k \in 1 .. Len(s) : (s \o <<e>>)[k] = s[k]
      /\ (s \o <<e>>)[Len(s) + 1] = e
  BY AppendFacts
<1> SUFFICES ASSUME NEW k \in 1 .. Len(s) + 1 PROVE (s \o <<e>>)[k][1] \notin StateEvents
  BY <1>1 DEF NoState
<1>2. k \in 1 .. Len(s) \/ k = Len(s) + 1
  BY <1>1
<1> QED
  BY <1>1, <1>2 DEF NoState

-----------------------------------------------------------------------------
(* The unread reports lead to the state of the module.                     *)

LEMMA StillConverges ==
  ASSUME Converges, Still
  PROVE  Converges'
<1>1. CASE cmds' # << >>
  BY <1>1 DEF Converges
<1>2. CASE UNCHANGED <<cmds, wireless_state, host_index>>
  <2>1. Unread' = Unread /\ radio' = radio
    BY DEF Still
  <2>2. Settled => Settled'
    BY <1>2, <2>1 DEF Settled, Agree
  <2>3. NoState(Unread) /\ crowded => crowded'
    BY DEF Still, NoState
  <2> QED
    BY <1>2, <2>1, <2>2, <2>3 DEF Converges
<1> QED
  BY <1>1, <1>2 DEF Still

\* What is forgotten with only notices behind it, but one, leaves a crowded queue.
LEMMA ForgetCrowds ==
  ASSUME TypeOK, Forgets, NEW j \in Nat, OnlyNotices(Unread, 1, j), NoState(Tail(Unread))
  PROVE  crowded'
<1> SUFFICES ASSUME ~crowded' PROVE FALSE
  OBVIOUS
<1>1. /\ Unread \in Seq(Event) /\ Unread # << >>
  BY UnreadType DEF Forgets
<1>2. PICK n \in 2 .. Len(Unread) - 1 : Uncrowded(Tail(Unread), n)
  BY DEF Forgets
<1>3. /\ Len(Unread) \in Nat /\ Len(Tail(Unread)) = Len(Unread) - 1
      /\ Tail(Unread) \in Seq(Event) /\ 1 \in 1 .. n /\ 2 \in 1 .. n
      /\ 1 \in 1 .. Len(Tail(Unread)) /\ 2 \in 1 .. Len(Tail(Unread))
      /\ n \in 1 .. Len(Tail(Unread))
  BY <1>1, <1>2, TailFacts
<1>4. \A k \in 1 .. n : Tail(Unread)[k][1] \notin Notices
  BY <1>2, <1>3 DEF Uncrowded, NoState
<1>5. OnlyNotices(Tail(Unread), 0, j - 1)
  BY <1>1, NoticesTail
<1> DEFINE t == Tail(Unread)
<1>6. /\ 1 \in 1 .. Len(t) /\ 2 \in 1 .. Len(t) /\ OnlyNotices(t, 0, j - 1)
      /\ t[1][1] \notin Notices /\ t[2][1] \notin Notices
  BY <1>3, <1>4, <1>5
<1> HIDE DEF t
<1>7. 1 = j - 1 /\ 2 = j - 1
  BY <1>6 DEF OnlyNotices
<1> QED
  BY <1>7

LEMMA ForgetConverges ==
  ASSUME TypeOK, Converges, Forgets
  PROVE  Converges'
<1> SUFFICES ASSUME cmds' = << >>
             PROVE  Leads(radio, Tail(Unread)) \/ (NoState(Tail(Unread)) /\ crowded')
  BY DEF Converges, Forgets
<1>1. /\ Unread \in Seq(Event) /\ Unread # << >> /\ cmds = << >> /\ Len(Unread) \in Nat
  BY UnreadType DEF Forgets
<1>2. CASE Leads(radio, Unread)
  <2>1. PICK i \in 1 .. Len(Unread) : LeadsAt(radio, Unread, i)
    BY <1>2 DEF Leads
  <2>2. CASE i # 1
    <3>1. i \in 2 .. Len(Unread)
      BY <1>1, <2>2
    <3> QED
      BY <1>1, <2>1, <3>1, LeadsTail
  <2>3. CASE i = 1
    <3>1. PICK j \in Nat : /\ OnlyNotices(Unread, 1, j)
                           /\ j <= 1 \/ Unread[j][1] \notin StateEvents
      BY <2>1, <2>3, PairedNoState DEF LeadsAt
    <3>2. \A k \in 1 .. Len(Unread) : k > 1 => Unread[k][1] \notin StateEvents
      BY <1>1, <3>1, NothingBehind
    <3>3. NoState(Tail(Unread))
      BY <1>1, <3>2, NoStateTail
    <3> QED
      BY <3>1, <3>3, ForgetCrowds
  <2> QED
    BY <2>2, <2>3
<1>3. CASE NoState(Unread) /\ (crowded \/ Settled)
  <2>1. NoState(Tail(Unread))
    BY <1>1, <1>3, NoStateTail DEF NoState
  <2>2. CASE Settled
    <3>1. PICK j \in Nat : OnlyNotices(Unread, 0, j)
      BY <2>2 DEF Settled
    <3>2. OnlyNotices(Unread, 1, j)
      BY <3>1 DEF OnlyNotices
    <3> QED
      BY <2>1, <3>2, ForgetCrowds
  <2>3. CASE crowded
    <3> SUFFICES ASSUME ~crowded' PROVE FALSE
      BY <2>1
    <3>1. PICK n \in 2 .. Len(Unread) - 1 : Uncrowded(Tail(Unread), n)
      BY DEF Forgets
    <3>2. Tail(Unread)[n][1] \in StateEvents
      BY <2>3, <3>1 DEF Uncrowded
    <3>3. n \in 1 .. Len(Tail(Unread))
      BY <1>1, TailFacts
    <3> QED
      BY <2>1, <3>2, <3>3 DEF NoState
  <2> QED
    BY <1>3, <2>2, <2>3
<1> QED
  BY <1>1, <1>2, <1>3 DEF Converges

\* Handling a report of the module's present state agrees with it.
LEMMA ToldHandled ==
  ASSUME TypeOK, NEW e, Handle(e), radio' = radio, cmds' = << >>,
         \/ Tells(radio, e)
         \/ /\ TellsPaired(radio, e)
            /\ wireless_state = "PARING" /\ host_index = radio.host
  PROVE  Agree'
<1> USE DEF PinEvents, Notices
<1>1. EnterDisconnected => wireless_state' = "DISCONNECTED"
  BY SentSeq DEF EnterDisconnected, wireless_connect
<1>2. CASE e = <<"CONNECTED", radio.host>> /\ radio.link = "CONNECTED"
  BY <1>2 DEF Handle, wireless_enter_connected, Agree
<1>3. CASE e = <<"DISCOVERABLE", radio.host>> /\ radio.link = "PARING"
  BY <1>3 DEF Handle, Agree
<1>4. CASE e = <<"RECONNECTING", radio.host>> /\ radio.link = "RECONNECTING"
  BY <1>4 DEF Handle, Agree
<1>5. CASE e = <<"DISCONNECTED", radio.host>> /\ radio.link = "DISCONNECTED"
  BY <1>1, <1>5 DEF Handle, Agree
<1>6. CASE /\ e = <<"PINCODE_ENTRY", radio.host>> /\ radio.link = "PINCODE"
           /\ wireless_state = "PARING" /\ host_index = radio.host
  BY <1>6 DEF Handle, Agree
<1>7. CASE /\ e = <<"SLEEP", radio.host>> /\ radio.link = "SUSPEND"
           /\ wireless_state = "PARING" /\ host_index = radio.host
  BY <1>7 DEF Handle, wireless_enter_sleep, Agree
<1> QED
  BY <1>2, <1>3, <1>4, <1>5, <1>6, <1>7 DEF Tells, TellsPaired

\* The handler of a report sends at most one command, and none if none is under way
\* afterwards; the report of a pairing puts the keyboard into it; a notice changes
\* nothing.
LEMMA HandleFacts ==
  ASSUME TypeOK, NEW e, Handle(e)
  PROVE  /\ cmds' = << >> => cmds = << >>
         /\ e[1] = "DISCOVERABLE" => wireless_state' = "PARING" /\ host_index' = e[2]
         /\ e[1] \in Notices => UNCHANGED <<wireless_state, host_index>>
BY SentSeq DEF Handle, EnterDisconnected, wireless_connect, Notices

LEMMA HandleConverges ==
  ASSUME TypeOK, Converges, Handles
  PROVE  Converges'
<1> SUFFICES ASSUME cmds' = << >>
             PROVE  Leads(radio, Tail(Unread))
                      \/ (NoState(Tail(Unread)) /\ (crowded \/ Settled'))
  BY DEF Converges, Handles
<1>1. /\ Unread \in Seq(Event) /\ Unread # << >> /\ Handle(Unread[1])
      /\ Unread' = Tail(Unread) /\ radio' = radio
  BY UnreadType DEF Handles
<1>2. cmds = << >>
  BY <1>1, HandleFacts
<1>3. /\ Len(Unread) \in Nat /\ Len(Unread) >= 1 /\ Len(Tail(Unread)) = Len(Unread) - 1
      /\ \A i \in 1 .. Len(Unread) - 1 : Tail(Unread)[i] = Unread[i + 1]
  BY <1>1, TailFacts
\* the outcome of a pairing that is known now
<1>4. ASSUME NEW j \in 1 .. Len(Unread), j > 1, TellsPaired(radio, Unread[j]),
             OnlyNotices(Unread, 1, j), wireless_state' = "PARING", host_index' = radio.host
      PROVE  Settled'
  <2> DEFINE l == j - 1
  <2>1. l \in 1 .. Len(Unread') /\ Unread'[l] = Unread[j]
    <3>1. l \in 1 .. Len(Unread) - 1 /\ l + 1 = j
      BY <1>3, <1>4
    <3> QED
      BY <1>1, <1>3, <3>1
  <2>2. OnlyNotices(Unread', 0, l)
    BY <1>1, <1>4, NoticesTail
  <2> HIDE DEF l
  <2> QED
    BY <1>1, <1>4, <2>1, <2>2 DEF Settled
<1>5. ASSUME NEW j \in Nat, j <= 1, OnlyNotices(Unread, 1, j), Agree'
      PROVE  Settled'
  <2>1. OnlyNotices(Unread, 1, 1)
    BY <1>5 DEF OnlyNotices
  <2>2. OnlyNotices(Unread', 0, 0)
    BY <1>1, <2>1, NoticesTail
  <2> QED
    BY <1>5, <2>2 DEF Settled
<1>6. CASE Leads(radio, Unread)
  <2>1. PICK i \in 1 .. Len(Unread) : LeadsAt(radio, Unread, i)
    BY <1>6 DEF Leads
  <2>2. CASE i # 1
    <3>1. i \in 2 .. Len(Unread)
      BY <1>3, <2>2
    <3> QED
      BY <1>1, <2>1, <3>1, LeadsTail
  <2>3. CASE i = 1
    <3>1. CASE Tells(radio, Unread[1]) /\ OnlyNotices(Unread, 1, 1)
      <4>1. Agree'
        BY <1>1, <3>1, ToldHandled
      <4>2. Settled'
        BY <1>5, <3>1, <4>1
      <4>3. \A k \in 1 .. Len(Unread) : k > 1 => Unread[k][1] \notin StateEvents
        BY <1>1, <3>1, NothingBehind
      <4>4. NoState(Tail(Unread))
        BY <1>1, <4>3, NoStateTail
      <4> QED
        BY <4>2, <4>4
    <3>2. CASE /\ Unread[1] = <<"DISCOVERABLE", radio.host>>
               /\ \E j \in 1 .. Len(Unread) : /\ j > 1 /\ TellsPaired(radio, Unread[j])
                                              /\ OnlyNotices(Unread, 1, j)
      <4>1. PICK j \in 1 .. Len(Unread) : /\ j > 1 /\ TellsPaired(radio, Unread[j])
                                          /\ OnlyNotices(Unread, 1, j)
        BY <3>2
      <4>2. wireless_state' = "PARING" /\ host_index' = radio.host
        BY <1>1, <3>2, HandleFacts
      <4>3. Settled'
        BY <1>4, <4>1, <4>2
      <4>4. \A k \in 1 .. Len(Unread) : k > 1 => Unread[k][1] \notin StateEvents
        BY <1>1, <4>1, NothingBehind, PairedNoState
      <4>5. NoState(Tail(Unread))
        BY <1>1, <4>4, NoStateTail
      <4> QED
        BY <4>3, <4>5
    <3> QED
      BY <2>1, <2>3, <3>1, <3>2 DEF LeadsAt
  <2> QED
    BY <2>2, <2>3
<1>7. CASE NoState(Unread) /\ (crowded \/ Settled)
  <2>1. NoState(Tail(Unread))
    BY <1>1, <1>7, NoStateTail DEF NoState
  <2>2. \A j \in Nat : OnlyNotices(Unread, 0, j) => OnlyNotices(Unread, 1, j)
    BY DEF OnlyNotices
  <2>3. CASE Agree /\ OnlyNotices(Unread, 0, 0)
    <3>1. Unread[1][1] \in Notices
      BY <1>3, <2>3 DEF OnlyNotices
    <3>2. Agree'
      BY <1>1, <2>3, <3>1, HandleFacts DEF Agree
    <3> QED
      BY <1>5, <2>1, <2>2, <2>3, <3>2
  <2>4. CASE /\ wireless_state = "PARING" /\ host_index = radio.host
             /\ \E j \in 1 .. Len(Unread) :
                  TellsPaired(radio, Unread[j]) /\ OnlyNotices(Unread, 0, j)
    <3>1. PICK j \in 1 .. Len(Unread) :
                  TellsPaired(radio, Unread[j]) /\ OnlyNotices(Unread, 0, j)
      BY <2>4
    <3>2. CASE j = 1
      <4>1. Agree'
        BY <1>1, <2>4, <3>1, <3>2, ToldHandled
      <4> QED
        BY <1>5, <2>1, <2>2, <3>1, <3>2, <4>1
    <3>3. CASE j # 1
      <4>1. Unread[1][1] \in Notices /\ j > 1
        BY <1>3, <3>1, <3>3 DEF OnlyNotices
      <4>2. wireless_state' = "PARING" /\ host_index' = radio.host
        BY <1>1, <2>4, <4>1, HandleFacts
      <4> QED
        BY <1>4, <2>1, <2>2, <3>1, <4>1, <4>2
    <3> QED
      BY <3>2, <3>3
  <2> QED
    BY <1>7, <2>1, <2>3, <2>4 DEF Settled
<1> QED
  BY <1>2, <1>6, <1>7 DEF Converges

-----------------------------------------------------------------------------
(* What the reports say of pin code entry.                                 *)

\* Handling the first report.
LEMMA PinTail ==
  ASSUME NEW s \in Seq(Event), s # << >>, NEW b \in BOOLEAN, NEW a \in BOOLEAN,
         NEW c \in BOOLEAN, PinEnd(s, b, a),
         s[1][1] \in PinEvents => (c <=> s[1][1] = "PINCODE_ENTRY"),
         s[1][1] \notin PinEvents => (c <=> b)
  PROVE  PinEnd(Tail(s), c, a)
<1> DEFINE t == Tail(s)
<1>1. t \in Seq(Event) /\ Len(s) \in Nat /\ Len(s) >= 1 /\ Len(t) = Len(s) - 1
  BY TailFacts
<1>2. DOMAIN s = 1 .. Len(s) /\ DOMAIN t = 1 .. Len(s) - 1
  BY <1>1
<1>3. \A i \in 1 .. Len(s) - 1 : t[i] = s[i + 1]
  OBVIOUS
<1> HIDE DEF t
<1>4. ASSUME \A i \in DOMAIN t : t[i][1] \notin PinEvents PROVE c <=> a
  <2>1. \A j \in DOMAIN s : j > 1 => s[j][1] \notin PinEvents
    <3> SUFFICES ASSUME NEW j \in 1 .. Len(s), j > 1 PROVE s[j][1] \notin PinEvents
      BY <1>2
    <3>1. j - 1 \in 1 .. Len(s) - 1 /\ (j - 1) + 1 = j
      BY <1>1
    <3> QED
      BY <1>2, <1>3, <1>4, <3>1
  <2>2. 1 \in DOMAIN s
    BY <1>1, <1>2
  <2>3. CASE s[1][1] \in PinEvents
    BY <2>1, <2>2, <2>3 DEF PinEnd
  <2>4. CASE s[1][1] \notin PinEvents
    <3>1. \A j \in DOMAIN s : s[j][1] \notin PinEvents
      <4> SUFFICES ASSUME NEW j \in 1 .. Len(s) PROVE s[j][1] \notin PinEvents
        BY <1>2
      <4>1. j = 1 \/ j > 1
        BY <1>1
      <4> QED
        BY <1>2, <2>1, <2>4, <4>1
    <3> QED
      BY <2>4, <3>1 DEF PinEnd
  <2> QED
    BY <2>3, <2>4
<1>5. ASSUME NEW i \in DOMAIN t, t[i][1] \in PinEvents,
             \A j \in DOMAIN t : j > i => t[j][1] \notin PinEvents
      PROVE  t[i][1] = "PINCODE_ENTRY" <=> a
  <2>1. i + 1 \in DOMAIN s /\ s[i + 1] = t[i] /\ i \in Nat
    BY <1>1, <1>2, <1>3
  <2>2. \A j \in DOMAIN s : j > i + 1 => s[j][1] \notin PinEvents
    <3> SUFFICES ASSUME NEW j \in 1 .. Len(s), j > i + 1 PROVE s[j][1] \notin PinEvents
      BY <1>2
    <3>1. j - 1 \in 1 .. Len(s) - 1 /\ (j - 1) + 1 = j /\ j - 1 > i
      BY <1>1, <2>1
    <3> QED
      BY <1>2, <1>3, <1>5, <3>1
  <2>3. s[i + 1][1] = "PINCODE_ENTRY" <=> a
    BY <1>5, <2>1, <2>2 DEF PinEnd
  <2> QED
    BY <2>1, <2>3
<1> QED
  BY <1>4, <1>5 DEF PinEnd, t

\* Reporting more.
LEMMA PinConcat ==
  ASSUME NEW s \in Seq(Event), NEW t \in Seq(Event), NEW b \in BOOLEAN, NEW a \in BOOLEAN,
         NEW c \in BOOLEAN, PinEnd(s, b, a), PinEnd(t, a, c)
  PROVE  PinEnd(s \o t, b, c)
<1> DEFINE u == s \o t
<1>1. /\ Len(s) \in Nat /\ Len(t) \in Nat /\ u \in Seq(Event) /\ Len(u) = Len(s) + Len(t)
      /\ DOMAIN s = 1 .. Len(s) /\ DOMAIN t = 1 .. Len(t)
      /\ DOMAIN u = 1 .. Len(s) + Len(t)
  OBVIOUS
<1>2. \A i \in 1 .. Len(s) : u[i] = s[i] /\ i \in 1 .. Len(s) + Len(t)
  BY <1>1
<1>3. \A i \in 1 .. Len(t) : u[Len(s) + i] = t[i] /\ Len(s) + i \in 1 .. Len(s) + Len(t)
  BY <1>1
<1> HIDE DEF u
<1>4. ASSUME \A i \in DOMAIN u : u[i][1] \notin PinEvents PROVE b <=> c
  <2>1. \A i \in DOMAIN s : s[i][1] \notin PinEvents
    BY <1>1, <1>2, <1>4
  <2>2. \A i \in DOMAIN t : t[i][1] \notin PinEvents
    BY <1>1, <1>3, <1>4
  <2> QED
    BY <2>1, <2>2 DEF PinEnd
<1>5. ASSUME NEW i \in DOMAIN u, u[i][1] \in PinEvents,
             \A j \in DOMAIN u : j > i => u[j][1] \notin PinEvents
      PROVE  u[i][1] = "PINCODE_ENTRY" <=> c
  <2>0. i \in 1 .. Len(s) + Len(t)
    BY <1>1
  <2>1. CASE i <= Len(s)
    <3>1. i \in DOMAIN s /\ u[i] = s[i]
      BY <1>1, <1>2, <2>0, <2>1
    <3>2. \A j \in DOMAIN s : j > i => s[j][1] \notin PinEvents
      BY <1>1, <1>2, <1>5
    <3>3. \A j \in DOMAIN t : t[j][1] \notin PinEvents
      <4> SUFFICES ASSUME NEW j \in 1 .. Len(t) PROVE t[j][1] \notin PinEvents
        BY <1>1
      <4>1. Len(s) + j > i
        BY <1>1, <2>0, <2>1
      <4> QED
        BY <1>1, <1>3, <1>5, <4>1
    <3>4. s[i][1] = "PINCODE_ENTRY" <=> a
      BY <1>5, <3>1, <3>2 DEF PinEnd
    <3>5. a <=> c
      BY <3>3 DEF PinEnd
    <3> QED
      BY <3>1, <3>4, <3>5
  <2>2. CASE i > Len(s)
    <3> DEFINE k == i - Len(s)
    <3>1. k \in 1 .. Len(t) /\ Len(s) + k = i
      BY <1>1, <2>0, <2>2
    <3>2. u[i] = t[k]
      BY <1>3, <3>1
    <3>3. \A j \in DOMAIN t : j > k => t[j][1] \notin PinEvents
      <4> SUFFICES ASSUME NEW j \in 1 .. Len(t), j > k PROVE t[j][1] \notin PinEvents
        BY <1>1
      <4>1. Len(s) + j > i
        BY <1>1, <2>0, <3>1
      <4> QED
        BY <1>1, <1>3, <1>5, <4>1
    <3> HIDE DEF k
    <3> QED
      BY <1>1, <1>5, <3>1, <3>2, <3>3 DEF PinEnd
  <2> QED
    BY <1>1, <2>0, <2>1, <2>2
<1> QED
  BY <1>4, <1>5 DEF PinEnd, u

\* What is reported last about pin code entry is all that counts.
LEMMA PinLast ==
  ASSUME NEW s \in Seq(Event), NEW t \in Seq(Event), NEW b, NEW a, NEW c,
         \E i \in DOMAIN t : t[i][1] \in PinEvents, PinEnd(t, a, c)
  PROVE  PinEnd(s \o t, b, c)
<1> DEFINE u == s \o t
<1>1. /\ Len(s) \in Nat /\ Len(t) \in Nat /\ u \in Seq(Event) /\ Len(u) = Len(s) + Len(t)
      /\ DOMAIN s = 1 .. Len(s) /\ DOMAIN t = 1 .. Len(t)
      /\ DOMAIN u = 1 .. Len(s) + Len(t)
  OBVIOUS
<1>2. \A i \in 1 .. Len(t) : u[Len(s) + i] = t[i] /\ Len(s) + i \in 1 .. Len(s) + Len(t)
  BY <1>1
<1> HIDE DEF u
<1>3. PICK p \in 1 .. Len(t) : t[p][1] \in PinEvents
  BY <1>1
<1>4. Len(s) + p \in DOMAIN u /\ u[Len(s) + p][1] \in PinEvents
  BY <1>1, <1>2, <1>3
<1>5. ASSUME NEW i \in DOMAIN u, u[i][1] \in PinEvents,
             \A j \in DOMAIN u : j > i => u[j][1] \notin PinEvents
      PROVE  u[i][1] = "PINCODE_ENTRY" <=> c
  <2>1. i \in 1 .. Len(s) + Len(t) /\ ~(Len(s) + p > i)
    BY <1>1, <1>4, <1>5
  <2> DEFINE k == i - Len(s)
  <2>2. k \in 1 .. Len(t) /\ Len(s) + k = i
    BY <1>1, <1>3, <2>1
  <2>3. u[i] = t[k]
    BY <1>2, <2>2
  <2>4. \A j \in DOMAIN t : j > k => t[j][1] \notin PinEvents
    <3> SUFFICES ASSUME NEW j \in 1 .. Len(t), j > k PROVE t[j][1] \notin PinEvents
      BY <1>1
    <3>1. Len(s) + j > i
      BY <1>1, <2>1, <2>2
    <3> QED
      BY <1>1, <1>2, <1>5, <3>1
  <2> HIDE DEF k
  <2> QED
    BY <1>1, <1>5, <2>2, <2>3, <2>4 DEF PinEnd
<1> QED
  BY <1>4, <1>5 DEF PinEnd, u

-----------------------------------------------------------------------------
(* What the module reports when it changes.                                *)

\* The last of the reports es leads to the new state of the module, or es is the
\* outcome of a pairing, or a notice.
Leading(es) ==
  \/ Tells(radio', es[Len(es)])
  \/ /\ cmds' = cmds /\ es = <<es[1]>> /\ TellsPaired(radio', es[1])
     /\ radio.link = "PARING" /\ radio'.host = radio.host
  \/ cmds' = cmds /\ es = <<es[1]>> /\ es[1][1] \in Notices /\ radio' = radio

\* They tell how pin code entry goes on, or it has ended unreported.
PinTold(es) ==
  \/ silent'
  \/ silent' = silent /\ PinEnd(es, radio.link = "PINCODE", radio'.link = "PINCODE")
  \/ /\ \E i \in DOMAIN es : es[i][1] \in PinEvents
     /\ PinEnd(es, FALSE, radio'.link = "PINCODE")

Reported(es) ==
  es \in Seq(Event) /\ es # << >> /\ out' = out \o es /\ Leading(es) /\ PinTold(es)

\* The link changes to one without pin code entry.
LEMMA TurnReport ==
  ASSUME TypeOK, NEW s \in Seq(Event), s # << >>,
         \A i \in DOMAIN s : s[i][1] \notin PinEvents,
         NEW l, l # "PINCODE", NEW h, Turns(l, h, s)
  PROVE  /\ radio' = [link |-> l, host |-> h]
         /\ \E es \in Seq(Event) :
              /\ es # << >> /\ out' = out \o es /\ es[Len(es)] = s[Len(s)] /\ PinTold(es)
              /\ radio.link # "PINCODE" => es = s
<1>0. radio.host \in AnyHost /\ Len(s) \in Nat /\ Len(s) >= 1
  BY DEF TypeOK
<1>1. radio' = [link |-> l, host |-> h] /\ radio'.link # "PINCODE"
  BY DEF Turns, Becomes
<1>2. CASE radio.link # "PINCODE" /\ Becomes(l, h, s) /\ UNCHANGED silent
  <2>1. PinEnd(s, radio.link = "PINCODE", radio'.link = "PINCODE")
    BY <1>1, <1>2 DEF PinEnd
  <2> QED
    BY <1>1, <1>2, <2>1 DEF PinTold, Becomes, Report
<1>3. CASE radio.link = "PINCODE" /\ silent' = TRUE /\ Becomes(l, h, s)
  BY <1>1, <1>3 DEF PinTold, Becomes, Report
<1>4. CASE /\ radio.link = "PINCODE"
           /\ Becomes(l, h, <<<<"EXIT_PINCODE_ENTRY", radio.host>>>> \o s)
  <2> DEFINE x == <<"EXIT_PINCODE_ENTRY", radio.host>>
             u == <<x>> \o s
  <2>1. x \in Event
    BY <1>0 DEF Event, EventTypes, PinEvents
  <2>2. /\ u \in Seq(Event) /\ Len(u) = Len(s) + 1 /\ u[1] = x
        /\ \A i \in 1 .. Len(s) : u[i + 1] = s[i]
    BY <1>0, <2>1
  <2>3. u # << >> /\ u[Len(u)] = s[Len(s)]
    BY <1>0, <2>2
  <2>4. \A i \in DOMAIN u : i = 1 \/ u[i][1] \notin PinEvents
    <3> SUFFICES ASSUME NEW i \in 1 .. Len(s) + 1, i # 1 PROVE u[i][1] \notin PinEvents
      BY <2>2
    <3>1. i - 1 \in 1 .. Len(s) /\ (i - 1) + 1 = i
      BY <1>0
    <3> QED
      BY <2>2, <3>1
  <2>5. x[1] = "EXIT_PINCODE_ENTRY" /\ x[1] \in PinEvents /\ 1 \in DOMAIN u
    BY <1>0, <2>2 DEF PinEvents
  <2>6. out' = out \o u
    BY <1>4 DEF Becomes, Report
  <2> HIDE DEF u, x
  <2>7. PinEnd(u, FALSE, radio'.link = "PINCODE")
    BY <1>1, <2>2, <2>4, <2>5 DEF PinEnd
  <2>8. PinTold(u)
    BY <2>2, <2>5, <2>7 DEF PinTold
  <2> QED
    BY <1>1, <1>4, <2>2, <2>3, <2>6, <2>8
<1> QED
  BY <1>2, <1>3, <1>4 DEF Turns

LEMMA SingleEvent ==
  ASSUME NEW t \in EventTypes, NEW k \in AnyHost
  PROVE  /\ <<t, k>> \in Event /\ <<<<t, k>>>> \in Seq(Event) /\ <<<<t, k>>>> # << >>
         /\ Len(<<<<t, k>>>>) = 1 /\ <<<<t, k>>>>[1] = <<t, k>>
         /\ DOMAIN <<<<t, k>>>> = {1} /\ <<t, k>>[1] = t
BY DEF Event

\* One report of the new state, after that of the end of pin code entry.
LEMMA OneReport ==
  ASSUME TypeOK, NEW t \in EventTypes \ PinEvents, NEW k \in AnyHost, NEW l,
         l # "PINCODE", Turns(l, k, <<<<t, k>>>>),
         Tells([link |-> l, host |-> k], <<t, k>>)
  PROVE  \E es : Reported(es)
<1> DEFINE s == <<<<t, k>>>>
<1>1. s \in Seq(Event) /\ s # << >> /\ Len(s) = 1 /\ s[1] = <<t, k>> /\ DOMAIN s = {1}
      /\ <<t, k>>[1] = t
  BY SingleEvent
<1>2. \A i \in DOMAIN s : s[i][1] \notin PinEvents
  BY <1>1
<1>3. Turns(l, k, s)
  OBVIOUS
<1> HIDE DEF s
<1>4. /\ radio' = [link |-> l, host |-> k]
      /\ \E es \in Seq(Event) :
           es # << >> /\ out' = out \o es /\ es[Len(es)] = s[Len(s)] /\ PinTold(es)
  BY <1>1, <1>2, <1>3, TurnReport
<1>5. Tells(radio', s[Len(s)])
  BY <1>1, <1>4
<1> QED
  BY <1>4, <1>5 DEF Reported, Leading

LEMMA ModuleStep ==
  ASSUME TypeOK, Obey \/ Move
  PROVE  /\ \E es : Reported(es)
         /\ UNCHANGED <<events, wireless_state, host_index, pincodeEntry, nkro_cut, unsaved,
                        eeprom_nkro, overrun, crowded>>
<1>1. radio.host \in AnyHost /\ bt_host \in AnyHost
  BY ConstantFacts DEF TypeOK
<1>2. UNCHANGED <<events, wireless_state, host_index, pincodeEntry, nkro_cut, unsaved,
                  eeprom_nkro, overrun, crowded>>
  BY DEF Obey, Move, modes, lost
<1>3. {"RESET", "SLEEP", "CONNECTED", "DISCOVERABLE", "RECONNECTING", "DISCONNECTED"}
        \subseteq EventTypes \ PinEvents
  BY DEF EventTypes, StateEvents, PinEvents
<1>4. \A k : /\ Tells([link |-> "CONNECTED", host |-> k], <<"CONNECTED", k>>)
             /\ Tells([link |-> "PARING", host |-> k], <<"DISCOVERABLE", k>>)
             /\ Tells([link |-> "RECONNECTING", host |-> k], <<"RECONNECTING", k>>)
             /\ Tells([link |-> "DISCONNECTED", host |-> k], <<"DISCONNECTED", k>>)
             /\ TellsPaired([link |-> "PINCODE", host |-> k], <<"PINCODE_ENTRY", k>>)
             /\ TellsPaired([link |-> "SUSPEND", host |-> k], <<"SLEEP", k>>)
  BY DEF Tells, TellsPaired
<1>5. CASE Obey
  <2>1. /\ cmds # << >> /\ cmds \in Seq(Command) /\ Head(cmds) \in Command
    BY <1>5 DEF Obey, TypeOK
  <2>2. Head(cmds)[2] \in AnyHost \cup {LastBt}
    BY <2>1 DEF Command
  <2>3. PICK h \in AnyHost : h = Target(Head(cmds)[2])
    BY <1>1, <2>2 DEF Target
  <2>4. \/ Turns("RECONNECTING", h, <<<<"RECONNECTING", h>>>>)
        \/ Turns("PARING", h, <<<<"DISCOVERABLE", h>>>>)
        \/ Turns("DISCONNECTED", radio.host, <<<<"DISCONNECTED", radio.host>>>>)
    BY <1>5, <2>3 DEF Obey
  <2>5. CASE Turns("RECONNECTING", h, <<<<"RECONNECTING", h>>>>)
    BY <1>2, <1>3, <1>4, <2>3, <2>5, OneReport
  <2>6. CASE Turns("PARING", h, <<<<"DISCOVERABLE", h>>>>)
    BY <1>2, <1>3, <1>4, <2>3, <2>6, OneReport
  <2>7. CASE Turns("DISCONNECTED", radio.host, <<<<"DISCONNECTED", radio.host>>>>)
    BY <1>1, <1>2, <1>3, <1>4, <2>7, OneReport
  <2> QED
    BY <2>4, <2>5, <2>6, <2>7
<1>6. CASE Move /\ Notify
  <2>1. cmds' = cmds /\ radio' = radio /\ silent' = silent
    BY <1>6 DEF Move, Notify
  <2>2. PICK t \in Notices : out' = out \o <<<<t, radio.host>>>>
    BY <1>6 DEF Notify, Report
  <2> DEFINE e == <<t, radio.host>>
             es == <<e>>
  <2>3. t \in EventTypes /\ t \notin PinEvents
    BY DEF EventTypes, Notices, PinEvents
  <2>4. es \in Seq(Event) /\ es # << >> /\ es[1] = e /\ DOMAIN es = {1} /\ e[1] = t
    BY <1>1, <2>3, SingleEvent
  <2>5. out' = out \o es /\ es = <<es[1]>>
    BY <2>2
  <2> HIDE DEF es, e
  <2>6. PinEnd(es, radio.link = "PINCODE", radio'.link = "PINCODE")
    BY <2>1, <2>3, <2>4 DEF PinEnd
  <2>7. Reported(es)
    BY <2>1, <2>4, <2>5, <2>6 DEF Reported, Leading, PinTold
  <2> QED
    BY <1>2, <2>7
<1>7. CASE Move /\ Drift
  <2>0. PICK h \in AnyHost : h = radio.host
    BY <1>1
  <2>1. cmds' = cmds
    BY <1>7 DEF Move
  <2>2. \/ Turns("CONNECTED", h, <<<<"CONNECTED", h>>>>)
        \/ Turns("DISCONNECTED", h, <<<<"DISCONNECTED", h>>>>)
        \/ radio.link = "PARING" /\ Turns("SUSPEND", h, <<<<"SLEEP", h>>>>)
        \/ radio.link = "PARING" /\ Becomes("PINCODE", h, <<<<"PINCODE_ENTRY", h>>>>)
        \/ Turns("DISCONNECTED", h, <<<<"RESET", h>>, <<"DISCONNECTED", h>>>>)
    BY <1>7, <2>0 DEF Drift
  <2>3. CASE Turns("CONNECTED", h, <<<<"CONNECTED", h>>>>)
    BY <1>2, <1>3, <1>4, <2>0, <2>3, OneReport
  <2>4. CASE Turns("DISCONNECTED", h, <<<<"DISCONNECTED", h>>>>)
    BY <1>2, <1>3, <1>4, <2>0, <2>4, OneReport
  <2>5. CASE radio.link = "PARING" /\ Turns("SUSPEND", h, <<<<"SLEEP", h>>>>)
    <3> DEFINE s == <<<<"SLEEP", h>>>>
    <3>1. /\ s \in Seq(Event) /\ s # << >> /\ Len(s) = 1 /\ s[1] = <<"SLEEP", h>>
          /\ DOMAIN s = {1} /\ s = <<s[1]>> /\ s[1][1] = "SLEEP"
      BY <1>3, <2>0, SingleEvent
    <3>2. Turns("SUSPEND", h, s)
      BY <2>5
    <3> HIDE DEF s
    <3>3. \A i \in DOMAIN s : s[i][1] \notin PinEvents
      BY <1>3, <3>1
    <3>4. radio' = [link |-> "SUSPEND", host |-> h] /\ out' = out \o s /\ PinTold(s)
      BY <2>5, <3>1, <3>2, <3>3, TurnReport
    <3>5. TellsPaired(radio', s[1]) /\ radio'.host = radio.host
      BY <1>4, <2>0, <3>1, <3>4
    <3>6. Reported(s)
      BY <2>1, <2>5, <3>1, <3>4, <3>5 DEF Reported, Leading
    <3> QED
      BY <1>2, <3>6
  <2>6. CASE radio.link = "PARING" /\ Becomes("PINCODE", h, <<<<"PINCODE_ENTRY", h>>>>)
    <3> DEFINE s == <<<<"PINCODE_ENTRY", h>>>>
    <3>1. "PINCODE_ENTRY" \in EventTypes /\ "PINCODE_ENTRY" \in PinEvents
      BY DEF EventTypes, PinEvents
    <3>2. /\ s \in Seq(Event) /\ s # << >> /\ Len(s) = 1 /\ s[1] = <<"PINCODE_ENTRY", h>>
          /\ DOMAIN s = {1} /\ s = <<s[1]>> /\ s[1][1] = "PINCODE_ENTRY"
      BY <2>0, <3>1, SingleEvent
    <3>3. radio' = [link |-> "PINCODE", host |-> h] /\ out' = out \o s
      BY <2>6 DEF Becomes, Report
    <3> HIDE DEF s
    <3>4. TellsPaired(radio', s[1]) /\ radio'.host = radio.host /\ radio'.link = "PINCODE"
      BY <1>4, <2>0, <3>2, <3>3
    <3>5. PinEnd(s, FALSE, radio'.link = "PINCODE")
      BY <3>1, <3>2, <3>4 DEF PinEnd
    <3>6. PinTold(s)
      BY <3>1, <3>2, <3>5 DEF PinTold
    <3>7. Reported(s)
      BY <2>1, <2>6, <3>2, <3>3, <3>4, <3>6 DEF Reported, Leading
    <3> QED
      BY <1>2, <3>7
  <2>7. CASE Turns("DISCONNECTED", h, <<<<"RESET", h>>, <<"DISCONNECTED", h>>>>)
    <3> DEFINE s == <<<<"RESET", h>>, <<"DISCONNECTED", h>>>>
    <3>1. <<"RESET", h>> \in Event /\ <<"DISCONNECTED", h>> \in Event
      BY <1>3, <2>0, SingleEvent
    <3>2. /\ s \in Seq(Event) /\ s # << >> /\ DOMAIN s = {1, 2} /\ Len(s) = 2
          /\ s[1] = <<"RESET", h>> /\ s[2] = <<"DISCONNECTED", h>>
          /\ s[1][1] = "RESET" /\ s[2][1] = "DISCONNECTED"
      BY <3>1
    <3>3. Turns("DISCONNECTED", h, s)
      BY <2>7
    <3> HIDE DEF s
    <3>4. \A i \in DOMAIN s : s[i][1] \notin PinEvents
      BY <1>3, <3>2
    <3>5. /\ radio' = [link |-> "DISCONNECTED", host |-> h]
          /\ \E es \in Seq(Event) :
               es # << >> /\ out' = out \o es /\ es[Len(es)] = s[Len(s)] /\ PinTold(es)
      BY <3>2, <3>3, <3>4, TurnReport
    <3>6. Tells(radio', s[Len(s)])
      BY <1>4, <3>2, <3>5
    <3>7. \E es : Reported(es)
      BY <3>5, <3>6 DEF Reported, Leading
    <3> QED
      BY <1>2, <3>7
  <2> QED
    BY <2>2, <2>3, <2>4, <2>5, <2>6, <2>7
<1> QED
  BY <1>5, <1>6, <1>7 DEF Move

\* What the module reports is behind all that is unread.
LEMMA ReportSeq ==
  ASSUME TypeOK, Obey \/ Move, NEW es, Reported(es)
  PROVE  Unread' = Unread \o es /\ es \in Seq(Event) /\ Unread \in Seq(Event)
<1>1. /\ es \in Seq(Event) /\ events \in Seq(Event) /\ out \in Seq(Event)
      /\ out' = out \o es /\ events' = events
  BY ModuleStep DEF Reported, TypeOK
<1> QED
  BY <1>1, ConcatAssociative DEF Unread

LEMMA ReportConverges ==
  ASSUME TypeOK, Converges, Obey \/ Move
  PROVE  Converges'
<1> SUFFICES ASSUME cmds' = << >>
             PROVE  \/ Leads(radio', Unread')
                    \/ NoState(Unread') /\ (crowded' \/ Settled')
  BY DEF Converges
<1>1. PICK es : Reported(es)
  BY ModuleStep
<1>2. UNCHANGED <<wireless_state, host_index, crowded>>
  BY ModuleStep
<1>3. Unread' = Unread \o es /\ es \in Seq(Event) /\ es # << >> /\ Unread \in Seq(Event)
  BY <1>1, ReportSeq DEF Reported
<1>4. CASE Tells(radio', es[Len(es)])
  <2>1. /\ Len(es) \in Nat /\ Len(es) >= 1 /\ Len(Unread) \in Nat
        /\ Unread' \in Seq(Event) /\ Len(Unread') = Len(Unread) + Len(es)
    BY <1>3
  <2>2. Len(Unread') \in 1 .. Len(Unread') /\ Unread'[Len(Unread')] = es[Len(es)]
    BY <1>3, <2>1
  <2>3. OnlyNotices(Unread', Len(Unread'), Len(Unread'))
    BY <2>1 DEF OnlyNotices
  <2> QED
    BY <1>4, <2>2, <2>3 DEF Leads, LeadsAt
<1>5. CASE es = <<es[1]>> /\ cmds' = cmds /\ ~Tells(radio', es[Len(es)])
  <2> DEFINE e == es[1]
  <2>0. Len(es) >= 1 /\ e \in Event
    BY <1>3
  <2>1. e \in Event /\ Unread' = Unread \o <<e>>
    BY <1>3, <1>5, <2>0
  <2> HIDE DEF e
  <2>2. /\ Len(Unread) \in Nat /\ Len(Unread') = Len(Unread) + 1
        /\ \A i \in 1 .. Len(Unread) : Unread'[i] = Unread[i]
        /\ Unread'[Len(Unread) + 1] = e
        /\ Len(Unread) + 1 \in 1 .. Len(Unread')
    BY <1>3, <2>1, AppendFacts
  <2>3. \/ Leads(radio, Unread)
        \/ NoState(Unread) /\ (crowded \/ Settled)
    BY <1>5 DEF Converges
  <2>4. CASE e[1] \in Notices /\ radio' = radio
    <3>1. e[1] \notin StateEvents
      BY <2>4 DEF Notices, StateEvents
    <3>2. CASE Leads(radio, Unread)
      BY <1>3, <2>1, <2>4, <3>2, LeadsNotice
    <3>3. CASE NoState(Unread) /\ crowded
      BY <1>2, <1>3, <2>1, <3>1, <3>3, NoStateAppend
    <3>4. CASE NoState(Unread) /\ Settled
      <4>1. NoState(Unread')
        BY <1>3, <2>1, <3>1, <3>4, NoStateAppend
      <4>2. \A j \in Nat : OnlyNotices(Unread, 0, j) => OnlyNotices(Unread', 0, j)
        BY <1>3, <2>1, <2>4, NoticesAppend
      <4>3. Agree => Agree'
        BY <1>2, <2>4 DEF Agree
      <4>4. \A j \in 1 .. Len(Unread) : j \in Nat /\ j \in 1 .. Len(Unread')
        BY <2>2
      <4>5. Settled'
        BY <1>2, <2>2, <2>4, <3>4, <4>2, <4>3, <4>4 DEF Settled
      <4> QED
        BY <4>1, <4>5
    <3> QED
      BY <2>3, <3>2, <3>3, <3>4
  <2>5. CASE /\ TellsPaired(radio', e) /\ radio.link = "PARING"
             /\ radio'.host = radio.host
    <3>1. e[1] \notin StateEvents
      BY <2>5, PairedNoState
    <3>2. \A x : ~TellsPaired(radio, x)
      BY <2>5 DEF TellsPaired
    <3> DEFINE n == Len(Unread) + 1
    <3>3. CASE Leads(radio, Unread)
      <4>1. PICK i \in 1 .. Len(Unread) : LeadsAt(radio, Unread, i)
        BY <3>3 DEF Leads
      <4>2. Tells(radio, Unread[i]) /\ OnlyNotices(Unread, i, i) /\ i \in Nat /\ i <= i
        BY <3>2, <4>1 DEF LeadsAt
      <4>3. Unread[i] = <<"DISCOVERABLE", radio.host>>
        BY <2>5, <4>2 DEF Tells
      <4>4. OnlyNotices(Unread', i, n)
        BY <1>3, <2>1, <4>2, NoticesAppend
      <4>5. n \in 1 .. Len(Unread') /\ n > i /\ i \in 1 .. Len(Unread')
        BY <2>2
      <4> HIDE DEF n
      <4>6. Unread'[n] = e /\ Unread'[i] = <<"DISCOVERABLE", radio'.host>>
        BY <2>2, <2>5, <4>3 DEF n
      <4> QED
        BY <2>5, <4>4, <4>5, <4>6 DEF Leads, LeadsAt
    <3>4. CASE NoState(Unread) /\ crowded
      BY <1>2, <1>3, <2>1, <3>1, <3>4, NoStateAppend
    <3>5. CASE NoState(Unread) /\ Settled
      <4>1. NoState(Unread')
        BY <1>3, <2>1, <3>1, <3>5, NoStateAppend
      <4>2. Agree /\ OnlyNotices(Unread, 0, 0)
        BY <3>2, <3>5 DEF Settled
      <4>3. OnlyNotices(Unread', 0, n)
        BY <1>3, <2>1, <4>2, NoticesAppend
      <4>4. wireless_state = "PARING" /\ host_index = radio.host
        BY <2>5, <4>2 DEF Agree
      <4>5. Settled'
        BY <1>2, <2>2, <2>5, <4>3, <4>4 DEF Settled
      <4> QED
        BY <4>1, <4>5
    <3> QED
      BY <2>3, <3>3, <3>4, <3>5
  <2> QED
    BY <1>1, <1>5, <2>4, <2>5 DEF Reported, Leading, e
<1> QED
  BY <1>1, <1>4, <1>5 DEF Reported, Leading

-----------------------------------------------------------------------------
(* Pin code entry.                                                         *)

\* What the handler of a report does to the pin code flag and to NKRO.
LEMMA HandlePin ==
  ASSUME TypeOK, NEW e, Handle(e), nkro_cut /\ ~unsaved => pincodeEntry /\ eeprom_nkro,
         eeprom_nkro' = eeprom_nkro
  PROVE  /\ e[1] \in PinEvents => (pincodeEntry' <=> e[1] = "PINCODE_ENTRY")
         /\ e[1] \notin PinEvents => pincodeEntry' = pincodeEntry
         /\ nkro_cut' /\ ~unsaved' => pincodeEntry' /\ eeprom_nkro'
<1>1. CASE e[1] = "PINCODE_ENTRY"
  <2>1. /\ pincodeEntry' = TRUE /\ nkro_cut' = (nkro \/ nkro_cut)
        /\ unsaved' = IF nkro THEN ~eeprom_nkro ELSE unsaved
    BY <1>1 DEF Handle, PinEvents, wireless_enter_bluetooth_pin_code_entry
  <2> QED
    BY <1>1, <2>1 DEF PinEvents, TypeOK
<1>2. CASE e[1] = "EXIT_PINCODE_ENTRY"
  <2>1. /\ pincodeEntry' = FALSE /\ nkro_cut' = (nkro_cut /\ ~eeprom_nkro)
        /\ unsaved' = unsaved
    BY <1>2 DEF Handle, PinEvents, wireless_exit_bluetooth_pin_code_entry
  <2> QED
    BY <1>2, <2>1 DEF PinEvents, TypeOK
<1>3. CASE e[1] \notin PinEvents
  BY <1>3 DEF Handle, PinEvents
<1> QED
  BY <1>1, <1>2, <1>3 DEF PinEvents

LEMMA PincodeStep ==
  ASSUME TypeOK, TypeOK', PincodeConverges, [Next]_vars
  PROVE  PincodeConverges'
<1>1. /\ Unread \in Seq(Event)
      /\ pincodeEntry \in BOOLEAN /\ pincodeEntry' \in BOOLEAN
      /\ nkro_cut /\ ~unsaved => pincodeEntry /\ eeprom_nkro
  BY UnreadType DEF TypeOK, PincodeConverges
<1> DEFINE Asked == radio.link = "PINCODE"
<1>2. Asked \in BOOLEAN /\ Asked' \in BOOLEAN
  OBVIOUS
<1>3. CASE Still
  <2>1. /\ Unread' = Unread /\ UNCHANGED <<radio, pincodeEntry, silent>>
        /\ overrun => overrun'
        /\ nkro_cut' /\ ~unsaved' => nkro_cut /\ ~unsaved /\ eeprom_nkro' = eeprom_nkro
    BY <1>3 DEF Still
  <2>2. nkro_cut' /\ ~unsaved' => pincodeEntry' /\ eeprom_nkro'
    BY <1>1, <2>1
  <2>3. ~overrun' /\ ~silent' => PinEnd(Unread, pincodeEntry, radio.link = "PINCODE")
    BY <2>1 DEF PincodeConverges
  <2>4. ~overrun' /\ ~silent' => PinEnd(Unread', pincodeEntry', radio'.link = "PINCODE")
    BY <2>1, <2>3
  <2> QED
    BY <2>2, <2>4 DEF PincodeConverges
<1>4. CASE Forgets
  <2>1. /\ Unread # << >> /\ Unread' = Tail(Unread)
        /\ UNCHANGED <<radio, pincodeEntry, silent, nkro_cut, unsaved, eeprom_nkro>>
        /\ overrun' = (overrun \/ Unread[1][1] \in PinEvents)
    BY <1>4 DEF Forgets
  <2>2. ASSUME ~overrun', ~silent'
        PROVE  PinEnd(Unread', pincodeEntry', radio'.link = "PINCODE")
    <3>1. PinEnd(Unread, pincodeEntry, Asked) /\ Unread[1][1] \notin PinEvents
      BY <2>1, <2>2 DEF PincodeConverges
    <3> HIDE DEF Asked
    <3>2. PinEnd(Tail(Unread), pincodeEntry, Asked)
      BY <1>1, <1>2, <2>1, <3>1, PinTail
    <3> QED
      BY <2>1, <3>2 DEF Asked
  <2> QED
    BY <1>1, <2>1, <2>2 DEF PincodeConverges
<1>5. CASE Handles
  <2>1. /\ Unread # << >> /\ Handle(Unread[1]) /\ Unread' = Tail(Unread)
        /\ UNCHANGED <<radio, overrun, silent, eeprom_nkro>>
    BY <1>5 DEF Handles
  <2>2. /\ Unread[1][1] \in PinEvents =>
             (pincodeEntry' <=> Unread[1][1] = "PINCODE_ENTRY")
        /\ Unread[1][1] \notin PinEvents => (pincodeEntry' <=> pincodeEntry)
        /\ nkro_cut' /\ ~unsaved' => pincodeEntry' /\ eeprom_nkro'
    BY <1>1, <2>1, HandlePin
  <2>3. ASSUME ~overrun', ~silent'
        PROVE  PinEnd(Unread', pincodeEntry', radio'.link = "PINCODE")
    <3>1. PinEnd(Unread, pincodeEntry, Asked)
      BY <2>1, <2>3 DEF PincodeConverges
    <3> HIDE DEF Asked
    <3>2. PinEnd(Tail(Unread), pincodeEntry', Asked)
      BY <1>1, <1>2, <2>1, <2>2, <3>1, PinTail
    <3> QED
      BY <2>1, <3>2 DEF Asked
  <2> QED
    BY <2>2, <2>3 DEF PincodeConverges
<1>6. CASE Obey \/ Move
  <2>1. PICK es : Reported(es)
    BY <1>6, ModuleStep
  <2>2. UNCHANGED <<pincodeEntry, nkro_cut, unsaved, eeprom_nkro, overrun>>
    BY <1>6, ModuleStep
  <2>3. Unread' = Unread \o es /\ es \in Seq(Event)
    BY <1>6, <2>1, ReportSeq
  <2>4. ASSUME ~overrun', ~silent'
        PROVE  PinEnd(Unread \o es, pincodeEntry, radio'.link = "PINCODE")
    <3>1. CASE /\ silent' = silent
               /\ PinEnd(es, radio.link = "PINCODE", radio'.link = "PINCODE")
      <4>1. PinEnd(Unread, pincodeEntry, Asked) /\ PinEnd(es, Asked, Asked')
        BY <2>2, <2>4, <3>1 DEF PincodeConverges
      <4> HIDE DEF Asked
      <4>2. PinEnd(Unread \o es, pincodeEntry, Asked')
        BY <1>1, <1>2, <2>3, <4>1, PinConcat
      <4> QED
        BY <4>2 DEF Asked
    <3>2. CASE /\ \E i \in DOMAIN es : es[i][1] \in PinEvents
               /\ PinEnd(es, FALSE, radio'.link = "PINCODE")
      BY <1>1, <2>3, <3>2, PinLast
    <3> QED
      BY <2>1, <2>4, <3>1, <3>2 DEF Reported, PinTold
  <2> QED
    BY <1>1, <2>2, <2>3, <2>4 DEF PincodeConverges
<1> QED
  BY <1>3, <1>4, <1>5, <1>6, StepKinds

-----------------------------------------------------------------------------
(* The invariant and what follows from it.                                 *)

LEMMA LinkInit == Init => LinkInv
<1> SUFFICES ASSUME Init PROVE LinkInv
  OBVIOUS
<1>1. TypeOK
  BY TypeInit
<1>2. Unread = <<<<"DISCONNECTED", bt_host>>>>
  BY DEF Init, Unread
<1>3. /\ Len(Unread) = 1 /\ Unread[1] = <<"DISCONNECTED", bt_host>>
      /\ DOMAIN Unread = {1} /\ radio = [link |-> "DISCONNECTED", host |-> bt_host]
  BY <1>2 DEF Init
<1>4. Tells(radio, Unread[1])
  BY <1>3 DEF Tells
<1>5. OnlyNotices(Unread, 1, 1) /\ 1 \in 1 .. Len(Unread)
  BY <1>3 DEF OnlyNotices
<1>6. Converges
  BY <1>4, <1>5 DEF Converges, Leads, LeadsAt
<1>7. PinEnd(Unread, pincodeEntry, radio.link = "PINCODE")
  BY <1>3 DEF PinEnd, PinEvents, Init
<1>8. PincodeConverges
  BY <1>7 DEF PincodeConverges, Init
<1> QED
  BY <1>1, <1>6, <1>8 DEF LinkInv

LEMMA LinkStep == LinkInv /\ [Next]_vars => LinkInv'
<1> SUFFICES ASSUME TypeOK, Converges, PincodeConverges, [Next]_vars PROVE LinkInv'
  BY DEF LinkInv
<1>1. TypeOK'
  BY TypeStep
<1>2. Converges'
  BY StepKinds, StillConverges, ForgetConverges, HandleConverges, ReportConverges
<1>3. PincodeConverges'
  BY <1>1, PincodeStep
<1> QED
  BY <1>1, <1>2, <1>3 DEF LinkInv

\* Every variable keeps its type and the event queue stays within its ring; with no
\* command on its way to the module, what is unread leads the keyboard to the state of
\* the module, or LED and interval reports have driven the last state out of the
\* queue; and the last unread report about pin code entry tells whether the module
\* asks for one, unless the queue forgot it or the module kept it to itself.
THEOREM LinkInductive == Spec => []LinkInv
BY LinkInit, LinkStep, PTL DEF Spec

\* When every command is obeyed and every report handled, the wireless state the
\* senders test is that of the module, and so is the host, however the keyboard ran
\* ahead of the module: an overflow of the event queue loses none that matters, unless
\* LED or interval reports were in it and the module has told no state since.
THEOREM StateInSync == Spec => []InSync
<1>1. LinkInv => InSync
  <2> SUFFICES ASSUME Converges, Quiet, ~crowded PROVE Agree
    BY DEF LinkInv, InSync
  <2>1. Unread = << >> /\ cmds = << >> /\ Len(Unread) = 0
    BY DEF Quiet, Unread
  <2>2. 1 .. Len(Unread) = {}
    BY <2>1
  <2> QED
    BY <2>1, <2>2 DEF Converges, Leads, Settled
<1> QED
  BY <1>1, LinkInductive, PTL

\* If the module reported the end of the last pin code entry and the queue never forgot
\* a report about it, pin code entry leaves nothing behind: the flag is that of the
\* module, and NKRO, if the EEPROM held it as on and no transport switch came between,
\* is on again once no pin code is asked for.
THEOREM PincodeLeavesNothing == Spec => []PincodeInSync
<1>1. LinkInv => PincodeInSync
  <2> SUFFICES ASSUME TypeOK, PincodeConverges, Quiet, ~overrun, ~silent
               PROVE  /\ pincodeEntry <=> radio.link = "PINCODE"
                      /\ radio.link # "PINCODE" => ~nkro_cut \/ unsaved
    BY DEF LinkInv, PincodeInSync
  <2>1. Unread = << >> /\ DOMAIN Unread = {}
    BY DEF Quiet, Unread
  <2>2. pincodeEntry <=> radio.link = "PINCODE"
    BY <2>1 DEF PincodeConverges, PinEnd
  <2> QED
    BY <2>2 DEF PincodeConverges
<1> QED
  BY <1>1, LinkInductive, PTL
=============================================================================
