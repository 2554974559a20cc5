---------------------------- MODULE QMKataStream ----------------------------
(***************************************************************************)
(* The outgoing streams of QMKata (QMKata.cpp): console characters gather   *)
(* in one BufferStream, are turned into a sysex string, and together with   *)
(* the responses of the sysex handler pass through a second BufferStream    *)
(* that is cut into the fixed-size packets of raw HID.                      *)
(*                                                                          *)
(* A byte is a pair of its role and a value: a data byte of a message       *)
(* travels as two 7-bit bytes, "lo" and "hi".  Characters are numbered in   *)
(* the order they are printed, so that their order can be told apart.       *)
(* None of them is 0: sendString takes the buffer as a C string, and a      *)
(* printed NUL would end it (QMKata.cpp:273-274).                           *)
(***************************************************************************)
EXTENDS Integers, Sequences, SequencesExt

CONSTANTS TxSize,        \* 512: buffer of the raw HID stream
          ConsoleSize,   \* 239: buffer of the console stream
          Packet,        \* RAW_EPSIZE_QMKATA - 1: what a packet carries behind its header
          Responses,     \* numbers of data bytes in a response
          FlushAfter,    \* 100 ms
          TimerMod,      \* 2^16: timer_elapsed
          MaxChars,      \* bound: characters printed
          MaxMessages    \* bound: messages sent, console strings apart

ASSUME QMKataAssumption ==
  /\ TxSize \in Nat \ {0} /\ ConsoleSize \in Nat \ {0} /\ Packet \in Nat \ {0}
  /\ Responses \subseteq Nat /\ FlushAfter \in Nat /\ TimerMod > FlushAfter + 1
  /\ MaxChars \in Nat /\ MaxMessages \in Nat

VARIABLES started,     \* _started: the host has sent its first message
          console,     \* s_console_stream: buffer, _tx_flush and time since its last flush
          tx,          \* s_rawhid_stream: buffer
          wire,        \* the packets raw_hid_send was given
          ran,         \* qmkata_task has run in this unit of the clock
          printed,     \* history: characters printed
          first,       \* history: the first character the buffer held at the start
          log          \* history: the messages sent, each its kind and its data

vars == <<started, console, tx, wire, ran, printed, first, log>>

Start == <<"start", 0>>
End   == <<"end", 0>>
Zero  == <<"zero", 0>>   \* the padding of a packet

-----------------------------------------------------------------------------
(***************************************************************************)
(* BufferStream: the tail is always 0, so a buffer is the bytes before its  *)
(* head, and _tx_written says that there are some.                          *)
(***************************************************************************)

\* FirmataMarshaller.sendSysex, sendVersion.
Encoded(d) == FlattenSeq([i \in DOMAIN d |-> <<<<"lo", d[i]>>, <<"hi", d[i]>>>>])
Bytes(m) ==
  IF m.kind = "version" THEN <<<<"version", 0>>, <<"lo", 0>>, <<"lo", 0>>>>
  ELSE <<Start, <<m.kind, 0>>>> \o Encoded(m.data) \o <<End>>

\* Mutant: the next packet starts behind the byte its header would overwrite.
SendSkips(data) ==
  [p \in 1 .. (Len(data) + Packet) \div (Packet + 1) |->
     [i \in 1 .. Packet |-> IF (p - 1) * (Packet + 1) + i <= Len(data)
                            THEN data[(p - 1) * (Packet + 1) + i] ELSE Zero]]
\* The packets of a buffer; the header of a packet overwrites the last byte of
\* the one before, which has been sent.  The last packet is filled with zeros.
_rawhid_send_data(data) ==
  [p \in 1 .. (Len(data) + Packet - 1) \div Packet |->
     [i \in 1 .. Packet |-> IF (p - 1) * Packet + i <= Len(data)
                            THEN data[(p - 1) * Packet + i] ELSE Zero]]

\* The raw HID stream: its buffer and what it has sent.
flush(s) == [buf |-> <<>>, out |-> s.out \o _rawhid_send_data(s.buf)]

\* write for one byte after the other: the byte that fills the buffer flushes it,
\* in the middle of a message too.
write(s, bytes) ==
  LET all  == s.buf \o bytes
      full == Len(all) \div TxSize
  IN [buf |-> SubSeq(all, full * TxSize + 1, Len(all)),
      out |-> s.out \o FlattenSeq([k \in 1 .. full |->
                _rawhid_send_data(SubSeq(all, (k - 1) * TxSize + 1, k * TxSize))])]

\* Send a list of messages, one after the other.
Rawhid == [buf |-> tx, out |-> wire]
SendAll(s, ms) == write(s, FlattenSeq([i \in DOMAIN ms |-> Bytes(ms[i])]))
Becomes(s) == tx' = s.buf /\ wire' = s.out

\* Mutant: the string ends before the last character of the buffer.
ConsoleCuts(chars) ==
  IF started /\ chars # <<>> THEN <<[kind |-> "string", data |-> Front(chars)]>> ELSE <<>>
\* What a flush of the console sends: nothing before the start.
_send_console_string(chars) ==
  IF started /\ chars # <<>> THEN <<[kind |-> "string", data |-> chars]>> ELSE <<>>

Flushed == [chars |-> <<>>, flush |-> FALSE, age |-> 0]

-----------------------------------------------------------------------------
Init ==
  /\ started = FALSE
  /\ console = Flushed
  /\ tx = <<>> /\ wire = <<>>
  /\ ran = FALSE
  /\ printed = 0 /\ first = 1 /\ log = <<>>

Room(ms) == Len(SelectSeq(log, LAMBDA m : m.kind # "string")) + Len(ms) <= MaxMessages

\* A character is printed; a full console buffer is flushed at once, half a
\* buffer asks for a flush.
sendchar ==
  /\ printed < MaxChars
  /\ printed' = printed + 1
  /\ LET chars == Append(console.chars, printed + 1)
         full  == Len(chars) = ConsoleSize
         ms    == IF full THEN _send_console_string(chars) ELSE <<>>
     IN /\ console' = IF full THEN Flushed
                      ELSE [console EXCEPT !.chars = chars,
                              !.flush = @ \/ Len(chars) >= ConsoleSize \div 2]
        /\ Becomes(SendAll(Rawhid, ms))
        /\ log' = log \o ms
  /\ UNCHANGED <<started, ran, first>>

\* The data of the firmware message stands for its version and its name.
Version == <<[kind |-> "version", data |-> <<>>], [kind |-> "firmware", data |-> <<0>>]>>
Response(n) == <<[kind |-> "response", data |-> [i \in 1 .. n |-> 0]]>>

\* A message of the host: the first one starts the stream, which sends the
\* version; then the version is asked for, or the handler answers or not.
qmkata_recv_data ==
  /\ \E answer \in {<<>>, Version} \cup {Response(n) : n \in Responses} :
       LET ms == (IF started THEN <<>> ELSE Version) \o answer
       IN /\ Room(ms)
          /\ Becomes(SendAll(Rawhid, ms))
          /\ log' = log \o ms
  /\ started' = TRUE
  /\ first' = IF started THEN first ELSE printed - Len(console.chars) + 1
  /\ UNCHANGED <<console, ran, printed>>

\* What the keyboard publishes by itself (key events).
qmkata_send_sysex ==
  /\ started
  /\ \E n \in Responses :
       /\ Room(Response(n))
       /\ Becomes(SendAll(Rawhid, Response(n)))
       /\ log' = log \o Response(n)
  /\ UNCHANGED <<started, console, ran, printed, first>>

\* Mutant: only half a buffer asks for a flush.
NeedHalf == console.flush
need_flush == console.flush \/ (console.chars # <<>> /\ console.age > FlushAfter)

\* The raw HID stream is flushed in every pass, and once more behind the
\* console.
qmkata_task ==
  /\ started
  /\ LET ms    == IF need_flush THEN _send_console_string(console.chars) ELSE <<>>
         once  == flush(Rawhid)
         last  == flush(SendAll(once, ms))
     IN /\ console' = IF need_flush THEN Flushed ELSE console
        /\ Becomes(IF need_flush THEN last ELSE once)
        /\ log' = log \o ms
  /\ ran' = TRUE
  /\ UNCHANGED <<started, printed, first>>

\* The clock; the main loop, and with it the task, runs in every unit of it.
Clock ==
  /\ ran \/ ~started
  /\ console' = [console EXCEPT !.age = (@ + 1) % TimerMod]
  /\ ran' = FALSE
  /\ UNCHANGED <<started, tx, wire, printed, first, log>>

Next == sendchar \/ qmkata_recv_data \/ qmkata_send_sysex \/ qmkata_task \/ Clock

Spec == Init /\ [][Next]_vars

\* The main loop keeps calling the task and the system timer keeps counting.
FairSpec == Spec /\ WF_vars(qmkata_task) /\ WF_vars(Clock)

-----------------------------------------------------------------------------
OnWire == FlattenSeq(wire)
Sent   == SelectSeq(OnWire, LAMBDA b : b # Zero)

\* Characters in the messages sent so far.
Strings == FlattenSeq([m \in DOMAIN log |-> IF log[m].kind = "string" THEN log[m].data
                                                                      ELSE <<>>])

\* Neither buffer is ever left full: write would store behind its end.
TypeOK ==
  /\ started \in BOOLEAN /\ ran \in BOOLEAN
  /\ Len(tx) < TxSize
  /\ Len(console.chars) < ConsoleSize
  /\ console.flush \in BOOLEAN /\ console.age \in 0 .. TimerMod - 1
  /\ \A p \in DOMAIN wire : Len(wire[p]) = Packet
  /\ printed \in 0 .. MaxChars

\* The packets of _rawhid_send_data carry every byte of every message once and
\* in order, across packets, full buffers and flushes of the task.
StreamInOrder == Sent \o tx = FlattenSeq([m \in DOMAIN log |-> Bytes(log[m])])

\* The host sees the console without a gap: from the first character the buffer
\* held when the stream was started, the strings of the log and the buffer hold
\* every character, in order; no character is a NUL.
ConsoleWithoutGap ==
  started => Strings \o console.chars = [i \in 1 .. printed - first + 1 |-> first + i - 1]

\* What is printed while the stream runs does not wait for a second half of a
\* buffer: again and again the task leaves both buffers empty, and by
\* ConsoleWithoutGap and StreamInOrder the host then has every character.
ConsoleReachesHost == started ~> (console.chars = <<>> /\ tx = <<>>)
=============================================================================
