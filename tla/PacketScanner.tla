---------------------------- MODULE PacketScanner ----------------------------
(***************************************************************************)
(* lkbt51_task (lkbt51.c): how the packets of the radio module, its         *)
(* acknowledgements among them, are found in the buffer of one SPI read.    *)
(*                                                                          *)
(* A read is the set of the headers in its buffer.  A header stands at an   *)
(* index, names a length and is followed by a body whose checksum is right  *)
(* or not; what is not a header only matters through the checksum of a body *)
(* read across it.  The first bytes of the buffer, the event block, are in  *)
(* WirelessLink.                                                            *)
(***************************************************************************)
EXTENDS Integers, FiniteSets

CONSTANTS BUFFER_SIZE,    \* 64
          FirstIndex,     \* 10: where the scan starts
          Lengths,        \* lengths a header may name
          Sns             \* sequence numbers

HeaderSize == 5

\* The buffer has room for a packet behind the event block.
Sizes ==
  /\ BUFFER_SIZE \in Nat /\ FirstIndex \in Nat
  /\ FirstIndex + 2 * HeaderSize < BUFFER_SIZE
  /\ Lengths # {} /\ Lengths \subseteq 0 .. 255 /\ Sns # {} /\ Sns \subseteq 0 .. 255

VARIABLES wait_for_new_pkt, len, sn,  \* the static variables of lkbt51_task
          read,                       \* history: the headers of the last read
          handled                     \* history: the packets it gave the handler

vars == <<wait_for_new_pkt, len, sn, read, handled>>

Header == [at : FirstIndex .. BUFFER_SIZE - HeaderSize - 1, len : Lengths, sn : Sns,
           checksum : BOOLEAN]

\* At most two headers, which do not overlap.
Reads == {{}} \cup {{h} : h \in Header}
         \cup {{p[1], p[2]} : p \in {q \in Header \X Header :
                                      q[1].at + HeaderSize + q[1].len <= q[2].at}}

-----------------------------------------------------------------------------
\* The loop does not stop at a header: the last one is the one that counts.
Latest(b) == CHOOSE h \in b : \A g \in b : g.at <= h.at

\* Where the scan leaves the static variables, and the body it found (pbuf):
\* the buffer itself if it found none.
NoBody == [checksum |-> FALSE, len |-> 0]
Scan(b) ==
  IF wait_for_new_pkt /\ b # {}
  THEN [waiting |-> FALSE, len |-> Latest(b).len, sn |-> Latest(b).sn, body |-> Latest(b)]
  ELSE [waiting |-> wait_for_new_pkt, len |-> len, sn |-> sn, body |-> NoBody]

\* Only a length that fits is taken; the checksum of a body that is cut off by
\* the end of the buffer is one of bytes that were never sent.
Take(s) ==
  LET take == ~s.waiting /\ BUFFER_SIZE - HeaderSize >= s.len
  IN  /\ wait_for_new_pkt' = (s.waiting \/ take)
      /\ handled' = IF take /\ s.body.checksum THEN {s.body} ELSE {}

lkbt51_task(b) ==
  LET s == Scan(b)
  IN  /\ len' = s.len /\ sn' = s.sn /\ read' = b
      /\ Take(s)

-----------------------------------------------------------------------------
Init == wait_for_new_pkt = TRUE /\ len = 255 /\ sn = 0 /\ read = {} /\ handled = {}

Next == \E b \in Reads : lkbt51_task(b)

Spec == Init /\ [][Next]_vars

-----------------------------------------------------------------------------
TypeOK ==
  /\ wait_for_new_pkt \in BOOLEAN /\ len \in Lengths \cup {255} /\ sn \in Sns \cup {0}
  /\ read \subseteq Header /\ handled \subseteq read

\* A good packet is one that is all in the buffer, with the right checksum.
Good(h) == h.checksum /\ h.at + HeaderSize + h.len <= BUFFER_SIZE

\* A packet that ends its read whole and unharmed reaches lkbt51_event_handler,
\* whatever earlier reads brought: bad checksums, cut off packets, headers of
\* any length.  "Check wheather len is valid" says that the length of a header
\* was checked before the scanner relies on it.
LastPacketHandled ==
  [][\A h \in read' : Good(h) /\ (\A g \in read' : g.at <= h.at) => h \in handled']_vars

\* What the scanner relies on instead: no header names a body longer than the
\* buffer.  Then it looks for a new packet in every read.
LengthsFit == \A l \in Lengths : l <= BUFFER_SIZE - HeaderSize
Waiting    == wait_for_new_pkt = TRUE
=============================================================================
