------------------------- MODULE PacketScannerProofs -------------------------
(***************************************************************************)
(* Proofs about PacketScanner: as long as no header names a length that    *)
(* does not fit the buffer, the scanner never gets stuck, for buffers and  *)
(* sets of lengths of any size.                                            *)
(***************************************************************************)
EXTENDS PacketScanner, TLAPS

\* The fields of a header.
LEMMA HeaderFields ==
  ASSUME Sizes, NEW h \in Header
  PROVE  /\ h.at \in Nat /\ h.len \in Lengths /\ h.len \in Nat
         /\ h.sn \in Sns /\ h.checksum \in BOOLEAN
<1>1. /\ h.at \in FirstIndex .. BUFFER_SIZE - HeaderSize - 1
      /\ h.len \in Lengths /\ h.sn \in Sns /\ h.checksum \in BOOLEAN
  BY DEF Header
<1>2. FirstIndex \in Nat /\ BUFFER_SIZE \in Nat /\ Lengths \subseteq 0 .. 255
  BY DEF Sizes
<1>3. h.at \in Nat
  BY <1>1, <1>2 DEF HeaderSize
<1>4. h.len \in Nat
  <2>1. h.len \in 0 .. 255
    BY <1>1, <1>2, Zenon
  <2>. QED
    BY <2>1
<1>. QED
  BY <1>1, <1>3, <1>4

\* The headers of a read are headers, and no two of them stand at one place.
LEMMA ReadsAreSeparate ==
  ASSUME Sizes, NEW b \in Reads
  PROVE  /\ b \subseteq Header
         /\ \A g, h \in b : g.at = h.at => g = h
<1>1. CASE b = {}
  BY <1>1
<1>2. CASE \E h \in Header : b = {h}
  BY <1>2
<1>3. CASE \E p \in {q \in Header \X Header : q[1].at + HeaderSize + q[1].len <= q[2].at} :
             b = {p[1], p[2]}
  <2>1. PICK p \in Header \X Header :
               /\ p[1].at + HeaderSize + p[1].len <= p[2].at
               /\ b = {p[1], p[2]}
    BY <1>3
  <2>2. p[1] \in Header /\ p[2] \in Header
    OBVIOUS
  <2>3. p[1].at \in Nat /\ p[2].at \in Nat /\ p[1].len \in Nat
    BY <2>2, HeaderFields
  <2>4. p[1].at # p[2].at
    BY <2>1, <2>3 DEF HeaderSize
  <2>. QED
    BY <2>1, <2>2, <2>4
<1>. QED
  BY <1>1, <1>2, <1>3 DEF Reads

\* The header that counts is one of the read's, and none stands behind it.
LEMMA LatestIsLast ==
  ASSUME Sizes, NEW b \in Reads, b # {}
  PROVE  Latest(b) \in b /\ \A g \in b : g.at <= Latest(b).at
<1>1. \A h \in Header : h.at \in Nat /\ h.len \in Nat
  BY HeaderFields
<1>2. \E h \in b : \A g \in b : g.at <= h.at
  <2>1. CASE \E h \in Header : b = {h}
    BY <2>1, <1>1
  <2>2. CASE \E p \in {q \in Header \X Header : q[1].at + HeaderSize + q[1].len <= q[2].at} :
               b = {p[1], p[2]}
    <3>1. PICK p \in Header \X Header :
                 /\ p[1].at + HeaderSize + p[1].len <= p[2].at
                 /\ b = {p[1], p[2]}
      BY <2>2
    <3>2. p[1].at \in Nat /\ p[2].at \in Nat /\ p[1].len \in Nat
      BY <1>1
    <3>3. p[1].at <= p[2].at
      BY <3>1, <3>2 DEF HeaderSize
    <3>. QED
      BY <3>1, <3>2, <3>3
  <2>. QED
    BY <2>1, <2>2 DEF Reads
<1>. QED
  BY <1>2 DEF Latest

\* The variables keep their types, and only packets of the read are handled.
THEOREM TypeCorrect == Sizes => (Spec => []TypeOK)
<1>. SUFFICES ASSUME Sizes PROVE Spec => []TypeOK
  OBVIOUS
<1>1. Init => TypeOK
  BY DEF Init, TypeOK
<1>2. TypeOK /\ [Next]_vars => TypeOK'
  <2>. SUFFICES ASSUME TypeOK, [Next]_vars PROVE TypeOK'
    OBVIOUS
  <2>1. CASE UNCHANGED vars
    BY <2>1 DEF TypeOK, vars
  <2>2. ASSUME NEW b \in Reads, lkbt51_task(b) PROVE TypeOK'
    <3>1. b \subseteq Header
      BY ReadsAreSeparate
    <3>2. CASE wait_for_new_pkt /\ b # {}
      <4>1. Latest(b) \in b /\ Latest(b) \in Header
        BY <3>1, <3>2, LatestIsLast
      <4>2. Latest(b).len \in Lengths /\ Latest(b).sn \in Sns /\ Latest(b).checksum \in BOOLEAN
        BY <4>1, HeaderFields
      <4>. QED
        BY <2>2, <3>1, <3>2, <4>1, <4>2 DEF TypeOK, lkbt51_task, Scan, Take
    <3>3. CASE ~(wait_for_new_pkt /\ b # {})
      BY <2>2, <3>1, <3>3 DEF TypeOK, lkbt51_task, Scan, Take, NoBody
    <3>. QED
      BY <3>2, <3>3
  <2>. QED
    BY <2>1, <2>2 DEF Next
<1>. QED
  BY <1>1, <1>2, PTL DEF Spec

\* Between two reads the scanner waits for a new packet.
THEOREM NeverStuck == Sizes /\ LengthsFit => (Spec => []Waiting)
<1>. SUFFICES ASSUME Sizes, LengthsFit PROVE Spec => []Waiting
  OBVIOUS
<1>1. Init => Waiting
  BY DEF Init, Waiting
<1>2. Waiting /\ [Next]_vars => Waiting'
  <2>. SUFFICES ASSUME Waiting, [Next]_vars PROVE Waiting'
    OBVIOUS
  <2>1. CASE UNCHANGED vars
    BY <2>1 DEF Waiting, vars
  <2>2. ASSUME NEW b \in Reads, lkbt51_task(b) PROVE Waiting'
    <3>1. CASE b = {}
      BY <2>2, <3>1 DEF Waiting, lkbt51_task, Scan, Take
    <3>2. CASE b # {}
      <4>1. Latest(b).len \in Lengths /\ Latest(b).len \in Nat
        BY <3>2, ReadsAreSeparate, LatestIsLast, HeaderFields
      <4>2. BUFFER_SIZE - HeaderSize >= Latest(b).len
        BY <4>1 DEF LengthsFit, Sizes, HeaderSize
      <4>. QED
        BY <2>2, <3>2, <4>2 DEF Waiting, lkbt51_task, Scan, Take
    <3>. QED
      BY <3>1, <3>2
  <2>. QED
    BY <2>1, <2>2 DEF Next
<1>. QED
  BY <1>1, <1>2, PTL DEF Spec

\* With lengths that fit the buffer the last packet of a read is handled if it
\* is whole and unharmed, whatever came before it.
THEOREM LastPacketCorrect == Sizes /\ LengthsFit => (Spec => LastPacketHandled)
<1>. SUFFICES ASSUME Sizes, LengthsFit PROVE Spec => LastPacketHandled
  OBVIOUS
<1>. DEFINE Step == \A h \in read' : Good(h) /\ (\A g \in read' : g.at <= h.at) => h \in handled'
<1>1. Spec => []Waiting
  BY NeverStuck
<1>2. Waiting /\ [Next]_vars => [Step]_vars
  <2>. SUFFICES ASSUME Waiting, NEW b \in Reads, lkbt51_task(b),
                       NEW h \in read', Good(h), \A g \in read' : g.at <= h.at
                PROVE  h \in handled'
    BY DEF Next
  <2>1. read' = b /\ b # {}
    BY DEF lkbt51_task
  <2>2. Latest(b) \in b /\ \A g \in b : g.at <= Latest(b).at
    BY <2>1, LatestIsLast
  <2>3. /\ b \subseteq Header
        /\ \A g, e \in b : g.at = e.at => g = e
    BY ReadsAreSeparate
  <2>4. h.at \in Nat /\ Latest(b).at \in Nat /\ h.len \in Lengths /\ h.len \in Nat
    BY <2>1, <2>2, <2>3, HeaderFields
  <2>5. h.at <= Latest(b).at /\ Latest(b).at <= h.at
    BY <2>1, <2>2
  <2>6. h = Latest(b)
    BY <2>1, <2>2, <2>3, <2>4, <2>5
  <2>7. BUFFER_SIZE - HeaderSize >= h.len
    BY <2>4 DEF LengthsFit, Sizes, HeaderSize
  <2>8. h.checksum
    BY DEF Good
  <2>. QED
    BY <2>1, <2>6, <2>7, <2>8 DEF Waiting, lkbt51_task, Scan, Take
<1>. QED
  BY <1>1, <1>2, PTL DEF Spec, LastPacketHandled
=============================================================================
