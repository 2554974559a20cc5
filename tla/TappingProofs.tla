---------------------------- MODULE TappingProofs ----------------------------
(***************************************************************************)
(* Machine-checked proofs about Tapping, for every set of keys, tapping    *)
(* term, waiting buffer, decision mode and way of typing.                  *)
(***************************************************************************)
EXTENDS Tapping, SequenceTheorems, WellFoundedInduction, TLAPS

LEMMA ConstantFacts ==
  /\ BufferSize \in Nat /\ BufferSize >= 2 /\ MaxPresses \in Nat /\ AgeMax \in Nat
  /\ NoKey \notin Keys
<1>1. TappingTerm \in Nat /\ BufferSize \in Nat /\ MaxStall \in Nat
  BY TappingAssumption
<1>2. BufferSize * MaxStall \in Nat
  BY <1>1
<1> QED
  BY <1>1, <1>2, TappingAssumption DEF AgeMax

-----------------------------------------------------------------------------
(* Records and lines of records.                                           *)

\* The same presses in the same places.
Same(s, r) ==
  /\ DOMAIN s = DOMAIN r
  /\ \A i \in DOMAIN r : s[i].pressed = r[i].pressed /\ s[i].no = r[i].no

LEMMA SameLine ==
  ASSUME NEW s, NEW r, Same(s, r)
  PROVE  Numbers(s) = Numbers(r) /\ (Ordered(r) => Ordered(s))
BY DEF Same, Numbers, Ordered

\* The first record of a line leaves it.
LEMMA LineTail ==
  ASSUME NEW s \in Seq(WaitingRecord), s # << >>
  PROVE  /\ Ordered(s) => Ordered(Tail(s))
         /\ s[1].pressed => Numbers(s) = Numbers(Tail(s)) \cup {s[1].no}
         /\ ~s[1].pressed => Numbers(s) = Numbers(Tail(s))
         /\ Ordered(s) /\ s[1].pressed => \A n \in Numbers(Tail(s)) : s[1].no < n
<1> DEFINE t == Tail(s)
<1>1. /\ Len(s) \in Nat /\ Len(s) >= 1 /\ t \in Seq(WaitingRecord) /\ Len(t) = Len(s) - 1
      /\ DOMAIN s = 1 .. Len(s) /\ DOMAIN t = 1 .. Len(s) - 1
  OBVIOUS
<1>2. \A i \in 1 .. Len(s) - 1 : t[i] = s[i + 1] /\ i + 1 \in 1 .. Len(s)
  BY <1>1
<1>3. \A i \in 1 .. Len(s) : i = 1 \/ (i - 1 \in 1 .. Len(s) - 1 /\ s[i] = t[i - 1])
  <2> SUFFICES ASSUME NEW i \in 1 .. Len(s), i # 1
               PROVE  i - 1 \in 1 .. Len(s) - 1 /\ s[i] = t[i - 1]
    OBVIOUS
  <2>1. i - 1 \in 1 .. Len(s) - 1 /\ (i - 1) + 1 = i
    BY <1>1
  <2> QED
    BY <1>2, <2>1
<1> HIDE DEF t
<1>4. ASSUME Ordered(s) PROVE Ordered(t)
  <2> SUFFICES ASSUME NEW i \in 1 .. Len(s) - 1, NEW j \in 1 .. Len(s) - 1, i < j,
                      t[i].pressed, t[j].pressed
               PROVE  t[i].no < t[j].no
    BY <1>1 DEF Ordered
  <2>1. /\ i + 1 \in DOMAIN s /\ j + 1 \in DOMAIN s /\ i + 1 < j + 1
        /\ s[i + 1] = t[i] /\ s[j + 1] = t[j]
    BY <1>1, <1>2
  <2> QED
    BY <1>4, <2>1 DEF Ordered
<1>5. Numbers(t) \subseteq Numbers(s)
  BY <1>1, <1>2 DEF Numbers
<1>6. \A n \in Numbers(s) : n \in Numbers(t) \/ (s[1].pressed /\ n = s[1].no)
  <2> SUFFICES ASSUME NEW i \in 1 .. Len(s), s[i].pressed, i # 1
               PROVE  s[i].no \in Numbers(t)
    BY <1>1 DEF Numbers
  <2> QED
    BY <1>1, <1>3 DEF Numbers
<1>7. s[1].pressed => s[1].no \in Numbers(s)
  BY <1>1 DEF Numbers
<1>8. ASSUME Ordered(s), s[1].pressed, NEW n \in Numbers(t) PROVE s[1].no < n
  <2>1. PICK i \in 1 .. Len(s) - 1 : t[i].pressed /\ n = t[i].no
    BY <1>1 DEF Numbers
  <2>2. i + 1 \in DOMAIN s /\ 1 \in DOMAIN s /\ 1 < i + 1 /\ s[i + 1] = t[i]
    BY <1>1, <1>2
  <2> QED
    BY <1>8, <2>1, <2>2 DEF Ordered
<1> QED
  BY <1>4, <1>5, <1>6, <1>7, <1>8 DEF t

\* A record joins the line.
LEMMA LineAppend ==
  ASSUME NEW s \in Seq(WaitingRecord), NEW r \in WaitingRecord
  PROVE  /\ r.pressed => Numbers(Append(s, r)) = Numbers(s) \cup {r.no}
         /\ ~r.pressed => Numbers(Append(s, r)) = Numbers(s)
         /\ Ordered(s) /\ (r.pressed => \A n \in Numbers(s) : n < r.no)
              => Ordered(Append(s, r))
         /\ Ordered(Append(s, r)) => Ordered(s)
<1> DEFINE u == Append(s, r)
<1>1. /\ Len(s) \in Nat /\ DOMAIN s = 1 .. Len(s) /\ DOMAIN u = 1 .. Len(s) + 1
      /\ u[Len(s) + 1] = r
  OBVIOUS
<1>2. \A i \in 1 .. Len(s) : u[i] = s[i] /\ i \in 1 .. Len(s) + 1
  BY <1>1
<1>3. \A i \in 1 .. Len(s) + 1 : i = Len(s) + 1 \/ i \in 1 .. Len(s)
  BY <1>1
<1> HIDE DEF u
<1>4. Numbers(s) \subseteq Numbers(u)
  BY <1>1, <1>2 DEF Numbers
<1>5. r.pressed => r.no \in Numbers(u)
  <2>1. Len(s) + 1 \in DOMAIN u
    BY <1>1
  <2> QED
    BY <1>1, <2>1 DEF Numbers
<1>6. \A n \in Numbers(u) : n \in Numbers(s) \/ (r.pressed /\ n = r.no)
  BY <1>1, <1>2, <1>3 DEF Numbers
<1>7. ASSUME Ordered(s), r.pressed => \A n \in Numbers(s) : n < r.no
      PROVE  Ordered(u)
  <2> SUFFICES ASSUME NEW i \in 1 .. Len(s) + 1, NEW j \in 1 .. Len(s) + 1, i < j,
                      u[i].pressed, u[j].pressed
               PROVE  u[i].no < u[j].no
    BY <1>1 DEF Ordered
  <2>1. i \in 1 .. Len(s)
    BY <1>1
  <2>2. CASE j = Len(s) + 1
    BY <1>1, <1>2, <1>7, <2>1, <2>2 DEF Numbers
  <2>3. CASE j \in 1 .. Len(s)
    BY <1>1, <1>2, <1>7, <2>1, <2>3 DEF Ordered
  <2> QED
    BY <1>3, <2>2, <2>3
<1>8. ASSUME Ordered(u) PROVE Ordered(s)
  <2> SUFFICES ASSUME NEW i \in 1 .. Len(s), NEW j \in 1 .. Len(s), i < j,
                      s[i].pressed, s[j].pressed
               PROVE  s[i].no < s[j].no
    BY <1>1 DEF Ordered
  <2> QED
    BY <1>1, <1>2, <1>8 DEF Ordered
<1> QED
  BY <1>4, <1>5, <1>6, <1>7, <1>8 DEF u

-----------------------------------------------------------------------------
(* The kinds of step, by what they do to the line and to the tapping key.  *)

\* The press at the head of the line is taken: it is processed, or becomes the
\* tapping key.
Takes ==
  /\ Line # << >> /\ Line[1].pressed /\ Same(Line', Tail(Line)) /\ ~Undecided(tapping_key)
  /\ \/ Undecided(tapping_key') /\ tapping_key'.no = Line[1].no /\ last' = last
     \/ ~Undecided(tapping_key') /\ last' = Line[1].no
\* No press is processed.
Keeps ==
  /\ Numbers(Line') = Numbers(Line) /\ (Ordered(Line) => Ordered(Line'))
  /\ Undecided(tapping_key') <=> Undecided(tapping_key)
  /\ Undecided(tapping_key) => tapping_key'.no = tapping_key.no
  /\ last' = last
\* The undecided key is processed.
Settles ==
  /\ Same(Line', Line)
  /\ Undecided(tapping_key) /\ ~Undecided(tapping_key') /\ last' = tapping_key.no
\* The buffer overflows.
Clears == Line' = << >> /\ ~Undecided(tapping_key') /\ last' = presses

LEMMA LineFacts ==
  ASSUME Shape
  PROVE  /\ Line \in Seq(WaitingRecord)
         /\ \A n \in Numbers(Line) : n \in 0 .. MaxPresses
         /\ tapping_key.no \in 0 .. MaxPresses /\ presses \in Nat /\ last \in Nat
<1>1. arrived.key # NoKey => arrived \in WaitingRecord
  BY DEF Shape, TappingRecord, WaitingRecord
<1>2. waiting_buffer \in Seq(WaitingRecord)
  BY DEF Shape
<1>3. Line \in Seq(WaitingRecord)
  BY <1>1, <1>2 DEF Line, IsTick
<1>4. \A i \in DOMAIN Line : Line[i] \in WaitingRecord
  BY <1>3
<1>5. \A r \in WaitingRecord : r.no \in 0 .. MaxPresses
  BY DEF WaitingRecord, Records
<1>6. \A n \in Numbers(Line) : n \in 0 .. MaxPresses
  BY <1>4, <1>5 DEF Numbers
<1> QED
  BY <1>3, <1>6, ConstantFacts DEF Shape, TappingRecord, Records

\* Each kind of step keeps the presses in line, and processes the next one if any.
LEMMA KindsInLine ==
  ASSUME Shape, InLine, presses' = presses, pc' # "new", Takes \/ Keeps \/ Settles \/ Clears
  PROVE  InLine' /\ last' >= last
<1> DEFINE N == Numbers(Line)
           M == Numbers(Line')
<1>1. /\ Line \in Seq(WaitingRecord) /\ presses \in Nat /\ last \in Nat
      /\ \A n \in N : n \in Int
      /\ tapping_key.no \in Int
  BY LineFacts
<1>2. /\ N \cup (IF Undecided(tapping_key) THEN {tapping_key.no} ELSE {}) = (last + 1) .. presses
      /\ Ordered(Line) /\ last <= presses
      /\ Undecided(tapping_key) => \A n \in N : tapping_key.no < n
  BY DEF InLine, Unprocessed
<1> SUFFICES
      /\ M \cup (IF Undecided(tapping_key') THEN {tapping_key'.no} ELSE {}) = (last' + 1) .. presses
      /\ Ordered(Line')
      /\ Undecided(tapping_key') => \A n \in M : tapping_key'.no < n
      /\ last' >= last /\ last' <= presses
  BY DEF InLine, Unprocessed, Numbers, Undecided, Ordered
<1>3. CASE Takes
  <2>1. /\ Ordered(Tail(Line)) /\ N = Numbers(Tail(Line)) \cup {Line[1].no}
        /\ \A n \in Numbers(Tail(Line)) : Line[1].no < n
    BY <1>1, <1>2, <1>3, LineTail DEF Takes
  <2>2. M = Numbers(Tail(Line)) /\ Ordered(Line')
    BY <1>3, <2>1, SameLine DEF Takes
  <2>3. N = (last + 1) .. presses
    BY <1>2, <1>3 DEF Takes
  <2> DEFINE a == Line[1].no
  <2>4. N = M \cup {a} /\ (\A n \in M : a < n) /\ a \in Int
    BY <1>1, <2>1, <2>2
  <2> HIDE DEF N, M, a
  <2>5. a \in (last + 1) .. presses /\ \A n \in (last + 1) .. presses : a <= n
    BY <1>1, <2>3, <2>4
  <2>6. a = last + 1
    BY <1>1, <2>5
  <2>7. M = (last + 2) .. presses
    <3>1. \A n \in M : n \in (last + 2) .. presses
      BY <1>1, <2>3, <2>4, <2>6
    <3>2. \A n \in (last + 2) .. presses : n \in M
      BY <1>1, <2>3, <2>4, <2>6
    <3> QED
      BY <3>1, <3>2
  <2>8. CASE Undecided(tapping_key') /\ tapping_key'.no = Line[1].no /\ last' = last
    <3>1. M \cup {a} = (last' + 1) .. presses
      BY <2>3, <2>4, <2>8
    <3> QED
      BY <1>1, <2>2, <2>4, <2>8, <3>1 DEF a
  <2>9. CASE ~Undecided(tapping_key') /\ last' = Line[1].no
    <3>1. last' = last + 1 /\ last' + 1 = last + 2 /\ last' <= presses
      BY <1>1, <2>5, <2>6, <2>9 DEF a
    <3> QED
      BY <1>1, <2>2, <2>7, <2>9, <3>1
  <2> QED
    BY <1>3, <2>8, <2>9 DEF Takes
<1>4. CASE Keeps
  BY <1>1, <1>2, <1>4 DEF Keeps
<1>5. CASE Settles
  <2>1. M = N /\ Ordered(Line')
    BY <1>2, <1>5, SameLine DEF Settles
  <2>2. /\ N \cup {tapping_key.no} = (last + 1) .. presses
        /\ \A n \in N : tapping_key.no < n
        /\ last' = tapping_key.no /\ ~Undecided(tapping_key')
    BY <1>2, <1>5 DEF Settles
  <2> HIDE DEF N, M
  <2> DEFINE a == tapping_key.no
  <2>0. N \cup {a} = (last + 1) .. presses /\ (\A n \in N : a < n) /\ a \in Int
    BY <1>1, <2>2
  <2> HIDE DEF a
  <2>3. a \in (last + 1) .. presses /\ \A n \in (last + 1) .. presses : a <= n
    <3>1. a \in (last + 1) .. presses /\ \A n \in (last + 1) .. presses : n \in N \/ n = a
      BY <2>0
    <3>2. ASSUME NEW n \in (last + 1) .. presses PROVE a <= n
      BY <1>1, <2>0, <3>1
    <3> QED
      BY <3>1, <3>2
  <2>4. a = last + 1
    BY <1>1, <2>3
  <2>5. N = (last + 2) .. presses
    <3>1. \A n \in N : n \in (last + 2) .. presses
      BY <1>1, <2>0, <2>4
    <3>2. \A n \in (last + 2) .. presses : n \in N
      BY <1>1, <2>0, <2>4
    <3> QED
      BY <3>1, <3>2
  <2>6. last' = last + 1 /\ last' + 1 = last + 2 /\ last' <= presses
    BY <1>1, <2>2, <2>3, <2>4 DEF a
  <2> QED
    BY <1>1, <2>1, <2>2, <2>5, <2>6
<1>6. CASE Clears
  <2>1. M = {} /\ Ordered(Line')
    BY <1>6 DEF Clears, Numbers, Ordered
  <2>2. last' = presses /\ (last' + 1) .. presses = {}
    BY <1>1, <1>6 DEF Clears
  <2>3. last' >= last /\ last' <= presses
    BY <1>1, <1>2, <2>2
  <2> QED
    BY <1>6, <2>1, <2>2, <2>3 DEF Clears
<1> QED
  BY <1>3, <1>4, <1>5, <1>6

-----------------------------------------------------------------------------
(* How a call of process_tapping ends.                                     *)

\* What every branch of process_tapping does.
Good ==
  /\ Shape' /\ presses' = presses /\ overtaken' = overtaken /\ pc' # "new"
  /\ InLine => Takes \/ Keeps \/ Settles \/ Clears

LEMMA CurFacts ==
  ASSUME Shape, pc # "idle"
  PROVE  /\ pc \in {"new", "drain"}
         /\ Cur \in TappingRecord /\ (Cur.pressed => Cur.count = 0)
         /\ ~IsTick(Cur) => Cur \in WaitingRecord
         /\ IsTick(Cur) => pc = "new" /\ ~Cur.pressed
         /\ Rest \in Seq(WaitingRecord) /\ Len(Rest) < BufferSize
<1>1. CASE pc = "new"
  <2>1. Cur = arrived /\ Rest = waiting_buffer
    BY <1>1 DEF Cur, Rest
  <2> QED
    BY <1>1, <2>1 DEF Shape, TappingRecord, WaitingRecord, IsTick
<1>2. CASE pc = "drain"
  <2>1. Cur = Head(waiting_buffer) /\ Rest = Tail(waiting_buffer)
    BY <1>2 DEF Cur, Rest
  <2>2. /\ waiting_buffer \in Seq(WaitingRecord) /\ waiting_buffer # << >>
        /\ Len(waiting_buffer) < BufferSize
    BY <1>2 DEF Shape
  <2>3. /\ Head(waiting_buffer) \in WaitingRecord /\ Tail(waiting_buffer) \in Seq(WaitingRecord)
        /\ Len(Tail(waiting_buffer)) < BufferSize
    BY <2>2, ConstantFacts
  <2> QED
    BY <1>2, <2>1, <2>3 DEF TappingRecord, WaitingRecord, IsTick
<1> QED
  BY <1>1, <1>2 DEF Shape

LEMMA LineCases ==
  ASSUME Shape, pc # "idle"
  PROVE  /\ pc = "drain" => /\ Line = waiting_buffer /\ Line # << >>
                            /\ Line[1] = Cur /\ Tail(Line) = Rest
         /\ pc = "new" /\ ~IsTick(Cur) => Line = Append(waiting_buffer, Cur)
         /\ IsTick(Cur) => Line = waiting_buffer
         /\ pc = "new" => Rest = waiting_buffer
<1>1. waiting_buffer \in Seq(WaitingRecord) /\ (pc = "drain" => waiting_buffer # << >>)
  BY DEF Shape
<1>2. IsTick(Cur) => pc = "new"
  BY CurFacts
<1> QED
  BY <1>1, <1>2 DEF Line, Cur, Rest

LEMMA ConsumedShape ==
  ASSUME Shape, pc # "idle", NEW tk \in TappingRecord, NEW reg, NEW upto \in Nat,
         NEW ws \in Seq(WaitingRecord), Same(ws, Rest), Consumed(tk, reg, upto, ws)
  PROVE  /\ Shape' /\ presses' = presses /\ overtaken' = overtaken /\ pc' # "new"
         /\ Line' = ws
<1>1. Len(ws) < BufferSize
  <2>1. Rest \in Seq(WaitingRecord) /\ Len(Rest) < BufferSize
    BY CurFacts
  <2>2. DOMAIN ws = 1 .. Len(ws) /\ DOMAIN Rest = 1 .. Len(Rest) /\ Len(ws) \in Nat
        /\ Len(Rest) \in Nat
    BY <2>1
  <2>3. 1 .. Len(ws) = 1 .. Len(Rest)
    BY <2>2 DEF Same
  <2>4. \A m, n \in Nat : 1 .. m = 1 .. n => m <= n
    <3> SUFFICES ASSUME NEW m \in Nat, NEW n \in Nat, 1 .. m = 1 .. n PROVE m <= n
      OBVIOUS
    <3>1. m # 0 => m \in 1 .. n
      OBVIOUS
    <3> QED
      BY <3>1
  <2>5. Len(ws) <= Len(Rest)
    <3>1. \A m, n \in Nat : m = Len(ws) /\ n = Len(Rest) => m <= n
      BY <2>3, <2>4
    <3> QED
      BY <2>2, <3>1
  <2> QED
    BY <2>1, <2>2, <2>5, ConstantFacts
<1>2. /\ tapping_key' = tk /\ last' = upto /\ waiting_buffer' = ws
      /\ pc' = (IF ws = << >> THEN "idle" ELSE "drain")
      /\ UNCHANGED <<arrived, presses, overtaken>>
  BY DEF Consumed
<1>3. Shape'
  BY <1>1, <1>2 DEF Shape
<1> QED
  BY <1>2, <1>3 DEF Line

LEMMA ConsumedTakes ==
  ASSUME Shape, pc # "idle", NEW tk \in TappingRecord, NEW reg, NEW upto,
         NEW ws \in Seq(WaitingRecord), Same(ws, Rest), Consumed(tk, reg, upto, ws),
         Cur.pressed, ~Undecided(tapping_key),
         \/ Undecided(tk) /\ tk.no = Cur.no /\ upto = last
         \/ ~Undecided(tk) /\ upto = Cur.no
  PROVE  Good
<1>1. upto \in Nat
  BY CurFacts, ConstantFacts DEF Shape, TappingRecord, Records
<1>2. /\ Shape' /\ presses' = presses /\ overtaken' = overtaken /\ pc' # "new"
      /\ Line' = ws
  BY <1>1, ConsumedShape
<1>3. tapping_key' = tk /\ last' = upto
  BY DEF Consumed
<1>4. ASSUME InLine
      PROVE  Line # << >> /\ Line[1] = Cur /\ Tail(Line) = Rest
  <2>1. CASE pc = "drain"
    BY <2>1, LineCases
  <2>2. CASE pc = "new"
    <3>1. ~IsTick(Cur)
      BY CurFacts
    <3>2. waiting_buffer = << >> /\ Rest = << >> /\ Line = Append(waiting_buffer, Cur)
      BY <1>4, <2>2, <3>1, LineCases DEF InLine, Cur
    <3>3. Line = <<Cur>>
      BY <3>2
    <3> QED
      BY <3>2, <3>3
  <2> QED
    BY <2>1, <2>2, CurFacts
<1>5. InLine => Takes
  BY <1>2, <1>3, <1>4 DEF Takes
<1> QED
  BY <1>2, <1>5 DEF Good

LEMMA ConsumedKeeps ==
  ASSUME Shape, pc # "idle", NEW tk \in TappingRecord, NEW reg,
         Consumed(tk, reg, last, Rest), ~Cur.pressed,
         Undecided(tk) <=> Undecided(tapping_key),
         Undecided(tapping_key) => tk.no = tapping_key.no
  PROVE  Good
<1>1. last \in Nat /\ Rest \in Seq(WaitingRecord) /\ Same(Rest, Rest)
  BY CurFacts DEF Shape, Same
<1>2. /\ Shape' /\ presses' = presses /\ overtaken' = overtaken /\ pc' # "new"
      /\ Line' = Rest
  BY <1>1, ConsumedShape
<1>3. tapping_key' = tk /\ last' = last
  BY DEF Consumed
<1>4. Numbers(Rest) = Numbers(Line) /\ (Ordered(Line) => Ordered(Rest))
  <2>1. CASE pc = "drain"
    <3>1. Line \in Seq(WaitingRecord) /\ Line # << >> /\ Line[1] = Cur /\ Tail(Line) = Rest
      BY <2>1, LineCases, LineFacts
    <3> QED
      BY <3>1, LineTail
  <2>2. CASE pc = "new" /\ ~IsTick(Cur)
    <3>1. /\ Line = Append(Rest, Cur) /\ Cur \in WaitingRecord
      BY <2>2, LineCases, CurFacts
    <3> QED
      BY <1>1, <3>1, LineAppend
  <2>3. CASE IsTick(Cur)
    BY <2>3, LineCases, CurFacts
  <2> QED
    BY <2>1, <2>2, <2>3, CurFacts
<1>5. Keeps
  BY <1>2, <1>3, <1>4 DEF Keeps, Undecided
<1> QED
  BY <1>2, <1>5 DEF Good

LEMMA NothingRecord == Nothing \in TappingRecord /\ ~Undecided(Nothing)
BY ConstantFacts DEF Nothing, Record, TappingRecord, Records, Undecided

\* A record that is held back keeps its place in the line, unless the buffer is full.
LEMMA HeldLine ==
  ASSUME Shape, pc # "idle", NEW tk \in TappingRecord, NEW reg, NEW upto \in Nat,
         NEW e \in Records, e.key = Cur.key, e.pressed = Cur.pressed, e.no = Cur.no,
         e.pressed => e.count = 0, Held(tk, reg, upto, e)
  PROVE  /\ Shape' /\ presses' = presses /\ overtaken' = overtaken /\ pc' # "new"
         /\ (Same(Line', Line) /\ tapping_key' = tk /\ last' = upto) \/ Clears
<1> DEFINE w == waiting_buffer
<1>1. /\ w \in Seq(WaitingRecord) /\ Len(w) < BufferSize /\ Len(w) \in Nat /\ BufferSize \in Nat
      /\ presses \in Nat
  BY ConstantFacts DEF Shape
<1>2. /\ UNCHANGED <<arrived, presses, overtaken>>
      /\ IsTick(e) <=> IsTick(Cur)
      /\ ~IsTick(e) => e \in WaitingRecord
  BY DEF Held, IsTick, WaitingRecord
<1>3. CASE pc = "drain"
  <2>1. /\ w' = <<e>> \o Tail(w) /\ pc' = "idle" /\ tapping_key' = tk /\ last' = upto
    BY <1>3 DEF Held
  <2>2. Line = w /\ w # << >> /\ w[1] = Cur /\ e \in WaitingRecord
    BY <1>2, <1>3, CurFacts, LineCases
  <2>3. /\ Tail(w) \in Seq(WaitingRecord) /\ Len(Tail(w)) = Len(w) - 1
        /\ \A i \in 1 .. Len(w) - 1 : Tail(w)[i] = w[i + 1]
    BY <1>1, <2>2
  <2>4. /\ w' \in Seq(WaitingRecord) /\ Len(w') = Len(w) /\ w'[1] = e
        /\ \A i \in 2 .. Len(w) : w'[i] = Tail(w)[i - 1]
    BY <1>1, <2>1, <2>2, <2>3
  <2>5. \A i \in 1 .. Len(w) : w'[i].pressed = w[i].pressed /\ w'[i].no = w[i].no
    <3> SUFFICES ASSUME NEW i \in 1 .. Len(w)
                 PROVE  w'[i].pressed = w[i].pressed /\ w'[i].no = w[i].no
      OBVIOUS
    <3>1. CASE i = 1
      BY <2>2, <2>4, <3>1
    <3>2. CASE i # 1
      <4>1. i \in 2 .. Len(w) /\ i - 1 \in 1 .. Len(w) - 1 /\ (i - 1) + 1 = i
        BY <1>1, <3>2
      <4>2. w'[i] = w[i]
        BY <2>3, <2>4, <4>1
      <4> QED
        BY <4>2
    <3> QED
      BY <3>1, <3>2
  <2>6. Line' = w'
    BY <2>1 DEF Line
  <2>7. DOMAIN w' = 1 .. Len(w) /\ DOMAIN w = 1 .. Len(w)
    BY <1>1, <2>4
  <2>8. Same(Line', Line)
    BY <2>2, <2>5, <2>6, <2>7 DEF Same
  <2>9. Shape'
    BY <1>1, <1>2, <2>1, <2>4 DEF Shape
  <2> QED
    BY <1>2, <2>1, <2>8, <2>9
<1>4. CASE pc = "new" /\ ~IsTick(e) /\ Len(w) = BufferSize - 1
  <2>1. w' = << >> /\ pc' = "idle" /\ tapping_key' = Nothing /\ last' = presses
    BY <1>4 DEF Held
  <2>2. Shape'
    BY <1>1, <1>2, <2>1, NothingRecord, ConstantFacts DEF Shape
  <2>3. Clears
    BY <2>1, NothingRecord DEF Clears, Line
  <2> QED
    BY <1>2, <2>1, <2>2, <2>3
<1>5. CASE pc = "new" /\ ~IsTick(e) /\ Len(w) # BufferSize - 1
  <2>1. /\ w' = w \o <<e>> /\ pc' \in {"idle", "drain"} /\ (pc' = "drain" => w' # << >>)
        /\ tapping_key' = tk /\ last' = upto
    BY <1>5 DEF Held
  <2>2. Line = Append(w, Cur) /\ Line' = w' /\ w' = Append(w, e)
    BY <1>1, <1>2, <1>5, <2>1, LineCases DEF Line
  <2>3. w' \in Seq(WaitingRecord) /\ Len(w') = Len(w) + 1 /\ Len(w) + 1 < BufferSize
    BY <1>1, <1>2, <1>5, <2>2
  <2>4. Shape'
    BY <1>2, <2>1, <2>3 DEF Shape
  <2>5. Same(Line', Line)
    <3>1. /\ DOMAIN Append(w, e) = 1 .. Len(w) + 1 /\ DOMAIN Append(w, Cur) = 1 .. Len(w) + 1
          /\ \A i \in 1 .. Len(w) : Append(w, e)[i] = w[i] /\ Append(w, Cur)[i] = w[i]
          /\ Append(w, e)[Len(w) + 1] = e /\ Append(w, Cur)[Len(w) + 1] = Cur
          /\ \A i \in 1 .. Len(w) + 1 : i \in 1 .. Len(w) \/ i = Len(w) + 1
      BY <1>1
    <3> HIDE DEF w
    <3> QED
      BY <2>2, <3>1 DEF Same
  <2> QED
    BY <1>2, <2>1, <2>4, <2>5
<1>6. CASE pc = "new" /\ IsTick(e)
  <2>1. /\ w' = w \o << >> /\ pc' \in {"idle", "drain"} /\ (pc' = "drain" => w' # << >>)
        /\ tapping_key' = tk /\ last' = upto
    BY <1>6 DEF Held
  <2>2. w' = w
    BY <1>1, <2>1
  <2>3. Line = w /\ Line' = w
    BY <1>2, <1>6, <2>1, <2>2, LineCases DEF Line
  <2>4. Shape'
    BY <1>1, <1>2, <2>1, <2>2 DEF Shape
  <2>5. Same(Line', Line)
    BY <2>3 DEF Same
  <2> QED
    BY <1>2, <2>1, <2>4, <2>5
<1> QED
  BY <1>3, <1>4, <1>5, <1>6, CurFacts

LEMMA HeldKeeps ==
  ASSUME Shape, pc # "idle", NEW tk \in TappingRecord, NEW reg, Held(tk, reg, last, Cur),
         Undecided(tk) <=> Undecided(tapping_key),
         Undecided(tapping_key) => tk.no = tapping_key.no
  PROVE  Good
<1>1. last \in Nat /\ Cur \in Records /\ (Cur.pressed => Cur.count = 0)
  BY CurFacts DEF Shape, TappingRecord
<1>2. /\ Shape' /\ presses' = presses /\ overtaken' = overtaken /\ pc' # "new"
      /\ (Same(Line', Line) /\ tapping_key' = tk /\ last' = last) \/ Clears
  BY <1>1, HeldLine
<1>3. Same(Line', Line) /\ tapping_key' = tk /\ last' = last => Keeps
  BY SameLine DEF Keeps, Undecided
<1> QED
  BY <1>2, <1>3 DEF Good

LEMMA HeldSettles ==
  ASSUME Shape, pc # "idle", NEW tk \in TappingRecord, NEW reg, NEW e \in Records,
         e.key = Cur.key, e.pressed = Cur.pressed, e.no = Cur.no, e.pressed => e.count = 0,
         Held(tk, reg, tapping_key.no, e), Undecided(tapping_key), ~Undecided(tk)
  PROVE  Good
<1>1. tapping_key.no \in Nat
  BY ConstantFacts DEF Shape, TappingRecord, Records
<1>2. /\ Shape' /\ presses' = presses /\ overtaken' = overtaken /\ pc' # "new"
      /\ (Same(Line', Line) /\ tapping_key' = tk /\ last' = tapping_key.no) \/ Clears
  BY <1>1, HeldLine
<1>3. Same(Line', Line) /\ tapping_key' = tk /\ last' = tapping_key.no => Settles
  BY DEF Settles, Undecided
<1> QED
  BY <1>2, <1>3 DEF Good

-----------------------------------------------------------------------------
(* The branches of process_tapping.                                        *)

\* The record looked at is processed as it is: a press only when no decision is open.
LEMMA PassOnGood ==
  ASSUME Shape, pc # "idle", NEW tk \in TappingRecord, PassOn(tk, Cur),
         Undecided(tk) <=> Undecided(tapping_key),
         Undecided(tapping_key) => tk.no = tapping_key.no /\ ~Cur.pressed
  PROVE  Good
<1>1. CASE Cur.pressed
  <2>1. /\ Consumed(tk, process_record(registered, Cur), Cur.no, Rest)
        /\ Same(Rest, Rest) /\ Rest \in Seq(WaitingRecord)
    BY <1>1, CurFacts DEF PassOn, Passed, Same
  <2> QED
    BY <1>1, <2>1, ConsumedTakes
<1>2. CASE ~Cur.pressed
  <2>1. Consumed(tk, process_record(registered, Cur), last, Rest)
    BY <1>2 DEF PassOn, Passed
  <2> QED
    BY <1>2, <2>1, ConsumedKeeps
<1> QED
  BY <1>1, <1>2

LEMMA LeastElement ==
  ASSUME NEW T, T \subseteq Nat, T # {}
  PROVE  \E x \in T : \A y \in T : x <= y
<1> DEFINE R == {ss \in Nat \X Nat : ss[1] < ss[2]}
<1>1. IsWellFoundedOn(R, Nat)
  BY NatLessThanWellFounded, Zenon DEF OpToRel
<1>2. \A x, y \in Nat : <<y, x>> \notin R => x <= y
  OBVIOUS
<1> HIDE DEF R
<1>3. PICK x \in T : \A y \in T : ~(<<y, x>> \in R)
  BY <1>1, WFMin, Zenon
<1>4. \A y \in T : x <= y
  BY <1>2, <1>3, Zenon
<1> QED
  BY <1>4

LEMMA StartTappingGood ==
  ASSUME Shape, pc # "idle", NEW reg, StartTapping(reg, Cur), Cur.pressed,
         ~Undecided(tapping_key)
  PROVE  Good
<1>1. /\ Cur \in TappingRecord /\ Cur.count = 0 /\ Rest \in Seq(WaitingRecord)
  BY CurFacts
<1>2. CASE TapReleases(Cur) = {}
  <2>1. Consumed(Cur, reg, last, Rest) /\ Same(Rest, Rest) /\ Undecided(Cur)
    BY <1>1, <1>2 DEF StartTapping, Same, Undecided
  <2> QED
    BY <1>1, <2>1, ConsumedTakes
<1>3. CASE TapReleases(Cur) # {}
  <2> DEFINE tk == [Cur EXCEPT !.count = 1]
             i  == CHOOSE i \in TapReleases(Cur) : \A j \in TapReleases(Cur) : i <= j
             ws == [Rest EXCEPT ![i].count = 1]
  <2>1. Consumed(tk, process_record(reg, tk), Cur.no, ws)
    BY <1>3 DEF StartTapping
  <2>2. tk \in TappingRecord /\ ~Undecided(tk)
    BY <1>1 DEF TappingRecord, Records, Undecided
  <2>3. i \in DOMAIN Rest /\ ~Rest[i].pressed
    <3>1. TapReleases(Cur) \subseteq Nat
      <4>1. DOMAIN Rest \subseteq Nat
        BY <1>1
      <4> QED
        BY <4>1 DEF TapReleases
    <3>2. \E x \in TapReleases(Cur) : \A y \in TapReleases(Cur) : x <= y
      BY <1>3, <3>1, LeastElement
    <3>3. i \in TapReleases(Cur)
      BY <3>2
    <3> QED
      BY <3>3 DEF TapReleases
  <2>4. Rest[i] \in WaitingRecord
    BY <1>1, <2>3
  <2> HIDE DEF i
  <2>5. [Rest[i] EXCEPT !.count = 1] \in WaitingRecord
    BY <2>3, <2>4 DEF WaitingRecord, Records
  <2>6. ws = [Rest EXCEPT ![i] = [Rest[i] EXCEPT !.count = 1]]
    BY <1>1, <2>3
  <2>7. ws \in Seq(WaitingRecord)
    BY <1>1, <2>3, <2>5, <2>6
  <2>8. Same(ws, Rest)
    <3>1. DOMAIN ws = DOMAIN Rest
      BY <1>1
    <3>2. ASSUME NEW j \in DOMAIN Rest
          PROVE  ws[j].pressed = Rest[j].pressed /\ ws[j].no = Rest[j].no
      <4>1. CASE j = i
        BY <1>1, <2>3, <2>4, <2>6, <4>1 DEF WaitingRecord, Records
      <4>2. CASE j # i
        BY <1>1, <2>3, <2>6, <4>2
      <4> QED
        BY <4>1, <4>2
    <3> HIDE DEF ws
    <3> QED
      BY <3>1, <3>2 DEF Same
  <2> HIDE DEF tk, ws
  <2> QED
    BY <2>1, <2>2, <2>7, <2>8, ConsumedTakes
<1> QED
  BY <1>2, <1>3

LEMMA ResetGood ==
  ASSUME Shape, pc # "idle", Reset(Cur)
  PROVE  Good
<1>1. tapping_key \in TappingRecord /\ ~Undecided(tapping_key)
  BY DEF Shape, Reset, TappingRecord, Undecided
<1>2. CASE IsTick(Cur) /\ Consumed(tapping_key, registered, last, Rest)
  BY <1>1, <1>2, CurFacts, ConsumedKeeps
<1>3. CASE Cur.pressed /\ StartTapping(registered, Cur)
  BY <1>1, <1>3, StartTappingGood
<1>4. CASE PassOn(tapping_key, Cur)
  BY <1>1, <1>4, PassOnGood
<1> QED
  BY <1>2, <1>3, <1>4 DEF Reset

\* The tapping key is settled as a hold, by any record.
LEMMA SettleAsHoldGood ==
  ASSUME Shape, pc # "idle", Undecided(tapping_key), NEW t, t.no = tapping_key.no,
         SettleAsHold(t, Cur)
  PROVE  Good
<1>1. Cur \in Records /\ (Cur.pressed => Cur.count = 0)
  BY CurFacts DEF TappingRecord
<1>2. Held(Nothing, process_record(registered, t), tapping_key.no, Cur)
  BY DEF SettleAsHold
<1> QED
  BY <1>1, <1>2, NothingRecord, HeldSettles

LEMMA UnsettledGood ==
  ASSUME Shape, pc # "idle", Undecided(tapping_key), Unsettled(tapping_key, Cur)
  PROVE  Good
<1> DEFINE t == tapping_key
           interrupted == [t EXCEPT !.interrupted = TRUE]
<1>1. t \in TappingRecord /\ Cur \in TappingRecord /\ (Cur.pressed => Cur.count = 0)
  BY CurFacts DEF Shape
<1>2. /\ interrupted \in TappingRecord /\ interrupted.no = t.no /\ Undecided(interrupted)
  BY <1>1 DEF TappingRecord, Records, Undecided
<1>3. CASE FirstTap(t, Cur)
  <2> DEFINE tk == [t EXCEPT !.count = 1]
             e  == [Cur EXCEPT !.count = 1, !.interrupted = t.interrupted]
  <2>1. ~Cur.pressed /\ Held(tk, process_record(registered, tk), t.no, e)
    BY <1>3 DEF FirstTap
  <2>2. tk \in TappingRecord /\ ~Undecided(tk)
    BY <1>1 DEF TappingRecord, Records, Undecided
  <2>3. e \in Records
    <3>1. t.interrupted \in BOOLEAN /\ 1 \in 0 .. 15 /\ Cur \in Records
      BY <1>1 DEF TappingRecord, Records
    <3> QED
      BY <3>1 DEF Records
  <2>4. e.key = Cur.key /\ e.pressed = Cur.pressed /\ e.no = Cur.no
    BY <1>1 DEF TappingRecord, Records
  <2> HIDE DEF tk, e
  <2> QED
    BY <2>1, <2>2, <2>3, <2>4, HeldSettles
<1>4. CASE ~Cur.pressed /\ SettleAsHold(t, Cur)
  BY <1>4, SettleAsHoldGood
<1>5. CASE ~Cur.pressed /\ Held(t, registered, last, Cur)
  BY <1>1, <1>5, HeldKeeps
<1>6. CASE ~Cur.pressed /\ PassOn(t, Cur)
  BY <1>1, <1>6, PassOnGood
<1>7. CASE SettleAsHold(interrupted, Cur)
  <2> HIDE DEF interrupted
  <2> QED
    BY <1>2, <1>7, SettleAsHoldGood
<1>8. CASE Held(interrupted, registered, last, Cur)
  <2> HIDE DEF interrupted
  <2> QED
    BY <1>2, <1>8, HeldKeeps
<1> QED
  BY <1>3, <1>4, <1>5, <1>6, <1>7, <1>8 DEF Unsettled

LEMMA SettledGood ==
  ASSUME Shape, pc # "idle", tapping_key.pressed, tapping_key.count > 0, NEW after,
         Settled(tapping_key, Cur, after)
  PROVE  Good
<1> DEFINE t == tapping_key
<1>1. t \in TappingRecord /\ Cur \in TappingRecord
  BY CurFacts DEF Shape
<1>2. ~Undecided(t)
  <2>1. t.count \in Nat /\ t.count # 0
    BY <1>1 DEF TappingRecord, Records
  <2> QED
    BY <2>1 DEF Undecided
<1>3. CASE ~Cur.pressed /\ SettledRelease(t, Cur, after)
  <2> DEFINE r  == [Cur EXCEPT !.count = t.count, !.interrupted = t.interrupted]
             tk == IF after = "keep" THEN r ELSE Nothing
  <2>1. Consumed(tk, process_record(registered, r), last, Rest)
    BY <1>3 DEF SettledRelease
  <2>2. r \in TappingRecord /\ ~Undecided(r)
    BY <1>1, <1>3 DEF TappingRecord, Records, Undecided
  <2>3. tk \in TappingRecord /\ ~Undecided(tk)
    BY <2>2, NothingRecord
  <2> HIDE DEF r, tk
  <2> QED
    BY <1>2, <1>3, <2>1, <2>3, ConsumedKeeps
<1>4. ASSUME NEW reg, Cur.pressed, StartTapping(reg, Cur) PROVE Good
  BY <1>2, <1>4, StartTappingGood
<1>5. CASE PassOn(t, Cur)
  BY <1>1, <1>2, <1>5, PassOnGood
<1> QED
  BY <1>3, <1>4, <1>5 DEF Settled

LEMMA PressedGood ==
  ASSUME Shape, pc # "idle", Pressed(tapping_key, Cur)
  PROVE  Good
<1> DEFINE t == tapping_key
<1>1. t \in TappingRecord /\ t.pressed /\ (t.count = 0 => Undecided(t))
  BY DEF Shape, Pressed, Undecided
<1>2. CASE IsTick(Cur) /\ Consumed(t, registered, last, Rest)
  BY <1>1, <1>2, CurFacts, ConsumedKeeps
<1>3. CASE t.count = 0 /\ Unsettled(t, Cur)
  BY <1>1, <1>3, UnsettledGood
<1>4. CASE t.count = 0 /\ SettleAsHold(t, Cur)
  BY <1>1, <1>4, SettleAsHoldGood
<1>5. ASSUME NEW after, t.count > 0, Settled(t, Cur, after) PROVE Good
  BY <1>1, <1>5, SettledGood
<1> QED
  BY <1>2, <1>3, <1>4, <1>5 DEF Pressed

LEMMA ReleasedGood ==
  ASSUME Shape, pc # "idle", Released(tapping_key, Cur)
  PROVE  Good
<1> DEFINE t == tapping_key
           interrupted == [t EXCEPT !.interrupted = TRUE]
<1>1. t \in TappingRecord /\ ~t.pressed /\ ~Undecided(t) /\ Cur \in TappingRecord
      /\ (Cur.pressed => Cur.count = 0)
  BY CurFacts DEF Shape, Released, Undecided
<1>2. CASE IsTick(Cur) /\ Consumed(t, registered, last, Rest)
  BY <1>1, <1>2, CurFacts, ConsumedKeeps
<1>3. CASE Cur.pressed /\ Again(t, Cur)
  <2> DEFINE tk == [Cur EXCEPT !.count = IF t.count < 15 THEN t.count + 1 ELSE t.count]
  <2>0. Rest \in Seq(WaitingRecord) /\ Same(Rest, Rest)
    BY CurFacts DEF Same
  <2>1. CASE t.count > 0 /\ Consumed(tk, process_record(registered, tk), Cur.no, Rest)
    <3>1. t.count \in 0 .. 15
      BY <1>1 DEF TappingRecord, Records
    <3>2. (IF t.count < 15 THEN t.count + 1 ELSE t.count) \in 1 .. 15
      BY <2>1, <3>1
    <3>3. tk \in TappingRecord /\ tk.count # 0
      BY <1>1, <3>2 DEF TappingRecord, Records
    <3> HIDE DEF tk
    <3> QED
      BY <1>1, <1>3, <2>0, <2>1, <3>3, ConsumedTakes DEF Undecided
  <2>2. CASE Consumed(Cur, registered, last, Rest)
    BY <1>1, <1>3, <2>0, <2>2, ConsumedTakes DEF Undecided
  <2> QED
    BY <1>3, <2>1, <2>2 DEF Again
<1>4. CASE Cur.pressed /\ StartTapping(registered, Cur)
  BY <1>1, <1>4, StartTappingGood
<1>5. CASE PassOn(interrupted, Cur)
  <2>1. interrupted \in TappingRecord /\ ~Undecided(interrupted)
    BY <1>1 DEF TappingRecord, Records, Undecided
  <2> HIDE DEF interrupted
  <2> QED
    BY <1>1, <1>5, <2>1, PassOnGood
<1>6. CASE PassOn(t, Cur)
  BY <1>1, <1>6, PassOnGood
<1>7. CASE Held(Nothing, registered, last, Cur)
  BY <1>1, <1>7, NothingRecord, HeldKeeps
<1> QED
  BY <1>2, <1>3, <1>4, <1>5, <1>6, <1>7 DEF Released

LEMMA ProcessGood == ASSUME Shape, process_tapping PROVE Good
BY ResetGood, PressedGood, ReleasedGood DEF process_tapping

-----------------------------------------------------------------------------
(* The key events and the clock.                                           *)

\* A record joins the line, behind an undecided key if others wait.
LEMMA EventShape ==
  ASSUME Shape, NEW e \in WaitingRecord, e.count = 0, Event(e),
         presses' \in 0 .. MaxPresses
  PROVE  Shape' /\ pc = "idle" /\ Line = waiting_buffer /\ Line' = Append(waiting_buffer, e)
<1>1. /\ pc = "idle" /\ pc' = "new" /\ arrived' = e
      /\ UNCHANGED <<tapping_key, waiting_buffer, last>>
      /\ overtaken' \in BOOLEAN
  BY DEF Event
<1>2. e \in TappingRecord /\ ~IsTick(e)
  BY DEF WaitingRecord, TappingRecord, IsTick
<1> QED
  BY <1>1, <1>2 DEF Shape, Line, IsTick

LEMMA EventInLine ==
  ASSUME Shape, InLine, NEW e \in WaitingRecord, Event(e), ~overtaken',
         Line = waiting_buffer, Line' = Append(waiting_buffer, e), presses' \in Nat,
         \/ e.pressed /\ presses' = presses + 1 /\ e.no = presses'
         \/ ~e.pressed /\ presses' = presses
  PROVE  InLine' /\ last' = last
<1> DEFINE w == waiting_buffer
           U == IF Undecided(tapping_key) THEN {tapping_key.no} ELSE {}
<1>1. /\ w \in Seq(WaitingRecord) /\ presses \in Nat /\ last \in Nat
      /\ \A n \in Numbers(w) : n \in Int
      /\ tapping_key.no \in Int
  BY LineFacts DEF Shape
<1>2. /\ Numbers(w) \cup U = (last + 1) .. presses /\ last <= presses /\ Ordered(w)
      /\ Undecided(tapping_key) => \A n \in Numbers(w) : tapping_key.no < n
  BY DEF InLine, Unprocessed
<1>3. /\ UNCHANGED <<tapping_key, waiting_buffer, last>>
      /\ w # << >> => Undecided(tapping_key)
  BY DEF Event
<1>4. \A n \in Numbers(w) : n <= presses
  BY <1>1, <1>2
<1>5. Undecided(tapping_key) => tapping_key.no <= presses
  <2>1. Undecided(tapping_key) => tapping_key.no \in (last + 1) .. presses
    BY <1>2
  <2> QED
    BY <1>1, <2>1
<1>6. /\ Numbers(Append(w, e)) \cup U = (last + 1) .. presses'
      /\ last <= presses'
      /\ Ordered(Append(w, e))
      /\ Undecided(tapping_key) => \A n \in Numbers(Append(w, e)) : tapping_key.no < n
  <2>1. CASE e.pressed /\ presses' = presses + 1 /\ e.no = presses'
    <3>1. Numbers(Append(w, e)) = Numbers(w) \cup {presses + 1} /\ Ordered(Append(w, e))
      <4>1. \A n \in Numbers(w) : n < e.no
        BY <1>1, <1>4, <2>1
      <4> QED
        BY <1>1, <1>2, <2>1, <4>1, LineAppend
    <3>2. (last + 1) .. presses' = ((last + 1) .. presses) \cup {presses + 1}
      BY <1>1, <1>2, <2>1
    <3>3. Undecided(tapping_key) => tapping_key.no < presses + 1
      BY <1>1, <1>5
    <3> HIDE DEF w, U
    <3>4. Numbers(Append(w, e)) \cup U = (last + 1) .. presses'
      BY <1>2, <3>1, <3>2
    <3>5. last <= presses'
      BY <1>1, <1>2, <2>1
    <3> QED
      BY <1>2, <3>1, <3>3, <3>4, <3>5
  <2>2. CASE ~e.pressed /\ presses' = presses
    <3>1. Numbers(Append(w, e)) = Numbers(w) /\ Ordered(Append(w, e))
      BY <1>1, <1>2, <2>2, LineAppend
    <3> QED
      BY <1>2, <2>2, <3>1
  <2> QED
    BY <2>1, <2>2
<1>7. (Unprocessed = (last + 1) .. presses)'
  BY <1>3, <1>6 DEF Unprocessed, Undecided
<1> QED
  BY <1>3, <1>6, <1>7 DEF InLine, Undecided

LEMMA Events ==
  ASSUME TapInv, NEW k \in Keys, Press(k) \/ Release(k)
  PROVE  TapInv' /\ (~overtaken' => last' >= last)
<1>1. Shape /\ presses \in Nat /\ last \in Nat /\ k # NoKey /\ MaxPresses \in Nat
  BY ConstantFacts DEF TapInv, Shape
<1>2. PICK e \in WaitingRecord :
        /\ e.count = 0 /\ Event(e) /\ presses' \in 0 .. MaxPresses
        /\ \/ e.pressed /\ presses' = presses + 1 /\ e.no = presses'
           \/ ~e.pressed /\ presses' = presses
  <2>1. CASE Press(k)
    <3>1. presses' = presses + 1 /\ presses + 1 \in 0 .. MaxPresses
      BY <1>1, <2>1 DEF Press
    <3>2. Record(k, TRUE, presses + 1) \in WaitingRecord
      BY <1>1, <3>1, ConstantFacts DEF Record, WaitingRecord, Records
    <3>3. Event(Record(k, TRUE, presses + 1))
      BY <2>1 DEF Press
    <3>4. /\ Record(k, TRUE, presses + 1).count = 0 /\ Record(k, TRUE, presses + 1).pressed
          /\ Record(k, TRUE, presses + 1).no = presses + 1
      BY DEF Record
    <3> QED
      BY <3>1, <3>2, <3>3, <3>4
  <2>2. CASE Release(k)
    <3>1. presses' = presses /\ presses \in 0 .. MaxPresses
      BY <1>1, <2>2 DEF Release, Shape
    <3>2. Record(k, FALSE, 0) \in WaitingRecord
      BY <1>1, ConstantFacts DEF Record, WaitingRecord, Records
    <3>3. Event(Record(k, FALSE, 0))
      BY <2>2 DEF Release
    <3>4. Record(k, FALSE, 0).count = 0 /\ ~Record(k, FALSE, 0).pressed
      BY DEF Record
    <3> QED
      BY <3>1, <3>2, <3>3, <3>4
  <2> QED
    BY <2>1, <2>2
<1>3. Shape' /\ Line = waiting_buffer /\ Line' = Append(waiting_buffer, e)
  BY <1>1, <1>2, EventShape
<1>4. ASSUME ~overtaken' PROVE InLine' /\ last' = last
  <2>1. ~overtaken
    BY <1>2, <1>4 DEF Event
  <2>2. InLine /\ presses' \in Nat
    BY <1>2, <2>1 DEF TapInv
  <2> QED
    BY <1>1, <1>2, <1>3, <1>4, <2>2, EventInLine
<1> QED
  BY <1>1, <1>3, <1>4 DEF TapInv

\* Neither a tick nor a millisecond changes the line.
LEMMA Unmoved ==
  ASSUME TapInv, Shape', Same(Line', Line), UNCHANGED <<presses, last, overtaken>>,
         tapping_key'.pressed = tapping_key.pressed, tapping_key'.count = tapping_key.count,
         tapping_key'.no = tapping_key.no,
         pc' = "new" => IsTick(arrived')
  PROVE  TapInv' /\ last' >= last
<1>1. Numbers(Line') = Numbers(Line) /\ (Ordered(Line) => Ordered(Line'))
  BY SameLine
<1>2. InLine => InLine'
  BY <1>1 DEF InLine, Unprocessed, Undecided, IsTick, Numbers, Ordered
<1>3. last' >= last
  BY DEF TapInv, Shape
<1> QED
  BY <1>2, <1>3 DEF TapInv

LEMMA OlderFacts ==
  ASSUME NEW r \in Records
  PROVE  /\ Older(r) \in Records /\ Older(r).key = r.key /\ Older(r).pressed = r.pressed
         /\ Older(r).count = r.count /\ Older(r).no = r.no
<1>1. CASE IsTick(r) \/ r.age = AgeMax
  BY <1>1 DEF Older
<1>2. CASE ~(IsTick(r) \/ r.age = AgeMax)
  <2>1. Older(r) = [r EXCEPT !.age = r.age + 1]
    BY <1>2 DEF Older, Records
  <2>2. r.age + 1 \in 0 .. AgeMax
    BY <1>2, ConstantFacts DEF Records
  <2>3. [r EXCEPT !.age = r.age + 1] \in Records
    BY <2>2 DEF Records
  <2> QED
    BY <2>1, <2>3 DEF Records
<1> QED
  BY <1>1, <1>2

LEMMA TickClock ==
  ASSUME TapInv, Tick \/ Clock
  PROVE  TapInv' /\ last' >= last
<1> DEFINE w == waiting_buffer
<1>1. /\ w \in Seq(WaitingRecord) /\ Len(w) < BufferSize /\ tapping_key \in TappingRecord
      /\ presses \in 0 .. MaxPresses /\ last \in Nat /\ overtaken \in BOOLEAN
  BY DEF TapInv, Shape
<1>2. CASE Tick
  <2>1. /\ pc = "idle" /\ pc' = "new" /\ arrived' = Nothing
        /\ UNCHANGED <<tapping_key, waiting_buffer, presses, last, overtaken>>
    BY <1>2 DEF Tick
  <2>2. Nothing.count = 0 /\ IsTick(Nothing)
    BY DEF Nothing, Record, IsTick
  <2>3. Shape'
    BY <1>1, <2>1, <2>2, NothingRecord DEF Shape
  <2>4. Line' = Line
    BY <2>1, <2>2 DEF Line
  <2> QED
    BY <2>1, <2>2, <2>3, <2>4, Unmoved DEF Same
<1>3. CASE Clock
  <2>1. /\ pc = "idle" /\ pc' = "idle"
        /\ tapping_key' = Older(tapping_key)
        /\ w' = [i \in DOMAIN w |-> Older(w[i])]
        /\ UNCHANGED <<arrived, presses, last, overtaken>>
    BY <1>3 DEF Clock
  <2>2. /\ tapping_key' \in TappingRecord /\ tapping_key'.pressed = tapping_key.pressed
        /\ tapping_key'.count = tapping_key.count /\ tapping_key'.no = tapping_key.no
    BY <1>1, <2>1, OlderFacts DEF TappingRecord
  <2>3. \A i \in DOMAIN w : /\ Older(w[i]) \in WaitingRecord
                            /\ Older(w[i]).pressed = w[i].pressed /\ Older(w[i]).no = w[i].no
    <3> SUFFICES ASSUME NEW i \in DOMAIN w
                 PROVE  /\ Older(w[i]) \in WaitingRecord
                        /\ Older(w[i]).pressed = w[i].pressed /\ Older(w[i]).no = w[i].no
      OBVIOUS
    <3>1. w[i] \in WaitingRecord
      BY <1>1
    <3>2. w[i] \in Records
      BY <3>1 DEF WaitingRecord
    <3> QED
      BY <3>1, <3>2, OlderFacts DEF WaitingRecord
  <2>4. DOMAIN w' = DOMAIN w /\ DOMAIN w = 1 .. Len(w) /\ Len(w) \in Nat
    BY <1>1, <2>1
  <2>5. w' \in Seq(WaitingRecord) /\ Len(w') = Len(w)
    BY <2>1, <2>3, <2>4
  <2>6. Same(w', w)
    BY <2>1, <2>3, <2>4 DEF Same
  <2>7. Line = w /\ Line' = w'
    BY <2>1 DEF Line
  <2>8. Shape'
    BY <1>1, <2>1, <2>2, <2>5 DEF Shape, TapInv
  <2> QED
    BY <2>1, <2>2, <2>6, <2>7, <2>8, Unmoved
<1> QED
  BY <1>2, <1>3

-----------------------------------------------------------------------------
LEMMA TapInit == ASSUME Init PROVE TapInv
<1>1. Shape
  <2>1. Nothing.count = 0 /\ 0 \in 0 .. MaxPresses /\ << >> \in Seq(WaitingRecord)
    BY ConstantFacts DEF Nothing, Record
  <2>2. Len(<< >>) < BufferSize
    BY ConstantFacts
  <2>3. /\ waiting_buffer = << >> /\ tapping_key = Nothing /\ arrived = Nothing /\ pc = "idle"
        /\ presses = 0 /\ last = 0 /\ overtaken \in BOOLEAN
    BY DEF Init
  <2> QED
    BY <2>1, <2>2, <2>3, NothingRecord DEF Shape
<1>2. Line = << >> /\ ~Undecided(tapping_key)
  BY NothingRecord DEF Init, Line
<1>3. Numbers(Line) = {} /\ Ordered(Line) /\ (0 + 1) .. 0 = {}
  BY <1>2 DEF Numbers, Ordered
<1>4. InLine
  BY <1>2, <1>3 DEF Init, InLine, Unprocessed
<1> QED
  BY <1>1, <1>4 DEF TapInv

\* One step of the specification.
LEMMA TapStep ==
  ASSUME TapInv, [Next]_vars
  PROVE  TapInv' /\ (~overtaken' => last' >= last)
<1>1. CASE \E k \in Keys : Press(k) \/ Release(k)
  BY <1>1, Events
<1>2. CASE Tick \/ Clock
  BY <1>2, TickClock
<1>3. CASE process_tapping
  <2>1. /\ Shape /\ Shape' /\ presses' = presses /\ overtaken' = overtaken /\ pc' # "new"
        /\ InLine => Takes \/ Keeps \/ Settles \/ Clears
    BY <1>3, ProcessGood DEF TapInv, Good
  <2>2. InLine => InLine' /\ last' >= last
    BY <2>1, KindsInLine
  <2> QED
    BY <2>1, <2>2 DEF TapInv
<1>4. CASE UNCHANGED vars
  <2>1. Shape' /\ Same(Line', Line) /\ last' >= last
    BY <1>4 DEF vars, TapInv, Shape, Line, Same, IsTick
  <2>2. InLine => InLine'
    BY <1>4 DEF vars, InLine, Unprocessed, Line, Numbers, Ordered, Undecided, IsTick
  <2> QED
    BY <1>4, <2>1, <2>2 DEF TapInv, vars
<1> QED
  BY <1>1, <1>2, <1>3, <1>4 DEF Next

\* The inductive invariant: the presses stand in line in the order they were made,
\* behind the undecided tapping key, whatever branch of process_tapping is taken.
THEOREM TapInductive == Spec => []TapInv
<1>1. TapInv /\ [Next]_vars => TapInv'
  BY TapStep
<1> QED
  BY <1>1, TapInit, PTL DEF Spec

\* No press is lost and none is processed twice by action_tapping_process, as long
\* as no key event overtakes the records that wait.
THEOREM PressesKept == Spec => []NoPressLost
<1>1. TapInv => NoPressLost
  BY DEF TapInv, InLine, NoPressLost
<1> QED
  BY <1>1, TapInductive, PTL

\* Presses are processed in the order they were made, in every decision mode.
THEOREM PressesOrdered == Spec => PressesInOrder
<1>1. TapInv /\ [Next]_vars => [~overtaken' => last' >= last]_vars
  BY TapStep
<1> QED
  BY <1>1, TapInductive, PTL DEF Spec, PressesInOrder

-----------------------------------------------------------------------------
(***************************************************************************)
(* The branches of process_tapping once more, by what they do to the       *)
(* tapping key and to the record looked at.                                *)
(***************************************************************************)

\* Not registered as a tap that is still down.
Young(t) == ~(t.pressed /\ t.count > 0)

\* A press becomes the tapping key; one tapped before is unregistered.
Unregistered(R, t) ==
  IF t.pressed /\ t.count > 1 THEN R \ {<<t.key, "tap">>} ELSE R

InTerm == TRUE \in Within(Cur, tapping_key, TappingTerm)
OutOfTerm == FALSE \in Within(Cur, tapping_key, TappingTerm)
EarlyHold == build.PermissiveHold \cup build.HoldOnOtherKeyPress
OwnRelease == Cur.key = tapping_key.key /\ ~Cur.pressed
Interrupted == [tapping_key EXCEPT !.interrupted = TRUE]

TickPasses ==
  /\ IsTick(Cur) /\ Consumed(tapping_key, registered, last, Rest)
  /\ tapping_key.key = NoKey \/ ~Young(tapping_key) \/ InTerm
Passes ==
  /\ ~IsTick(Cur) /\ \E tk \in {tapping_key, Interrupted} : PassOn(tk, Cur)
  /\ Undecided(tapping_key) => ~Cur.pressed /\ ~waiting_buffer_typed(Cur)
  /\ tapping_key.pressed => ~OwnRelease
Starts ==
  /\ Cur.pressed /\ ~Undecided(tapping_key)
  /\ StartTapping(Unregistered(registered, tapping_key), Cur)
Restarts ==
  /\ tapping_key.key # NoKey /\ ~tapping_key.pressed
  /\ Cur.pressed /\ Cur.key = tapping_key.key /\ Again(tapping_key, Cur)
Taps ==
  /\ ~IsTick(Cur) /\ Undecided(tapping_key) /\ InTerm /\ FirstTap(tapping_key, Cur)
Holds ==
  /\ Undecided(tapping_key) /\ (OutOfTerm \/ tapping_key.key \in EarlyHold)
  /\ Held(Nothing, registered \cup {<<tapping_key.key, "hold">>}, tapping_key.no, Cur)
KeepsWaiting ==
  /\ ~IsTick(Cur) /\ Undecided(tapping_key) /\ InTerm /\ ~OwnRelease
  /\ \E tk \in {tapping_key, Interrupted} : Held(tk, registered, last, Cur)
Releases ==
  /\ ~IsTick(Cur) /\ ~Young(tapping_key) /\ OwnRelease
  /\ \E after : SettledRelease(tapping_key, Cur, after)
Expires ==
  /\ tapping_key.key # NoKey /\ ~tapping_key.pressed /\ OutOfTerm
  /\ Held(Nothing, registered, last, Cur)

Branch ==
  \/ TickPasses \/ Passes \/ Starts \/ Restarts \/ Taps \/ Holds \/ KeepsWaiting
  \/ Releases \/ Expires


LEMMA WithinBool ==
  ASSUME NEW e, NEW t, NEW term
  PROVE  Within(e, t, term) \subseteq BOOLEAN
<1>1. CASE t.age = AgeMax
  BY <1>1 DEF Within
<1>2. CASE t.age # AgeMax
  <2>1. (t.age - e.age \in 0 .. term - 1) \in BOOLEAN
    OBVIOUS
  <2>2. Within(e, t, term) = {t.age - e.age \in 0 .. term - 1}
    BY <1>2 DEF Within
  <2> QED
    BY <2>1, <2>2
<1> QED
  BY <1>1, <1>2

LEMMA ResetBranch ==
  ASSUME Shape, pc # "idle", Reset(Cur)
  PROVE  Branch
<1>1. tapping_key.key = NoKey /\ ~tapping_key.pressed /\ ~Undecided(tapping_key)
  BY DEF Shape, Reset, TappingRecord, Undecided
<1>2. CASE IsTick(Cur) /\ Consumed(tapping_key, registered, last, Rest)
  BY <1>1, <1>2 DEF Branch, TickPasses
<1>3. CASE Cur.pressed /\ StartTapping(registered, Cur)
  <2>1. Unregistered(registered, tapping_key) = registered
    BY <1>1 DEF Unregistered
  <2> QED
    BY <1>1, <1>3, <2>1 DEF Branch, Starts
<1>4. CASE ~IsTick(Cur) /\ PassOn(tapping_key, Cur)
  BY <1>1, <1>4 DEF Branch, Passes
<1> QED
  BY <1>2, <1>3, <1>4 DEF Reset

LEMMA HoldKind ==
  ASSUME NEW t, t.pressed, t.count = 0, NEW R
  PROVE  process_record(R, t) = R \cup {<<t.key, "hold">>}
BY DEF process_record, Kind

LEMMA UnsettledBranch ==
  ASSUME Shape, pc # "idle", ~IsTick(Cur), tapping_key.pressed, tapping_key.count = 0, InTerm,
         Unsettled(tapping_key, Cur)
  PROVE  Branch
<1> DEFINE t == tapping_key
<1>1. Undecided(t) /\ t \in Records
  BY DEF Undecided, Shape, TappingRecord
<1>2. /\ Interrupted.pressed /\ Interrupted.count = 0 /\ Interrupted.key = t.key
      /\ Interrupted.no = t.no
  BY <1>1 DEF Interrupted, Records
<1>3. CASE FirstTap(t, Cur)
  BY <1>1, <1>3 DEF Branch, Taps
<1>4. CASE t.key \in EarlyHold /\ SettleAsHold(t, Cur)
  <2>1. process_record(registered, t) = registered \cup {<<t.key, "hold">>}
    BY HoldKind
  <2> QED
    BY <1>1, <1>4, <2>1 DEF Branch, Holds, SettleAsHold
<1>5. CASE t.key \in EarlyHold /\ SettleAsHold(Interrupted, Cur)
  <2>1. process_record(registered, Interrupted) = registered \cup {<<t.key, "hold">>}
    BY <1>2, HoldKind
  <2> QED
    BY <1>1, <1>2, <1>5, <2>1 DEF Branch, Holds, SettleAsHold
<1>6. CASE /\ Cur.key # t.key /\ ~Cur.pressed /\ ~waiting_buffer_typed(Cur)
           /\ PassOn(t, Cur)
  BY <1>1, <1>6 DEF Branch, Passes, OwnRelease
<1>7. CASE Cur.key # t.key /\ Held(t, registered, last, Cur)
  BY <1>1, <1>7 DEF Branch, KeepsWaiting, OwnRelease
<1>8. CASE Cur.pressed /\ Held(Interrupted, registered, last, Cur)
  BY <1>1, <1>8 DEF Branch, KeepsWaiting, OwnRelease
<1> QED
  <2>1. \/ FirstTap(t, Cur)
        \/ /\ Cur.key # t.key /\ ~Cur.pressed
           /\ (t.key \in EarlyHold /\ SettleAsHold(t, Cur)) \/ Held(t, registered, last, Cur)
        \/ /\ Cur.key # t.key /\ ~Cur.pressed /\ ~waiting_buffer_typed(Cur)
           /\ Held(t, registered, last, Cur) \/ PassOn(t, Cur)
        \/ /\ Cur.pressed
           /\ \/ t.key \in EarlyHold /\ SettleAsHold(Interrupted, Cur)
              \/ Held(Interrupted, registered, last, Cur)
    BY DEF Unsettled, Interrupted, EarlyHold
  <2> QED
    BY <1>3, <1>4, <1>5, <1>6, <1>7, <1>8, <2>1

LEMMA SettledBranch ==
  ASSUME Shape, pc # "idle", ~IsTick(Cur), tapping_key.pressed, tapping_key.count > 0, NEW after,
         Settled(tapping_key, Cur, after)
  PROVE  Branch
<1> DEFINE t == tapping_key
<1>1. t \in Records /\ ~Young(t) /\ ~Undecided(t)
  <2>1. t \in Records
    BY DEF Shape, TappingRecord
  <2>2. t.count \in Nat /\ t.count # 0
    BY <2>1 DEF Records
  <2> QED
    BY <2>1, <2>2 DEF Young, Undecided
<1>2. CASE OwnRelease /\ SettledRelease(t, Cur, after)
  BY <1>1, <1>2 DEF Branch, Releases
<1>3. CASE /\ Cur.pressed
           /\ StartTapping(IF t.count > 1
                           THEN process_record(registered, [t EXCEPT !.pressed = FALSE])
                           ELSE registered, Cur)
  <2>1. t.count > 1 => process_record(registered, [t EXCEPT !.pressed = FALSE])
                         = registered \ {<<t.key, "tap">>}
    BY <1>1 DEF process_record, Kind, Records
  <2>2. Unregistered(registered, t) = IF t.count > 1
                           THEN process_record(registered, [t EXCEPT !.pressed = FALSE])
                           ELSE registered
    BY <2>1 DEF Unregistered
  <2> QED
    BY <1>1, <1>3, <2>2 DEF Branch, Starts
<1>4. CASE ~OwnRelease /\ PassOn(t, Cur)
  BY <1>1, <1>4 DEF Branch, Passes
<1> QED
  BY <1>2, <1>3, <1>4 DEF Settled, OwnRelease

LEMMA PressedBranch ==
  ASSUME Shape, pc # "idle", Pressed(tapping_key, Cur)
  PROVE  Branch
<1> DEFINE t == tapping_key
<1>1. t.pressed /\ (t.count = 0 => Undecided(t)) /\ (t.count > 0 => ~Young(t))
  BY DEF Pressed, Undecided, Young
<1>2. CASE IsTick(Cur) /\ Consumed(t, registered, last, Rest) /\ (InTerm \/ t.count > 0)
  BY <1>1, <1>2 DEF Branch, TickPasses
<1>3. CASE ~IsTick(Cur) /\ t.count = 0 /\ InTerm /\ Unsettled(t, Cur)
  BY <1>1, <1>3, UnsettledBranch
<1>4. CASE t.count = 0 /\ OutOfTerm /\ SettleAsHold(t, Cur)
  <2>1. process_record(registered, t) = registered \cup {<<t.key, "hold">>}
    BY <1>1, <1>4, HoldKind
  <2> QED
    BY <1>1, <1>4, <2>1 DEF Branch, Holds, SettleAsHold
<1>5. ASSUME NEW after, ~IsTick(Cur), t.count > 0, Settled(t, Cur, after) PROVE Branch
  BY <1>1, <1>5, SettledBranch
<1> QED
  <2>1. PICK within \in Within(Cur, t, TappingTerm) :
          IF within
          THEN \/ IsTick(Cur) /\ Consumed(t, registered, last, Rest)
               \/ ~IsTick(Cur) /\ t.count = 0 /\ Unsettled(t, Cur)
               \/ ~IsTick(Cur) /\ t.count > 0 /\ Settled(t, Cur, "keep")
          ELSE \/ t.count = 0 /\ SettleAsHold(t, Cur)
               \/ t.count > 0 /\ IsTick(Cur) /\ Consumed(t, registered, last, Rest)
               \/ t.count > 0 /\ ~IsTick(Cur) /\ Settled(t, Cur, "clear")
    BY DEF Pressed
  <2>2. (within => InTerm) /\ (~within => OutOfTerm)
    <3>1. within \in BOOLEAN
      BY <2>1, WithinBool
    <3> QED
      BY <2>1, <3>1 DEF InTerm, OutOfTerm
  <2> QED
    BY <1>2, <1>3, <1>4, <1>5, <2>1, <2>2

LEMMA ReleasedBranch ==
  ASSUME Shape, pc # "idle", Released(tapping_key, Cur)
  PROVE  Branch
<1> DEFINE t == tapping_key
<1>1. t.key # NoKey /\ ~t.pressed /\ ~Undecided(t) /\ Unregistered(registered, t) = registered
  BY DEF Released, Undecided, Unregistered
<1>2. CASE IsTick(Cur) /\ Consumed(t, registered, last, Rest) /\ InTerm
  BY <1>2 DEF Branch, TickPasses
<1>3. CASE Cur.pressed /\ Cur.key = t.key /\ Again(t, Cur)
  BY <1>1, <1>3 DEF Branch, Restarts
<1>4. CASE Cur.pressed /\ StartTapping(registered, Cur)
  BY <1>1, <1>4 DEF Branch, Starts
<1>5. CASE ~IsTick(Cur) /\ PassOn(Interrupted, Cur)
  BY <1>1, <1>5 DEF Branch, Passes
<1>6. CASE ~IsTick(Cur) /\ PassOn(t, Cur)
  BY <1>1, <1>6 DEF Branch, Passes
<1>7. CASE OutOfTerm /\ Held(Nothing, registered, last, Cur)
  BY <1>1, <1>7 DEF Branch, Expires
<1>8. Cur.pressed => ~IsTick(Cur)
  BY CurFacts
<1> QED
  <2>1. PICK within \in Within(Cur, t, TappingTerm) :
          IF within
          THEN \/ IsTick(Cur) /\ Consumed(t, registered, last, Rest)
               \/ Cur.pressed /\ Cur.key = t.key /\ Again(t, Cur)
               \/ Cur.pressed /\ StartTapping(registered, Cur)
               \/ Cur.pressed /\ PassOn(Interrupted, Cur)
               \/ ~IsTick(Cur) /\ ~Cur.pressed /\ PassOn(t, Cur)
          ELSE Held(Nothing, registered, last, Cur)
    BY DEF Released, Interrupted
  <2>2. (within => InTerm) /\ (~within => OutOfTerm)
    <3>1. within \in BOOLEAN
      BY <2>1, WithinBool
    <3> QED
      BY <2>1, <3>1 DEF InTerm, OutOfTerm
  <2> QED
    BY <1>2, <1>3, <1>4, <1>5, <1>6, <1>7, <1>8, <2>1, <2>2

LEMMA ProcessBranch == ASSUME Shape, process_tapping PROVE Branch
BY ResetBranch, PressedBranch, ReleasedBranch DEF process_tapping

-----------------------------------------------------------------------------
(***************************************************************************)
(* Ages and types.  The longer a record has waited, the fewer are left     *)
(* that may wait in front of it: a tick comes every MaxStall milliseconds  *)
(* at the latest, and settles the tapping key or lets the first record go. *)
(* So no record that may still decide anything reaches AgeMax.             *)
(***************************************************************************)

Limit(n) == TappingTerm - 1 + MaxStall * (BufferSize - 1 - n)

Descending(s) == \A i, j \in DOMAIN s : i <= j => s[j].age <= s[i].age
NoOlder(s, a) == \A i \in DOMAIN s : s[i].age <= a

TickComes == pc = "new" /\ IsTick(arrived)

\* The first record that waits is about to be taken.
FirstGoes == pc = "drain" /\ (tapping_key.key = NoKey \/ ~Young(tapping_key))

\* An undecided key is older than what it holds back, and a key that was tapped and
\* released holds nothing back.
Settling ==
  /\ Undecided(tapping_key) => NoOlder(waiting_buffer, tapping_key.age)
  /\ waiting_buffer # << >> => tapping_key.pressed \/ tapping_key.key = NoKey

AgeInv ==
  /\ Descending(waiting_buffer)
  /\ pc = "new" => arrived.age = 0
  /\ tapping_key.key = NoKey => tapping_key.age = 0
  /\ tick_age \in 0 .. MaxStall /\ (TickComes => tick_age = 0)
  /\ pc # "drain" => Settling
  /\ Young(tapping_key) =>
       tapping_key.age <= Limit(Len(waiting_buffer)) + tick_age
                            + (IF TickComes THEN MaxStall ELSE 0)
  /\ NoOlder(waiting_buffer, Limit(Len(waiting_buffer)) + tick_age
                               + (IF TickComes \/ FirstGoes THEN MaxStall ELSE 0))

LEMMA LimitFacts ==
  /\ TappingTerm \in Nat /\ TappingTerm >= 1 /\ MaxStall \in Nat /\ MaxStall >= 1 /\ AgeMax \in Nat
  /\ \A n \in Nat : n < BufferSize =>
       /\ Limit(n) \in Int /\ TappingTerm - 1 <= Limit(n)
       /\ Limit(n) + MaxStall < AgeMax
       /\ n # 0 => Limit(n - 1) = Limit(n) + MaxStall
<1>1. /\ TappingTerm \in Nat /\ TappingTerm >= 1 /\ MaxStall \in Nat /\ MaxStall >= 1
      /\ BufferSize \in Nat /\ AgeMax \in Nat
  BY TappingAssumption, ConstantFacts
<1>2. \A m, k \in Nat : m * k \in Nat /\ m * (k + 1) = m * k + m
  OBVIOUS
<1>3. ASSUME NEW n \in Nat, n < BufferSize
      PROVE  /\ Limit(n) \in Int /\ TappingTerm - 1 <= Limit(n)
             /\ Limit(n) + MaxStall < AgeMax
             /\ n # 0 => Limit(n - 1) = Limit(n) + MaxStall
  <2> DEFINE k == BufferSize - 1 - n
  <2>1. k \in Nat /\ BufferSize - 1 - (n - 1) = k + 1
    BY <1>1, <1>3
  <2>2. MaxStall * k \in Nat /\ MaxStall * (k + 1) = MaxStall * k + MaxStall
    BY <1>1, <1>2, <2>1
  <2>3. MaxStall * (k + 1) <= BufferSize * MaxStall
    <3>1. n \in Nat /\ BufferSize = (k + 1) + n
      BY <1>1, <2>1
    <3>2. \A a, b, c \in Nat : a * b <= (b + c) * a
      <4> SUFFICES ASSUME NEW a \in Nat, NEW b \in Nat, NEW c \in Nat PROVE a * b <= (b + c) * a
        OBVIOUS
      <4>1. (b + c) * a = a * b + c * a /\ c * a \in Nat /\ a * b \in Nat
        OBVIOUS
      <4> QED
        BY <4>1
    <3>3. k + 1 \in Nat
      BY <2>1
    <3> QED
      BY <1>1, <3>1, <3>2, <3>3
  <2>4. BufferSize * MaxStall \in Int
    BY <1>1
  <2>5. Limit(n) = TappingTerm - 1 + MaxStall * k
    BY DEF Limit
  <2>6. Limit(n - 1) = TappingTerm - 1 + MaxStall * (k + 1)
    BY <2>1 DEF Limit
  <2>7. AgeMax = TappingTerm + BufferSize * MaxStall
    BY DEF AgeMax
  <2>8. MaxStall * (k + 1) \in Int
    BY <1>1, <2>2
  <2> HIDE DEF k
  <2> QED
    BY <1>1, <2>2, <2>3, <2>4, <2>5, <2>6, <2>7, <2>8
<1> QED
  BY <1>1, <1>3

LEMMA SameLen ==
  ASSUME NEW S, NEW T, NEW s \in Seq(S), NEW u \in Seq(T), DOMAIN s = DOMAIN u
  PROVE  Len(s) = Len(u)
<1>1. Len(s) \in Nat /\ Len(u) \in Nat /\ 1 .. Len(s) = 1 .. Len(u)
  OBVIOUS
<1>2. \A m, n \in Nat : 1 .. m = 1 .. n => m <= n
  <2> SUFFICES ASSUME NEW m \in Nat, NEW n \in Nat, 1 .. m = 1 .. n PROVE m <= n
    OBVIOUS
  <2>1. m # 0 => m \in 1 .. n
    OBVIOUS
  <2> QED
    BY <2>1
<1>3. \A m, n \in Nat : 1 .. m = 1 .. n => m = n
  BY <1>2
<1> QED
  BY <1>1, <1>3

LEMMA RecordAges ==
  ASSUME Shape
  PROVE  /\ tapping_key.age \in Nat /\ arrived.age \in Nat
         /\ \A i \in DOMAIN waiting_buffer : waiting_buffer[i].age \in Nat
         /\ Len(waiting_buffer) \in Nat /\ Len(waiting_buffer) < BufferSize
         /\ waiting_buffer \in Seq(WaitingRecord)
<1>1. \A r \in Records : r.age \in Nat
  BY ConstantFacts DEF Records
<1>2. waiting_buffer \in Seq(WaitingRecord) /\ Len(waiting_buffer) < BufferSize
  BY DEF Shape
<1>3. \A i \in DOMAIN waiting_buffer : waiting_buffer[i] \in Records
  <2>1. \A i \in DOMAIN waiting_buffer : waiting_buffer[i] \in WaitingRecord
    BY <1>2
  <2> QED
    BY <2>1 DEF WaitingRecord
<1>4. tapping_key \in Records /\ arrived \in Records
  BY DEF Shape, TappingRecord
<1> QED
  BY <1>1, <1>2, <1>3, <1>4

\* Neither a key that may still decide something nor a record that waits reaches AgeMax.
LEMMA AgesBounded ==
  ASSUME Shape, AgeInv
  PROVE  /\ Young(tapping_key) => tapping_key.age < AgeMax
         /\ \A i \in DOMAIN waiting_buffer : waiting_buffer[i].age < AgeMax
<1> DEFINE w == waiting_buffer
           n == Len(w)
           X == Limit(n)
<1>1. /\ n \in Nat /\ X \in Int /\ X + MaxStall < AgeMax /\ MaxStall \in Nat /\ AgeMax \in Nat
      /\ tick_age \in 0 .. MaxStall /\ tapping_key.age \in Nat
      /\ \A i \in DOMAIN w : w[i].age \in Nat
  BY LimitFacts, RecordAges DEF AgeInv
<1>2. ASSUME Young(tapping_key) PROVE tapping_key.age < AgeMax
  <2>1. \/ tapping_key.age <= X + tick_age
        \/ tick_age = 0 /\ tapping_key.age <= X + tick_age + MaxStall
    BY <1>1, <1>2 DEF AgeInv
  <2> HIDE DEF X
  <2> QED
    BY <1>1, <2>1
<1>3. ASSUME NEW i \in DOMAIN w PROVE w[i].age < AgeMax
  <2>1. n # 0 /\ Limit(n - 1) = X + MaxStall /\ Limit(n - 1) + MaxStall < AgeMax
    <3>1. n # 0 /\ n - 1 \in Nat /\ n - 1 < BufferSize /\ n < BufferSize
      BY RecordAges, <1>3, ConstantFacts
    <3> HIDE DEF n
    <3> QED
      BY <1>1, <3>1, LimitFacts DEF X
  <2>2. w[i].age <= X + tick_age + MaxStall
    <3>1. \/ w[i].age <= X + tick_age + MaxStall
          \/ w[i].age <= X + tick_age + 0
      BY <1>3 DEF AgeInv, NoOlder
    <3> HIDE DEF X
    <3> QED
      BY <1>1, <3>1
  <2> HIDE DEF X
  <2> QED
    BY <1>1, <2>1, <2>2
<1> QED
  BY <1>2, <1>3

\* The record looked at and what waits behind it.
LEMMA AgesAtHand ==
  ASSUME Shape, AgeInv, pc # "idle", ~IsTick(Cur)
  PROVE  /\ Rest \in Seq(WaitingRecord) /\ Len(Rest) \in Nat /\ Len(Rest) < BufferSize
         /\ Cur.age \in Nat /\ Cur.age <= Limit(Len(Rest)) + tick_age
         /\ Descending(Rest) /\ NoOlder(Rest, Limit(Len(Rest)) + tick_age)
         /\ Young(tapping_key) => tapping_key.age <= Limit(Len(Rest)) + tick_age
         /\ pc = "drain" => NoOlder(Rest, Cur.age)
         /\ \A i \in DOMAIN Rest : Rest[i].age \in Nat
<1> DEFINE w == waiting_buffer
           n == Len(w)
           X == Limit(n)
<1>1. /\ w \in Seq(WaitingRecord) /\ n \in Nat /\ n < BufferSize
      /\ X \in Int /\ MaxStall \in Nat /\ TappingTerm >= 1 /\ TappingTerm - 1 <= X
      /\ TappingTerm \in Nat
      /\ tick_age \in 0 .. MaxStall /\ tapping_key.age \in Nat
      /\ \A i \in DOMAIN w : w[i].age \in Nat
  BY LimitFacts, RecordAges DEF AgeInv
<1>2. /\ Rest \in Seq(WaitingRecord) /\ Len(Rest) \in Nat /\ Len(Rest) < BufferSize
  BY CurFacts
<1>3. CASE pc = "new"
  <2>1. Cur = arrived /\ Rest = w /\ ~TickComes /\ ~FirstGoes
    BY <1>3 DEF Cur, Rest, TickComes, FirstGoes
  <2>2. Cur.age = 0
    BY <1>3, <2>1 DEF AgeInv
  <2>3. /\ Descending(w) /\ NoOlder(w, X + tick_age + 0)
        /\ Young(tapping_key) => tapping_key.age <= X + tick_age + 0
    BY <2>1 DEF AgeInv
  <2>4. X + tick_age + 0 = X + tick_age /\ 0 <= X + tick_age
    <3> HIDE DEF X
    <3> QED
      BY <1>1
  <2> QED
    BY <1>1, <1>2, <1>3, <2>1, <2>2, <2>3, <2>4
<1>4. CASE pc = "drain"
  <2>1. Cur = w[1] /\ Rest = Tail(w) /\ ~TickComes /\ w # << >>
    BY <1>1, <1>4 DEF Cur, Rest, TickComes, Shape
  <2>2. /\ n >= 1 /\ 1 \in DOMAIN w /\ DOMAIN w = 1 .. n /\ Len(Tail(w)) = n - 1
        /\ DOMAIN Tail(w) = 1 .. n - 1
        /\ \A i \in 1 .. n - 1 : Tail(w)[i] = w[i + 1] /\ i + 1 \in DOMAIN w /\ 1 <= i + 1
    BY <1>1, <2>1
  <2>3. \A i \in 1 .. n - 1 : \A j \in 1 .. n - 1 : i <= j => i + 1 <= j + 1
    BY <1>1
  <2>4. Limit(Len(Rest)) = X + MaxStall
    <3>1. n # 0 /\ n - 1 = Len(Rest)
      BY <2>1, <2>2
    <3> HIDE DEF n
    <3> QED
      BY <1>1, <3>1, LimitFacts DEF X
  <2>5. /\ Descending(w) /\ (Young(tapping_key) => tapping_key.age <= X + tick_age + 0)
        /\ NoOlder(w, X + tick_age + MaxStall) \/ NoOlder(w, X + tick_age + 0)
    BY <2>1 DEF AgeInv
  <2> HIDE DEF X
  <2>6. \A i \in DOMAIN w : w[i].age <= X + MaxStall + tick_age
    BY <1>1, <2>5 DEF NoOlder
  <2>7. Young(tapping_key) => tapping_key.age <= X + MaxStall + tick_age
    BY <1>1, <2>5
  <2>8. \A i, j \in DOMAIN w : i <= j => w[j].age <= w[i].age
    BY <2>5 DEF Descending
  <2>9. Descending(Rest)
    <3>1. \A i \in 1 .. n - 1 : \A j \in 1 .. n - 1 : i <= j => Rest[j].age <= Rest[i].age
      BY <2>1, <2>2, <2>3, <2>8
    <3> QED
      BY <2>1, <2>2, <3>1 DEF Descending
  <2>10. NoOlder(Rest, Cur.age) /\ NoOlder(Rest, X + MaxStall + tick_age)
         /\ \A i \in DOMAIN Rest : Rest[i].age \in Nat
    <3>1. \A i \in 1 .. n - 1 : /\ Rest[i].age <= Cur.age /\ Rest[i].age <= X + MaxStall + tick_age
                                /\ Rest[i].age \in Nat
      BY <1>1, <2>1, <2>2, <2>6, <2>8
    <3> QED
      BY <2>1, <2>2, <3>1 DEF NoOlder
  <2> QED
    BY <1>1, <1>2, <1>4, <2>1, <2>2, <2>4, <2>6, <2>7, <2>9, <2>10
<1> QED
  BY <1>3, <1>4, CurFacts

\* The record looked at is taken: what waits now may wait a while longer.
LEMMA ConsumedAges ==
  ASSUME Shape, AgeInv, pc # "idle", ~IsTick(Cur), NEW tk, NEW reg, NEW upto,
         NEW ws \in Seq(WaitingRecord), DOMAIN ws = DOMAIN Rest,
         \A i \in DOMAIN Rest : ws[i].age = Rest[i].age,
         Consumed(tk, reg, upto, ws), tk.key = NoKey => tk.age = 0,
         Young(tk) => \/ tk.age = 0 \/ tk.age = Cur.age
                      \/ Young(tapping_key) /\ tk.age = tapping_key.age
  PROVE  AgeInv'
<1> DEFINE X == Limit(Len(Rest))
<1>1. /\ tapping_key' = tk /\ waiting_buffer' = ws /\ tick_age' = tick_age
      /\ pc' = (IF ws = << >> THEN "idle" ELSE "drain")
  BY DEF Consumed
<1>2. /\ Rest \in Seq(WaitingRecord) /\ Cur.age <= X + tick_age
      /\ Descending(Rest) /\ NoOlder(Rest, X + tick_age)
      /\ Young(tapping_key) => tapping_key.age <= X + tick_age
      /\ \A i \in DOMAIN Rest : Rest[i].age \in Nat
  BY AgesAtHand
<1>3. Len(ws) = Len(Rest)
  BY <1>2, SameLen
<1>4. X \in Int /\ TappingTerm - 1 <= X /\ TappingTerm \in Nat /\ TappingTerm >= 1 /\ MaxStall \in Nat
  BY AgesAtHand, LimitFacts
<1>5. tick_age \in 0 .. MaxStall
  BY DEF AgeInv
<1>6. ~TickComes'
  BY <1>1 DEF TickComes
<1>7. Descending(ws) /\ \A i \in DOMAIN ws : ws[i].age \in Nat /\ ws[i].age <= X + tick_age
  BY <1>2 DEF Descending, NoOlder
<1> HIDE DEF X
<1>8. Young(tk) => tk.age <= X + tick_age + 0
  BY <1>2, <1>4, <1>5
<1>9. NoOlder(ws, X + tick_age + 0) /\ NoOlder(ws, X + tick_age + MaxStall)
  BY <1>4, <1>5, <1>7 DEF NoOlder
<1>10. pc' # "drain" => Settling'
  BY <1>1 DEF Settling, NoOlder, Undecided
<1>11. Limit(Len(waiting_buffer)') = X
  BY <1>1, <1>3 DEF X
<1>12. (Young(tapping_key) =>
          tapping_key.age <= Limit(Len(waiting_buffer)) + tick_age
                               + (IF TickComes THEN MaxStall ELSE 0))'
  BY <1>1, <1>6, <1>8, <1>11
<1>13. NoOlder(waiting_buffer, Limit(Len(waiting_buffer)) + tick_age
                                 + (IF TickComes \/ FirstGoes THEN MaxStall ELSE 0))'
  BY <1>1, <1>9, <1>11
<1> QED
  BY <1>1, <1>5, <1>6, <1>7, <1>10, <1>12, <1>13 DEF AgeInv

\* A tick finds the tapping key within its term, registered as a tap, or gone.
LEMMA TickPassesAges ==
  ASSUME Shape, AgeInv, pc # "idle", TickPasses
  PROVE  AgeInv'
<1> DEFINE w == waiting_buffer
           t == tapping_key
           X == Limit(Len(w))
<1>1. pc = "new" /\ Cur = arrived /\ Rest = w /\ TickComes
  BY CurFacts DEF TickPasses, TickComes, Cur, Rest
<1>2. /\ tapping_key' = t /\ waiting_buffer' = w /\ tick_age' = tick_age
      /\ pc' = (IF w = << >> THEN "idle" ELSE "drain")
  BY <1>1 DEF TickPasses, Consumed
<1>3. /\ X \in Int /\ TappingTerm - 1 <= X /\ TappingTerm \in Nat /\ TappingTerm >= 1
      /\ MaxStall \in Nat /\ tick_age = 0 /\ t.age \in Nat
      /\ \A i \in DOMAIN w : w[i].age \in Nat
  BY <1>1, RecordAges, LimitFacts DEF AgeInv
<1>4. /\ Descending(w) /\ NoOlder(w, X + tick_age + MaxStall) /\ Settling
      /\ t.key = NoKey => t.age = 0
  BY <1>1 DEF AgeInv
<1>5. t.key = NoKey \/ ~Young(t) \/ t.age <= TappingTerm - 1
  <2>1. CASE Young(t) /\ InTerm
    <3>1. t.age # AgeMax
      BY <1>3, <2>1, AgesBounded
    <3>2. arrived.age = 0
      BY <1>1 DEF AgeInv
    <3>3. t.age - 0 \in 0 .. TappingTerm - 1
      BY <1>1, <2>1, <3>1, <3>2 DEF InTerm, Within
    <3> QED
      BY <1>3, <3>3
  <2> QED
    BY <2>1 DEF TickPasses
<1>6. ~TickComes' /\ TickComes
  BY <1>1, <1>2 DEF TickComes
<1>7. pc' # "drain" => Settling'
  BY <1>2 DEF Settling, NoOlder, Undecided
<1>8. Young(t) => t.age <= X + tick_age + 0
  <2> HIDE DEF X
  <2> QED
    BY <1>3, <1>4, <1>5
<1>9. (Young(tapping_key) =>
          tapping_key.age <= Limit(Len(waiting_buffer)) + tick_age
                               + (IF TickComes THEN MaxStall ELSE 0))'
  BY <1>2, <1>6, <1>8
<1>10. CASE FirstGoes' \/ w = << >>
  <2>1. NoOlder(waiting_buffer, Limit(Len(waiting_buffer)) + tick_age
                                 + (IF TickComes \/ FirstGoes THEN MaxStall ELSE 0))'
    BY <1>2, <1>4, <1>10 DEF NoOlder
  <2> QED
    BY <1>2, <1>3, <1>4, <1>6, <1>7, <1>9, <2>1 DEF AgeInv
<1>11. CASE ~FirstGoes' /\ w # << >>
  <2>1. t.key # NoKey /\ Young(t) /\ t.pressed
    BY <1>2, <1>4, <1>11 DEF FirstGoes, Settling, Young
  <2>2. Undecided(t)
    <3>1. t.count \in 0 .. 15
      BY DEF Shape, TappingRecord, Records
    <3> QED
      BY <2>1, <3>1 DEF Young, Undecided
  <2>3. NoOlder(w, t.age) /\ t.age <= TappingTerm - 1
    BY <1>4, <1>5, <2>1, <2>2 DEF Settling
  <2>4. NoOlder(w, X + tick_age + 0)
    <3> HIDE DEF X
    <3> QED
      BY <1>3, <2>3 DEF NoOlder
  <2>5. NoOlder(waiting_buffer, Limit(Len(waiting_buffer)) + tick_age
                                 + (IF TickComes \/ FirstGoes THEN MaxStall ELSE 0))'
    BY <1>2, <1>6, <1>11, <2>4
  <2> QED
    BY <1>2, <1>3, <1>4, <1>6, <1>7, <1>9, <2>5 DEF AgeInv
<1> QED
  BY <1>10, <1>11

LEMMA NothingAge ==
  Nothing.key = NoKey /\ Nothing.age = 0 /\ ~Nothing.pressed /\ Nothing.count = 0 /\ Nothing.no = 0
BY DEF Nothing, Record

\* A record of the same age in its place.
LEMMA HeldFirst ==
  ASSUME NEW w \in Seq(WaitingRecord), w # << >>, NEW e \in WaitingRecord
  PROVE  /\ <<e>> \o Tail(w) \in Seq(WaitingRecord) /\ Len(<<e>> \o Tail(w)) = Len(w)
         /\ DOMAIN (<<e>> \o Tail(w)) = DOMAIN w /\ 1 \in DOMAIN w
         /\ (<<e>> \o Tail(w))[1] = e
         /\ \A i \in DOMAIN w : i # 1 => (<<e>> \o Tail(w))[i] = w[i]
<1>1. Len(w) \in Nat /\ Len(w) >= 1 /\ DOMAIN w = 1 .. Len(w)
  OBVIOUS
<1>2. /\ Tail(w) \in Seq(WaitingRecord) /\ Len(Tail(w)) = Len(w) - 1
      /\ \A i \in 1 .. Len(w) - 1 : Tail(w)[i] = w[i + 1]
  BY <1>1
<1> DEFINE u == <<e>> \o Tail(w)
<1>3. /\ u \in Seq(WaitingRecord) /\ Len(u) = Len(w) /\ u[1] = e
      /\ \A i \in 2 .. Len(w) : u[i] = Tail(w)[i - 1]
  BY <1>1, <1>2
<1>4. ASSUME NEW i \in 1 .. Len(w), i # 1 PROVE u[i] = w[i]
  <2>1. i \in 2 .. Len(w) /\ i - 1 \in 1 .. Len(w) - 1 /\ (i - 1) + 1 = i
    BY <1>1, <1>4
  <2> QED
    BY <1>2, <1>3, <2>1
<1>5. DOMAIN u = 1 .. Len(w) /\ 1 \in 1 .. Len(w)
  BY <1>1, <1>3
<1> QED
  BY <1>1, <1>3, <1>4, <1>5

\* A record is held back: it keeps its place and its age, or everything is cleared.
LEMMA HeldAges ==
  ASSUME Shape, AgeInv, pc # "idle", NEW tk, NEW reg, NEW upto, NEW e \in Records,
         e.age = Cur.age, e.key = Cur.key, e.pressed => e.count = 0, Held(tk, reg, upto, e),
         tapping_key.key # NoKey, Young(tapping_key),
         \/ tk = Nothing
         \/ tk.key # NoKey /\ ~Young(tk) /\ ~IsTick(Cur)
         \/ /\ tk.key # NoKey /\ Undecided(tk) /\ tk.age = tapping_key.age
            /\ Undecided(tapping_key) /\ InTerm /\ ~IsTick(Cur)
  PROVE  AgeInv'
<1> DEFINE w == waiting_buffer
           t == tapping_key
           n == Len(w)
           X == Limit(n)
<1>1. /\ w \in Seq(WaitingRecord) /\ n \in Nat /\ n < BufferSize /\ t.age \in Nat
      /\ \A i \in DOMAIN w : w[i].age \in Nat
  BY RecordAges
<1>2. /\ X \in Int /\ TappingTerm - 1 <= X /\ TappingTerm \in Nat /\ TappingTerm >= 1
      /\ MaxStall \in Nat /\ tick_age \in 0 .. MaxStall /\ tick_age' = tick_age
  BY <1>1, LimitFacts DEF AgeInv, Held
<1>3. Descending(w)
  BY DEF AgeInv
<1>4. IsTick(e) <=> IsTick(Cur)
  BY DEF IsTick
<1>5. ~IsTick(e) => e \in WaitingRecord
  BY DEF IsTick, WaitingRecord
<1>6. (tk.key = NoKey => tk.age = 0) /\ (Undecided(tk) => tk.pressed)
      /\ (~Young(tk) => tk.pressed)
  BY NothingAge DEF Undecided, Young
<1>7. \/ tk = Nothing
      \/ tk.key # NoKey /\ ~Young(tk)
      \/ /\ tk.age = t.age /\ Undecided(t) /\ 0 <= t.age - Cur.age
         /\ t.age - Cur.age <= TappingTerm - 1
  <2>1. ASSUME InTerm PROVE t.age - Cur.age \in 0 .. TappingTerm - 1
    <3>1. t.age # AgeMax
      BY <1>1, AgesBounded
    <3> QED
      BY <2>1, <3>1 DEF InTerm, Within
  <2> QED
    BY <1>2, <2>1
<1>8. CASE pc = "drain"
  <2> DEFINE u == <<e>> \o Tail(w)
  <2>1. w' = u /\ pc' = "idle" /\ tapping_key' = tk
    BY <1>8 DEF Held
  <2>2. w # << >> /\ Cur = w[1] /\ ~IsTick(e)
    BY <1>1, <1>4, <1>8, CurFacts DEF Cur, Shape
  <2>3. /\ Len(u) = n /\ DOMAIN u = DOMAIN w /\ 1 \in DOMAIN w
        /\ u[1] = e /\ \A i \in DOMAIN w : i # 1 => u[i] = w[i]
    BY <1>1, <1>5, <2>2, HeldFirst
  <2>4. \A i \in DOMAIN w : u[i].age = w[i].age
    BY <2>2, <2>3
  <2> HIDE DEF u
  <2>5. ~TickComes /\ ~FirstGoes /\ ~TickComes' /\ ~FirstGoes'
    BY <1>8, <2>1 DEF TickComes, FirstGoes
  <2>6. /\ NoOlder(w, X + tick_age + 0) /\ t.age <= X + tick_age + 0
    BY <2>5 DEF AgeInv
  <2>7. Young(tk) => tk.age <= X + tick_age + 0
    <3> HIDE DEF X
    <3> QED
      BY <1>1, <1>2, <1>7, <2>6, NothingAge
  <2>8. Descending(u) /\ NoOlder(u, X + tick_age + 0)
    BY <1>3, <2>3, <2>4, <2>6 DEF Descending, NoOlder
  <2>9. Undecided(tk) => NoOlder(u, tk.age)
    <3> SUFFICES ASSUME Undecided(tk), NEW i \in DOMAIN w PROVE u[i].age <= tk.age
      BY <2>3 DEF NoOlder
    <3>1. tk.age = t.age /\ 0 <= t.age - w[1].age
      <4>1. tk # Nothing /\ Young(tk)
        BY NothingAge DEF Undecided, Young
      <4> QED
        BY <1>7, <2>2, <4>1
    <3>2. w[i].age <= w[1].age
      <4>1. 1 <= i
        BY <1>1
      <4> QED
        BY <1>3, <2>3, <4>1 DEF Descending
    <3> QED
      BY <1>1, <2>3, <2>4, <3>1, <3>2
  <2>10. tk.pressed \/ tk.key = NoKey
    BY <1>6, NothingAge
  <2>11. Settling'
    BY <2>1, <2>9, <2>10 DEF Settling, NoOlder, Undecided
  <2>12. (Young(tapping_key) =>
            tapping_key.age <= Limit(Len(waiting_buffer)) + tick_age
                                 + (IF TickComes THEN MaxStall ELSE 0))'
    BY <1>2, <2>1, <2>3, <2>5, <2>7
  <2>13. NoOlder(waiting_buffer, Limit(Len(waiting_buffer)) + tick_age
                                   + (IF TickComes \/ FirstGoes THEN MaxStall ELSE 0))'
    BY <1>2, <2>1, <2>3, <2>5, <2>8
  <2> QED
    BY <1>2, <1>6, <2>1, <2>5, <2>8, <2>11, <2>12, <2>13 DEF AgeInv
<1>9. CASE pc = "new" /\ ~IsTick(e) /\ n = BufferSize - 1
  <2>1. w' = << >> /\ pc' = "idle" /\ tapping_key' = Nothing
    BY <1>9 DEF Held
  <2>2. ~TickComes' /\ ~FirstGoes' /\ Len(w') = 0
    BY <2>1 DEF TickComes, FirstGoes
  <2>3. Limit(0) \in Int /\ TappingTerm - 1 <= Limit(0)
    BY LimitFacts, ConstantFacts
  <2>4. Settling' /\ Descending(w') /\ NoOlder(w', Limit(0) + tick_age + 0)
    BY <2>1, NothingAge DEF Settling, Descending, NoOlder
  <2>5. 0 <= Limit(0) + tick_age + 0
    BY <1>2, <2>3
  <2> QED
    BY <1>2, <2>1, <2>2, <2>4, <2>5, NothingAge DEF AgeInv
<1>10. CASE pc = "new" /\ ~IsTick(e) /\ n # BufferSize - 1
  <2> DEFINE u == Append(w, e)
  <2>1. /\ w' = w \o <<e>> /\ pc' = (IF w' = << >> THEN "idle" ELSE "drain") /\ tapping_key' = tk
    BY <1>10 DEF Held
  <2>2. w' = u /\ u # << >> /\ pc' = "drain"
    BY <1>1, <1>5, <1>10, <2>1
  <2>3. /\ Len(u) = n + 1 /\ DOMAIN u = 1 .. n + 1 /\ DOMAIN w = 1 .. n /\ u[n + 1] = e
        /\ \A i \in 1 .. n : u[i] = w[i]
    BY <1>1, <1>5, <1>10
  <2> HIDE DEF u
  <2>4. e.age = 0 /\ ~TickComes /\ ~FirstGoes /\ ~TickComes'
    BY <1>4, <1>10, <2>2 DEF AgeInv, TickComes, FirstGoes, Cur
  <2>5. \A i \in 1 .. n + 1 : (i \in 1 .. n /\ u[i] = w[i]) \/ (i = n + 1 /\ u[i].age = 0)
    BY <1>1, <2>3, <2>4
  <2>6. Descending(u)
    <3> SUFFICES ASSUME NEW i \in 1 .. n + 1, NEW j \in 1 .. n + 1, i <= j
                 PROVE  u[j].age <= u[i].age
      BY <2>3 DEF Descending
    <3>1. CASE j = n + 1 /\ u[j].age = 0
      BY <1>1, <2>3, <2>5, <3>1
    <3>2. CASE j \in 1 .. n /\ u[j] = w[j]
      <4>1. i \in 1 .. n /\ u[i] = w[i]
        BY <1>1, <2>3, <3>2
      <4> QED
        BY <1>3, <2>3, <3>2, <4>1 DEF Descending
    <3> QED
      BY <2>5, <3>1, <3>2
  <2>7. Limit(n + 1) + MaxStall = X /\ Limit(n + 1) \in Int /\ TappingTerm - 1 <= Limit(n + 1)
    <3>1. n + 1 \in Nat /\ n + 1 < BufferSize /\ n + 1 # 0 /\ (n + 1) - 1 = n
      BY <1>1, <1>10, ConstantFacts
    <3> HIDE DEF n
    <3> QED
      BY <3>1, LimitFacts DEF X
  <2>8. NoOlder(w, X + tick_age + 0) /\ Settling
    BY <1>10, <2>4 DEF AgeInv
  <2> DEFINE Y == Limit(n + 1)
  <2> HIDE DEF X, Y
  <2>9. ~Young(tk) \/ tk.key = NoKey \/ (tk.age = t.age /\ t.age <= TappingTerm - 1 /\ Undecided(t))
    <3>1. Cur.age = 0
      BY <2>4
    <3> QED
      BY <1>1, <1>2, <1>7, <3>1, NothingAge
  <2>10. Young(tk) => tk.age <= Y + tick_age + 0
    <3>1. TappingTerm - 1 <= Y /\ Y \in Int
      BY <2>7 DEF Y
    <3>2. tk = Nothing \/ ~Young(tk) \/ (tk.age = t.age /\ t.age <= TappingTerm - 1)
      <4>1. Cur.age = 0
        BY <2>4
      <4> QED
        BY <1>1, <1>2, <1>7, <4>1
    <3> QED
      BY <1>1, <1>2, <3>1, <3>2, NothingAge
  <2>11. NoOlder(u, Y + tick_age + MaxStall)
    <3>1. Y + MaxStall = X /\ Y \in Int /\ TappingTerm - 1 <= Y
      BY <2>7 DEF Y
    <3>2. \A i \in 1 .. n : w[i].age <= X + tick_age + 0
      BY <2>3, <2>8 DEF NoOlder
    <3>3. ASSUME NEW i \in 1 .. n + 1 PROVE u[i].age <= Y + tick_age + MaxStall
      <4>1. Y + tick_age + MaxStall = X + tick_age + 0 /\ 0 <= Y + tick_age + MaxStall
        BY <1>2, <3>1, ConstantFacts
      <4>2. CASE i \in 1 .. n /\ u[i] = w[i]
        BY <3>2, <4>1, <4>2
      <4>3. CASE i = n + 1 /\ u[i].age = 0
        BY <4>1, <4>3
      <4> QED
        BY <2>5, <4>2, <4>3
    <3> QED
      BY <2>3, <3>3 DEF NoOlder
  <2>12. ~FirstGoes' => NoOlder(u, Y + tick_age + 0)
    <3> SUFFICES ASSUME ~FirstGoes' PROVE NoOlder(u, Y + tick_age + 0)
      OBVIOUS
    <3>1. tk.key # NoKey /\ Young(tk)
      BY <2>1, <2>2 DEF FirstGoes
    <3>2. t.age <= TappingTerm - 1 /\ NoOlder(w, t.age)
      BY <2>8, <2>9, <3>1 DEF Settling
    <3>3. \A i \in 1 .. n : w[i].age <= t.age
      BY <2>3, <3>2 DEF NoOlder
    <3>4. TappingTerm - 1 <= Y /\ Y \in Int
      BY <2>7 DEF Y
    <3>5. \A i \in 1 .. n + 1 : u[i].age <= Y + tick_age + 0
      BY <1>1, <1>2, <2>3, <2>5, <3>2, <3>3, <3>4
    <3> QED
      BY <2>3, <3>5 DEF NoOlder
  <2>13. Limit(Len(waiting_buffer)') = Y
    BY <2>2, <2>3 DEF Y
  <2>14. (Young(tapping_key) =>
            tapping_key.age <= Limit(Len(waiting_buffer)) + tick_age
                                 + (IF TickComes THEN MaxStall ELSE 0))'
    BY <1>2, <2>1, <2>4, <2>10, <2>13
  <2>15. NoOlder(waiting_buffer, Limit(Len(waiting_buffer)) + tick_age
                                   + (IF TickComes \/ FirstGoes THEN MaxStall ELSE 0))'
    BY <1>2, <2>2, <2>4, <2>11, <2>12, <2>13
  <2> QED
    BY <1>2, <1>6, <2>1, <2>2, <2>4, <2>6, <2>14, <2>15 DEF AgeInv
<1>11. CASE pc = "new" /\ IsTick(e)
  <2>1. /\ w' = w \o << >> /\ pc' = (IF w' = << >> THEN "idle" ELSE "drain") /\ tapping_key' = tk
    BY <1>11 DEF Held
  <2>2. w' = w /\ tk = Nothing
    BY <1>1, <1>4, <1>11, <2>1
  <2>3. TickComes /\ ~TickComes' /\ tick_age = 0
    BY <1>4, <1>11, <2>1 DEF TickComes, AgeInv, Cur
  <2>4. pc' # "drain" => Settling'
    BY <2>1, <2>2, NothingAge DEF Settling, NoOlder, Undecided
  <2>5. NoOlder(w, X + tick_age + MaxStall)
    BY <2>3 DEF AgeInv
  <2>6. FirstGoes' \/ w = << >>
    BY <2>1, <2>2, NothingAge DEF FirstGoes
  <2>7. NoOlder(waiting_buffer, Limit(Len(waiting_buffer)) + tick_age
                                   + (IF TickComes \/ FirstGoes THEN MaxStall ELSE 0))'
    BY <1>2, <2>2, <2>5, <2>6 DEF NoOlder
  <2>8. 0 <= X + tick_age + 0
    <3> HIDE DEF X
    <3> QED
      BY <1>2
  <2> QED
    BY <1>2, <1>3, <2>1, <2>2, <2>3, <2>4, <2>7, <2>8, NothingAge DEF AgeInv
<1> QED
  BY <1>8, <1>9, <1>10, <1>11, CurFacts

\* waiting_buffer_scan_tap finds nothing, or marks the first release of the key.
LEMMA StartCases ==
  ASSUME Shape, pc # "idle", NEW reg, StartTapping(reg, Cur), Cur.pressed
  PROVE  \/ TapReleases(Cur) = {} /\ Consumed(Cur, reg, last, Rest)
         \/ \E i \in TapReleases(Cur), ws \in Seq(WaitingRecord) :
              LET tk == [Cur EXCEPT !.count = 1]
              IN  /\ \A j \in TapReleases(Cur) : i <= j
                  /\ Consumed(tk, process_record(reg, tk), Cur.no, ws)
                  /\ DOMAIN ws = DOMAIN Rest /\ ws[i] = [Rest[i] EXCEPT !.count = 1]
                  /\ \A j \in DOMAIN Rest : j # i => ws[j] = Rest[j]
<1>1. Rest \in Seq(WaitingRecord)
  BY CurFacts
<1>2. CASE TapReleases(Cur) = {}
  BY <1>2 DEF StartTapping
<1>3. CASE TapReleases(Cur) # {}
  <2> DEFINE tk == [Cur EXCEPT !.count = 1]
             i  == CHOOSE i \in TapReleases(Cur) : \A j \in TapReleases(Cur) : i <= j
             ws == [Rest EXCEPT ![i].count = 1]
  <2>1. Consumed(tk, process_record(reg, tk), Cur.no, ws)
    BY <1>3 DEF StartTapping
  <2>2. i \in TapReleases(Cur) /\ \A j \in TapReleases(Cur) : i <= j
    <3>1. TapReleases(Cur) \subseteq Nat
      <4>1. DOMAIN Rest \subseteq Nat
        BY <1>1
      <4> QED
        BY <4>1 DEF TapReleases
    <3>2. \E x \in TapReleases(Cur) : \A y \in TapReleases(Cur) : x <= y
      BY <1>3, <3>1, LeastElement
    <3> QED
      BY <3>2
  <2> HIDE DEF i
  <2>3. i \in DOMAIN Rest /\ ~Rest[i].pressed /\ Rest[i] \in WaitingRecord
    BY <1>1, <2>2 DEF TapReleases
  <2>4. [Rest[i] EXCEPT !.count = 1] \in WaitingRecord
    BY <2>3 DEF WaitingRecord, Records
  <2>5. ws = [Rest EXCEPT ![i] = [Rest[i] EXCEPT !.count = 1]]
    BY <1>1, <2>3
  <2>6. /\ ws \in Seq(WaitingRecord) /\ DOMAIN ws = DOMAIN Rest
        /\ ws[i] = [Rest[i] EXCEPT !.count = 1]
        /\ \A j \in DOMAIN Rest : j # i => ws[j] = Rest[j]
    BY <1>1, <2>3, <2>4, <2>5
  <2> HIDE DEF ws
  <2> QED
    BY <2>1, <2>2, <2>6
<1> QED
  BY <1>2, <1>3

\* What no branch tells apart: the keys and the numbers of presses.
Known ==
  /\ registered \subseteq Keys \X {"tap", "hold"}
  /\ build \in Builds /\ down \subseteq Keys /\ changed \subseteq Keys
  /\ last <= presses /\ tapping_key.no <= presses /\ arrived.no <= presses
  /\ \A i \in DOMAIN waiting_buffer : waiting_buffer[i].no <= presses

LEMMA KindType ==
  ASSUME NEW R, R \subseteq Keys \X {"tap", "hold"}, NEW r, r.key \in Keys
  PROVE  process_record(R, r) \subseteq Keys \X {"tap", "hold"}
BY DEF process_record, Kind

LEMMA KnownAtHand ==
  ASSUME Shape, Known, pc # "idle"
  PROVE  Cur.no <= presses /\ \A i \in DOMAIN Rest : Rest[i].no <= presses
<1>1. CASE pc = "new"
  BY <1>1 DEF Known, Cur, Rest
<1>2. CASE pc = "drain"
  <2> DEFINE w == waiting_buffer
  <2>1. w \in Seq(WaitingRecord) /\ w # << >> /\ Cur = Head(w) /\ Rest = Tail(w)
    BY <1>2 DEF Shape, Cur, Rest
  <2>2. /\ Cur = w[1] /\ 1 \in DOMAIN w
        /\ \A i \in DOMAIN Tail(w) : Tail(w)[i] = w[i + 1] /\ i + 1 \in DOMAIN w
    BY <2>1
  <2> QED
    BY <2>1, <2>2 DEF Known
<1> QED
  BY <1>1, <1>2, CurFacts

LEMMA ConsumedKnown ==
  ASSUME Shape, Known, pc # "idle", NEW tk, NEW reg, NEW upto, NEW ws,
         Consumed(tk, reg, upto, ws), reg \subseteq Keys \X {"tap", "hold"},
         tk.no <= presses, upto <= presses, DOMAIN ws = DOMAIN Rest,
         \A i \in DOMAIN Rest : ws[i].no = Rest[i].no
  PROVE  Known'
<1>1. /\ tapping_key' = tk /\ registered' = reg /\ last' = upto /\ waiting_buffer' = ws
      /\ UNCHANGED <<arrived, down, changed, build, presses>>
  BY DEF Consumed
<1> QED
  BY <1>1, KnownAtHand DEF Known

LEMMA HeldKnown ==
  ASSUME Shape, Known, pc # "idle", NEW tk, NEW reg, NEW upto, NEW e \in Records,
         e.key = Cur.key, e.pressed => e.count = 0, e.no = Cur.no,
         Held(tk, reg, upto, e), reg \subseteq Keys \X {"tap", "hold"},
         tk.no <= presses, upto <= presses
  PROVE  Known'
<1> DEFINE w == waiting_buffer
<1>1. UNCHANGED <<arrived, down, changed, build, presses>>
  BY DEF Held
<1>2. w \in Seq(WaitingRecord) /\ (IsTick(e) <=> IsTick(Cur)) /\ (~IsTick(e) => e \in WaitingRecord)
  BY DEF Shape, IsTick, WaitingRecord
<1>3. presses \in Nat /\ 0 <= presses
  BY ConstantFacts DEF Shape
<1>4. CASE pc = "drain"
  <2>1. w' = <<e>> \o Tail(w) /\ tapping_key' = tk /\ registered' = reg /\ last' = upto
    BY <1>4 DEF Held
  <2>2. w # << >> /\ ~IsTick(e)
    BY <1>2, <1>4, CurFacts DEF Shape
  <2>3. \A i \in DOMAIN w' : w'[i].no <= presses
    BY <1>2, <2>1, <2>2, HeldFirst, KnownAtHand DEF Known
  <2> QED
    BY <1>1, <2>1, <2>3 DEF Known
<1>5. CASE pc = "new" /\ ~IsTick(e) /\ Len(w) = BufferSize - 1
  <2>1. w' = << >> /\ tapping_key' = Nothing /\ registered' = {} /\ last' = presses
    BY <1>5 DEF Held
  <2>2. presses <= presses
    BY <1>3
  <2> QED
    BY <1>1, <1>3, <2>1, <2>2, NothingAge DEF Known
<1>6. CASE pc = "new" /\ ~(~IsTick(e) /\ Len(w) = BufferSize - 1)
  <2>1. /\ w' = w \o (IF IsTick(e) THEN << >> ELSE <<e>>)
        /\ tapping_key' = tk /\ registered' = reg /\ last' = upto
    BY <1>6 DEF Held
  <2>2. w' = w \/ w' = Append(w, e)
    BY <1>2, <2>1
  <2>3. \A i \in DOMAIN Append(w, e) : Append(w, e)[i] = e \/ (i \in DOMAIN w /\ Append(w, e)[i] = w[i])
    BY <1>2
  <2>4. \A i \in DOMAIN w' : w'[i].no <= presses
    BY <2>2, <2>3, KnownAtHand DEF Known
  <2> QED
    BY <1>1, <2>1, <2>4 DEF Known
<1> QED
  BY <1>4, <1>5, <1>6, CurFacts

LEMMA BranchAges ==
  ASSUME Shape, AgeInv, Known, pc # "idle", Branch
  PROVE  AgeInv' /\ Known'
<1> DEFINE t == tapping_key
           R == registered
           T == Keys \X {"tap", "hold"}
<1>1. /\ t \in TappingRecord /\ t \in Records /\ t.key \in Keys \cup {NoKey}
      /\ (t.pressed => t.key \in Keys) /\ t.count \in 0 .. 15
      /\ R \subseteq T /\ last <= presses /\ t.no <= presses
      /\ (t.key = NoKey => t.age = 0)
  BY DEF Shape, TappingRecord, Records, Known, AgeInv
<1>2. /\ Cur \in Records /\ (Cur.pressed => Cur.count = 0) /\ Cur.no <= presses
      /\ (IsTick(Cur) => ~Cur.pressed) /\ (~IsTick(Cur) => Cur.key \in Keys)
      /\ Rest \in Seq(WaitingRecord)
  BY CurFacts, KnownAtHand DEF TappingRecord, Records, IsTick
<1>3. /\ Undecided(t) => t.pressed /\ t.count = 0 /\ Young(t) /\ t.key # NoKey /\ t.key \in Keys
      /\ NoKey \notin Keys
  BY <1>1, ConstantFacts DEF Undecided, Young
<1>4. /\ Interrupted \in Records /\ Interrupted.key = t.key /\ Interrupted.age = t.age
      /\ Interrupted.pressed = t.pressed /\ Interrupted.count = t.count /\ Interrupted.no = t.no
  BY <1>1 DEF Interrupted, Records
<1>5. ASSUME TickPasses PROVE AgeInv' /\ Known'
  <2>1. Consumed(t, R, last, Rest)
    BY <1>5 DEF TickPasses
  <2> QED
    BY <1>1, <1>5, <2>1, TickPassesAges, ConsumedKnown
<1>6. ASSUME Passes PROVE AgeInv' /\ Known'
  <2>1. PICK tk \in {t, Interrupted} : PassOn(tk, Cur)
    BY <1>6 DEF Passes
  <2>2. /\ ~IsTick(Cur) /\ tk.key = t.key /\ tk.age = t.age /\ tk.no = t.no
        /\ Young(tk) => Young(t)
    BY <1>4, <1>6 DEF Passes, Young
  <2>3. Consumed(tk, process_record(R, Cur), Passed(Cur), Rest)
    BY <2>1 DEF PassOn
  <2>4. process_record(R, Cur) \subseteq T /\ Passed(Cur) <= presses
    BY <1>1, <1>2, <2>2, KindType DEF Passed
  <2>5. Known'
    BY <1>1, <2>2, <2>3, <2>4, ConsumedKnown
  <2>6. AgeInv'
    BY <1>1, <1>2, <2>2, <2>3, ConsumedAges
  <2> QED
    BY <2>5, <2>6
<1>7. ASSUME Starts PROVE AgeInv' /\ Known'
  <2> DEFINE Q == Unregistered(R, t)
             tk == [Cur EXCEPT !.count = 1]
  <2>1. Cur.pressed /\ ~IsTick(Cur) /\ StartTapping(Q, Cur) /\ Cur.key \in Keys
    BY <1>2, <1>7 DEF Starts
  <2>2. Q \subseteq T
    BY <1>1 DEF Unregistered
  <2> HIDE DEF Q
  <2>3. /\ tk.key = Cur.key /\ tk.age = Cur.age /\ tk.no = Cur.no
    BY <1>2 DEF Records
  <2>a. \/ Consumed(Cur, Q, last, Rest)
        \/ \E i \in TapReleases(Cur), ws \in Seq(WaitingRecord) :
             /\ Consumed(tk, process_record(Q, tk), Cur.no, ws)
             /\ DOMAIN ws = DOMAIN Rest /\ ws[i] = [Rest[i] EXCEPT !.count = 1]
             /\ \A j \in DOMAIN Rest : j # i => ws[j] = Rest[j]
    <3>1. \/ TapReleases(Cur) = {} /\ Consumed(Cur, Q, last, Rest)
          \/ \E i \in TapReleases(Cur), ws \in Seq(WaitingRecord) :
               /\ \A j \in TapReleases(Cur) : i <= j
               /\ Consumed(tk, process_record(Q, tk), Cur.no, ws)
               /\ DOMAIN ws = DOMAIN Rest /\ ws[i] = [Rest[i] EXCEPT !.count = 1]
               /\ \A j \in DOMAIN Rest : j # i => ws[j] = Rest[j]
      BY <2>1, StartCases, Zenon
    <3> QED
      BY <3>1
  <2> HIDE DEF tk
  <2>4. CASE Consumed(Cur, Q, last, Rest)
    <3>1. Known'
      BY <1>1, <1>2, <2>2, <2>4, ConsumedKnown
    <3>2. AgeInv'
      BY <1>2, <1>3, <2>1, <2>4, ConsumedAges
    <3> QED
      BY <3>1, <3>2
  <2>5. ASSUME NEW i \in TapReleases(Cur), NEW ws \in Seq(WaitingRecord),
               Consumed(tk, process_record(Q, tk), Cur.no, ws),
               DOMAIN ws = DOMAIN Rest, ws[i] = [Rest[i] EXCEPT !.count = 1],
               \A j \in DOMAIN Rest : j # i => ws[j] = Rest[j]
        PROVE  AgeInv' /\ Known'
    <3>1. i \in DOMAIN Rest
      BY DEF TapReleases
    <3>2. Rest[i] \in Records
      <4>1. Rest[i] \in WaitingRecord
        BY <1>2, <3>1
      <4> QED
        BY <4>1 DEF WaitingRecord
    <3>3. ws[i].age = Rest[i].age /\ ws[i].no = Rest[i].no
      BY <2>5, <3>2 DEF Records
    <3>4. \A j \in DOMAIN Rest : ws[j].age = Rest[j].age /\ ws[j].no = Rest[j].no
      BY <2>5, <3>3
    <3>5. process_record(Q, tk) \subseteq T
      BY <2>1, <2>2, <2>3, KindType
    <3>6. Known'
      BY <1>2, <2>3, <2>5, <3>4, <3>5, ConsumedKnown
    <3>7. AgeInv'
      BY <1>2, <1>3, <2>1, <2>3, <2>5, <3>4, ConsumedAges
    <3> QED
      BY <3>6, <3>7
  <2> QED
    BY <2>a, <2>4, <2>5, Zenon
<1>8. ASSUME Restarts PROVE AgeInv' /\ Known'
  <2> DEFINE tk == [Cur EXCEPT !.count = IF t.count < 15 THEN t.count + 1 ELSE t.count]
  <2>1. Cur.pressed /\ ~IsTick(Cur) /\ Cur.key \in Keys /\ Again(t, Cur)
    BY <1>2, <1>8 DEF Restarts
  <2>2. /\ tk.key = Cur.key /\ tk.age = Cur.age /\ tk.no = Cur.no
    BY <1>2 DEF Records
  <2>3. \/ Consumed(tk, process_record(R, tk), Cur.no, Rest)
        \/ Consumed(Cur, R, last, Rest)
    BY <2>1 DEF Again
  <2> HIDE DEF tk
  <2>4. CASE Consumed(tk, process_record(R, tk), Cur.no, Rest)
    <3>1. process_record(R, tk) \subseteq T
      BY <1>1, <2>1, <2>2, KindType
    <3>2. Known'
      BY <1>2, <2>2, <2>4, <3>1, ConsumedKnown
    <3>3. AgeInv'
      BY <1>2, <1>3, <2>1, <2>2, <2>4, ConsumedAges
    <3> QED
      BY <3>2, <3>3
  <2>5. CASE Consumed(Cur, R, last, Rest)
    <3>1. Known'
      BY <1>1, <1>2, <2>5, ConsumedKnown
    <3>2. AgeInv'
      BY <1>2, <1>3, <2>1, <2>5, ConsumedAges
    <3> QED
      BY <3>1, <3>2
  <2> QED
    BY <2>3, <2>4, <2>5
<1>9. ASSUME Taps PROVE AgeInv' /\ Known'
  <2> DEFINE tk == [t EXCEPT !.count = 1]
             e  == [Cur EXCEPT !.count = 1, !.interrupted = t.interrupted]
  <2>1. ~Cur.pressed /\ ~IsTick(Cur) /\ Held(tk, process_record(R, tk), t.no, e) /\ Undecided(t)
    BY <1>9 DEF Taps, FirstTap
  <2>2. tk.key = t.key /\ tk.pressed /\ tk.count = 1 /\ tk.no = t.no
    BY <1>1, <1>3, <2>1 DEF Records
  <2>3. e \in Records
    <3>1. t.interrupted \in BOOLEAN /\ 1 \in 0 .. 15
      BY <1>1 DEF Records
    <3> QED
      BY <1>2, <3>1 DEF Records
  <2>4. e.key = Cur.key /\ e.pressed = Cur.pressed /\ e.no = Cur.no /\ e.age = Cur.age
    BY <1>2 DEF Records
  <2> HIDE DEF tk, e
  <2>5. ~Young(tk) /\ tk.key # NoKey
    BY <1>3, <2>1, <2>2 DEF Young
  <2>6. process_record(R, tk) \subseteq T
    BY <1>1, <1>3, <2>1, <2>2, KindType
  <2>7. Known'
    BY <1>1, <2>1, <2>2, <2>3, <2>4, <2>6, HeldKnown
  <2>8. AgeInv'
    BY <1>3, <2>1, <2>3, <2>4, <2>5, HeldAges
  <2> QED
    BY <2>7, <2>8
<1>10. ASSUME Holds PROVE AgeInv' /\ Known'
  <2>1. Held(Nothing, R \cup {<<t.key, "hold">>}, t.no, Cur) /\ Undecided(t)
    BY <1>10 DEF Holds
  <2>2. R \cup {<<t.key, "hold">>} \subseteq T /\ Nothing.no <= presses
    <3>1. 0 <= presses
      BY ConstantFacts DEF Shape
    <3> QED
      BY <1>1, <1>3, <2>1, <3>1, NothingAge
  <2>3. Known'
    BY <1>1, <1>2, <2>1, <2>2, HeldKnown
  <2>4. AgeInv'
    BY <1>2, <1>3, <2>1, HeldAges
  <2> QED
    BY <2>3, <2>4
<1>11. ASSUME KeepsWaiting PROVE AgeInv' /\ Known'
  <2>1. PICK tk \in {t, Interrupted} : Held(tk, R, last, Cur)
    BY <1>11 DEF KeepsWaiting
  <2>2. ~IsTick(Cur) /\ Undecided(t) /\ InTerm
    BY <1>11 DEF KeepsWaiting
  <2>3. tk.key = t.key /\ tk.age = t.age /\ tk.no = t.no /\ Undecided(tk)
    BY <1>3, <1>4, <2>2 DEF Undecided
  <2>4. Known'
    BY <1>1, <1>2, <2>1, <2>3, HeldKnown
  <2>5. AgeInv'
    BY <1>2, <1>3, <2>1, <2>2, <2>3, HeldAges
  <2> QED
    BY <2>4, <2>5
<1>12. ASSUME Releases PROVE AgeInv' /\ Known'
  <2>1. PICK after : SettledRelease(t, Cur, after)
    BY <1>12 DEF Releases
  <2> DEFINE r  == [Cur EXCEPT !.count = t.count, !.interrupted = t.interrupted]
             tk == IF after = "keep" THEN r ELSE Nothing
  <2>2. Consumed(tk, process_record(R, r), last, Rest)
    BY <2>1 DEF SettledRelease
  <2>3. ~IsTick(Cur) /\ r.key = Cur.key /\ r.age = Cur.age /\ r.no = Cur.no
    BY <1>2, <1>12 DEF Records, Releases
  <2> HIDE DEF r
  <2>4. /\ process_record(R, r) \subseteq T /\ tk.no <= presses
        /\ tk.age = 0 \/ tk.age = Cur.age
        /\ tk.key = NoKey => tk.age = 0
    <3>1. 0 <= presses
      BY ConstantFacts DEF Shape
    <3> QED
      BY <1>1, <1>2, <1>3, <2>3, <3>1, NothingAge, KindType
  <2> HIDE DEF tk
  <2>5. Known'
    BY <1>1, <2>2, <2>4, ConsumedKnown
  <2>6. AgeInv'
    BY <1>2, <2>2, <2>3, <2>4, ConsumedAges
  <2> QED
    BY <2>5, <2>6
<1>13. ASSUME Expires PROVE AgeInv' /\ Known'
  <2>1. Held(Nothing, R, last, Cur) /\ t.key # NoKey /\ Young(t)
    BY <1>13 DEF Expires, Young
  <2>2. Nothing.no <= presses
    <3>1. 0 <= presses
      BY ConstantFacts DEF Shape
    <3> QED
      BY <3>1, NothingAge
  <2>3. Known'
    BY <1>1, <1>2, <2>1, <2>2, HeldKnown
  <2>4. AgeInv'
    BY <1>2, <2>1, HeldAges
  <2> QED
    BY <2>3, <2>4
<1> QED
  BY <1>5, <1>6, <1>7, <1>8, <1>9, <1>10, <1>11, <1>12, <1>13 DEF Branch

LEMMA EventAges ==
  ASSUME Shape, AgeInv, Known, NEW e \in WaitingRecord, e.age = 0, e.no <= presses', Event(e),
         down' \subseteq Keys, presses' \in Nat, presses <= presses'
  PROVE  AgeInv' /\ Known'
<1>1. /\ pc = "idle" /\ pc' = "new" /\ arrived' = e /\ ~IsTick(e) /\ e.key \in Keys
      /\ UNCHANGED <<tapping_key, waiting_buffer, tick_age, registered, build, last>>
      /\ changed' = changed \cup {e.key}
  BY DEF Event, WaitingRecord, Records, IsTick
<1>2. ~TickComes /\ ~TickComes' /\ ~FirstGoes /\ ~FirstGoes'
  BY <1>1 DEF TickComes, FirstGoes, IsTick
<1>3. AgeInv'
  BY <1>1, <1>2 DEF AgeInv, Settling, NoOlder, Undecided, Descending, Young
<1>4. /\ presses \in Nat /\ last \in Nat /\ tapping_key.no \in Nat
      /\ \A i \in DOMAIN waiting_buffer : waiting_buffer[i].no \in Nat
  <2>1. \A r \in Records : r.no \in Nat
    BY ConstantFacts DEF Records
  <2>2. \A i \in DOMAIN waiting_buffer : waiting_buffer[i] \in Records
    <3>1. \A i \in DOMAIN waiting_buffer : waiting_buffer[i] \in WaitingRecord
      BY RecordAges
    <3> QED
      BY <3>1 DEF WaitingRecord
  <2> QED
    BY <2>1, <2>2, ConstantFacts DEF Shape, TappingRecord
<1>5. Known'
  BY <1>1, <1>4 DEF Known
<1> QED
  BY <1>3, <1>5

LEMMA TickAges ==
  ASSUME Shape, AgeInv, Known, Tick
  PROVE  AgeInv' /\ Known'
<1> DEFINE X == Limit(Len(waiting_buffer))
<1>1. /\ pc = "idle" /\ pc' = "new" /\ arrived' = Nothing /\ tick_age' = 0 /\ changed' = {}
      /\ UNCHANGED <<tapping_key, waiting_buffer, down, registered, build, presses, last>>
  BY DEF Tick
<1>2. ~TickComes /\ TickComes' /\ ~FirstGoes
  BY <1>1, NothingAge DEF TickComes, FirstGoes, IsTick
<1>3. /\ X \in Int /\ MaxStall \in Nat /\ tick_age \in 0 .. MaxStall /\ tapping_key.age \in Nat
      /\ \A i \in DOMAIN waiting_buffer : waiting_buffer[i].age \in Nat
      /\ 0 \in 0 .. MaxStall
  BY RecordAges, LimitFacts DEF AgeInv
<1>4. /\ Young(tapping_key) => tapping_key.age <= X + tick_age + 0
      /\ NoOlder(waiting_buffer, X + tick_age + 0)
  BY <1>2 DEF AgeInv
<1>5. /\ Young(tapping_key) => tapping_key.age <= X + 0 + MaxStall
      /\ NoOlder(waiting_buffer, X + 0 + MaxStall)
  <2> HIDE DEF X
  <2> QED
    BY <1>3, <1>4 DEF NoOlder
<1>6. Settling' /\ Descending(waiting_buffer)
  BY <1>1 DEF AgeInv, Settling, NoOlder, Undecided
<1>7. AgeInv'
  <2>1. (Young(tapping_key) =>
            tapping_key.age <= Limit(Len(waiting_buffer)) + tick_age
                                 + (IF TickComes THEN MaxStall ELSE 0))'
    BY <1>1, <1>2, <1>5
  <2>2. NoOlder(waiting_buffer, Limit(Len(waiting_buffer)) + tick_age
                                   + (IF TickComes \/ FirstGoes THEN MaxStall ELSE 0))'
    BY <1>1, <1>2, <1>5
  <2> QED
    BY <1>1, <1>3, <1>6, <2>1, <2>2, NothingAge DEF AgeInv
<1>8. Known'
  <2>1. 0 <= presses
    BY ConstantFacts DEF Shape
  <2> QED
    BY <1>1, <2>1, NothingAge DEF Known
<1> QED
  BY <1>7, <1>8

LEMMA OlderAge ==
  ASSUME NEW r \in Records
  PROVE  /\ r.age \in Nat /\ Older(r).age \in Nat
         /\ Older(r).age = r.age \/ Older(r).age = r.age + 1
         /\ IsTick(r) => Older(r) = r
         /\ ~IsTick(r) /\ r.age < AgeMax => Older(r).age = r.age + 1
         /\ r.age <= AgeMax /\ Older(r).age <= AgeMax
         /\ r.age = AgeMax => Older(r).age = AgeMax
<1>1. r.age \in 0 .. AgeMax /\ AgeMax \in Nat
  BY ConstantFacts DEF Records
<1>2. CASE IsTick(r) \/ r.age = AgeMax
  BY <1>1, <1>2 DEF Older
<1>3. CASE ~(IsTick(r) \/ r.age = AgeMax)
  <2>1. Older(r) = [r EXCEPT !.age = r.age + 1]
    BY <1>3 DEF Older, Records
  <2>2. Older(r).age = r.age + 1
    BY <2>1 DEF Records
  <2> QED
    BY <1>1, <1>3, <2>2
<1> QED
  BY <1>2, <1>3

LEMMA OlderMonotone ==
  ASSUME NEW r \in Records, NEW s \in Records, ~IsTick(s), r.age <= s.age
  PROVE  Older(r).age <= Older(s).age
<1>1. AgeMax \in Nat
  BY ConstantFacts
<1>2. CASE s.age = AgeMax
  BY <1>1, <1>2, OlderAge
<1>3. CASE s.age < AgeMax
  BY <1>1, <1>3, OlderAge
<1> QED
  BY <1>1, <1>2, <1>3, OlderAge

LEMMA ClockAges ==
  ASSUME Shape, AgeInv, Known, Clock
  PROVE  AgeInv' /\ Known'
<1> DEFINE w == waiting_buffer
           t == tapping_key
           X == Limit(Len(w))
<1>1. /\ pc = "idle" /\ pc' = "idle" /\ tick_age' = tick_age + 1 /\ tick_age < build.Stall
      /\ tapping_key' = Older(t) /\ w' = [i \in DOMAIN w |-> Older(w[i])]
      /\ UNCHANGED <<arrived, down, changed, registered, build, presses, last>>
  BY DEF Clock
<1>2. /\ X \in Int /\ MaxStall \in Nat /\ tick_age \in 0 .. MaxStall /\ t.age \in Nat
      /\ \A i \in DOMAIN w : w[i].age \in Nat
  BY RecordAges, LimitFacts DEF AgeInv
<1>3. build.Stall \in 1 .. MaxStall
  BY TappingAssumption DEF Known
<1>4. tick_age + 1 \in 0 .. MaxStall
  BY <1>1, <1>2, <1>3
<1>5. ~TickComes /\ ~TickComes' /\ ~FirstGoes /\ ~FirstGoes'
  BY <1>1 DEF TickComes, FirstGoes
<1>6. /\ t \in Records /\ (t.pressed => ~IsTick(t)) /\ w \in Seq(WaitingRecord)
  BY DEF Shape, TappingRecord, IsTick
<1>7. \A i \in DOMAIN w : w[i] \in Records /\ ~IsTick(w[i])
  <2>1. \A i \in DOMAIN w : w[i] \in WaitingRecord
    BY <1>6
  <2> QED
    BY <2>1 DEF WaitingRecord, IsTick
<1>8. DOMAIN w' = DOMAIN w /\ \A i \in DOMAIN w : w'[i] = Older(w[i])
  BY <1>1
<1>9. Len(w') = Len(w)
  <2>1. w' \in Seq(Records)
    <3>1. \A i \in DOMAIN w : Older(w[i]) \in Records
      BY <1>7, OlderFacts
    <3>2. DOMAIN w = 1 .. Len(w) /\ Len(w) \in Nat
      BY <1>6
    <3> QED
      BY <1>1, <3>1, <3>2
  <2> QED
    BY <1>6, <1>8, <2>1, SameLen
<1>10. /\ Older(t).key = t.key /\ Older(t).pressed = t.pressed /\ Older(t).count = t.count
       /\ Older(t).no = t.no /\ Older(t).age <= t.age + 1 /\ Older(t).age \in Nat
       /\ IsTick(t) => Older(t).age = t.age
  BY <1>2, <1>6, OlderFacts, OlderAge
<1>11. /\ Descending(w) /\ Settling /\ (t.key = NoKey => t.age = 0)
       /\ Young(t) => t.age <= X + tick_age + 0
       /\ NoOlder(w, X + tick_age + 0)
  BY <1>1, <1>5 DEF AgeInv
<1>12. Descending(w')
  <2> SUFFICES ASSUME NEW i \in DOMAIN w, NEW j \in DOMAIN w, i <= j
               PROVE  w'[j].age <= w'[i].age
    BY <1>8 DEF Descending
  <2>1. w[j].age <= w[i].age
    BY <1>11 DEF Descending
  <2> QED
    BY <1>7, <1>8, <2>1, OlderMonotone
<1>13. NoOlder(w', X + (tick_age + 1) + 0)
  <2> HIDE DEF X
  <2> SUFFICES ASSUME NEW i \in DOMAIN w PROVE Older(w[i]).age <= X + (tick_age + 1) + 0
    BY <1>8 DEF NoOlder
  <2>1. w[i].age <= X + tick_age + 0
    BY <1>11 DEF NoOlder
  <2>2. Older(w[i]).age = w[i].age \/ Older(w[i]).age = w[i].age + 1
    BY <1>7, OlderAge
  <2> QED
    BY <1>2, <2>1, <2>2
<1>14. Young(Older(t)) => Older(t).age <= X + (tick_age + 1) + 0
  <2>1. Young(Older(t)) => Young(t)
    BY <1>10 DEF Young
  <2> HIDE DEF X
  <2> QED
    BY <1>2, <1>10, <1>11, <2>1
<1>15. Undecided(Older(t)) => NoOlder(w', Older(t).age)
  <2> SUFFICES ASSUME Undecided(Older(t)), NEW i \in DOMAIN w
               PROVE  Older(w[i]).age <= Older(t).age
    BY <1>8 DEF NoOlder
  <2>1. Undecided(t) /\ ~IsTick(t)
    BY <1>6, <1>10 DEF Undecided
  <2>2. w[i].age <= t.age
    BY <1>11, <2>1 DEF Settling, NoOlder
  <2> QED
    BY <1>6, <1>7, <2>1, <2>2, OlderMonotone
<1>16. w' # << >> => w # << >>
  BY <1>6, <1>8
<1>17. Settling'
  BY <1>1, <1>10, <1>11, <1>15, <1>16 DEF Settling
<1>18. AgeInv'
  <2>1. (Young(tapping_key) =>
            tapping_key.age <= Limit(Len(waiting_buffer)) + tick_age
                                 + (IF TickComes THEN MaxStall ELSE 0))'
    BY <1>1, <1>5, <1>9, <1>14
  <2>2. NoOlder(waiting_buffer, Limit(Len(waiting_buffer)) + tick_age
                                   + (IF TickComes \/ FirstGoes THEN MaxStall ELSE 0))'
    BY <1>1, <1>5, <1>9, <1>13
  <2> QED
    BY <1>1, <1>4, <1>5, <1>10, <1>11, <1>12, <1>17, <2>1, <2>2 DEF AgeInv, IsTick
<1>19. Known'
  <2>1. \A i \in DOMAIN w : Older(w[i]).no = w[i].no
    BY <1>7, OlderFacts
  <2> QED
    BY <1>1, <1>8, <1>10, <2>1 DEF Known
<1> QED
  BY <1>18, <1>19

\* What makes the type invariant inductive.
TypeInv == TapInv /\ AgeInv /\ Known /\ unscanned \in BOOLEAN

LEMMA TypeInit == ASSUME Init PROVE TypeInv
<1>1. /\ tapping_key = Nothing /\ waiting_buffer = << >> /\ arrived = Nothing /\ pc = "idle"
      /\ tick_age = 0 /\ down = {} /\ changed = {} /\ registered = {} /\ build \in Builds
      /\ presses = 0 /\ last = 0 /\ unscanned = FALSE
  BY DEF Init
<1>2. ~TickComes /\ ~FirstGoes /\ Settling /\ Descending(waiting_buffer)
  BY <1>1, NothingAge DEF TickComes, FirstGoes, Settling, Descending, Undecided
<1>3. /\ MaxStall \in Nat /\ Limit(0) \in Int /\ TappingTerm - 1 <= Limit(0)
      /\ TappingTerm \in Nat /\ TappingTerm >= 1
  BY LimitFacts, ConstantFacts
<1>4. Len(waiting_buffer) = 0
  BY <1>1
<1>5. /\ 0 \in 0 .. MaxStall /\ 0 <= Limit(0) + 0 + 0
      /\ \A i \in DOMAIN waiting_buffer : waiting_buffer[i].age <= Limit(0) + 0 + 0
  BY <1>1, <1>3
<1>6. AgeInv
  BY <1>1, <1>2, <1>4, <1>5, NothingAge DEF AgeInv, NoOlder
<1>7. Known
  BY <1>1, NothingAge DEF Known
<1> QED
  BY <1>1, <1>6, <1>7, TapInit DEF TypeInv

LEMMA TypeStep ==
  ASSUME TypeInv, [Next]_vars
  PROVE  TypeInv'
<1>1. TapInv' /\ Shape
  BY TapStep DEF TypeInv, TapInv
<1>2. AgeInv /\ Known /\ unscanned \in BOOLEAN
  BY DEF TypeInv
<1>3. ASSUME NEW k \in Keys, Press(k) PROVE AgeInv' /\ Known' /\ unscanned' = unscanned
  <2> DEFINE e == Record(k, TRUE, presses + 1)
  <2>0. presses \in Nat /\ MaxPresses \in Nat
    BY <1>1, ConstantFacts DEF Shape
  <2>1. presses \in Nat /\ presses + 1 \in 0 .. MaxPresses /\ presses' = presses + 1 /\ Event(e)
    <3>1. presses < MaxPresses /\ presses' = presses + 1
      BY <1>3 DEF Press
    <3>2. Event(e)
      BY <1>3 DEF Press
    <3> HIDE DEF e
    <3> QED
      BY <2>0, <3>1, <3>2
  <2>2. e \in WaitingRecord
    BY <2>1, ConstantFacts DEF Record, WaitingRecord, Records
  <2>3. e.age = 0 /\ e.no = presses + 1
    BY DEF Record
  <2>4. down' \subseteq Keys
    BY <1>2, <1>3 DEF Press, Known
  <2> HIDE DEF e
  <2>5. AgeInv' /\ Known'
    BY <1>1, <1>2, <2>1, <2>2, <2>3, <2>4, EventAges
  <2> QED
    BY <2>1, <2>5 DEF Event
<1>4. ASSUME NEW k \in Keys, Release(k) PROVE AgeInv' /\ Known' /\ unscanned' = unscanned
  <2> DEFINE e == Record(k, FALSE, 0)
  <2>0. presses \in Nat
    BY <1>1, ConstantFacts DEF Shape
  <2>1. presses \in Nat /\ presses' = presses /\ Event(e)
    BY <1>4, <2>0 DEF Release
  <2>2. e \in WaitingRecord
    BY <2>1, ConstantFacts DEF Record, WaitingRecord, Records
  <2>3. e.age = 0 /\ e.no = 0
    BY DEF Record
  <2>4. down' \subseteq Keys
    BY <1>2, <1>4 DEF Release, Known
  <2> HIDE DEF e
  <2>5. AgeInv' /\ Known'
    BY <1>1, <1>2, <2>1, <2>2, <2>3, <2>4, EventAges
  <2> QED
    BY <2>1, <2>5 DEF Event
<1>5. CASE Tick
  BY <1>1, <1>2, <1>5, TickAges DEF TypeInv, Tick
<1>6. CASE Clock
  BY <1>1, <1>2, <1>6, ClockAges DEF TypeInv, Clock
<1>7. CASE process_tapping
  <2>1. pc # "idle" /\ unscanned' \in BOOLEAN /\ Branch
    BY <1>1, <1>7, ProcessBranch DEF process_tapping
  <2> QED
    BY <1>1, <1>2, <2>1, BranchAges DEF TypeInv
<1>8. CASE UNCHANGED vars
  <2>1. AgeInv'
    BY <1>2, <1>8 DEF vars, AgeInv, Settling, NoOlder, Undecided, Descending, Young, TickComes,
                      FirstGoes, IsTick
  <2>2. Known' /\ unscanned' = unscanned
    BY <1>2, <1>8 DEF vars, Known
  <2> QED
    BY <1>1, <1>2, <2>1, <2>2 DEF TypeInv
<1> QED
  BY <1>1, <1>2, <1>3, <1>4, <1>5, <1>6, <1>7, <1>8 DEF Next, TypeInv

LEMMA TypeInvType == ASSUME TypeInv PROVE TypeOK
<1>1. Shape /\ AgeInv /\ Known
  BY DEF TypeInv, TapInv
<1>2. /\ tapping_key \in Records /\ arrived \in Records /\ tapping_key.count \in 0 .. 15
      /\ waiting_buffer \in Seq(Records) /\ Len(waiting_buffer) < BufferSize
  <2>1. waiting_buffer \in Seq(WaitingRecord) /\ WaitingRecord \subseteq Records
    BY <1>1 DEF Shape, WaitingRecord
  <2>2. waiting_buffer \in Seq(Records)
    BY <2>1
  <2> QED
    BY <1>1, <2>2 DEF Shape, TappingRecord, Records
<1>3. tapping_key.age = AgeMax => tapping_key.pressed /\ tapping_key.count > 0
  <2>1. AgeMax \in Nat
    BY ConstantFacts
  <2> QED
    BY <1>1, <2>1, AgesBounded DEF Young
<1>4. \A i \in DOMAIN waiting_buffer : waiting_buffer[i].age < AgeMax
  BY <1>1, AgesBounded
<1>5. last \in 0 .. presses
  BY <1>1, ConstantFacts DEF Shape, Known
<1> QED
  BY <1>1, <1>2, <1>3, <1>4, <1>5 DEF TypeOK, TypeInv, Shape, Known, AgeInv

THEOREM TypeInductive == Spec => []TypeInv
<1>1. TypeInv /\ [Next]_vars => TypeInv'
  BY TypeStep
<1> QED
  BY <1>1, TypeInit, PTL DEF Spec

\* Type correctness: the waiting buffer keeps a slot free, and nothing that is still
\* to be settled by action_tapping_process grows so old that its time wraps.
THEOREM TypeCorrect == Spec => []TypeOK
<1>1. TypeInv => TypeOK
  BY TypeInvType
<1> QED
  BY <1>1, TypeInductive, PTL

-----------------------------------------------------------------------------
(***************************************************************************)
(* No stuck key.  The events of a key alternate along the line, and end    *)
(* with where the key is.  A key is due when its next event is a release:  *)
(* so is the tapping key while it is down, and every registered key.  What *)
(* the release will take back, the tap or the hold, is told by its tap     *)
(* count, which only the next event of a key carries.                      *)
(***************************************************************************)

\* No earlier event of the line is of the same key.
First(s, i) == \A j \in DOMAIN s : j < i => s[j].key # s[i].key

Alternating(s, d) ==
  /\ \A i, j \in DOMAIN s : i < j /\ s[i].key = s[j].key /\ s[i].pressed = s[j].pressed
       => \E m \in DOMAIN s : i < m /\ m < j /\ s[m].key = s[i].key
  /\ \A i \in DOMAIN s : (\A j \in DOMAIN s : i < j => s[j].key # s[i].key)
       => (s[i].pressed <=> s[i].key \in d)

Due(s, d, k) ==
  /\ \A i \in DOMAIN s : s[i].key = k /\ First(s, i) => ~s[i].pressed
  /\ (\A i \in DOMAIN s : s[i].key # k) => k \in d

\* The tapping key and the registered keys have their release to come.
DueInv(s, t, R, d) ==
  /\ t.pressed => Due(s, d, t.key)
  /\ \A k \in Keys : <<k, "tap">> \in R \/ <<k, "hold">> \in R => Due(s, d, k)

\* Only a release that comes next is marked, and none of an undecided key.
MarkInv(s, t) ==
  /\ \A i \in DOMAIN s : s[i].count # 0 => ~s[i].pressed /\ First(s, i)
  /\ Undecided(t) => \A i \in DOMAIN s : s[i].key = t.key => s[i].count = 0

\* A tap is taken back by a marked release or by a tapping key tapped before, a
\* hold by a release that is not marked.
KindInv(s, t, R) ==
  \A k \in Keys :
    /\ <<k, "tap">> \in R => \/ t.pressed /\ t.key = k /\ t.count > 1
                             \/ \E i \in DOMAIN s : s[i].key = k /\ s[i].count # 0
    /\ <<k, "hold">> \in R => /\ ~(t.pressed /\ t.key = k)
                              /\ \A i \in DOMAIN s : s[i].key = k => s[i].count = 0

KeyInv(s, t, R, d) ==
  Alternating(s, d) /\ DueInv(s, t, R, d) /\ MarkInv(s, t) /\ KindInv(s, t, R)

-----------------------------------------------------------------------------
(* Lines that change.                                                      *)

LEMMA SameEvents ==
  ASSUME NEW s, NEW u, DOMAIN u = DOMAIN s, NEW d,
         \A i \in DOMAIN s : u[i].key = s[i].key /\ u[i].pressed = s[i].pressed
  PROVE  /\ Alternating(s, d) => Alternating(u, d)
         /\ \A k : Due(s, d, k) => Due(u, d, k)
         /\ \A i \in DOMAIN s : First(s, i) => First(u, i)
<1>1. \A i \in DOMAIN s : First(s, i) <=> First(u, i)
  BY DEF First
<1>2. Alternating(s, d) => Alternating(u, d)
  BY DEF Alternating
<1>3. \A k : Due(s, d, k) => Due(u, d, k)
  BY <1>1 DEF Due
<1> QED
  BY <1>1, <1>2, <1>3

\* u is s without its record at p.
Cut(u, s, p) ==
  \E f \in [DOMAIN u -> DOMAIN s] :
    /\ \A i, j \in DOMAIN u : i < j <=> f[i] < f[j]
    /\ \A m \in DOMAIN s : m # p => \E i \in DOMAIN u : f[i] = m
    /\ \A i \in DOMAIN u : f[i] # p /\ u[i] = s[f[i]]

LEMMA CutHead ==
  ASSUME NEW S, NEW s \in Seq(S), s # << >>
  PROVE  Cut(Tail(s), s, 1)
<1> DEFINE n == Len(s)
           u == Tail(s)
           f == [i \in 1 .. n - 1 |-> i + 1]
<1>1. /\ n \in Nat /\ n >= 1 /\ DOMAIN s = 1 .. n /\ DOMAIN u = 1 .. n - 1
      /\ \A i \in 1 .. n - 1 : u[i] = s[i + 1]
  OBVIOUS
<1> HIDE DEF n, u
<1>2. f \in [1 .. n - 1 -> 1 .. n] /\ \A i \in 1 .. n - 1 : f[i] = i + 1
  BY <1>1
<1> HIDE DEF f
<1>3. \A i, j \in 1 .. n - 1 : i < j <=> f[i] < f[j]
  BY <1>1, <1>2
<1>4. ASSUME NEW m \in 1 .. n, m # 1 PROVE \E i \in 1 .. n - 1 : f[i] = m
  <2>1. m - 1 \in 1 .. n - 1 /\ (m - 1) + 1 = m
    BY <1>1, <1>4
  <2> QED
    BY <1>2, <2>1
<1>5. \A i \in 1 .. n - 1 : f[i] # 1 /\ u[i] = s[f[i]]
  BY <1>1, <1>2
<1>6. Cut(u, s, 1)
  <2>1. /\ f \in [DOMAIN u -> DOMAIN s]
        /\ \A i, j \in DOMAIN u : i < j <=> f[i] < f[j]
        /\ \A m \in DOMAIN s : m # 1 => \E i \in DOMAIN u : f[i] = m
        /\ \A i \in DOMAIN u : f[i] # 1 /\ u[i] = s[f[i]]
    BY <1>1, <1>2, <1>3, <1>4, <1>5
  <2> QED
    BY <2>1, Zenon DEF Cut
<1> QED
  BY <1>6 DEF u

LEMMA CutLast ==
  ASSUME NEW S, NEW s \in Seq(S), NEW e
  PROVE  Cut(s, Append(s, e), Len(s) + 1)
<1> DEFINE n == Len(s)
           u == Append(s, e)
           f == [i \in 1 .. n |-> i]
<1>1. /\ n \in Nat /\ DOMAIN s = 1 .. n /\ DOMAIN u = 1 .. n + 1
      /\ \A i \in 1 .. n : u[i] = s[i]
  OBVIOUS
<1> HIDE DEF u
<1>2. f \in [1 .. n -> 1 .. n + 1] /\ \A i \in 1 .. n : f[i] = i
  BY <1>1
<1> HIDE DEF f
<1>3. \A m \in 1 .. n + 1 : m # n + 1 => m \in 1 .. n
  BY <1>1
<1>4. \A i \in 1 .. n : i # n + 1
  BY <1>1
<1>5. Cut(s, u, n + 1)
  BY <1>1, <1>2, <1>3, <1>4 DEF Cut
<1> QED
  BY <1>5 DEF u

\* The next event of a key leaves the line.
LEMMA CutFirst ==
  ASSUME NEW s, NEW u, NEW d, NEW p \in DOMAIN s, DOMAIN s \subseteq Int, DOMAIN u \subseteq Int,
         Cut(u, s, p), First(s, p), Alternating(s, d),
         \A i \in DOMAIN s : s[i].pressed \in BOOLEAN
  PROVE  /\ Alternating(u, d)
         /\ \A k : k # s[p].key /\ Due(s, d, k) => Due(u, d, k)
         /\ s[p].pressed => Due(u, d, s[p].key)
         /\ \A i \in DOMAIN u : \E m \in DOMAIN s :
              m # p /\ u[i] = s[m] /\ (First(s, m) => First(u, i))
         /\ \A m \in DOMAIN s : m # p => \E i \in DOMAIN u : u[i] = s[m]
<1>1. PICK f \in [DOMAIN u -> DOMAIN s] :
        /\ \A i, j \in DOMAIN u : i < j <=> f[i] < f[j]
        /\ \A m \in DOMAIN s : m # p => \E i \in DOMAIN u : f[i] = m
        /\ \A i \in DOMAIN u : f[i] # p /\ u[i] = s[f[i]]
  BY DEF Cut
<1>2. \A i \in DOMAIN u : f[i] \in DOMAIN s
  BY <1>1
<1>3. \A i \in DOMAIN u : First(s, f[i]) => First(u, i)
  BY <1>1, <1>2 DEF First
<1>4. ASSUME NEW i \in DOMAIN u, s[f[i]].key # s[p].key, First(u, i) PROVE First(s, f[i])
  <2> SUFFICES ASSUME NEW m \in DOMAIN s, m < f[i], s[m].key = s[f[i]].key PROVE FALSE
    BY DEF First
  <2>1. m # p
    BY <1>4
  <2>2. PICK j \in DOMAIN u : f[j] = m
    BY <1>1, <2>1
  <2>3. j < i /\ u[j].key = u[i].key
    BY <1>1, <2>2
  <2> QED
    BY <1>4, <2>3 DEF First
<1>5. ASSUME NEW i \in DOMAIN u, NEW j \in DOMAIN u, i < j, u[i].key = u[j].key,
             u[i].pressed = u[j].pressed
      PROVE  \E m \in DOMAIN u : i < m /\ m < j /\ u[m].key = u[i].key
  <2>1. f[i] < f[j] /\ s[f[i]].key = s[f[j]].key /\ s[f[i]].pressed = s[f[j]].pressed
    BY <1>1, <1>5
  <2>2. PICK x \in DOMAIN s : f[i] < x /\ x < f[j] /\ s[x].key = s[f[i]].key
    BY <1>2, <2>1 DEF Alternating
  <2>3. x # p
    <3>1. ASSUME x = p PROVE FALSE
      BY <1>2, <2>2, <3>1 DEF First
    <3> QED
      BY <3>1
  <2>4. PICK m \in DOMAIN u : f[m] = x
    BY <1>1, <2>3
  <2> QED
    BY <1>1, <2>2, <2>4
<1>6. ASSUME NEW i \in DOMAIN u, \A j \in DOMAIN u : i < j => u[j].key # u[i].key
      PROVE  u[i].pressed <=> u[i].key \in d
  <2>1. ASSUME NEW m \in DOMAIN s, f[i] < m, s[m].key = s[f[i]].key PROVE FALSE
    <3>1. m # p
      BY <1>2, <2>1 DEF First
    <3>2. PICK j \in DOMAIN u : f[j] = m
      BY <1>1, <3>1
    <3> QED
      BY <1>1, <1>6, <2>1, <3>2
  <2>2. s[f[i]].pressed <=> s[f[i]].key \in d
    BY <1>2, <2>1 DEF Alternating
  <2> QED
    BY <1>1, <2>2
<1>7. Alternating(u, d)
  BY <1>5, <1>6 DEF Alternating
<1>8. ASSUME NEW k, k # s[p].key, Due(s, d, k) PROVE Due(u, d, k)
  <2>1. ASSUME NEW i \in DOMAIN u, u[i].key = k, First(u, i) PROVE ~u[i].pressed
    <3>1. s[f[i]].key = k /\ First(s, f[i]) /\ f[i] \in DOMAIN s
      BY <1>1, <1>2, <1>4, <1>8, <2>1
    <3> QED
      BY <1>1, <1>8, <3>1 DEF Due
  <2>2. ASSUME \A i \in DOMAIN u : u[i].key # k PROVE k \in d
    <3>1. ASSUME NEW m \in DOMAIN s, s[m].key = k PROVE FALSE
      <4>1. PICK i \in DOMAIN u : f[i] = m
        BY <1>1, <1>8, <3>1
      <4> QED
        BY <1>1, <2>2, <3>1, <4>1
    <3> QED
      BY <1>8, <3>1 DEF Due
  <2> QED
    BY <2>1, <2>2 DEF Due
<1>9. ASSUME s[p].pressed PROVE Due(u, d, s[p].key)
  <2> DEFINE k == s[p].key
  <2>1. ASSUME NEW i \in DOMAIN u, u[i].key = k, First(u, i), u[i].pressed PROVE FALSE
    <3>1. s[f[i]].key = k /\ f[i] \in DOMAIN s /\ f[i] # p /\ u[i] = s[f[i]]
      BY <1>1, <1>2, <2>1
    <3>2. p < f[i]
      <4>1. ~(f[i] < p)
        BY <3>1 DEF First
      <4> QED
        BY <3>1, <4>1
    <3>3. s[p].pressed = s[f[i]].pressed
      <4>1. s[p].pressed \in BOOLEAN /\ s[f[i]].pressed \in BOOLEAN
        BY <3>1
      <4>2. s[p].pressed /\ s[f[i]].pressed
        BY <1>9, <2>1, <3>1
      <4> QED
        BY <4>1, <4>2
    <3>4. PICK x \in DOMAIN s : p < x /\ x < f[i] /\ s[x].key = k
      BY <3>1, <3>2, <3>3 DEF Alternating
    <3>5. PICK m \in DOMAIN u : f[m] = x
      BY <1>1, <3>4
    <3>6. m < i /\ u[m].key = u[i].key
      BY <1>1, <2>1, <3>4, <3>5
    <3> QED
      BY <2>1, <3>6 DEF First
  <2>2. ASSUME \A i \in DOMAIN u : u[i].key # k PROVE k \in d
    <3>1. ASSUME NEW j \in DOMAIN s, p < j, s[j].key = k PROVE FALSE
      <4>1. PICK i \in DOMAIN u : f[i] = j
        BY <1>1, <3>1
      <4> QED
        BY <1>1, <2>2, <3>1, <4>1
    <3> QED
      BY <1>9, <3>1 DEF Alternating
  <2> QED
    BY <2>1, <2>2 DEF Due
<1> QED
  BY <1>1, <1>2, <1>3, <1>7, <1>8, <1>9

\* A key changes, and its event joins the line.
LEMMA AppendEvent ==
  ASSUME NEW S, NEW s \in Seq(S), NEW e, NEW d, NEW c, Alternating(s, d),
         \/ e.pressed /\ e.pressed \in BOOLEAN /\ e.key \notin d /\ c = d \cup {e.key}
         \/ ~e.pressed /\ e.pressed \in BOOLEAN /\ e.key \in d /\ c = d \ {e.key},
         \A i \in DOMAIN s : s[i].pressed \in BOOLEAN
  PROVE  /\ Alternating(Append(s, e), c)
         /\ \A k : Due(s, d, k) => Due(Append(s, e), c, k)
         /\ \A i \in DOMAIN s : Append(s, e)[i] = s[i] /\ (First(s, i) => First(Append(s, e), i))
<1> DEFINE n == Len(s)
           u == Append(s, e)
<1>1. /\ n \in Nat /\ DOMAIN s = 1 .. n /\ DOMAIN u = 1 .. n + 1 /\ u[n + 1] = e
      /\ \A i \in 1 .. n : u[i] = s[i]
  OBVIOUS
<1>2. \A i \in 1 .. n + 1 : i \in 1 .. n \/ i = n + 1
  BY <1>1
<1>3. \A i \in 1 .. n : i \in 1 .. n + 1 /\ i < n + 1
  BY <1>1
<1> HIDE DEF n, u
<1>4. \A i \in DOMAIN s : First(s, i) <=> First(u, i)
  <2> SUFFICES ASSUME NEW i \in 1 .. n PROVE First(s, i) <=> First(u, i)
    BY <1>1
  <2>1. \A j \in 1 .. n + 1 : j < i => j \in 1 .. n
    BY <1>1, <1>2
  <2> QED
    BY <1>1, <1>3, <2>1 DEF First
<1>5. ASSUME NEW i \in 1 .. n + 1, NEW j \in 1 .. n + 1, i < j, u[i].key = u[j].key,
             u[i].pressed = u[j].pressed
      PROVE  \E m \in 1 .. n + 1 : i < m /\ m < j /\ u[m].key = u[i].key
  <2>1. i \in 1 .. n
    BY <1>1, <1>2, <1>5
  <2>2. CASE j \in 1 .. n
    <3>1. \E m \in 1 .. n : i < m /\ m < j /\ s[m].key = s[i].key
      BY <1>1, <1>5, <2>1, <2>2 DEF Alternating
    <3> QED
      BY <1>1, <1>3, <2>1, <3>1
  <2>3. CASE j = n + 1
    <3>1. s[i].key = e.key /\ s[i].pressed = e.pressed
      BY <1>1, <1>5, <2>1, <2>3
    <3>2. ~(s[i].pressed <=> s[i].key \in d)
      BY <3>1, Zenon
    <3>3. PICK m \in 1 .. n : i < m /\ s[m].key = s[i].key
      BY <1>1, <2>1, <3>2 DEF Alternating
    <3> QED
      BY <1>1, <1>3, <2>1, <2>3, <3>3
  <2> QED
    BY <1>2, <2>2, <2>3
<1>6. ASSUME NEW i \in 1 .. n + 1, \A j \in 1 .. n + 1 : i < j => u[j].key # u[i].key
      PROVE  u[i].pressed <=> u[i].key \in c
  <2>1. CASE i = n + 1
    <3>1. u[i] = e
      BY <1>1, <2>1
    <3> QED
      BY <3>1, Zenon
  <2>2. CASE i \in 1 .. n
    <3>1. s[i].key # e.key /\ u[i] = s[i]
      BY <1>1, <1>3, <1>6, <2>2
    <3>2. s[i].pressed <=> s[i].key \in d
      <4>1. \A j \in 1 .. n : i < j => s[j].key # s[i].key
        BY <1>1, <1>3, <1>6, <2>2
      <4> QED
        BY <1>1, <2>2, <4>1 DEF Alternating
    <3>3. s[i].key \in d <=> s[i].key \in c
      BY <3>1
    <3> QED
      BY <3>1, <3>2, <3>3, Zenon
  <2> QED
    BY <1>2, <2>1, <2>2
<1>7. Alternating(u, c)
  <2>1. DOMAIN u = 1 .. n + 1
    BY <1>1
  <2>2. \A i, j \in DOMAIN u : i < j /\ u[i].key = u[j].key /\ u[i].pressed = u[j].pressed
          => \E m \in DOMAIN u : i < m /\ m < j /\ u[m].key = u[i].key
    BY <1>5, <2>1
  <2>3. \A i \in DOMAIN u : (\A j \in DOMAIN u : i < j => u[j].key # u[i].key)
          => (u[i].pressed <=> u[i].key \in c)
    <3> SUFFICES ASSUME NEW i \in DOMAIN u, \A j \in DOMAIN u : i < j => u[j].key # u[i].key
                 PROVE  u[i].pressed <=> u[i].key \in c
      OBVIOUS
    <3> QED
      BY <1>6, <2>1, Zenon
  <2> QED
    BY <2>2, <2>3, Zenon DEF Alternating
<1>8. ASSUME NEW k, Due(s, d, k) PROVE Due(u, c, k)
  <2>1. ASSUME NEW i \in 1 .. n + 1, u[i].key = k, First(u, i) PROVE ~u[i].pressed
    <3>1. CASE i \in 1 .. n
      BY <1>1, <1>4, <1>8, <2>1, <3>1 DEF Due
    <3>2. CASE i = n + 1
      <4>1. \A j \in 1 .. n : s[j].key # k
        BY <1>1, <1>3, <2>1, <3>2 DEF First
      <4>2. k \in d /\ e.key = k
        BY <1>1, <1>8, <2>1, <3>2, <4>1 DEF Due
      <4> QED
        BY <1>1, <3>2, <4>2
    <3> QED
      BY <1>2, <3>1, <3>2
  <2>2. ASSUME \A i \in 1 .. n + 1 : u[i].key # k PROVE k \in c
    <3>1. e.key # k
      <4>1. n + 1 \in 1 .. n + 1
        BY <1>1
      <4> QED
        BY <1>1, <2>2, <4>1
    <3>2. k \in d
      BY <1>1, <1>3, <1>8, <2>2 DEF Due
    <3> QED
      BY <3>1, <3>2
  <2> QED
    BY <1>1, <2>1, <2>2 DEF Due
<1> QED
  BY <1>1, <1>4, <1>7, <1>8 DEF u

-----------------------------------------------------------------------------
(* What a step may do to the line, the tapping key and the registered keys. *)

LEMMA WaitingFacts ==
  ASSUME NEW s \in Seq(WaitingRecord)
  PROVE  /\ DOMAIN s \subseteq Int
         /\ \A i \in DOMAIN s : /\ s[i].key \in Keys /\ s[i].pressed \in BOOLEAN
                                /\ s[i].count \in 0 .. 15 /\ (s[i].pressed => s[i].count = 0)
<1>1. \A i \in DOMAIN s : s[i] \in WaitingRecord
  OBVIOUS
<1> QED
  BY <1>1 DEF WaitingRecord, Records

\* Two next events of a key are one.
LEMMA FirstUnique ==
  ASSUME NEW s, DOMAIN s \subseteq Int, NEW i \in DOMAIN s, NEW j \in DOMAIN s,
         First(s, i), First(s, j), s[i].key = s[j].key
  PROVE  i = j
BY DEF First

\* The same as far as a key that is up does not matter.
SameTap(t2, t) ==
  (t2.pressed <=> t.pressed) /\ (t.pressed => t2.key = t.key /\ t2.count = t.count)

LEMMA KeyIdle ==
  ASSUME NEW s, NEW t, NEW t2, NEW R, NEW d, KeyInv(s, t, R, d), SameTap(t2, t)
  PROVE  KeyInv(s, t2, R, d)
<1>1. DueInv(s, t2, R, d)
  BY DEF KeyInv, DueInv, SameTap
<1>2. MarkInv(s, t2)
  BY DEF KeyInv, MarkInv, SameTap, Undecided
<1>3. KindInv(s, t2, R)
  BY DEF KeyInv, KindInv, SameTap
<1> QED
  BY <1>1, <1>2, <1>3 DEF KeyInv

\* The next event of a key other than the tapping key is processed.
LEMMA KeyPass ==
  ASSUME NEW s \in Seq(WaitingRecord), NEW u \in Seq(WaitingRecord), NEW p \in DOMAIN s,
         NEW t, NEW t2, NEW R, NEW d, KeyInv(s, t, R, d), Cut(u, s, p), First(s, p),
         SameTap(t2, t), t.pressed => s[p].key # t.key
  PROVE  KeyInv(u, t2, process_record(R, s[p]), d)
<1> DEFINE Q == process_record(R, s[p])
           k == s[p].key
<1>1. /\ Alternating(u, d)
      /\ \A x : x # k /\ Due(s, d, x) => Due(u, d, x)
      /\ s[p].pressed => Due(u, d, k)
      /\ \A i \in DOMAIN u : \E m \in DOMAIN s :
           m # p /\ u[i] = s[m] /\ (First(s, m) => First(u, i))
      /\ \A m \in DOMAIN s : m # p => \E i \in DOMAIN u : u[i] = s[m]
  BY WaitingFacts, CutFirst DEF KeyInv
<1>2. /\ k \in Keys /\ (s[p].pressed => s[p].count = 0)
      /\ s[p].count \in 0 .. 15
  BY WaitingFacts
<1>3. ASSUME NEW m \in DOMAIN s, s[m].key = k, s[m].count # 0 PROVE m = p
  <2>1. First(s, m)
    BY <1>3 DEF KeyInv, MarkInv
  <2> QED
    BY <1>3, <2>1, WaitingFacts, FirstUnique
<1>4. \A i \in DOMAIN u : u[i].key = k => u[i].count = 0
  BY <1>1, <1>3
<1>a. MarkInv(u, t2)
  <2>1. /\ \A m \in DOMAIN s : s[m].count # 0 => ~s[m].pressed /\ First(s, m)
        /\ Undecided(t) => \A m \in DOMAIN s : s[m].key = t.key => s[m].count = 0
    BY DEF KeyInv, MarkInv
  <2>2. Undecided(t2) => Undecided(t) /\ t2.key = t.key
    BY DEF SameTap, Undecided
  <2>3. ASSUME NEW i \in DOMAIN u
        PROVE  /\ u[i].count # 0 => ~u[i].pressed /\ First(u, i)
               /\ Undecided(t2) => (u[i].key = t2.key => u[i].count = 0)
    <3>1. PICK m \in DOMAIN s : u[i] = s[m] /\ (First(s, m) => First(u, i))
      BY <1>1
    <3> QED
      BY <2>1, <2>2, <3>1, Zenon
  <2> QED
    BY <2>3 DEF MarkInv
<1>5. CASE s[p].pressed
  <2>1. Q = R \cup {<<k, "hold">>}
    BY <1>2, <1>5 DEF process_record, Kind
  <2>2. DueInv(u, t2, Q, d)
    <3>1. t2.pressed => Due(u, d, t2.key)
      BY <1>1 DEF KeyInv, DueInv, SameTap
    <3>2. ASSUME NEW x \in Keys, <<x, "tap">> \in Q \/ <<x, "hold">> \in Q PROVE Due(u, d, x)
      <4>1. CASE x = k
        BY <1>1, <1>5, <4>1
      <4>2. CASE x # k
        <5>1. <<x, "tap">> \in R \/ <<x, "hold">> \in R
          BY <2>1, <3>2, <4>2
        <5> QED
          BY <1>1, <4>2, <5>1 DEF KeyInv, DueInv
      <4> QED
        BY <4>1, <4>2
    <3> QED
      BY <3>1, <3>2 DEF DueInv
  <2>3. KindInv(u, t2, Q)
    <3>1. ASSUME NEW x \in Keys, <<x, "tap">> \in Q
          PROVE  \/ t2.pressed /\ t2.key = x /\ t2.count > 1
                 \/ \E i \in DOMAIN u : u[i].key = x /\ u[i].count # 0
      <4>1. <<x, "tap">> \in R
        BY <2>1, <3>1
      <4>2. \/ t.pressed /\ t.key = x /\ t.count > 1
            \/ \E i \in DOMAIN s : s[i].key = x /\ s[i].count # 0
        BY <4>1 DEF KeyInv, KindInv
      <4> QED
        BY <1>1, <1>2, <1>5, <4>2 DEF SameTap
    <3>2. ASSUME NEW x \in Keys, <<x, "hold">> \in Q
          PROVE  /\ ~(t2.pressed /\ t2.key = x)
                 /\ \A i \in DOMAIN u : u[i].key = x => u[i].count = 0
      <4>1. CASE x = k
        BY <1>4, <4>1 DEF SameTap
      <4>2. CASE x # k
        <5>1. <<x, "hold">> \in R
          BY <2>1, <3>2, <4>2
        <5>2. ~(t.pressed /\ t.key = x) /\ \A m \in DOMAIN s : s[m].key = x => s[m].count = 0
          BY <5>1 DEF KeyInv, KindInv
        <5> QED
          BY <1>1, <5>2 DEF SameTap
      <4> QED
        BY <4>1, <4>2
    <3> QED
      BY <3>1, <3>2 DEF KindInv
  <2> QED
    BY <1>1, <1>a, <2>2, <2>3 DEF KeyInv
<1>6. CASE ~s[p].pressed
  <2>1. Q = R \ {<<k, Kind(s[p])>>}
    BY <1>6 DEF process_record
  <2>2. <<k, "tap">> \notin Q /\ <<k, "hold">> \notin Q
    <3>1. CASE s[p].count = 0
      <4>1. Kind(s[p]) = "hold"
        BY <3>1 DEF Kind
      <4>2. <<k, "tap">> \notin R
        BY <1>2, <1>3, <3>1 DEF KeyInv, KindInv
      <4> QED
        BY <2>1, <4>1, <4>2
    <3>2. CASE s[p].count # 0
      <4>1. Kind(s[p]) = "tap"
        BY <1>2, <3>2 DEF Kind
      <4>2. <<k, "hold">> \notin R
        BY <1>2, <3>2 DEF KeyInv, KindInv
      <4> QED
        BY <2>1, <4>1, <4>2
    <3> QED
      BY <3>1, <3>2
  <2>3. Q \subseteq R
    BY <2>1
  <2> HIDE DEF Q
  <2>4. DueInv(u, t2, Q, d)
    <3>1. t2.pressed => Due(u, d, t2.key)
      BY <1>1 DEF KeyInv, DueInv, SameTap
    <3>2. ASSUME NEW x \in Keys, <<x, "tap">> \in Q \/ <<x, "hold">> \in Q PROVE Due(u, d, x)
      <4>1. x # k /\ (<<x, "tap">> \in R \/ <<x, "hold">> \in R)
        BY <2>2, <2>3, <3>2
      <4> QED
        BY <1>1, <4>1 DEF KeyInv, DueInv
    <3> QED
      BY <3>1, <3>2 DEF DueInv
  <2>5. KindInv(u, t2, Q)
    <3>1. ASSUME NEW x \in Keys, <<x, "tap">> \in Q
          PROVE  \/ t2.pressed /\ t2.key = x /\ t2.count > 1
                 \/ \E i \in DOMAIN u : u[i].key = x /\ u[i].count # 0
      <4>1. <<x, "tap">> \in R /\ x # k
        BY <2>2, <2>3, <3>1
      <4>2. \/ t.pressed /\ t.key = x /\ t.count > 1
            \/ \E i \in DOMAIN s : s[i].key = x /\ s[i].count # 0
        BY <4>1 DEF KeyInv, KindInv
      <4> QED
        BY <1>1, <4>1, <4>2 DEF SameTap
    <3>2. ASSUME NEW x \in Keys, <<x, "hold">> \in Q
          PROVE  /\ ~(t2.pressed /\ t2.key = x)
                 /\ \A i \in DOMAIN u : u[i].key = x => u[i].count = 0
      <4>1. ~(t.pressed /\ t.key = x) /\ \A m \in DOMAIN s : s[m].key = x => s[m].count = 0
        BY <2>3, <3>2 DEF KeyInv, KindInv
      <4> QED
        BY <1>1, <4>1 DEF SameTap
    <3> QED
      BY <3>1, <3>2 DEF KindInv
  <2> QED
    BY <1>1, <1>a, <2>4, <2>5 DEF KeyInv, Q
<1> QED
  BY <1>5, <1>6

\* A press becomes the tapping key.
LEMMA KeyStart ==
  ASSUME NEW s \in Seq(WaitingRecord), NEW u \in Seq(WaitingRecord), NEW p \in DOMAIN s,
         NEW t, NEW t2, NEW R, NEW d, KeyInv(s, t, R, d), Cut(u, s, p), First(s, p),
         s[p].pressed, t2.pressed, t2.key = s[p].key, t2.count = 0
  PROVE  KeyInv(u, t2, Unregistered(R, t), d)
<1> DEFINE Q == Unregistered(R, t)
           k == s[p].key
<1>1. /\ Alternating(u, d)
      /\ \A x : x # k /\ Due(s, d, x) => Due(u, d, x)
      /\ Due(u, d, k)
      /\ \A i \in DOMAIN u : \E m \in DOMAIN s :
           m # p /\ u[i] = s[m] /\ (First(s, m) => First(u, i))
      /\ \A m \in DOMAIN s : m # p => \E i \in DOMAIN u : u[i] = s[m]
  BY WaitingFacts, CutFirst DEF KeyInv
<1>2. k \in Keys /\ s[p].count = 0
  BY WaitingFacts
<1>3. ~Due(s, d, k)
  BY DEF Due
<1>4. /\ <<k, "tap">> \notin R /\ <<k, "hold">> \notin R
      /\ t.pressed => t.key # k
  BY <1>2, <1>3 DEF KeyInv, DueInv
<1>5. Q \subseteq R /\ (t.pressed /\ t.count > 1 => <<t.key, "tap">> \notin Q)
  BY DEF Unregistered
<1> HIDE DEF Q
<1>6. ASSUME NEW m \in DOMAIN s, s[m].key = k, s[m].count # 0 PROVE FALSE
  <2>1. First(s, m)
    BY <1>6 DEF KeyInv, MarkInv
  <2>2. m = p
    BY <1>6, <2>1, WaitingFacts, FirstUnique
  <2> QED
    BY <1>2, <1>6, <2>2
<1>7. DueInv(u, t2, Q, d)
  BY <1>1, <1>4, <1>5 DEF KeyInv, DueInv
<1>8. MarkInv(u, t2)
  BY <1>1, <1>6 DEF KeyInv, MarkInv
<1>9. KindInv(u, t2, Q)
  <2>1. ASSUME NEW x \in Keys, <<x, "tap">> \in Q
        PROVE  \E i \in DOMAIN u : u[i].key = x /\ u[i].count # 0
    <3>1. <<x, "tap">> \in R /\ x # k /\ ~(t.pressed /\ t.key = x /\ t.count > 1)
      BY <1>4, <1>5, <2>1
    <3>2. \E i \in DOMAIN s : s[i].key = x /\ s[i].count # 0
      BY <3>1 DEF KeyInv, KindInv
    <3> QED
      BY <1>1, <3>1, <3>2
  <2>2. ASSUME NEW x \in Keys, <<x, "hold">> \in Q
        PROVE  /\ ~(t2.pressed /\ t2.key = x)
               /\ \A i \in DOMAIN u : u[i].key = x => u[i].count = 0
    <3>1. <<x, "hold">> \in R /\ x # k
      BY <1>4, <1>5, <2>2
    <3>2. \A m \in DOMAIN s : s[m].key = x => s[m].count = 0
      BY <3>1 DEF KeyInv, KindInv
    <3> QED
      BY <1>1, <3>1, <3>2
  <2> QED
    BY <2>1, <2>2 DEF KindInv
<1> QED
  BY <1>1, <1>7, <1>8, <1>9 DEF KeyInv, Q

\* The undecided key is tapped, and its release marked.
LEMMA KeyMark ==
  ASSUME NEW s, NEW u, NEW p \in DOMAIN s, NEW t, NEW t2, NEW R, NEW d,
         KeyInv(s, t, R, d), Undecided(t), First(s, p), s[p].key = t.key, ~s[p].pressed,
         DOMAIN u = DOMAIN s, \A i \in DOMAIN s : i # p => u[i] = s[i],
         u[p].key = s[p].key, u[p].pressed = s[p].pressed, u[p].count # 0,
         t2.key = t.key, t2.pressed, t2.count = 1
  PROVE  KeyInv(u, t2, R \cup {<<t.key, "tap">>}, d)
<1> DEFINE Q == R \cup {<<t.key, "tap">>}
<1>1. \A i \in DOMAIN s : u[i].key = s[i].key /\ u[i].pressed = s[i].pressed
  OBVIOUS
<1>2. /\ Alternating(u, d)
      /\ \A k : Due(s, d, k) => Due(u, d, k)
      /\ \A i \in DOMAIN s : First(s, i) => First(u, i)
  BY <1>1, SameEvents DEF KeyInv
<1>3. DueInv(u, t2, Q, d)
  BY <1>2 DEF KeyInv, DueInv, Undecided
<1>4. MarkInv(u, t2)
  BY <1>1, <1>2 DEF KeyInv, MarkInv, Undecided
<1>5. KindInv(u, t2, Q)
  <2>1. ASSUME NEW x \in Keys, <<x, "tap">> \in Q
        PROVE  \E i \in DOMAIN u : u[i].key = x /\ u[i].count # 0
    <3>1. CASE x = t.key
      BY <3>1
    <3>2. CASE x # t.key
      <4>1. <<x, "tap">> \in R
        BY <2>1, <3>2
      <4>2. PICK i \in DOMAIN s : s[i].key = x /\ s[i].count # 0
        BY <3>2, <4>1 DEF KeyInv, KindInv
      <4> QED
        BY <3>2, <4>2
    <3> QED
      BY <3>1, <3>2
  <2>2. ASSUME NEW x \in Keys, <<x, "hold">> \in Q
        PROVE  /\ ~(t2.pressed /\ t2.key = x)
               /\ \A i \in DOMAIN u : u[i].key = x => u[i].count = 0
    <3>1. <<x, "hold">> \in R
      BY <2>2
    <3>2. x # t.key /\ \A i \in DOMAIN s : s[i].key = x => s[i].count = 0
      BY <3>1 DEF KeyInv, KindInv, Undecided
    <3> QED
      BY <1>1, <3>2
  <2> QED
    BY <2>1, <2>2 DEF KindInv
<1> QED
  BY <1>2, <1>3, <1>4, <1>5 DEF KeyInv

\* The key is tapped once more, and its release will find the count.
LEMMA KeyAgain ==
  ASSUME NEW s, NEW t, NEW t2, NEW R, NEW d, KeyInv(s, t, R, d), Undecided(t),
         t2.key = t.key, t2.pressed, t2.count \in Int, t2.count > 1
  PROVE  KeyInv(s, t2, R \cup {<<t.key, "tap">>}, d)
<1> DEFINE Q == R \cup {<<t.key, "tap">>}
<1>1. DueInv(s, t2, Q, d)
  BY DEF KeyInv, DueInv, Undecided
<1>2. MarkInv(s, t2)
  BY DEF KeyInv, MarkInv, Undecided
<1>3. KindInv(s, t2, Q)
  <2>1. ASSUME NEW x \in Keys, <<x, "tap">> \in Q, x # t.key
        PROVE  \E i \in DOMAIN s : s[i].key = x /\ s[i].count # 0
    BY <2>1 DEF KeyInv, KindInv
  <2>2. ASSUME NEW x \in Keys, <<x, "hold">> \in Q
        PROVE  x # t.key /\ \A i \in DOMAIN s : s[i].key = x => s[i].count = 0
    <3>1. <<x, "hold">> \in R
      BY <2>2
    <3> QED
      BY <3>1 DEF KeyInv, KindInv, Undecided
  <2> QED
    BY <2>1, <2>2 DEF KindInv
<1> QED
  BY <1>1, <1>2, <1>3 DEF KeyInv

\* The undecided key is held.
LEMMA KeyHold ==
  ASSUME NEW s, NEW t, NEW t2, NEW R, NEW d, KeyInv(s, t, R, d), Undecided(t), ~t2.pressed
  PROVE  KeyInv(s, t2, R \cup {<<t.key, "hold">>}, d)
<1> DEFINE Q == R \cup {<<t.key, "hold">>}
<1>1. DueInv(s, t2, Q, d)
  BY DEF KeyInv, DueInv, Undecided
<1>2. MarkInv(s, t2)
  BY DEF KeyInv, MarkInv, Undecided
<1>3. KindInv(s, t2, Q)
  <2>1. ASSUME NEW x \in Keys, <<x, "tap">> \in Q
        PROVE  \E i \in DOMAIN s : s[i].key = x /\ s[i].count # 0
    <3>1. <<x, "tap">> \in R /\ ~(t.count > 1)
      BY <2>1 DEF Undecided
    <3> QED
      BY <3>1 DEF KeyInv, KindInv
  <2>2. ASSUME NEW x \in Keys, <<x, "hold">> \in Q
        PROVE  \A i \in DOMAIN s : s[i].key = x => s[i].count = 0
    <3>1. CASE x = t.key
      BY <3>1 DEF KeyInv, MarkInv
    <3>2. CASE x # t.key
      <4>1. <<x, "hold">> \in R
        BY <2>2, <3>2
      <4> QED
        BY <4>1 DEF KeyInv, KindInv
    <3> QED
      BY <3>1, <3>2
  <2> QED
    BY <2>1, <2>2 DEF KindInv
<1> QED
  BY <1>1, <1>2, <1>3 DEF KeyInv

\* The tapped key is released.
LEMMA KeyRelease ==
  ASSUME NEW s \in Seq(WaitingRecord), NEW u \in Seq(WaitingRecord), NEW p \in DOMAIN s,
         NEW t, NEW t2, NEW R, NEW d, KeyInv(s, t, R, d), Cut(u, s, p), First(s, p),
         t.pressed, s[p].key = t.key, ~t2.pressed
  PROVE  KeyInv(u, t2, R \ {<<t.key, "tap">>}, d)
<1> DEFINE Q == R \ {<<t.key, "tap">>}
           k == t.key
<1>1. /\ Alternating(u, d)
      /\ \A x : x # k /\ Due(s, d, x) => Due(u, d, x)
      /\ \A i \in DOMAIN u : \E m \in DOMAIN s :
           m # p /\ u[i] = s[m] /\ (First(s, m) => First(u, i))
      /\ \A m \in DOMAIN s : m # p => \E i \in DOMAIN u : u[i] = s[m]
  BY WaitingFacts, CutFirst DEF KeyInv
<1>2. k \in Keys
  BY WaitingFacts
<1>3. Q \subseteq R /\ <<k, "tap">> \notin Q /\ <<k, "hold">> \notin Q
  BY <1>2 DEF KeyInv, KindInv
<1> HIDE DEF Q
<1>4. DueInv(u, t2, Q, d)
  BY <1>1, <1>3 DEF KeyInv, DueInv
<1>5. MarkInv(u, t2)
  BY <1>1 DEF KeyInv, MarkInv, Undecided
<1>6. KindInv(u, t2, Q)
  <2>1. ASSUME NEW x \in Keys, <<x, "tap">> \in Q
        PROVE  \E i \in DOMAIN u : u[i].key = x /\ u[i].count # 0
    <3>1. <<x, "tap">> \in R /\ x # k
      BY <1>3, <2>1
    <3>2. PICK m \in DOMAIN s : s[m].key = x /\ s[m].count # 0
      BY <3>1 DEF KeyInv, KindInv
    <3>3. m # p
      BY <3>1, <3>2
    <3> QED
      BY <1>1, <3>2, <3>3
  <2>2. ASSUME NEW x \in Keys, <<x, "hold">> \in Q
        PROVE  \A i \in DOMAIN u : u[i].key = x => u[i].count = 0
    <3>1. \A m \in DOMAIN s : s[m].key = x => s[m].count = 0
      BY <1>3, <2>2 DEF KeyInv, KindInv
    <3> QED
      BY <1>1, <3>1
  <2> QED
    BY <2>1, <2>2 DEF KindInv
<1> QED
  BY <1>1, <1>4, <1>5, <1>6 DEF KeyInv, Q

\* The buffer overflows and everything is cleared.
LEMMA KeyClear ==
  ASSUME NEW t, NEW d, ~t.pressed
  PROVE  KeyInv(<< >>, t, {}, d)
BY DEF KeyInv, Alternating, DueInv, MarkInv, KindInv, Undecided

\* A key changes.
LEMMA KeyChange ==
  ASSUME NEW s \in Seq(WaitingRecord), NEW e \in WaitingRecord, e.count = 0,
         NEW t, NEW R, NEW d, NEW c, KeyInv(s, t, R, d),
         \/ e.pressed /\ e.key \notin d /\ c = d \cup {e.key}
         \/ ~e.pressed /\ e.key \in d /\ c = d \ {e.key}
  PROVE  KeyInv(Append(s, e), t, R, c)
<1> DEFINE u == Append(s, e)
<1>1. e.pressed \in BOOLEAN /\ \A i \in DOMAIN s : s[i].pressed \in BOOLEAN
  BY WaitingFacts DEF WaitingRecord, Records
<1>2. /\ Alternating(u, c)
      /\ \A k : Due(s, d, k) => Due(u, c, k)
      /\ \A i \in DOMAIN s : u[i] = s[i] /\ (First(s, i) => First(u, i))
  <2>1. Alternating(s, d)
    BY DEF KeyInv
  <2> QED
    BY <1>1, <2>1, AppendEvent
<1>3. /\ \A i \in DOMAIN u : i \in DOMAIN s \/ u[i] = e
      /\ \A i \in DOMAIN s : i \in DOMAIN u
  OBVIOUS
<1> HIDE DEF u
<1>4. DueInv(u, t, R, c)
  BY <1>2 DEF KeyInv, DueInv
<1>5. MarkInv(u, t)
  BY <1>2, <1>3 DEF KeyInv, MarkInv
<1>6. KindInv(u, t, R)
  <2>1. ASSUME NEW k \in Keys, <<k, "tap">> \in R
        PROVE  \/ t.pressed /\ t.key = k /\ t.count > 1
               \/ \E i \in DOMAIN u : u[i].key = k /\ u[i].count # 0
    <3>1. \/ t.pressed /\ t.key = k /\ t.count > 1
          \/ \E i \in DOMAIN s : s[i].key = k /\ s[i].count # 0
      BY <2>1 DEF KeyInv, KindInv
    <3> QED
      BY <1>2, <1>3, <3>1
  <2>2. ASSUME NEW k \in Keys, <<k, "hold">> \in R
        PROVE  /\ ~(t.pressed /\ t.key = k)
               /\ \A i \in DOMAIN u : u[i].key = k => u[i].count = 0
    <3>1. ~(t.pressed /\ t.key = k) /\ \A i \in DOMAIN s : s[i].key = k => s[i].count = 0
      BY <2>2 DEF KeyInv, KindInv
    <3> QED
      BY <1>2, <1>3, <3>1
  <2> QED
    BY <2>1, <2>2 DEF KindInv
<1> QED
  BY <1>2, <1>4, <1>5, <1>6 DEF KeyInv, u

-----------------------------------------------------------------------------
(* The branches of process_tapping, key by key.                            *)

\* A release of the undecided key that waits came too late for a tap.
Late ==
  Undecided(tapping_key) =>
    \A i \in DOMAIN waiting_buffer :
      waiting_buffer[i].key = tapping_key.key /\ ~waiting_buffer[i].pressed
        => TappingTerm <= tapping_key.age - waiting_buffer[i].age

Keyed == KeyInv(Line, tapping_key, registered, down) /\ Late

\* The record looked at has a place in the line, the first one unless an undecided
\* key holds the others back.
LEMMA LookedAt ==
  ASSUME Shape, InLine, pc # "idle", ~IsTick(Cur)
  PROVE  \E p \in DOMAIN Line :
           /\ Line[p] = Cur /\ Cut(Rest, Line, p)
           /\ p = 1 \/ (pc = "new" /\ Undecided(tapping_key) /\ p = Len(waiting_buffer) + 1)
<1> DEFINE w == waiting_buffer
<1>1. w \in Seq(WaitingRecord) /\ Cur \in WaitingRecord
  BY CurFacts DEF Shape
<1>2. CASE pc = "drain"
  <2>1. Line = w /\ w # << >> /\ Line[1] = Cur /\ Tail(Line) = Rest
    BY <1>2, LineCases
  <2>2. 1 \in DOMAIN Line
    BY <1>1, <2>1
  <2>3. Cut(Rest, Line, 1)
    BY <1>1, <2>1, CutHead
  <2> QED
    BY <2>1, <2>2, <2>3
<1>3. CASE pc = "new"
  <2>1. Line = Append(w, Cur) /\ Rest = w
    BY <1>3, LineCases
  <2>2. /\ Len(w) + 1 \in DOMAIN Append(w, Cur) /\ Append(w, Cur)[Len(w) + 1] = Cur
        /\ w = << >> => Len(w) + 1 = 1
    BY <1>1
  <2>3. Cut(w, Append(w, Cur), Len(w) + 1)
    BY <1>1, CutLast
  <2>4. w # << >> => Undecided(tapping_key)
    BY <1>3 DEF InLine, Cur
  <2> QED
    BY <1>3, <2>1, <2>2, <2>3, <2>4
<1> QED
  BY <1>2, <1>3, CurFacts

LEMMA FirstOfLine ==
  ASSUME NEW s \in Seq(WaitingRecord), 1 \in DOMAIN s
  PROVE  First(s, 1)
<1>1. \A j \in DOMAIN s : ~(j < 1)
  OBVIOUS
<1> QED
  BY <1>1 DEF First

\* The record at p of the line is held back as e, or everything is cleared.
LEMMA HeldPlace ==
  ASSUME Shape, InLine, pc # "idle", NEW tk, NEW reg, NEW upto, NEW e \in Records,
         e.key = Cur.key, e.pressed => e.count = 0, Held(tk, reg, upto, e), ~IsTick(Cur)
  PROVE  /\ UNCHANGED down
         /\ \/ Line' = << >> /\ waiting_buffer' = << >> /\ tapping_key' = Nothing
               /\ registered' = {}
            \/ /\ tapping_key' = tk /\ registered' = reg /\ waiting_buffer' = Line'
               /\ DOMAIN Line' = DOMAIN Line
               /\ \E p \in DOMAIN Line :
                    /\ Line[p] = Cur /\ Line'[p] = e
                    /\ \A i \in DOMAIN Line : i # p => Line'[i] = Line[i]
                    /\ p = 1 \/ (pc = "new" /\ p = Len(waiting_buffer) + 1)
<1> DEFINE w == waiting_buffer
<1>1. w \in Seq(WaitingRecord) /\ Cur \in WaitingRecord /\ ~IsTick(e) /\ e \in WaitingRecord
  BY CurFacts DEF Shape, IsTick, WaitingRecord
<1>2. UNCHANGED down
  BY DEF Held
<1>3. CASE pc = "drain"
  <2>1. w' = <<e>> \o Tail(w) /\ tapping_key' = tk /\ registered' = reg /\ pc' = "idle"
    BY <1>3 DEF Held
  <2>2. Line = w /\ w # << >> /\ Line[1] = Cur /\ Line' = w'
    BY <1>3, <2>1, LineCases DEF Line
  <2>3. /\ DOMAIN w' = DOMAIN w /\ 1 \in DOMAIN w /\ w'[1] = e
        /\ \A i \in DOMAIN w : i # 1 => w'[i] = w[i]
    BY <1>1, <2>1, <2>2, HeldFirst
  <2> QED
    BY <1>2, <2>1, <2>2, <2>3
<1>4. CASE pc = "new" /\ Len(w) = BufferSize - 1
  <2>1. w' = << >> /\ tapping_key' = Nothing /\ registered' = {} /\ pc' = "idle"
    BY <1>1, <1>4 DEF Held
  <2> QED
    BY <1>2, <2>1 DEF Line
<1>5. CASE pc = "new" /\ Len(w) # BufferSize - 1
  <2>1. /\ w' = w \o <<e>> /\ tapping_key' = tk /\ registered' = reg
        /\ pc' = (IF w' = << >> THEN "idle" ELSE "drain")
    BY <1>1, <1>5 DEF Held
  <2>2. w' = Append(w, e) /\ Line = Append(w, Cur) /\ Line' = w'
    BY <1>1, <1>5, <2>1, LineCases DEF Line
  <2>3. /\ DOMAIN Append(w, e) = 1 .. Len(w) + 1 /\ DOMAIN Append(w, Cur) = 1 .. Len(w) + 1
        /\ \A i \in 1 .. Len(w) + 1 : i # Len(w) + 1 => Append(w, e)[i] = w[i] /\ Append(w, Cur)[i] = w[i]
        /\ Append(w, e)[Len(w) + 1] = e /\ Append(w, Cur)[Len(w) + 1] = Cur
        /\ Len(w) + 1 \in 1 .. Len(w) + 1
    BY <1>1
  <2> QED
    BY <1>2, <1>5, <2>1, <2>2, <2>3
<1> QED
  BY <1>3, <1>4, <1>5, CurFacts

\* The same for a tick.
LEMMA HeldTick ==
  ASSUME Shape, pc # "idle", NEW tk, NEW reg, NEW upto, Held(tk, reg, upto, Cur), IsTick(Cur)
  PROVE  /\ UNCHANGED <<down, waiting_buffer>> /\ tapping_key' = tk /\ registered' = reg
         /\ Line' = waiting_buffer /\ Line = waiting_buffer
<1>1. waiting_buffer \in Seq(WaitingRecord) /\ pc = "new"
  BY CurFacts DEF Shape
<1>2. /\ waiting_buffer' = waiting_buffer \o << >> /\ tapping_key' = tk /\ registered' = reg
      /\ pc' = (IF waiting_buffer' = << >> THEN "idle" ELSE "drain") /\ UNCHANGED down
  BY <1>1 DEF Held
<1>3. waiting_buffer' = waiting_buffer
  BY <1>1, <1>2
<1> QED
  BY <1>2, <1>3, LineCases DEF Line

\* A record that is taken leaves the line.
LEMMA ConsumedPlace ==
  ASSUME pc # "idle", NEW tk, NEW reg, NEW upto, NEW ws, Consumed(tk, reg, upto, ws)
  PROVE  /\ UNCHANGED down /\ tapping_key' = tk /\ registered' = reg
         /\ waiting_buffer' = ws /\ Line' = ws
BY DEF Consumed, Line

LEMMA PassesKeyed ==
  ASSUME TypeInv, InLine, pc # "idle", Keyed, Passes
  PROVE  Keyed'
<1> DEFINE t == tapping_key
<1>1. Shape /\ ~IsTick(Cur) /\ Rest \in Seq(WaitingRecord) /\ Line \in Seq(WaitingRecord)
  BY CurFacts, LineFacts DEF TypeInv, TapInv, Passes
<1>2. PICK tk \in {t, Interrupted} : PassOn(tk, Cur)
  BY DEF Passes
<1>3. tk.key = t.key /\ tk.age = t.age /\ tk.pressed = t.pressed /\ tk.count = t.count
  BY <1>1 DEF Interrupted, Shape, TappingRecord, Records
<1>4. /\ UNCHANGED down /\ tapping_key' = tk /\ registered' = process_record(registered, Cur)
      /\ waiting_buffer' = Rest /\ Line' = Rest
  BY <1>2, ConsumedPlace DEF PassOn
<1>5. PICK p \in DOMAIN Line :
        /\ Line[p] = Cur /\ Cut(Rest, Line, p)
        /\ p = 1 \/ (pc = "new" /\ Undecided(t) /\ p = Len(waiting_buffer) + 1)
  BY <1>1, LookedAt
<1>6. KeyInv(Line, t, registered, down)
  BY DEF Keyed
<1>7. First(Line, p)
  <2>1. CASE p = 1
    BY <1>1, <1>5, <2>1, FirstOfLine
  <2>2. CASE pc = "new" /\ Undecided(t) /\ p = Len(waiting_buffer) + 1
    <3> DEFINE w == waiting_buffer
               n == Len(w)
    <3>1. ~Cur.pressed /\ ~waiting_buffer_typed(Cur)
      BY <2>2 DEF Passes
    <3>2. /\ Line = Append(w, Cur) /\ w \in Seq(WaitingRecord) /\ n \in Nat /\ DOMAIN w = 1 .. n
          /\ DOMAIN Line = 1 .. n + 1 /\ \A i \in 1 .. n : Line[i] = w[i]
      BY <1>1, <2>2, LineCases DEF Shape
    <3>3. \A i \in 1 .. n : Line[i].key = Cur.key => Line[i].pressed = Cur.pressed
      BY <3>2, <3>1 DEF waiting_buffer_typed
    <3>4. ASSUME NEW i \in 1 .. n, Line[i].key = Cur.key PROVE FALSE
      <4> DEFINE T == {m \in 1 .. n : Line[n + 1 - m].key = Cur.key}
      <4>1. T \subseteq Nat
        BY <3>2
      <4>2. n + 1 - i \in T
        <5>1. n + 1 - i \in 1 .. n /\ n + 1 - (n + 1 - i) = i
          BY <3>2
        <5> QED
          BY <3>4, <5>1
      <4>3. PICK m \in T : \A y \in T : m <= y
        BY <4>1, <4>2, LeastElement
      <4> DEFINE j == n + 1 - m
      <4>4. j \in 1 .. n /\ Line[j].key = Cur.key /\ n + 1 \in DOMAIN Line /\ j \in DOMAIN Line /\ j < n + 1
        BY <3>2, <4>3
      <4>5. Line[j].pressed = Line[n + 1].pressed /\ Line[j].key = Line[n + 1].key
        BY <1>5, <2>2, <3>3, <4>4
      <4>6. PICK x \in DOMAIN Line : j < x /\ x < n + 1 /\ Line[x].key = Line[j].key
        BY <1>6, <4>4, <4>5 DEF KeyInv, Alternating
      <4>7. n + 1 - x \in 1 .. n /\ n + 1 - (n + 1 - x) = x /\ n + 1 - x < m
        BY <3>2, <4>3, <4>6
      <4>8. n + 1 - x \in T
        BY <4>4, <4>6, <4>7
      <4> QED
        BY <3>2, <4>3, <4>7, <4>8
    <3>5. \A i \in DOMAIN Line : i < p => i \in 1 .. n
      BY <2>2, <3>2
    <3> QED
      BY <1>5, <3>4, <3>5 DEF First
  <2> QED
    BY <1>5, <2>1, <2>2
<1>8. t.pressed => Cur.key # t.key
  <2> SUFFICES ASSUME t.pressed, Cur.key = t.key PROVE FALSE
    OBVIOUS
  <2>1. Cur.pressed
    BY DEF Passes, OwnRelease
  <2>2. Due(Line, down, t.key)
    BY <1>6 DEF KeyInv, DueInv
  <2> QED
    BY <1>5, <1>7, <2>1, <2>2 DEF Due
<1>9. SameTap(tk, t)
  BY <1>3 DEF SameTap
<1>10. KeyInv(Rest, tk, process_record(registered, Cur), down)
  BY <1>1, <1>5, <1>6, <1>7, <1>8, <1>9, KeyPass
<1>11. Late'
  <2>1. \A i \in DOMAIN Rest : \E j \in DOMAIN waiting_buffer : Rest[i] = waiting_buffer[j]
    <3>1. CASE pc = "new"
      BY <3>1 DEF Rest
    <3>2. CASE pc = "drain"
      <4>1. waiting_buffer \in Seq(WaitingRecord) /\ waiting_buffer # << >>
        BY <1>1, <3>2 DEF Shape
      <4>2. \A i \in DOMAIN Tail(waiting_buffer) :
              i + 1 \in DOMAIN waiting_buffer /\ Tail(waiting_buffer)[i] = waiting_buffer[i + 1]
        BY <4>1
      <4> QED
        BY <3>2, <4>2 DEF Rest
    <3> QED
      BY <1>1, <3>1, <3>2, CurFacts
  <2>2. Undecided(tk) <=> Undecided(t)
    BY <1>3 DEF Undecided
  <2> QED
    BY <1>3, <1>4, <2>1, <2>2 DEF Keyed, Late
<1> QED
  BY <1>4, <1>10, <1>11 DEF Keyed

\* A press at the head of the line becomes the tapping key.
LEMMA Started ==
  ASSUME TypeInv, InLine, pc # "idle", Keyed, Cur.pressed, ~Undecided(tapping_key)
  PROVE  /\ Rest \in Seq(WaitingRecord) /\ Cur \in WaitingRecord /\ Undecided(Cur) /\ ~IsTick(Cur)
         /\ KeyInv(Rest, Cur, Unregistered(registered, tapping_key), down)
         /\ Descending(Rest) /\ NoOlder(Rest, Cur.age) /\ Cur.age \in Nat
         /\ \A i \in DOMAIN Rest : Rest[i].age \in Nat
<1> DEFINE t == tapping_key
<1>1. Shape /\ AgeInv /\ ~IsTick(Cur)
  BY CurFacts DEF TypeInv, TapInv
<1>2. /\ Rest \in Seq(WaitingRecord) /\ Line \in Seq(WaitingRecord) /\ Cur \in WaitingRecord
      /\ Cur.count = 0 /\ Undecided(Cur)
  BY <1>1, CurFacts, LineFacts DEF Undecided
<1>3. PICK p \in DOMAIN Line : Line[p] = Cur /\ Cut(Rest, Line, p) /\ p = 1
  BY <1>1, LookedAt
<1>4. First(Line, p)
  BY <1>2, <1>3, FirstOfLine
<1>5. KeyInv(Rest, Cur, Unregistered(registered, t), down)
  BY <1>2, <1>3, <1>4, KeyStart DEF Keyed
<1>6. /\ Descending(Rest) /\ Cur.age \in Nat /\ \A i \in DOMAIN Rest : Rest[i].age \in Nat
      /\ pc = "drain" => NoOlder(Rest, Cur.age)
  BY <1>1, AgesAtHand
<1>7. pc = "new" => Rest = << >>
  BY <1>1 DEF InLine, Cur, Rest
<1>8. NoOlder(Rest, Cur.age)
  <2>1. CASE pc = "new"
    BY <1>7, <2>1 DEF NoOlder
  <2>2. CASE pc = "drain"
    BY <1>6, <2>2
  <2> QED
    BY <1>1, <2>1, <2>2, CurFacts
<1> QED
  BY <1>1, <1>2, <1>5, <1>6, <1>8

\* Without a release within the term, those that wait came too late.
LEMMA StartedLate ==
  ASSUME NoOlder(Rest, Cur.age), Cur.age \in Nat, \A i \in DOMAIN Rest : Rest[i].age \in Nat,
         TapReleases(Cur) = {}, tapping_key' = Cur, waiting_buffer' = Rest
  PROVE  Late'
<1> SUFFICES ASSUME NEW i \in DOMAIN Rest, Rest[i].key = Cur.key, ~Rest[i].pressed
             PROVE  TappingTerm <= Cur.age - Rest[i].age
  BY DEF Late, Undecided
<1>1. TRUE \notin Within(Rest[i], Cur, TappingTerm)
  BY DEF TapReleases
<1>2. Cur.age # AgeMax
  BY <1>1 DEF Within
<1>3. ~(Cur.age - Rest[i].age \in 0 .. TappingTerm - 1)
  BY <1>1, <1>2 DEF Within
<1>4. Rest[i].age <= Cur.age /\ Rest[i].age \in Nat /\ TappingTerm \in Nat
  BY LimitFacts DEF NoOlder
<1> QED
  BY <1>3, <1>4

LEMMA StartsKeyed ==
  ASSUME TypeInv, InLine, pc # "idle", Keyed, Starts
  PROVE  Keyed'
<1> DEFINE Q  == Unregistered(registered, tapping_key)
           tk == [Cur EXCEPT !.count = 1]
<1>1. Shape /\ Cur.pressed /\ ~Undecided(tapping_key) /\ StartTapping(Q, Cur)
  BY DEF TypeInv, TapInv, Starts
<1>2. /\ Rest \in Seq(WaitingRecord) /\ Cur \in WaitingRecord /\ Undecided(Cur)
      /\ KeyInv(Rest, Cur, Q, down)
      /\ Descending(Rest) /\ NoOlder(Rest, Cur.age) /\ Cur.age \in Nat
      /\ \A i \in DOMAIN Rest : Rest[i].age \in Nat
  BY <1>1, Started
<1>3. \/ TapReleases(Cur) = {} /\ Consumed(Cur, Q, last, Rest)
      \/ \E i \in TapReleases(Cur), ws \in Seq(WaitingRecord) :
           /\ \A j \in TapReleases(Cur) : i <= j
           /\ Consumed(tk, process_record(Q, tk), Cur.no, ws)
           /\ DOMAIN ws = DOMAIN Rest /\ ws[i] = [Rest[i] EXCEPT !.count = 1]
           /\ \A j \in DOMAIN Rest : j # i => ws[j] = Rest[j]
  BY <1>1, StartCases, Zenon
<1> HIDE DEF Q
<1>4. CASE TapReleases(Cur) = {} /\ Consumed(Cur, Q, last, Rest)
  <2>1. /\ UNCHANGED down /\ tapping_key' = Cur /\ registered' = Q
        /\ waiting_buffer' = Rest /\ Line' = Rest
    BY <1>4, ConsumedPlace
  <2>2. Late'
    BY <1>2, <1>4, <2>1, StartedLate
  <2> QED
    BY <1>2, <2>1, <2>2 DEF Keyed
<1>5. ASSUME NEW i \in TapReleases(Cur), NEW ws \in Seq(WaitingRecord),
             \A j \in TapReleases(Cur) : i <= j,
             Consumed(tk, process_record(Q, tk), Cur.no, ws),
             DOMAIN ws = DOMAIN Rest, ws[i] = [Rest[i] EXCEPT !.count = 1],
             \A j \in DOMAIN Rest : j # i => ws[j] = Rest[j]
      PROVE  Keyed'
  <2>1. i \in DOMAIN Rest /\ Rest[i].key = Cur.key /\ ~Rest[i].pressed
        /\ TRUE \in Within(Rest[i], Cur, TappingTerm) /\ i \in Nat
    <3>1. DOMAIN Rest \subseteq Nat
      BY <1>2
    <3> QED
      BY <3>1 DEF TapReleases
  <2>2. First(Rest, i)
    <3> SUFFICES ASSUME NEW j \in DOMAIN Rest, j < i, Rest[j].key = Rest[i].key PROVE FALSE
      BY DEF First
    <3> DEFINE T == {m \in DOMAIN Rest : Rest[m].key = Cur.key}
    <3>1. T \subseteq Nat /\ j \in T
      BY <1>2, <2>1
    <3>2. PICK m \in T : \A y \in T : m <= y
      BY <3>1, LeastElement
    <3>3. m \in DOMAIN Rest /\ Rest[m].key = Cur.key /\ m <= j /\ m < i /\ m \in Nat /\ j \in Nat
      BY <2>1, <3>1, <3>2
    <3>4. First(Rest, m)
      <4>1. ASSUME NEW y \in DOMAIN Rest, y < m, Rest[y].key = Rest[m].key PROVE FALSE
        <5>1. y \in T /\ y \in Nat
          BY <1>2, <3>3, <4>1
        <5> QED
          BY <3>2, <3>3, <4>1, <5>1
      <4> QED
        BY <4>1 DEF First
    <3>5. ~Rest[m].pressed
      <4>1. Due(Rest, down, Cur.key)
        BY <1>1, <1>2 DEF KeyInv, DueInv
      <4> QED
        BY <3>3, <3>4, <4>1 DEF Due
    <3>6. TRUE \in Within(Rest[m], Cur, TappingTerm)
      <4>1. CASE Cur.age = AgeMax
        BY <4>1 DEF Within
      <4>2. CASE Cur.age # AgeMax
        <5>1. Cur.age - Rest[i].age \in 0 .. TappingTerm - 1
          BY <2>1, <4>2 DEF Within
        <5>2. Rest[m].age <= Cur.age /\ Rest[i].age <= Rest[m].age
          BY <1>2, <2>1, <3>3 DEF Descending, NoOlder
        <5>3. Rest[m].age \in Nat /\ Rest[i].age \in Nat /\ TappingTerm \in Nat
          BY <1>2, <2>1, <3>3, LimitFacts
        <5>4. Cur.age - Rest[m].age \in 0 .. TappingTerm - 1
          BY <1>2, <5>1, <5>2, <5>3
        <5> QED
          BY <4>2, <5>4 DEF Within
      <4> QED
        BY <4>1, <4>2
    <3>7. m \in TapReleases(Cur)
      BY <3>3, <3>5, <3>6 DEF TapReleases
    <3> QED
      BY <1>5, <2>1, <3>3, <3>7
  <2>3. Rest[i] \in WaitingRecord
    BY <1>2, <2>1
  <2>4. ws[i].key = Rest[i].key /\ ws[i].pressed = Rest[i].pressed /\ ws[i].count # 0
    BY <1>5, <2>3 DEF WaitingRecord, Records
  <2>5. tk.key = Cur.key /\ tk.pressed /\ tk.count = 1
    BY <1>1, <1>2 DEF WaitingRecord, Records
  <2> HIDE DEF tk
  <2>6. process_record(Q, tk) = Q \cup {<<Cur.key, "tap">>}
    BY <2>5 DEF process_record, Kind
  <2>7. KeyInv(ws, tk, Q \cup {<<Cur.key, "tap">>}, down)
    BY <1>2, <1>5, <2>1, <2>2, <2>4, <2>5, KeyMark
  <2>8. /\ UNCHANGED down /\ tapping_key' = tk /\ registered' = process_record(Q, tk)
        /\ waiting_buffer' = ws /\ Line' = ws
    BY <1>5, ConsumedPlace
  <2>9. Late'
    BY <2>5, <2>8 DEF Late, Undecided
  <2> QED
    BY <2>6, <2>7, <2>8, <2>9 DEF Keyed
<1> HIDE DEF tk
<1> QED
  BY <1>3, <1>4, <1>5, Zenon

LEMMA RestartsKeyed ==
  ASSUME TypeInv, InLine, pc # "idle", Keyed, Restarts, ~RestartsUnscanned(tapping_key, Cur)
  PROVE  Keyed'
<1> DEFINE t  == tapping_key
           tk == [Cur EXCEPT !.count = IF t.count < 15 THEN t.count + 1 ELSE t.count]
<1>1. /\ Shape /\ Cur.pressed /\ ~t.pressed /\ ~Undecided(t) /\ Again(t, Cur)
      /\ t.key # NoKey /\ Cur.key = t.key
  BY DEF TypeInv, TapInv, Restarts, Undecided
<1>2. Unregistered(registered, t) = registered
  BY <1>1 DEF Unregistered
<1>3. /\ Rest \in Seq(WaitingRecord) /\ Cur \in WaitingRecord /\ Undecided(Cur)
      /\ KeyInv(Rest, Cur, registered, down)
      /\ NoOlder(Rest, Cur.age) /\ Cur.age \in Nat
      /\ \A i \in DOMAIN Rest : Rest[i].age \in Nat
  BY <1>1, <1>2, Started
<1>4. \/ t.count > 0 /\ Consumed(tk, process_record(registered, tk), Cur.no, Rest)
      \/ Consumed(Cur, registered, last, Rest)
  BY <1>1 DEF Again
<1>5. CASE Consumed(Cur, registered, last, Rest)
  <2>1. /\ UNCHANGED down /\ tapping_key' = Cur /\ registered' = registered
        /\ waiting_buffer' = Rest /\ Line' = Rest
    BY <1>5, ConsumedPlace
  <2>2. TapReleases(Cur) = {}
    BY <1>1, <2>1 DEF RestartsUnscanned
  <2>3. Late'
    BY <1>3, <2>1, <2>2, StartedLate
  <2> QED
    BY <1>3, <2>1, <2>3 DEF Keyed
<1>6. CASE t.count > 0 /\ Consumed(tk, process_record(registered, tk), Cur.no, Rest)
  <2>1. t.count \in 0 .. 15
    BY <1>1 DEF Shape, TappingRecord, Records
  <2>2. tk.key = Cur.key /\ tk.pressed /\ tk.count = (IF t.count < 15 THEN t.count + 1 ELSE t.count)
    BY <1>1, <1>3 DEF WaitingRecord, Records
  <2>3. tk.count \in Int /\ tk.count > 1
    BY <1>6, <2>1, <2>2
  <2> HIDE DEF tk
  <2>4. process_record(registered, tk) = registered \cup {<<Cur.key, "tap">>}
    BY <2>2, <2>3 DEF process_record, Kind
  <2>5. KeyInv(Rest, tk, registered \cup {<<Cur.key, "tap">>}, down)
    BY <1>3, <2>2, <2>3, KeyAgain
  <2>6. /\ UNCHANGED down /\ tapping_key' = tk /\ registered' = process_record(registered, tk)
        /\ waiting_buffer' = Rest /\ Line' = Rest
    BY <1>6, ConsumedPlace
  <2>7. Late'
    BY <2>3, <2>6 DEF Late, Undecided
  <2> QED
    BY <2>4, <2>5, <2>6, <2>7 DEF Keyed
<1> QED
  BY <1>4, <1>5, <1>6

LEMMA ReleasesKeyed ==
  ASSUME TypeInv, InLine, pc # "idle", Keyed, Releases
  PROVE  Keyed'
<1> DEFINE t == tapping_key
<1>1. /\ Shape /\ ~IsTick(Cur) /\ t.pressed /\ t.count > 0 /\ Cur.key = t.key /\ ~Cur.pressed
  BY DEF TypeInv, TapInv, Releases, Young, OwnRelease
<1>2. PICK after : SettledRelease(t, Cur, after)
  BY DEF Releases
<1> DEFINE r  == [Cur EXCEPT !.count = t.count, !.interrupted = t.interrupted]
           tk == IF after = "keep" THEN r ELSE Nothing
<1>3. Consumed(tk, process_record(registered, r), last, Rest)
  BY <1>2 DEF SettledRelease
<1>4. Rest \in Seq(WaitingRecord) /\ Line \in Seq(WaitingRecord) /\ Cur \in WaitingRecord
  BY <1>1, CurFacts, LineFacts
<1>5. r.key = t.key /\ ~r.pressed /\ r.count = t.count
  BY <1>1, <1>4 DEF WaitingRecord, Records
<1> HIDE DEF r
<1>6. process_record(registered, r) = registered \ {<<t.key, "tap">>}
  BY <1>1, <1>5 DEF process_record, Kind
<1>7. ~tk.pressed
  BY <1>5, NothingAge
<1> HIDE DEF tk
<1>8. ~Undecided(t)
  BY <1>1 DEF Undecided
<1>9. PICK p \in DOMAIN Line : Line[p] = Cur /\ Cut(Rest, Line, p) /\ p = 1
  BY <1>1, <1>8, LookedAt
<1>10. First(Line, p)
  BY <1>4, <1>9, FirstOfLine
<1>11. KeyInv(Rest, tk, registered \ {<<t.key, "tap">>}, down)
  BY <1>1, <1>4, <1>7, <1>9, <1>10, KeyRelease DEF Keyed
<1>12. /\ UNCHANGED down /\ tapping_key' = tk /\ registered' = process_record(registered, r)
       /\ waiting_buffer' = Rest /\ Line' = Rest
  BY <1>3, ConsumedPlace
<1>13. Late'
  BY <1>7, <1>12 DEF Late, Undecided
<1> QED
  BY <1>6, <1>11, <1>12, <1>13 DEF Keyed

\* The line is the same when the record looked at keeps its place unchanged.
LEMMA SameLineSeq ==
  ASSUME Shape, InLine, pc # "idle", NEW tk, NEW reg, NEW upto, Held(tk, reg, upto, Cur), Shape'
  PROVE  /\ UNCHANGED down
         /\ \/ Line' = << >> /\ waiting_buffer' = << >> /\ tapping_key' = Nothing
               /\ registered' = {}
            \/ /\ tapping_key' = tk /\ registered' = reg /\ waiting_buffer' = Line
               /\ Line' = Line
<1>1. Cur \in Records /\ (Cur.pressed => Cur.count = 0) /\ Line \in Seq(WaitingRecord)
  BY CurFacts, LineFacts DEF TappingRecord
<1>2. CASE IsTick(Cur)
  BY <1>2, HeldTick
<1>3. CASE ~IsTick(Cur)
  <2>1. ASSUME waiting_buffer' = Line', DOMAIN Line' = DOMAIN Line,
               \E p \in DOMAIN Line : /\ Line[p] = Cur /\ Line'[p] = Cur
                                      /\ \A i \in DOMAIN Line : i # p => Line'[i] = Line[i]
        PROVE  Line' = Line
    <3>1. Line' \in Seq(WaitingRecord)
      BY <2>1 DEF Shape
    <3>2. \A i \in DOMAIN Line : Line'[i] = Line[i]
      BY <2>1
    <3>3. Len(Line') = Len(Line)
      BY <1>1, <2>1, <3>1, SameLen
    <3>4. \A i \in 1 .. Len(Line') : Line'[i] = Line[i]
      BY <1>1, <3>2, <3>3
    <3> QED
      BY <1>1, <3>1, <3>3, <3>4, SeqEqual
  <2> QED
    BY <1>1, <1>3, <2>1, HeldPlace
<1> QED
  BY <1>2, <1>3

LEMMA TapsKeyed ==
  ASSUME TypeInv, InLine, pc # "idle", Keyed, Taps
  PROVE  Keyed'
<1> DEFINE t  == tapping_key
           w  == waiting_buffer
           tk == [t EXCEPT !.count = 1]
           e  == [Cur EXCEPT !.count = 1, !.interrupted = t.interrupted]
<1>1. /\ Shape /\ AgeInv /\ ~IsTick(Cur) /\ ~Cur.pressed /\ Cur.key = t.key /\ Undecided(t)
      /\ InTerm /\ Held(tk, process_record(registered, tk), t.no, e)
      /\ KeyInv(Line, t, registered, down) /\ Late
  BY DEF TypeInv, TapInv, Taps, FirstTap, Keyed
<1>2. t \in Records /\ Cur \in Records /\ Line \in Seq(WaitingRecord)
  BY <1>1, CurFacts, LineFacts DEF Shape, TappingRecord
<1>3. tk.key = t.key /\ tk.pressed /\ tk.count = 1
  BY <1>1, <1>2 DEF Records, Undecided
<1>4. e \in Records
  <2>1. t.interrupted \in BOOLEAN /\ 1 \in 0 .. 15
    BY <1>2 DEF Records
  <2> QED
    BY <1>2, <2>1 DEF Records
<1>5. e.key = Cur.key /\ e.pressed = Cur.pressed /\ e.count = 1
  BY <1>2 DEF Records
<1> HIDE DEF tk, e
<1>6. process_record(registered, tk) = registered \cup {<<t.key, "tap">>}
  BY <1>3 DEF process_record, Kind
<1>7. UNCHANGED down /\ \/ Line' = << >> /\ waiting_buffer' = << >> /\ tapping_key' = Nothing
                           /\ registered' = {}
                        \/ /\ tapping_key' = tk /\ registered' = process_record(registered, tk)
                           /\ DOMAIN Line' = DOMAIN Line
                           /\ \E p \in DOMAIN Line :
                                /\ Line[p] = Cur /\ Line'[p] = e
                                /\ \A i \in DOMAIN Line : i # p => Line'[i] = Line[i]
                                /\ p = 1 \/ (pc = "new" /\ p = Len(waiting_buffer) + 1)
  BY <1>1, <1>4, <1>5, HeldPlace
<1>8. CASE Line' = << >> /\ tapping_key' = Nothing /\ registered' = {}
  <2>1. KeyInv(<< >>, Nothing, {}, down)
    BY NothingAge, KeyClear
  <2>2. Late'
    BY <1>8, NothingAge DEF Late, Undecided
  <2> QED
    BY <1>7, <1>8, <2>1, <2>2 DEF Keyed
<1>9. ASSUME tapping_key' = tk, registered' = process_record(registered, tk),
             DOMAIN Line' = DOMAIN Line,
             NEW p \in DOMAIN Line, Line[p] = Cur, Line'[p] = e,
             \A i \in DOMAIN Line : i # p => Line'[i] = Line[i],
             p = 1 \/ (pc = "new" /\ p = Len(w) + 1)
      PROVE  Keyed'
  <2>1. First(Line, p)
    <3>1. CASE p = 1
      BY <1>2, <3>1, FirstOfLine
    <3>2. CASE pc = "new" /\ p = Len(w) + 1
      <4> SUFFICES ASSUME NEW j \in DOMAIN Line, j < p, Line[j].key = t.key PROVE FALSE
        BY <1>1, <1>9 DEF First
      <4> DEFINE T == {m \in DOMAIN Line : Line[m].key = t.key}
      <4>1. T \subseteq Nat /\ j \in T
        BY <1>2
      <4>2. PICK m \in T : \A y \in T : m <= y
        BY <4>1, LeastElement
      <4>3. m \in DOMAIN Line /\ Line[m].key = t.key /\ m <= j /\ m < p /\ m \in Nat
        <5>1. p \in Nat /\ j \in Nat
          BY <1>2
        <5> QED
          BY <4>1, <4>2, <5>1
      <4>4. First(Line, m)
        <5>1. ASSUME NEW y \in DOMAIN Line, y < m, Line[y].key = Line[m].key PROVE FALSE
          <6>1. y \in T /\ y \in Nat
            BY <1>2, <4>3, <5>1
          <6> QED
            BY <4>2, <4>3, <5>1, <6>1
        <5> QED
          BY <5>1 DEF First
      <4>5. ~Line[m].pressed
        <5>1. Due(Line, down, t.key)
          BY <1>1 DEF KeyInv, DueInv, Undecided
        <5> QED
          BY <4>3, <4>4, <5>1 DEF Due
      <4>6. m \in DOMAIN w /\ Line[m] = w[m]
        <5>1. w \in Seq(WaitingRecord) /\ Line = Append(w, Cur)
          BY <1>1, <3>2, LineCases DEF Shape
        <5>2. Len(w) \in Nat /\ DOMAIN w = 1 .. Len(w) /\ \A i \in 1 .. Len(w) : Line[i] = w[i]
          BY <5>1
        <5>3. m \in 1 .. Len(w)
          BY <1>2, <3>2, <4>3, <5>2
        <5> QED
          BY <5>2, <5>3
      <4>7. TappingTerm <= t.age - w[m].age
        BY <1>1, <4>3, <4>5, <4>6 DEF Late
      <4>8. Cur.age = 0 /\ t.age # AgeMax /\ w[m].age \in Nat /\ t.age \in Nat
            /\ TappingTerm \in Nat
        <5>1. Young(t)
          BY <1>1 DEF Undecided, Young
        <5> QED
          BY <1>1, <3>2, <4>6, <5>1, AgesBounded, RecordAges, LimitFacts DEF AgeInv, Cur
      <4>9. t.age - Cur.age \in 0 .. TappingTerm - 1
        BY <1>1, <4>8 DEF InTerm, Within
      <4> QED
        BY <4>7, <4>8, <4>9
    <3> QED
      BY <1>9, <3>1, <3>2
  <2>2. KeyInv(Line', tk, registered \cup {<<t.key, "tap">>}, down)
    BY <1>1, <1>3, <1>5, <1>9, <2>1, KeyMark
  <2>3. Late'
    BY <1>3, <1>9 DEF Late, Undecided
  <2> QED
    BY <1>6, <1>7, <1>9, <2>2, <2>3 DEF Keyed
<1> QED
  BY <1>7, <1>8, <1>9

\* The branches that leave the line as it is.
LEMMA HeldKeyed ==
  ASSUME TypeInv, TypeInv', InLine, pc # "idle", Keyed, Holds \/ KeepsWaiting \/ Expires
  PROVE  Keyed'
<1> DEFINE t == tapping_key
<1>1. Shape /\ Shape' /\ KeyInv(Line, t, registered, down) /\ Late
  BY DEF TypeInv, TapInv, Keyed
<1>2. ASSUME NEW tk, NEW reg, NEW upto, Held(tk, reg, upto, Cur),
             KeyInv(Line, tk, reg, down),
             ~Undecided(tk) \/ /\ tk.age = t.age /\ tk.key = t.key /\ Undecided(t)
                               /\ ~IsTick(Cur) /\ ~OwnRelease
      PROVE  Keyed'
  <2>1. UNCHANGED down /\ \/ Line' = << >> /\ waiting_buffer' = << >> /\ tapping_key' = Nothing
                             /\ registered' = {}
                          \/ /\ tapping_key' = tk /\ registered' = reg /\ waiting_buffer' = Line
                             /\ Line' = Line
    BY <1>1, <1>2, SameLineSeq
  <2>2. CASE Line' = << >> /\ tapping_key' = Nothing /\ registered' = {}
    <3>1. KeyInv(<< >>, Nothing, {}, down)
      BY NothingAge, KeyClear
    <3>2. Late'
      BY <2>2, NothingAge DEF Late, Undecided
    <3> QED
      BY <2>1, <2>2, <3>1, <3>2 DEF Keyed
  <2>3. CASE tapping_key' = tk /\ registered' = reg /\ waiting_buffer' = Line /\ Line' = Line
    <3>1. ASSUME Undecided(tk), NEW i \in DOMAIN Line, Line[i].key = tk.key, ~Line[i].pressed
          PROVE  TappingTerm <= tk.age - Line[i].age
      <4>1. /\ tk.age = t.age /\ tk.key = t.key /\ Undecided(t) /\ ~IsTick(Cur)
            /\ ~(Cur.key = t.key /\ ~Cur.pressed)
        BY <1>2, <3>1 DEF OwnRelease
      <4>2. i \in DOMAIN waiting_buffer /\ waiting_buffer[i] = Line[i]
        <5>1. CASE pc = "drain"
          BY <1>1, <5>1, LineCases
        <5>2. CASE pc = "new"
          <6>1. waiting_buffer \in Seq(WaitingRecord) /\ Line = Append(waiting_buffer, Cur)
            BY <1>1, <4>1, <5>2, LineCases DEF Shape
          <6>2. Line[i] # Cur
            BY <3>1, <4>1
          <6> QED
            BY <6>1, <6>2
        <5> QED
          BY <1>1, <5>1, <5>2, CurFacts
      <4> QED
        BY <1>1, <3>1, <4>1, <4>2 DEF Late
    <3>2. Late'
      BY <2>3, <3>1 DEF Late
    <3> QED
      BY <1>2, <2>1, <2>3, <3>2 DEF Keyed
  <2> QED
    BY <2>1, <2>2, <2>3
<1>3. ASSUME Holds PROVE Keyed'
  <2>1. KeyInv(Line, Nothing, registered \cup {<<t.key, "hold">>}, down) /\ ~Undecided(Nothing)
    BY <1>1, <1>3, KeyHold, NothingAge DEF Holds, Undecided
  <2> QED
    BY <1>2, <1>3, <2>1 DEF Holds
<1>4. ASSUME KeepsWaiting PROVE Keyed'
  <2>1. PICK tk \in {t, Interrupted} : Held(tk, registered, last, Cur)
    BY <1>4 DEF KeepsWaiting
  <2>2. tk.key = t.key /\ tk.age = t.age /\ tk.pressed = t.pressed /\ tk.count = t.count
    BY <1>1 DEF Interrupted, Shape, TappingRecord, Records
  <2>3. KeyInv(Line, tk, registered, down)
    BY <1>1, <2>2, KeyIdle DEF SameTap
  <2> QED
    BY <1>2, <1>4, <2>1, <2>2, <2>3 DEF KeepsWaiting
<1>5. ASSUME Expires PROVE Keyed'
  <2>1. KeyInv(Line, Nothing, registered, down) /\ ~Undecided(Nothing)
    BY <1>1, <1>5, KeyIdle, NothingAge DEF Expires, SameTap, Undecided
  <2> QED
    BY <1>2, <1>5, <2>1 DEF Expires
<1> QED
  BY <1>3, <1>4, <1>5

LEMMA TickPassesKeyed ==
  ASSUME TypeInv, InLine, pc # "idle", Keyed, TickPasses
  PROVE  Keyed'
<1>1. Shape /\ IsTick(Cur) /\ Consumed(tapping_key, registered, last, Rest)
  BY DEF TypeInv, TapInv, TickPasses
<1>2. Rest = waiting_buffer /\ Line = waiting_buffer
  BY <1>1, CurFacts, LineCases
<1>3. /\ UNCHANGED <<down, tapping_key, registered, waiting_buffer>> /\ Line' = Line
  BY <1>1, <1>2, ConsumedPlace
<1> QED
  BY <1>3 DEF Keyed, Late, Undecided

LEMMA BranchKeyed ==
  ASSUME TypeInv, TypeInv', InLine, pc # "idle", Keyed, Branch,
         ~RestartsUnscanned(tapping_key, Cur)
  PROVE  Keyed'
BY TickPassesKeyed, PassesKeyed, StartsKeyed, RestartsKeyed, TapsKeyed, HeldKeyed, ReleasesKeyed
   DEF Branch

-----------------------------------------------------------------------------
LEMMA KeyAged ==
  ASSUME NEW s, NEW u, NEW t, NEW t2, NEW R, NEW d, KeyInv(s, t, R, d), SameTap(t2, t),
         DOMAIN u = DOMAIN s,
         \A i \in DOMAIN s : /\ u[i].key = s[i].key /\ u[i].pressed = s[i].pressed
                             /\ u[i].count = s[i].count
  PROVE  KeyInv(u, t2, R, d)
<1>1. /\ Alternating(u, d) /\ \A k : Due(s, d, k) => Due(u, d, k)
      /\ \A i \in DOMAIN s : First(s, i) => First(u, i)
  BY SameEvents DEF KeyInv
<1>2. KeyInv(s, t2, R, d)
  BY KeyIdle
<1>3. DueInv(u, t2, R, d)
  BY <1>1, <1>2 DEF KeyInv, DueInv
<1>4. MarkInv(u, t2)
  BY <1>1, <1>2 DEF KeyInv, MarkInv
<1>5. KindInv(u, t2, R)
  <2>1. ASSUME NEW k \in Keys, <<k, "tap">> \in R
        PROVE  \/ t2.pressed /\ t2.key = k /\ t2.count > 1
               \/ \E i \in DOMAIN u : u[i].key = k /\ u[i].count # 0
    <3>1. \/ t2.pressed /\ t2.key = k /\ t2.count > 1
          \/ \E i \in DOMAIN s : s[i].key = k /\ s[i].count # 0
      BY <1>2, <2>1 DEF KeyInv, KindInv
    <3> QED
      BY <3>1
  <2>2. ASSUME NEW k \in Keys, <<k, "hold">> \in R
        PROVE  /\ ~(t2.pressed /\ t2.key = k)
               /\ \A i \in DOMAIN u : u[i].key = k => u[i].count = 0
    <3>1. ~(t2.pressed /\ t2.key = k) /\ \A i \in DOMAIN s : s[i].key = k => s[i].count = 0
      BY <1>2, <2>2 DEF KeyInv, KindInv
    <3> QED
      BY <3>1
  <2> QED
    BY <2>1, <2>2 DEF KindInv
<1> QED
  BY <1>1, <1>3, <1>4, <1>5 DEF KeyInv

LEMMA EventKeyed ==
  ASSUME TypeInv, Keyed, NEW k \in Keys, Press(k) \/ Release(k)
  PROVE  Keyed'
<1>1. Shape /\ KeyInv(Line, tapping_key, registered, down) /\ Late
  BY DEF TypeInv, TapInv, Keyed
<1>2. presses \in Nat /\ MaxPresses \in Nat /\ k # NoKey
  BY <1>1, ConstantFacts DEF Shape
<1>3. PICK e \in WaitingRecord :
        /\ e.count = 0 /\ Event(e) /\ presses' \in 0 .. MaxPresses
        /\ \/ e.pressed /\ e.key \notin down /\ down' = down \cup {e.key}
           \/ ~e.pressed /\ e.key \in down /\ down' = down \ {e.key}
  <2>1. CASE Press(k)
    <3> DEFINE e == Record(k, TRUE, presses + 1)
    <3>1. Event(e) /\ k \notin down /\ down' = down \cup {k}
      BY <2>1 DEF Press
    <3>2. presses' \in 0 .. MaxPresses /\ presses + 1 \in 0 .. MaxPresses
      <4>1. presses < MaxPresses /\ presses' = presses + 1
        BY <2>1 DEF Press
      <4> QED
        BY <1>2, <4>1
    <3>3. e \in WaitingRecord
      BY <1>2, <3>2, ConstantFacts DEF Record, WaitingRecord, Records
    <3>4. e.count = 0 /\ e.pressed /\ e.key = k
      BY DEF Record
    <3> HIDE DEF e
    <3> QED
      BY <3>1, <3>2, <3>3, <3>4
  <2>2. CASE Release(k)
    <3> DEFINE e == Record(k, FALSE, 0)
    <3>1. Event(e) /\ k \in down /\ down' = down \ {k} /\ presses' = presses
      BY <2>2 DEF Release
    <3>2. presses' \in 0 .. MaxPresses
      BY <1>1, <3>1 DEF Shape
    <3>3. e \in WaitingRecord
      BY <1>2, ConstantFacts DEF Record, WaitingRecord, Records
    <3>4. e.count = 0 /\ ~e.pressed /\ e.key = k
      BY DEF Record
    <3> HIDE DEF e
    <3> QED
      BY <3>1, <3>2, <3>3, <3>4
  <2> QED
    BY <2>1, <2>2
<1>4. Line = waiting_buffer /\ Line' = Append(waiting_buffer, e)
  BY <1>1, <1>3, EventShape
<1>5. UNCHANGED <<tapping_key, waiting_buffer, registered>>
  BY <1>3 DEF Event
<1>6. waiting_buffer \in Seq(WaitingRecord)
  BY <1>1 DEF Shape
<1>7. KeyInv(Append(waiting_buffer, e), tapping_key, registered, down')
  BY <1>1, <1>3, <1>4, <1>6, KeyChange
<1>8. Late'
  BY <1>1, <1>5 DEF Late, Undecided
<1> QED
  BY <1>4, <1>5, <1>7, <1>8 DEF Keyed

LEMMA ClockKeyed ==
  ASSUME TypeInv, Keyed, Clock
  PROVE  Keyed'
<1> DEFINE w == waiting_buffer
           t == tapping_key
<1>1. Shape /\ AgeInv /\ KeyInv(Line, t, registered, down) /\ Late
  BY DEF TypeInv, TapInv, Keyed
<1>2. /\ pc = "idle" /\ pc' = "idle" /\ UNCHANGED <<down, registered>>
      /\ tapping_key' = Older(t) /\ w' = [i \in DOMAIN w |-> Older(w[i])]
  BY DEF Clock
<1>3. Line = w /\ Line' = w' /\ DOMAIN w' = DOMAIN w /\ \A i \in DOMAIN w : w'[i] = Older(w[i])
  BY <1>2 DEF Line
<1>4. /\ t \in Records /\ (t.pressed => ~IsTick(t)) /\ w \in Seq(WaitingRecord)
  BY <1>1 DEF Shape, TappingRecord, IsTick
<1>5. \A i \in DOMAIN w : w[i] \in Records
  <2>1. \A i \in DOMAIN w : w[i] \in WaitingRecord
    BY <1>4
  <2> QED
    BY <2>1 DEF WaitingRecord
<1>6. \A i \in DOMAIN w : /\ Older(w[i]).key = w[i].key /\ Older(w[i]).pressed = w[i].pressed
                          /\ Older(w[i]).count = w[i].count
  BY <1>5, OlderFacts
<1>7. Older(t).key = t.key /\ Older(t).pressed = t.pressed /\ Older(t).count = t.count
  BY <1>4, OlderFacts
<1>8. KeyInv(w', Older(t), registered, down)
  BY <1>1, <1>3, <1>6, <1>7, KeyAged DEF SameTap
<1>9. Late'
  <2> SUFFICES ASSUME Undecided(Older(t)), NEW i \in DOMAIN w, Older(w[i]).key = Older(t).key,
                      ~Older(w[i]).pressed
               PROVE  TappingTerm <= Older(t).age - Older(w[i]).age
    BY <1>2, <1>3 DEF Late
  <2>1. Undecided(t) /\ t.pressed /\ w[i].key = t.key /\ ~w[i].pressed
    BY <1>6, <1>7 DEF Undecided
  <2>2. TappingTerm <= t.age - w[i].age
    BY <1>1, <2>1 DEF Late
  <2>3. t.age < AgeMax
    BY <1>1, <2>1, AgesBounded DEF Undecided, Young
  <2>4. Older(t).age = t.age + 1 /\ t.age \in Nat
    BY <1>4, <2>1, <2>3, OlderAge
  <2>5. (Older(w[i]).age = w[i].age \/ Older(w[i]).age = w[i].age + 1) /\ w[i].age \in Nat
    BY <1>5, OlderAge
  <2>6. TappingTerm \in Nat
    BY LimitFacts
  <2> QED
    BY <2>2, <2>4, <2>5, <2>6
<1> QED
  BY <1>2, <1>3, <1>8, <1>9 DEF Keyed

\* What makes NoStuckKey inductive.
StuckInv == TypeInv /\ (~overtaken /\ ~unscanned => Keyed)

LEMMA StuckInit == ASSUME Init PROVE StuckInv
<1>1. Line = << >> /\ tapping_key = Nothing /\ registered = {} /\ waiting_buffer = << >>
  BY DEF Init, Line
<1>2. KeyInv(<< >>, Nothing, {}, down)
  BY NothingAge, KeyClear
<1>3. Late
  BY <1>1, NothingAge DEF Late, Undecided
<1> QED
  BY <1>1, <1>2, <1>3, TypeInit DEF StuckInv, Keyed

LEMMA StuckStep ==
  ASSUME StuckInv, [Next]_vars
  PROVE  StuckInv'
<1>1. TypeInv /\ TypeInv' /\ Shape /\ overtaken \in BOOLEAN /\ unscanned \in BOOLEAN
  BY TypeStep DEF StuckInv, TypeInv, TapInv, Shape
<1> SUFFICES ASSUME ~overtaken', ~unscanned' PROVE Keyed'
  BY <1>1 DEF StuckInv
<1>2. ASSUME ~overtaken, ~unscanned PROVE Keyed /\ InLine
  BY <1>2 DEF StuckInv, TypeInv, TapInv
<1>3. ASSUME NEW k \in Keys, Press(k) \/ Release(k) PROVE Keyed'
  <2>1. PICK e : Event(e)
    BY <1>3 DEF Press, Release
  <2>2. ~overtaken /\ ~unscanned
    BY <2>1 DEF Event
  <2> QED
    BY <1>1, <1>2, <1>3, <2>2, EventKeyed
<1>4. CASE Tick
  <2>1. /\ UNCHANGED <<tapping_key, waiting_buffer, down, registered, overtaken, unscanned>>
        /\ pc = "idle" /\ arrived' = Nothing
    BY <1>4 DEF Tick
  <2>2. Line' = Line
    BY <2>1, NothingAge DEF Line, IsTick
  <2> QED
    BY <1>2, <2>1, <2>2 DEF Keyed, Late, Undecided
<1>5. CASE Clock
  <2>1. UNCHANGED <<overtaken, unscanned>>
    BY <1>5 DEF Clock
  <2> QED
    BY <1>1, <1>2, <1>5, <2>1, ClockKeyed
<1>6. CASE process_tapping
  <2>1. overtaken' = overtaken
    BY <1>1, <1>6, ProcessGood DEF Good
  <2>2. pc # "idle" /\ ~unscanned /\ ~RestartsUnscanned(tapping_key, Cur) /\ Branch
    BY <1>1, <1>6, ProcessBranch DEF process_tapping
  <2> QED
    BY <1>1, <1>2, <2>1, <2>2, BranchKeyed
<1>7. CASE UNCHANGED vars
  <2>1. Line' = Line /\ UNCHANGED <<tapping_key, waiting_buffer, down, registered, overtaken, unscanned>>
    BY <1>7 DEF vars, Line, IsTick
  <2> QED
    BY <1>2, <2>1 DEF Keyed, Late, Undecided
<1> QED
  BY <1>3, <1>4, <1>5, <1>6, <1>7 DEF Next

LEMMA StuckFree == ASSUME StuckInv PROVE NoStuckKey
<1> SUFFICES ASSUME ~overtaken, ~unscanned, NEW k \in Keys \ down, ~Waits(k),
                    <<k, "tap">> \in registered \/ <<k, "hold">> \in registered
             PROVE  FALSE
  BY DEF NoStuckKey
<1>1. Shape /\ KeyInv(Line, tapping_key, registered, down)
  BY DEF StuckInv, TypeInv, TapInv, Keyed
<1>2. Due(Line, down, k)
  BY <1>1 DEF KeyInv, DueInv
<1>3. PICK i \in DOMAIN Line : Line[i].key = k
  BY <1>2 DEF Due
<1>4. CASE Line = waiting_buffer
  BY <1>3, <1>4 DEF Waits
<1>5. CASE pc = "new" /\ Line = Append(waiting_buffer, arrived)
  <2>1. waiting_buffer \in Seq(WaitingRecord)
    BY <1>1 DEF Shape
  <2>2. Line[i] = arrived \/ (i \in DOMAIN waiting_buffer /\ Line[i] = waiting_buffer[i])
    BY <1>3, <1>5, <2>1
  <2> QED
    BY <1>3, <1>5, <2>2 DEF Waits
<1> QED
  BY <1>4, <1>5 DEF Line

\* No stuck key, in every decision mode: once a key is up and none of its events
\* waits, action_tapping_process has taken back what it registered for the key, as
\* long as no event overtook the ones that wait and every tapping key whose release
\* waited was found by waiting_buffer_scan_tap.
THEOREM NoKeyStuck == Spec => []NoStuckKey
<1>1. StuckInv /\ [Next]_vars => StuckInv'
  BY StuckStep
<1>2. StuckInv => NoStuckKey
  BY StuckFree
<1> QED
  BY <1>1, <1>2, StuckInit, PTL DEF Spec

-----------------------------------------------------------------------------
(***************************************************************************)
(* No event overtakes another in the default mode with a quiet scan every  *)
(* millisecond: between two ticks at most one key changes, so the records  *)
(* that wait are spread out in time.  A tick settles an undecided key as   *)
(* soon as it is as old as the term, the next one in line is then at most  *)
(* as old as the term, and everything behind that one is within its term:  *)
(* the drain loop after a tick ends at an undecided key or when nothing    *)
(* waits.  x is the time since the last tick, 0 or 1.                      *)
(***************************************************************************)

\* Later events are younger, but for the one millisecond by which a scan may find
\* an event earlier or later than its tick.
Spread(s) == \A i, j \in DOMAIN s : i < j => s[j].age + j <= s[i].age + i + 1
Aged(s, x) == \A i \in DOMAIN s : Len(s) - i + x <= s[i].age
UpTo(s, y) == \A i \in DOMAIN s : s[i].age + i <= y
AllWithin(s, t) == \A i \in DOMAIN s : t.age - s[i].age < TappingTerm

\* An undecided key t in front of s whose release is not in its term: it was
\* searched for when t became the tapping key.
Front(s, t, x, y) ==
  /\ \A i \in DOMAIN s : s[i].age + i <= t.age + 1
  /\ Len(s) + x <= t.age /\ t.age <= TappingTerm + y
NoRelease(s, t) ==
  \A i \in DOMAIN s : s[i].key = t.key /\ ~s[i].pressed => t.age - s[i].age >= TappingTerm

\* The last record of s is the event that has come since the last tick only if it
\* is within the term of t or has settled another key before t.
Early(s, t, x) ==
  \/ s = << >> \/ Aged(s, x) \/ t.age - s[Len(s)].age < TappingTerm
  \/ t.age <= TappingTerm + x - 1 /\ UpTo(s, TappingTerm + x - 1)

Tapped(t) == t.key # NoKey /\ ~t.pressed

\* No key has changed since the last tick.
Tight(s, t, x) ==
  /\ Spread(s) /\ Aged(s, x) /\ UpTo(s, TappingTerm + x)
  /\ s # << >> => Undecided(t)
  /\ Undecided(t) => Front(s, t, x, x) /\ NoRelease(s, t) /\ Len(s) < TappingTerm

\* A key has changed since the last tick.
Loose(s, t, x) ==
  /\ Spread(s) /\ Aged(s, x - 1) /\ UpTo(s, TappingTerm + x) /\ Len(s) <= TappingTerm
  /\ Undecided(t) => Front(s, t, x - 1, x) /\ NoRelease(s, t) /\ Early(s, t, x)

\* What the drain loop may leave behind after an event is as young as the event.
LeftOver(s, t, x) ==
  ~Undecided(t) /\ s # << >> => t.key = NoKey /\ \A i \in DOMAIN s : s[i].age <= x

\* The drain loop after an event, and after a tick.
Draining(s, t, x) ==
  /\ Loose(s, t, x)
  /\ Tapped(t) /\ s # << >> => /\ t.age <= TappingTerm + x
                               /\ \A i \in DOMAIN s : s[i].age <= t.age
Calm(s, t) ==
  /\ Spread(s) /\ Aged(s, 0) /\ UpTo(s, TappingTerm + 1) /\ Len(s) <= TappingTerm
  /\ \A i, j \in DOMAIN s : i < j => s[i].age - s[j].age < TappingTerm
  /\ Undecided(t) => /\ Front(s, t, 0, 0) /\ NoRelease(s, t) /\ UpTo(s, TappingTerm)
                     /\ Len(s) < TappingTerm /\ AllWithin(s, t)
  /\ Tapped(t) => AllWithin(s, t) /\ \A i \in DOMAIN s : s[i].age <= t.age

OnTime ==
  LET w == waiting_buffer
      t == tapping_key
  IN  /\ tick_age <= 1
      /\ pc = "idle" /\ changed = {} => Tight(w, t, tick_age)
      /\ pc = "idle" /\ changed # {} => Loose(w, t, tick_age) /\ LeftOver(w, t, tick_age)
      /\ TickComes => changed = {} /\ Loose(w, t, 1) /\ LeftOver(w, t, 1)
      /\ pc = "new" /\ ~TickComes => changed # {} /\ Tight(w, t, tick_age)
      /\ pc = "drain" /\ changed = {} => tick_age = 0 /\ Calm(w, t)
      /\ pc = "drain" /\ changed # {} => Draining(w, t, tick_age)

LEMMA SeqAges ==
  ASSUME NEW s \in Seq(WaitingRecord)
  PROVE  /\ Len(s) \in Nat /\ DOMAIN s = 1 .. Len(s)
         /\ \A i \in DOMAIN s : s[i].age \in Nat /\ i \in Nat /\ 1 <= i /\ i <= Len(s)
<1>1. Len(s) \in Nat /\ DOMAIN s = 1 .. Len(s) /\ \A i \in DOMAIN s : s[i] \in WaitingRecord
  OBVIOUS
<1>2. \A r \in WaitingRecord : r.age \in Nat
  BY ConstantFacts DEF WaitingRecord, Records
<1> QED
  BY <1>1, <1>2

\* u is what waits once the first record of s has gone; marks are of no account.
Shorter(u, s) ==
  /\ Len(u) = Len(s) - 1
  /\ \A i \in DOMAIN u : i + 1 \in DOMAIN s /\ u[i].age = s[i + 1].age
       /\ u[i].key = s[i + 1].key /\ u[i].pressed = s[i + 1].pressed

LEMMA ShorterAges ==
  ASSUME NEW s \in Seq(WaitingRecord), NEW u \in Seq(WaitingRecord), s # << >>, Shorter(u, s),
         NEW x \in Int, NEW y \in Int
  PROVE  /\ 1 \in DOMAIN s /\ s[1].age \in Nat
         /\ Spread(s) => Spread(u) /\ \A i \in DOMAIN u : u[i].age + i <= s[1].age + 1
         /\ Aged(s, x) => Aged(u, x) /\ Len(u) + x <= s[1].age
         /\ UpTo(s, y) => UpTo(u, y - 1) /\ UpTo(u, y) /\ s[1].age <= y - 1
<1>1. /\ Len(s) \in Nat /\ DOMAIN s = 1 .. Len(s) /\ Len(s) >= 1
      /\ \A i \in DOMAIN s : s[i].age \in Nat /\ i \in Nat /\ 1 <= i /\ i <= Len(s)
      /\ Len(u) \in Nat /\ DOMAIN u = 1 .. Len(u) /\ Len(u) = Len(s) - 1
      /\ \A i \in DOMAIN u : u[i].age \in Nat /\ i \in Nat /\ 1 <= i /\ i <= Len(u)
      /\ \A i \in DOMAIN u : i + 1 \in DOMAIN s /\ u[i].age = s[i + 1].age
  BY SeqAges DEF Shorter
<1>2. 1 \in DOMAIN s /\ s[1].age \in Nat
  BY <1>1
<1>3. ASSUME Spread(s) PROVE Spread(u) /\ \A i \in DOMAIN u : u[i].age + i <= s[1].age + 1
  <2>1. ASSUME NEW i \in DOMAIN u, NEW j \in DOMAIN u, i < j
        PROVE  u[j].age + j <= u[i].age + i + 1
    <3>1. s[j + 1].age + (j + 1) <= s[i + 1].age + (i + 1) + 1
      <4>1. i + 1 < j + 1
        BY <1>1, <2>1
      <4> QED
        BY <1>1, <1>3, <4>1 DEF Spread
    <3>2. u[i].age \in Nat /\ u[j].age \in Nat /\ i \in Nat /\ j \in Nat
      BY <1>1
    <3>3. u[i].age = s[i + 1].age /\ u[j].age = s[j + 1].age
      BY <1>1
    <3>4. u[j].age + (j + 1) <= u[i].age + (i + 1) + 1
      BY <3>1, <3>3
    <3>5. \A a, b, c, d \in Nat : a + (c + 1) <= b + (d + 1) + 1 => a + c <= b + d + 1
      OBVIOUS
    <3> QED
      BY <3>2, <3>4, <3>5
  <2>2. ASSUME NEW i \in DOMAIN u PROVE u[i].age + i <= s[1].age + 1
    <3>1. s[i + 1].age + (i + 1) <= s[1].age + 1 + 1
      <4>1. 1 < i + 1
        BY <1>1
      <4> QED
        BY <1>1, <1>2, <1>3, <4>1 DEF Spread
    <3> QED
      BY <1>1, <1>2, <3>1
  <2> QED
    BY <2>1, <2>2 DEF Spread
<1>4. ASSUME Aged(s, x) PROVE Aged(u, x) /\ Len(u) + x <= s[1].age
  <2>1. ASSUME NEW i \in DOMAIN u PROVE Len(u) - i + x <= u[i].age
    <3>1. Len(s) - (i + 1) + x <= s[i + 1].age
      BY <1>1, <1>4 DEF Aged
    <3> QED
      BY <1>1, <3>1
  <2>2. Len(s) - 1 + x <= s[1].age
    BY <1>2, <1>4 DEF Aged
  <2> QED
    BY <1>1, <1>2, <2>1, <2>2 DEF Aged
<1>5. ASSUME UpTo(s, y) PROVE UpTo(u, y - 1) /\ UpTo(u, y) /\ s[1].age <= y - 1
  <2>1. ASSUME NEW i \in DOMAIN u PROVE u[i].age + i <= y - 1
    <3>1. s[i + 1].age + (i + 1) <= y
      BY <1>1, <1>5 DEF UpTo
    <3> QED
      BY <1>1, <3>1
  <2>2. \A i \in DOMAIN u : u[i].age + i <= y
    BY <1>1, <2>1
  <2>3. s[1].age + 1 <= y
    BY <1>2, <1>5 DEF UpTo
  <2> QED
    BY <1>2, <2>1, <2>2, <2>3 DEF UpTo
<1> QED
  BY <1>2, <1>3, <1>4, <1>5

\* A new event joins.
LEMMA LongerAges ==
  ASSUME NEW s \in Seq(WaitingRecord), NEW e \in WaitingRecord, e.age = 0,
         NEW x \in 0 .. 1, NEW y \in Int, Spread(s), Aged(s, x)
  PROVE  /\ Append(s, e) \in Seq(WaitingRecord) /\ Len(Append(s, e)) = Len(s) + 1
         /\ Spread(Append(s, e)) /\ Aged(Append(s, e), x - 1)
         /\ UpTo(s, y) /\ Len(s) < y => UpTo(Append(s, e), y)
         /\ \A i \in DOMAIN Append(s, e) :
              \/ i = Len(s) + 1 /\ Append(s, e)[i] = e
              \/ i \in DOMAIN s /\ Append(s, e)[i] = s[i]
<1> DEFINE u == Append(s, e)
           n == Len(s)
<1>1. /\ n \in Nat /\ DOMAIN s = 1 .. n
      /\ \A i \in DOMAIN s : s[i].age \in Nat /\ i \in Nat /\ 1 <= i /\ i <= n
  BY SeqAges
<1>2. /\ u \in Seq(WaitingRecord) /\ Len(u) = n + 1 /\ DOMAIN u = 1 .. n + 1
      /\ u[n + 1] = e /\ \A i \in DOMAIN s : u[i] = s[i]
  OBVIOUS
<1>3. \A i \in DOMAIN u : (i = n + 1 /\ u[i] = e) \/ (i \in DOMAIN s /\ u[i] = s[i])
  BY <1>1, <1>2
<1>4. \A i \in DOMAIN s : n - i + x <= s[i].age
  BY DEF Aged
<1> HIDE DEF u, n
<1>5. ASSUME NEW i \in DOMAIN u, NEW j \in DOMAIN u, i < j
      PROVE  u[j].age + j <= u[i].age + i + 1
  <2>1. i \in DOMAIN s /\ u[i] = s[i]
    BY <1>1, <1>2, <1>3, <1>5
  <2>2. CASE j = n + 1 /\ u[j] = e
    BY <1>1, <1>4, <2>1, <2>2
  <2>3. CASE j \in DOMAIN s /\ u[j] = s[j]
    BY <1>5, <2>1, <2>3 DEF Spread
  <2> QED
    BY <1>3, <2>2, <2>3
<1>6. ASSUME NEW i \in DOMAIN u PROVE Len(u) - i + (x - 1) <= u[i].age
  <2>1. CASE i = n + 1 /\ u[i] = e
    BY <1>1, <1>2, <2>1
  <2>2. CASE i \in DOMAIN s /\ u[i] = s[i]
    BY <1>1, <1>2, <1>4, <2>2
  <2> QED
    BY <1>3, <2>1, <2>2
<1>7. ASSUME UpTo(s, y), n < y, NEW i \in DOMAIN u PROVE u[i].age + i <= y
  <2>1. CASE i = n + 1 /\ u[i] = e
    BY <1>1, <1>7, <2>1
  <2>2. CASE i \in DOMAIN s /\ u[i] = s[i]
    BY <1>7, <2>2 DEF UpTo
  <2> QED
    BY <1>3, <2>1, <2>2
<1> QED
  BY <1>2, <1>3, <1>5, <1>6, <1>7 DEF Spread, Aged, UpTo, u, n

SameKey(t2, t) ==
  t2.key = t.key /\ t2.age = t.age /\ t2.count = t.count /\ (t2.pressed <=> t.pressed)

\* The first record goes, and the tapping key is no longer of account, is the
\* record that went, or stays.
Follows(t2, t, s, u) ==
  \/ ~Undecided(t2) /\ ~Tapped(t2)
  \/ t2.age = s[1].age /\ (Undecided(t2) => NoRelease(u, t2))
  \/ SameKey(t2, t)

LEMMA SameKeyFacts ==
  ASSUME NEW t, NEW t2, SameKey(t2, t)
  PROVE  /\ Undecided(t2) <=> Undecided(t)
         /\ Tapped(t2) <=> Tapped(t)
         /\ \A s, x, y : Front(s, t, x, y) => Front(s, t2, x, y)
         /\ \A s : NoRelease(s, t) => NoRelease(s, t2)
         /\ \A s : AllWithin(s, t) => AllWithin(s, t2)
         /\ \A s, x : Early(s, t, x) => Early(s, t2, x)
<1>1. (Undecided(t2) <=> Undecided(t)) /\ (Tapped(t2) <=> Tapped(t))
  BY DEF SameKey, Undecided, Tapped
<1>2. t2.age = t.age /\ t2.key = t.key
  BY DEF SameKey
<1>3. \A s, x, y : Front(s, t, x, y) => Front(s, t2, x, y)
  BY <1>2 DEF Front
<1>4. \A s : NoRelease(s, t) => NoRelease(s, t2)
  BY <1>2 DEF NoRelease
<1>5. \A s : AllWithin(s, t) => AllWithin(s, t2)
  BY <1>2 DEF AllWithin
<1>6. \A s, x : Early(s, t, x) => Early(s, t2, x)
  BY <1>2 DEF Early
<1> QED
  BY <1>1, <1>3, <1>4, <1>5, <1>6

LEMMA CalmSame ==
  ASSUME NEW s, NEW t, NEW t2, Calm(s, t), SameKey(t2, t)
  PROVE  Calm(s, t2)
<1>1. t2.age = t.age
  BY DEF SameKey
<1> QED
  BY <1>1, SameKeyFacts, Zenon DEF Calm

LEMMA DrainingSame ==
  ASSUME NEW s, NEW t, NEW t2, NEW x, Draining(s, t, x), SameKey(t2, t)
  PROVE  Draining(s, t2, x)
<1>1. t2.age = t.age
  BY DEF SameKey
<1> QED
  BY <1>1, SameKeyFacts, Zenon DEF Draining, Loose

LEMMA CalmTail ==
  ASSUME NEW s \in Seq(WaitingRecord), NEW u \in Seq(WaitingRecord), s # << >>, Shorter(u, s),
         NEW t, NEW t2, t.age \in Nat, Calm(s, t), Follows(t2, t, s, u)
  PROVE  Calm(u, t2)
<1> DEFINE T == TappingTerm
<1>0. /\ T \in Nat /\ T >= 1 /\ Len(s) \in Nat /\ Len(u) \in Nat /\ Len(u) = Len(s) - 1
      /\ DOMAIN s = 1 .. Len(s) /\ DOMAIN u = 1 .. Len(u)
      /\ \A i \in DOMAIN s : s[i].age \in Nat /\ i \in Nat /\ 1 <= i /\ i <= Len(s)
      /\ \A i \in DOMAIN u : u[i].age \in Nat /\ i \in Nat /\ 1 <= i /\ i <= Len(u)
      /\ \A i \in DOMAIN u : /\ i + 1 \in DOMAIN s /\ u[i].age = s[i + 1].age
                             /\ u[i].key = s[i + 1].key /\ u[i].pressed = s[i + 1].pressed
  BY SeqAges, LimitFacts DEF Shorter
<1>1. /\ Spread(s) /\ Aged(s, 0) /\ UpTo(s, T + 1) /\ Len(s) <= T
      /\ \A i, j \in DOMAIN s : i < j => s[i].age - s[j].age < T
  BY DEF Calm
<1>2. /\ Spread(u) /\ Aged(u, 0) /\ UpTo(u, (T + 1) - 1) /\ UpTo(u, T + 1)
      /\ 1 \in DOMAIN s /\ s[1].age \in Nat /\ s[1].age <= (T + 1) - 1
      /\ \A i \in DOMAIN u : u[i].age + i <= s[1].age + 1
      /\ Len(u) + 0 <= s[1].age
  <2>1. T + 1 \in Int
    BY <1>0
  <2> QED
    BY <1>1, <2>1, ShorterAges
<1>3. (T + 1) - 1 = T /\ T + 0 = T /\ Len(u) < T
  BY <1>0, <1>1
<1>4. ASSUME NEW i \in DOMAIN u, NEW j \in DOMAIN u, i < j PROVE u[i].age - u[j].age < T
  <2>1. i + 1 < j + 1
    BY <1>0, <1>4
  <2> QED
    BY <1>0, <1>1, <2>1
<1>5. ASSUME NEW i \in DOMAIN u PROVE s[1].age - u[i].age < T /\ u[i].age <= s[1].age
  <2>1. 1 < i + 1
    BY <1>0
  <2>2. s[1].age - s[i + 1].age < T
    BY <1>0, <1>1, <1>2, <2>1
  <2> QED
    BY <1>0, <1>2, <2>2
<1>6. /\ Spread(u) /\ Aged(u, 0) /\ UpTo(u, T + 1) /\ Len(u) <= T
      /\ \A i, j \in DOMAIN u : i < j => u[i].age - u[j].age < T
  BY <1>0, <1>2, <1>3, <1>4
<1>7. CASE ~Undecided(t2) /\ ~Tapped(t2)
  BY <1>6, <1>7 DEF Calm
<1>8. CASE t2.age = s[1].age /\ (Undecided(t2) => NoRelease(u, t2))
  <2>1. /\ Front(u, t2, 0, 0) /\ UpTo(u, T) /\ Len(u) < T /\ AllWithin(u, t2)
        /\ \A i \in DOMAIN u : u[i].age <= t2.age
    BY <1>2, <1>3, <1>5, <1>8 DEF Front, AllWithin
  <2> QED
    BY <1>6, <1>8, <2>1, Zenon DEF Calm
<1>9. CASE SameKey(t2, t)
  <2>1. ASSUME Undecided(t)
        PROVE  /\ Front(u, t, 0, 0) /\ NoRelease(u, t) /\ UpTo(u, T)
               /\ Len(u) < T /\ AllWithin(u, t)
    <3>1. Front(s, t, 0, 0) /\ NoRelease(s, t) /\ AllWithin(s, t)
      BY <2>1 DEF Calm
    <3>2. ASSUME NEW i \in DOMAIN u
          PROVE  /\ u[i].age + i <= t.age + 1 /\ t.age - u[i].age < T
                 /\ u[i].key = t.key /\ ~u[i].pressed => t.age - u[i].age >= T
      <4>1. s[i + 1].age + (i + 1) <= t.age + 1
        BY <1>0, <3>1 DEF Front
      <4>2. t.age - s[i + 1].age < T
        BY <1>0, <3>1 DEF AllWithin
      <4>3. s[i + 1].key = t.key /\ ~s[i + 1].pressed => t.age - s[i + 1].age >= T
        BY <1>0, <3>1 DEF NoRelease
      <4>4. u[i].age + i <= t.age + 1
        BY <1>0, <4>1
      <4> QED
        BY <1>0, <4>2, <4>3, <4>4
    <3>3. Len(s) + 0 <= t.age /\ t.age <= T + 0
      BY <3>1 DEF Front
    <3>4. Len(u) + 0 <= t.age
      BY <1>0, <3>3
    <3> QED
      BY <1>2, <1>3, <3>2, <3>3, <3>4 DEF Front, NoRelease, AllWithin
  <2>2. ASSUME Tapped(t) PROVE AllWithin(u, t) /\ \A i \in DOMAIN u : u[i].age <= t.age
    <3>1. AllWithin(s, t) /\ \A i \in DOMAIN s : s[i].age <= t.age
      BY <2>2 DEF Calm
    <3> QED
      BY <1>0, <3>1 DEF AllWithin
  <2>3. Calm(u, t)
    BY <1>6, <2>1, <2>2 DEF Calm
  <2> QED
    BY <1>9, <2>3, CalmSame
<1> QED
  BY <1>7, <1>8, <1>9 DEF Follows

LEMMA DrainingTail ==
  ASSUME NEW s \in Seq(WaitingRecord), NEW u \in Seq(WaitingRecord), s # << >>, Shorter(u, s),
         NEW t, NEW t2, t.age \in Nat, NEW x \in 0 .. 1, Draining(s, t, x), Follows(t2, t, s, u)
  PROVE  Draining(u, t2, x)
<1> DEFINE T == TappingTerm
<1>0. /\ T \in Nat /\ T >= 1 /\ Len(s) \in Nat /\ Len(u) \in Nat /\ Len(u) = Len(s) - 1
      /\ DOMAIN s = 1 .. Len(s) /\ DOMAIN u = 1 .. Len(u) /\ x \in Int /\ x - 1 \in Int
      /\ \A i \in DOMAIN s : s[i].age \in Nat /\ i \in Nat /\ 1 <= i /\ i <= Len(s)
      /\ \A i \in DOMAIN u : u[i].age \in Nat /\ i \in Nat /\ 1 <= i /\ i <= Len(u)
      /\ \A i \in DOMAIN u : /\ i + 1 \in DOMAIN s /\ u[i].age = s[i + 1].age
                             /\ u[i].key = s[i + 1].key /\ u[i].pressed = s[i + 1].pressed
  BY SeqAges, LimitFacts DEF Shorter
<1>1. /\ Spread(s) /\ Aged(s, x - 1) /\ UpTo(s, T + x) /\ Len(s) <= T
  BY DEF Draining, Loose
<1>2. /\ Spread(u) /\ Aged(u, x - 1) /\ UpTo(u, T + x - 1) /\ UpTo(u, T + x)
      /\ 1 \in DOMAIN s /\ s[1].age \in Nat /\ s[1].age <= T + x - 1
      /\ \A i \in DOMAIN u : u[i].age + i <= s[1].age + 1
      /\ Len(u) + (x - 1) <= s[1].age
  <2>1. /\ Spread(u) /\ 1 \in DOMAIN s /\ s[1].age \in Nat
        /\ \A i \in DOMAIN u : u[i].age + i <= s[1].age + 1
    BY <1>0, <1>1, ShorterAges
  <2>2. Aged(u, x - 1) /\ Len(u) + (x - 1) <= s[1].age
    BY <1>0, <1>1, ShorterAges
  <2>3. T + x \in Int
    BY <1>0
  <2>4. UpTo(u, T + x - 1) /\ UpTo(u, T + x) /\ s[1].age <= T + x - 1
    <3> DEFINE y == T + x
    <3>1. y \in Int /\ UpTo(s, y)
      BY <1>1, <2>3
    <3> HIDE DEF y
    <3>2. UpTo(u, y - 1) /\ UpTo(u, y) /\ s[1].age <= y - 1
      BY <1>0, <3>1, ShorterAges
    <3>3. y - 1 = T + x - 1
      BY <1>0 DEF y
    <3> QED
      BY <3>2, <3>3 DEF y
  <2> QED
    BY <2>1, <2>2, <2>4
<1>3. s[1].age <= T + x /\ Len(u) <= T
  BY <1>0, <1>1, <1>2
<1>4. ASSUME NEW i \in DOMAIN u PROVE u[i].age <= s[1].age
  <2>1. u[i].age \in Nat /\ i \in Nat /\ 1 <= i /\ s[1].age \in Nat
    BY <1>0, <1>2
  <2>2. u[i].age + i <= s[1].age + 1
    BY <1>2
  <2>3. \A a, b, c \in Nat : 1 <= c /\ a + c <= b + 1 => a <= b
    OBVIOUS
  <2> QED
    BY <2>1, <2>2, <2>3
<1>7. CASE ~Undecided(t2) /\ ~Tapped(t2)
  BY <1>2, <1>3, <1>7 DEF Draining, Loose
<1>8. CASE t2.age = s[1].age /\ (Undecided(t2) => NoRelease(u, t2))
  <2>1. Front(u, t2, x - 1, x) /\ Early(u, t2, x)
    BY <1>2, <1>3, <1>8 DEF Front, Early
  <2> QED
    BY <1>2, <1>3, <1>4, <1>8, <2>1, Zenon DEF Draining, Loose
<1>9. CASE SameKey(t2, t)
  <2>1. ASSUME Undecided(t) PROVE Front(u, t, x - 1, x) /\ NoRelease(u, t) /\ Early(u, t, x)
    <3>1. Front(s, t, x - 1, x) /\ NoRelease(s, t) /\ Early(s, t, x)
      BY <2>1 DEF Draining, Loose
    <3>2. ASSUME NEW i \in DOMAIN u
          PROVE  /\ u[i].age + i <= t.age + 1
                 /\ u[i].key = t.key /\ ~u[i].pressed => t.age - u[i].age >= T
      <4>1. s[i + 1].age + (i + 1) <= t.age + 1
        BY <1>0, <3>1 DEF Front
      <4>3. s[i + 1].key = t.key /\ ~s[i + 1].pressed => t.age - s[i + 1].age >= T
        BY <1>0, <3>1 DEF NoRelease
      <4>4. u[i].age + i <= t.age + 1
        BY <1>0, <4>1
      <4> QED
        BY <1>0, <4>3, <4>4
    <3>3. Len(s) + (x - 1) <= t.age /\ t.age <= T + x
      BY <3>1 DEF Front
    <3>4. Len(u) + (x - 1) <= t.age
      BY <1>0, <3>3
    <3>5. Early(u, t, x)
      <4>1. CASE u = << >>
        BY <4>1 DEF Early
      <4>2. CASE u # << >> /\ Aged(s, x)
        BY <1>0, <4>2, ShorterAges DEF Early
      <4>3. CASE u # << >> /\ t.age - s[Len(s)].age < T
        <5>1. Len(u) \in DOMAIN u /\ Len(u) + 1 = Len(s)
          BY <1>0, <4>3
        <5>2. u[Len(u)].age = s[Len(s)].age
          BY <1>0, <5>1
        <5> QED
          BY <4>3, <5>2 DEF Early
      <4>4. CASE t.age <= T + x - 1 /\ UpTo(s, T + x - 1)
        <5>1. T + x - 1 \in Int
          BY <1>0
        <5> QED
          BY <4>4, <5>1, ShorterAges DEF Early
      <4> QED
        BY <3>1, <4>1, <4>2, <4>3, <4>4 DEF Early
    <3> QED
      BY <3>2, <3>3, <3>4, <3>5 DEF Front, NoRelease
  <2>2. ASSUME Tapped(t) PROVE t.age <= T + x /\ \A i \in DOMAIN u : u[i].age <= t.age
    <3>1. t.age <= T + x /\ \A i \in DOMAIN s : s[i].age <= t.age
      BY <2>2 DEF Draining
    <3> QED
      BY <1>0, <3>1
  <2>3. Draining(u, t, x)
    BY <1>2, <1>3, <2>1, <2>2 DEF Draining, Loose
  <2> QED
    BY <1>9, <2>3, DrainingSame
<1> QED
  BY <1>7, <1>8, <1>9 DEF Follows

\* An event joins what waits, or is taken at once.
LEMMA EventJoins ==
  ASSUME NEW s \in Seq(WaitingRecord), NEW e \in WaitingRecord, e.age = 0, NEW x \in 0 .. 1,
         NEW t, NEW t2, t.age \in Nat, Tight(s, t, x),
         \/ ~Undecided(t2) /\ ~Tapped(t2)
         \/ /\ SameKey(t2, t) /\ Undecided(t) /\ t.age < TappingTerm
            /\ ~(e.key = t.key /\ ~e.pressed)
  PROVE  Draining(Append(s, e), t2, x)
<1> DEFINE T == TappingTerm
           u == Append(s, e)
           y == T + x
<1>1. /\ T \in Nat /\ T >= 1 /\ Len(s) \in Nat /\ x \in Int
      /\ \A i \in DOMAIN s : s[i].age \in Nat /\ i \in Nat
  BY SeqAges, LimitFacts
<1>2. Spread(s) /\ Aged(s, x) /\ UpTo(s, y) /\ (s # << >> => Undecided(t))
  BY DEF Tight
<1>3. Len(s) < T
  <2>1. s = << >> => Len(s) = 0
    OBVIOUS
  <2>2. Undecided(t) => Len(s) < T
    BY DEF Tight
  <2> QED
    BY <1>1, <1>2, <2>1, <2>2
<1>4. y \in Int /\ Len(s) < y
  BY <1>1, <1>3
<1> HIDE DEF y
<1>5. /\ u \in Seq(WaitingRecord) /\ Len(u) = Len(s) + 1 /\ Spread(u) /\ Aged(u, x - 1)
      /\ UpTo(u, y)
      /\ \A i \in DOMAIN u : \/ i = Len(s) + 1 /\ u[i] = e
                             \/ i \in DOMAIN s /\ u[i] = s[i]
  BY <1>2, <1>4, LongerAges
<1> HIDE DEF u
<1>6. Len(u) <= T
  BY <1>1, <1>3, <1>5
<1>7. CASE ~Undecided(t2) /\ ~Tapped(t2)
  BY <1>5, <1>6, <1>7 DEF Draining, Loose, u, y
<1>8. CASE /\ SameKey(t2, t) /\ Undecided(t) /\ t.age < T
           /\ ~(e.key = t.key /\ ~e.pressed)
  <2>1. Front(s, t, x, x) /\ NoRelease(s, t)
    BY <1>8 DEF Tight
  <2>2. Len(s) + x <= t.age /\ \A i \in DOMAIN s : s[i].age + i <= t.age + 1
    BY <2>1 DEF Front
  <2>3. \A i \in DOMAIN u : u[i].age + i <= t.age + 1
    <3> SUFFICES ASSUME NEW i \in DOMAIN u PROVE u[i].age + i <= t.age + 1
      OBVIOUS
    <3>1. CASE i = Len(s) + 1 /\ u[i] = e
      BY <1>1, <2>2, <3>1
    <3>2. CASE i \in DOMAIN s /\ u[i] = s[i]
      BY <2>2, <3>2
    <3> QED
      BY <1>5, <3>1, <3>2
  <2>4. Len(u) + (x - 1) <= t.age /\ t.age <= y
    BY <1>1, <1>5, <1>8, <2>2 DEF y
  <2>5. NoRelease(u, t)
    BY <1>5, <1>8, <2>1 DEF NoRelease
  <2>6. Early(u, t, x)
    <3>1. Len(u) \in DOMAIN u /\ u[Len(u)] = e
      BY <1>1, <1>5 DEF u
    <3>2. t.age - 0 < T
      BY <1>8
    <3> QED
      BY <3>1, <3>2 DEF Early
  <2>7. ~Tapped(t)
    BY <1>8 DEF Tapped, Undecided
  <2>8. Front(u, t, x - 1, x)
    BY <2>3, <2>4 DEF Front, y
  <2>9. Draining(u, t, x)
    BY <1>5, <1>6, <2>5, <2>6, <2>7, <2>8 DEF Draining, Loose, y
  <2> QED
    BY <1>8, <2>9, DrainingSame DEF u
<1> QED
  BY <1>7, <1>8

LEMMA TightLoose ==
  ASSUME NEW s \in Seq(WaitingRecord), NEW x \in 0 .. 1, NEW t, t.age \in Nat, Tight(s, t, x)
  PROVE  Draining(s, t, x) /\ LeftOver(s, t, x)
<1>1. /\ TappingTerm \in Nat /\ TappingTerm >= 1 /\ Len(s) \in Nat
      /\ \A i \in DOMAIN s : s[i].age \in Nat /\ i \in Nat
  BY SeqAges, LimitFacts
<1>2. Spread(s) /\ Aged(s, x) /\ UpTo(s, TappingTerm + x) /\ (s # << >> => Undecided(t))
  BY DEF Tight
<1>3. Aged(s, x - 1)
  BY <1>1, <1>2 DEF Aged
<1>4. Len(s) <= TappingTerm
  <2>1. s = << >> => Len(s) = 0
    OBVIOUS
  <2>2. Undecided(t) => Len(s) < TappingTerm
    BY DEF Tight
  <2> QED
    BY <1>1, <1>2, <2>1, <2>2
<1>5. ASSUME Undecided(t) PROVE Front(s, t, x - 1, x) /\ NoRelease(s, t) /\ Early(s, t, x)
  <2>1. Front(s, t, x, x) /\ NoRelease(s, t)
    BY <1>5 DEF Tight
  <2>2. Len(s) + (x - 1) <= t.age
    BY <1>1, <2>1 DEF Front
  <2> QED
    BY <1>2, <2>1, <2>2 DEF Front, Early
<1>6. Undecided(t) => ~Tapped(t)
  BY DEF Undecided, Tapped
<1> QED
  BY <1>2, <1>3, <1>4, <1>5, <1>6 DEF Draining, Loose, LeftOver

\* Nothing waits.
LEMMA NothingWaits ==
  ASSUME NEW x \in 0 .. 1, NEW t, Undecided(t) => t.age \in Nat /\ t.age <= TappingTerm
  PROVE  Draining(<< >>, t, x) /\ Calm(<< >>, t)
<1>1. TappingTerm \in Nat /\ TappingTerm >= 1
  BY LimitFacts
<1>2. DOMAIN << >> = {} /\ Len(<< >>) = 0
  OBVIOUS
<1>3. /\ Spread(<< >>) /\ Aged(<< >>, x - 1) /\ Aged(<< >>, 0) /\ UpTo(<< >>, TappingTerm + x)
      /\ UpTo(<< >>, TappingTerm) /\ UpTo(<< >>, TappingTerm + 1)
      /\ NoRelease(<< >>, t) /\ AllWithin(<< >>, t) /\ Early(<< >>, t, x)
  BY <1>2 DEF Spread, Aged, UpTo, NoRelease, AllWithin, Early
<1>4. Undecided(t) => Front(<< >>, t, x - 1, x) /\ Front(<< >>, t, 0, 0)
  <2>1. Undecided(t) => /\ 0 + (x - 1) <= t.age /\ 0 + 0 <= t.age
                        /\ t.age <= TappingTerm + x /\ t.age <= TappingTerm + 0
    BY <1>1
  <2> QED
    BY <1>2, <2>1 DEF Front
<1>5. 0 <= TappingTerm /\ 0 < TappingTerm
  BY <1>1
<1> QED
  BY <1>2, <1>3, <1>4, <1>5 DEF Draining, Loose, Calm

\* A tick finds the tapping key within its term.
LEMMA TickStays ==
  ASSUME NEW s \in Seq(WaitingRecord), NEW t, t.age \in Nat, Loose(s, t, 1), LeftOver(s, t, 1),
         Undecided(t) => t.age < TappingTerm
  PROVE  Calm(s, t)
<1> DEFINE T == TappingTerm
<1>1. /\ T \in Nat /\ T >= 1 /\ Len(s) \in Nat /\ DOMAIN s = 1 .. Len(s)
      /\ \A i \in DOMAIN s : s[i].age \in Nat /\ i \in Nat /\ 1 <= i /\ i <= Len(s)
  BY SeqAges, LimitFacts
<1>2. Spread(s) /\ Aged(s, 0) /\ UpTo(s, T + 1) /\ Len(s) <= T
  BY DEF Loose
<1>3. CASE Undecided(t)
  <2>1. Front(s, t, 0, 1) /\ NoRelease(s, t)
    BY <1>3 DEF Loose
  <2>2. /\ t.age < T /\ Len(s) + 0 <= t.age
        /\ \A i \in DOMAIN s : s[i].age + i <= t.age + 1
    BY <1>3, <2>1 DEF Front
  <2>3. \A i \in DOMAIN s : s[i].age <= t.age /\ s[i].age + i <= T
    BY <1>1, <2>2
  <2>4. \A i, j \in DOMAIN s : i < j => s[i].age - s[j].age < T
    BY <1>1, <2>2, <2>3
  <2>5. UpTo(s, T) /\ AllWithin(s, t) /\ Len(s) < T
    BY <1>1, <2>2, <2>3 DEF UpTo, AllWithin
  <2>6. Front(s, t, 0, 0)
    <3>1. t.age <= T + 0
      BY <1>1, <2>2
    <3> QED
      BY <2>2, <3>1 DEF Front
  <2>7. ~Tapped(t)
    BY <1>3 DEF Undecided, Tapped
  <2> QED
    BY <1>2, <2>1, <2>4, <2>5, <2>6, <2>7 DEF Calm
<1>4. CASE ~Undecided(t) /\ s # << >>
  <2>1. t.key = NoKey /\ \A i \in DOMAIN s : s[i].age <= 1
    BY <1>4 DEF LeftOver
  <2>2. ~Tapped(t)
    BY <2>1 DEF Tapped
  <2>3. ASSUME NEW i \in DOMAIN s, NEW j \in DOMAIN s, i < j PROVE s[i].age - s[j].age < T
    <3>1. T >= 2
      BY <1>1, <1>2, <2>3
    <3>2. s[i].age <= 1 /\ s[i].age \in Nat /\ s[j].age \in Nat
      BY <1>1, <2>1
    <3> QED
      BY <1>1, <3>1, <3>2
  <2> QED
    BY <1>2, <1>4, <2>2, <2>3 DEF Calm
<1>5. CASE ~Undecided(t) /\ s = << >>
  BY <1>5, NothingWaits
<1> QED
  BY <1>3, <1>4, <1>5

\* A tick settles the tapping key.
LEMMA TickSettles ==
  ASSUME NEW s \in Seq(WaitingRecord), NEW t, NEW t2, t.age \in Nat, Loose(s, t, 1),
         Undecided(t), TappingTerm <= t.age, ~Undecided(t2), ~Tapped(t2)
  PROVE  Calm(s, t2)
<1> DEFINE T == TappingTerm
<1>1. /\ T \in Nat /\ T >= 1 /\ Len(s) \in Nat /\ DOMAIN s = 1 .. Len(s)
      /\ \A i \in DOMAIN s : s[i].age \in Nat /\ i \in Nat /\ 1 <= i /\ i <= Len(s)
  BY SeqAges, LimitFacts
<1>2. /\ Spread(s) /\ Aged(s, 0) /\ UpTo(s, T + 1) /\ Len(s) <= T
      /\ Front(s, t, 0, 1) /\ Early(s, t, 1)
  BY DEF Loose
<1>3. ASSUME NEW i \in DOMAIN s, NEW j \in DOMAIN s, i < j PROVE s[i].age - s[j].age < T
  <2>1. s[i].age + i <= t.age + 1 /\ s[i].age + i <= T + 1 /\ s[i].age <= T
    BY <1>1, <1>2 DEF Front, UpTo
  <2>2. CASE Aged(s, 1)
    <3>1. Len(s) - j + 1 <= s[j].age
      BY <2>2 DEF Aged
    <3> QED
      BY <1>1, <2>1, <3>1
  <2>3. CASE t.age - s[Len(s)].age < T
    <3>1. Len(s) \in DOMAIN s /\ s[Len(s)].age \in Nat
      BY <1>1, <1>3
    <3>2. s[Len(s)].age <= s[j].age
      <4>1. CASE j = Len(s)
        BY <3>1, <4>1
      <4>2. CASE j < Len(s)
        <5>1. s[Len(s)].age + Len(s) <= s[j].age + j + 1
          BY <1>2, <3>1, <4>2 DEF Spread
        <5> QED
          BY <1>1, <3>1, <4>2, <5>1
      <4> QED
        BY <1>1, <4>1, <4>2
    <3>3. s[i].age <= t.age
      BY <1>1, <2>1
    <3> QED
      BY <1>1, <2>3, <3>1, <3>2, <3>3
  <2>4. CASE UpTo(s, T + 1 - 1)
    <3>1. s[i].age + i <= T + 1 - 1
      BY <2>4 DEF UpTo
    <3> QED
      BY <1>1, <3>1
  <2>5. s # << >>
    BY <1>3
  <2> QED
    BY <1>2, <2>2, <2>3, <2>4, <2>5 DEF Early
<1> QED
  BY <1>2, <1>3 DEF Calm

\* After a tick the first record is within the term of the tapping key; after an
\* event one that is not, and all behind it, are as young as the event.
LEMMA CalmInTerm ==
  ASSUME NEW s \in Seq(WaitingRecord), NEW t, t.age \in Nat, s # << >>, Calm(s, t),
         Undecided(t) \/ Tapped(t)
  PROVE  t.age - s[1].age \in 0 .. TappingTerm - 1
<1>1. /\ TappingTerm \in Nat /\ 1 \in DOMAIN s /\ s[1].age \in Nat
  BY SeqAges, LimitFacts
<1>2. AllWithin(s, t)
  BY DEF Calm
<1>3. t.age - s[1].age < TappingTerm
  BY <1>1, <1>2 DEF AllWithin
<1>4. s[1].age <= t.age
  <2>1. CASE Undecided(t)
    <3>1. s[1].age + 1 <= t.age + 1
      BY <1>1, <2>1 DEF Calm, Front
    <3> QED
      BY <1>1, <3>1
  <2>2. CASE Tapped(t)
    BY <1>1, <2>2 DEF Calm
  <2> QED
    BY <2>1, <2>2
<1> QED
  BY <1>1, <1>3, <1>4

LEMMA DrainingSettles ==
  ASSUME NEW s \in Seq(WaitingRecord), NEW t, NEW t2, t.age \in Nat, s # << >>, NEW x \in 0 .. 1,
         Draining(s, t, x), Undecided(t) \/ Tapped(t),
         t.age - s[1].age \notin 0 .. TappingTerm - 1, t2.key = NoKey, ~Undecided(t2)
  PROVE  Draining(s, t2, x) /\ LeftOver(s, t2, x)
<1> DEFINE T == TappingTerm
<1>1. /\ T \in Nat /\ T >= 1 /\ 1 \in DOMAIN s /\ s[1].age \in Nat
      /\ \A i \in DOMAIN s : s[i].age \in Nat /\ i \in Nat /\ 1 <= i
  BY SeqAges, LimitFacts
<1>2. t.age <= T + x /\ s[1].age <= t.age
  <2>1. CASE Undecided(t)
    <3>1. t.age <= T + x /\ s[1].age + 1 <= t.age + 1
      BY <1>1, <2>1 DEF Draining, Loose, Front
    <3> QED
      BY <1>1, <3>1
  <2>2. CASE Tapped(t)
    BY <1>1, <2>2 DEF Draining
  <2> QED
    BY <2>1, <2>2
<1>3. s[1].age <= x
  BY <1>1, <1>2
<1>4. ASSUME NEW i \in DOMAIN s PROVE s[i].age <= x
  <2>1. CASE i = 1
    BY <1>3, <2>1
  <2>2. CASE i # 1
    <3>1. 1 < i
      BY <1>1, <2>2
    <3>2. s[i].age + i <= s[1].age + 1 + 1
      BY <1>1, <3>1 DEF Draining, Loose, Spread
    <3> QED
      BY <1>1, <1>3, <3>1, <3>2
  <2> QED
    BY <2>1, <2>2
<1>5. ~Tapped(t2)
  BY DEF Tapped
<1> QED
  BY <1>4, <1>5 DEF Draining, Loose, LeftOver

LEMMA CalmTight ==
  ASSUME NEW s, NEW t, Calm(s, t), s = << >> \/ Undecided(t)
  PROVE  Tight(s, t, 0)
<1>1. TappingTerm \in Nat
  BY LimitFacts
<1>2. s = << >> => UpTo(s, TappingTerm)
  BY DEF UpTo
<1>3. TappingTerm + 0 = TappingTerm
  BY <1>1
<1> QED
  BY <1>2, <1>3 DEF Calm, Tight

\* The tapping key becomes the record looked at: no release in its term waits.
LEMMA StartsInFront ==
  ASSUME Shape, AgeInv, pc = "drain", Cur.pressed, TapReleases(Cur) = {}
  PROVE  NoRelease(Rest, Cur)
<1>1. /\ NoOlder(Rest, Cur.age) /\ Cur.age \in Nat /\ \A i \in DOMAIN Rest : Rest[i].age \in Nat
      /\ ~IsTick(Cur)
  BY AgesAtHand, CurFacts
<1>2. Cur.age < AgeMax
  <2>1. waiting_buffer \in Seq(WaitingRecord) /\ waiting_buffer # << >> /\ Cur = Head(waiting_buffer)
    BY DEF Shape, Cur
  <2>2. 1 \in DOMAIN waiting_buffer /\ Cur = waiting_buffer[1]
    BY <2>1
  <2> QED
    BY <2>2, AgesBounded
<1>3. TappingTerm \in Nat /\ AgeMax \in Nat
  BY LimitFacts
<1> SUFFICES ASSUME NEW i \in DOMAIN Rest, Rest[i].key = Cur.key, ~Rest[i].pressed
             PROVE  Cur.age - Rest[i].age >= TappingTerm
  BY DEF NoRelease
<1>4. ~(TRUE \in Within(Rest[i], Cur, TappingTerm))
  BY DEF TapReleases
<1>5. Cur.age - Rest[i].age \notin 0 .. TappingTerm - 1
  BY <1>1, <1>2, <1>3, <1>4 DEF Within
<1>6. Rest[i].age <= Cur.age
  BY <1>1 DEF NoOlder
<1> QED
  BY <1>1, <1>3, <1>5, <1>6

LEMMA TermOfYoung ==
  ASSUME Shape, AgeInv, Undecided(tapping_key) \/ Tapped(tapping_key)
  PROVE  /\ InTerm => tapping_key.age - Cur.age \in 0 .. TappingTerm - 1
         /\ OutOfTerm => tapping_key.age - Cur.age \notin 0 .. TappingTerm - 1
<1>1. Young(tapping_key)
  BY DEF Young, Undecided, Tapped
<1>2. tapping_key.age # AgeMax
  <2>1. tapping_key.age < AgeMax /\ AgeMax \in Nat
    BY <1>1, AgesBounded, LimitFacts
  <2> QED
    BY <2>1
<1> QED
  BY <1>2 DEF InTerm, OutOfTerm, Within

\* A pass of the drain loop: the first record goes, or the pass ends at it.
Goes ==
  LET w == waiting_buffer
  IN  /\ w' \in Seq(WaitingRecord) /\ Shorter(w', w) /\ Follows(tapping_key', tapping_key, w, w')
      /\ pc' = IF w' = << >> THEN "idle" ELSE "drain"
Stops ==
  /\ waiting_buffer' = waiting_buffer /\ pc' = "idle"
  /\ \/ Undecided(tapping_key) /\ SameKey(tapping_key', tapping_key)
     \/ /\ Undecided(tapping_key) \/ Tapped(tapping_key)
        /\ tapping_key.age - waiting_buffer[1].age \notin 0 .. TappingTerm - 1
        /\ tapping_key' = Nothing

LEMMA InterruptedSame ==
  ASSUME Shape, NEW tk \in {tapping_key, Interrupted}
  PROVE  SameKey(tk, tapping_key)
<1>1. tapping_key \in Records
  BY DEF Shape, TappingRecord
<1>2. SameKey(tapping_key, tapping_key)
  BY DEF SameKey
<1>3. SameKey(Interrupted, tapping_key)
  BY <1>1 DEF Interrupted, SameKey, Records
<1> QED
  BY <1>2, <1>3

LEMMA DrainCur ==
  ASSUME Shape, pc = "drain"
  PROVE  /\ waiting_buffer \in Seq(WaitingRecord) /\ waiting_buffer # << >>
         /\ 1 \in DOMAIN waiting_buffer /\ Cur = waiting_buffer[1] /\ Cur \in WaitingRecord
         /\ ~IsTick(Cur) /\ Rest \in Seq(WaitingRecord) /\ Shorter(Rest, waiting_buffer)
         /\ <<Cur>> \o Tail(waiting_buffer) = waiting_buffer
<1> DEFINE w == waiting_buffer
<1>1. w \in Seq(WaitingRecord) /\ w # << >> /\ Cur = Head(w) /\ Rest = Tail(w)
  BY DEF Shape, Cur, Rest
<1>2. /\ 1 \in DOMAIN w /\ Cur = w[1] /\ Cur \in WaitingRecord /\ Tail(w) \in Seq(WaitingRecord)
      /\ Len(Tail(w)) = Len(w) - 1
      /\ \A i \in DOMAIN Tail(w) : i + 1 \in DOMAIN w /\ Tail(w)[i] = w[i + 1]
  BY <1>1
<1>3. ~IsTick(Cur)
  BY CurFacts
<1>4. <<Cur>> \o Tail(w) = w
  BY <1>1
<1> QED
  BY <1>1, <1>2, <1>3, <1>4 DEF Shorter

LEMMA ConsumedGoes ==
  ASSUME Shape, pc = "drain", NEW tk, NEW reg, NEW upto, NEW ws \in Seq(WaitingRecord),
         DOMAIN ws = DOMAIN Rest, Consumed(tk, reg, upto, ws),
         \A i \in DOMAIN Rest : /\ ws[i].age = Rest[i].age /\ ws[i].key = Rest[i].key
                                /\ ws[i].pressed = Rest[i].pressed,
         Follows(tk, tapping_key, waiting_buffer, ws)
  PROVE  Goes
<1>1. tapping_key' = tk /\ waiting_buffer' = ws /\ pc' = (IF ws = << >> THEN "idle" ELSE "drain")
  BY DEF Consumed
<1>2. Len(ws) = Len(Rest)
  BY DrainCur, SameLen
<1>3. Shorter(ws, waiting_buffer)
  BY <1>2, DrainCur DEF Shorter
<1> QED
  BY <1>1, <1>3 DEF Goes

LEMMA DrainStep ==
  ASSUME Shape, AgeInv, pc = "drain", Branch, EarlyHold = {},
         ~RestartsUnscanned(tapping_key, Cur),
         Undecided(tapping_key) => NoRelease(waiting_buffer, tapping_key)
  PROVE  Goes \/ Stops
<1> DEFINE t == tapping_key
           w == waiting_buffer
<1>1. /\ w \in Seq(WaitingRecord) /\ w # << >> /\ 1 \in DOMAIN w /\ Cur = w[1]
      /\ Cur \in WaitingRecord /\ ~IsTick(Cur) /\ Rest \in Seq(WaitingRecord)
      /\ <<Cur>> \o Tail(w) = w
  BY DrainCur
<1>2. /\ t \in Records /\ Cur \in Records /\ Cur.age \in Nat /\ t.age \in Nat
      /\ t.count \in 0 .. 15 /\ (Cur.pressed => Cur.count = 0)
  <2>1. t \in Records /\ Cur \in Records /\ (Cur.pressed => Cur.count = 0)
    BY <1>1 DEF Shape, TappingRecord, WaitingRecord
  <2> QED
    BY <2>1, ConstantFacts DEF Records
<1>3. ~Undecided(Nothing) /\ ~Tapped(Nothing)
  BY NothingAge DEF Undecided, Tapped
<1>4. ASSUME NEW tk, NEW reg, Held(tk, reg, last, Cur) \/ Held(tk, reg, t.no, Cur)
      PROVE  w' = w /\ pc' = "idle" /\ tapping_key' = tk
  BY <1>1, <1>4 DEF Held
<1>5. CASE Passes
  <2>1. PICK tk \in {t, Interrupted} : PassOn(tk, Cur)
    BY <1>5 DEF Passes
  <2>2. Consumed(tk, process_record(registered, Cur), Passed(Cur), Rest)
    BY <2>1 DEF PassOn
  <2>3. Follows(tk, t, w, Rest)
    BY InterruptedSame DEF Follows
  <2> QED
    BY <1>1, <2>2, <2>3, ConsumedGoes
<1>6. CASE Starts
  <2> DEFINE R == Unregistered(registered, t)
             tk == [Cur EXCEPT !.count = 1]
  <2>1. StartTapping(R, Cur) /\ Cur.pressed
    BY <1>6 DEF Starts
  <2> HIDE DEF R
  <2>2. CASE TapReleases(Cur) = {} /\ Consumed(Cur, R, last, Rest)
    <3>1. Follows(Cur, t, w, Rest)
      BY <1>1, <2>1, <2>2, StartsInFront DEF Follows
    <3> QED
      BY <1>1, <2>2, <3>1, ConsumedGoes
  <2>3. CASE \E i \in TapReleases(Cur), ws \in Seq(WaitingRecord) :
               /\ \A j \in TapReleases(Cur) : i <= j
               /\ Consumed(tk, process_record(R, tk), Cur.no, ws)
               /\ DOMAIN ws = DOMAIN Rest /\ ws[i] = [Rest[i] EXCEPT !.count = 1]
               /\ \A j \in DOMAIN Rest : j # i => ws[j] = Rest[j]
    <3>1. PICK i \in TapReleases(Cur), ws \in Seq(WaitingRecord) :
               /\ Consumed(tk, process_record(R, tk), Cur.no, ws)
               /\ DOMAIN ws = DOMAIN Rest /\ ws[i] = [Rest[i] EXCEPT !.count = 1]
               /\ \A j \in DOMAIN Rest : j # i => ws[j] = Rest[j]
      BY <2>3
    <3>2. i \in DOMAIN Rest /\ Rest[i] \in WaitingRecord
      BY <1>1, <3>1 DEF TapReleases
    <3>3. ws[i].age = Rest[i].age /\ ws[i].key = Rest[i].key /\ ws[i].pressed = Rest[i].pressed
      BY <3>1, <3>2 DEF WaitingRecord, Records
    <3>4. \A j \in DOMAIN Rest : /\ ws[j].age = Rest[j].age /\ ws[j].key = Rest[j].key
                                 /\ ws[j].pressed = Rest[j].pressed
      BY <3>1, <3>3
    <3>5. tk.count = 1 /\ tk.pressed
      BY <1>2, <2>1 DEF Records
    <3> HIDE DEF tk
    <3>6. Follows(tk, t, w, ws)
      BY <3>5 DEF Follows, Undecided, Tapped
    <3> QED
      BY <3>1, <3>4, <3>6, ConsumedGoes
  <2>4. \/ TapReleases(Cur) = {} /\ Consumed(Cur, R, last, Rest)
        \/ \E i \in TapReleases(Cur), ws \in Seq(WaitingRecord) :
               /\ \A j \in TapReleases(Cur) : i <= j
               /\ Consumed(tk, process_record(R, tk), Cur.no, ws)
               /\ DOMAIN ws = DOMAIN Rest /\ ws[i] = [Rest[i] EXCEPT !.count = 1]
               /\ \A j \in DOMAIN Rest : j # i => ws[j] = Rest[j]
    BY <2>1, StartCases, Zenon
  <2> QED
    BY <2>2, <2>3, <2>4
<1>7. CASE Restarts
  <2> DEFINE n == IF t.count < 15 THEN t.count + 1 ELSE t.count
             tk == [Cur EXCEPT !.count = n]
  <2>1. /\ t.key # NoKey /\ ~t.pressed /\ Cur.pressed /\ Cur.key = t.key
        /\ \/ t.count > 0 /\ Consumed(tk, process_record(registered, tk), Cur.no, Rest)
           \/ Consumed(Cur, registered, last, Rest)
    BY <1>7 DEF Restarts, Again
  <2>2. CASE t.count > 0 /\ Consumed(tk, process_record(registered, tk), Cur.no, Rest)
    <3>1. n # 0 /\ n \in Nat
      BY <1>2, <2>2
    <3> HIDE DEF n
    <3>2. tk.count = n /\ tk.pressed
      BY <1>2, <2>1 DEF Records
    <3> HIDE DEF tk
    <3>3. Follows(tk, t, w, Rest)
      BY <3>1, <3>2 DEF Follows, Undecided, Tapped
    <3> QED
      BY <1>1, <2>2, <3>3, ConsumedGoes
  <2>3. CASE Consumed(Cur, registered, last, Rest)
    <3>1. TapReleases(Cur) = {}
      BY <2>1, <2>3 DEF RestartsUnscanned, Consumed
    <3>2. Follows(Cur, t, w, Rest)
      BY <1>1, <2>1, <3>1, StartsInFront DEF Follows
    <3> QED
      BY <1>1, <2>3, <3>2, ConsumedGoes
  <2> QED
    BY <2>1, <2>2, <2>3
<1>8. ASSUME Taps PROVE FALSE
  <2>1. Undecided(t) /\ InTerm /\ Cur.key = t.key /\ ~Cur.pressed
    BY <1>8 DEF Taps, FirstTap
  <2>2. t.age - Cur.age >= TappingTerm
    BY <1>1, <2>1 DEF NoRelease
  <2>3. t.age - Cur.age \in 0 .. TappingTerm - 1 /\ TappingTerm \in Nat
    BY <2>1, TermOfYoung, LimitFacts
  <2> QED
    BY <1>2, <2>2, <2>3
<1>9. CASE Holds
  <2>1. Undecided(t) /\ OutOfTerm
    BY <1>9 DEF Holds
  <2>2. t.age - w[1].age \notin 0 .. TappingTerm - 1
    BY <1>1, <2>1, TermOfYoung
  <2>3. Held(Nothing, registered \cup {<<t.key, "hold">>}, t.no, Cur)
    BY <1>9 DEF Holds
  <2> QED
    BY <1>4, <2>1, <2>2, <2>3 DEF Stops
<1>10. CASE KeepsWaiting
  <2>1. PICK tk \in {t, Interrupted} : Held(tk, registered, last, Cur)
    BY <1>10 DEF KeepsWaiting
  <2>2. Undecided(t) /\ SameKey(tk, t)
    BY <1>10, InterruptedSame DEF KeepsWaiting
  <2> QED
    BY <1>4, <2>1, <2>2 DEF Stops
<1>11. CASE Releases
  <2>1. PICK after : SettledRelease(t, Cur, after)
    BY <1>11 DEF Releases
  <2> DEFINE r == [Cur EXCEPT !.count = t.count, !.interrupted = t.interrupted]
             tk == IF after = "keep" THEN r ELSE Nothing
  <2>2. Consumed(tk, process_record(registered, r), last, Rest) /\ ~Cur.pressed
    BY <1>11, <2>1 DEF SettledRelease, Releases, OwnRelease
  <2>3. r.age = Cur.age /\ ~r.pressed
    BY <1>2, <2>2 DEF Records
  <2> HIDE DEF r
  <2>4. Follows(tk, t, w, Rest)
    BY <1>1, <1>3, <2>3 DEF Follows, Undecided
  <2> HIDE DEF tk
  <2> QED
    BY <1>1, <2>2, <2>4, ConsumedGoes
<1>12. CASE Expires
  <2>1. Tapped(t) /\ OutOfTerm /\ Held(Nothing, registered, last, Cur)
    BY <1>12 DEF Expires, Tapped
  <2>2. t.age - w[1].age \notin 0 .. TappingTerm - 1
    BY <1>1, <2>1, TermOfYoung
  <2> QED
    BY <1>4, <2>1, <2>2 DEF Stops
<1>13. ~TickPasses
  BY <1>1 DEF TickPasses
<1> QED
  BY <1>5, <1>6, <1>7, <1>8, <1>9, <1>10, <1>11, <1>12, <1>13 DEF Branch

\* What a pass leaves after an event and after a tick.
AfterEvent(x) ==
  /\ Draining(waiting_buffer', tapping_key', x)
  /\ pc' = "drain" \/ (pc' = "idle" /\ LeftOver(waiting_buffer', tapping_key', x))
AfterTick ==
  /\ Calm(waiting_buffer', tapping_key')
  /\ pc' = "drain" \/ (pc' = "idle" /\ (waiting_buffer' = << >> \/ Undecided(tapping_key')))

LEMMA DrainAfterTick ==
  ASSUME Shape, AgeInv, pc = "drain", Branch, EarlyHold = {},
         ~RestartsUnscanned(tapping_key, Cur), Calm(waiting_buffer, tapping_key)
  PROVE  AfterTick
<1> DEFINE t == tapping_key
           w == waiting_buffer
<1>1. w \in Seq(WaitingRecord) /\ w # << >> /\ t.age \in Nat
  BY DrainCur, RecordAges
<1>2. Undecided(t) => NoRelease(w, t)
  BY DEF Calm
<1>3. CASE Goes
  <2>1. /\ w' \in Seq(WaitingRecord) /\ Shorter(w', w) /\ Follows(tapping_key', t, w, w')
        /\ pc' = IF w' = << >> THEN "idle" ELSE "drain"
    BY <1>3 DEF Goes
  <2>2. Calm(w', tapping_key')
    BY <1>1, <2>1, CalmTail
  <2> QED
    BY <2>1, <2>2 DEF AfterTick
<1>4. CASE Stops
  <2>1. ~(t.age - w[1].age \notin 0 .. TappingTerm - 1) \/ ~(Undecided(t) \/ Tapped(t))
    BY <1>1, CalmInTerm
  <2>2. w' = w /\ pc' = "idle" /\ Undecided(t) /\ SameKey(tapping_key', t)
    BY <1>4, <2>1 DEF Stops
  <2>3. Calm(w, tapping_key') /\ Undecided(tapping_key')
    BY <2>2, CalmSame, SameKeyFacts
  <2> QED
    BY <2>2, <2>3 DEF AfterTick
<1> QED
  BY <1>2, <1>3, <1>4, DrainStep

LEMMA DrainAfterEvent ==
  ASSUME Shape, AgeInv, pc = "drain", Branch, EarlyHold = {}, NEW x \in 0 .. 1,
         ~RestartsUnscanned(tapping_key, Cur), Draining(waiting_buffer, tapping_key, x)
  PROVE  AfterEvent(x)
<1> DEFINE t == tapping_key
           w == waiting_buffer
<1>1. w \in Seq(WaitingRecord) /\ w # << >> /\ t.age \in Nat
  BY DrainCur, RecordAges
<1>2. Undecided(t) => NoRelease(w, t)
  BY DEF Draining, Loose
<1>3. CASE Goes
  <2>1. /\ w' \in Seq(WaitingRecord) /\ Shorter(w', w) /\ Follows(tapping_key', t, w, w')
        /\ pc' = IF w' = << >> THEN "idle" ELSE "drain"
    BY <1>3 DEF Goes
  <2>2. Draining(w', tapping_key', x)
    BY <1>1, <2>1, DrainingTail
  <2>3. w' = << >> => LeftOver(w', tapping_key', x)
    BY DEF LeftOver
  <2> QED
    BY <2>1, <2>2, <2>3 DEF AfterEvent
<1>4. CASE w' = w /\ pc' = "idle" /\ Undecided(t) /\ SameKey(tapping_key', t)
  <2>1. Draining(w, tapping_key', x) /\ Undecided(tapping_key')
    BY <1>4, DrainingSame, SameKeyFacts
  <2> QED
    BY <1>4, <2>1 DEF AfterEvent, LeftOver
<1>5. CASE /\ w' = w /\ pc' = "idle" /\ (Undecided(t) \/ Tapped(t))
           /\ t.age - w[1].age \notin 0 .. TappingTerm - 1 /\ tapping_key' = Nothing
  <2>1. Nothing.key = NoKey /\ ~Undecided(Nothing)
    BY NothingAge DEF Undecided
  <2>2. Draining(w, Nothing, x) /\ LeftOver(w, Nothing, x)
    BY <1>1, <1>5, <2>1, DrainingSettles
  <2> QED
    BY <1>5, <2>2 DEF AfterEvent
<1> QED
  BY <1>2, <1>3, <1>4, <1>5, DrainStep DEF Stops

\* A new record that is held is enqueued, unless the buffer is full.
LEMMA HeldNew ==
  ASSUME Shape, pc = "new", NEW tk, NEW reg, NEW upto, NEW e, ~IsTick(e), Held(tk, reg, upto, e)
  PROVE  \/ waiting_buffer' = << >> /\ pc' = "idle" /\ tapping_key' = Nothing
         \/ /\ waiting_buffer' = Append(waiting_buffer, e) /\ pc' = "drain"
            /\ tapping_key' = tk
<1>1. waiting_buffer \in Seq(WaitingRecord)
  BY DEF Shape
<1>2. waiting_buffer \o <<e>> = Append(waiting_buffer, e) /\ Append(waiting_buffer, e) # << >>
  BY <1>1
<1> QED
  BY <1>2 DEF Held

LEMMA EventPass ==
  ASSUME Shape, AgeInv, pc = "new", ~IsTick(Cur), Branch, EarlyHold = {}, NEW x \in 0 .. 1,
         Tight(waiting_buffer, tapping_key, x)
  PROVE  AfterEvent(x)
<1> DEFINE t == tapping_key
           w == waiting_buffer
<1>1. /\ w \in Seq(WaitingRecord) /\ t.age \in Nat /\ t \in Records /\ Rest = w
      /\ Cur \in WaitingRecord /\ Cur \in Records /\ Cur.age = 0
      /\ (w # << >> => Undecided(t))
  <2>1. Cur \in WaitingRecord /\ Cur \in Records
    BY CurFacts DEF WaitingRecord
  <2>2. Cur = arrived /\ Rest = w /\ Cur.age = 0
    BY DEF Cur, Rest, AgeInv
  <2>3. w # << >> => Undecided(t)
    BY DEF Tight
  <2> QED
    BY <2>1, <2>2, <2>3, RecordAges DEF Shape, TappingRecord
<1>2. /\ ~Undecided(Nothing) /\ ~Tapped(Nothing) /\ TappingTerm \in Nat
      /\ \A tk : LeftOver(<< >>, tk, x)
  BY NothingAge, LimitFacts DEF Undecided, Tapped, LeftOver
<1>3. ASSUME w' = << >>, pc' = "idle",
             Undecided(tapping_key') => tapping_key'.age = 0
      PROVE  AfterEvent(x)
  <2>1. Undecided(tapping_key') => tapping_key'.age \in Nat /\ tapping_key'.age <= TappingTerm
    BY <1>2, <1>3
  <2>2. Draining(<< >>, tapping_key', x)
    BY <2>1, NothingWaits
  <2> QED
    BY <1>2, <1>3, <2>2 DEF AfterEvent
<1>4. ASSUME NEW e \in WaitingRecord, e.age = 0, NEW tk, NEW reg, NEW upto,
             Held(tk, reg, upto, e),
             \/ ~Undecided(tk) /\ ~Tapped(tk)
             \/ /\ SameKey(tk, t) /\ Undecided(t) /\ t.age < TappingTerm
                /\ ~(e.key = t.key /\ ~e.pressed)
      PROVE  AfterEvent(x)
  <2>1. ~IsTick(e)
    BY <1>4 DEF WaitingRecord, IsTick
  <2>2. CASE w' = << >> /\ pc' = "idle" /\ tapping_key' = Nothing
    BY <1>2, <1>3, <2>2
  <2>3. CASE w' = Append(w, e) /\ pc' = "drain" /\ tapping_key' = tk
    <3>1. Draining(Append(w, e), tk, x)
      BY <1>1, <1>4, EventJoins
    <3> QED
      BY <2>3, <3>1 DEF AfterEvent
  <2> QED
    BY <1>4, <2>1, <2>2, <2>3, HeldNew
<1>5. CASE Passes
  <2>1. PICK tk \in {t, Interrupted} : PassOn(tk, Cur)
    BY <1>5 DEF Passes
  <2>2. /\ tapping_key' = tk /\ w' = w /\ pc' = (IF w = << >> THEN "idle" ELSE "drain")
    BY <1>1, <2>1 DEF PassOn, Consumed
  <2>3. Draining(w, t, x)
    BY <1>1, TightLoose
  <2>4. Draining(w, tk, x)
    BY <2>3, InterruptedSame, DrainingSame
  <2> QED
    BY <1>2, <2>2, <2>4 DEF AfterEvent
<1>6. CASE Starts
  <2>1. w = << >> /\ StartTapping(Unregistered(registered, t), Cur)
    BY <1>1, <1>6 DEF Starts
  <2>2. TapReleases(Cur) = {}
    BY <1>1, <2>1 DEF TapReleases
  <2>3. Consumed(Cur, Unregistered(registered, t), last, << >>)
    BY <1>1, <2>1, <2>2 DEF StartTapping
  <2>4. w' = << >> /\ pc' = "idle" /\ tapping_key' = Cur
    BY <2>3 DEF Consumed
  <2> QED
    BY <1>1, <1>3, <2>4
<1>7. CASE Restarts
  <2> DEFINE n == IF t.count < 15 THEN t.count + 1 ELSE t.count
             tk == [Cur EXCEPT !.count = n]
  <2>1. w = << >> /\ Rest = << >>
    BY <1>1, <1>7 DEF Restarts, Undecided
  <2>2. /\ w' = << >> /\ pc' = "idle"
        /\ tapping_key' = tk \/ tapping_key' = Cur
    BY <1>7, <2>1 DEF Restarts, Again, Consumed
  <2>3. tk.age = 0
    BY <1>1 DEF Records
  <2> HIDE DEF tk
  <2> QED
    BY <1>1, <1>3, <2>2, <2>3
<1>8. CASE Taps
  <2> DEFINE tk == [t EXCEPT !.count = 1]
             e == [Cur EXCEPT !.count = 1, !.interrupted = t.interrupted]
  <2>1. Undecided(t) /\ ~Cur.pressed /\ Held(tk, process_record(registered, tk), t.no, e)
    BY <1>8 DEF Taps, FirstTap
  <2>2. tk.pressed /\ tk.count = 1
    BY <1>1, <2>1 DEF Records, Undecided
  <2>3. e \in WaitingRecord /\ e.age = 0
    <3>1. t.interrupted \in BOOLEAN /\ 1 \in 0 .. 15
      BY <1>1 DEF Records
    <3>2. e \in Records /\ e.age = 0 /\ e.key = Cur.key /\ e.pressed = Cur.pressed
      BY <1>1, <3>1 DEF Records
    <3> HIDE DEF e
    <3> QED
      BY <1>1, <2>1, <3>2 DEF WaitingRecord
  <2> HIDE DEF tk, e
  <2>4. ~Undecided(tk) /\ ~Tapped(tk)
    BY <2>2 DEF Undecided, Tapped
  <2> QED
    BY <1>4, <2>1, <2>3, <2>4
<1>9. CASE Holds
  BY <1>1, <1>2, <1>4, <1>9 DEF Holds
<1>10. CASE KeepsWaiting
  <2>1. PICK tk \in {t, Interrupted} : Held(tk, registered, last, Cur)
    BY <1>10 DEF KeepsWaiting
  <2>2. Undecided(t) /\ InTerm /\ ~(Cur.key = t.key /\ ~Cur.pressed) /\ SameKey(tk, t)
    BY <1>10, InterruptedSame DEF KeepsWaiting, OwnRelease
  <2>3. t.age - 0 \in 0 .. TappingTerm - 1
    BY <1>1, <2>2, TermOfYoung
  <2>4. t.age < TappingTerm
    BY <1>1, <1>2, <2>3
  <2> QED
    BY <1>1, <1>4, <2>1, <2>2, <2>4
<1>11. CASE Releases
  <2>1. PICK after : SettledRelease(t, Cur, after)
    BY <1>11 DEF Releases
  <2> DEFINE r == [Cur EXCEPT !.count = t.count, !.interrupted = t.interrupted]
             tk == IF after = "keep" THEN r ELSE Nothing
  <2>2. Consumed(tk, process_record(registered, r), last, Rest) /\ ~Cur.pressed
    BY <1>11, <2>1 DEF SettledRelease, Releases, OwnRelease
  <2>3. ~r.pressed
    BY <1>1, <2>2 DEF Records
  <2> HIDE DEF r
  <2>4. ~Undecided(tk)
    BY <1>2, <2>3 DEF Undecided
  <2> HIDE DEF tk
  <2>5. w = << >>
    BY <1>1, <1>11 DEF Releases, Young, Undecided
  <2>6. w' = << >> /\ pc' = "idle" /\ tapping_key' = tk
    BY <1>1, <2>2, <2>5 DEF Consumed
  <2> QED
    BY <1>3, <2>4, <2>6
<1>12. CASE Expires
  BY <1>1, <1>2, <1>4, <1>12 DEF Expires
<1>13. ~TickPasses
  BY DEF TickPasses
<1> QED
  BY <1>5, <1>6, <1>7, <1>8, <1>9, <1>10, <1>11, <1>12, <1>13 DEF Branch

LEMMA TickPass ==
  ASSUME Shape, AgeInv, TickComes, Branch, EarlyHold = {},
         Loose(waiting_buffer, tapping_key, 1), LeftOver(waiting_buffer, tapping_key, 1)
  PROVE  AfterTick
<1> DEFINE t == tapping_key
           w == waiting_buffer
<1>1. /\ w \in Seq(WaitingRecord) /\ t.age \in Nat /\ t \in Records /\ Rest = w /\ pc = "new"
      /\ Cur = arrived /\ IsTick(Cur) /\ Cur.age = 0 /\ ~Cur.pressed
  <2>1. Cur = arrived /\ Rest = w /\ IsTick(Cur) /\ pc = "new"
    BY DEF Cur, Rest, TickComes
  <2> QED
    BY <2>1, RecordAges, CurFacts DEF Shape, TappingRecord, AgeInv
<1>2. /\ ~Undecided(Nothing) /\ ~Tapped(Nothing) /\ TappingTerm \in Nat
  BY NothingAge, LimitFacts DEF Undecided, Tapped
<1>3. CASE TickPasses
  <2>1. tapping_key' = t /\ w' = w /\ pc' = IF w = << >> THEN "idle" ELSE "drain"
    BY <1>1, <1>3 DEF TickPasses, Consumed
  <2>2. ASSUME Undecided(t) PROVE t.age < TappingTerm
    <3>1. InTerm
      BY <1>3, <2>2 DEF TickPasses, Undecided, Young, Shape, TappingRecord
    <3>2. t.age - 0 \in 0 .. TappingTerm - 1
      BY <1>1, <2>2, <3>1, TermOfYoung
    <3> QED
      BY <1>1, <1>2, <3>2
  <2>3. Calm(w, t)
    BY <1>1, <2>2, TickStays
  <2> QED
    BY <2>1, <2>3 DEF AfterTick
<1>4. ASSUME NEW reg, NEW upto, Held(Nothing, reg, upto, Cur)
      PROVE  w' = w /\ tapping_key' = Nothing /\ pc' = IF w = << >> THEN "idle" ELSE "drain"
  <2>1. w' = w /\ tapping_key' = Nothing
    BY <1>1, <1>4, HeldTick
  <2> QED
    BY <1>1, <1>4, <2>1 DEF Held
<1>5. CASE Holds
  <2>1. Undecided(t) /\ OutOfTerm
    BY <1>5 DEF Holds
  <2>2. w' = w /\ tapping_key' = Nothing /\ pc' = IF w = << >> THEN "idle" ELSE "drain"
    BY <1>4, <1>5 DEF Holds
  <2>3. t.age - 0 \notin 0 .. TappingTerm - 1
    BY <1>1, <2>1, TermOfYoung
  <2>4. TappingTerm <= t.age
    BY <1>1, <1>2, <2>3
  <2>5. Calm(w, Nothing)
    BY <1>1, <1>2, <2>1, <2>4, TickSettles
  <2> QED
    BY <2>2, <2>5 DEF AfterTick
<1>6. CASE Expires
  <2>1. t.key # NoKey /\ ~Undecided(t)
    BY <1>6 DEF Expires, Undecided
  <2>2. w = << >>
    BY <2>1 DEF LeftOver
  <2>3. w' = << >> /\ tapping_key' = Nothing /\ pc' = "idle"
    BY <1>4, <1>6, <2>2 DEF Expires
  <2>4. 0 \in 0 .. 1
    OBVIOUS
  <2>5. Calm(<< >>, Nothing)
    BY <1>2, <2>4, NothingWaits
  <2> QED
    BY <2>3, <2>5 DEF AfterTick
<1>7. ~Passes /\ ~Starts /\ ~Restarts /\ ~Taps /\ ~KeepsWaiting /\ ~Releases
  BY <1>1 DEF Passes, Starts, Restarts, Taps, KeepsWaiting, Releases
<1> QED
  BY <1>3, <1>5, <1>6, <1>7 DEF Branch

\* A millisecond passes.
LEMMA MomentPasses ==
  ASSUME NEW s \in Seq(WaitingRecord), NEW u \in Seq(WaitingRecord), DOMAIN u = DOMAIN s,
         \A i \in DOMAIN s : /\ u[i].age = s[i].age + 1 /\ u[i].key = s[i].key
                             /\ u[i].pressed = s[i].pressed,
         NEW t, NEW t2, t.age \in Nat, Undecided(t2) <=> Undecided(t), t2.key = t.key,
         Undecided(t) => t2.age = t.age + 1
  PROVE  /\ Tight(s, t, 0) => Tight(u, t2, 1)
         /\ Loose(s, t, 0) => Loose(u, t2, 1)
         /\ LeftOver(s, t, 0) => LeftOver(u, t2, 1)
<1> DEFINE T == TappingTerm
<1>1. /\ T \in Nat /\ Len(s) \in Nat /\ Len(u) = Len(s) /\ DOMAIN s = 1 .. Len(s)
      /\ \A i \in DOMAIN s : s[i].age \in Nat /\ i \in Nat
      /\ (u = << >> <=> s = << >>)
  BY SeqAges, LimitFacts, SameLen
<1>2. ASSUME Spread(s) PROVE Spread(u)
  <2> SUFFICES ASSUME NEW i \in DOMAIN s, NEW j \in DOMAIN s, i < j
               PROVE  u[j].age + j <= u[i].age + i + 1
    BY DEF Spread
  <2>1. s[j].age + j <= s[i].age + i + 1
    BY <1>2 DEF Spread
  <2>2. u[j].age = s[j].age + 1 /\ u[i].age = s[i].age + 1
    OBVIOUS
  <2>3. s[i].age \in Nat /\ s[j].age \in Nat /\ i \in Nat /\ j \in Nat
    BY <1>1
  <2>4. \A a, b, c, d \in Nat : a + c <= b + d + 1 => (a + 1) + c <= (b + 1) + d + 1
    OBVIOUS
  <2> QED
    BY <2>1, <2>2, <2>3, <2>4
<1>3. (Aged(s, 0) => Aged(u, 1)) /\ (Aged(s, 0 - 1) => Aged(u, 1 - 1))
  BY <1>1 DEF Aged
<1>4. /\ UpTo(s, T + 0) => UpTo(u, T + 1)
      /\ UpTo(s, T + 0 - 1) => UpTo(u, T + 1 - 1)
  <2> HIDE DEF T
  <2>1. \A i \in DOMAIN s : /\ s[i].age + i <= T + 0 => s[i].age + 1 + i <= T + 1
                            /\ s[i].age + i <= T + 0 - 1 => s[i].age + 1 + i <= T + 1 - 1
    BY <1>1
  <2> QED
    BY <2>1 DEF UpTo
<1>5. ASSUME Undecided(t)
      PROVE  /\ Front(s, t, 0, 0) => Front(u, t2, 1, 1)
             /\ Front(s, t, 0 - 1, 0) => Front(u, t2, 1 - 1, 1)
             /\ NoRelease(s, t) => NoRelease(u, t2)
             /\ Early(s, t, 0) => Early(u, t2, 1)
  <2>1. t2.age = t.age + 1 /\ t2.age \in Nat
    BY <1>5
  <2>2. (\A i \in DOMAIN s : s[i].age + i <= t.age + 1)
          => \A i \in DOMAIN u : u[i].age + i <= t2.age + 1
    <3>1. \A i \in DOMAIN s : s[i].age + i <= t.age + 1 => s[i].age + 1 + i <= t2.age + 1
      BY <1>1, <2>1
    <3> QED
      BY <3>1
  <2>3. /\ Len(s) + 0 <= t.age => Len(u) + 1 <= t2.age
        /\ Len(s) + (0 - 1) <= t.age => Len(u) + (1 - 1) <= t2.age
        /\ t.age <= T + 0 => t2.age <= T + 1
        /\ t.age <= T + 0 - 1 => t2.age <= T + 1 - 1
    <3> HIDE DEF T
    <3> QED
      BY <1>1, <2>1
  <2>4. \A i \in DOMAIN s : t2.age - u[i].age = t.age - s[i].age
    <3>1. \A a, b \in Nat : (a + 1) - (b + 1) = a - b
      OBVIOUS
    <3>2. \A i \in DOMAIN s : u[i].age = s[i].age + 1 /\ s[i].age \in Nat
      BY <1>1
    <3> QED
      BY <2>1, <3>1, <3>2
  <2>5. NoRelease(s, t) => NoRelease(u, t2)
    BY <2>4 DEF NoRelease
  <2>6. ASSUME Early(s, t, 0) PROVE Early(u, t2, 1)
    <3>1. CASE s # << >> /\ t.age - s[Len(s)].age < T
      <4>1. Len(s) \in DOMAIN s
        BY <1>1, <3>1
      <4>2. t2.age - u[Len(u)].age < T
        BY <1>1, <2>4, <3>1, <4>1
      <4> QED
        BY <4>2 DEF Early
    <3> QED
      BY <1>1, <1>3, <1>4, <2>3, <2>6, <3>1 DEF Early
  <2> QED
    BY <2>2, <2>3, <2>5, <2>6 DEF Front
<1>6. Tight(s, t, 0) => Tight(u, t2, 1)
  BY <1>1, <1>2, <1>3, <1>4, <1>5 DEF Tight
<1>7. Loose(s, t, 0) => Loose(u, t2, 1)
  BY <1>1, <1>2, <1>3, <1>4, <1>5 DEF Loose
<1>8. LeftOver(s, t, 0) => LeftOver(u, t2, 1)
  <2>1. ASSUME NEW i \in DOMAIN s, s[i].age <= 0 PROVE u[i].age <= 1
    BY <1>1, <2>1
  <2> QED
    BY <1>1, <2>1 DEF LeftOver
<1> QED
  BY <1>6, <1>7, <1>8

LEMMA ClockOnTime ==
  ASSUME TypeInv, OnTime, Clock, build.Stall = 1
  PROVE  OnTime'
<1> DEFINE w == waiting_buffer
           t == tapping_key
<1>1. Shape /\ AgeInv
  BY DEF TypeInv, TapInv
<1>2. /\ pc = "idle" /\ pc' = "idle" /\ tick_age < 1 /\ tick_age' = tick_age + 1
      /\ changed' = changed /\ tapping_key' = Older(t) /\ w' = [i \in DOMAIN w |-> Older(w[i])]
  BY DEF Clock
<1>3. tick_age = 0 /\ tick_age' = 1
  <2>1. tick_age \in Nat
    BY <1>1, LimitFacts DEF AgeInv
  <2> QED
    BY <1>2, <2>1
<1>4. /\ t \in Records /\ t.age \in Nat /\ (t.pressed => ~IsTick(t)) /\ w \in Seq(WaitingRecord)
      /\ w' \in Seq(WaitingRecord)
  <2>1. Shape'
    BY TypeStep DEF TypeInv, TapInv, Next
  <2> QED
    BY <1>1, <2>1, RecordAges DEF Shape, TappingRecord, IsTick
<1>5. \A i \in DOMAIN w : w[i] \in Records /\ ~IsTick(w[i])
  <2>1. \A i \in DOMAIN w : w[i] \in WaitingRecord
    BY <1>4
  <2> QED
    BY <2>1 DEF WaitingRecord, IsTick
<1>6. DOMAIN w' = DOMAIN w /\ \A i \in DOMAIN w : w'[i] = Older(w[i])
  BY <1>2
<1>7. \A i \in DOMAIN w : /\ Older(w[i]).age = w[i].age + 1 /\ Older(w[i]).key = w[i].key
                          /\ Older(w[i]).pressed = w[i].pressed
  BY <1>1, <1>5, OlderAge, OlderFacts, AgesBounded
<1>8. /\ Older(t).key = t.key /\ Older(t).pressed = t.pressed /\ Older(t).count = t.count
  BY <1>4, OlderFacts
<1>9. Undecided(Older(t)) <=> Undecided(t)
  BY <1>8 DEF Undecided
<1>10. Undecided(t) => Older(t).age = t.age + 1
  BY <1>1, <1>4, OlderAge, AgesBounded DEF Undecided, Young
<1>11. /\ Tight(w, t, 0) => Tight(w', Older(t), 1)
       /\ Loose(w, t, 0) => Loose(w', Older(t), 1)
       /\ LeftOver(w, t, 0) => LeftOver(w', Older(t), 1)
  BY <1>4, <1>6, <1>7, <1>8, <1>9, <1>10, MomentPasses
<1>12. ~TickComes' /\ 1 <= 1
  BY <1>2 DEF TickComes
<1>13. /\ changed = {} => Tight(w, t, 0)
       /\ changed # {} => Loose(w, t, 0) /\ LeftOver(w, t, 0)
  BY <1>2, <1>3 DEF OnTime
<1> QED
  BY <1>2, <1>3, <1>11, <1>12, <1>13 DEF OnTime

\* A tick comes while nothing has changed, or a key has changed, since the last one.
LEMMA TickOnTime ==
  ASSUME TypeInv, OnTime, Tick
  PROVE  OnTime'
<1> DEFINE w == waiting_buffer
           t == tapping_key
<1>1. Shape /\ AgeInv
  BY DEF TypeInv, TapInv
<1>2. /\ pc = "idle" /\ pc' = "new" /\ tick_age > 0 /\ tick_age' = 0 /\ changed' = {}
      /\ arrived' = Nothing /\ tapping_key' = t /\ w' = w
  BY DEF Tick
<1>3. tick_age = 1
  <2>1. tick_age \in Nat /\ tick_age <= 1
    BY <1>1, LimitFacts DEF AgeInv, OnTime
  <2> QED
    BY <1>2, <2>1
<1>4. Loose(w, t, 1) /\ LeftOver(w, t, 1)
  <2>1. CASE changed = {}
    <3>1. Tight(w, t, 1) /\ w \in Seq(WaitingRecord) /\ t.age \in Nat
      BY <1>1, <1>2, <1>3, <2>1, RecordAges DEF OnTime
    <3>2. 1 \in 0 .. 1
      OBVIOUS
    <3> QED
      BY <3>1, <3>2, TightLoose DEF Draining
  <2>2. CASE changed # {}
    BY <1>2, <1>3, <2>2 DEF OnTime
  <2> QED
    BY <2>1, <2>2
<1>5. TickComes' /\ 0 <= 1
  BY <1>2, NothingAge DEF TickComes, IsTick
<1> QED
  BY <1>2, <1>4, <1>5 DEF OnTime

\* A key changes: nothing has since the last tick, so an undecided key or nothing
\* waits.
LEMMA EventOnTime ==
  ASSUME OnTime, ~overtaken, NEW e \in WaitingRecord, Event(e), ~build.SameScan
  PROVE  OnTime' /\ ~overtaken'
<1>1. /\ pc = "idle" /\ changed = {} /\ changed' # {} /\ pc' = "new" /\ arrived' = e
      /\ UNCHANGED <<tapping_key, waiting_buffer, tick_age>>
      /\ overtaken' = (overtaken \/ (waiting_buffer # << >> /\ ~Undecided(tapping_key)))
  BY DEF Event
<1>2. tick_age <= 1 /\ Tight(waiting_buffer, tapping_key, tick_age)
  BY <1>1 DEF OnTime
<1>3. ~TickComes'
  BY <1>1 DEF TickComes, IsTick, WaitingRecord
<1>4. ~overtaken'
  BY <1>1, <1>2 DEF Tight
<1>5. OnTime'
  BY <1>1, <1>2, <1>3 DEF OnTime
<1> QED
  BY <1>4, <1>5

LEMMA BranchFrame ==
  ASSUME Branch
  PROVE  UNCHANGED <<tick_age, changed, build>>
<1>1. ASSUME NEW tk, NEW reg, NEW upto, NEW ws, Consumed(tk, reg, upto, ws)
      PROVE  UNCHANGED <<tick_age, changed, build>>
  BY <1>1 DEF Consumed
<1>2. ASSUME NEW tk, NEW reg, NEW upto, NEW e, Held(tk, reg, upto, e)
      PROVE  UNCHANGED <<tick_age, changed, build>>
  BY <1>2 DEF Held
<1>3. CASE TickPasses
  BY <1>1, <1>3 DEF TickPasses
<1>4. CASE Passes
  BY <1>1, <1>4 DEF Passes, PassOn
<1>5. CASE Starts
  BY <1>1, <1>5 DEF Starts, StartTapping
<1>6. CASE Restarts
  BY <1>1, <1>6 DEF Restarts, Again
<1>7. CASE Taps
  BY <1>2, <1>7 DEF Taps, FirstTap
<1>8. CASE Holds
  BY <1>2, <1>8 DEF Holds
<1>9. CASE KeepsWaiting
  BY <1>2, <1>9 DEF KeepsWaiting
<1>10. CASE Releases
  BY <1>1, <1>10 DEF Releases, SettledRelease
<1>11. CASE Expires
  BY <1>2, <1>11 DEF Expires
<1> QED
  BY <1>3, <1>4, <1>5, <1>6, <1>7, <1>8, <1>9, <1>10, <1>11 DEF Branch

LEMMA PassOnTime ==
  ASSUME TypeInv, OnTime, process_tapping, EarlyHold = {}, ~unscanned'
  PROVE  OnTime'
<1> DEFINE w == waiting_buffer
           t == tapping_key
<1>1. /\ Shape /\ AgeInv /\ Branch /\ pc # "idle" /\ pc \in {"idle", "new", "drain"}
      /\ ~RestartsUnscanned(t, Cur) /\ UNCHANGED <<tick_age, changed, build>>
  <2>1. Shape /\ AgeInv
    BY DEF TypeInv, TapInv
  <2>2. Branch /\ pc # "idle" /\ ~RestartsUnscanned(t, Cur)
    BY <2>1, ProcessBranch DEF process_tapping
  <2> QED
    BY <2>1, <2>2, BranchFrame DEF Shape
<1>2. tick_age \in 0 .. 1
  BY <1>1, LimitFacts DEF AgeInv, OnTime
<1>3. tick_age <= 1
  BY DEF OnTime
<1>4. ASSUME AfterEvent(tick_age), changed # {} PROVE OnTime'
  <2>1. Draining(w', tapping_key', tick_age)
    BY <1>4 DEF AfterEvent
  <2>2. Loose(w', tapping_key', tick_age)
    BY <2>1 DEF Draining
  <2>3. /\ pc' = "drain" \/ pc' = "idle"
        /\ pc' = "idle" => LeftOver(w', tapping_key', tick_age)
    BY <1>4 DEF AfterEvent
  <2>4. ~TickComes' /\ pc' # "new"
    BY <2>3 DEF TickComes
  <2> QED
    BY <1>1, <1>3, <1>4, <2>1, <2>2, <2>3, <2>4 DEF OnTime
<1>5. ASSUME AfterTick, changed = {}, tick_age = 0 PROVE OnTime'
  <2>1. Calm(w', tapping_key') /\ (pc' = "drain" \/ pc' = "idle")
    BY <1>5 DEF AfterTick
  <2>2. pc' = "idle" => Tight(w', tapping_key', 0)
    BY <1>5, <2>1, CalmTight DEF AfterTick
  <2>3. ~TickComes' /\ pc' # "new"
    BY <2>1 DEF TickComes
  <2> QED
    BY <1>1, <1>3, <1>5, <2>1, <2>2, <2>3 DEF OnTime
<1>6. CASE pc = "drain" /\ changed = {}
  <2>1. tick_age = 0 /\ Calm(w, t)
    BY <1>6 DEF OnTime
  <2> QED
    BY <1>1, <1>5, <1>6, <2>1, DrainAfterTick
<1>7. CASE pc = "drain" /\ changed # {}
  <2>1. Draining(w, t, tick_age)
    BY <1>7 DEF OnTime
  <2> QED
    BY <1>1, <1>2, <1>4, <1>7, <2>1, DrainAfterEvent
<1>8. CASE TickComes
  <2>1. changed = {} /\ Loose(w, t, 1) /\ LeftOver(w, t, 1) /\ tick_age = 0
    BY <1>1, <1>8 DEF OnTime, AgeInv
  <2> QED
    BY <1>1, <1>5, <1>8, <2>1, TickPass
<1>9. CASE pc = "new" /\ ~TickComes
  <2>1. changed # {} /\ Tight(w, t, tick_age) /\ ~IsTick(Cur)
    BY <1>9 DEF OnTime, TickComes, Cur
  <2> QED
    BY <1>1, <1>2, <1>4, <1>9, <2>1, EventPass
<1> QED
  BY <1>1, <1>6, <1>7, <1>8, <1>9

\* The premise of NotOvertaken, and what makes it inductive.
Default ==
  /\ build.HoldOnOtherKeyPress = {} /\ build.PermissiveHold = {}
  /\ ~build.SameScan /\ build.Stall = 1 /\ ~unscanned
PunctualInv == TypeInv /\ (Default => OnTime /\ ~overtaken)

LEMMA PunctualInit == ASSUME Init PROVE PunctualInv
<1>1. /\ tapping_key = Nothing /\ waiting_buffer = << >> /\ pc = "idle" /\ tick_age = 0
      /\ changed = {} /\ ~overtaken
  BY DEF Init
<1>2. ~Undecided(Nothing) /\ 0 \in 0 .. 1 /\ 0 <= 1
  BY NothingAge DEF Undecided
<1>3. Tight(<< >>, Nothing, 0)
  BY <1>2, NothingWaits, CalmTight
<1>4. ~TickComes
  BY <1>1 DEF TickComes
<1> QED
  BY <1>1, <1>2, <1>3, <1>4, TypeInit DEF PunctualInv, OnTime

LEMMA PunctualStep ==
  ASSUME PunctualInv, [Next]_vars
  PROVE  PunctualInv'
<1>1. TypeInv /\ TypeInv' /\ Shape
  BY TypeStep DEF PunctualInv, TypeInv, TapInv
<1> SUFFICES ASSUME Default' PROVE OnTime' /\ ~overtaken'
  BY <1>1 DEF PunctualInv
<1>2. ASSUME build' = build, ~unscanned
      PROVE  /\ OnTime /\ ~overtaken /\ EarlyHold = {} /\ ~build.SameScan /\ build.Stall = 1
  BY <1>2 DEF PunctualInv, Default, EarlyHold
<1>3. ASSUME NEW k \in Keys, Press(k) \/ Release(k) PROVE OnTime' /\ ~overtaken'
  <2>1. PICK e \in WaitingRecord : Event(e)
    <3>1. presses \in Nat /\ MaxPresses \in Nat
      BY <1>1, ConstantFacts DEF Shape
    <3>2. CASE Press(k)
      <4> DEFINE e == Record(k, TRUE, presses + 1)
      <4>1. presses + 1 \in 0 .. MaxPresses
        BY <3>1, <3>2 DEF Press
      <4>2. e \in WaitingRecord
        BY <4>1, ConstantFacts DEF Record, WaitingRecord, Records
      <4>3. Event(e)
        BY <3>2 DEF Press
      <4> HIDE DEF e
      <4> QED
        BY <4>2, <4>3
    <3>3. CASE Release(k)
      <4> DEFINE e == Record(k, FALSE, 0)
      <4>2. e \in WaitingRecord
        BY <3>1, ConstantFacts DEF Record, WaitingRecord, Records
      <4>3. Event(e)
        BY <3>3 DEF Release
      <4> HIDE DEF e
      <4> QED
        BY <4>2, <4>3
    <3> QED
      BY <1>3, <3>2, <3>3
  <2>2. build' = build /\ ~unscanned
    BY <2>1 DEF Event, Default
  <2> QED
    BY <1>2, <2>1, <2>2, EventOnTime
<1>4. CASE Tick
  <2>1. build' = build /\ ~unscanned /\ overtaken' = overtaken
    BY <1>4 DEF Tick, Default
  <2> QED
    BY <1>1, <1>2, <1>4, <2>1, TickOnTime
<1>5. CASE Clock
  <2>1. build' = build /\ ~unscanned /\ overtaken' = overtaken
    BY <1>5 DEF Clock, Default
  <2> QED
    BY <1>1, <1>2, <1>5, <2>1, ClockOnTime
<1>6. CASE process_tapping
  <2>1. overtaken' = overtaken /\ ~unscanned' /\ ~unscanned
    BY <1>1, <1>6, ProcessGood DEF Good, process_tapping, Default
  <2>2. build' = build
    BY <1>1, <1>6, ProcessBranch, BranchFrame
  <2> QED
    BY <1>1, <1>2, <1>6, <2>1, <2>2, PassOnTime
<1>7. CASE UNCHANGED vars
  <2>1. /\ build' = build /\ ~unscanned /\ overtaken' = overtaken
        /\ UNCHANGED <<tapping_key, waiting_buffer, pc, arrived, changed, tick_age>>
    BY <1>7 DEF vars, Default
  <2>2. OnTime /\ ~overtaken
    BY <1>2, <2>1
  <2> QED
    BY <2>1, <2>2 DEF OnTime, TickComes, IsTick
<1> QED
  BY <1>3, <1>4, <1>5, <1>6, <1>7 DEF Next

\* No event overtakes another: in the default mode, with one key changing at a time
\* and a quiet scan every millisecond, the drain loop of action_tapping_process never
\* ends at a key it has just settled with records waiting when the next key changes,
\* unless a key was restarted without a search of the buffer.
THEOREM NothingOvertakes == Spec => []NotOvertaken
<1>1. PunctualInv /\ [Next]_vars => PunctualInv'
  BY PunctualStep
<1>2. PunctualInv => NotOvertaken
  BY DEF PunctualInv, NotOvertaken, Default
<1> QED
  BY <1>1, <1>2, PunctualInit, PTL DEF Spec
=============================================================================
