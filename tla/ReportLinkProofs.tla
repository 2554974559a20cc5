-------------------------- MODULE ReportLinkProofs --------------------------
(***************************************************************************)
(* Machine-checked proofs about ReportBuffer, for every queue size, retry  *)
(* count, set of intervals and number of reports; and about ReportLink,    *)
(* the report buffer at work with the radio module, for every size of the  *)
(* two queues as well, on links without NKRO (wireless_send_nkro also      *)
(* sends past the queue, and then neither result holds).                   *)
(***************************************************************************)
EXTENDS ReportLink, SequenceTheorems, TLAPS

-----------------------------------------------------------------------------
(* The arithmetic of the ring.                                             *)

LEMMA SizeFact == QueueSize \in Nat /\ QueueSize >= 2 /\ MaxReports \in Nat
BY ReportBufferAssumption

\* The two facts about % the proofs need: an index less than one turn too far,
\* and the distance between two indices.
LEMMA ModSum ==
  ASSUME NEW N \in Nat, N > 0, NEW i \in Nat, i < N + N
  PROVE  i % N = IF i < N THEN i ELSE i - N
OBVIOUS

LEMMA ModDifference ==
  ASSUME NEW N \in Nat, N > 0, NEW i \in 0 .. N - 1, NEW k \in 0 .. N - 1
  PROVE  (i - k) % N = IF i >= k THEN i - k ELSE i - k + N
OBVIOUS

LEMMA SlotWraps ==
  ASSUME NEW i \in Nat, i < QueueSize + QueueSize
  PROVE  /\ Slot(i) = IF i < QueueSize THEN i ELSE i - QueueSize
         /\ Slot(i) \in 0 .. QueueSize - 1
BY SizeFact, ModSum DEF Slot

IndexOK == head \in 0 .. QueueSize - 1 /\ tail \in 0 .. QueueSize - 1

RingOK == IndexOK /\ queue \in [0 .. QueueSize - 1 -> 0 .. MaxReports]

\* How many reports the two indices delimit.
LEMMA CountFacts ==
  ASSUME IndexOK
  PROVE  /\ Count = IF head >= tail THEN head - tail ELSE head - tail + QueueSize
         /\ Count \in 0 .. QueueSize - 1
         /\ report_buffer_is_empty <=> Count = 0
         /\ Full <=> Count = QueueSize - 1
<1>1. Count = IF head >= tail THEN head - tail ELSE head - tail + QueueSize
  BY SizeFact, ModDifference DEF Count, IndexOK
<1>2. Slot(head + 1) = IF head + 1 < QueueSize THEN head + 1 ELSE head + 1 - QueueSize
  BY SlotWraps, SizeFact DEF IndexOK
<1> QED
  BY <1>1, <1>2, SizeFact DEF IndexOK, report_buffer_is_empty, Full

\* The indices move by one.
LEMMA IndexSteps ==
  ASSUME IndexOK
  PROVE  /\ (head' = Slot(head + 1) /\ tail' = tail /\ ~Full)
              => IndexOK' /\ Count' = Count + 1
         /\ (tail' = Slot(tail + 1) /\ head' = head /\ ~report_buffer_is_empty)
              => IndexOK' /\ Count' = Count - 1
<1>1. Slot(head + 1) = IF head + 1 < QueueSize THEN head + 1 ELSE head + 1 - QueueSize
  BY SlotWraps, SizeFact DEF IndexOK
<1>2. Slot(tail + 1) = IF tail + 1 < QueueSize THEN tail + 1 ELSE tail + 1 - QueueSize
  BY SlotWraps, SizeFact DEF IndexOK
<1>3. IndexOK' => Count' = IF head' >= tail' THEN head' - tail' ELSE head' - tail' + QueueSize
  BY SizeFact, ModDifference DEF Count, IndexOK
<1>4. Count = IF head >= tail THEN head - tail ELSE head - tail + QueueSize
  BY CountFacts
<1>5. CASE head' = Slot(head + 1) /\ tail' = tail /\ ~Full
  BY <1>1, <1>3, <1>4, <1>5, SizeFact DEF IndexOK, Full, report_buffer_is_empty
<1>6. CASE tail' = Slot(tail + 1) /\ head' = head /\ ~report_buffer_is_empty
  BY <1>2, <1>3, <1>4, <1>6, SizeFact DEF IndexOK, Full, report_buffer_is_empty
<1> QED
  BY <1>5, <1>6

\* Where the k-th queued report is.
Place(k) == IF tail + k - 1 < QueueSize THEN tail + k - 1 ELSE tail + k - 1 - QueueSize

LEMMA SlotFrom ==
  ASSUME NEW t \in 0 .. QueueSize - 1, NEW k \in 1 .. QueueSize
  PROVE  Slot(t + k - 1) = IF t + k - 1 < QueueSize THEN t + k - 1 ELSE t + k - 1 - QueueSize
<1>1. t + k - 1 \in Nat /\ t + k - 1 < QueueSize + QueueSize
  BY SizeFact
<1> QED
  BY <1>1, SizeFact DEF Slot

LEMMA PlaceFacts ==
  ASSUME IndexOK, NEW k \in 1 .. QueueSize
  PROVE  Slot(tail + k - 1) = Place(k) /\ Place(k) \in 0 .. QueueSize - 1
<1>1. tail \in 0 .. QueueSize - 1
  BY DEF IndexOK
<1>2. Slot(tail + k - 1) = Place(k)
  BY <1>1, SlotFrom DEF Place
<1> QED
  BY <1>1, <1>2, SizeFact DEF Place

LEMMA HeadPlace ==
  ASSUME IndexOK
  PROVE  /\ Place(Count + 1) = head
         /\ \A k \in 1 .. Count : Place(k) # head
BY CountFacts, SizeFact DEF IndexOK, Place

\* The queued reports, as a sequence.
LEMMA ContentsFacts ==
  ASSUME RingOK
  PROVE  /\ Contents \in Seq(0 .. MaxReports)
         /\ Len(Contents) = Count
         /\ Count \in Nat
         /\ DOMAIN Contents = 1 .. Count
         /\ \A k \in 1 .. Count : Contents[k] = queue[Place(k)]
<1>1. Count \in Nat /\ Count < QueueSize
  BY CountFacts, SizeFact DEF RingOK
<1>2. \A k \in 1 .. Count : Slot(tail + k - 1) = Place(k) /\ Place(k) \in 0 .. QueueSize - 1
  BY <1>1, PlaceFacts, SizeFact DEF RingOK
<1>3. \A k \in 1 .. Count : queue[Slot(tail + k - 1)] \in 0 .. MaxReports
  BY <1>2 DEF RingOK
<1> QED
  BY <1>1, <1>2, <1>3 DEF Contents

\* report_buffer_enqueue with room appends the report.
LEMMA EnqueueAppends ==
  ASSUME RingOK, ~Full, NEW r \in 0 .. MaxReports, report_buffer_enqueue(r)
  PROVE  /\ RingOK'
         /\ Count' = Count + 1
         /\ Contents' = Append(Contents, r)
<1>1. queue' = [queue EXCEPT ![head] = r] /\ head' = Slot(head + 1) /\ tail' = tail
  BY DEF report_buffer_enqueue
<1>2. IndexOK' /\ Count' = Count + 1
  BY <1>1, IndexSteps DEF RingOK
<1>3. queue' \in [0 .. QueueSize - 1 -> 0 .. MaxReports]
  BY <1>1 DEF RingOK
<1>4. Count \in Nat /\ Count + 1 < QueueSize
  BY CountFacts, SizeFact DEF RingOK
<1>5. \A k \in 1 .. Count + 1 : Slot(tail + k - 1) = Place(k) /\ Place(k) \in 0 .. QueueSize - 1
  BY <1>4, PlaceFacts, SizeFact DEF RingOK
<1>6. Contents' = [k \in 1 .. Count + 1 |-> queue'[Slot(tail + k - 1)]]
  BY <1>1, <1>2 DEF Contents, Slot
<1>7. \A k \in 1 .. Count : queue'[Slot(tail + k - 1)] = Contents[k]
  <2> SUFFICES ASSUME NEW k \in 1 .. Count PROVE queue'[Slot(tail + k - 1)] = Contents[k]
    OBVIOUS
  <2>1. Slot(tail + k - 1) = Place(k) /\ Place(k) \in 0 .. QueueSize - 1 /\ Place(k) # head
    BY <1>4, <1>5, HeadPlace DEF RingOK
  <2>2. queue'[Place(k)] = queue[Place(k)]
    BY <1>1, <2>1 DEF RingOK
  <2> QED
    BY <2>1, <2>2, ContentsFacts
<1>8. queue'[Slot(tail + (Count + 1) - 1)] = r
  BY <1>1, <1>4, <1>5, HeadPlace DEF RingOK
<1>9. \A k \in 1 .. Count + 1 : Append(Contents, r)[k] = IF k <= Count THEN Contents[k] ELSE r
  BY <1>4, ContentsFacts, AppendProperties
<1>10. \A k \in 1 .. Count + 1 : Contents'[k] = IF k <= Count THEN Contents[k] ELSE r
  BY <1>4, <1>6, <1>7, <1>8
<1>11. Contents' = Append(Contents, r)
  <2>1. Append(Contents, r) \in Seq(0 .. MaxReports) /\ Len(Append(Contents, r)) = Count + 1
    BY ContentsFacts, AppendProperties
  <2>2. Contents' \in Seq(0 .. MaxReports) /\ Len(Contents') = Count + 1
    <3>1. \A k \in 1 .. Count + 1 : queue'[Slot(tail + k - 1)] \in 0 .. MaxReports
      BY <1>3, <1>5
    <3> QED
      BY <1>4, <1>6, <3>1
  <2> QED
    BY <1>9, <1>10, <2>1, <2>2, SeqEqual
<1> QED
  BY <1>2, <1>3, <1>11 DEF RingOK

\* report_buffer_dequeue hands out the front of the queue and removes it.
LEMMA DequeueTakesFront ==
  ASSUME RingOK, report_buffer_dequeue
  PROVE  /\ RingOK'
         /\ Count > 0
         /\ Count' = Count - 1
         /\ kb_rpt' = Contents[1]
         /\ Contents' = [k \in 1 .. Count - 1 |-> Contents[k + 1]]
         /\ Contents' = Tail(Contents)
<1>1. /\ queue' = queue /\ head' = head /\ tail' = Slot(tail + 1)
      /\ kb_rpt' = queue[tail] /\ ~report_buffer_is_empty
  BY DEF report_buffer_dequeue
<1>2. IndexOK' /\ Count' = Count - 1
  BY <1>1, IndexSteps DEF RingOK
<1>3. Count \in Nat /\ Count > 0 /\ Count < QueueSize
  BY <1>1, CountFacts, SizeFact DEF RingOK
<1>4. kb_rpt' = Contents[1]
  <2>1. Place(1) = tail
    BY SizeFact DEF RingOK, IndexOK, Place
  <2> QED
    BY <1>1, <1>3, <2>1, ContentsFacts
<1>5. \A k \in 1 .. Count - 1 : Slot(tail' + k - 1) = Place(k + 1)
  <2> SUFFICES ASSUME NEW k \in 1 .. Count - 1 PROVE Slot(tail' + k - 1) = Place(k + 1)
    OBVIOUS
  <2>1. tail' = IF tail + 1 < QueueSize THEN tail + 1 ELSE tail + 1 - QueueSize
    BY <1>1, SlotWraps, SizeFact DEF RingOK, IndexOK
  <2>2. tail' \in 0 .. QueueSize - 1
    BY <1>2 DEF IndexOK
  <2>3. k \in Nat /\ k >= 1 /\ k < QueueSize /\ k \in 1 .. QueueSize
    BY <1>3, SizeFact
  <2>4. Slot(tail' + k - 1) = IF tail' + k - 1 < QueueSize THEN tail' + k - 1
                              ELSE tail' + k - 1 - QueueSize
    BY <2>2, <2>3, SlotFrom
  <2> QED
    BY <2>1, <2>3, <2>4, SizeFact DEF Place, RingOK, IndexOK
<1>6. Contents' = [k \in 1 .. Count - 1 |-> queue[Slot(tail' + k - 1)]]
  BY <1>1, <1>2 DEF Contents, Slot
<1>7. \A k \in 1 .. Count - 1 : queue[Slot(tail' + k - 1)] = Contents[k + 1]
  BY <1>3, <1>5, ContentsFacts
<1>8. Contents' = [k \in 1 .. Count - 1 |-> Contents[k + 1]]
  BY <1>6, <1>7
<1>9. Contents' = Tail(Contents)
  <2>1. Contents # << >>
    BY <1>3, ContentsFacts
  <2>2. /\ Tail(Contents) \in Seq(0 .. MaxReports) /\ Len(Tail(Contents)) = Count - 1
        /\ \A k \in 1 .. Count - 1 : Tail(Contents)[k] = Contents[k + 1]
    BY <2>1, ContentsFacts, HeadTailProperties
  <2>3. Contents' \in Seq(0 .. MaxReports) /\ Len(Contents') = Count - 1
    BY <1>3, <1>8, ContentsFacts
  <2> QED
    BY <1>8, <2>2, <2>3, SeqEqual
<1> QED
  BY <1>1, <1>2, <1>3, <1>4, <1>8, <1>9 DEF RingOK

\* report_buffer_init leaves an empty queue.
LEMMA InitEmpties ==
  ASSUME report_buffer_init
  PROVE  RingOK' /\ Count' = 0 /\ Contents' = << >>
<1>1. RingOK'
  BY SizeFact DEF RingOK, IndexOK, report_buffer_init
<1>2. Count' = 0
  BY SizeFact DEF Count, report_buffer_init
<1>3. Contents' = [i \in 1 .. 0 |-> queue'[Slot(tail' + i - 1)]]
  BY <1>2 DEF Contents, Slot
<1> QED
  BY <1>1, <1>2, <1>3

-----------------------------------------------------------------------------
(* What a step may do to the queue.                                        *)

Same  == UNCHANGED <<ring, kb_rpt, issued, dropped, sent>>
Put   == Issue /\ UNCHANGED <<kb_rpt, sent>>
Clear == report_buffer_init /\ UNCHANGED <<issued, sent>>
Take  == /\ report_buffer_dequeue /\ UNCHANGED issued
         /\ \/ sent' = kb_rpt' /\ dropped' = dropped
            \/ sent' = sent /\ dropped' = dropped \cup {kb_rpt'}

LEMMA QueueCases ==
  ASSUME [Next]_vars
  PROVE  Same \/ Put \/ Clear \/ Take
<1> USE DEF Same, Put, Clear, Take, ring, flight, pace, ages, light, history
<1>1. CASE Tick
  BY <1>1 DEF Tick
<1>2. CASE SendKeyboard
  BY <1>2 DEF SendKeyboard
<1>3. CASE SendConsumer
  BY <1>3 DEF SendConsumer
<1>4. ASSUME NEW s \in {"SUCCESS", "FIFO_HALF", "FIFO_FULL", "CHECKSUM"}, ack_handler(s)
      PROVE  Same
  BY <1>4 DEF ack_handler
<1>5. ASSUME NEW c \in ConnIntervals, SetInterval(c)
      PROVE  Same
  BY <1>5 DEF SetInterval
<1>6. ASSUME NEW b \in BOOLEAN, LinkUp(b)
      PROVE  Same \/ Put
  BY <1>6 DEF LinkUp
<1>7. CASE LinkDown
  BY <1>7 DEF LinkDown
<1>8. ASSUME NEW l, NEW quiet \in BOOLEAN, LinkOther(l, quiet)
      PROVE  Same
  BY <1>8 DEF LinkOther
<1>9. CASE IndicatorDone
  BY <1>9 DEF IndicatorDone
<1>10. CASE report_buffer_task
  <2>1. CASE TaskFirst
    BY <1>10, <2>1 DEF report_buffer_task, TaskFirst
  <2>2. CASE TaskRetry
    BY <1>10, <2>2 DEF report_buffer_task, TaskRetry
  <2>3. CASE TaskIdle
    BY <1>10, <2>3 DEF report_buffer_task, TaskIdle
  <2> QED
    BY <1>10, <2>1, <2>2, <2>3 DEF report_buffer_task
<1>11. CASE lpm_task
  <2>1. CASE lpm_sleep
    BY <1>11, <2>1 DEF lpm_task, lpm_sleep
  <2>2. CASE lpm_stay
    BY <1>11, <2>2 DEF lpm_task, lpm_stay
  <2> QED
    BY <1>11, <2>1, <2>2 DEF lpm_task
<1>12. CASE UNCHANGED vars
  BY <1>12 DEF vars
<1> QED
  BY <1>1, <1>2, <1>3, <1>4, <1>5, <1>6, <1>7, <1>8, <1>9, <1>10, <1>11, <1>12 DEF Next

LEMMA SameContents ==
  ASSUME UNCHANGED ring
  PROVE  Count' = Count /\ Contents' = Contents /\ Queued' = Queued
BY DEF ring, Count, Contents, Queued, Slot

-----------------------------------------------------------------------------
(* The queue holds, in order, the reports issued and neither sent nor      *)
(* dropped.                                                                *)

QueueInv == /\ RingOK
            /\ issued \in 0 .. MaxReports /\ sent \in 0 .. issued
            /\ dropped \subseteq 1 .. issued
            /\ NothingVanishes /\ Sorted

\* The elements, and the front, of the queue.
LEMMA QueuedFacts ==
  ASSUME QueueInv
  PROVE  /\ Count \in Nat
         /\ \A k \in 1 .. Count : Contents[k] \in (sent + 1) .. issued /\ Contents[k] \notin dropped
         /\ \A r \in (sent + 1) .. issued : r \notin dropped => \E k \in 1 .. Count : r = Contents[k]
<1>1. Count \in Nat
  BY ContentsFacts DEF QueueInv
<1> QED
  BY <1>1 DEF QueueInv, NothingVanishes, Queued

LEMMA PutKeeps ==
  ASSUME QueueInv, Put
  PROVE  QueueInv'
<1>1. /\ issued \in Nat /\ issued + 1 \in 1 .. MaxReports /\ issued' = issued + 1 /\ sent' = sent
      /\ sent \in Nat /\ sent <= issued
  BY SizeFact DEF Put, Issue, QueueInv
<1>2. report_buffer_enqueue(issued + 1) /\ RingOK
  BY DEF Put, Issue, QueueInv
<1>3. CASE Full
  <2>1. UNCHANGED ring /\ dropped' = dropped \cup {issued + 1}
    BY <1>2, <1>3 DEF report_buffer_enqueue
  <2>2. Count' = Count /\ Contents' = Contents /\ Queued' = Queued
    BY <2>1, SameContents
  <2>3. RingOK' /\ Sorted'
    BY <2>1, <2>2 DEF RingOK, IndexOK, Sorted, QueueInv, ring
  <2>4. NothingVanishes'
    BY <1>1, <2>1, <2>2 DEF NothingVanishes, QueueInv
  <2>5. dropped' \subseteq 1 .. issued'
    BY <1>1, <2>1 DEF QueueInv
  <2> QED
    BY <1>1, <2>3, <2>4, <2>5 DEF QueueInv
<1>4. CASE ~Full
  <2>1. RingOK' /\ Count' = Count + 1 /\ Contents' = Append(Contents, issued + 1)
    BY <1>1, <1>2, <1>4, EnqueueAppends
  <2>2. dropped' = dropped
    BY <1>2, <1>4 DEF report_buffer_enqueue
  <2>3. /\ \A k \in 1 .. Count : Contents'[k] = Contents[k]
        /\ Contents'[Count + 1] = issued + 1
        /\ Count \in Nat
    BY <1>1, <1>2, <2>1, ContentsFacts, AppendProperties
  <2>4. Queued' = {Contents'[k] : k \in 1 .. Count + 1}
    BY <2>1 DEF Queued
  <2>5. Queued' = Queued \cup {issued + 1}
    BY <2>3, <2>4 DEF Queued
  <2>6. NothingVanishes'
    BY <1>1, <2>2, <2>5 DEF NothingVanishes, QueueInv
  <2>7. \A i, j \in 1 .. Count + 1 : i < j => Contents'[i] < Contents'[j]
    <3> SUFFICES ASSUME NEW i \in 1 .. Count + 1, NEW j \in 1 .. Count + 1, i < j
                 PROVE  Contents'[i] < Contents'[j]
      OBVIOUS
    <3>1. i \in 1 .. Count /\ Contents'[i] = Contents[i] /\ Contents[i] \in (sent + 1) .. issued
      BY <2>3, QueuedFacts
    <3>2. CASE j = Count + 1
      BY <1>1, <2>3, <3>1, <3>2
    <3>3. CASE j \in 1 .. Count
      BY <2>3, <3>1, <3>3 DEF QueueInv, Sorted
    <3> QED
      BY <2>3, <3>2, <3>3
  <2>8. Sorted'
    BY <2>1, <2>7 DEF Sorted
  <2>9. dropped' \subseteq 1 .. issued'
    BY <1>1, <2>2 DEF QueueInv
  <2> QED
    BY <1>1, <2>1, <2>6, <2>8, <2>9 DEF QueueInv
<1> QED
  BY <1>3, <1>4

LEMMA ClearKeeps ==
  ASSUME QueueInv, Clear
  PROVE  QueueInv'
<1>1. RingOK' /\ Count' = 0 /\ issued' = issued /\ sent' = sent
  BY InitEmpties DEF Clear
<1>2. dropped' = dropped \cup Queued
  BY DEF Clear, report_buffer_init
<1>3. Queued' = {} /\ Sorted'
  BY <1>1 DEF Queued, Sorted
<1>4. NothingVanishes' /\ dropped' \subseteq 1 .. issued'
  <2>1. Queued = {r \in (sent + 1) .. issued : r \notin dropped}
    BY DEF QueueInv, NothingVanishes
  <2>2. sent \in Nat /\ issued \in Nat
    BY SizeFact DEF QueueInv
  <2>3. {r \in (sent + 1) .. issued : r \notin dropped'} = {}
    BY <1>2, <2>1
  <2>4. Queued \subseteq 1 .. issued
    BY <2>1, <2>2
  <2>5. dropped' \subseteq 1 .. issued'
    BY <1>1, <1>2, <2>4 DEF QueueInv
  <2> QED
    BY <1>1, <1>3, <2>3, <2>5 DEF NothingVanishes
<1> QED
  BY <1>1, <1>3, <1>4 DEF QueueInv

LEMMA TakeKeeps ==
  ASSUME QueueInv, Take
  PROVE  /\ QueueInv'
         /\ kb_rpt' \in (sent + 1) .. issued
         /\ \A r \in (sent + 1) .. (kb_rpt' - 1) : r \in dropped
<1>1. /\ RingOK' /\ Count > 0 /\ Count' = Count - 1 /\ kb_rpt' = Contents[1]
      /\ Contents' = [k \in 1 .. Count - 1 |-> Contents[k + 1]] /\ issued' = issued
  BY DequeueTakesFront DEF Take, QueueInv
<1>2. Count \in Nat /\ issued \in Nat /\ sent \in Nat /\ issued <= MaxReports
  BY QueuedFacts, SizeFact DEF QueueInv
<1>3. PICK v \in (sent + 1) .. issued : v = kb_rpt' /\ v = Contents[1] /\ v \notin dropped
  BY <1>1, <1>2, QueuedFacts
<1>4. \A k \in 2 .. Count : Contents[1] < Contents[k]
  BY <1>2 DEF QueueInv, Sorted
<1>5. \A k \in 1 .. Count : Contents[k] \in Nat /\ (k # 1 => Contents[k] > v)
  BY <1>1, <1>2, <1>3, <1>4, QueuedFacts
<1>6. \A r \in (sent + 1) .. (v - 1) : r \in dropped
  <2> SUFFICES ASSUME NEW r \in (sent + 1) .. (v - 1), r \notin dropped
               PROVE  FALSE
    OBVIOUS
  <2>1. r \in (sent + 1) .. issued /\ r < v
    BY <1>2, <1>3
  <2>2. PICK k \in 1 .. Count : r = Contents[k]
    BY <2>1, QueuedFacts
  <2> QED
    BY <1>1, <1>2, <1>3, <1>5, <2>1, <2>2
<1>7. Sorted'
  <2>1. \A i, j \in 1 .. Count - 1 : i < j => Contents[i + 1] < Contents[j + 1]
    BY <1>2 DEF QueueInv, Sorted
  <2> QED
    BY <1>1, <1>2, <2>1 DEF Sorted
<1>8. Queued' = Queued \ {v}
  <2>1. Queued' = {Contents[k + 1] : k \in 1 .. Count - 1}
    BY <1>1, <1>2 DEF Queued
  <2>2. \A k \in 1 .. Count - 1 : k + 1 \in 1 .. Count /\ Contents[k + 1] # v
    BY <1>2, <1>3, <1>5
  <2>3. \A k \in 1 .. Count : k = 1 \/ (k - 1 \in 1 .. Count - 1 /\ (k - 1) + 1 = k)
    BY <1>2
  <2>4. Queued' \subseteq Queued \ {v}
    BY <2>1, <2>2 DEF Queued
  <2>5. Queued \ {v} \subseteq Queued'
    BY <1>3, <2>1, <2>3 DEF Queued
  <2> QED
    BY <2>4, <2>5
<1>9. CASE sent' = kb_rpt' /\ dropped' = dropped
  <2>1. Queued = {r \in (sent + 1) .. issued : r \notin dropped}
    BY DEF QueueInv, NothingVanishes
  <2>2. {r \in (sent + 1) .. issued : r \notin dropped} \ {v}
          = {r \in (v + 1) .. issued : r \notin dropped}
    <3>1. \A r \in (sent + 1) .. issued : r \notin dropped /\ r # v => r \in (v + 1) .. issued
      BY <1>2, <1>3, <1>6
    <3>2. \A r \in (v + 1) .. issued : r \in (sent + 1) .. issued /\ r # v
      BY <1>2, <1>3
    <3> QED
      BY <3>1, <3>2
  <2>3. NothingVanishes'
    BY <1>1, <1>3, <1>8, <1>9, <2>1, <2>2 DEF NothingVanishes
  <2> QED
    BY <1>1, <1>2, <1>3, <1>6, <1>7, <1>9, <2>3 DEF QueueInv
<1>10. CASE sent' = sent /\ dropped' = dropped \cup {kb_rpt'}
  <2>1. Queued = {r \in (sent + 1) .. issued : r \notin dropped}
    BY DEF QueueInv, NothingVanishes
  <2>2. NothingVanishes'
    BY <1>1, <1>3, <1>8, <1>10, <2>1 DEF NothingVanishes
  <2>3. dropped' \subseteq 1 .. issued
    <3>1. v \in 1 .. issued
      BY <1>2
    <3>2. dropped' = dropped \cup {v}
      BY <1>3, <1>10
    <3> QED
      BY <3>1, <3>2 DEF QueueInv
  <2> QED
    BY <1>1, <1>2, <1>3, <1>6, <1>7, <1>10, <2>2, <2>3 DEF QueueInv
<1> QED
  BY <1>9, <1>10 DEF Take

LEMMA QueueStep ==
  ASSUME QueueInv, [Next]_vars
  PROVE  QueueInv'
<1>1. CASE Same
  BY <1>1, SameContents DEF QueueInv, Same, RingOK, IndexOK, NothingVanishes, Sorted, ring
<1> QED
  BY <1>1, QueueCases, PutKeeps, ClearKeeps, TakeKeeps

-----------------------------------------------------------------------------
(* The other variables, and the timers.                                    *)

ScalarOK ==
  /\ kb_rpt \in 0 .. MaxReports /\ retry \in 0 .. RetryCount
  /\ report_interval \in Intervals /\ connection_interval \in ConnIntervals
  /\ report_age \in 0 .. AgeMax /\ retry_age \in 0 .. AgeMax
  /\ lpm_age \in 0 .. AgeMax /\ uptime \in 0 .. 3
  /\ link \in Links /\ indicating \in BOOLEAN /\ shown \in BOOLEAN
  /\ phase \in {"task", "lpm"}
  /\ tries \in 0 .. RetryCount + 1
  /\ RetryBudget

\* The named numbers, with the other constants out of the way.
LEMMA NumberFacts ==
  /\ RetryCount \in Nat /\ RetryCount > 0 /\ RetryDelay \in Nat /\ LpmTime \in Nat
  /\ LpmTime >= 2 /\ RetryDelay < LpmTime /\ AgeMax \in Nat /\ AgeMax = LpmTime + 1
  /\ ConnIntervals \subseteq Intervals
  /\ \A i \in Intervals : i \in Nat /\ i < LpmTime
BY ReportBufferAssumption DEF AgeMax, Intervals

LEMMA OlderFacts ==
  ASSUME NEW a \in 0 .. AgeMax
  PROVE  /\ Older(a) \in 0 .. AgeMax
         /\ \A b \in 0 .. AgeMax : a <= b => Older(a) <= Older(b)
BY NumberFacts DEF Older

LEMMA ScalarStep ==
  ASSUME QueueInv, ScalarOK, [Next]_vars
  PROVE  ScalarOK'
<1> USE DEF ScalarOK, RetryBudget, ring, flight, pace, ages, light, history
<1>1. CASE Tick
  <2>1. /\ report_age' \in 0 .. AgeMax /\ retry_age' \in 0 .. AgeMax
        /\ lpm_age' \in 0 .. AgeMax /\ uptime' \in 0 .. 3
    BY <1>1, OlderFacts DEF Tick
  <2> QED
    BY <1>1, <2>1 DEF Tick
<1>2. CASE SendKeyboard
  BY <1>2, NumberFacts DEF SendKeyboard
<1>3. CASE SendConsumer
  BY <1>3, NumberFacts DEF SendConsumer
<1>4. ASSUME NEW s \in {"SUCCESS", "FIFO_HALF", "FIFO_FULL", "CHECKSUM"}, ack_handler(s)
      PROVE  ScalarOK'
  <2>1. /\ connection_interval \in Intervals /\ connection_interval + HalfStep \in Intervals
        /\ connection_interval + FullStep \in Intervals
    BY DEF Intervals
  <2>2. retry' \in {0, retry} /\ report_interval' \in Intervals
    BY <1>4, <2>1 DEF ack_handler, AckSuccess, AckHalf, AckFull, AckBad
  <2>3. UNCHANGED <<kb_rpt, connection_interval, ages, link, light, phase, tries>>
    BY <1>4 DEF ack_handler
  <2>4. retry' \in 0 .. RetryCount /\ RetryBudget'
    <3>1. CASE retry' = 0
      BY <2>3, <3>1, NumberFacts
    <3>2. CASE retry' = retry
      BY <2>3, <3>2
    <3> QED
      BY <2>2, <3>1, <3>2
  <2> QED
    BY <2>2, <2>3, <2>4
<1>5. ASSUME NEW c \in ConnIntervals, SetInterval(c)
      PROVE  ScalarOK'
  BY <1>5, NumberFacts DEF SetInterval
<1>6. ASSUME NEW b \in BOOLEAN, LinkUp(b)
      PROVE  ScalarOK'
  BY <1>6 DEF LinkUp, Links
<1>7. CASE LinkDown
  <2>1. /\ retry' = 0 /\ report_age' = 0 /\ lpm_age' \in {0, lpm_age}
        /\ UNCHANGED <<kb_rpt, pace, retry_age, uptime, phase, tries>>
    BY <1>7 DEF LinkDown, report_buffer_init
  <2>2. link' = "down" /\ shown' = FALSE /\ indicating' = FALSE
    BY <1>7 DEF LinkDown
  <2>3. retry' \in 0 .. RetryCount /\ report_age' \in 0 .. AgeMax /\ lpm_age' \in 0 .. AgeMax
    BY <2>1, NumberFacts
  <2>4. RetryBudget'
    BY <2>1, NumberFacts
  <2>5. link' \in Links /\ indicating' \in BOOLEAN /\ shown' \in BOOLEAN
    BY <2>2 DEF Links
  <2> QED
    BY <2>1, <2>3, <2>4, <2>5
<1>8. ASSUME NEW l \in {"pincode", "down"}, NEW quiet \in BOOLEAN, LinkOther(l, quiet)
      PROVE  ScalarOK'
  BY <1>8 DEF LinkOther, Links
<1>9. CASE IndicatorDone
  <2>1. lpm_age' \in 0 .. AgeMax
    BY <1>9, NumberFacts DEF IndicatorDone
  <2> QED
    BY <1>9, <2>1 DEF IndicatorDone
<1>10. CASE report_buffer_task
  <2>1. CASE TaskFirst
    <3>1. Take
      BY <1>10, <2>1 DEF report_buffer_task, TaskFirst, Take
    <3>2. kb_rpt' \in 0 .. MaxReports
      BY <3>1, TakeKeeps, SizeFact DEF QueueInv
    <3> QED
      BY <1>10, <2>1, <3>2, NumberFacts DEF report_buffer_task, TaskFirst, Transmitted
  <2>2. CASE TaskRetry
    BY <1>10, <2>2, NumberFacts DEF report_buffer_task, TaskRetry, Transmitted
  <2>3. CASE TaskIdle
    BY <1>10, <2>3, NumberFacts DEF report_buffer_task, TaskIdle
  <2> QED
    BY <1>10, <2>1, <2>2, <2>3 DEF report_buffer_task
<1>11. CASE lpm_task
  <2>1. CASE lpm_sleep
    BY <1>11, <2>1, NumberFacts DEF lpm_task, lpm_sleep, report_buffer_init
  <2>2. CASE lpm_stay
    BY <1>11, <2>2 DEF lpm_task, lpm_stay
  <2> QED
    BY <1>11, <2>1, <2>2 DEF lpm_task
<1>12. CASE UNCHANGED vars
  BY <1>12 DEF vars
<1> QED
  BY <1>1, <1>2, <1>3, <1>4, <1>5, <1>6, <1>7, <1>8, <1>9, <1>10, <1>11, <1>12 DEF Next

-----------------------------------------------------------------------------
(* The timers.                                                             *)

\* Pending only grows by an enqueue; the other steps that keep phase "lpm"
\* out of reach need no more than the ages.
LEMMA TimingStep ==
  ASSUME QueueInv, ScalarOK, Timing, [Next]_vars
  PROVE  Timing'
<1> USE DEF Timing, ScalarOK, ring, flight, pace, ages, light, history
<1>1. CASE Tick
  <2>1. lpm_age' <= retry_age' /\ (lpm_age <= report_age => lpm_age' <= report_age')
    BY <1>1, OlderFacts DEF Tick
  <2>2. uptime' <= 2 => lpm_age' <= uptime'
    BY <1>1, NumberFacts DEF Tick, Older
  <2> QED
    BY <1>1, <2>1, <2>2 DEF Tick
<1>2. CASE SendKeyboard
  BY <1>2 DEF SendKeyboard
<1>3. CASE SendConsumer
  BY <1>3 DEF SendConsumer
<1>4. ASSUME NEW s \in {"SUCCESS", "FIFO_HALF", "FIFO_FULL", "CHECKSUM"}, ack_handler(s)
      PROVE  Timing'
  BY <1>4 DEF ack_handler
<1>5. ASSUME NEW c \in ConnIntervals, SetInterval(c)
      PROVE  Timing'
  BY <1>5 DEF SetInterval
<1>6. ASSUME NEW b \in BOOLEAN, LinkUp(b)
      PROVE  Timing'
  BY <1>6 DEF LinkUp
<1>7. CASE LinkDown
  BY <1>7, NumberFacts DEF LinkDown, report_buffer_init
<1>8. ASSUME NEW l \in {"pincode", "down"}, NEW quiet \in BOOLEAN, LinkOther(l, quiet)
      PROVE  Timing'
  BY <1>8 DEF LinkOther
<1>9. CASE IndicatorDone
  BY <1>9 DEF IndicatorDone
<1>10. CASE report_buffer_task
  <2>1. UNCHANGED <<link, light>>
    BY <1>10 DEF report_buffer_task
  <2>2. CASE TaskFirst /\ uptime > 2
    BY <2>1, <2>2, NumberFacts DEF TaskFirst, Transmitted
  <2>3. CASE TaskFirst /\ ~(uptime > 2)
    BY <2>1, <2>3, NumberFacts DEF TaskFirst
  <2>4. CASE TaskRetry
    BY <2>1, <2>4, NumberFacts DEF TaskRetry, Transmitted
  <2>5. CASE TaskIdle
    <3>1. UNCHANGED <<ring, retry, report_age, retry_age, lpm_age, uptime>>
      BY <2>5 DEF TaskIdle
    <3>2. link = "connected" /\ Pending /\ ~indicating => lpm_age <= LpmTime
      <4>1. CASE ~Due
        BY <4>1, NumberFacts DEF Due, report_buffer_next_inverval
      <4>2. CASE retry > 0 /\ retry_age <= RetryDelay
        BY <4>2, NumberFacts
      <4> QED
        BY <2>5, <4>1, <4>2 DEF TaskIdle
    <3> QED
      BY <2>1, <3>1, <3>2 DEF Pending, report_buffer_is_empty
  <2> QED
    BY <1>10, <2>2, <2>3, <2>4, <2>5 DEF report_buffer_task
<1>11. CASE lpm_task
  <2>1. CASE lpm_sleep
    BY <1>11, <2>1, NumberFacts DEF lpm_task, lpm_sleep, report_buffer_init
  <2>2. CASE lpm_stay
    BY <1>11, <2>2 DEF lpm_task, lpm_stay
  <2> QED
    BY <1>11, <2>1, <2>2 DEF lpm_task
<1>12. CASE UNCHANGED vars
  BY <1>12 DEF vars, Pending, report_buffer_is_empty
<1> QED
  BY <1>1, <1>2, <1>3, <1>4, <1>5, <1>6, <1>7, <1>8, <1>9, <1>10, <1>11, <1>12 DEF Next

-----------------------------------------------------------------------------
(* The theorems.                                                           *)

\* IndInv is QueueInv, ScalarOK and Timing.
LEMMA Parts == IndInv <=> QueueInv /\ ScalarOK /\ Timing
<1>1. issued \in 0 .. MaxReports
        => /\ (sent \in 0 .. MaxReports /\ sent <= issued) <=> sent \in 0 .. issued
           /\ dropped \subseteq 1 .. issued => dropped \subseteq Report
  BY SizeFact DEF Report
<1>2. TypeOK <=> /\ RingOK /\ issued \in 0 .. MaxReports /\ dropped \subseteq Report
                 /\ sent \in 0 .. MaxReports
                 /\ kb_rpt \in 0 .. MaxReports /\ retry \in 0 .. RetryCount
                 /\ report_interval \in Intervals /\ connection_interval \in ConnIntervals
                 /\ report_age \in 0 .. AgeMax /\ retry_age \in 0 .. AgeMax
                 /\ lpm_age \in 0 .. AgeMax /\ uptime \in 0 .. 3
                 /\ link \in Links /\ indicating \in BOOLEAN /\ shown \in BOOLEAN
                 /\ phase \in {"task", "lpm"} /\ tries \in 0 .. RetryCount + 1
  BY Zenon DEF TypeOK, RingOK, IndexOK
<1>3. QueueInv /\ ScalarOK /\ Timing => IndInv
  BY <1>1, <1>2, Zenon DEF IndInv, QueueInv, ScalarOK
<1>4. IndInv => QueueInv /\ ScalarOK /\ Timing
  BY <1>1, <1>2, Zenon DEF IndInv, QueueInv, ScalarOK
<1> QED
  BY <1>3, <1>4

LEMMA IndStep ==
  ASSUME IndInv, [Next]_vars
  PROVE  IndInv'
<1>1. QueueInv /\ ScalarOK /\ Timing
  BY Parts
<1>2. QueueInv' /\ ScalarOK' /\ Timing'
  BY <1>1, QueueStep, ScalarStep, TimingStep
<1>3. IndInv' <=> QueueInv' /\ ScalarOK' /\ Timing'
  BY Parts, PTL
<1> QED
  BY <1>2, <1>3

\* The inductive invariant of the buffer: the ring holds in order exactly what
\* was issued and neither started nor dropped, the retries stay in their budget,
\* and the low power timer is never older than the timers that hold a report back.
THEOREM Inductive == Spec => []IndInv
<1>1. Init => IndInv
  <2> SUFFICES ASSUME Init PROVE QueueInv /\ ScalarOK /\ Timing
    BY Parts
  <2>1. RingOK /\ Count = 0
    BY SizeFact DEF Init, RingOK, IndexOK, Count
  <2>2. Queued = {} /\ Sorted
    BY <2>1 DEF Queued, Sorted
  <2>3. QueueInv
    BY <2>1, <2>2, SizeFact DEF Init, QueueInv, NothingVanishes
  <2>4. ScalarOK
    <3>1. /\ kb_rpt \in 0 .. MaxReports /\ retry \in 0 .. RetryCount
          /\ report_age \in 0 .. AgeMax /\ retry_age \in 0 .. AgeMax
          /\ lpm_age \in 0 .. AgeMax /\ uptime \in 0 .. 3
          /\ tries \in 0 .. RetryCount + 1 /\ RetryBudget
      BY SizeFact, NumberFacts DEF Init, RetryBudget
    <3>2. report_interval \in Intervals /\ connection_interval \in ConnIntervals
      <4>1. 1 \in ConnIntervals
        BY ReportBufferAssumption
      <4> QED
        BY <4>1, NumberFacts DEF Init
    <3>3. link \in Links /\ phase \in {"task", "lpm"}
      BY DEF Init, Links
    <3>4. indicating \in BOOLEAN /\ shown \in BOOLEAN
      BY Zenon DEF Init
    <3> QED
      BY <3>1, <3>2, <3>3, <3>4 DEF ScalarOK
  <2>5. Timing
    BY DEF Init, Timing
  <2> QED
    BY <2>3, <2>4, <2>5
<1>2. IndInv /\ [Next]_vars => IndInv'
  BY IndStep
<1> QED
  BY <1>1, <1>2, PTL DEF Spec

\* Every variable of the buffer keeps its type, whatever the ring size.
THEOREM TypeCorrect == Spec => []TypeOK
<1>1. IndInv => TypeOK
  BY DEF IndInv
<1> QED
  BY <1>1, Inductive, PTL

\* report_buffer.c accounts for every report: in the ring, started, or dropped
\* by one of the four drops of the code.
THEOREM NoReportVanishes == Spec => []NothingVanishes
<1>1. IndInv => NothingVanishes
  BY DEF IndInv
<1> QED
  BY <1>1, Inductive, PTL

\* No sequence of acknowledgements makes report_buffer_task exceed its retries.
THEOREM RetriesBounded == Spec => []RetryBudget
<1>1. IndInv => RetryBudget
  BY DEF IndInv
<1> QED
  BY <1>1, Inductive, PTL

\* A step that starts a report starts the oldest that was not dropped.
LEMMA OrderStep ==
  ASSUME IndInv, [Next]_vars, sent' # sent
  PROVE  /\ sent' > sent
         /\ \A r \in (sent + 1) .. (sent' - 1) : r \in dropped
<1>1. QueueInv
  BY Parts
<1>2. Take /\ sent' = kb_rpt'
  BY QueueCases DEF Same, Put, Clear, Take
<1>3. /\ kb_rpt' \in (sent + 1) .. issued
      /\ \A r \in (sent + 1) .. (kb_rpt' - 1) : r \in dropped
  BY <1>1, <1>2, TakeKeeps
<1>4. PICK v \in (sent + 1) .. issued : v = sent'
  BY <1>2, <1>3
<1>5. sent \in Nat /\ issued \in Nat
  BY <1>1, SizeFact DEF QueueInv
<1>6. v > sent
  BY <1>4, <1>5
<1> QED
  BY <1>2, <1>3, <1>4, <1>6

\* Reports are started in the order of report_buffer_enqueue, skipping only drops.
THEOREM StartsInOrder == Spec => InOrder
<1>1. IndInv /\ [Next]_vars
        => [sent' # sent => /\ sent' > sent
                            /\ \A r \in (sent + 1) .. (sent' - 1) : r \in dropped]_vars
  BY OrderStep
<1> QED
  BY <1>1, Inductive, PTL DEF Spec, InOrder

\* When the low power timer has run out, nothing is queued and nothing in flight.
LEMMA SleepStep ==
  ASSUME IndInv, [Next]_vars, phase = "lpm", link = "connected"
  PROVE  dropped' = dropped /\ retry' = retry
<1>1. QueueInv /\ ScalarOK /\ Timing
  BY Parts
<1>2. CASE lpm_task
  <2>1. CASE lpm_stay
    BY <2>1 DEF lpm_stay, flight, history
  <2>2. CASE lpm_sleep
    <3>1. lpm_age > LpmTime /\ ~indicating
      BY <2>2 DEF lpm_sleep
    <3>2. ~Pending
      BY <1>1, <3>1, NumberFacts DEF Timing, ScalarOK
    <3>3. retry = 0
      BY <1>1, <3>2, NumberFacts DEF Pending, ScalarOK
    <3>4. Count = 0
      BY <1>1, <3>2, CountFacts DEF Pending, QueueInv, RingOK
    <3>5. Queued = {}
      BY <3>4 DEF Queued
    <3> QED
      BY <2>2, <3>3, <3>5 DEF lpm_sleep, report_buffer_init
  <2> QED
    BY <1>2, <2>1, <2>2 DEF lpm_task
<1>3. CASE UNCHANGED vars
  BY <1>3 DEF vars, flight, history
<1>4. Next => lpm_task
  BY DEF Next, Tick, SendKeyboard, SendConsumer, ack_handler, SetInterval,
    LinkUp, LinkDown, LinkOther, IndicatorDone, report_buffer_task
<1> QED
  BY <1>2, <1>3, <1>4

\* enter_low_power_mode clears the buffer without looking at it, and yet finds
\* nothing in it while the link is up.
THEOREM SleepIsSafe == Spec => SleepDropsNothing
<1>1. IndInv /\ [Next]_vars
        => [phase = "lpm" /\ link = "connected" => dropped' = dropped /\ retry' = retry]_vars
  BY SleepStep
<1> QED
  BY <1>1, Inductive, PTL DEF Spec, SleepDropsNothing

\* The ring of slots implements the bounded queue of ReportFifo: every step maps
\* to a put, a take, a clearing or a stutter.
THEOREM RefinesFifo == Spec => FifoSpec
<1>1. Init => Fifo!Init
  <2> SUFFICES ASSUME Init PROVE Fifo!Init
    OBVIOUS
  <2>1. Count = 0
    BY SizeFact DEF Init, Count
  <2>2. Contents = << >>
    BY <2>1 DEF Contents
  <2> QED
    BY <2>2 DEF Init, Fifo!Init
<1>2. IndInv /\ [Next]_vars => [Fifo!Next]_<<Contents, kb_rpt>>
  <2> SUFFICES ASSUME IndInv, [Next]_vars
               PROVE  Fifo!Next \/ UNCHANGED <<Contents, kb_rpt>>
    OBVIOUS
  <2>1. QueueInv /\ RingOK
    BY Parts DEF QueueInv
  <2>2. CASE Same
    BY <2>2, SameContents DEF Same
  <2>3. CASE Put
    <3>1. CASE Full
      <4>1. UNCHANGED ring
        BY <2>3, <3>1 DEF Put, Issue, report_buffer_enqueue
      <4> QED
        BY <2>3, <4>1, SameContents DEF Put
    <3>2. CASE ~Full
      <4>1. issued + 1 \in Report /\ issued + 1 \in 0 .. MaxReports
        BY <2>1, <2>3, SizeFact DEF Put, Issue, QueueInv, Report
      <4>2. Contents' = Append(Contents, issued + 1)
        BY <2>1, <2>3, <3>2, <4>1, EnqueueAppends DEF Put, Issue
      <4>3. Len(Contents) < QueueSize - 1
        BY <2>1, <3>2, CountFacts, ContentsFacts, SizeFact DEF RingOK
      <4>4. Fifo!Put(issued + 1)
        BY <2>3, <4>2, <4>3 DEF Fifo!Put, Put
      <4> QED
        BY <4>1, <4>4 DEF Fifo!Next
    <3> QED
      BY <3>1, <3>2
  <2>4. CASE Clear
    BY <2>4, InitEmpties DEF Clear, report_buffer_init, Fifo!Next, Fifo!Clear
  <2>5. CASE Take
    <3>1. /\ Count > 0 /\ kb_rpt' = Contents[1] /\ Contents' = Tail(Contents)
      BY <2>1, <2>5, DequeueTakesFront DEF Take
    <3>2. Contents # << >> /\ Head(Contents) = Contents[1]
      BY <2>1, <3>1, ContentsFacts
    <3> QED
      BY <3>1, <3>2 DEF Fifo!Next, Fifo!Take
  <2> QED
    BY <2>2, <2>3, <2>4, <2>5, QueueCases
<1> QED
  BY <1>1, <1>2, Inductive, PTL DEF Spec, FifoSpec, Fifo!Spec

-----------------------------------------------------------------------------
(* What a step of the link does to the buffer.                             *)

\* A system report restarts the low power timer and nothing else.
LEMMA SystemReportKeeps ==
  ASSUME IndInv, SystemReport
  PROVE  IndInv'
<1>1. QueueInv /\ ScalarOK /\ Timing
  BY Parts
<1>2. /\ UNCHANGED <<ring, flight, pace, report_age, retry_age, uptime, link, light,
                     phase, history>>
      /\ lpm_age' = 0 /\ phase = "task"
  BY DEF SystemReport
<1> USE DEF ring, flight, pace, light, history
<1>3. QueueInv'
  BY <1>1, <1>2, SameContents DEF QueueInv, RingOK, IndexOK, NothingVanishes, Sorted
<1>4. ScalarOK'
  BY <1>1, <1>2, NumberFacts DEF ScalarOK, RetryBudget
<1>5. Timing'
  BY <1>1, <1>2, NumberFacts DEF Timing, ScalarOK
<1>6. IndInv' <=> QueueInv' /\ ScalarOK' /\ Timing'
  BY Parts, PTL
<1> QED
  BY <1>3, <1>4, <1>5, <1>6

\* Every other step is one of the buffer, or leaves it alone.
LEMMA LinkIndStep ==
  ASSUME IndInv, [LinkNext]_lvars, acks \in Seq({"SUCCESS", "FIFO_HALF", "FIFO_FULL"})
  PROVE  IndInv' /\ (SystemReport \/ [Next]_vars)
<1>1. CASE SystemReport
  BY <1>1, SystemReportKeeps
<1>2. CASE ~SystemReport
  <2>1. ReadAck => Next
    BY DEF ReadAck, Next
  <2>2. [Next]_vars
    BY <1>2, <2>1 DEF LinkNext, lvars, Time, KeyReport, ConsumerReport, RunTask, RunLpm,
      Deliver, Next
  <2> QED
    BY <2>2, IndStep
<1> QED
  BY <1>1, <1>2

\* The report in flight, its retries and the tries it has had: what a step does
\* to them and to the module.
Quietly == UNCHANGED <<kb_rpt, retry, sent, tries, link>>

FirstSent == /\ retry = 0 /\ retry' = RetryCount /\ sent' = kb_rpt' /\ tries' = 1
             /\ sent' > sent
SentAgain == /\ retry > 0 /\ retry' = retry - 1 /\ tries' = tries + 1
             /\ UNCHANGED <<kb_rpt, sent>>
NotSent   == retry' = retry /\ UNCHANGED <<sent, tries>> /\ (retry > 0 => kb_rpt' = kb_rpt)

LEMMA TaskCases ==
  ASSUME IndInv, RunTask
  PROVE  /\ link' = link
         /\ \/ FirstSent /\ Receive(sent') /\ strayed' = (acks # << >>)
            \/ SentAgain /\ Receive(kb_rpt) /\ strayed' = strayed
            \/ NotSent /\ UNCHANGED module
<1> USE DEF ring, flight, pace, ages, light, history
<1>1. report_buffer_task /\ link' = link /\ [Next]_vars
  BY DEF RunTask, report_buffer_task, Next
<1>2. retry \in 0 .. RetryCount /\ sent \in Nat /\ RetryCount \in Nat /\ RetryCount > 0
  BY NumberFacts, SizeFact DEF IndInv, TypeOK
<1>3. CASE TaskFirst /\ uptime > 2
  <2>1. retry = 0 /\ retry' = RetryCount /\ sent' = kb_rpt' /\ tries' = 1
    BY <1>3 DEF TaskFirst
  <2>2. sent' > sent
    <3>1. QueueInv
      BY Parts
    <3>2. Take
      BY <1>1, <1>3 DEF TaskFirst, report_buffer_task, Take
    <3>3. kb_rpt' \in (sent + 1) .. issued
      BY <3>1, <3>2, TakeKeeps
    <3>4. sent \in Nat /\ issued \in Nat
      BY SizeFact DEF IndInv, TypeOK
    <3> QED
      BY <2>1, <3>3, <3>4
  <2>3. Receive(kb_rpt') /\ strayed' = (acks # << >>)
    BY <1>2, <2>1 DEF RunTask
  <2> QED
    BY <1>1, <2>1, <2>2, <2>3 DEF FirstSent
<1>4. CASE TaskFirst /\ ~(uptime > 2)
  <2>1. NotSent
    BY <1>2, <1>4 DEF TaskFirst, NotSent
  <2> QED
    BY <1>1, <2>1 DEF RunTask, NotSent
<1>5. CASE TaskRetry
  <2>1. SentAgain
    BY <1>5 DEF TaskRetry, SentAgain
  <2>2. retry' # retry /\ kb_rpt' = kb_rpt /\ retry # 0
    BY <1>2, <2>1 DEF SentAgain
  <2> QED
    BY <1>1, <2>1, <2>2 DEF RunTask
<1>6. CASE TaskIdle
  <2>1. NotSent
    BY <1>6 DEF TaskIdle, NotSent
  <2> QED
    BY <1>1, <2>1 DEF RunTask, NotSent
<1> QED
  BY <1>1, <1>3, <1>4, <1>5, <1>6 DEF report_buffer_task

\* An acknowledgement ends the retries unless it says that the module is full.
LEMMA AckCases ==
  ASSUME ReadAck, acks \in Seq({"SUCCESS", "FIFO_HALF", "FIFO_FULL"})
  PROVE  /\ acks # << >> /\ acks' = Tail(acks)
         /\ UNCHANGED <<kb_rpt, sent, tries, link, fifo, accepted, heard, strayed>>
         /\ retry' = IF acks[1] = "FIFO_FULL" THEN retry ELSE 0
<1>1. acks # << >> /\ Head(acks) = acks[1] /\ acks[1] \in {"SUCCESS", "FIFO_HALF", "FIFO_FULL"}
  BY DEF ReadAck
<1>2. /\ ack_handler(acks[1]) /\ acks' = Tail(acks)
      /\ UNCHANGED <<fifo, accepted, heard, strayed>>
  BY <1>1 DEF ReadAck
<1>3. UNCHANGED <<kb_rpt, sent, tries, link>>
  BY <1>2 DEF ack_handler, history
<1>4. retry' = IF acks[1] = "FIFO_FULL" THEN retry ELSE 0
  BY <1>1, <1>2 DEF ack_handler, AckSuccess, AckHalf, AckFull
<1> QED
  BY <1>1, <1>2, <1>3, <1>4

\* The steps that leave the report in flight alone.
LEMMA QuietSteps ==
  ASSUME IndInv, link = "connected",
         Time \/ KeyReport \/ ConsumerReport \/ SystemReport \/ RunLpm
  PROVE  Quietly /\ (UNCHANGED module \/ Bypass(0) \/ (Nkro /\ Bypass(issued')))
<1> USE DEF ring, flight, pace, ages, light, history, Quietly
<1>1. CASE Time
  BY <1>1 DEF Time, Tick
<1>2. CASE KeyReport
  BY <1>2 DEF KeyReport, SendKeyboard
<1>3. CASE ConsumerReport
  BY <1>3 DEF ConsumerReport, SendConsumer
<1>4. CASE SystemReport
  BY <1>4 DEF SystemReport
<1>5. CASE RunLpm
  <2>1. phase = "lpm" /\ [Next]_vars
    BY <1>5 DEF RunLpm, lpm_task, Next
  <2>2. retry' = retry
    BY <2>1, SleepStep
  <2> QED
    BY <1>5, <2>2 DEF RunLpm, lpm_task, lpm_sleep, lpm_stay, report_buffer_init
<1> QED
  BY <1>1, <1>2, <1>3, <1>4, <1>5

-----------------------------------------------------------------------------
(* What the module does with a report it is given.                         *)

LEMMA ReceiveCases ==
  ASSUME NEW r, Receive(r)
  PROVE  /\ heard' = heard
         /\ \/ /\ fifo' = Append(fifo, r) /\ accepted' = accepted \cup {r}
               /\ \E a \in {"SUCCESS", "FIFO_HALF"} : acks' = Append(acks, a)
            \/ acks' = Append(acks, "FIFO_FULL") /\ UNCHANGED <<fifo, accepted>>
            \/ UNCHANGED <<fifo, acks, accepted>>
BY DEF Receive, Accept, Refuse, Miss

\* A report that is the newest, or no key report, keeps the order of the module.
LEMMA ReceiveKeepsOrder ==
  ASSUME ModuleInOrder, sent \in Nat, sent' \in Nat, sent <= sent',
         NEW r, Receive(r), r = 0 \/ r = sent'
  PROVE  ModuleInOrder'
<1>1. /\ accepted \subseteq 0 .. sent' /\ heard \in 0 .. sent' /\ heard' = heard
      /\ heard \in Nat
  BY ReceiveCases DEF ModuleInOrder
<1>2. CASE UNCHANGED <<fifo, accepted>>
  BY <1>1, <1>2 DEF ModuleInOrder
<1>3. CASE fifo' = Append(fifo, r) /\ accepted' = accepted \cup {r}
  <2>1. r \in 0 .. sent' /\ (r # 0 => r >= heard)
    BY <1>1
  <2>2. fifo \in Seq(accepted') /\ fifo \in Seq(accepted)
    BY <1>3 DEF ModuleInOrder
  <2>3. fifo' \in Seq(accepted') /\ Len(fifo') = Len(fifo) + 1 /\ Len(fifo) \in Nat
    BY <1>3, <2>2
  <2>4. /\ DOMAIN fifo = 1 .. Len(fifo) /\ DOMAIN fifo' = 1 .. Len(fifo) + 1
        /\ \A i \in 1 .. Len(fifo) : fifo'[i] = fifo[i]
        /\ fifo'[Len(fifo) + 1] = r
    BY <1>3, <2>2, <2>3
  <2>5. accepted' \subseteq 0 .. sent' /\ heard' \in 0 .. sent'
    BY <1>1, <1>3, <2>1
  <2>6. \A i \in DOMAIN fifo' : fifo'[i] # 0 => fifo'[i] >= heard'
    BY <1>1, <2>1, <2>3, <2>4 DEF ModuleInOrder
  <2>7. \A i \in 1 .. Len(fifo) : fifo[i] \in Nat /\ fifo[i] <= sent'
    <3>1. \A i \in 1 .. Len(fifo) : fifo[i] \in accepted
      BY <2>2
    <3>2. \A x \in 0 .. sent : x \in Nat /\ x <= sent'
      OBVIOUS
    <3> QED
      BY <3>1, <3>2 DEF ModuleInOrder
  <2>8. \A i, j \in DOMAIN fifo' :
          i < j /\ fifo'[i] # 0 /\ fifo'[j] # 0 => fifo'[i] <= fifo'[j]
    <3> SUFFICES ASSUME NEW i \in DOMAIN fifo', NEW j \in DOMAIN fifo',
                        i < j, fifo'[i] # 0, fifo'[j] # 0
                 PROVE  fifo'[i] <= fifo'[j]
      OBVIOUS
    <3>1. i \in 1 .. Len(fifo) /\ fifo'[i] = fifo[i]
      BY <2>3, <2>4
    <3>2. CASE j \in 1 .. Len(fifo)
      BY <2>4, <3>1, <3>2 DEF ModuleInOrder
    <3>3. CASE j = Len(fifo) + 1
      BY <2>4, <2>7, <3>1, <3>3
    <3> QED
      BY <2>3, <2>4, <3>2, <3>3
  <2>9. \A x \in accepted' : x > heard' => \E i \in DOMAIN fifo' : fifo'[i] = x
    <3> SUFFICES ASSUME NEW x \in accepted', x > heard'
                 PROVE  \E i \in DOMAIN fifo' : fifo'[i] = x
      OBVIOUS
    <3>1. CASE x = r
      BY <2>3, <2>4, <3>1
    <3>2. CASE x \in accepted
      <4>1. PICK i \in DOMAIN fifo : fifo[i] = x
        BY <1>1, <3>2 DEF ModuleInOrder
      <4> QED
        BY <2>3, <2>4, <4>1
    <3> QED
      BY <1>3, <3>1, <3>2
  <2> QED
    BY <2>3, <2>5, <2>6, <2>8, <2>9 DEF ModuleInOrder
<1> QED
  BY <1>2, <1>3, ReceiveCases

\* A delivery takes the oldest report, and the host has heard none that is newer.
LEMMA DeliverKeepsOrder ==
  ASSUME ModuleInOrder, sent \in Nat, Deliver
  PROVE  /\ ModuleInOrder'
         /\ heard' # heard => /\ heard' > heard
                             /\ \A r \in (heard + 1) .. (heard' - 1) : r \notin accepted
<1>1. /\ fifo # << >> /\ fifo' = Tail(fifo) /\ accepted' = accepted /\ sent' = sent
      /\ heard' = IF Head(fifo) = 0 THEN heard ELSE Head(fifo)
  BY DEF Deliver, vars, history
<1>2. fifo \in Seq(accepted) /\ accepted \subseteq 0 .. sent /\ heard \in 0 .. sent
  BY DEF ModuleInOrder
<1>3. /\ Len(fifo) \in Nat /\ Len(fifo) > 0 /\ Head(fifo) = fifo[1]
      /\ fifo' \in Seq(accepted) /\ Len(fifo') = Len(fifo) - 1
      /\ DOMAIN fifo = 1 .. Len(fifo) /\ DOMAIN fifo' = 1 .. Len(fifo) - 1
      /\ \A i \in 1 .. Len(fifo) - 1 : fifo'[i] = fifo[i + 1]
  BY <1>1, <1>2
<1>4. \A i \in 1 .. Len(fifo) : fifo[i] \in 0 .. sent
  <2>1. \A i \in 1 .. Len(fifo) : fifo[i] \in accepted
    BY <1>2
  <2> QED
    BY <1>2, <2>1
<1>5. fifo[1] # 0 => fifo[1] >= heard
  BY <1>3 DEF ModuleInOrder
<1>6. heard' \in 0 .. sent /\ heard' >= heard
  BY <1>1, <1>2, <1>3, <1>4, <1>5
<1>7. \A i \in DOMAIN fifo' : fifo'[i] # 0 => fifo'[i] >= heard'
  <2> SUFFICES ASSUME NEW i \in 1 .. Len(fifo) - 1, fifo[i + 1] # 0
               PROVE  fifo[i + 1] >= heard'
    BY <1>3
  <2>1. i + 1 \in DOMAIN fifo /\ 1 \in DOMAIN fifo /\ 1 < i + 1
    BY <1>3
  <2>2. fifo[i + 1] >= heard
    BY <2>1 DEF ModuleInOrder
  <2>3. fifo[1] # 0 => fifo[1] <= fifo[i + 1]
    BY <2>1 DEF ModuleInOrder
  <2> QED
    BY <1>1, <1>2, <1>3, <1>4, <2>1, <2>2, <2>3
<1>8. \A i, j \in DOMAIN fifo' :
        i < j /\ fifo'[i] # 0 /\ fifo'[j] # 0 => fifo'[i] <= fifo'[j]
  <2> SUFFICES ASSUME NEW i \in 1 .. Len(fifo) - 1, NEW j \in 1 .. Len(fifo) - 1,
                      i < j, fifo[i + 1] # 0, fifo[j + 1] # 0
               PROVE  fifo[i + 1] <= fifo[j + 1]
    BY <1>3
  <2>1. i + 1 \in DOMAIN fifo /\ j + 1 \in DOMAIN fifo /\ i + 1 < j + 1
    BY <1>3
  <2> QED
    BY <2>1 DEF ModuleInOrder
<1>9. \A r \in accepted : r > heard' => \E i \in DOMAIN fifo' : fifo'[i] = r
  <2> SUFFICES ASSUME NEW r \in accepted, r > heard'
               PROVE  \E i \in DOMAIN fifo' : fifo'[i] = r
    OBVIOUS
  <2>1. r > heard /\ r \in Nat
    BY <1>2, <1>6
  <2>2. PICK i \in 1 .. Len(fifo) : fifo[i] = r
    BY <1>3, <2>1 DEF ModuleInOrder
  <2>3. i # 1
    BY <1>1, <1>2, <1>3, <2>1, <2>2
  <2>4. i - 1 \in DOMAIN fifo' /\ fifo'[i - 1] = fifo[i]
    BY <1>3, <2>3
  <2> QED
    BY <2>2, <2>4
<1>10. ASSUME heard' # heard
       PROVE  /\ heard' > heard
              /\ \A r \in (heard + 1) .. (heard' - 1) : r \notin accepted
  <2>1. heard' = fifo[1] /\ fifo[1] # 0 /\ heard' > heard
    BY <1>1, <1>2, <1>3, <1>6, <1>10
  <2>0. PICK h \in 0 .. sent : h = heard'
    BY <1>6
  <2>2. ASSUME NEW r \in accepted, r > heard, r < h
        PROVE  FALSE
    <3>1. r \in Nat /\ r # 0
      BY <1>2, <2>2
    <3>2. PICK i \in 1 .. Len(fifo) : fifo[i] = r
      BY <1>3, <2>2 DEF ModuleInOrder
    <3>3. i # 1
      BY <2>0, <2>1, <2>2, <3>1, <3>2
    <3>4. 1 < i /\ 1 \in DOMAIN fifo /\ i \in DOMAIN fifo
      BY <1>3, <3>3
    <3>5. fifo[1] <= fifo[i]
      BY <2>1, <3>1, <3>2, <3>4 DEF ModuleInOrder
    <3> QED
      BY <1>4, <2>0, <2>1, <2>2, <3>1, <3>2, <3>5
  <2>3. \A r \in (heard + 1) .. (h - 1) : r > heard /\ r < h
    <3>1. heard \in Int /\ h \in Int
      BY <1>2
    <3> QED
      BY <3>1
  <2> QED
    BY <2>0, <2>1, <2>2, <2>3
<1> QED
  BY <1>1, <1>2, <1>3, <1>6, <1>7, <1>8, <1>9, <1>10 DEF ModuleInOrder

-----------------------------------------------------------------------------
(* The acknowledgements.                                                   *)

AckKinds == {"SUCCESS", "FIFO_HALF", "FIFO_FULL"}

\* An answer to a report that bypasses the buffer strays; the answer to the report
\* in flight is about that report, and a first transmission that finds an older
\* answer waiting strays as well.
LEMMA ReceiveKeepsAcks ==
  ASSUME AcksAreAboutSent, NEW r, Receive(r),
         \/ sent' = sent /\ (strayed => strayed') /\ (acks' # acks => strayed')
         \/ r = sent' /\ sent' = sent /\ (strayed => strayed')
         \/ r = sent' /\ (acks # << >> => strayed')
  PROVE  AcksAreAboutSent'
<1>1. acks \in Seq(AckKinds)
  BY DEF AcksAreAboutSent, AckKinds
<1>2. CASE UNCHANGED <<fifo, acks, accepted>>
  <2>1. CASE sent' = sent /\ (strayed => strayed')
    BY <1>2, <2>1 DEF AcksAreAboutSent
  <2>2. CASE acks # << >> => strayed'
    <3>1. ~strayed' => acks' = << >>
      BY <1>2, <2>2
    <3>2. acks' = << >> => \A i \in DOMAIN acks' : FALSE
      OBVIOUS
    <3> QED
      BY <1>1, <1>2, <3>1, <3>2 DEF AcksAreAboutSent, AckKinds
  <2>3. \/ sent' = sent /\ (strayed => strayed')
        \/ acks # << >> => strayed'
    OBVIOUS
  <2> QED
    BY <2>1, <2>2, <2>3
<1>3. ASSUME NEW a \in AckKinds, acks' = Append(acks, a),
             a # "FIFO_FULL" => accepted' = accepted \cup {r},
             a = "FIFO_FULL" => accepted' = accepted
      PROVE  AcksAreAboutSent'
  <2>1. /\ acks' \in Seq(AckKinds) /\ DOMAIN acks' = 1 .. Len(acks) + 1 /\ Len(acks) \in Nat
        /\ DOMAIN acks = 1 .. Len(acks)
        /\ \A i \in 1 .. Len(acks) : acks'[i] = acks[i]
        /\ acks'[Len(acks) + 1] = a /\ acks' # acks
    BY <1>1, <1>3
  <2>2. ASSUME ~strayed', NEW i \in DOMAIN acks', acks'[i] # "FIFO_FULL"
        PROVE  sent' \in accepted'
    <3>0. r = sent' /\ (acks = << >> \/ (sent' = sent /\ ~strayed))
      BY <2>1, <2>2
    <3>1. accepted \subseteq accepted'
      BY <1>3 DEF AckKinds
    <3>2. CASE i \in 1 .. Len(acks)
      <4>1. acks # << >> /\ acks[i] # "FIFO_FULL"
        BY <1>1, <2>1, <2>2, <3>2
      <4>2. sent \in accepted
        BY <2>1, <3>0, <3>2, <4>1 DEF AcksAreAboutSent
      <4> QED
        BY <3>0, <3>1, <4>1, <4>2
    <3>3. CASE i = Len(acks) + 1
      <4>1. r \in accepted'
        BY <1>3, <2>1, <2>2, <3>3
      <4> QED
        BY <3>0, <4>1
    <3> QED
      BY <2>1, <2>2, <3>2, <3>3
  <2> QED
    BY <2>1, <2>2 DEF AcksAreAboutSent, AckKinds
<1> QED
  BY <1>2, <1>3, ReceiveCases DEF AckKinds

LEMMA ReadKeepsAcks ==
  ASSUME AcksAreAboutSent, acks # << >>, acks' = Tail(acks),
         UNCHANGED <<sent, accepted, strayed>>
  PROVE  AcksAreAboutSent'
<1>1. acks \in Seq(AckKinds)
  BY DEF AcksAreAboutSent, AckKinds
<1>2. /\ acks' \in Seq(AckKinds) /\ DOMAIN acks = 1 .. Len(acks) /\ Len(acks) \in Nat
      /\ DOMAIN acks' = 1 .. Len(acks) - 1
      /\ \A i \in 1 .. Len(acks) - 1 : acks'[i] = acks[i + 1] /\ i + 1 \in DOMAIN acks
  BY <1>1
<1> QED
  BY <1>2 DEF AcksAreAboutSent, AckKinds

-----------------------------------------------------------------------------
(* The step of the invariant.                                              *)

LEMMA LinkStep ==
  ASSUME LinkInv, [LinkNext]_lvars
  PROVE  LinkInv'
<1>1. /\ IndInv /\ InFlight /\ (~Nkro => ModuleInOrder) /\ AcksAreAboutSent
      /\ KeyReportsRetried
      /\ link = "connected" /\ acks \in Seq({"SUCCESS", "FIFO_HALF", "FIFO_FULL"})
  BY DEF LinkInv, InFlight, AcksAreAboutSent
<1>2. IndInv'
  BY <1>1, LinkIndStep
<1>3. /\ sent \in Nat /\ sent' \in Nat /\ tries \in Nat /\ retry \in Nat
      /\ RetryCount \in Nat /\ RetryCount > 0
  BY <1>1, <1>2, NumberFacts, SizeFact DEF IndInv, TypeOK
<1> SUFFICES /\ InFlight' /\ (~Nkro => ModuleInOrder') /\ AcksAreAboutSent'
             /\ KeyReportsRetried'
  BY <1>2 DEF LinkInv
<1>4. CASE Quietly /\ (UNCHANGED module \/ Bypass(0) \/ (Nkro /\ Bypass(issued')))
  <2>1. InFlight'
    BY <1>1, <1>4 DEF InFlight, Quietly
  <2>2. CASE UNCHANGED module
    BY <1>1, <1>4, <2>1, <2>2 DEF module, Quietly, ModuleInOrder, AcksAreAboutSent,
      KeyReportsRetried, NoReportLost
  <2>3. ASSUME NEW r, Bypass(r), r = 0 \/ Nkro
        PROVE  (~Nkro => ModuleInOrder') /\ AcksAreAboutSent' /\ KeyReportsRetried'
    <3>1. /\ Receive(r) /\ sent' = sent
          /\ strayed => strayed'
          /\ acks' # acks => strayed'
      BY <1>4, <2>3 DEF Bypass, Quietly
    <3>2. ~Nkro => ModuleInOrder'
      BY <1>1, <1>3, <2>3, <3>1, ReceiveKeepsOrder
    <3>3. AcksAreAboutSent'
      BY <1>1, <3>1, ReceiveKeepsAcks
    <3>4. accepted \subseteq accepted'
      BY <3>1, ReceiveCases
    <3>5. KeyReportsRetried'
      BY <1>1, <1>4, <3>1, <3>4 DEF Quietly, KeyReportsRetried, NoReportLost
    <3> QED
      BY <3>2, <3>3, <3>5
  <2> QED
    BY <1>4, <2>1, <2>2, <2>3
<1>5. CASE ReadAck
  <2>1. /\ acks # << >> /\ acks' = Tail(acks)
        /\ UNCHANGED <<kb_rpt, sent, tries, link, fifo, accepted, heard, strayed>>
        /\ retry' = IF acks[1] = "FIFO_FULL" THEN retry ELSE 0
    BY <1>1, <1>5, AckCases
  <2>2. InFlight' /\ (~Nkro => ModuleInOrder')
    BY <1>1, <2>1 DEF InFlight, ModuleInOrder
  <2>3. AcksAreAboutSent'
    BY <1>1, <2>1, ReadKeepsAcks
  <2>4. KeyReportsRetried'
    <3>1. 1 \in DOMAIN acks
      BY <1>1, <2>1
    <3>2. ~strayed /\ acks[1] # "FIFO_FULL" => sent \in accepted
      BY <1>1, <3>1 DEF AcksAreAboutSent
    <3> QED
      BY <1>1, <2>1, <3>2 DEF KeyReportsRetried, NoReportLost
  <2> QED
    BY <2>2, <2>3, <2>4
<1>6. CASE RunTask
  <2>0. link' = link
    BY <1>1, <1>6, TaskCases
  <2>1. CASE FirstSent /\ Receive(sent') /\ strayed' = (acks # << >>)
    <3>1. InFlight'
      BY <1>1, <1>3, <2>0, <2>1 DEF FirstSent, InFlight
    <3>2. ~Nkro => ModuleInOrder'
      BY <1>1, <1>3, <2>1, ReceiveKeepsOrder DEF FirstSent
    <3>3. AcksAreAboutSent'
      <4>1. acks # << >> => strayed'
        BY <2>1
      <4> QED
        BY <1>1, <2>1, <4>1, ReceiveKeepsAcks
    <3>4. KeyReportsRetried'
      BY <1>3, <2>1 DEF FirstSent, KeyReportsRetried, NoReportLost
    <3> QED
      BY <3>1, <3>2, <3>3, <3>4
  <2>2. CASE SentAgain /\ Receive(kb_rpt) /\ strayed' = strayed
    <3>0. kb_rpt = sent /\ sent' = sent
      BY <1>1, <2>2 DEF SentAgain, InFlight
    <3>1. InFlight'
      BY <1>1, <1>3, <2>0, <2>2 DEF SentAgain, InFlight
    <3>2. ~Nkro => ModuleInOrder'
      BY <1>1, <1>3, <2>2, <3>0, ReceiveKeepsOrder
    <3>3. AcksAreAboutSent'
      BY <1>1, <2>2, <3>0, ReceiveKeepsAcks
    <3>4. KeyReportsRetried'
      <4>1. tries + retry = RetryCount + 1 /\ retry' = retry - 1 /\ tries' = tries + 1
        BY <1>1, <2>2 DEF SentAgain, InFlight
      <4>2. retry' = 0 => ~(tries' <= RetryCount)
        BY <1>3, <4>1
      <4> QED
        BY <4>2 DEF KeyReportsRetried, NoReportLost
    <3> QED
      BY <3>1, <3>2, <3>3, <3>4
  <2>3. CASE NotSent /\ UNCHANGED module
    BY <1>1, <2>0, <2>3 DEF NotSent, module, InFlight, ModuleInOrder, AcksAreAboutSent,
      KeyReportsRetried, NoReportLost
  <2> QED
    BY <1>1, <1>6, <2>1, <2>2, <2>3, TaskCases
<1>7. CASE Deliver
  <2>1. ~Nkro => ModuleInOrder'
    BY <1>1, <1>3, <1>7, DeliverKeepsOrder
  <2>2. UNCHANGED <<kb_rpt, retry, sent, tries, link, acks, accepted, strayed>>
    BY <1>7 DEF Deliver, vars, flight, history
  <2> QED
    BY <1>1, <2>1, <2>2 DEF InFlight, AcksAreAboutSent, KeyReportsRetried, NoReportLost
<1>8. CASE UNCHANGED lvars
  BY <1>1, <1>8 DEF lvars, vars, flight, history, module, InFlight, ModuleInOrder,
    AcksAreAboutSent, KeyReportsRetried, NoReportLost
<1> QED
  BY <1>1, <1>4, <1>5, <1>6, <1>7, <1>8, QuietSteps DEF LinkNext

LEMMA LinkStart == LinkInit => LinkInv
<1> SUFFICES ASSUME LinkInit PROVE LinkInv
  OBVIOUS
<1>1. RingOK /\ Count = 0
  BY SizeFact DEF LinkInit, RingOK, IndexOK, Count
<1>2. Queued = {} /\ Sorted
  BY <1>1 DEF Queued, Sorted
<1>3. QueueInv
  BY <1>1, <1>2, SizeFact DEF LinkInit, QueueInv, NothingVanishes
<1>4. ScalarOK
  <2>1. /\ kb_rpt \in 0 .. MaxReports /\ retry \in 0 .. RetryCount
        /\ report_age \in 0 .. AgeMax /\ retry_age \in 0 .. AgeMax
        /\ lpm_age \in 0 .. AgeMax /\ uptime \in 0 .. 3
        /\ tries \in 0 .. RetryCount + 1 /\ RetryBudget
    BY SizeFact, NumberFacts DEF LinkInit, RetryBudget
  <2>2. report_interval \in Intervals /\ connection_interval \in ConnIntervals
    <3>1. 1 \in ConnIntervals
      BY ReportBufferAssumption
    <3> QED
      BY <3>1, NumberFacts DEF LinkInit
  <2>3. link \in Links /\ phase \in {"task", "lpm"}
    BY DEF LinkInit, Links
  <2>4. indicating \in BOOLEAN /\ shown \in BOOLEAN
    BY Zenon DEF LinkInit
  <2> QED
    BY <2>1, <2>2, <2>3, <2>4 DEF ScalarOK
<1>5. Timing
  BY NumberFacts DEF LinkInit, Timing
<1>6. IndInv
  BY <1>3, <1>4, <1>5, Parts
<1>7. InFlight /\ ModuleInOrder /\ AcksAreAboutSent /\ KeyReportsRetried
  BY DEF LinkInit, InFlight, ModuleInOrder, AcksAreAboutSent, KeyReportsRetried, NoReportLost
<1> QED
  BY <1>6, <1>7 DEF LinkInv

\* The inductive invariant of the link, whichever acknowledgements are late and
\* whatever is sent past the buffer.
THEOREM LinkInductive == LinkSpec => []LinkInv
<1>1. LinkInv /\ [LinkNext]_lvars => LinkInv'
  BY LinkStep
<1> QED
  BY <1>1, LinkStart, PTL DEF LinkSpec

\* The retries of report_buffer_task end only with a report the module has taken, or
\* when they are used up, unless ack_handler could read an answer to something else
\* while the report was in flight.
THEOREM RetriesWork == LinkSpec => []KeyReportsRetried
<1>1. LinkInv => KeyReportsRetried
  BY DEF LinkInv
<1> QED
  BY <1>1, LinkInductive, PTL

\* The host never hears an older key report after a newer one, however often
\* report_buffer_task sends a report again.
THEOREM HostHearsInOrder == ~Nkro => (LinkSpec => HostInOrder)
<1> SUFFICES ASSUME ~Nkro PROVE LinkSpec => HostInOrder
  OBVIOUS
<1>1. ASSUME LinkInv, [LinkNext]_lvars, heard' # heard
      PROVE  /\ heard' > heard
             /\ \A r \in (heard + 1) .. (heard' - 1) : r \in dropped \/ r \notin accepted
  <2>1. Deliver
    <3>1. IndInv /\ link = "connected" /\ acks \in Seq({"SUCCESS", "FIFO_HALF", "FIFO_FULL"})
      BY <1>1 DEF LinkInv, InFlight, AcksAreAboutSent
    <3>2. UNCHANGED module \/ Bypass(0) => heard' = heard
      BY ReceiveCases DEF module, Bypass
    <3>3. ~(Time \/ KeyReport \/ ConsumerReport \/ SystemReport \/ RunLpm)
      BY <1>1, <3>1, <3>2, QuietSteps
    <3>4. ~ReadAck
      BY <1>1, <3>1, AckCases
    <3>5. ~RunTask
      BY <1>1, <3>1, TaskCases, ReceiveCases DEF module
    <3>6. ~UNCHANGED lvars
      BY <1>1 DEF lvars, module
    <3> QED
      BY <1>1, <3>3, <3>4, <3>5, <3>6 DEF LinkNext
  <2>2. ModuleInOrder /\ sent \in Nat
    BY <1>1, SizeFact DEF LinkInv, IndInv, TypeOK
  <2> QED
    BY <1>1, <2>1, <2>2, DeliverKeepsOrder
<1>2. LinkInv /\ [LinkNext]_lvars
        => [heard' # heard
              => /\ heard' > heard
                 /\ \A r \in (heard + 1) .. (heard' - 1) : r \in dropped \/ r \notin accepted]_lvars
  BY <1>1
<1> QED
  BY <1>2, LinkInductive, PTL DEF LinkSpec, HostInOrder
=============================================================================
