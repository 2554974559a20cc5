---------------------------- MODULE ReportBuffer ----------------------------
(***************************************************************************)
(* The wireless report buffer (common/wireless/report_buffer.c), with the  *)
(* two senders of wireless.c that fill it, the acknowledgement handler of  *)
(* lkbt51.c that drives its retries, and the low power task of lpm.c that  *)
(* empties it.  Everything runs in one main loop: a pass runs              *)
(* report_buffer_task, then lpm_task; acknowledgements, link events and    *)
(* key reports are handled between passes ("phase"), and the millisecond   *)
(* clock advances there.                                                   *)
(*                                                                         *)
(* A report is the number of the report_buffer_enqueue call that carried   *)
(* it; 0 is REPORT_TYPE_NONE.  Timers are kept as ages, saturated one past *)
(* the largest limit they are compared with, which loses no comparison.    *)
(***************************************************************************)
EXTENDS Integers, Sequences

CONSTANTS QueueSize,      \* REPORT_BUFFER_QUEUE_SIZE (256)
          RetryCount,     \* RETPORT_RETRY_COUNT (30)
          RetryDelay,     \* ms before a retry (2)
          HalfStep,       \* ms added on ACK_FIFO_HALF_WARNING (5)
          FullStep,       \* ms added on ACK_FIFO_FULL_ERROR (10)
          ConnIntervals,  \* values connection_interval may take
          LpmTime,        \* RUN_MODE_PROCESS_TIME (1000)
          MaxReports      \* bound: reports enqueued in a behaviour

ASSUME ReportBufferAssumption ==
  /\ QueueSize \in Nat /\ QueueSize >= 2
  /\ RetryCount \in Nat \ {0}
  /\ RetryDelay \in Nat /\ HalfStep \in Nat /\ FullStep \in Nat
  /\ LpmTime \in Nat /\ LpmTime >= 2 /\ RetryDelay < LpmTime
  /\ ConnIntervals \subseteq Nat /\ 1 \in ConnIntervals
  /\ \A c \in ConnIntervals : c + HalfStep < LpmTime /\ c + FullStep < LpmTime
  /\ MaxReports \in Nat

VARIABLES queue, head, tail,      \* report_buffer_queue and its two indices
          kb_rpt, retry,          \* the report in flight and its retries left
          report_interval, connection_interval,
          report_age,             \* ms since report_timer_buffer
          retry_age,              \* ms since retry_time_buffer
          lpm_age,                \* ms since lpm_timer_buffer
          uptime,                 \* timer_read32(), restarted by a wakeup
          link,                   \* what wireless_state means to the senders
          indicating,             \* indicator_config.value # 0
          shown,                  \* indicator_set last took WT_CONNECTED
          phase,                  \* the part of the main loop that is next
          issued, dropped, sent, tries   \* history: see below

ring    == <<queue, head, tail>>
flight  == <<kb_rpt, retry>>
pace    == <<report_interval, connection_interval>>
ages    == <<report_age, retry_age, lpm_age, uptime>>
history == <<issued, dropped, sent, tries>>
light   == <<indicating, shown>>
vars    == <<ring, flight, pace, ages, link, light, phase, history>>

AgeMax == LpmTime + 1
Links  == {"connected", "pincode", "down"}  \* pincode: WT_PARING and pincodeEntry
Intervals == ConnIntervals \cup {c + HalfStep : c \in ConnIntervals}
                           \cup {c + FullStep : c \in ConnIntervals}
Report == 1 .. MaxReports

Older(age) == IF age < AgeMax THEN age + 1 ELSE age

-----------------------------------------------------------------------------
(* The ring.                                                               *)

Slot(i)  == i % QueueSize
Count    == (head - tail) % QueueSize
Contents == [i \in 1 .. Count |-> queue[Slot(tail + i - 1)]]
Queued   == {Contents[i] : i \in 1 .. Count}

report_buffer_is_empty == head = tail
FullNever == FALSE   \* mutant: the full test is missing
Full    == Slot(head + 1) = tail
Pending == ~report_buffer_is_empty \/ retry > 0

report_buffer_next_inverval == report_age > report_interval

\* memset, both indices and retry to 0, and the report timer restarted.
report_buffer_init ==
  /\ queue' = [i \in 0 .. QueueSize - 1 |-> 0]
  /\ head' = 0 /\ tail' = 0
  /\ retry' = 0
  /\ report_age' = 0
  /\ dropped' = dropped \cup Queued
  /\ UNCHANGED kb_rpt

\* The callers ignore the result: a report that finds the queue full is lost.
report_buffer_enqueue(r) ==
  IF Full
  THEN /\ dropped' = dropped \cup {r}
       /\ UNCHANGED ring
  ELSE /\ queue' = [queue EXCEPT ![head] = r]
       /\ head' = Slot(head + 1)
       /\ UNCHANGED <<tail, dropped>>

\* Mutants: the tail index does not wrap; the slot is read after the advance.
DequeueNoWrap ==
  /\ ~report_buffer_is_empty
  /\ kb_rpt' = queue[tail] /\ tail' = tail + 1
  /\ UNCHANGED <<queue, head>>
DequeueReadsNext ==
  /\ ~report_buffer_is_empty
  /\ kb_rpt' = queue[Slot(tail + 1)] /\ tail' = Slot(tail + 1)
  /\ UNCHANGED <<queue, head>>

report_buffer_dequeue ==
  /\ ~report_buffer_is_empty
  /\ kb_rpt' = queue[tail]
  /\ tail' = Slot(tail + 1)
  /\ UNCHANGED <<queue, head>>

-----------------------------------------------------------------------------
Init ==
  /\ queue = [i \in 0 .. QueueSize - 1 |-> 0] /\ head = 0 /\ tail = 0
  /\ kb_rpt = 0 /\ retry = 0
  /\ report_interval = 1 /\ connection_interval = 1
  /\ report_age = 0 /\ retry_age = 0 /\ lpm_age = 0 /\ uptime = 0
  /\ link = "down" /\ indicating = FALSE /\ shown = FALSE /\ phase = "task"
  /\ issued = 0 /\ dropped = {} /\ sent = 0 /\ tries = 0

Tick ==
  /\ phase = "task"
  /\ report_age' = Older(report_age) /\ retry_age' = Older(retry_age)
  /\ lpm_age' = Older(lpm_age) /\ uptime' = IF uptime > 2 THEN uptime ELSE uptime + 1
  /\ UNCHANGED <<ring, flight, pace, link, light, phase, history>>

\* The next report goes into the buffer.
Issue ==
  /\ issued < MaxReports
  /\ issued' = issued + 1
  /\ report_buffer_enqueue(issued + 1)

\* wireless_send_keyboard and wireless_send_nkro, from a key event, which has
\* restarted the low power timer (process_record_wireless).
SendKeyboard ==
  /\ phase = "task" /\ link \in {"connected", "pincode"}
  /\ Issue
  /\ lpm_age' = 0
  /\ UNCHANGED <<flight, pace, report_age, retry_age, uptime, link, light,
                 phase, sent, tries>>

\* wireless_send_consumer: straight to the module when nothing is queued and
\* the interval is over, through the buffer otherwise.
SendConsumer ==
  /\ phase = "task" /\ link = "connected"
  /\ IF report_buffer_is_empty /\ report_buffer_next_inverval
     THEN report_age' = 0 /\ UNCHANGED <<ring, issued, dropped>>
     ELSE Issue /\ UNCHANGED report_age
  /\ lpm_age' = 0
  /\ UNCHANGED <<flight, pace, retry_age, uptime, link, light, phase,
                 sent, tries>>

\* ack_handler: which of the module's acknowledgements touch the buffer, and how.
AckFullGivesUp == retry' = 0 /\ report_interval' = connection_interval + FullStep  \* mutant
AckSuccess == retry' = 0 /\ report_interval' = connection_interval
AckHalf    == retry' = 0 /\ report_interval' = connection_interval + HalfStep
AckFull    == report_interval' = connection_interval + FullStep /\ UNCHANGED retry
AckBad     == UNCHANGED <<retry, report_interval>>   \* ACK_CHECKSUM_ERROR

ack_handler(status) ==
  /\ phase = "task"
  /\ CASE status = "SUCCESS"   -> AckSuccess
       [] status = "FIFO_HALF" -> AckHalf
       [] status = "FIFO_FULL" -> AckFull
       [] OTHER                -> AckBad
  /\ UNCHANGED <<ring, kb_rpt, connection_interval, ages, link, light,
                 phase, history>>

\* EVT_CONECTION_INTERVAL.
SetInterval(c) ==
  /\ phase = "task"
  /\ connection_interval' = c /\ report_interval' = c
  /\ UNCHANGED <<ring, flight, ages, link, light, phase, history>>

\* EVT_CONNECTED, possibly repeated by the module.  indicator_set starts the
\* indicator unless this state is the one it was last given; clear_keyboard may
\* produce a release report.
LinkUp(release) ==
  /\ phase = "task"
  /\ link' = "connected"
  /\ shown' = TRUE
  /\ indicating' = (~shown \/ indicating)
  /\ IF release THEN Issue ELSE UNCHANGED <<ring, issued, dropped>>
  /\ UNCHANGED <<flight, pace, ages, phase, sent, tries>>

\* EVT_DISCONNECTED: the indicator goes off, the buffer is cleared, and the low
\* power timer restarts if the link was up.
LinkDown ==
  /\ phase = "task"
  /\ link' = "down"
  /\ shown' = FALSE /\ indicating' = FALSE
  /\ report_buffer_init
  /\ lpm_age' = IF link = "connected" THEN 0 ELSE lpm_age
  /\ UNCHANGED <<pace, retry_age, uptime, phase, issued, sent, tries>>

\* The other changes of wireless_state: a pairing, connection, reset or sleep
\* event or request, with (quiet = FALSE) or without a call of indicator_set,
\* which starts the indicator or, for sleep, turns it off.  The buffer is left
\* as it is.
LinkOther(l, quiet) ==
  /\ phase = "task" /\ (link # l \/ ~quiet)
  /\ link' = l
  /\ IF quiet THEN UNCHANGED light ELSE shown' = FALSE /\ indicating' \in BOOLEAN
  /\ UNCHANGED <<ring, flight, pace, ages, phase, history>>

\* indicator_timer_cb with its time up.
IndicatorDone ==
  /\ phase = "task" /\ indicating
  /\ indicating' = FALSE /\ lpm_age' = 0
  /\ UNCHANGED <<ring, flight, pace, report_age, retry_age, uptime, link, shown,
                 phase, history>>

-----------------------------------------------------------------------------
(* report_buffer_task.                                                     *)

Due == link = "connected" /\ Pending /\ report_buffer_next_inverval

\* Mutant: a transmission does not restart the low power timer.
TransmittedNoLpm == report_age' = 0 /\ retry_age' = 0 /\ UNCHANGED <<lpm_age, uptime>>

\* A transmission restarts the three timers.
Transmitted == report_age' = 0 /\ retry_age' = 0 /\ lpm_age' = 0 /\ UNCHANGED uptime

TaskFirst ==
  /\ Due /\ retry = 0
  /\ report_buffer_dequeue
  /\ IF uptime > 2
     THEN /\ retry' = RetryCount /\ Transmitted
          /\ sent' = kb_rpt' /\ tries' = 1 /\ UNCHANGED dropped
     ELSE \* right after a wakeup the report is taken and never transmitted
          /\ dropped' = dropped \cup {kb_rpt'}
          /\ UNCHANGED <<retry, ages, sent, tries>>

\* Mutant: the retry counter is not decremented.
TaskRetryForever ==
  /\ Due /\ retry > 0 /\ retry_age > RetryDelay
  /\ Transmitted /\ tries' = tries + 1
  /\ UNCHANGED <<ring, flight, dropped, sent>>

\* Mutant: the last retry is never given up.
TaskRetryKeepsLast ==
  /\ Due /\ retry > 0 /\ retry_age > RetryDelay
  /\ retry' = (IF retry > 1 THEN retry - 1 ELSE retry) /\ Transmitted
  /\ tries' = IF tries > RetryCount THEN tries ELSE tries + 1
  /\ UNCHANGED <<ring, kb_rpt, dropped, sent>>

TaskRetry ==
  /\ Due /\ retry > 0 /\ retry_age > RetryDelay
  /\ retry' = retry - 1 /\ Transmitted
  /\ tries' = tries + 1
  /\ UNCHANGED <<ring, kb_rpt, dropped, sent>>

TaskIdle ==
  /\ ~Due \/ (retry > 0 /\ retry_age <= RetryDelay)
  /\ UNCHANGED <<ring, flight, ages, dropped, sent, tries>>

report_buffer_task ==
  /\ phase = "task" /\ phase' = "lpm"
  /\ TaskFirst \/ TaskRetry \/ TaskIdle
  /\ UNCHANGED <<pace, link, light, issued>>

-----------------------------------------------------------------------------
(* lpm_task.  Its other conditions (transport, USB power, lighting, matrix) *)
(* only make sleep rarer: here they are left open.                          *)

lpm_sleep ==
  /\ lpm_age > LpmTime /\ ~indicating
  /\ report_buffer_init
  /\ lpm_age' = 0
  /\ uptime' \in {0, uptime}      \* the wakeup may restart the system timer
  /\ UNCHANGED <<retry_age, issued, sent, tries>>

lpm_stay == UNCHANGED <<ring, flight, ages, history>>

lpm_task ==
  /\ phase = "lpm" /\ phase' = "task"
  /\ lpm_sleep \/ lpm_stay
  /\ UNCHANGED <<pace, link, light>>

Next ==
  \/ Tick
  \/ SendKeyboard
  \/ SendConsumer
  \/ \E s \in {"SUCCESS", "FIFO_HALF", "FIFO_FULL", "CHECKSUM"} : ack_handler(s)
  \/ \E c \in ConnIntervals : SetInterval(c)
  \/ \E b \in BOOLEAN : LinkUp(b)
  \/ LinkDown
  \/ \E l \in {"pincode", "down"}, quiet \in BOOLEAN : LinkOther(l, quiet)
  \/ IndicatorDone
  \/ report_buffer_task
  \/ lpm_task

Spec == Init /\ [][Next]_vars

(* The loop never stops running its two tasks, and the hardware clock keeps *)
(* advancing between its passes.                                            *)
Fairness == /\ WF_vars(report_buffer_task)
            /\ WF_vars(lpm_task)
            /\ SF_vars(Tick)

LiveSpec == Spec /\ Fairness

-----------------------------------------------------------------------------
TypeOK ==
  /\ queue \in [0 .. QueueSize - 1 -> 0 .. MaxReports]
  /\ head \in 0 .. QueueSize - 1 /\ tail \in 0 .. QueueSize - 1
  /\ kb_rpt \in 0 .. MaxReports /\ retry \in 0 .. RetryCount
  /\ report_interval \in Intervals /\ connection_interval \in ConnIntervals
  /\ report_age \in 0 .. AgeMax /\ retry_age \in 0 .. AgeMax
  /\ lpm_age \in 0 .. AgeMax /\ uptime \in 0 .. 3
  /\ link \in Links /\ indicating \in BOOLEAN /\ shown \in BOOLEAN
  /\ phase \in {"task", "lpm"}
  /\ issued \in 0 .. MaxReports /\ dropped \subseteq Report
  /\ sent \in 0 .. MaxReports /\ tries \in 0 .. RetryCount + 1

\* Every report is accounted for: the ones the ring holds are exactly those
\* issued after the last one transmitted that no drop removed.  A slot
\* overwritten, skipped or read twice by the index arithmetic breaks it.
NothingVanishes == Queued = {r \in (sent + 1) .. issued : r \notin dropped}

\* report_buffer_task starts reports in the order they were enqueued, and one
\* is passed over only if a full buffer, a clearing or a wakeup dropped it.
InOrder ==
  [][sent' # sent => /\ sent' > sent
                     /\ \A r \in (sent + 1) .. (sent' - 1) : r \in dropped]_vars

\* A report is given to the module at most 1 + RETPORT_RETRY_COUNT times,
\* whatever acknowledgements arrive and whenever.
RetryBudget == tries + retry <= RetryCount + 1

\* Entering low power mode while connected discards no report, queued or in
\* flight, although lpm_task never looks at the buffer it clears: the timers
\* alone must keep it awake.
SleepDropsNothing ==
  [][phase = "lpm" /\ link = "connected"
       => dropped' = dropped /\ retry' = retry]_vars

\* What makes the safety properties inductive: the queued reports are in order
\* and the drops were issued, and the low power timer is never older than the
\* timers that hold a report back.
Sorted == \A i, j \in 1 .. Count : i < j => Contents[i] < Contents[j]
Timing ==
  /\ uptime <= 2 => lpm_age <= uptime
  /\ lpm_age <= retry_age
  /\ shown /\ ~indicating => lpm_age <= report_age
  /\ link = "connected" => shown
  /\ phase = "lpm" /\ link = "connected" /\ Pending /\ ~indicating
       => lpm_age <= LpmTime
IndInv == /\ TypeOK /\ RetryBudget
          /\ NothingVanishes /\ Sorted
          /\ sent <= issued /\ dropped \subseteq 1 .. issued
          /\ Timing

\* While the link stays up every queued report is eventually started (or the
\* wakeup drop takes it): retries of the report in front cannot go on forever.
QueueDrains ==
  \A r \in Report :
    (link = "connected" /\ r \in Queued)
      ~> (sent >= r \/ r \in dropped \/ link # "connected")

\* The ring implements the bounded first-in first-out queue.
Fifo == INSTANCE ReportFifo
          WITH Capacity <- QueueSize - 1, buf <- Contents, cur <- kb_rpt
FifoSpec == Fifo!Spec
=============================================================================
