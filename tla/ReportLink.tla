----------------------------- MODULE ReportLink -----------------------------
(***************************************************************************)
(* The report buffer at work: ReportBuffer composed with the LKBT51 radio  *)
(* module and the host, during one connection.  The module (external) is   *)
(* modelled from how lkbt51.c uses it: it queues the reports it is given,  *)
(* answers each with an acknowledgement, refuses one when its queue is     *)
(* full, and may miss a packet.  lkbt51_task reads the acknowledgements    *)
(* one at a time, whenever the module shows one: before the next pass or   *)
(* long after the 2 ms of a retry.  ack_handler does not look at which     *)
(* report one is for.                                                      *)
(***************************************************************************)
EXTENDS ReportBuffer

CONSTANTS FifoSize,    \* reports the module can hold
          Nkro,        \* keymap_config.nkro: reports go through wireless_send_nkro
          Extras,      \* consumer and system keys are used as well
          MaxAcks      \* bound: acknowledgements waiting to be read

ASSUME ReportLinkAssumption ==
  FifoSize \in Nat \ {0} /\ Nkro \in BOOLEAN /\ Extras \in BOOLEAN /\ MaxAcks \in Nat

VARIABLES fifo,        \* what the module holds: report numbers, 0 for an extra
          acks,        \* acknowledgements not yet read
          accepted,    \* history: the reports the module took
          heard,       \* history: the last report the host received
          strayed      \* history: since the last report was started, an
                       \* acknowledgement of something else was there to be read

module == <<fifo, acks, accepted, heard, strayed>>
lvars  == <<vars, module>>

\* The radio module is given report r (r = 0: a consumer or system report).
Accept(r) ==
  LET taken == Append(fifo, r)
  IN  /\ fifo' = taken /\ accepted' = accepted \cup {r}
      /\ acks' = Append(acks, IF 2 * Len(taken) > FifoSize THEN "FIFO_HALF" ELSE "SUCCESS")
Refuse == acks' = Append(acks, "FIFO_FULL") /\ UNCHANGED <<fifo, accepted>>
Miss   == UNCHANGED <<fifo, acks, accepted>>

Receive(r) ==
  /\ Len(acks) < MaxAcks
  /\ \/ Len(fifo) < FifoSize /\ Accept(r)
     \/ Len(fifo) = FifoSize /\ Refuse
     \/ Miss
  /\ UNCHANGED heard

\* A report that report_buffer_task does not send.
Bypass(r) == Receive(r) /\ strayed' = (strayed \/ acks' # acks)

\* The radio delivers its oldest report.
Deliver ==
  /\ fifo # << >>
  /\ fifo' = Tail(fifo)
  /\ heard' = IF Head(fifo) = 0 THEN heard ELSE Head(fifo)
  /\ UNCHANGED <<vars, acks, accepted, strayed>>

-----------------------------------------------------------------------------
\* The link has been up for a while.
LinkInit ==
  /\ queue = [i \in 0 .. QueueSize - 1 |-> 0] /\ head = 0 /\ tail = 0
  /\ kb_rpt = 0 /\ retry = 0
  /\ report_interval = 1 /\ connection_interval = 1
  /\ report_age = AgeMax /\ retry_age = AgeMax /\ lpm_age = 0 /\ uptime = 3
  /\ link = "connected" /\ indicating = FALSE /\ shown = TRUE /\ phase = "task"
  /\ issued = 0 /\ dropped = {} /\ sent = 0 /\ tries = 0
  /\ fifo = << >> /\ acks = << >> /\ accepted = {} /\ heard = 0
  /\ strayed = FALSE

Time == Tick /\ UNCHANGED module

\* Mutant: wireless_send_keyboard sends the report it has queued.
KeyReportDirect == SendKeyboard /\ Bypass(issued')

\* wireless_send_keyboard only queues; wireless_send_nkro queues and sends.
KeyReport ==
  /\ SendKeyboard
  /\ IF Nkro THEN Bypass(issued') ELSE UNCHANGED module

ConsumerReport ==
  /\ Extras /\ SendConsumer
  /\ IF report_buffer_is_empty /\ report_buffer_next_inverval
     THEN Bypass(0) ELSE UNCHANGED module

\* wireless_send_system never queues.
SystemReport ==
  /\ Extras /\ phase = "task" /\ link = "connected"
  /\ Bypass(0)
  /\ lpm_age' = 0
  /\ UNCHANGED <<ring, flight, pace, report_age, retry_age, uptime, link, light,
                 phase, history>>

\* lkbt51_task finds the interrupt line low and an acknowledgement behind it.
ReadAck ==
  /\ acks # << >>
  /\ ack_handler(Head(acks))
  /\ acks' = Tail(acks)
  /\ UNCHANGED <<fifo, accepted, heard, strayed>>

RunTask ==
  /\ report_buffer_task
  /\ \/ retry' = retry /\ UNCHANGED module
     \/ retry' # retry /\ Receive(kb_rpt')
        /\ strayed' = IF retry = 0 THEN acks # << >> ELSE strayed

RunLpm == lpm_task /\ UNCHANGED module

LinkNext ==
  \/ Time \/ KeyReport \/ ConsumerReport \/ SystemReport
  \/ ReadAck \/ RunTask \/ RunLpm \/ Deliver

LinkSpec == LinkInit /\ [][LinkNext]_lvars

-----------------------------------------------------------------------------
\* The purpose of the retries: the buffer stops offering a report only when the
\* module has taken it, or when all of its retries are used up.
NoReportLost == sent > 0 /\ retry = 0 /\ tries <= RetryCount => sent \in accepted

\* The retries of report_buffer_task do their work, however late acknowledgements
\* are, however full the module and whatever was retried before, unless one of
\* something else (a consumer, system or NKRO report sent past the buffer, or an
\* earlier report that was sent again before its first answer came) could be read
\* while the report was in flight.  An acknowledgement that came late for an
\* earlier report does no harm to the reports after the one it was read with.
KeyReportsRetried == ~strayed => NoReportLost

\* The host receives the key reports in the order of the key events: a press is
\* never replayed after its release.  Between two of them only dropped reports,
\* and those the module never took, are missing.
HostInOrder ==
  [][heard' # heard
       => /\ heard' > heard
          /\ \A r \in (heard + 1) .. (heard' - 1) : r \in dropped \/ r \notin accepted]_lvars

-----------------------------------------------------------------------------
(* What makes the two properties inductive.                                *)

\* The report in flight is the last one started, and it has used or still has
\* all of its transmissions.
InFlight ==
  /\ link = "connected"
  /\ retry > 0 => sent > 0 /\ kb_rpt = sent /\ tries + retry = RetryCount + 1

\* The module holds, in order, every report it took that the host does not have.
ModuleInOrder ==
  /\ accepted \subseteq 0 .. sent /\ heard \in 0 .. sent
  /\ fifo \in Seq(accepted)
  /\ \A i \in DOMAIN fifo : fifo[i] # 0 => fifo[i] >= heard
  /\ \A i, j \in DOMAIN fifo : i < j /\ fifo[i] # 0 /\ fifo[j] # 0 => fifo[i] <= fifo[j]
  /\ \A r \in accepted : r > heard => \E i \in DOMAIN fifo : fifo[i] = r

\* Without a stray acknowledgement, one that ends the retries is about the report in
\* flight.
AcksAreAboutSent ==
  /\ acks \in Seq({"SUCCESS", "FIFO_HALF", "FIFO_FULL"})
  /\ ~strayed => \A i \in DOMAIN acks : acks[i] # "FIFO_FULL" => sent \in accepted

LinkInv == /\ IndInv /\ InFlight /\ AcksAreAboutSent /\ KeyReportsRetried
           /\ ~Nkro => ModuleInOrder
=============================================================================
