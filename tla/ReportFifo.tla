----------------------------- MODULE ReportFifo -----------------------------
(***************************************************************************)
(* What the report buffer promises its callers: a first-in first-out queue *)
(* of bounded capacity that refuses the newest report when it is full, one *)
(* report at a time taken from its front, and a clearing operation.        *)
(* ReportBuffer (a ring of slots and two indices) is shown to implement it.*)
(***************************************************************************)
EXTENDS Integers, Sequences

CONSTANT Capacity,     \* reports the queue can hold
         Report        \* the reports

VARIABLES buf,         \* the queued reports, oldest first
          cur          \* the report taken last (0 before the first)

Init == buf = << >> /\ cur = 0

Put(r) == /\ Len(buf) < Capacity
          /\ buf' = Append(buf, r)
          /\ UNCHANGED cur

Take == /\ buf # << >>
        /\ cur' = Head(buf)
        /\ buf' = Tail(buf)

Clear == buf' = << >> /\ UNCHANGED cur

Next == (\E r \in Report : Put(r)) \/ Take \/ Clear

Spec == Init /\ [][Next]_<<buf, cur>>
=============================================================================
