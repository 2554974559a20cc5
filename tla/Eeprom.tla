------------------------------- MODULE Eeprom -------------------------------
(***************************************************************************)
(* What the emulated EEPROM promises its users (wear_leveling.h), without  *)
(* the log: "live" is what a read returns, "durable" is what a restart     *)
(* would find.  While a call runs, power may be lost at any moment, so     *)
(* every intermediate durable value is visible; once the call has returned *)
(* the two agree.  All of this holds until the store itself fails.         *)
(***************************************************************************)
CONSTANTS Addr,     \* the logical addresses
          Byte      \* the values of a byte; 0 is the erased value

VARIABLES live, durable,
          busy,     \* a call is in progress
          span,     \* the addresses the call may leave torn
          broken    \* an operation of the store has failed

vars == <<live, durable, busy, span, broken>>

Data   == [Addr -> Byte]
Erased == [x \in Addr |-> 0]

AgreeOutside(S, d, e) == \A x \in Addr \ S : d[x] = e[x]

Init == /\ live = Erased /\ durable = Erased
        /\ busy = FALSE /\ span = {} /\ broken = FALSE

\* A write is accepted: its bytes are readable at once.
Begin == /\ ~busy /\ busy'
         /\ span' \in SUBSET Addr
         /\ live' \in Data /\ AgreeOutside(span', live, live')
         /\ UNCHANGED durable

\* The write reaches the store: byte by byte, a byte inside the span may be
\* old, new or zero; no other byte changes.
Persist == /\ busy
           /\ durable' \in Data /\ AgreeOutside(span, durable, durable')
           /\ \A x \in span : durable'[x] \in {durable[x], live[x], 0}
           /\ UNCHANGED <<live, busy, span>>

\* The store is rewritten from the live data: all of it is lost if power goes
\* while it is, and all of it is there afterwards.
Rewrite == /\ busy
           /\ durable' \in {Erased, live}
           /\ UNCHANGED <<live, busy, span>>

\* The call returns, possibly with the step that made the last byte durable.
Return == /\ busy /\ ~busy'
          /\ durable' = live
          /\ \/ AgreeOutside(span, durable, durable')
             \/ durable = Erased
          /\ UNCHANGED <<live, span>>

\* A write of what is already there returns at once.
Skip == /\ ~busy
        /\ span' \in SUBSET Addr
        /\ UNCHANGED <<live, durable, busy>>

\* wear_leveling_erase
Clear == /\ ~busy
         /\ live' = Erased /\ durable' = Erased /\ span' = Addr
         /\ UNCHANGED busy

\* Power is lost and comes back: what is read is what was durable.  The
\* restart may itself rewrite the store.
Restart == /\ live' = durable
           /\ busy' \in BOOLEAN
           /\ span' = {}
           /\ UNCHANGED durable

Works == ~broken' /\ (Begin \/ Persist \/ Rewrite \/ Return \/ Skip \/ Clear \/ Restart)

\* A store that has failed promises nothing more.
Break == /\ broken'
         /\ live' \in Data /\ durable' \in Data
         /\ busy' \in BOOLEAN /\ span' \in SUBSET Addr

Next == (~broken /\ Works) \/ Break

Spec == Init /\ [][Next]_vars
=============================================================================
