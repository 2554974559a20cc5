---------------------------- MODULE WearLeveling ----------------------------
(***************************************************************************)
(* The EEPROM emulation in flash, quantum/wear_leveling/wear_leveling.c.   *)
(* The backing store holds a consolidated copy of the logical data with    *)
(* its checksum, and after it a log of the writes made since.  A call of   *)
(* the API is a sequence of backing store operations, one step each, and   *)
(* power may be lost between any two of them; wear_leveling_init then      *)
(* rebuilds the cache from what the store holds.                           *)
(*                                                                         *)
(* Bytes are integers and log entries are encoded as in                    *)
(* wear_leveling_internal.h, for the three widths of a backing store       *)
(* write.  Store positions are counted in words.  The checksum is modelled *)
(* as the data it was computed from: two data never share one.  A failure  *)
(* of backing_store_lock, which only makes a call report FAILED after its  *)
(* work is done, is not among the faults.                                  *)
(***************************************************************************)
EXTENDS Integers, Sequences, FiniteSets

CONSTANTS LogicalSize,    \* WEAR_LEVELING_LOGICAL_SIZE
          MultibyteMax,   \* LOG_ENTRY_MULTIBYTE_MAX_BYTES (5)
          Stores,         \* backing stores: see flash
          Byte,           \* values of a byte
          Lengths,        \* lengths of the writes
          Faults,         \* operations of the store that may fail
          MaxWrites, MaxLosses, MaxFaults   \* bounds

ASSUME WearLevelingAssumption ==
  /\ LogicalSize \in Nat \ {0} /\ MultibyteMax \in 1 .. 5
  /\ \A f \in Stores :
       /\ f.WriteSize \in {2, 4, 8} /\ LogicalSize % f.WriteSize = 0
       /\ f.LogWords \in Nat \ {0} /\ f.AddrBase \in Nat \ {0}
       /\ f.Opt64Limit \in 0 .. 64 /\ f.Word01Limit \in 0 .. 64 * f.AddrBase
       /\ LogicalSize <= 8 * f.AddrBase * f.AddrBase
  /\ Byte \subseteq 0 .. 255 /\ {0, 1} \subseteq Byte
  /\ Lengths \subseteq Nat \ {0}
  /\ Faults \subseteq {"unlock", "erase", "write", "read"}
  /\ MaxWrites \in Nat /\ MaxLosses \in Nat /\ MaxFaults \in Nat

VARIABLES flash,       \* the backing store of this build; never changes
          base,        \* the consolidated data in the store
          sum,         \* the checksum words written, and of which data
          log,         \* the words of the write log
          cache, wp,   \* wear_leveling.cache and .write_address, as a log position
          pc,          \* the store operation that is next
          call,        \* the API call in progress: "init" or "write"
          pending,     \* words the write has still to append
          done,        \* words of the consolidated data written so far
          status,      \* what the last call returned
          span,        \* the bytes the last write was about
          failed,      \* history: a call has returned WEAR_LEVELING_FAILED
          misread,     \* history: the recovery judged by a checksum it could not read
          writes, losses, faults   \* history: counts, for the bounds

store  == <<base, sum, log>>
ram    == <<cache, wp, pending, done>>
counts == <<writes, losses, faults>>
vars   == <<flash, store, ram, pc, call, status, span, failed, misread, counts>>

WriteSize   == flash.WriteSize    \* BACKING_STORE_WRITE_SIZE: 2, 4 or 8
LogWords    == flash.LogWords     \* words of the backing store after the checksum
AddrBase    == flash.AddrBase     \* an address byte counts to this (256)
Opt64Limit  == flash.Opt64Limit   \* addresses with a byte entry (64)
Word01Limit == flash.Word01Limit  \* addresses with a word entry (16384)

Addr == 0 .. LogicalSize - 1
Data == [Addr -> 0 .. 255]
Zero == [x \in Addr |-> 0]

Word      == [1 .. WriteSize -> 0 .. 255]
EmptyWord == [i \in 1 .. WriteSize |-> 0]
EmptyLog  == [p \in 0 .. LogWords - 1 |-> EmptyWord]
BaseWords == LogicalSize \div WriteSize
SumWords  == 8 \div WriteSize
NoSum     == [words |-> 0, of |-> Zero]

-----------------------------------------------------------------------------
(* Log entries: raw8 is the union's bytes, cut into words.                 *)

Words(raw8, n) == [i \in 1 .. n |-> SubSeq(raw8, (i - 1) * WriteSize + 1, i * WriteSize)]

\* Words of a multibyte entry: three bytes of header, then the values.
MultibyteWords(l) == (3 + l + WriteSize - 1) \div WriteSize
HeaderWords       == (3 + WriteSize - 1) \div WriteSize

LOG_ENTRY_MAKE_MULTIBYTE(a, v) ==
  LET raw8 == << (Len(v) * 8) + ((a \div (AddrBase * AddrBase)) % 8),
                 (a \div AddrBase) % AddrBase, a % AddrBase >>
              \o v \o [i \in 1 .. 8 |-> 0]
  IN  Words(raw8, MultibyteWords(Len(v)))

LOG_ENTRY_MAKE_OPTIMIZED_64(a, b) == << <<64 + a, b>> >>

LOG_ENTRY_MAKE_WORD_01(a, b) ==
  << <<128 + (b * 32) + ((a \div (2 * AddrBase)) % 32), (a \div 2) % AddrBase>> >>

\* Mutant: the word entry is used at odd addresses too.
IsWord01Odd(a, v) == /\ WriteSize = 2 /\ Len(v) >= 2 /\ a < Word01Limit
                     /\ v[2] = 0 /\ v[1] \in {0, 1}
IsWord01(a, v) == /\ WriteSize = 2 /\ Len(v) >= 2
                  /\ a % 2 = 0 /\ a < Word01Limit
                  /\ v[2] = 0 /\ v[1] \in {0, 1}

\* The bytes the next entry of a write takes, and its words.
EntryBytes(a, v) == IF IsWord01(a, v) THEN 2
                    ELSE IF WriteSize = 2 /\ a < Opt64Limit THEN 1
                    ELSE IF Len(v) >= MultibyteMax THEN MultibyteMax ELSE Len(v)
EntryWords(a, v) == IF IsWord01(a, v) THEN LOG_ENTRY_MAKE_WORD_01(a, v[1])
                    ELSE IF WriteSize = 2 /\ a < Opt64Limit
                         THEN LOG_ENTRY_MAKE_OPTIMIZED_64(a, v[1])
                    ELSE LOG_ENTRY_MAKE_MULTIBYTE(a, SubSeq(v, 1, EntryBytes(a, v)))

\* wear_leveling_write_raw without the store: the words a write appends.
write_raw(a, v) ==
  LET raw[i \in 0 .. Len(v)] ==
        IF i = Len(v) THEN <<>>
        ELSE LET rest == SubSeq(v, i + 1, Len(v))
             IN  EntryWords(a + i, rest) \o raw[i + EntryBytes(a + i, rest)]
  IN  raw[0]

-----------------------------------------------------------------------------
(* Recovery: reading the store, without writing it.                        *)

\* Mutant: the checksum is not compared.
ReadUnchecked == base
read_consolidated == IF sum = [words |-> SumWords, of |-> base] THEN base ELSE Zero

\* The flash behind the backing store is erased and reads as zero.
WordAt(p) == IF p < LogWords THEN log[p] ELSE EmptyWord

\* The effect of the entry at position p on d: the words it takes, whether it
\* is well formed, and the data after it.
Entry(p, d) ==
  LET raw8   == WordAt(p) \o WordAt(p + 1) \o WordAt(p + 2) \o WordAt(p + 3)
      kind   == raw8[1] \div 64
      length == (raw8[1] \div 8) % 8
      addr   == (raw8[1] % 8) * AddrBase * AddrBase + raw8[2] * AddrBase + raw8[3]
      addr64 == raw8[1] % 64
      addr01 == (raw8[1] % 32) * 2 * AddrBase + raw8[2] * 2
      Set(a, v) == [x \in Addr |-> IF x - a + 1 \in DOMAIN v THEN v[x - a + 1] ELSE d[x]]
  IN  CASE kind = 0 /\ addr + length <= LogicalSize ->
             [words |-> MultibyteWords(length), ok |-> TRUE,
              data |-> Set(addr, SubSeq(raw8, 4, 3 + length))]
        [] kind = 0 /\ addr + length > LogicalSize ->
             [words |-> HeaderWords, ok |-> FALSE, data |-> d]
        [] kind = 1 /\ WriteSize = 2 /\ addr64 < LogicalSize ->
             [words |-> 1, ok |-> TRUE, data |-> Set(addr64, <<raw8[2]>>)]
        [] kind = 2 /\ WriteSize = 2 /\ addr01 + 1 < LogicalSize ->
             [words |-> 1, ok |-> TRUE, data |-> Set(addr01, <<(raw8[1] \div 32) % 2, 0>>)]
        [] OTHER -> [words |-> 1, ok |-> FALSE, data |-> d]

\* wear_leveling_playback_log on the data "start" up to the consolidation, when the read
\* of word "bad" fails (no word: LogWords + 4).
playback_log(start, bad) ==
  LET Stop(p, d, ok) == [wp |-> p, data |-> d, ok |-> ok]
      play[p \in 0 .. LogWords + 4, d \in Data] ==
        IF p >= LogWords THEN Stop(p, d, TRUE)
        ELSE IF p = bad THEN Stop(p, d, FALSE)
        ELSE IF log[p] = EmptyWord THEN Stop(p, d, TRUE)
        ELSE LET e == Entry(p, d)
             IN  IF ~e.ok \/ bad \in p .. p + e.words - 1 THEN Stop(p, d, FALSE)
                 ELSE play[p + e.words, e.data]
  IN  play[0, start]

NoBadWord == LogWords + 4
Recovered == playback_log(read_consolidated, NoBadWord)
durable   == Recovered.data

-----------------------------------------------------------------------------
CanFail(op) == op \in Faults /\ faults < MaxFaults

Init ==
  /\ flash \in Stores
  /\ base = Zero /\ sum = NoSum /\ log = EmptyLog
  /\ cache = Zero /\ wp = 0 /\ pending = <<>> /\ done = 0
  /\ pc = "off" /\ call = "init"
  /\ status = "SUCCESS" /\ span = {} /\ failed = FALSE /\ misread = FALSE
  /\ writes = 0 /\ losses = 0 /\ faults = 0

Returns(st) == status' = st /\ failed' = (failed \/ st = "FAILED")

\* The call returns; an init that failed clears the cache.
Finish(st, next_wp) ==
  /\ pc' = "idle" /\ pending' = <<>> /\ done' = 0
  /\ IF call = "init" /\ st = "FAILED"
     THEN cache' = Zero /\ wp' = 0
     ELSE cache' = cache /\ wp' = next_wp
  /\ Returns(st)

-----------------------------------------------------------------------------
(* wear_leveling_init.                                                     *)

\* Mutant: the write address is not moved to the end of the log.
RecoverKeepsAddress(start, bad) ==
  LET r == playback_log(start, bad)
  IN  /\ cache' = r.data /\ wp' = 0
      /\ IF ~r.ok \/ r.wp >= LogWords
         THEN pc' = "erase" /\ UNCHANGED <<status, failed>>
         ELSE pc' = "idle" /\ Returns("SUCCESS")
Recover(start, bad) ==
  LET r == playback_log(start, bad)
  IN  /\ cache' = r.data /\ wp' = r.wp
      /\ IF ~r.ok \/ r.wp >= LogWords
         THEN pc' = "erase" /\ UNCHANGED <<status, failed>>
         ELSE pc' = "idle" /\ Returns("SUCCESS")

\* Either every read works, or the read of one word of the log fails, or that of the
\* consolidated data does, or that of the checksum.  The code does not look at the
\* result of the last: the uninitialised entry it compares then is the checksum of the
\* data by accident, or it is not and the cache is cleared.
wear_leveling_init ==
  /\ pc = "off"
  /\ call' = "init" /\ pending' = <<>> /\ done' = 0 /\ span' = {}
  /\ \/ Recover(read_consolidated, NoBadWord) /\ UNCHANGED <<faults, misread>>
     \/ /\ CanFail("read") /\ faults' = faults + 1
        /\ \/ /\ \E bad \in 0 .. LogWords - 1 : Recover(read_consolidated, bad)
              /\ UNCHANGED misread
           \/ /\ cache' = Zero /\ wp' = 0 /\ pc' = "idle" /\ Returns("FAILED")
              /\ UNCHANGED misread
           \/ \E start \in {base, Zero} :
                Recover(start, NoBadWord) /\ misread' = (start # read_consolidated)
  /\ UNCHANGED <<store, writes, losses>>

-----------------------------------------------------------------------------
(* wear_leveling_write and wear_leveling_erase.                            *)

\* Mutant: the cache is updated only once the write has returned.
CacheLater(a, v) == cache
Updated(a, v) == [x \in Addr |-> IF x - a + 1 \in DOMAIN v THEN v[x - a + 1] ELSE cache[x]]

wear_leveling_write(a, v) ==
  /\ pc = "idle" /\ writes < MaxWrites
  /\ writes' = writes + 1 /\ call' = "write"
  /\ span' = (a .. a + Len(v) - 1) \cap Addr
  /\ \/ /\ a + Len(v) > LogicalSize
        /\ Returns("FAILED") /\ UNCHANGED <<ram, pc, faults>>
     \/ /\ a + Len(v) <= LogicalSize
        /\ [i \in 1 .. Len(v) |-> cache[a + i - 1]] = v
        /\ Returns("SUCCESS") /\ UNCHANGED <<ram, pc, faults>>
     \/ /\ a + Len(v) <= LogicalSize
        /\ [i \in 1 .. Len(v) |-> cache[a + i - 1]] # v
        /\ cache' = Updated(a, v)
        /\ \/ /\ pc' = "append" /\ pending' = write_raw(a, v)
              /\ UNCHANGED <<status, failed, faults>>
           \/ /\ CanFail("unlock") /\ faults' = faults + 1
              /\ Returns("FAILED") /\ UNCHANGED <<pc, pending>>
        /\ UNCHANGED <<wp, done>>
  /\ UNCHANGED <<store, losses>>

\* Mutant: the log is consolidated one word too late.
ConsolidateLate(p) == p > LogWords
consolidate_if_needed(p) == p >= LogWords

\* Mutant: the last word of the log is kept back.
AppendKeepsLast ==
  /\ pc = "append" /\ wp + 1 < LogWords
  /\ log' = [log EXCEPT ![wp] = Head(pending)]
  /\ IF Tail(pending) # <<>>
     THEN /\ wp' = wp + 1 /\ pending' = Tail(pending)
          /\ UNCHANGED <<cache, done, pc, status, failed>>
     ELSE Finish("SUCCESS", wp + 1)
  /\ UNCHANGED <<base, sum, call, span, counts>>

\* One word; the consolidation it may cause is the call's next step.
append_raw ==
  /\ pc = "append"
  /\ log' = [log EXCEPT ![wp] = Head(pending)]
  /\ IF consolidate_if_needed(wp + 1)
     THEN /\ wp' = wp + 1 /\ pc' = "erase" /\ pending' = <<>>
          /\ UNCHANGED <<cache, done, status, failed>>
     ELSE IF Tail(pending) # <<>>
     THEN /\ wp' = wp + 1 /\ pending' = Tail(pending)
          /\ UNCHANGED <<cache, done, pc, status, failed>>
     ELSE Finish("SUCCESS", wp + 1)
  /\ UNCHANGED <<base, sum, call, span, counts>>

\* Mutant: the result of the store is ignored.
AppendIgnoresFailure ==
  /\ pc = "append" /\ CanFail("write") /\ faults' = faults + 1
  /\ Finish("SUCCESS", wp + 1)
  /\ UNCHANGED <<store, call, span, writes, losses>>
append_raw_fails ==
  /\ pc = "append" /\ CanFail("write") /\ faults' = faults + 1
  /\ Finish("FAILED", wp)
  /\ UNCHANGED <<store, call, span, writes, losses>>

wear_leveling_erase ==
  /\ pc = "idle" /\ writes < MaxWrites
  /\ writes' = writes + 1 /\ call' = "write" /\ span' = Addr
  /\ \/ /\ base' = Zero /\ sum' = NoSum /\ log' = EmptyLog
        /\ cache' = Zero /\ wp' = 0 /\ Returns("SUCCESS") /\ UNCHANGED faults
     \/ /\ CanFail("erase") /\ faults' = faults + 1
        /\ cache' = Zero /\ wp' = 0 /\ Returns("FAILED") /\ UNCHANGED store
     \/ /\ CanFail("unlock") /\ faults' = faults + 1
        /\ Returns("FAILED") /\ UNCHANGED <<store, cache, wp>>
  /\ UNCHANGED <<pc, pending, done, losses>>

-----------------------------------------------------------------------------
(* wear_leveling_consolidate_force, a store operation at a time.  Called   *)
(* from wear_leveling_write the store is unlocked already; called from     *)
(* wear_leveling_init it is unlocked after the erase, and a failure to     *)
(* unlock makes the first write fail.                                      *)

consolidate_force ==
  /\ pc = "erase"
  /\ base' = Zero /\ sum' = NoSum /\ log' = EmptyLog
  /\ \/ /\ pc' = "base" /\ done' = 0
        /\ UNCHANGED <<cache, wp, pending, status, failed, faults>>
     \/ /\ call = "init" /\ CanFail("unlock") /\ faults' = faults + 1
        /\ Finish("FAILED", 0)
  /\ UNCHANGED <<call, span, writes, losses>>

\* The erase fails: write_address stays where it is.
consolidate_erase_fails ==
  /\ pc = "erase" /\ CanFail("erase") /\ faults' = faults + 1
  /\ Finish("FAILED", wp)
  /\ UNCHANGED <<store, call, span, writes, losses>>

write_consolidated_data ==
  /\ pc = "base"
  /\ base' = [x \in Addr |-> IF x \div WriteSize = done THEN cache[x] ELSE base[x]]
  /\ done' = done + 1
  /\ pc' = IF done + 1 = BaseWords THEN "sum" ELSE "base"
  /\ UNCHANGED <<sum, log, cache, wp, pending, call, status, span, failed, counts>>

\* Mutant: the write address is not reset after a consolidation.
SumKeepsAddress ==
  /\ pc = "sum"
  /\ sum' = [words |-> sum.words + 1, of |-> cache]
  /\ IF sum.words + 1 = SumWords
     THEN Finish("CONSOLIDATED", wp)
     ELSE UNCHANGED <<ram, pc, status, failed>>
  /\ UNCHANGED <<base, log, call, span, counts>>
write_consolidated_sum ==
  /\ pc = "sum"
  /\ sum' = [words |-> sum.words + 1, of |-> cache]
  /\ IF sum.words + 1 = SumWords
     THEN Finish("CONSOLIDATED", 0)
     ELSE UNCHANGED <<ram, pc, status, failed>>
  /\ UNCHANGED <<base, log, call, span, counts>>

write_consolidated_fails ==
  /\ pc \in {"base", "sum"} /\ CanFail("write") /\ faults' = faults + 1
  /\ Finish("FAILED", 0)
  /\ UNCHANGED <<store, call, span, writes, losses>>

-----------------------------------------------------------------------------
\* Power is lost; the RAM has no meaning until wear_leveling_init has run.
PowerLoss ==
  /\ pc # "off" /\ losses < MaxLosses /\ losses' = losses + 1
  /\ pc' = "off" /\ call' = "init"
  /\ cache' = Zero /\ wp' = 0 /\ pending' = <<>> /\ done' = 0
  /\ span' = {} /\ failed' = FALSE /\ misread' = FALSE
  /\ UNCHANGED <<store, status, writes, faults>>

Values == UNION {[1 .. n -> Byte] : n \in Lengths}

Steps ==
  /\ UNCHANGED flash
  /\ \/ wear_leveling_init
     \/ /\ UNCHANGED misread
        /\ \/ append_raw \/ append_raw_fails
           \/ consolidate_force \/ consolidate_erase_fails
           \/ write_consolidated_data \/ write_consolidated_sum
           \/ write_consolidated_fails

Calls ==
  /\ UNCHANGED <<flash, misread>>
  /\ \/ wear_leveling_erase
     \/ \E a \in Addr, v \in Values : wear_leveling_write(a, v)

Next == Steps \/ Calls \/ (PowerLoss /\ UNCHANGED flash)

Spec     == Init /\ [][Next]_vars
FairSpec == Spec /\ WF_vars(Steps)

-----------------------------------------------------------------------------
(* Properties.                                                             *)

TypeOK ==
  /\ flash \in Stores
  /\ base \in Data /\ cache \in Data
  /\ sum \in [words : 0 .. SumWords, of : Data]
  /\ log \in [0 .. LogWords - 1 -> Word]
  /\ wp \in 0 .. LogWords + 4 /\ done \in 0 .. BaseWords
  /\ pending \in Seq(Word)
  /\ pc \in {"off", "idle", "append", "erase", "base", "sum"}
  /\ call \in {"init", "write"}
  /\ status \in {"FAILED", "SUCCESS", "CONSOLIDATED"} /\ {failed, misread} \subseteq BOOLEAN
  /\ span \subseteq Addr

\* When no call of wear_leveling.c is running and none has reported a failure
\* since power came up, a restart would rebuild exactly the cache that reads
\* are answered from, and would go on appending at the same place: no call
\* that reported success left anything behind in RAM only, wherever in an
\* earlier call power was lost.  A recovery that could not read the checksum reports
\* nothing and may answer reads from the wrong data: nothing is claimed after one.
DurableUnlessReported ==
  pc = "idle" /\ ~failed /\ ~misread => durable = cache /\ Recovered.wp = wp

\* The contract of backing_store_write: a write lies inside the store
\* (tests/backing_mocks.cpp:83) and programs a word that was not programmed since
\* the last erase (tests/backing_mocks.hpp:50), whichever calls and restarts came
\* before, unless an operation of the store has failed.
WritesErasedWords ==
  faults = 0 =>
    /\ pc = "append" => wp < LogWords /\ WordAt(wp) = EmptyWord
    /\ pc = "base" => \A x \in Addr : x \div WriteSize = done => base[x] = 0

\* The bytes a write cut short may change.  With 2-byte words the low byte of
\* the address is in the second word of an entry, so a torn entry clears bytes
\* at the start of the block of AddrBase addresses.
Torn(a) == IF WriteSize = 2 THEN ((a \div AddrBase) * AddrBase) .. a ELSE {a}
TornSpan == UNION {Torn(a) : a \in span} \cap Addr

\* wear_leveling.c implements the emulated EEPROM of Eeprom.tla, power losses
\* included: a byte outside the write in progress keeps its durable value
\* unless the log is being consolidated, and then all is zero until all is
\* written back.
E == INSTANCE Eeprom WITH Byte <- 0 .. 255,
                          live <- IF pc = "off" THEN durable ELSE cache,
                          busy <- pc \notin {"idle", "off"},
                          span <- TornSpan,
                          broken <- faults > 0
ImplementsEeprom == E!Spec

\* Every call returns, and a restart comes back to normal operation.
EveryCallReturns == pc # "idle" ~> pc = "idle"
=============================================================================
