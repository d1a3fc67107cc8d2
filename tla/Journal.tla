-------------------------------- MODULE Journal -------------------------------
(***************************************************************************)
(* The event journal (src/journal/journal.c, journal_store.c): emitters     *)
(* queue events without blocking, a writer drains the queue into a ring of  *)
(* checksummed records in a file, and a reset loses everything but the      *)
(* file.  A write that fails or that a reset interrupts leaves the old      *)
(* record, a torn one, or the new one.                                      *)
(***************************************************************************)
EXTENDS Integers, Sequences, FiniteSets, FiniteSetsExt

CONSTANTS
  Emitters,    \* threads that emit events
  Capacity,    \* CONFIG_KFSW_JOURNAL_CAPACITY
  QueueDepth,  \* CONFIG_KFSW_JOURNAL_QUEUE_DEPTH
  MaxEvents,   \* bound: events emitted
  MaxResets    \* bound: resets

(* One record survives the write that tears another.                        *)
CapacityAssumption ==
  /\ Capacity \in Nat /\ Capacity >= 2
  /\ QueueDepth \in Nat \ {0} /\ MaxEvents \in Nat /\ MaxResets \in Nat

VARIABLES
  emitted,   \* events emitted so far (the ring's next_sequence, never reused here)
  inflight,  \* emitter -> the event it has recorded and is submitting
  boot_seen, \* the boot report was queued
  events,    \* the message queue
  started,
  boot,      \* this boot's number, 0 until the store is open
  pending,   \* the record taken from the queue and not yet appended
  writer,    \* where the flush is, and the iterations it has left
  store,     \* ready, sequences per slot, next_sequence, highest_boot
  file,      \* the header and the slots of /kfsw/journal.bin
  resets,    \* resets so far: tells boots apart
  committed, \* history: records whose append returned 0
  overwrites \* history: the newest sequence whose write was begun

ram == <<inflight, boot_seen, events, started, boot, pending, writer, store>>
vars == <<emitted, ram, file, resets, committed, overwrites>>

Slots == 0..Capacity - 1
Slot(sequence) == (sequence - 1) % Capacity
Nothing == [event |-> 0, report |-> FALSE, step |-> "no"]
NoRecord == [sequence |-> 0, boot |-> 0, event |-> 0, report |-> FALSE, reset |-> 0]
Torn == [NoRecord EXCEPT !.sequence = -1]
Blank == [s \in Slots |-> NoRecord]
NoFile == [header |-> "none", slots |-> Blank]
Closed == [ready |-> FALSE, sequences |-> [s \in Slots |-> 0], next_sequence |-> 1, highest_boot |-> 0]

----------------------------------------------------------------------------
(* kfsw_event_emit outside the ring's lock; kfsw_journal_submit *)

Emit(t, report) ==
  /\ inflight[t].step = "no" /\ emitted < MaxEvents
  /\ emitted' = emitted + 1
  /\ inflight' = [inflight EXCEPT ![t] = [event |-> emitted + 1, report |-> report, step |-> "submit"]]
  /\ UNCHANGED <<boot_seen, events, started, boot, pending, writer, store, file, resets, committed, overwrites>>

(* atomic_test_and_set_bit(&boot_seen, boot_bit) *)
FirstReport(t) ==
  IF inflight[t].report /\ boot_seen
    THEN inflight' = [inflight EXCEPT ![t] = Nothing] /\ UNCHANGED boot_seen
    ELSE /\ inflight' = [inflight EXCEPT ![t].step = "put"]
         /\ boot_seen' = (boot_seen \/ inflight[t].report)

Submit(t) ==
  /\ inflight[t].step = "submit"
  /\ FirstReport(t)
  /\ UNCHANGED <<emitted, events, started, boot, pending, writer, store, file, resets, committed, overwrites>>

Full == Len(events) = QueueDepth

(* k_msgq_put with K_NO_WAIT; a report that found no room may be sent again. *)
Put(t) ==
  /\ inflight[t].step = "put"
  /\ IF Full
       THEN /\ boot_seen' = (boot_seen /\ ~inflight[t].report)
            /\ UNCHANGED events
       ELSE /\ events' = Append(events, [event |-> inflight[t].event, report |-> inflight[t].report])
            /\ UNCHANGED boot_seen
  /\ inflight' = [inflight EXCEPT ![t] = Nothing]
  /\ UNCHANGED <<emitted, started, boot, pending, writer, store, file, resets, committed,
                 overwrites>>

----------------------------------------------------------------------------
(* kfsw_journal_store_open *)

Good(s) == file.slots[s].sequence > 0
Kept == {s \in Slots : Good(s)}

NextSequence_OfLastSlot == file.slots[Capacity - 1].sequence + 1

NextSequence == Max({0} \cup {file.slots[s].sequence : s \in Kept}) + 1

HighestBoot == Max({0} \cup {file.slots[s].boot : s \in Kept})

Scanned == [ready |-> TRUE,
            sequences |-> [s \in Slots |-> IF Good(s) THEN file.slots[s].sequence ELSE 0],
            next_sequence |-> NextSequence,
            highest_boot |-> HighestBoot]

To(step) == writer' = [writer EXCEPT !.step = step]

(* open_store: the boot is numbered by the first open that succeeds.        *)
Opened(s) ==
  /\ store' = s
  /\ boot' = IF boot = 0 THEN s.highest_boot + 1 ELSE boot
  /\ To("drain")

Open ==
  /\ writer.step = "open"
  /\ IF store.ready THEN To("drain") /\ UNCHANGED <<store, boot>>
     ELSE \/ file.header = "good" /\ Opened(Scanned)
          \/ file.header = "none" /\ To("create") /\ store' = Closed /\ UNCHANGED boot
          \/ file.header = "bad" /\ store' = Closed /\ To("idle") /\ UNCHANGED boot
  /\ UNCHANGED <<emitted, inflight, boot_seen, events, started, pending, file, resets, committed, overwrites>>

(* The storage is not ready, or a read fails.                               *)
OpenFails ==
  /\ writer.step = "open" /\ ~store.ready
  /\ store' = Closed
  /\ To("idle")
  /\ UNCHANGED <<emitted, inflight, boot_seen, events, started, boot, pending, file, resets, committed, overwrites>>

Create ==
  /\ writer.step = "create"
  /\ file' = [header |-> "good", slots |-> Blank]
  /\ Opened([Closed EXCEPT !.ready = TRUE])
  /\ UNCHANGED <<emitted, inflight, boot_seen, events, started, pending, resets, committed,
                 overwrites>>

(* The file whose header could not be written is removed.                   *)
CreateFails ==
  /\ writer.step = "create"
  /\ To("idle")
  /\ UNCHANGED <<emitted, inflight, boot_seen, events, started, boot, pending, store, file, resets, committed, overwrites>>

----------------------------------------------------------------------------
(* kfsw_journal_start, kfsw_journal_flush *)

Begin(n) == writer' = [step |-> "open", left |-> n]

Start ==
  /\ ~started
  /\ started' = TRUE
  /\ Begin(0)
  /\ UNCHANGED <<emitted, inflight, boot_seen, events, boot, pending, store, file, resets, committed, overwrites>>

Flush ==
  /\ started /\ writer.step = "idle"
  /\ Begin(QueueDepth)
  /\ UNCHANGED <<emitted, inflight, boot_seen, events, started, boot, pending, store, file, resets, committed, overwrites>>

FlushEnds ==
  /\ writer.step = "drain"
  /\ writer.left = 0 \/ (pending = NoRecord /\ events = <<>>)
  /\ To("idle")
  /\ UNCHANGED <<emitted, inflight, boot_seen, events, started, boot, pending, store, file, resets, committed, overwrites>>

Take ==
  /\ writer.step = "drain" /\ writer.left > 0
  /\ pending = NoRecord /\ events # <<>>
  /\ pending' = [sequence |-> 0, boot |-> boot, event |-> Head(events).event,
                 report |-> Head(events).report, reset |-> resets]
  /\ events' = Tail(events)
  /\ UNCHANGED <<emitted, inflight, boot_seen, started, boot, writer, store, file, resets, committed, overwrites>>

Numbered_Afresh == [pending EXCEPT !.sequence = store.next_sequence]

(* A record that is tried again keeps its sequence number.                  *)
Numbered == IF pending.sequence = 0 THEN [pending EXCEPT !.sequence = store.next_sequence] ELSE pending

Stale_EvenSame(sequence) == store.sequences[Slot(sequence)] >= sequence

Stale(sequence) == store.sequences[Slot(sequence)] > sequence

(* kfsw_journal_store_append up to its write.                               *)
AppendBegin ==
  /\ writer.step = "drain" /\ writer.left > 0 /\ pending # NoRecord
  /\ pending' = Numbered
  /\ IF Numbered.sequence > store.next_sequence \/ Stale(Numbered.sequence)
       THEN To("idle") /\ UNCHANGED overwrites
       ELSE /\ writer' = [step |-> "write", left |-> writer.left - 1]
            /\ overwrites' = Max({overwrites, Numbered.sequence})
  /\ UNCHANGED <<emitted, inflight, boot_seen, events, started, boot, store, file, resets, committed>>

InSlot(r) == file' = [file EXCEPT !.slots[Slot(pending.sequence)] = r]

Appended ==
  [store EXCEPT !.sequences[Slot(pending.sequence)] = pending.sequence,
                !.next_sequence = Max({@, pending.sequence + 1}),
                !.highest_boot = Max({@, pending.boot})]

AppendOk ==
  /\ writer.step = "write"
  /\ InSlot(pending)
  /\ store' = Appended
  /\ pending' = NoRecord
  /\ committed' = committed \cup {pending}
  /\ To("drain")
  /\ UNCHANGED <<emitted, inflight, boot_seen, events, started, boot, resets, overwrites>>

(* What an unfinished write leaves.                                         *)
Interrupted ==
  \/ UNCHANGED file
  \/ InSlot(Torn)
  \/ InSlot(pending)

(* The store is read again before it is used again.                         *)
Failed == store' = [store EXCEPT !.ready = FALSE]

AppendFails ==
  /\ writer.step = "write"
  /\ Interrupted
  /\ Failed
  /\ To("idle")
  /\ UNCHANGED <<emitted, inflight, boot_seen, events, started, boot, pending, resets, committed,
                 overwrites>>

----------------------------------------------------------------------------
(* A reset: RAM is lost; a file being created may be left without a header.  *)
Reset ==
  /\ resets < MaxResets
  /\ resets' = resets + 1
  /\ \/ writer.step = "write" /\ Interrupted
     \/ /\ writer.step = "create"
        /\ \E h \in {"none", "bad", "good"} : file' = [header |-> h, slots |-> Blank]
     \/ writer.step \notin {"write", "create"} /\ UNCHANGED file
  /\ inflight' = [t \in Emitters |-> Nothing]
  /\ boot_seen' = FALSE /\ events' = <<>> /\ started' = FALSE /\ boot' = 0
  /\ pending' = NoRecord /\ writer' = [step |-> "idle", left |-> 0] /\ store' = Closed
  /\ UNCHANGED <<emitted, committed, overwrites>>

Init ==
  /\ emitted = 0 /\ inflight = [t \in Emitters |-> Nothing]
  /\ boot_seen = FALSE /\ events = <<>> /\ started = FALSE /\ boot = 0
  /\ pending = NoRecord /\ writer = [step |-> "idle", left |-> 0] /\ store = Closed
  /\ file = NoFile /\ resets = 0 /\ committed = {} /\ overwrites = 0

Writer == Open \/ Create \/ FlushEnds \/ Take \/ AppendBegin \/ AppendOk
Fails == OpenFails \/ CreateFails \/ AppendFails

Next ==
  \/ \E t \in Emitters : (\E report \in BOOLEAN : Emit(t, report)) \/ Submit(t) \/ Put(t)
  \/ Start \/ Flush \/ Writer \/ Fails \/ Reset

Spec == Init /\ [][Next]_vars

(* The writer thread runs once started, and the file system does not fail   *)
(* every time.                                                              *)
Fairness ==
  /\ WF_vars(Start) /\ WF_vars(Flush) /\ WF_vars(Writer \/ Fails)
  /\ SF_vars(Open) /\ SF_vars(Create) /\ SF_vars(AppendOk)

FairSpec == Spec /\ Fairness

----------------------------------------------------------------------------
TypeOK ==
  /\ emitted \in 0..MaxEvents /\ resets \in 0..MaxResets
  /\ Len(events) <= QueueDepth
  /\ started \in BOOLEAN /\ boot_seen \in BOOLEAN
  /\ boot \in 0..MaxResets + 1
  /\ writer.step \in {"idle", "open", "create", "drain", "write"} /\ writer.left \in 0..QueueDepth
  /\ file.header \in {"none", "bad", "good"}
  /\ store.next_sequence \in 1..MaxEvents + 1

(* What kfsw_journal_get can return now, and what it could once its append  *)
(* had returned 0.                                                          *)
Visible == committed \cup {file.slots[s] : s \in Kept}

(* A record whose append returned 0 stays readable in its slot, across      *)
(* failed writes and resets, until the write of the record that takes its   *)
(* place is begun.                                                          *)
CommittedIsKept ==
  \A r \in committed : r.sequence + Capacity > overwrites => file.slots[Slot(r.sequence)] = r

(* No sequence number is used for two events and no event is recorded       *)
(* twice, after a torn write, a failed write that did reach the file, or a   *)
(* reset.                                                                   *)
OneSequencePerEvent == \A a, b \in Visible : a.sequence = b.sequence <=> a.event = b.event

(* The boot number tells the boots of the records apart, although a boot    *)
(* that wrote nothing leaves its number to the next.                        *)
BootNumbersTellBootsApart == \A a, b \in Visible : a.boot = b.boot <=> a.reset = b.reset

Queued(e) == \E i \in 1..Len(events) : events[i].event = e
Recorded(e) == \E r \in committed : r.event = e

(* What was queued is recorded, as long as the file has its header and no   *)
(* reset comes, that is, in the last boot: no sequence of failures, then or *)
(* in the boots before, leaves the writer stuck on a record or loses one.   *)
QueuedIsRecorded ==
  \A e \in 1..MaxEvents :
    (Queued(e) /\ resets = MaxResets /\ file.header # "bad") ~> Recorded(e)

(* journal.h, of kfsw_journal_start: "Failed storage initialization is      *)
(* retried."                                                                *)
InitializationRecovers ==
  \A n \in 0..MaxResets : (started /\ resets = n) ~> (store.ready \/ resets # n)
=============================================================================
