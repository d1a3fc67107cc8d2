------------------------------- MODULE MCEvents ------------------------------
(***************************************************************************)
(* Events, for TLC: the ring in RAM (EventRing) and, past its lock, the     *)
(* journal on disk (Journal).  The journal is handed a copy of the event,   *)
(* so a behaviour exercises one of them and leaves the other where it       *)
(* starts.                                                                  *)
(***************************************************************************)
EXTENDS EventRing

CONSTANTS Emitters, Capacity, QueueDepth, MaxSubmits, MaxResets

VARIABLES
  emitted, inflight, boot_seen, events, started, boot, pending, writer, store,
  file, resets, committed, overwrites,
  service     \* the one at work: "ring" or "journal"

J == INSTANCE Journal WITH MaxEvents <- MaxSubmits

ASSUME J!CapacityAssumption

journal == <<emitted, inflight, boot_seen, events, started, boot, pending, writer, store,
             file, resets, committed, overwrites>>
EventsVars == <<vars, journal, service>>

EventsInit == Init /\ J!Init /\ service \in {"ring", "journal"}

EventsNext ==
  \/ service = "ring" /\ Next /\ UNCHANGED <<journal, service>>
  \/ service = "journal" /\ J!Next /\ UNCHANGED <<vars, service>>

EventsSpec ==
  /\ EventsInit /\ [][EventsNext]_EventsVars
  /\ service = "journal" => J!Fairness

(* The ring holds exactly the newest events, and a visit shows them in      *)
(* ascending order without a repeat, whatever is emitted or cleared between *)
(* its steps (event.c); indexes, counts and the journal's queue stay within *)
(* their bounds (journal.c).                                                *)
RingIsOrdered == TypeOK /\ J!TypeOK /\ HoldsTheNewest /\ VisitAscends

(* Journal: a record whose append returned 0 stays readable, across failed  *)
(* writes and resets, until the write that takes its slot (journal_store.c). *)
CommittedIsKept == J!CommittedIsKept

(* Journal: no sequence number is used for two events, no event is recorded *)
(* twice, and the boot numbers tell the boots apart, after torn and failed  *)
(* writes and resets (journal_store.c, journal.c).                          *)
NumbersAreUnambiguous == J!OneSequencePerEvent /\ J!BootNumbersTellBootsApart

(* Journal: what was queued in the last boot is recorded, after any         *)
(* sequence of failures and resets (journal.c).                             *)
QueuedIsRecorded == J!QueuedIsRecorded
=============================================================================
