------------------------------- MODULE EventRing ------------------------------
(***************************************************************************)
(* The ring of event records (src/event/event.c): emitted from any thread   *)
(* under a spinlock, cleared, and visited oldest first by readers that take *)
(* the lock once per record.  A record is its sequence number.              *)
(***************************************************************************)
EXTENDS Integers, Sequences

CONSTANTS
  Depth,      \* CONFIG_KFSW_EVENT_RING_DEPTH
  Readers,    \* threads in kfsw_event_visit
  Sources,    \* sources services emit with
  MaxEvents   \* bound: events recorded

ASSUME DepthAssumption == Depth \in Nat \ {0} /\ MaxEvents \in Nat

VARIABLES
  ring,         \* index -> sequence number in the slot, -1 before the first
  oldest_index,
  held_count,
  next_sequence,
  recorded_count,
  overwritten_count,
  rejected,     \* sources whose events were rejected (rejected_count)
  cleared,      \* history: records discarded by kfsw_event_clear
  visit         \* reader -> the index it is at, what it was shown, and whether
                \* a record it passed over was still held (history)

vars == <<ring, oldest_index, held_count, next_sequence, recorded_count, overwritten_count,
          rejected, cleared, visit>>

Declared == {"BOOT", "COMMAND", "FTP", "APP", "FBO", "GNDWDT", "RESMON", "TABLE", "SCRUB", "LIMITS"}

(* source_is_known *)
Known == {"BOOT", "COMMAND", "FTP", "APP", "FBO", "GNDWDT", "RESMON"}

Idle == [on |-> FALSE, index |-> 0, shown |-> <<>>, skipped |-> {}]

At(index) == ring[(oldest_index + index) % Depth]
Held == {At(i) : i \in 0..held_count - 1}

----------------------------------------------------------------------------
Reject(source) ==
  /\ source \notin Known
  /\ rejected' = rejected \cup {source}
  /\ UNCHANGED <<ring, oldest_index, held_count, next_sequence, recorded_count,
                 overwritten_count, cleared, visit>>

WriteIndex == (oldest_index + held_count) % Depth

(* Full: the oldest record is replaced and the loss is counted.             *)
MakeRoom_KeepsOldest ==
  IF held_count = Depth
    THEN overwritten_count' = overwritten_count + 1 /\ UNCHANGED <<oldest_index, held_count>>
    ELSE held_count' = held_count + 1 /\ UNCHANGED <<oldest_index, overwritten_count>>

MakeRoom ==
  IF held_count = Depth
    THEN /\ overwritten_count' = overwritten_count + 1
         /\ oldest_index' = (oldest_index + 1) % Depth
         /\ UNCHANGED held_count
    ELSE held_count' = held_count + 1 /\ UNCHANGED <<oldest_index, overwritten_count>>

Record(source) ==
  /\ source \in Known
  /\ next_sequence < MaxEvents
  /\ MakeRoom
  /\ ring' = [ring EXCEPT ![WriteIndex] = next_sequence]
  /\ next_sequence' = next_sequence + 1
  /\ recorded_count' = recorded_count + 1
  /\ UNCHANGED <<rejected, cleared, visit>>

(* kfsw_event_emit *)
Emit(source) == Reject(source) \/ Record(source)

Forget ==
  /\ held_count' = 0 /\ oldest_index' = 0 /\ UNCHANGED next_sequence

(* kfsw_event_clear *)
Clear ==
  /\ Forget
  /\ cleared' = cleared + held_count
  /\ UNCHANGED <<ring, recorded_count, overwritten_count, rejected, visit>>

----------------------------------------------------------------------------
(* kfsw_event_visit *)

VisitBegin(r) ==
  /\ ~visit[r].on
  /\ visit' = [visit EXCEPT ![r] = [Idle EXCEPT !.on = TRUE]]
  /\ UNCHANGED <<ring, oldest_index, held_count, next_sequence, recorded_count,
                 overwritten_count, rejected, cleared>>

LastShown(r) == IF visit[r].shown = <<>> THEN -1 ELSE visit[r].shown[Len(visit[r].shown)]

(* One record is copied under the lock and shown outside it.                *)
VisitNext(r) ==
  /\ visit[r].on /\ visit[r].index < held_count
  /\ LET s == At(visit[r].index) IN
       visit' = [visit EXCEPT ![r].index = @ + 1, ![r].shown = Append(@, s),
                   ![r].skipped = IF LastShown(r) = -1 THEN {}
                                  ELSE {g \in Held : LastShown(r) < g /\ g < s}]
  /\ UNCHANGED <<ring, oldest_index, held_count, next_sequence, recorded_count,
                 overwritten_count, rejected, cleared>>

(* No more records, or the visitor wants no more.                           *)
VisitEnd(r) ==
  /\ visit[r].on /\ (visit[r].index >= held_count \/ visit[r].index > 0)
  /\ visit' = [visit EXCEPT ![r] = Idle]
  /\ UNCHANGED <<ring, oldest_index, held_count, next_sequence, recorded_count,
                 overwritten_count, rejected, cleared>>

Init ==
  /\ ring = [i \in 0..Depth - 1 |-> -1]
  /\ oldest_index = 0 /\ held_count = 0
  /\ next_sequence = 0 /\ recorded_count = 0 /\ overwritten_count = 0
  /\ rejected = {} /\ cleared = 0
  /\ visit = [r \in Readers |-> Idle]

Next ==
  \/ \E source \in Sources : Emit(source)
  \/ Clear
  \/ \E r \in Readers : VisitBegin(r) \/ VisitNext(r) \/ VisitEnd(r)

Spec == Init /\ [][Next]_vars

----------------------------------------------------------------------------
TypeOK ==
  /\ ring \in [0..Depth - 1 -> -1..MaxEvents - 1]
  /\ oldest_index \in 0..Depth - 1 /\ held_count \in 0..Depth
  /\ next_sequence \in 0..MaxEvents /\ recorded_count \in 0..MaxEvents
  /\ overwritten_count \in 0..MaxEvents /\ cleared \in 0..MaxEvents
  /\ rejected \subseteq Sources
  /\ \A r \in Readers : visit[r].on \in BOOLEAN /\ visit[r].index \in 0..MaxEvents

(* Across wrap-around and clears the ring holds exactly the newest records, *)
(* in order, and the counters account for the others: each was overwritten  *)
(* and counted, or discarded by a clear.                                    *)
HoldsTheNewest ==
  /\ \A i \in 0..held_count - 1 : At(i) = next_sequence - held_count + i
  /\ recorded_count = held_count + overwritten_count + cleared

(* "Visit held records, oldest first": a visitor, interleaved with emitters *)
(* and clears, is never shown a record twice or out of order.               *)
VisitAscends ==
  \A r \in Readers : \A i, j \in 1..Len(visit[r].shown) :
    i < j => visit[r].shown[i] < visit[r].shown[j]

(* event.h, of the sequence number: "a gap means records were lost".        *)
GapMeansLost == \A r \in Readers : visit[r].skipped = {}

(* event.h declares the sources services emit with; stats.rejected counts   *)
(* "Events rejected for an invalid payload size or source".                 *)
DeclaredSourceAccepted == rejected \cap Declared = {}
=============================================================================
