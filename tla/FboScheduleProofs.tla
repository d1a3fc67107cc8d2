-------------------------- MODULE FboScheduleProofs --------------------------
(***************************************************************************)
(* For every size of the queue: an accepted upload runs at most once, and   *)
(* one that was given up does not run.  Operators come between the three    *)
(* times the release thread takes queue_lock, so neither is inductive       *)
(* alone: an upload must be in one slot at most, a slot not yet marked      *)
(* RUNNING must hold an upload that has not run, and the slot of a release  *)
(* in flight must stay as it is until it reports.                           *)
(***************************************************************************)
EXTENDS FboSchedule, WellFoundedInduction, TLAPS

(* A non-empty set of natural numbers has a least member.                   *)
LEMMA Least ==
  ASSUME NEW S \in SUBSET Nat, S # {}
  PROVE  \E x \in S : \A y \in S : x <= y
<1> DEFINE R == OpToRel(<, Nat)
<1>1. \A x, y \in Nat : y < x => <<y, x>> \in R
  BY DEF OpToRel
<1>2. IsWellFoundedOn(R, Nat)
  BY NatLessThanWellFounded
<1> HIDE DEF R
<1>3. PICK x \in S : \A y \in S : ~(<<y, x>> \in R)
  BY <1>2, WFMin, Zenon
<1>4. ASSUME NEW y \in S PROVE x <= y
  <2>1. ~(y < x)
    BY <1>1, <1>3, Zenon
  <2>2. QED
    BY <2>1
<1>5. QED
  BY <1>4, Zenon

Kinds == {"RELATIVE", "ABSOLUTE"}
Hashes == {<<>>} \cup {ContentHash(c) : c \in Contents}
SlotType == [used : BOOLEAN, status : Statuses, kind : Kinds, due : Nat,
             content_hash : Hashes, upload : Nat]

(* sweep() that finds an entry due picks one that is due: the search for    *)
(* the earliest, and the first slot among equals, has an answer.            *)
LEMMA CandidateIsDue ==
  ASSUME NEW m \in Nat, NEW t \in Nat \cup {NotSet}, slots \in [Slots -> SlotType],
         Due(m, t) # {}
  PROVE  Candidate(m, t) \in Due(m, t)
<1> DEFINE D == Due(m, t)
           lat(i) == Lateness(slots[i], m, t)
           K == {Latency - lat(i) : i \in D}
<1>1. D \subseteq Nat /\ \A i \in D : lat(i) \in Int /\ Latency - lat(i) \in Nat
  <2>1. Slots \subseteq Nat /\ Latency \in Nat
    BY ScheduleAssumption DEF Slots
  <2>2. ASSUME NEW i \in D PROVE lat(i) \in Int /\ Latency - lat(i) \in Nat
    <3>1. i \in Slots /\ due_now(slots[i], m, t) /\ lat(i) <= Latency
      BY DEF Due
    <3>2. slots[i].due \in Nat
      BY <3>1 DEF SlotType
    <3>3. lat(i) \in Int
      BY <3>1, <3>2 DEF Lateness, due_now
    <3>4. QED
      BY <2>1, <3>1, <3>3
  <2>3. D \subseteq Nat
    BY <2>1 DEF Due
  <2>4. QED
    BY <2>2, <2>3
<1> HIDE DEF D, lat
<1>2. PICK k \in K : \A y \in K : k <= y
  <2>1. K \in SUBSET Nat /\ K # {}
    BY <1>1 DEF D
  <2> HIDE DEF K
  <2>2. QED
    BY <2>1, Least
<1> DEFINE E == {i \in D : Latency - lat(i) = k}
<1>3. PICK e \in E : \A j \in E : e <= j
  <2>1. E \in SUBSET Nat /\ E # {}
    BY <1>1, <1>2
  <2> HIDE DEF E
  <2>2. QED
    BY <2>1, Least
<1>4. ASSUME NEW j \in D \ {e} PROVE lat(e) > lat(j) \/ (lat(e) = lat(j) /\ e < j)
  <2>1. e \in D /\ Latency - lat(e) = k /\ Latency - lat(j) \in K
    BY <1>3
  <2>2. k <= Latency - lat(j)
    BY <1>2, <2>1
  <2>3. e \in Nat /\ j \in Nat /\ lat(e) \in Int /\ lat(j) \in Int /\ Latency \in Nat
    BY <1>1, <2>1, ScheduleAssumption
  <2>4. lat(e) = lat(j) => e <= j
    BY <1>3, <2>1
  <2>5. QED
    BY <2>1, <2>2, <2>3, <2>4
<1>5. \E i \in D : \A j \in D \ {i} : lat(i) > lat(j) \/ (lat(i) = lat(j) /\ i < j)
  BY <1>3, <1>4
<1>6. QED
  BY <1>5 DEF Candidate, D, lat

UploadType == [kind : Kinds, due : Nat, runs : Nat, early : BOOLEAN, late : BOOLEAN,
               cancelled : BOOLEAN, overdue : BOOLEAN, disturbed : BOOLEAN]

GivenUp(r) == r.overdue \/ (r.cancelled /\ ~r.disturbed)

Types ==
  /\ slots \in [Slots -> SlotType]
  /\ uploads \in Seq(UploadType)
  /\ uptime \in Nat /\ offset \in Offsets \cup {NotSet}
  /\ mono \in Nat /\ utc \in Nat \cup {NotSet}
  /\ pc \in {"wait", "sweep", "release", "invoke", "report"}
  /\ candidate \in Slots /\ entry \in Nat

(* An upload is in one slot at most, and a slot is used exactly when it     *)
(* holds one.                                                               *)
OneSlotEach ==
  /\ \A i \in Slots : slots[i].upload <= Len(uploads) /\ (slots[i].used = TRUE <=> slots[i].upload # 0)
  /\ \A i, j \in Slots : slots[i].upload = slots[j].upload /\ slots[i].upload # 0 => i = j

(* What was not released has not run, and what was given up stays where no  *)
(* release takes it.                                                        *)
SlotsAgree ==
  \A i \in Slots : slots[i].upload # 0 =>
    /\ slots[i].status \in {"SCHEDULED", "CANCELLED", "OVERDUE"} => uploads[slots[i].upload].runs = 0
    /\ GivenUp(uploads[slots[i].upload]) =>
         slots[i].status \in {"CANCELLED", "OVERDUE"} /\ ~HandedOver(i)

(* The release in progress: until it is marked RUNNING the slot may be      *)
(* cancelled, cleared and taken again; from then on it is kept.             *)
HandOver ==
  /\ pc = "release" => slots[candidate].status \in {"SCHEDULED", "CANCELLED"}
  /\ pc \in {"invoke", "report"} /\ entry # 0 =>
       /\ slots[candidate].upload = entry /\ slots[candidate].status = "RUNNING"
       /\ pc = "invoke" => uploads[entry].runs = 0

UploadsAgree ==
  \A u \in 1..Len(uploads) :
    uploads[u].runs <= 1 /\ (GivenUp(uploads[u]) => uploads[u].runs = 0)

QueueInv == Types /\ OneSlotEach /\ SlotsAgree /\ HandOver /\ UploadsAgree

(* A function on 1..n is a sequence of length n.                            *)
LEMMA AsSequence ==
  ASSUME NEW T, NEW n \in Nat, NEW f \in [1..n -> T]
  PROVE  f \in Seq(T) /\ Len(f) = n
OBVIOUS

(* kfsw_fbo_schedule_add puts a new upload, which has not run, in a slot    *)
(* that holds none.                                                         *)
LEMMA PlaceKeeps ==
  ASSUME QueueInv, NEW c \in Contents, NEW i \in Free, Place(c, i), UNCHANGED <<clocks, sweeper>>
  PROVE  QueueInv'
<1> DEFINE n == Len(uploads)
           rec == [kind |-> c.kind, due |-> DueAt(c), runs |-> 0, early |-> FALSE, late |-> FALSE,
                   cancelled |-> FALSE, overdue |-> FALSE, disturbed |-> HandedOver(i)]
           new == [used |-> TRUE, status |-> "SCHEDULED", kind |-> c.kind, due |-> DueAt(c),
                   content_hash |-> ContentHash(c), upload |-> n + 1]
<1>1. i \in Slots /\ slots[i].used # TRUE /\ slots[i].upload = 0
  BY DEF Free, QueueInv, Types, SlotType, OneSlotEach
<1>2. n \in Nat /\ c.kind \in Kinds /\ DueAt(c) \in Nat /\ ContentHash(c) \in Hashes
  BY ScheduleAssumption DEF QueueInv, Types, DueAt, Kinds, Hashes
<1>3. HandedOver(i) \in BOOLEAN
  BY DEF HandedOver
<1>4. rec \in UploadType /\ rec.runs = 0
  <2> HIDE DEF HandedOver
  <2>1. QED
    BY <1>2, <1>3 DEF UploadType
<1>5. ~GivenUp(rec)
  BY DEF GivenUp
<1>6. new \in SlotType /\ new.upload = n + 1 /\ new.used = TRUE /\ new.status = "SCHEDULED"
  BY <1>2 DEF SlotType, Statuses
<1>7. slots' = [slots EXCEPT ![i] = new] /\ uploads' = Append(uploads, rec)
  BY DEF Place
<1> HIDE DEF rec, new
<1>8. /\ slots' \in [Slots -> SlotType] /\ slots'[i] = new
      /\ \A k \in Slots : k # i => slots'[k] = slots[k]
  BY <1>1, <1>6, <1>7 DEF QueueInv, Types
<1>9. /\ uploads' \in Seq(UploadType) /\ Len(uploads') = n + 1 /\ uploads'[n + 1] = rec
      /\ \A u \in 1..n : uploads'[u] = uploads[u]
  BY <1>4, <1>7 DEF QueueInv, Types
<1>10. Types'
  BY <1>8, <1>9 DEF QueueInv, Types, clocks, sweeper
<1>11. \A k \in Slots : slots[k].upload \in 0..n
  BY <1>2 DEF QueueInv, Types, SlotType, OneSlotEach
<1>12. OneSlotEach'
  BY <1>1, <1>2, <1>6, <1>8, <1>9, <1>11 DEF QueueInv, OneSlotEach
<1>13. \A k \in Slots : HandedOver(k)' <=> HandedOver(k)
  BY DEF HandedOver, sweeper
<1>14. SlotsAgree'
  <2> SUFFICES ASSUME NEW k \in Slots, slots'[k].upload # 0
      PROVE /\ slots'[k].status \in {"SCHEDULED", "CANCELLED", "OVERDUE"} =>
                 uploads'[slots'[k].upload].runs = 0
            /\ GivenUp(uploads'[slots'[k].upload]) =>
                 slots'[k].status \in {"CANCELLED", "OVERDUE"} /\ ~HandedOver(k)'
    BY DEF SlotsAgree, GivenUp
  <2>1. CASE k = i
    BY <1>4, <1>5, <1>6, <1>8, <1>9, <2>1
  <2>2. CASE k # i
    <3>1. slots'[k] = slots[k] /\ uploads'[slots[k].upload] = uploads[slots[k].upload]
      BY <1>8, <1>9, <1>11, <2>2
    <3>2. QED
      BY <1>13, <3>1 DEF QueueInv, SlotsAgree
  <2>3. QED
    BY <2>1, <2>2
<1>15. HandOver'
  <2>1. UNCHANGED <<pc, candidate, entry>> /\ candidate \in Slots
    BY DEF sweeper, QueueInv, Types
  <2>2. CASE candidate = i
    BY <1>1, <1>6, <1>8, <2>1, <2>2 DEF QueueInv, HandOver
  <2>3. CASE candidate # i
    BY <1>8, <1>9, <1>11, <2>1, <2>3 DEF QueueInv, HandOver
  <2>4. QED
    BY <2>2, <2>3
<1>16. UploadsAgree'
  <2>1. ASSUME NEW u \in 1..n + 1
        PROVE  uploads'[u].runs <= 1 /\ (GivenUp(uploads'[u]) => uploads'[u].runs = 0)
    <3>1. CASE u = n + 1
      BY <1>4, <1>9, <3>1
    <3>2. CASE u \in 1..n
      BY <1>9, <3>2 DEF QueueInv, UploadsAgree
    <3>3. QED
      BY <1>2, <3>1, <3>2
  <2>2. QED
    BY <1>9, <2>1 DEF UploadsAgree, GivenUp
<1>17. QED
  BY <1>10, <1>12, <1>14, <1>15, <1>16 DEF QueueInv

(* kfsw_fbo_schedule_cancel takes an entry that is scheduled, so that has   *)
(* not run; in the hand-over the answer is marked as too late.              *)
LEMMA CancelKeeps ==
  ASSUME QueueInv, NEW i \in Slots, Cancel(i, "OK")
  PROVE  QueueInv'
<1> DEFINE n == Len(uploads)
           w == slots[i].upload
           b == uploads[w].disturbed \/ HandedOver(i)
           rec == [uploads[w] EXCEPT !.cancelled = TRUE, !.disturbed = b]
           new == [slots[i] EXCEPT !.status = "CANCELLED"]
<1>1. slots[i].used = TRUE /\ slots[i].status = "SCHEDULED"
  BY DEF Cancel, CancelAnswer, QueueInv, Types, SlotType
<1>2. n \in Nat /\ w \in 1..n /\ uploads[w] \in UploadType /\ uploads[w].runs = 0
  BY <1>1 DEF QueueInv, Types, SlotType, OneSlotEach, SlotsAgree
<1>3. ~GivenUp(uploads[w])
  BY <1>1, <1>2 DEF QueueInv, SlotsAgree
<1>4. b \in BOOLEAN
  BY DEF HandedOver
<1>5. /\ slots' = [slots EXCEPT ![i] = new] /\ UNCHANGED <<clocks, sweeper>>
      /\ uploads' = [uploads EXCEPT ![w] = rec]
  <2>1. /\ slots' = [slots EXCEPT ![i].status = "CANCELLED"] /\ UNCHANGED <<clocks, sweeper>>
        /\ uploads' = [uploads EXCEPT ![w].cancelled = TRUE, ![w].disturbed = @ \/ HandedOver(i)]
    BY DEF Cancel
  <2>2. uploads \in [1..n -> UploadType]
    BY DEF QueueInv, Types
  <2>3. [uploads EXCEPT ![w].cancelled = TRUE][w].disturbed = uploads[w].disturbed
    BY <1>2, <2>2 DEF UploadType
  <2>4. uploads' = [uploads EXCEPT ![w].cancelled = TRUE, ![w].disturbed = b]
    BY <2>1, <2>3, Zenon
  <2> HIDE DEF b
  <2>5. uploads' = [uploads EXCEPT ![w] = rec]
    BY <1>2, <2>2, <2>4 DEF UploadType
  <2>6. QED
    BY <2>1, <2>5
<1>6. HandedOver(i) => ~GivenUp(rec)
  <2>1. b = TRUE => rec.disturbed = TRUE
    <3> HIDE DEF b
    <3>1. QED
      BY <1>2, <1>4 DEF UploadType
  <2>2. rec.overdue = uploads[w].overdue
    <3> HIDE DEF b
    <3>1. QED
      BY <1>2 DEF UploadType
  <2>3. HandedOver(i) => b = TRUE
    BY <1>4
  <2>4. uploads[w].overdue # TRUE
    BY <1>3, Zenon DEF GivenUp
  <2> HIDE DEF b, rec
  <2>5. uploads[w].overdue \in BOOLEAN
    BY <1>2 DEF UploadType
  <2>6. QED
    BY <2>1, <2>2, <2>3, <2>4, <2>5 DEF GivenUp
<1>7. rec \in UploadType /\ rec.runs = 0
  <2> HIDE DEF b
  <2>1. QED
    BY <1>2, <1>4 DEF UploadType
<1>8. /\ new \in SlotType /\ new.upload = w /\ new.used = slots[i].used
      /\ new.status = "CANCELLED"
  BY DEF QueueInv, Types, SlotType, Statuses
<1> HIDE DEF rec, new, b
<1>9. /\ slots' \in [Slots -> SlotType] /\ slots'[i] = new
      /\ \A k \in Slots : k # i => slots'[k] = slots[k]
  BY <1>5, <1>8 DEF QueueInv, Types
<1>10. /\ uploads' \in Seq(UploadType) /\ Len(uploads') = n /\ uploads'[w] = rec
       /\ \A u \in 1..n : u # w => uploads'[u] = uploads[u]
  BY <1>2, <1>5, <1>7 DEF QueueInv, Types
<1>11. Types'
  BY <1>5, <1>9, <1>10 DEF QueueInv, Types, clocks, sweeper
<1>12. \A k \in Slots : slots[k].upload \in 0..n /\ slots'[k].upload = slots[k].upload
  <2>1. \A k \in Slots : slots[k].upload \in 0..n
    BY <1>2 DEF QueueInv, Types, SlotType, OneSlotEach
  <2>2. \A k \in Slots : slots'[k].upload = slots[k].upload
    BY <1>8, <1>9
  <2>3. QED
    BY <2>1, <2>2
<1>13. OneSlotEach'
  BY <1>8, <1>9, <1>10, <1>12 DEF QueueInv, OneSlotEach
<1>14. \A k \in Slots : HandedOver(k)' <=> HandedOver(k)
  BY <1>5 DEF HandedOver, sweeper
<1>15. SlotsAgree'
  <2> SUFFICES ASSUME NEW k \in Slots, slots'[k].upload # 0
      PROVE /\ slots'[k].status \in {"SCHEDULED", "CANCELLED", "OVERDUE"} =>
                 uploads'[slots'[k].upload].runs = 0
            /\ GivenUp(uploads'[slots'[k].upload]) =>
                 slots'[k].status \in {"CANCELLED", "OVERDUE"} /\ ~HandedOver(k)'
    BY DEF SlotsAgree, GivenUp
  <2>1. CASE k = i
    BY <1>6, <1>7, <1>8, <1>9, <1>10, <1>14, <2>1
  <2>2. CASE k # i
    <3>1. slots[k].upload # w
      BY <1>2, <1>12, <2>2 DEF QueueInv, OneSlotEach
    <3>2. slots'[k] = slots[k] /\ uploads'[slots[k].upload] = uploads[slots[k].upload]
      BY <1>9, <1>10, <1>12, <2>2, <3>1
    <3>3. QED
      BY <1>14, <3>2 DEF QueueInv, SlotsAgree
  <2>3. QED
    BY <2>1, <2>2
<1>16. HandOver'
  <2>1. UNCHANGED <<pc, candidate, entry>> /\ candidate \in Slots
    BY <1>5 DEF sweeper, QueueInv, Types
  <2>2. CASE candidate = i
    BY <1>1, <1>8, <1>9, <2>1, <2>2 DEF QueueInv, HandOver
  <2>3. CASE candidate # i
    <3>1. slots'[candidate] = slots[candidate]
      BY <1>9, <2>1, <2>3
    <3>2. slots[candidate].upload # w
      BY <1>2, <1>12, <2>1, <2>3 DEF QueueInv, OneSlotEach
    <3>3. slots[candidate].upload # 0 => uploads'[slots[candidate].upload] = uploads[slots[candidate].upload]
      BY <1>10, <1>12, <2>1, <3>2
    <3>4. QED
      BY <2>1, <3>1, <3>3 DEF QueueInv, HandOver
  <2>4. QED
    BY <2>2, <2>3
<1>17. UploadsAgree'
  <2>1. ASSUME NEW u \in 1..n
        PROVE  uploads'[u].runs <= 1 /\ (GivenUp(uploads'[u]) => uploads'[u].runs = 0)
    BY <1>7, <1>10 DEF QueueInv, UploadsAgree
  <2>2. QED
    BY <1>10, <2>1 DEF UploadsAgree, GivenUp
<1>18. QED
  BY <1>11, <1>13, <1>15, <1>16, <1>17 DEF QueueInv

(* kfsw_fbo_schedule_clear leaves a release in flight its slot.             *)
LEMMA ClearKeeps ==
  ASSUME QueueInv, Clear
  PROVE  QueueInv'
<1> DEFINE n == Len(uploads)
           d == [u \in 1..n |-> uploads[u].disturbed
                                 \/ \E i \in Dropped : slots[i].upload = u /\ HandedOver(i)]
<1>1. n \in Nat /\ uploads \in [1..n -> UploadType] /\ DOMAIN uploads = 1..n
  BY DEF QueueInv, Types
<1>2. d \in [1..n -> BOOLEAN] /\ \A u \in 1..n : uploads[u].disturbed => d[u]
  BY Zenon
<1>3. uploads' = [u \in 1..n |-> [uploads[u] EXCEPT !.disturbed = d[u]]]
  BY <1>1 DEF Clear
<1> HIDE DEF d
<1>4. \A u \in 1..n : /\ uploads'[u] \in UploadType /\ uploads'[u].runs = uploads[u].runs
                      /\ uploads'[u].disturbed = d[u]
                      /\ uploads'[u].overdue = uploads[u].overdue
                      /\ uploads'[u].cancelled = uploads[u].cancelled
  BY <1>1, <1>2, <1>3 DEF UploadType
<1>5. uploads' \in Seq(UploadType) /\ Len(uploads') = n
  <2>1. uploads' \in [1..n -> UploadType]
    BY <1>3, <1>4
  <2>2. QED
    BY <1>1, <2>1, AsSequence
<1>6. \A u \in 1..n : GivenUp(uploads'[u]) => GivenUp(uploads[u])
  BY <1>2, <1>4, Zenon DEF GivenUp
<1>7. /\ \A k \in Slots : slots'[k] = slots[k] \/ (slots'[k] = Zeroed /\ slots[k].status # "RUNNING")
      /\ UNCHANGED <<clocks, sweeper>> /\ slots' \in [Slots -> SlotType]
      /\ Zeroed.upload = 0 /\ Zeroed.status = "SCHEDULED" /\ Zeroed.used = FALSE
  <2>1. Zeroed \in SlotType /\ Zeroed.upload = 0 /\ Zeroed.status = "SCHEDULED" /\ Zeroed.used = FALSE
    BY DEF Zeroed, SlotType, Statuses, Kinds, Hashes
  <2>2. slots' = [k \in Slots |-> IF k \in Dropped THEN Zeroed ELSE slots[k]] /\ UNCHANGED <<clocks, sweeper>>
    BY DEF Clear
  <2>3. \A k \in Dropped : slots[k].status # "RUNNING"
    BY DEF Dropped
  <2>4. QED
    BY <2>1, <2>2, <2>3 DEF QueueInv, Types
<1>8. Types'
  BY <1>5, <1>7 DEF QueueInv, Types, clocks, sweeper
<1>9. \A k \in Slots : slots[k].upload \in 0..n
  BY <1>1 DEF QueueInv, Types, SlotType, OneSlotEach
<1>10. OneSlotEach'
  BY <1>1, <1>5, <1>7, <1>9 DEF QueueInv, OneSlotEach
<1>11. \A k \in Slots : HandedOver(k)' <=> HandedOver(k)
  BY <1>7 DEF HandedOver, sweeper
<1>12. SlotsAgree'
  <2> SUFFICES ASSUME NEW k \in Slots, slots'[k].upload # 0
      PROVE /\ slots'[k].status \in {"SCHEDULED", "CANCELLED", "OVERDUE"} =>
                 uploads'[slots'[k].upload].runs = 0
            /\ GivenUp(uploads'[slots'[k].upload]) =>
                 slots'[k].status \in {"CANCELLED", "OVERDUE"} /\ ~HandedOver(k)'
    BY DEF SlotsAgree, GivenUp
  <2>1. slots'[k] = slots[k] /\ slots[k].upload \in 1..n
    BY <1>7, <1>9
  <2>2. QED
    BY <1>4, <1>6, <1>11, <2>1 DEF QueueInv, SlotsAgree
<1>13. HandOver'
  <2>1. UNCHANGED <<pc, candidate, entry>> /\ candidate \in Slots
    BY <1>7 DEF sweeper, QueueInv, Types
  <2>2. pc = "release" => slots'[candidate].status \in {"SCHEDULED", "CANCELLED"}
    BY <1>7, <2>1 DEF QueueInv, HandOver
  <2>3. ASSUME pc \in {"invoke", "report"}, entry # 0
        PROVE  /\ slots'[candidate].upload = entry /\ slots'[candidate].status = "RUNNING"
               /\ pc = "invoke" => uploads'[entry].runs = 0
    <3>1. slots'[candidate] = slots[candidate] /\ slots[candidate].upload = entry
      BY <1>7, <2>1, <2>3 DEF QueueInv, HandOver
    <3>2. entry \in 1..n
      BY <1>9, <2>1, <2>3, <3>1
    <3>3. QED
      BY <1>4, <2>3, <3>1, <3>2 DEF QueueInv, HandOver
  <2>4. QED
    BY <2>1, <2>2, <2>3 DEF HandOver
<1>14. UploadsAgree'
  <2>1. ASSUME NEW u \in 1..n
        PROVE  uploads'[u].runs <= 1 /\ (GivenUp(uploads'[u]) => uploads'[u].runs = 0)
    BY <1>4, <1>6 DEF QueueInv, UploadsAgree
  <2>2. QED
    BY <1>5, <2>1 DEF UploadsAgree, GivenUp
<1>15. QED
  BY <1>8, <1>10, <1>12, <1>13, <1>14 DEF QueueInv

(* A turn of sweep() gives up the late entries, which have not run, and     *)
(* hands over one that is scheduled and due.                                *)
LEMMA PickKeeps ==
  ASSUME QueueInv, NEW m \in Nat, NEW t \in Nat \cup {NotSet}, Pick(m, t), pc \in {"wait", "sweep"},
         mono' \in Nat, utc' \in Nat \cup {NotSet}, UNCHANGED <<clocks, entry>>
  PROVE  QueueInv'
<1> DEFINE n == Len(uploads)
           L == Late(m, t)
           o == [u \in 1..n |-> uploads[u].overdue \/ \E i \in L : slots[i].upload = u]
           l == [u \in 1..n |-> uploads[u].late \/ (Due(m, t) # {}
                      /\ slots[Candidate(m, t)].upload = u /\ ReallyLate(Candidate(m, t)))]
<1>1. n \in Nat /\ uploads \in [1..n -> UploadType] /\ DOMAIN uploads = 1..n
  BY DEF QueueInv, Types
<1>2. o \in [1..n -> BOOLEAN] /\ l \in [1..n -> BOOLEAN]
  BY Zenon
<1>3. \A u \in 1..n : o[u] => uploads[u].overdue \/ \E i \in L : slots[i].upload = u
  BY Zenon
<1>4. uploads' = [u \in 1..n |-> [uploads[u] EXCEPT !.overdue = o[u], !.late = l[u]]]
  BY <1>1 DEF Pick
<1>5. L \subseteq Slots /\ L \cap Due(m, t) = {} /\ \A k \in L : slots[k].status = "SCHEDULED"
  <2>1. \A k \in L : k \in Slots /\ slots[k].status = "SCHEDULED" /\ Lateness(slots[k], m, t) > Latency
    BY DEF Late, Waiting
  <2>2. \A k \in L : due_now(slots[k], m, t)
    BY DEF Late
  <2>3. \A k \in Slots : slots[k].due \in Nat
    BY DEF QueueInv, Types, SlotType
  <2>4. \A k \in L : Lateness(slots[k], m, t) \in Int
    BY <2>1, <2>2, <2>3 DEF Lateness, due_now
  <2>5. \A k \in L : ~(Lateness(slots[k], m, t) <= Latency)
    BY <2>1, <2>4, ScheduleAssumption
  <2>6. QED
    BY <2>1, <2>5 DEF Due
<1>6. /\ slots' = [k \in Slots |-> IF k \in L THEN [slots[k] EXCEPT !.status = "OVERDUE"] ELSE slots[k]]
      /\ (pc' = "release" /\ Due(m, t) # {} /\ candidate' = Candidate(m, t))
         \/ (pc' = "wait" /\ candidate' = candidate)
  BY DEF Pick
<1>7. pc' = "release" => candidate' \in Slots /\ slots[candidate'].status = "SCHEDULED" /\ candidate' \notin L
  <2>1. pc' = "release" => candidate' \in Due(m, t)
    BY <1>6, CandidateIsDue DEF QueueInv, Types
  <2>2. QED
    BY <1>5, <2>1 DEF Due, Waiting
<1> HIDE DEF o, l, L
<1>8. \A u \in 1..n : /\ uploads'[u] \in UploadType /\ uploads'[u].runs = uploads[u].runs
                      /\ uploads'[u].overdue = o[u]
                      /\ uploads'[u].disturbed = uploads[u].disturbed
                      /\ uploads'[u].cancelled = uploads[u].cancelled
  BY <1>1, <1>2, <1>4 DEF UploadType
<1>9. uploads' \in Seq(UploadType) /\ Len(uploads') = n
  <2>1. uploads' \in [1..n -> UploadType]
    BY <1>4, <1>8
  <2>2. QED
    BY <1>1, <2>1, AsSequence
<1>10. \A u \in 1..n : GivenUp(uploads'[u]) => GivenUp(uploads[u]) \/ \E i \in L : slots[i].upload = u
  BY <1>3, <1>8, Zenon DEF GivenUp
<1>11. /\ slots' \in [Slots -> SlotType]
       /\ \A k \in Slots : slots'[k].upload = slots[k].upload /\ slots'[k].used = slots[k].used
       /\ \A k \in Slots : IF k \in L THEN slots'[k].status = "OVERDUE" ELSE slots'[k] = slots[k]
  BY <1>6 DEF QueueInv, Types, SlotType, Statuses
<1>12. Types'
  <2>1. candidate' \in Slots /\ pc' \in {"wait", "sweep", "release", "invoke", "report"}
    BY <1>6, <1>7 DEF QueueInv, Types
  <2>2. QED
    BY <1>9, <1>11, <2>1 DEF QueueInv, Types, clocks
<1>13. \A k \in Slots : slots[k].upload \in 0..n
  BY <1>1 DEF QueueInv, Types, SlotType, OneSlotEach
<1>14. OneSlotEach'
  BY <1>9, <1>11 DEF QueueInv, OneSlotEach
<1>15. \A k \in Slots : HandedOver(k)' => slots[k].status = "SCHEDULED" /\ k \notin L
  BY <1>6, <1>7 DEF HandedOver
<1>16. SlotsAgree'
  <2> SUFFICES ASSUME NEW k \in Slots, slots'[k].upload # 0
      PROVE /\ slots'[k].status \in {"SCHEDULED", "CANCELLED", "OVERDUE"} =>
                 uploads'[slots'[k].upload].runs = 0
            /\ GivenUp(uploads'[slots'[k].upload]) =>
                 slots'[k].status \in {"CANCELLED", "OVERDUE"} /\ ~HandedOver(k)'
    BY DEF SlotsAgree, GivenUp
  <2> DEFINE u == slots[k].upload
  <2>1. slots'[k].upload = u /\ u \in 1..n /\ u # 0
    BY <1>11, <1>13
  <2>2. slots'[k].status \in {"SCHEDULED", "CANCELLED", "OVERDUE"} => uploads[u].runs = 0
    BY <1>5, <1>11, <2>1 DEF QueueInv, SlotsAgree
  <2>3. ASSUME GivenUp(uploads'[u])
        PROVE  slots'[k].status \in {"CANCELLED", "OVERDUE"} /\ ~HandedOver(k)'
    <3>1. CASE GivenUp(uploads[u])
      <4>1. slots[k].status \in {"CANCELLED", "OVERDUE"}
        BY <2>1, <3>1 DEF QueueInv, SlotsAgree
      <4>2. QED
        BY <1>11, <1>15, <4>1
    <3>2. CASE \E i \in L : slots[i].upload = u
      <4>1. k \in L
        BY <1>5, <2>1, <3>2 DEF QueueInv, OneSlotEach
      <4>2. QED
        BY <1>11, <1>15, <4>1
    <3>3. QED
      BY <1>10, <2>1, <2>3, <3>1, <3>2
  <2>4. QED
    BY <1>8, <2>1, <2>2, <2>3
<1>17. HandOver'
  BY <1>6, <1>7, <1>11 DEF HandOver
<1>18. UploadsAgree'
  <2>1. ASSUME NEW u \in 1..n
        PROVE  uploads'[u].runs <= 1 /\ (GivenUp(uploads'[u]) => uploads'[u].runs = 0)
    <3>1. uploads[u].runs <= 1 /\ (GivenUp(uploads[u]) => uploads[u].runs = 0)
      BY DEF QueueInv, UploadsAgree
    <3>2. (\E i \in L : slots[i].upload = u) => uploads[u].runs = 0
      BY <1>5 DEF QueueInv, SlotsAgree
    <3>3. QED
      BY <1>8, <1>10, <3>1, <3>2
  <2>2. QED
    BY <1>9, <2>1 DEF UploadsAgree, GivenUp
<1>19. QED
  BY <1>12, <1>14, <1>16, <1>17, <1>18 DEF QueueInv

(* release() marks the slot RUNNING, whatever it holds by now, and reports  *)
(* into it; what it holds was not given up before the hand-over.            *)
LEMMA MarkKeeps ==
  ASSUME QueueInv, NEW s \in {"RUNNING", "COMPLETED", "FAILED"},
         slots' = [slots EXCEPT ![candidate].status = s],
         \/ pc = "release" /\ pc' = "invoke" /\ s = "RUNNING" /\ entry' = slots[candidate].upload
         \/ pc = "report" /\ pc' = "sweep" /\ entry' = entry,
         UNCHANGED <<clocks, mono, utc, candidate, uploads>>
  PROVE  QueueInv'
<1>1. candidate \in Slots
  BY DEF QueueInv, Types
<1>2. /\ slots' \in [Slots -> SlotType]
      /\ \A k \in Slots : slots'[k].upload = slots[k].upload /\ slots'[k].used = slots[k].used
      /\ \A k \in Slots : k # candidate => slots'[k] = slots[k]
      /\ slots'[candidate].status = s
  BY <1>1 DEF QueueInv, Types, SlotType, Statuses
<1>3. Types'
  <2>1. entry' \in Nat /\ pc' \in {"wait", "sweep", "release", "invoke", "report"}
    BY <1>1 DEF QueueInv, Types, SlotType
  <2>2. QED
    BY <1>2, <2>1 DEF QueueInv, Types, clocks
<1>4. OneSlotEach'
  BY <1>2 DEF QueueInv, OneSlotEach
<1>5. slots[candidate].upload # 0 => ~GivenUp(uploads[slots[candidate].upload])
  <2>1. CASE HandedOver(candidate)
    BY <1>1, <2>1 DEF QueueInv, SlotsAgree
  <2>2. CASE ~HandedOver(candidate)
    <3>1. slots[candidate].status = "RUNNING"
      BY <2>2 DEF HandedOver, QueueInv, HandOver
    <3>2. QED
      BY <1>1, <3>1 DEF QueueInv, SlotsAgree
  <2>3. QED
    BY <2>1, <2>2
<1>6. \A k \in Slots : k # candidate => ~HandedOver(k)'
  BY DEF HandedOver
<1>7. SlotsAgree'
  <2> SUFFICES ASSUME NEW k \in Slots, slots'[k].upload # 0
      PROVE /\ slots'[k].status \in {"SCHEDULED", "CANCELLED", "OVERDUE"} =>
                 uploads[slots'[k].upload].runs = 0
            /\ GivenUp(uploads[slots'[k].upload]) =>
                 slots'[k].status \in {"CANCELLED", "OVERDUE"} /\ ~HandedOver(k)'
    BY DEF SlotsAgree, GivenUp
  <2>1. CASE k = candidate
    BY <1>2, <1>5, <2>1
  <2>2. CASE k # candidate
    BY <1>2, <1>6, <2>2 DEF QueueInv, SlotsAgree
  <2>3. QED
    BY <2>1, <2>2
<1>8. HandOver'
  <2>1. pc = "release" /\ slots[candidate].upload # 0 => uploads[slots[candidate].upload].runs = 0
    BY <1>1 DEF QueueInv, HandOver, SlotsAgree
  <2>2. QED
    BY <1>1, <1>2, <2>1 DEF HandOver
<1>9. UploadsAgree'
  BY DEF QueueInv, UploadsAgree, GivenUp
<1>10. QED
  BY <1>3, <1>4, <1>7, <1>8, <1>9 DEF QueueInv

(* The command runs for the upload that release() copied: the first time,   *)
(* and in a slot that is RUNNING.                                           *)
LEMMA InvokeKeeps ==
  ASSUME QueueInv, Invoke, entry # 0
  PROVE  QueueInv'
<1> DEFINE n == Len(uploads)
           b == uploads[entry].kind = "RELATIVE" /\ uptime < uploads[entry].due
           rec == [uploads[entry] EXCEPT !.runs = uploads[entry].runs + 1, !.early = b]
<1>1. /\ pc = "invoke" /\ pc' = "report"
      /\ UNCHANGED <<slots, clocks, mono, utc, released, candidate, entry>>
  BY DEF Invoke
<1>2. /\ candidate \in Slots /\ slots[candidate].upload = entry
      /\ slots[candidate].status = "RUNNING" /\ uploads[entry].runs = 0
  BY <1>1 DEF QueueInv, Types, HandOver
<1>3. n \in Nat /\ uploads \in [1..n -> UploadType]
  BY DEF QueueInv, Types
<1>4. entry \in 1..n /\ uploads[entry] \in UploadType
  <2>1. entry \in Nat /\ entry <= n
    BY <1>2 DEF QueueInv, Types, OneSlotEach
  <2>2. entry \in 1..n
    BY <1>3, <2>1
  <2>3. QED
    BY <1>3, <2>2
<1>5. ~GivenUp(uploads[entry])
  BY <1>2 DEF QueueInv, SlotsAgree
<1>6. b \in BOOLEAN
  OBVIOUS
<1>7. uploads' = [uploads EXCEPT ![entry] = rec]
  <2>1. uploads' = [uploads EXCEPT ![entry].runs = @ + 1, ![entry].early = b]
    BY DEF Invoke
  <2> HIDE DEF b
  <2>2. QED
    BY <1>3, <1>4, <2>1 DEF UploadType
<1> HIDE DEF b
<1>8. /\ rec \in UploadType /\ rec.runs = 1 /\ rec.overdue = uploads[entry].overdue
      /\ rec.cancelled = uploads[entry].cancelled /\ rec.disturbed = uploads[entry].disturbed
  <2>1. rec = [uploads[entry] EXCEPT !.runs = 1, !.early = b]
    BY <1>2
  <2> HIDE DEF rec
  <2>2. rec \in UploadType
    BY <1>4, <1>6, <2>1 DEF UploadType
  <2>3. QED
    BY <1>4, <2>1, <2>2 DEF UploadType
<1>9. ~GivenUp(rec)
  BY <1>5, <1>8, Zenon DEF GivenUp
<1> HIDE DEF rec
<1>10. /\ uploads' \in Seq(UploadType) /\ Len(uploads') = n /\ uploads'[entry] = rec
       /\ \A u \in 1..n : u # entry => uploads'[u] = uploads[u]
  BY <1>4, <1>7, <1>8 DEF QueueInv, Types
<1>11. Types'
  BY <1>1, <1>10 DEF QueueInv, Types, clocks
<1>12. OneSlotEach'
  BY <1>1, <1>10 DEF QueueInv, OneSlotEach
<1>13. \A k \in Slots : HandedOver(k)' <=> HandedOver(k)
  BY <1>1 DEF HandedOver
<1>14. SlotsAgree'
  <2> SUFFICES ASSUME NEW k \in Slots, slots[k].upload # 0
      PROVE /\ slots[k].status \in {"SCHEDULED", "CANCELLED", "OVERDUE"} =>
                 uploads'[slots[k].upload].runs = 0
            /\ GivenUp(uploads'[slots[k].upload]) =>
                 slots[k].status \in {"CANCELLED", "OVERDUE"} /\ ~HandedOver(k)'
    BY <1>1 DEF SlotsAgree, GivenUp
  <2>1. CASE k = candidate
    BY <1>2, <1>9, <1>10, <2>1
  <2>2. CASE k # candidate
    <3>1. slots[k].upload # entry
      BY <1>2, <2>2 DEF QueueInv, OneSlotEach
    <3>2. slots[k].upload \in 1..n
      BY <1>3 DEF QueueInv, Types, SlotType, OneSlotEach
    <3>3. uploads'[slots[k].upload] = uploads[slots[k].upload]
      BY <1>10, <3>1, <3>2
    <3>4. QED
      BY <1>13, <3>3 DEF QueueInv, SlotsAgree
  <2>3. QED
    BY <2>1, <2>2
<1>15. HandOver'
  BY <1>1, <1>2 DEF HandOver
<1>16. UploadsAgree'
  <2>1. ASSUME NEW u \in 1..n
        PROVE  uploads'[u].runs <= 1 /\ (GivenUp(uploads'[u]) => uploads'[u].runs = 0)
    BY <1>8, <1>9, <1>10 DEF QueueInv, UploadsAgree
  <2>2. QED
    BY <1>10, <2>1 DEF UploadsAgree, GivenUp
<1>17. QED
  BY <1>11, <1>12, <1>14, <1>15, <1>16 DEF QueueInv

(* Every call of an operator, step of the release thread and clock step.    *)
LEMMA QueueInvKept == QueueInv /\ [Next]_vars => QueueInv'
<1> SUFFICES ASSUME QueueInv, [Next]_vars PROVE QueueInv'
  OBVIOUS
<1>1. ASSUME UNCHANGED <<slots, sweeper, uploads>>, uptime' \in Nat, offset' \in Offsets \cup {NotSet}
      PROVE  QueueInv'
  <2>1. Types'
    BY <1>1 DEF QueueInv, Types, sweeper
  <2>2. OneSlotEach' /\ HandOver' /\ UploadsAgree'
    BY <1>1 DEF QueueInv, OneSlotEach, HandOver, UploadsAgree, GivenUp, sweeper
  <2>3. SlotsAgree'
    BY <1>1 DEF QueueInv, SlotsAgree, GivenUp, HandedOver, sweeper
  <2>4. QED
    BY <2>1, <2>2, <2>3 DEF QueueInv
<1>2. uptime \in Nat /\ offset \in Offsets \cup {NotSet}
  BY DEF QueueInv, Types
<1>3. ASSUME NEW c \in Contents, NEW r, Add(c, r) PROVE QueueInv'
  <2>1. CASE r = "OK"
    BY <1>3, <2>1, PlaceKeeps DEF Add
  <2>2. CASE r # "OK"
    BY <1>1, <1>2, <1>3, <2>2 DEF Add, clocks
  <2>3. QED
    BY <2>1, <2>2
<1>4. ASSUME NEW i \in Slots, NEW r, Cancel(i, r) PROVE QueueInv'
  <2>1. CASE r = "OK"
    BY <1>4, <2>1, CancelKeeps
  <2>2. CASE r # "OK"
    BY <1>1, <1>2, <1>4, <2>2 DEF Cancel, clocks
  <2>3. QED
    BY <2>1, <2>2
<1>5. ASSUME Wake PROVE QueueInv'
  <2>1. mono' \in Nat /\ utc' \in Nat \cup {NotSet}
    BY <1>2, <1>5, ScheduleAssumption DEF Wake
  <2>2. QED
    BY <1>5, <2>1, PickKeeps DEF Wake
<1>6. ASSUME SweepOn PROVE QueueInv'
  <2>1. mono \in Nat /\ utc \in Nat \cup {NotSet}
    BY DEF QueueInv, Types
  <2>2. CASE BurstLeft
    BY <1>6, <2>1, <2>2, PickKeeps DEF SweepOn
  <2>3. CASE ~BurstLeft
    <3>1. /\ pc' = "wait"
          /\ UNCHANGED <<slots, uploads, candidate, clocks, mono, utc, entry>>
      BY <1>6, <2>3 DEF SweepOn
    <3>2. Types' /\ OneSlotEach' /\ HandOver' /\ UploadsAgree'
      BY <3>1 DEF QueueInv, Types, OneSlotEach, HandOver, UploadsAgree, GivenUp, clocks
    <3>3. SlotsAgree'
      BY <3>1 DEF QueueInv, SlotsAgree, GivenUp, HandedOver
    <3>4. QED
      BY <3>2, <3>3 DEF QueueInv
  <2>4. QED
    BY <2>2, <2>3
<1>7. ASSUME Release PROVE QueueInv'
  BY <1>7, MarkKeeps DEF Release
<1>8. ASSUME Invoke PROVE QueueInv'
  <2>1. CASE entry # 0
    BY <1>8, <2>1, InvokeKeeps
  <2>2. CASE entry = 0
    <3>1. /\ pc = "invoke" /\ pc' = "report" /\ uploads' = uploads
          /\ UNCHANGED <<slots, clocks, mono, utc, candidate, entry>>
      BY <1>8, <2>2 DEF Invoke
    <3>2. Types' /\ OneSlotEach' /\ HandOver' /\ UploadsAgree'
      BY <2>2, <3>1 DEF QueueInv, Types, OneSlotEach, HandOver, UploadsAgree, GivenUp, clocks
    <3>3. SlotsAgree'
      BY <3>1 DEF QueueInv, SlotsAgree, GivenUp, HandedOver
    <3>4. QED
      BY <3>2, <3>3 DEF QueueInv
  <2>3. QED
    BY <2>1, <2>2
<1>9. ASSUME Report PROVE QueueInv'
  <2>1. PICK s \in {"COMPLETED", "FAILED"} : slots' = [slots EXCEPT ![candidate].status = s]
    BY <1>9 DEF Report, Reported
  <2>2. QED
    BY <1>9, <2>1, MarkKeeps DEF Report
<1>10. ASSUME Tick PROVE QueueInv'
  BY <1>1, <1>2, <1>10 DEF Tick
<1>11. ASSUME NEW o \in Offsets, SetClock(o) PROVE QueueInv'
  BY <1>1, <1>2, <1>11 DEF SetClock
<1>12. ASSUME UNCHANGED vars PROVE QueueInv'
  BY <1>1, <1>2, <1>12 DEF vars, clocks
<1>13. QED
  BY <1>3, <1>4, <1>5, <1>6, <1>7, <1>8, <1>9, <1>10, <1>11, <1>12, ClearKeeps DEF Next, Thread

(* The queue starts empty.                                                  *)
LEMMA InitQueue == Init => QueueInv
<1> SUFFICES ASSUME Init PROVE QueueInv
  OBVIOUS
<1>1. Zeroed \in SlotType /\ Zeroed.upload = 0 /\ Zeroed.used = FALSE
  BY DEF Zeroed, SlotType, Statuses, Kinds, Hashes
<1>2. slots \in [Slots -> SlotType] /\ \A i \in Slots : slots[i] = Zeroed
  BY <1>1 DEF Init
<1>3. 0 \in Slots
  BY ScheduleAssumption DEF Slots
<1>4. Types
  BY <1>2, <1>3 DEF Init, Types
<1>5. OneSlotEach /\ SlotsAgree
  BY <1>1, <1>2 DEF Init, OneSlotEach, SlotsAgree
<1>6. HandOver /\ UploadsAgree
  BY DEF Init, HandOver, UploadsAgree
<1>7. QED
  BY <1>4, <1>5, <1>6 DEF QueueInv

(* sweep, release: for every number of entries, burst and latency, and      *)
(* whatever is added, cancelled or cleared in between, no accepted upload   *)
(* is run twice.                                                            *)
THEOREM RunsAtMostOnceAlways == Spec => []RunsAtMostOnce
<1>1. QueueInv => RunsAtMostOnce
  BY DEF QueueInv, Types, UploadsAgree, RunsAtMostOnce
<1>2. QED
  BY <1>1, InitQueue, QueueInvKept, PTL DEF Spec

(* kfsw_fbo_schedule_cancel, sweep: an entry marked overdue never runs, and *)
(* one whose cancel was answered 0 runs only if the answer fell in the      *)
(* hand-over from sweep to release.                                         *)
THEOREM StoppedNeverRunsAlways == Spec => []StoppedNeverRuns
<1>1. QueueInv => StoppedNeverRuns
  BY DEF QueueInv, Types, UploadsAgree, GivenUp, StoppedNeverRuns
<1>2. QED
  BY <1>1, InitQueue, QueueInvKept, PTL DEF Spec
=============================================================================
