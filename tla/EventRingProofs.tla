--------------------------- MODULE EventRingProofs ---------------------------
(***************************************************************************)
(* For every depth, any number of readers and emitters: the ring holds      *)
(* exactly the newest records in order, and a reader that takes the lock    *)
(* once per record is never shown one twice or out of order.  What makes    *)
(* the second inductive is that everything shown is older than what the     *)
(* reader's index stands for now, which only grows, also when the ring is   *)
(* cleared.                                                                 *)
(***************************************************************************)
EXTENDS EventRing, TLAPS

(* The sequence number an index stands for, or will once it is held.        *)
Stands(index) == next_sequence - held_count + index

RingInv ==
  /\ ring \in [0..Depth - 1 -> Int]
  /\ oldest_index \in 0..Depth - 1 /\ held_count \in 0..Depth /\ next_sequence \in Nat
  /\ recorded_count \in Nat /\ overwritten_count \in Nat /\ cleared \in Nat
  /\ \A i \in 0..held_count - 1 : ring[(oldest_index + i) % Depth] = Stands(i)
  /\ recorded_count = held_count + overwritten_count + cleared

(* A reader: its records ascend, below what its index stands for.           *)
Ascends(v) ==
  /\ v.on \in BOOLEAN /\ v.index \in Nat /\ v.shown \in Seq(Int)
  /\ \A i, j \in 1..Len(v.shown) : i < j => v.shown[i] < v.shown[j]

VisitInv ==
  /\ visit \in [Readers -> [on : BOOLEAN, index : Nat, shown : Seq(Int), skipped : SUBSET Int]]
  /\ \A r \in Readers : Ascends(visit[r])
  /\ \A r \in Readers : \A i \in 1..Len(visit[r].shown) : visit[r].shown[i] < Stands(visit[r].index)

(* The remainder of an index that went round at most once.                  *)
LEMMA Wrap ==
  ASSUME NEW a \in Nat, a < 2 * Depth
  PROVE  /\ a % Depth = (IF a < Depth THEN a ELSE a - Depth)
         /\ a % Depth \in 0..Depth - 1
BY DepthAssumption

(* A new record: with room it goes behind the newest, and in a full ring it *)
(* takes the place of the oldest.                                           *)
LEMMA RecordKeepsRing ==
  ASSUME RingInv, NEW source, Record(source)
  PROVE  RingInv' /\ \A k \in Nat : Stands(k) <= Stands(k)'
<1> DEFINE w == WriteIndex
<1>1. /\ Depth \in Nat /\ Depth > 0 /\ oldest_index \in Nat /\ oldest_index < Depth
      /\ held_count \in Nat /\ held_count <= Depth /\ next_sequence \in Nat
  BY DepthAssumption DEF RingInv
<1>2. /\ ring' = [ring EXCEPT ![w] = next_sequence] /\ next_sequence' = next_sequence + 1
      /\ recorded_count' = recorded_count + 1 /\ cleared' = cleared
  BY DEF Record
<1>3. w \in 0..Depth - 1
  BY <1>1, Wrap DEF WriteIndex
<1>4. ring' \in [0..Depth - 1 -> Int] /\ ring'[w] = next_sequence
      /\ \A j \in 0..Depth - 1 : j # w => ring'[j] = ring[j]
  BY <1>1, <1>2, <1>3 DEF RingInv
<1>5. CASE held_count < Depth
  <2>1. held_count' = held_count + 1 /\ UNCHANGED <<oldest_index, overwritten_count>>
    BY <1>1, <1>5 DEF Record, MakeRoom
  <2>2. \A k \in Nat : Stands(k)' = Stands(k)
    BY <1>1, <1>2, <2>1 DEF Stands
  <2>3. ASSUME NEW i \in 0..held_count' - 1
        PROVE  ring'[(oldest_index' + i) % Depth] = Stands(i)'
    <3>1. i \in Nat /\ i <= held_count
      BY <1>1, <2>1
    <3>2. CASE i = held_count
      BY <1>1, <1>2, <1>4, <2>1, <3>2 DEF WriteIndex, Stands
    <3>3. CASE i < held_count
      <4>1. (oldest_index + i) % Depth \in 0..Depth - 1 /\ (oldest_index + i) % Depth # w
        BY <1>1, <1>5, <3>1, <3>3, Wrap DEF WriteIndex
      <4>2. ring[(oldest_index + i) % Depth] = Stands(i)
        BY <1>1, <3>1, <3>3 DEF RingInv
      <4>3. QED
        BY <1>4, <2>1, <2>2, <3>1, <4>1, <4>2
    <3>4. QED
      BY <1>1, <3>1, <3>2, <3>3
  <2>4. recorded_count' = held_count' + overwritten_count' + cleared'
    BY <1>1, <1>2, <2>1 DEF RingInv
  <2>5. /\ held_count' \in 0..Depth /\ next_sequence' \in Nat /\ recorded_count' \in Nat
        /\ oldest_index' \in 0..Depth - 1 /\ overwritten_count' \in Nat /\ cleared' \in Nat
    BY <1>1, <1>2, <1>5, <2>1 DEF RingInv
  <2>6. \A k \in Nat : Stands(k) <= Stands(k)'
    BY <1>1, <2>2 DEF Stands
  <2>7. QED
    BY <1>4, <2>3, <2>4, <2>5, <2>6 DEF RingInv
<1>6. CASE held_count = Depth
  <2>1. /\ overwritten_count' = overwritten_count + 1 /\ held_count' = held_count
        /\ oldest_index' = (oldest_index + 1) % Depth
    BY <1>6 DEF Record, MakeRoom
  <2>2. \A k \in Nat : Stands(k)' = Stands(k) + 1 /\ Stands(k + 1) = Stands(k) + 1
    BY <1>1, <1>2, <2>1 DEF Stands
  <2>3. w = oldest_index
    BY <1>1, <1>6, Wrap DEF WriteIndex
  <2>4. oldest_index' \in 0..Depth - 1
        /\ oldest_index' = IF oldest_index + 1 < Depth THEN oldest_index + 1 ELSE 0
    BY <1>1, <2>1, Wrap
  <2>5. ASSUME NEW i \in 0..held_count' - 1
        PROVE  ring'[(oldest_index' + i) % Depth] = Stands(i)'
    <3>1. i \in Nat /\ i < Depth
      BY <1>1, <1>6, <2>1
    <3>2. CASE i = Depth - 1
      <4>1. (oldest_index' + i) % Depth = w
        BY <1>1, <2>3, <2>4, <3>1, <3>2, Wrap
      <4>2. Stands(i)' = next_sequence
        BY <1>1, <1>2, <1>6, <2>1, <3>2 DEF Stands
      <4>3. QED
        BY <1>4, <4>1, <4>2
    <3>3. CASE i < Depth - 1
      <4>1. /\ (oldest_index' + i) % Depth = (oldest_index + (i + 1)) % Depth
            /\ (oldest_index' + i) % Depth \in 0..Depth - 1
            /\ (oldest_index' + i) % Depth # w
        BY <1>1, <2>3, <2>4, <3>1, <3>3, Wrap
      <4>2. ring[(oldest_index + (i + 1)) % Depth] = Stands(i + 1)
        BY <1>1, <1>6, <3>1, <3>3 DEF RingInv
      <4>3. QED
        BY <1>4, <2>2, <3>1, <4>1, <4>2
    <3>4. QED
      BY <1>1, <3>1, <3>2, <3>3
  <2>6. recorded_count' = held_count' + overwritten_count' + cleared'
    BY <1>1, <1>2, <2>1 DEF RingInv
  <2>7. /\ held_count' \in 0..Depth /\ next_sequence' \in Nat /\ recorded_count' \in Nat
        /\ overwritten_count' \in Nat /\ cleared' \in Nat
    BY <1>1, <1>2, <2>1 DEF RingInv
  <2>8. \A k \in Nat : Stands(k) <= Stands(k)'
    BY <1>1, <2>2 DEF Stands
  <2>9. QED
    BY <1>4, <2>4, <2>5, <2>6, <2>7, <2>8 DEF RingInv
<1>7. QED
  BY <1>1, <1>5, <1>6

(* A cleared ring stands for later records at every index.                  *)
LEMMA ClearKeepsRing ==
  ASSUME RingInv, Clear
  PROVE  RingInv' /\ \A k \in Nat : Stands(k) <= Stands(k)'
<1>1. /\ held_count' = 0 /\ oldest_index' = 0 /\ cleared' = cleared + held_count
      /\ UNCHANGED <<next_sequence, ring, recorded_count, overwritten_count>>
  BY DEF Clear, Forget
<1>2. \A k \in Nat : Stands(k) <= Stands(k)'
  BY <1>1 DEF RingInv, Stands
<1>3. QED
  BY <1>1, <1>2, DepthAssumption DEF RingInv

(* While no reader moves, a reader's records stay below its index: what an   *)
(* index stands for never falls.                                            *)
LEMMA ReadersKept ==
  ASSUME RingInv, RingInv', VisitInv, visit' = visit,
         \A k \in Nat : Stands(k) <= Stands(k)'
  PROVE  VisitInv'
<1>1. ASSUME NEW r \in Readers, NEW i \in 1..Len(visit[r].shown)
      PROVE  visit[r].shown[i] < next_sequence' - held_count' + visit[r].index
  <2>1. visit[r].shown[i] \in Int /\ visit[r].index \in Nat
    BY DEF VisitInv, Ascends
  <2>2. visit[r].shown[i] < next_sequence - held_count + visit[r].index
    BY DEF VisitInv, Stands
  <2>3. next_sequence - held_count + visit[r].index <= next_sequence' - held_count' + visit[r].index
    BY <2>1 DEF Stands
  <2>4. /\ next_sequence \in Nat /\ next_sequence' \in Nat
        /\ held_count \in Nat /\ held_count' \in Nat
    BY DepthAssumption DEF RingInv
  <2>5. \A a, b, c \in Int : a < b /\ b <= c => a < c
    OBVIOUS
  <2>6. /\ next_sequence - held_count + visit[r].index \in Int
        /\ next_sequence' - held_count' + visit[r].index \in Int
    BY <2>1, <2>4
  <2>7. QED
    BY <2>1, <2>2, <2>3, <2>5, <2>6, Zenon
<1>2. QED
  BY <1>1 DEF VisitInv, Ascends, Stands

(* A reader that begins or ends has been shown nothing.                     *)
LEMMA FreshReader ==
  ASSUME VisitInv, NEW r \in Readers,
         NEW v \in [on : BOOLEAN, index : Nat, shown : Seq(Int), skipped : SUBSET Int],
         v.shown = <<>>, visit' = [visit EXCEPT ![r] = v],
         UNCHANGED <<next_sequence, held_count>>
  PROVE  VisitInv'
<1>1. v.index \in Nat /\ v.on \in BOOLEAN /\ v.shown \in Seq(Int) /\ Len(v.shown) = 0
  OBVIOUS
<1>2. visit'[r] = v /\ \A q \in Readers : q # r => visit'[q] = visit[q]
  BY DEF VisitInv
<1>3. visit' \in [Readers -> [on : BOOLEAN, index : Nat, shown : Seq(Int), skipped : SUBSET Int]]
  BY <1>1 DEF VisitInv
<1>4. Ascends(v)
  BY <1>1 DEF Ascends
<1>5. \A q \in Readers : Ascends(visit'[q])
  BY <1>2, <1>4 DEF VisitInv
<1>6. ASSUME NEW q \in Readers, NEW i \in 1..Len(visit'[q].shown)
      PROVE  visit'[q].shown[i] < next_sequence' - held_count' + visit'[q].index
  <2>1. q # r
    BY <1>1, <1>2
  <2>2. QED
    BY <1>2, <2>1 DEF VisitInv, Stands
<1>7. QED
  BY <1>3, <1>5, <1>6 DEF VisitInv, Ascends, Stands

(* The record shown is the one the index stands for, above all shown before *)
(* and below what the next index stands for.                                *)
LEMMA VisitNextKeeps ==
  ASSUME RingInv, VisitInv, NEW r \in Readers, VisitNext(r)
  PROVE  VisitInv'
<1> DEFINE v == visit[r]
           s == At(v.index)
           T == [on : BOOLEAN, index : Nat, shown : Seq(Int), skipped : SUBSET Int]
<1>1. v \in T /\ v.index \in Nat /\ v.shown \in Seq(Int) /\ v.on \in BOOLEAN /\ Ascends(v)
  BY DEF VisitInv, Ascends
<1>2. s = Stands(v.index) /\ s \in Int
  <2>1. held_count \in Nat /\ next_sequence \in Nat
    BY DepthAssumption DEF RingInv
  <2>2. v.index \in 0..held_count - 1
    BY <1>1, <2>1 DEF VisitNext
  <2>3. s = Stands(v.index)
    BY <2>2 DEF RingInv, At
  <2>4. Stands(v.index) \in Int
    BY <1>1, <2>1 DEF Stands
  <2>5. QED
    BY <2>3, <2>4
<1>3. Held \subseteq Int
  <2>1. \A i \in 0..held_count - 1 : At(i) \in Int
    BY DEF RingInv, At, Stands
  <2>2. QED
    BY <2>1 DEF Held
<1>4. PICK k \in SUBSET Int : visit' = [visit EXCEPT ![r] =
        [on |-> v.on, index |-> v.index + 1, shown |-> Append(v.shown, s), skipped |-> k]]
  <2> DEFINE k == IF LastShown(r) = -1 THEN {} ELSE {g \in Held : LastShown(r) < g /\ g < s}
  <2>1. k \in SUBSET Int
    BY <1>3
  <2>2. visit' = [visit EXCEPT ![r].index = @ + 1, ![r].shown = Append(@, s), ![r].skipped = k]
    BY DEF VisitNext
  <2>3. visit' = [visit EXCEPT ![r] =
          [on |-> v.on, index |-> v.index + 1, shown |-> Append(v.shown, s), skipped |-> k]]
    <3> HIDE DEF k, s
    <3>1. QED
      BY <1>1, <2>2 DEF VisitInv
  <2>4. QED
    BY <2>1, <2>3
<1> DEFINE n == [on |-> v.on, index |-> v.index + 1, shown |-> Append(v.shown, s), skipped |-> k]
<1>5. /\ Append(v.shown, s) \in Seq(Int) /\ Len(Append(v.shown, s)) = Len(v.shown) + 1
      /\ Append(v.shown, s)[Len(v.shown) + 1] = s
      /\ \A i \in 1..Len(v.shown) : Append(v.shown, s)[i] = v.shown[i]
  <2> HIDE DEF s
  <2>1. QED
    BY <1>1, <1>2
<1>6. \A i \in 1..Len(v.shown) : v.shown[i] < s /\ v.shown[i] \in Int
  BY <1>1, <1>2 DEF VisitInv
<1>7. Len(v.shown) \in Nat
  BY <1>1
<1>8. \A i, j \in 1..Len(v.shown) + 1 : i < j => Append(v.shown, s)[i] < Append(v.shown, s)[j]
  <2> HIDE DEF s
  <2>1. TAKE i, j \in 1..Len(v.shown) + 1
  <2>2. HAVE i < j
  <2>3. i \in 1..Len(v.shown)
    BY <1>7, <2>2
  <2>4. CASE j = Len(v.shown) + 1
    BY <1>5, <1>6, <2>3, <2>4
  <2>5. CASE j \in 1..Len(v.shown)
    BY <1>1, <1>5, <2>2, <2>3, <2>5 DEF Ascends
  <2>6. QED
    BY <1>7, <2>4, <2>5
<1>9. n \in T /\ Ascends(n)
  <2> HIDE DEF s
  <2>1. QED
    BY <1>1, <1>5, <1>8 DEF Ascends
<1>10. \A i \in 1..Len(n.shown) : n.shown[i] < next_sequence' - held_count' + n.index
  <2>1. UNCHANGED <<next_sequence, held_count>>
    BY DEF VisitNext
  <2>2. s < next_sequence - held_count + (v.index + 1)
    BY <1>1, <1>2 DEF Stands, RingInv
  <2>3. next_sequence - held_count + (v.index + 1) \in Int
    BY <1>1 DEF RingInv
  <2>4. \A i \in 1..Len(v.shown) + 1 : Append(v.shown, s)[i] < next_sequence - held_count + (v.index + 1)
    <3> HIDE DEF s
    <3>1. QED
      BY <1>2, <1>5, <1>6, <1>7, <2>2, <2>3
  <2>5. QED
    BY <1>5, <2>1, <2>4
<1>11. visit'[r] = n /\ \A q \in Readers : q # r => visit'[q] = visit[q]
  BY <1>4 DEF VisitInv
<1>12. visit' \in [Readers -> T]
  <2> HIDE DEF n, T
  <2>1. visit' = [visit EXCEPT ![r] = n]
    BY <1>4 DEF n
  <2>2. visit \in [Readers -> T]
    BY DEF VisitInv, T
  <2>3. QED
    BY <1>9, <2>1, <2>2
<1>13. \A q \in Readers : Ascends(visit'[q])
  <2> HIDE DEF n
  <2>1. QED
    BY <1>9, <1>11 DEF VisitInv
<1>14. \A q \in Readers : \A i \in 1..Len(visit'[q].shown) :
          visit'[q].shown[i] < next_sequence' - held_count' + visit'[q].index
  <2> HIDE DEF n
  <2>1. UNCHANGED <<next_sequence, held_count>>
    BY DEF VisitNext
  <2>2. QED
    BY <1>10, <1>11, <2>1 DEF VisitInv, Stands
<1>15. QED
  BY <1>12, <1>13, <1>14 DEF VisitInv, Ascends, Stands

(* Every step of an emitter, of a clear and of a reader.                    *)
LEMMA RingInvKept == RingInv /\ VisitInv /\ [Next]_vars => RingInv' /\ VisitInv'
<1> SUFFICES ASSUME RingInv, VisitInv, [Next]_vars PROVE RingInv' /\ VisitInv'
  OBVIOUS
<1>1. ASSUME NEW source \in Sources, Reject(source) PROVE RingInv' /\ VisitInv'
  BY <1>1 DEF Reject, RingInv, VisitInv, Stands, Ascends
<1>2. ASSUME NEW source \in Sources, Record(source) PROVE RingInv' /\ VisitInv'
  <2>1. RingInv' /\ \A k \in Nat : Stands(k) <= Stands(k)'
    BY <1>2, RecordKeepsRing
  <2>2. visit' = visit
    BY <1>2 DEF Record
  <2>3. QED
    BY <2>1, <2>2, ReadersKept
<1>3. ASSUME Clear PROVE RingInv' /\ VisitInv'
  <2>1. RingInv' /\ \A k \in Nat : Stands(k) <= Stands(k)'
    BY <1>3, ClearKeepsRing
  <2>2. visit' = visit
    BY <1>3 DEF Clear
  <2>3. QED
    BY <2>1, <2>2, ReadersKept
<1>4. ASSUME NEW r \in Readers, VisitBegin(r) PROVE RingInv' /\ VisitInv'
  <2>1. /\ [Idle EXCEPT !.on = TRUE]
              \in [on : BOOLEAN, index : Nat, shown : Seq(Int), skipped : SUBSET Int]
        /\ [Idle EXCEPT !.on = TRUE].shown = <<>>
    <3>1. /\ Idle \in [on : BOOLEAN, index : Nat, shown : Seq(Int), skipped : SUBSET Int]
          /\ Idle.shown = <<>>
      BY DEF Idle
    <3>2. QED
      BY <3>1
  <2>2. RingInv'
    BY <1>4 DEF VisitBegin, RingInv, Stands
  <2>3. QED
    BY <1>4, <2>1, <2>2, FreshReader DEF VisitBegin
<1>5. ASSUME NEW r \in Readers, VisitNext(r) PROVE RingInv' /\ VisitInv'
  <2>1. RingInv'
    BY <1>5 DEF VisitNext, RingInv, Stands
  <2>2. QED
    BY <1>5, <2>1, VisitNextKeeps
<1>6. ASSUME NEW r \in Readers, VisitEnd(r) PROVE RingInv' /\ VisitInv'
  <2>1. /\ Idle \in [on : BOOLEAN, index : Nat, shown : Seq(Int), skipped : SUBSET Int]
        /\ Idle.shown = <<>>
    BY DEF Idle
  <2>2. RingInv'
    BY <1>6 DEF VisitEnd, RingInv, Stands
  <2>3. QED
    BY <1>6, <2>1, <2>2, FreshReader DEF VisitEnd
<1>7. ASSUME UNCHANGED vars PROVE RingInv' /\ VisitInv'
  BY <1>7 DEF vars, RingInv, VisitInv, Stands, Ascends
<1>8. QED
  BY <1>1, <1>2, <1>3, <1>4, <1>5, <1>6, <1>7 DEF Next, Emit

(* kfsw_event_emit, kfsw_event_clear and kfsw_event_visit, for every depth: *)
(* the ring holds exactly the newest records in order with the others       *)
(* accounted for, and no reader is shown a record twice or out of order.    *)
THEOREM RingIsOrderedAlways == Spec => [](HoldsTheNewest /\ VisitAscends)
<1>1. Init => RingInv /\ VisitInv
  <2> SUFFICES ASSUME Init PROVE RingInv /\ VisitInv
    OBVIOUS
  <2>1. RingInv
    BY DepthAssumption DEF Init, RingInv, Stands
  <2>2. VisitInv
    <3>1. \A r \in Readers : visit[r] = Idle
      BY DEF Init
    <3>2. /\ Idle \in [on : BOOLEAN, index : Nat, shown : Seq(Int), skipped : SUBSET Int]
          /\ Idle.shown = <<>> /\ Len(Idle.shown) = 0 /\ Idle.index = 0 /\ Idle.on = FALSE
      BY DEF Idle
    <3>3. Ascends(Idle)
      BY <3>2 DEF Ascends
    <3>4. visit \in [Readers -> [on : BOOLEAN, index : Nat, shown : Seq(Int), skipped : SUBSET Int]]
      BY <3>2 DEF Init
    <3>5. \A r \in Readers : \A i \in 1..Len(visit[r].shown) :
             visit[r].shown[i] < Stands(visit[r].index)
      BY <3>1, <3>2
    <3>6. QED
      BY <3>1, <3>3, <3>4, <3>5 DEF VisitInv
  <2>3. QED
    BY <2>1, <2>2
<1>2. RingInv /\ VisitInv => HoldsTheNewest /\ VisitAscends
  BY DEF RingInv, VisitInv, Ascends, HoldsTheNewest, VisitAscends, At, Stands
<1>3. QED
  BY <1>1, <1>2, RingInvKept, PTL DEF Spec
=============================================================================
