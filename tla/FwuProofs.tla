------------------------------ MODULE FwuProofs ------------------------------
(***************************************************************************)
(* For every slot size, buffer size, block alphabet and incremental CRC:   *)
(* the firmware update service keeps its safety invariants.  The inductive  *)
(* invariant relates what was accepted (received, actual_crc32) to where    *)
(* the accepted blocks are (slot followed by buffer), and the transfer      *)
(* state to what MCUboot has been asked to do.                              *)
(***************************************************************************)
EXTENDS Fwu, SequenceTheorems, TLAPS

(* In KFSW_FWU_RECEIVING, slot and buffer together hold what was accepted.  *)
StreamIsAccepted ==
  /\ slot \in Seq(Blocks)
  /\ Len(slot) + Len(buffer) = received
  /\ actual_crc32 = Crc(slot \o buffer)
  /\ swap_type = "NONE"

(* TypeOK but for swap_scheduled, the only Boolean.                         *)
FieldTypes ==
  /\ state \in States
  /\ total_size \in 0..MaxBlocks
  /\ received \in 0..MaxBlocks
  /\ expected_crc32 \in CrcValues
  /\ actual_crc32 \in CrcValues
  /\ started \in Nat /\ completed \in Nat /\ failed \in Nat
  /\ secondary_readers \in Nat
  /\ buffer \in Seq(Blocks)
  /\ slot \in Flash
  /\ primary \in Flash
  /\ swap_type \in SwapTypes
  /\ fallback \in Flash

FwuInv ==
  /\ FieldTypes
  /\ received <= total_size
  /\ state = "RECEIVING" => StreamIsAccepted
  /\ state \in {"VERIFIED", "READY"} => SlotHoldsDeclaredImage
  /\ swap_type = "TEST" => state \in {"READY", "FAILED"}
  /\ swap_type = "REVERT" => state = "IDLE" /\ slot = fallback
  /\ secondary_readers > 0 => state \notin {"RECEIVING", "FAILED"}

(* Sequences of at most MaxBlocks blocks are the images of the CRC axioms.  *)
LEMMA ShortSequencesAreImages ==
  ASSUME NEW s \in Seq(Blocks), Len(s) <= MaxBlocks
  PROVE  s \in Images
BY LenProperties, SlotAssumption DEF Images

(* One more block folds into the CRC of the blocks before it.               *)
LEMMA CrcStep ==
  ASSUME NEW s \in Seq(Blocks), NEW b \in Blocks, Len(s) < MaxBlocks
  PROVE  /\ CrcUpdate(Crc(s), b) = Crc(Append(s, b))
         /\ Crc(Append(s, b)) \in CrcValues
<1>1. Append(s, b) \in Seq(Blocks) /\ Len(Append(s, b)) <= MaxBlocks
  BY AppendProperties, LenProperties, SlotAssumption
<1>2. Append(s, b) \in Images
  BY <1>1, ShortSequencesAreImages
<1>3. Len(s) <= MaxBlocks
  BY LenProperties, SlotAssumption
<1>4. s \in Images
  BY <1>3, ShortSequencesAreImages
<1>5. QED
  BY <1>2, <1>4, CrcAssumption

(* The empty sequence is an image, so 0 is a CRC value.                     *)
LEMMA ZeroIsCrcValue == 0 \in CrcValues
<1>1. <<>> \in Seq(Blocks) /\ Len(<<>>) <= MaxBlocks
  BY EmptySeq, SlotAssumption
<1>2. <<>> \in Images
  BY <1>1, ShortSequencesAreImages
<1>3. QED
  BY <1>2, CrcAssumption

(* Appending to the second of two concatenated sequences appends to both.   *)
LEMMA ConcatAppend ==
  ASSUME NEW s \in Seq(Blocks), NEW t \in Seq(Blocks), NEW b \in Blocks
  PROVE  /\ s \o Append(t, b) = Append(s \o t, b)
         /\ s \o Append(t, b) \in Seq(Blocks)
         /\ Len(s \o Append(t, b)) = Len(s) + Len(t) + 1
<1>1. s \o t \in Seq(Blocks)
  BY ConcatProperties
<1>2. Append(t, b) = t \o <<b>> /\ Append(s \o t, b) = (s \o t) \o <<b>>
  BY <1>1, AppendIsConcat
<1>3. <<b>> \in Seq(Blocks)
  OBVIOUS
<1>4. (s \o t) \o <<b>> = s \o (t \o <<b>>)
  BY <1>3, ConcatAssociative
<1>5. QED
  BY <1>1, <1>2, <1>4, ConcatProperties, AppendProperties, LenProperties

(* A node that has just booted: nothing received, nothing scheduled.        *)
LEMMA InitInv == Init => FwuInv
<1>1. SUFFICES ASSUME Init PROVE FwuInv
  OBVIOUS
<1>2. primary \in Flash
  <2>1. PICK n \in 0..MaxBlocks : primary \in [1..n -> Blocks]
    BY <1>1 DEF Init, Images
  <2>2. primary \in Seq(Blocks)
    BY <2>1, SeqDef, SlotAssumption
  <2>3. QED
    BY <2>2, SeqMonotonic DEF Flash
<1>3. <<>> \in Seq(Blocks) /\ <<>> \in Flash
  BY EmptySeq DEF Flash
<1>4. QED
  BY <1>1, <1>2, <1>3, ZeroIsCrcValue, SlotAssumption
     DEF Init, FwuInv, FieldTypes, States, SwapTypes

(* A slot of Flash stays in Flash when a block tears.                       *)
LEMMA TornIsFlash ==
  ASSUME slot \in Flash
  PROVE  <<Torn>> \in Flash /\ Append(slot, Torn) \in Flash /\ <<>> \in Flash
BY DEF Flash

(* kfsw_fwu_begin erases the slot only when no revert is pending, and a     *)
(* failed or a successful start leaves nothing verified.                    *)
LEMMA BeginInv ==
  ASSUME FwuInv, NEW size \in 0..MaxBlocks + 1, NEW crc \in CrcValues,
         NEW r \in Results, Begin(size, crc, r)
  PROVE  FwuInv'
<1>1. CASE UNCHANGED vars
  BY <1>1 DEF FwuInv, FieldTypes, StreamIsAccepted, SlotHoldsDeclaredImage, vars,
              transfer, counters, boot
<1>2. ASSUME size \in 1..MaxBlocks, ~SecondaryBusy, BeginStarts(size, crc),
             UNCHANGED <<secondary_readers, boot>>
      PROVE  FwuInv'
  <2>1. <<>> \o <<>> = <<>> /\ <<>> \in Seq(Blocks) /\ Len(<<>>) = 0 /\ <<>> \in Flash
    BY EmptySeq, ConcatEmptySeq DEF Flash
  <2>2. QED
    BY <1>2, <2>1, ZeroIsCrcValue, CrcAssumption, SlotAssumption
       DEF FwuInv, FieldTypes, StreamIsAccepted, SlotHoldsDeclaredImage, BeginStarts,
           EraseOk, SecondaryBusy, boot, States, SwapTypes
<1>3. ASSUME ~SecondaryBusy, BeginFails, UNCHANGED <<secondary_readers, boot>>
      PROVE  FwuInv'
  BY <1>3, TornIsFlash
     DEF FwuInv, FieldTypes, BeginFails, EraseFails, EraseOk, SecondaryBusy, RevertPending,
         boot, transfer, States, SwapTypes
<1>4. QED
  BY <1>1, <1>2, <1>3 DEF Begin

(* kfsw_fwu_write: flash, buffer and CRC move on together, block by block.  *)
LEMMA WriteInv ==
  ASSUME FwuInv, NEW offset \in 0..MaxBlocks, NEW b \in Blocks, NEW r \in Results,
         Write(offset, b, r)
  PROVE  FwuInv'
<1>1. CASE UNCHANGED vars
  BY <1>1 DEF FwuInv, FieldTypes, StreamIsAccepted, SlotHoldsDeclaredImage, vars,
              transfer, counters, boot
<1>2. ASSUME WriteRefusal(offset) = "OK", WriteAccepted(b) \/ WriteFails,
             UNCHANGED <<total_size, expected_crc32, swap_scheduled, started, completed,
                         secondary_readers, boot, swap_type>>
      PROVE  FwuInv'
  <2>1. /\ state = "RECEIVING" /\ StreamIsAccepted /\ received < total_size
        /\ secondary_readers = 0
    BY <1>2 DEF WriteRefusal, FwuInv, FieldTypes
  <2>2. CASE WriteAccepted(b)
    <3> DEFINE kept == slot \o buffer
    <3>1. kept \in Seq(Blocks) /\ Len(kept) = received
      BY <2>1, ConcatProperties DEF StreamIsAccepted, FwuInv, FieldTypes
    <3>2. Len(kept) < MaxBlocks
      BY <2>1, <3>1, SlotAssumption DEF FwuInv, FieldTypes
    <3>3. actual_crc32' = Crc(Append(kept, b)) /\ actual_crc32' \in CrcValues
      BY <2>1, <2>2, <3>1, <3>2, CrcStep DEF WriteAccepted, StreamIsAccepted
    <3>4. /\ slot' \o buffer' = Append(kept, b)
          /\ slot' \in Seq(Blocks) /\ buffer' \in Seq(Blocks)
          /\ Len(slot') + Len(buffer') = received + 1
      <4>1. CASE Len(buffer) + 1 = BufferBlocks
        <5>1. slot' = slot \o Append(buffer, b) /\ buffer' = <<>>
          BY <4>1, <2>2 DEF WriteAccepted, BufferBlock
        <5>2. slot' = Append(kept, b) /\ slot' \in Seq(Blocks)
              /\ Len(slot') = Len(slot) + Len(buffer) + 1
          BY <5>1, <2>1, ConcatAppend DEF StreamIsAccepted, FwuInv, FieldTypes
        <5>3. slot' \o buffer' = slot'
          BY <5>1, <5>2, ConcatEmptySeq
        <5>4. buffer' \in Seq(Blocks) /\ Len(buffer') = 0
          BY <5>1, EmptySeq
        <5>5. Len(slot) \in Nat /\ Len(buffer) \in Nat
          BY <2>1, LenProperties DEF StreamIsAccepted, FwuInv, FieldTypes
        <5>6. QED
          BY <5>2, <5>3, <5>4, <5>5, <2>1 DEF StreamIsAccepted
      <4>2. CASE Len(buffer) + 1 # BufferBlocks
        <5>1. slot' = slot /\ buffer' = Append(buffer, b)
          BY <4>2, <2>2 DEF WriteAccepted, BufferBlock
        <5>2. slot' \o buffer' = Append(kept, b)
          BY <5>1, <2>1, ConcatAppend DEF StreamIsAccepted, FwuInv, FieldTypes
        <5>3. buffer' \in Seq(Blocks) /\ Len(buffer') = Len(buffer) + 1
          BY <5>1, AppendProperties DEF FwuInv, FieldTypes
        <5>4. Len(slot) \in Nat /\ Len(buffer) \in Nat
          BY <2>1, LenProperties DEF StreamIsAccepted, FwuInv, FieldTypes
        <5>5. QED
          BY <5>1, <5>2, <5>3, <5>4, <2>1 DEF StreamIsAccepted
      <4>3. QED
        BY <4>1, <4>2
    <3>5. slot' \in Flash
      BY <3>4, SeqMonotonic DEF Flash
    <3>6. /\ state' = "RECEIVING" /\ received' = received + 1 /\ failed' = failed
          /\ swap_type' = "NONE"
      BY <1>2, <2>1, <2>2 DEF WriteAccepted, StreamIsAccepted
    <3>7. FieldTypes'
      BY <1>2, <2>1, <3>3, <3>4, <3>5, <3>6, SlotAssumption DEF FieldTypes, FwuInv, boot, States
    <3>8. StreamIsAccepted'
      BY <3>3, <3>4, <3>6 DEF StreamIsAccepted
    <3>9. QED
      BY <1>2, <2>1, <3>6, <3>7, <3>8 DEF FwuInv, FieldTypes
  <2>3. CASE WriteFails
    <3>1. slot' \in Flash
      BY <2>3, TornIsFlash DEF WriteFails, FwuInv, FieldTypes
    <3>2. QED
      BY <1>2, <2>1, <2>3, <3>1
         DEF FwuInv, FieldTypes, WriteFails, StreamIsAccepted, boot, States
  <2>4. QED
    BY <1>2, <2>2, <2>3
<1>3. QED
  BY <1>1, <1>2 DEF Write

(* fwu_verify_locked from a state that keeps the invariant: each of its     *)
(* outcomes keeps it, whoever called.                                       *)
LEMMA VerifyLockedInv ==
  ASSUME FwuInv, NEW r \in Results, VerifyLocked(r),
         UNCHANGED <<transfer, started, completed, secondary_readers, boot>>
  PROVE  FwuInv'
<1>1. CASE UNCHANGED <<state, failed, buffer, slot, swap_type>>
  BY <1>1 DEF FwuInv, FieldTypes, StreamIsAccepted, SlotHoldsDeclaredImage, transfer, boot
<1>2. ASSUME VerifyAnswer = "EILSEQ", EraseOk \/ EraseFails, FailVerification,
             UNCHANGED buffer
      PROVE  FwuInv'
  <2>1. state = "RECEIVING" /\ swap_type = "NONE" /\ secondary_readers = 0
    BY <1>2 DEF VerifyAnswer, FwuInv, FieldTypes, StreamIsAccepted
  <2>2. QED
    BY <1>2, <2>1, TornIsFlash
       DEF FwuInv, FieldTypes, EraseOk, EraseFails, FailVerification, transfer, boot,
           States, SwapTypes
<1>3. ASSUME VerifyAnswer = "OK", state = "RECEIVING", FlushBuffer, state' = "VERIFIED",
             UNCHANGED <<failed, swap_type>>
      PROVE  FwuInv'
  <2>1. /\ received = total_size /\ actual_crc32 = expected_crc32 /\ StreamIsAccepted
        /\ secondary_readers = 0
    BY <1>3 DEF VerifyAnswer, FwuInv, FieldTypes
  <2>2. slot' \in Seq(Blocks) /\ Len(slot') = total_size /\ Crc(slot') = expected_crc32
    BY <1>3, <2>1, ConcatProperties
       DEF FlushBuffer, StreamIsAccepted, FwuInv, FieldTypes
  <2>3. slot' \in Flash /\ buffer' \in Seq(Blocks)
    BY <1>3, <2>2, SeqMonotonic, EmptySeq DEF Flash, FlushBuffer
  <2>4. SlotHoldsDeclaredImage'
    BY <2>2 DEF SlotHoldsDeclaredImage, transfer
  <2>5. QED
    BY <1>3, <2>1, <2>3, <2>4
       DEF FwuInv, FieldTypes, StreamIsAccepted, transfer, boot, States
<1>4. ASSUME state = "RECEIVING", slot' \in {slot, Append(slot, Torn)}, FailVerification,
             UNCHANGED <<buffer, swap_type>>
      PROVE  FwuInv'
  <2>1. swap_type = "NONE" /\ secondary_readers = 0
    BY <1>4 DEF FwuInv, FieldTypes, StreamIsAccepted
  <2>2. slot' \in Flash
    BY <1>4, TornIsFlash DEF FwuInv, FieldTypes
  <2>3. QED
    BY <1>4, <2>1, <2>2
       DEF FwuInv, FieldTypes, FailVerification, transfer, boot, States
<1>5. QED
  BY <1>1, <1>2, <1>3, <1>4 DEF VerifyLocked

(* kfsw_fwu_finish schedules only what it has verified.                     *)
LEMMA FinishInv ==
  ASSUME FwuInv, NEW r \in Results, Finish(r)
  PROVE  FwuInv'
<1>1. CASE UNCHANGED vars
  BY <1>1 DEF FwuInv, FieldTypes, StreamIsAccepted, SlotHoldsDeclaredImage, vars,
              transfer, counters, boot
<1>2. ASSUME VerifyLocked(r),
             UNCHANGED <<transfer, swap_scheduled, started, completed, secondary_readers, boot>>
      PROVE  FwuInv'
  BY <1>2, VerifyLockedInv
<1>3. ASSUME secondary_readers = 0, Schedule(r),
             UNCHANGED <<transfer, started, secondary_readers, boot>>
      PROVE  FwuInv'
  <2>1. slot' \in Seq(Blocks) /\ Len(slot') = total_size /\ Crc(slot') = expected_crc32
    <3>1. CASE state = "VERIFIED"
      BY <1>3, <3>1 DEF Schedule, FwuInv, SlotHoldsDeclaredImage
    <3>2. CASE state = "RECEIVING"
      <4>1. received = total_size /\ actual_crc32 = expected_crc32 /\ StreamIsAccepted
        BY <1>3, <3>2 DEF Schedule, VerifyAnswer, FwuInv
      <4>2. QED
        BY <1>3, <3>2, <4>1, ConcatProperties
           DEF Schedule, FlushBuffer, StreamIsAccepted, FwuInv, FieldTypes
    <3>3. QED
      BY <1>3, <3>1, <3>2 DEF Schedule, VerifyAnswer
  <2>2. slot' \in Flash /\ buffer' \in Seq(Blocks)
    BY <1>3, <2>1, SeqMonotonic, EmptySeq DEF Flash, FlushBuffer, Schedule, FwuInv, FieldTypes
  <2>3. SlotHoldsDeclaredImage'
    BY <1>3, <2>1 DEF SlotHoldsDeclaredImage, transfer
  <2>4. \/ /\ state' = "READY" /\ swap_type' = "TEST"
           /\ completed' = completed + 1 /\ failed' = failed
        \/ /\ state' = "FAILED" /\ swap_type' \in {"NONE", "TEST"}
           /\ completed' = completed /\ failed' = failed + 1
    BY <1>3 DEF Schedule, FailVerification
  <2>5. QED
    BY <1>3, <2>2, <2>3, <2>4
       DEF FwuInv, FieldTypes, transfer, boot, States, SwapTypes
<1>4. QED
  BY <1>1, <1>2, <1>3 DEF Finish

(* kfsw_fwu_abort gives up the transfer and erases what it may.             *)
LEMMA AbortInv ==
  ASSUME FwuInv, NEW r \in Results, Abort(r)
  PROVE  FwuInv'
<1>1. CASE UNCHANGED vars
  BY <1>1 DEF FwuInv, FieldTypes, StreamIsAccepted, SlotHoldsDeclaredImage, vars,
              transfer, counters, boot
<1>2. ASSUME ~SecondaryBusy, AbortCleanup(r),
             failed' = IF state = "RECEIVING" THEN failed + 1 ELSE failed,
             UNCHANGED <<started, completed, secondary_readers, buffer, boot>>
      PROVE  FwuInv'
  <2>1. secondary_readers = 0 /\ swap_type # "REVERT" /\ failed' \in Nat
    BY <1>2 DEF SecondaryBusy, RevertPending, FwuInv, FieldTypes
  <2>2. QED
    BY <1>2, <2>1, TornIsFlash, ZeroIsCrcValue, SlotAssumption
       DEF FwuInv, FieldTypes, AbortCleanup, EraseOk, EraseFails, transfer, boot,
           States, SwapTypes
<1>3. QED
  BY <1>1, <1>2 DEF Abort

(* A reset with MCUboot's swap or revert, which loses the service's RAM.    *)
LEMMA RestartInv ==
  ASSUME FwuInv, Restart
  PROVE  FwuInv'
<1>1. slot' \in Flash /\ primary' \in Flash /\ fallback' \in Flash
  BY TornIsFlash DEF Restart, FwuInv, FieldTypes
<1>2. /\ swap_type' \in {"NONE", "REVERT"}
      /\ swap_type' = "REVERT" => slot' = fallback'
  BY DEF Restart, FwuInv, FieldTypes, SwapTypes
<1>3. <<>> \in Seq(Blocks)
  BY EmptySeq
<1>4. QED
  BY <1>1, <1>2, <1>3, ZeroIsCrcValue, SlotAssumption
     DEF Restart, FwuInv, FieldTypes, States, SwapTypes

(* The calls that only count readers, and the confirmation.                 *)
LEMMA ReadersAndConfirmInv ==
  ASSUME FwuInv, (\E r \in Results : Acquire(r)) \/ Release \/ Confirm
  PROVE  FwuInv'
<1>1. ASSUME NEW r \in Results, Acquire(r)
      PROVE  FwuInv'
  BY <1>1 DEF Acquire, SlotInUse, FwuInv, FieldTypes, StreamIsAccepted,
              SlotHoldsDeclaredImage, transfer, counters, boot
<1>2. CASE Release
  BY <1>2 DEF Release, FwuInv, FieldTypes, StreamIsAccepted, SlotHoldsDeclaredImage,
              transfer, counters, boot
<1>3. CASE Confirm
  BY <1>3 DEF Confirm, RevertPending, FwuInv, FieldTypes, StreamIsAccepted,
              SlotHoldsDeclaredImage, transfer, counters, boot, SwapTypes
<1>4. QED
  BY <1>1, <1>2, <1>3

(* The inductive invariant, and with it: VERIFIED and READY mean that the   *)
(* declared image is in flash; a TEST swap is only left with such an image  *)
(* or a reported failure; the image MCUboot may revert to is never erased   *)
(* (kfsw_fwu_begin, _write, _verify, _finish, _abort).                      *)
THEOREM FwuInvariant == Spec => []FwuInv
<1>1. FwuInv /\ [Next]_vars => FwuInv'
  <2>1. SUFFICES ASSUME FwuInv, [Next]_vars PROVE FwuInv'
    OBVIOUS
  <2>2. CASE UNCHANGED vars
    BY <2>1, <2>2 DEF FwuInv, FieldTypes, StreamIsAccepted, SlotHoldsDeclaredImage, vars,
                      transfer, counters, boot
  <2>3. ASSUME NEW r \in Results, Verify(r)
        PROVE  FwuInv'
    BY <2>1, <2>3, VerifyLockedInv DEF Verify
  <2>4. QED
    BY <2>1, <2>2, <2>3, BeginInv, WriteInv, FinishInv, AbortInv, RestartInv,
       ReadersAndConfirmInv DEF Next
<1>2. QED
  BY <1>1, InitInv, PTL DEF Spec

(* Verification is what fwu.h says it is, for every slot size.              *)
THEOREM VerifiedImageInFlashAlways == Spec => []VerifiedImageInFlash
<1>1. FwuInv => VerifiedImageInFlash
  BY DEF FwuInv, VerifiedImageInFlash
<1>2. QED
  BY <1>1, FwuInvariant, PTL

(* MCUboot never finds an unverified image scheduled without a failure      *)
(* having been reported by kfsw_fwu_begin, kfsw_fwu_finish or               *)
(* kfsw_fwu_abort.                                                          *)
THEOREM TestSwapIsVerifiedAlways == Spec => []TestSwapIsVerified
<1>1. FwuInv => TestSwapIsVerified
  BY DEF FwuInv, TestSwapIsVerified, FieldTypes
<1>2. QED
  BY <1>1, FwuInvariant, PTL

(* The image a trial boot falls back to survives every call.                *)
THEOREM FallbackKeptAlways == Spec => []FallbackKept
<1>1. FwuInv => FallbackKept
  BY DEF FwuInv, FallbackKept
<1>2. QED
  BY <1>1, FwuInvariant, PTL

(* A step of the service with a slot file open before and after it leaves   *)
(* the slot alone: kfsw_fwu_begin, _finish and _abort refuse, and           *)
(* kfsw_fwu_verify and _write find no transfer receiving.                   *)
THEOREM ReaderSeesStableSlotAlways == Spec => ReaderSeesStableSlot
<1> DEFINE Stable == secondary_readers > 0 /\ secondary_readers' > 0 =>
                       /\ slot' = slot
                       /\ swap_type' = "TEST" => swap_type = "TEST"
<1>1. FwuInv /\ [Next]_vars => [Stable]_vars
  <2>1. SUFFICES ASSUME FwuInv, Next, secondary_readers > 0, secondary_readers' > 0
                 PROVE  /\ slot' = slot
                        /\ swap_type' = "TEST" => swap_type = "TEST"
    BY DEF vars
  <2>2. state \notin {"RECEIVING", "FAILED"} /\ secondary_readers # 0
    BY <2>1 DEF FwuInv, FieldTypes
  <2>3. ASSUME NEW size \in 0..MaxBlocks + 1, NEW crc \in CrcValues, NEW r \in Results,
               Begin(size, crc, r)
        PROVE  slot' = slot /\ swap_type' = swap_type
    BY <2>2, <2>3 DEF Begin, SecondaryBusy, vars
  <2>4. ASSUME NEW offset \in 0..MaxBlocks, NEW b \in Blocks, NEW r \in Results,
               Write(offset, b, r)
        PROVE  slot' = slot /\ swap_type' = swap_type
    BY <2>2, <2>4 DEF Write, WriteRefusal, vars
  <2>5. ASSUME NEW r \in Results, Verify(r) \/ Finish(r) \/ Abort(r) \/ Acquire(r)
        PROVE  slot' = slot /\ swap_type' = swap_type
    BY <2>2, <2>5 DEF Verify, VerifyLocked, VerifyAnswer, Finish, Abort, SecondaryBusy,
                      Acquire, vars
  <2>6. CASE Release \/ Confirm
    BY <2>6 DEF Release, Confirm, RevertPending
  <2>7. ~Restart
    BY <2>1 DEF Restart
  <2>8. QED
    BY <2>1, <2>3, <2>4, <2>5, <2>6, <2>7 DEF Next
<1>2. QED
  BY <1>1, FwuInvariant, PTL DEF Spec, ReaderSeesStableSlot

(* swap_scheduled is a Boolean; with FwuInv this is the type invariant.     *)
THEOREM TypeCorrect == Spec => []TypeOK
<1>1. Init => swap_scheduled \in BOOLEAN
  BY DEF Init
<1>2. swap_scheduled \in BOOLEAN /\ [Next]_vars => (swap_scheduled \in BOOLEAN)'
  BY Zenon DEF Next, vars, Begin, BeginStarts, BeginFails, Write, Verify, Finish, Schedule,
         Abort, AbortCleanup, Acquire, Release, Restart, Confirm
<1>3. FwuInv /\ swap_scheduled \in BOOLEAN => TypeOK
  BY Zenon DEF FwuInv, FieldTypes, TypeOK
<1>4. QED
  BY <1>1, <1>2, <1>3, FwuInvariant, PTL DEF Spec

=============================================================================
