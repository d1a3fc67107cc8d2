--------------------------------- MODULE Fwu ---------------------------------
(***************************************************************************)
(* The firmware update service (src/fwu/fwu.c): one transfer at a time into *)
(* the secondary image slot, verified by CRC and handed to MCUboot.         *)
(*                                                                          *)
(* Every public function of fwu.c holds fwu_lock from its first look at the *)
(* state to its last assignment, so each is one action, parameterised by    *)
(* the result r it returns.  Callers (FTP server, FWU lite server, recovery *)
(* installer, slot files) may call in any order: Next lets anyone call      *)
(* anything.  Sizes and offsets count blocks.                               *)
(***************************************************************************)
EXTENDS Integers, Sequences

CONSTANTS
  Blocks,           \* contents a block of the image may have
  Torn,             \* what a block reads as after a failed program or erase
  MaxBlocks,        \* kfsw_fwu_max_image_size(), in blocks
  BufferBlocks,     \* CONFIG_KFSW_FWU_STREAM_BUFFER_SIZE, in blocks
  CrcValues,        \* the values of a CRC32
  Crc(_),           \* crc32_ieee of a sequence of blocks
  CrcUpdate(_, _),  \* crc32_ieee_update by one block
  MaxStarted,       \* bound: transfers begun between two restarts
  MaxFailed,        \* bound: failures counted between two restarts
  MaxReaders        \* bound: slot files open at once

Images == UNION {[1..n -> Blocks] : n \in 0..MaxBlocks}

ASSUME SlotAssumption ==
  /\ Torn \notin Blocks
  /\ MaxBlocks \in Nat \ {0}
  /\ BufferBlocks \in Nat \ {0}
  /\ MaxStarted \in Nat /\ MaxFailed \in Nat /\ MaxReaders \in Nat

(* What the code relies on of crc32_ieee_update: it folds one more block    *)
(* into the CRC of the blocks before it, starting from 0.                   *)
ASSUME CrcAssumption ==
  /\ Crc(<<>>) = 0
  /\ \A s \in Images : Crc(s) \in CrcValues
  /\ \A s \in Images : \A b \in Blocks :
       Len(s) < MaxBlocks => CrcUpdate(Crc(s), b) = Crc(Append(s, b))

VARIABLES
  state,              \* fwu_state.state
  total_size,         \* fwu_state.total_size
  received,           \* fwu_state.received
  expected_crc32,     \* fwu_state.expected_crc32
  actual_crc32,       \* fwu_state.actual_crc32
  swap_scheduled,     \* fwu_state.swap_scheduled
  started,            \* fwu_state.started
  completed,          \* fwu_state.completed
  failed,             \* fwu_state.failed
  secondary_readers,  \* secondary_readers
  buffer,             \* blocks in fwu_stream_buffer, not programmed yet
  slot,               \* blocks programmed in the secondary slot since its erase
  primary,            \* the running image
  swap_type,          \* what mcuboot_swap_type() answers
  fallback            \* history: the image MCUboot goes back to from a trial

transfer == <<total_size, received, expected_crc32, actual_crc32>>
counters == <<started, completed, failed>>
boot     == <<primary, fallback>>
vars == <<state, transfer, swap_scheduled, counters, secondary_readers, buffer,
          slot, boot, swap_type>>

States    == {"IDLE", "RECEIVING", "READY", "FAILED", "VERIFIED"}
SwapTypes == {"NONE", "TEST", "REVERT"}
Results   == {"OK", "EINVAL", "EFBIG", "EBUSY", "ESPIPE", "EAGAIN", "EILSEQ", "EIO"}

Flash == Seq(Blocks \cup {Torn})

----------------------------------------------------------------------------
(* Flash and bootloader. *)

(* fwu_erase_slot: the whole partition, MCUboot's trailer included.         *)
EraseOk ==
  /\ slot' = <<>>
  /\ swap_type' = "NONE"

(* A failed erase stops anywhere: nothing lost, some blocks lost, or the    *)
(* trailer at the end of the partition lost as well.                        *)
EraseFails ==
  /\ slot' \in {slot, <<Torn>>}
  /\ swap_type' \in {swap_type, "NONE"}

(* secondary_needed_for_revert *)
RevertPending == swap_type = "REVERT"

----------------------------------------------------------------------------
(* kfsw_fwu_secondary_acquire / kfsw_fwu_secondary_release *)

SlotInUse == state \in {"RECEIVING", "FAILED"}

Acquire(r) ==
  /\ \/ SlotInUse /\ r = "EBUSY" /\ UNCHANGED secondary_readers
     \/ /\ ~SlotInUse /\ r = "OK"
        /\ secondary_readers < MaxReaders
        /\ secondary_readers' = secondary_readers + 1
  /\ UNCHANGED <<state, transfer, swap_scheduled, counters, buffer, slot, boot, swap_type>>

Release ==
  /\ secondary_readers > 0
  /\ secondary_readers' = secondary_readers - 1
  /\ UNCHANGED <<state, transfer, swap_scheduled, counters, buffer, slot, boot, swap_type>>

----------------------------------------------------------------------------
(* kfsw_fwu_begin *)

SecondaryBusy_ForgetsReaders == RevertPending

SecondaryBusy_ForgetsRevert == secondary_readers # 0

SecondaryBusy == secondary_readers # 0 \/ RevertPending

(* Erase, open or stream_flash_init failed: the slot counts as failed. The  *)
(* transfer's own fields keep the values of the transfer before.            *)
BeginFails ==
  /\ failed < MaxFailed
  /\ EraseFails \/ EraseOk
  /\ state' = "FAILED"
  /\ failed' = failed + 1
  /\ UNCHANGED <<transfer, swap_scheduled, started, completed, buffer>>

BeginStarts(size, crc) ==
  /\ started < MaxStarted
  /\ EraseOk
  /\ buffer' = <<>>
  /\ total_size' = size
  /\ expected_crc32' = crc
  /\ received' = 0
  /\ actual_crc32' = 0
  /\ swap_scheduled' = FALSE
  /\ state' = "RECEIVING"
  /\ started' = started + 1
  /\ UNCHANGED <<completed, failed>>

Begin(size, crc, r) ==
  \/ size = 0 /\ r = "EINVAL" /\ UNCHANGED vars
  \/ size > MaxBlocks /\ r = "EFBIG" /\ UNCHANGED vars
  \/ /\ size \in 1..MaxBlocks
     /\ state = "RECEIVING" \/ SecondaryBusy
     /\ r = "EBUSY"
     /\ UNCHANGED vars
  \/ /\ size \in 1..MaxBlocks
     /\ state # "RECEIVING" /\ ~SecondaryBusy
     /\ \/ r = "OK" /\ BeginStarts(size, crc)
        \/ r = "EIO" /\ BeginFails
     /\ UNCHANGED <<secondary_readers, boot>>

----------------------------------------------------------------------------
(* kfsw_fwu_write *)

(* stream_flash_buffered_write programs the buffer whenever it fills up.    *)
BufferBlock(b) ==
  IF Len(buffer) + 1 = BufferBlocks
  THEN slot' = slot \o Append(buffer, b) /\ buffer' = <<>>
  ELSE buffer' = Append(buffer, b) /\ UNCHANGED slot

WriteAccepted(b) ==
  /\ BufferBlock(b)
  /\ actual_crc32' = CrcUpdate(actual_crc32, b)
  /\ received' = received + 1
  /\ UNCHANGED <<state, failed>>

WriteFails ==
  /\ Len(buffer) + 1 = BufferBlocks
  /\ slot' \in {slot, Append(slot, Torn)}
  /\ state' = "FAILED"
  /\ failed' = failed + 1
  /\ UNCHANGED <<buffer, actual_crc32, received>>

WriteRefusal(offset) ==
  IF state # "RECEIVING" THEN "EINVAL"
  ELSE IF offset # received THEN "ESPIPE"
  ELSE IF offset + 1 > total_size THEN "EFBIG" ELSE "OK"

Write(offset, b, r) ==
  \/ /\ WriteRefusal(offset) # "OK"
     /\ r = WriteRefusal(offset)
     /\ UNCHANGED vars
  \/ /\ WriteRefusal(offset) = "OK"
     /\ \/ r = "OK" /\ WriteAccepted(b)
        \/ r = "EIO" /\ WriteFails
     /\ UNCHANGED <<total_size, expected_crc32, swap_scheduled, started, completed,
                    secondary_readers, boot, swap_type>>

----------------------------------------------------------------------------
(* fwu_verify_locked and its two callers *)

VerifyAnswer_AnyLength ==
  IF state \notin {"RECEIVING", "VERIFIED"} THEN "EINVAL"
  ELSE IF state = "VERIFIED" THEN "OK"
  ELSE IF actual_crc32 # expected_crc32 THEN "EILSEQ" ELSE "OK"

(* What fwu_verify_locked answers before it touches the flash.              *)
VerifyAnswer ==
  IF state \notin {"RECEIVING", "VERIFIED"} THEN "EINVAL"
  ELSE IF state = "VERIFIED" THEN "OK"
  ELSE IF received # total_size THEN "EAGAIN"
  ELSE IF actual_crc32 # expected_crc32 THEN "EILSEQ" ELSE "OK"

FailVerification ==
  /\ state' = "FAILED"
  /\ failed' = failed + 1

FlushBuffer_Forgotten == slot' = slot /\ buffer' = <<>>

(* The final flush programs what the stream writer still buffers.           *)
FlushBuffer == slot' = slot \o buffer /\ buffer' = <<>>

VerifyLocked(r) ==
  \/ /\ VerifyAnswer \in {"EINVAL", "EAGAIN"}
     /\ r = VerifyAnswer
     /\ UNCHANGED <<state, failed, buffer, slot, swap_type>>
  \/ /\ VerifyAnswer = "EILSEQ" /\ r = "EILSEQ"
     /\ EraseOk \/ EraseFails
     /\ FailVerification
     /\ UNCHANGED buffer
  \/ /\ VerifyAnswer = "OK" /\ state = "VERIFIED" /\ r = "OK"
     /\ UNCHANGED <<state, failed, buffer, slot, swap_type>>
  \/ /\ VerifyAnswer = "OK" /\ state = "RECEIVING"
     /\ \/ r = "OK" /\ FlushBuffer /\ state' = "VERIFIED" /\ UNCHANGED failed
        \/ r = "EIO" /\ slot' \in {slot, Append(slot, Torn)} /\ FailVerification
           /\ UNCHANGED buffer
     /\ UNCHANGED swap_type

Verify(r) ==
  /\ VerifyLocked(r)
  /\ UNCHANGED <<transfer, swap_scheduled, started, completed, secondary_readers, boot>>

(* kfsw_fwu_finish after a successful verification, composed with it: the   *)
(* slot is flushed, and MCUboot is asked for a TEST swap.                   *)
Schedule(r) ==
  /\ VerifyAnswer = "OK"
  /\ IF state = "VERIFIED" THEN UNCHANGED <<slot, buffer>> ELSE FlushBuffer
  /\ \/ /\ r = "OK"
        /\ swap_type' = "TEST"
        /\ swap_scheduled' = TRUE
        /\ state' = "READY"
        /\ completed' = completed + 1
        /\ UNCHANGED failed
     \/ /\ r = "EIO"    \* boot_request_upgrade failed, or no swap was scheduled
        /\ swap_type' \in {"NONE", "TEST"}
        /\ FailVerification
        /\ UNCHANGED <<swap_scheduled, completed>>

Finish(r) ==
  \/ secondary_readers # 0 /\ r = "EBUSY" /\ UNCHANGED vars
  \/ /\ secondary_readers = 0 /\ r # "OK"
     /\ VerifyLocked(r)
     /\ UNCHANGED <<transfer, swap_scheduled, started, completed, secondary_readers, boot>>
  \/ /\ secondary_readers = 0
     /\ Schedule(r)
     /\ UNCHANGED <<transfer, started, secondary_readers, boot>>

----------------------------------------------------------------------------
(* kfsw_fwu_abort *)

AbortCleanup(r) ==
  \/ /\ r = "OK"
     /\ EraseOk
     /\ total_size' = 0 /\ received' = 0 /\ expected_crc32' = 0 /\ actual_crc32' = 0
     /\ swap_scheduled' = FALSE
     /\ state' = "IDLE"
  \/ /\ r = "EIO"
     /\ EraseFails
     /\ state' = "FAILED"
     /\ UNCHANGED <<transfer, swap_scheduled>>

Abort(r) ==
  \/ SecondaryBusy /\ r = "EBUSY" /\ UNCHANGED vars
  \/ /\ ~SecondaryBusy
     /\ failed' = IF state = "RECEIVING" THEN failed + 1 ELSE failed
     /\ AbortCleanup(r)
     /\ UNCHANGED <<started, completed, secondary_readers, buffer, boot>>

----------------------------------------------------------------------------
(* The bootloader, and the loss of everything in RAM. *)

(* The image in the secondary slot that MCUboot would accept: complete and  *)
(* undamaged.  Its signature check is stronger than that.                   *)
Bootable(s) == s # <<>> /\ s \in Seq(Blocks)

Restart ==
  /\ state' = "IDLE"
  /\ total_size' = 0 /\ received' = 0 /\ expected_crc32' = 0 /\ actual_crc32' = 0
  /\ swap_scheduled' = FALSE
  /\ started' = 0 /\ completed' = 0 /\ failed' = 0
  /\ secondary_readers' = 0
  /\ buffer' = <<>>
  /\ \/ swap_type = "NONE" /\ UNCHANGED <<slot, primary, swap_type, fallback>>
     \/ /\ swap_type = "TEST" /\ Bootable(slot)
        /\ primary' = slot /\ slot' = primary /\ fallback' = primary
        /\ swap_type' = "REVERT"
     \/ /\ swap_type = "TEST" /\ ~Bootable(slot)
        /\ slot' \in {slot, <<>>} /\ swap_type' = "NONE"
        /\ UNCHANGED <<primary, fallback>>
     \/ /\ swap_type = "REVERT"
        /\ primary' = slot /\ slot' = primary
        /\ swap_type' = "NONE"
        /\ UNCHANGED fallback

(* boot_write_img_confirmed, called by kfsw_boot_confirm_image.             *)
Confirm ==
  /\ swap_type' = IF RevertPending THEN "NONE" ELSE swap_type
  /\ UNCHANGED <<state, transfer, swap_scheduled, counters, secondary_readers, buffer,
                 slot, boot>>

----------------------------------------------------------------------------
Init ==
  /\ state = "IDLE"
  /\ total_size = 0 /\ received = 0 /\ expected_crc32 = 0 /\ actual_crc32 = 0
  /\ swap_scheduled = FALSE
  /\ started = 0 /\ completed = 0 /\ failed = 0
  /\ secondary_readers = 0
  /\ buffer = <<>>
  /\ slot = <<>>
  /\ primary \in {s \in Images : Len(s) = 1}
  /\ swap_type = "NONE"
  /\ fallback = primary

Next ==
  \/ \E size \in 0..MaxBlocks + 1, crc \in CrcValues, r \in Results : Begin(size, crc, r)
  \/ \E offset \in 0..MaxBlocks, b \in Blocks, r \in Results : Write(offset, b, r)
  \/ \E r \in Results : Verify(r)
  \/ \E r \in Results : Finish(r)
  \/ \E r \in Results : Abort(r)
  \/ \E r \in Results : Acquire(r)
  \/ Release
  \/ Restart
  \/ Confirm

Spec == Init /\ [][Next]_vars

----------------------------------------------------------------------------
TypeOK ==
  /\ state \in States
  /\ total_size \in 0..MaxBlocks
  /\ received \in 0..MaxBlocks
  /\ expected_crc32 \in CrcValues
  /\ actual_crc32 \in CrcValues
  /\ swap_scheduled \in BOOLEAN
  /\ started \in Nat /\ completed \in Nat /\ failed \in Nat
  /\ secondary_readers \in Nat
  /\ buffer \in Seq(Blocks)
  /\ slot \in Flash
  /\ primary \in Flash
  /\ swap_type \in SwapTypes
  /\ fallback \in Flash

(* The slot holds a whole image: as many undamaged blocks as were declared  *)
(* by kfsw_fwu_begin, with the CRC that was declared.                       *)
SlotHoldsDeclaredImage ==
  /\ slot \in Seq(Blocks)
  /\ Len(slot) = total_size
  /\ Crc(slot) = expected_crc32

(* KFSW_FWU_VERIFIED ("checked and flushed to flash") and KFSW_FWU_READY    *)
(* ("fully received, verified") mean what they say, whatever the callers    *)
(* interleaved and whichever calls failed: every declared byte is in flash, *)
(* none is left in the stream buffer, and the CRC of what is in flash is    *)
(* the declared one (fwu_verify_locked checks the CRC of what was offered). *)
VerifiedImageInFlash ==
  state \in {"VERIFIED", "READY"} => SlotHoldsDeclaredImage

(* Unless the service reports a failure, MCUboot is only ever left with a   *)
(* swap to an image that was received completely and verified: no begin,    *)
(* abort or CRC rejection leaves the trailer behind (kfsw_fwu_finish).      *)
TestSwapIsVerified ==
  swap_type = "TEST" /\ state # "FAILED" => SlotHoldsDeclaredImage

(* While MCUboot may still have to revert a trial boot, the secondary slot  *)
(* holds the image it would revert to (secondary_needed_for_revert).        *)
FallbackKept == swap_type = "REVERT" => slot = fallback

(* "A secondary reader blocks erase and upgrade requests until it closes":  *)
(* while a slot file stays open, no call changes what it reads or asks for  *)
(* a swap, CRC rejection by kfsw_fwu_verify included.                       *)
ReaderSeesStableSlot ==
  [][secondary_readers > 0 /\ secondary_readers' > 0 =>
       /\ slot' = slot
       /\ swap_type' = "TEST" => swap_type = "TEST"]_vars

(* fwu.h: started counts "Transfers begun since boot", completed those that *)
(* "reached KFSW_FWU_READY", failed those "that failed or were aborted".    *)
(* So every transfer begun is completed, failed, or still in progress.      *)
EveryTransferCounted ==
  started <= completed + failed + (IF state \in {"RECEIVING", "VERIFIED"} THEN 1 ELSE 0)
=============================================================================
