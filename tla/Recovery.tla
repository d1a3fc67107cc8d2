------------------------------- MODULE Recovery -------------------------------
(***************************************************************************)
(* Boot trial diagnostics (src/boot_diagnostics.c) and the recovery image   *)
(* (src/golden/golden.c) over the bootloader's two slots: every start       *)
(* records the running image and counts its unconfirmed boots in a file     *)
(* written atomically; when the count passes the budget the golden image is *)
(* handed to the update service.  The transfer inside kfsw_golden_install   *)
(* is Fwu's subject and is one step here.                                   *)
(***************************************************************************)
EXTENDS Integers

CONSTANTS
  Updates,      \* images the ground uploads
  Budget,       \* kfsw_boot_get_retry_budget
  MaxAttempts   \* the attempt count saturates here (UINT32_MAX - 1)

BudgetAssumption == Budget \in Nat \ {0} /\ MaxAttempts \in Nat /\ Budget < MaxAttempts

VARIABLES
  primary,     \* the running image
  confirmed,   \* its image_ok flag
  secondary,   \* the image in the other slot, "none" if there is none
  swap,        \* what MCUboot does at the next boot: "none", "test" or "revert"
  record,      \* /boot-trial.dat: image, attempts, trial, revert_pending, reason
  diagnostics, \* the static copy: valid, attempts, reason
  step,        \* how far this boot is: "boot", "up", "install", "running"
  streak,      \* history: unconfirmed boots in a row of the running image
  ever,        \* history: unconfirmed boots of each image
  missed,      \* history: some start did not save its record
  reverted     \* history: an unconfirmed image was replaced by a revert

vars == <<primary, confirmed, secondary, swap, record, diagnostics, step, streak, ever, missed, reverted>>

Images == Updates \cup {"factory", "golden"}
NoRecord == [image |-> "none", attempts |-> 0, trial |-> FALSE, revert |-> FALSE, reason |-> "NONE"]
Invalid == [valid |-> FALSE, attempts |-> 0, reason |-> "NONE"]

Up(n) == IF n < MaxAttempts THEN n + 1 ELSE n

----------------------------------------------------------------------------
(* kfsw_boot_record_image *)

Attempts_NotKept(ok) == IF ok THEN 0 ELSE 1

Attempts(ok) ==
  LET old == IF ok \/ record.image # primary THEN 0 ELSE record.attempts
  IN  IF ok THEN old ELSE Up(old)

Reason ==
  IF record.trial /\ record.image # primary
    THEN IF record.revert THEN "UNCONFIRMED_REPLACED" ELSE "REPLACED_UNKNOWN"
    ELSE record.reason

(* With the file saved, the diagnostics are valid; otherwise the old file   *)
(* stays and they are not.                                                  *)
RecordImage(ok, revert, saved) ==
  IF saved
    THEN /\ record' = [image |-> primary, attempts |-> Attempts(ok), trial |-> ~ok,
                       revert |-> revert, reason |-> Reason]
         /\ diagnostics' = [valid |-> TRUE, attempts |-> Attempts(ok), reason |-> Reason]
         /\ UNCHANGED missed
    ELSE diagnostics' = Invalid /\ missed' = TRUE /\ UNCHANGED record

(* kfsw_boot_diagnostics_start at startup *)
DiagnosticsStart(saved) ==
  /\ step = "boot"
  /\ RecordImage(confirmed, swap = "revert", saved)
  /\ step' = "up"
  /\ UNCHANGED <<primary, confirmed, secondary, swap, streak, ever, reverted>>

(* kfsw_boot_confirm_image re-reads the confirmation after writing it.      *)
Rerecorded(saved) == RecordImage(TRUE, FALSE, saved)

(* kfsw_boot_confirm_image: the revert is called off.                       *)
ConfirmImage(saved) ==
  /\ step # "boot"
  /\ confirmed' = TRUE
  /\ swap' = IF swap = "revert" THEN "none" ELSE swap
  /\ streak' = 0
  /\ Rerecorded(saved)
  /\ UNCHANGED <<primary, secondary, step, ever, reverted>>

----------------------------------------------------------------------------
(* kfsw_golden_check, kfsw_golden_install *)

Exhausted_AtBudget == diagnostics.attempts >= Budget

Exhausted == diagnostics.attempts > Budget

Decide(present) ==
  /\ step = "up"
  /\ step' = IF diagnostics.valid /\ Exhausted /\ present THEN "install" ELSE "running"
  /\ UNCHANGED <<primary, confirmed, secondary, swap, record, diagnostics, streak, ever, missed, reverted>>

(* kfsw_fwu_begin answers -EBUSY while a revert is pending; kfsw_fwu_finish *)
(* asks for a test swap.                                                    *)
Install ==
  /\ step = "install" /\ swap # "revert"
  /\ secondary' = "golden" /\ swap' = "test"
  /\ step' = "running"
  /\ UNCHANGED <<primary, confirmed, record, diagnostics, streak, ever, missed, reverted>>

InstallFails ==
  /\ step = "install"
  /\ IF swap = "revert" THEN UNCHANGED <<secondary, swap>>
     ELSE secondary' = "none" /\ swap' = "none"
  /\ step' = "running"
  /\ UNCHANGED <<primary, confirmed, record, diagnostics, streak, ever, missed, reverted>>

(* The ground uploads an image through the update service.                  *)
Update(image) ==
  /\ step = "running" /\ swap # "revert"
  /\ secondary' = image /\ swap' = "test"
  /\ UNCHANGED <<primary, confirmed, record, diagnostics, step, streak, ever, missed, reverted>>

----------------------------------------------------------------------------
(* MCUboot: a test swap runs the new image unconfirmed and reverts at the   *)
(* next boot, which marks the old image good again.                         *)
Boot ==
  LET swaps == swap # "none" /\ secondary # "none"
      image == IF swaps THEN secondary ELSE primary
      ok    == IF swaps THEN swap = "revert" ELSE confirmed
  IN  /\ primary' = image /\ confirmed' = ok
      /\ secondary' = IF swaps THEN primary ELSE secondary
      /\ swap' = IF swaps /\ swap = "test" THEN "revert" ELSE "none"
      /\ streak' = IF ok THEN 0 ELSE IF image # primary THEN 1 ELSE Up(streak)
      /\ ever' = IF ok THEN ever ELSE [ever EXCEPT ![image] = Up(@)]
      /\ reverted' = (reverted \/ (swaps /\ swap = "revert" /\ ~confirmed))
      /\ step' = "boot" /\ diagnostics' = Invalid
      /\ missed' = (missed \/ step = "boot")
      /\ UNCHANGED record

(* The factory image may have been flashed without being marked good.       *)
Init ==
  /\ primary = "factory" /\ confirmed \in BOOLEAN
  /\ secondary = "none" /\ swap = "none"
  /\ record = NoRecord /\ diagnostics = Invalid /\ step = "boot"
  /\ streak = (IF confirmed THEN 0 ELSE 1)
  /\ ever = [i \in Images |-> IF i = "factory" THEN streak ELSE 0]
  /\ missed = FALSE /\ reverted = FALSE

Next ==
  \/ \E saved \in BOOLEAN : DiagnosticsStart(saved) \/ ConfirmImage(saved)
  \/ \E present \in BOOLEAN : Decide(present)
  \/ Install \/ InstallFails
  \/ \E image \in Updates : Update(image)
  \/ Boot

Spec == Init /\ [][Next]_vars

(* The node keeps restarting, and a step of its startup that can succeed    *)
(* again and again does.                                                    *)
Fairness ==
  /\ WF_vars(Boot) /\ SF_vars(DiagnosticsStart(TRUE)) /\ SF_vars(Install)
  /\ SF_vars(Decide(TRUE) /\ step' = "install")

FairSpec == Spec /\ Fairness

----------------------------------------------------------------------------
TypeOK ==
  /\ primary \in Images /\ secondary \in Images \cup {"none"}
  /\ confirmed \in BOOLEAN
  /\ swap \in {"none", "test", "revert"}
  /\ record.image \in Images \cup {"none"} /\ record.attempts \in 0..MaxAttempts
  /\ diagnostics.attempts \in 0..MaxAttempts
  /\ step \in {"boot", "up", "install", "running"}

(* As long as every start and every confirmation saved its record, valid    *)
(* diagnostics count exactly the unconfirmed boots in a row of the running  *)
(* image, across swaps, reverts and confirmations.                          *)
AttemptsAreExact == diagnostics.valid /\ ~missed => diagnostics.attempts = streak

(* Recovery is earned: even after failed saves, the golden image is only    *)
(* installed over an image that booted unconfirmed more often than the      *)
(* budget allows.                                                           *)
InstallIsEarned == step = "install" => ever[primary] > Budget

(* An image that is never confirmed and has no revert pending does not keep *)
(* the node for ever: the golden image takes over.                          *)
RecoveryHappens ==
  (primary = "factory" /\ ~confirmed) ~> (primary # "factory" \/ confirmed)

(* golden.h: installing means "asking for a permanent swap", so the         *)
(* recovery image stays until another image is uploaded.                    *)
GoldenStays ==
  [][primary = "golden" /\ primary' # "golden" => swap = "test" /\ secondary \in Updates]_vars

(* boot.h, of UNCONFIRMED_REPLACED: "An unconfirmed image with revert       *)
(* pending was replaced."                                                   *)
ReasonIsTrue == record.reason = "UNCONFIRMED_REPLACED" => reverted
=============================================================================
