---------------------------- MODULE RecoveryProofs ----------------------------
(***************************************************************************)
(* For every set of images, budget and saturation point: unconfirmed boots  *)
(* are counted exactly while records are saved, and recovery is only        *)
(* installed over an image that spent its budget.  A boot raises the true   *)
(* count before the diagnostics raise the recorded one, so the invariant    *)
(* has two halves: in step "boot" the record is one behind, and afterwards  *)
(* it is level.                                                             *)
(***************************************************************************)
EXTENDS Recovery, TLAPS

(* The count the diagnostics will arrive at in this boot.                   *)
Coming == IF record.image = primary THEN Up(record.attempts) ELSE 1

Reasons == {"NONE", "UNCONFIRMED_REPLACED", "REPLACED_UNKNOWN"}

Records == [image : Images \cup {"none"}, attempts : 0..MaxAttempts, trial : BOOLEAN,
            revert : BOOLEAN, reason : Reasons]

RecoveryTypes ==
  /\ primary \in Images /\ primary # "none" /\ secondary \in Images \cup {"none"}
  /\ confirmed \in BOOLEAN /\ swap \in {"none", "test", "revert"}
  /\ record \in Records
  /\ diagnostics \in [valid : BOOLEAN, attempts : 0..MaxAttempts, reason : Reasons]
  /\ step \in {"boot", "up", "install", "running"}
  /\ streak \in 0..MaxAttempts /\ ever \in [Images -> 0..MaxAttempts] /\ missed \in BOOLEAN

(* No count exceeds the unconfirmed boots the image really had.             *)
NeverOvercounts ==
  /\ record.image # "none" => record.attempts <= ever[record.image]
  /\ step = "boot" /\ ~confirmed => Coming <= ever[primary]
  /\ diagnostics.valid => diagnostics.attempts <= ever[primary]
  /\ step = "install" => ever[primary] > Budget

(* While every record was saved, the counts are the true ones.              *)
CountsExactly ==
  ~missed =>
    /\ step = "boot" => streak = IF confirmed THEN 0 ELSE Coming
    /\ step # "boot" => record.image = primary /\ record.attempts = streak
    /\ diagnostics.valid => diagnostics.attempts = streak

RecoveryInv ==
  /\ RecoveryTypes
  /\ NeverOvercounts
  /\ CountsExactly
  /\ step = "boot" => ~diagnostics.valid

(* Counting up saturates and keeps the order.                               *)
LEMMA UpFacts ==
  ASSUME BudgetAssumption
  PROVE  /\ \A n \in 0..MaxAttempts : Up(n) \in 0..MaxAttempts /\ Up(n) >= 1 /\ n <= Up(n)
         /\ \A m, n \in 0..MaxAttempts : m <= n => Up(m) <= Up(n)
         /\ MaxAttempts \in Nat /\ MaxAttempts >= 1 /\ 0 \in 0..MaxAttempts /\ 1 \in 0..MaxAttempts
BY DEF BudgetAssumption, Up

(* What the diagnostics record, at a start and at a confirmation.           *)
LEMMA AttemptsFacts ==
  ASSUME BudgetAssumption, RecoveryTypes
  PROVE  /\ Attempts(TRUE) = 0 /\ Attempts(FALSE) = Coming
         /\ Attempts(FALSE) \in 0..MaxAttempts /\ Reason \in Reasons
<1>1. record.attempts \in 0..MaxAttempts /\ record.image \in Images \cup {"none"}
      /\ record.reason \in Reasons
  BY DEF RecoveryTypes, Records
<1>2. Attempts(TRUE) = 0
  BY DEF Attempts
<1>3. Up(0) = 1
  BY UpFacts DEF Up
<1>4. Attempts(FALSE) = Coming
  BY <1>3 DEF Attempts, Coming
<1>5. Coming \in 0..MaxAttempts
  BY <1>1, UpFacts DEF Coming
<1>6. Reason \in Reasons
  BY <1>1 DEF Reason, Reasons
<1>7. QED
  BY <1>2, <1>4, <1>5, <1>6

(* At first the factory image runs and no record was saved.                 *)
LEMMA InitRecovery == BudgetAssumption /\ Init => RecoveryInv
<1> SUFFICES ASSUME BudgetAssumption, Init PROVE RecoveryInv
  OBVIOUS
<1>1. RecoveryTypes
  BY UpFacts DEF Init, RecoveryTypes, Records, Reasons, NoRecord, Invalid, Images
<1>2. NeverOvercounts
  BY UpFacts DEF Init, NeverOvercounts, Coming, NoRecord, Invalid, Images
<1>3. CountsExactly
  BY UpFacts DEF Init, CountsExactly, Coming, NoRecord, Invalid
<1>4. QED
  BY <1>1, <1>2, <1>3 DEF RecoveryInv, Init, Invalid

(* The record catches up with the boot, or the diagnostics are not valid.   *)
LEMMA DiagnosticsKeep ==
  ASSUME BudgetAssumption, RecoveryInv, NEW saved \in BOOLEAN, DiagnosticsStart(saved)
  PROVE  RecoveryInv'
<1> DEFINE n == Attempts(confirmed)
<1>1. /\ step = "boot" /\ step' = "up"
      /\ UNCHANGED <<primary, confirmed, secondary, swap, streak, ever>>
  BY DEF DiagnosticsStart
<1>2. /\ n \in 0..MaxAttempts /\ n <= ever[primary] /\ Reason \in Reasons
      /\ n = IF confirmed THEN 0 ELSE Coming
  <2>1. CASE confirmed
    <3>1. confirmed = TRUE
      BY <2>1 DEF RecoveryInv, RecoveryTypes
    <3>2. n = 0 /\ Reason \in Reasons
      BY <3>1, AttemptsFacts DEF RecoveryInv
    <3>3. ever[primary] \in 0..MaxAttempts
      BY DEF RecoveryInv, RecoveryTypes
    <3>4. 0 \in 0..MaxAttempts /\ 0 <= ever[primary]
      BY <3>3, UpFacts
    <3>5. (IF confirmed THEN 0 ELSE Coming) = 0
      BY <2>1
    <3>6. QED
      BY <3>2, <3>4, <3>5
  <2>2. CASE ~confirmed
    BY <1>1, <2>2, AttemptsFacts DEF RecoveryInv, RecoveryTypes, NeverOvercounts
  <2>3. QED
    BY <2>1, <2>2
<1>3. CASE saved
  <2>1. /\ record' = [image |-> primary, attempts |-> n, trial |-> ~confirmed,
                      revert |-> (swap = "revert"), reason |-> Reason]
        /\ diagnostics' = [valid |-> TRUE, attempts |-> n, reason |-> Reason]
        /\ missed' = missed
    BY <1>3 DEF DiagnosticsStart, RecordImage
  <2>2. RecoveryTypes'
    BY <1>1, <1>2, <2>1 DEF RecoveryInv, RecoveryTypes, Records
  <2>3. NeverOvercounts'
    BY <1>1, <1>2, <2>1 DEF RecoveryInv, NeverOvercounts
  <2>4. CountsExactly'
    BY <1>1, <1>2, <2>1 DEF RecoveryInv, CountsExactly
  <2>5. QED
    BY <1>1, <2>2, <2>3, <2>4 DEF RecoveryInv
<1>4. CASE ~saved
  <2>1. diagnostics' = Invalid /\ missed' = TRUE /\ record' = record
    BY <1>4 DEF DiagnosticsStart, RecordImage
  <2>2. RecoveryTypes'
    BY <1>1, <2>1, UpFacts DEF RecoveryInv, RecoveryTypes, Invalid, Reasons
  <2>3. QED
    BY <1>1, <2>1, <2>2 DEF RecoveryInv, NeverOvercounts, CountsExactly, Invalid
<1>5. QED
  BY <1>3, <1>4

(* A confirmation records no attempts, and counts start over.               *)
LEMMA ConfirmKeeps ==
  ASSUME BudgetAssumption, RecoveryInv, NEW saved \in BOOLEAN, ConfirmImage(saved)
  PROVE  RecoveryInv'
<1>1. /\ step # "boot" /\ confirmed' = TRUE /\ streak' = 0
      /\ swap' \in {"none", "test", "revert"} /\ UNCHANGED <<primary, secondary, step, ever>>
  BY DEF ConfirmImage, RecoveryInv, RecoveryTypes
<1>2. ever[primary] \in 0..MaxAttempts /\ 0 <= ever[primary]
  BY UpFacts DEF RecoveryInv, RecoveryTypes
<1>3. CASE saved
  <2>1. /\ record' = [image |-> primary, attempts |-> 0, trial |-> FALSE,
                      revert |-> FALSE, reason |-> Reason]
        /\ diagnostics' = [valid |-> TRUE, attempts |-> 0, reason |-> Reason]
        /\ missed' = missed
    BY <1>3, AttemptsFacts DEF ConfirmImage, Rerecorded, RecordImage, RecoveryInv
  <2>2. RecoveryTypes'
    BY <1>1, <2>1, UpFacts, AttemptsFacts DEF RecoveryInv, RecoveryTypes, Records
  <2>3. QED
    BY <1>1, <1>2, <2>1, <2>2 DEF RecoveryInv, NeverOvercounts, CountsExactly
<1>4. CASE ~saved
  <2>1. diagnostics' = Invalid /\ missed' = TRUE /\ record' = record
    BY <1>4 DEF ConfirmImage, Rerecorded, RecordImage
  <2>2. RecoveryTypes'
    BY <1>1, <2>1, UpFacts DEF RecoveryInv, RecoveryTypes, Invalid, Reasons
  <2>3. QED
    BY <1>1, <2>1, <2>2 DEF RecoveryInv, NeverOvercounts, CountsExactly, Invalid
<1>5. QED
  BY <1>3, <1>4

(* Startup after the diagnostics, and an upload, leave counts alone.        *)
LEMMA StartupKeeps ==
  ASSUME BudgetAssumption, RecoveryInv,
         (\E present \in BOOLEAN : Decide(present)) \/ Install \/ InstallFails
           \/ \E image \in Updates : Update(image)
  PROVE  RecoveryInv'
<1>1. ASSUME NEW present \in BOOLEAN, Decide(present) PROVE RecoveryInv'
  <2>1. /\ step = "up" /\ step' \in {"install", "running"}
        /\ step' = "install" => diagnostics.valid /\ diagnostics.attempts > Budget
        /\ UNCHANGED <<primary, confirmed, secondary, swap, record, diagnostics, streak, ever, missed>>
    BY <1>1 DEF Decide, Exhausted
  <2>2. ever[primary] \in Nat /\ diagnostics.attempts \in Nat /\ Budget \in Nat
    BY UpFacts DEF RecoveryInv, RecoveryTypes, BudgetAssumption
  <2>3. RecoveryTypes'
    BY <2>1 DEF RecoveryInv, RecoveryTypes
  <2>4. NeverOvercounts'
    BY <2>1, <2>2 DEF RecoveryInv, NeverOvercounts
  <2>5. QED
    BY <2>1, <2>3, <2>4 DEF RecoveryInv, CountsExactly
<1>2. CASE Install \/ InstallFails \/ \E image \in Updates : Update(image)
  <2>1. /\ step \in {"install", "running"} /\ step' = "running"
        /\ secondary' \in Images \cup {"none"} /\ swap' \in {"none", "test", "revert"}
        /\ UNCHANGED <<primary, confirmed, record, diagnostics, streak, ever, missed>>
    BY <1>2 DEF Install, InstallFails, Update, Images, RecoveryInv, RecoveryTypes
  <2>2. RecoveryTypes'
    BY <2>1 DEF RecoveryInv, RecoveryTypes
  <2>3. QED
    BY <2>1, <2>2 DEF RecoveryInv, NeverOvercounts, CountsExactly
<1>3. QED
  BY <1>1, <1>2

(* MCUboot: a boot raises the true counts and invalidates the diagnostics.  *)
LEMMA BootKeeps ==
  ASSUME BudgetAssumption, RecoveryInv, Boot
  PROVE  RecoveryInv'
<1> DEFINE swaps == swap # "none" /\ secondary # "none"
           image == IF swaps THEN secondary ELSE primary
           ok    == IF swaps THEN swap = "revert" ELSE confirmed
<1>1. /\ primary' = image /\ confirmed' = ok /\ step' = "boot" /\ diagnostics' = Invalid
      /\ record' = record /\ secondary' = (IF swaps THEN primary ELSE secondary)
      /\ swap' \in {"none", "test", "revert"}
      /\ streak' = (IF ok THEN 0 ELSE IF image # primary THEN 1 ELSE Up(streak))
      /\ ever' = (IF ok THEN ever ELSE [ever EXCEPT ![image] = Up(@)])
      /\ missed' = (missed \/ step = "boot")
  BY DEF Boot
<1>2. image \in Images /\ image # "none" /\ ok \in BOOLEAN /\ primary # "none"
  BY DEF RecoveryInv, RecoveryTypes
<1>3. ever' \in [Images -> 0..MaxAttempts] /\ \A i \in Images : ever[i] <= ever'[i]
  <2>1. \A i \in Images : ever[i] \in 0..MaxAttempts /\ ever[i] <= ever[i]
    BY UpFacts DEF RecoveryInv, RecoveryTypes
  <2>2. CASE ok
    BY <1>1, <2>1, <2>2 DEF RecoveryInv, RecoveryTypes
  <2>3. CASE ~ok
    <3>1. ever' = [ever EXCEPT ![image] = Up(ever[image])]
      BY <1>1, <2>3
    <3>2. Up(ever[image]) \in 0..MaxAttempts /\ ever[image] <= Up(ever[image])
      BY <1>2, <2>1, UpFacts
    <3>3. QED
      BY <1>2, <2>1, <3>1, <3>2 DEF RecoveryInv, RecoveryTypes
  <2>4. QED
    BY <2>2, <2>3
<1>4. streak' \in 0..MaxAttempts
  BY <1>1, UpFacts DEF RecoveryInv, RecoveryTypes
<1>5. RecoveryTypes'
  <2>1. secondary' \in Images \cup {"none"} /\ missed' \in BOOLEAN
    BY <1>1 DEF RecoveryInv, RecoveryTypes
  <2>2. Invalid \in [valid : BOOLEAN, attempts : 0..MaxAttempts, reason : Reasons]
    BY UpFacts DEF Invalid, Reasons
  <2>3. QED
    BY <1>1, <1>2, <1>3, <1>4, <2>1, <2>2 DEF RecoveryInv, RecoveryTypes
<1>6. record.attempts \in 0..MaxAttempts /\ record.image \in Images \cup {"none"}
  BY DEF RecoveryInv, RecoveryTypes, Records
<1>7. NeverOvercounts'
  <2>1. record.image # "none" => record.attempts <= ever'[record.image]
    BY <1>3, <1>6, UpFacts DEF RecoveryInv, RecoveryTypes, NeverOvercounts
  <2>2. ~ok => Coming' <= ever'[image]
    <3> SUFFICES ASSUME ~ok PROVE Coming' <= ever'[image]
      OBVIOUS
    <3>1. ever'[image] = Up(ever[image]) /\ ever[image] \in 0..MaxAttempts
      BY <1>1, <1>2 DEF RecoveryInv, RecoveryTypes
    <3>2. Coming' = IF record.image = image THEN Up(record.attempts) ELSE 1
      BY <1>1 DEF Coming, Up
    <3>3. record.image = image => record.attempts <= ever[image]
      BY <1>2 DEF RecoveryInv, NeverOvercounts
    <3>4. QED
      BY <1>6, <3>1, <3>2, <3>3, UpFacts
  <2>3. QED
    BY <1>1, <2>1, <2>2 DEF NeverOvercounts, Invalid
<1>8. CountsExactly'
  <2> SUFFICES ASSUME ~missed' PROVE streak' = IF confirmed' THEN 0 ELSE Coming'
    BY <1>1 DEF CountsExactly, Invalid
  <2>1. record.image = primary /\ record.attempts = streak
    BY <1>1 DEF RecoveryInv, CountsExactly
  <2>2. Coming' = IF primary = image THEN Up(streak) ELSE 1
    BY <1>1, <2>1 DEF Coming, Up
  <2>3. QED
    BY <1>1, <2>2
<1>9. QED
  BY <1>1, <1>5, <1>7, <1>8 DEF RecoveryInv, Invalid

(* Every step from one boot to the next.                                    *)
LEMMA RecoveryInvKept == BudgetAssumption /\ RecoveryInv /\ [Next]_vars => RecoveryInv'
<1> SUFFICES ASSUME BudgetAssumption, RecoveryInv, [Next]_vars PROVE RecoveryInv'
  OBVIOUS
<1>1. ASSUME NEW saved \in BOOLEAN, DiagnosticsStart(saved) \/ ConfirmImage(saved)
      PROVE  RecoveryInv'
  BY <1>1, DiagnosticsKeep, ConfirmKeeps
<1>2. CASE (\E present \in BOOLEAN : Decide(present)) \/ Install \/ InstallFails
             \/ \E image \in Updates : Update(image)
  BY <1>2, StartupKeeps
<1>3. CASE Boot
  BY <1>3, BootKeeps
<1>4. CASE UNCHANGED vars
  BY <1>4 DEF vars, RecoveryInv, RecoveryTypes, NeverOvercounts, CountsExactly, Coming, Up
<1>5. QED
  BY <1>1, <1>2, <1>3, <1>4 DEF Next

(* Unless a record could not be saved, valid diagnostics count exactly the  *)
(* unconfirmed boots in a row of the running image (boot_diagnostics.c,     *)
(* kfsw_boot_record_image).                                                 *)
THEOREM AttemptsAreExactAlways ==
  ASSUME BudgetAssumption
  PROVE  Spec => []AttemptsAreExact
<1>1. RecoveryInv => AttemptsAreExact
  BY DEF RecoveryInv, CountsExactly, AttemptsAreExact
<1>2. Init => RecoveryInv
  BY InitRecovery
<1>3. RecoveryInv /\ [Next]_vars => RecoveryInv'
  BY RecoveryInvKept
<1>4. QED
  BY <1>1, <1>2, <1>3, PTL DEF Spec

(* Even after failed saves, the golden image is only installed over an      *)
(* image that booted unconfirmed more often than the budget allows          *)
(* (golden.c, kfsw_golden_check).                                           *)
THEOREM InstallIsEarnedAlways ==
  ASSUME BudgetAssumption
  PROVE  Spec => []InstallIsEarned
<1>1. RecoveryInv => InstallIsEarned
  BY DEF RecoveryInv, NeverOvercounts, InstallIsEarned
<1>2. Init => RecoveryInv
  BY InitRecovery
<1>3. RecoveryInv /\ [Next]_vars => RecoveryInv'
  BY RecoveryInvKept
<1>4. QED
  BY <1>1, <1>2, <1>3, PTL DEF Spec
=============================================================================
