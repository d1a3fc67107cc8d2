------------------------------ MODULE HkSettings ------------------------------
(***************************************************************************)
(* The settings of the housekeeping reports and the file that carries them  *)
(* over a reset (src/hk/hk.c from config_begin on, hk_persist.c, the        *)
(* setter of hk_beacon.c).                                                  *)
(*                                                                          *)
(* A change is made under config_lock, counted in config_revision, and      *)
(* config_lock is released before the caller waits for file_lock to save;   *)
(* so other changes come between a change and its save, and between the     *)
(* reading of the settings and the end of the save.  The file itself is     *)
(* replaced in one step (kfsw_snapshot_write).                              *)
(***************************************************************************)
EXTENDS Integers, FiniteSets, FiniteSetsExt

CONSTANTS
  Reports,      \* 0..CONFIG_KFSW_HK_REPORTS-1
  Definitions,  \* sets of parameters a report may be given
  Remote,       \* the parameters of other nodes
  Firmware,     \* builds: the width of each parameter, 0 for one it lacks
  SampleBytes,  \* CONFIG_KFSW_HK_SAMPLE_BYTES less the header
  Periods,
  Threads,      \* threads that change settings
  MaxChanges, MaxResets, MaxFaults

VARIABLES
  build,        \* the firmware that runs
  ready,        \* initialized and not restoring
  conf,         \* the settings of each report
  revision,     \* config_revision
  dirty,        \* stats.settings_dirty
  save_blocked,
  config_lock, file_lock,   \* the holders
  job,          \* per thread: how far its call is, and what it saves
  file,         \* the saved settings, or NoFile
  rejected,     \* history: the file a restore rejected, why, and whether
                \* kfsw_hk_save released it
  resets, faults

vars == <<build, ready, conf, revision, dirty, save_blocked, config_lock, file_lock, job, file,
          rejected, resets, faults>>

Empty == [def |-> {}, period |-> 0, store |-> FALSE, beacon |-> FALSE]
NoFile == [present |-> FALSE, reports |-> <<>>]
Nobody == 0
ThreadsAssumption == Nobody \notin Threads
NoJob == [step |-> "idle", revision |-> 0, image |-> NoFile]
NotRejected == [file |-> NoFile, result |-> "none", released |-> FALSE]

(* kfsw_hk_prepare_definition: every parameter exists and the values fit.   *)
(* A parameter of another node is asked for, and the node may not answer.   *)
Prepare(b, def) ==
  (IF \E p \in def : b[p] = 0 THEN {"ENOENT"}
   ELSE IF MapThenSumSet(LAMBDA p : b[p], def) > SampleBytes THEN {"EMSGSIZE"} ELSE {"ok"})
  \cup (IF def \cap Remote # {} THEN {"ETIMEDOUT"} ELSE {})

(* save_snapshot: the reports that are defined, with all their settings.    *)
SnapshotOf(c) ==
  [present |-> TRUE, reports |-> [r \in {q \in Reports : c[q].def # {}} |-> c[r]]]

----------------------------------------------------------------------------
(* The setters: config_begin, the change, config_end *)

Begin(t) ==
  /\ ready /\ job[t].step = "idle" /\ config_lock = Nobody /\ revision < MaxChanges
  /\ config_lock' = t
  /\ job' = [job EXCEPT ![t].step = "changed"]
  /\ UNCHANGED <<build, ready, revision, dirty, save_blocked, file_lock, file, rejected, resets,
                 faults>>

(* define_impl: the period and the beacon stay, the store is forgotten.     *)
Define(t, r, def) ==
  /\ Begin(t) /\ "ok" \in Prepare(build, def)
  /\ conf' = [conf EXCEPT ![r].def = def, ![r].store = FALSE]

(* clear_impl clears the report and its store; the beacon is kept apart.    *)
Clear(t, r) == Begin(t) /\ conf' = [conf EXCEPT ![r] = [Empty EXCEPT !.beacon = conf[r].beacon]]

SetPeriod(t, r, period) ==
  Begin(t) /\ conf[r].def # {} /\ conf' = [conf EXCEPT ![r].period = period]

SetStore(t, r, on) == Begin(t) /\ conf[r].def # {} /\ conf' = [conf EXCEPT ![r].store = on]

SetBeacon(t, r, on) == Begin(t) /\ conf' = [conf EXCEPT ![r].beacon = on]

ConfigEnd(t) ==
  /\ job[t].step = "changed"
  /\ revision' = revision + 1 /\ dirty' = TRUE
  /\ config_lock' = Nobody
  /\ job' = [job EXCEPT ![t].step = "save"]
  /\ UNCHANGED <<build, ready, conf, save_blocked, file_lock, file, rejected, resets, faults>>

(* kfsw_hk_save: "permits replacing a rejected snapshot"                    *)
SaveNow(t) ==
  /\ ready /\ job[t].step = "idle"
  /\ save_blocked' = FALSE
  /\ rejected' = [rejected EXCEPT !.released = rejected # NotRejected]
  /\ job' = [job EXCEPT ![t].step = "save"]
  /\ UNCHANGED <<build, ready, conf, revision, dirty, config_lock, file_lock, file, resets, faults>>

----------------------------------------------------------------------------
(* kfsw_hk_persist_save, save_snapshot, kfsw_hk_save_result *)

Blocked == save_blocked

(* The settings and their revision are read together, under storage_lock    *)
(* and the state lock.                                                      *)
ReadSettings(t) ==
  /\ job[t].step = "save" /\ file_lock = Nobody
  /\ IF Blocked
     THEN job' = [job EXCEPT ![t] = NoJob] /\ UNCHANGED file_lock
     ELSE /\ file_lock' = t
          /\ job' = [job EXCEPT ![t] = [step |-> "write", revision |-> revision,
                                        image |-> SnapshotOf(conf)]]
  /\ UNCHANGED <<build, ready, conf, revision, dirty, save_blocked, config_lock, file, rejected,
                 resets, faults>>

DirtyAfter_AnySave(saved) == FALSE

DirtyAfter(saved) == IF saved = revision THEN FALSE ELSE dirty

WriteFile(t) ==
  /\ job[t].step = "write"
  /\ file' = job[t].image
  /\ dirty' = DirtyAfter(job[t].revision)
  /\ rejected' = IF rejected.released THEN NotRejected ELSE rejected
  /\ file_lock' = Nobody /\ job' = [job EXCEPT ![t] = NoJob]
  /\ UNCHANGED <<build, ready, conf, revision, save_blocked, config_lock, resets, faults>>

(* KFSW_HK_APPLIED_UNSAVED *)
WriteFails(t) ==
  /\ job[t].step = "write" /\ faults < MaxFaults
  /\ faults' = faults + 1
  /\ file_lock' = Nobody /\ job' = [job EXCEPT ![t] = NoJob]
  /\ UNCHANGED <<build, ready, conf, revision, dirty, save_blocked, config_lock, file, rejected,
                 resets>>

----------------------------------------------------------------------------
(* A reset, perhaps into another build, and kfsw_hk_init *)

Reset ==
  /\ ready /\ resets < MaxResets /\ resets' = resets + 1
  /\ build' \in Firmware
  /\ ready' = FALSE
  /\ conf' = [r \in Reports |-> Empty] /\ revision' = 0 /\ dirty' = FALSE /\ save_blocked' = FALSE
  /\ config_lock' = Nobody /\ file_lock' = Nobody /\ job' = [t \in Threads |-> NoJob]
  /\ rejected' = NotRejected
  /\ UNCHANGED <<file, faults>>

(* The reports of the file that this build cannot take, and those that      *)
(* load_snapshot gets to: it stops at the first it refuses.                 *)
Broken == {r \in DOMAIN file.reports : "ok" \notin Prepare(build, file.reports[r].def)}

Examined ==
  IF Broken = {} THEN DOMAIN file.reports ELSE {r \in DOMAIN file.reports : r <= Min(Broken)}

(* A report may be refused, or a sample file not fit its report.            *)
LoadResults ==
  IF file = NoFile THEN {"ENOENT"}
  ELSE (UNION {Prepare(build, file.reports[r].def) \ {"ok"} : r \in Examined})
       \cup (IF Broken = {} THEN {"ok"} ELSE {})
       \cup (IF Broken = {} /\ \E r \in DOMAIN file.reports : file.reports[r].store THEN {"EBADMSG"} ELSE {})

BlockedAfter(result) == result \notin {"ok", "ENOENT"}

(* kfsw_hk_persist_load with restore_begin, restore_report and restore_end: *)
(* every report takes the place the file gives it, or none does.            *)
Restore ==
  /\ ~ready /\ ready' = TRUE
  /\ \E result \in LoadResults :
       /\ conf' = IF result = "ok"
                  THEN [r \in Reports |->
                          IF r \in DOMAIN file.reports THEN file.reports[r] ELSE Empty]
                  ELSE conf
       /\ save_blocked' = BlockedAfter(result) /\ dirty' = BlockedAfter(result)
       /\ revision' = IF result = "ok" THEN revision + 1 ELSE revision
       /\ rejected' = IF result # "ok" /\ file # NoFile THEN [file |-> file, result |-> result, released |-> FALSE]
                      ELSE NotRejected
  /\ UNCHANGED <<build, config_lock, file_lock, job, file, resets, faults>>

Init ==
  /\ build \in Firmware /\ ready = FALSE
  /\ conf = [r \in Reports |-> Empty] /\ revision = 0 /\ dirty = FALSE /\ save_blocked = FALSE
  /\ config_lock = Nobody /\ file_lock = Nobody /\ job = [t \in Threads |-> NoJob]
  /\ file = NoFile /\ rejected = NotRejected /\ resets = 0 /\ faults = 0

Next ==
  \/ \E t \in Threads :
       \/ \E r \in Reports :
            \/ \E def \in Definitions : Define(t, r, def)
            \/ \E period \in Periods : SetPeriod(t, r, period)
            \/ \E on \in BOOLEAN : SetStore(t, r, on) \/ SetBeacon(t, r, on)
            \/ Clear(t, r)
       \/ ConfigEnd(t) \/ SaveNow(t) \/ ReadSettings(t) \/ WriteFile(t) \/ WriteFails(t)
  \/ Reset \/ Restore

Spec == Init /\ [][Next]_vars

----------------------------------------------------------------------------
Saved == IF file = NoFile THEN SnapshotOf([r \in Reports |-> Empty]) ELSE file

(* hk.h on settings_dirty: "Runtime settings differ from the last           *)
(* successful snapshot."  When it is clear, no change is under way and no   *)
(* snapshot was rejected, the file has every setting of every defined       *)
(* report, whatever changes and saves overlapped.                           *)
CleanIsSaved ==
  ready /\ ~dirty /\ config_lock = Nobody /\ rejected = NotRejected => SnapshotOf(conf) = Saved

(* A snapshot this build could not take is preserved until kfsw_hk_save,    *)
(* unless it was refused for a parameter that does not exist.               *)
RejectedIsKept ==
  rejected.result \notin {"none", "ENOENT"} /\ ~rejected.released => file = rejected.file

(* hk.h: "A rejected snapshot is preserved until an explicit                *)
(* kfsw_hk_save()."                                                         *)
RejectedAlwaysKept == rejected # NotRejected /\ ~rejected.released => file = rejected.file
=============================================================================
