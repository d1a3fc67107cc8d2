--------------------------- MODULE HkSettingsProofs ---------------------------
(***************************************************************************)
(* For any threads, reports, definitions and builds: settings_dirty is      *)
(* clear only when the file has the settings, and a rejected file is kept.  *)
(* Changes come between a save's reading and its writing, so the proof      *)
(* carries what such a save holds: if config_revision is still the one it   *)
(* read and no change is under way, its image is the settings as they are;  *)
(* if not, settings_dirty is set.                                           *)
(***************************************************************************)
EXTENDS HkSettings, TLAPS

Settings == [def : Definitions \cup {{}}, period : Periods \cup {0}, store : BOOLEAN, beacon : BOOLEAN]
Confs == [Reports -> Settings]
Blank == [r \in Reports |-> Empty]
Images == {NoFile} \cup {SnapshotOf(c) : c \in Confs}
Results == {"none", "ok", "ENOENT", "EMSGSIZE", "ETIMEDOUT", "EBADMSG"}
Steps == {"idle", "changed", "save", "write"}

SettingsTypes ==
  /\ conf \in Confs /\ file \in Images
  /\ job \in [Threads -> [step : Steps, revision : Nat, image : Images]]
  /\ rejected \in [file : Images, result : Results, released : BOOLEAN]
  /\ revision \in Nat /\ ready \in BOOLEAN /\ dirty \in BOOLEAN /\ save_blocked \in BOOLEAN

(* The two mutexes, and a start from nothing after a reset.                 *)
LocksAgree ==
  /\ \A t \in Threads : job[t].step = "changed" => config_lock = t
  /\ \A t \in Threads : job[t].step = "write" => file_lock = t
  /\ ready = FALSE => /\ conf = Blank /\ config_lock = Nobody
                      /\ \A t \in Threads : job[t].step = "idle"

(* What a save that has read the settings holds.                            *)
SaveInHand ==
  \A t \in Threads : job[t].step = "write" =>
    /\ job[t].image # NoFile
    /\ IF job[t].revision = revision THEN config_lock = Nobody => job[t].image = SnapshotOf(conf)
                                     ELSE job[t].revision < revision /\ dirty = TRUE

(* While a rejected file is to be kept, no save gets as far as writing.     *)
SavesBlocked ==
  rejected.result \notin {"none", "ENOENT"} /\ rejected.released = FALSE =>
    save_blocked = TRUE /\ \A t \in Threads : job[t].step # "write"

Clean ==
  ready = TRUE /\ dirty = FALSE /\ config_lock = Nobody /\ rejected = NotRejected =>
    SnapshotOf(conf) = Saved

Kept ==
  rejected.result \notin {"none", "ENOENT"} /\ rejected.released = FALSE => file = rejected.file

SettingsInv == SettingsTypes /\ LocksAgree /\ SaveInHand /\ SavesBlocked /\ Clean /\ Kept

(* A snapshot is present, and restores to settings with the same snapshot.  *)
LEMMA SnapshotFacts ==
  ASSUME NEW c \in Confs
  PROVE  /\ SnapshotOf(c) \in Images /\ SnapshotOf(c) # NoFile
         /\ LET f == SnapshotOf(c).reports
                d == [r \in Reports |-> IF r \in DOMAIN f THEN f[r] ELSE Empty]
            IN d \in Confs /\ SnapshotOf(d) = SnapshotOf(c)
<1> DEFINE D == {q \in Reports : c[q].def # {}}
           f == SnapshotOf(c).reports
           d == [r \in Reports |-> IF r \in DOMAIN f THEN f[r] ELSE Empty]
<1>1. SnapshotOf(c).present = TRUE /\ f = [r \in D |-> c[r]]
  BY DEF SnapshotOf
<1>2. SnapshotOf(c) # NoFile
  <2>1. NoFile.present = FALSE
    BY DEF NoFile
  <2>2. QED
    BY <1>1, <2>1
<1>3. Empty \in Settings /\ Empty.def = {}
  BY DEF Empty, Settings
<1>4. d = [r \in Reports |-> IF r \in D THEN c[r] ELSE Empty]
  BY <1>1
<1>5. d \in Confs
  <2> HIDE DEF d, D
  <2>1. QED
    BY <1>3, <1>4 DEF Confs
<1>6. {q \in Reports : d[q].def # {}} = D
  BY <1>3, <1>4
<1>7. [r \in D |-> d[r]] = [r \in D |-> c[r]]
  BY <1>4
<1>8. SnapshotOf(d) = SnapshotOf(c)
  <2> HIDE DEF d
  <2>1. QED
    BY <1>6, <1>7 DEF SnapshotOf
<1>9. QED
  BY <1>2, <1>5, <1>8 DEF Images

(* A job that moves on.                                                     *)
LEMMA JobFacts ==
  ASSUME SettingsTypes, NEW t \in Threads, NEW s \in Steps, job' = [job EXCEPT ![t].step = s]
  PROVE  /\ job' \in [Threads -> [step : Steps, revision : Nat, image : Images]]
         /\ job'[t].step = s
         /\ \A q \in Threads : q # t => job'[q] = job[q]
BY DEF SettingsTypes

(* A setter, config_begin to the change: the settings and a save in         *)
(* progress may differ from here on, and config_lock says so.               *)
LEMMA ChangeKeeps ==
  ASSUME SettingsInv, ThreadsAssumption, NEW t \in Threads, Begin(t), conf' \in Confs
  PROVE  SettingsInv'
<1>1. /\ ready = TRUE /\ job[t].step = "idle" /\ config_lock = Nobody
      /\ config_lock' = t /\ t # Nobody
      /\ job' = [job EXCEPT ![t].step = "changed"]
      /\ UNCHANGED <<ready, revision, dirty, save_blocked, file_lock, file, rejected>>
  BY DEF Begin, SettingsInv, SettingsTypes, ThreadsAssumption
<1>2. /\ job' \in [Threads -> [step : Steps, revision : Nat, image : Images]]
      /\ job'[t].step = "changed"
      /\ \A q \in Threads : q # t => job'[q] = job[q]
  BY <1>1, JobFacts DEF SettingsInv, Steps
<1>3. SettingsTypes'
  BY <1>1, <1>2 DEF SettingsInv, SettingsTypes
<1>4. \A q \in Threads : job[q].step # "changed"
  BY <1>1, ThreadsAssumption DEF SettingsInv, LocksAgree, ThreadsAssumption
<1>5. LocksAgree'
  BY <1>1, <1>2, <1>4 DEF SettingsInv, LocksAgree
<1>6. SaveInHand' /\ SavesBlocked' /\ Clean' /\ Kept'
  BY <1>1, <1>2 DEF SettingsInv, SaveInHand, SavesBlocked, Clean, Kept
<1>7. QED
  BY <1>3, <1>5, <1>6 DEF SettingsInv

(* config_end: the revision leaves every save in progress behind.           *)
LEMMA ConfigEndKeeps ==
  ASSUME SettingsInv, ThreadsAssumption, NEW t \in Threads, ConfigEnd(t)
  PROVE  SettingsInv'
<1>1. /\ job[t].step = "changed" /\ revision' = revision + 1 /\ dirty' = TRUE
      /\ config_lock' = Nobody /\ job' = [job EXCEPT ![t].step = "save"]
      /\ UNCHANGED <<ready, conf, save_blocked, file_lock, file, rejected>>
  BY DEF ConfigEnd
<1>2. /\ job' \in [Threads -> [step : Steps, revision : Nat, image : Images]]
      /\ job'[t].step = "save"
      /\ \A q \in Threads : q # t => job'[q] = job[q]
  BY <1>1, JobFacts DEF SettingsInv, Steps
<1>3. SettingsTypes'
  BY <1>1, <1>2 DEF SettingsInv, SettingsTypes
<1>4. \A q \in Threads : q # t => job[q].step # "changed"
  BY <1>1 DEF SettingsInv, LocksAgree
<1>5. ready = TRUE
  BY <1>1 DEF SettingsInv, SettingsTypes, LocksAgree
<1>6. LocksAgree'
  BY <1>1, <1>2, <1>4, <1>5 DEF SettingsInv, LocksAgree
<1>7. SaveInHand'
  <2>1. ASSUME NEW q \in Threads, job'[q].step = "write"
        PROVE  job'[q].image # NoFile /\ job'[q].revision < revision'
    <3>1. job'[q] = job[q] /\ job[q].step = "write"
      BY <1>2, <2>1
    <3>2. job[q].revision \in Nat /\ revision \in Nat
      BY DEF SettingsInv, SettingsTypes
    <3>3. job[q].image # NoFile /\ job[q].revision <= revision
      BY <3>1, <3>2 DEF SettingsInv, SaveInHand
    <3>4. QED
      BY <1>1, <3>1, <3>2, <3>3
  <2>2. \A q \in Threads : job'[q].revision \in Nat /\ revision' \in Nat
    BY <1>3 DEF SettingsTypes
  <2>3. \A q \in Threads : job'[q].step = "write" => job'[q].revision # revision'
    BY <2>1, <2>2
  <2>4. QED
    BY <1>1, <2>1, <2>3 DEF SaveInHand
<1>8. SavesBlocked' /\ Clean' /\ Kept'
  BY <1>1, <1>2 DEF SettingsInv, SavesBlocked, Clean, Kept
<1>9. QED
  BY <1>3, <1>6, <1>7, <1>8 DEF SettingsInv

(* kfsw_hk_save gives a rejected file up.                                   *)
LEMMA SaveNowKeeps ==
  ASSUME SettingsInv, NEW t \in Threads, SaveNow(t)
  PROVE  SettingsInv'
<1> DEFINE b == rejected # NotRejected
<1>1. /\ ready = TRUE /\ save_blocked' = FALSE
      /\ job' = [job EXCEPT ![t].step = "save"]
      /\ rejected' = [rejected EXCEPT !.released = b]
      /\ UNCHANGED <<ready, conf, revision, dirty, config_lock, file_lock, file>>
  BY DEF SaveNow, SettingsInv, SettingsTypes
<1>2. b \in BOOLEAN
  OBVIOUS
<1>3. b = TRUE \/ (b = FALSE /\ rejected = NotRejected)
  BY Zenon
<1> HIDE DEF b
<1>4. /\ rejected' \in [file : Images, result : Results, released : BOOLEAN]
      /\ rejected'.released = b /\ rejected'.result = rejected.result
  BY <1>1, <1>2 DEF SettingsInv, SettingsTypes
<1>5. NotRejected.released = FALSE /\ NotRejected.result = "none"
  BY DEF NotRejected
<1>6. rejected' = NotRejected => rejected = NotRejected
  BY <1>3, <1>4, <1>5
<1>7. rejected'.released = FALSE => rejected'.result = "none"
  BY <1>3, <1>4, <1>5
<1>8. /\ job' \in [Threads -> [step : Steps, revision : Nat, image : Images]]
      /\ job'[t].step = "save"
      /\ \A q \in Threads : q # t => job'[q] = job[q]
  BY <1>1, JobFacts DEF SettingsInv, Steps
<1>9. SettingsTypes'
  BY <1>1, <1>4, <1>8 DEF SettingsInv, SettingsTypes
<1>10. LocksAgree'
  BY <1>1, <1>8 DEF SettingsInv, LocksAgree
<1>11. SaveInHand'
  BY <1>1, <1>8 DEF SettingsInv, SaveInHand
<1>12. Clean'
  BY <1>1, <1>6 DEF SettingsInv, Clean, Saved
<1>13. SavesBlocked' /\ Kept'
  BY <1>7 DEF SavesBlocked, Kept
<1>14. QED
  BY <1>9, <1>10, <1>11, <1>12, <1>13 DEF SettingsInv

(* A job that starts writing, or ends.                                      *)
LEMMA NewJob ==
  ASSUME SettingsTypes, NEW t \in Threads,
         NEW j \in [step : Steps, revision : Nat, image : Images], job' = [job EXCEPT ![t] = j]
  PROVE  /\ job' \in [Threads -> [step : Steps, revision : Nat, image : Images]]
         /\ job'[t] = j
         /\ \A q \in Threads : q # t => job'[q] = job[q]
BY DEF SettingsTypes

(* A thread with nothing to do.                                             *)
LEMMA NoJobFacts ==
  /\ NoJob \in [step : Steps, revision : Nat, image : Images]
  /\ NoJob.step = "idle"
BY DEF NoJob, Steps, Images

(* save_snapshot reads the settings and their revision together.            *)
LEMMA ReadKeeps ==
  ASSUME SettingsInv, ThreadsAssumption, NEW t \in Threads, ReadSettings(t)
  PROVE  SettingsInv'
<1>1. /\ job[t].step = "save" /\ file_lock = Nobody
      /\ UNCHANGED <<ready, conf, revision, dirty, save_blocked, config_lock, file, rejected>>
  BY DEF ReadSettings
<1>2. ready = TRUE
  BY <1>1 DEF SettingsInv, SettingsTypes, LocksAgree
<1>3. \A q \in Threads : job[q].step # "write"
  BY <1>1 DEF SettingsInv, LocksAgree, ThreadsAssumption
<1>4. CASE save_blocked = TRUE
  <2>1. job' = [job EXCEPT ![t] = NoJob] /\ file_lock' = file_lock
    BY <1>4 DEF ReadSettings, Blocked
  <2>2. /\ job' \in [Threads -> [step : Steps, revision : Nat, image : Images]]
        /\ job'[t].step = "idle"
        /\ \A q \in Threads : q # t => job'[q] = job[q]
    BY <2>1, NewJob, NoJobFacts DEF SettingsInv
  <2>3. SettingsTypes' /\ LocksAgree' /\ SaveInHand' /\ SavesBlocked' /\ Kept'
    BY <1>1, <1>2, <1>3, <2>1, <2>2
    DEF SettingsInv, SettingsTypes, LocksAgree, SaveInHand, SavesBlocked, Kept
  <2>4. Clean'
    BY <1>1 DEF SettingsInv, Clean, Saved
  <2>5. QED
    BY <2>3, <2>4 DEF SettingsInv
<1>5. CASE save_blocked = FALSE
  <2> DEFINE j == [step |-> "write", revision |-> revision, image |-> SnapshotOf(conf)]
  <2>1. job' = [job EXCEPT ![t] = j] /\ file_lock' = t
    BY <1>5 DEF ReadSettings, Blocked
  <2>2. /\ j \in [step : Steps, revision : Nat, image : Images]
        /\ j.step = "write" /\ j.revision = revision /\ j.image = SnapshotOf(conf)
        /\ SnapshotOf(conf) # NoFile
    BY SnapshotFacts DEF SettingsInv, SettingsTypes, Steps
  <2> HIDE DEF j
  <2>3. /\ job' \in [Threads -> [step : Steps, revision : Nat, image : Images]]
        /\ job'[t] = j
        /\ \A q \in Threads : q # t => job'[q] = job[q]
    BY <2>1, <2>2, NewJob DEF SettingsInv
  <2>4. SettingsTypes'
    BY <1>1, <2>3 DEF SettingsInv, SettingsTypes
  <2>5. LocksAgree'
    BY <1>1, <1>2, <1>3, <2>1, <2>2, <2>3 DEF SettingsInv, LocksAgree
  <2>6. SaveInHand'
    <3>1. SnapshotOf(conf)' = SnapshotOf(conf)
      BY <1>1 DEF SnapshotOf
    <3>2. \A q \in Threads : job'[q].step = "write" => job'[q] = j
      BY <1>3, <2>3
    <3>3. QED
      BY <1>1, <2>2, <3>1, <3>2 DEF SaveInHand
  <2>7. SavesBlocked' /\ Kept'
    BY <1>1, <1>5 DEF SettingsInv, SavesBlocked, Kept
  <2>8. Clean'
    BY <1>1 DEF SettingsInv, Clean, Saved
  <2>9. QED
    BY <2>4, <2>5, <2>6, <2>7, <2>8 DEF SettingsInv
<1>6. QED
  BY <1>4, <1>5 DEF SettingsInv, SettingsTypes

(* kfsw_hk_save_result: the write clears settings_dirty only for the        *)
(* revision it holds.                                                       *)
LEMMA WriteKeeps ==
  ASSUME SettingsInv, ThreadsAssumption, NEW t \in Threads, WriteFile(t)
  PROVE  SettingsInv'
<1>1. /\ job[t].step = "write" /\ file' = job[t].image
      /\ dirty' = DirtyAfter(job[t].revision) /\ file_lock' = Nobody
      /\ job' = [job EXCEPT ![t] = NoJob]
      /\ rejected' = (IF rejected.released THEN NotRejected ELSE rejected)
      /\ UNCHANGED <<ready, conf, revision, save_blocked, config_lock>>
  BY DEF WriteFile
<1>2. /\ job' \in [Threads -> [step : Steps, revision : Nat, image : Images]]
      /\ job'[t].step = "idle"
      /\ \A q \in Threads : q # t => job'[q] = job[q]
  BY <1>1, NewJob, NoJobFacts DEF SettingsInv
<1>3. \A q \in Threads : q # t => job[q].step # "write"
  BY <1>1 DEF SettingsInv, LocksAgree
<1>4. /\ job[t].image \in Images /\ job[t].image # NoFile
      /\ dirty' = FALSE => job[t].revision = revision
      /\ dirty' \in BOOLEAN
      /\ job[t].revision = revision /\ config_lock = Nobody => job[t].image = SnapshotOf(conf)
  <2>1. /\ job[t].image # NoFile
        /\ IF job[t].revision = revision THEN config_lock = Nobody => job[t].image = SnapshotOf(conf)
                                         ELSE job[t].revision < revision /\ dirty = TRUE
    BY <1>1 DEF SettingsInv, SaveInHand
  <2>2. job[t].image \in Images /\ dirty \in BOOLEAN
    BY DEF SettingsInv, SettingsTypes
  <2>3. QED
    BY <1>1, <2>1, <2>2 DEF DirtyAfter
<1>5. NotRejected \in [file : Images, result : Results, released : BOOLEAN] /\ NotRejected.result = "none"
  BY DEF NotRejected, Images, Results
<1>6. SettingsTypes'
  BY <1>1, <1>2, <1>4, <1>5 DEF SettingsInv, SettingsTypes
<1>7. ready = TRUE
  BY <1>1 DEF SettingsInv, SettingsTypes, LocksAgree
<1>8. LocksAgree' /\ SaveInHand'
  BY <1>1, <1>2, <1>3, <1>7 DEF SettingsInv, LocksAgree, SaveInHand
<1>9. SavesBlocked' /\ Kept'
  <2>1. CASE rejected.released = TRUE
    BY <1>1, <1>5, <2>1 DEF SavesBlocked, Kept
  <2>2. CASE rejected.released = FALSE
    <3>1. rejected' = rejected /\ rejected.result \in {"none", "ENOENT"}
      BY <1>1, <2>2 DEF SettingsInv, SavesBlocked
    <3>2. QED
      BY <3>1 DEF SavesBlocked, Kept
  <2>3. QED
    BY <2>1, <2>2 DEF SettingsInv, SettingsTypes
<1>10. Clean'
  <2>1. SnapshotOf(conf)' = SnapshotOf(conf)
    BY <1>1 DEF SnapshotOf
  <2>2. Saved' = job[t].image
    BY <1>1, <1>4 DEF Saved
  <2>3. QED
    BY <1>1, <1>4, <2>1, <2>2 DEF Clean
<1>11. QED
  BY <1>6, <1>8, <1>9, <1>10 DEF SettingsInv

(* A write that failed changes no setting and no file.                      *)
LEMMA FailKeeps ==
  ASSUME SettingsInv, ThreadsAssumption, NEW t \in Threads, WriteFails(t)
  PROVE  SettingsInv'
<1>1. /\ job[t].step = "write" /\ file_lock' = Nobody /\ job' = [job EXCEPT ![t] = NoJob]
      /\ UNCHANGED <<ready, conf, revision, dirty, save_blocked, config_lock, file, rejected>>
  BY DEF WriteFails
<1>2. /\ job' \in [Threads -> [step : Steps, revision : Nat, image : Images]]
      /\ job'[t].step = "idle"
      /\ \A q \in Threads : q # t => job'[q] = job[q]
  BY <1>1, NewJob, NoJobFacts DEF SettingsInv
<1>3. \A q \in Threads : q # t => job[q].step # "write"
  BY <1>1 DEF SettingsInv, LocksAgree
<1>4. SettingsTypes' /\ LocksAgree' /\ SaveInHand' /\ SavesBlocked' /\ Kept'
  BY <1>1, <1>2, <1>3
  DEF SettingsInv, SettingsTypes, LocksAgree, SaveInHand, SavesBlocked, Kept
<1>5. Clean'
  BY <1>1 DEF SettingsInv, Clean, Saved
<1>6. QED
  BY <1>4, <1>5 DEF SettingsInv

(* From nothing: the state a reset and the first start leave.               *)
Start ==
  /\ conf = Blank /\ file \in Images /\ job = [t \in Threads |-> NoJob] /\ rejected = NotRejected
  /\ revision = 0 /\ ready = FALSE /\ dirty = FALSE /\ save_blocked = FALSE /\ config_lock = Nobody

(* It satisfies the invariant.                                              *)
LEMMA StartKeeps == Start => SettingsInv
<1> SUFFICES ASSUME Start PROVE SettingsInv
  OBVIOUS
<1> USE DEF Start
<1>1. Blank \in Confs
  <2>1. Empty \in Settings
    BY DEF Empty, Settings
  <2>2. QED
    BY <2>1 DEF Blank, Confs
<1>2. /\ job \in [Threads -> [step : Steps, revision : Nat, image : Images]]
      /\ \A t \in Threads : job[t].step = "idle"
  BY NoJobFacts
<1>3. /\ NotRejected \in [file : Images, result : Results, released : BOOLEAN]
      /\ NotRejected.result = "none"
  BY DEF NotRejected, Images, Results
<1>4. SettingsTypes
  BY <1>1, <1>2, <1>3 DEF SettingsTypes
<1>5. LocksAgree /\ SaveInHand /\ SavesBlocked /\ Clean /\ Kept
  BY <1>2, <1>3 DEF LocksAgree, SaveInHand, SavesBlocked, Clean, Kept
<1>6. QED
  BY <1>4, <1>5 DEF SettingsInv

(* load_snapshot's answers.                                                 *)
LEMMA LoadFacts ==
  /\ LoadResults \subseteq Results
  /\ file = NoFile => LoadResults = {"ENOENT"}
<1>1. \A b, d : Prepare(b, d) \subseteq Results
  BY DEF Prepare, Results
<1>2. file = NoFile => LoadResults = {"ENOENT"}
  BY DEF LoadResults
<1>3. file # NoFile => LoadResults \subseteq Results
  <2> DEFINE refused == UNION {Prepare(build, file.reports[r].def) \ {"ok"} : r \in Examined}
             taken == IF Broken = {} THEN {"ok"} ELSE {}
             misfit == IF Broken = {} /\ \E r \in DOMAIN file.reports : file.reports[r].store
                       THEN {"EBADMSG"} ELSE {}
  <2>1. file # NoFile => LoadResults = refused \cup taken \cup misfit
    BY Zenon DEF LoadResults
  <2>2. refused \subseteq Results
    BY <1>1, Zenon
  <2>3. taken \subseteq {"ok"} /\ misfit \subseteq {"EBADMSG"}
    BY Zenon
  <2> HIDE DEF refused, taken, misfit
  <2>4. QED
    BY <2>1, <2>2, <2>3 DEF Results
<1>4. QED
  BY <1>2, <1>3 DEF Results

(* kfsw_hk_persist_load: all of the file, or none of it and the saves       *)
(* blocked.                                                                 *)
LEMMA RestoreKeeps ==
  ASSUME SettingsInv, Restore
  PROVE  SettingsInv'
<1>1. ready = FALSE /\ ready' = TRUE /\ UNCHANGED <<config_lock, file_lock, job, file>>
  BY DEF Restore, SettingsInv, SettingsTypes
<1>2. conf = Blank /\ config_lock = Nobody /\ \A t \in Threads : job[t].step = "idle"
  BY <1>1 DEF SettingsInv, LocksAgree
<1>3. PICK result \in LoadResults :
       /\ conf' = IF result = "ok"
                  THEN [r \in Reports |->
                          IF r \in DOMAIN file.reports THEN file.reports[r] ELSE Empty]
                  ELSE conf
       /\ save_blocked' = BlockedAfter(result) /\ dirty' = BlockedAfter(result)
       /\ revision' = IF result = "ok" THEN revision + 1 ELSE revision
       /\ rejected' = IF result # "ok" /\ file # NoFile THEN [file |-> file, result |-> result, released |-> FALSE]
                      ELSE NotRejected
  BY DEF Restore
<1>4. result \in Results /\ (file = NoFile => result = "ENOENT")
  BY LoadFacts
<1>5. /\ save_blocked' \in BOOLEAN /\ dirty' \in BOOLEAN
      /\ result \notin {"ok", "ENOENT"} => save_blocked' = TRUE
  BY <1>3 DEF BlockedAfter
<1>6. conf' \in Confs /\ (result = "ok" => SnapshotOf(conf') = file)
  <2>1. CASE result = "ok"
    <3>1. PICK c \in Confs : file = SnapshotOf(c)
      BY <1>4, <2>1 DEF SettingsInv, SettingsTypes, Images
    <3>2. conf' = [r \in Reports |->
                     IF r \in DOMAIN SnapshotOf(c).reports THEN SnapshotOf(c).reports[r] ELSE Empty]
      BY <1>3, <2>1, <3>1
    <3>3. QED
      BY <3>1, <3>2, SnapshotFacts, Zenon
  <2>2. CASE result # "ok"
    BY <1>3, <2>2 DEF SettingsInv, SettingsTypes
  <2>3. QED
    BY <2>1, <2>2
<1>7. /\ NotRejected \in [file : Images, result : Results, released : BOOLEAN]
      /\ NotRejected.result = "none" /\ NotRejected.file = NoFile
  BY DEF NotRejected, Images, Results
<1>8. /\ rejected' \in [file : Images, result : Results, released : BOOLEAN]
      /\ rejected'.result = "none" \/ (rejected'.result = result /\ rejected'.file = file /\ result # "ok")
      /\ rejected' = NotRejected => result = "ok" \/ file = NoFile
  <2>1. CASE result # "ok" /\ file # NoFile
    <3>1. rejected' = [file |-> file, result |-> result, released |-> FALSE]
      BY <1>3, <2>1
    <3>2. file \in Images
      BY DEF SettingsInv, SettingsTypes
    <3>3. /\ rejected' \in [file : Images, result : Results, released : BOOLEAN]
          /\ rejected'.result = result /\ rejected'.file = file
      BY <1>4, <3>1, <3>2
    <3>4. QED
      BY <1>7, <2>1, <3>3
  <2>2. CASE ~(result # "ok" /\ file # NoFile)
    BY <1>3, <1>7, <2>2
  <2>3. QED
    BY <2>1, <2>2
<1>9. SettingsTypes'
  BY <1>1, <1>3, <1>5, <1>6, <1>8 DEF SettingsInv, SettingsTypes
<1>10. LocksAgree' /\ SaveInHand'
  BY <1>1, <1>2 DEF LocksAgree, SaveInHand
<1>11. SavesBlocked' /\ Kept'
  BY <1>1, <1>2, <1>5, <1>8 DEF SavesBlocked, Kept
<1>12. Clean'
  <2>1. CASE result = "ok"
    <3>1. file # NoFile
      BY <1>4, <2>1
    <3>2. QED
      BY <1>1, <1>6, <2>1, <3>1 DEF Clean, Saved, SnapshotOf
  <2>2. CASE result # "ok" /\ file = NoFile
    BY <1>1, <1>2, <1>3, <2>2 DEF Clean, Saved, Blank, SnapshotOf
  <2>3. CASE result # "ok" /\ file # NoFile
    BY <1>8, <2>3 DEF Clean
  <2>4. QED
    BY <2>1, <2>2, <2>3
<1>13. QED
  BY <1>9, <1>10, <1>11, <1>12 DEF SettingsInv

(* A setter of any kind leaves settings of their type.                      *)
LEMMA SettersKeep ==
  ASSUME SettingsInv, ThreadsAssumption, NEW t \in Threads, NEW r \in Reports,
         \/ \E def \in Definitions : Define(t, r, def)
         \/ \E period \in Periods : SetPeriod(t, r, period)
         \/ \E on \in BOOLEAN : SetStore(t, r, on) \/ SetBeacon(t, r, on)
         \/ Clear(t, r)
  PROVE  SettingsInv'
<1>1. conf \in [Reports -> Settings] /\ conf[r] \in Settings
  BY DEF SettingsInv, SettingsTypes, Confs
<1>2. ASSUME NEW def \in Definitions, Define(t, r, def) PROVE SettingsInv'
  <2>1. conf' \in Confs
    BY <1>1, <1>2 DEF Define, Settings, Confs
  <2>2. QED
    BY <1>2, <2>1, ChangeKeeps DEF Define
<1>3. ASSUME NEW period \in Periods, SetPeriod(t, r, period) PROVE SettingsInv'
  <2>1. conf' \in Confs
    BY <1>1, <1>3 DEF SetPeriod, Settings, Confs
  <2>2. QED
    BY <1>3, <2>1, ChangeKeeps DEF SetPeriod
<1>4. ASSUME NEW on \in BOOLEAN, SetStore(t, r, on) PROVE SettingsInv'
  <2>1. conf' \in Confs
    BY <1>1, <1>4 DEF SetStore, Settings, Confs
  <2>2. QED
    BY <1>4, <2>1, ChangeKeeps DEF SetStore
<1>5. ASSUME NEW on \in BOOLEAN, SetBeacon(t, r, on) PROVE SettingsInv'
  <2>1. conf' \in Confs
    BY <1>1, <1>5 DEF SetBeacon, Settings, Confs
  <2>2. QED
    BY <1>5, <2>1, ChangeKeeps DEF SetBeacon
<1>6. ASSUME Clear(t, r) PROVE SettingsInv'
  <2>1. Empty \in Settings
    BY DEF Empty, Settings
  <2>2. [Empty EXCEPT !.beacon = conf[r].beacon] \in Settings
    BY <1>1, <2>1 DEF Settings
  <2>3. conf' \in Confs
    BY <1>1, <1>6, <2>2 DEF Clear, Confs
  <2>4. QED
    BY <1>6, <2>3, ChangeKeeps DEF Clear
<1>7. QED
  BY <1>2, <1>3, <1>4, <1>5, <1>6

(* Every setter, every step of a save, a reset and a restore.               *)
LEMMA SettingsInvKept ==
  ASSUME ThreadsAssumption PROVE SettingsInv /\ [Next]_vars => SettingsInv'
<1> SUFFICES ASSUME SettingsInv, [Next]_vars PROVE SettingsInv'
  OBVIOUS
<1>1. ASSUME Reset PROVE SettingsInv'
  <2>1. Start'
    BY <1>1 DEF Reset, Start, Blank, SettingsInv, SettingsTypes
  <2>2. QED
    BY <2>1, StartKeeps, PTL
<1>2. ASSUME UNCHANGED vars PROVE SettingsInv'
  BY <1>2 DEF vars, SettingsInv, SettingsTypes, LocksAgree, SaveInHand, SavesBlocked, Clean, Kept, Saved
<1>3. QED
  BY <1>1, <1>2, SettersKeep, ConfigEndKeeps, SaveNowKeeps, ReadKeeps, WriteKeeps, FailKeeps,
     RestoreKeeps DEF Next

(* hk.h on settings_dirty and on a rejected snapshot, for any threads,      *)
(* reports and builds: when it is clear, no change is under way and nothing *)
(* was rejected, the file has the settings; and a file rejected for another *)
(* reason than a missing parameter is kept until kfsw_hk_save.              *)
THEOREM CleanIsSavedAlways ==
  ASSUME ThreadsAssumption PROVE Spec => [](CleanIsSaved /\ RejectedIsKept)
<1>1. Init => SettingsInv
  BY StartKeeps DEF Init, Start, Blank, Images
<1>2. SettingsInv => CleanIsSaved /\ RejectedIsKept
  <2> SUFFICES ASSUME SettingsInv PROVE CleanIsSaved /\ RejectedIsKept
    OBVIOUS
  <2>1. ready \in BOOLEAN /\ dirty \in BOOLEAN /\ rejected.released \in BOOLEAN
    BY DEF SettingsInv, SettingsTypes
  <2>2. CleanIsSaved
    BY <2>1 DEF SettingsInv, Clean, CleanIsSaved
  <2>3. RejectedIsKept
    BY <2>1 DEF SettingsInv, Kept, RejectedIsKept
  <2>4. QED
    BY <2>2, <2>3
<1>3. QED
  BY <1>1, <1>2, SettingsInvKept, PTL DEF Spec
=============================================================================
