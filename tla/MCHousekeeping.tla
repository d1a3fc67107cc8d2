---------------------------- MODULE MCHousekeeping ----------------------------
(***************************************************************************)
(* What the node keeps an eye on, for TLC: the housekeeping settings and    *)
(* their file (HkSettings), the collection of samples with schedule and     *)
(* rings (HkCollect), the store with its reader (HkStore), and the health   *)
(* of the components (Health).  A behaviour exercises one of them and       *)
(* leaves the others where they start.                                      *)
(***************************************************************************)
EXTENDS Integers, Sequences

CONSTANTS Threads, SampleBytes, MaxResets, MaxFaults,
          NReports, Classes, Callers, MaxTime, MaxChanges, MaxCollected, MaxRequests,
          Width, Starts, Capacities, History, StoreHistory, Batches, MaxStored,
          Handles, Names, Deadlines, Intervals, FeedInterval, Timeout, Services

VARIABLES
  build, ready, conf, revision, dirty, save_blocked, config_lock, file_lock, save, settings_file,
  rejected, settings_resets, settings_faults,
  now, report, beacon, enabled, clock, collector, job, collected, finished, server, asked, sent,
  changes, requests,
  capacity, up, sequence, ring, store, file, saved, stored, gap, taken, extract, dataset,
  configures, resets, faults, extracts,
  entries, state, interval, due, evaluation, unfed, feeding, lastwords, postponed, refused,
  service     \* the one at work: "settings", "schedule", "ring", "store" or "health"

(* Parameter b is of another node; the builds differ in the width of a, and *)
(* one lacks it.                                                            *)
S == INSTANCE HkSettings WITH
       Reports <- 0..1, Definitions <- {{"a"}, {"a", "b"}}, Remote <- {"b"},
       Firmware <- {[a |-> 1, b |-> 1], [a |-> 2, b |-> 1], [a |-> 0, b |-> 1]},
       Periods <- {1}, MaxChanges <- 2,
       job <- save, file <- settings_file, resets <- settings_resets, faults <- settings_faults

C == INSTANCE HkCollect WITH
       Entries <- {{"a"}, {"a", "b"}}, Remote <- {"b"}, Periods <- {0, 1, 2}, Intervals <- {0, 1}

(* The second window of sequence numbers goes over the wrap.                *)
H == INSTANCE HkStore WITH
       Filters <- {[from |-> 0, to |-> 0], [from |-> Width - 2, to |-> 1]},
       History <- StoreHistory, MaxCollected <- MaxStored, MaxConfigures <- 2, MaxExtracts <- 1,
       collected <- taken

W == INSTANCE Health

ASSUME W!WatchdogAssumption
ASSUME S!ThreadsAssumption

settings == <<build, ready, conf, revision, dirty, save_blocked, config_lock, file_lock, save,
              settings_file, rejected, settings_resets, settings_faults>>
collection == <<now, report, beacon, enabled, clock, collector, job, collected, finished, server,
                asked, sent, changes, requests>>
storing == <<capacity, up, sequence, ring, store, file, saved, stored, gap, taken, extract, dataset,
             configures, resets, faults, extracts>>

health == <<entries, state, interval, due, evaluation, unfed, feeding, lastwords, postponed, refused>>
HousekeepingVars == <<settings, collection, storing, health, service>>

(* A service that is not at work has one initial state.                     *)
HousekeepingInit ==
  /\ S!Init /\ C!Init /\ H!Init /\ W!Init
  /\ service \in Services
  /\ service # "settings" => build.a = 1
  /\ service # "schedule" => clock
  /\ service # "store" => capacity = 4 /\ sequence = 0

HousekeepingNext ==
  \/ service = "settings" /\ S!Next /\ UNCHANGED <<collection, storing, health, service>>
  \/ service = "schedule" /\ C!ScheduleNext /\ UNCHANGED <<settings, storing, health, service>>
  \/ service = "ring" /\ C!RingNext /\ UNCHANGED <<settings, storing, health, service>>
  \/ service = "store" /\ H!Next /\ UNCHANGED <<settings, collection, health, service>>
  \/ service = "health" /\ W!Next /\ UNCHANGED <<settings, collection, storing, service>>

HousekeepingSpec == HousekeepingInit /\ [][HousekeepingNext]_HousekeepingVars

(* settings_dirty is clear only when the file has the settings, and a       *)
(* snapshot refused for any reason but a missing parameter is kept until    *)
(* kfsw_hk_save (hk.c settings_dirty, save_blocked).                        *)
CleanIsSaved == S!CleanIsSaved /\ S!RejectedIsKept

(* A ring never mixes two definitions (hk.c generations).                   *)
RingIsOfOneDefinition == C!RingIsOfOneDefinition

(* The next collection is within a period and after the last one (hk.c      *)
(* kfsw_hk_schedule_finish), the next beacon within its interval            *)
(* (hk_beacon.c kfsw_hk_beacon_tick).                                       *)
DueIsNear == C!DueIsNear

(* A request, for one report or by class over all of them, passes over no   *)
(* sample while the rings move, unless a report is defined anew or cleared  *)
(* during one over all; the indexes of kfsw_hk_get_selected give at one     *)
(* instant each sample once, in order (hk_csp.c, hk_selection.c).           *)
ServedWithoutGap == C!ServedWithoutGap /\ C!SelectedIsAll

(* The stored samples are read in the order of collection, without failed   *)
(* writes the last Capacity of them, over the wrap of the sequence numbers; *)
(* a finished extract has the records its header counts (hk_store.c,        *)
(* hk_reader.c).                                                            *)
ReadIsTheLatest == H!ReadInOrder /\ H!ReadIsTheLatest /\ H!DatasetIsCounted

(* Health supervision: a component that stays silent is followed by a reset *)
(* of the board, within its deadline and the watchdog's timeout (health.c). *)
SilenceEndsInReset == W!SilenceEndsInReset

(* Health supervision: the board is reset only for a fault, a platform that *)
(* refused the feed, or an interval changed so often between two            *)
(* evaluations that it put the feed off beyond the timeout; and the note    *)
(* the next boot finds says STARVED exactly while a fault lasts (health.c). *)
FedUnlessFault == W!TypeOK /\ W!FedUnlessFault /\ W!NoteMatchesFault
=============================================================================
