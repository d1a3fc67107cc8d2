---------------------------- MODULE GroundWatchdog ---------------------------
(***************************************************************************)
(* The ground watchdog (src/gndwdt/gndwdt.c): the node resets unless it is  *)
(* fed over CSP before the timeout.                                         *)
(*                                                                          *)
(* The check and the reset are delayable work items of the system work      *)
(* queue, one thread: pc_work says where its check handler is.  Start and   *)
(* stop assign under gndwdt_lock and reschedule or cancel the work items    *)
(* after they let go of it: pc says where each caller is.                   *)
(***************************************************************************)
EXTENDS Integers

CONSTANTS
  Callers,      \* threads that call start and stop
  MinTimeout,   \* CONFIG_KFSW_GNDWDT_TIMEOUT_MIN_S
  MaxTimeout,   \* CONFIG_KFSW_GNDWDT_TIMEOUT_MAX_S
  MaxStops      \* bound: calls of stop between two resets

ASSUME TimeoutAssumption ==
  /\ MinTimeout \in Nat \ {0}
  /\ MaxTimeout \in Nat /\ MinTimeout <= MaxTimeout
  /\ MaxStops \in Nat

VARIABLES
  running, enabled, resetting, timeout_s,
  silence,      \* seconds since last_contact_ms, counted up to MaxTimeout
  check_due,    \* gndwdt_work is scheduled
  reset_due,    \* gndwdt_reset_work is scheduled
  pc_work,      \* the work queue in gndwdt_work_handler
  pc,           \* each caller in start or stop
  stops         \* history: stops since the last reset

state == <<running, enabled, resetting, timeout_s, silence>>
works == <<check_due, reset_due>>
vars == <<state, works, pc_work, pc, stops>>

----------------------------------------------------------------------------
(* kfsw_gndwdt_start *)

Start(c) ==
  /\ pc[c] = "idle" /\ ~running
  /\ running' = TRUE
  /\ silence' = 0
  /\ pc' = [pc EXCEPT ![c] = "schedule"]
  /\ UNCHANGED <<enabled, resetting, timeout_s, works, pc_work, stops>>

StartSchedules(c) ==
  /\ pc[c] = "schedule"
  /\ check_due' = TRUE
  /\ pc' = [pc EXCEPT ![c] = "idle"]
  /\ UNCHANGED <<state, reset_due, pc_work, stops>>

(* kfsw_gndwdt_stop *)

Stop(c) ==
  /\ pc[c] = "idle" /\ running
  /\ stops < MaxStops
  /\ running' = FALSE
  /\ resetting' = FALSE
  /\ stops' = stops + 1
  /\ pc' = [pc EXCEPT ![c] = "cancel_reset"]
  /\ UNCHANGED <<enabled, timeout_s, silence, works, pc_work>>

StopCancelsReset(c) ==
  /\ pc[c] = "cancel_reset"
  /\ reset_due' = FALSE
  /\ pc' = [pc EXCEPT ![c] = "cancel_check"]
  /\ UNCHANGED <<state, check_due, pc_work, stops>>

StopCancelsCheck(c) ==
  /\ pc[c] = "cancel_check"
  /\ check_due' = FALSE
  /\ pc' = [pc EXCEPT ![c] = "idle"]
  /\ UNCHANGED <<state, reset_due, pc_work, stops>>

----------------------------------------------------------------------------
(* The ground_wtd command, and the parameters. *)

FeedAnswer == IF ~running \/ resetting THEN "UNAVAILABLE" ELSE "OK"

Feed ==
  /\ FeedAnswer = "OK"
  /\ silence' = 0
  /\ UNCHANGED <<running, enabled, resetting, timeout_s, works, pc_work, pc, stops>>

InRange(v) == v >= MinTimeout /\ v <= MaxTimeout

SetTimeout(v) ==
  /\ InRange(v)
  /\ timeout_s' = v
  /\ UNCHANGED <<running, enabled, resetting, silence, works, pc_work, pc, stops>>

SetEnabled(v) ==
  /\ enabled' = v
  /\ UNCHANGED <<running, resetting, timeout_s, silence, works, pc_work, pc, stops>>

----------------------------------------------------------------------------
(* gndwdt_work_handler *)

Expired == running /\ enabled /\ ~resetting /\ silence >= timeout_s

(* The work queue takes the item and kfsw_gndwdt_evaluate runs.             *)
Evaluate ==
  /\ pc_work = "idle" /\ check_due
  /\ check_due' = FALSE
  /\ IF Expired
     THEN silence' = 0 /\ pc_work' = "expired"
     ELSE pc_work' = "rearm" /\ UNCHANGED silence
  /\ UNCHANGED <<running, enabled, resetting, timeout_s, reset_due, pc, stops>>

Decide ==
  /\ pc_work = "expired"
  /\ pc_work' = IF resetting THEN "rearm" ELSE "decided"
  /\ resetting' = TRUE
  /\ UNCHANGED <<running, enabled, timeout_s, silence, works, pc, stops>>

ScheduleReset ==
  /\ pc_work = "decided"
  /\ reset_due' = TRUE
  /\ pc_work' = "rearm"
  /\ UNCHANGED <<state, check_due, pc, stops>>

Rearm_OnlyEnabled ==
  /\ pc_work = "rearm"
  /\ check_due' = IF running /\ enabled THEN TRUE ELSE check_due
  /\ pc_work' = "idle"
  /\ UNCHANGED <<state, reset_due, pc, stops>>

Rearm ==
  /\ pc_work = "rearm"
  /\ check_due' = IF running THEN TRUE ELSE check_due
  /\ pc_work' = "idle"
  /\ UNCHANGED <<state, reset_due, pc, stops>>

----------------------------------------------------------------------------
(* gndwdt_reset_handler: everything above is in RAM and starts over.        *)
Reset ==
  /\ pc_work = "idle" /\ reset_due
  /\ running' = FALSE /\ enabled' \in BOOLEAN /\ resetting' = FALSE
  /\ timeout_s' = MaxTimeout
  /\ silence' = 0
  /\ check_due' = FALSE /\ reset_due' = FALSE
  /\ pc' = [c \in Callers |-> "idle"]
  /\ stops' = 0
  /\ UNCHANGED pc_work

Tick ==
  /\ silence < MaxTimeout
  /\ silence' = silence + 1
  /\ UNCHANGED <<running, enabled, resetting, timeout_s, works, pc_work, pc, stops>>

Init ==
  /\ running = FALSE /\ enabled \in BOOLEAN /\ resetting = FALSE
  /\ timeout_s = MaxTimeout
  /\ silence = 0
  /\ check_due = FALSE /\ reset_due = FALSE
  /\ pc_work = "idle"
  /\ pc = [c \in Callers |-> "idle"]
  /\ stops = 0

Work == Evaluate \/ Decide \/ ScheduleReset \/ Rearm

Call(c) == StartSchedules(c) \/ StopCancelsReset(c) \/ StopCancelsCheck(c)

Next ==
  \/ \E c \in Callers : Start(c) \/ Stop(c) \/ Call(c)
  \/ Feed
  \/ \E v \in 0..MaxTimeout + 1 : SetTimeout(v)
  \/ \E v \in BOOLEAN : SetEnabled(v)
  \/ Work
  \/ Reset
  \/ Tick

Spec == Init /\ [][Next]_vars

(* The work queue serves its items in the order they become due, so a due   *)
(* reset waits for at most one run of the check; calls of start and stop    *)
(* return; and time passes.                                                 *)
Fairness ==
  /\ WF_vars(Work) /\ SF_vars(Reset) /\ WF_vars(Tick)
  /\ \A c \in Callers : WF_vars(Call(c))

FairSpec == Spec /\ Fairness

----------------------------------------------------------------------------
TypeOK ==
  /\ running \in BOOLEAN /\ enabled \in BOOLEAN /\ resetting \in BOOLEAN
  /\ timeout_s \in MinTimeout..MaxTimeout
  /\ silence \in 0..MaxTimeout
  /\ check_due \in BOOLEAN /\ reset_due \in BOOLEAN
  /\ pc_work \in {"idle", "expired", "decided", "rearm"}
  /\ pc \in [Callers -> {"idle", "schedule", "cancel_reset", "cancel_check"}]
  /\ stops \in 0..MaxStops

CallersIdle == \A c \in Callers : pc[c] = "idle"

(* A watchdog that runs is being checked: between calls of start and stop   *)
(* (of one caller), the check is scheduled or its handler is at work and    *)
(* will reschedule it, whatever it finds enabled or expired.                *)
RunningIsChecked == running /\ CallersIdle => check_due \/ pc_work # "idle"

(* gndwdt.h: "Resets the node if no valid ground_wtd CSP feed arrives       *)
(* before the timeout", while the service runs enabled.                     *)
GroundSilenceResets ==
  \/ []<>~(running /\ enabled)
  \/ []<><<Feed>>_vars
  \/ []<><<Reset>>_vars

(* The same of a service nobody ever stops.                                 *)
SilenceResets == [](stops = 0) => GroundSilenceResets

(* gndwdt.h, of kfsw_gndwdt_stop: "Stop the timer, and cancel a reset       *)
(* already queued"; gndwdt.c: stopping "is the one thing that calls off a   *)
(* reset already decided".  Once stop has returned and the handler is done, *)
(* no reset is coming.                                                      *)
StopCallsOffReset == ~running /\ CallersIdle /\ pc_work = "idle" => ~reset_due
=============================================================================
