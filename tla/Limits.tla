-------------------------------- MODULE Limits --------------------------------
(***************************************************************************)
(* Parameter limits (src/limits/limits.c) after kfsw_limits_init: a         *)
(* periodic work and a command thread sweep the rules under rules_lock,     *)
(* reading the watched parameter under the table lock; the interval is set  *)
(* by a parameter change, which holds the table lock and takes state_lock   *)
(* inside it; a rule file replaces the rules under rules_lock.  A rule that *)
(* fires adds its action to the time-tagged queue.  All rules of the model  *)
(* watch one parameter and release one action, and differ in their dwell.   *)
(***************************************************************************)
EXTENDS Integers, Sequences

CONSTANTS
  Dwell,      \* dwell of each rule of the file
  StreakMax   \* UINT8_MAX, where a streak stops, and the longest dwell

LimitsAssumption == Dwell \in Seq(1..StreakMax) /\ Dwell # <<>>

VARIABLES
  crossed,    \* the comparison holds for the parameter's value
  enabled,    \* kfsw_limits_enabled
  rules,      \* streak and latch of each rule in force
  rules_lock, \* who holds it
  table_lock, \* who holds the parameter table
  sweep,      \* sweeper -> the rule it evaluates next, 0 outside a sweep
  interval,   \* kfsw_limits_interval_ms: 0, or some period
  running,    \* state.running
  timer,      \* limits_work waits for its time, or for its handler to end
  handler,    \* where work_handler is
  setter,     \* where the thread that sets the interval is
  waiting,    \* the action waits in the time-tagged queue
  fired       \* history: releases of each rule since it was last found false, or loaded

vars == <<crossed, enabled, rules, rules_lock, table_lock, sweep, interval, running, timer, handler,
          setter, waiting, fired>>

queue == <<crossed, enabled, rules, rules_lock, waiting, fired>>

Sweepers == {"work", "command"}
Fresh == [streak |-> 0, latched |-> FALSE]

----------------------------------------------------------------------------
(* kfsw_limits_load: the file is parsed into staged[] under rules_lock, and  *)
(* takes the place of the rules only when no line was bad.                   *)
Load(good) ==
  /\ rules_lock = "none" /\ table_lock = "none"
  /\ IF good
     THEN /\ rules' = [i \in DOMAIN Dwell |-> Fresh]
          /\ fired' = [i \in DOMAIN Dwell |-> 0]
     ELSE UNCHANGED <<rules, fired>>
  /\ UNCHANGED <<crossed, enabled, rules_lock, table_lock, sweep, interval, running, timer, handler, setter, waiting>>

----------------------------------------------------------------------------
(* kfsw_limits_sweep *)

(* A disabled sweep only breaks the runs that dwell counts.                  *)
Broken(rule) == [rule EXCEPT !.streak = 0]

Begin(s) ==
  /\ sweep[s] = 0 /\ rules_lock = "none"
  /\ s = "work" => handler = "sweep"
  /\ IF enabled /\ rules # <<>>
     THEN /\ rules_lock' = s
          /\ sweep' = [sweep EXCEPT ![s] = 1]
          /\ UNCHANGED <<rules, handler>>
     ELSE /\ rules' = IF enabled THEN rules ELSE [i \in DOMAIN rules |-> Broken(rules[i])]
          /\ handler' = IF s = "work" THEN "swept" ELSE handler
          /\ UNCHANGED <<rules_lock, sweep>>
  /\ UNCHANGED <<crossed, enabled, table_lock, interval, running, timer, setter, waiting, fired>>

(* release: the answers of kfsw_fbo_schedule_add.  An identical entry that   *)
(* still waits stands for this release.                                      *)
Released_OnlyNew(answer) == answer = "0"
Released(answer) == answer \in {"0", "-EEXIST"}

Answers == IF waiting THEN {"-EEXIST"} ELSE {"0", "-ENOSPC"}

(* evaluate: no reading changes nothing; a false comparison re-arms; a true  *)
(* one counts, and releases once the dwell is reached.                       *)
Streak(rule) == [rule EXCEPT !.streak = IF @ < StreakMax THEN @ + 1 ELSE @]

Fires(i) == ~rules[i].latched /\ Streak(rules[i]).streak >= Dwell[i]

Evaluated(i, answer) ==
  IF ~crossed THEN Fresh
  ELSE [Streak(rules[i]) EXCEPT !.latched = IF Fires(i) THEN Released(answer) ELSE @]

Continue(s, i) ==
  IF i = Len(rules)
  THEN /\ sweep' = [sweep EXCEPT ![s] = 0]
       /\ rules_lock' = "none"
       /\ handler' = IF s = "work" THEN "swept" ELSE handler
  ELSE /\ sweep' = [sweep EXCEPT ![s] = i + 1]
       /\ UNCHANGED <<rules_lock, handler>>

Evaluate(s, readable, answer) ==
  LET i == sweep[s]
      release == readable /\ crossed /\ Fires(i)
  IN  /\ i # 0 /\ table_lock = "none"
      /\ answer \in Answers
      /\ rules' = IF readable THEN [rules EXCEPT ![i] = Evaluated(i, answer)] ELSE rules
      /\ waiting' = (waiting \/ (release /\ answer = "0"))
      /\ fired' = [fired EXCEPT ![i] = IF readable /\ ~crossed THEN 0
                                       ELSE IF release /\ answer # "-ENOSPC" THEN @ + 1 ELSE @]
      /\ Continue(s, i)
      /\ UNCHANGED <<crossed, enabled, table_lock, interval, running, timer, setter>>

(* The rest of work_handler: state.running is read under its lock, and the   *)
(* work rescheduled after it.                                                *)
Again_Always == TRUE
Again == running

HandlerReads ==
  /\ handler = "swept"
  /\ handler' = IF Again THEN "again" ELSE "no"
  /\ UNCHANGED <<queue, sweep, interval, running, timer, setter, table_lock>>

HandlerReschedules ==
  /\ handler = "again"
  /\ handler' = "no"
  /\ timer' = TRUE
  /\ UNCHANGED <<queue, sweep, interval, running, setter, table_lock>>

Expires ==
  /\ timer /\ handler = "no"
  /\ timer' = FALSE
  /\ handler' = "sweep"
  /\ UNCHANGED <<queue, sweep, interval, running, setter, table_lock>>

----------------------------------------------------------------------------
(* kfsw_limits_set_interval_ms, from the parameter's changed callback *)

SetInterval(value) ==
  /\ setter = "no" /\ table_lock = "none"
  /\ table_lock' = "setter"
  /\ interval' = value
  /\ setter' = "state"
  /\ UNCHANGED <<queue, sweep, running, timer, handler>>

SetRunning ==
  /\ setter = "state"
  /\ running' = (interval # 0)
  /\ setter' = "work"
  /\ UNCHANGED <<queue, sweep, interval, timer, handler, table_lock>>

(* k_work_reschedule and k_work_cancel_delayable: a handler that runs goes on *)
SetWork ==
  /\ setter = "work"
  /\ timer' = (interval # 0)
  /\ setter' = "no"
  /\ table_lock' = "none"
  /\ UNCHANGED <<queue, sweep, interval, running, handler>>

----------------------------------------------------------------------------
(* the parameter's value, the switch and the queue *)

Change ==
  /\ \/ crossed' = ~crossed /\ UNCHANGED <<enabled, waiting>>
     \/ enabled' = ~enabled /\ UNCHANGED <<crossed, waiting>>
     \/ waiting /\ waiting' = FALSE /\ UNCHANGED <<crossed, enabled>>
  /\ UNCHANGED <<rules, rules_lock, table_lock, sweep, interval, running, timer, handler, setter, fired>>
----------------------------------------------------------------------------
Init ==
  /\ crossed = FALSE /\ enabled = TRUE /\ waiting = FALSE
  /\ rules = <<>> /\ fired = [i \in DOMAIN Dwell |-> 0]
  /\ rules_lock = "none" /\ table_lock = "none"
  /\ sweep = [s \in Sweepers |-> 0]
  /\ interval = 1 /\ running = TRUE /\ timer = TRUE
  /\ handler = "no" /\ setter = "no"

Sweeping(s) ==
  \/ Begin(s)
  \/ \E readable \in BOOLEAN, answer \in Answers: Evaluate(s, readable, answer)

Handler == HandlerReads \/ HandlerReschedules \/ Expires

Setter == SetRunning \/ SetWork

Next ==
  \/ \E good \in BOOLEAN: Load(good)
  \/ \E s \in Sweepers: Sweeping(s)
  \/ Handler
  \/ \E value \in 0..1: SetInterval(value)
  \/ Setter
  \/ Change

(* Threads run, time passes, and a mutex is handed to the one that waits     *)
(* for it.                                                                   *)
Fairness ==
  /\ WF_vars(Handler) /\ WF_vars(Setter)
  /\ \A s \in Sweepers: SF_vars(sweep[s] # 0 /\ Sweeping(s))
  /\ SF_vars(Sweeping("work"))

Spec == Init /\ [][Next]_vars /\ Fairness

----------------------------------------------------------------------------
(* A rule fires once per crossing: between two releases of its action, or   *)
(* entries that stand for one, a sweep found the comparison false, through  *)
(* failed readings, refused releases, disabled sweeps and two sweepers      *)
(* (limits.h: "A rule fires once per crossing").                            *)
OncePerCrossing == \A i \in DOMAIN fired: fired[i] <= 1

(* The periodic sweep follows its interval: once it stays off the sweeps    *)
(* stop, and while it stays on they go on, although the handler decides on  *)
(* a reading of running it took before a change (limits.h: "Change the      *)
(* periodic sweep.  Zero stops it.").                                       *)
SweepFollowsInterval ==
  /\ <>[](interval = 0) => <>[](handler = "no" /\ ~timer)
  /\ <>[](interval # 0) => []<>(handler = "swept")
=============================================================================
