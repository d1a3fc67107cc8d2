-------------------------------- MODULE Health -------------------------------
(***************************************************************************)
(* Health supervision (src/health/health.c): components report within their *)
(* deadlines, a periodic evaluation feeds the watchdog while all of them    *)
(* do, and the watchdog resets the board when it is not fed.                *)
(*                                                                          *)
(* Time is kept as ages: how long ago a component reported and the watchdog *)
(* was fed, and how long until the work item runs.  Work that is due runs,  *)
(* and an evaluation ends, before the next tick; calls of other threads     *)
(* come between the steps of an evaluation.                                 *)
(***************************************************************************)
EXTENDS Integers, FiniteSets

CONSTANTS
  Handles,       \* the slots of health_entries
  Names,         \* names components register by
  Deadlines,     \* deadlines they register with
  Intervals,     \* intervals offered to kfsw_health_set_interval_ms
  FeedInterval,  \* kfsw_platform_watchdog_feed_interval_ms
  Timeout        \* the watchdog's timeout

(* How the platform derives its feed interval from the timeout is external; *)
(* nothing is assumed of their ratio.                                       *)
WatchdogAssumption ==
  /\ FeedInterval \in Nat \ {0} /\ Timeout \in Nat \ {0}
  /\ Deadlines \subseteq Nat \ {0} /\ Intervals \subseteq Nat

VARIABLES
  entries,    \* health_entries: used, name, deadline, age of the last report
  state,      \* health_state.state
  interval,   \* health_interval_ms
  due,        \* ticks until health_work runs
  evaluation, \* where the handler is: the step, and the entry found overdue
  unfed,      \* ticks since the watchdog was fed
  feeding,    \* health_state.feeding
  lastwords,  \* the note that survives a reset: reason and detail
  postponed,  \* history: interval changes since the last evaluation, saturating
  refused     \* history: the platform refused the last feed

vars == <<entries, state, interval, due, evaluation, unfed, feeding, lastwords,
          postponed, refused>>

Free == [used |-> FALSE, name |-> "", deadline |-> 0, age |-> 0]
NoNote == [reason |-> "NONE", detail |-> 0, silent |-> 0]
Resting == [step |-> "no", handle |-> 0, age |-> 0]
MaxAge == Timeout + (CHOOSE d \in Deadlines : \A e \in Deadlines : e <= d) + 1

(* So many changes may put the feed off beyond the timeout.                 *)
MaxPostponed == Timeout \div FeedInterval + 1

Used == {h \in Handles : entries[h].used}

----------------------------------------------------------------------------
(* kfsw_health_register, kfsw_health_unregister, kfsw_health_report *)

Register(name, deadline, h) ==
  /\ \A g \in Used : entries[g].name # name
  /\ h \notin Used /\ \A g \in Handles \ Used : h <= g
  /\ entries' = [entries EXCEPT ![h] = [used |-> TRUE, name |-> name, deadline |-> deadline,
                                        age |-> 0]]
  /\ UNCHANGED <<state, interval, due, evaluation, unfed, lastwords, postponed, feeding, refused>>

(* The slot keeps its deadline and its last report.                         *)
Unregister(h) ==
  /\ h \in Used
  /\ entries' = [entries EXCEPT ![h].used = FALSE, ![h].name = ""]
  /\ UNCHANGED <<state, interval, due, evaluation, unfed, lastwords, postponed, feeding, refused>>

Report(h) ==
  /\ h \in Used
  /\ entries' = [entries EXCEPT ![h].age = 0]
  /\ UNCHANGED <<state, interval, due, evaluation, unfed, lastwords, postponed, feeding, refused>>

----------------------------------------------------------------------------
(* kfsw_health_start, kfsw_health_set_interval_ms *)

IntervalOk_Unchecked(i) == i # 0

(* kfsw_health_check_interval_ms *)
IntervalOk(i) == i # 0 /\ i <= FeedInterval

(* "Treat every component as just reported."                                *)
Fresh == [h \in Handles |-> IF entries[h].used THEN [entries[h] EXCEPT !.age = 0] ELSE entries[h]]

(* kfsw_platform_watchdog_release starts a new timeout.                     *)
Start ==
  /\ state = "STOPPED"
  /\ entries' = Fresh
  /\ state' = "OK"
  /\ due' = interval
  /\ unfed' = 0
  /\ UNCHANGED <<interval, evaluation, lastwords, postponed, feeding, refused>>

(* Each call puts health_work off by the new interval; a work item that is  *)
(* in its queue already still runs.                                         *)
SetInterval(i) ==
  /\ IntervalOk(i)
  /\ interval' = i
  /\ IF state = "STOPPED" THEN UNCHANGED <<due, postponed>>
     ELSE /\ due' \in IF due = 0 THEN {0, i} ELSE {i}
          /\ postponed' = IF postponed < MaxPostponed THEN postponed + 1 ELSE postponed
  /\ UNCHANGED <<entries, state, evaluation, unfed, lastwords, feeding, refused>>

----------------------------------------------------------------------------
(* health_work_handler, kfsw_health_evaluate *)

Overdue_AtTwice(h) == entries[h].used /\ entries[h].age > 2 * entries[h].deadline

Overdue(h) == entries[h].used /\ entries[h].age > entries[h].deadline

Evaluating(step, h) == evaluation' = [step |-> step, handle |-> h,
                                      age |-> IF h = 0 THEN 0 ELSE entries[h].age]

(* kfsw_lastwords_withdraw *)
Withdraw == IF state # "OK" THEN NoNote ELSE lastwords

(* The part of the evaluation under health_lock.                            *)
Check ==
  /\ state # "STOPPED" /\ due = 0 /\ evaluation.step = "no"
  /\ \/ /\ \A h \in Handles : ~Overdue(h)
        /\ lastwords' = Withdraw
        /\ state' = "OK"
        /\ Evaluating("feed", 0)
     \/ \E h \in Handles :
          /\ Overdue(h) /\ \A g \in Handles : Overdue(g) => h <= g
          /\ state' = "FAULTED"
          /\ IF state = "OK" THEN Evaluating("note", h) ELSE Evaluating("reschedule", 0)
          /\ UNCHANGED lastwords
  /\ postponed' = 0
  /\ feeding' = (feeding /\ state' = "OK")
  /\ UNCHANGED <<entries, interval, due, unfed, refused>>

(* kfsw_platform_watchdog_feed, which may refuse.                           *)
Feed(fed) ==
  /\ evaluation.step = "feed"
  /\ unfed' = IF fed THEN 0 ELSE unfed
  /\ feeding' = (feeding \/ fed)
  /\ refused' = ~fed
  /\ Evaluating("reschedule", 0)
  /\ UNCHANGED <<entries, state, interval, due, lastwords, postponed>>

(* The note is written without the lock, from the entry as it is by then.   *)
WriteNote ==
  /\ evaluation.step = "note"
  /\ lastwords' = [reason |-> "STARVED", detail |-> entries[evaluation.handle].age,
                   silent |-> evaluation.age]
  /\ Evaluating("reschedule", 0)
  /\ UNCHANGED <<entries, state, interval, due, unfed, postponed, feeding, refused>>

Reschedule ==
  /\ evaluation.step = "reschedule"
  /\ due' = interval
  /\ evaluation' = Resting
  /\ UNCHANGED <<entries, state, interval, unfed, lastwords, postponed, feeding, refused>>

----------------------------------------------------------------------------
(* The clock and the watchdog. *)

Older(e) == [e EXCEPT !.age = IF @ < MaxAge THEN @ + 1 ELSE @]

Tick ==
  /\ evaluation.step = "no"
  /\ state = "STOPPED" \/ (due > 0 /\ unfed < Timeout)
  /\ entries' = [h \in Handles |-> Older(entries[h])]
  /\ IF state = "STOPPED" THEN UNCHANGED <<due, unfed>> ELSE due' = due - 1 /\ unfed' = unfed + 1
  /\ UNCHANGED <<state, interval, evaluation, lastwords, postponed, feeding, refused>>

(* The watchdog fires; everything in RAM but the note is lost.              *)
Reset ==
  /\ state # "STOPPED" /\ unfed = Timeout
  /\ entries' = [h \in Handles |-> Free]
  /\ state' = "STOPPED" /\ interval' = FeedInterval /\ due' = 0 /\ unfed' = 0
  /\ evaluation' = Resting /\ feeding' = FALSE /\ postponed' = 0 /\ refused' = FALSE
  /\ lastwords' = NoNote   \* taken at boot

Init ==
  /\ entries = [h \in Handles |-> Free]
  /\ state = "STOPPED" /\ interval = FeedInterval /\ due = 0 /\ unfed = 0
  /\ evaluation = Resting /\ feeding = FALSE /\ postponed = 0 /\ refused = FALSE
  /\ lastwords = NoNote

Call ==
  \/ \E n \in Names, d \in Deadlines, h \in Handles : Register(n, d, h)
  \/ \E h \in Handles : Unregister(h) \/ Report(h)
  \/ Start
  \/ \E i \in Intervals : SetInterval(i)

Next == Call \/ Check \/ (\E fed \in BOOLEAN : Feed(fed)) \/ WriteNote \/ Reschedule \/ Tick \/ Reset

Spec == Init /\ [][Next]_vars

----------------------------------------------------------------------------
TypeOK ==
  /\ entries \in [Handles -> [used : BOOLEAN, name : Names \cup {""},
                              deadline : Deadlines \cup {0}, age : 0..MaxAge]]
  /\ state \in {"OK", "FAULTED", "STOPPED"}
  /\ interval \in Nat \ {0} /\ due \in Nat /\ postponed \in 0..MaxPostponed
  /\ evaluation.step \in {"no", "feed", "note", "reschedule"}
  /\ unfed \in 0..Timeout
  /\ feeding \in BOOLEAN

(* "If one stops reporting, the watchdog resets the board": while           *)
(* supervision runs, no registered component stays silent for longer than   *)
(* its deadline and the watchdog's timeout together.                        *)
SilenceEndsInReset ==
  state # "STOPPED" => \A h \in Used : entries[h].age <= entries[h].deadline + Timeout

(* While no component is overdue and the platform takes the feeds, the      *)
(* watchdog is fed within one feed interval, and one more for each change   *)
(* of the interval since the last evaluation (health.c check_interval,      *)
(* set_interval): the board is reset only for a fault, a refused feed, or   *)
(* when the interval is changed over and over between two evaluations.      *)
FedUnlessFault ==
  state = "OK" /\ ~refused /\ evaluation.step # "feed"
    => unfed + due <= (1 + postponed) * FeedInterval

(* health.h on the interval: 0 means "Safe, or no watchdog is armed".       *)
(* Accepted intervals do not starve the watchdog, however they are set.     *)
AcceptedIntervalIsSafe ==
  state = "OK" /\ ~refused /\ evaluation.step # "feed" => unfed < Timeout

(* The note says STARVED exactly while a fault lasts, so a later reset for  *)
(* another reason does not find it and a reset for this one does.           *)
NoteMatchesFault ==
  evaluation.step # "note" => (lastwords.reason = "STARVED" <=> state = "FAULTED")

(* health.c: "the detail is how long the component was silent".             *)
DetailIsSilence == lastwords.detail = lastwords.silent
=============================================================================
