---------------------------- MODULE MCSupervision ----------------------------
(***************************************************************************)
(* The services that act on a timer, for TLC: the ground watchdog, the      *)
(* limits and the image scrub.  They share no state, so a behaviour         *)
(* exercises one of them and leaves the others where they start.            *)
(***************************************************************************)
EXTENDS GroundWatchdog, Sequences

CONSTANTS
  StreakMax,            \* Limits
  Images, MaxChanges,   \* Scrub
  Services              \* the ones at work in the run

VARIABLES
  crossed, limits_enabled, rules, rules_lock, table_lock, limits_sweep, interval,
  limits_running, limits_timer, handler, setter, waiting, fired,
  flash, changes, reference, saved, result, mismatching, sweeping, timer, sweep, caller,
  service     \* "gndwdt", "limits" or "scrub"

(* Two rules; the second one asks for the longest dwell there is.           *)
RuleDwell == <<1, StreakMax>>

L == INSTANCE Limits WITH
       Dwell <- RuleDwell, enabled <- limits_enabled, sweep <- limits_sweep,
       running <- limits_running, timer <- limits_timer
C == INSTANCE Scrub WITH running <- sweeping

ASSUME L!LimitsAssumption

limits == <<crossed, limits_enabled, rules, rules_lock, table_lock, limits_sweep, interval,
            limits_running, limits_timer, handler, setter, waiting, fired>>
scrub == <<flash, changes, reference, saved, result, mismatching, sweeping, timer, sweep, caller>>
SupervisionVars == <<vars, limits, scrub, service>>

SupervisionInit ==
  /\ Init /\ L!Init /\ C!Init
  /\ service \in Services
  /\ service # "gndwdt" => enabled
  /\ service # "scrub" => flash = CHOOSE i \in Images: TRUE

SupervisionNext ==
  \/ service = "gndwdt" /\ Next /\ UNCHANGED <<limits, scrub, service>>
  \/ service = "limits" /\ L!Next /\ UNCHANGED <<vars, scrub, service>>
  \/ service = "scrub" /\ C!Next /\ UNCHANGED <<vars, limits, service>>

(* The fairness of each service where it is at work.                        *)
SupervisionFairness ==
  /\ WF_vars(service = "gndwdt" /\ Work)
  /\ SF_vars(service = "gndwdt" /\ Reset)
  /\ WF_vars(service = "gndwdt" /\ Tick)
  /\ \A c \in Callers: WF_vars(service = "gndwdt" /\ Call(c))
  /\ WF_limits(service = "limits" /\ L!Handler)
  /\ WF_limits(service = "limits" /\ L!Setter)
  /\ \A s \in L!Sweepers: SF_limits(service = "limits" /\ limits_sweep[s] # 0 /\ L!Sweeping(s))
  /\ SF_limits(service = "limits" /\ L!Sweeping("work"))
  /\ \A s \in C!Sweepers:
       /\ WF_scrub(service = "scrub" /\ C!Step(s))
       /\ SF_scrub(service = "scrub" /\ C!Measured(s))
  /\ WF_scrub(service = "scrub" /\ C!Handler)
  /\ WF_scrub(service = "scrub" /\ C!Command)

SupervisionSpec == SupervisionInit /\ [][SupervisionNext]_SupervisionVars /\ SupervisionFairness

----------------------------------------------------------------------------
(* Ground watchdog: a service nobody ever stops resets the node when no     *)
(* feed comes before the timeout, and one that runs is being checked, with  *)
(* the timeout in its range (gndwdt.c).                                     *)
SilentNodeResets == SilenceResets /\ [](TypeOK /\ RunningIsChecked)

(* Limits: a rule fires once per crossing of its bound (limits.c).          *)
OncePerCrossing == L!OncePerCrossing

(* Limits: the periodic sweep stops once its interval stays 0 and goes on   *)
(* while it does not (limits.c, work_handler against set_interval_ms).      *)
SweepFollowsInterval == service = "limits" => L!SweepFollowsInterval

(* Scrub: while the periodic sweep stays on, an image that differs from its *)
(* reference is reported again and again (scrub.c).                         *)
DecayIsFound == service = "scrub" => C!DecayIsFound

=============================================================================
