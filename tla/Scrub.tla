-------------------------------- MODULE Scrub --------------------------------
(***************************************************************************)
(* The image scrub (src/scrub/scrub.c) of one region: a periodic work and a *)
(* command thread measure the image on flash and compare it with a          *)
(* reference, both without the lock, and record the verdict under it; the   *)
(* command thread also learns the reference, and saves it.  The regions     *)
(* share nothing but the lock, and a sweep of all of them is one sweep of   *)
(* each.  An image is its CRC, never 0 here; 0 is a region with no image.   *)
(***************************************************************************)
EXTENDS Integers

CONSTANTS
  Images,     \* CRCs of images
  MaxChanges  \* bound: how often the flash decays or is written

VARIABLES
  flash,       \* what is in the region
  changes,     \* changes of the flash so far
  reference,   \* kfsw_scrub_references
  saved,       \* the reference in the parameter snapshot
  result,      \* what was recorded last: state, measured and reference
  mismatching, \* the latch of the mismatch that was counted and reported
  running,     \* scrub_state.running
  timer,       \* scrub_work waits
  sweep,       \* sweeper -> where it is, what it measured and concluded
  caller       \* what the command thread is doing: "no", "sweep", "learn", "start" or "stop"

vars == <<flash, changes, reference, saved, result, mismatching, running, timer, sweep, caller>>

Sweepers == {"work", "command"}
Resting == [at |-> "no", measured |-> 0, verdict |-> "UNKNOWN"]
NoResult == [state |-> "UNKNOWN", measured |-> 0, reference |-> 0]

Go(s, step) == [sweep EXCEPT ![s] = [Resting EXCEPT !.at = step]]

----------------------------------------------------------------------------
(* sweep_one *)

(* measure: the image's CRC, no image, or a flash that cannot be read *)
Measure(s) ==
  /\ sweep[s].at = "measure"
  /\ \/ sweep' = [sweep EXCEPT ![s] = [at |-> "judge", measured |-> flash,
                                      verdict |-> IF flash = 0 THEN "EMPTY" ELSE "OK"]]
     \/ sweep' = [sweep EXCEPT ![s] = [at |-> "judge", measured |-> 0, verdict |-> "UNREADABLE"]]
  /\ UNCHANGED <<flash, changes, reference, saved, result, mismatching, running, timer, caller>>

(* The reference is read before the lock is taken.                           *)
Verdict(measured) ==
  CASE reference = 0 -> "UNKNOWN"
    [] reference = measured -> "OK"
    [] OTHER -> "MISMATCH"

Judge(s) ==
  /\ sweep[s].at = "judge"
  /\ sweep' = [sweep EXCEPT ![s].at = "record",
                            ![s].verdict = IF @ = "OK" THEN Verdict(sweep[s].measured) ELSE @]
  /\ UNCHANGED <<flash, changes, reference, saved, result, mismatching, running, timer, caller>>

(* record, with the reference of this moment; the first of a run of          *)
(* mismatches is counted and emits an event.  What follows depends on who    *)
(* sweeps, and for what.                                                     *)
After(s) == IF s = "work" THEN "reschedule" ELSE IF caller = "learn" THEN "check" ELSE "return"

Record(s) ==
  /\ sweep[s].at = "record"
  /\ result' = [state |-> sweep[s].verdict, measured |-> sweep[s].measured, reference |-> reference]
  /\ mismatching' = (sweep[s].verdict = "MISMATCH")
  /\ sweep' = Go(s, After(s))
  /\ UNCHANGED <<flash, changes, reference, saved, running, timer, caller>>

----------------------------------------------------------------------------
(* scrub_work_handler *)

Expires ==
  /\ timer /\ sweep["work"].at = "no"
  /\ timer' = FALSE
  /\ sweep' = Go("work", "measure")
  /\ UNCHANGED <<flash, changes, reference, saved, result, mismatching, running, caller>>

Rescheduled_Never == FALSE
Rescheduled == timer \/ running

HandlerEnds ==
  /\ sweep["work"].at = "reschedule"
  /\ timer' = Rescheduled
  /\ sweep' = Go("work", "no")
  /\ UNCHANGED <<flash, changes, reference, saved, result, mismatching, running, caller>>

----------------------------------------------------------------------------
(* the command thread *)

Call(what) ==
  /\ caller = "no"
  /\ \/ what \in {"sweep", "learn"} /\ UNCHANGED running /\ sweep' = Go("command", "measure")
     \/ what = "start" /\ ~running /\ running' = TRUE /\ sweep' = Go("command", "measure")
     \/ what = "stop" /\ running /\ running' = FALSE /\ UNCHANGED sweep
  /\ caller' = what
  /\ UNCHANGED <<flash, changes, reference, saved, result, mismatching, timer>>

(* kfsw_scrub_learn looks at the region's result without the lock ...        *)
LearnChecks ==
  /\ sweep["command"].at = "check"
  /\ sweep' = Go("command", IF result.state \in {"EMPTY", "UNREADABLE"} THEN "return" ELSE "learn")
  /\ UNCHANGED <<flash, changes, reference, saved, result, mismatching, running, timer, caller>>

(* ... and takes whatever it holds by then.                                  *)
LearnCommits ==
  /\ sweep["command"].at = "learn"
  /\ reference' = result.measured
  /\ result' = [state |-> "OK", measured |-> result.measured, reference |-> result.measured]
  /\ mismatching' = FALSE
  /\ sweep' = Go("command", "save")
  /\ UNCHANGED <<flash, changes, saved, running, timer, caller>>

(* kfsw_param_persist_save, which may fail *)
LearnSaves ==
  /\ sweep["command"].at = "save"
  /\ saved' \in {saved, reference}
  /\ sweep' = Go("command", "return")
  /\ UNCHANGED <<flash, changes, reference, result, mismatching, running, timer, caller>>

(* The call returns; kfsw_scrub_start schedules the work first, and          *)
(* kfsw_scrub_stop cancels it.                                               *)
Return ==
  /\ caller = "stop" \/ sweep["command"].at = "return"
  /\ timer' = IF caller = "start" THEN TRUE ELSE IF caller = "stop" THEN FALSE ELSE timer
  /\ caller' = "no"
  /\ sweep' = Go("command", "no")
  /\ UNCHANGED <<flash, changes, reference, saved, result, mismatching, running>>

----------------------------------------------------------------------------
(* A cell flips, or an image is written or erased.                           *)
FlashChanges ==
  /\ changes < MaxChanges
  /\ changes' = changes + 1
  /\ flash' \in (Images \cup {0}) \ {flash}
  /\ UNCHANGED <<reference, saved, result, mismatching, running, timer, sweep, caller>>

(* A reset: the reference is the one of the parameter snapshot.              *)
Restored == saved

Reset ==
  /\ reference' = Restored
  /\ result' = NoResult /\ mismatching' = FALSE /\ running' = FALSE /\ timer' = FALSE
  /\ sweep' = [s \in Sweepers |-> Resting] /\ caller' = "no"
  /\ UNCHANGED <<flash, changes, saved>>

Init ==
  /\ flash \in Images /\ changes = 0
  /\ reference = 0 /\ saved = 0 /\ result = NoResult /\ mismatching = FALSE
  /\ running = FALSE /\ timer = FALSE
  /\ sweep = [s \in Sweepers |-> Resting] /\ caller = "no"

Measured(s) == Measure(s) /\ sweep'[s].verdict # "UNREADABLE"
Step(s) == Measure(s) \/ Judge(s) \/ Record(s)
Handler == Expires \/ HandlerEnds
Command == LearnChecks \/ LearnCommits \/ LearnSaves \/ Return

Next ==
  \/ \E s \in Sweepers: Step(s)
  \/ Handler
  \/ \E what \in {"sweep", "learn", "start", "stop"}: Call(what)
  \/ Command
  \/ FlashChanges
  \/ Reset

(* Threads and the work run; a flash that can be read at times is read.      *)
Fairness ==
  /\ \A s \in Sweepers: WF_vars(Step(s)) /\ SF_vars(Measured(s))
  /\ WF_vars(Handler) /\ WF_vars(Command)

Spec == Init /\ [][Next]_vars /\ Fairness

----------------------------------------------------------------------------
(* While the periodic sweep stays on, an image that is not the learned one  *)
(* and stays so is reported as a mismatch again and again, whatever the     *)
(* command thread sweeps meanwhile (scrub.h: "a bit flip in either is found *)
(* when the image is needed and not before" without the sweep).             *)
Decayed == running /\ 0 \notin {flash, reference} /\ flash # reference
Found == result.state = "MISMATCH" /\ mismatching
DecayIsFound == <>[]Decayed => []<>Found

(* A region whose reference is unknown never reports OK (scrub.h: "a region *)
(* whose reference is unknown reports KFSW_SCRUB_UNKNOWN and never          *)
(* KFSW_SCRUB_OK").                                                         *)
UnknownIsNeverOk == result.state = "OK" => reference # 0
=============================================================================
