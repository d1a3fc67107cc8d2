---------------------------- MODULE FboProcedure -----------------------------
(***************************************************************************)
(* File based operations (src/fbo/fbo.c): one thread carries out procedure  *)
(* files line by line, on the command path it shares with everyone else.    *)
(*                                                                          *)
(* Anyone may ask for a run or for a stop, and the other threads dispatch   *)
(* commands of their own, at any time.  A procedure is read a line at a     *)
(* time: every reading chooses what the next line is.                       *)
(***************************************************************************)
EXTENDS CommandPath

CONSTANTS
  Fbo,          \* the procedure thread
  LinesMax      \* CONFIG_KFSW_FBO_LINES_MAX

ProcedureAssumption == Fbo \in Threads /\ LinesMax \in Nat \ {0} /\ MaxCount \in Nat \ {0}

VARIABLES
  running, exclusive,   \* status.running, status.exclusive
  stop_requested,
  cancel, start,        \* the two semaphores, at most 1
  asked,                \* a caller of kfsw_fbo_run is about to give start
  at,                   \* where the procedure thread is
  line,                 \* line_number
  at_end, skip_next, stop_on_error,
  result                \* of the line being carried out

control == <<running, exclusive, stop_requested, cancel, start, asked>>
reader == <<line, at_end, skip_next, stop_on_error, result>>
vars == <<path, control, at, reader>>

Places == {"idle", "open", "read", "command", "wait", "wait_until", "account", "close", "finish"}

----------------------------------------------------------------------------
(* kfsw_fbo_run, kfsw_fbo_stop *)

Accepts == ~running

Run ==
  /\ Accepts
  /\ cancel' = 0 /\ stop_requested' = FALSE
  /\ running' = TRUE
  /\ asked' = TRUE
  /\ UNCHANGED <<path, exclusive, start, at, reader>>

GiveStart ==
  /\ asked
  /\ asked' = FALSE
  /\ start' = 1
  /\ UNCHANGED <<path, running, exclusive, stop_requested, cancel, at, reader>>

Stoppable_Always == TRUE

Stoppable == running

Signal_OnlyFlag == stop_requested' = TRUE /\ UNCHANGED cancel

Signal == stop_requested' = TRUE /\ cancel' = 1

Stop ==
  /\ Stoppable
  /\ Signal
  /\ UNCHANGED <<path, running, exclusive, start, asked, at, reader>>

----------------------------------------------------------------------------
(* run_procedure *)

Begin ==
  /\ at = "idle" /\ start = 1
  /\ start' = 0
  /\ at' = "open"
  /\ line' = 0 /\ at_end' = FALSE /\ skip_next' = FALSE /\ stop_on_error' = TRUE /\ result' = "OK"
  /\ UNCHANGED <<path, running, exclusive, stop_requested, cancel, asked>>

OpenFails ==
  /\ at = "open"
  /\ at' = "finish"
  /\ UNCHANGED <<path, control, reader>>

(* claim(); the status follows the claim when it is granted.                *)
Claim(mode, r) ==
  /\ Acquire(Fbo, mode, r)
  /\ exclusive' = IF r = "OK" THEN mode = "EXCLUSIVE" ELSE exclusive

Open ==
  /\ at = "open"
  /\ \E r \in {"OK", "EBUSY"} : Claim("SHARED", r)
  /\ at' = "read"
  /\ UNCHANGED <<running, stop_requested, cancel, start, asked, reader>>

(* read_line returns an error: a stop was asked for, or the file system's.  *)
ReadFails ==
  /\ at = "read"
  /\ at' = "close"
  /\ UNCHANGED <<path, control, reader>>

(* A line to carry out was read, the last one of the file or not.           *)
ReadLine ==
  /\ at = "read" /\ ~stop_requested
  /\ line < LinesMax
  /\ line' = line + 1
  /\ at_end' \in BOOLEAN

TooManyLines ==
  /\ at = "read" /\ ~stop_requested
  /\ line = LinesMax
  /\ at' = "close"
  /\ UNCHANGED <<path, control, reader>>

AfterLine == IF at_end' THEN "close" ELSE "read"

(* The file ends in blank lines or comments.                                *)
NothingLeft ==
  /\ at = "read" /\ ~stop_requested
  /\ at' = "close"
  /\ at_end' = TRUE
  /\ UNCHANGED <<path, control, line, skip_next, stop_on_error, result>>

Skip ==
  /\ ReadLine /\ skip_next
  /\ skip_next' = FALSE
  /\ at' = AfterLine
  /\ UNCHANGED <<path, control, stop_on_error, result>>

(* run_line: a directive of the procedure itself.                           *)
Directive ==
  /\ ReadLine /\ ~skip_next
  /\ at' = "account"
  /\ \/ \* on-error
        /\ stop_on_error' \in BOOLEAN /\ result' = "OK"
        /\ UNCHANGED <<path, control, skip_next>>
     \/ \* concurrency
        /\ \E mode \in Modes, r \in {"OK", "EBUSY"} : Claim(mode, r) /\ result' = r
        /\ UNCHANGED <<running, stop_requested, cancel, start, asked, skip_next, stop_on_error>>
     \/ \* if-event
        /\ skip_next' \in BOOLEAN /\ result' = "OK"
        /\ UNCHANGED <<path, control, stop_on_error>>
     \/ \* malformed
        /\ result' = "EINVAL"
        /\ UNCHANGED <<path, control, skip_next, stop_on_error>>

(* A line longer than the buffer fails, and is not what a guard skips.      *)
Overlong ==
  /\ ReadLine
  /\ result' = "ENAMETOOLONG"
  /\ at' = "account"
  /\ UNCHANGED <<path, control, skip_next, stop_on_error>>

Wait ==
  /\ ReadLine /\ ~skip_next
  /\ at' \in {"wait", "wait_until"}
  /\ UNCHANGED <<path, control, skip_next, stop_on_error, result>>

(* k_sem_take(&cancel): woken by a stop, or the time is over.               *)
WaitWoken ==
  /\ at = "wait" /\ cancel = 1
  /\ cancel' = 0
  /\ at' = "account"
  /\ result' = IF stop_requested THEN "ECANCELED" ELSE "OK"
  /\ UNCHANGED <<path, running, exclusive, stop_requested, start, asked,
                 line, at_end, skip_next, stop_on_error>>

WaitElapses ==
  /\ at = "wait" /\ cancel = 0
  /\ at' = "account"
  /\ result' = IF stop_requested THEN "ECANCELED" ELSE "OK"
  /\ UNCHANGED <<path, control, line, at_end, skip_next, stop_on_error>>

(* One turn of the loop of wait_until.                                      *)
WaitUntilPolls ==
  /\ at = "wait_until"
  /\ IF stop_requested
     THEN at' = "account" /\ result' = "ECANCELED" /\ UNCHANGED cancel
     ELSE \/ at' = "account" /\ result' \in {"OK", "EINVAL"} /\ UNCHANGED cancel
          \/ cancel' = 0 /\ UNCHANGED <<at, result>>
  /\ UNCHANGED <<path, running, exclusive, stop_requested, start, asked,
                 line, at_end, skip_next, stop_on_error>>

(* run_command_line: dispatch on the procedure's own thread.                *)
Command ==
  /\ ReadLine /\ ~skip_next
  /\ \E r \in {"OK", "EBUSY"} :
       /\ CheckClaim(Fbo, r)
       /\ result' = r
       /\ at' = IF r = "OK" THEN "command" ELSE "account"
  /\ UNCHANGED <<control, skip_next, stop_on_error>>

CommandStarts ==
  /\ at = "command"
  /\ StartHandler(Fbo)
  /\ UNCHANGED <<control, at, reader>>

CommandReturns ==
  /\ at = "command"
  /\ HandlerReturns(Fbo)
  /\ result' \in {"OK", "EINVAL"}
  /\ at' = "account"
  /\ UNCHANGED <<control, line, at_end, skip_next, stop_on_error>>

Account ==
  /\ at = "account"
  /\ at' = IF result = "ECANCELED" \/ (result # "OK" /\ stop_on_error) \/ at_end
           THEN "close" ELSE "read"
  /\ UNCHANGED <<path, control, reader>>

Close ==
  /\ at = "close"
  /\ Unclaim(Fbo)
  /\ exclusive' = FALSE
  /\ at' = "finish"
  /\ UNCHANGED <<running, stop_requested, cancel, start, asked, reader>>

(* fbo_thread, after run_procedure.                                         *)
Finish ==
  /\ at = "finish"
  /\ running' = FALSE
  /\ stop_requested' = FALSE /\ cancel' = 0
  /\ at' = "idle"
  /\ UNCHANGED <<path, exclusive, start, asked, reader>>

----------------------------------------------------------------------------
(* Commands from elsewhere. *)

Others == Threads \ {Fbo}

OtherDispatches(t) ==
  /\ \/ \E r \in {"OK", "EBUSY"} : CheckClaim(t, r)
     \/ StartHandler(t)
     \/ HandlerReturns(t)
  /\ UNCHANGED <<control, at, reader>>

Init ==
  /\ PathInit
  /\ running = FALSE /\ exclusive = FALSE /\ stop_requested = FALSE
  /\ cancel = 0 /\ start = 0 /\ asked = FALSE
  /\ at = "idle"
  /\ line = 0 /\ at_end = FALSE /\ skip_next = FALSE /\ stop_on_error = TRUE /\ result = "OK"

Reads == NothingLeft \/ Skip \/ Overlong \/ Directive \/ Wait \/ Command \/ TooManyLines \/ ReadFails

Procedure ==
  \/ Begin \/ OpenFails \/ Open \/ Reads
  \/ WaitWoken \/ WaitUntilPolls
  \/ CommandReturns \/ Account \/ Close \/ Finish

Next ==
  \/ Run \/ GiveStart \/ Stop
  \/ Procedure \/ WaitElapses \/ CommandStarts
  \/ \E t \in Others : OtherDispatches(t)

Spec == Init /\ [][Next]_vars

(* The handler of another thread returns.                                   *)
Ends(t) == HandlerReturns(t) /\ UNCHANGED <<control, at, reader>>

(* The procedure thread runs, handlers return, the thread gets command_lock *)
(* in the end, and a caller of run goes on to give start.  Nothing is       *)
(* assumed of how long a wait lasts.                                        *)
Fairness ==
  /\ WF_vars(Procedure) /\ WF_vars(GiveStart) /\ SF_vars(CommandStarts)
  /\ \A t \in Others : WF_vars(Ends(t))

FairSpec == Spec /\ Fairness

----------------------------------------------------------------------------
TypeOK ==
  /\ claim \in [held : BOOLEAN, owner : Threads, mode : Modes,
                intrusions : 0..MaxCount, refusals : 0..MaxCount]
  /\ dispatching \in [Threads -> {"no", "checked", "handler"}]
  /\ underneath \in [Threads -> 0..MaxCount]
  /\ running \in BOOLEAN /\ exclusive \in BOOLEAN /\ stop_requested \in BOOLEAN
  /\ cancel \in 0..1 /\ start \in 0..1 /\ asked \in BOOLEAN
  /\ at \in Places
  /\ line \in 0..LinesMax
  /\ result \in {"OK", "EBUSY", "EINVAL", "ENAMETOOLONG", "ECANCELED"}

(* An exclusive claim lets through at most the one command of another       *)
(* thread that had passed check_claim before: never a second one.           *)
ExclusiveLeaksAtMostOne == \A t \in Threads : underneath[t] <= 1

(* The command path is nobody's when no procedure runs: whichever way a run *)
(* ended (an error, a stop, a file that would not open), its claim is gone  *)
(* and the status does not say exclusive.                                   *)
PathFreeWhenIdle == ~running => ~claim.held /\ ~exclusive

(* "Stopping while idle has no effect on the next run": a stop is pending   *)
(* only while a procedure runs, however stop races with the end of a run.   *)
NoStaleStop == stop_requested \/ cancel = 1 => running

(* A stop ends the run, also out of a wait of any length, behind other      *)
(* threads' commands, and before the thread has taken up the run.           *)
StopEndsRun == stop_requested ~> ~running

(* fbo.h: after a `concurrency exclusive` line "a command from anywhere     *)
(* else is refused, naming the running procedure, until a `concurrency      *)
(* shared` line or the end of the run".                                     *)
ExclusiveRefuses == \A t \in Threads : underneath[t] = 0
=============================================================================
