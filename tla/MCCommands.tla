------------------------------ MODULE MCCommands -----------------------------
(***************************************************************************)
(* The ways a command is run without an operator at the shell, for TLC: by  *)
(* a remote node through ticketed calls (CommandRetry), by a procedure on   *)
(* the command path (FboProcedure), and by remote execution (Remexec).  A   *)
(* behaviour exercises one of them and leaves the others where they start.  *)
(***************************************************************************)
EXTENDS CommandRetry

CONSTANTS
  Threads, Fbo, MaxCount, LinesMax,            \* FboProcedure
  Listing, OutputMax, Backlog, MaxRequests,    \* Remexec
  Services                                     \* at work in the run

VARIABLES
  claim, dispatching, underneath,
  running, exclusive, stop_requested, cancel, start, asked, at,
  line, at_end, skip_next, stop_on_error, result,
  initialized, server_started, executor, capture, runner, connections, packet, requester,
  made, lines, runs,
  service     \* the one at work: "retry", "fbo" or "remexec"

(* Two nodes call at the same time and compete for the slots.               *)
MCNodeOf(c) == IF c = "c1" THEN "n1" ELSE "n2"

(* Commands that print nothing, less and more than a reply carries, and     *)
(* lines that are refused.                                                  *)
MCCommandLines ==
  [quiet |-> [refusal |-> "none", prints |-> 0, result |-> 0],
   chatty |-> [refusal |-> "none", prints |-> OutputMax + 1, result |-> 0],
   failing |-> [refusal |-> "none", prints |-> 1, result |-> 5],
   hidden |-> [refusal |-> "NOT_OFFERED", prints |-> 1, result |-> 0],
   long |-> [refusal |-> "TOO_LONG", prints |-> 1, result |-> 0]]

F == INSTANCE FboProcedure
X == INSTANCE Remexec WITH
       Commands <- MCCommandLines, client <- requester, asked <- made, line <- lines

ASSUME F!ProcedureAssumption
ASSUME X!RemexecAssumption

procedure == <<claim, dispatching, underneath, running, exclusive, stop_requested, cancel,
               start, asked, at, line, at_end, skip_next, stop_on_error, result>>
execution == <<initialized, server_started, executor, capture, runner, connections, packet,
               requester, made, lines, runs>>

CommandsVars == <<vars, procedure, execution, service>>

CommandsInit == Init /\ F!Init /\ X!Init /\ service \in Services

(* The calls or requests may all have ended; nothing happens then.          *)
Over ==
  /\ \/ service = "retry" /\ \A c \in Calls : phase[c] = "done"
     \/ service = "remexec" /\ made = MaxRequests /\ requester = X!NoClient
  /\ UNCHANGED CommandsVars

CommandsNext ==
  \/ service = "retry" /\ Next /\ UNCHANGED <<procedure, execution, service>>
  \/ service = "fbo" /\ F!Next /\ UNCHANGED <<vars, execution, service>>
  \/ service = "remexec" /\ X!Next /\ UNCHANGED <<vars, procedure, service>>
  \/ Over

(* The fairness of FboProcedure where it is at work.                        *)
CommandsFairness ==
  /\ WF_procedure(service = "fbo" /\ F!Procedure)
  /\ WF_procedure(service = "fbo" /\ F!GiveStart)
  /\ SF_procedure(service = "fbo" /\ F!CommandStarts)
  /\ \A t \in F!Others: WF_procedure(service = "fbo" /\ F!Ends(t))

CommandsSpec == CommandsInit /\ [][CommandsNext]_CommandsVars /\ CommandsFairness

----------------------------------------------------------------------------
(* FboProcedure: an exclusive claim lets through at most the one command of *)
(* another thread that had passed check_claim before (command.c).           *)
ExclusiveLeaksAtMostOne == F!ExclusiveLeaksAtMostOne

(* FboProcedure: when no procedure runs, the command path is nobody's and   *)
(* no stop is pending that the next run would find, whichever way the last  *)
(* run ended and however stop raced with its end (fbo.c).                   *)
IdleIsClean == TypeOK /\ F!TypeOK /\ F!NoStaleStop /\ F!PathFreeWhenIdle

(* FboProcedure: a stop ends the run, also out of a wait of any length and  *)
(* before the thread has taken up the run (fbo.c).                          *)
StopEndsRun == service = "fbo" => F!StopEndsRun

(* Remexec: an answer tells what became of its own request and of no other, *)
(* although all runs share a capture buffer and requests of requesters that *)
(* gave up are still served (remexec.c, remexec_csp.c).                     *)
AnswerIsOfItsRun == X!AnswerIsOfItsRun
=============================================================================
