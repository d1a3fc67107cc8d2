----------------------------- MODULE CommandPath -----------------------------
(***************************************************************************)
(* The command path (src/command/command.c): the claim a thread may hold    *)
(* across a sequence of invocations, and dispatch, which looks at the claim *)
(* under claim_lock, lets go of it, and then waits for command_lock to run  *)
(* the handler.                                                             *)
(***************************************************************************)
EXTENDS Integers

CONSTANTS
  Threads,      \* threads that invoke commands
  MaxCount      \* where the claim's counters saturate

VARIABLES
  claim,        \* the claim: held, owner, mode, intrusions, refusals
  dispatching,  \* where each thread is in dispatch
  underneath    \* history: handlers each thread started under another's
                \* exclusive claim, since that claim became exclusive

path == <<claim, dispatching, underneath>>

Modes == {"SHARED", "EXCLUSIVE"}

PathInit ==
  /\ claim = [held |-> FALSE, owner |-> CHOOSE t \in Threads : TRUE, mode |-> "SHARED",
              intrusions |-> 0, refusals |-> 0]
  /\ dispatching = [t \in Threads |-> "no"]
  /\ underneath = [t \in Threads |-> 0]

Saturating(n) == IF n < MaxCount THEN n + 1 ELSE n

HeldByOther(t) == claim.held /\ claim.owner # t

ExclusiveFor(t) == HeldByOther(t) /\ claim.mode = "EXCLUSIVE"

----------------------------------------------------------------------------
(* kfsw_command_claim_acquire *)
Acquire(t, mode, r) ==
  \/ HeldByOther(t) /\ r = "EBUSY" /\ UNCHANGED path
  \/ /\ ~HeldByOther(t) /\ r = "OK"
     /\ claim' = [held |-> TRUE, owner |-> t, mode |-> mode,
                  intrusions |-> IF claim.held THEN claim.intrusions ELSE 0,
                  refusals |-> IF claim.held THEN claim.refusals ELSE 0]
     /\ underneath' = IF claim.held /\ claim.mode = "EXCLUSIVE" THEN underneath
                      ELSE [u \in Threads |-> 0]
     /\ UNCHANGED dispatching

(* kfsw_command_claim_release *)
Unclaim(t) ==
  /\ claim' = IF HeldByOther(t) THEN claim ELSE [claim EXCEPT !.held = FALSE]
  /\ UNCHANGED <<dispatching, underneath>>

----------------------------------------------------------------------------
(* dispatch *)

CheckClaim_NeverRefuses(t, r) ==
  /\ dispatching[t] = "no"
  /\ r = "OK"
  /\ claim' = IF HeldByOther(t) THEN [claim EXCEPT !.intrusions = Saturating(@)] ELSE claim
  /\ dispatching' = [dispatching EXCEPT ![t] = "checked"]
  /\ UNCHANGED underneath

(* check_claim *)
CheckClaim(t, r) ==
  /\ dispatching[t] = "no"
  /\ \/ /\ ExclusiveFor(t) /\ r = "EBUSY"
        /\ claim' = [claim EXCEPT !.refusals = Saturating(@)]
        /\ UNCHANGED dispatching
     \/ /\ ~ExclusiveFor(t) /\ r = "OK"
        /\ claim' = IF HeldByOther(t) THEN [claim EXCEPT !.intrusions = Saturating(@)] ELSE claim
        /\ dispatching' = [dispatching EXCEPT ![t] = "checked"]
  /\ UNCHANGED underneath

(* k_mutex_lock(&command_lock); the handler starts.                         *)
StartHandler(t) ==
  /\ dispatching[t] = "checked"
  /\ \A u \in Threads : dispatching[u] # "handler"
  /\ dispatching' = [dispatching EXCEPT ![t] = "handler"]
  /\ underneath' = IF ExclusiveFor(t) THEN [underneath EXCEPT ![t] = Saturating(@)] ELSE underneath
  /\ UNCHANGED claim

HandlerReturns(t) ==
  /\ dispatching[t] = "handler"
  /\ dispatching' = [dispatching EXCEPT ![t] = "no"]
  /\ UNCHANGED <<claim, underneath>>
=============================================================================
