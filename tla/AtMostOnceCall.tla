---------------------------- MODULE AtMostOnceCall ---------------------------
(***************************************************************************)
(* What a ticketed remote command promises its caller (README.md,           *)
(* "Commands": a ticketed call reuses one ticket within an invocation; a    *)
(* lost reply can still leave the outcome unknown): the handler runs at     *)
(* most once, and what the caller is told of it stays true.                 *)
(*                                                                          *)
(* A caller is told a status, or that the call failed before (NoTicket) or  *)
(* after (NoReply) it had a ticket.  Only after NoReply may the handler     *)
(* still run.                                                               *)
(***************************************************************************)
EXTENDS Sequences

CONSTANTS
  Calls,
  Results,   \* statuses a handler may report
  Refusals   \* statuses given without running it; UNAVAILABLE is one

VARIABLES
  ran,      \* for each call, the results its handler returned
  answer    \* for each call, what the caller was told

vars == <<ran, answer>>

Init ==
  /\ ran = [c \in Calls |-> <<>>]
  /\ answer = [c \in Calls |-> "Pending"]

Run(c, r) ==
  /\ ran[c] = <<>>
  /\ answer[c] \in {"Pending", "NoReply"}
  /\ ran' = [ran EXCEPT ![c] = <<r>>]
  /\ UNCHANGED answer

(* UNAVAILABLE also stands for a ticket that is gone, which ran or did not. *)
Truthful(c, a) ==
  CASE a = "NoTicket" -> ran[c] = <<>>
    [] a \in {"NoReply", "UNAVAILABLE"} -> TRUE
    [] a \in Refusals \ {"UNAVAILABLE"} -> ran[c] \in {<<>>, <<a>>}
    [] a \in Results \ Refusals -> ran[c] = <<a>>

Answer(c, a) ==
  /\ answer[c] = "Pending" /\ Truthful(c, a)
  /\ answer' = [answer EXCEPT ![c] = a]
  /\ UNCHANGED ran

Next ==
  \E c \in Calls :
    \/ \E r \in Results : Run(c, r)
    \/ \E a \in Results \cup Refusals \cup {"NoTicket", "NoReply"} : Answer(c, a)

Spec == Init /\ [][Next]_vars
=============================================================================
