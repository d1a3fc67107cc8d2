---------------------------- MODULE MCFboSchedule ----------------------------
EXTENDS FboSchedule

(* Two delays, and an absolute time; the second line makes two entries that *)
(* are due at the same second differ.                                       *)
MCContents ==
  {[kind |-> "RELATIVE", when |-> 1, line |-> "a"],
   [kind |-> "RELATIVE", when |-> 2, line |-> "a"],
   [kind |-> "ABSOLUTE", when |-> 2, line |-> "a"]}

(* An entry that was given up (overdue, or cancelled outside the hand-over) *)
(* does not run later, and a relative one does not run before its time,     *)
(* whatever the wall clock does (fbo_schedule.c, due_now and sweep); the    *)
(* slots and the burst keep their bounds.                                   *)
RunsWhenAsked == TypeOK /\ StoppedNeverRuns /\ NeverEarly
=============================================================================
