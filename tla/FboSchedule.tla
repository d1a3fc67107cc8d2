----------------------------- MODULE FboSchedule -----------------------------
(***************************************************************************)
(* The queue of time-tagged releases (src/fbo/fbo_schedule.c).              *)
(*                                                                          *)
(* Operators call add, cancel and clear, each under queue_lock.  One thread *)
(* sweeps: it picks a due entry under queue_lock, lets go of it, takes it   *)
(* again to mark the entry RUNNING, lets go of it to run the command, and   *)
(* takes it a third time to report.  Operators' calls fall in between.      *)
(*                                                                          *)
(* Time is in seconds.  The wall clock is the monotonic clock plus an       *)
(* offset, which a clock set moves.                                         *)
(***************************************************************************)
EXTENDS Integers, Sequences, FiniteSets

CONSTANTS
  Entries,      \* CONFIG_KFSW_FBO_SCHEDULE_ENTRIES
  Burst,        \* CONFIG_KFSW_FBO_SCHEDULE_BURST
  Latency,      \* latency_s
  Contents,     \* what may be uploaded: [kind, when, line]
  Offsets,      \* wall clock minus monotonic clock, as clock sets leave it
  NotSet,       \* the wall clock has not been set
  MaxUptime,    \* bound: seconds a behaviour lasts
  MaxUploads    \* bound: entries accepted in a behaviour

ASSUME ScheduleAssumption ==
  /\ Entries \in Nat \ {0}
  /\ Burst \in Nat \ {0}
  /\ Latency \in Nat
  /\ Offsets \subseteq Nat /\ NotSet \notin Nat
  /\ Contents \subseteq [kind : {"RELATIVE", "ABSOLUTE"}, when : Nat \ {0}, line : STRING]

VARIABLES
  slots,        \* slots[], with the number of the upload each holds
  uptime,       \* kfsw_time_monotonic_ms()
  offset,       \* NotSet, or the wall clock minus uptime
  pc,           \* where the release thread is
  mono, utc,    \* the clocks as the sweep in progress read them
  released,     \* releases of the sweep in progress
  candidate,    \* the slot it is releasing
  entry,        \* the upload release() copied from it; 0 from a zeroed slot
  uploads       \* history: what became of each accepted upload

clocks == <<uptime, offset>>
sweeper == <<pc, mono, utc, released, candidate, entry>>
vars == <<slots, clocks, sweeper, uploads>>

Slots == 0 .. Entries - 1
Statuses == {"SCHEDULED", "RUNNING", "COMPLETED", "FAILED", "OVERDUE", "CANCELLED"}

(* A slot of zeros, as memset leaves it: SCHEDULED is 0.                    *)
Zeroed == [used |-> FALSE, status |-> "SCHEDULED", kind |-> "RELATIVE", due |-> 0,
           content_hash |-> <<>>, upload |-> 0]

(* content_hash: collisions of the CRC32 are left out.                      *)
ContentHash(c) == <<c.kind, c.when, c.line>>

live(s) == s.used /\ s.status \in {"SCHEDULED", "RUNNING"}

(* The sweep has chosen the slot and release() has not marked it RUNNING    *)
(* yet; or it found the slot zeroed, and will still report into it.         *)
HandedOver(i) ==
  /\ candidate = i
  /\ pc = "release" \/ (pc \in {"invoke", "report"} /\ entry = 0)

----------------------------------------------------------------------------
(* kfsw_fbo_schedule_add *)

(* The absolute gate, read before queue_lock is taken.                      *)
Gate(c) ==
  IF c.kind = "RELATIVE" THEN "OK"
  ELSE IF offset = NotSet THEN "ENODATA"
  ELSE IF uptime + offset - c.when > Latency THEN "ETIME" ELSE "OK"

LiveSame_OnlyRunning(c) ==
  {i \in Slots : slots[i].used /\ slots[i].status = "RUNNING" /\ slots[i].content_hash = ContentHash(c)}

LiveSame(c) == {i \in Slots : live(slots[i]) /\ slots[i].content_hash = ContentHash(c)}

Free == {i \in Slots : ~slots[i].used}

AddAnswer(c) ==
  IF Gate(c) # "OK" THEN Gate(c)
  ELSE IF LiveSame(c) # {} THEN "EEXIST"
  ELSE IF Free = {} THEN "ENOSPC" ELSE "OK"

DueAt(c) == IF c.kind = "RELATIVE" THEN uptime + c.when ELSE c.when

Place(c, i) ==
  /\ slots' = [slots EXCEPT ![i] =
       [used |-> TRUE, status |-> "SCHEDULED", kind |-> c.kind, due |-> DueAt(c),
        content_hash |-> ContentHash(c), upload |-> Len(uploads) + 1]]
  /\ uploads' = Append(uploads,
       [kind |-> c.kind, due |-> DueAt(c), runs |-> 0, early |-> FALSE, late |-> FALSE,
        cancelled |-> FALSE, overdue |-> FALSE, disturbed |-> HandedOver(i)])

Add(c, r) ==
  /\ r = AddAnswer(c)
  /\ IF r = "OK"
     THEN /\ Len(uploads) < MaxUploads
          /\ c.kind = "RELATIVE" => uptime + c.when <= MaxUptime
          /\ \E i \in Free : (\A j \in Free : i <= j) /\ Place(c, i)
     ELSE UNCHANGED <<slots, uploads>>
  /\ UNCHANGED <<clocks, sweeper>>

----------------------------------------------------------------------------
(* kfsw_fbo_schedule_cancel, kfsw_fbo_schedule_clear *)

CancelAnswer_EvenRunning(i) ==
  IF ~slots[i].used THEN "ENOENT"
  ELSE IF slots[i].status \notin {"SCHEDULED", "RUNNING"} THEN "EALREADY" ELSE "OK"

CancelAnswer(i) ==
  IF ~slots[i].used THEN "ENOENT"
  ELSE IF slots[i].status # "SCHEDULED" THEN "EALREADY" ELSE "OK"

Cancel(i, r) ==
  /\ r = CancelAnswer(i)
  /\ IF r = "OK"
     THEN /\ slots' = [slots EXCEPT ![i].status = "CANCELLED"]
          /\ uploads' = [uploads EXCEPT ![slots[i].upload].cancelled = TRUE,
                                        ![slots[i].upload].disturbed = @ \/ HandedOver(i)]
     ELSE UNCHANGED <<slots, uploads>>
  /\ UNCHANGED <<clocks, sweeper>>

(* A release in flight keeps its slot until it reports.                     *)
Dropped == {i \in Slots : slots[i].used /\ slots[i].status # "RUNNING"}

Clear ==
  /\ slots' = [i \in Slots |-> IF i \in Dropped THEN Zeroed ELSE slots[i]]
  /\ uploads' = [u \in DOMAIN uploads |->
       [uploads[u] EXCEPT !.disturbed =
          @ \/ \E i \in Dropped : slots[i].upload = u /\ HandedOver(i)]]
  /\ UNCHANGED <<clocks, sweeper>>

----------------------------------------------------------------------------
(* due_now, sweep *)

due_now(s, m, t) ==
  IF s.kind = "RELATIVE" THEN m >= s.due ELSE t # NotSet /\ t >= s.due

Lateness(s, m, t) == IF s.kind = "RELATIVE" THEN m - s.due ELSE t - s.due

Waiting_EvenFailed(s) == s.used /\ s.status \in {"SCHEDULED", "FAILED"}

Waiting(s) == s.used /\ s.status = "SCHEDULED"

Late(m, t) ==
  {i \in Slots : Waiting(slots[i]) /\ due_now(slots[i], m, t) /\ Lateness(slots[i], m, t) > Latency}

Due(m, t) ==
  {i \in Slots : Waiting(slots[i]) /\ due_now(slots[i], m, t) /\ Lateness(slots[i], m, t) <= Latency}

(* Earliest due first; the first slot among equals.                         *)
Candidate(m, t) ==
  CHOOSE i \in Due(m, t) : \A j \in Due(m, t) \ {i} :
    LET li == Lateness(slots[i], m, t)
        lj == Lateness(slots[j], m, t)
    IN li > lj \/ (li = lj /\ i < j)

(* Lateness by the clock as it is, not as the sweep read it.                *)
ReallyLate(i) ==
  /\ slots[i].kind = "ABSOLUTE" => offset # NotSet
  /\ Lateness(slots[i], uptime, IF offset = NotSet THEN 0 ELSE uptime + offset) > Latency

(* One turn of the loop of sweep(), up to its k_mutex_unlock.               *)
Pick(m, t) ==
  /\ slots' = [i \in Slots |-> IF i \in Late(m, t) THEN [slots[i] EXCEPT !.status = "OVERDUE"]
                                                   ELSE slots[i]]
  /\ IF Due(m, t) # {}
     THEN pc' = "release" /\ candidate' = Candidate(m, t)
     ELSE pc' = "wait" /\ UNCHANGED candidate
  /\ uploads' = [u \in DOMAIN uploads |->
       [uploads[u] EXCEPT
          !.overdue = @ \/ \E i \in Late(m, t) : slots[i].upload = u,
          !.late = @ \/ (Due(m, t) # {} /\ slots[Candidate(m, t)].upload = u
                         /\ ReallyLate(Candidate(m, t)))]]

(* schedule_thread wakes up, reads both clocks and starts a sweep.          *)
Wake ==
  /\ pc = "wait"
  /\ mono' = uptime
  /\ utc' = IF offset = NotSet THEN NotSet ELSE uptime + offset
  /\ released' = 0
  /\ Pick(mono', utc')
  /\ UNCHANGED <<clocks, entry>>

BurstLeft == released < Burst

(* The loop goes round after a release, with the clocks it read at first.   *)
SweepOn ==
  /\ pc = "sweep"
  /\ IF BurstLeft
     THEN Pick(mono, utc)
     ELSE pc' = "wait" /\ UNCHANGED <<slots, uploads, candidate>>
  /\ UNCHANGED <<clocks, mono, utc, released, entry>>

----------------------------------------------------------------------------
(* release *)

Release ==
  /\ pc = "release"
  /\ slots' = [slots EXCEPT ![candidate].status = "RUNNING"]
  /\ entry' = slots[candidate].upload
  /\ pc' = "invoke"
  /\ UNCHANGED <<clocks, mono, utc, released, candidate, uploads>>

(* The command's outcome; a zeroed slot has an empty line, which build()    *)
(* refuses.                                                                 *)
Invoke ==
  /\ pc = "invoke"
  /\ uploads' = IF entry = 0 THEN uploads
                ELSE [uploads EXCEPT ![entry].runs = @ + 1,
                        ![entry].early = uploads[entry].kind = "RELATIVE"
                                         /\ uptime < uploads[entry].due]
  /\ pc' = "report"
  /\ UNCHANGED <<slots, clocks, mono, utc, released, candidate, entry>>

Reported_OnlySuccess == IF entry = 0 THEN {"RUNNING"} ELSE {"COMPLETED", "RUNNING"}

Reported == IF entry = 0 THEN {"FAILED"} ELSE {"COMPLETED", "FAILED"}

Report ==
  /\ pc = "report"
  /\ \E s \in Reported : slots' = [slots EXCEPT ![candidate].status = s]
  /\ released' = released + 1
  /\ pc' = "sweep"
  /\ UNCHANGED <<clocks, mono, utc, candidate, entry, uploads>>

----------------------------------------------------------------------------
(* The clocks. *)

Tick ==
  /\ uptime < MaxUptime
  /\ uptime' = uptime + 1
  /\ UNCHANGED <<slots, offset, sweeper, uploads>>

SetClock(o) ==
  /\ offset' = o
  /\ UNCHANGED <<slots, uptime, sweeper, uploads>>

----------------------------------------------------------------------------
Init ==
  /\ slots = [i \in Slots |-> Zeroed]
  /\ uptime = 0
  /\ offset = NotSet
  /\ pc = "wait"
  /\ mono = 0 /\ utc = NotSet /\ released = 0 /\ candidate = 0 /\ entry = 0
  /\ uploads = <<>>

Thread == Wake \/ SweepOn \/ Release \/ Invoke \/ Report

Next ==
  \/ \E c \in Contents, r \in {"OK", "ENODATA", "ETIME", "EEXIST", "ENOSPC"} : Add(c, r)
  \/ \E i \in Slots, r \in {"OK", "ENOENT", "EALREADY"} : Cancel(i, r)
  \/ Clear
  \/ Thread
  \/ Tick
  \/ \E o \in Offsets : SetClock(o)

Spec == Init /\ [][Next]_vars

(* The release thread is scheduled, commands return, and time passes.       *)
FairSpec == Spec /\ WF_vars(Thread) /\ WF_vars(Tick)

----------------------------------------------------------------------------
TypeOK ==
  /\ slots \in [Slots -> [used : BOOLEAN, status : Statuses, kind : {"RELATIVE", "ABSOLUTE"},
                          due : Nat, content_hash : {<<>>} \cup {ContentHash(c) : c \in Contents},
                          upload : 0..MaxUploads]]
  /\ uptime \in 0..MaxUptime
  /\ offset \in Offsets \cup {NotSet}
  /\ pc \in {"wait", "sweep", "release", "invoke", "report"}
  /\ released \in 0..Burst
  /\ candidate \in Slots
  /\ entry \in 0..Len(uploads)

(* An accepted upload is run at most once, whatever is cancelled, cleared   *)
(* or added while the sweep hands it over (sweep, release).                 *)
RunsAtMostOnce == \A u \in DOMAIN uploads : uploads[u].runs <= 1

(* An entry that was given up does not run later: not one marked OVERDUE    *)
(* ("Its time passed by more than the latency buffer; never released"), and *)
(* not one whose cancel was answered 0, except in the hand-over from sweep  *)
(* to release, where alone the answer is too late.                          *)
StoppedNeverRuns ==
  \A u \in DOMAIN uploads :
    uploads[u].overdue \/ (uploads[u].cancelled /\ ~uploads[u].disturbed) => uploads[u].runs = 0

(* A relative entry runs no earlier than asked, whatever the wall clock     *)
(* does, unless it took over the slot of an entry in the hand-over.         *)
NeverEarly ==
  \A u \in DOMAIN uploads : uploads[u].early => uploads[u].disturbed

(* "Two adds of the same content give the same hash, which is what makes an *)
(* upload idempotent": a repeated upload never leaves two live entries of   *)
(* the same content, so it does not run twice, hand-over excepted.          *)
IdempotentUpload ==
  \A i, j \in Slots :
    i # j /\ live(slots[i]) /\ live(slots[j]) /\ slots[i].content_hash = slots[j].content_hash =>
      uploads[slots[i].upload].disturbed \/ uploads[slots[j].upload].disturbed

(* A relative entry in the queue is settled in the end: it runs and         *)
(* reports, is found overdue, or is cancelled or cleared.                   *)
EntrySettles ==
  \A i \in Slots : live(slots[i]) /\ slots[i].kind = "RELATIVE" ~> ~live(slots[i])

(* fbo.h, of kfsw_fbo_schedule_cancel: "Cancelled; it will not run."        *)
CancelledNeverRuns ==
  \A u \in DOMAIN uploads : uploads[u].cancelled => uploads[u].runs = 0

(* fbo.h, of KFSW_FBO_ENTRY_FAILED: "Released and the command reported a    *)
(* failure."                                                                *)
FailedWasReleased ==
  \A i \in Slots : slots[i].used /\ slots[i].status = "FAILED" => uploads[slots[i].upload].runs = 1

(* fbo.h, of the latency buffer: "anything later reports overdue instead of *)
(* firing at the wrong time."                                               *)
LateNeverFires == \A u \in DOMAIN uploads : uploads[u].late => uploads[u].runs = 0
=============================================================================
