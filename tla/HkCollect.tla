------------------------------ MODULE HkCollect ------------------------------
(***************************************************************************)
(* Collecting housekeeping samples: the collector thread with its schedule  *)
(* and beacons (hk_thread.c, hk_beacon.c), kfsw_hk_collect, which other     *)
(* threads call too, the sample rings, and the server that sends samples    *)
(* by age while the rings move (hk.c, hk_csp.c, hk_selection.c).            *)
(*                                                                          *)
(* A collection reads its definition, lets go of the state lock while it    *)
(* reads the values, and takes it again to put the sample in the ring; a    *)
(* definition, period or enable change may come in between.  A sample is    *)
(* represented by the generation of the definition it was read with, its    *)
(* place in the order of collections and whether every entry could be read. *)
(***************************************************************************)
EXTENDS Integers, Sequences, FiniteSets, FiniteSetsExt, SequencesExt

CONSTANTS
  NReports,     \* CONFIG_KFSW_HK_REPORTS
  History,      \* CONFIG_KFSW_HK_HISTORY, the slots of a ring
  Classes,      \* retrieval classes
  Entries,      \* sets of entries a report may be given
  Remote,       \* entries of other nodes
  Periods,      \* periods, zero (none) included
  Intervals,    \* beacon intervals, zero (none) included
  Callers,      \* threads besides the collector that call kfsw_hk_collect
  MaxTime, MaxChanges, MaxCollected, MaxRequests

VARIABLES
  now,          \* k_uptime_get()
  report,       \* reports[], with generations[] and schedule_revisions[]
  beacon,       \* per report: its interval and when it is next due
  enabled, clock,
  collector,    \* where the collector thread is
  job,          \* the collection that holds collection_lock
  collected,    \* collected_order
  finished,     \* history: when the schedule was last moved on, per report
  server,       \* the request being served
  asked, sent,  \* history: the samples it asked for as the rings then were, and
                \* those sent for it, by their collected_order
  changes, requests

vars == <<now, report, beacon, enabled, clock, collector, job, collected, finished, server, asked,
          sent, changes, requests>>

Reports == 0..(NReports - 1)
NoSample == [generation |-> 0, sequence |-> 0, order |-> 0, incomplete |-> FALSE]
Undefined ==
  [defined |-> FALSE, entries |-> {}, class |-> 0, period |-> 0, next |-> 0, held |-> 0,
   sequence |-> 0, slot |-> 0, ring |-> [s \in 0..(History - 1) |-> NoSample], generation |-> 0, revision |-> 0]
NoDue == [revision |-> 0, uptime |-> 0, period |-> 1]
NoJob == [by |-> "none", report |-> 0, generation |-> 0, entries |-> {}, sequence |-> 0]
All == NReports   \* KFSW_HK_REPORT_ALL
NoRequest == [report |-> 0, mask |-> {}, age |-> 0, left |-> 0, depth |-> 0]

Init ==
  /\ now = 0
  /\ report = [r \in Reports |-> Undefined] /\ beacon = [r \in Reports |-> [interval |-> 0, next |-> 0]]
  /\ enabled = TRUE /\ clock \in BOOLEAN
  /\ collector = [at |-> NReports, step |-> "check", due |-> NoDue]
  /\ job = NoJob /\ collected = 0 /\ finished = [r \in Reports |-> -1]
  /\ server = NoRequest /\ asked = {} /\ sent = {} /\ changes = 0 /\ requests = 0

----------------------------------------------------------------------------
(* Settings, each under the state lock (their saving is HkSettings).        *)

(* Samples that go move the indexes of a request over all reports, which    *)
(* is then owed nothing.                                                    *)
Discarding == asked' = IF server.report = All THEN {} ELSE asked

Change ==
  /\ changes < MaxChanges /\ changes' = changes + 1
  /\ UNCHANGED <<now, clock, collector, job, collected, server, sent, requests>>

(* define_impl: a new definition discards the old samples.                  *)
Define(r, entries, class) ==
  /\ Change /\ Discarding
  /\ report' = [report EXCEPT ![r] =
                  [@ EXCEPT !.defined = TRUE, !.entries = entries, !.class = class,
                            !.next = now + report[r].period, !.held = 0, !.slot = 0,
                            !.generation = @ + 1, !.revision = @ + 1]]
  /\ finished' = [finished EXCEPT ![r] = -1]
  /\ UNCHANGED <<beacon, enabled>>

(* clear_impl: memset, but the generations are kept apart.                  *)
Clear(r) ==
  /\ Change /\ Discarding
  /\ report' = [report EXCEPT ![r] = [Undefined EXCEPT !.generation = report[r].generation + 1,
                                                       !.revision = report[r].revision + 1]]
  /\ finished' = [finished EXCEPT ![r] = -1]
  /\ UNCHANGED <<beacon, enabled>>

SetPeriod(r, period) ==
  /\ Change /\ UNCHANGED asked /\ report[r].defined
  /\ report' = [report EXCEPT ![r] =
                  [@ EXCEPT !.revision = @ + 1, !.period = period,
                            !.next = IF period = 0 THEN 0 ELSE now + period]]
  /\ finished' = [finished EXCEPT ![r] = -1]
  /\ UNCHANGED <<beacon, enabled>>

(* set_beacon_impl: the first beacon is due at once.                        *)
SetBeacon(r, interval) ==
  /\ Change
  /\ beacon' = [beacon EXCEPT ![r] = [interval |-> interval, next |-> 0]]
  /\ UNCHANGED <<report, enabled, finished, asked>>

SetEnabled ==
  /\ Change /\ UNCHANGED asked
  /\ enabled' = ~enabled
  /\ report' = [r \in Reports |-> [report[r] EXCEPT !.revision = @ + 1]]
  /\ UNCHANGED <<beacon, finished>>

(* Time passes; the wall clock is set by the ground.                        *)
Tick ==
  /\ now < MaxTime /\ now' = now + 1 /\ clock' \in {clock, TRUE}
  /\ UNCHANGED <<report, beacon, enabled, collector, job, collected, finished, server, asked,
                 sent, changes, requests>>

----------------------------------------------------------------------------
(* kfsw_hk_collect *)

CollectBegin(by, r) ==
  /\ job = NoJob /\ report[r].defined
  /\ job' = [by |-> by, report |-> r, generation |-> report[r].generation,
             entries |-> report[r].entries, sequence |-> report[r].sequence]

(* kfsw_hk_collect_remote: the entries of another node are read in windows; *)
(* a node that does not answer, or lacks one, leaves some at zero.          *)
ReadRemote(entries) == SUBSET (entries \cap Remote)

(* kfsw_hk_collect_report: a sample that lacks a value is flagged.          *)
Samples(entries, generation, sequence) ==
  {[generation |-> generation, sequence |-> sequence, order |-> collected + 1,
    incomplete |-> read # entries \cap Remote] : read \in ReadRemote(entries)}

StillDefined_AnyGeneration(r, generation) == report[r].defined

StillDefined(r, generation) == report[r].defined /\ report[r].generation = generation

Pushed(r, sample) ==
  [r EXCEPT !.ring[r.slot] = sample,
            !.slot = (@ + 1) % History,
            !.sequence = @ + 1,
            !.held = IF @ = History THEN @ ELSE @ + 1]

CollectEnd ==
  /\ IF StillDefined(job.report, job.generation)
     THEN \E sample \in Samples(job.entries, job.generation, job.sequence) :
            /\ report' = [report EXCEPT ![job.report] = Pushed(@, sample)]
            /\ collected' = collected + 1
     ELSE UNCHANGED <<report, collected>>
  /\ job' = NoJob

(* Another thread: a ground command, the file-based operations.             *)
CallBegin(c, r) ==
  /\ collected < MaxCollected /\ CollectBegin(c, r)
  /\ UNCHANGED <<now, report, beacon, enabled, clock, collector, collected, finished, server, asked,
                 sent, changes, requests>>

CallEnd ==
  /\ job.by \in Callers /\ CollectEnd
  /\ UNCHANGED <<now, beacon, enabled, clock, collector, finished, server, asked, sent, changes,
                 requests>>

----------------------------------------------------------------------------
(* hk_collector *)

NextDue(due, period, t) == due + ((t - due) \div period + 1) * period

(* The top of the loop body: a disabled collector or an unset clock ends    *)
(* the round; kfsw_hk_schedule_take.                                        *)
CollectorCheck ==
  LET r == collector.at IN
  /\ r \in Reports /\ collector.step = "check"
  /\ collector' =
       IF ~enabled \/ ~clock THEN [collector EXCEPT !.at = NReports]
       ELSE IF report[r].defined /\ report[r].period # 0 /\ now >= report[r].next
       THEN [at |-> r, step |-> "collect",
             due |-> [revision |-> report[r].revision, uptime |-> report[r].next,
                      period |-> report[r].period]]
       ELSE [collector EXCEPT !.step = "beacon"]
  /\ UNCHANGED <<now, report, beacon, enabled, clock, job, collected, finished, server, asked,
                 sent, changes, requests>>

(* kfsw_hk_collect may find that the report has gone.                       *)
CollectorBegin ==
  LET r == collector.at IN
  /\ collector.step = "collect" /\ collected < MaxCollected /\ job = NoJob
  /\ \/ CollectBegin("collector", r) /\ collector' = [collector EXCEPT !.step = "commit"]
     \/ ~report[r].defined /\ collector' = [collector EXCEPT !.step = "finish"] /\ UNCHANGED job
  /\ UNCHANGED <<now, report, beacon, enabled, clock, collected, finished, server, asked, sent,
                 changes, requests>>

CollectorEnd ==
  /\ collector.step = "commit" /\ CollectEnd
  /\ collector' = [collector EXCEPT !.step = "finish"]
  /\ UNCHANGED <<now, beacon, enabled, clock, finished, server, asked, sent, changes, requests>>

StillScheduled_AnyRevision(r, due) == enabled /\ report[r].defined /\ report[r].period # 0

StillScheduled(r, due) ==
  enabled /\ report[r].defined /\ report[r].period # 0 /\ report[r].revision = due.revision

(* kfsw_hk_schedule_finish *)
CollectorFinish ==
  LET r == collector.at
      due == collector.due IN
  /\ collector.step = "finish"
  /\ IF StillScheduled(r, due)
     THEN /\ report' = [report EXCEPT ![r].next =
                          NextDue(due.uptime, due.period, Max({now, due.uptime}))]
          /\ finished' = [finished EXCEPT ![r] = now]
     ELSE UNCHANGED <<report, finished>>
  /\ collector' = [collector EXCEPT !.step = "beacon"]
  /\ UNCHANGED <<now, beacon, enabled, clock, job, collected, server, asked, sent, changes,
                 requests>>

(* kfsw_hk_beacon_tick: the beacon is moved on, whether or not there is a   *)
(* sample and a buffer to send.                                             *)
CollectorBeacon ==
  LET r == collector.at
      due == enabled /\ clock /\ beacon[r].interval # 0 /\ now >= beacon[r].next IN
  /\ collector.step = "beacon"
  /\ beacon' = IF due THEN [beacon EXCEPT ![r].next = NextDue(@, beacon[r].interval, now)]
               ELSE beacon
  /\ collector' = [at |-> r + 1, step |-> "check", due |-> NoDue]
  /\ UNCHANGED <<now, report, enabled, clock, job, collected, finished, server, asked, sent,
                 changes, requests>>

(* The wait ends at the latest after 200 ms, earlier when it is woken or    *)
(* something is due (kfsw_hk_schedule_wait).                                *)
CollectorWake ==
  /\ collector.at = NReports
  /\ collector' = [collector EXCEPT !.at = 0]
  /\ UNCHANGED <<now, report, beacon, enabled, clock, job, collected, finished, server, asked,
                 sent, changes, requests>>

----------------------------------------------------------------------------
(* kfsw_hk_get, kfsw_hk_get_selected and the server *)

Get(r, age) == report[r].ring[(report[r].slot + History - 1 - age) % History]

InClass(class) == {r \in Reports : report[r].defined /\ report[r].class = class}

(* The merge of kfsw_hk_get_selected: age[r] samples of r were passed; of   *)
(* those next in their rings the latest collected is taken.                 *)
Latest(age, rs) ==
  CHOOSE r \in rs : /\ age[r] < report[r].held
                    /\ \A q \in rs : age[q] < report[q].held => Get(q, age[q]).order <= Get(r, age[r]).order

Merged(rs) ==
  LET available == MapThenSumSet(LAMBDA r : report[r].held, rs)
      step(acc, i) == LET r == Latest(acc.age, rs)
                      IN [age |-> [acc.age EXCEPT ![r] = @ + 1],
                          out |-> Append(acc.out, Get(r, acc.age[r]))]
  IN FoldLeft(step, [age |-> [r \in Reports |-> 0], out |-> <<>>], [i \in 1..available |-> i]).out

(* kfsw_hk_get_selected for index 0, 1, ...: class after class.             *)
Selected(mask) ==
  FlattenSeq([c \in 1..Cardinality(Classes) |-> IF c - 1 \in mask THEN Merged(InClass(c - 1)) ELSE <<>>])

(* What a request finds at its indexes, as the rings are now.               *)
Found(q) ==
  IF q.report = All THEN Selected(q.mask)
  ELSE [i \in 1..report[q.report].held |-> Get(q.report, i - 1)]

Orders(samples, from, to) == {samples[i].order : i \in from..Min({to, Len(samples)})}

(* kfsw_hk_serve_request: for one report the depth is read once, for all of *)
(* them it is the room in the rings.                                        *)
Request(r, mask, age, wanted) ==
  /\ server = NoRequest /\ requests < MaxRequests /\ requests' = requests + 1
  /\ server' = [report |-> r, mask |-> mask, age |-> age, left |-> wanted,
                depth |-> IF r = All THEN NReports * History ELSE report[r].held]
  /\ asked' = Orders(Found(server'), age + 1, age + wanted) /\ sent' = {}
  /\ UNCHANGED <<now, report, beacon, enabled, clock, collector, job, collected, finished, changes>>

Serving(found) == server.left > 0 /\ server.age < server.depth /\ server.age < Len(found)

Served == server' = NoRequest /\ asked' = {} /\ sent' = {}

ServeOne_SkipsWithoutBuffer ==
  LET found == Found(server) IN
  /\ server # NoRequest
  /\ \/ /\ Serving(found)
        /\ sent' \in {sent, sent \cup {found[server.age + 1].order}}
        /\ server' = [server EXCEPT !.age = @ + 1, !.left = @ - 1] /\ UNCHANGED asked
     \/ Served
  /\ UNCHANGED <<now, report, beacon, enabled, clock, collector, job, collected, finished, changes,
                 requests>>

(* Each sample is found under the lock on its own, where the rings are by   *)
(* then.  The answer ends there without a buffer.                           *)
ServeOne ==
  LET found == Found(server) IN
  /\ server # NoRequest
  /\ \/ /\ Serving(found)
        /\ sent' = sent \cup {found[server.age + 1].order}
        /\ server' = [server EXCEPT !.age = @ + 1, !.left = @ - 1] /\ UNCHANGED asked
     \/ Served
  /\ UNCHANGED <<now, report, beacon, enabled, clock, collector, job, collected, finished, changes,
                 requests>>

CollectorNext ==
  \/ CollectorCheck \/ CollectorBegin \/ CollectorEnd \/ CollectorFinish \/ CollectorBeacon
  \/ CollectorWake

(* The schedule under its settings, with reports that have entries of other *)
(* nodes, and the rings under several callers and a request, with reports   *)
(* that have none, can be studied apart.                                    *)
Local(entries) == entries \cap Remote = {}

ScheduleNext ==
  \/ \E r \in Reports :
       \/ \E entries \in Entries : ~Local(entries) /\ Define(r, entries, 0)
       \/ \E period \in Periods : SetPeriod(r, period)
       \/ \E interval \in Intervals : SetBeacon(r, interval)
       \/ Clear(r)
  \/ SetEnabled \/ Tick \/ CollectorNext

RingNext ==
  \/ \E r \in Reports :
       \/ \E entries \in Entries, class \in Classes : Local(entries) /\ Define(r, entries, class)
       \/ Clear(r)
       \/ \E c \in Callers : CallBegin(c, r)
       \/ \E age \in 0..1 : Request(r, {}, age, History)
  \/ \E mask \in SUBSET Classes, age \in 0..1 : Request(All, mask, age, NReports * History)
  \/ CallEnd \/ ServeOne

Next == ScheduleNext \/ RingNext

Spec == Init /\ [][Next]_vars

----------------------------------------------------------------------------
(* What a ring gives was collected with the report's present definition,    *)
(* newest first, whatever was redefined while a collection ran (the check   *)
(* of generations[] in kfsw_hk_collect): the reader of a sample takes its   *)
(* layout from that definition.                                             *)
RingIsOfOneDefinition ==
  \A r \in Reports : \A age \in 0..(report[r].held - 1) :
    /\ Get(r, age).generation = report[r].generation
    /\ age > 0 => Get(r, age).order < Get(r, age - 1).order

(* While a report is scheduled its next collection is at most a period      *)
(* away, however its period was changed during a collection, and strictly   *)
(* after the end of the last one: "without a catch-up burst".  A beacon is  *)
(* due at most an interval away.                                            *)
DueIsNear ==
  \A r \in Reports :
    /\ report[r].defined /\ report[r].period # 0 =>
         report[r].next <= now + report[r].period /\ report[r].next > finished[r]
    /\ beacon[r].interval # 0 => beacon[r].next <= now + beacon[r].interval

(* kfsw_hk_get_selected, at one instant: its indexes give every held sample *)
(* of the selected classes exactly once, classes in ascending order and     *)
(* newest first within a class.                                             *)
SelectedIsAll ==
  LET all == {<<r, age>> \in Reports \X (0..(History - 1)) : report[r].defined /\ age < report[r].held}
      classed == {<<Get(p[1], p[2]), report[p[1]].class>> : p \in all}
      selected == Selected(Classes)
  IN /\ {c[1] : c \in classed} = ToSet(selected) /\ Len(selected) = Cardinality(all)
     /\ \A a, b \in classed :
          (a[2] < b[2] \/ (a[2] = b[2] /\ a[1].order > b[1].order)) =>
            \E i, j \in DOMAIN selected : i < j /\ selected[i] = a[1] /\ selected[j] = b[1]

(* While collections move the rings under a request a sample may be sent    *)
(* twice, but none it asked for is passed over: what lies before its index  *)
(* now was sent (kfsw_hk_serve_request takes the lock once for each sample  *)
(* and stops without a buffer).  A request over all reports may pass over   *)
(* samples when a report is defined anew or cleared meanwhile.              *)
ServedWithoutGap ==
  server # NoRequest => Orders(Found(server), 1, server.age) \cap asked \subseteq sent
=============================================================================
