# A TLA+ development of kfsw-services

kfsw-services is a set of flight-software services in C on Zephyr: commands,
procedures and a time-tagged queue, file transfer, firmware update and recovery,
supervision, events, parameters and housekeeping, reached over CSP. This
directory models the services whose correctness depends on interleavings,
crashes, lossy links and timeouts, checks them with TLC on small instances and
proves the safety of seven of them with TLAPS for instances of every size:
firmware update, recovery, the time-tagged queue, the FTP server's threads, the
limits, the event ring and the housekeeping settings.

`PROJECT.json` maps every definition to the lines it models, and lists the runs,
the mutants, the findings, the hazards and the theorems.

## 1. Inventory

| Part | Source (`src/src/`) | State that matters | Concurrency and failures | Module |
|---|---|---|---|---|
| Firmware update | `fwu/fwu.c` | transfer state, stream buffer, slot, swap request | callers under one lock, flash errors, restarts | `Fwu`, `FwuProofs` |
| Firmware upload | `fwu/fwu_lite_*.c` | block index, attempts | lost and late packets | `FwuLite` |
| Boot diagnostics, golden image | `boot_diagnostics.c`, `golden/` | attempt record, swap | restarts, failing saves | `Recovery`, `RecoveryProofs` |
| Time-tagged queue | `fbo/fbo_schedule.c` | slots, two clocks | callers against the sweep | `FboSchedule`, `FboScheduleProofs` |
| Procedures | `fbo/fbo.c` | run, stop, semaphores | callers against the thread | `FboProcedure` |
| Command path | `command/command.c` | claim, command lock | threads dispatching | `CommandPath` |
| Remote commands | `command/command_csp.c`, `command_retry.c` | tickets | unreliable link, expiry, resets | `CommandRetry`, `AtMostOnceCall` |
| FTP server threads | `ftp/ftp_server.c` | busy flag, queue of one | acceptor against worker | `FtpServer`, `FtpServerProofs` |
| FTP reception | `ftp/ftp_store.c`, `ftp_transfer.c`, `ftp_client.c` | target, partial, note | resets, cut transfers, two receivers | `FtpStore` |
| Ground watchdog | `gndwdt/gndwdt.c` | two delayed works, `resetting` | callers against works | `GroundWatchdog` |
| Health supervision | `health/health.c` | deadlines, feed, note | callers against the work | `Health` |
| Event ring | `event/event.c` | ring indexes | emitters, clears, readers | `EventRing`, `EventRingProofs` |
| Journal | `journal/` | queue, file, store | resets, torn and failed writes | `Journal` |
| Log history, remote reading | `log_history.c`, `log_remote.c` | retained ring, window, nonce | writers against the server, lost packets, resets | `LogRead` |
| Parameters and their file | `parameter/parameter.c`, `parameter_persistence.c`, `snapshot_file.c` | values, snapshot, temporary | threads, failing storage, reset at every file operation | `ParamTable` |
| Table files | `table/table.c` | undo values | other writers, failing apply functions | `ParamTable` |
| Parameters of other nodes | `parameter/parameter_csp.c` | descriptor pool and cache | lost answers, nodes that restart with other firmware | `ParamRemote` |
| Housekeeping settings | `hk/hk.c`, `hk_persist.c`, `hk_beacon.c` | revision, dirty and blocked marks, file | two locks, failing writes, other firmware after a reset | `HkSettings`, `HkSettingsProofs` |
| Housekeeping collection | `hk/hk.c`, `hk_thread.c`, `hk_selection.c`, `hk_csp.c` | schedule, rings, generations | collector, callers and server | `HkCollect` |
| Housekeeping store | `hk/hk_store.c`, `hk_reader.c` | slots, 16-bit sequence | reader without a lock, failed writes, resets | `HkStore` |
| Limits | `limits/limits.c` | latch, dwell, interval | two sweepers, setters under three locks | `Limits`, `LimitsProofs` |
| Image scrub | `scrub/scrub.c` | reference, verdict | work against commands, decay, resets | `Scrub` |
| Remote execution | `remexec/remexec.c`, `remexec_csp.c` | capture buffer, executor | local caller, requesters that give up | `Remexec` |
| Slot file system, boot sequence, resource monitor, log front end, wire formats, command handlers, parameter tables of the services | `fwu/fwu_fs.c`, `boot.c`, `resmon/`, `log.c`, `*_protocol.c`, `fbo/fbo_commands.c`, `*-parameters/` | | | not modelled (section 8) |

The modelled parts interact through few calls. The recovery installer, the FTP
server and the upload server all call the update service, so `Fwu` lets anyone
call anything. Procedures and the queue run commands through the command path.
A limit rule releases its action into the time-tagged queue, whose answers
`Limits` takes as choices. Every service emits into the event ring, which feeds
the journal. Parameters are changed by table files, remote writes and local
threads, and saved through the snapshot file: these are one module, `ParamTable`.

## 2. How the models correspond to the code

A function that holds its lock from its first look at the state to its last
assignment is one action. A function that gives its lock up in between is split
exactly there: `Stop`, `StopCancelsReset` and `StopCancelsCheck` in
`GroundWatchdog`, `Pick` and `Release` in `FboSchedule`, `CheckClaim` and
`StartHandler` in `CommandPath`, the steps of one evaluation in `Health`.
Definitions keep the names of the C functions and variables where they have one.
Failures of flash, file system, link and platform are nondeterministic choices
at the call that can fail. History variables are marked as such.

Data are reduced to what the properties tell apart: images, files and blocks are
short sequences, a CRC in `FwuLite` and `FtpStore` is taken to identify its
content, and in `Fwu` it is any incremental function (assumption
`CrcAssumption`). Log output, texts, and counters that only report are left out.

`Definition_WhatIsWrong`, directly before `Definition`, is a plausible mistake in
that definition; replacing the one by the other violates a property, which shows
that the property depends on that code.

Composite modules (`MCUploads`, `MCCommands`, `MCSupervision`, `MCEvents`,
`MCParameters`, `MCHousekeeping`) check several parts in one run. A variable
`service`, chosen initially, says which part a behaviour exercises; the others
stay where they start. The parts of a composite share no state in these models,
so this loses no behaviour of either; it is not a model of their interaction.
Two modules are exercised in two halves, each with the calls it needs:
`ParamTable` as `table` (batches, table files) and `save` (persistence), and
`HkCollect` as `schedule` and `ring`.

The state machines of the parts, and where the code splits an operation:

- `ParamTable`: `kfsw_param_table_lock` makes each change and each reading of a
  snapshot one step. A save is a sequence of file operations under
  `kfsw_param_persist_lock`; any of them may fail and a reset may fall between any
  two, while other threads change values. A boot loads the snapshot, or fails to
  (storage not ready, a failing stat, open or read) and goes on with the defaults;
  nothing then holds the next save back from replacing what was not read.
- `ParamRemote`: one call at a time, a sequence of exchanges that are answered or
  lost. A descriptor pointer is a slot number of the pool, since `param_list_destroy`
  resets the whole pool.
- `HkSettings`: `config_lock` is released before `file_lock` is taken, so changes
  come between a change and its save, and between reading and writing.
- `HkCollect`: a collection copies the definition, reads values without the lock
  and commits; generations and revisions decide what still counts. The server
  reads by age in one report, or by index in the samples of some classes over all
  reports, one lock per sample.
- `HkStore`: batches are written under the storage lock; reader and extract take
  none. Sequence numbers wrap at `Width`. Configuring may fail after the old file
  was truncated, with or without a header in it, while the old store goes on. The
  settings are saved in a step of their own, so a reset may go back to older ones.
- `Health`: each step of an evaluation is an action. An accepted change of the
  interval puts the next evaluation off by a whole interval; `postponed` counts the
  changes since the last feed.
- `FwuLite`: the update service as far as its answers go: busy for a transfer, a
  reader or a pending revert, too large, failing erase, write and flush.
- `LogRead`: the ring survives a reset, the header's CRC decides whether it is
  used. The server takes the lock once per record; packets carry a nonce.
- `Limits`, `Scrub`: a periodic work and a command thread sweep; scrub measures and
  compares without its lock, limits holds `rules_lock` over a sweep and the table
  lock over each reading.
- `Remexec`: one executor, one capture buffer; a requester that timed out has left
  its request at the server.

`FboProcedure` is a real composition: procedure thread and other threads on
`CommandPath`.

## 3. Runs

| Run | Module | Distinct states | Shows |
|---|---|---|---|
| `uploads` | `MCUploads` | 129,684 | verified means in flash, fallback and readers are respected; truthful upload result; earned and eventual recovery; one connection in hand, every one closed; only the announced file replaces the target |
| `fbo_schedule` | `MCFboSchedule` | 483,201 | entries run at most once, not early, not after they were given up; uploads are idempotent; relative entries settle |
| `commands` | `MCCommands` | 479,465 | ticketed calls implement `AtMostOnceCall`; claim and stop of a procedure; answers of remote execution are of their own run |
| `supervision` | `MCSupervision` | 133,818 | silence leads to a reset; rules fire once per crossing and sweeps follow their interval; a decayed image is found |
| `events` | `MCEvents` | 100,751 | ring contents and order; journal across resets and failing writes |
| `parameters` | `MCParameters` | 1,684,913 | batches are whole; saves survive failing storage and resets, a snapshot that a boot could not read until the next save; remote lists are of one firmware, values have their names, writes are reported truthfully; remote log reads are true |
| `housekeeping` | `MCHousekeeping` | 1,458,220 | clean settings are saved; rings of one definition; schedule; requests without gaps while definitions stay; stored samples in order; health resets in time, and feeds unless there is a fault, a refusal or an interval changed again and again |

A property of a composite often joins several statements of one part, with that
part's type invariant, when one change of the code would show in any of them; its
comment says which.

`KeepsPromise` in the run `commands` is a refinement: `CommandRetry` implements
`AtMostOnceCall`, which says in a page what a caller may rely on: the handler runs
at most once; OK, which no refusal uses, means that it ran with that result; any
other status is the handler's or that of a refusal, and the two cannot be told apart,
since handlers report BUSY, UNAVAILABLE and INVALID_ARGUMENT as well
(fbo_commands.c:48-78), and UNAVAILABLE also stands for a ticket that is gone; a call
that fails before it has a ticket did not run; and only after a missing reply may
the handler still run later.

Five runs are expected to violate a statement of the repository:

| Run | Statement | What happens |
|---|---|---|
| `ground_silence` | gndwdt.h:20-21, resets the node if no feed arrives | stop clears `resetting`; the handler, already past the expiry, sets it again; stop then cancels the reset. After the next start feeds are refused and nothing resets the node. |
| `upload_repeat` | fwu_lite_csp.c:418-420, a lost reply lets the sender move on | after a short last block the node still expects that index; the repeat is `TOO_LARGE` and the upload fails |
| `golden_swap` | golden.h:17-18, a permanent swap | `kfsw_fwu_finish` asks for a test swap; an unconfirmed recovery image is reverted |
| `ftp_shared_partial` | README.md:186-187, `.part`, check, rename | a put and a get into one path share the `.part`, and the target becomes a mixture |
| `journal_read` | log_remote.h:77, 0 means every record arrived | the journal is read by age; an event appended meanwhile moves every age, a record is passed over, and the end still says COMPLETE |

Further statements that the models contradict are kept as definitions without a
run. To see one, check it with the configuration of its module's run: as an
`INVARIANT`, or as a `PROPERTY` for `InitializationRecovers`, which also needs the
journal's `Fairness`. Where a composite reaches the module through an instance
(all but `Fwu`, `FboSchedule`, `GroundWatchdog` and `EventRing`), define it there
first, for instance `DetailIsSilence == service = "health" => W!DetailIsSilence`. `ContinuesSameContent` is seen with
`MCFtpStore`, the server as the only receiver and `SourceChanges = TRUE`.

| Definition | Statement |
|---|---|
| `Fwu!EveryTransferCounted` | fwu.h:61, `failed` counts aborted transfers (an abort of a verified one is not counted) |
| `FboSchedule!CancelledNeverRuns` | fbo.h:267, a cancelled entry will not run (it may, in the hand-over) |
| `FboSchedule!FailedWasReleased` | fbo.h:170, FAILED means released |
| `FboSchedule!LateNeverFires` | fbo.h:286-287, late entries report overdue (the clock was read before a long release) |
| `GroundWatchdog!StopCallsOffReset` | gndwdt.h:64, stop cancels a queued reset (the handler may queue it afterwards) |
| `FboProcedure!ExclusiveRefuses` | fbo.h:41-43, commands from elsewhere are refused (not the one already past `check_claim`) |
| `FtpStore!ContinuesSameContent` | ftp.h:165-166, a partial is continued only for the same content |
| `Health!DetailIsSilence` | health.c:222, the detail is how long the component was silent |
| `Health!AcceptedIntervalIsSafe` | health.h:176, an interval that passes the check is safe (not when accepted changes follow each other: each puts the feed off by a whole interval, health.c:366-385) |
| `EventRing!GapMeansLost` | event.h:54, a gap means records were lost (or the ring moved under the reader) |
| `EventRing!DeclaredSourceAccepted` | event.h:33-35, declared sources (TABLE, SCRUB and LIMITS are rejected) |
| `Journal!InitializationRecovers` | journal.h:26, failed initialisation is retried (a torn header stays refused) |
| `Recovery!ReasonIsTrue` | boot.h:20, the image was replaced by a revert |
| `ParamTable!AutosaveKeepsUp` | Kconfig:146, README.md:72, each accepted change is saved (changes from another node are not, parameter_csp.c:74 against parameter.c:858) |
| `ParamRemote!ManyIsComplete` | parameter.h:444-445, 0 means every value filled (not after the cache was rebuilt on the way) |
| `HkSettings!RejectedAlwaysKept` | hk.h:65, a rejected snapshot is preserved (not one refused for a missing parameter, hk.c:943) |
| `HkStore!DatasetIsTrue` | hk.h:340-344, first and last sequence of an extract (the ring moved between the two passes with the same count, hk_reader.c:495) |
| `HkStore!WrittenIsReadable` | hk_reader.c:65, the written slots are how far back the ring goes (after a gap left by a failed write the oldest record is out of reach) |
| `Scrub!UnknownIsNeverOk` | scrub.h:26-28, no reference, never OK (learning races a sweep, scrub.c:293) |

Two smaller ones have no definition: the comment at hk_csp.c:90 says a sample
without a buffer is skipped, and the code ends the answer there, which is what
`ServedWithoutGap` relies on; and limits.h:126-128 says `error_line` is 0 when the
last load failed for another reason than a line, while such a load leaves it as it
was (limits.c:502-516).

## 4. Bounds

- `MCUploads`: two block values, images of up to two blocks and a buffer of two, so
  that data wait in the buffer at verification; two transfers and two failures
  between restarts, so that a second transfer meets what the first left behind.
  Uploads in blocks of two units, one image of whole blocks and one with a short
  last block; two retries; two uploads, the second over the remains of the first.
  Budget 2 and 4 attempts, beyond the budget on both sides. Three connections,
  since a third arrives while one is served and one is refused; two versions of a
  file that differ in length and in their first unit.
- `MCFboSchedule`: two slots, two uploads, a latency of one and a wall clock that
  is unset or steps: enough for reuse of a slot in the hand-over. A burst of two,
  so that the second release of a sweep goes by the clocks read before the first;
  with `Burst = 1`, where an entry waits for the next sweep because the burst is
  used up, the run passes as well.
- `MCCommands`: two calls from two nodes compete for one ticket slot, two
  attempts a phase (the code has three), three tickets; handlers end OK, BUSY or
  UNAVAILABLE, the last two being refusals too. One other thread,
  procedures of up to three lines, counters saturating at two. Remote execution:
  commands that print nothing, less and more than a reply holds, that fail or are
  refused; three requests and a backlog of one, so that the request of a requester
  that gave up is served before the next one's.
- `MCSupervision`: one caller, two stops and timeouts 1 and 2. Two rules, the second
  of the longest dwell; a work and a command that sweep. Two images and one change
  of the flash.
- `MCEvents`: a ring of three and six events (two full turns); a journal of two
  slots, a queue of one, three events and two resets, so that slots are reused
  after a torn write.
- `MCParameters`: four parameters in three tables, one read-only, one with an apply
  function that may fail, two persistent; five table files, of which one mixes
  tables, one names the read-only parameter and one names a parameter twice; two
  threads, two changes, one storage fault, in a save or in the load of a boot, and one reset. Two nodes and two builds that differ in
  names and ids, lists of up to three, batches of two, one restart. A log of two
  slots and three messages, so that the ring moves under a read.
- `MCHousekeeping`: two reports, two threads, three builds that change a width or
  lack a parameter, one reset and one failed write; periods 1 and 2 up to time 3;
  rings of two and four collections, so that a ring moves under a request, and one
  request, for one report or over all. The schedule is run with reports that have
  entries of another node, the rings with local ones. Stores of 3 and 4 slots, five
  samples, two configurations, so that one fails while a store is open, sequence
  numbers modulo 16 that start at 0 and shortly before the wrap.
  Health: two components, intervals up to one beyond the allowed, a feed at most
  every 2 ticks and a hardware timeout of 3. This run stops when its bounds are
  spent, so deadlock is not checked in it.

Apart from the store's sequence numbers, counters, tickets and clocks do not wrap: in the code they have 32 or 64
bits and are not exhausted in the time considered. Nor does the 16-bit block index
of an upload (fwu_lite.h:68), since the images are of a few blocks. Boot attempts saturate in the
code and in the model (`Up`).

## 5. Fairness

- Threads and works that are ready run (weak fairness): Zephyr schedules them
  and none of the modelled loops leaves the processor to the others for ever.
- Time passes (`Tick`).
- A repeated attempt that can succeed does succeed at some time (strong
  fairness): saving the boot record and installing the recovery image
  (`RecoveryHappens`), opening, creating and appending in the journal
  (`QueuedIsRecorded`). This is an assumption about the storage; without it
  nothing can be promised of either. The code provides the retry it needs: the
  next boot, and the next turn of the writer.
- `SF_vars(Accept(c))`, `SF_vars(CommandStarts)`: a waiting connection or thread
  is not passed over for ever (listen queue, mutex queue in priority order with
  finitely many commands of others).
- `SF` of the sweeps in `Limits`: a mutex is handed to the thread that waits for it,
  and a thread inside a sweep gets the table lock at some time.
- `SF_vars(Measured(s))` in `Scrub`: a flash that can be read at times is read.
- `SF_vars(Reset)` in `GroundWatchdog`: a reset that is scheduled again and again
  is carried out.

Handlers of commands are assumed to return. No fairness is assumed of callers
except that a call once begun continues.

## 6. Proofs

Each proof module holds the theorems of one component, for every value of its
constants.

| Module | Theorem | States | Assumes |
|---|---|---|---|
| `FwuProofs` | `FwuInvariant`, `TypeCorrect` | `Spec => []FwuInv`, `Spec => []TypeOK` | `SlotAssumption`, `CrcAssumption` |
| | `VerifiedImageInFlashAlways` | `Spec => []VerifiedImageInFlash` | |
| | `TestSwapIsVerifiedAlways` | `Spec => []TestSwapIsVerified` | |
| | `FallbackKeptAlways` | `Spec => []FallbackKept` | |
| | `ReaderSeesStableSlotAlways` | `Spec => ReaderSeesStableSlot` | |
| `FboScheduleProofs` | `RunsAtMostOnceAlways` | `Spec => []RunsAtMostOnce` | `ScheduleAssumption` |
| | `StoppedNeverRunsAlways` | `Spec => []StoppedNeverRuns` | |
| `HkSettingsProofs` | `CleanIsSavedAlways` | `Spec => [](CleanIsSaved /\ RejectedIsKept)` | `ThreadsAssumption` |
| `RecoveryProofs` | `AttemptsAreExactAlways` | `Spec => []AttemptsAreExact` | `BudgetAssumption` |
| | `InstallIsEarnedAlways` | `Spec => []InstallIsEarned` | |
| `LimitsProofs` | `OncePerCrossingAlways` | `Spec => []OncePerCrossing` | `LimitsAssumption` |
| `FtpServerProofs` | `OneInHandAlways` | `Spec => [](TypeOK /\ OneInHand)` | |
| `EventRingProofs` | `RingIsOrderedAlways` | `Spec => [](HoldsTheNewest /\ VisitAscends)` | `DepthAssumption` |

The assumptions bound sizes from below (a ring, a queue or a budget is not
empty, a budget is below the point where the count saturates), say what a CRC is, or keep the value that stands for "no holder" apart
from the threads. TLC evaluates every one of them in the runs. Where a run's
property is a conjunction under the same name as the component's (`InstallIsEarned`
in `MCUploads`, `CleanIsSaved` in `MCHousekeeping`), the theorem is about the
component's definition; the remaining conjuncts are theorems of their own or
type invariants. `RunsWhenAsked` of the queue's run adds `NeverEarly` and the type
invariant to `StoppedNeverRuns`; those two are model-checked only.

None of these properties is inductive alone; each module defines an invariant that
is, and has one lemma per action, or per group of actions that do the same.

- `FwuInv`. That a verified image is in flash needs what holds while it is
  received: the slot followed by the buffer is exactly what was accepted, its
  length is `received` and its CRC is `actual_crc32` (`StreamIsAccepted`); then the
  flush at verification moves the rest into the slot and the two comparisons of
  `fwu_verify_locked` are about the flash. That the fallback and the reader's slot
  are left alone needs that a pending revert and an open slot file exclude a
  transfer, also after a restart.
- `QueueInv`. Operators come between the three times the release thread takes
  `queue_lock`. An upload is in one slot at most (`OneSlotEach`); a slot not yet
  marked RUNNING holds an upload that has not run, and one that was given up is
  outside the hand-over (`SlotsAgree`); from RUNNING to the report no call touches
  the slot (`HandOver`). That the sweep's search for the earliest entry finds one
  (`CandidateIsDue`) rests on the well-foundedness of the natural numbers.
- `SettingsInv`. A save that has read the settings either still holds the current
  revision, and then, unless a change is under way, its image is the settings; or
  it is behind, and then `settings_dirty` is set (`SaveInHand`). That it stays so
  needs that only one save writes at a time. A rejected file is kept because no
  save gets as far as writing (`SavesBlocked`), and a file always restores to the
  settings it was made from (`SnapshotFacts`).
- `RecoveryInv`. The saved record never counts more unconfirmed boots than the
  image had (`NeverOvercounts`), and without a failed save exactly as many
  (`CountsExactly`); between a boot and its diagnostics it is one behind.
- `LimitsInv`. A rule that fired during the present crossing is latched, and a
  sweep that is among the rules holds `rules_lock`.
- `ServerInv`. The busy flag is set whenever a connection is about to enter the
  queue, in it or with the worker, and these exclude each other.
- `RingInv` and `VisitInv`. Everything a reader was shown is older than what its
  index stands for now, and that only grows, also when the ring is cleared.

What is not proved is model-checked only: the other components, the refinement of
`AtMostOnceCall`, and all liveness, which needs fairness and `ENABLED` and is outside
what TLAPS proves here.

## 7. Plan

1. Theorems: the refinement of `AtMostOnceCall`, then `RunningIsChecked`,
   `NoStaleStop`, `NeverEarly` and `RingIsOfOneDefinition`.
2. Composition of `FtpServer`, `FtpStore` and `Fwu` (an upload to the firmware
   path), and of `Limits` with `FboSchedule`; an abstract specification of file
   replacement that `FtpStore` and the snapshot file implement.
3. Housekeeping with saved settings and collection in one model, and parameters
   written from another node through `ParamRemote` into `ParamTable`.

## 8. Not modelled

- Wire formats (`*_protocol.c`, `param_wire.c`): sequential encoders and decoders
  without state. Messages are records in the models.
- Parameter tables of the services (`*-parameters/`) and `fbo_commands.c`:
  declarations and forwarding calls.
- `fwu_fs.c`: offsets into a slot; its part in the exclusion of transfers is in `Fwu`.
- `boot.c`: a fixed sequence of calls in one thread. `log.c`: formatting and levels.
  `ftp_link_csp.c`, `ftp_state.c`: glue and counters. `fbo_clock.c`,
  `libparam_compat.c`, `libparam_print.c`: a few lines each.
- `resmon.c`: one work that samples stacks and emits an alert, by which nothing else
  goes.

Within modelled parts: parsing and formatting, registration of commands and
parameter tables, argument checking, commands without tickets, sending files and
listing directories, the STATUS and START_FLASHING requests and the RDP mode of the
upload, beacon packets, record layouts and time filters of stored samples, status
getters. MCUboot, littlefs, CSP, libparam and Zephyr's kernel are external; they are
modelled as the code uses them (an interrupted swap resumes, a rename is atomic, a
file is as it was last closed or synced, a cancelled work that has started runs to
its end). Overflow of 32-bit counters that only report is left out.

## 9. Running

In this directory:

    tlc -config MCUploads.cfg MCUploads
    tlapm FwuProofs.tla

and likewise for the other pairs of module and configuration in `PROJECT.json`,
and for the other six modules named `...Proofs`.
The seven passing runs take from half a minute to about three minutes each, with two workers.
