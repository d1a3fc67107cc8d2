------------------------------ MODULE ParamTable ------------------------------
(***************************************************************************)
(* The node's own parameters: local and remote writes (parameter.c,         *)
(* parameter_csp.c), table files (table.c), the snapshot of the persistent  *)
(* values (parameter_persistence.c) and the file it is written to by way of *)
(* a temporary (snapshot_file.c).                                           *)
(*                                                                          *)
(* kfsw_param_table_lock is held over each change and over the reading of   *)
(* a snapshot, so those are single steps.  A save is not: it holds          *)
(* kfsw_param_persist_lock over a sequence of file operations, while other  *)
(* threads go on changing values, and a reset may fall between any two.     *)
(* A version counts the changes of persistent values.                       *)
(***************************************************************************)
EXTENDS Integers, Sequences, FiniteSets, SequencesExt

CONSTANTS
  Params,       \* the registered parameters; "autosave" is one of them
  Values,
  Accepted,     \* the values each parameter's validator accepts
  Default,      \* the compiled value of each
  Persistent, ReadOnly, Fallible,   \* Fallible: the ones with an apply function
  Table,        \* the table each belongs to
  Files,        \* sequences of <<parameter, value>> offered as table files
  Pushes,       \* and in remote writes
  Threads,      \* threads that write and save
  QueueDepth,   \* CONFIG_KFSW_PARAM_VALUE_QUEUE_DEPTH
  MaxChanges, MaxResets, MaxFaults

VARIABLES
  up,        \* the registry is initialised and the snapshot was loaded
  value,     \* the values in RAM
  version,   \* the version of the persistent ones
  made,      \* the last version made
  requests,  \* value_requests: pushes accepted by the CSP callback
  state,     \* status.state of the table service
  undo,      \* saved: the values the last load replaced
  dump,      \* the table file the node wrote
  owner,     \* the thread that holds kfsw_param_persist_lock
  job,       \* per thread: how far its call is, and the image it writes
  file, temp,   \* the snapshot and its temporary
  told,      \* history: what the last batch was answered
  replaced,  \* history: what the last load answered 0 replaced
  kept,      \* history: the version of the last save answered 0
  unread,    \* history: the last boot could not read the snapshot, which no save replaced since
  due,       \* history: the version of the last accepted write
  resets, faults

persistence == <<owner, job, file, temp, kept, unread, faults>>
tables == <<state, undo, dump, replaced>>
vars == <<up, value, version, made, requests, tables, persistence, told, due, resets>>

ParamAssumption ==
  /\ "autosave" \in Persistent
  /\ Persistent \cup ReadOnly \cup Fallible \subseteq Params
  /\ \A p \in Params : Default[p] \in Accepted[p]
  \* fbo_table.c: the one parameter with an apply function is neither
  \* persistent nor in a table with another writable one.
  /\ Fallible \cap Persistent = {}
  /\ \A f \in Fallible, p \in Params \ ReadOnly : Table[p] = Table[f] => p = f

None == [none |-> TRUE]
Nobody == 0
NotTold == None
NoJob == [step |-> "idle", image |-> None]

Saved(v) == [p \in Persistent |-> v[p]]
Autosave == value["autosave"] = 1

----------------------------------------------------------------------------
(* Batches of writes *)

Names(batch) == {batch[i][1] : i \in 1..Len(batch)}

(* The values after the first n entries of a batch were written in order.   *)
Overlay(v, batch, n) ==
  [p \in Params |->
     LET at == {i \in 1..n : batch[i][1] = p}
     IN IF at = {} THEN v[p] ELSE batch[CHOOSE i \in at : \A j \in at : j <= i][2]]

Standalone_Ignored(batch) == TRUE

(* "A value with a fallible scalar applier must be the file's only entry".  *)
Standalone(batch) == Names(batch) \cap Fallible # {} => Len(batch) = 1

Valid(batch) == \A i \in 1..Len(batch) : batch[i][2] \in Accepted[batch[i][1]]

Writable(batch) == Names(batch) \subseteq Params \ ReadOnly

(* kfsw_param_wire_apply for each entry in turn: the apply function of a    *)
(* fallible one may refuse, which ends the batch there.                     *)
Outcomes(v, batch) ==
  {[ok |-> TRUE, value |-> Overlay(v, batch, Len(batch))]} \cup
  {[ok |-> FALSE, value |-> Overlay(v, batch, i - 1)] :
     i \in {j \in 1..Len(batch) : batch[j][1] \in Fallible}}

(* Values v take the place of the ones in RAM.                              *)
Adopt(v) ==
  /\ value' = v
  /\ IF Saved(v) = Saved(value)
     THEN UNCHANGED <<version, made>>
     ELSE made < MaxChanges /\ made' = made + 1 /\ version' = made + 1

Answer(ok, batch) == told' = [ok |-> ok, batch |-> batch, before |-> value]

(* A batch that passed its checks, or did not.                              *)
Apply(batch, allowed, outcome) ==
  IF allowed
  THEN outcome \in Outcomes(value, batch) /\ Adopt(outcome.value) /\ Answer(outcome.ok, batch)
  ELSE outcome = [ok |-> FALSE, value |-> value] /\ Adopt(value) /\ Answer(FALSE, batch)

OutcomesOf(batch) == Outcomes(value, batch) \cup {[ok |-> FALSE, value |-> value]}

----------------------------------------------------------------------------
(* kfsw_param_set.  A persistent value is saved by the caller's thread,     *)
(* after the table lock is released.                                        *)
Set(t, p, v) ==
  /\ up /\ job[t].step = "idle"
  /\ \E outcome \in OutcomesOf(<<<<p, v>>>>) :
       /\ Apply(<<<<p, v>>>>, p \notin ReadOnly /\ v \in Accepted[p], outcome)
       /\ due' = IF outcome.ok THEN version' ELSE due
       /\ job' = IF outcome.ok /\ p \in Persistent
                 THEN [job EXCEPT ![t].step = "accepted"] ELSE job
  /\ UNCHANGED <<up, requests, tables, owner, file, temp, kept, unread, resets, faults>>

(* kfsw_param_autosave_enabled is read without the lock.                    *)
SaveAfterSet(t) ==
  /\ job[t].step = "accepted"
  /\ job' = [job EXCEPT ![t].step = IF Autosave THEN "wait" ELSE "idle"]
  /\ told' = NotTold
  /\ UNCHANGED <<up, value, version, made, requests, tables, owner, file, temp, kept, unread,
                 due, resets, faults>>

----------------------------------------------------------------------------
(* The CSP value server: param_server_callback, then the worker *)

(* A request that finds the queue full is dropped and counted.              *)
Receive(batch) ==
  /\ up /\ Len(requests) < QueueDepth
  /\ requests' = Append(requests, batch)
  /\ told' = NotTold
  /\ UNCHANGED <<up, value, version, made, tables, persistence, due, resets>>

(* serve_values: push_allowed decides on the whole packet and runs the      *)
(* apply function of a fallible parameter; param_serve stores the values    *)
(* and answers.  A refused packet gets no answer.                           *)
PushAllowed(batch) == Writable(batch) /\ Valid(batch) /\ Standalone(batch)

Serve ==
  /\ up /\ requests # <<>>
  /\ LET batch == Head(requests)
     IN \E outcome \in OutcomesOf(batch) :
          /\ Apply(batch, PushAllowed(batch), outcome)
          /\ due' = IF outcome.ok THEN version' ELSE due
  /\ requests' = Tail(requests)
  /\ UNCHANGED <<up, tables, persistence, resets>>

----------------------------------------------------------------------------
(* Table files *)

(* check_entries: no offset twice, every entry known, writable and valid.   *)
Examine(batch) ==
  /\ Len(batch) > 0
  /\ \A i, j \in 1..Len(batch) : batch[i][1] = batch[j][1] => i = j
  /\ Writable(batch) /\ Standalone(batch) /\ Valid(batch)

Replaced(batch) == [i \in 1..Len(batch) |-> <<batch[i][1], value[batch[i][1]]>>]

(* kfsw_table_load: pending becomes saved when every entry was applied.     *)
UndoAfter(batch, ok) == IF ok THEN Replaced(batch) ELSE undo

Load(batch) ==
  /\ up
  /\ \E outcome \in OutcomesOf(batch) :
       /\ Apply(batch, Examine(batch), outcome)
       /\ undo' = IF Examine(batch) THEN UndoAfter(batch, outcome.ok) ELSE undo
       /\ state' = IF outcome.ok THEN "loaded" ELSE state
       /\ replaced' = IF outcome.ok THEN Replaced(batch) ELSE replaced
  /\ UNCHANGED <<up, requests, dump, persistence, due, resets>>

(* kfsw_table_revert; the entries were writable when they were loaded.      *)
Revert ==
  /\ up /\ state = "loaded" /\ undo # <<>>
  /\ \E outcome \in OutcomesOf(undo) :
       /\ Apply(undo, Standalone(undo) /\ Valid(undo), outcome)
       /\ undo' = IF outcome.ok THEN <<>> ELSE undo
       /\ state' = IF outcome.ok THEN "reverted" ELSE state
  /\ UNCHANGED <<up, requests, dump, replaced, persistence, due, resets>>

Dumped(table) == {p \in Params \ ReadOnly : Table[p] = table}

(* kfsw_table_dump *)
Dump(table) ==
  /\ up /\ Dumped(table) # {}
  /\ dump' = [i \in 1..Cardinality(Dumped(table)) |->
                LET p == SetToSeq(Dumped(table))[i] IN <<p, value[p]>>]
  /\ told' = NotTold
  /\ UNCHANGED <<up, value, version, made, requests, state, undo, replaced, persistence, due,
                 resets>>

(* kfsw_param_restore_defaults: every persistent value, in RAM only.        *)
RestoreDefaults ==
  /\ up
  /\ Adopt([p \in Params |-> IF p \in Persistent THEN Default[p] ELSE value[p]])
  /\ told' = NotTold
  /\ UNCHANGED <<up, requests, tables, persistence, due, resets>>

----------------------------------------------------------------------------
(* Saving: persist_save, kfsw_snapshot_write.  A file holds a version of    *)
(* the persistent values, or a part of the bytes; what was not synced may   *)
(* be lost in a reset.                                                      *)

Contents(whole, image, synced) == [whole |-> whole, image |-> image, synced |-> synced]

RestUnchanged == UNCHANGED <<up, value, version, made, requests, tables, due, resets>>

At(t, step) == job[t].step = step /\ told' = NotTold /\ RestUnchanged

(* kfsw_param_persist_save called by itself *)
Save(t) ==
  /\ up /\ job[t].step = "idle"
  /\ job' = [job EXCEPT ![t].step = "wait"]
  /\ told' = NotTold
  /\ UNCHANGED <<owner, file, temp, kept, unread, faults>> /\ RestUnchanged

Image == [version |-> version, values |-> Saved(value)]

Free == owner = Nobody

(* build_snapshot, once the thread holds the lock *)
Build(t) ==
  /\ job[t].step = "wait" /\ Free
  /\ owner' = t
  /\ job' = [job EXCEPT ![t] = [step |-> "create", image |-> Image]]
  /\ told' = NotTold
  /\ UNCHANGED <<file, temp, kept, unread, faults>> /\ RestUnchanged

Create(t) ==
  /\ At(t, "create")
  /\ temp' = Contents(FALSE, None, TRUE)
  /\ job' = [job EXCEPT ![t].step = "write"]
  /\ UNCHANGED <<owner, file, kept, unread, faults>>

Write(t) ==
  /\ At(t, "write")
  /\ temp' = Contents(TRUE, job[t].image, FALSE)
  /\ job' = [job EXCEPT ![t].step = "sync"]
  /\ UNCHANGED <<owner, file, kept, unread, faults>>

Synced_NotYet(contents) == contents

(* "Sync before the rename." *)
Synced(contents) == [contents EXCEPT !.synced = TRUE]

Sync(t) ==
  /\ At(t, "sync")
  /\ temp' = Synced(temp)
  /\ job' = [job EXCEPT ![t].step = "rename"]
  /\ UNCHANGED <<owner, file, kept, unread, faults>>

(* "Rename is the atomic step; the target is not unlinked first."           *)
Rename(t) ==
  /\ At(t, "rename")
  /\ file' = temp /\ temp' = None
  /\ kept' = IF unread \/ job[t].image.version > kept THEN job[t].image.version ELSE kept
  /\ unread' = FALSE
  /\ owner' = Nobody /\ job' = [job EXCEPT ![t] = NoJob]
  /\ UNCHANGED faults

Abandon(t) == owner' = Nobody

(* An operation fails: the directory, the budget, open, write, sync, close  *)
(* or rename.  The temporary is removed and the lock released.              *)
SaveFails(t) ==
  /\ job[t].step \in {"create", "write", "sync", "rename"} /\ At(t, job[t].step)
  /\ faults < MaxFaults /\ faults' = faults + 1
  /\ temp' = None
  /\ Abandon(t) /\ job' = [job EXCEPT ![t] = NoJob]
  /\ UNCHANGED <<file, kept, unread>>

(* kfsw_param_persist_clear *)
Clear(t) ==
  /\ up /\ job[t].step = "idle" /\ owner = Nobody
  /\ file' = None /\ temp' = None /\ kept' = 0 /\ unread' = FALSE /\ due' = 0
  /\ told' = NotTold
  /\ UNCHANGED <<up, value, version, made, requests, tables, owner, job, resets, faults>>

----------------------------------------------------------------------------
(* Resets *)

(* What a reset leaves of a file: the bytes that were synced, and of others *)
(* any part.                                                                *)
Remains(contents) ==
  {contents} \cup (IF contents = None \/ contents.synced THEN {} ELSE {Contents(FALSE, None, TRUE)})

Reset ==
  /\ up /\ resets < MaxResets /\ resets' = resets + 1
  /\ up' = FALSE
  /\ file' \in Remains(file) /\ temp' \in Remains(temp)
  /\ value' = Default /\ version' = 0
  /\ requests' = <<>> /\ state' = "empty" /\ undo' = <<>> /\ replaced' = <<>>
  /\ owner' = Nobody /\ job' = [t \in Threads |-> NoJob]
  /\ told' = NotTold /\ due' = 0
  /\ UNCHANGED <<made, dump, kept, unread, faults>>

(* validate_snapshot: the checksum is over the whole file.                  *)
Readable(contents) == contents # None /\ contents.whole

(* kfsw_param_init and kfsw_param_persist_load.  walk_snapshot takes the    *)
(* entries it knows and accepts.  When the storage is not ready, or the     *)
(* file cannot be read, the defaults stay and nothing else remembers it.    *)
Boot ==
  /\ ~up /\ up' = TRUE
  /\ \/ /\ temp' = None /\ unread' = FALSE /\ UNCHANGED faults
        /\ IF Readable(file)
           THEN /\ value' = [p \in Params |->
                               IF p \in Persistent /\ file.image.values[p] \in Accepted[p]
                               THEN file.image.values[p] ELSE Default[p]]
                /\ version' = file.image.version
           ELSE value' = Default /\ version' = 0
     \/ /\ faults < MaxFaults /\ faults' = faults + 1
        /\ temp' \in {temp, None} /\ unread' = Readable(file)
        /\ value' = Default /\ version' = 0
  /\ due' = version'
  /\ told' = NotTold
  /\ UNCHANGED <<made, requests, tables, owner, job, file, kept, resets>>

Init ==
  /\ up = FALSE /\ value = Default /\ version = 0 /\ made = 0
  /\ requests = <<>> /\ state = "empty" /\ undo = <<>> /\ dump = <<>> /\ replaced = <<>>
  /\ owner = Nobody /\ job = [t \in Threads |-> NoJob] /\ file = None /\ temp = None
  /\ told = NotTold /\ kept = 0 /\ unread = FALSE /\ due = 0 /\ resets = 0 /\ faults = 0

SaveStep(t) == Build(t) \/ Create(t) \/ Write(t) \/ Sync(t) \/ Rename(t) \/ SaveFails(t)

(* Writes, and what makes them last *)
SaveNext ==
  \/ \E t \in Threads :
       \/ \E p \in Persistent \cup ReadOnly, v \in Values : Set(t, p, v)
       \/ SaveAfterSet(t) \/ Save(t) \/ Clear(t) \/ SaveStep(t)
  \/ \E batch \in Pushes : Receive(batch)
  \/ Serve \/ RestoreDefaults \/ Reset \/ Boot

(* Writes, and what undoes them *)
TableNext ==
  \/ (\E batch \in Pushes : Receive(batch)) \/ (\E batch \in Files : Load(batch))
  \/ (dump # <<>> /\ Load(dump))
  \/ Serve \/ Revert
  \/ (\E table \in {Table[p] : p \in Params} : Dump(table))
  \/ Boot

Next == SaveNext \/ TableNext

Spec == Init /\ [][Next]_vars

----------------------------------------------------------------------------
TypeOK ==
  /\ up \in BOOLEAN /\ value \in [Params -> Values]
  /\ version \in 0..made /\ made \in 0..MaxChanges
  /\ owner \in Threads \cup {Nobody} /\ Len(requests) <= QueueDepth
  /\ state \in {"empty", "loaded", "reverted"}
  /\ kept \in 0..made /\ unread \in BOOLEAN /\ due \in 0..made

(* A set, push, table load or revert answered 0 wrote every value it names  *)
(* and nothing else; one refused, by a check or by an apply function,       *)
(* changed nothing (parameter_csp.c push_allowed, table.c load and revert). *)
BatchIsWhole ==
  told # NotTold
    => value = IF told.ok THEN Overlay(told.before, told.batch, Len(told.batch)) ELSE told.before

(* table.h: "A failed application returns its errno and keeps the previous  *)
(* undo values": what a revert would put back is what the last adopted load *)
(* replaced, whatever was refused since.                                    *)
UndoIsTheLastLoad == state = "loaded" => undo = replaced

(* A table the node dumped is one it would load: "So an operator can fetch  *)
(* what is running, change a value and upload it back" (table.h).           *)
DumpLoads == dump # <<>> => Examine(dump)

(* The snapshot is never a part of a file, whenever the board is reset      *)
(* (snapshot_file.c).                                                       *)
FileIsWhole == file # None => file.whole

(* A save answered 0 survives: no save of the same run, no failure and no   *)
(* reset puts an older version in its place, and a boot that can read it    *)
(* starts from it.  A boot that cannot starts from the defaults and leaves  *)
(* it in the file; the next save then replaces it (persist_load sets        *)
(* nothing that would hold that save back).                                 *)
SaveSurvives ==
  kept > 0 => /\ file # None /\ file.whole /\ file.image.version >= kept
              /\ up /\ ~unread => version >= kept

(* A thread that waits to save waits for one that is saving: the lock is    *)
(* never left with a thread whose call ended, after any failure.            *)
LockHasWorker ==
  owner # Nobody => job[owner].step \in {"create", "write", "sync", "rename"}

(* Kconfig on autosave: "With autosave on, each accepted change to a        *)
(* persistent value writes one" snapshot.  When no thread is in a call and  *)
(* no save failed, the snapshot has every write the node accepted.          *)
AutosaveKeepsUp ==
  /\ up /\ Autosave /\ requests = <<>> /\ faults = 0 /\ \A t \in Threads : job[t].step = "idle"
  => due = 0 \/ (file # None /\ file.image.version >= due)
=============================================================================
