------------------------------- MODULE HkStore -------------------------------
(***************************************************************************)
(* The stored samples of one housekeeping report (src/hk/hk_store.c) and    *)
(* reading them back (hk_reader.c): a file of Capacity slots, a sample in   *)
(* the slot its 16-bit sequence number selects, no index besides.           *)
(*                                                                          *)
(* Samples are written in batches from the RAM ring, under storage_lock.    *)
(* The reader takes no lock and opens the file once for each pass; an       *)
(* extract makes two passes.  The file system (external) shows a file as it *)
(* was last closed, and keeps that over a reset.                            *)
(***************************************************************************)
EXTENDS Integers, Sequences, FiniteSets, SequencesExt

CONSTANTS
  Width,        \* 2^16: sequence numbers are modulo Width
  Starts,       \* sequence numbers a report may have reached when it is redefined
  Capacities,   \* values of CONFIG_KFSW_HK_STORE_CAPACITY
  History,      \* CONFIG_KFSW_HK_HISTORY
  Batches,      \* values of every_n, at most History
  Filters,      \* sequence windows [from, to], 0 for an open end
  MaxCollected, MaxConfigures, MaxResets, MaxFaults, MaxExtracts

VARIABLES
  capacity,     \* of this build
  up,           \* the restore is done
  sequence,     \* reports[r].sequence
  ring,         \* the samples held in RAM, oldest first
  store,        \* stores[r]: open, every_n, pending
  file,         \* whether it exists, with a valid header, and its slots
  saved,        \* the store setting that hk_persist.c keeps
  stored,       \* history: every sample put in this file, in order
  gap,          \* history: a write of samples to this file failed
  collected,    \* samples collected, which numbers them
  extract,      \* the extract under way
  dataset,      \* the last finished extract
  configures, resets, faults, extracts

vars == <<capacity, up, sequence, ring, store, file, saved, stored, gap, collected, extract, dataset,
          configures, resets, faults, extracts>>

Unwritten == [number |-> 0, sequence |-> 0]
NoStore == [open |-> FALSE, every |-> 1, pending |-> 0]
NoFile == [present |-> FALSE, header |-> FALSE, slots |-> <<>>]
NoExtract == [step |-> "idle", filter |-> [from |-> 0, to |-> 0], count |-> 0, first |-> 0, last |-> 0,
              records |-> <<>>]
Fresh == [present |-> TRUE, header |-> TRUE, slots |-> [s \in 0..(capacity - 1) |-> Unwritten]]

Init ==
  /\ capacity \in Capacities /\ up = TRUE /\ sequence \in Starts /\ ring = <<>> /\ store = NoStore
  /\ file = NoFile /\ saved = NoStore /\ stored = <<>> /\ gap = FALSE /\ collected = 0
  /\ extract = NoExtract /\ dataset = NoExtract
  /\ configures = 0 /\ resets = 0 /\ faults = 0 /\ extracts = 0

----------------------------------------------------------------------------
(* Storing *)

(* create_file truncates an old file and writes the header; when it fails   *)
(* the old file is as it was, or truncated with or without the header.      *)
CreateFails ==
  /\ faults < MaxFaults /\ faults' = faults + 1
  /\ file' \in {file, [Fresh EXCEPT !.header = FALSE], Fresh}
  /\ IF file' = file THEN UNCHANGED <<stored, gap>> ELSE stored' = <<>> /\ gap' = FALSE

(* kfsw_hk_store_configure: on a failure the store goes on as it was.       *)
Configure(every) ==
  /\ up /\ configures < MaxConfigures /\ configures' = configures + 1
  /\ \/ /\ store' = [open |-> TRUE, every |-> every, pending |-> 0]
        /\ file' = Fresh /\ stored' = <<>> /\ gap' = FALSE /\ UNCHANGED faults
     \/ CreateFails /\ UNCHANGED store
  /\ UNCHANGED <<capacity, up, sequence, ring, saved, collected, extract, dataset, resets, extracts>>

(* An interval of zero stops storing and keeps the file.                    *)
Stop ==
  /\ up /\ store.open /\ store' = NoStore
  /\ UNCHANGED <<capacity, up, sequence, ring, file, saved, stored, gap, collected, extract, dataset,
                 configures, resets, faults, extracts>>

(* kfsw_hk_store_forget *)
Forget ==
  /\ up /\ file.present
  /\ store' = NoStore /\ file' = NoFile /\ stored' = <<>> /\ gap' = FALSE
  /\ UNCHANGED <<capacity, up, sequence, ring, saved, collected, extract, dataset, configures, resets,
                 faults, extracts>>

(* kfsw_hk_config_end saves the settings after a change, when it can: until *)
(* then a reset goes back to older ones (module HkSettings).                *)
Persist ==
  /\ up /\ saved # [store EXCEPT !.pending = 0] /\ saved' = [store EXCEPT !.pending = 0]
  /\ UNCHANGED <<capacity, up, sequence, ring, store, file, stored, gap, collected, extract, dataset,
                 configures, resets, faults, extracts>>

Slot(n) == n % capacity

(* The last n samples of the ring go to the slots their sequence selects,   *)
(* counted from next_sequence; the first `done' of them were written.       *)
Written(slots, next, n, done, r) ==
  FoldLeft(LAMBDA f, i : [f EXCEPT ![Slot((next - n + i - 1) % Width)] = r[Len(r) - (n - i)]],
           slots, [i \in 1..done |-> i])

(* kfsw_hk_store_flush: pending is kept when the file cannot be opened, but *)
(* no further back than the ring, and dropped when a write fails.           *)
Flush(next, r, pending) ==
  \/ /\ pending < store.every
     /\ store' = [store EXCEPT !.pending = pending] /\ UNCHANGED <<file, stored, faults>>
     /\ gap' = (gap \/ store.pending = History)
  \/ /\ pending >= store.every
     /\ file' = [file EXCEPT !.slots = Written(@, next, pending, pending, r)]
     /\ stored' = stored \o SubSeq(r, Len(r) - pending + 1, Len(r))
     /\ store' = [store EXCEPT !.pending = 0] /\ UNCHANGED faults
     /\ gap' = (gap \/ store.pending = History)
  \/ /\ pending >= store.every /\ faults < MaxFaults /\ faults' = faults + 1
     /\ store' = [store EXCEPT !.pending = pending] /\ UNCHANGED <<file, stored>>
     /\ gap' = (gap \/ store.pending = History)
  \/ /\ pending >= store.every /\ faults < MaxFaults /\ faults' = faults + 1
     /\ \E done \in 0..(pending - 1) :
          /\ file' = [file EXCEPT !.slots = Written(@, next, pending, done, r)]
          /\ stored' = stored \o SubSeq(r, Len(r) - pending + 1, Len(r) - pending + done)
     /\ gap' = TRUE /\ store' = [store EXCEPT !.pending = 0]

(* The end of kfsw_hk_collect: the ring, then the store.                    *)
Collect ==
  LET sample == [number |-> collected + 1, sequence |-> sequence]
      r == Append(IF Len(ring) = History THEN Tail(ring) ELSE ring, sample)
      next == (sequence + 1) % Width IN
  /\ up /\ collected < MaxCollected /\ collected' = collected + 1
  /\ ring' = r /\ sequence' = next
  /\ IF store.open
     THEN Flush(next, r, IF store.pending = History THEN History ELSE store.pending + 1)
     ELSE UNCHANGED <<store, file, stored, gap, faults>>
  /\ UNCHANGED <<capacity, up, saved, extract, dataset, configures, resets, extracts>>

----------------------------------------------------------------------------
(* Sequence arithmetic: (int16_t)(a - b) > 0 *)

After_Unsigned(a, b) == a > b

After(a, b) == a # b /\ (a - b) % Width < Width \div 2

Records(slots) == {s \in DOMAIN slots : slots[s] # Unwritten}

(* The scan of restore_prepare and of reader_open, slot after slot.         *)
Newest(slots) ==
  LET later(best, s) == IF best = -1 \/ After(slots[s].sequence, best) THEN slots[s].sequence ELSE best
  IN FoldLeft(later, -1, SetToSortSeq(Records(slots), <))

(* A reset loses the RAM.  Then kfsw_hk_store_restore_prepare and _commit.  *)
Reset ==
  /\ up /\ resets < MaxResets /\ resets' = resets + 1
  /\ up' = FALSE /\ sequence' = 0 /\ ring' = <<>> /\ store' = NoStore /\ extract' = NoExtract
  /\ UNCHANGED <<capacity, file, saved, stored, gap, collected, dataset, configures, faults,
                 extracts>>

(* A setting that cannot be restored is dropped, and with it the sequence:  *)
(* the file's header is bad, it could not be created or read.               *)
Restore ==
  /\ ~up /\ up' = TRUE
  /\ \/ /\ saved.open => ~file.present \/ file.header
        /\ store' = saved
        /\ file' = IF saved.open /\ ~file.present THEN Fresh ELSE file
        /\ sequence' = IF saved.open /\ Records(file.slots) # {}
                       THEN (Newest(file.slots) + 1) % Width ELSE 0
        /\ UNCHANGED <<stored, gap, faults>>
     \/ /\ saved.open /\ file.present /\ ~file.header
        /\ store' = NoStore /\ sequence' = 0 /\ UNCHANGED <<file, stored, gap, faults>>
     \/ /\ saved.open /\ CreateFails /\ (file.present => file' = file)
        /\ store' = NoStore /\ sequence' = 0
  /\ UNCHANGED <<capacity, ring, saved, collected, extract, dataset, configures, resets, extracts>>

----------------------------------------------------------------------------
(* Reading *)

(* reader_record refuses a slot that holds another sequence.                *)
Holds(slots, n) == slots[Slot(n)] # Unwritten /\ slots[Slot(n)].sequence = n

(* sequence_within; the comparisons are signed differences.                 *)
Within(filter, n) ==
  /\ filter.from # 0 => ~After(filter.from, n)
  /\ filter.to # 0 => ~After(n, filter.to)

(* reader_open, reader_oldest and walk: as many sequences as slots hold a   *)
(* record, up to the newest, oldest first.                                  *)
Walk(f, filter) ==
  LET slots == f.slots
      written == Cardinality(Records(slots))
      oldest == Newest(slots) - (written - 1)
      at == [i \in 1..written |-> (oldest + i - 1) % Width]
      found == SelectSeq(at, LAMBDA n : Holds(slots, n) /\ Within(filter, n))
  IN [i \in DOMAIN found |-> slots[Slot(found[i])]]

Everything == [from |-> 0, to |-> 0]

(* kfsw_hk_store_extract: the window is noted for the header in one pass,   *)
(* the records are copied in another.                                       *)
ExtractBegin(filter) ==
  LET selected == IF file.header THEN Walk(file, filter) ELSE <<>> IN
  /\ up /\ extract = NoExtract /\ extracts < MaxExtracts /\ extracts' = extracts + 1
  /\ selected # <<>>
  /\ extract' = [step |-> "write", filter |-> filter, count |-> Len(selected),
                 first |-> Head(selected).sequence, last |-> Last(selected).sequence, records |-> <<>>]
  /\ UNCHANGED <<capacity, up, sequence, ring, store, file, saved, stored, gap, collected, dataset,
                 configures, resets, faults>>

(* "The ring moved between the two passes."                                 *)
Complete(count, records) == Len(records) = count

ExtractWrite ==
  /\ extract.step = "write"
  /\ LET records == IF file.header THEN Walk(file, extract.filter) ELSE <<>>
     IN extract' = IF Complete(extract.count, records)
                   THEN [extract EXCEPT !.step = "rename", !.records = records] ELSE NoExtract
  /\ UNCHANGED <<capacity, up, sequence, ring, store, file, saved, stored, gap, collected, dataset,
                 configures, resets, faults, extracts>>

(* fs_sync and fs_rename, or a failure that unlinks the temporary.          *)
ExtractEnd ==
  /\ extract.step = "rename"
  /\ dataset' \in {extract, dataset}
  /\ extract' = NoExtract
  /\ UNCHANGED <<capacity, up, sequence, ring, store, file, saved, stored, gap, collected,
                 configures, resets, faults, extracts>>

Next ==
  \/ \E every \in Batches : Configure(every)
  \/ \E filter \in Filters : ExtractBegin(filter)
  \/ Stop \/ Forget \/ Persist \/ Collect \/ Reset \/ Restore \/ ExtractWrite \/ ExtractEnd

Spec == Init /\ [][Next]_vars

----------------------------------------------------------------------------
Numbers(records) == [i \in DOMAIN records |-> records[i].number]

(* Reading the store gives samples in the order in which they were          *)
(* collected, each once and the newest stored one last, over wraps of the   *)
(* sequence, failed writes, resets and a store stopped and started again    *)
(* (reader_record compares the sequence it finds).  A file without its      *)
(* header is refused (reader_open).                                         *)
ReadInOrder ==
  up /\ file.header =>
    LET read == Numbers(Walk(file, Everything)) IN
    /\ \A i, j \in DOMAIN read : i < j => read[i] < read[j]
    /\ stored # <<>> => read # <<>> /\ Last(read) = Last(stored).number

(* As long as no write failed and Capacity divides the range of sequence    *)
(* numbers (256 and 65536), nothing is missing: what is read is exactly the *)
(* last Capacity samples that were stored.                                  *)
ReadIsTheLatest ==
  up /\ file.header /\ ~gap /\ Width % capacity = 0 =>
    LET n == Len(stored)
        kept == IF n > capacity THEN SubSeq(stored, n - capacity + 1, n) ELSE stored
    IN Walk(file, Everything) = kept

(* A finished extract has as many records as its header says, in the order  *)
(* in which they were collected, although the ring moved under it.          *)
DatasetIsCounted ==
  /\ Len(dataset.records) = dataset.count
  /\ \A i, j \in DOMAIN dataset.records : i < j => dataset.records[i].number < dataset.records[j].number

(* hk.h on an extract: its header names "the record count, the first and    *)
(* last sequence" of the records that follow.                               *)
DatasetIsTrue ==
  dataset.records # <<>> =>
    /\ dataset.first = Head(dataset.records).sequence
    /\ dataset.last = Last(dataset.records).sequence

(* struct store_reader on `written': "Slots that hold a record, so also how *)
(* far back the ring goes."                                                 *)
WrittenIsReadable ==
  up /\ file.header => Len(Walk(file, Everything)) = Cardinality(Records(file.slots))
=============================================================================
