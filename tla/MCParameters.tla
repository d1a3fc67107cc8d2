----------------------------- MODULE MCParameters -----------------------------
(***************************************************************************)
(* What other nodes set and read, for TLC: the node's own parameters        *)
(* (ParamTable), the client for those of other nodes (ParamRemote), and the *)
(* log history with its remote reads (LogRead).  A behaviour exercises one  *)
(* of them and leaves the others where they start.                          *)
(***************************************************************************)
EXTENDS Integers, Sequences

CONSTANTS Threads, QueueDepth, MaxChanges, MaxResets, MaxFaults,
          Nodes, PoolSize, BatchMax, PageMax, MaxRestarts, MaxSets,
          Streams, Depth, Severities, Counts, MaxMessages, MaxEvents, Nonces, Services

VARIABLES
  up, value, version, made, requests, state, undo, dump, owner, job, file, temp, told,
  replaced, kept, unread, due, resets, faults,
  list, remote_value, slots, count, node, complete, call, window, walk, answer, fresh,
  restarts, sets,
  header, records, restored, journal, request, server, link, log_faults, reader, offered,
  service     \* the one at work: "table", "save", "remote" or "log"

(* Four parameters in three tables.  latency has an apply function; uptime  *)
(* is read-only; rate and autosave are persistent; 2 is out of range.       *)
Params == {"autosave", "rate", "uptime", "latency"}
TableOf == [p \in Params |-> CASE p = "autosave" -> 1 [] p = "latency" -> 3 [] OTHER -> 2]
Files == {<<<<"rate", 1>>>>, <<<<"rate", 1>>, <<"uptime", 1>>>>, <<<<"latency", 1>>>>,
          <<<<"rate", 1>>, <<"latency", 0>>>>, <<<<"rate", 0>>, <<"rate", 1>>>>}
Pushes == {<<<<"rate", 1>>, <<"latency", 1>>>>, <<<<"rate", 0>>, <<"autosave", 0>>>>}

T == INSTANCE ParamTable WITH
       Values <- 0..2, Accepted <- [p \in Params |-> 0..1],
       Default <- [p \in Params |-> IF p = "autosave" THEN 1 ELSE 0],
       Persistent <- {"autosave", "rate"}, ReadOnly <- {"uptime"}, Fallible <- {"latency"},
       Table <- TableOf

(* Two builds of a remote node: the second lacks p and gives its id to the  *)
(* read-only r.                                                             *)
Descriptor(id, name, ro) == [id |-> id, name |-> name, ro |-> ro]
First == <<Descriptor(257, "p", FALSE), Descriptor(258, "q", FALSE), Descriptor(513, "r", TRUE)>>
Second == <<Descriptor(257, "r", TRUE), Descriptor(514, "q", FALSE)>>

R == INSTANCE ParamRemote WITH
       Firmware <- {First, Second}, Requests <- {<<"q", "r">>, <<"r", "q", "p">>},
       value <- remote_value

L == INSTANCE LogRead WITH faults <- log_faults

ASSUME T!ParamAssumption

table == <<up, value, version, made, requests, state, undo, dump, owner, job, file, temp, told,
           replaced, kept, unread, due, resets, faults>>
remote == <<list, remote_value, slots, count, node, complete, call, window, walk, answer, fresh,
            restarts, sets>>

log == <<header, records, restored, journal, request, server, link, log_faults, reader, offered>>
ParametersVars == <<table, remote, log, service>>

ParametersInit ==
  /\ T!Init /\ R!Init /\ L!Init
  /\ service \in Services
  /\ list = [n \in Nodes |-> IF n = 1 THEN First ELSE Second]

ParametersNext ==
  \/ service = "table" /\ T!TableNext /\ UNCHANGED <<remote, log, service>>
  \/ service = "save" /\ T!SaveNext /\ UNCHANGED <<remote, log, service>>
  \/ service = "remote" /\ R!Next /\ UNCHANGED <<table, log, service>>
  \/ service = "log" /\ L!Next /\ UNCHANGED <<table, remote, service>>

ParametersSpec == ParametersInit /\ [][ParametersNext]_ParametersVars

(* A set, push, table load or revert writes all its values or none, a       *)
(* revert puts back what the last adopted load replaced, and a file the     *)
(* node dumped is one it would load (parameter_csp.c push_allowed,          *)
(* table.c).                                                                *)
BatchIsWhole == T!BatchIsWhole /\ T!UndoIsTheLastLoad /\ T!DumpLoads

(* The snapshot is never a part of a file, whenever the board is reset, and *)
(* a save answered 0 survives later saves, failures and resets, until a     *)
(* boot that could not read it is followed by another save; no call leaves  *)
(* the lock of the snapshot behind (snapshot_file.c,                        *)
(* parameter_persistence.c).                                                *)
SaveSurvives == T!TypeOK /\ T!FileIsWhole /\ T!SaveSurvives /\ T!LockHasWorker

(* A complete cache of descriptors is one firmware's list as a whole, so    *)
(* -ENOENT is only answered for a name the node does not have; the pages of *)
(* a table listing are the node's tables, each once (parameter_csp.c        *)
(* refresh_table, find_remote, serve_tables).                               *)
CompleteIsWhole == R!TypeOK /\ R!CompleteIsWhole /\ R!AbsentIsAbsent /\ R!PagesAreTables

(* A read of several names gives each its own value, when the cache was not *)
(* rebuilt on the way (parameter_csp.c get_many).                           *)
ValuesAreNamed == R!ValuesAreNamed

(* A remote write reported done was done, and a read-only parameter is      *)
(* never written (parameter_csp.c set_remote, push_allowed).                *)
SetIsTruthful == R!SetIsTruthful

(* Reading the log of another node: what arrives are whole records of the   *)
(* window, in order and each once, whatever is overwritten, lost, left over *)
(* or reset meanwhile, and the count at the end tells a complete read from  *)
(* one that lost packets (log_history.c, log_remote.c).                     *)
SeenIsTrue == L!SeenIsTrue /\ L!EndCountTells

(* log_remote.h: 0 means "Every record arrived, or a callback stopped the   *)
(* read."                                                                   *)
ZeroIsEveryRecord == L!ZeroIsEveryRecord
=============================================================================
