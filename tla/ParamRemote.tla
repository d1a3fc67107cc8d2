----------------------------- MODULE ParamRemote -----------------------------
(***************************************************************************)
(* Parameters of other nodes (src/parameter/parameter_csp.c): the client    *)
(* resolves names to descriptors held in a pool for one node at a time,     *)
(* reads and writes values by descriptor, and lists a node's descriptors    *)
(* and tables.  A node may restart with other firmware at any time.         *)
(*                                                                          *)
(* kfsw_param_remote_lock admits one call at a time.  A call is a sequence  *)
(* of exchanges; each is answered, gets no answer, or cannot be started.    *)
(* A descriptor pointer is the number of a slot of the pool: param_list_    *)
(* destroy resets the whole pool, so the pointer survives and what it       *)
(* points at does not.  A checksum of a list is the list itself.            *)
(***************************************************************************)
EXTENDS Integers, Sequences, SequencesExt

CONSTANTS
  Nodes,        \* remote nodes
  Firmware,     \* lists of descriptors a node may carry, in the order of their ids
  Requests,     \* sequences of names offered to kfsw_param_remote_get_many
  PoolSize,     \* CONFIG_KFSW_PARAM_REMOTE_POOL_SIZE
  BatchMax,     \* KFSW_PARAM_REMOTE_BATCH_MAX
  PageMax,      \* tables one reply holds
  MaxRestarts,  \* bound on restarts
  MaxSets       \* bound on writes

VARIABLES
  list,      \* the firmware of each node
  value,     \* the values each node holds, by name
  slots,     \* the pool: the descriptors of cached[]
  count,     \* cached_count
  node,      \* cached_node
  complete,  \* cache_complete
  call,      \* the call that holds the remote lock, and its step
  window,    \* the descriptors it resolved: slot numbers
  walk,      \* refresh_table's loop, or the pages of kfsw_param_remote_tables
  answer,    \* what the last call returned
  fresh,     \* history: cached_node did not restart since the cache was cleared
  restarts,
  sets

vars == <<list, value, slots, count, node, complete, call, window, walk, answer, fresh,
          restarts, sets>>

Names == UNION {{f[i].name : i \in 1..Len(f)} : f \in Firmware}
NoSlot == [id |-> 0, name |-> "", ro |-> FALSE]

(* got: the values read so far.  Two histories: rebuilt, the cache was      *)
(* cleared after a name was resolved; steady, no descriptor is from before  *)
(* a restart of the node and it did not restart during the call.            *)
Idle == [kind |-> "none", node |-> 0, names |-> <<>>, table |-> 0, step |-> "idle", got |-> <<>>,
         rebuilt |-> FALSE, steady |-> TRUE]
NoWalk == [table |-> 0, index |-> 0, crc |-> <<>>, pages |-> <<>>]
NoAnswer == [call |-> Idle, result |-> "none", got |-> <<>>]

(* fill_info: "The wire ID has the table in the high byte."                 *)
TableOf(d) == d.id \div 256

(* list_entry_in, list_fingerprint *)
Listed(n, table) == SelectSeq(list[n], LAMBDA d : table = 0 \/ TableOf(d) = table)

Tables(n) == SetToSortSeq({TableOf(list[n][i]) : i \in 1..Len(list[n])}, <)

Cached == SubSeq(slots, 1, count)

Finish(result, got) ==
  /\ answer' = [call |-> call, result |-> result, got |-> got]
  /\ call' = Idle /\ window' = <<>> /\ walk' = NoWalk
  /\ UNCHANGED <<list, restarts, sets>>

Fail(result) == Finish(result, <<>>)

(* clear_remote_cache; the caller names the node the cache is for next.     *)
ClearFor(n) ==
  /\ count' = 0 /\ complete' = FALSE /\ node' = n
  /\ fresh' = TRUE

CacheUnchanged == UNCHANGED <<value, slots, count, node, complete, fresh>>

----------------------------------------------------------------------------
(* The public calls, once they hold kfsw_param_remote_lock *)

Call(kind, n, names, table) ==
  /\ call.step = "idle"
  /\ IF kind = "set" THEN sets < MaxSets /\ sets' = sets + 1 ELSE sets' = sets
  /\ call' = [kind |-> kind, node |-> n, names |-> names, table |-> table, got |-> <<>>,
              rebuilt |-> FALSE, steady |-> (node = n => fresh),
              step |-> CASE kind \in {"many", "set"} -> "find"
                         [] kind = "tables" -> "page"
                         [] OTHER -> "begin"]
  /\ answer' = NoAnswer
  /\ UNCHANGED <<list, value, slots, count, node, complete, window, walk, fresh, restarts>>

----------------------------------------------------------------------------
(* refresh_table *)

Enter(table, n) ==
  /\ ClearFor(n)
  /\ walk' = [NoWalk EXCEPT !.table = table]
  /\ call' = [call EXCEPT !.step = "refresh", !.rebuilt = @ \/ window # <<>>]
  /\ UNCHANGED <<list, value, slots, window, answer, restarts, sets>>

(* The infos a visitor is given: the cache in the order of its ids.         *)
Visited == SetToSortSeq({slots[i].id : i \in 1..count}, <)

(* A visit of a whole node is content with a complete cache.                *)
Begin ==
  /\ call.step = "begin"
  /\ IF call.kind = "visit" /\ call.table = 0 /\ complete /\ node = call.node
     THEN Finish("ok", Visited) /\ CacheUnchanged
     ELSE Enter(call.table, call.node)

(* serve_indexed_list *)
IndexReply(n, table, index, crc) ==
  LET offered == Listed(n, table)
  IN [status |-> IF (index # 0 /\ crc # offered) \/ index > Len(offered) THEN "CHANGED"
                 ELSE IF index < Len(offered) THEN "ITEM" ELSE "END",
      total |-> Len(offered), crc |-> offered,
      item |-> IF index < Len(offered) THEN offered[index + 1] ELSE NoSlot]

Duplicate(d) == \E i \in 1..count : slots[i].id = d.id \/ slots[i].name = d.name

(* The reply belongs to the list the walk began with.                       *)
Accepted(reply) ==
  /\ reply.crc = (IF walk.index = 0 THEN reply.crc ELSE walk.crc)
  /\ reply.total = (IF walk.index = 0 THEN reply.total ELSE Len(walk.crc))
  /\ reply.total <= PoolSize

Whole_AnyTable(table) == TRUE

(* "The cache is only complete when the whole node was asked for."          *)
Whole(table) == table = 0

FailRefresh(result) == ClearFor(0) /\ Fail(result) /\ UNCHANGED <<value, slots>>

RefreshItem ==
  /\ call.step = "refresh"
  /\ LET reply == IndexReply(call.node, walk.table, walk.index, walk.crc)
     IN /\ Accepted(reply) /\ reply.status = "ITEM" /\ ~Duplicate(reply.item)
        /\ slots' = [slots EXCEPT ![count + 1] = reply.item]
        /\ count' = count + 1
        /\ walk' = [walk EXCEPT !.index = @ + 1, !.crc = reply.crc]
  /\ UNCHANGED <<list, value, node, complete, call, window, answer, fresh, restarts, sets>>

(* received_crc is the checksum of the items received.                      *)
RefreshEnd ==
  /\ call.step = "refresh"
  /\ LET reply == IndexReply(call.node, walk.table, walk.index, walk.crc)
     IN Accepted(reply) /\ reply.status = "END" /\ Cached = reply.crc
  /\ complete' = Whole(walk.table)
  /\ UNCHANGED <<value, slots, count, node, fresh>>
  /\ \/ /\ call.kind \in {"refresh", "visit"}
        /\ Finish("ok", Visited)
     \/ /\ call.kind \in {"many", "set"}
        /\ call' = [call EXCEPT !.step = "listed"]
        /\ walk' = NoWalk
        /\ UNCHANGED <<list, window, answer, restarts, sets>>

RefreshRefused ==
  /\ call.step = "refresh"
  /\ LET reply == IndexReply(call.node, walk.table, walk.index, walk.crc)
     IN ~Accepted(reply) \/ reply.status = "CHANGED" \/ (reply.status = "ITEM" /\ Duplicate(reply.item))
  /\ FailRefresh("EBADMSG")

RefreshUnanswered == call.step = "refresh" /\ FailRefresh("ETIMEDOUT")

----------------------------------------------------------------------------
(* find_remote, lookup_remote, stage_remote_descriptor *)

Wanted == call.names[Len(call.got) + Len(window) + 1]

SlotOf(name) == {i \in 1..count : slots[i].name = name}

(* Names are resolved until the window is full, then read or written.       *)
Resolved(slot) ==
  /\ window' = Append(window, slot)
  /\ call' = [call EXCEPT !.step =
                IF call.kind = "set" THEN "push"
                ELSE IF Len(window) + 1 = BatchMax
                        \/ Len(call.got) + Len(window) + 1 = Len(call.names)
                THEN "pull" ELSE "find"]
  /\ UNCHANGED <<list, walk, answer, restarts, sets>>

FindCached_AnyNode ==
  /\ call.step = "find"
  /\ \E i \in SlotOf(Wanted) : Resolved(i)
  /\ CacheUnchanged

FindCached ==
  /\ call.step = "find" /\ node = call.node
  /\ \E i \in SlotOf(Wanted) : Resolved(i)
  /\ CacheUnchanged

FindMissing ==
  /\ call.step = "find" /\ node = call.node /\ complete /\ SlotOf(Wanted) = {}
  /\ Fail("ENOENT") /\ CacheUnchanged

Lookup ==
  /\ call.step = "find"
  /\ node = call.node => SlotOf(Wanted) = {} /\ ~complete

LookupFull == Lookup /\ count >= PoolSize /\ Fail("ENOSPC") /\ CacheUnchanged

(* csp_connect or csp_buffer_get fails.                                     *)
LookupNotSent == Lookup /\ count < PoolSize /\ Fail("ECONNREFUSED") /\ CacheUnchanged

(* serve_lookup finds the name; the descriptor is staged.                   *)
LookupFound ==
  /\ Lookup /\ count < PoolSize
  /\ \E d \in ToSet(list[call.node]) :
       /\ d.name = Wanted
       /\ LET held == IF node = call.node THEN count ELSE 0
          IN IF held > 0 /\ Duplicate(d)
             THEN Fail("EEXIST") /\ CacheUnchanged
             ELSE /\ slots' = [slots EXCEPT ![held + 1] = d]
                  /\ count' = held + 1
                  /\ node' = call.node
                  /\ complete' = FALSE
                  /\ fresh' = (held = 0 \/ fresh)
                  /\ Resolved(held + 1)
                  /\ UNCHANGED value

LookupAbsent ==
  /\ Lookup /\ count < PoolSize
  /\ \A d \in ToSet(list[call.node]) : d.name # Wanted
  /\ Fail("ENOENT") /\ CacheUnchanged

(* "No answer: an older node without lookup support."  Its list is walked.  *)
LookupUnanswered == Lookup /\ count < PoolSize /\ Enter(0, call.node)

FindListed ==
  /\ call.step = "listed"
  /\ \/ \E i \in SlotOf(Wanted) : Resolved(i)
     \/ SlotOf(Wanted) = {} /\ Fail("ENOENT")
  /\ CacheUnchanged

----------------------------------------------------------------------------
(* get_many: pull_remote_batch, decode_reply, read_scalar *)

(* What the node holds under an id: the name says whose value it is.        *)
HeldAt(n, id) == {<<d.name, value[n][d.name]>> : d \in {e \in ToSet(list[n]) : e.id = id}}

Pull ==
  /\ call.step = "pull"
  /\ \A k \in 1..Len(window) : HeldAt(call.node, slots[window[k]].id) # {}
  /\ LET got == call.got \o [k \in 1..Len(window) |->
                               CHOOSE v \in HeldAt(call.node, slots[window[k]].id) : TRUE]
     IN IF Len(got) = Len(call.names)
        THEN Finish("ok", got)
        ELSE /\ call' = [call EXCEPT !.step = "find", !.got = got]
             /\ window' = <<>>
             /\ UNCHANGED <<list, walk, answer, restarts, sets>>
  /\ CacheUnchanged

(* A value is missing from the replies.                                     *)
PullIncomplete ==
  /\ call.step = "pull"
  /\ \E k \in 1..Len(window) : HeldAt(call.node, slots[window[k]].id) = {}
  /\ Fail("EBADMSG") /\ CacheUnchanged

PullUnanswered == call.step = "pull" /\ Fail("ETIMEDOUT") /\ CacheUnchanged

----------------------------------------------------------------------------
(* set_remote, push_remote; at the node push_allowed and param_serve *)

PushAllowed_ReadOnly(n, id) == {d \in ToSet(list[n]) : d.id = id}

(* push_allowed: an unknown or read-only parameter is refused, silently.    *)
PushAllowed(n, id) == {d \in ToSet(list[n]) : d.id = id /\ ~d.ro}

Written(n, id) ==
  [value EXCEPT ![n] = [m \in Names |-> IF \E d \in PushAllowed(n, id) : d.name = m THEN 1 ELSE @[m]]]

PushReadOnly ==
  /\ call.step = "push" /\ slots[window[1]].ro
  /\ Fail("EACCES") /\ CacheUnchanged

(* The request arrives, or not; the answer arrives, or not.                 *)
Push(arrives, answered) ==
  /\ call.step = "push" /\ ~slots[window[1]].ro
  /\ LET id == slots[window[1]].id
     IN /\ answered => arrives /\ PushAllowed(call.node, id) # {}
        /\ value' = IF arrives THEN Written(call.node, id) ELSE value
  /\ Fail(IF answered THEN "ok" ELSE "ETIMEDOUT")
  /\ UNCHANGED <<slots, count, node, complete, fresh>>

----------------------------------------------------------------------------
(* kfsw_param_remote_tables; at the node serve_tables, append_table *)

PageOf(n, from) == SubSeq(Tables(n), from + 1, from + PageMax)

Page ==
  /\ call.step = "page"
  /\ LET page == PageOf(call.node, walk.index)
         more == walk.index + Len(page) < Len(Tables(call.node))
         pages == walk.pages \o page
     IN IF more /\ page # <<>>
        THEN /\ walk' = [walk EXCEPT !.index = @ + Len(page), !.pages = pages]
             /\ UNCHANGED <<list, call, window, answer, restarts, sets>>
        ELSE IF more THEN Fail("EBADMSG") ELSE Finish("ok", pages)
  /\ CacheUnchanged

PageUnanswered ==
  /\ call.step = "page"
  /\ Fail(IF walk.index = 0 THEN "ENOTSUP" ELSE "ETIMEDOUT") /\ CacheUnchanged

----------------------------------------------------------------------------
(* The remote node restarts with other firmware; values it keeps stay.      *)
Restart(n) ==
  /\ restarts < MaxRestarts
  /\ \E f \in Firmware : f # list[n] /\ list' = [list EXCEPT ![n] = f]
  /\ restarts' = restarts + 1
  /\ fresh' = (fresh /\ n # node)
  /\ call' = [call EXCEPT !.steady = @ /\ n # call.node]
  /\ answer' = NoAnswer
  /\ UNCHANGED <<value, slots, count, node, complete, window, walk, sets>>

Init ==
  /\ list \in [Nodes -> Firmware]
  /\ value = [n \in Nodes |-> [m \in Names |-> 0]]
  /\ slots = [i \in 1..PoolSize |-> NoSlot]
  /\ count = 0 /\ node = 0 /\ complete = FALSE
  /\ call = Idle /\ window = <<>> /\ walk = NoWalk /\ answer = NoAnswer
  /\ fresh = TRUE /\ restarts = 0 /\ sets = 0

Find == FindCached \/ FindMissing \/ LookupFull \/ LookupNotSent \/ LookupFound \/ LookupAbsent
          \/ LookupUnanswered \/ FindListed

RefreshTable == Begin \/ RefreshItem \/ RefreshEnd \/ RefreshRefused \/ RefreshUnanswered

Transfer ==
  \/ Pull \/ PullIncomplete \/ PullUnanswered
  \/ PushReadOnly \/ (\E a, b \in BOOLEAN : Push(a, b))
  \/ Page \/ PageUnanswered

Next ==
  \/ \E n \in Nodes :
       \/ \E names \in Requests : Call("many", n, names, 0)
       \/ \E m \in Names : Call("set", n, <<m>>, 0)
       \/ \E t \in 0..2 : Call("visit", n, <<>>, t)
       \/ Call("refresh", n, <<>>, 0) \/ Call("tables", n, <<>>, 0)
       \/ Restart(n)
  \/ Find \/ RefreshTable \/ Transfer

Spec == Init /\ [][Next]_vars

----------------------------------------------------------------------------
TypeOK ==
  /\ list \in [Nodes -> Firmware]
  /\ count \in 0..PoolSize /\ node \in Nodes \cup {0} /\ complete \in BOOLEAN
  /\ \A k \in 1..Len(window) : window[k] \in 1..PoolSize
  /\ walk.index \in 0..PoolSize

(* "publish it only after count and CRC verification": a complete cache is  *)
(* the list of one firmware as a whole, never a mixture of two or a table   *)
(* of it, and it is the node's list unless the node restarted since.        *)
CompleteIsWhole ==
  complete => Cached \in Firmware /\ (fresh => Cached = list[node])

(* A call that answers -ENOENT without asking the node, or after it, is     *)
(* right: no name it asked for is missed while the node keeps its firmware. *)
AbsentIsAbsent ==
  answer.result = "ENOENT" /\ answer.call.steady
    => \E k \in 1..Len(answer.call.names) :
         \A d \in ToSet(list[answer.call.node]) : d.name # answer.call.names[k]

Named(a) ==
  \A k \in 1..Len(a.got) : a.got[k] = <<a.call.names[k], value[a.call.node][a.call.names[k]]>>

(* A successful read gives each name its own value, when the cache was not  *)
(* cleared between the resolution of its first name and its last.           *)
ValuesAreNamed ==
  answer.result = "ok" /\ answer.call.kind = "many"
  /\ answer.call.steady /\ ~answer.call.rebuilt
    => Named(answer)

(* parameter.h on kfsw_param_remote_get_many: "Returns 0 with every value   *)
(* filled, or an errno if any value is missing."                            *)
ManyIsComplete ==
  answer.result = "ok" /\ answer.call.kind = "many" /\ answer.call.steady
    => Named(answer)

(* A write that is reported done was done; one refused for its flags was    *)
(* not, and a parameter that every firmware marks read-only never changes,  *)
(* whatever firmware the descriptor came from.                              *)
SetIsTruthful ==
  /\ answer.result = "ok" /\ answer.call.kind = "set" /\ answer.call.steady
       => value[answer.call.node][answer.call.names[1]] = 1
  /\ \A n \in Nodes, m \in Names :
       (\A f \in Firmware : \A i \in 1..Len(f) : f[i].name = m => f[i].ro) => value[n][m] = 0

(* The pages of a table listing are together the node's tables, each once,  *)
(* while the node keeps its firmware.                                       *)
PagesAreTables ==
  answer.result = "ok" /\ answer.call.kind = "tables" /\ answer.call.steady
    => answer.got = Tables(answer.call.node)
=============================================================================
