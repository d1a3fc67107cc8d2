------------------------------- MODULE LogRead -------------------------------
(***************************************************************************)
(* The log history (src/log_history.c) and its reading from another node    *)
(* (src/log_remote.c).  Messages go into a ring in memory that a reset      *)
(* does not clear; a server answers a read with the bounds of a window, its *)
(* records one by one, and an end, taking the ring's lock anew for each     *)
(* record while writers go on.  Journal records are served by their age.    *)
(* Packets may be lost, and a reader that gave up may find the rest of an   *)
(* older answer on its next connection.                                     *)
(***************************************************************************)
EXTENDS Integers, Sequences, SequencesExt

CONSTANTS
  Streams,      \* the streams a reader asks for: "log", "journal"
  Depth,        \* CONFIG_KFSW_LOG_HISTORY_DEPTH, and the journal's capacity
  Severities,   \* severities of messages, and minimum levels of reads
  Counts,       \* numbers of records asked for
  MaxMessages,  \* bound: messages written
  MaxEvents,    \* bound: journal records written
  Nonces,       \* tell the reads apart whose packets are still about
  MaxFaults     \* bound: packets lost and resets of the serving node

VARIABLES
  header,    \* retained: next_sequence, whether the image is the running one's, whether the CRC is right
  records,   \* retained: the ring
  restored,
  journal,   \* sequence of the newest journal record
  request,   \* the request on its way to the server, or NoRequest
  server,    \* the read being served
  link,      \* replies on their way to the reader
  faults,    \* packets lost and resets so far
  reader,    \* the read in progress, or the last one
  offered    \* history: what the window of the reader's request held when the server took it

history == <<header, records, restored, journal>>
service == <<request, server, link, faults>>
vars == <<history, service, reader, offered>>

NoRequest == [nonce |-> 0, stream |-> "log", count |-> 0, minimum |-> 0]
Idle == [at |-> "idle", ask |-> NoRequest, first |-> 0, end |-> 0, sent |-> 0, status |-> "COMPLETE"]
NoRecord == [sequence |-> 0, severity |-> 0, whole |-> TRUE]

Lesser(a, b) == IF a < b THEN a ELSE b

----------------------------------------------------------------------------
(* log_history.c: the retained ring *)

Slot(sequence) == (sequence - 1) % Depth

(* the header check of restore_once *)
RetainedValid == header.ours /\ header.next > 0 /\ header.crc

(* restore_once: the header every use of the ring in this boot goes by *)
Restored ==
  IF restored \/ RetainedValid THEN header ELSE [next |-> 1, ours |-> TRUE, crc |-> TRUE]

(* kfsw_log_history_append: the record takes its slot, then the header's     *)
(* CRC follows its next_sequence.                                            *)
Recorded(severity, whole) ==
  /\ Restored.next <= MaxMessages
  /\ records' = [records EXCEPT ![Slot(Restored.next)] =
                   [sequence |-> Restored.next, severity |-> severity, whole |-> whole]]
  /\ header' = [Restored EXCEPT !.next = @ + 1, !.crc = whole]

kfsw_log_history_append(severity) ==
  /\ Recorded(severity, TRUE)
  /\ restored' = TRUE
  /\ UNCHANGED <<journal, service, reader, offered>>

(* kfsw_log_history_window: [first, end) of the newest count records *)
Window(count) ==
  LET next == Restored.next
      held == Lesser(next - 1, Depth)
  IN  [first |-> next - Lesser(held, count), end |-> next]

(* kfsw_log_history_get_encoded: -ENOENT, or the slot's record *)
Held_AnySlot(sequence) == sequence < Restored.next
Held(sequence) ==
  /\ sequence # 0 /\ sequence < Restored.next
  /\ Restored.next - sequence <= Depth
  /\ records[Slot(sequence)].sequence = sequence

(* A reset of the serving node: a plain one; one between the record and the  *)
(* header's CRC; one into another image; one that did not keep a slot.       *)
Reset ==
  /\ faults < MaxFaults
  /\ faults' = faults + 1
  /\ restored' = FALSE
  /\ \/ UNCHANGED <<header, records>>
     \/ \E severity \in Severities: Recorded(severity, FALSE)
     \/ header' = [header EXCEPT !.ours = FALSE] /\ UNCHANGED records
     \/ \E s \in DOMAIN records: records' = [records EXCEPT ![s] = NoRecord] /\ UNCHANGED header
  /\ request' = NoRequest
  /\ server' = Idle
  /\ UNCHANGED <<journal, link, reader, offered>>

----------------------------------------------------------------------------
(* the journal, as the server uses it *)

JournalHeld == Lesser(journal, Depth)

(* kfsw_journal_store_get: the record of that age *)
JournalGet(age) == [sequence |-> journal - age, severity |-> 0, whole |-> TRUE]

JournalAppend ==
  /\ journal < MaxEvents
  /\ journal' = journal + 1
  /\ UNCHANGED <<header, records, restored, service, reader, offered>>

----------------------------------------------------------------------------
(* log_remote.c: the server *)

(* csp_send frees the packet; whether it arrives is the link's affair.       *)
Send(packet) == link' = Append(link, packet)

Reply(type, record, status, sent) ==
  [nonce |-> server.ask.nonce, type |-> type, record |-> record, status |-> status, sent |-> sent]

(* The records a complete answer to a request would hold.                    *)
Considered(ask) ==
  IF ask.stream = "journal"
  THEN LET n == Lesser(ask.count, JournalHeld) IN [i \in 1..n |-> JournalGet(n - i)]
  ELSE LET w == Window(ask.count)
       IN  SelectSeq([i \in 1..w.end - w.first |-> records[Slot(w.first + i - 1)]],
                     LAMBDA r: r.severity >= ask.minimum)

(* serve, and the beginning of serve_log and serve_journal: the bounds are   *)
(* read and the start is sent, or no buffer is left for it.                  *)
Accept(buffer) ==
  /\ server.at = "idle" /\ request # NoRequest
  /\ request' = NoRequest
  /\ LET w == IF request.stream = "journal" THEN [first |-> Lesser(request.count, JournalHeld), end |-> 0]
                                            ELSE Window(request.count)
     IN  IF buffer
         THEN /\ server' = [at |-> "records", ask |-> request, first |-> w.first, end |-> w.end,
                            sent |-> 0, status |-> "COMPLETE"]
              /\ Send([nonce |-> request.nonce, type |-> "START", record |-> NoRecord,
                       status |-> "COMPLETE", sent |-> 0])
         ELSE UNCHANGED <<server, link>>
  /\ offered' = IF request.nonce = reader.ask.nonce THEN Considered(request) ELSE offered
  /\ header' = IF request.stream = "log" THEN Restored ELSE header
  /\ restored' = (restored \/ request.stream = "log")
  /\ UNCHANGED <<records, journal, faults, reader>>

Stop(status) ==
  server' = [server EXCEPT !.at = "end", !.status = status] /\ UNCHANGED link

Sent(record, buffer) ==
  IF buffer
  THEN Send(Reply("RECORD", record, "COMPLETE", 0)) /\ server' = [server EXCEPT !.sent = @ + 1,
         !.first = IF server.ask.stream = "journal" THEN @ - 1 ELSE @ + 1]
  ELSE Stop("NO_BUFFER")

(* the loop of serve_log: by sequence *)
ServeLog(buffer) ==
  /\ server.at = "records" /\ server.ask.stream = "log" /\ server.first < server.end
  /\ LET r == records[Slot(server.first)]
     IN  \/ ~Held(server.first) /\ Stop("CHANGED")
         \/ /\ Held(server.first) /\ r.severity < server.ask.minimum
            /\ server' = [server EXCEPT !.first = @ + 1] /\ UNCHANGED link
         \/ Held(server.first) /\ r.severity >= server.ask.minimum /\ Sent(r, buffer)
  /\ UNCHANGED <<history, request, faults, reader, offered>>

(* the loop of serve_journal: by age, oldest first *)
ServeJournal(buffer) ==
  /\ server.at = "records" /\ server.ask.stream = "journal" /\ server.first > 0
  /\ IF server.first - 1 >= JournalHeld THEN Stop("CHANGED") ELSE Sent(JournalGet(server.first - 1), buffer)
  /\ UNCHANGED <<history, request, faults, reader, offered>>

(* send_end, unless no buffer is left for it; the connection is closed *)
ServeEnd(buffer) ==
  /\ \/ server.at = "end"
     \/ server.at = "records" /\ server.first = server.end
  /\ server' = Idle
  /\ IF buffer THEN Send(Reply("END", NoRecord, server.status, server.sent)) ELSE UNCHANGED link
  /\ UNCHANGED <<history, request, faults, reader, offered>>

----------------------------------------------------------------------------
(* log_remote.c: kfsw_log_remote_read *)

Reading(ask) ==
  [at |-> "reading", ask |-> ask, answered |-> FALSE, seen |-> <<>>, counted |-> -1, result |-> "none"]

Fresh == {n \in Nonces: n # server.ask.nonce /\ \A i \in DOMAIN link: link[i].nonce # n}

Ask(stream, count, minimum) ==
  /\ reader.at = "idle" /\ request = NoRequest /\ Fresh # {}
  /\ stream = "journal" => minimum = 0
  /\ LET ask == [nonce |-> CHOOSE n \in Fresh: TRUE, stream |-> stream,
                 count |-> count, minimum |-> minimum]
     IN  /\ request' = ask
         /\ reader' = Reading(ask)
  /\ offered' = <<>>
  /\ UNCHANGED <<history, server, link, faults>>

Done(result) == [reader EXCEPT !.at = "idle", !.answered = TRUE, !.result = result]

(* A reply of this version with this read's nonce *)
Ours(packet) == packet.nonce = reader.ask.nonce

(* handle_reply; the visitor may ask to stop at a record *)
Handled(packet, stop) ==
  CASE packet.type = "START" -> [reader EXCEPT !.answered = TRUE]
    [] packet.type = "RECORD" ->
         LET r == [reader EXCEPT !.answered = TRUE, !.seen = Append(@, packet.record)]
         IN  IF stop THEN [r EXCEPT !.at = "idle", !.result = "stopped"] ELSE r
    [] packet.type = "END" ->
         [Done(IF packet.status = "COMPLETE" THEN "0" ELSE "-EIO") EXCEPT !.counted = packet.sent]

Receive(stop) ==
  /\ reader.at = "reading" /\ link # <<>>
  /\ reader' = IF Ours(Head(link)) THEN Handled(Head(link), stop) ELSE reader
  /\ link' = Tail(link)
  /\ UNCHANGED <<history, request, server, faults, offered>>

(* csp_read returns nothing in time: the rest is late, or was never sent *)
Timeout ==
  /\ reader.at = "reading"
  /\ reader' = [Reading(NoRequest) EXCEPT !.at = "idle", 
                                          !.result = IF reader.answered THEN "-EIO" ELSE "-ETIMEDOUT"]
  /\ offered' = <<>>
  /\ UNCHANGED <<history, service>>

(* A reply finds its connection closed.                                      *)
Discard ==
  /\ reader.at = "idle" /\ link # <<>>
  /\ link' = Tail(link)
  /\ UNCHANGED <<history, request, server, faults, reader, offered>>

Lose ==
  /\ faults < MaxFaults
  /\ faults' = faults + 1
  /\ \/ request # NoRequest /\ request' = NoRequest /\ UNCHANGED link
     \/ \E i \in DOMAIN link: link' = RemoveAt(link, i) /\ UNCHANGED request
  /\ UNCHANGED <<history, server, reader, offered>>

----------------------------------------------------------------------------
Init ==
  /\ header = [next |-> 1, ours |-> FALSE, crc |-> FALSE]
  /\ records = [s \in 0..Depth - 1 |-> NoRecord]
  /\ restored = FALSE /\ journal = 0
  /\ request = NoRequest /\ server = Idle /\ link = <<>> /\ faults = 0
  /\ reader = [Reading(NoRequest) EXCEPT !.at = "idle"]
  /\ offered = <<>>

Next ==
  \/ \E severity \in Severities: kfsw_log_history_append(severity)
  \/ Reset
  \/ JournalAppend
  \/ \E buffer \in BOOLEAN:
       Accept(buffer) \/ ServeLog(buffer) \/ ServeJournal(buffer) \/ ServeEnd(buffer)
  \/ \E stream \in Streams, count \in Counts, minimum \in Severities: Ask(stream, count, minimum)
  \/ \E stop \in BOOLEAN: Receive(stop)
  \/ Timeout
  \/ Discard
  \/ Lose

Spec == Init /\ [][Next]_vars

----------------------------------------------------------------------------
(* A log read shows only records of the window it was offered, completely   *)
(* written ones of the level asked for, each once and oldest first, whatever *)
(* was overwritten, lost or left over from an older read and wherever the   *)
(* serving node was reset (log_remote.h: "the records received are valid"). *)
SeenIsTrue ==
  reader.ask.stream = "log" =>
    /\ \A i \in DOMAIN reader.seen:
         reader.seen[i].whole /\ \E j \in DOMAIN offered: offered[j] = reader.seen[i]
    /\ \A i, j \in DOMAIN reader.seen: i < j => reader.seen[i].sequence < reader.seen[j].sequence

(* A log read that ended complete and brought as many records as its end    *)
(* counts has every record of its window: the count is enough to tell a     *)
(* complete read from one that lost packets (log_remote.c, send_end).       *)
EndCountTells ==
  reader.ask.stream = "log" /\ reader.result = "0" /\ reader.counted = Len(reader.seen) =>
    reader.seen = offered

(* A read that returns 0 without having been stopped by its visitor brought *)
(* every record (log_remote.h: "Every record arrived, or a callback stopped *)
(* the read.").                                                             *)
ZeroIsEveryRecord == reader.result = "0" => ToSet(offered) \subseteq ToSet(reader.seen)
=============================================================================
