----------------------------- MODULE CommandRetry ----------------------------
(***************************************************************************)
(* Ticketed remote commands: the client's invoke_remote with retry          *)
(* (src/command/command_csp.c), the server's command thread, and the cache  *)
(* of tickets it answers from (src/command/command_retry.c).                *)
(*                                                                          *)
(* The link loses, delays, duplicates and reorders packets: net holds every *)
(* packet sent, and any of them may be received at any time, any number of  *)
(* times or never.  Each attempt of the client is a connection of its own,  *)
(* so it only sees replies to that attempt, and a reply to an attempt that  *)
(* is over finds its connection closed.  The server's cache entries         *)
(* expire at any time after they are made, and a reset loses them all.      *)
(* Nonces and tickets are 64-bit random numbers: no value comes up twice,   *)
(* so a request that names an entry's nonce or ticket also matches the rest *)
(* of it, and matches() in the cache always holds.                          *)
(***************************************************************************)
EXTENDS Integers, Sequences

CONSTANTS
  Calls,        \* invocations, each with its own nonce and request
  NodeOf(_),    \* the node that makes a call
  Results,      \* the statuses a handler that ran may report
  Refusals,     \* the statuses a request may get without its handler being run
  Slots,        \* entries of kfsw_command_retry_cache
  Attempts,     \* attempts per phase
  MaxTickets    \* bound: tickets handed out in a behaviour

Statuses == Results \cup Refusals

(* A status may be in both: a handler reports BUSY, UNAVAILABLE or          *)
(* INVALID_ARGUMENT too (fbo_commands.c).  Only OK is never a refusal.      *)
ASSUME RetryAssumption ==
  /\ Attempts \in Nat \ {0} /\ MaxTickets \in Nat
  /\ "OK" \notin Refusals /\ {"BUSY", "UNAVAILABLE", "INVALID_ARGUMENT"} \subseteq Refusals
  /\ Statuses \cap {"Pending", "NoTicket", "NoReply"} = {}

VARIABLES
  phase,    \* where invoke_remote is, for each call
  attempt,  \* its attempt in that phase
  token,    \* the ticket it got, 0 before
  answer,   \* what it returned
  cache,    \* the server's entries
  tickets,  \* tickets handed out so far
  net,      \* packets sent: requests, and replies on an open connection
  ran       \* history: results of the handler's runs for each call

client == <<phase, attempt, token, answer>>
server == <<cache, tickets>>
vars == <<client, server, net, ran>>

NoEntry == [ticket |-> 0]
Tickets == 1..MaxTickets
Phases == {"idle", "PREPARE", "EXECUTE", "done"}

Request(c, op, t, n) == [op |-> op, call |-> c, token |-> t, conn |-> n]

Reply(m, t, s) == [op |-> IF m.op = "PREPARE" THEN "TICKET" ELSE "RESULT",
                   call |-> m.call, token |-> t, conn |-> m.conn, status |-> s]

(* The client still waits on the connection a request came by.              *)
Open(m) == phase[m.call] = m.op /\ attempt[m.call] = m.conn

(* csp_close: replies that arrive later are dropped.                        *)
Closed(c) == {m \in net : m.call # c \/ m.op \in {"PREPARE", "EXECUTE"}}

----------------------------------------------------------------------------
(* The client: invoke_remote, exchange, receive_result. *)

(* command_client_lock: one call at a time on each node.                    *)
ClientFree(c) == \A d \in Calls : NodeOf(d) = NodeOf(c) => phase[d] \in {"idle", "done"}

Invoke(c) ==
  /\ phase[c] = "idle" /\ ClientFree(c)
  /\ phase' = [phase EXCEPT ![c] = "PREPARE"]
  /\ attempt' = [attempt EXCEPT ![c] = 1]
  /\ net' = net \cup {Request(c, "PREPARE", 0, 1)}
  /\ UNCHANGED <<token, answer, server, ran>>

Return(c, a) ==
  /\ phase' = [phase EXCEPT ![c] = "done"]
  /\ answer' = [answer EXCEPT ![c] = a]
  /\ net' = Closed(c)

(* A negative outcome.  The caller can tell the phase: result->status is    *)
(* UNAVAILABLE until the ticket came and OK from then on.                   *)
NoAnswer(c) == IF phase[c] = "PREPARE" THEN "NoTicket" ELSE "NoReply"

(* The reply to the attempt in progress: its connection, opcode and call    *)
(* are checked, and its ticket in the second phase.                         *)
Expected(c, m) ==
  /\ m.call = c /\ m.conn = attempt[c]
  /\ \/ phase[c] = "PREPARE" /\ m.op = "TICKET"
     \/ phase[c] = "EXECUTE" /\ m.op = "RESULT" /\ m.token = token[c]

StartExecute(c, t) ==
  /\ phase' = [phase EXCEPT ![c] = "EXECUTE"]
  /\ attempt' = [attempt EXCEPT ![c] = 1]
  /\ token' = [token EXCEPT ![c] = t]
  /\ net' = Closed(c) \cup {Request(c, "EXECUTE", t, 1)}
  /\ UNCHANGED answer

(* The status ends the call in either phase, but for the OK that comes with *)
(* a ticket; nothing in it says whether a handler or a refusal set it.      *)
Receive(c, m) ==
  /\ m \in net /\ Expected(c, m)
  /\ IF phase[c] = "PREPARE" /\ m.status = "OK"
     THEN StartExecute(c, m.token)
     ELSE Return(c, m.status) /\ UNCHANGED <<attempt, token>>
  /\ UNCHANGED <<server, ran>>

(* -ETIMEDOUT or -ECONNREFUSED: another attempt, up to the last.            *)
Timeout(c) ==
  /\ phase[c] \in {"PREPARE", "EXECUTE"}
  /\ IF attempt[c] < Attempts
     THEN /\ attempt' = [attempt EXCEPT ![c] = @ + 1]
          /\ net' = Closed(c) \cup {Request(c, phase[c], token[c], attempt[c] + 1)}
          /\ UNCHANGED <<phase, answer>>
     ELSE Return(c, NoAnswer(c)) /\ UNCHANGED attempt
  /\ UNCHANGED <<token, server, ran>>

(* Any other error of an exchange ends the call: no buffer, a bad reply.    *)
ExchangeFails(c) ==
  /\ phase[c] \in {"PREPARE", "EXECUTE"}
  /\ Return(c, NoAnswer(c))
  /\ UNCHANGED <<attempt, token, server, ran>>

----------------------------------------------------------------------------
(* The server: kfsw_command_retry_dispatch. *)

Entry(c, t) ==
  [ticket |-> t, source |-> NodeOf(c), nonce |-> c, complete |-> FALSE, result |-> "none"]

Live(i) == cache[i] # NoEntry

Prepared(m) == {i \in Slots : Live(i) /\ cache[i].source = NodeOf(m.call) /\ cache[i].nonce = m.call}

Ticketed(m) ==
  {i \in Slots : Live(i) /\ cache[i].source = NodeOf(m.call) /\ cache[i].ticket = m.token}

Answers(m, t, s) == net' = IF Open(m) THEN net \cup {Reply(m, t, s)} ELSE net

Prepare(m) ==
  /\ m \in net /\ m.op = "PREPARE"
  /\ \/ \* a repeat: the same ticket again
        \E i \in Prepared(m) : Answers(m, cache[i].ticket, "OK") /\ UNCHANGED server
     \/ /\ Prepared(m) = {}
        /\ \A i \in Slots : Live(i)
        /\ Answers(m, 0, "BUSY") /\ UNCHANGED server
     \/ \* no random number, or arguments that cannot be decoded
        /\ Prepared(m) = {}
        /\ \E i \in Slots : ~Live(i)
        /\ \E s \in {"UNAVAILABLE", "INVALID_ARGUMENT"} : Answers(m, 0, s)
        /\ UNCHANGED server
     \/ /\ Prepared(m) = {}
        /\ tickets < MaxTickets
        /\ tickets' = tickets + 1
        /\ \E i \in Slots : ~Live(i) /\ cache' = [cache EXCEPT ![i] = Entry(m.call, tickets + 1)]
        /\ Answers(m, tickets + 1, "OK")
  /\ UNCHANGED <<client, ran>>

Remember(i, s) == cache' = [cache EXCEPT ![i].complete = TRUE, ![i].result = s]

(* The ticket's first EXECUTE: the handler runs, or dispatch refuses (an    *)
(* unknown command, bad arguments, a claimed command path); either is       *)
(* remembered.                                                              *)
ExecuteFirst(m, i) ==
  \/ \E r \in Results :
       /\ ran' = [ran EXCEPT ![m.call] = Append(@, r)]
       /\ Remember(i, r) /\ Answers(m, m.token, r)
  \/ \E s \in Refusals : Remember(i, s) /\ Answers(m, m.token, s) /\ UNCHANGED ran

ExecuteUnknown_RunsAnyway(m) ==
  \E r \in Results :
    /\ ran' = [ran EXCEPT ![m.call] = Append(@, r)]
    /\ Answers(m, m.token, r)
    /\ UNCHANGED cache

(* "ticket expired or unknown; outcome may be unknown"                      *)
ExecuteUnknown(m) == Answers(m, m.token, "UNAVAILABLE") /\ UNCHANGED <<cache, ran>>

Execute(m) ==
  /\ m \in net /\ m.op = "EXECUTE"
  /\ \/ Ticketed(m) = {} /\ ExecuteUnknown(m)
     \/ \E i \in Ticketed(m) :
          IF cache[i].complete
          THEN Answers(m, m.token, cache[i].result) /\ UNCHANGED <<cache, ran>>
          ELSE ExecuteFirst(m, i)
  /\ UNCHANGED <<client, tickets>>

(* now >= expires: the entry counts as free from then on.                   *)
Expire(i) ==
  /\ Live(i)
  /\ cache' = [cache EXCEPT ![i] = NoEntry]
  /\ UNCHANGED <<client, tickets, net, ran>>

ServerReset ==
  /\ cache' = [i \in Slots |-> NoEntry]
  /\ UNCHANGED <<client, tickets, net, ran>>

----------------------------------------------------------------------------
Init ==
  /\ phase = [c \in Calls |-> "idle"]
  /\ attempt = [c \in Calls |-> 0]
  /\ token = [c \in Calls |-> 0]
  /\ answer = [c \in Calls |-> "Pending"]
  /\ cache = [i \in Slots |-> NoEntry]
  /\ tickets = 0
  /\ net = {}
  /\ ran = [c \in Calls |-> <<>>]

Client(c) == Invoke(c) \/ (\E m \in net : Receive(c, m)) \/ Timeout(c) \/ ExchangeFails(c)

Server == (\E m \in net : Prepare(m) \/ Execute(m)) \/ (\E i \in Slots : Expire(i)) \/ ServerReset

Next == (\E c \in Calls : Client(c)) \/ Server

Spec == Init /\ [][Next]_vars

----------------------------------------------------------------------------
TypeOK ==
  /\ phase \in [Calls -> Phases]
  /\ attempt \in [Calls -> 0..Attempts]
  /\ token \in [Calls -> {0} \cup Tickets]
  /\ answer \in [Calls -> Statuses \cup {"Pending", "NoTicket", "NoReply"}]
  /\ tickets \in 0..MaxTickets
  /\ \A i \in Slots : Live(i) =>
       /\ cache[i].ticket \in 1..tickets
       /\ cache[i].nonce \in Calls
       /\ cache[i].result \in Statuses \cup {"none"}

Promise == INSTANCE AtMostOnceCall

(* Ticketed calls keep the promise of AtMostOnceCall: the handler of a call *)
(* runs at most once; OK, and every other status no refusal uses, is the    *)
(* result of that run; a status refusals use as well was set by that run or *)
(* the handler never runs, except UNAVAILABLE, which leaves open what       *)
(* happened but not that it is over.  This holds whatever the link repeats, *)
(* delays and reorders, and across expiry, slot reuse and resets of the     *)
(* server (command_retry.c, command_csp.c invoke_remote).                   *)
KeepsPromise == Promise!Spec
=============================================================================
