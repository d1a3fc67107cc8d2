------------------------------- MODULE Remexec -------------------------------
(***************************************************************************)
(* Remote execution (remexec/remexec.c, remexec_csp.c, remexec_protocol.c): *)
(* a node asks another to list, or to run one of, the shell commands it     *)
(* offers.  The serving node has one server thread, one capture shell and   *)
(* one executor mutex, which a local caller of kfsw_remexec_run_local       *)
(* contends for.  A requester that timed out has left its request behind at *)
(* the server.  A line is known by the properties of the command it names,  *)
(* and an output is a sequence of chunks, each known by the request whose   *)
(* command printed it.                                                      *)
(***************************************************************************)
EXTENDS Naturals, Sequences, SequencesExt

CONSTANTS
  Commands,      \* line -> [refusal, prints, result]: what check, shell and handler make of it
  Listing,       \* chunks of the listing (one per offered command)
  OutputMax,     \* KFSW_REMEXEC_OUTPUT_MAX
  Backlog,       \* connections that wait at the server's socket
  MaxRequests    \* bound: requests made, remote and local

VARIABLES
  initialized,   \* service.initialized
  server_started,
  executor,      \* holder of remexec_executor: "none", "server" or "local"
  capture,       \* [held, written] of the capture transport
  runner,        \* who -> [at, id, line, left, reply] of a call that lists or runs
  connections,   \* requests that wait at the socket
  packet,        \* the reply on its way, or NoReply
  client,        \* the thread that holds remexec_client_lock
  asked,         \* requests made so far
  line,          \* history: id -> its line
  runs           \* history: id -> how many times its command was executed

vars == <<initialized, server_started, executor, capture, runner, connections, packet, client,
          asked, line, runs>>

Runners == {"server", "local"}
Ids == 1..MaxRequests
List == "list"                 \* stands for the line of KFSW_REMEXEC_OP_LIST

RemexecAssumption ==
  /\ {OutputMax, Backlog, MaxRequests, Listing} \subseteq Nat
  /\ \A l \in DOMAIN Commands: Commands[l].prints \in Nat

NoReply == [id |-> 0]
Idle == [at |-> "idle", id |-> 0, left |-> 0, reply |-> NoReply]
NoClient == [at |-> "idle", id |-> 0, reply |-> NoReply]

(* append and finish: what fits is kept, what does not is counted.          *)
Answer(id, status, result, text, produced) ==
  LET kept == SubSeq(text, 1, IF Len(text) < OutputMax THEN Len(text) ELSE OutputMax)
  IN [id |-> id, status |-> status, result |-> result, text |-> kept, produced |-> produced,
      dropped |-> produced - Len(kept)]

(* refuse: the reason is the text.                                          *)
Refuse(id, status) == Answer(id, status, 0, <<"reason">>, 1)

(* capture_write: a full buffer drops the chunk and still counts it.        *)
Captured(id) ==
  [held |-> IF Len(capture.held) < OutputMax THEN Append(capture.held, id) ELSE capture.held,
   written |-> capture.written + 1]

(* The capture as a run finds it.                                           *)
Cleared_OnlyHeld == [held |-> <<>>, written |-> capture.written]
Cleared == [held |-> <<>>, written |-> 0]

----------------------------------------------------------------------------
(* kfsw_remexec_init: once; a bad list, or a shell that is not ready, leaves *)
(* the service uninitialised.                                               *)
kfsw_remexec_init ==
  /\ ~initialized /\ initialized' = TRUE
  /\ UNCHANGED <<server_started, executor, capture, runner, connections, packet, client, asked,
                 line, runs>>

kfsw_remexec_server_start ==
  /\ initialized /\ ~server_started /\ server_started' = TRUE
  /\ UNCHANGED <<initialized, executor, capture, runner, connections, packet, client, asked,
                 line, runs>>

(* The guard K_NO_WAIT of k_mutex_lock.                                     *)
Busy == executor # "none"

(* kfsw_remexec_list_local and the checks of kfsw_remexec_run_local, up to  *)
(* the start of the command.                                                *)
Take(who, id, what) ==
  LET replies(reply) ==
        /\ runner' = [runner EXCEPT ![who] = [at |-> "reply", id |-> id, left |-> 0, reply |-> reply]]
        /\ UNCHANGED <<executor, capture, runs>>
  IN IF ~initialized
       THEN replies(Refuse(id, "UNAVAILABLE"))
     ELSE IF what = List
       THEN replies(Answer(id, "OK", 0, [i \in 1..Listing |-> id], Listing))
     ELSE IF Commands[what].refusal # "none"
       THEN replies(Refuse(id, Commands[what].refusal))
     ELSE IF Busy
       THEN replies(Refuse(id, "BUSY"))
     ELSE /\ executor' = who
          /\ capture' = Cleared
          /\ runs' = [runs EXCEPT ![id] = @ + 1]
          /\ runner' = [runner EXCEPT ![who] = [at |-> "run", id |-> id,
                                                left |-> Commands[what].prints, reply |-> NoReply]]

(* The command prints.                                                      *)
capture_write(who) ==
  LET r == runner[who]
  IN /\ r.at = "run" /\ r.left > 0
     /\ capture' = Captured(r.id)
     /\ runner' = [runner EXCEPT ![who].left = @ - 1]
     /\ UNCHANGED <<initialized, server_started, executor, connections, packet, client, asked,
                    line, runs>>

(* kfsw_remexec_run_local once the command has returned, in time or late.   *)
Returned(who, late) ==
  LET r == runner[who]
      result == Commands[line[r.id]].result
      status == IF late THEN "TIMEOUT" ELSE IF result # 0 THEN "FAILED" ELSE "OK"
  IN /\ r.at = "run" /\ r.left = 0
     /\ executor' = "none"
     /\ runner' = [runner EXCEPT ![who].at = "reply",
                                 ![who].reply = Answer(r.id, status, result, capture.held,
                                                       capture.written)]
     /\ UNCHANGED <<initialized, server_started, capture, connections, packet, client, asked,
                    line, runs>>

----------------------------------------------------------------------------
(* remexec_server and serve_request: the first connection is accepted, its  *)
(* request read and decoded; a request that was lost is waited for in vain. *)
Serve(lost) ==
  LET id == Head(connections)
  IN /\ server_started /\ runner["server"].at = "idle" /\ connections # <<>>
     /\ connections' = Tail(connections)
     /\ IF lost
        THEN UNCHANGED <<executor, capture, runner, runs>>
        ELSE Take("server", id, line[id])
     /\ UNCHANGED <<initialized, server_started, packet, client, asked, line>>

(* send_reply: without a buffer, or with the requester gone, nobody sees it. *)
send_reply(sent) ==
  /\ runner["server"].at = "reply"
  /\ packet' = IF sent /\ client.id = runner["server"].id /\ client.at = "wait"
               THEN runner["server"].reply ELSE packet
  /\ runner' = [runner EXCEPT !["server"] = Idle]
  /\ UNCHANGED <<initialized, server_started, executor, capture, connections, client, asked,
                 line, runs>>

(* request and exchange, up to the wait, under remexec_client_lock.  A line *)
(* too long is refused by encode_request before anything is sent.           *)
Ask(what) ==
  /\ client.at = "idle" /\ asked < MaxRequests
  /\ what # List => Commands[what].refusal # "TOO_LONG"
  /\ asked' = asked + 1
  /\ line' = Append(line, what)
  /\ client' = [at |-> "wait", id |-> asked + 1, reply |-> NoReply]
  /\ connections' = IF server_started /\ Len(connections) < Backlog
                    THEN Append(connections, asked + 1) ELSE connections
  /\ UNCHANGED <<initialized, server_started, executor, capture, runner, packet, runs>>

(* csp_read returns the reply of this connection, or nothing in time.       *)
Receive ==
  /\ client.at = "wait" /\ packet # NoReply
  /\ client' = [client EXCEPT !.at = "done", !.reply = packet]
  /\ packet' = NoReply
  /\ UNCHANGED <<initialized, server_started, executor, capture, runner, connections, asked,
                 line, runs>>

Timeout ==
  /\ client.at = "wait"
  /\ client' = NoClient /\ packet' = NoReply
  /\ UNCHANGED <<initialized, server_started, executor, capture, runner, connections, asked,
                 line, runs>>

Answered ==
  /\ client.at = "done" /\ client' = NoClient
  /\ UNCHANGED <<initialized, server_started, executor, capture, runner, connections, packet,
                 asked, line, runs>>

(* A caller of kfsw_remexec_run_local on the serving node.                  *)
Local(what) ==
  /\ runner["local"].at = "idle" /\ asked < MaxRequests
  /\ asked' = asked + 1
  /\ line' = Append(line, what)
  /\ Take("local", asked + 1, what)
  /\ UNCHANGED <<initialized, server_started, connections, packet, client>>

LocalReturns ==
  /\ runner["local"].at = "reply"
  /\ runner' = [runner EXCEPT !["local"] = Idle]
  /\ UNCHANGED <<initialized, server_started, executor, capture, connections, packet, client,
                 asked, line, runs>>

----------------------------------------------------------------------------
Init ==
  /\ initialized = FALSE /\ server_started = FALSE
  /\ executor = "none" /\ capture = [held |-> <<>>, written |-> 0]
  /\ runner = [who \in Runners |-> Idle]
  /\ connections = <<>> /\ packet = NoReply /\ client = NoClient
  /\ asked = 0 /\ line = <<>> /\ runs = [id \in Ids |-> 0]

Next ==
  \/ kfsw_remexec_init \/ kfsw_remexec_server_start
  \/ \E who \in Runners: capture_write(who) \/ \E late \in BOOLEAN: Returned(who, late)
  \/ \E lost \in BOOLEAN: Serve(lost)
  \/ \E sent \in BOOLEAN: send_reply(sent)
  \/ \E what \in DOMAIN Commands \union {List}: Ask(what)
  \/ Receive \/ Timeout \/ Answered
  \/ \E what \in DOMAIN Commands: Local(what)
  \/ LocalReturns

Spec == Init /\ [][Next]_vars

----------------------------------------------------------------------------
(* The answers a requester and a local caller hold.                         *)
Answers ==
  {client.reply, runner["local"].reply} \ {NoReply}

(* An answer tells what became of its own request and of no other: a        *)
(* refused command never ran; one that ran did so once, and the result, the *)
(* text and the count of what is missing from it are of that run, although  *)
(* all runs share a capture buffer and requests of requesters that gave up  *)
(* are still served (remexec.h: "says how many it dropped, so ... an        *)
(* operator is never left guessing whether the output was complete").       *)
AnswerIsOfItsRun ==
  \A a \in Answers:
    LET command == Commands[line[a.id]]
    IN line[a.id] # List =>
         IF a.status \in {"OK", "FAILED", "TIMEOUT"}
         THEN /\ runs[a.id] = 1
              /\ a.result = command.result /\ a.produced = command.prints
              /\ ToSet(a.text) \subseteq {a.id} /\ Len(a.text) + a.dropped = command.prints
         ELSE runs[a.id] = 0

=============================================================================
