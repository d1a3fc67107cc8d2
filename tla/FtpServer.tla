------------------------------ MODULE FtpServer ------------------------------
(***************************************************************************)
(* The threads of the FTP server (src/ftp/ftp_server.c): the acceptor takes *)
(* connections off the listening socket and hands one at a time to the      *)
(* worker through a queue of one; server_busy says that one is in hand.     *)
(* What is done for a request is in FtpStore.                               *)
(***************************************************************************)
EXTENDS Integers, FiniteSets

CONSTANT Connections

VARIABLES
  pending,      \* connections the socket holds for the acceptor
  closed,       \* connections that were closed
  accepted,     \* the acceptor's link, as a set of at most one
  acceptor,     \* where the acceptor is
  queue,        \* kfsw_ftp_connection_queue
  serving,      \* the worker's link
  worker,       \* where the worker is
  server_busy

vars == <<pending, closed, accepted, acceptor, queue, serving, worker, server_busy>>

Connect(c) ==
  /\ c \notin pending \cup closed \cup accepted \cup queue \cup serving
  /\ pending' = pending \cup {c}
  /\ UNCHANGED <<closed, accepted, acceptor, queue, serving, worker, server_busy>>

----------------------------------------------------------------------------
(* ftp_acceptor *)

Accept(c) ==
  /\ acceptor = "accept" /\ c \in pending
  /\ pending' = pending \ {c}
  /\ accepted' = accepted \cup {c}
  /\ acceptor' = "claim"
  /\ UNCHANGED <<closed, queue, serving, worker, server_busy>>

Claimed_Always == TRUE

(* atomic_cas(&server_busy, 0, 1) *)
Claimed == ~server_busy

Claim ==
  /\ acceptor = "claim"
  /\ acceptor' = IF Claimed THEN "put" ELSE "reject"
  /\ server_busy' = TRUE
  /\ UNCHANGED <<pending, closed, accepted, queue, serving, worker>>

Put ==
  /\ acceptor = "put"
  /\ IF queue = {}
     THEN queue' = accepted /\ accepted' = {} /\ acceptor' = "accept" /\ UNCHANGED server_busy
     ELSE server_busy' = FALSE /\ acceptor' = "reject" /\ UNCHANGED <<queue, accepted>>
  /\ UNCHANGED <<pending, closed, serving, worker>>

Reject_NeverCloses ==
  /\ acceptor = "reject"
  /\ accepted' = {}
  /\ acceptor' = "accept"
  /\ UNCHANGED <<pending, closed, queue, serving, worker, server_busy>>

(* reject_busy_connection; waits for the request at most for the timeout.   *)
Reject ==
  /\ acceptor = "reject"
  /\ closed' = closed \cup accepted
  /\ accepted' = {}
  /\ acceptor' = "accept"
  /\ UNCHANGED <<pending, queue, serving, worker, server_busy>>

----------------------------------------------------------------------------
(* ftp_worker *)

Get ==
  /\ worker = "get" /\ queue # {}
  /\ serving' = queue /\ queue' = {}
  /\ worker' = "serve"
  /\ UNCHANGED <<pending, closed, accepted, acceptor, server_busy>>

(* kfsw_ftp_serve_connection, kfsw_ftp_link_close *)
Serve ==
  /\ worker = "serve"
  /\ closed' = closed \cup serving
  /\ serving' = {}
  /\ worker' = "clear"
  /\ UNCHANGED <<pending, accepted, acceptor, queue, server_busy>>

ClearBusy ==
  /\ worker = "clear"
  /\ server_busy' = FALSE
  /\ worker' = "get"
  /\ UNCHANGED <<pending, closed, accepted, acceptor, queue, serving>>

----------------------------------------------------------------------------
(* A closed connection's slot of the pool is used for the next one.         *)
Recycle(c) ==
  /\ c \in closed
  /\ closed' = closed \ {c}
  /\ UNCHANGED <<pending, accepted, acceptor, queue, serving, worker, server_busy>>

Init ==
  /\ pending = {} /\ closed = {} /\ accepted = {} /\ queue = {} /\ serving = {}
  /\ acceptor = "accept" /\ worker = "get" /\ server_busy = FALSE

Acceptor == (\E c \in pending : Accept(c)) \/ Claim \/ Put \/ Reject
Worker == Get \/ Serve \/ ClearBusy

Next == Acceptor \/ Worker \/ \E c \in Connections : Connect(c) \/ Recycle(c)

Spec == Init /\ [][Next]_vars

(* Both threads run, and the socket is a queue: no connection waits in it   *)
(* while the acceptor takes others for ever.                                *)
Fairness ==
  /\ WF_vars(Worker) /\ WF_vars(Claim \/ Put \/ Reject)
  /\ \A c \in Connections : SF_vars(Accept(c))

FairSpec == Spec /\ Fairness

----------------------------------------------------------------------------
TypeOK ==
  /\ pending \subseteq Connections /\ closed \subseteq Connections
  /\ Cardinality(accepted) <= 1 /\ Cardinality(queue) <= 1 /\ Cardinality(serving) <= 1
  /\ acceptor \in {"accept", "claim", "put", "reject"}
  /\ worker \in {"get", "serve", "clear"}
  /\ server_busy \in BOOLEAN

(* No more than one connection is past server_busy, and while one is, the   *)
(* flag is set: the acceptor never finds the queue full, and never clears   *)
(* server_busy under a request the worker is serving.                       *)
OneInHand ==
  LET inHand == (IF acceptor = "put" THEN accepted ELSE {}) \cup queue \cup serving IN
  /\ Cardinality(inHand) <= 1
  /\ inHand # {} => server_busy

(* Every connection is answered and closed, by the worker or as busy.       *)
EveryConnectionCloses == \A c \in Connections : c \in pending ~> c \in closed
=============================================================================
