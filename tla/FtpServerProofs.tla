--------------------------- MODULE FtpServerProofs ---------------------------
(***************************************************************************)
(* For every set of connections: the FTP server has at most one in hand.    *)
(* server_busy is cleared in two places, by the worker after it closed its  *)
(* link and by an acceptor that finds the queue full; the invariant says    *)
(* that the worker is the only one that ever does, and that while either    *)
(* thread is past the flag the other is not.                                *)
(***************************************************************************)
EXTENDS FtpServer, FiniteSetTheorems, TLAPS

AtMostOne(S) == S = {} \/ \E c \in Connections : S = {c}

(* Who holds the flag: the acceptor about to put, the queue, or the worker. *)
ServerInv ==
  /\ pending \subseteq Connections /\ closed \subseteq Connections
  /\ AtMostOne(accepted) /\ AtMostOne(queue) /\ AtMostOne(serving)
  /\ acceptor \in {"accept", "claim", "put", "reject"}
  /\ worker \in {"get", "serve", "clear"}
  /\ server_busy \in BOOLEAN
  /\ acceptor = "accept" => accepted = {}
  /\ worker # "serve" => serving = {}
  /\ acceptor = "put" => server_busy /\ queue = {} /\ worker = "get"
  /\ queue # {} => server_busy /\ worker = "get"
  /\ worker # "get" => server_busy

(* A set of at most one connection has at most one element.                 *)
LEMMA AtMostOneCounts ==
  ASSUME NEW S, AtMostOne(S)
  PROVE  Cardinality(S) <= 1
<1>1. CASE S = {}
  BY <1>1, FS_EmptySet
<1>2. CASE \E c \in Connections : S = {c}
  <2>1. PICK c \in Connections : S = {c}
    BY <1>2
  <2>2. Cardinality({c}) = 1
    BY FS_Singleton, Zenon
  <2>3. QED
    BY <2>1, <2>2
<1>3. QED
  BY <1>1, <1>2 DEF AtMostOne

(* Each step of acceptor, worker or socket keeps who holds the flag.        *)
LEMMA ServerInvKept == ServerInv /\ [Next]_vars => ServerInv'
<1> SUFFICES ASSUME ServerInv, [Next]_vars PROVE ServerInv'
  OBVIOUS
<1> USE DEF ServerInv, AtMostOne
<1>1. ASSUME NEW c \in pending, Accept(c) PROVE ServerInv'
  BY <1>1 DEF Accept
<1>2. CASE Claim
  BY <1>2 DEF Claim, Claimed
<1>3. CASE Put
  BY <1>3 DEF Put
<1>4. CASE Reject
  BY <1>4 DEF Reject
<1>5. CASE Get
  BY <1>5 DEF Get
<1>6. CASE Serve
  BY <1>6 DEF Serve
<1>7. CASE ClearBusy
  BY <1>7 DEF ClearBusy
<1>8. ASSUME NEW c \in Connections, Connect(c) PROVE ServerInv'
  BY <1>8 DEF Connect
<1>9. ASSUME NEW c \in Connections, Recycle(c) PROVE ServerInv'
  BY <1>9 DEF Recycle
<1>10. CASE UNCHANGED vars
  BY <1>10 DEF vars
<1>11. QED
  BY <1>1, <1>2, <1>3, <1>4, <1>5, <1>6, <1>7, <1>8, <1>9, <1>10 DEF Next, Acceptor, Worker

(* No more than one connection is past server_busy, and while one is, the   *)
(* flag is set, for any number of connections (ftp_server.c, ftp_acceptor   *)
(* and ftp_worker).                                                         *)
THEOREM OneInHandAlways == Spec => [](TypeOK /\ OneInHand)
<1>1. Init => ServerInv
  BY DEF Init, ServerInv, AtMostOne
<1>2. ServerInv => TypeOK
  BY AtMostOneCounts DEF ServerInv, TypeOK
<1>3. ServerInv => OneInHand
  <2> SUFFICES ASSUME ServerInv PROVE OneInHand
    OBVIOUS
  <2> DEFINE inHand == (IF acceptor = "put" THEN accepted ELSE {}) \cup queue \cup serving
  <2>1. AtMostOne(inHand)
    BY DEF ServerInv, AtMostOne
  <2>2. inHand # {} => server_busy
    BY DEF ServerInv
  <2>3. QED
    BY <2>1, <2>2, AtMostOneCounts DEF OneInHand
<1>4. QED
  BY <1>1, <1>2, <1>3, ServerInvKept, PTL DEF Spec
=============================================================================
