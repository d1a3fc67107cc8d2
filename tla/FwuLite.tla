------------------------------- MODULE FwuLite -------------------------------
(***************************************************************************)
(* Lightweight firmware upload: the sender (kfsw_fwu_lite_send_file in      *)
(* src/fwu/fwu_lite_csp.c), the node's server thread and its handlers       *)
(* (fwu_lite_protocol.c) on top of the update service (fwu.c; in full in    *)
(* module Fwu, here as far as the handlers can tell).                       *)
(*                                                                          *)
(* The link is plain CSP without RDP, as by default: packets of a           *)
(* connection stay in order but may be lost or be late, and a reply carries *)
(* nothing that says which request it answers.  An image is a sequence of   *)
(* units, a block holds BlockSize of them and only the last may be short.   *)
(* Size and CRC32 are taken to identify an image.                           *)
(***************************************************************************)
EXTENDS Integers, Sequences

CONSTANTS
  Images,      \* images the sender may be asked to send
  BlockSize,   \* CONFIG_KFSW_FWU_LITE_BLOCK_SIZE, in units
  Retries,     \* fwu_lite_retries
  MaxSends     \* bound: uploads in a behaviour

LiteAssumption ==
  /\ BlockSize \in Nat \ {0} /\ Retries \in Nat \ {0} /\ MaxSends \in Nat
  /\ \A img \in Images : Len(img) > 0

VARIABLES
  at,          \* what the sender waits for a reply to, or "idle"
  image,       \* the image it sends
  index,       \* its block index
  attempt,     \* how often the block was repeated
  outcome,     \* what the last kfsw_fwu_lite_send_file returned
  refusal,     \* the status that made it give up, if one did
  sends,       \* uploads so far
  req, rep,    \* packets on the way to the node and back
  state, declared, data,  \* the update service
  verified     \* history: the image of the node's last successful verify

sender == <<at, image, index, attempt, outcome, refusal, sends>>
node == <<state, declared, data>>
vars == <<sender, req, rep, node, verified>>

Smaller(a, b) == IF a < b THEN a ELSE b

BlockOf(img, i) == SubSeq(img, i * BlockSize + 1, Smaller((i + 1) * BlockSize, Len(img)))

BlockRequest ==
  [op |-> "BLOCK", from |-> sends, index |-> index', data |-> BlockOf(image, index')]

----------------------------------------------------------------------------
(* kfsw_fwu_lite_send_file *)

(* A connection of its own: what older ones left on the way to the node is  *)
(* served before it, and answered where nobody listens.                     *)
SendFile(img) ==
  /\ at = "idle" /\ sends < MaxSends
  /\ at' = "BEGIN" /\ image' = img /\ index' = 0 /\ attempt' = 0
  /\ outcome' = "none" /\ refusal' = "none" /\ sends' = sends + 1
  /\ req' = Append(req, [op |-> "BEGIN", from |-> sends', data |-> img])
  /\ rep' = <<>>
  /\ UNCHANGED <<node, verified>>

Return(r, status) ==
  /\ at' = "idle" /\ outcome' = r /\ refusal' = status
  /\ UNCHANGED <<index, attempt, req>>

SendBlock(i, n) ==
  /\ at' = "BLOCK" /\ index' = i /\ attempt' = n
  /\ req' = Append(req, BlockRequest)
  /\ UNCHANGED <<outcome, refusal>>

(* The block is done: the next one, or the verification.                    *)
MoveOn ==
  IF (index + 1) * BlockSize < Len(image)
  THEN SendBlock(index + 1, 0)
  ELSE /\ at' = "VERIFY"
       /\ req' = Append(req, [op |-> "VERIFY", from |-> sends])
       /\ UNCHANGED <<index, attempt, outcome, refusal>>

Repeat(r, status) == IF attempt < Retries THEN SendBlock(index, attempt + 1) ELSE Return(r, status)

(* Written, or written before by a request whose reply was lost.            *)
Written(m) == m.status = "OK" \/ (m.status = "OUT_OF_ORDER" /\ m.index = index + 1)

BlockReply(m) ==
  IF Written(m) THEN MoveOn
  ELSE IF m.status \in {"BAD_BLOCK", "OUT_OF_ORDER"} THEN Repeat("EIO", m.status)
  ELSE Return("EIO", m.status)

Reply ==
  /\ at # "idle" /\ rep # <<>>
  /\ LET m == Head(rep) IN
       CASE at = "BEGIN" /\ m.status = "OK" -> SendBlock(0, 0)
         [] at = "BEGIN" /\ m.status # "OK" -> Return("EIO", m.status)
         [] at = "BLOCK" -> BlockReply(m)
         [] at = "VERIFY" -> Return(IF m.status = "OK" THEN "OK" ELSE "EILSEQ", m.status)
  /\ rep' = Tail(rep)
  /\ UNCHANGED <<image, sends, node, verified>>

(* csp_read gave up; the reply may still be on the way.                     *)
Timeout ==
  /\ at # "idle"
  /\ IF at = "BLOCK" THEN Repeat("ETIMEDOUT", "none") ELSE Return("ETIMEDOUT", "none")
  /\ UNCHANGED <<image, sends, rep, node, verified>>

(* No buffer for the request, an unreadable source or reply.                *)
ExchangeFails ==
  /\ at # "idle"
  /\ Return("EIO", "none")
  /\ UNCHANGED <<image, sends, rep, node, verified>>

----------------------------------------------------------------------------
(* kfsw_fwu_lite_handle *)

(* describe_state and the reply, on the connection of the request.          *)
Describe(status) == [status |-> status, index |-> Len(data') \div BlockSize]

Answer(m, status) == rep' = IF m.from = sends THEN Append(rep, Describe(status)) ELSE rep

(* Besides a transfer, a reader of the slot or a pending revert is BUSY;    *)
(* the image may exceed the slot, or the slot fail to erase.                *)
HandleBegin(m) ==
  \/ /\ UNCHANGED <<node, verified>>
     /\ \E status \in {"BUSY", "TOO_LARGE"} : Answer(m, status)
  \/ /\ state # "RECEIVING"
     /\ \/ /\ state' = "RECEIVING" /\ declared' = m.data /\ data' = <<>>
           /\ Answer(m, "OK")
        \/ /\ state' = "FAILED" /\ UNCHANGED <<declared, data>>
           /\ Answer(m, "FAILED")
     /\ UNCHANGED verified

BlockStatus(m) ==
  CASE state # "RECEIVING" -> "INVALID"
    [] state = "RECEIVING" /\ m.index # Len(data) \div BlockSize -> "OUT_OF_ORDER"
    [] state = "RECEIVING" /\ m.index = Len(data) \div BlockSize ->
         IF Len(data) + Len(m.data) < Len(declared) /\ Len(m.data) # BlockSize THEN "INVALID"
         ELSE IF Len(data) + Len(m.data) > Len(declared) THEN "TOO_LARGE" ELSE "OK"

HandleBlock(m) ==
  /\ \/ /\ BlockStatus(m) # "OK"
        /\ UNCHANGED node
        /\ Answer(m, BlockStatus(m))
     \/ /\ BlockStatus(m) = "OK"
        /\ \/ \* damaged on the way
              /\ UNCHANGED node
              /\ Answer(m, "BAD_BLOCK")
           \/ /\ data' = data \o m.data /\ UNCHANGED <<state, declared>>
              /\ Answer(m, "OK")
           \/ \* the flash failed
              /\ state' = "FAILED" /\ UNCHANGED <<declared, data>>
              /\ Answer(m, "FAILED")
  /\ UNCHANGED verified

VerifyStatus_AnyState == IF data # declared THEN "BAD_IMAGE" ELSE "OK"

VerifyStatus ==
  IF state \notin {"RECEIVING", "VERIFIED"} \/ (state = "RECEIVING" /\ Len(data) # Len(declared))
  THEN "INVALID"
  ELSE IF data # declared THEN "BAD_IMAGE" ELSE "OK"

(* The last bytes are flushed when a transfer is verified, and may fail.    *)
HandleVerify(m) ==
  \/ /\ state = "RECEIVING" /\ VerifyStatus = "OK"
     /\ state' = "FAILED" /\ UNCHANGED <<declared, data, verified>>
     /\ Answer(m, "FAILED")
  \/ /\ state' = CASE VerifyStatus = "OK" -> "VERIFIED"
                   [] VerifyStatus = "BAD_IMAGE" -> "FAILED"
                   [] VerifyStatus = "INVALID" -> state
     /\ UNCHANGED <<declared, data>>
     /\ verified' = IF VerifyStatus = "OK" THEN data ELSE verified
     /\ Answer(m, VerifyStatus)

Serve ==
  /\ req # <<>>
  /\ CASE Head(req).op = "BEGIN" -> HandleBegin(Head(req))
       [] Head(req).op = "BLOCK" -> HandleBlock(Head(req))
       [] Head(req).op = "VERIFY" -> HandleVerify(Head(req))
  /\ req' = Tail(req)
  /\ UNCHANGED sender

----------------------------------------------------------------------------
LoseRequest == req # <<>> /\ req' = Tail(req) /\ UNCHANGED <<sender, rep, node, verified>>

LoseReply == rep # <<>> /\ rep' = Tail(rep) /\ UNCHANGED <<sender, req, node, verified>>

(* An operator aborts the transfer, or the node restarts.                   *)
Abandoned ==
  /\ state # "IDLE"
  /\ state' = "IDLE" /\ declared' = <<>> /\ data' = <<>>
  /\ UNCHANGED <<sender, req, rep, verified>>

Init ==
  /\ at = "idle" /\ image \in Images /\ index = 0 /\ attempt = 0
  /\ outcome = "none" /\ refusal = "none" /\ sends = 0
  /\ req = <<>> /\ rep = <<>>
  /\ state = "IDLE" /\ declared = <<>> /\ data = <<>>
  /\ verified = <<>>

Sender == (\E img \in Images : SendFile(img)) \/ Reply \/ Timeout \/ ExchangeFails

Next == Sender \/ Serve \/ LoseRequest \/ LoseReply \/ Abandoned

Spec == Init /\ [][Next]_vars

----------------------------------------------------------------------------
TypeOK ==
  /\ at \in {"idle", "BEGIN", "BLOCK", "VERIFY"}
  /\ image \in Images
  /\ index * BlockSize < Len(image)
  /\ attempt \in 0..Retries
  /\ outcome \in {"none", "OK", "EIO", "EILSEQ", "ETIMEDOUT"}
  /\ sends \in 0..MaxSends
  /\ state \in {"IDLE", "RECEIVING", "VERIFIED", "FAILED"}
  /\ Len(data) <= Len(declared)

(* "0: The node accepted and verified the whole image."  However many       *)
(* replies were lost or late, and read as the answer to a later request,    *)
(* send_file succeeds only when the node verified this image.               *)
SuccessIsTruthful == outcome = "OK" => verified = image

(* fwu_lite_csp.c: "The block was written but its reply was lost: the node  *)
(* asks for the next block, so move on."  So a block of the announced image *)
(* is never refused as too large when it is repeated.                       *)
LostReplyIsHarmless == attempt > 0 => refusal # "TOO_LARGE"
=============================================================================
