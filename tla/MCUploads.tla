------------------------------ MODULE MCUploads ------------------------------
(***************************************************************************)
(* Images and files, for TLC: an image in the update slot (Fwu), its upload *)
(* over CSP (FwuLite), the recovery of a node whose image is not confirmed  *)
(* (Recovery), and files: the threads of the server (FtpServer), an upload  *)
(* it receives and a download a client makes (FtpStore).  A behaviour       *)
(* exercises one of them and leaves the others where they start.            *)
(***************************************************************************)
EXTENDS Fwu, SequencesExt

CONSTANTS
  Updates, Budget, MaxAttempts,     \* Recovery
  BlockSize, Retries, MaxSends,     \* FwuLite
  Connections, SourceChanges,       \* FtpServer, FtpStore
  Services                          \* the ones at work in the run

VARIABLES
  running, confirmed, secondary, swap, record, diagnostics, step, streak, ever, missed, reverted,
  at, image, index, attempt, outcome, refusal, sends, req, rep, node_state, declared, data,
  verified,
  pending, closed, accepted, acceptor, queue, serving, worker, server_busy,
  target, part, note, ftp_at, file, handle, actual, genuine, refused,
  service     \* "slot", "recovery", "upload", "threads", "put" or "get"

(* Two block contents, and a CRC that tells some but not all images apart.  *)
MCCrcValues == 0..2
MCCrcUpdate(crc, block) == (2 * crc + block) % 3
MCCrc(s) == FoldLeft(MCCrcUpdate, 0, s)

(* An image of whole blocks and one whose last block is short; two versions *)
(* of a file, of different lengths.                                         *)
SentImages == {<<1, 2, 3, 4, 5, 6>>, <<1, 7, 8>>}
SentFiles == {<<"a", "b", "c">>, <<"x", "b">>}

R == INSTANCE Recovery WITH primary <- running
L == INSTANCE FwuLite WITH Images <- SentImages, state <- node_state
S == INSTANCE FtpServer
Store == INSTANCE FtpStore WITH Receivers <- {"server"}, Files <- SentFiles, at <- ftp_at
Fetch == INSTANCE FtpStore WITH Receivers <- {"client"}, Files <- SentFiles, at <- ftp_at

ASSUME R!BudgetAssumption
ASSUME L!LiteAssumption
ASSUME Store!StoreAssumption /\ Fetch!StoreAssumption

recovery == <<running, confirmed, secondary, swap, record, diagnostics, step, streak, ever,
              missed, reverted>>
upload == <<at, image, index, attempt, outcome, refusal, sends, req, rep, node_state, declared,
            data, verified>>
threads == <<pending, closed, accepted, acceptor, queue, serving, worker, server_busy>>
store == <<target, part, note, ftp_at, file, handle, actual, genuine, refused>>

UploadsVars == <<vars, recovery, upload, threads, store, service>>

UploadsInit ==
  /\ Init /\ R!Init /\ L!Init /\ S!Init
  /\ service \in Services
  /\ IF service = "get" THEN Fetch!Init ELSE Store!Init
  /\ service # "slot" => primary = <<1>>
  /\ service # "recovery" => confirmed
  /\ service # "upload" => image = <<1, 7, 8>>

(* The uploads may all have ended; nothing happens then.                    *)
Over == service = "upload" /\ sends = MaxSends /\ at = "idle" /\ UNCHANGED UploadsVars

UploadsNext ==
  \/ service = "slot" /\ Next /\ UNCHANGED <<recovery, upload, threads, store, service>>
  \/ service = "recovery" /\ R!Next /\ UNCHANGED <<vars, upload, threads, store, service>>
  \/ service = "upload" /\ L!Next /\ UNCHANGED <<vars, recovery, threads, store, service>>
  \/ service = "threads" /\ S!Next /\ UNCHANGED <<vars, recovery, upload, store, service>>
  \/ service = "put" /\ Store!Next /\ UNCHANGED <<vars, recovery, upload, threads, service>>
  \/ service = "get" /\ Fetch!Next /\ UNCHANGED <<vars, recovery, upload, threads, service>>
  \/ Over

(* The fairness of Recovery and of FtpServer, each where it is at work.     *)
UploadsFairness ==
  /\ WF_recovery(service = "recovery" /\ R!Boot)
  /\ SF_recovery(service = "recovery" /\ R!DiagnosticsStart(TRUE))
  /\ SF_recovery(service = "recovery" /\ R!Install)
  /\ SF_recovery(service = "recovery" /\ R!Decide(TRUE) /\ step' = "install")
  /\ WF_threads(service = "threads" /\ S!Worker)
  /\ WF_threads(service = "threads" /\ (S!Claim \/ S!Put \/ S!Reject))
  /\ \A c \in Connections: SF_threads(service = "threads" /\ S!Accept(c))

UploadsSpec == UploadsInit /\ [][UploadsNext]_UploadsVars /\ UploadsFairness

----------------------------------------------------------------------------
(* Recovery: unless a record could not be saved, the unconfirmed boots of   *)
(* the running image are counted exactly, and even then the golden image is *)
(* installed only over an image that spent its budget (boot_diagnostics.c,  *)
(* golden.c).                                                               *)
InstallIsEarned == R!TypeOK /\ R!AttemptsAreExact /\ R!InstallIsEarned

(* Recovery: an image that is never confirmed and has no revert pending     *)
(* does not keep the node for ever (golden.c).                              *)
RecoveryHappens == service = "recovery" => R!RecoveryHappens

(* golden.h: installing means "asking for a permanent swap".                *)
GoldenStays == R!GoldenStays

(* FwuLite: the sender reports success only when the node verified this     *)
(* image, however many replies were lost or late (fwu_lite_csp.c).          *)
SuccessIsTruthful == L!TypeOK /\ L!SuccessIsTruthful

(* fwu_lite_csp.c: "The block was written but its reply was lost: the node  *)
(* asks for the next block, so move on."                                    *)
LostReplyIsHarmless == L!LostReplyIsHarmless

(* FtpServer: no more than one connection is past server_busy, and while    *)
(* one is, the flag is set (ftp_server.c).                                  *)
OneInHand == S!TypeOK /\ S!OneInHand

(* FtpServer: every connection is answered and closed, by the worker or as  *)
(* busy (ftp_server.c).                                                     *)
EveryConnectionCloses == service = "threads" => S!EveryConnectionCloses

(* FtpStore: the file is left alone until the rename, and what then         *)
(* replaces it is the announced file, whole, whatever was resumed,          *)
(* interrupted or cut short by a reset, and a transfer of an unchanged file *)
(* is refused for its content at most once in a row (ftp_transfer.c,        *)
(* kfsw_ftp_commit_temporary).                                              *)
ReplacedByAnnounced == Store!ReplacedByAnnounced /\ []Store!RefusedOnceOnly
=============================================================================
