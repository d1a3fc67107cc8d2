------------------------------- MODULE FtpStore ------------------------------
(***************************************************************************)
(* A file received over FTP: the upload a server takes (serve_put in        *)
(* src/ftp/ftp_server.c) and the download a client makes (kfsw_ftp_get in   *)
(* src/ftp/ftp_client.c), with the transfer engine (ftp_transfer.c) and the *)
(* partial file and its note that let a broken transfer be continued        *)
(* (ftp_store.c).                                                           *)
(*                                                                          *)
(* One path of one node is modelled: the file, its .part and its .part.map. *)
(* A file is a sequence of chunks; its size and CRC32, which a request      *)
(* announces and a note records, are taken to identify it.  RDP delivers    *)
(* chunks in order, so the link only breaks.  The file system is littlefs:  *)
(* rename is atomic, what was written is kept from the sync on, and a       *)
(* handle on a file that was removed writes to nowhere.  Any step may be    *)
(* the last before a reset.                                                 *)
(***************************************************************************)
EXTENDS Integers, Sequences, FiniteSets

CONSTANTS
  Files,          \* the versions of the file that peers hold
  Receivers,      \* "server" for a put, "client" for a get into the same path
  SourceChanges   \* whether the sender's file may be replaced while it is sent

StoreAssumption ==
  /\ Receivers \subseteq {"server", "client"}
  /\ SourceChanges \in BOOLEAN

VARIABLES
  target, part, note,  \* on disk: the file, its partial, the partial's note
  at,                  \* where each receiver is in its transfer
  file,                \* the file its transfer announced
  handle,              \* the open partial: its inode and what was written
  actual,              \* what actual_crc32 covers; its length is the offset
  genuine,             \* history: every chunk was of the announced file
  refused              \* history: integrity refusals of a genuine transfer,
                       \* one directly after the other

disk == <<target, part, note>>
transfer == <<at, file, handle, actual, genuine>>
vars == <<disk, transfer, refused>>

None == [ino |-> 0, data |-> <<>>]   \* no file
NoNote == <<"no note">>
Inodes == 1..(Cardinality(Receivers) + 1)
Hole == "hole"

Offset(w) == Len(actual[w])

WriteAt(s, n, c) == [i \in 1..(IF n < Len(s) THEN Len(s) ELSE n + 1) |->
                      IF i = n + 1 THEN c ELSE IF i <= Len(s) THEN s[i] ELSE Hole]

Go(w, place) == at' = [at EXCEPT ![w] = place]

----------------------------------------------------------------------------
(* prepare_upload_target; prepare_download, await_get_info, prepare_partial *)

(* kfsw_ftp_partial_resume_point; for a download the peer compares the note *)
(* with its file (accepted_resume_offset).                                  *)
Resumable(f) == note = f /\ Len(part.data) \in 1..(Len(f) - 1)

(* Without the RESUME flag a put starts from zero.                          *)
Start(w, f) ==
  /\ at[w] = "idle"
  /\ file' = [file EXCEPT ![w] = f]
  /\ genuine' = [genuine EXCEPT ![w] = TRUE]
  /\ \/ /\ Resumable(f)
        /\ actual' = [actual EXCEPT ![w] = part.data]
        /\ Go(w, "sink")
     \/ /\ ~Resumable(f) \/ w = "server"
        /\ actual' = [actual EXCEPT ![w] = <<>>]
        /\ Go(w, "note")
  /\ refused' = IF file[w] = f THEN refused ELSE 0
  /\ UNCHANGED <<disk, handle>>

(* No space is left, the peer refuses or a step of the file system fails.   *)
GiveUp(w) == Go(w, "idle") /\ refused' = 0 /\ UNCHANGED <<file, handle, actual, genuine>>

Refuse(w) ==
  /\ at[w] \in {"note", "sink"}
  /\ GiveUp(w)
  /\ UNCHANGED disk

(* kfsw_ftp_partial_note_write *)
WriteNote(w) ==
  /\ at[w] = "note"
  /\ \/ note' = file[w] /\ Go(w, "sink") /\ UNCHANGED <<file, handle, actual, genuine, refused>>
     \/ note' = NoNote /\ GiveUp(w)
  /\ UNCHANGED <<target, part>>

----------------------------------------------------------------------------
(* kfsw_ftp_transfer_open_sink *)

Unused == Inodes \ ({part.ino} \cup {handle[w].ino : w \in Receivers})

OpenedAs(w, i, d) ==
  /\ handle' = [handle EXCEPT ![w] = [ino |-> i, data |-> d]]
  /\ Go(w, "receive")
  /\ UNCHANGED <<file, actual, genuine, refused>>

(* The old partial is unlinked; when that fails, opening truncates it.      *)
OpenFresh(w) ==
  \/ \E i \in Unused : part' = [ino |-> i, data |-> <<>>] /\ OpenedAs(w, i, <<>>)
  \/ part # None /\ OpenedAs(w, part.ino, <<>>) /\ UNCHANGED part
  \/ part' = None /\ GiveUp(w)

OpenPartial(w) == part # None /\ OpenedAs(w, part.ino, part.data) /\ UNCHANGED part

OpenSink(w) ==
  /\ at[w] = "sink"
  /\ IF Offset(w) = 0 THEN OpenFresh(w) ELSE OpenPartial(w)
  /\ UNCHANGED <<target, note>>

----------------------------------------------------------------------------
(* kfsw_ftp_transfer_receive *)

(* The chunk at an offset: the announced file's, or, when the sender's file *)
(* was replaced after its CRC32 was taken, another version's.               *)
Sent(w) ==
  IF SourceChanges THEN {g[Offset(w) + 1] : g \in {g \in Files : Offset(w) < Len(g)}}
  ELSE {file[w][Offset(w) + 1]}

Receive(w) ==
  /\ at[w] = "receive" /\ Offset(w) < Len(file[w])
  /\ \E c \in Sent(w) :
       /\ handle' = [handle EXCEPT ![w].data = WriteAt(@, Offset(w), c)]
       /\ actual' = [actual EXCEPT ![w] = Append(@, c)]
       /\ genuine' = [genuine EXCEPT ![w] = @ /\ c = file[w][Offset(w) + 1]]
  /\ UNCHANGED <<disk, at, file, refused>>

Received(w) ==
  /\ at[w] = "receive" /\ Offset(w) = Len(file[w])
  /\ Go(w, "sync")
  /\ UNCHANGED <<disk, file, handle, actual, genuine, refused>>

----------------------------------------------------------------------------
(* kfsw_ftp_transfer_finish, kfsw_ftp_commit_temporary *)

Synced(w) == IF part.ino = handle[w].ino THEN [part EXCEPT !.data = handle[w].data] ELSE part

Close(w, place) ==
  /\ Go(w, place)
  /\ handle' = [handle EXCEPT ![w] = None]
  /\ UNCHANGED <<file, actual, genuine>>

(* A chunk is missing or invalid, or a write failed; a download also waits  *)
(* for the peer's result.  What arrived is synced for the next attempt.     *)
Interrupted(w) ==
  /\ at[w] = "receive" /\ (Offset(w) < Len(file[w]) \/ w = "client")
  /\ part' \in {part, Synced(w)}
  /\ Close(w, "idle")
  /\ refused' = 0
  /\ UNCHANGED <<target, note>>

Sync(w) ==
  /\ at[w] = "sync"
  /\ \/ part' = Synced(w) /\ Close(w, "commit") /\ UNCHANGED refused
     \/ UNCHANGED part /\ Close(w, "idle") /\ refused' = 0
  /\ UNCHANGED <<target, note>>

Matches_SizeOnly(w) == Len(actual[w]) = Len(file[w])

Matches(w) == actual[w] = file[w]

Rename(w) ==
  /\ Matches(w) /\ part # None
  /\ target' = part.data
  /\ part' = None
  /\ refused' = 0

(* The partial is unlinked; a failure of that goes unnoticed.               *)
Discard(w) ==
  /\ part' \in {None, part}
  /\ refused' = IF Matches(w) \/ ~genuine[w] THEN 0 ELSE IF refused < 2 THEN refused + 1 ELSE 2
  /\ UNCHANGED target

Commit(w) ==
  /\ at[w] = "commit"
  /\ Rename(w) \/ Discard(w)
  /\ Go(w, "committed")
  /\ UNCHANGED <<note, file, handle, actual, genuine>>

(* kfsw_ftp_partial_note_remove *)
RemoveNote(w) ==
  /\ at[w] = "committed"
  /\ note' \in {NoNote, note}
  /\ Go(w, "idle")
  /\ UNCHANGED <<target, part, file, handle, actual, genuine, refused>>

----------------------------------------------------------------------------
Reset ==
  /\ at' = [w \in Receivers |-> "idle"]
  /\ handle' = [w \in Receivers |-> None]
  /\ refused' = 0
  /\ UNCHANGED <<disk, file, actual, genuine>>

Init ==
  /\ target = <<>> /\ part = None /\ note = NoNote
  /\ at = [w \in Receivers |-> "idle"]
  /\ file = [w \in Receivers |-> CHOOSE f \in Files : TRUE]
  /\ handle = [w \in Receivers |-> None]
  /\ actual = [w \in Receivers |-> <<>>]
  /\ genuine = [w \in Receivers |-> TRUE]
  /\ refused = 0

Transfer(w) ==
  \/ \E f \in Files : Start(w, f)
  \/ Refuse(w) \/ WriteNote(w) \/ OpenSink(w)
  \/ Receive(w) \/ Received(w) \/ Interrupted(w)
  \/ Sync(w) \/ Commit(w) \/ RemoveNote(w)

Next == Reset \/ \E w \in Receivers : Transfer(w)

Spec == Init /\ [][Next]_vars

----------------------------------------------------------------------------
TypeOK ==
  /\ note \in Files \cup {NoNote}
  /\ part.ino \in Inodes \cup {0}
  /\ at \in [Receivers -> {"idle", "note", "sink", "receive", "sync", "commit", "committed"}]
  /\ file \in [Receivers -> Files]
  /\ \A w \in Receivers :
       /\ handle[w].ino \in Inodes \cup {0}
       /\ at[w] = "receive" => Offset(w) <= Len(file[w])
  /\ refused \in 0..2

(* The file is left alone until the rename, and what then replaces it is    *)
(* the announced file, whole: whatever was resumed, interrupted, replaced   *)
(* under the sender or cut short by a reset before.                         *)
ReplacedByAnnounced == [][target' # target => \E w \in DOMAIN file : target' = file[w]]_vars

(* A transfer of an unchanged file is refused for its content at most once  *)
(* in a row: a partial that cannot be continued does not outlive the        *)
(* refusal it causes.                                                       *)
RefusedOnceOnly == refused <= 1

(* ftp.h: "The partial is only continued when it belongs to this same       *)
(* content."                                                                *)
ContinuesSameContent ==
  \A w \in Receivers : at[w] = "sink" => actual[w] = SubSeq(file[w], 1, Offset(w))

(* README: "A receiver writes a .part file, syncs it, checks it and then    *)
(* renames it over the final name."  So the file is always a whole version. *)
TargetIsWhole == target \in Files \cup {<<>>}
=============================================================================
