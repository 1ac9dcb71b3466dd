--------------------------- MODULE FirmwareUpdate ---------------------------
(***************************************************************************)
(* firmware_update/src: the "firmware_update" actor.  It asks a server for *)
(* the metadata of the newest firmware, downloads the files the metadata   *)
(* names, then the image, chunk by chunk into the next OTA partition, and  *)
(* boots the partition if its checksum is the one of the metadata.         *)
(*                                                                         *)
(* The request manager is reduced to what its clients see: a request in    *)
(* flight yields its chunks in order, may end early, fail before the first *)
(* chunk or be lost.  The contents of an image are the chunks of its       *)
(* version, and a checksum is the version or the file it belongs to: MD5   *)
(* tells contents apart.  An id is a UUID; ids are only compared, so one   *)
(* that nobody holds any more is as good as a fresh one.  Every metadata   *)
(* has a URL; the reset button is left out.                                *)
(***************************************************************************)
EXTENDS Naturals, Sequences

CONSTANTS
  File,             \* files a metadata may name
  Checked,          \* the files whose metadata has a checksum
  Metadata,         \* FirmwareMetadata the server may answer with
  Chunks,           \* chunks of an image or a file
  Id,               \* ids of requests
  MailboxCap,       \* messages the mailbox has room for
  MaxFaults,        \* bound on failures of flash, files, network and power
  None

Version == {m.version : m \in Metadata} \cup {0}

ASSUME FirmwareAssumption ==
  /\ Checked \subseteq File
  /\ Metadata \subseteq [version : Nat, checksum : BOOLEAN, files : Seq(File)]
  /\ Chunks \in Nat \ {0}
  /\ MailboxCap \in Nat /\ MaxFaults \in Nat
  /\ None \notin Metadata /\ None \notin File /\ None \notin Id /\ None \notin Version

VARIABLES
  running,          \* contents of the partition that runs
  partition,        \* what was written since the last esp_ota_begin
  fs,               \* contents of the files that exist
  meta,             \* pending_firmware_metadata
  timer,            \* tick_timer_ref is not null
  token,            \* authenticated, with an access_token
  checkId,          \* firmware_update_check_request_intent_id
  image,            \* download_image_request_intent_id and the OTA session
  file,             \* download_file_request_intent_id and the current file
  didUpdate,        \* did_update_any_files
  mailbox,          \* messages to the actor
  requests,         \* requests the request manager has
  faults,           \* number of failures so far
  lost,             \* history: an answer the actor waits for will not come
  leftovers         \* history: files left when a removal failed or a restart
                    \* cut their download off

flash == <<running, partition, fs>>
actor == <<meta, timer, token, checkId, image, file, didUpdate>>
history == <<lost, leftovers>>
vars == <<flash, actor, mailbox, requests, faults, history>>

Contents(x) == [i \in 1..Chunks |-> <<x, i>>]

VersionOf(contents) == contents[1][1]

Chunk == (Version \cup File) \X (1..Chunks)

Request ==
  [id : Id, kind : {"check"}, sent : {0}]
    \cup [id : Id, kind : {"image"}, of : Version, sent : 0..Chunks]
    \cup [id : Id, kind : {"file"}, of : File, sent : 0..Chunks]

Message ==
  [type : {"tick", "access_token"}]
    \cup [type : {"check"}, intent : BOOLEAN]
    \cup [type : {"response_chunk"}, id : Id, chunk : Chunk]
    \cup [type : {"response_error"}, id : Id]
    \cup [type : {"response_finished"}, id : Id, meta : Metadata \cup {None}]

(* in_progress is TRUE exactly while the id is not null.  started, valid   *)
(* and sum are ota_flash_started, ota_flash_valid, ota_checksum_hex_str;   *)
(* open says whether ota_handle is a session of esp_ota.                   *)
Image ==
  [id : Id \cup {None}, started : BOOLEAN, valid : BOOLEAN, open : BOOLEAN,
   sum : Version \cup {None}]

(* open: current_download_file_fp is not null. *)
CurrentFile ==
  [id : Id \cup {None}, open : BOOLEAN, path : File \cup {None}, sum : File \cup {None}]

TypeOK ==
  /\ running \in Seq(Chunk) /\ partition \in Seq(Chunk)
  /\ DOMAIN fs \subseteq File /\ \A f \in DOMAIN fs : fs[f] \in Seq(Chunk)
  /\ meta \in Metadata \cup {None}
  /\ timer \in BOOLEAN /\ token \in BOOLEAN /\ didUpdate \in BOOLEAN
  /\ checkId \in Id \cup {None}
  /\ image \in Image
  /\ file \in CurrentFile
  /\ mailbox \in Seq(Message) /\ Len(mailbox) <= MailboxCap
  /\ requests \subseteq Request
  /\ faults \in 0..MaxFaults
  /\ lost \in BOOLEAN
  /\ leftovers \subseteq File

NoImage == [id |-> None, started |-> FALSE, valid |-> TRUE, open |-> FALSE, sum |-> None]

NoCurrentFile == [id |-> None, open |-> FALSE, path |-> None, sum |-> None]

Init ==
  /\ running = Contents(0)
  /\ partition = <<>>
  /\ fs = [f \in {} |-> <<>>]
  /\ meta = None
  /\ timer = FALSE /\ token = FALSE
  /\ checkId = None
  /\ image = NoImage
  /\ file = NoCurrentFile
  /\ didUpdate = FALSE
  /\ mailbox = <<>>
  /\ requests = {}
  /\ faults = 0
  /\ lost = FALSE
  /\ leftovers = {}

-----------------------------------------------------------------------------
(* Faults, messages and requests *)

FaultIf(failed) ==
  /\ failed => faults < MaxFaults
  /\ faults' = IF failed THEN faults + 1 ELSE faults

Room == MailboxCap - Len(mailbox)

(* The behaviour takes the next message; until it returns the message      *)
(* keeps its room.                                                         *)
Taken(type) == mailbox # <<>> /\ Head(mailbox).type = type

Answer(type, id) == Taken(type) /\ id # None /\ Head(mailbox).id = id

Answers == {"response_chunk", "response_error", "response_finished"}

(* The ids nobody holds. *)
Unused ==
  {i \in Id :
     /\ i \notin {checkId, image.id, file.id}
     /\ \A r \in requests : r.id # i
     /\ \A k \in 1..Len(mailbox) : mailbox[k].type \in Answers => mailbox[k].id # i}

Injective(ids) == \A i, j \in DOMAIN ids : ids[i] = ids[j] => i = j

(* Id has enough ids for new requests; the model stops to send when not.   *)
CanRequest(at) == \E ids \in [at -> Unused] : Injective(ids)

Fresh(at) == CHOOSE ids \in [at -> Unused] : Injective(ids)

-----------------------------------------------------------------------------
(* "check" and "access_token" *)

(* "check" asks for metadata, or for a token if there is none.  A payload  *)
(* is the request to make, from now on under an id of its own.             *)
TakeCheck ==
  /\ Taken("check")
  /\ Head(mailbox).intent => CanRequest({1})
  /\ checkId' = IF Head(mailbox).intent THEN Fresh({1})[1] ELSE checkId
  /\ requests' = IF token
                 THEN requests \cup {[id |-> checkId', kind |-> "check", sent |-> 0]}
                 ELSE requests
  /\ mailbox' = Tail(mailbox)
  /\ UNCHANGED <<flash, meta, timer, token, image, file, didUpdate, faults, history>>

(* initial_update_check_request_sent is never set: every token is followed *)
(* by a check, unless the mailbox is full.                                 *)
TakeToken ==
  /\ Taken("access_token")
  /\ token' = TRUE
  /\ mailbox' = IF Room > 0
                THEN Append(Tail(mailbox), [type |-> "check", intent |-> FALSE])
                ELSE Tail(mailbox)
  /\ UNCHANGED <<flash, meta, timer, checkId, image, file, didUpdate, requests, faults, history>>

(* The answer to a check: metadata, or nothing that can be used. *)
CheckFinished ==
  /\ Answer("response_finished", checkId)
  /\ IF Head(mailbox).meta # None
     THEN meta' = Head(mailbox).meta /\ timer' = TRUE
     ELSE UNCHANGED <<meta, timer>>
  /\ mailbox' = Tail(mailbox)
  /\ UNCHANGED <<flash, token, checkId, image, file, didUpdate, requests, faults, history>>

-----------------------------------------------------------------------------
(* "tick" *)

(* Mutant: any other version is taken. *)
Newer_other(m) == m.version # VersionOf(running)

Newer(m) == m.version > VersionOf(running)

MayUpdate == timer /\ meta # None /\ file.id = None /\ image.id = None /\ token

IgnoreTick ==
  /\ Taken("tick")
  /\ ~MayUpdate
  /\ mailbox' = Tail(mailbox)
  /\ UNCHANGED <<flash, actor, requests, faults, history>>

(* Where the metadata has files that do not exist. *)
Missing == {i \in DOMAIN meta.files : meta.files[i] \notin DOMAIN fs}

LastOf(at) == CHOOSE i \in at : \A j \in at : j <= i

(* Every file that does not exist is requested; only the last request is   *)
(* remembered, and the checksum of the last that has one.                  *)
RequestFiles ==
  /\ Taken("tick")
  /\ MayUpdate /\ Newer(meta)
  /\ Missing # {}
  /\ CanRequest(Missing)
  /\ LET ids == Fresh(Missing)
         last == LastOf(Missing)
         checked == {i \in Missing : meta.files[i] \in Checked}
     IN /\ requests' = requests \cup
             {[id |-> ids[i], kind |-> "file", of |-> meta.files[i], sent |-> 0] : i \in Missing}
        /\ file' = [file EXCEPT !.id = ids[last], !.path = meta.files[last],
                                !.sum = IF checked = {} THEN @ ELSE meta.files[LastOf(checked)]]
  /\ mailbox' = Tail(mailbox)
  /\ UNCHANGED <<flash, meta, timer, token, checkId, image, didUpdate, faults, history>>

(* Metadata without a checksum leaves the one that was set before. *)
RequestImage ==
  /\ Taken("tick")
  /\ MayUpdate /\ Newer(meta)
  /\ Missing = {}
  /\ CanRequest({1})
  /\ image' = [image EXCEPT !.id = Fresh({1})[1], !.sum = IF meta.checksum THEN meta.version ELSE @]
  /\ requests' = requests \cup
       {[id |-> image'.id, kind |-> "image", of |-> meta.version, sent |-> 0]}
  /\ mailbox' = Tail(mailbox)
  /\ UNCHANGED <<flash, meta, timer, token, checkId, file, didUpdate, faults, history>>

(* The restart of the device.  What the actor, its mailbox and the request *)
(* manager have is gone; flash and files stay.                             *)
Reboot(contents) ==
  /\ running' = contents
  /\ meta' = None
  /\ timer' = FALSE /\ token' = FALSE /\ didUpdate' = FALSE
  /\ checkId' = None
  /\ image' = NoImage
  /\ file' = NoCurrentFile
  /\ mailbox' = <<>>
  /\ requests' = {}
  /\ lost' = FALSE

(* Everything is up to date: restart if files were downloaded. *)
StopUpdating ==
  /\ Taken("tick")
  /\ MayUpdate /\ ~Newer(meta)
  /\ IF didUpdate
     THEN Reboot(running) /\ UNCHANGED leftovers
     ELSE /\ meta' = None
          /\ timer' = FALSE
          /\ mailbox' = Tail(mailbox)
          /\ UNCHANGED <<running, token, didUpdate, checkId, image, file, requests, history>>
  /\ UNCHANGED <<partition, fs, faults>>

-----------------------------------------------------------------------------
(* The image download *)

Begun == [image EXCEPT !.started = TRUE, !.valid = TRUE, !.open = TRUE]

(* Mutant: the session begins without erasing what was written before. *)
Erased_not == partition

(* esp_ota_begin, ota_bytes_written = 0 *)
Erased == <<>>

(* Mutant: a failed write leaves the session started. *)
WriteFailed_started(session) == [session EXCEPT !.valid = FALSE]

WriteFailed(session) == [session EXCEPT !.started = FALSE, !.valid = FALSE]

(* esp_ota_write, which fails as well without a session of esp_ota. *)
Write(session, bytes, fails) ==
  /\ FaultIf(fails)
  /\ IF fails \/ ~session.open
     THEN image' = WriteFailed(session) /\ partition' = bytes
     ELSE image' = session /\ partition' = Append(bytes, Head(mailbox).chunk)

BeginFails ==
  /\ ~image.started
  /\ FaultIf(TRUE)
  /\ image' = [image EXCEPT !.valid = TRUE, !.open = FALSE]
  /\ UNCHANGED partition

(* A chunk that finds no session begins one. *)
ImageChunk ==
  /\ Answer("response_chunk", image.id)
  /\ \/ BeginFails
     \/ \E fails \in BOOLEAN :
          \/ ~image.started /\ Write(Begun, Erased, fails)
          \/ image.started /\ image.valid /\ Write(image, partition, fails)
     \/ image.started /\ ~image.valid /\ UNCHANGED <<image, partition, faults>>
  /\ mailbox' = Tail(mailbox)
  /\ UNCHANGED <<running, fs, meta, timer, token, checkId, file, didUpdate, requests, history>>

(* Mutant: it is enough that there is a checksum. *)
ImageVerified_any == image.sum # None

ImageVerified == image.sum # None /\ partition = Contents(image.sum)

Idle(session) == [session EXCEPT !.id = None]

(* Mutant: a download whose checksum is wrong stays in progress. *)
Discarded_kept == [image EXCEPT !.started = FALSE, !.valid = FALSE, !.open = FALSE]

Discarded == Idle([image EXCEPT !.started = FALSE, !.valid = FALSE, !.open = FALSE])

(* The image is booted if its checksum is right; when the boot partition   *)
(* cannot be set the session stays started, with a handle that is closed.  *)
ImageFinished ==
  /\ Answer("response_finished", image.id)
  /\ UNCHANGED <<partition, fs, leftovers>>
  /\ \/ /\ image.started /\ image.valid /\ image.open /\ ImageVerified
        /\ Reboot(partition)
        /\ UNCHANGED faults
     \/ /\ \/ ~(image.started /\ image.valid) /\ image' = Idle(image) /\ UNCHANGED faults
           \/ /\ image.started /\ image.valid
              /\ \/ image.open /\ ImageVerified /\ image' = Idle([image EXCEPT !.open = FALSE])
                    /\ FaultIf(TRUE)
                 \/ \E endFails \in BOOLEAN :
                      /\ endFails \/ ~image.open \/ ~ImageVerified
                      /\ image' = Discarded
                      /\ FaultIf(endFails)
        /\ mailbox' = Tail(mailbox)
        /\ UNCHANGED <<running, meta, timer, token, checkId, file, didUpdate, requests, lost>>

-----------------------------------------------------------------------------
(* The file download; file.path is set while file.id is. *)

With(contents) ==
  [g \in DOMAIN fs \cup {file.path} |-> IF g = file.path THEN contents ELSE fs[g]]

(* remove, given the files there are; it may fail any number of times. *)
Remove(files, fails) ==
  /\ fails => file.path \in DOMAIN files
  /\ fs' = IF fails THEN files ELSE [g \in DOMAIN files \ {file.path} |-> files[g]]
  /\ leftovers' = IF fails THEN leftovers \cup {file.path} ELSE leftovers

(* What the file holds before a chunk is written: fopen empties it. *)
Held == IF file.open THEN fs[file.path] ELSE <<>>

FileOpenFails ==
  /\ ~file.open
  /\ FaultIf(TRUE)
  /\ UNCHANGED <<fs, file, leftovers>>

FileWritten ==
  /\ fs' = With(Append(Held, Head(mailbox).chunk))
  /\ file' = [file EXCEPT !.open = TRUE]
  /\ UNCHANGED <<faults, leftovers>>

(* The file is closed and removed; the next chunk opens it again. *)
FileWriteFails ==
  /\ FaultIf(TRUE)
  /\ \E fails \in BOOLEAN : Remove(With(Held), fails)
  /\ file' = [file EXCEPT !.open = FALSE]

FileChunk ==
  /\ Answer("response_chunk", file.id)
  /\ FileOpenFails \/ FileWritten \/ FileWriteFails
  /\ mailbox' = Tail(mailbox)
  /\ UNCHANGED <<running, partition, meta, timer, token, checkId, image, didUpdate, requests, lost>>

(* Mutant: the file is kept. *)
DropFile_kept == UNCHANGED <<fs, leftovers>>

DropFile == \E fails \in BOOLEAN : Remove(fs, fails)

FileError ==
  /\ Answer("response_error", file.id)
  /\ DropFile
  /\ file' = [file EXCEPT !.open = FALSE]
  /\ mailbox' = Tail(mailbox)
  /\ UNCHANGED <<running, partition, meta, timer, token, checkId, image, didUpdate, requests,
                 faults, lost>>

FileVerified ==
  file.sum # None => file.path \in DOMAIN fs /\ fs[file.path] = Contents(file.sum)

(* The checksum stays set for the files that follow. *)
FileFinished ==
  /\ Answer("response_finished", file.id)
  /\ IF FileVerified
     THEN didUpdate' = TRUE /\ UNCHANGED <<fs, leftovers>>
     ELSE DropFile /\ UNCHANGED didUpdate
  /\ file' = [file EXCEPT !.id = None, !.open = FALSE, !.path = None]
  /\ mailbox' = Tail(mailbox)
  /\ UNCHANGED <<running, partition, meta, timer, token, checkId, image, requests, faults, lost>>

-----------------------------------------------------------------------------
(* The errors that are only logged, and answers to requests the actor does *)
(* not remember.                                                           *)
IgnoreAnswer ==
  /\ mailbox # <<>> /\ Head(mailbox).type \in Answers
  /\ \/ Head(mailbox).id \notin {checkId, image.id, file.id}
     \/ Head(mailbox).type = "response_error" /\ Head(mailbox).id # file.id
  /\ mailbox' = Tail(mailbox)
  /\ UNCHANGED <<flash, actor, requests, faults, history>>

-----------------------------------------------------------------------------
(* The environment *)

InMailbox(type) == \E i \in 1..Len(mailbox) : mailbox[i].type = type

(* The application configures the check when the device has started, and   *)
(* then asks for checks as often as it likes.                              *)
AppChecks ==
  /\ Room > 0 /\ ~InMailbox("check")
  /\ mailbox' = Append(mailbox, [type |-> "check", intent |-> checkId = None])
  /\ UNCHANGED <<flash, actor, requests, faults, history>>

(* The first token; a later one is the check it makes the actor send.      *)
AuthSendsToken ==
  /\ Room > 0 /\ ~InMailbox("access_token")
  /\ checkId # None /\ ~token
  /\ mailbox' = Append(mailbox, [type |-> "access_token"])
  /\ UNCHANGED <<flash, actor, requests, faults, history>>

(* The interval timer; the actor is faster than its 500 ms. *)
TimerExpires ==
  /\ timer /\ Room > 0 /\ ~InMailbox("tick")
  /\ mailbox' = Append(mailbox, [type |-> "tick"])
  /\ UNCHANGED <<flash, actor, requests, faults, history>>

Awaited(id) == id \in {image.id, file.id}

(* A chunk is lost if the mailbox is full. *)
ChunkSent(r) ==
  /\ r.kind # "check" /\ r.sent < Chunks
  /\ FaultIf(Room = 0)
  /\ mailbox' = IF Room = 0 THEN mailbox
                ELSE Append(mailbox, [type |-> "response_chunk", id |-> r.id,
                                      chunk |-> <<r.of, r.sent + 1>>])
  /\ requests' = (requests \ {r}) \cup {[r EXCEPT !.sent = @ + 1]}
  /\ UNCHANGED <<flash, actor, history>>

(* The last message of a request, whole or cut short, after a              *)
(* "response_error" if it failed; what does not fit the mailbox is lost.   *)
RequestEnds(r, error, m) ==
  LET answer == [type |-> "response_finished", id |-> r.id, meta |-> m]
      all == IF error THEN <<[type |-> "response_error", id |-> r.id], answer>> ELSE <<answer>>
      fits == SubSeq(all, 1, IF Room < Len(all) THEN Room ELSE Len(all))
  IN /\ error => r.sent = 0
     /\ m # None => r.kind = "check" /\ ~error
     /\ FaultIf(error \/ (r.kind # "check" /\ r.sent < Chunks) \/ fits # all)
     /\ mailbox' = mailbox \o fits
     /\ requests' = requests \ {r}
     /\ lost' = (lost \/ (fits # all /\ Awaited(r.id)))
     /\ UNCHANGED <<flash, actor, leftovers>>

(* The request manager never got the request, or exited. *)
RequestLost(r) ==
  /\ FaultIf(TRUE)
  /\ requests' = requests \ {r}
  /\ lost' = (lost \/ Awaited(r.id))
  /\ UNCHANGED <<flash, actor, mailbox, leftovers>>

PowerLoss ==
  /\ FaultIf(TRUE)
  /\ Reboot(running)
  /\ leftovers' = IF file.path \in DOMAIN fs THEN leftovers \cup {file.path} ELSE leftovers
  /\ UNCHANGED <<partition, fs>>

-----------------------------------------------------------------------------
ActorStep ==
  \/ TakeCheck \/ TakeToken \/ CheckFinished
  \/ IgnoreTick \/ RequestFiles \/ RequestImage \/ StopUpdating
  \/ ImageChunk \/ ImageFinished
  \/ FileChunk \/ FileError \/ FileFinished
  \/ IgnoreAnswer

RequestStep(r) ==
  \/ ChunkSent(r)
  \/ \E error \in BOOLEAN, m \in Metadata \cup {None} : RequestEnds(r, error, m)

Next ==
  \/ ActorStep
  \/ AppChecks \/ AuthSendsToken \/ TimerExpires
  \/ \E r \in requests : RequestStep(r) \/ RequestLost(r)
  \/ PowerLoss

SafeSpec == Init /\ [][Next]_vars

(* The actor's task runs; an expiry of the interval timer finds room       *)
(* sooner or later, and so do the messages of a request that is awaited.   *)
Spec ==
  /\ SafeSpec
  /\ WF_vars(ActorStep)
  /\ SF_vars(TimerExpires)
  /\ SF_vars(\E r \in requests : Awaited(r.id) /\ RequestStep(r))

-----------------------------------------------------------------------------
(* Properties *)

(* firmware_update_actor.cpp:268-292: the device never runs anything but a *)
(* whole image of one version, whatever was cut short, lost or mixed.      *)
BootedIsWhole == \E v \in Version : running = Contents(v)

(* firmware_update_actor.cpp:623: the version that runs only goes up,      *)
(* although metadata may change while an image is downloaded.              *)
BootsNewer == [][running' # running => VersionOf(running') > VersionOf(running)]_vars

(* firmware_update_actor.cpp:190-199: a session has chunks of one download *)
(* only, none twice, although write failures and a boot partition that     *)
(* cannot be set leave it half way.                                        *)
OneDownload ==
  \A i, j \in 1..Len(partition) :
    i < j => partition[i][1] = partition[j][1] /\ partition[i][2] < partition[j][2]

(* firmware_update_actor.cpp:201-226: a session that is started can be     *)
(* written; one that is not would refuse every image to come.              *)
NoDeadSession == image.started => image.valid

(* firmware_update_actor.cpp:454-475: a file with a checksum that exists   *)
(* is whole, unless it could not be removed or the device restarted while  *)
(* it was downloaded.                                                      *)
VerifiedFiles ==
  \A f \in Checked \cap DOMAIN fs :
    f \notin leftovers \cup {file.path} => fs[f] = Contents(f)

(* An update the actor can complete: everything has a checksum. *)
Complete(m) == m.checksum /\ \A i \in 1..Len(m.files) : m.files[i] \in Checked

(* firmware_update_actor.cpp:604-726: unless an answer is lost, an update  *)
(* ends: with a restart, or because there is other metadata.               *)
UpdateEnds ==
  \A m \in Metadata : Complete(m) => (token /\ meta = m ~> meta # m \/ lost)

(* firmware_update_actor.cpp:454 "If a checksum was specified, verify it   *)
(* (delete file on failure)": a file without checksum is not deleted for   *)
(* one.                                                                    *)
UncheckedKept ==
  [][\A f \in DOMAIN fs \ Checked :
       Taken("response_finished") /\ f = file.path => f \in DOMAIN fs']_vars
=============================================================================
