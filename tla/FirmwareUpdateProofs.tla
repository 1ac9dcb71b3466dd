------------------------ MODULE FirmwareUpdateProofs ------------------------
(***************************************************************************)
(* Proofs about FirmwareUpdate.tla, for any metadata, files, image length, *)
(* mailbox and number of failures: types, the device boots whole images    *)
(* only and newer ones only, no session refuses the images to come, the    *)
(* files that are kept are the files that were asked for, and an OTA       *)
(* partition never holds chunks of two downloads or one chunk twice.       *)
(***************************************************************************)
EXTENDS FirmwareUpdate, SequenceTheorems, WellFoundedInduction, TLAPS

(* A file is open only while it is downloaded, and then it exists. *)
FileInv ==
  /\ file.id # None => file.path \in File
  /\ file.open => file.id # None /\ file.path \in DOMAIN fs

(* The checksum an image is compared with is the one of a newer version.   *)
SumIsNewer == image.sum # None => image.sum > VersionOf(running)

(* A token comes only after the check was configured. *)
Configured == token \/ InMailbox("access_token") => checkId # None

FirmwareInv == TypeOK /\ FileInv /\ Configured /\ BootedIsWhole /\ SumIsNewer /\ NoDeadSession

-----------------------------------------------------------------------------
(* Messages, requests and contents *)

LEMMA MessageFacts ==
  /\ [type |-> "tick"] \in Message /\ [type |-> "access_token"] \in Message
  /\ \A b \in BOOLEAN : [type |-> "check", intent |-> b] \in Message
  /\ \A i \in Id, c \in Chunk : [type |-> "response_chunk", id |-> i, chunk |-> c] \in Message
  /\ \A i \in Id : [type |-> "response_error", id |-> i] \in Message
  /\ \A i \in Id, m \in Metadata \cup {None} :
       [type |-> "response_finished", id |-> i, meta |-> m] \in Message
BY DEF Message

LEMMA MessageFields ==
  ASSUME NEW m \in Message
  PROVE  /\ m.type = "check" => m.intent \in BOOLEAN
         /\ m.type = "response_chunk" => m.chunk \in Chunk
         /\ m.type = "response_finished" => m.meta \in Metadata \cup {None}
BY DEF Message

LEMMA RequestFields ==
  ASSUME NEW r \in Request
  PROVE  /\ r.id \in Id
         /\ r.kind # "check" => r.of \in Version \cup File /\ r.sent \in 0..Chunks
         /\ \A n \in 0..Chunks : r.kind # "check" => [r EXCEPT !.sent = n] \in Request
BY DEF Request

LEMMA NewRequests ==
  ASSUME NEW i \in Id
  PROVE  /\ [id |-> i, kind |-> "check", sent |-> 0] \in Request
         /\ \A v \in Version, n \in 0..Chunks :
              [id |-> i, kind |-> "image", of |-> v, sent |-> n] \in Request
         /\ \A x \in File, n \in 0..Chunks :
              [id |-> i, kind |-> "file", of |-> x, sent |-> n] \in Request
BY DEF Request

LEMMA MetadataFields ==
  ASSUME FirmwareAssumption, NEW m \in Metadata
  PROVE  /\ m.version \in Version /\ m.version \in Nat /\ m.checksum \in BOOLEAN
         /\ m.files \in Seq(File)
         /\ \A i \in DOMAIN m.files : m.files[i] \in File
BY DEF FirmwareAssumption, Version

LEMMA VersionIsNat == ASSUME FirmwareAssumption PROVE Version \subseteq Nat
BY MetadataFields DEF Version

LEMMA ContentsFacts ==
  ASSUME FirmwareAssumption, NEW x \in Version \cup File
  PROVE  /\ Contents(x) \in Seq(Chunk)
         /\ VersionOf(Contents(x)) = x
<1>1. Chunks \in Nat /\ 1 \in 1..Chunks
  BY DEF FirmwareAssumption
<1>2. Contents(x) \in [1..Chunks -> Chunk]
  BY DEF Contents, Chunk
<1>3. Contents(x) \in Seq(Chunk)
  BY <1>1, <1>2
<1> QED
  BY <1>1, <1>3 DEF Contents, VersionOf

LEMMA BootedVersion ==
  ASSUME FirmwareAssumption, BootedIsWhole
  PROVE  VersionOf(running) \in Version /\ running = Contents(VersionOf(running))
BY ContentsFacts DEF BootedIsWhole

(* Ids of new requests. *)
LEMMA FreshFacts ==
  ASSUME NEW at, CanRequest(at)
  PROVE  Fresh(at) \in [at -> Id]
<1>1. Fresh(at) \in [at -> Unused]
  BY DEF CanRequest, Fresh
<1> QED
  BY <1>1 DEF Unused

(* The last of some positions exists, and comes after the others. *)
LEMMA LastExists ==
  ASSUME NEW n \in Nat, NEW at, at \subseteq 1..n, at # {}
  PROVE  LastOf(at) \in at /\ \A j \in at : j <= LastOf(at)
<1> DEFINE after == {n - i : i \in at}
<1>1. \A i \in at : i \in Nat /\ i <= n /\ n - i \in Nat
  OBVIOUS
<1>2. after \subseteq Nat /\ after # {}
  BY <1>1
<1>3. PICK x \in after : \A y \in after : ~(<<y, x>> \in OpToRel(<, Nat))
  <2> HIDE DEF after
  <2> QED BY <1>2, NatLessThanWellFounded, WFMin
<1>4. \A y \in after : ~(y < x)
  BY <1>2, <1>3 DEF OpToRel
<1>5. PICK i \in at : x = n - i
  BY <1>3
<1>6. ASSUME NEW j \in at PROVE j <= i
  <2>1. ~(n - j < n - i)
    BY <1>4, <1>5
  <2>2. i \in Nat /\ j \in Nat
    BY <1>1
  <2> QED
    BY <2>1, <2>2
<1> QED
  BY <1>6 DEF LastOf

(* What is left of the mailbox when a message is taken. *)
LEMMA TakenFacts ==
  ASSUME FirmwareAssumption, TypeOK, mailbox # <<>>, mailbox' = Tail(mailbox)
  PROVE  /\ Head(mailbox) \in Message /\ Head(mailbox) = mailbox[1] /\ 1 \in 1..Len(mailbox)
         /\ mailbox' \in Seq(Message) /\ Len(mailbox') <= MailboxCap
         /\ InMailbox("access_token")' => InMailbox("access_token")
<1>1. mailbox \in Seq(Message) /\ Len(mailbox) <= MailboxCap /\ MailboxCap \in Nat
  BY DEF TypeOK, FirmwareAssumption
<1>2. /\ Head(mailbox) \in Message /\ Head(mailbox) = mailbox[1]
      /\ Len(mailbox) \in Nat /\ Len(mailbox) > 0
      /\ mailbox' \in Seq(Message) /\ Len(mailbox') = Len(mailbox) - 1
      /\ \A i \in 1..Len(mailbox') : mailbox'[i] = mailbox[i + 1]
  BY <1>1, HeadTailProperties
<1>3. \A i \in 1..Len(mailbox') : i + 1 \in 1..Len(mailbox)
  BY <1>2
<1> QED
  BY <1>1, <1>2, <1>3 DEF InMailbox

(* ... and when one is sent. *)
LEMMA SentFacts ==
  ASSUME FirmwareAssumption, TypeOK, NEW m \in Message, Room > 0,
         mailbox' = Append(mailbox, m)
  PROVE  /\ mailbox' \in Seq(Message) /\ Len(mailbox') <= MailboxCap
         /\ InMailbox("access_token")' => InMailbox("access_token") \/ m.type = "access_token"
<1>1. /\ mailbox \in Seq(Message) /\ Len(mailbox) \in Nat
      /\ MailboxCap \in Nat /\ MailboxCap - Len(mailbox) > 0
  BY DEF TypeOK, Room, FirmwareAssumption
<1>2. /\ mailbox' \in Seq(Message) /\ Len(mailbox') = Len(mailbox) + 1
      /\ \A i \in 1..Len(mailbox) : mailbox'[i] = mailbox[i]
      /\ mailbox'[Len(mailbox) + 1] = m
  BY <1>1, AppendProperties
<1>3. \A i \in 1..Len(mailbox') : i \in 1..Len(mailbox) \/ i = Len(mailbox) + 1
  BY <1>1, <1>2
<1> QED
  BY <1>1, <1>2, <1>3 DEF InMailbox

LEMMA FaultTypes ==
  ASSUME TypeOK, FirmwareAssumption, NEW failed \in BOOLEAN, FaultIf(failed)
  PROVE  faults' \in 0..MaxFaults
BY DEF TypeOK, FaultIf, FirmwareAssumption

(* What a removal leaves. *)
LEMMA RemoveTypes ==
  ASSUME NEW files, NEW fails, Remove(files, fails),
         DOMAIN files \subseteq File, \A x \in DOMAIN files : files[x] \in Seq(Chunk),
         leftovers \subseteq File, file.path \in File
  PROVE  /\ DOMAIN fs' \subseteq File /\ \A x \in DOMAIN fs' : fs'[x] \in Seq(Chunk)
         /\ leftovers' \subseteq File
BY DEF Remove

LEMMA InitInv == ASSUME FirmwareAssumption, Init PROVE FirmwareInv
<1>1. 0 \in Version
  BY DEF Version
<1>2. running \in Seq(Chunk) /\ BootedIsWhole
  BY <1>1, ContentsFacts DEF Init, BootedIsWhole
<1>3. /\ <<>> \in Seq(Chunk) /\ <<>> \in Seq(Message) /\ Len(<<>>) = 0
      /\ ~InMailbox("access_token")
  BY EmptySeq DEF Init, InMailbox
<1>4. NoImage \in Image /\ NoCurrentFile \in CurrentFile
  BY DEF NoImage, NoCurrentFile, Image, CurrentFile
<1>5. 0 \in 0..MaxFaults /\ 0 <= MailboxCap
  BY DEF FirmwareAssumption
<1>6. DOMAIN fs = {}
  BY DEF Init
<1>7. TypeOK
  BY <1>2, <1>3, <1>4, <1>5, <1>6 DEF Init, TypeOK
<1> QED
  BY <1>2, <1>3, <1>7
  DEF Init, FirmwareInv, FileInv, Configured, SumIsNewer, NoDeadSession, NoImage, NoCurrentFile

-----------------------------------------------------------------------------
(* The actor's checks and ticks *)

LEMMA TakeCheckInv == ASSUME FirmwareAssumption, FirmwareInv, TakeCheck PROVE FirmwareInv'
<1>1. mailbox # <<>> /\ TypeOK /\ mailbox' = Tail(mailbox) /\ Head(mailbox).type = "check"
  BY DEF TakeCheck, Taken, FirmwareInv
<1>2. checkId' \in Id \cup {None} /\ (checkId # None => checkId' # None)
  <2>1. CASE Head(mailbox).intent
    BY <2>1, FreshFacts DEF TakeCheck, FirmwareAssumption
  <2>2. CASE ~Head(mailbox).intent
    BY <1>1, <2>2 DEF TakeCheck, TypeOK
  <2> QED
    BY <2>1, <2>2
<1>3. requests' \subseteq Request
  <2>1. CASE token
    BY <1>1, <1>2, <2>1, NewRequests DEF TakeCheck, FirmwareInv, TypeOK, Configured
  <2>2. CASE ~token
    BY <1>1, <2>2 DEF TakeCheck, TypeOK
  <2> QED
    BY <2>1, <2>2
<1>4. TypeOK' /\ Configured'
  BY <1>1, <1>2, <1>3, TakenFacts DEF TakeCheck, FirmwareInv, TypeOK, Configured, flash, history
<1> QED
  BY <1>4 DEF TakeCheck, FirmwareInv, FileInv, BootedIsWhole, SumIsNewer, NoDeadSession, flash

LEMMA TakeTokenInv == ASSUME FirmwareAssumption, FirmwareInv, TakeToken PROVE FirmwareInv'
<1>1. /\ mailbox # <<>> /\ TypeOK /\ Head(mailbox).type = "access_token"
      /\ mailbox \in Seq(Message) /\ Len(mailbox) <= MailboxCap
  BY DEF TakeToken, Taken, FirmwareInv, TypeOK
<1> DEFINE check == [type |-> "check", intent |-> FALSE]
<1>2. check \in Message /\ Len(mailbox) \in Nat /\ MailboxCap \in Nat
  <2>1. check \in Message
    BY MessageFacts
  <2> QED
    BY <1>1, <2>1 DEF FirmwareAssumption
<1>3. /\ Tail(mailbox) \in Seq(Message) /\ Len(Tail(mailbox)) = Len(mailbox) - 1
      /\ Len(mailbox) > 0 /\ Head(mailbox) = mailbox[1]
  BY <1>1, HeadTailProperties
<1>4. /\ Append(Tail(mailbox), check) \in Seq(Message)
      /\ Len(Append(Tail(mailbox), check)) = Len(mailbox)
  BY <1>2, <1>3, AppendProperties
<1>5. mailbox' \in Seq(Message) /\ Len(mailbox') <= MailboxCap
  BY <1>1, <1>2, <1>3, <1>4 DEF TakeToken
<1>6. checkId # None
  BY <1>1, <1>2, <1>3 DEF FirmwareInv, Configured, InMailbox
<1>7. TypeOK' /\ Configured'
  BY <1>1, <1>5, <1>6 DEF TakeToken, FirmwareInv, TypeOK, Configured, flash, history
<1> QED
  BY <1>7 DEF TakeToken, FirmwareInv, FileInv, BootedIsWhole, SumIsNewer, NoDeadSession, flash

LEMMA CheckFinishedInv == ASSUME FirmwareAssumption, FirmwareInv, CheckFinished PROVE FirmwareInv'
<1>1. /\ mailbox # <<>> /\ TypeOK /\ mailbox' = Tail(mailbox)
      /\ Head(mailbox).type = "response_finished"
  BY DEF CheckFinished, Answer, Taken, FirmwareInv
<1>2. meta' \in Metadata \cup {None} /\ timer' \in BOOLEAN
  BY <1>1, TakenFacts, MessageFields DEF CheckFinished, TypeOK
<1>3. TypeOK' /\ Configured'
  BY <1>1, <1>2, TakenFacts
  DEF CheckFinished, FirmwareInv, TypeOK, Configured, flash, history
<1> QED
  BY <1>3 DEF CheckFinished, FirmwareInv, FileInv, BootedIsWhole, SumIsNewer, NoDeadSession, flash

LEMMA IgnoreTickInv == ASSUME FirmwareAssumption, FirmwareInv, IgnoreTick PROVE FirmwareInv'
<1>1. mailbox # <<>> /\ TypeOK /\ mailbox' = Tail(mailbox)
  BY DEF IgnoreTick, Taken, FirmwareInv
<1>2. TypeOK' /\ Configured'
  BY <1>1, TakenFacts
  DEF IgnoreTick, FirmwareInv, TypeOK, Configured, flash, actor, history
<1> QED
  BY <1>2
  DEF IgnoreTick, FirmwareInv, FileInv, BootedIsWhole, SumIsNewer, NoDeadSession, flash, actor

LEMMA RequestFilesInv == ASSUME FirmwareAssumption, FirmwareInv, RequestFiles PROVE FirmwareInv'
<1>1. /\ mailbox # <<>> /\ TypeOK /\ mailbox' = Tail(mailbox)
      /\ meta \in Metadata /\ file.id = None /\ Missing # {} /\ CanRequest(Missing)
  BY DEF RequestFiles, Taken, MayUpdate, FirmwareInv, TypeOK
<1> DEFINE ids == Fresh(Missing)
           checked == {i \in Missing : meta.files[i] \in Checked}
           sum == IF checked = {} THEN file.sum ELSE meta.files[LastOf(checked)]
<1>2. /\ Missing \subseteq 1..Len(meta.files) /\ Len(meta.files) \in Nat
      /\ \A i \in Missing : meta.files[i] \in File
  BY <1>1, MetadataFields DEF Missing
<1>3. ids \in [Missing -> Id]
  BY <1>1, FreshFacts
<1>4. LastOf(Missing) \in Missing
  BY <1>1, <1>2, LastExists
<1>5. checked # {} => LastOf(checked) \in checked
  BY <1>2, LastExists
<1>6. /\ ids[LastOf(Missing)] \in Id /\ meta.files[LastOf(Missing)] \in File
  BY <1>2, <1>3, <1>4
<1>7. sum \in File \cup {None}
  <2>1. CASE checked = {}
    BY <1>1, <2>1 DEF TypeOK, CurrentFile
  <2>2. CASE checked # {}
    BY <1>2, <1>5, <2>2
  <2> QED
    BY <2>1, <2>2
<1>8. file' = [file EXCEPT !.id = ids[LastOf(Missing)], !.path = meta.files[LastOf(Missing)],
                           !.sum = sum]
  BY DEF RequestFiles
<1>9. file \in CurrentFile
  BY <1>1 DEF TypeOK
<1>10. file' \in CurrentFile /\ file'.path \in File /\ file'.open = file.open
  <2> HIDE DEF ids, sum
  <2> QED
    BY <1>6, <1>7, <1>8, <1>9 DEF CurrentFile
<1>11. requests' \subseteq Request
  <2>1. 0 \in 0..Chunks
    BY DEF FirmwareAssumption
  <2>2. \A i \in Missing :
          [id |-> ids[i], kind |-> "file", of |-> meta.files[i], sent |-> 0] \in Request
    BY <1>2, <1>3, <2>1, NewRequests
  <2> QED
    BY <1>1, <2>2 DEF RequestFiles, TypeOK
<1>12. TypeOK' /\ Configured'
  BY <1>1, <1>10, <1>11, TakenFacts
  DEF RequestFiles, FirmwareInv, TypeOK, Configured, flash, history
<1>13. FileInv'
  BY <1>1, <1>10 DEF RequestFiles, FirmwareInv, FileInv, flash
<1> QED
  BY <1>12, <1>13
  DEF RequestFiles, FirmwareInv, BootedIsWhole, SumIsNewer, NoDeadSession, flash

LEMMA RequestImageInv == ASSUME FirmwareAssumption, FirmwareInv, RequestImage PROVE FirmwareInv'
<1>1. /\ mailbox # <<>> /\ TypeOK /\ mailbox' = Tail(mailbox)
      /\ meta \in Metadata /\ Newer(meta) /\ CanRequest({1})
  BY DEF RequestImage, Taken, MayUpdate, FirmwareInv, TypeOK
<1>2. Fresh({1})[1] \in Id
  BY <1>1, FreshFacts
<1>3. meta.version \in Version /\ meta.version > VersionOf(running) /\ meta.checksum \in BOOLEAN
  BY <1>1, MetadataFields DEF Newer
<1>4. image \in Image
  BY <1>1 DEF TypeOK
<1>5. /\ image' \in Image /\ image'.id \in Id
      /\ image'.started = image.started /\ image'.valid = image.valid
      /\ image'.sum = meta.version \/ image'.sum = image.sum
  BY <1>2, <1>3, <1>4 DEF RequestImage, Image
<1>6. requests' \subseteq Request
  <2>1. 0 \in 0..Chunks
    BY DEF FirmwareAssumption
  <2>2. [id |-> image'.id, kind |-> "image", of |-> meta.version, sent |-> 0] \in Request
    BY <1>3, <1>5, <2>1, NewRequests
  <2> QED
    BY <1>1, <2>2 DEF RequestImage, TypeOK
<1>7. TypeOK' /\ Configured'
  BY <1>1, <1>5, <1>6, TakenFacts
  DEF RequestImage, FirmwareInv, TypeOK, Configured, flash, history
<1>8. SumIsNewer' /\ NoDeadSession'
  BY <1>3, <1>5 DEF RequestImage, FirmwareInv, SumIsNewer, NoDeadSession, flash
<1> QED
  BY <1>7, <1>8 DEF RequestImage, FirmwareInv, FileInv, BootedIsWhole, flash

(* A restart leaves nothing of the actor. *)
LEMMA RebootFacts ==
  ASSUME FirmwareAssumption, NEW contents, Reboot(contents), NEW v \in Version,
         contents = Contents(v)
  PROVE  /\ running' \in Seq(Chunk) /\ BootedIsWhole'
         /\ meta' \in Metadata \cup {None} /\ timer' \in BOOLEAN /\ token' \in BOOLEAN
         /\ didUpdate' \in BOOLEAN /\ checkId' \in Id \cup {None}
         /\ image' \in Image /\ file' \in CurrentFile
         /\ mailbox' \in Seq(Message) /\ Len(mailbox') <= MailboxCap
         /\ requests' \subseteq Request /\ lost' \in BOOLEAN
         /\ FileInv' /\ Configured' /\ SumIsNewer' /\ NoDeadSession'
<1>1. running' \in Seq(Chunk) /\ BootedIsWhole'
  BY ContentsFacts DEF Reboot, BootedIsWhole
<1>2. /\ <<>> \in Seq(Message) /\ Len(<<>>) = 0
      /\ 0 <= MailboxCap
  BY EmptySeq DEF FirmwareAssumption
<1>3. NoImage \in Image /\ NoCurrentFile \in CurrentFile
  BY DEF NoImage, NoCurrentFile, Image, CurrentFile
<1>4. Configured'
  BY <1>2 DEF Reboot, Configured, InMailbox
<1> QED
  BY <1>1, <1>2, <1>3, <1>4
  DEF Reboot, FileInv, SumIsNewer, NoDeadSession, NoImage, NoCurrentFile

LEMMA StopUpdatingInv == ASSUME FirmwareAssumption, FirmwareInv, StopUpdating PROVE FirmwareInv'
<1>1. /\ mailbox # <<>> /\ TypeOK /\ UNCHANGED <<partition, fs, faults>>
  BY DEF StopUpdating, Taken, FirmwareInv
<1>2. CASE didUpdate
  <2>1. Reboot(running) /\ UNCHANGED leftovers
    BY <1>2 DEF StopUpdating
  <2>2. PICK v \in Version : running = Contents(v)
    BY DEF FirmwareInv, BootedIsWhole
  <2> QED
    BY <1>1, <2>1, <2>2, RebootFacts DEF FirmwareInv, TypeOK
<1>3. CASE ~didUpdate
  <2>1. mailbox' = Tail(mailbox)
    BY <1>3 DEF StopUpdating
  <2>2. TypeOK' /\ Configured'
    BY <1>1, <1>3, <2>1, TakenFacts
    DEF StopUpdating, FirmwareInv, TypeOK, Configured, history
  <2> QED
    BY <1>1, <1>3, <2>2
    DEF StopUpdating, FirmwareInv, FileInv, BootedIsWhole, SumIsNewer, NoDeadSession
<1> QED
  BY <1>2, <1>3

-----------------------------------------------------------------------------
(* The image download *)

LEMMA WriteInv ==
  ASSUME FirmwareAssumption, TypeOK, Head(mailbox).chunk \in Chunk,
         NEW session \in Image, session.valid, session.sum = image.sum,
         NEW bytes \in Seq(Chunk), NEW fails \in BOOLEAN, Write(session, bytes, fails)
  PROVE  /\ image' \in Image /\ image'.sum = image.sum
         /\ image'.started => image'.valid
         /\ partition' \in Seq(Chunk)
         /\ faults' \in 0..MaxFaults
<1>1. faults' \in 0..MaxFaults
  BY FaultTypes DEF Write
<1>2. CASE fails \/ ~session.open
  BY <1>1, <1>2 DEF Write, WriteFailed, Image
<1>3. CASE ~(fails \/ ~session.open)
  <2>1. image' = session /\ partition' = Append(bytes, Head(mailbox).chunk)
    BY <1>3 DEF Write
  <2>2. partition' \in Seq(Chunk)
    BY <2>1, AppendProperties
  <2> QED
    BY <1>1, <2>1, <2>2
<1> QED
  BY <1>2, <1>3

LEMMA ImageChunkInv == ASSUME FirmwareAssumption, FirmwareInv, ImageChunk PROVE FirmwareInv'
<1>1. /\ mailbox # <<>> /\ TypeOK /\ mailbox' = Tail(mailbox)
      /\ Head(mailbox).type = "response_chunk"
      /\ UNCHANGED <<running, fs, meta, timer, token, checkId, file, didUpdate, requests, history>>
  BY DEF ImageChunk, Answer, Taken, FirmwareInv
<1>2. Head(mailbox).chunk \in Chunk
  BY <1>1, TakenFacts, MessageFields
<1>3. image \in Image /\ partition \in Seq(Chunk) /\ faults \in 0..MaxFaults
  BY <1>1 DEF TypeOK
<1> DEFINE Good == /\ image' \in Image /\ image'.sum = image.sum
                   /\ image'.started => image'.valid
                   /\ partition' \in Seq(Chunk)
                   /\ faults' \in 0..MaxFaults
<1>4. ASSUME BeginFails PROVE Good
  <2>1. faults' \in 0..MaxFaults
    BY <1>1, <1>4, FaultTypes DEF BeginFails
  <2>2. image' \in Image /\ image'.sum = image.sum /\ image'.valid
    BY <1>3, <1>4 DEF BeginFails, Image
  <2> QED
    BY <1>3, <1>4, <2>1, <2>2 DEF BeginFails
<1>5. ASSUME NEW fails \in BOOLEAN, ~image.started, Write(Begun, Erased, fails) PROVE Good
  <2>1. Begun \in Image /\ Begun.valid /\ Begun.sum = image.sum
    BY <1>3 DEF Begun, Image
  <2>2. Erased \in Seq(Chunk)
    BY EmptySeq DEF Erased
  <2> QED
    BY <1>1, <1>2, <1>5, <2>1, <2>2, WriteInv
<1>6. ASSUME NEW fails \in BOOLEAN, image.valid, Write(image, partition, fails) PROVE Good
  BY <1>1, <1>2, <1>3, <1>6, WriteInv
<1>7. ASSUME image.started, ~image.valid PROVE Good
  BY <1>7 DEF FirmwareInv, NoDeadSession
<1>8. Good
  <2> HIDE DEF Good
  <2> QED
    BY <1>4, <1>5, <1>6, <1>7 DEF ImageChunk
<1>9. TypeOK' /\ Configured'
  BY <1>1, <1>8, TakenFacts DEF FirmwareInv, TypeOK, Configured, history
<1> QED
  BY <1>1, <1>8, <1>9
  DEF FirmwareInv, FileInv, BootedIsWhole, SumIsNewer, NoDeadSession

LEMMA ImageFinishedInv == ASSUME FirmwareAssumption, FirmwareInv, ImageFinished PROVE FirmwareInv'
<1>1. /\ mailbox # <<>> /\ TypeOK /\ UNCHANGED <<partition, fs, leftovers>>
      /\ image \in Image /\ partition \in Seq(Chunk)
  BY DEF ImageFinished, Answer, Taken, FirmwareInv, TypeOK
<1>2. CASE Reboot(partition) /\ ImageVerified /\ UNCHANGED faults
  <2>1. image.sum \in Version /\ partition = Contents(image.sum)
    BY <1>1, <1>2 DEF ImageVerified, Image
  <2> QED
    BY <1>1, <1>2, <2>1, RebootFacts DEF FirmwareInv, TypeOK
<1>3. ASSUME mailbox' = Tail(mailbox),
             UNCHANGED <<running, meta, timer, token, checkId, file, didUpdate, requests, lost>>,
             image' \in Image, image'.sum = image.sum, image'.started => image'.valid,
             faults' \in 0..MaxFaults
      PROVE  FirmwareInv'
  <2>1. TypeOK' /\ Configured'
    BY <1>1, <1>3, TakenFacts DEF FirmwareInv, TypeOK, Configured
  <2> QED
    BY <1>1, <1>3, <2>1 DEF FirmwareInv, FileInv, BootedIsWhole, SumIsNewer, NoDeadSession
<1>4. image.started => image.valid
  BY DEF FirmwareInv, NoDeadSession
<1> DEFINE Stays ==
  /\ mailbox' = Tail(mailbox)
  /\ UNCHANGED <<running, meta, timer, token, checkId, file, didUpdate, requests, lost>>
<1>5. ASSUME Stays, image' = Idle(image), UNCHANGED faults PROVE FirmwareInv'
  BY <1>1, <1>3, <1>4, <1>5 DEF Idle, Image, TypeOK
<1>6. ASSUME Stays, image' = Idle([image EXCEPT !.open = FALSE]), FaultIf(TRUE)
      PROVE  FirmwareInv'
  BY <1>1, <1>3, <1>4, <1>6, FaultTypes DEF Idle, Image
<1>7. ASSUME Stays, image' = Discarded, NEW fails \in BOOLEAN, FaultIf(fails)
      PROVE  FirmwareInv'
  BY <1>1, <1>3, <1>7, FaultTypes DEF Discarded, Idle, Image
<1> QED
  BY <1>2, <1>5, <1>6, <1>7 DEF ImageFinished

-----------------------------------------------------------------------------
(* The file download *)

(* What a chunk is written to. *)
LEMMA HeldTypes ==
  ASSUME TypeOK, FileInv
  PROVE  Held \in Seq(Chunk)
BY EmptySeq DEF Held, TypeOK, FileInv

LEMMA WithTypes ==
  ASSUME TypeOK, file.path \in File, NEW contents \in Seq(Chunk)
  PROVE  /\ DOMAIN With(contents) \subseteq File /\ file.path \in DOMAIN With(contents)
         /\ \A x \in DOMAIN With(contents) : With(contents)[x] \in Seq(Chunk)
BY DEF With, TypeOK

LEMMA FileStepInv ==
  ASSUME FirmwareAssumption, FirmwareInv, mailbox # <<>>, mailbox' = Tail(mailbox),
         UNCHANGED <<running, partition, meta, timer, token, checkId, image, requests, lost>>,
         didUpdate' \in BOOLEAN, faults' \in 0..MaxFaults, leftovers' \subseteq File,
         DOMAIN fs' \subseteq File, \A x \in DOMAIN fs' : fs'[x] \in Seq(Chunk),
         file' \in CurrentFile, FileInv'
  PROVE  FirmwareInv'
<1>1. TypeOK' /\ Configured'
  BY TakenFacts DEF FirmwareInv, TypeOK, Configured
<1> QED
  BY <1>1 DEF FirmwareInv, BootedIsWhole, SumIsNewer, NoDeadSession

LEMMA FileChunkInv == ASSUME FirmwareAssumption, FirmwareInv, FileChunk PROVE FirmwareInv'
<1>1. /\ mailbox # <<>> /\ TypeOK /\ FileInv /\ mailbox' = Tail(mailbox)
      /\ Head(mailbox).type = "response_chunk"
      /\ file.id # None /\ file.path \in File
      /\ UNCHANGED <<running, partition, meta, timer, token, checkId, image, didUpdate,
                     requests, lost>>
  BY DEF FileChunk, Answer, Taken, FirmwareInv, FileInv
<1>2. Head(mailbox).chunk \in Chunk
  BY <1>1, TakenFacts, MessageFields
<1>3. /\ file \in CurrentFile /\ faults \in 0..MaxFaults /\ leftovers \subseteq File
      /\ didUpdate' \in BOOLEAN
  BY <1>1 DEF TypeOK
<1>4. CASE FileOpenFails
  <2>1. faults' \in 0..MaxFaults
    BY <1>1, <1>4, FaultTypes DEF FileOpenFails
  <2> QED
    BY <1>1, <1>3, <1>4, <2>1, FileStepInv DEF FileOpenFails, TypeOK, FileInv
<1>5. CASE FileWritten
  <2>1. Append(Held, Head(mailbox).chunk) \in Seq(Chunk)
    BY <1>1, <1>2, HeldTypes, AppendProperties
  <2>2. /\ DOMAIN fs' \subseteq File /\ file.path \in DOMAIN fs'
        /\ \A x \in DOMAIN fs' : fs'[x] \in Seq(Chunk)
    BY <1>1, <1>5, <2>1, WithTypes DEF FileWritten
  <2>3. file' \in CurrentFile /\ FileInv'
    BY <1>1, <1>3, <1>5, <2>2 DEF FileWritten, CurrentFile, FileInv
  <2> QED
    BY <1>1, <1>3, <1>5, <2>2, <2>3, FileStepInv DEF FileWritten
<1>6. CASE FileWriteFails
  <2>1. faults' \in 0..MaxFaults
    BY <1>1, <1>6, FaultTypes DEF FileWriteFails
  <2>2. PICK fails \in BOOLEAN : Remove(With(Held), fails)
    BY <1>6 DEF FileWriteFails
  <2>3. /\ DOMAIN fs' \subseteq File /\ \A x \in DOMAIN fs' : fs'[x] \in Seq(Chunk)
        /\ leftovers' \subseteq File
    BY <1>1, <1>3, <2>2, HeldTypes, WithTypes, RemoveTypes
  <2>4. file' \in CurrentFile /\ FileInv'
    BY <1>1, <1>3, <1>6 DEF FileWriteFails, CurrentFile, FileInv
  <2> QED
    BY <1>1, <1>3, <2>1, <2>3, <2>4, FileStepInv
<1> QED
  BY <1>4, <1>5, <1>6 DEF FileChunk

LEMMA DropFileTypes ==
  ASSUME TypeOK, DropFile, file.path \in File
  PROVE  /\ DOMAIN fs' \subseteq File /\ \A x \in DOMAIN fs' : fs'[x] \in Seq(Chunk)
         /\ leftovers' \subseteq File
BY RemoveTypes DEF DropFile, TypeOK

LEMMA FileErrorInv == ASSUME FirmwareAssumption, FirmwareInv, FileError PROVE FirmwareInv'
<1>1. /\ mailbox # <<>> /\ TypeOK /\ FileInv /\ mailbox' = Tail(mailbox)
      /\ DropFile /\ file.path \in File
      /\ UNCHANGED <<running, partition, meta, timer, token, checkId, image, didUpdate,
                     requests, faults, lost>>
  BY DEF FileError, Answer, Taken, FirmwareInv, FileInv
<1>2. file' \in CurrentFile /\ FileInv'
  BY <1>1 DEF FileError, TypeOK, CurrentFile, FileInv
<1>3. didUpdate' \in BOOLEAN /\ faults' \in 0..MaxFaults
  BY <1>1 DEF TypeOK
<1> QED
  BY <1>1, <1>2, <1>3, DropFileTypes, FileStepInv

LEMMA FileFinishedInv == ASSUME FirmwareAssumption, FirmwareInv, FileFinished PROVE FirmwareInv'
<1>1. /\ mailbox # <<>> /\ TypeOK /\ FileInv /\ mailbox' = Tail(mailbox)
      /\ file.path \in File
      /\ UNCHANGED <<running, partition, meta, timer, token, checkId, image, requests,
                     faults, lost>>
  BY DEF FileFinished, Answer, Taken, FirmwareInv, FileInv
<1>2. file' \in CurrentFile /\ FileInv'
  BY <1>1 DEF FileFinished, TypeOK, CurrentFile, FileInv
<1>3. /\ didUpdate' \in BOOLEAN /\ faults' \in 0..MaxFaults /\ leftovers' \subseteq File
      /\ DOMAIN fs' \subseteq File /\ \A x \in DOMAIN fs' : fs'[x] \in Seq(Chunk)
  <2>1. CASE FileVerified
    BY <1>1, <2>1 DEF FileFinished, TypeOK
  <2>2. CASE ~FileVerified
    BY <1>1, <2>2, DropFileTypes DEF FileFinished, TypeOK
  <2> QED
    BY <2>1, <2>2
<1> QED
  BY <1>1, <1>2, <1>3, FileStepInv

-----------------------------------------------------------------------------
(* Answers to nobody, and the environment *)

LEMMA IgnoreAnswerInv == ASSUME FirmwareAssumption, FirmwareInv, IgnoreAnswer PROVE FirmwareInv'
<1>1. /\ mailbox # <<>> /\ TypeOK /\ mailbox' = Tail(mailbox)
      /\ UNCHANGED <<flash, actor, requests, faults, history>>
  BY DEF IgnoreAnswer, FirmwareInv
<1>2. TypeOK' /\ Configured'
  BY <1>1, TakenFacts DEF FirmwareInv, TypeOK, Configured, flash, actor, history
<1> QED
  BY <1>1, <1>2 DEF FirmwareInv, FileInv, BootedIsWhole, SumIsNewer, NoDeadSession, flash, actor

(* A step that changes the mailbox, the requests and the history only. *)
LEMMA MailInv ==
  ASSUME FirmwareInv, UNCHANGED <<flash, actor, leftovers>>,
         mailbox' \in Seq(Message), Len(mailbox') <= MailboxCap,
         InMailbox("access_token")' => InMailbox("access_token") \/ checkId # None,
         requests' \subseteq Request, faults' \in 0..MaxFaults, lost' \in BOOLEAN
  PROVE  FirmwareInv'
<1>1. TypeOK' /\ Configured'
  BY DEF FirmwareInv, TypeOK, Configured, flash, actor
<1> QED
  BY <1>1 DEF FirmwareInv, FileInv, BootedIsWhole, SumIsNewer, NoDeadSession, flash, actor

LEMMA SenderInv ==
  ASSUME FirmwareAssumption, FirmwareInv, AppChecks \/ AuthSendsToken \/ TimerExpires
  PROVE  FirmwareInv'
<1>1. /\ TypeOK /\ UNCHANGED <<flash, actor, requests, faults, history>> /\ Room > 0
  BY DEF AppChecks, AuthSendsToken, TimerExpires, FirmwareInv
<1>2. /\ requests' \subseteq Request /\ faults' \in 0..MaxFaults /\ lost' \in BOOLEAN
      /\ UNCHANGED <<flash, actor, leftovers>>
  BY <1>1 DEF TypeOK, history
<1>3. ASSUME NEW m \in Message, mailbox' = Append(mailbox, m),
             m.type = "access_token" => checkId # None
      PROVE  FirmwareInv'
  BY <1>1, <1>2, <1>3, SentFacts, MailInv
<1>4. CASE AppChecks
  <2>1. PICK b \in BOOLEAN : mailbox' = Append(mailbox, [type |-> "check", intent |-> b])
    BY <1>4 DEF AppChecks
  <2> QED
    BY <1>3, <2>1, MessageFacts
<1>5. CASE AuthSendsToken
  BY <1>3, <1>5, MessageFacts DEF AuthSendsToken
<1>6. CASE TimerExpires
  BY <1>3, <1>6, MessageFacts DEF TimerExpires
<1> QED
  BY <1>4, <1>5, <1>6

LEMMA ChunkSentInv ==
  ASSUME FirmwareAssumption, FirmwareInv, NEW r \in requests, ChunkSent(r)
  PROVE  FirmwareInv'
<1>1. /\ TypeOK /\ UNCHANGED <<flash, actor, leftovers>> /\ lost' \in BOOLEAN
      /\ mailbox \in Seq(Message) /\ Len(mailbox) \in 0..MailboxCap /\ Room \in 0..MailboxCap
      /\ r \in Request /\ requests \subseteq Request
  BY DEF ChunkSent, history, FirmwareInv, TypeOK, Room, FirmwareAssumption
<1>2. r.id \in Id /\ r.of \in Version \cup File /\ r.sent \in 0..Chunks /\ r.sent < Chunks
  BY <1>1, RequestFields DEF ChunkSent
<1>3. r.sent + 1 \in 1..Chunks /\ r.sent + 1 \in 0..Chunks
  BY <1>2 DEF FirmwareAssumption
<1>4. requests' \subseteq Request
  <2>1. [r EXCEPT !.sent = r.sent + 1] \in Request
    BY <1>1, <1>3, RequestFields DEF ChunkSent
  <2> QED
    BY <1>1, <2>1 DEF ChunkSent
<1>5. faults' \in 0..MaxFaults
  BY <1>1, FaultTypes DEF ChunkSent
<1>6. CASE Room = 0
  BY <1>1, <1>4, <1>5, <1>6, MailInv DEF ChunkSent, InMailbox
<1>7. CASE Room > 0
  <2> DEFINE m == [type |-> "response_chunk", id |-> r.id, chunk |-> <<r.of, r.sent + 1>>]
  <2>1. m \in Message
    BY <1>2, <1>3, MessageFacts DEF Chunk
  <2>2. mailbox' = Append(mailbox, m)
    BY <1>7 DEF ChunkSent
  <2> QED
    BY <1>1, <1>4, <1>5, <1>7, <2>1, <2>2, SentFacts, MailInv
<1> QED
  BY <1>1, <1>6, <1>7

LEMMA RequestEndsInv ==
  ASSUME FirmwareAssumption, FirmwareInv, NEW r \in requests, NEW error \in BOOLEAN,
         NEW m \in Metadata \cup {None}, RequestEnds(r, error, m)
  PROVE  FirmwareInv'
<1> DEFINE answer == [type |-> "response_finished", id |-> r.id, meta |-> m]
           all == IF error THEN <<[type |-> "response_error", id |-> r.id], answer>>
                  ELSE <<answer>>
           fits == SubSeq(all, 1, IF Room < Len(all) THEN Room ELSE Len(all))
<1>1. /\ TypeOK /\ mailbox \in Seq(Message) /\ Len(mailbox) \in Nat /\ MailboxCap \in Nat
      /\ Room = MailboxCap - Len(mailbox) /\ Room \in Nat
      /\ r \in Request /\ requests \subseteq Request
  BY DEF FirmwareInv, TypeOK, Room, FirmwareAssumption
<1>2. /\ UNCHANGED <<flash, actor, leftovers>>
      /\ requests' \subseteq Request
      /\ mailbox' = mailbox \o fits
      /\ lost' = (lost \/ (fits # all /\ Awaited(r.id)))
      /\ FaultIf(error \/ (r.kind # "check" /\ r.sent < Chunks) \/ fits # all)
  BY <1>1 DEF RequestEnds
<1>3. lost' \in BOOLEAN /\ faults' \in 0..MaxFaults
  <2> HIDE DEF fits, all
  <2>1. lost' \in BOOLEAN
    BY <1>1, <1>2 DEF TypeOK
  <2>2. faults' \in 0..MaxFaults
    BY <1>1, <1>2 DEF FaultIf, TypeOK, FirmwareAssumption
  <2> QED
    BY <2>1, <2>2
<1>4. /\ all \in Seq(Message) /\ Len(all) \in Nat
      /\ \A i \in 1..Len(all) : all[i].type # "access_token"
  <2>1. answer \in Message /\ [type |-> "response_error", id |-> r.id] \in Message
    BY <1>1, RequestFields, MessageFacts
  <2>2. CASE error
    BY <2>1, <2>2
  <2>3. CASE ~error
    BY <2>1, <2>3
  <2> QED
    BY <2>2, <2>3
<1> DEFINE n == IF Room < Len(all) THEN Room ELSE Len(all)
<1>5. /\ fits \in Seq(Message) /\ Len(fits) <= Room
      /\ \A i \in 1..Len(fits) : fits[i].type # "access_token"
  <2> HIDE DEF all
  <2>1. n \in Nat /\ n <= Room /\ n <= Len(all)
    BY <1>1, <1>4
  <2>2. \A i \in 1..n : all[i] \in Message
    BY <1>4, <2>1
  <2> HIDE DEF n
  <2>3. /\ SubSeq(all, 1, n) \in Seq(Message) /\ Len(SubSeq(all, 1, n)) = n
        /\ \A i \in 1..n : SubSeq(all, 1, n)[i] = all[i]
    BY <2>1, <2>2, SubSeqProperties
  <2>4. fits = SubSeq(all, 1, n)
    BY DEF n
  <2> HIDE DEF fits
  <2>5. n <= Room /\ 1..n \subseteq 1..Len(all)
    BY <1>4, <2>1
  <2> QED
    BY <1>4, <2>1, <2>3, <2>4, <2>5
<1>6. /\ mailbox' \in Seq(Message) /\ Len(mailbox') <= MailboxCap
      /\ InMailbox("access_token")' => InMailbox("access_token")
  <2> HIDE DEF fits
  <2>1. /\ mailbox' \in Seq(Message) /\ Len(mailbox') = Len(mailbox) + Len(fits)
        /\ \A i \in 1..Len(mailbox) + Len(fits) :
             mailbox'[i] = IF i <= Len(mailbox) THEN mailbox[i] ELSE fits[i - Len(mailbox)]
    BY <1>1, <1>2, <1>5, ConcatProperties
  <2>2. Len(fits) \in Nat
    BY <1>5
  <2>3. ASSUME NEW i \in 1..Len(mailbox'), mailbox'[i].type = "access_token"
        PROVE  i \in 1..Len(mailbox) /\ mailbox[i].type = "access_token"
    <3>1. CASE i <= Len(mailbox)
      BY <1>1, <2>1, <2>2, <2>3, <3>1
    <3>2. CASE i > Len(mailbox)
      BY <1>1, <1>5, <2>1, <2>2, <2>3, <3>2
    <3> QED
      BY <1>1, <2>1, <2>2, <3>1, <3>2
  <2> QED
    BY <1>1, <1>5, <2>1, <2>2, <2>3 DEF InMailbox
<1> QED
  BY <1>2, <1>3, <1>6, MailInv

LEMMA RequestLostInv ==
  ASSUME FirmwareAssumption, FirmwareInv, NEW r \in requests, RequestLost(r)
  PROVE  FirmwareInv'
<1>1. /\ TypeOK /\ UNCHANGED <<flash, actor, mailbox, leftovers>>
      /\ requests' \subseteq Request /\ lost' \in BOOLEAN /\ faults' \in 0..MaxFaults
  BY FaultTypes DEF RequestLost, FirmwareInv, TypeOK
<1> QED
  BY <1>1, MailInv DEF TypeOK, InMailbox

LEMMA PowerLossInv == ASSUME FirmwareAssumption, FirmwareInv, PowerLoss PROVE FirmwareInv'
<1>1. /\ TypeOK /\ Reboot(running) /\ UNCHANGED <<partition, fs>>
      /\ faults' \in 0..MaxFaults
  BY FaultTypes DEF PowerLoss, FirmwareInv
<1>2. leftovers' \subseteq File
  BY <1>1 DEF PowerLoss, TypeOK
<1>3. PICK v \in Version : running = Contents(v)
  BY DEF FirmwareInv, BootedIsWhole
<1> QED
  BY <1>1, <1>2, <1>3, RebootFacts DEF FirmwareInv, TypeOK

-----------------------------------------------------------------------------
(* The theorems *)

LEMMA NextInv == ASSUME FirmwareAssumption, FirmwareInv, [Next]_vars PROVE FirmwareInv'
<1>1. CASE ActorStep
  BY <1>1, TakeCheckInv, TakeTokenInv, CheckFinishedInv, IgnoreTickInv, RequestFilesInv,
     RequestImageInv, StopUpdatingInv, ImageChunkInv, ImageFinishedInv, FileChunkInv,
     FileErrorInv, FileFinishedInv, IgnoreAnswerInv DEF ActorStep
<1>2. CASE AppChecks \/ AuthSendsToken \/ TimerExpires
  BY <1>2, SenderInv
<1>3. ASSUME NEW r \in requests, RequestStep(r) \/ RequestLost(r) PROVE FirmwareInv'
  BY <1>3, ChunkSentInv, RequestEndsInv, RequestLostInv DEF RequestStep
<1>4. CASE PowerLoss
  BY <1>4, PowerLossInv
<1>5. CASE UNCHANGED vars
  BY <1>5
  DEF vars, flash, actor, history, FirmwareInv, TypeOK, FileInv, Configured, InMailbox,
      BootedIsWhole, SumIsNewer, NoDeadSession
<1> QED
  BY <1>1, <1>2, <1>3, <1>4, <1>5 DEF Next

(* The inductive invariant: what the files, the token and the checksum of  *)
(* the image are worth at any time.                                        *)
THEOREM FirmwareInvariant == SafeSpec => []FirmwareInv
<1>1. Init => FirmwareInv
  BY FirmwareAssumption, InitInv
<1>2. FirmwareInv /\ [Next]_vars => FirmwareInv'
  BY FirmwareAssumption, NextInv
<1> QED
  BY <1>1, <1>2, PTL DEF SafeSpec

(* Types of the firmware update actor, for any metadata and bounds. *)
THEOREM FirmwareTypes == SafeSpec => []TypeOK
<1>1. FirmwareInv => TypeOK
  BY DEF FirmwareInv
<1> QED
  BY <1>1, FirmwareInvariant, PTL

(* firmware_update_actor.cpp:268-292: whatever fails or is lost, the       *)
(* device runs a whole image of one version.                               *)
THEOREM BootsWholeImages == SafeSpec => []BootedIsWhole
<1>1. FirmwareInv => BootedIsWhole
  BY DEF FirmwareInv
<1> QED
  BY <1>1, FirmwareInvariant, PTL

(* firmware_update_actor.cpp:201-226: a session that refuses to be written *)
(* is never left started.                                                  *)
THEOREM SessionsCanBeWritten == SafeSpec => []NoDeadSession
<1>1. FirmwareInv => NoDeadSession
  BY DEF FirmwareInv
<1> QED
  BY <1>1, FirmwareInvariant, PTL

(* firmware_update_actor.cpp:623: only a newer version replaces the one    *)
(* that runs.                                                              *)
THEOREM NeverDowngrades == SafeSpec => BootsNewer
<1>1. ASSUME FirmwareInv, Next
      PROVE  running' # running => VersionOf(running') > VersionOf(running)
  <2>1. CASE ImageFinished
    <3>1. CASE Reboot(partition) /\ ImageVerified
      <4>1. /\ image.sum \in Version /\ running' = Contents(image.sum)
            /\ image.sum > VersionOf(running)
        <5>1. image \in Image /\ (image.sum # None => image.sum > VersionOf(running))
          BY <1>1 DEF FirmwareInv, SumIsNewer, TypeOK
        <5>2. image.sum # None /\ partition = Contents(image.sum)
          BY <3>1 DEF ImageVerified
        <5>3. running' = partition
          BY <3>1 DEF Reboot
        <5> QED
          BY <5>1, <5>2, <5>3 DEF Image
      <4> QED
        BY <4>1, ContentsFacts, FirmwareAssumption
    <3> QED
      BY <2>1, <3>1 DEF ImageFinished
  <2>2. CASE StopUpdating
    BY <2>2 DEF StopUpdating, Reboot
  <2>3. CASE PowerLoss
    BY <2>3 DEF PowerLoss, Reboot
  <2>4. CASE TakeCheck \/ TakeToken \/ CheckFinished \/ IgnoreTick \/ RequestFiles
             \/ RequestImage \/ ImageChunk \/ FileChunk \/ FileError \/ FileFinished
             \/ IgnoreAnswer
    BY <2>4
    DEF TakeCheck, TakeToken, CheckFinished, IgnoreTick, RequestFiles, RequestImage,
        ImageChunk, FileChunk, FileError, FileFinished, IgnoreAnswer, flash
  <2>5. CASE AppChecks \/ AuthSendsToken \/ TimerExpires
    BY <2>5 DEF AppChecks, AuthSendsToken, TimerExpires, flash
  <2>6. ASSUME NEW r \in requests, RequestStep(r) \/ RequestLost(r) PROVE running' = running
    BY <2>6 DEF RequestStep, ChunkSent, RequestEnds, RequestLost, flash
  <2> QED
    BY <1>1, <2>1, <2>2, <2>3, <2>4, <2>5, <2>6 DEF Next, ActorStep
<1>2. FirmwareInv /\ [Next]_vars =>
        [running' # running => VersionOf(running') > VersionOf(running)]_vars
  BY <1>1
<1> QED
  BY <1>2, FirmwareInvariant, PTL DEF SafeSpec, BootsNewer

-----------------------------------------------------------------------------
(* Files *)

(* One download at a time; a file with a checksum is held against its own. *)
PathInv ==
  /\ file.id = None => file.path = None
  /\ file.id # None => image.id = None
  /\ file.path \in Checked => file.sum = file.path

VerifiedInv == PathInv /\ VerifiedFiles

(* Steps that leave the files alone. *)
LEMMA FilesUntouched ==
  ASSUME VerifiedInv, UNCHANGED <<fs, leftovers, file>>, image'.id = image.id
  PROVE  VerifiedInv'
BY DEF VerifiedInv, PathInv, VerifiedFiles

LEMMA RequestKeepsActor ==
  ASSUME NEW r, RequestStep(r) \/ RequestLost(r)
  PROVE  UNCHANGED <<flash, actor, leftovers>>
<1>1. ASSUME NEW error, NEW m, RequestEnds(r, error, m) PROVE UNCHANGED <<flash, actor, leftovers>>
  BY <1>1 DEF RequestEnds
<1> QED BY <1>1 DEF RequestStep, ChunkSent, RequestLost, history

LEMMA VerifiedInit == ASSUME Init PROVE VerifiedInv
BY FirmwareAssumption
DEF Init, VerifiedInv, PathInv, VerifiedFiles, NoCurrentFile, NoImage, FirmwareAssumption

LEMMA RebootFiles ==
  ASSUME VerifiedInv, NEW contents, Reboot(contents), UNCHANGED fs,
         leftovers' = leftovers \/ leftovers' = leftovers \cup {file.path},
         file.path \in DOMAIN fs => leftovers' = leftovers \cup {file.path}
  PROVE  VerifiedInv'
<1>1. file' = NoCurrentFile /\ image' = NoImage
  BY DEF Reboot
<1>2. PathInv'
  BY <1>1, FirmwareAssumption DEF PathInv, NoCurrentFile, NoImage, FirmwareAssumption
<1>3. \A f \in DOMAIN fs : f \notin leftovers' => f \notin leftovers \cup {file.path}
  OBVIOUS
<1> QED BY <1>2, <1>3 DEF VerifiedInv, VerifiedFiles

LEMMA RequestFilesVerified ==
  ASSUME TypeOK, VerifiedInv, RequestFiles
  PROVE  VerifiedInv'
<1> DEFINE ids == Fresh(Missing)
           checked == {i \in Missing : meta.files[i] \in Checked}
           last == LastOf(Missing)
<1>1. /\ meta \in Metadata /\ file.id = None /\ image.id = None /\ Missing # {} /\ CanRequest(Missing)
      /\ UNCHANGED <<fs, image, leftovers>>
      /\ file' = [file EXCEPT !.id = ids[last], !.path = meta.files[last],
                              !.sum = IF checked = {} THEN @ ELSE meta.files[LastOf(checked)]]
  BY DEF RequestFiles, MayUpdate, TypeOK, flash, history
<1>2. Missing \subseteq 1..Len(meta.files) /\ Len(meta.files) \in Nat
  BY <1>1, FirmwareAssumption, MetadataFields DEF Missing
<1>3. last \in Missing /\ \A j \in Missing : j <= last
  BY <1>1, <1>2, LastExists
<1>4. checked # {} => LastOf(checked) \in checked /\ \A j \in checked : j <= LastOf(checked)
  BY <1>2, LastExists
<1>5. meta.files[last] \in Checked => checked # {} /\ LastOf(checked) = last
  <2>1. SUFFICES ASSUME last \in checked PROVE LastOf(checked) = last
    BY <1>3
  <2> PICK i, j : i = LastOf(checked) /\ j = last
    OBVIOUS
  <2>2. i \in Missing /\ j \in Missing /\ i <= j /\ j <= i
    BY <1>3, <1>4, <2>1
  <2>3. i = j
    BY <1>2, <2>2
  <2> QED BY <2>3
<1> HIDE DEF ids, checked, last
<1>6. /\ file'.id = ids[last] /\ file'.path = meta.files[last]
      /\ file'.sum = IF checked = {} THEN file.sum ELSE meta.files[LastOf(checked)]
  BY <1>1 DEF TypeOK, CurrentFile
<1>7. ids[last] # None
  BY <1>1, <1>3, FreshFacts, FirmwareAssumption DEF ids, FirmwareAssumption
<1>8. PathInv'
  BY <1>1, <1>5, <1>6, <1>7 DEF PathInv
<1>9. file.path \notin File
  BY <1>1, FirmwareAssumption DEF VerifiedInv, PathInv, FirmwareAssumption
<1>10. VerifiedFiles'
  BY <1>1, <1>9, FirmwareAssumption DEF VerifiedInv, VerifiedFiles, FirmwareAssumption
<1> QED BY <1>8, <1>10 DEF VerifiedInv

(* Only the file that is downloaded is written or removed. *)
LEMMA OneFileTouched ==
  ASSUME VerifiedInv, file'.path = file.path, file'.sum = file.sum, file'.id = file.id, image'.id = image.id,
         leftovers \subseteq leftovers',
         \A f \in DOMAIN fs' : f # file.path => f \in DOMAIN fs /\ fs'[f] = fs[f]
  PROVE  VerifiedInv'
BY DEF VerifiedInv, PathInv, VerifiedFiles

LEMMA FileFinishedVerified ==
  ASSUME TypeOK, VerifiedInv, FileFinished
  PROVE  VerifiedInv'
<1>1. /\ file.id # None /\ file.id \in Id /\ file'.id = None /\ file'.path = None /\ file'.sum = file.sum
      /\ image' = image
  BY DEF FileFinished, Answer, TypeOK, CurrentFile
<1>2. PathInv'
  BY <1>1, FirmwareAssumption DEF VerifiedInv, PathInv, FirmwareAssumption
<1>3. CASE FileVerified
  <2>1. UNCHANGED <<fs, leftovers>>
    BY <1>3 DEF FileFinished
  <2>2. file.path \in Checked => fs[file.path] = Contents(file.path)
    BY <1>3, FirmwareAssumption DEF FileVerified, VerifiedInv, PathInv, FirmwareAssumption
  <2>3. VerifiedFiles'
    BY <2>1, <2>2 DEF VerifiedInv, VerifiedFiles
  <2> QED BY <1>2, <2>3 DEF VerifiedInv
<1>4. CASE DropFile
  <2>1. PICK fails \in BOOLEAN : Remove(fs, fails)
    BY <1>4 DEF DropFile
  <2>2. /\ \A f \in DOMAIN fs' : f \in DOMAIN fs /\ fs'[f] = fs[f]
        /\ leftovers \subseteq leftovers'
        /\ file.path \in leftovers' \/ file.path \notin DOMAIN fs'
    BY <2>1 DEF Remove
  <2>3. VerifiedFiles'
    BY <2>2 DEF VerifiedInv, VerifiedFiles
  <2> QED BY <1>2, <2>3 DEF VerifiedInv
<1> QED BY <1>3, <1>4 DEF FileFinished

LEMMA FileTransferVerified ==
  ASSUME TypeOK, VerifiedInv, FileChunk \/ FileError
  PROVE  VerifiedInv'
<1>1. file \in CurrentFile
  BY DEF TypeOK
<1>2. /\ file'.path = file.path /\ file'.sum = file.sum /\ file'.id = file.id /\ image' = image
      /\ leftovers \subseteq leftovers'
      /\ \A f \in DOMAIN fs' : f # file.path => f \in DOMAIN fs /\ fs'[f] = fs[f]
  <2>1. CASE FileError
    BY <1>1, <2>1 DEF FileError, DropFile, Remove, CurrentFile
  <2>2. CASE FileChunk /\ FileOpenFails
    BY <1>1, <2>2 DEF FileChunk, FileOpenFails
  <2>3. CASE FileChunk /\ FileWritten
    BY <1>1, <2>3 DEF FileChunk, FileWritten, With, CurrentFile
  <2>4. CASE FileChunk /\ FileWriteFails
    BY <1>1, <2>4 DEF FileChunk, FileWriteFails, Remove, With, CurrentFile
  <2> QED BY <2>1, <2>2, <2>3, <2>4 DEF FileChunk
<1> QED BY <1>2, OneFileTouched

LEMMA VerifiedNext ==
  ASSUME TypeOK, VerifiedInv, [Next]_vars
  PROVE  VerifiedInv'
<1>1. CASE RequestFiles
  BY <1>1, RequestFilesVerified
<1>2. CASE FileFinished
  BY <1>2, FileFinishedVerified
<1>3. CASE FileChunk \/ FileError
  BY <1>3, FileTransferVerified
<1>4. CASE RequestImage
  <2>1. /\ file.id = None /\ UNCHANGED <<fs, leftovers, file>>
    BY <1>4 DEF RequestImage, MayUpdate, flash, history
  <2> QED BY <2>1 DEF VerifiedInv, PathInv, VerifiedFiles
<1>5. CASE PowerLoss
  BY <1>5, RebootFiles DEF PowerLoss
<1>6. CASE StopUpdating
  <2>1. CASE didUpdate
    <3>1. file.path \notin File
      BY <1>6, FirmwareAssumption DEF StopUpdating, MayUpdate, VerifiedInv, PathInv, FirmwareAssumption
    <3> QED BY <1>6, <2>1, <3>1, RebootFiles DEF StopUpdating, TypeOK
  <2>2. CASE ~didUpdate
    BY <1>6, <2>2, FilesUntouched DEF StopUpdating, history
  <2> QED BY <2>1, <2>2
<1>7. CASE ImageFinished
  <2>0. image.id # None /\ image \in Image /\ UNCHANGED <<fs, leftovers>>
    BY <1>7 DEF ImageFinished, Answer, TypeOK
  <2>1. CASE Reboot(partition)
    <3>1. file.path \notin File
      BY <2>0, FirmwareAssumption DEF VerifiedInv, PathInv, FirmwareAssumption
    <3> QED BY <2>0, <2>1, <3>1, RebootFiles DEF TypeOK
  <2>2. CASE ~Reboot(partition)
    <3>1. file' = file /\ file.id = None
      BY <1>7, <2>0, <2>2 DEF ImageFinished, VerifiedInv, PathInv
    <3> QED BY <2>0, <3>1 DEF VerifiedInv, PathInv, VerifiedFiles
  <2> QED BY <2>1, <2>2
<1>8. CASE ImageChunk
  <2>1. UNCHANGED <<fs, leftovers, file>> /\ image'.id = image.id
    BY <1>8 DEF ImageChunk, BeginFails, Write, WriteFailed, Begun, history, TypeOK, Image
  <2> QED BY <2>1, FilesUntouched
<1>9. CASE TakeCheck \/ TakeToken \/ CheckFinished \/ IgnoreTick \/ IgnoreAnswer
             \/ AppChecks \/ AuthSendsToken \/ TimerExpires
  <2>1. UNCHANGED <<fs, leftovers, file, image>>
    BY <1>9 DEF TakeCheck, TakeToken, CheckFinished, IgnoreTick, IgnoreAnswer, AppChecks, AuthSendsToken,
                TimerExpires, flash, actor, history
  <2> QED BY <2>1, FilesUntouched
<1>10. CASE \E r \in requests : RequestStep(r) \/ RequestLost(r)
  <2>1. UNCHANGED <<flash, actor, leftovers>>
    BY <1>10, RequestKeepsActor
  <2> QED BY <2>1, FilesUntouched DEF flash, actor
<1>11. CASE UNCHANGED vars
  BY <1>11, FilesUntouched DEF vars, flash, actor, history
<1> QED BY <1>1, <1>2, <1>3, <1>4, <1>5, <1>6, <1>7, <1>8, <1>9, <1>10, <1>11 DEF Next, ActorStep

(* firmware_update_actor.cpp:454-475: a file with a checksum that exists   *)
(* is whole, whatever fails: it is the one that is downloaded, or one that *)
(* could not be removed, or the contents its checksum is of.               *)
THEOREM KeptFilesAreWhole == SafeSpec => []VerifiedFiles
<1>1. Init => VerifiedInv
  BY VerifiedInit
<1>2. TypeOK /\ VerifiedInv /\ [Next]_vars => VerifiedInv'
  BY VerifiedNext
<1>3. VerifiedInv => VerifiedFiles
  BY DEF VerifiedInv
<1> QED BY <1>1, <1>2, <1>3, FirmwareTypes, PTL DEF SafeSpec

-----------------------------------------------------------------------------
(* Chunks *)

Before(c, d) == c[1] = d[1] /\ c[2] < d[2]

(* The chunk a request sends next. *)
Due(r) == <<r.of, r.sent + 1>>

ChunkAt(k) == mailbox[k].type = "response_chunk"

(* An id is of one request; its chunks are in order, from the mailbox to   *)
(* the one it sends next.                                                  *)
Streams ==
  /\ \A r, s \in requests : r.id = s.id => r = s
  /\ \A r \in requests : r.id = checkId => r.kind = "check"
  /\ \A k \in 1..Len(mailbox) : ChunkAt(k) =>
       /\ mailbox[k].id # checkId
       /\ \A l \in 1..Len(mailbox) :
            k < l /\ ChunkAt(l) /\ mailbox[l].id = mailbox[k].id => Before(mailbox[k].chunk, mailbox[l].chunk)
       /\ \A r \in requests :
            r.id = mailbox[k].id => r.kind # "check" /\ Before(mailbox[k].chunk, Due(r))

(* What is written in a session comes before all that is to come.          *)
Session ==
  image.started /\ image.open =>
    /\ image.id # None
    /\ \A i \in 1..Len(partition) :
         /\ \A k \in 1..Len(mailbox) :
              ChunkAt(k) /\ mailbox[k].id = image.id => Before(partition[i], mailbox[k].chunk)
         /\ \A r \in requests :
              r.id = image.id => r.kind # "check" /\ Before(partition[i], Due(r))

ChunksInv ==
  /\ image.id # None => image.id # checkId
  /\ Streams /\ Session /\ OneDownload

(* No chunk is added to the mailbox, whose first d messages are taken. *)
Shrinks(d) ==
  \A k \in 1..Len(mailbox') :
    ChunkAt(k)' => k + d \in 1..Len(mailbox) /\ mailbox'[k] = mailbox[k + d]

LEMMA ShrinksTail ==
  ASSUME TypeOK, mailbox # <<>>, mailbox' = Tail(mailbox)
  PROVE  Shrinks(1)
<1>1. mailbox \in Seq(Message)
  BY DEF TypeOK
<1>2. \A k \in 1..Len(mailbox') : k + 1 \in 1..Len(mailbox) /\ mailbox'[k] = mailbox[k + 1]
  BY <1>1
<1> QED BY <1>2 DEF Shrinks

LEMMA ShrinksAppend ==
  ASSUME TypeOK, NEW m, m.type # "response_chunk",
         mailbox' = Append(mailbox, m)
  PROVE  Shrinks(0)
<1>1. mailbox \in Seq(Message) /\ Len(mailbox) \in Nat
  BY DEF TypeOK
<1>2. /\ Len(mailbox') = Len(mailbox) + 1
      /\ mailbox'[Len(mailbox) + 1] = m
      /\ \A k \in 1..Len(mailbox) : mailbox'[k] = mailbox[k]
  BY <1>1, AppendProperties
<1>3. \A k \in 1..Len(mailbox') : ChunkAt(k)' => k \in 1..Len(mailbox)
  BY <1>1, <1>2 DEF ChunkAt
<1> QED BY <1>1, <1>2, <1>3 DEF Shrinks

LEMMA ShrinksTailAppend ==
  ASSUME TypeOK, mailbox # <<>>, NEW m, m.type # "response_chunk",
         mailbox' = Append(Tail(mailbox), m)
  PROVE  Shrinks(1)
<1> PICK rest : rest = Tail(mailbox)
  OBVIOUS
<1>1. /\ rest \in Seq(Message) /\ Len(rest) \in Nat
      /\ \A k \in 1..Len(rest) : k + 1 \in 1..Len(mailbox) /\ rest[k] = mailbox[k + 1]
  <2>1. mailbox \in Seq(Message)
    BY DEF TypeOK
  <2> QED BY <2>1
<1>2. /\ Len(mailbox') = Len(rest) + 1
      /\ mailbox'[Len(rest) + 1] = m
      /\ \A k \in 1..Len(rest) : mailbox'[k] = rest[k]
  BY <1>1, AppendProperties
<1>3. \A k \in 1..Len(mailbox') : ChunkAt(k)' => k \in 1..Len(rest)
  BY <1>1, <1>2 DEF ChunkAt
<1> QED BY <1>1, <1>2, <1>3 DEF Shrinks

(* Steps that add neither chunks nor requests. *)
LEMMA OrderKept ==
  ASSUME Streams, NEW d \in Nat, Shrinks(d),
         NEW k \in 1..Len(mailbox'), NEW l \in 1..Len(mailbox'), k < l,
         ChunkAt(k)', ChunkAt(l)', mailbox'[l].id = mailbox'[k].id
  PROVE  Before(mailbox'[k].chunk, mailbox'[l].chunk)
<1>1. PICK i, j : i = k + d /\ j = l + d
  OBVIOUS
<1>2. /\ i \in 1..Len(mailbox) /\ j \in 1..Len(mailbox) /\ i < j
      /\ mailbox'[k] = mailbox[i] /\ mailbox'[l] = mailbox[j]
  BY <1>1 DEF Shrinks
<1> QED BY <1>2 DEF Streams, ChunkAt

LEMMA StreamsKept ==
  ASSUME Streams, NEW d \in Nat, Shrinks(d), requests' \subseteq requests, checkId' = checkId
  PROVE  Streams'
<1>1. \A k \in 1..Len(mailbox') : ChunkAt(k)' => mailbox'[k].id # checkId'
  BY DEF Streams, Shrinks, ChunkAt
<1>2. \A k, l \in 1..Len(mailbox') :
        ChunkAt(k)' /\ k < l /\ ChunkAt(l)' /\ mailbox'[l].id = mailbox'[k].id
          => Before(mailbox'[k].chunk, mailbox'[l].chunk)
  BY OrderKept
<1>3. \A k \in 1..Len(mailbox'), r \in requests' :
        ChunkAt(k)' /\ r.id = mailbox'[k].id => r.kind # "check" /\ Before(mailbox'[k].chunk, Due(r))
  BY DEF Streams, Shrinks, ChunkAt
<1> QED BY <1>1, <1>2, <1>3 DEF Streams

LEMMA SessionKept ==
  ASSUME Session, NEW d \in Nat, Shrinks(d), requests' \subseteq requests,
         image'.started /\ image'.open => /\ image.started /\ image.open /\ image'.id = image.id
                                          /\ partition' = partition
  PROVE  Session'
BY DEF Session, Shrinks, ChunkAt

LEMMA ChunksKept ==
  ASSUME ChunksInv, NEW d \in Nat, Shrinks(d), requests' \subseteq requests,
         UNCHANGED <<checkId, image, partition>>
  PROVE  ChunksInv'
BY StreamsKept, SessionKept DEF ChunksInv, OneDownload

LEMMA ChunksReboot ==
  ASSUME ChunksInv, NEW contents, Reboot(contents), UNCHANGED partition
  PROVE  ChunksInv'
<1>1. mailbox' = <<>> /\ requests' = {} /\ image' = NoImage /\ Len(mailbox') = 0
  BY DEF Reboot
<1> QED BY <1>1 DEF ChunksInv, Streams, Session, OneDownload, NoImage

LEMMA ChunksInit == ASSUME Init PROVE ChunksInv
<1>1. Len(mailbox) = 0 /\ Len(partition) = 0 /\ requests = {}
  BY DEF Init
<1> QED BY <1>1 DEF Init, ChunksInv, Streams, Session, OneDownload, NoImage

(* New requests have ids nobody has. *)
LEMMA FreshUnused ==
  ASSUME NEW at, CanRequest(at)
  PROVE  Fresh(at) \in [at -> Unused] /\ Injective(Fresh(at))
BY DEF CanRequest, Fresh

LEMMA StreamsGrow ==
  ASSUME Streams, Shrinks(1), checkId' = checkId \/ checkId' \in Unused,
         \A r \in requests' \ requests : r.id \in Unused /\ (r.id = checkId' => r.kind = "check"),
         \A r, s \in requests' \ requests : r.id = s.id => r = s
  PROVE  Streams'
<1>1. /\ \A r \in requests, i \in Unused : r.id # i
      /\ \A k \in 1..Len(mailbox), i \in Unused : ChunkAt(k) => mailbox[k].id # i
  BY DEF Unused, Answers, ChunkAt
<1>2. \A r, s \in requests' : r.id = s.id => r = s
  BY <1>1 DEF Streams
<1>3. \A r \in requests' : r.id = checkId' => r.kind = "check"
  BY <1>1 DEF Streams
<1>4. \A k \in 1..Len(mailbox') : ChunkAt(k)' => mailbox'[k].id # checkId'
  BY <1>1 DEF Streams, Shrinks, ChunkAt
<1>5. \A k, l \in 1..Len(mailbox') :
        ChunkAt(k)' /\ k < l /\ ChunkAt(l)' /\ mailbox'[l].id = mailbox'[k].id
          => Before(mailbox'[k].chunk, mailbox'[l].chunk)
  BY OrderKept
<1>6. \A k \in 1..Len(mailbox'), r \in requests' :
        ChunkAt(k)' /\ r.id = mailbox'[k].id => r.kind # "check" /\ Before(mailbox'[k].chunk, Due(r))
  BY <1>1 DEF Streams, Shrinks, ChunkAt
<1> QED BY <1>2, <1>3, <1>4, <1>5, <1>6 DEF Streams

LEMMA TakeCheckChunks ==
  ASSUME FirmwareInv, ChunksInv, TakeCheck
  PROVE  ChunksInv'
<1> DEFINE request == [id |-> checkId', kind |-> "check", sent |-> 0]
<1>1. /\ TypeOK /\ mailbox # <<>> /\ mailbox' = Tail(mailbox) /\ UNCHANGED <<image, partition>>
      /\ requests' = IF token THEN requests \cup {request} ELSE requests
      /\ checkId' = checkId \/ checkId' \in Unused
  BY FreshUnused DEF TakeCheck, Taken, flash, FirmwareInv
<1>2. Shrinks(1)
  BY <1>1, ShrinksTail
<1>3. image.id # None => image.id # checkId'
  BY <1>1 DEF ChunksInv, Unused
<1>4. Streams'
  <2>1. CASE ~token /\ checkId' = checkId
    BY <1>1, <1>2, <2>1, StreamsKept DEF ChunksInv
  <2>2. CASE ~token /\ checkId' \in Unused
    BY <1>1, <1>2, <2>2, StreamsGrow DEF ChunksInv
  <2>3. CASE token /\ checkId' \in Unused
    <3>1. requests' = requests \cup {request} /\ request.id = checkId' /\ request.kind = "check"
      BY <1>1, <2>3
    <3> HIDE DEF request
    <3> QED BY <1>1, <1>2, <2>3, <3>1, StreamsGrow DEF ChunksInv
  <2>4. CASE token /\ checkId' = checkId
    <3>1. \A r \in requests : r.id = checkId => r = request
      BY <1>1, <2>4 DEF ChunksInv, Streams, TypeOK, Request
    <3>2. \A k \in 1..Len(mailbox) : ChunkAt(k) => mailbox[k].id # checkId
      BY DEF ChunksInv, Streams
    <3>3. \A k, l \in 1..Len(mailbox') : k < l => k + 1 < l + 1
      OBVIOUS
    <3> HIDE DEF request
    <3>4. request.id = checkId /\ request.kind = "check" /\ requests' = requests \cup {request}
      BY <1>1, <2>4 DEF request
    <3> QED BY <1>2, <2>4, <3>1, <3>2, <3>3, <3>4 DEF ChunksInv, Streams, Shrinks, ChunkAt
  <2> QED BY <1>1, <2>1, <2>2, <2>3, <2>4
<1>5. Session'
  BY <1>1, <1>2, <1>3 DEF ChunksInv, Session, Shrinks, ChunkAt
<1> QED BY <1>1, <1>3, <1>4, <1>5 DEF ChunksInv, OneDownload

LEMMA RequestFilesChunks ==
  ASSUME FirmwareInv, ChunksInv, RequestFiles
  PROVE  ChunksInv'
<1> PICK ids : ids = Fresh(Missing)
  OBVIOUS
<1> DEFINE new == {[id |-> ids[i], kind |-> "file", of |-> meta.files[i], sent |-> 0] : i \in Missing}
<1>1. /\ TypeOK /\ mailbox # <<>> /\ mailbox' = Tail(mailbox) /\ UNCHANGED <<image, partition, checkId>>
      /\ image.id = None /\ CanRequest(Missing) /\ requests' = requests \cup new
  BY DEF RequestFiles, Taken, MayUpdate, flash, FirmwareInv
<1>2. ids \in [Missing -> Unused] /\ Injective(ids)
  BY <1>1, FreshUnused
<1>3. /\ \A r \in new : r.id \in Unused /\ r.id # checkId
      /\ \A r, s \in new : r.id = s.id => r = s
  BY <1>2 DEF Injective, Unused
<1>4. Shrinks(1)
  BY <1>1, ShrinksTail
<1> HIDE DEF new
<1>5. Streams'
  BY <1>1, <1>3, <1>4, StreamsGrow DEF ChunksInv
<1> QED BY <1>1, <1>5 DEF ChunksInv, Session, OneDownload

LEMMA RequestImageChunks ==
  ASSUME FirmwareInv, ChunksInv, RequestImage
  PROVE  ChunksInv'
<1> PICK i : i = Fresh({1})[1]
  OBVIOUS
<1> DEFINE request == [id |-> i, kind |-> "image", of |-> meta.version, sent |-> 0]
<1>1. /\ TypeOK /\ mailbox # <<>> /\ mailbox' = Tail(mailbox) /\ UNCHANGED <<partition, checkId>>
      /\ image.id = None /\ CanRequest({1}) /\ image \in Image
  BY DEF RequestImage, Taken, MayUpdate, flash, FirmwareInv, TypeOK
<1>2. image'.id = i /\ image'.started = image.started /\ image'.open = image.open
  BY <1>1 DEF RequestImage, Image
<1>3. requests' = requests \cup {request}
  BY <1>2 DEF RequestImage
<1>4. i \in Unused /\ i # checkId
  BY <1>1, FreshUnused DEF Unused
<1>5. Shrinks(1)
  BY <1>1, ShrinksTail
<1>6. Streams'
  <2>1. request.id = i
    OBVIOUS
  <2> HIDE DEF request
  <2> QED BY <1>1, <1>3, <1>4, <1>5, <2>1, StreamsGrow DEF ChunksInv
<1> QED BY <1>1, <1>2, <1>4, <1>6 DEF ChunksInv, Session, OneDownload

-----------------------------------------------------------------------------
(* The OTA session *)

LEMMA ImageChunkChunks ==
  ASSUME FirmwareInv, ChunksInv, ImageChunk
  PROVE  ChunksInv'
<1> PICK c : c = Head(mailbox).chunk
  OBVIOUS
<1>1. /\ TypeOK /\ mailbox \in Seq(Message) /\ mailbox # <<>> /\ mailbox' = Tail(mailbox)
      /\ UNCHANGED <<requests, checkId>> /\ image \in Image /\ image.id # None
      /\ partition \in Seq(Chunk)
      /\ Head(mailbox).type = "response_chunk" /\ Head(mailbox).id = image.id
  BY DEF ImageChunk, Answer, Taken, FirmwareInv, TypeOK
<1>2. Shrinks(1) /\ Streams'
  BY <1>1, ShrinksTail, StreamsKept DEF ChunksInv
<1>3. Head(mailbox) = mailbox[1] /\ 1 \in 1..Len(mailbox) /\ ChunkAt(1) /\ mailbox[1].id = image.id
      /\ c = mailbox[1].chunk
  BY <1>1 DEF ChunkAt
<1>4. /\ \A k \in 1..Len(mailbox') : ChunkAt(k)' /\ mailbox'[k].id = image.id => Before(c, mailbox'[k].chunk)
      /\ \A r \in requests' : r.id = image.id => r.kind # "check" /\ Before(c, Due(r))
  <2>1. \A k \in 1..Len(mailbox') : k + 1 \in Nat /\ 1 < k + 1
    OBVIOUS
  <2> QED BY <1>1, <1>2, <1>3, <2>1 DEF ChunksInv, Streams, Shrinks, ChunkAt
<1>5. image'.id = image.id
  BY <1>1 DEF ImageChunk, BeginFails, Write, WriteFailed, Begun, Image
<1>6. CASE /\ UNCHANGED partition
           /\ image'.started /\ image'.open => image.started /\ image.open
  BY <1>1, <1>2, <1>5, <1>6, SessionKept DEF ChunksInv, OneDownload
<1>7. CASE partition' = <<>> /\ ~image'.started
  <2>1. Len(partition') = 0
    BY <1>7
  <2> QED BY <1>1, <1>2, <1>5, <1>7, <2>1 DEF ChunksInv, Session, OneDownload
<1>8. ASSUME NEW bytes \in Seq(Chunk), partition' = Append(bytes, c),
             \/ bytes = <<>>
             \/ bytes = partition /\ image.started /\ image.open
      PROVE  ChunksInv'
  <2>1. /\ Len(bytes) \in Nat /\ Len(partition') = Len(bytes) + 1
        /\ partition'[Len(bytes) + 1] = c
        /\ \A i \in 1..Len(bytes) : partition'[i] = bytes[i]
    BY <1>8, AppendProperties
  <2>2. \A i \in 1..Len(partition') : i \in 1..Len(bytes) \/ i = Len(bytes) + 1
    BY <2>1
  <2>3. \A i \in 1..Len(bytes) :
          /\ Before(bytes[i], c)
          /\ \A k \in 1..Len(mailbox') :
               ChunkAt(k)' /\ mailbox'[k].id = image.id => Before(bytes[i], mailbox'[k].chunk)
          /\ \A r \in requests : r.id = image.id => r.kind # "check" /\ Before(bytes[i], Due(r))
    <3>1. CASE bytes = <<>>
      BY <3>1
    <3>2. CASE bytes = partition /\ image.started /\ image.open
      BY <1>2, <1>3, <3>2 DEF ChunksInv, Session, Shrinks, ChunkAt
    <3> QED BY <1>8, <3>1, <3>2
  <2>4. Session'
    BY <1>1, <1>4, <1>5, <2>1, <2>2, <2>3 DEF Session
  <2>5. \A i, j \in 1..Len(bytes) : i < j => Before(bytes[i], bytes[j])
    BY <1>8 DEF ChunksInv, OneDownload, Before
  <2>6. OneDownload'
    <3> SUFFICES ASSUME NEW i \in 1..Len(partition'), NEW j \in 1..Len(partition'), i < j
                 PROVE  Before(partition'[i], partition'[j])
      BY DEF OneDownload, Before
    <3>1. i \in 1..Len(bytes)
      BY <2>1
    <3>2. CASE j \in 1..Len(bytes)
      BY <2>1, <2>5, <3>1, <3>2
    <3>3. CASE j = Len(bytes) + 1
      BY <2>1, <2>3, <3>1, <3>3
    <3> QED BY <2>2, <3>2, <3>3
  <2> QED BY <1>1, <1>2, <1>5, <2>4, <2>6 DEF ChunksInv
<1>9. ASSUME NEW fails \in BOOLEAN, Write(Begun, Erased, fails) PROVE ChunksInv'
  <2>1. /\ (partition' = <<>> /\ image' = WriteFailed(Begun)) \/ partition' = Append(<<>>, c)
        /\ <<>> \in Seq(Chunk)
    BY <1>1, <1>9 DEF Write, Erased
  <2>2. image' = WriteFailed(Begun) => ~image'.started
    BY <1>1 DEF WriteFailed, Begun, Image
  <2> QED BY <1>7, <1>8, <2>1, <2>2
<1>10. ASSUME NEW fails \in BOOLEAN, image.started, Write(image, partition, fails) PROVE ChunksInv'
  <2>1. CASE partition' = partition /\ image' = WriteFailed(image)
    <3>1. ~image'.started
      BY <1>1, <2>1 DEF WriteFailed, Image
    <3> QED BY <1>6, <2>1, <3>1
  <2>2. CASE partition' = Append(partition, c) /\ image.open
    BY <1>1, <1>8, <1>10, <2>2
  <2> QED BY <1>10, <2>1, <2>2 DEF Write
<1>11. CASE BeginFails
  <2>1. UNCHANGED partition /\ ~image'.open
    BY <1>1, <1>11 DEF BeginFails, Image
  <2> QED BY <1>6, <2>1
<1> QED BY <1>6, <1>9, <1>10, <1>11 DEF ImageChunk

LEMMA ImageFinishedChunks ==
  ASSUME FirmwareInv, ChunksInv, ImageFinished
  PROVE  ChunksInv'
<1>1. CASE Reboot(partition)
  BY <1>1, ChunksReboot DEF ImageFinished
<1>2. CASE ~Reboot(partition)
  <2>1. /\ TypeOK /\ mailbox # <<>> /\ mailbox' = Tail(mailbox) /\ UNCHANGED <<partition, checkId, requests>>
        /\ image \in Image /\ (image.started => image.valid)
    BY <1>2 DEF ImageFinished, Answer, Taken, FirmwareInv, NoDeadSession, TypeOK
  <2>2. image'.id = None /\ ~(image'.started /\ image'.open)
    <3>1. \A session \in Image : /\ Idle(session).id = None /\ Idle(session).started = session.started
                                 /\ Idle(session).open = session.open
      BY DEF Idle, Image
    <3>2. [image EXCEPT !.open = FALSE] \in Image /\ ~[image EXCEPT !.open = FALSE].open
      BY <2>1 DEF Image
    <3>3. /\ [image EXCEPT !.started = FALSE, !.valid = FALSE, !.open = FALSE] \in Image
          /\ ~[image EXCEPT !.started = FALSE, !.valid = FALSE, !.open = FALSE].started
      BY <2>1 DEF Image
    <3>4. Discarded.id = None /\ ~Discarded.started
      BY <3>1, <3>3 DEF Discarded
    <3>5. \/ image' = Idle(image) /\ ~image.started
          \/ image' = Idle([image EXCEPT !.open = FALSE])
          \/ image' = Discarded
      BY <1>2, <2>1 DEF ImageFinished
    <3> QED BY <2>1, <3>1, <3>2, <3>4, <3>5
  <2>3. Shrinks(1)
    BY <2>1, ShrinksTail
  <2> QED BY <2>1, <2>2, <2>3, StreamsKept, SessionKept DEF ChunksInv, OneDownload
<1> QED BY <1>1, <1>2

-----------------------------------------------------------------------------
(* The request manager *)

LEMMA ChunkSentChunks ==
  ASSUME FirmwareInv, ChunksInv, NEW r \in requests, ChunkSent(r)
  PROVE  ChunksInv'
<1> PICK s : s = [r EXCEPT !.sent = r.sent + 1]
  OBVIOUS
<1> PICK c : c = Due(r)
  OBVIOUS
<1>1. /\ TypeOK /\ mailbox \in Seq(Message) /\ r \in Request /\ r.kind # "check"
      /\ r.sent \in Nat
      /\ UNCHANGED <<image, partition, checkId>>
      /\ requests' = (requests \ {r}) \cup {s}
  BY RequestFields DEF ChunkSent, FirmwareInv, TypeOK, flash, actor, FirmwareAssumption
<1>2. s.id = r.id /\ s.kind = r.kind /\ s.of = r.of /\ s.sent = r.sent + 1
  BY <1>1 DEF Request
<1>3. Before(c, Due(s)) /\ \A b \in Chunk : Before(b, c) => Before(b, Due(s))
  BY <1>1, <1>2 DEF Before, Due, Chunk
<1>4. /\ \A k \in 1..Len(mailbox) : ChunkAt(k) => mailbox[k].chunk \in Chunk
      /\ \A i \in 1..Len(partition) : partition[i] \in Chunk
  BY <1>1, MessageFields DEF ChunkAt, TypeOK
<1>5. r.id # checkId /\ \A q \in requests : q.id = r.id => q = r
  BY <1>1 DEF ChunksInv, Streams
<1>6. \A q \in requests' : q = s \/ (q \in requests /\ q.id # r.id)
  <2>1. \A q \in requests' : q = s \/ (q \in requests /\ q # r)
    BY <1>1
  <2> QED BY <1>5, <2>1
<1>7. /\ \A k \in 1..Len(mailbox) :
           ChunkAt(k) /\ mailbox[k].id = r.id => Before(mailbox[k].chunk, c) /\ Before(mailbox[k].chunk, Due(s))
      /\ image.started /\ image.open /\ r.id = image.id =>
           \A i \in 1..Len(partition) : Before(partition[i], c) /\ Before(partition[i], Due(s))
  <2>1. \A k \in 1..Len(mailbox) : ChunkAt(k) /\ mailbox[k].id = r.id => Before(mailbox[k].chunk, c)
    BY DEF ChunksInv, Streams
  <2>2. image.started /\ image.open /\ r.id = image.id => \A i \in 1..Len(partition) : Before(partition[i], c)
    BY DEF ChunksInv, Session
  <2> QED BY <1>3, <1>4, <2>1, <2>2
<1>8. /\ \A k \in 1..Len(mailbox), q \in requests' :
           ChunkAt(k) /\ q.id = mailbox[k].id => q.kind # "check" /\ Before(mailbox[k].chunk, Due(q))
      /\ image.started /\ image.open =>
           \A i \in 1..Len(partition), q \in requests' :
             q.id = image.id => q.kind # "check" /\ Before(partition[i], Due(q))
  <2>1. \A k \in 1..Len(mailbox), q \in requests :
          ChunkAt(k) /\ q.id = mailbox[k].id => q.kind # "check" /\ Before(mailbox[k].chunk, Due(q))
    BY DEF ChunksInv, Streams
  <2>2. image.started /\ image.open =>
          \A i \in 1..Len(partition), q \in requests :
            q.id = image.id => q.kind # "check" /\ Before(partition[i], Due(q))
    BY DEF ChunksInv, Session
  <2> QED BY <1>1, <1>2, <1>6, <1>7, <2>1, <2>2
<1>9. /\ \A q, t \in requests' : q.id = t.id => q = t
      /\ \A q \in requests' : q.id = checkId' => q.kind = "check"
  <2>1. \A q, t \in requests : q.id = t.id => q = t
    BY DEF ChunksInv, Streams
  <2>2. \A q \in requests : q.id = checkId => q.kind = "check"
    BY DEF ChunksInv, Streams
  <2>3. \A q, t \in requests' : q.id = t.id => q = t
    BY <1>2, <1>6, <2>1
  <2> QED BY <1>1, <1>2, <1>5, <1>6, <2>2, <2>3
<1>10. CASE mailbox' = mailbox
  <2>1. Streams'
    BY <1>1, <1>8, <1>9, <1>10 DEF ChunksInv, Streams, ChunkAt
  <2>2. Session'
    BY <1>1, <1>8, <1>10 DEF ChunksInv, Session, ChunkAt
  <2> QED BY <1>1, <2>1, <2>2 DEF ChunksInv, OneDownload
<1>11. CASE mailbox' = Append(mailbox, [type |-> "response_chunk", id |-> r.id, chunk |-> c])
  <2> PICK n : n = Len(mailbox) + 1
    OBVIOUS
  <2>1. /\ Len(mailbox) \in Nat /\ Len(mailbox') = n /\ n \in Nat
        /\ mailbox'[n] = [type |-> "response_chunk", id |-> r.id, chunk |-> c]
        /\ \A k \in 1..Len(mailbox) : mailbox'[k] = mailbox[k] /\ k < n
    BY <1>1, <1>11, AppendProperties
  <2>2. \A k \in 1..Len(mailbox') : k \in 1..Len(mailbox) \/ k = n
    BY <2>1
  <2>3. /\ mailbox'[n].id = r.id /\ mailbox'[n].chunk = c
        /\ \A l \in 1..Len(mailbox') : ~(n < l)
    BY <2>1
  <2>4. \A k \in 1..Len(mailbox') : ChunkAt(k)' => mailbox'[k].id # checkId'
    BY <1>1, <1>5, <2>1, <2>2, <2>3 DEF ChunksInv, Streams, ChunkAt
  <2>5. \A k, l \in 1..Len(mailbox') :
          ChunkAt(k)' /\ k < l /\ ChunkAt(l)' /\ mailbox'[l].id = mailbox'[k].id
            => Before(mailbox'[k].chunk, mailbox'[l].chunk)
    BY <1>7, <2>1, <2>2, <2>3 DEF ChunksInv, Streams, ChunkAt
  <2>6. \A q \in requests' : q.id = r.id => q = s
    BY <1>6
  <2>7. \A k \in 1..Len(mailbox'), q \in requests' :
          ChunkAt(k)' /\ q.id = mailbox'[k].id => q.kind # "check" /\ Before(mailbox'[k].chunk, Due(q))
    <3> SUFFICES ASSUME NEW k \in 1..Len(mailbox'), NEW q \in requests', ChunkAt(k)', q.id = mailbox'[k].id
                 PROVE  q.kind # "check" /\ Before(mailbox'[k].chunk, Due(q))
      OBVIOUS
    <3>1. CASE k = n
      BY <1>1, <1>2, <1>3, <2>3, <2>6, <3>1
    <3>2. CASE k \in 1..Len(mailbox)
      BY <1>8, <2>1, <3>2 DEF ChunkAt
    <3> QED BY <2>2, <3>1, <3>2
  <2>8. Streams'
    BY <1>9, <2>4, <2>5, <2>7 DEF Streams
  <2>9. image.started /\ image.open =>
          \A i \in 1..Len(partition), k \in 1..Len(mailbox') :
            ChunkAt(k)' /\ mailbox'[k].id = image.id => Before(partition[i], mailbox'[k].chunk)
    BY <1>7, <2>1, <2>2, <2>3 DEF ChunksInv, Session, ChunkAt
  <2>10. Session'
    BY <1>1, <1>8, <2>9 DEF ChunksInv, Session
  <2> QED BY <1>1, <2>8, <2>10 DEF ChunksInv, OneDownload
<1> QED BY <1>10, <1>11 DEF ChunkSent, Due

LEMMA RequestEndsChunks ==
  ASSUME FirmwareInv, ChunksInv, NEW r \in requests, NEW error \in BOOLEAN,
         NEW m \in Metadata \cup {None}, RequestEnds(r, error, m)
  PROVE  ChunksInv'
<1> DEFINE answer == [type |-> "response_finished", id |-> r.id, meta |-> m]
           failure == [type |-> "response_error", id |-> r.id]
           all == IF error THEN <<failure, answer>> ELSE <<answer>>
           n == IF Room < Len(all) THEN Room ELSE Len(all)
<1>1. /\ TypeOK /\ mailbox \in Seq(Message) /\ Len(mailbox) \in Nat /\ Room \in Nat /\ r \in Request
      /\ UNCHANGED <<image, partition, checkId>> /\ requests' \subseteq requests
      /\ mailbox' = mailbox \o SubSeq(all, 1, n)
  <2>1. /\ TypeOK /\ mailbox \in Seq(Message) /\ Len(mailbox) \in Nat /\ r \in Request
        /\ MailboxCap \in Nat /\ Len(mailbox) <= MailboxCap
    BY FirmwareAssumption DEF FirmwareInv, TypeOK, FirmwareAssumption
  <2>2. /\ UNCHANGED <<flash, actor>> /\ requests' = requests \ {r}
        /\ mailbox' = mailbox \o SubSeq(all, 1, n)
    BY DEF RequestEnds
  <2>3. Room \in Nat
    BY <2>1 DEF Room
  <2> HIDE DEF all, n
  <2> QED BY <2>1, <2>2, <2>3 DEF flash, actor
<1>2. /\ all \in Seq(Message) /\ Len(all) \in {1, 2}
      /\ \A i \in 1..Len(all) : all[i].type # "response_chunk"
  <2>1. answer \in Message /\ failure \in Message
    BY <1>1, RequestFields, MessageFacts
  <2> QED BY <2>1
<1>3. n \in Nat /\ n <= Len(all)
  BY <1>1, <1>2
<1> HIDE DEF all, n
<1> PICK fits : fits = SubSeq(all, 1, n)
  OBVIOUS
<1>4. /\ fits \in Seq(Message) /\ Len(fits) = n /\ \A i \in 1..n : fits[i] = all[i] /\ i \in 1..Len(all)
  <2>1. \A i \in 1..n : i \in 1..Len(all) /\ all[i] \in Message
    BY <1>2, <1>3
  <2> QED BY <1>2, <1>3, <2>1, SubSeqProperties
<1>5. Shrinks(0)
  <2>1. /\ Len(mailbox') = Len(mailbox) + n
        /\ \A i \in 1..Len(mailbox) + n :
             mailbox'[i] = IF i <= Len(mailbox) THEN mailbox[i] ELSE fits[i - Len(mailbox)]
    BY <1>1, <1>4, ConcatProperties
  <2> SUFFICES ASSUME NEW k \in 1..Len(mailbox'), ChunkAt(k)'
               PROVE  k + 0 \in 1..Len(mailbox) /\ mailbox'[k] = mailbox[k + 0]
    BY DEF Shrinks
  <2>2. CASE k <= Len(mailbox)
    BY <1>1, <1>3, <2>1, <2>2
  <2>3. CASE ~(k <= Len(mailbox))
    <3>1. k - Len(mailbox) \in 1..n /\ mailbox'[k] = fits[k - Len(mailbox)]
      BY <1>1, <1>3, <2>1, <2>3
    <3> QED BY <1>2, <1>4, <3>1 DEF ChunkAt
  <2> QED BY <2>2, <2>3
<1> QED BY <1>1, <1>5, ChunksKept

LEMMA SenderChunks ==
  ASSUME FirmwareInv, ChunksInv, AppChecks \/ AuthSendsToken \/ TimerExpires
  PROVE  ChunksInv'
<1>1. /\ TypeOK /\ mailbox \in Seq(Message) /\ UNCHANGED <<image, partition, checkId, requests>>
  BY DEF AppChecks, AuthSendsToken, TimerExpires, FirmwareInv, TypeOK, flash, actor
<1>2. \E m : mailbox' = Append(mailbox, m) /\ m.type # "response_chunk"
  BY DEF AppChecks, AuthSendsToken, TimerExpires
<1>3. Shrinks(0)
  BY <1>1, <1>2, ShrinksAppend
<1> QED BY <1>1, <1>3, ChunksKept

LEMMA TakeTokenChunks ==
  ASSUME FirmwareInv, ChunksInv, TakeToken
  PROVE  ChunksInv'
<1>1. /\ TypeOK /\ mailbox # <<>> /\ mailbox \in Seq(Message) /\ Tail(mailbox) \in Seq(Message)
      /\ UNCHANGED <<image, partition, checkId, requests>>
  BY DEF TakeToken, Taken, FirmwareInv, TypeOK, flash
<1>2. \/ mailbox' = Tail(mailbox)
      \/ \E m : mailbox' = Append(Tail(mailbox), m) /\ m.type # "response_chunk"
  BY DEF TakeToken
<1>3. Shrinks(1)
  <2>1. CASE mailbox' = Tail(mailbox)
    BY <1>1, <2>1, ShrinksTail
  <2>2. ASSUME NEW m, mailbox' = Append(Tail(mailbox), m), m.type # "response_chunk" PROVE Shrinks(1)
    BY <1>1, <2>2, ShrinksTailAppend
  <2> QED BY <1>2, <2>1, <2>2
<1> QED BY <1>1, <1>3, ChunksKept

LEMMA ChunksNext ==
  ASSUME FirmwareInv, ChunksInv, [Next]_vars
  PROVE  ChunksInv'
<1>0. TypeOK
  BY DEF FirmwareInv
<1>1. CASE TakeCheck \/ TakeToken \/ RequestFiles \/ RequestImage \/ ImageChunk \/ ImageFinished
  BY <1>1, TakeCheckChunks, TakeTokenChunks, RequestFilesChunks, RequestImageChunks,
     ImageChunkChunks, ImageFinishedChunks
<1>2. CASE AppChecks \/ AuthSendsToken \/ TimerExpires
  BY <1>2, SenderChunks
<1>3. CASE CheckFinished \/ IgnoreTick \/ IgnoreAnswer \/ FileChunk \/ FileError \/ FileFinished
             \/ (StopUpdating /\ ~didUpdate)
  <2>1. /\ mailbox # <<>> /\ mailbox' = Tail(mailbox) /\ UNCHANGED <<image, partition, checkId, requests>>
    BY <1>3 DEF CheckFinished, IgnoreTick, IgnoreAnswer, FileChunk, FileError, FileFinished, StopUpdating,
                Answer, Taken, flash, actor
  <2> QED BY <1>0, <2>1, ShrinksTail, ChunksKept
<1>4. CASE PowerLoss \/ (StopUpdating /\ didUpdate)
  BY <1>4, ChunksReboot DEF PowerLoss, StopUpdating
<1>5. ASSUME NEW r \in requests, RequestStep(r) \/ RequestLost(r) PROVE ChunksInv'
  <2>1. CASE RequestLost(r)
    <3>1. Shrinks(0) /\ UNCHANGED <<image, partition, checkId>> /\ requests' \subseteq requests
      BY <2>1 DEF RequestLost, Shrinks, flash, actor
    <3> QED BY <3>1, ChunksKept
  <2> QED BY <1>5, <2>1, ChunkSentChunks, RequestEndsChunks DEF RequestStep
<1>6. CASE UNCHANGED vars
  BY <1>6 DEF vars, flash, actor, ChunksInv, Streams, Session, OneDownload, ChunkAt
<1> QED BY <1>1, <1>2, <1>3, <1>4, <1>5, <1>6 DEF Next, ActorStep

(* firmware_update_actor.cpp:190-226: whatever fails or is lost, what is   *)
(* written to the OTA partition is of one download, in its order: chunks   *)
(* may be missing, which the checksum finds, but none is of another image. *)
THEOREM SessionIsOneDownload == SafeSpec => []OneDownload
<1>1. Init => ChunksInv
  BY ChunksInit
<1>2. FirmwareInv /\ ChunksInv /\ [Next]_vars => ChunksInv'
  BY ChunksNext
<1>3. ChunksInv => OneDownload
  BY DEF ChunksInv
<1> QED BY <1>1, <1>2, <1>3, FirmwareInvariant, PTL DEF SafeSpec

=============================================================================
