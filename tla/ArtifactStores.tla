--------------------------- MODULE ArtifactStores ---------------------------
(***************************************************************************)
(* The three artifact stores behind ArtifactStorageProvider, and the route *)
(* that serves downloads of what they hold.  Memory and S3 store a file in *)
(* one step; the file system writes the payload and then a sidecar with    *)
(* its content type, so stores, removals and downloads interleave between. *)
(* S3 and the disk are external: each request to them may fail, whether it *)
(* reads, writes or unlinks.  Names, paths, urls, signatures and modes are *)
(* left out, and so are the emptied directories: rm without `recursive`    *)
(* refuses them and its error is swallowed (removeIfEmpty).  A scan of the *)
(* files sees one moment; one of the disk misses what it cannot read.      *)
(***************************************************************************)
EXTENDS Integers, FiniteSets, SequencesExt

CONSTANTS
  Providers,       \* the providers that may be configured
  StoredFile,      \* bound: files; each is stored once
  ArtifactOf,      \* the artifact a file belongs to
  UploadTimes,     \* bound: timestamps
  ArtifactCaps,    \* caps cleanupOldest is called with
  Scans            \* bound: entry lists the selection is checked on

ASSUME StoreConstants ==
  /\ Providers \subseteq {"memory", "filesystem", "s3"}
  /\ UploadTimes \subseteq Nat /\ ArtifactCaps \subseteq Int
  /\ \A entries \in Scans : /\ IsFiniteSet(entries)
                            /\ \A e \in entries : e.uploadedAt \in Nat

VARIABLES
  provider,  \* the configured provider
  closed,    \* close was called
  storing,   \* where the store of a file is
  payload,   \* what there is of its payload
  typed,     \* its content type is kept beside it
  uploaded,  \* when the payload was written
  removal,   \* the delete or cleanup under way: the files left to remove, and
             \* the one whose payload is gone and whose sidecar is not
  download   \* one request to the download route, and which of its reads failed

fileVars == <<storing, payload, typed, uploaded>>
storeVars == <<provider, closed, fileVars, removal, download>>

StoresInit ==
  /\ provider \in Providers /\ closed = FALSE
  /\ storing = [f \in StoredFile |-> "no"] /\ payload = [f \in StoredFile |-> "none"]
  /\ typed = [f \in StoredFile |-> FALSE] /\ uploaded = [f \in StoredFile |-> 0]
  /\ removal = [left |-> {}, half |-> {}]
  /\ download \in [file : StoredFile, promised : {FALSE}, typed : {FALSE}, failed : {{}},
                  phase : {"idle"}]

Held == {f \in StoredFile : payload[f] # "none"}

Unlinked(files) == [f \in StoredFile |-> IF f \in files THEN "none" ELSE payload[f]]
Untyped(files) == [f \in StoredFile |-> IF f \in files THEN FALSE ELSE typed[f]]

-----------------------------------------------------------------------------
(* store                                                                   *)

(* Memory and S3.  An S3 put that fails may have been carried out.         *)
StoreWhole(f, time) ==
  /\ provider # "filesystem" /\ ~closed /\ storing[f] = "no"
  /\ \/ /\ storing' \in {[storing EXCEPT ![f] = end] :
                          end \in {"stored"} \cup IF provider = "s3" THEN {"failed"} ELSE {}}
        /\ payload' = [payload EXCEPT ![f] = "whole"]
        /\ typed' = [typed EXCEPT ![f] = TRUE]
        /\ uploaded' = [uploaded EXCEPT ![f] = time]
     \/ /\ storing' = [storing EXCEPT ![f] = "failed"]
        /\ UNCHANGED <<payload, typed, uploaded>>
  /\ UNCHANGED <<provider, closed, removal, download>>

OpenFile(f, time) ==
  /\ provider = "filesystem" /\ ~closed /\ storing[f] = "no"
  /\ storing' = [storing EXCEPT ![f] = "writing"]
  /\ payload' = [payload EXCEPT ![f] = "part"]
  /\ uploaded' = [uploaded EXCEPT ![f] = time]
  /\ UNCHANGED <<provider, closed, typed, removal, download>>

(* The payload is written; when a cleanup has unlinked it meanwhile the    *)
(* write goes on all the same.                                             *)
PayloadWritten(f) ==
  /\ storing[f] = "writing"
  /\ storing' = [storing EXCEPT ![f] = "sidecar"]
  /\ payload' = [payload EXCEPT ![f] = IF @ = "part" THEN "whole" ELSE @]
  /\ UNCHANGED <<provider, closed, typed, uploaded, removal, download>>

SidecarWritten(f) ==
  /\ storing[f] = "sidecar"
  /\ storing' = [storing EXCEPT ![f] = "stored"]
  /\ typed' = [typed EXCEPT ![f] = TRUE]
  /\ UNCHANGED <<provider, closed, payload, uploaded, removal, download>>

(* Either write fails: the payload is removed, unless that fails as well.  *)
WriteFails(f) ==
  /\ storing[f] \in {"writing", "sidecar"}
  /\ storing' = [storing EXCEPT ![f] = "failed"]
  /\ payload' \in {Unlinked({f}), payload}
  /\ UNCHANGED <<provider, closed, typed, uploaded, removal, download>>

-----------------------------------------------------------------------------
(* selectEntriesOverArtifactCap                                            *)

Ages(a, entries) == {e.uploadedAt : e \in {d \in entries : d.artifactId = a}}

(* Faulty variant: an artifact is as old as its oldest file.               *)
OldestOf(a, entries) == CHOOSE t \in Ages(a, entries) : \A u \in Ages(a, entries) : t <= u

newestByArtifact(a, entries) == CHOOSE t \in Ages(a, entries) : \A u \in Ages(a, entries) : u <= t

(* The artifacts sorted newest first; those of one age come in any order.  *)
NewestFirst(entries) ==
  {s \in SetToSeqs({e.artifactId : e \in entries}) :
     \A i, j \in DOMAIN s :
       i < j => newestByArtifact(s[j], entries) <= newestByArtifact(s[i], entries)}

(* What may be selected: one selection for each order of the artifacts.    *)
selectEntriesOverArtifactCap(entries, maxCount) ==
  {LET keep == IF maxCount < Len(s) THEN ToSet(SubSeq(s, 1, maxCount)) ELSE ToSet(s)
   IN  {e \in entries : maxCount > 0 /\ e.artifactId \notin keep} : s \in NewestFirst(entries)}

entriesOf(files) ==
  {[key |-> f, artifactId |-> ArtifactOf[f], uploadedAt |-> uploaded[f]] : f \in files}

(* What a scan may find: on a disk, the files that could be read.          *)
scan == {entriesOf(found) : found \in IF provider = "filesystem" THEN SUBSET Held ELSE {Held}}

-----------------------------------------------------------------------------
(* delete, cleanupExpired and cleanupOldest                                *)

(* Memory removes at once, the others file by file.                        *)
BeginRemoval(files) ==
  /\ ~closed /\ removal = [left |-> {}, half |-> {}]
  /\ IF provider = "memory"
     THEN payload' = Unlinked(files) /\ typed' = Untyped(files) /\ UNCHANGED removal
     ELSE removal' = [left |-> files, half |-> {}] /\ UNCHANGED <<payload, typed>>
  /\ UNCHANGED <<provider, closed, storing, uploaded, download>>

(* The service mints a fresh id for every file, so a caller can name a file*)
(* only once it is stored.                                                 *)
delete(f) == storing[f] = "stored" /\ BeginRemoval({f})

cleanupExpired(cutoff) ==
  \E entries \in scan : BeginRemoval({e.key : e \in {d \in entries : d.uploadedAt < cutoff}})

cleanupOldest(maxCount) ==
  \E entries \in scan : \E stale \in selectEntriesOverArtifactCap(entries, maxCount) :
    BeginRemoval({e.key : e \in stale})

(* Faulty variant: the sidecar goes first.                                 *)
RemoveSidecarFirst(f) ==
  /\ removal.half = {} /\ f \in removal.left
  /\ typed' = Untyped({f})
  /\ removal' = [left |-> removal.left \ {f}, half |-> {f}]
  /\ UNCHANGED <<provider, closed, storing, payload, uploaded, download>>

(* The payload is removed; an S3 object takes its metadata with it.        *)
RemovePayload(f) ==
  /\ removal.half = {} /\ f \in removal.left
  /\ payload' = Unlinked({f})
  /\ typed' = Untyped(IF provider = "s3" THEN {f} ELSE {})
  /\ removal' = [left |-> removal.left \ {f}, half |-> {f}]
  /\ UNCHANGED <<provider, closed, storing, uploaded, download>>

RemoveSidecar(f) ==
  /\ f \in removal.half
  /\ typed' = Untyped({f})
  /\ removal' = [left |-> removal.left, half |-> {}]
  /\ UNCHANGED <<provider, closed, storing, payload, uploaded, download>>

(* A failing request ends the removal where it is, and so does an abort    *)
(* between two files.  When the unlink of the sidecar fails, the sidecar   *)
(* stays behind without its payload.                                       *)
RemovalStops ==
  /\ removal.left # {} \/ removal.half # {}
  /\ removal' = [left |-> {}, half |-> {}]
  /\ UNCHANGED <<provider, closed, fileVars, download>>

(* close refuses what comes later; memory also forgets its files.          *)
close ==
  /\ ~closed /\ closed' = TRUE
  /\ payload' = Unlinked(IF provider = "memory" THEN StoredFile ELSE {})
  /\ typed' = Untyped(IF provider = "memory" THEN StoredFile ELSE {})
  /\ UNCHANGED <<provider, storing, uploaded, removal, download>>

-----------------------------------------------------------------------------
(* The download route: getMetadata, then retrieve, then the body is read.  *)

Reaches(phase, known, failure) ==
  /\ download' = [file |-> download.file, promised |-> download.promised, typed |-> known,
                  failed |-> download.failed \cup failure, phase |-> phase]
  /\ UNCHANGED <<provider, closed, fileVars, removal>>

(* stat or HEAD; what a stored file was promised to be is remembered.  Any *)
(* failure reads as a missing file.                                        *)
GetMetadata ==
  LET f == download.file
      answers(phase, failure) ==
        download' = [file |-> f, promised |-> storing[f] = "stored" /\ f \in Held,
                     typed |-> phase = "described" /\ typed[f], failed |-> failure, phase |-> phase]
  IN  /\ download.phase = "idle"
      /\ \/ ~closed /\ f \in Held /\ answers(IF provider = "filesystem" THEN "sized" ELSE "described", {})
         \/ (closed \/ f \notin Held) /\ answers("notFound", {})
         \/ provider # "memory" /\ answers("notFound", {"find"})
      /\ UNCHANGED <<provider, closed, fileVars, removal>>

(* Without a sidecar, or when it cannot be read, the type is               *)
(* application/octet-stream.                                               *)
ReadSidecar ==
  /\ download.phase = "sized"
  /\ Reaches("described", typed[download.file], {}) \/ Reaches("described", FALSE, {"type"})

(* retrieve finds the file once more.  Memory has the body at hand; the    *)
(* disk opens it only when it is read, and S3 sends it on.                 *)
Retrieve ==
  /\ download.phase = "described"
  /\ \/ /\ ~closed /\ download.file \in Held
        /\ Reaches(IF provider = "memory" THEN "served" ELSE "opening", download.typed, {})
     \/ (closed \/ download.file \notin Held) /\ Reaches("notFound", FALSE, {})
     \/ provider # "memory" /\ Reaches("notFound", FALSE, {"find"})

(* The response has begun.  An open file outlives its removal, and an S3   *)
(* object that of its key; either may break off.                           *)
ReadBody ==
  /\ download.phase = "opening"
  /\ \/ /\ provider = "filesystem"
        /\ Reaches(CASE payload[download.file] = "none"  -> "broken"
                      [] payload[download.file] = "part"  -> "cutOff"
                      [] payload[download.file] = "whole" -> "served", download.typed, {})
     \/ provider = "s3" /\ Reaches("served", download.typed, {})
     \/ \E phase \in {"broken", "cutOff"} : Reaches(phase, download.typed, {"body"})

DownloadStep == ReadSidecar \/ Retrieve \/ ReadBody

StoreStep(f) == PayloadWritten(f) \/ SidecarWritten(f) \/ WriteFails(f)

RemovalStep == RemovalStops \/ \E f \in StoredFile : RemovePayload(f) \/ RemoveSidecar(f)

StoresNext ==
  \/ \E f \in StoredFile, time \in UploadTimes : StoreWhole(f, time) \/ OpenFile(f, time)
  \/ \E f \in StoredFile : StoreStep(f) \/ delete(f)
  \/ \E cutoff \in UploadTimes : cleanupExpired(cutoff)
  \/ \E maxCount \in ArtifactCaps : cleanupOldest(maxCount)
  \/ RemovalStep \/ close \/ GetMetadata \/ DownloadStep

StoresSpec == StoresInit /\ [][StoresNext]_storeVars

(* Requests to the disk and to S3 come back.                               *)
StoresFairness ==
  /\ WF_storeVars(DownloadStep) /\ WF_storeVars(RemovalStep)
  /\ \A f \in StoredFile : WF_storeVars(StoreStep(f))

-----------------------------------------------------------------------------
StoresTypeOK ==
  /\ provider \in {"memory", "filesystem", "s3"} /\ closed \in BOOLEAN
  /\ storing \in [StoredFile -> {"no", "writing", "sidecar", "stored", "failed"}]
  /\ payload \in [StoredFile -> {"none", "part", "whole"}]
  /\ typed \in [StoredFile -> BOOLEAN] /\ uploaded \in [StoredFile -> Nat]
  /\ removal \in [left : SUBSET StoredFile, half : SUBSET StoredFile]
  /\ download \in [file : StoredFile, promised : BOOLEAN, typed : BOOLEAN,
                   failed : SUBSET {"find", "type", "body"},
                   phase : {"idle", "sized", "described", "opening", "served", "cutOff", "broken", "notFound"}]

(* Whatever deletes and cleanups meet it, a download of a stored file goes *)
(* wrong only by what became of this file or of its own reads: it is served*)
(* without its type only if the sidecar could not be read, breaks off only *)
(* if the body did, and is refused only if the file went, the store closed *)
(* or the read that refused it failed (artifacts-route.ts over getMetadata,*)
(* retrieve and removeEntry).                                              *)
DownloadsTrue ==
  LET gone == closed \/ download.file \notin Held
  IN  download.promised =>
        CASE download.phase = "served"   -> download.typed \/ "type" \in download.failed
          [] download.phase = "cutOff"   -> "body" \in download.failed
          [] download.phase = "broken"   -> download.file \notin Held \/ "body" \in download.failed
          [] download.phase = "notFound" -> gone \/ "find" \in download.failed
          [] OTHER                       -> TRUE

(* "Keep only the maxCount most-recent artifacts": the cleanup keeps whole *)
(* artifacts, as many as the cap allows, none of them older in its newest  *)
(* file than one that goes; no cap keeps all (cleanupOldest,               *)
(* selectEntriesOverArtifactCap).                                          *)
CapExact ==
  \A entries \in Scans, maxCount \in ArtifactCaps :
    \A gone \in selectEntriesOverArtifactCap(entries, maxCount) :
      LET artifacts(es) == {e.artifactId : e \in es}
          kept == entries \ gone
      IN  IF maxCount <= 0 \/ Cardinality(artifacts(entries)) <= maxCount THEN gone = {}
          ELSE /\ Cardinality(artifacts(kept)) = maxCount
               /\ artifacts(kept) \cap artifacts(gone) = {}
               /\ \A old \in gone, a \in artifacts(kept) :
                    \E e \in kept : e.artifactId = a /\ old.uploadedAt <= e.uploadedAt

(* Every download ends.                                                    *)
DownloadsEnd ==
  download.phase = "described" ~> download.phase \in {"served", "cutOff", "broken", "notFound"}
=============================================================================
