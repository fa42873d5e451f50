----------------------------- MODULE FileService -----------------------------
(***************************************************************************)
(* The file service of a daemon (files/, api/files.go): the operations a    *)
(* user may ask for on one root, the recycle bin, and the upload of a file  *)
(* in chunks by the frontend (fileApi.js).                                  *)
(*                                                                         *)
(* Requests on one root exclude each other (TryLock of the instance or of   *)
(* the image), so only one operation is under way; the server process and   *)
(* the timer that forgets an upload move beside it, and the daemon may      *)
(* crash between any two steps.  A file is its path and its content; a      *)
(* directory counts as a file.  An upload is Size bytes long.               *)
(***************************************************************************)
EXTENDS Integers, FiniteSets, Functions

CONSTANTS
    Paths,        \* files of the root
    Contents,     \* contents a user or the server process may write
    Uploaded,     \* the content of the upload
    UploadPath,   \* where it goes
    Size, Chunk,  \* bytes of the upload, and of a chunk at most
    MaxAttempts,  \* retries of the frontend in a row
    MaxOps, MaxWrites, MaxCrashes, MaxIOFaults, MaxLost, MaxExpired,  \* bounds, of each kind
    MaxMishaps    \* bound, of all kinds together

VARIABLES
    file,      \* the content at a path, or Missing
    bin,       \* .prism-recycle: entries with the path and the data, Missing before the rename
    op,        \* the operation that holds the lock of the root
    temp,      \* bytes of .prism-upload-<id>, -1: no file
    session,   \* Service.uploads[id] of the upload
    expiring,  \* timers that took a session from the map and must remove its file
    chunks,    \* chunk requests on their way to the daemon
    upload,    \* uploadFile of the frontend, and the contents it may replace
    kept,      \* what nobody meant to destroy
    fsCount    \* what the bounds count

fsVars == <<file, bin, op, temp, session, expiring, chunks, upload, kept, fsCount>>

Missing   == "missing"
NoOp      == [kind |-> "none", at |-> "idle", path |-> Missing, old |-> Missing, data |-> Missing,
              n |-> 0, off |-> 0]
NoSession == [known |-> FALSE, published |-> FALSE, final |-> 0]

\* The root has a path beside that of the upload, and a content is not the absence
\* of one.
ASSUME FsConstants ==
    /\ UploadPath \in Paths /\ \E p \in Paths : p # UploadPath
    /\ Contents # {} /\ Missing \notin Contents \cup {Uploaded}

BinEntry(p, c) == [path |-> p, data |-> c]
SomePath        == CHOOSE p \in Paths : p # UploadPath
Anything        == Contents \cup {Uploaded}

FsInit ==
    /\ file = [p \in Paths |-> IF p = SomePath THEN CHOOSE c \in Contents : TRUE ELSE Missing]
    /\ bin = {}
    /\ op = NoOp
    /\ temp = -1
    /\ session = NoSession
    /\ expiring = 0
    /\ chunks = {}
    /\ \E at \in {"none", "sending"} :
       \E may \in IF at = "none" THEN {{}} ELSE {{}, {file[SomePath]}, Anything} :
          upload = [at |-> at, n |-> 0, off |-> 0, attempts |-> 0, may |-> may]
    /\ kept = {file[SomePath]}
    /\ fsCount = [ops |-> 0, writes |-> 0, crashes |-> 0, io |-> 0, lost |-> 0, expired |-> 0]

FsCounts(what, max) ==
    /\ fsCount[what] < max
    /\ FoldFunction(+, 0, fsCount) < MaxMishaps
    /\ fsCount' = [fsCount EXCEPT ![what] = @ + 1]

diskVars   == <<file, bin, kept>>
uploadVars == <<temp, session, expiring, chunks, upload>>

-----------------------------------------------------------------------------
(* What a request checks when it has the lock, and the step it goes on with. *)

\* Contents are interchangeable: a new one is any that is nowhere yet.
Unused    == Contents \ (Range(file) \cup {e.data : e \in bin} \cup {op.data})
NewContent(c)    == Unused # {} /\ c = CHOOSE d \in Unused : TRUE
Present(p) == file[p] # Missing

OpBegins(kind, at, p, old, c) ==
    op' = [kind |-> kind, at |-> at, path |-> p, old |-> old, data |-> c, n |-> 0, off |-> 0]

LocksRoot ==
    /\ op = NoOp
    /\ FsCounts("ops", MaxOps)
    /\ UNCHANGED <<diskVars, uploadVars>>

\* Save; Upload, which may replace a file; an entry of an archive that replaces one.
ReplacesFile(kind, p, c) ==
    /\ LocksRoot
    /\ NewContent(c)
    /\ kind # "upload" => Present(p)
    /\ OpBegins(kind, "entry", p, Missing, c)

\* Create, Archive and an entry of an archive at a free path (policy rename).
Adds(kind, p, c) == LocksRoot /\ NewContent(c) /\ ~Present(p) /\ OpBegins(kind, "publish", p, Missing, c)

Copies(p, q) == LocksRoot /\ Present(p) /\ ~Present(q) /\ OpBegins("copy", "publish", q, Missing, file[p])

Moves(p, q) == LocksRoot /\ Present(p) /\ ~Present(q) /\ OpBegins("move", "rename", q, p, Missing)

Deletes(p) == LocksRoot /\ Present(p) /\ OpBegins("delete", "entry", p, Missing, Missing)

\* RecycleRestore.
TakesBack(e) ==
    /\ LocksRoot
    /\ e.data # Missing
    /\ ~Present(e.path)
    /\ OpBegins("restore", "return", e.path, e.data, Missing)

\* RecycleDelete and RecycleClear: the only way to lose a file.
Purges(es) ==
    /\ op = NoOp
    /\ FsCounts("ops", MaxOps)
    /\ es # {}
    /\ bin' = bin \ es
    /\ kept' = kept \ {e.data : e \in es}
    /\ UNCHANGED <<file, op, uploadVars>>

\* ImportArchive: into an empty root (the recycle bin counts) of a stopped server.
Imports(p, c) ==
    /\ LocksRoot
    /\ NewContent(c)
    /\ \A q \in Paths : ~Present(q)
    /\ bin = {}
    /\ temp = -1
    /\ OpBegins("import", "publish", p, Missing, c)

-----------------------------------------------------------------------------
(* An answer reaches the frontend if it still waits for it.                *)

WaitsFor(n) == upload.at = "waiting" /\ upload.n = n

Retried == IF upload.attempts < MaxAttempts
             THEN [upload EXCEPT !.at = "retry", !.attempts = @ + 1]
             ELSE [upload EXCEPT !.at = "failed"]

AnswersTo(n, answer) == upload' = IF WaitsFor(n) THEN answer ELSE upload

OpEnds(answer) ==
    /\ op' = NoOp
    /\ IF op.kind = "chunk" THEN AnswersTo(op.n, answer) ELSE UNCHANGED upload

OpFails == OpEnds([upload EXCEPT !.at = "failed"])

-----------------------------------------------------------------------------
(* The steps of an operation: publishWithRecycle and what it calls.         *)

\* moveToRecycleBinWithID: the directory and the manifest of the entry ...
MakesEntry ==
    /\ op.at = "entry"
    /\ IF Present(op.path)
         THEN /\ bin' = bin \cup {BinEntry(op.path, Missing)}
              /\ op' = [op EXCEPT !.at = "recycle"]
              /\ UNCHANGED upload
         ELSE /\ IF op.kind \in {"delete", "extract"} THEN OpFails
                                                      ELSE op' = [op EXCEPT !.at = "publish"] /\ UNCHANGED upload
              /\ UNCHANGED bin
    /\ UNCHANGED <<file, kept, temp, session, expiring, chunks, fsCount>>

\* ... and the rename, which fails when the server removed the file.
Recycles ==
    /\ op.at = "recycle"
    /\ IF Present(op.path)
         THEN /\ bin' = (bin \ {BinEntry(op.path, Missing)}) \cup {BinEntry(op.path, file[op.path])}
              /\ file' = [file EXCEPT ![op.path] = Missing]
              /\ IF op.kind = "delete" THEN op' = NoOp
                                      ELSE op' = [op EXCEPT !.at = "publish", !.old = file[op.path]]
              /\ UNCHANGED upload
         ELSE /\ bin' = bin \ {BinEntry(op.path, Missing)}
              /\ IF op.kind \in {"delete", "extract"} THEN OpFails
                                                      ELSE op' = [op EXCEPT !.at = "publish"] /\ UNCHANGED upload
              /\ UNCHANGED file
    /\ UNCHANGED <<kept, temp, session, expiring, chunks, fsCount>>

\* os.Link refuses a target that exists; a rename replaces it.
Overwrites   == {"save", "extract", "move", "restore"}
CanPublish   == (op.kind \in Overwrites \/ ~Present(op.path)) /\ (op.kind = "chunk" => temp = Size)

Publishes ==
    /\ op.at = "publish"
    /\ CanPublish
    /\ file' = [file EXCEPT ![op.path] = op.data]
    /\ kept' = kept \cup {op.data}
    /\ op' = IF op.kind = "chunk" THEN [op EXCEPT !.at = "unlink"] ELSE NoOp
    /\ UNCHANGED <<bin, uploadVars, fsCount>>

\* The target came back, the temporary file is gone, or the disk refuses.  An
\* extraction leaves the old file in the bin.
PublishFails ==
    /\ op.at = "publish"
    /\ IF CanPublish THEN FsCounts("io", MaxIOFaults) ELSE UNCHANGED fsCount
    /\ IF op.old = Missing \/ op.kind = "extract" THEN OpFails ELSE op' = [op EXCEPT !.at = "undo"] /\ UNCHANGED upload
    /\ UNCHANGED <<diskVars, temp, session, expiring, chunks>>

\* Mutant: the previous file is put back over whatever is there.
RestoresBlindly ==
    /\ op.at = "undo"
    /\ file' = [file EXCEPT ![op.path] = op.old]
    /\ bin' = bin \ {BinEntry(op.path, op.old)}
    /\ OpFails
    /\ UNCHANGED <<kept, temp, session, expiring, chunks, fsCount>>

\* restoreRecycleEntry.
RestoresEntry ==
    /\ op.at = "undo"
    /\ IF Present(op.path)
         THEN UNCHANGED <<file, bin>>
         ELSE /\ file' = [file EXCEPT ![op.path] = op.old]
              /\ bin' = bin \ {BinEntry(op.path, op.old)}
    /\ OpFails
    /\ UNCHANGED <<kept, temp, session, expiring, chunks, fsCount>>

Renames ==
    /\ op.at = "rename"
    /\ file' = IF Present(op.old) THEN [file EXCEPT ![op.path] = file[op.old], ![op.old] = Missing] ELSE file
    /\ op' = NoOp
    /\ UNCHANGED <<bin, kept, uploadVars, fsCount>>

Returns ==
    /\ op.at = "return"
    /\ file' = [file EXCEPT ![op.path] = op.old]
    /\ bin' = bin \ {BinEntry(op.path, op.old)}
    /\ op' = NoOp
    /\ UNCHANGED <<kept, uploadVars, fsCount>>

\* The server writes or removes a file, unless it is stopped for the operation.
\* A file that appears where a rename is about to put one may be lost.
ServerWrites(p, c) ==
    /\ op.kind # "import"
    /\ c # Missing => NewContent(c)
    /\ FsCounts("writes", MaxWrites)
    /\ kept' = (kept \ {file[p]}) \cup
                 (IF c = Missing \/ (op.kind \in Overwrites /\ op.path = p) THEN {} ELSE {c})
    /\ file' = [file EXCEPT ![p] = c]
    /\ UNCHANGED <<bin, op, uploadVars>>

-----------------------------------------------------------------------------
(* The upload in chunks: the frontend.  It may replace nothing, the file as *)
(* its ticket says it was (expected_version), or anything (overwrite).      *)

SendsChunk ==
    /\ upload.at = "sending"
    /\ chunks' = chunks \cup {[n |-> upload.n + 1, off |-> upload.off]}
    /\ upload' = [upload EXCEPT !.at = "waiting", !.n = @ + 1]
    /\ UNCHANGED <<diskVars, op, temp, session, expiring, fsCount>>

\* The answer is lost; the request may be on its way or under way.
GivesUpWaiting ==
    /\ upload.at = "waiting"
    /\ FsCounts("lost", MaxLost)
    /\ upload' = Retried
    /\ UNCHANGED <<diskVars, op, temp, session, expiring, chunks>>

\* UploadSessionStatus: it waits for the mutex of the session.
UploadStatus == IF session.published THEN [upload EXCEPT !.at = "done"]
                               ELSE [upload EXCEPT !.at = "sending", !.off = IF temp < 0 THEN 0 ELSE temp]

\* Mutant: the frontend goes on where it was.
ResumesBlindly ==
    /\ upload.at = "retry"
    /\ op.kind # "chunk"
    /\ upload' = [upload EXCEPT !.at = "sending"]
    /\ UNCHANGED <<diskVars, op, temp, session, expiring, chunks, fsCount>>

Resumes ==
    /\ upload.at = "retry"
    /\ op.kind # "chunk"
    /\ upload' = UploadStatus
    /\ UNCHANGED <<diskVars, op, temp, session, expiring, chunks, fsCount>>

\* authorize and uploadStatus are not tried again: one more answer that is lost, or a
\* daemon that died and is not back yet, ends the upload.
ResumeFails ==
    /\ upload.at = "retry"
    /\ \/ FsCounts("lost", MaxLost)
       \/ fsCount.crashes > 0 /\ UNCHANGED fsCount
    /\ upload' = [upload EXCEPT !.at = "abandoned"]
    /\ UNCHANGED <<diskVars, op, temp, session, expiring, chunks>>

\* CancelUpload.
Cancels ==
    /\ upload.at \notin {"none", "done", "cancelled"}
    /\ ~session.published
    /\ op = NoOp
    /\ FsCounts("ops", MaxOps)
    /\ upload' = [upload EXCEPT !.at = "cancelled"]
    /\ session' = NoSession
    /\ temp' = -1
    /\ UNCHANGED <<diskVars, op, expiring, chunks>>

-----------------------------------------------------------------------------
(* The upload in chunks: UploadChunk.                                      *)

ChunkEnd(off)   == IF off + Chunk < Size THEN off + Chunk ELSE Size
IsFinal(off) == ChunkEnd(off) = Size

\* INSTANCE_BUSY is not retried.
Busy(k) ==
    /\ k \in chunks
    /\ op # NoOp
    /\ chunks' = chunks \ {k}
    /\ AnswersTo(k.n, [upload EXCEPT !.at = "refused"])
    /\ UNCHANGED <<diskVars, op, temp, session, expiring, fsCount>>

\* The session is found or made, and its timer is set.
ChunkBegins(k) ==
    /\ k \in chunks
    /\ op = NoOp
    /\ chunks' = chunks \ {k}
    /\ op' = [NoOp EXCEPT !.kind = "chunk", !.at = "write", !.path = UploadPath, !.data = Uploaded,
                         !.n = k.n, !.off = k.off]
    /\ session' = [session EXCEPT !.known = TRUE]
    /\ UNCHANGED <<diskVars, temp, expiring, upload, fsCount>>

Received == IF temp < 0 THEN 0 ELSE temp

\* What was received before must be there; a chunk that is there already is fine.
Fits(off) == Received = off \/ Received >= ChunkEnd(off)

WritesChunk ==
    /\ op.at = "write"
    /\ ~session.published
    /\ Fits(op.off)
    /\ temp' = IF Received = op.off THEN ChunkEnd(op.off) ELSE Received
    /\ IF IsFinal(op.off)
         THEN op' = [op EXCEPT !.at = "look"] /\ UNCHANGED upload
         ELSE OpEnds([upload EXCEPT !.at = "sending", !.off = ChunkEnd(op.off), !.attempts = 0])
    /\ UNCHANGED <<diskVars, session, expiring, chunks, fsCount>>

\* What a write that is cut may leave of the chunk.
PartlyWritten == IF op.at = "write" /\ ~session.published /\ Received = op.off
                   THEN op.off .. ChunkEnd(op.off) ELSE {}

\* The disk refuses, or what was written is not what the ticket says: not retried.
ChunkFails ==
    /\ op.kind = "chunk"
    /\ op.at \in {"write", "look"}
    /\ ~session.published
    /\ FsCounts("io", MaxIOFaults)
    /\ temp' \in {Received} \cup PartlyWritten
    /\ OpFails
    /\ UNCHANGED <<diskVars, session, expiring, chunks>>

\* The last chunk is there: a file at the target must be one the upload may replace
\* (FILE_EXISTS, FILE_CHANGED); the temporary file stays for the cleanup.
LooksAtTarget ==
    /\ op.at = "look"
    /\ IF file[op.path] \in {Missing} \cup upload.may
         THEN op' = [op EXCEPT !.at = "entry"] /\ UNCHANGED upload
         ELSE OpEnds([upload EXCEPT !.at = "conflict"])
    /\ UNCHANGED <<diskVars, temp, session, expiring, chunks, fsCount>>

Mismatches ==
    /\ op.at = "write"
    /\ IF session.published
         THEN OpEnds(IF IsFinal(op.off) /\ op.off = session.final THEN [upload EXCEPT !.at = "done"] ELSE Retried)
         ELSE ~Fits(op.off) /\ OpEnds(Retried)
    /\ temp' = IF session.published THEN temp ELSE Received
    /\ UNCHANGED <<diskVars, session, expiring, chunks, fsCount>>

\* atomicfile.Publish removes the temporary file; the session is published.
Unlinks ==
    /\ op.at = "unlink"
    /\ temp' = -1
    /\ session' = [known |-> TRUE, published |-> TRUE, final |-> op.off]
    /\ OpEnds([upload EXCEPT !.at = "done"])
    /\ UNCHANGED <<diskVars, expiring, chunks, fsCount>>

UploadOver == upload.at \in {"done", "failed", "refused", "conflict", "abandoned", "cancelled"}

\* For comparison: the session is forgotten and its file stays.
ForgetsOnly ==
    /\ session.known
    /\ op.kind # "chunk"
    /\ IF UploadOver /\ chunks = {} THEN UNCHANGED fsCount ELSE FsCounts("expired", MaxExpired)
    /\ session' = NoSession
    /\ UNCHANGED <<diskVars, op, temp, expiring, chunks, upload>>

\* expireUploadSession, cleanupUploadSessions: 20 minutes without a chunk.
Expires ==
    /\ session.known
    /\ op.kind # "chunk"
    /\ IF UploadOver /\ chunks = {} THEN UNCHANGED fsCount ELSE FsCounts("expired", MaxExpired)
    /\ session' = NoSession
    /\ expiring' = expiring + 1
    /\ UNCHANGED <<diskVars, op, temp, chunks, upload>>

\* ... and then, under the mutex of the forgotten session, its file.
RemovesExpired ==
    /\ expiring > 0
    /\ expiring' = expiring - 1
    /\ temp' = -1
    /\ UNCHANGED <<diskVars, op, session, chunks, upload, fsCount>>

\* The daemon dies, perhaps in the middle of a write, and starts again.
FsCrashes ==
    /\ FsCounts("crashes", MaxCrashes)
    /\ temp' \in {temp} \cup PartlyWritten
    /\ op' = NoOp
    /\ session' = NoSession
    /\ expiring' = 0
    /\ chunks' = {}
    /\ upload' = IF upload.at = "waiting" THEN Retried ELSE upload
    /\ UNCHANGED diskVars

-----------------------------------------------------------------------------
FsSteps ==
    \/ MakesEntry \/ Recycles \/ Publishes \/ PublishFails \/ RestoresEntry \/ Renames \/ Returns
    \/ WritesChunk \/ LooksAtTarget \/ Mismatches \/ Unlinks \/ Expires \/ RemovesExpired
    \/ SendsChunk \/ Resumes
    \/ \E k \in chunks : Busy(k) \/ ChunkBegins(k)

FsRequest ==
    \/ \E p \in Paths, c \in Contents :
         \/ \E kind \in {"save", "upload", "extract"} : ReplacesFile(kind, p, c)
         \/ \E kind \in {"create", "archive", "extract"} : Adds(kind, p, c)
         \/ Imports(p, c)
    \/ \E p, q \in Paths : Copies(p, q) \/ Moves(p, q)
    \/ \E p \in Paths : Deletes(p)
    \/ \E e \in bin : TakesBack(e)
    \/ \E es \in SUBSET bin : Purges(es)
    \/ Cancels

FsNext ==
    \/ FsSteps
    \/ FsRequest
    \/ \E p \in Paths, c \in Contents \cup {Missing} : ServerWrites(p, c)
    \/ GivesUpWaiting \/ ResumeFails \/ ChunkFails
    \/ FsCrashes

FsSpec == FsInit /\ [][FsNext]_fsVars

-----------------------------------------------------------------------------
(* Properties.                                                             *)

\* A file that was there, or that an operation or the server put there, is at
\* some path or in the recycle bin until the server itself replaces it or a
\* user empties the bin, whatever fails and whatever the server writes while a
\* file is replaced (publishWithRecycle, restoreRecycleEntry).
FilesRecoverable == kept \subseteq Range(file) \cup {e.data : e \in bin}

\* An upload that begins ends (uploadFile, UploadChunk): it is published, another
\* operation had the root, or the user cancelled it.  Every other end has a cause: a
\* conflict, that a file came to the target that the upload may not replace, perhaps its
\* own, if the answer was lost and the session is gone; an upload that is abandoned, a
\* crash, or a second trouble after the one that made the frontend resume, because a
\* failed resumption is not tried again; a failure, the disk, the cleanup, a write of
\* the server to the same path, or more troubles than the frontend has retries.  One
\* lost answer alone stops no upload.  And no partial file stays behind, except by a
\* crash of the daemon (expireUploadSession).
UploadEnds ==
    <>[](/\ \/ upload.at \in {"none", "done", "refused", "cancelled"}
            \/ upload.at = "conflict" /\ upload.may # Anything
                  /\ \/ fsCount.ops + fsCount.writes + fsCount.crashes > 0
                     \/ fsCount.lost > 0 /\ fsCount.expired > 0
            \/ upload.at = "abandoned"
                  /\ (fsCount.crashes > 0 \/ fsCount.lost + fsCount.expired > 1)
            \/ upload.at = "failed"
                  /\ (fsCount.io + fsCount.expired + fsCount.writes > 0
                        \/ fsCount.lost + fsCount.crashes > MaxAttempts)
         /\ temp = -1 \/ fsCount.crashes > 0)
=============================================================================
