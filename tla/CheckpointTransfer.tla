------------------------- MODULE CheckpointTransfer -------------------------
(***************************************************************************)
(* How the images of a chain of dumps get from the source's agent to S3    *)
(* and from there to the target's: UploadCheckpoint and Download... of     *)
(* pkg/agent/s3.go, and the calls of them in checkpoint.go, server.go and  *)
(* restore.go.                                                             *)
(*                                                                         *)
(* A call lists its files, starts a goroutine for each, and waits for all. *)
(* Each goroutine waits for one of maxConcurrency places, transfers its    *)
(* file and, if that fails, puts the error into a channel, which is read   *)
(* after the last one has ended.  A pre-dump's upload runs in the          *)
(* background and its error is only logged; the final dump waits for its   *)
(* own, and only for its own.  The controller starts the restore once the  *)
(* final dump has answered, and may call it again: a later call cancels    *)
(* the context of the earlier one and does not wait for its goroutines,    *)
(* which go on over the same work directory.                               *)
(*                                                                         *)
(* S3 stores an object as a whole or not at all.  A listing comes in       *)
(* pages and sees what has been stored by the time of each page; a page    *)
(* is the directory of a dump here.  Strategy "lazy" stands for            *)
(* lazy-direct and lazy-hybrid; with lazy-storage the agent downloads      *)
(* nothing.  With a page server CRIU is still running when the upload      *)
(* begins: waitForCheckpointFiles has seen inventory.img, which CRIU is    *)
(* taken to write last, and that the files are complete is an assumption   *)
(* about CRIU.                                                             *)
(***************************************************************************)
EXTENDS Naturals, FiniteSets

CONSTANTS
    PreDumps,       \* pre-dumps the source may take
    Images, Pages,  \* files CRIU writes for a dump: metadata, and pages-*.img
    AgentFiles,     \* files the agent adds to the final dump
    maxConcurrency, \* places of a call
    Restores        \* calls of Restore

ASSUME TransferAssumptions ==
    /\ maxConcurrency \in Nat \ {0}
    /\ "final" \notin PreDumps \cup Restores /\ Restores \cap PreDumps = {}
    /\ Pages \cap Images = {} /\ AgentFiles \cap (Images \cup Pages) = {}

VARIABLES
    strategy,  \* migration strategy: "full" or "lazy"
    direct,    \* DIRECT_UPLOAD: CRIU uploads the images itself
    alive,     \* the source's agent
    answered,  \* FinalDump has answered without an error
    call,      \* call -> idle, listing, working, nil, error, killed
    worker,    \* call -> file -> state of its goroutine
    errChan,   \* call -> files whose errors are in its channel
    unlisted,  \* dumps whose page of the listing is still to come
    bucket,    \* objects stored on S3
    disk,      \* file -> "none", "part", "whole" in the target's work directory
    cancelled, \* calls of Restore a later one has cancelled
    late,      \* dumps not uploaded, or not successfully, when the listing began
    torn       \* files a cancelled call truncated after the current one opened them

source == <<strategy, direct, alive, answered>>
pool   == <<call, worker, errChan>>
target == <<unlisted, cancelled, late>>
vars   == <<source, pool, target, bucket, disk, torn>>

Dumps == PreDumps \cup {"final"}
Calls == Dumps \cup Restores
Names == Images \cup Pages \cup AgentFiles
Files == Dumps \X Names

Idle == [f \in Files |-> "none"]

-----------------------------------------------------------------------------
(***************************************************************************)
(* uploadFilesParallel and downloadFilesParallel, which have the same body *)
(***************************************************************************)
Listed(c) == {f \in Files : worker[c][f] # "none"}

\* One goroutine for each file of the list.
startAll(files) == [f \in Files |-> IF f \in files THEN "waiting" ELSE "none"]

Step(c, f, from, to) ==
    /\ worker[c][f] = from
    /\ worker' = [worker EXCEPT ![c][f] = to]

\* A goroutine with its file open: "overtaken" once another call has truncated it.
Open == {"active", "overtaken"}

\* Places taken: a goroutine gives its place back when it ends.
semaphore(c) == {f \in Files : worker[c][f] \in Open \cup {"failed"}}

\* A place for one of the goroutines that wait for it.
acquire(c, f) ==
    /\ worker[c][f] = "waiting"
    /\ Cardinality(semaphore(c)) < maxConcurrency

openLocal(d, f) ==
    /\ acquire(d, f) /\ Step(d, f, "waiting", "active")
    /\ UNCHANGED <<source, call, errChan, target, bucket, disk, torn>>

\* os.Create makes the file, or truncates the one that is there, which another
\* call may have open.  Then the request of a cancelled call fails.
create(r, f) ==
    /\ acquire(r, f)
    /\ worker' = [c \in Calls |-> [g \in Files |->
         IF c = r /\ g = f THEN IF r \in cancelled THEN "failed" ELSE "active"
         ELSE IF c \in Restores /\ g = f /\ worker[c][g] = "active" THEN "overtaken"
         ELSE worker[c][g]]]
    /\ disk' = [disk EXCEPT ![f] = "part"]
    /\ torn' = IF r \in cancelled THEN torn \cup {f} ELSE torn \ {f}
    /\ UNCHANGED <<source, call, errChan, target, bucket>>

\* uploadSingleFile.
upload(d, f) ==
    /\ Step(d, f, "active", "done")
    /\ bucket' = bucket \cup {f}
    /\ UNCHANGED <<source, call, errChan, target, disk, torn>>

\* downloadSingleFile: what it wrote before another call's truncation is lost.
download(r, f) ==
    /\ \/ Step(r, f, "active", "done") /\ disk' = [disk EXCEPT ![f] = "whole"]
       \/ Step(r, f, "overtaken", "done") /\ UNCHANGED disk
    /\ UNCHANGED <<source, call, errChan, target, bucket, torn>>

\* An upload whose answer is lost may have stored the object.
fail(c, f) ==
    /\ \E s \in Open : Step(c, f, s, "failed")
    /\ bucket' \in {bucket} \cup (IF c \in Restores THEN {} ELSE {bucket \cup {f}})
    /\ UNCHANGED <<source, call, errChan, target, disk, torn>>

\* MUTANT of capacity: room for the first error only.
firstErrorOnly(c) == 1

capacity(c) == Cardinality(Listed(c))

\* errChan <- err: waits for room.
sendError(c, f) ==
    /\ Step(c, f, "failed", "done")
    /\ Cardinality(errChan[c]) < capacity(c)
    /\ errChan' = [errChan EXCEPT ![c] = @ \cup {f}]
    /\ UNCHANGED <<source, call, target, bucket, disk, torn>>

\* MUTANT of waited: wg.Add within the goroutine.
waitedForStarted(c) ==
    \A f \in Files : worker[c][f] \notin Open \cup {"failed"}

\* wg.Wait.
waited(c) == \A f \in Listed(c) : worker[c][f] = "done"

returns(c) ==
    /\ call[c] = "working" /\ waited(c)
    /\ call' = [call EXCEPT ![c] = IF errChan[c] = {} THEN "nil" ELSE "error"]
    /\ errChan' = [errChan EXCEPT ![c] = {}]
    /\ UNCHANGED <<source, worker, target, bucket, disk, torn>>

-----------------------------------------------------------------------------
(***************************************************************************)
(* The source.                                                             *)
(***************************************************************************)
CRIUFiles(d) == {d} \X (Images \cup Pages)

\* CRIU uploads; only for strategies without a page server is that so for the
\* final dump too.
directUpload(d) == direct /\ (d \in PreDumps \/ strategy = "full")

\* UploadCheckpoint of a dump CRIU has just written: the files are in the
\* bucket, or the walk through the directory fails, or the pool starts.
UploadCheckpoint(d) ==
    /\ alive /\ call[d] = "idle"
    /\ \/ /\ directUpload(d)
          /\ bucket' = bucket \cup CRIUFiles(d)
          /\ call' = [call EXCEPT ![d] = "nil"]
          /\ UNCHANGED worker
       \/ /\ ~directUpload(d)
          /\ call' = [call EXCEPT ![d] = "error"]
          /\ UNCHANGED <<bucket, worker>>
       \/ /\ ~directUpload(d)
          /\ call' = [call EXCEPT ![d] = "working"]
          /\ worker' = [worker EXCEPT ![d] = startAll(CRIUFiles(d))]
          /\ UNCHANGED bucket
    /\ UNCHANGED <<source, errChan, target, disk, torn>>

\* The upload of a pre-dump goes on in the background.
PreCheckpoint(d) == call["final"] = "idle" /\ UploadCheckpoint(d)

FinalDump == UploadCheckpoint("final")

\* uploadAgentMetadata: an error is only logged.  Then FinalDump answers.
FinalDumpAnswers ==
    /\ alive /\ ~answered /\ call["final"] = "nil"
    /\ answered' = TRUE
    /\ \E n \in SUBSET AgentFiles : bucket' = bucket \cup ({"final"} \X n)
    /\ UNCHANGED <<strategy, direct, alive, pool, target, disk, torn>>

\* The source's pod ends, and with it every upload.
SourceEnds ==
    /\ alive /\ alive' = FALSE
    /\ call' = [c \in Calls |-> IF c \in Dumps /\ call[c] = "working" THEN "killed"
                                ELSE call[c]]
    /\ worker' = [c \in Calls |-> IF c \in Dumps THEN Idle ELSE worker[c]]
    /\ UNCHANGED <<strategy, direct, answered, errChan, target, bucket, disk, torn>>

-----------------------------------------------------------------------------
(***************************************************************************)
(* The target.                                                             *)
(***************************************************************************)
\* The dumps below the prefix that is listed: the directory above the final dump's.
basePath == Dumps

\* Calls of Restore made before.
Started == {r \in Restores : call[r] # "idle"}

\* MUTANT of superseded: restoreCancel is not called.
noneCancelled == {}

\* The calls whose context is cancelled.
superseded == Started

\* Restore, called again after an error or while the earlier call goes on, whose
\* context it cancels, or for another target pod, whose work directory is new;
\* the pod before it is gone then, and its goroutines with it.
Restore(r) ==
    /\ answered /\ call[r] = "idle"
    /\ cancelled' = superseded
    /\ \/ /\ call' = [call EXCEPT ![r] = "listing"]
          /\ UNCHANGED <<worker, disk>>
       \/ /\ call' = [c \in Calls |->
               IF c = r THEN "listing"
               ELSE IF c \in Started /\ call[c] \in {"listing", "working"} THEN "killed"
               ELSE call[c]]
          /\ worker' = [c \in Calls |-> IF c \in Restores THEN Idle ELSE worker[c]]
          /\ disk' = Idle
    /\ unlisted' = basePath
    /\ late' = {d \in Dumps : call[d] # "nil"}
    /\ torn' = {}
    /\ UNCHANGED <<source, errChan, bucket>>

\* DownloadMetadataOnly leaves out the pages, DownloadFullCheckpoint nothing.
Wanted(f) == strategy = "full" \/ f[2] \notin Pages

listPage(r, d) ==
    /\ call[r] = "listing" /\ r \notin cancelled /\ d \in unlisted
    /\ unlisted' = unlisted \ {d}
    /\ worker' = [worker EXCEPT ![r] = [f \in Files |->
                    IF f \in bucket /\ f[1] = d /\ Wanted(f) THEN "waiting" ELSE @[f]]]
    /\ call' = IF unlisted' = {} THEN [call EXCEPT ![r] = "working"] ELSE call
    /\ UNCHANGED <<source, errChan, cancelled, late, bucket, disk, torn>>

\* An error, or the call is cancelled.  No goroutine has been started for what
\* the earlier pages listed.
listFails(r) ==
    /\ call[r] = "listing"
    /\ call' = [call EXCEPT ![r] = "error"]
    /\ worker' = [worker EXCEPT ![r] = Idle]
    /\ UNCHANGED <<source, errChan, target, bucket, disk, torn>>

-----------------------------------------------------------------------------
Init ==
    /\ strategy \in {"full", "lazy"} /\ direct \in BOOLEAN
    /\ alive = TRUE /\ answered = FALSE
    /\ call = [c \in Calls |-> "idle"]
    /\ worker = [c \in Calls |-> Idle]
    /\ errChan = [c \in Calls |-> {}]
    /\ bucket = {} /\ disk = Idle
    /\ unlisted = {} /\ cancelled = {} /\ late = {} /\ torn = {}

\* A goroutine of a call whose transfer ends, or the call, takes a step.
Transfer(c) ==
    \/ /\ call[c] # "listing"
       /\ \E f \in Files : fail(c, f) \/ sendError(c, f)
    \/ returns(c)

Upload(d) == Transfer(d) \/ \E f \in Files : openLocal(d, f) \/ upload(d, f)

Download(r) ==
    \/ Transfer(r)
    \/ call[r] # "listing" /\ \E f \in Files : create(r, f) \/ download(r, f)

List(r) == listFails(r) \/ \E d \in Dumps : listPage(r, d)

Next ==
    \/ \E d \in Dumps : Upload(d)
    \/ \E r \in Restores : Restore(r) \/ List(r) \/ Download(r)
    \/ \E d \in PreDumps : PreCheckpoint(d)
    \/ FinalDump \/ FinalDumpAnswers \/ SourceEnds

\* Goroutines run, and every request to S3 ends in some way.
Spec ==
    /\ Init /\ [][Next]_vars
    /\ \A d \in Dumps : WF_vars(Upload(d))
    /\ \A r \in Restores : WF_vars(Download(r)) /\ WF_vars(List(r))

-----------------------------------------------------------------------------
(***************************************************************************)
(* Properties.                                                             *)
(***************************************************************************)
States == {"none", "waiting", "active", "overtaken", "failed", "done"}

\* Every variable holds a value of the code's type for it.
TypeOK ==
    /\ strategy \in {"full", "lazy"} /\ direct \in BOOLEAN
    /\ alive \in BOOLEAN /\ answered \in BOOLEAN
    /\ call \in [Calls -> {"idle", "listing", "working", "nil", "error", "killed"}]
    /\ worker \in [Calls -> [Files -> States]]
    /\ errChan \in [Calls -> SUBSET Files]
    /\ bucket \subseteq Files /\ torn \subseteq Files
    /\ disk \in [Files -> {"none", "part", "whole"}]
    /\ unlisted \subseteq Dumps /\ late \subseteq Dumps
    /\ cancelled \subseteq Restores

\* FinalDump answers, and a pre-dump's upload ends, without an error only if
\* CRIU's files are all on S3, whatever failed and in whatever order.
UploadedWhole == \A d \in Dumps : call[d] = "nil" => CRIUFiles(d) \subseteq bucket

\* The calls of Restore that have not been cancelled.
Current == Restores \ cancelled

\* The target goes on with the restore only if it has every image the restore
\* reads: all of the final dump's, and all of every pre-dump's whose upload had
\* succeeded when the listing began.  (The others' the listing may not show, and
\* nobody waits for them.)  Of an earlier call's goroutines, which may still be
\* there, only the ones that had yet to open their file do harm: the images they
\* have truncated are excepted.
ChainDownloaded ==
    \A r \in Current : call[r] = "nil" =>
      /\ "final" \notin late
      /\ \A d \in Dumps \ late : \A f \in CRIUFiles(d) :
           Wanted(f) => disk[f] = "whole" \/ f \in torn

\* From the answer on the images stay as they are, for the restore to read: no
\* goroutine of the call is left to truncate one, and none of an earlier call
\* that had its file open when the answer came.
ImagesStay ==
    [][\A r \in Current : call[r] = "nil" /\ r \notin cancelled' =>
         \A f \in Files : disk[f] = "whole" /\ f \notin torn' => disk'[f] = "whole"]_vars

\* Every transfer that has begun returns: no goroutine is left waiting for a
\* place, or for room for its error.
TransfersReturn ==
    \A c \in Calls : call[c] \in {"listing", "working"} ~>
                      call[c] \in {"nil", "error", "killed"}
=============================================================================
