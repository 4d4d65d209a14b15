---------------------- MODULE CheckpointTransferProofs ----------------------
(***************************************************************************)
(* Proofs about CheckpointTransfer, for any chain, files and concurrency.  *)
(***************************************************************************)
EXTENDS CheckpointTransfer, TLAPS

\* A file CRIU wrote and the strategy wants on the target's disk.
InChain(f) == f[2] \in Images \cup Pages /\ Wanted(f)

\* A working upload has a goroutine for every file; one that is done has stored
\* its file or left an error.
UploadInv(d) ==
    /\ call[d] = "nil" => CRIUFiles(d) \subseteq bucket
    /\ call[d] = "working" =>
         \A f \in CRIUFiles(d) :
            /\ worker[d][f] # "none"
            /\ worker[d][f] = "done" => f \in bucket \cup errChan[d]

\* What the current call's listing is to find is in the bucket.
StoredInv ==
    /\ answered => call["final"] = "nil"
    /\ Started # {} =>
         /\ "final" \notin late
         /\ \A d \in Dumps \ late : CRIUFiles(d) \subseteq bucket

\* There is one current call at most, and goroutines of calls that began only.
CurrentInv ==
    /\ \A r \in Started, s \in Started : r \notin cancelled /\ s \notin cancelled => r = s
    /\ \A r \in Restores \ Started : \A f \in Files : worker[r][f] = "none"

\* The files of the dumps that were stored in time, from the listing of the
\* current call to the disk.
DownloadInv(r) ==
    r \notin cancelled =>
      /\ call[r] = "listing" => \A f \in Files :
           /\ worker[r][f] \in {"none", "waiting"}
           /\ f[1] \notin late \cup unlisted /\ InChain(f) => worker[r][f] # "none"
      /\ call[r] = "working" => \A f \in Files :
           /\ f[1] \notin late /\ InChain(f) => worker[r][f] # "none"
           /\ worker[r][f] = "done" => disk[f] = "whole" \/ f \in errChan[r] \cup torn
           /\ worker[r][f] = "overtaken" => f \in torn
      /\ call[r] = "nil" => \A f \in Files :
           /\ worker[r][f] \in {"none", "done"}
           /\ f[1] \notin late /\ InChain(f) => disk[f] = "whole" \/ f \in torn

IInv ==
    /\ TypeOK
    /\ \A d \in Dumps : UploadInv(d)
    /\ StoredInv
    /\ CurrentInv
    /\ \A r \in Restores : DownloadInv(r)

-----------------------------------------------------------------------------
(***************************************************************************)
(* Files and workers.                                                      *)
(***************************************************************************)
LEMMA CallsApart ==
    /\ "final" \in Dumps /\ "final" \notin PreDumps
    /\ Dumps \subseteq Calls /\ Restores \subseteq Calls /\ Dumps \cap Restores = {}
  BY TransferAssumptions DEF Dumps, Calls

\* The files of a dump are the ones of its directory that CRIU wrote.
LEMMA CRIUFilesOf ==
    ASSUME NEW d \in Dumps
    PROVE  /\ CRIUFiles(d) \subseteq Files
           /\ \A f \in Files : f \in CRIUFiles(d) <=> f[1] = d /\ f[2] \in Images \cup Pages
  BY DEF CRIUFiles, Files, Names

LEMMA FileParts == \A f \in Files : f[1] \in Dumps /\ f[2] \in Names
  BY DEF Files

\* One goroutine moves, the others stay.
LEMMA StepEffect ==
    ASSUME TypeOK, NEW c \in Calls, NEW f \in Files, NEW from, NEW to \in States,
           Step(c, f, from, to)
    PROVE  /\ worker' \in [Calls -> [Files -> States]]
           /\ worker[c][f] = from /\ worker'[c][f] = to
           /\ \A k \in Calls, g \in Files :
                k # c \/ g # f => worker'[k][g] = worker[k][g]
  BY DEF TypeOK, Step

LEMMA IdleType == Idle \in [Files -> States] /\ Idle \in [Files -> {"none", "part", "whole"}]
  BY DEF Idle, States

\* The steps, call by call.
LEMMA NextCases ==
    ASSUME [Next]_vars
    PROVE  \/ \E d \in Dumps, f \in Files : openLocal(d, f) \/ upload(d, f)
           \/ \E r \in Restores, f \in Files :
                call[r] # "listing" /\ (create(r, f) \/ download(r, f))
           \/ \E c \in Calls, f \in Files :
                call[c] # "listing" /\ (fail(c, f) \/ sendError(c, f))
           \/ \E c \in Calls : returns(c)
           \/ \E d \in Dumps : UploadCheckpoint(d)
           \/ FinalDumpAnswers \/ SourceEnds
           \/ \E r \in Restores : Restore(r) \/ listFails(r)
           \/ \E r \in Restores, d \in Dumps : listPage(r, d)
           \/ UNCHANGED vars
<1>1. PreDumps \subseteq Dumps
  BY DEF Dumps
<1> QED
  BY <1>1, CallsApart
     DEF Next, Upload, Download, Transfer, List, PreCheckpoint, FinalDump

-----------------------------------------------------------------------------
(***************************************************************************)
(* TypeOK, by one lemma per part of Next.                                  *)
(***************************************************************************)
LEMMA TypeGoroutine ==
    ASSUME TypeOK, NEW c \in Calls, NEW f \in Files,
           \/ openLocal(c, f) \/ fail(c, f) \/ sendError(c, f) \/ upload(c, f)
           \/ create(c, f) \/ download(c, f)
    PROVE  TypeOK'
<1> USE DEF TypeOK, source, target, States, Open
<1>1. CASE openLocal(c, f)
  BY <1>1, StepEffect DEF openLocal
<1>2. CASE fail(c, f)
  <2>1. PICK s \in Open : Step(c, f, s, "failed")
    BY <1>2 DEF fail
  <2> QED
    BY <1>2, <2>1, StepEffect DEF fail
<1>3. CASE sendError(c, f)
  BY <1>3, StepEffect DEF sendError
<1>4. CASE upload(c, f)
  BY <1>4, StepEffect DEF upload
<1>5. CASE create(c, f)
  BY <1>5 DEF create
<1>6. CASE download(c, f)
  BY <1>6, StepEffect DEF download
<1> QED
  BY <1>1, <1>2, <1>3, <1>4, <1>5, <1>6

LEMMA TypeStep == ASSUME TypeOK, [Next]_vars PROVE TypeOK'
<1> USE DEF TypeOK, source, pool, target
<1>0. \A d \in Dumps : d \in Calls
  BY CallsApart
<1>1. ASSUME NEW c \in Calls, returns(c) PROVE TypeOK'
  BY <1>1 DEF returns
<1>2. ASSUME NEW d \in Dumps, UploadCheckpoint(d) PROVE TypeOK'
  <2>1. CRIUFiles(d) \subseteq Files
    BY CRIUFilesOf
  <2>2. startAll(CRIUFiles(d)) \in [Files -> States]
    BY DEF startAll, States
  <2> QED
    BY <1>0, <1>2, <2>1, <2>2 DEF UploadCheckpoint
<1>3. CASE FinalDumpAnswers
  BY <1>3, CallsApart DEF FinalDumpAnswers, Files, Names
<1>4. CASE SourceEnds
  BY <1>4, IdleType DEF SourceEnds
<1>5. ASSUME NEW r \in Restores, Restore(r) PROVE TypeOK'
  BY <1>5, IdleType, CallsApart DEF Restore, basePath, superseded, Started
<1>6. ASSUME NEW r \in Restores, NEW d \in Dumps, listPage(r, d) PROVE TypeOK'
  <2>1. worker[r] \in [Files -> States] /\ r \in Calls
    BY CallsApart
  <2>2. [f \in Files |-> IF f \in bucket /\ f[1] = d /\ Wanted(f) THEN "waiting"
                         ELSE worker[r][f]] \in [Files -> States]
    BY <2>1 DEF States
  <2>3. worker' \in [Calls -> [Files -> States]]
    BY <1>6, <2>1, <2>2 DEF listPage
  <2> QED
    BY <1>6, <2>1, <2>3 DEF listPage
<1>7. ASSUME NEW r \in Restores, listFails(r) PROVE TypeOK'
  BY <1>7, IdleType, CallsApart DEF listFails
<1>8. CASE UNCHANGED vars
  BY <1>8 DEF vars
<1> HIDE DEF TypeOK, source, pool, target
<1> QED
  BY <1>1, <1>2, <1>3, <1>4, <1>5, <1>6, <1>7, <1>8, TypeGoroutine, NextCases, CallsApart

-----------------------------------------------------------------------------
(***************************************************************************)
(* The uploads.                                                            *)
(***************************************************************************)
\* What a step of a goroutine does to the uploads.
LEMMA UploadGoroutine ==
    ASSUME TypeOK, NEW c \in Calls, NEW f \in Files, NEW d \in Dumps, UploadInv(d),
           \/ openLocal(c, f) \/ fail(c, f) \/ sendError(c, f) \/ upload(c, f)
           \/ (c \in Restores /\ (create(c, f) \/ download(c, f)))
    PROVE  UploadInv(d)'
<1>0. CRIUFiles(d) \subseteq Files /\ CRIUFiles(d)' = CRIUFiles(d) /\ d \in Calls
  BY CRIUFilesOf, CallsApart DEF CRIUFiles
<1>1. CASE openLocal(c, f)
  BY <1>0, <1>1, StepEffect DEF openLocal, UploadInv, States
<1>2. CASE fail(c, f)
  <2>1. bucket \subseteq bucket' /\ \E s \in Open : Step(c, f, s, "failed")
    BY <1>2 DEF fail
  <2> QED
    BY <1>0, <1>2, <2>1, StepEffect DEF fail, UploadInv, States, Open
<1>3. CASE sendError(c, f)
  <2>1. \A k \in Calls : errChan[k] \subseteq errChan'[k]
    BY <1>3 DEF sendError, TypeOK
  <2>2. f \in errChan'[c]
    BY <1>3 DEF sendError, TypeOK
  <2> QED
    BY <1>0, <1>3, <2>1, <2>2, StepEffect DEF sendError, UploadInv, States
<1>4. CASE upload(c, f)
  BY <1>0, <1>4, StepEffect DEF upload, UploadInv, States
<1>5. CASE c \in Restores /\ (create(c, f) \/ download(c, f))
  <2>1. d \notin Restores /\ d # c
    BY <1>5, CallsApart
  <2>2. \A g \in Files : worker'[d][g] = worker[d][g]
    BY <1>0, <1>5, <2>1, StepEffect DEF create, download, States
  <2> QED
    BY <1>0, <1>5, <2>2 DEF create, download, UploadInv
<1> QED
  BY <1>1, <1>2, <1>3, <1>4, <1>5

LEMMA UploadStep ==
    ASSUME TypeOK, NEW d \in Dumps, UploadInv(d), [Next]_vars
    PROVE  UploadInv(d)'
<1>0. /\ CRIUFiles(d) \subseteq Files /\ CRIUFiles(d)' = CRIUFiles(d)
      /\ d \in Calls /\ d \notin Restores
  BY CRIUFilesOf, CallsApart DEF CRIUFiles
<1>1. ASSUME NEW c \in Calls, returns(c) PROVE UploadInv(d)'
  <2>1. CASE c = d /\ call[d] = "working"
    <3>1. errChan[d] = {} => CRIUFiles(d) \subseteq bucket
      BY <1>0, <1>1, <2>1 DEF returns, waited, Listed, UploadInv
    <3> QED
      BY <1>0, <1>1, <2>1, <3>1 DEF returns, UploadInv, TypeOK
  <2>2. CASE c # d
    BY <1>0, <1>1, <2>2 DEF returns, UploadInv, TypeOK
  <2> QED
    BY <1>1, <2>1, <2>2 DEF returns
<1>2. ASSUME NEW e \in Dumps, UploadCheckpoint(e) PROVE UploadInv(d)'
  <2>0. bucket \subseteq bucket' /\ errChan' = errChan /\ e \in Calls
    BY <1>2, CallsApart DEF UploadCheckpoint
  <2>1. CASE e # d
    <3>1. call'[d] = call[d] /\ worker'[d] = worker[d]
      BY <1>0, <1>2, <2>0, <2>1 DEF UploadCheckpoint, TypeOK
    <3> QED
      BY <1>0, <2>0, <3>1 DEF UploadInv
  <2>2. CASE e = d
    <3>1. call'[d] = "nil" => CRIUFiles(d) \subseteq bucket'
      BY <1>0, <1>2, <2>2 DEF UploadCheckpoint, TypeOK
    <3>2. ASSUME call'[d] = "working", NEW f \in CRIUFiles(d)
          PROVE  worker'[d][f] = "waiting"
      <4>1. worker'[d] = startAll(CRIUFiles(d))
        BY <1>0, <1>2, <2>2, <3>2 DEF UploadCheckpoint, TypeOK
      <4> QED
        BY <1>0, <4>1 DEF startAll
    <3> QED
      BY <1>0, <3>1, <3>2 DEF UploadInv
  <2> QED
    BY <2>1, <2>2
<1>3. CASE FinalDumpAnswers
  BY <1>0, <1>3 DEF FinalDumpAnswers, UploadInv, pool
<1>4. CASE SourceEnds
  BY <1>0, <1>4 DEF SourceEnds, UploadInv, TypeOK
<1>5. ASSUME NEW r \in Restores, Restore(r) PROVE UploadInv(d)'
  <2>1. worker'[d] = worker[d] /\ call'[d] = call[d]
    BY <1>0, <1>5 DEF Restore, TypeOK, Started
  <2> QED
    BY <1>0, <1>5, <2>1 DEF Restore, UploadInv
<1>6. ASSUME NEW r \in Restores, NEW e \in Dumps, listPage(r, e) PROVE UploadInv(d)'
  <2>1. worker'[d] = worker[d] /\ call'[d] = call[d]
    BY <1>0, <1>6 DEF listPage, TypeOK
  <2> QED
    BY <1>0, <1>6, <2>1 DEF listPage, UploadInv
<1>7. ASSUME NEW r \in Restores, listFails(r) PROVE UploadInv(d)'
  BY <1>0, <1>7 DEF listFails, UploadInv, TypeOK
<1>8. CASE UNCHANGED vars
  BY <1>0, <1>8 DEF vars, pool, UploadInv
<1> QED
  BY <1>1, <1>2, <1>3, <1>4, <1>5, <1>6, <1>7, <1>8, UploadGoroutine, NextCases, CallsApart

-----------------------------------------------------------------------------
(***************************************************************************)
(* The answer of FinalDump and the listing.                                *)
(***************************************************************************)
\* Nothing leaves the bucket, an upload that has succeeded stays so, and only
\* Restore begins a call of Restore.
LEMMA CallsStay ==
    ASSUME TypeOK, [Next]_vars
    PROVE  /\ bucket \subseteq bucket'
           /\ \A d \in Dumps : call[d] = "nil" => call'[d] = "nil"
           /\ answered' => answered \/ call["final"] = "nil"
           /\ \/ \E r \in Restores : Restore(r)
              \/ late' = late /\ cancelled' = cancelled /\ Started' = Started
<1> DEFINE P == /\ bucket \subseteq bucket'
                /\ \A d \in Dumps : call[d] = "nil" => call'[d] = "nil"
                /\ answered' => answered \/ call["final"] = "nil"
           Q == late' = late /\ cancelled' = cancelled /\ Started' = Started
<1> USE DEF source, pool, target, Started
<1>1. ASSUME NEW c \in Calls, NEW f \in Files,
             \/ openLocal(c, f) \/ upload(c, f) \/ create(c, f) \/ download(c, f)
             \/ fail(c, f) \/ sendError(c, f)
      PROVE  P /\ Q
  BY <1>1 DEF openLocal, upload, create, download, fail, sendError
<1>2. ASSUME NEW c \in Calls, returns(c) PROVE P /\ Q
  BY <1>2, CallsApart DEF returns, TypeOK
<1>3. ASSUME NEW e \in Dumps, UploadCheckpoint(e) PROVE P /\ Q
  BY <1>3, CallsApart DEF UploadCheckpoint, TypeOK
<1>4. CASE FinalDumpAnswers
  BY <1>4 DEF FinalDumpAnswers
<1>5. CASE SourceEnds
  BY <1>5, CallsApart DEF SourceEnds
<1>6. ASSUME NEW r \in Restores, Restore(r) PROVE P
  BY <1>6, CallsApart DEF Restore, TypeOK
<1>7. ASSUME NEW r \in Restores, listFails(r) PROVE P /\ Q
  BY <1>7, CallsApart DEF listFails, TypeOK
<1>8. ASSUME NEW r \in Restores, NEW d \in Dumps, listPage(r, d) PROVE P /\ Q
  BY <1>8, CallsApart DEF listPage, TypeOK
<1>9. CASE UNCHANGED vars
  BY <1>9 DEF vars
<1> HIDE DEF source, pool, target, Started, P, Q
<1>10. P /\ (Q \/ \E r \in Restores : Restore(r))
  BY <1>1, <1>2, <1>3, <1>4, <1>5, <1>6, <1>7, <1>8, <1>9, NextCases, CallsApart DEF P, Q
<1> QED
  BY <1>10 DEF P, Q

LEMMA StoredStep ==
    ASSUME TypeOK, StoredInv, \A d \in Dumps : UploadInv(d), [Next]_vars
    PROVE  StoredInv'
<1>0. /\ bucket \subseteq bucket' /\ "final" \in Dumps
      /\ \A d \in Dumps : call[d] = "nil" => call'[d] = "nil"
      /\ \A d \in Dumps : CRIUFiles(d)' = CRIUFiles(d)
  BY CallsStay, CallsApart DEF CRIUFiles
<1>1. CASE \E r \in Restores : Restore(r)
  <2>1. answered' = answered /\ late' = {d \in Dumps : call[d] # "nil"} /\ answered
    BY <1>1 DEF Restore, source
  <2> QED
    BY <1>0, <2>1 DEF StoredInv, UploadInv
<1>2. CASE ~\E r \in Restores : Restore(r)
  <2>1. late' = late /\ Started' = Started /\ (answered' => answered \/ call["final"] = "nil")
    BY <1>2, CallsStay
  <2> QED
    BY <1>0, <2>1 DEF StoredInv
<1> QED
  BY <1>1, <1>2

-----------------------------------------------------------------------------
(***************************************************************************)
(* The downloads.                                                          *)
(***************************************************************************)
LEMMA CurrentStep ==
    ASSUME TypeOK, CurrentInv, [Next]_vars
    PROVE  CurrentInv'
<1> USE DEF TypeOK
<1>1. ASSUME NEW r \in Restores, Restore(r) PROVE CurrentInv'
  <2>1. r \in Calls /\ Started' = Started \cup {r} /\ cancelled' = Started
    BY <1>1, CallsApart DEF Restore, Started, superseded
  <2>2. \A s \in Restores, f \in Files : worker[s][f] = "none" => worker'[s][f] = "none"
    BY <1>1, CallsApart DEF Restore, Idle
  <2> QED
    BY <2>1, <2>2 DEF CurrentInv
<1>2. CASE ~\E r \in Restores : Restore(r)
  <2>1. Started' = Started /\ cancelled' = cancelled
    BY <1>2, CallsStay
  <2> SUFFICES ASSUME NEW r \in Restores, r \notin Started, NEW f \in Files
               PROVE  worker'[r][f] = "none"
    BY <2>1 DEF CurrentInv
  <2>2. worker[r][f] = "none" /\ call[r] = "idle" /\ r \in Calls /\ r \notin Dumps
    BY CallsApart DEF CurrentInv, Started
  <2>3. ASSUME NEW c \in Calls, NEW g \in Files,
               \/ openLocal(c, g) \/ upload(c, g) \/ create(c, g) \/ download(c, g)
               \/ fail(c, g) \/ sendError(c, g)
        PROVE  worker'[r][f] = "none"
    BY <2>2, <2>3
       DEF openLocal, upload, create, download, fail, sendError, Step, acquire, Open
  <2>4. ASSUME NEW s \in Restores, NEW d \in Dumps, listPage(s, d)
        PROVE  worker'[r][f] = "none"
    BY <2>2, <2>4, CallsApart DEF listPage
  <2>5. ASSUME NEW c \in Calls, returns(c) PROVE worker'[r][f] = "none"
    BY <2>2, <2>5 DEF returns
  <2>6. ASSUME NEW d \in Dumps, UploadCheckpoint(d) PROVE worker'[r][f] = "none"
    BY <2>2, <2>6 DEF UploadCheckpoint
  <2>7. CASE FinalDumpAnswers \/ SourceEnds \/ UNCHANGED vars
    BY <2>2, <2>7 DEF FinalDumpAnswers, SourceEnds, vars, pool
  <2>8. ASSUME NEW s \in Restores, listFails(s) PROVE worker'[r][f] = "none"
    BY <2>2, <2>8, CallsApart DEF listFails
  <2> QED
    BY <1>2, <2>3, <2>4, <2>5, <2>6, <2>7, <2>8, NextCases, CallsApart
<1> QED
  BY <1>1, <1>2

\* What the steps of other calls may do to the current one: fill a file, or
\* truncate it, which is remembered.
LEMMA DownloadKept ==
    ASSUME NEW r \in Restores, DownloadInv(r), call'[r] = call[r],
           errChan'[r] = errChan[r], UNCHANGED <<strategy, late, unlisted, cancelled>>,
           torn \subseteq torn',
           \A g \in Files : \/ worker'[r][g] = worker[r][g]
                            \/ /\ worker[r][g] = "active" /\ worker'[r][g] = "overtaken"
                               /\ g \in torn',
           \A g \in Files : disk'[g] = disk[g] \/ disk'[g] = "whole" \/ g \in torn'
    PROVE  DownloadInv(r)'
<1>1. \A g \in Files : InChain(g)' = InChain(g)
  BY DEF InChain, Wanted
<1> QED
  BY <1>1 DEF DownloadInv

\* The goroutines of the current call itself.
LEMMA DownloadGoroutine ==
    ASSUME TypeOK, NEW r \in Restores, DownloadInv(r), r \notin cancelled,
           NEW f \in Files, call[r] # "listing",
           create(r, f) \/ download(r, f) \/ fail(r, f) \/ sendError(r, f)
    PROVE  DownloadInv(r)'
<1>0. /\ r \in Calls /\ disk \in [Files -> {"none", "part", "whole"}]
      /\ call[r] = "nil" => worker[r][f] \in {"none", "done"}
      /\ \A g \in Files : worker[r][g] \in States
  BY CallsApart DEF TypeOK, DownloadInv
<1> USE DEF DownloadInv, InChain, Wanted, States, source, target
<1>1. CASE create(r, f)
  <2>1. /\ worker[r][f] = "waiting" /\ worker'[r][f] = "active"
        /\ \A g \in Files : g # f =>
             worker'[r][g] = worker[r][g] /\ disk'[g] = disk[g] /\ (g \in torn' <=> g \in torn)
        /\ UNCHANGED <<call, errChan, strategy, late, unlisted>>
    BY <1>0, <1>1 DEF create, acquire
  <2> QED
    BY <1>0, <2>1
<1>2. CASE fail(r, f)
  <2>1. PICK s \in Open : Step(r, f, s, "failed")
    BY <1>2 DEF fail
  <2>2. /\ worker[r][f] \in Open /\ worker'[r][f] = "failed"
        /\ \A g \in Files : g # f => worker'[r][g] = worker[r][g]
        /\ UNCHANGED <<call, errChan, disk, strategy, late, unlisted, torn>>
    BY <1>0, <1>2, <2>1, StepEffect DEF fail
  <2> QED
    BY <1>0, <2>2 DEF Open
<1>3. CASE sendError(r, f)
  <2>1. /\ worker[r][f] = "failed" /\ worker'[r][f] = "done"
        /\ \A g \in Files : g # f => worker'[r][g] = worker[r][g]
        /\ UNCHANGED <<call, disk, strategy, late, unlisted, torn>>
    BY <1>0, <1>3, StepEffect DEF sendError
  <2>2. errChan[r] \subseteq errChan'[r] /\ f \in errChan'[r]
    BY <1>0, <1>3 DEF sendError, TypeOK
  <2> QED
    BY <1>0, <2>1, <2>2
<1>4. CASE download(r, f)
  <2>1. /\ worker'[r][f] = "done"
        /\ \A g \in Files : g # f => worker'[r][g] = worker[r][g] /\ disk'[g] = disk[g]
        /\ UNCHANGED <<call, errChan, strategy, late, unlisted, torn>>
    BY <1>0, <1>4, StepEffect DEF download
  <2>2. \/ worker[r][f] = "active" /\ disk'[f] = "whole"
        \/ worker[r][f] = "overtaken" /\ disk'[f] = disk[f]
    BY <1>0, <1>4 DEF download, Step
  <2> QED
    BY <1>0, <2>1, <2>2
<1> QED
  BY <1>1, <1>2, <1>3, <1>4

LEMMA DownloadReturns ==
    ASSUME TypeOK, NEW r \in Restores, DownloadInv(r), returns(r)
    PROVE  DownloadInv(r)'
<1>0. /\ call[r] = "working"
      /\ \A f \in Files : worker[r][f] \in {"none", "done"}
      /\ call'[r] = IF errChan[r] = {} THEN "nil" ELSE "error"
      /\ UNCHANGED <<worker, disk, strategy, late, unlisted, cancelled, torn>>
  BY CallsApart DEF returns, waited, Listed, TypeOK, source, target
<1> QED
  BY <1>0 DEF DownloadInv, InChain, Wanted

LEMMA DownloadLists ==
    ASSUME TypeOK, StoredInv, NEW r \in Restores, DownloadInv(r), NEW d \in Dumps,
           listPage(r, d)
    PROVE  DownloadInv(r)'
<1>0. r \in Calls /\ r \in Started
  BY CallsApart DEF listPage, Started
<1>1. /\ call[r] = "listing" /\ unlisted' = unlisted \ {d} /\ r \notin cancelled
      /\ call'[r] = IF unlisted' = {} THEN "working" ELSE "listing"
      /\ UNCHANGED <<errChan, disk, strategy, late, cancelled, torn>>
  BY <1>0 DEF listPage, TypeOK, source
<1>2. \A f \in Files : worker'[r][f] =
          IF f \in bucket /\ f[1] = d /\ Wanted(f) THEN "waiting" ELSE worker[r][f]
  BY <1>0 DEF listPage, TypeOK
<1>3. \A f \in Files : worker'[r][f] \in {"none", "waiting"}
  BY <1>1, <1>2 DEF DownloadInv
<1>4. ASSUME NEW f \in Files, f[1] \notin late \cup unlisted', InChain(f)
      PROVE  worker'[r][f] # "none"
  <2>1. CASE f[1] = d
    <3>1. f \in CRIUFiles(d) /\ d \notin late
      BY <1>4, <2>1, CRIUFilesOf DEF InChain
    <3>2. f \in bucket
      BY <1>0, <3>1 DEF StoredInv
    <3> QED
      BY <1>2, <1>4, <2>1, <3>2 DEF InChain
  <2>2. CASE f[1] # d
    <3>1. f[1] \notin late \cup unlisted
      BY <1>1, <1>4, <2>2
    <3>2. worker[r][f] # "none"
      BY <1>1, <1>4, <3>1 DEF DownloadInv
    <3> QED
      BY <1>2, <3>2
  <2> QED
    BY <2>1, <2>2
<1>5. \A f \in Files : InChain(f)' = InChain(f)
  BY <1>1 DEF InChain, Wanted
<1> QED
  BY <1>1, <1>3, <1>4, <1>5 DEF DownloadInv

LEMMA DownloadStep ==
    ASSUME IInv, [Next]_vars, NEW r \in Restores
    PROVE  DownloadInv(r)'
<1> USE DEF IInv
<1>0. r \in Calls /\ r \notin Dumps /\ Dumps \subseteq Calls /\ Restores \subseteq Calls
  BY CallsApart
<1>1. ASSUME NEW s \in Restores, Restore(s) PROVE DownloadInv(r)'
  <2>1. CASE r = s
    <3>1. call'[r] = "listing" /\ unlisted' = Dumps
      BY <1>0, <1>1, <2>1 DEF Restore, basePath, TypeOK
    <3>2. \A f \in Files : worker'[r][f] = "none"
      BY <1>0, <1>1, <2>1 DEF Restore, CurrentInv, TypeOK, Idle, Started
    <3> QED
      BY <3>1, <3>2, FileParts DEF DownloadInv
  <2>2. CASE r # s /\ r \notin Started
    <3>1. call'[r] = "idle"
      BY <1>0, <1>1, <2>2 DEF Restore, TypeOK, Started
    <3> QED
      BY <3>1 DEF DownloadInv
  <2>3. CASE r \in Started
    BY <1>1, <2>3 DEF Restore, superseded, DownloadInv
  <2> QED
    BY <2>1, <2>2, <2>3
<1> SUFFICES ASSUME r \notin cancelled, r \in Started, cancelled' = cancelled,
                    \A s \in Restores : ~Restore(s)
             PROVE  DownloadInv(r)'
  BY <1>1, CallsStay DEF DownloadInv, Started
<1>2. ASSUME NEW c \in Calls, NEW f \in Files, c # r,
             openLocal(c, f) \/ upload(c, f) \/ fail(c, f) \/ sendError(c, f)
      PROVE  DownloadInv(r)'
  <2>1. worker'[r] = worker[r]
    BY <1>0, <1>2 DEF openLocal, upload, fail, sendError, Step, TypeOK
  <2>2. /\ errChan'[r] = errChan[r]
        /\ UNCHANGED <<call, strategy, disk, late, unlisted, torn>>
    BY <1>0, <1>2 DEF openLocal, upload, fail, sendError, TypeOK, source, target
  <2> QED
    BY <2>1, <2>2, DownloadKept
<1>3. ASSUME NEW c \in Restores, NEW f \in Files, c # r, download(c, f)
      PROVE  DownloadInv(r)'
  <2>1. worker'[r] = worker[r] /\ \A g \in Files : disk'[g] = disk[g] \/ disk'[g] = "whole"
    BY <1>0, <1>3 DEF download, Step, TypeOK
  <2>2. UNCHANGED <<call, errChan, strategy, late, unlisted, torn>>
    BY <1>3 DEF download, source, target
  <2> QED
    BY <2>1, <2>2, DownloadKept
<1>4. ASSUME NEW c \in Restores, NEW f \in Files, c # r, create(c, f)
      PROVE  DownloadInv(r)'
  <2>1. c \in cancelled
    <3>1. worker[c][f] = "waiting" /\ CurrentInv
      BY <1>4 DEF create, acquire
    <3>2. c \in Started
      BY <3>1 DEF CurrentInv
    <3> QED
      BY <1>4, <3>1, <3>2 DEF CurrentInv
  <2>2. torn' = torn \cup {f}
    BY <1>4, <2>1 DEF create
  <2>3. \A g \in Files : g # f => disk'[g] = disk[g]
    BY <1>4 DEF create, TypeOK
  <2>4. \A g \in Files : \/ worker'[r][g] = worker[r][g]
                         \/ g = f /\ worker[r][g] = "active" /\ worker'[r][g] = "overtaken"
    BY <1>0, <1>4 DEF create, TypeOK
  <2>5. UNCHANGED <<call, errChan, strategy, late, unlisted>>
    BY <1>4 DEF create, source, target
  <2> QED
    BY <2>2, <2>3, <2>4, <2>5, DownloadKept
<1>5. ASSUME NEW c \in Calls, c # r, returns(c) PROVE DownloadInv(r)'
  BY <1>0, <1>5, DownloadKept DEF returns, TypeOK, source, target
<1>6. ASSUME NEW d \in Dumps, UploadCheckpoint(d) PROVE DownloadInv(r)'
  <2>1. worker'[r] = worker[r] /\ call'[r] = call[r]
    BY <1>0, <1>6 DEF UploadCheckpoint, TypeOK
  <2> QED
    BY <1>6, <2>1, DownloadKept DEF UploadCheckpoint, source, target
<1>7. CASE FinalDumpAnswers
  BY <1>7, DownloadKept DEF FinalDumpAnswers, pool, target
<1>8. CASE SourceEnds
  BY <1>0, <1>8, DownloadKept DEF SourceEnds, target
<1>9. ASSUME NEW s \in Restores, listFails(s) PROVE DownloadInv(r)'
  <2>1. CASE s = r
    <3>1. call'[r] = "error"
      BY <1>0, <1>9, <2>1 DEF listFails, TypeOK
    <3> QED
      BY <3>1 DEF DownloadInv
  <2>2. CASE s # r
    <3>1. worker'[r] = worker[r] /\ call'[r] = call[r]
      BY <1>0, <1>9, <2>2 DEF listFails, TypeOK
    <3> QED
      BY <1>9, <3>1, DownloadKept DEF listFails, source, target
  <2> QED
    BY <2>1, <2>2
<1>10. ASSUME NEW s \in Restores, NEW d \in Dumps, listPage(s, d) PROVE s = r
  BY <1>10 DEF listPage, CurrentInv, Started
<1>11. CASE UNCHANGED vars
  BY <1>11, DownloadKept DEF vars, pool, source, target
<1> HIDE DEF IInv
<1>12. TypeOK /\ StoredInv /\ DownloadInv(r)
  BY DEF IInv
<1> QED
  BY <1>0, <1>2, <1>3, <1>4, <1>5, <1>6, <1>7, <1>8, <1>9, <1>10, <1>11, <1>12, NextCases,
     DownloadGoroutine, DownloadReturns, DownloadLists

-----------------------------------------------------------------------------
(***************************************************************************)
(* Theorems.                                                               *)
(***************************************************************************)
LEMMA InitIInv == Init => IInv
<1> SUFFICES ASSUME Init PROVE IInv
  OBVIOUS
<1>0. \A c \in Calls : call[c] = "idle"
  BY DEF Init
<1>1. TypeOK
  BY IdleType DEF Init, TypeOK
<1>2. \A d \in Dumps : UploadInv(d)
  BY <1>0, CallsApart DEF UploadInv
<1>3. Started = {}
  BY <1>0, CallsApart DEF Started
<1>4. StoredInv
  BY <1>3 DEF Init, StoredInv
<1>5. CurrentInv
  BY <1>3, CallsApart DEF Init, CurrentInv, Idle
<1>6. \A r \in Restores : DownloadInv(r)
  BY <1>0, CallsApart DEF DownloadInv
<1> QED
  BY <1>1, <1>2, <1>4, <1>5, <1>6 DEF IInv

LEMMA NextIInv == IInv /\ [Next]_vars => IInv'
<1> SUFFICES ASSUME IInv, [Next]_vars PROVE IInv'
  OBVIOUS
<1>1. TypeOK' /\ StoredInv' /\ CurrentInv'
  BY TypeStep, StoredStep, CurrentStep DEF IInv
<1>2. \A d \in Dumps : UploadInv(d)'
  BY UploadStep DEF IInv
<1>3. \A r \in Restores : DownloadInv(r)'
  BY DownloadStep
<1> QED
  BY <1>1, <1>2, <1>3 DEF IInv

\* The inductive invariant holds throughout.
THEOREM TransferInvariance == Spec => []IInv
  BY InitIInv, NextIInv, PTL DEF Spec

\* A successful upload has stored every file, and a successful download has
\* fetched every file the restore reads of the dumps stored in time, but the ones
\* an earlier call has truncated meanwhile, however many files, dumps, goroutines
\* and overlapping calls there are.
THEOREM TransferSafe == Spec => [](TypeOK /\ UploadedWhole /\ ChainDownloaded)
<1>1. IInv => TypeOK /\ UploadedWhole
  BY DEF IInv, UploadInv, UploadedWhole
<1>2. IInv => ChainDownloaded
  <2> SUFFICES ASSUME IInv, NEW r \in Restores, r \notin cancelled, call[r] = "nil"
               PROVE  /\ "final" \notin late
                      /\ \A d \in Dumps \ late : \A f \in CRIUFiles(d) :
                           Wanted(f) => disk[f] = "whole" \/ f \in torn
    BY DEF ChainDownloaded, Current
  <2>1. r \in Started
    BY DEF Started
  <2>2. ASSUME NEW d \in Dumps, d \notin late, NEW f \in CRIUFiles(d), Wanted(f)
        PROVE  disk[f] = "whole" \/ f \in torn
    <3>1. f \in Files /\ f[1] = d /\ InChain(f)
      BY <2>2, CRIUFilesOf DEF InChain
    <3> QED
      BY <2>2, <3>1 DEF IInv, DownloadInv
  <2> QED
    BY <2>1, <2>2 DEF IInv, StoredInv
<1> QED
  BY <1>1, <1>2, TransferInvariance, PTL

\* An upload that has returned without an error left no file of its dump out.
THEOREM UploadsAreWhole == Spec => []UploadedWhole
  BY TransferSafe, PTL

\* A restore that goes on has every image of the dumps stored in time, but the
\* ones an earlier call's goroutine has truncated since.
THEOREM ChainIsDownloaded == Spec => []ChainDownloaded
  BY TransferSafe, PTL

\* The images a restore reads stay whole, but the ones an earlier call's goroutine
\* truncates: the call's own have all ended, and those of earlier calls that had
\* their file open do no harm.
THEOREM DownloadedStay == Spec => ImagesStay
<1> DEFINE Stay == \A r \in Current : call[r] = "nil" /\ r \notin cancelled' =>
                     \A f \in Files : disk[f] = "whole" /\ f \notin torn' => disk'[f] = "whole"
<1>1. IInv /\ [Next]_vars => [Stay]_vars
  <2> SUFFICES ASSUME IInv, [Next]_vars, NEW r \in Restores, r \notin cancelled,
                      call[r] = "nil", r \notin cancelled',
                      NEW f \in Files, disk[f] = "whole", f \notin torn'
               PROVE  disk'[f] = "whole"
    BY DEF Current
  <2>0. /\ r \in Started /\ disk \in [Files -> {"none", "part", "whole"}]
        /\ \A g \in Files : worker[r][g] \in {"none", "done"}
    BY DEF Started, IInv, TypeOK, DownloadInv
  <2>1. ASSUME NEW s \in Restores, NEW g \in Files, create(s, g) PROVE disk'[f] = "whole"
    <3>1. worker[s][g] = "waiting"
      BY <2>1 DEF create, acquire
    <3>2. s \in cancelled
      BY <2>0, <3>1 DEF IInv, CurrentInv
    <3> QED
      BY <2>0, <2>1, <3>2 DEF create
  <2>2. ASSUME NEW s \in Restores, NEW g \in Files, download(s, g) PROVE disk'[f] = "whole"
    BY <2>0, <2>2 DEF download
  <2>3. ASSUME NEW s \in Restores PROVE ~Restore(s)
    BY <2>0 DEF Restore, superseded
  <2> QED
    BY <2>1, <2>2, <2>3, NextCases
       DEF openLocal, upload, fail, sendError, returns, UploadCheckpoint, FinalDumpAnswers,
           SourceEnds, listFails, listPage, vars
<1>2. Spec => [][Stay]_vars
  BY <1>1, TransferInvariance, PTL DEF Spec
<1> QED
  BY <1>2 DEF ImagesStay
=============================================================================
