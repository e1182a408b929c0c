---------------------------- MODULE Attachments ----------------------------
(***************************************************************************)
(* One document a user uploads to a session: its row, its bytes in the     *)
(* object store, its chunks, its ingest, OCR and embed jobs, the sessions  *)
(* that refer to it, and the requests that save, fork and delete them.     *)
(*                                                                         *)
(* internal/memory/document_ingest.py, document_parse.py,                  *)
(* document_chunk.py, embeddings.py, internal/media/gc.py,                 *)
(* cmd/api/routes/attachments.py and sessions.py (upload, fork, delete).   *)
(*                                                                         *)
(* A request or a job reads in one step and commits in a later one, and    *)
(* what it read may be stale by then.  The store is written outside of     *)
(* the transactions: before the commit of an upload or a transcript,       *)
(* after the commit of a deletion.                                         *)
(***************************************************************************)
EXTENDS Naturals, FiniteSets

CONSTANTS
    Workers,      \* cmd.worker serve processes
    Home, Fork,   \* the session of the upload, and the fork of it
    None,         \* no session, no job
    Posts,        \* transcripts that clients post
    Deletes,      \* the sessions that may be deleted
    MaxRounds,    \* _EMBED_MAX_RESCHEDULES
    MaxAttempts,  \* max_attempts of a job
    MaxFaults,    \* bound on crashes and on errors of the store
    Overlap       \* whether a lease may run out under a live worker

ASSUME AttachmentAssumption ==
    /\ Home # Fork /\ None \notin {Home, Fork}
    /\ Deletes \subseteq {Home, Fork}
    /\ MaxRounds \in Nat /\ MaxAttempts \in Nat \ {0} /\ MaxFaults \in Nat
    /\ Overlap \in BOOLEAN

VARIABLES
    doc,       \* what the bytes are: text, scan (no text layer) or corrupt
    row,       \* the attachments row, its chunks included
    sessions,  \* sessions rows
    joins,     \* the sessions of its attachment_sessions rows
    store,     \* which of its objects are in the store
    jobs,      \* per dedupe key
    req,       \* per request: where it is and what it has read
    work,      \* per worker: its job, and what it will commit
    saved,     \* whether the user was told the document is in the library
    faults     \* crashes and errors so far

vars == <<doc, row, sessions, joins, store, jobs, req, work, saved, faults>>

Sessions == {Home, Fork}
Docs == {"text", "scan", "corrupt"}
Statuses == {"pending", "ready_lexical", "ready", "failed", "needs_ocr"}
NoRow == [there |-> FALSE, scope |-> "session", home |-> None, status |-> "pending",
          chunks |-> FALSE, nulls |-> FALSE]
Row == [there : BOOLEAN, scope : {"session", "user"}, home : Sessions \cup {None},
        status : Statuses, chunks : BOOLEAN, nulls : BOOLEAN]

(* Dedupe keys: attachment_ingest:{id}, ...:transcript, and                *)
(* attachment_embed:{id}:{round}.                                          *)
Ingest == [kind |-> "ingest", round |-> 0]
Transcribed == [kind |-> "transcript", round |-> 0]
Embed(n) == [kind |-> "embed", round |-> n]
Keys == {Ingest, Transcribed} \cup {Embed(n) : n \in 0..MaxRounds}
NoJob == [status |-> "absent", attempts |-> 0]
Alive(k) == jobs[k].status \in {"pending", "running"}

(* enqueue_job: nothing when the key was ever used.                        *)
Enqueued(js, ks) ==
    [k \in Keys |-> IF k \in ks /\ js[k].status = "absent"
                    THEN [status |-> "pending", attempts |-> 0] ELSE js[k]]

Upload == "upload"
Save == "save"
ForkIt == "fork"
Requests == {Upload, Save, ForkIt} \cup Posts \cup Deletes

ASSUME NamesApart ==
    /\ None \notin Keys
    /\ Posts \cap Sessions = {}
    /\ {Upload, Save, ForkIt} \cap (Posts \cup Sessions) = {}

At(q, where) == req' = [req EXCEPT ![q].at = where]
Fault == faults < MaxFaults /\ faults' = faults + 1

----------------------------------------------------------------------------
(* post_session_attachment: bytes, then row, join and job.                 *)

PutUpload ==
    /\ req[Upload].at = "start" /\ Home \in sessions
    /\ \/ store' = store \cup {"bytes"} /\ At(Upload, "put") /\ UNCHANGED faults
       \/ Fault /\ At(Upload, "end") /\ UNCHANGED store
    /\ UNCHANGED <<doc, row, sessions, joins, jobs, work, saved>>

(* The foreign key fails the upload when the session is gone.              *)
CommitUpload ==
    /\ req[Upload].at = "put"
    /\ At(Upload, "end")
    /\ IF Home \in sessions
       THEN /\ row' = [NoRow EXCEPT !.there = TRUE, !.home = Home]
            /\ joins' = {Home}
            /\ jobs' = Enqueued(jobs, {Ingest})
       ELSE UNCHANGED <<row, joins, jobs>>
    /\ UNCHANGED <<doc, sessions, store, work, saved, faults>>

----------------------------------------------------------------------------
(* Claiming and finishing a job (JobQueue), one transaction each.          *)

NoWork == [key |-> None, plan |-> None]
Dropped(w) == work' = [work EXCEPT ![w] = NoWork]

Claim(w) ==
    /\ work[w] = NoWork
    /\ \E k \in Keys :
         /\ jobs[k].status = "pending" /\ jobs[k].attempts < MaxAttempts
         /\ jobs' = [jobs EXCEPT ![k].status = "running", ![k].attempts = @ + 1]
         /\ work' = [work EXCEPT ![w] = [key |-> k, plan |-> None]]
    /\ UNCHANGED <<doc, row, sessions, joins, store, req, saved, faults>>

(* finish_job of an attempt that raised.                                   *)
Retried(k) == [jobs EXCEPT ![k].status = IF @ # "running" THEN @
                 ELSE IF jobs[k].attempts >= MaxAttempts THEN "failed" ELSE "pending"]
Finished(js, k) == [js EXCEPT ![k].status = "succeeded"]

(* reclaim_stale_jobs: of a worker that died, or (Overlap) of a slow one.  *)
Reclaim(k) ==
    /\ jobs[k].status = "running"
    /\ \/ \A w \in Workers : work[w].key # k
       \/ Overlap /\ Cardinality({w \in Workers : work[w].key = k}) = 1
    /\ jobs' = [jobs EXCEPT ![k].status = "pending"]
    /\ UNCHANGED <<doc, row, sessions, joins, store, req, work, saved, faults>>

Die(w) ==
    /\ work[w] # NoWork /\ Fault
    /\ Dropped(w)
    /\ UNCHANGED <<doc, row, sessions, joins, store, jobs, req, saved>>

----------------------------------------------------------------------------
(* What a handler decides from the row and the chunks it has read.         *)

Plan(to, kind, nulls, next) ==
    [to |-> to, kind |-> kind, nulls |-> nulls, next |-> next]
Nothing == Plan("pending", "nothing", FALSE, {})
Plans == [to : Statuses, kind : {"nothing", "status", "chunks", "rechunk", "embed"},
          nulls : BOOLEAN, next : SUBSET Keys]

(* _embed_missing_chunks: a cold embedder leaves some vectors NULL.        *)
AfterEmbedding(kind, next) ==
    {Plan("ready", kind, FALSE, {}), Plan("ready_lexical", kind, TRUE, next)}

(* parse_document or parse_transcript, then chunk_blocks.                  *)
Parsed ==
    IF doc = "text" \/ "transcript" \in store
    THEN AfterEmbedding(IF row.chunks THEN "rechunk" ELSE "chunks", {Embed(0)})
    ELSE {Plan(IF doc = "scan" THEN "needs_ocr" ELSE "failed", "status", FALSE, {})}

(* An unreadable transcript falls back on the bytes; unreadable bytes fail *)
(* the document for good.                                                  *)
WithoutTranscript == IF doc = "scan" THEN {Plan("needs_ocr", "status", FALSE, {})} ELSE {}
Unreadable == {Plan("failed", "status", FALSE, {})} \cup WithoutTranscript

(* run_attachment_ingest; a replay over chunks that landed only embeds.    *)
IngestPlans ==
    IF ~row.there THEN {Nothing}
    ELSE IF row.status \in {"ready_lexical", "ready"} /\ row.chunks
    THEN IF row.nulls THEN AfterEmbedding("embed", {Embed(0)})
         ELSE {Plan("ready", "embed", FALSE, {})}
    ELSE Parsed

(* run_attachment_embed: another round, a bounded number of times.         *)
RoundsOnOneKey(n) == {Embed(0)}
Rounds(n) == IF n < MaxRounds THEN {Embed(n + 1)} ELSE {}
EmbedPlans(n) ==
    IF ~row.there \/ row.status = "failed" \/ ~row.chunks THEN {Nothing}
    ELSE IF row.nulls THEN AfterEmbedding("embed", Rounds(n))
    ELSE {Plan("ready", "embed", FALSE, {})}

PlansOf(k) == IF k.kind = "embed" THEN EmbedPlans(k.round) ELSE IngestPlans

Handle(w) ==
    /\ work[w] # NoWork /\ work[w].plan = None
    /\ \/ /\ \E p \in PlansOf(work[w].key) : work' = [work EXCEPT ![w].plan = p]
          /\ UNCHANGED faults
       \/ /\ work[w].key.kind # "embed" /\ row.there /\ ~row.chunks /\ Fault
          /\ \E p \in Unreadable : work' = [work EXCEPT ![w].plan = p]
    /\ UNCHANGED <<doc, row, sessions, joins, store, jobs, req, saved>>

(* The handler's writes and the end of the job are one commit.  It raises  *)
(* when the row has gone, or when another execution has inserted chunks.   *)
Raises(p) == p.kind # "nothing" /\ (~row.there \/ (p.kind = "chunks" /\ row.chunks))

(* The status alone, before the embed pass has been flushed.               *)
RowAfterEarly(p) ==
    IF p.kind = "nothing" THEN row
    ELSE [row EXCEPT !.status = IF p.kind = "chunks" THEN "ready" ELSE p.to,
                     !.chunks = @ \/ p.kind = "chunks", !.nulls = @ \/ p.nulls]

RowAfter(p) ==
    CASE p.kind = "nothing" -> row
      [] p.kind = "status" -> [row EXCEPT !.status = p.to]
      [] p.kind \in {"chunks", "rechunk"} ->
           [row EXCEPT !.status = p.to, !.chunks = TRUE, !.nulls = p.nulls]
      [] p.kind = "embed" -> [row EXCEPT !.status = p.to, !.nulls = @ /\ p.nulls]

Commit(w) ==
    /\ work[w] # NoWork /\ work[w].plan # None
    /\ LET p == work[w].plan  k == work[w].key
       IN  IF Raises(p) THEN jobs' = Retried(k) /\ UNCHANGED row
           ELSE /\ row' = RowAfter(p)
                /\ jobs' = Finished(Enqueued(jobs, p.next), k)
    /\ Dropped(w)
    /\ UNCHANGED <<doc, sessions, joins, store, req, saved, faults>>

----------------------------------------------------------------------------
(* post_attachment_transcript: the row is parked, the text is stored, and  *)
(* the row is pending again under a job key of its own.                    *)

ReadParked(q) ==
    /\ q \in Posts /\ req[q].at = "start"
    /\ row.there /\ row.status = "needs_ocr"
    /\ At(q, "read")
    /\ UNCHANGED <<doc, row, sessions, joins, store, jobs, work, saved, faults>>

PutTranscript(q) ==
    /\ q \in Posts /\ req[q].at = "read"
    /\ \/ store' = store \cup {"transcript"} /\ At(q, "put") /\ UNCHANGED faults
       \/ Fault /\ At(q, "end") /\ UNCHANGED store
    /\ UNCHANGED <<doc, row, sessions, joins, jobs, work, saved>>

TranscriptUnderIngestKey == {Ingest}
TranscriptJob == {Transcribed}

CommitTranscript(q) ==
    /\ q \in Posts /\ req[q].at = "put"
    /\ At(q, "end")
    /\ IF row.there
       THEN /\ row' = [row EXCEPT !.status = "pending"]
            /\ jobs' = Enqueued(jobs, TranscriptJob)
       ELSE UNCHANGED <<row, jobs>>
    /\ UNCHANGED <<doc, sessions, joins, store, work, saved, faults>>

----------------------------------------------------------------------------
(* save_attachment: the library takes the document over.                   *)

ReadToSave ==
    /\ req[Save].at = "start" /\ row.there
    /\ At(Save, "read")
    /\ UNCHANGED <<doc, row, sessions, joins, store, jobs, work, saved, faults>>

CommitSave ==
    /\ req[Save].at = "read"
    /\ At(Save, "end")
    /\ IF row.there
       THEN /\ row' = [row EXCEPT !.scope = "user", !.home = None]
            /\ saved' = TRUE
       ELSE UNCHANGED <<row, saved>>
    /\ UNCHANGED <<doc, sessions, joins, store, jobs, work, faults>>

(* fork_session: a join row for what the copied messages refer to, if it   *)
(* is still there; its foreign key fails the fork otherwise.               *)
ReadToFork ==
    /\ req[ForkIt].at = "start" /\ Home \in sessions /\ row.there
    /\ At(ForkIt, "read")
    /\ UNCHANGED <<doc, row, sessions, joins, store, jobs, work, saved, faults>>

CommitFork ==
    /\ req[ForkIt].at = "read"
    /\ At(ForkIt, "end")
    /\ IF row.there
       THEN sessions' = sessions \cup {Fork} /\ joins' = joins \cup {Fork}
       ELSE UNCHANGED <<sessions, joins>>
    /\ UNCHANGED <<doc, row, store, jobs, work, saved, faults>>

----------------------------------------------------------------------------
(* delete_session with release_session_attachments.                        *)

Mine(s) == row.there /\ (s \in joins \/ row.home = s)

(* A scratch document that no other session refers to dies; any other is   *)
(* detached from the session.                                              *)
VerdictIgnoringForks(s) ==
    IF Mine(s) /\ row.scope = "session" THEN "dies" ELSE "lives"
Verdict(s) ==
    IF Mine(s) /\ row.scope = "session" /\ joins \ {s} = {} THEN "dies" ELSE "lives"

ReadToDelete(s) ==
    /\ s \in Deletes /\ s \in sessions /\ req[s].at = "start"
    /\ req' = [req EXCEPT ![s] = [at |-> "read", verdict |-> Verdict(s),
                                  detach |-> row.home = s]]
    /\ UNCHANGED <<doc, row, sessions, joins, store, jobs, work, saved, faults>>

(* attachment_sessions rows go with their session (ON DELETE CASCADE).     *)
JoinsKept(s) == joins
JoinsWithout(s) == joins \ {s}

(* Only a document that died gives its objects up.                         *)
NextAlways(s) == "reclaim"
NextOf(s) == IF req[s].verdict = "dies" THEN "reclaim" ELSE "end"

(* The deletes of the row and of the session, with its join rows and, by   *)
(* the foreign key, a document that is still at home in it.                *)
CommitDelete(s) ==
    /\ s \in Deletes /\ req[s].at = "read"
    /\ LET dies == req[s].verdict = "dies"
           home == IF req[s].detach /\ ~dies /\ row.home = s THEN None ELSE row.home
       IN  IF dies \/ home = s
           THEN row' = NoRow /\ joins' = {}
           ELSE row' = [row EXCEPT !.home = home] /\ joins' = JoinsWithout(s)
    /\ sessions' = sessions \ {s}
    /\ At(s, NextOf(s))
    /\ UNCHANGED <<doc, store, jobs, work, saved, faults>>

(* The objects, after the commit; a failure is logged.                     *)
ReclaimObjects(s) ==
    /\ s \in Deletes /\ req[s].at = "reclaim"
    /\ At(s, "end")
    /\ \/ store' = {} /\ UNCHANGED faults
       \/ Fault /\ UNCHANGED store
    /\ UNCHANGED <<doc, row, sessions, joins, jobs, work, saved>>

(* A request dies with its process.                                        *)
Cut(q) ==
    /\ req[q].at \notin {"start", "end"} /\ Fault
    /\ At(q, "end")
    /\ UNCHANGED <<doc, row, sessions, joins, store, jobs, work, saved>>

----------------------------------------------------------------------------
Init ==
    /\ doc \in Docs
    /\ row = NoRow
    /\ sessions = {Home}
    /\ joins = {}
    /\ store = {}
    /\ jobs = [k \in Keys |-> NoJob]
    /\ req = [q \in Requests |-> [at |-> "start", verdict |-> "lives", detach |-> FALSE]]
    /\ work = [w \in Workers |-> NoWork]
    /\ saved = FALSE
    /\ faults = 0

Next ==
    \/ PutUpload \/ CommitUpload
    \/ \E w \in Workers : Claim(w) \/ Handle(w) \/ Commit(w) \/ Die(w)
    \/ \E k \in Keys : Reclaim(k)
    \/ \E q \in Posts : ReadParked(q) \/ PutTranscript(q) \/ CommitTranscript(q)
    \/ ReadToSave \/ CommitSave \/ ReadToFork \/ CommitFork
    \/ \E s \in Deletes : ReadToDelete(s) \/ CommitDelete(s) \/ ReclaimObjects(s)
    \/ \E q \in Requests : Cut(q)

Fairness ==
    /\ \A w \in Workers : WF_vars(Claim(w) \/ Handle(w) \/ Commit(w))
    /\ \A k \in Keys : WF_vars(Reclaim(k))

Spec == Init /\ [][Next]_vars /\ Fairness

----------------------------------------------------------------------------
(* Properties.                                                             *)

TypeOK ==
    /\ doc \in Docs
    /\ row \in Row
    /\ sessions \subseteq Sessions
    /\ joins \subseteq sessions
    /\ row.home # None => row.home \in joins
    /\ store \subseteq {"bytes", "transcript"}
    /\ jobs \in [Keys -> [status : {"absent", "pending", "running", "succeeded", "failed"},
                          attempts : 0..MaxAttempts]]
    /\ \A q \in Requests : req[q].at \in {"start", "read", "put", "reclaim", "end"}
    /\ \A w \in Workers : work[w].plan = None \/ work[w].plan \in Plans
    /\ saved \in BOOLEAN
    /\ faults \in 0..MaxFaults

(* release_session_attachments "returns the object keys whose bytes must   *)
(* be deleted after commit": whatever order uploads, forks, saves and      *)
(* deletions run in and wherever one is cut off, a document that is listed *)
(* can be downloaded.                                                      *)
RowHasBytes == row.there => "bytes" \in store

(* document_ingest.py, "ready only when every chunk carries a vector":     *)
(* and lexical search has chunks to find.                                  *)
ReadyIsWhole ==
    /\ row.status = "ready" => row.chunks /\ ~row.nulls
    /\ row.status = "ready_lexical" => row.chunks

(* "Chunks left NULL keep ready_lexical and enqueue an attachment_embed    *)
(* job"; each round has a key of its own, for "reusing the key would       *)
(* dead-end the row": a document that is only lexical has a job to come,   *)
(* until the rounds are used up or an attempt has been given up.           *)
LexicalGoesOn ==
    (row.there /\ row.status = "ready_lexical") =>
        \E n \in 0..MaxRounds :
            \/ Alive(Embed(n)) \/ jobs[Embed(n)].status = "failed"
            \/ n = MaxRounds /\ jobs[Embed(n)].status = "succeeded"

(* A document does not stay pending: its job ends, unless it is given up.  *)
GivenUp == \E k \in Keys : jobs[k].status = "failed"
                           \/ (jobs[k].status = "pending" /\ jobs[k].attempts = MaxAttempts)
PendingEnds ==
    (row.there /\ row.status = "pending") ~> (row.status # "pending" \/ ~row.there \/ GivenUp)

(* "shared survivors": deleting a session spares a document another        *)
(* session refers to.                                                      *)
SharedSurvives == [][\A s \in Deletes : (joins \ {s}) \cap sessions' # {} => row'.there]_vars

(* "Saved/library rows survive" the deletion of sessions.                  *)
SavedSurvives == saved => row.there
=============================================================================
