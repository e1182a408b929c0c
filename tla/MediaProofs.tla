----------------------------- MODULE MediaProofs -----------------------------
(***************************************************************************)
(* Proofs about Attachments, for any workers, sessions, posts and          *)
(* deletions and any bounds: its types, RowHasBytes, ReadyIsWhole, and,    *)
(* when no lease runs out under a live worker, LexicalGoesOn.              *)
(*                                                                         *)
(* The first two follow from DocumentInv.  The store is written before the *)
(* upload commits and cleaned after a deletion has committed, and nothing  *)
(* brings a row back (BytesKept); a plan is committed on a row that may    *)
(* have changed since it was made, so the invariant says which of its      *)
(* findings still stand then (Holds).                                      *)
(*                                                                         *)
(* LexicalGoesOn is about keys that are used once.  enqueue_job drops a    *)
(* job whose key was ever used, so the invariant LexicalInv follows which  *)
(* keys can have been used: those of the embed rounds only after the one   *)
(* parse that has made the chunks (ParsedOnce), and in order               *)
(* (RoundsInOrder).                                                        *)
(*                                                                         *)
(* The second part is about the object store those bytes are in, and its   *)
(* move to S3: StorageMigration.                                           *)
(***************************************************************************)
EXTENDS Attachments, StorageMigration, SequenceTheorems, TLAPS

(* The requests, with what a deletion has read.                            *)
Req == [at : {"start", "read", "put", "reclaim", "end"}, verdict : {"dies", "lives"},
        detach : BOOLEAN]
(* What a worker has in hand.                                              *)
Work == [key : Keys, plan : Plans \cup {None}] \cup {NoWork}

(* The types, also of what requests and workers hold; a row that is gone   *)
(* is NoRow.                                                               *)
Typed ==
    /\ TypeOK
    /\ req \in [Requests -> Req]
    /\ work \in [Workers -> Work]
    /\ ~row.there => row = NoRow

(* What the plan for a job is like.                                        *)
Fits(k, p) ==
    /\ p \in Plans
    /\ p.kind = "nothing" => p = Nothing
    /\ p.kind = "status" => p.to \in {"needs_ocr", "failed"}
    /\ p.kind \in {"chunks", "rechunk", "embed"} => p.to \in {"ready", "ready_lexical"}
    /\ p.to = "ready" => ~p.nulls
    /\ p.next = IF p.to # "ready_lexical" THEN {}
                ELSE IF k.kind = "embed" THEN Rounds(k.round) ELSE {Embed(0)}
    /\ k.kind = "embed" => p.kind \in {"nothing", "embed"}

(* The dedupe keys, and what tells them apart.                             *)
LEMMA KeysAreRecords ==
    /\ Ingest \in Keys /\ Transcribed \in Keys
    /\ \A n \in 0..MaxRounds : Embed(n) \in Keys /\ Embed(n).kind = "embed" /\ Embed(n).round = n
    /\ Ingest.kind = "ingest" /\ Transcribed.kind = "transcript" /\ Ingest # Transcribed
    /\ \A k \in Keys : /\ k.kind = "embed" => k.round \in 0..MaxRounds /\ k = Embed(k.round)
                       /\ k.kind # "embed" => k \in {Ingest, Transcribed}
<1>1. \A n : Embed(n).kind = "embed" /\ Embed(n).round = n
  BY DEF Embed
<1>2. Ingest.kind = "ingest" /\ Transcribed.kind = "transcript"
  BY DEF Ingest, Transcribed
<1>3. \A k \in Keys : k \in {Ingest, Transcribed} \/ \E n \in 0..MaxRounds : k = Embed(n)
  BY DEF Keys
<1>4. Ingest \in Keys /\ Transcribed \in Keys /\ \A n \in 0..MaxRounds : Embed(n) \in Keys
  BY DEF Keys
<1> QED BY <1>1, <1>2, <1>3, <1>4

(* The jobs that a handler enqueues have keys of the model.                *)
LEMMA NextsAreKeys ==
    /\ {Embed(0)} \in SUBSET Keys
    /\ \A n \in 0..MaxRounds : Rounds(n) \in SUBSET Keys
<1>1. MaxRounds \in Nat
  BY AttachmentAssumption
<1>2. \A n \in 0..MaxRounds : Embed(n) \in Keys
  BY DEF Keys
<1>3. ASSUME NEW n \in 0..MaxRounds PROVE Rounds(n) \in SUBSET Keys
  <2>1. n < MaxRounds => n + 1 \in 0..MaxRounds
    BY <1>1
  <2> QED BY <1>2, <2>1 DEF Rounds
<1> QED BY <1>1, <1>2, <1>3

(* What an embed pass plans.                                               *)
LEMMA AfterEmbeddingFits ==
    ASSUME NEW k \in Keys, NEW kind \in {"chunks", "rechunk", "embed"},
           k.kind = "embed" => kind = "embed",
           NEW p \in AfterEmbedding(kind, IF k.kind = "embed" THEN Rounds(k.round)
                                           ELSE {Embed(0)})
    PROVE  Fits(k, p) /\ p.kind = kind
<1> DEFINE next == IF k.kind = "embed" THEN Rounds(k.round) ELSE {Embed(0)}
<1>1. next \in SUBSET Keys
  BY KeysAreRecords, NextsAreKeys
<1> HIDE DEF next
<1>2. p \in {[to |-> "ready", kind |-> kind, nulls |-> FALSE, next |-> {}],
             [to |-> "ready_lexical", kind |-> kind, nulls |-> TRUE, next |-> next]}
  BY DEF AfterEmbedding, Plan, next
<1>3. p \in Plans
  <2>1. {} \in SUBSET Keys /\ next \in SUBSET Keys
    BY <1>1
  <2>2. "ready" \in Statuses /\ "ready_lexical" \in Statuses
    BY DEF Statuses
  <2>3. kind \in {"nothing", "status", "chunks", "rechunk", "embed"}
    OBVIOUS
  <2>4. [to |-> "ready", kind |-> kind, nulls |-> FALSE, next |-> {}] \in Plans
    BY <2>1, <2>2, <2>3 DEF Plans
  <2>5. [to |-> "ready_lexical", kind |-> kind, nulls |-> TRUE, next |-> next] \in Plans
    BY <2>1, <2>2, <2>3 DEF Plans
  <2> QED BY <1>2, <2>4, <2>5
<1>4. p.kind = kind /\ p.to \in {"ready", "ready_lexical"} /\ (p.to = "ready" => ~p.nulls)
      /\ p.next = IF p.to = "ready_lexical" THEN next ELSE {}
  BY <1>2
<1> QED BY <1>3, <1>4 DEF Fits, next

(* A plan that only sets the status.                                       *)
LEMMA StatusFits ==
    ASSUME NEW k \in Keys, k.kind # "embed", NEW to \in {"needs_ocr", "failed"}
    PROVE  Fits(k, Plan(to, "status", FALSE, {})) /\ Plan(to, "status", FALSE, {}).kind = "status"
BY DEF Plan, Fits, Plans, Statuses

(* A plan that does nothing.                                               *)
LEMMA NothingFits == ASSUME NEW k \in Keys PROVE Fits(k, Nothing) /\ Nothing.kind = "nothing"
BY DEF Plan, Fits, Plans, Statuses, Nothing

(* A plan with no vector left to compute.                                  *)
LEMMA ReadyFits ==
    ASSUME NEW k \in Keys
    PROVE  /\ Fits(k, Plan("ready", "embed", FALSE, {}))
           /\ Plan("ready", "embed", FALSE, {}).kind = "embed"
BY DEF Plan, Fits, Plans, Statuses

(* What is planned when the bytes or the transcript cannot be read.        *)
LEMMA UnreadableFits ==
    ASSUME NEW k \in Keys, k.kind # "embed", NEW p \in Unreadable
    PROVE  Fits(k, p) /\ p.kind = "status"
BY StatusFits DEF Unreadable, WithoutTranscript

(* Whatever a handler decides fits its job. An embed job gives up only on  *)
(* a document that is gone, failed or without chunks.                      *)
LEMMA PlansFit ==
    ASSUME NEW k \in Keys, NEW p \in PlansOf(k), Typed
    PROVE  /\ Fits(k, p)
           /\ p.kind # "nothing" => row.there
           /\ p.kind = "embed" => row.chunks
           /\ k.kind = "embed" /\ p.kind = "nothing" =>
                ~row.there \/ row.status = "failed" \/ ~row.chunks
<1>1. CASE k.kind = "embed"
  <2>1. p \in EmbedPlans(k.round)
    BY <1>1 DEF PlansOf
  <2>2. CASE ~row.there \/ row.status = "failed" \/ ~row.chunks
    BY <1>1, <2>1, <2>2, NothingFits DEF EmbedPlans
  <2>3. CASE row.there /\ row.chunks /\ row.status # "failed" /\ row.nulls
    BY <1>1, <2>1, <2>3, AfterEmbeddingFits DEF EmbedPlans
  <2>4. CASE row.there /\ row.chunks /\ row.status # "failed" /\ ~row.nulls
    BY <1>1, <2>1, <2>4, ReadyFits DEF EmbedPlans
  <2> QED BY <2>2, <2>3, <2>4
<1>2. CASE k.kind # "embed"
  <2>1. p \in IngestPlans
    BY <1>2 DEF PlansOf
  <2>2. CASE ~row.there
    BY <1>2, <2>1, <2>2, NothingFits DEF IngestPlans
  <2>3. CASE row.there /\ row.status \in {"ready_lexical", "ready"} /\ row.chunks
    BY <1>2, <2>1, <2>3, ReadyFits, AfterEmbeddingFits DEF IngestPlans
  <2>4. CASE row.there /\ ~(row.status \in {"ready_lexical", "ready"} /\ row.chunks)
    <3>1. p \in Parsed
      BY <2>1, <2>4 DEF IngestPlans
    <3>2. CASE doc = "text" \/ "transcript" \in store
      BY <1>2, <2>4, <3>1, <3>2, AfterEmbeddingFits DEF Parsed
    <3>3. CASE ~(doc = "text" \/ "transcript" \in store)
      BY <1>2, <2>4, <3>1, <3>3, StatusFits DEF Parsed
    <3> QED BY <3>2, <3>3
  <2> QED BY <2>2, <2>3, <2>4
<1> QED BY <1>1, <1>2

(* A row of jobs.                                                          *)
Job == [status : {"absent", "pending", "running", "succeeded", "failed"},
        attempts : 0..MaxAttempts]

(* enqueue_job: what it leaves of each row.                                *)
LEMMA EnqueuedIsTyped ==
    ASSUME NEW js \in [Keys -> Job], NEW ks
    PROVE  /\ Enqueued(js, ks) \in [Keys -> Job]
           /\ \A k \in Keys : Enqueued(js, ks)[k] =
                IF k \in ks /\ js[k].status = "absent" THEN [status |-> "pending", attempts |-> 0]
                ELSE js[k]
<1>1. [status |-> "pending", attempts |-> 0] \in Job
  BY AttachmentAssumption DEF Job
<1> QED BY <1>1 DEF Enqueued

(* A job changes its status.                                               *)
LEMMA StatusIsTyped ==
    ASSUME NEW js \in [Keys -> Job], NEW k \in Keys,
           NEW st \in {"absent", "pending", "running", "succeeded", "failed"}
    PROVE  /\ [js EXCEPT ![k].status = st] \in [Keys -> Job]
           /\ \A x \in Keys : [js EXCEPT ![k].status = st][x].status =
                IF x = k THEN st ELSE js[x].status
           /\ \A x \in Keys : [js EXCEPT ![k].status = st][x].attempts = js[x].attempts
<1>1. [js EXCEPT ![k].status = st] = [js EXCEPT ![k] = [js[k] EXCEPT !.status = st]]
  OBVIOUS
<1>2. /\ [js[k] EXCEPT !.status = st] \in Job
      /\ [js[k] EXCEPT !.status = st].status = st
      /\ [js[k] EXCEPT !.status = st].attempts = js[k].attempts
  BY DEF Job
<1> QED BY <1>1, <1>2

(* The end of an attempt that raised.                                      *)
LEMMA RetriedIsTyped ==
    ASSUME jobs \in [Keys -> Job], NEW k \in Keys
    PROVE  /\ Retried(k) \in [Keys -> Job]
           /\ \A x \in Keys : Retried(k)[x].status =
                IF x # k \/ jobs[k].status # "running" THEN jobs[x].status
                ELSE IF jobs[k].attempts >= MaxAttempts THEN "failed" ELSE "pending"
<1> DEFINE st == IF jobs[k].status # "running" THEN jobs[k].status
                 ELSE IF jobs[k].attempts >= MaxAttempts THEN "failed" ELSE "pending"
<1>1. st \in {"absent", "pending", "running", "succeeded", "failed"}
  BY DEF Job
<1>2. Retried(k) = [jobs EXCEPT ![k].status = st]
  BY DEF Retried
<1> HIDE DEF st
<1>3. /\ Retried(k) \in [Keys -> Job]
      /\ \A x \in Keys : Retried(k)[x].status = IF x = k THEN st ELSE jobs[x].status
  <2>1. Retried(k) = [jobs EXCEPT ![k] = [jobs[k] EXCEPT !.status = st]]
    BY <1>2
  <2>2. [jobs[k] EXCEPT !.status = st] \in Job /\ [jobs[k] EXCEPT !.status = st].status = st
    BY <1>1 DEF Job
  <2> QED BY <2>1, <2>2
<1> QED BY <1>3 DEF st

(* The end of an attempt that succeeded.                                   *)
LEMMA FinishedIsTyped ==
    ASSUME NEW js \in [Keys -> Job], NEW k \in Keys
    PROVE  /\ Finished(js, k) \in [Keys -> Job]
           /\ \A x \in Keys : Finished(js, k)[x].status =
                IF x = k THEN "succeeded" ELSE js[x].status
BY StatusIsTyped DEF Finished

(* A request moves.                                                        *)
LEMMA AtIsTyped ==
    ASSUME Typed, NEW q \in Requests, NEW where \in {"start", "read", "put", "reclaim", "end"},
           At(q, where)
    PROVE  /\ req' \in [Requests -> Req]
           /\ \A x \in Requests :
                /\ req'[x].at = IF x = q THEN where ELSE req[x].at
                /\ req'[x].verdict = req[x].verdict /\ req'[x].detach = req[x].detach
<1>1. req' = [req EXCEPT ![q] = [req[q] EXCEPT !.at = where]]
  BY DEF At
<1>2. req \in [Requests -> Req]
  BY DEF Typed
<1>3. /\ [req[q] EXCEPT !.at = where] \in Req
      /\ [req[q] EXCEPT !.at = where].at = where
      /\ [req[q] EXCEPT !.at = where].verdict = req[q].verdict
      /\ [req[q] EXCEPT !.at = where].detach = req[q].detach
  BY <1>2 DEF Req
<1> QED BY <1>1, <1>2, <1>3

(* The requests are told apart by their names.                             *)
LEMMA NamesAreRequests ==
    /\ {Upload, Save, ForkIt} \cup Posts \cup Deletes = Requests
    /\ Upload \in Requests /\ Save \in Requests /\ ForkIt \in Requests
    /\ Upload # Save /\ Upload # ForkIt
    /\ \A q \in Posts : q \in Requests /\ q \notin Deletes /\ q # Upload /\ q # Save /\ q # ForkIt
    /\ \A s \in Deletes : s \in Requests /\ s \in Sessions /\ s \notin Posts
                          /\ s # Upload /\ s # Save /\ s # ForkIt
BY AttachmentAssumption, NamesApart DEF Requests, Sessions, Upload, Save, ForkIt

(* A worker drops its job.                                                 *)
LEMMA DroppedIsTyped ==
    ASSUME Typed, NEW w \in Workers, Dropped(w)
    PROVE  /\ work' \in [Workers -> Work]
           /\ \A x \in Workers : work'[x] = IF x = w THEN NoWork ELSE work[x]
<1>1. work \in [Workers -> Work] /\ NoWork \in Work
  BY DEF Typed, Work
<1> QED BY <1>1 DEF Dropped

(* A worker takes a job.                                                   *)
LEMMA TakenIsTyped ==
    ASSUME Typed, NEW w \in Workers, NEW k \in Keys,
           work' = [work EXCEPT ![w] = [key |-> k, plan |-> None]]
    PROVE  /\ work' \in [Workers -> Work]
           /\ \A x \in Workers : work'[x] = IF x = w THEN [key |-> k, plan |-> None] ELSE work[x]
<1>1. work \in [Workers -> Work] /\ [key |-> k, plan |-> None] \in Work
  BY DEF Typed, Work
<1> QED BY <1>1

(* A worker has decided what it will commit.                               *)
LEMMA PlannedIsTyped ==
    ASSUME Typed, NEW w \in Workers, work[w] # NoWork, NEW p \in Plans,
           work' = [work EXCEPT ![w].plan = p]
    PROVE  /\ work' \in [Workers -> Work] /\ work[w].key \in Keys
           /\ \A x \in Workers : x # w => work'[x] = work[x]
           /\ work'[w].key = work[w].key /\ work'[w].plan = p
<1>1. work \in [Workers -> Work] /\ work[w] \in [key : Keys, plan : Plans \cup {None}]
  BY DEF Typed, Work
<1>2. work' = [work EXCEPT ![w] = [work[w] EXCEPT !.plan = p]]
  OBVIOUS
<1>3. /\ [work[w] EXCEPT !.plan = p] \in Work
      /\ [work[w] EXCEPT !.plan = p].key = work[w].key
      /\ [work[w] EXCEPT !.plan = p].plan = p
  BY <1>1 DEF Work
<1> QED BY <1>1, <1>2, <1>3

(* A worker has no plan, or one of Plans.                                  *)
LEMMA WorkIsTyped ==
    ASSUME NEW x \in Work PROVE x.plan = None \/ x.plan \in Plans
<1>1. CASE x = NoWork
  BY <1>1 DEF NoWork
<1>2. CASE x \in [key : Keys, plan : Plans \cup {None}]
  BY <1>2
<1> QED BY <1>1, <1>2 DEF Work

(* A worker with a plan has a job.                                         *)
LEMMA FitIsTyped ==
    ASSUME Typed, NEW w \in Workers, work[w] # NoWork, work[w].plan # None
    PROVE  work[w].key \in Keys /\ work[w].plan \in Plans
<1>1. work[w] \in [key : Keys, plan : Plans \cup {None}]
  BY DEF Typed, Work
<1> QED BY <1>1

(* The row after a commit, column by column.                               *)
LEMMA RowAfterIsTyped ==
    ASSUME Typed, NEW p \in Plans, row.there
    PROVE  /\ RowAfter(p) \in Row /\ RowAfter(p).there /\ RowAfter(p).home = row.home
           /\ RowAfter(p).scope = row.scope
           /\ RowAfter(p).status = IF p.kind = "nothing" THEN row.status ELSE p.to
           /\ RowAfter(p).chunks = (row.chunks \/ p.kind \in {"chunks", "rechunk"})
           /\ RowAfter(p).nulls = IF p.kind \in {"chunks", "rechunk"} THEN p.nulls
                                  ELSE IF p.kind = "embed" THEN row.nulls /\ p.nulls
                                  ELSE row.nulls
<1>1. row \in Row
  BY DEF Typed, TypeOK
<1>2. p.to \in Statuses /\ p.nulls \in BOOLEAN
      /\ p.kind \in {"nothing", "status", "chunks", "rechunk", "embed"}
  BY DEF Plans
<1>3. CASE p.kind = "nothing"
  BY <1>1, <1>2, <1>3 DEF RowAfter, Row
<1>4. CASE p.kind = "status"
  BY <1>1, <1>2, <1>4 DEF RowAfter, Row
<1>5. CASE p.kind \in {"chunks", "rechunk"}
  BY <1>1, <1>2, <1>5 DEF RowAfter, Row
<1>6. CASE p.kind = "embed"
  BY <1>1, <1>2, <1>6 DEF RowAfter, Row
<1> QED BY <1>2, <1>3, <1>4, <1>5, <1>6

(* The bytes are there from the put of the upload until a deletion whose   *)
(* row has gone reclaims them.                                             *)
BytesKept ==
    /\ row.there => req[Upload].at = "end" /\ "bytes" \in store
    /\ req[Upload].at = "put" => "bytes" \in store
    /\ \A s \in Deletes :
         /\ req[s].verdict = "dies" => req[Upload].at = "end"
         /\ req[s].at = "reclaim" => req[s].verdict = "dies" /\ ~row.there

(* A plan that waits for its commit fits its job, and the chunks it embeds *)
(* stay as long as the row.                                                *)
Holds(w) ==
    work[w] # NoWork /\ work[w].plan # None =>
        /\ Fits(work[w].key, work[w].plan)
        /\ work[w].plan.kind # "nothing" => req[Upload].at = "end"
        /\ work[w].plan.kind = "embed" /\ row.there => row.chunks

(* The invariant of the document.                                          *)
DocumentInv == Typed /\ BytesKept /\ ReadyIsWhole /\ \A w \in Workers : Holds(w)

(* Faults are bounded.                                                     *)
LEMMA FaultIsTyped == ASSUME Typed, Fault PROVE faults' \in 0..MaxFaults
BY AttachmentAssumption DEF Fault, Typed, TypeOK

(* A request other than the upload that goes on or ends, and at most adds  *)
(* to the store.                                                           *)
LEMMA KeepsMove ==
    ASSUME DocumentInv, NEW q \in Requests, q # Upload, NEW where \in {"read", "put", "end"},
           At(q, where), UNCHANGED <<doc, row, sessions, joins, jobs, work, saved>>,
           store \subseteq store', store' \subseteq {"bytes", "transcript"},
           faults' \in 0..MaxFaults
    PROVE  DocumentInv'
<1>1. /\ req' \in [Requests -> Req]
      /\ \A x \in Requests : /\ req'[x].at = IF x = q THEN where ELSE req[x].at
                             /\ req'[x].verdict = req[x].verdict
  BY AtIsTyped DEF DocumentInv
<1>2. \A x \in Requests : req'[x].at \in {"start", "read", "put", "reclaim", "end"}
  BY <1>1 DEF Req
<1>3. Typed'
  BY <1>1, <1>2 DEF DocumentInv, Typed, TypeOK
<1>4. req'[Upload].at = req[Upload].at
  BY <1>1, NamesAreRequests
<1>5. BytesKept'
  BY <1>1, <1>4, NamesAreRequests DEF DocumentInv, BytesKept
<1>6. ReadyIsWhole' /\ \A w \in Workers : Holds(w)'
  BY <1>4 DEF DocumentInv, ReadyIsWhole, Holds
<1> QED BY <1>3, <1>5, <1>6 DEF DocumentInv

(* Before the end of the upload there is no row, and nothing that could    *)
(* delete its bytes.                                                       *)
LEMMA UploadIsFirst ==
    ASSUME DocumentInv, req[Upload].at # "end"
    PROVE  /\ row = NoRow /\ ~row.there
           /\ \A s \in Deletes : req[s].verdict # "dies" /\ req[s].at # "reclaim"
BY DEF DocumentInv, Typed, BytesKept

(* The bytes are stored.                                                   *)
LEMMA KeepsPutUpload == ASSUME DocumentInv, PutUpload PROVE DocumentInv'
<1>1. req[Upload].at # "end"
  BY DEF PutUpload
<1>2. PICK where \in {"put", "end"} : /\ At(Upload, where)
                                      /\ where = "put" => store' = store \cup {"bytes"}
                                      /\ store \subseteq store'
                                      /\ store' \subseteq store \cup {"bytes"}
                                      /\ faults' = faults \/ Fault
  BY DEF PutUpload
<1>3. faults' \in 0..MaxFaults
  BY <1>2, FaultIsTyped DEF DocumentInv, Typed, TypeOK
<1>4. /\ req' \in [Requests -> Req]
      /\ \A x \in Requests : /\ req'[x].at = IF x = Upload THEN where ELSE req[x].at
                             /\ req'[x].verdict = req[x].verdict
  BY <1>2, AtIsTyped, NamesAreRequests DEF DocumentInv
<1>5. \A x \in Requests : req'[x].at \in {"start", "read", "put", "reclaim", "end"}
  BY <1>4 DEF Req
<1>6. UNCHANGED <<doc, row, sessions, joins, jobs, work, saved>>
  BY DEF PutUpload
<1>7. Typed'
  BY <1>2, <1>3, <1>4, <1>5, <1>6 DEF DocumentInv, Typed, TypeOK
<1>8. /\ row = NoRow /\ ~row.there
      /\ \A s \in Deletes : req[s].verdict # "dies" /\ req[s].at # "reclaim"
  BY <1>1, UploadIsFirst
<1>9. BytesKept'
  BY <1>2, <1>4, <1>6, <1>8, NamesAreRequests DEF BytesKept
<1>10. ReadyIsWhole' /\ \A w \in Workers : Holds(w)'
  BY <1>1, <1>6, <1>8 DEF DocumentInv, ReadyIsWhole, Holds
<1> QED BY <1>7, <1>9, <1>10 DEF DocumentInv

(* The row, its join and its job are committed, or the session is gone.    *)
LEMMA KeepsCommitUpload == ASSUME DocumentInv, CommitUpload PROVE DocumentInv'
<1> DEFINE new == [NoRow EXCEPT !.there = TRUE, !.home = Home]
<1>1. req[Upload].at = "put" /\ At(Upload, "end")
      /\ UNCHANGED <<doc, sessions, store, work, saved, faults>>
  BY DEF CommitUpload
<1>2. /\ req' \in [Requests -> Req]
      /\ \A x \in Requests : /\ req'[x].at = IF x = Upload THEN "end" ELSE req[x].at
                             /\ req'[x].verdict = req[x].verdict
  BY <1>1, AtIsTyped, NamesAreRequests DEF DocumentInv
<1>3. \A x \in Requests : req'[x].at \in {"start", "read", "put", "reclaim", "end"}
  BY <1>2 DEF Req
<1>4. /\ row = NoRow /\ ~row.there
      /\ \A s \in Deletes : req[s].verdict # "dies" /\ req[s].at # "reclaim"
  BY <1>1, UploadIsFirst
<1>5. \/ Home \in sessions /\ row' = new /\ joins' = {Home} /\ jobs' = Enqueued(jobs, {Ingest})
      \/ UNCHANGED <<row, joins, jobs>>
  BY DEF CommitUpload
<1>6. /\ new \in Row /\ new.there /\ new.home = Home /\ new.status = "pending"
      /\ ~new.chunks /\ ~new.nulls
  BY DEF NoRow, Row, Sessions, Statuses
<1> HIDE DEF new
<1>7. jobs' \in [Keys -> Job]
  BY <1>5, EnqueuedIsTyped DEF DocumentInv, Typed, TypeOK, Job
<1>8. Typed'
  BY <1>1, <1>2, <1>3, <1>5, <1>6, <1>7 DEF DocumentInv, Typed, TypeOK, Job
<1>9. BytesKept'
  BY <1>1, <1>2, <1>4, <1>5, NamesAreRequests DEF DocumentInv, BytesKept
<1>10. ReadyIsWhole'
  BY <1>5, <1>6 DEF DocumentInv, ReadyIsWhole
<1>11. \A w \in Workers : Holds(w)'
  <2>1. SUFFICES ASSUME NEW w \in Workers, work[w] # NoWork, work[w].plan # None
                 PROVE  Fits(work[w].key, work[w].plan) /\ work[w].plan.kind = "nothing"
    BY <1>1 DEF Holds
  <2> QED BY <1>1, <2>1 DEF DocumentInv, Holds
<1> QED BY <1>8, <1>9, <1>10, <1>11 DEF DocumentInv

(* Steps of the queue and of workers that leave the document alone.        *)
LEMMA KeepsQueueing ==
    ASSUME DocumentInv, UNCHANGED <<doc, row, sessions, joins, store, req, saved>>,
           jobs' \in [Keys -> Job], work' \in [Workers -> Work], faults' \in 0..MaxFaults,
           \A w \in Workers : Holds(w)'
    PROVE  DocumentInv'
<1>w. \A w \in Workers : work'[w].plan = None \/ work'[w].plan \in Plans
  BY WorkIsTyped
<1>1. Typed'
  BY <1>w DEF DocumentInv, Typed, TypeOK, Job
<1> QED BY <1>1 DEF DocumentInv, BytesKept, ReadyIsWhole

(* A job is claimed.                                                       *)
LEMMA KeepsClaim == ASSUME DocumentInv, NEW w \in Workers, Claim(w) PROVE DocumentInv'
<1>1. PICK k \in Keys : /\ jobs[k].status = "pending" /\ jobs[k].attempts < MaxAttempts
                        /\ jobs' = [jobs EXCEPT ![k].status = "running", ![k].attempts = @ + 1]
                        /\ work' = [work EXCEPT ![w] = [key |-> k, plan |-> None]]
  BY DEF Claim
<1>2. /\ work' \in [Workers -> Work]
      /\ \A x \in Workers : work'[x] = IF x = w THEN [key |-> k, plan |-> None] ELSE work[x]
  BY <1>1, TakenIsTyped DEF DocumentInv
<1>3. jobs' \in [Keys -> Job]
  <2>1. jobs \in [Keys -> Job]
    BY DEF DocumentInv, Typed, TypeOK, Job
  <2>2. jobs[k].attempts + 1 \in 0..MaxAttempts
    BY <1>1, <2>1, AttachmentAssumption DEF Job
  <2>3. jobs' = [jobs EXCEPT ![k] = [jobs[k] EXCEPT !.status = "running", !.attempts = @ + 1]]
    BY <1>1
  <2>4. [jobs[k] EXCEPT !.status = "running", !.attempts = @ + 1] \in Job
    BY <2>1, <2>2 DEF Job
  <2> QED BY <2>1, <2>3, <2>4
<1>4. UNCHANGED <<doc, row, sessions, joins, store, req, saved, faults>>
  BY DEF Claim
<1>5. \A x \in Workers : Holds(x)'
  BY <1>2, <1>4 DEF DocumentInv, Holds
<1>6. faults' \in 0..MaxFaults
  BY <1>4 DEF DocumentInv, Typed, TypeOK
<1> QED BY <1>2, <1>3, <1>4, <1>5, <1>6, KeepsQueueing

(* A job is taken back.                                                    *)
LEMMA KeepsReclaim == ASSUME DocumentInv, NEW k \in Keys, Reclaim(k) PROVE DocumentInv'
<1>1. jobs \in [Keys -> Job]
  BY DEF DocumentInv, Typed, TypeOK, Job
<1>2. jobs' \in [Keys -> Job]
  <2>1. [jobs EXCEPT ![k].status = "pending"] =
          [jobs EXCEPT ![k] = [jobs[k] EXCEPT !.status = "pending"]]
    OBVIOUS
  <2>2. [jobs[k] EXCEPT !.status = "pending"] \in Job
    BY <1>1 DEF Job
  <2> QED BY <1>1, <2>1, <2>2 DEF Reclaim
<1>3. UNCHANGED <<doc, row, sessions, joins, store, req, work, saved, faults>>
  BY DEF Reclaim
<1>4. faults' \in 0..MaxFaults /\ work' \in [Workers -> Work] /\ \A w \in Workers : Holds(w)'
  BY <1>3 DEF DocumentInv, Typed, TypeOK, Holds
<1> QED BY <1>2, <1>3, <1>4, KeepsQueueing

(* A worker dies.                                                          *)
LEMMA KeepsDie == ASSUME DocumentInv, NEW w \in Workers, Die(w) PROVE DocumentInv'
<1>1. /\ work' \in [Workers -> Work]
      /\ \A x \in Workers : work'[x] = IF x = w THEN NoWork ELSE work[x]
  BY DroppedIsTyped DEF DocumentInv, Die
<1>2. UNCHANGED <<doc, row, sessions, joins, store, jobs, req, saved>>
  BY DEF Die
<1>3. \A x \in Workers : Holds(x)'
  BY <1>1, <1>2 DEF DocumentInv, Holds
<1>4. faults' \in 0..MaxFaults
  BY FaultIsTyped DEF DocumentInv, Die
<1>5. jobs' \in [Keys -> Job]
  BY <1>2 DEF DocumentInv, Typed, TypeOK, Job
<1> QED BY <1>1, <1>2, <1>3, <1>4, <1>5, KeepsQueueing

(* What a handler has decided, of which job.                               *)
LEMMA HandlesAPlan ==
    ASSUME DocumentInv, NEW w \in Workers, Handle(w)
    PROVE  \E p \in Plans :
             /\ work' = [work EXCEPT ![w].plan = p] /\ work[w] # NoWork /\ work[w].plan = None
             /\ Fits(work[w].key, p)
             /\ p.kind # "nothing" => row.there
             /\ p.kind = "embed" => row.chunks
             /\ work[w].key.kind = "embed" /\ p.kind = "nothing" =>
                  ~row.there \/ row.status = "failed" \/ ~row.chunks
<1>1. work[w] # NoWork /\ work[w].plan = None
  BY DEF Handle
<1>2. work[w].key \in Keys
  BY <1>1 DEF DocumentInv, Typed, Work
<1>3. CASE \E p \in PlansOf(work[w].key) : work' = [work EXCEPT ![w].plan = p]
  <2>1. PICK p \in PlansOf(work[w].key) : work' = [work EXCEPT ![w].plan = p]
    BY <1>3
  <2> QED BY <1>1, <1>2, <2>1, PlansFit DEF DocumentInv, Fits
<1>4. CASE /\ work[w].key.kind # "embed" /\ row.there
           /\ \E p \in Unreadable : work' = [work EXCEPT ![w].plan = p]
  <2>1. PICK p \in Unreadable : work' = [work EXCEPT ![w].plan = p]
    BY <1>4
  <2>2. Fits(work[w].key, p) /\ p.kind = "status"
    BY <1>2, <1>4, UnreadableFits
  <2> QED BY <1>1, <1>4, <2>1, <2>2 DEF Fits
<1> QED BY <1>3, <1>4 DEF Handle

(* A handler reads and decides.                                            *)
LEMMA KeepsHandle == ASSUME DocumentInv, NEW w \in Workers, Handle(w) PROVE DocumentInv'
<1>1. PICK p \in Plans :
        /\ work' = [work EXCEPT ![w].plan = p] /\ work[w] # NoWork /\ work[w].plan = None
        /\ Fits(work[w].key, p)
        /\ p.kind # "nothing" => row.there
        /\ p.kind = "embed" => row.chunks
  BY HandlesAPlan
<1>2. /\ work' \in [Workers -> Work]
      /\ \A x \in Workers : x # w => work'[x] = work[x]
      /\ work'[w].key = work[w].key /\ work'[w].plan = p
  BY <1>1, PlannedIsTyped DEF DocumentInv
<1>3. UNCHANGED <<doc, row, sessions, joins, store, jobs, req, saved>>
  BY DEF Handle
<1>4. row.there => req[Upload].at = "end"
  BY DEF DocumentInv, BytesKept
<1>5. \A x \in Workers : Holds(x)'
  <2>1. \A x \in Workers : x # w => Holds(x)'
    BY <1>2, <1>3 DEF DocumentInv, Holds
  <2>2. Holds(w)'
    BY <1>1, <1>2, <1>3, <1>4 DEF Holds
  <2> QED BY <2>1, <2>2
<1>6. faults' \in 0..MaxFaults
  <2>1. faults' = faults \/ Fault
    BY DEF Handle
  <2> QED BY <2>1, FaultIsTyped DEF DocumentInv, Typed, TypeOK
<1>7. jobs' \in [Keys -> Job]
  BY <1>3 DEF DocumentInv, Typed, TypeOK, Job
<1> QED BY <1>2, <1>3, <1>5, <1>6, <1>7, KeepsQueueing

(* What a commit makes of the row and of the jobs.                         *)
LEMMA CommitsAPlan ==
    ASSUME DocumentInv, NEW w \in Workers, Commit(w)
    PROVE  \E p \in Plans, k \in Keys :
             /\ p = work[w].plan /\ k = work[w].key /\ Fits(k, p) /\ work[w] # NoWork
             /\ work[w].plan # None
             /\ p.kind # "nothing" => req[Upload].at = "end"
             /\ p.kind = "embed" /\ row.there => row.chunks
             /\ \/ p.kind # "nothing" /\ row' = row /\ jobs' = Retried(k)
                \/ p.kind = "nothing" /\ row' = row /\ jobs' = Finished(Enqueued(jobs, p.next), k)
                \/ /\ p.kind # "nothing" /\ row.there /\ ~(p.kind = "chunks" /\ row.chunks)
                   /\ row' = RowAfter(p) /\ jobs' = Finished(Enqueued(jobs, p.next), k)
             /\ Dropped(w) /\ UNCHANGED <<doc, sessions, joins, store, req, saved, faults>>
<1> DEFINE p == work[w].plan
           k == work[w].key
<1>1. work[w] # NoWork /\ work[w].plan # None /\ Dropped(w)
      /\ UNCHANGED <<doc, sessions, joins, store, req, saved, faults>>
  BY DEF Commit
<1>2. p \in Plans /\ k \in Keys
  BY <1>1, FitIsTyped DEF DocumentInv
<1>3. /\ Fits(k, p)
      /\ p.kind # "nothing" => req[Upload].at = "end"
      /\ p.kind = "embed" /\ row.there => row.chunks
  BY <1>1 DEF DocumentInv, Holds
<1>4. IF Raises(p) THEN jobs' = Retried(k) /\ UNCHANGED row
      ELSE row' = RowAfter(p) /\ jobs' = Finished(Enqueued(jobs, p.next), k)
  BY DEF Commit
<1>5. p.kind = "nothing" => RowAfter(p) = row
  BY DEF RowAfter
<1>6. \/ p.kind # "nothing" /\ row' = row /\ jobs' = Retried(k)
      \/ p.kind = "nothing" /\ row' = row /\ jobs' = Finished(Enqueued(jobs, p.next), k)
      \/ /\ p.kind # "nothing" /\ row.there /\ ~(p.kind = "chunks" /\ row.chunks)
         /\ row' = RowAfter(p) /\ jobs' = Finished(Enqueued(jobs, p.next), k)
  BY <1>4, <1>5 DEF Raises
<1> HIDE DEF p, k
<1> QED BY <1>1, <1>2, <1>3, <1>6 DEF p, k

(* A handler commits, on a row that may have changed since it decided.     *)
LEMMA KeepsCommit == ASSUME DocumentInv, NEW w \in Workers, Commit(w) PROVE DocumentInv'
<1>1. PICK p \in Plans, k \in Keys :
        /\ Fits(k, p)
        /\ p.kind # "nothing" => req[Upload].at = "end"
        /\ p.kind = "embed" /\ row.there => row.chunks
        /\ \/ row' = row /\ jobs' = Retried(k)
           \/ row' = row /\ jobs' = Finished(Enqueued(jobs, p.next), k)
           \/ /\ p.kind # "nothing" /\ row.there
              /\ row' = RowAfter(p) /\ jobs' = Finished(Enqueued(jobs, p.next), k)
        /\ Dropped(w) /\ UNCHANGED <<doc, sessions, joins, store, req, saved, faults>>
  BY CommitsAPlan
<1>2. /\ work' \in [Workers -> Work]
      /\ \A x \in Workers : work'[x] = IF x = w THEN NoWork ELSE work[x]
  BY <1>1, DroppedIsTyped DEF DocumentInv
<1>3. jobs' \in [Keys -> Job]
  <2>1. jobs \in [Keys -> Job]
    BY DEF DocumentInv, Typed, TypeOK, Job
  <2> QED BY <1>1, <2>1, RetriedIsTyped, FinishedIsTyped, EnqueuedIsTyped
<1>4. CASE row' = row
  <2>1. \A x \in Workers : Holds(x)'
    BY <1>1, <1>2, <1>4 DEF DocumentInv, Holds
  <2>2. faults' \in 0..MaxFaults
    BY <1>1 DEF DocumentInv, Typed, TypeOK
  <2> QED BY <1>1, <1>2, <1>3, <1>4, <2>1, <2>2, KeepsQueueing
<1>5. CASE p.kind # "nothing" /\ row.there /\ row' = RowAfter(p)
  <2>1. /\ row' \in Row /\ row'.there /\ row'.home = row.home /\ row'.status = p.to
        /\ row'.chunks = (row.chunks \/ p.kind \in {"chunks", "rechunk"})
        /\ row'.nulls = IF p.kind \in {"chunks", "rechunk"} THEN p.nulls
                        ELSE IF p.kind = "embed" THEN row.nulls /\ p.nulls ELSE row.nulls
    BY <1>5, RowAfterIsTyped DEF DocumentInv
  <2>2. \A x \in Workers : work'[x].plan = None \/ work'[x].plan \in Plans
    BY <1>2, WorkIsTyped
  <2>3. Typed'
    BY <1>1, <1>2, <1>3, <2>1, <2>2 DEF DocumentInv, Typed, TypeOK, Job
  <2>4. BytesKept'
    BY <1>1, <1>5, <2>1 DEF DocumentInv, BytesKept
  <2>5. ReadyIsWhole'
    <3>1. p.kind \in {"nothing", "status", "chunks", "rechunk", "embed"}
      BY DEF Plans
    <3> QED BY <1>1, <1>5, <2>1, <3>1 DEF Fits, ReadyIsWhole
  <2>6. \A x \in Workers : Holds(x)'
    BY <1>1, <1>2, <1>5, <2>1 DEF DocumentInv, Holds
  <2> QED BY <2>3, <2>4, <2>5, <2>6 DEF DocumentInv
<1> QED BY <1>1, <1>4, <1>5

(* The row changes in status, scope or home, or goes.                      *)
LEMMA KeepsRowEdits ==
    ASSUME DocumentInv, NEW q \in Requests, q # Upload,
           NEW where \in {"read", "put", "end", "reclaim"}, At(q, where),
           UNCHANGED <<doc, store, work, faults>>, saved' \in BOOLEAN, jobs' \in [Keys -> Job],
           sessions' \subseteq Sessions, joins' \subseteq sessions',
           row' \in Row, row'.home # None => row'.home \in joins',
           row'.there => row.there /\ row'.chunks = row.chunks /\ row'.nulls = row.nulls
                         /\ row'.status \in {row.status, "pending"},
           ~row'.there => row' = NoRow,
           where = "reclaim" => q \in Deletes /\ req[q].verdict = "dies" /\ ~row'.there
    PROVE  DocumentInv'
<1>1. /\ req' \in [Requests -> Req]
      /\ \A x \in Requests : /\ req'[x].at = IF x = q THEN where ELSE req[x].at
                             /\ req'[x].verdict = req[x].verdict
  BY AtIsTyped DEF DocumentInv
<1>2. \A x \in Requests : req'[x].at \in {"start", "read", "put", "reclaim", "end"}
  BY <1>1 DEF Req
<1>3. Typed'
  BY <1>1, <1>2 DEF DocumentInv, Typed, TypeOK, Job
<1>4. req'[Upload].at = req[Upload].at
  BY <1>1, NamesAreRequests
<1>5. BytesKept'
  BY <1>1, <1>4, NamesAreRequests DEF DocumentInv, BytesKept
<1>6. ReadyIsWhole'
  BY DEF DocumentInv, ReadyIsWhole, NoRow
<1>7. \A w \in Workers : Holds(w)'
  BY <1>4 DEF DocumentInv, Holds
<1> QED BY <1>3, <1>5, <1>6, <1>7 DEF DocumentInv

(* The steps of a posted transcript.                                       *)
LEMMA KeepsTranscripts ==
    ASSUME DocumentInv, NEW q \in Posts,
           ReadParked(q) \/ PutTranscript(q) \/ CommitTranscript(q)
    PROVE  DocumentInv'
<1>1. q \in Requests /\ q # Upload
  BY NamesAreRequests
<1>2. faults \in 0..MaxFaults /\ store \subseteq {"bytes", "transcript"}
  BY DEF DocumentInv, Typed, TypeOK
<1>3. CASE ReadParked(q)
  BY <1>1, <1>2, <1>3, KeepsMove DEF ReadParked
<1>4. CASE PutTranscript(q)
  <2>1. PICK where \in {"put", "end"} : /\ At(q, where) /\ store \subseteq store'
                                        /\ store' \subseteq {"bytes", "transcript"}
                                        /\ faults' = faults \/ Fault
    BY <1>2, <1>4 DEF PutTranscript
  <2>2. faults' \in 0..MaxFaults
    BY <1>2, <2>1, FaultIsTyped DEF DocumentInv
  <2> QED BY <1>1, <1>4, <2>1, <2>2, KeepsMove DEF PutTranscript
<1>5. CASE CommitTranscript(q)
  <2>1. CASE row.there
    <3> DEFINE new == [row EXCEPT !.status = "pending"]
    <3>2. /\ new \in Row /\ new.there /\ new.home = row.home /\ new.status = "pending"
          /\ new.chunks = row.chunks /\ new.nulls = row.nulls
      <4>1. row \in Row
        BY DEF DocumentInv, Typed, TypeOK
      <4> QED BY <2>1, <4>1 DEF Row, Statuses
    <3>3. row' = new /\ jobs' = Enqueued(jobs, TranscriptJob) /\ At(q, "end")
          /\ UNCHANGED <<doc, sessions, joins, store, work, saved, faults>>
      BY <1>5, <2>1 DEF CommitTranscript
    <3>4. jobs' \in [Keys -> Job]
      BY <3>3, EnqueuedIsTyped DEF DocumentInv, Typed, TypeOK, Job
    <3> HIDE DEF new
    <3>5. /\ saved' \in BOOLEAN /\ sessions' \subseteq Sessions /\ joins' \subseteq sessions'
          /\ row'.home # None => row'.home \in joins'
      BY <3>2, <3>3 DEF DocumentInv, Typed, TypeOK
    <3> QED BY <1>1, <2>1, <3>2, <3>3, <3>4, <3>5, KeepsRowEdits
  <2>2. CASE ~row.there
    BY <1>1, <1>2, <1>5, <2>2, KeepsMove DEF CommitTranscript
  <2> QED BY <2>1, <2>2
<1> QED BY <1>3, <1>4, <1>5

(* The steps of a save.                                                    *)
LEMMA KeepsSaving == ASSUME DocumentInv, ReadToSave \/ CommitSave PROVE DocumentInv'
<1>1. Save \in Requests /\ Save # Upload
  BY NamesAreRequests
<1>2. faults \in 0..MaxFaults /\ store \subseteq {"bytes", "transcript"}
  BY DEF DocumentInv, Typed, TypeOK
<1>3. CASE ReadToSave
  BY <1>1, <1>2, <1>3, KeepsMove DEF ReadToSave
<1>4. CASE CommitSave /\ row.there
  <2> DEFINE new == [row EXCEPT !.scope = "user", !.home = None]
  <2>1. /\ new \in Row /\ new.there /\ new.home = None /\ new.status = row.status
        /\ new.chunks = row.chunks /\ new.nulls = row.nulls
    <3>1. row \in Row
      BY DEF DocumentInv, Typed, TypeOK
    <3> QED BY <1>4, <3>1 DEF Row
  <2>2. row' = new /\ At(Save, "end") /\ saved' = TRUE
        /\ UNCHANGED <<doc, sessions, joins, store, jobs, work, faults>>
    BY <1>4 DEF CommitSave
  <2> HIDE DEF new
  <2>3. /\ sessions' \subseteq Sessions /\ joins' \subseteq sessions' /\ jobs' \in [Keys -> Job]
    BY <2>2 DEF DocumentInv, Typed, TypeOK, Job
  <2> QED BY <1>1, <1>4, <2>1, <2>2, <2>3, KeepsRowEdits
<1>5. CASE CommitSave /\ ~row.there
  BY <1>1, <1>2, <1>5, KeepsMove DEF CommitSave
<1> QED BY <1>3, <1>4, <1>5

(* The steps of a fork.                                                    *)
LEMMA KeepsForking == ASSUME DocumentInv, ReadToFork \/ CommitFork PROVE DocumentInv'
<1>1. ForkIt \in Requests /\ ForkIt # Upload
  BY NamesAreRequests
<1>2. faults \in 0..MaxFaults /\ store \subseteq {"bytes", "transcript"}
  BY DEF DocumentInv, Typed, TypeOK
<1>3. CASE ReadToFork
  BY <1>1, <1>2, <1>3, KeepsMove DEF ReadToFork
<1>4. CASE CommitFork /\ row.there
  <2>1. /\ At(ForkIt, "end") /\ sessions' = sessions \cup {Fork} /\ joins' = joins \cup {Fork}
        /\ UNCHANGED <<doc, row, store, jobs, work, saved, faults>>
    BY <1>4 DEF CommitFork
  <2>2. /\ saved' \in BOOLEAN /\ jobs' \in [Keys -> Job]
        /\ sessions' \subseteq Sessions /\ joins' \subseteq sessions'
        /\ row' \in Row /\ (row'.home # None => row'.home \in joins')
        /\ (~row'.there => row' = NoRow)
    BY <2>1 DEF DocumentInv, Typed, TypeOK, Job, Sessions
  <2> QED BY <1>1, <2>1, <2>2, KeepsRowEdits
<1>5. CASE CommitFork /\ ~row.there
  BY <1>1, <1>2, <1>5, KeepsMove DEF CommitFork
<1> QED BY <1>3, <1>4, <1>5

(* A deletion has counted who refers to the document: a verdict of death   *)
(* is given to a row that is there, so the upload is over.                 *)
LEMMA KeepsReadToDelete ==
    ASSUME DocumentInv, NEW s \in Deletes, ReadToDelete(s) PROVE DocumentInv'
<1> DEFINE new == [at |-> "read", verdict |-> Verdict(s), detach |-> row.home = s]
<1>1. req' = [req EXCEPT ![s] = new] /\ s \in Requests
      /\ UNCHANGED <<doc, row, sessions, joins, store, jobs, work, saved, faults>>
  BY NamesAreRequests DEF ReadToDelete
<1>2. new \in Req /\ new.at = "read" /\ (new.verdict = "dies" => row.there)
  BY DEF Req, Verdict, Mine
<1> HIDE DEF new
<1>3. req \in [Requests -> Req]
  BY DEF DocumentInv, Typed
<1>4. req' \in [Requests -> Req] /\ \A x \in Requests : req'[x] = IF x = s THEN new ELSE req[x]
  BY <1>1, <1>2, <1>3
<1>5. \A x \in Requests : req'[x].at \in {"start", "read", "put", "reclaim", "end"}
  BY <1>4 DEF Req
<1>6. Typed'
  BY <1>1, <1>4, <1>5 DEF DocumentInv, Typed, TypeOK
<1>7. req'[Upload] = req[Upload]
  BY <1>4, NamesAreRequests
<1>8. BytesKept'
  BY <1>1, <1>2, <1>4, <1>7, NamesAreRequests DEF DocumentInv, BytesKept
<1>9. ReadyIsWhole' /\ \A w \in Workers : Holds(w)'
  BY <1>1, <1>7 DEF DocumentInv, ReadyIsWhole, Holds
<1> QED BY <1>6, <1>8, <1>9 DEF DocumentInv

(* A deletion commits: a document that dies has no row from then on.       *)
LEMMA KeepsCommitDelete ==
    ASSUME DocumentInv, NEW s \in Deletes, CommitDelete(s) PROVE DocumentInv'
<1> DEFINE dies == req[s].verdict = "dies"
           home == IF req[s].detach /\ ~dies /\ row.home = s THEN None ELSE row.home
           new == [row EXCEPT !.home = home]
           where == IF dies THEN "reclaim" ELSE "end"
<1>1. s \in Requests /\ s # Upload
  BY NamesAreRequests
<1>2. /\ IF dies \/ home = s THEN row' = NoRow /\ joins' = {}
         ELSE row' = new /\ joins' = joins \ {s}
      /\ sessions' = sessions \ {s} /\ At(s, where)
      /\ UNCHANGED <<doc, store, jobs, work, saved, faults>>
  BY DEF CommitDelete, NextOf, JoinsWithout
<1>3. /\ NoRow \in Row /\ NoRow.home = None /\ ~NoRow.there
      /\ new \in Row /\ new.there = row.there /\ new.home = home /\ new.status = row.status
      /\ new.chunks = row.chunks /\ new.nulls = row.nulls
      /\ (~row.there => new = NoRow)
  <2>1. row \in Row /\ (~row.there => row = NoRow)
    BY DEF DocumentInv, Typed, TypeOK
  <2>2. NoRow \in Row /\ NoRow.home = None /\ ~NoRow.there
    BY DEF NoRow, Row, Statuses
  <2>3. home \in Sessions \cup {None}
    BY <2>1 DEF Row
  <2> HIDE DEF home
  <2>4. /\ new \in Row /\ new.there = row.there /\ new.home = home /\ new.status = row.status
        /\ new.chunks = row.chunks /\ new.nulls = row.nulls
    BY <2>1, <2>3 DEF Row
  <2>5. ~row.there => new = NoRow
    BY <2>1, <2>2 DEF home, NoRow
  <2> QED BY <2>2, <2>4, <2>5
<1>4. home # None => home \in joins
  BY DEF DocumentInv, Typed, TypeOK
<1> HIDE DEF new, home
<1>5. /\ saved' \in BOOLEAN /\ jobs' \in [Keys -> Job]
      /\ sessions' \subseteq Sessions /\ joins' \subseteq sessions'
  BY <1>2 DEF DocumentInv, Typed, TypeOK, Job
<1>6. /\ row' \in Row
      /\ row'.home # None => row'.home \in joins'
      /\ row'.there => row.there /\ row'.chunks = row.chunks /\ row'.nulls = row.nulls
                       /\ row'.status \in {row.status, "pending"}
      /\ ~row'.there => row' = NoRow
      /\ where = "reclaim" => dies /\ ~row'.there
  <2>1. CASE dies \/ home = s
    BY <1>2, <1>3, <2>1
  <2>2. CASE ~(dies \/ home = s)
    <3>1. row' = new /\ joins' = joins \ {s} /\ where = "end"
      BY <1>2, <2>2
    <3> QED BY <1>3, <1>4, <2>2, <3>1
  <2> QED BY <2>1, <2>2
<1> QED BY <1>1, <1>2, <1>5, <1>6, KeepsRowEdits

(* The objects go only after the row, and no row comes back.               *)
LEMMA KeepsReclaimObjects ==
    ASSUME DocumentInv, NEW s \in Deletes, ReclaimObjects(s) PROVE DocumentInv'
<1>1. s \in Requests /\ s # Upload
  BY NamesAreRequests
<1>2. /\ req[s].at = "reclaim" /\ At(s, "end")
      /\ UNCHANGED <<doc, row, sessions, joins, jobs, work, saved>>
  BY DEF ReclaimObjects
<1>3. CASE store' = {} /\ UNCHANGED faults
  <2>1. ~row.there /\ req[Upload].at = "end"
    BY <1>2 DEF DocumentInv, BytesKept
  <2>2. /\ req' \in [Requests -> Req]
        /\ \A x \in Requests : /\ req'[x].at = IF x = s THEN "end" ELSE req[x].at
                               /\ req'[x].verdict = req[x].verdict
    BY <1>1, <1>2, AtIsTyped DEF DocumentInv
  <2>3. \A x \in Requests : req'[x].at \in {"start", "read", "put", "reclaim", "end"}
    BY <2>2 DEF Req
  <2>4. Typed'
    BY <1>2, <1>3, <2>2, <2>3 DEF DocumentInv, Typed, TypeOK
  <2>5. BytesKept'
    BY <1>1, <1>2, <2>1, <2>2, NamesAreRequests DEF DocumentInv, BytesKept
  <2>6. ReadyIsWhole' /\ \A w \in Workers : Holds(w)'
    BY <1>1, <1>2, <2>2, NamesAreRequests DEF DocumentInv, ReadyIsWhole, Holds
  <2> QED BY <2>4, <2>5, <2>6 DEF DocumentInv
<1>4. CASE Fault /\ UNCHANGED store
  <2>1. store' \subseteq {"bytes", "transcript"} /\ faults' \in 0..MaxFaults
    BY <1>4, FaultIsTyped DEF DocumentInv, Typed, TypeOK
  <2> QED BY <1>1, <1>2, <1>4, <2>1, KeepsMove
<1> QED BY <1>3, <1>4 DEF ReclaimObjects

(* A request dies with its process.                                        *)
LEMMA KeepsCut == ASSUME DocumentInv, NEW q \in Requests, Cut(q) PROVE DocumentInv'
<1>1. /\ req[q].at \notin {"start", "end"} /\ At(q, "end") /\ Fault
      /\ UNCHANGED <<doc, row, sessions, joins, store, jobs, work, saved>>
  BY DEF Cut
<1>2. store' \subseteq {"bytes", "transcript"} /\ faults' \in 0..MaxFaults
  BY <1>1, FaultIsTyped DEF DocumentInv, Typed, TypeOK
<1>3. CASE q # Upload
  BY <1>1, <1>2, <1>3, KeepsMove
<1>4. CASE q = Upload
  <2>1. /\ req' \in [Requests -> Req]
        /\ \A x \in Requests : /\ req'[x].at = IF x = q THEN "end" ELSE req[x].at
                               /\ req'[x].verdict = req[x].verdict
    BY <1>1, AtIsTyped DEF DocumentInv
  <2>2. \A x \in Requests : req'[x].at \in {"start", "read", "put", "reclaim", "end"}
    BY <2>1 DEF Req
  <2>3. Typed'
    BY <1>1, <1>2, <2>1, <2>2 DEF DocumentInv, Typed, TypeOK
  <2>4. BytesKept'
    BY <1>1, <1>4, <2>1, NamesAreRequests DEF DocumentInv, BytesKept
  <2>5. ReadyIsWhole' /\ \A w \in Workers : Holds(w)'
    BY <1>1, <1>4, <2>1 DEF DocumentInv, ReadyIsWhole, Holds
  <2> QED BY <2>3, <2>4, <2>5 DEF DocumentInv
<1> QED BY <1>3, <1>4

(* The invariant holds initially ...                                       *)
LEMMA DocumentInit == ASSUME Init PROVE DocumentInv
<1>1. NoRow \in Row /\ NoRow.home = None /\ ~NoRow.there /\ NoRow.status = "pending"
  BY DEF NoRow, Row, Statuses
<1>2. [at |-> "start", verdict |-> "lives", detach |-> FALSE] \in Req
  BY DEF Req
<1>3. NoJob \in Job
  BY AttachmentAssumption DEF NoJob, Job
<1>4. NoWork \in Work /\ NoWork.plan = None
  BY DEF Work, NoWork
<1>5. Typed
  <2>1. req \in [Requests -> Req] /\ \A q \in Requests : req[q].at = "start"
    BY <1>2 DEF Init
  <2>2. work \in [Workers -> Work] /\ \A w \in Workers : work[w].plan = None
    BY <1>4 DEF Init
  <2>3. jobs \in [Keys -> Job]
    BY <1>3 DEF Init
  <2>4. row \in Row /\ row.home = None /\ row = NoRow
    BY <1>1 DEF Init
  <2>5. doc \in Docs /\ sessions \subseteq Sessions /\ joins = {} /\ store = {}
    BY DEF Init, Sessions
  <2>6. saved = FALSE /\ faults \in 0..MaxFaults
    BY AttachmentAssumption DEF Init
  <2> QED BY <2>1, <2>2, <2>3, <2>4, <2>5, <2>6 DEF Typed, TypeOK, Job
<1>6. BytesKept
  BY <1>1, NamesAreRequests DEF Init, BytesKept
<1>7. ReadyIsWhole
  BY <1>1 DEF Init, ReadyIsWhole
<1>8. \A w \in Workers : Holds(w)
  BY DEF Init, Holds
<1> QED BY <1>5, <1>6, <1>7, <1>8 DEF DocumentInv

(* ... and every step keeps it.                                            *)
LEMMA DocumentStep == ASSUME DocumentInv, [Next]_vars PROVE DocumentInv'
<1>1. CASE UNCHANGED vars
  BY <1>1 DEF vars, DocumentInv, Typed, TypeOK, BytesKept, ReadyIsWhole, Holds
<1>2. CASE Next
  BY <1>2, KeepsPutUpload, KeepsCommitUpload, KeepsClaim, KeepsHandle, KeepsCommit, KeepsDie,
     KeepsReclaim, KeepsTranscripts, KeepsSaving, KeepsForking, KeepsReadToDelete,
     KeepsCommitDelete, KeepsReclaimObjects, KeepsCut DEF Next
<1> QED BY <1>1, <1>2

(* The inductive invariant of the document and its bytes.                  *)
THEOREM DocumentInvariant == Spec => []DocumentInv
<1>1. Init => DocumentInv
  BY DocumentInit
<1>2. DocumentInv /\ [Next]_vars => DocumentInv'
  BY DocumentStep
<1> QED BY <1>1, <1>2, PTL DEF Spec

(* Types of Attachments, for every step.                                   *)
THEOREM DocumentsTyped == Spec => []TypeOK
<1>1. DocumentInv => TypeOK
  BY DEF DocumentInv, Typed
<1> QED BY <1>1, DocumentInvariant, PTL

(* Whatever order uploads, forks, saves and deletions run in and wherever  *)
(* one of them, or a worker, is cut off, a document that is listed has its *)
(* bytes in the store (gc.py, attachments.py).                             *)
THEOREM ListedHaveBytes == Spec => []RowHasBytes
<1>1. DocumentInv => RowHasBytes
  BY DEF DocumentInv, BytesKept, RowHasBytes
<1> QED BY <1>1, DocumentInvariant, PTL

(* However often a handler is replayed, and whatever has happened to the   *)
(* row between its read and its commit, a document is ready only with all  *)
(* its vectors, and lexical only with its chunks (document_ingest.py).     *)
THEOREM ReadyAreWhole == Spec => []ReadyIsWhole
<1>1. DocumentInv => ReadyIsWhole
  BY DEF DocumentInv
<1> QED BY <1>1, DocumentInvariant, PTL

(* The states of a key.                                                    *)
Done(k) == jobs[k].status = "succeeded"
Unused(k) == jobs[k].status = "absent"
ParseEnded == Done(Ingest) /\ (Unused(Transcribed) \/ Done(Transcribed))
Embedding == \E n \in 0..MaxRounds : ~Unused(Embed(n))

(* A job in hand is running, and in one hand only.                         *)
OneWorkerEach ==
    /\ \A w \in Workers : work[w] # NoWork => jobs[work[w].key].status = "running"
    /\ \A w, v \in Workers : work[w] # NoWork /\ work[v] # NoWork /\ work[w].key = work[v].key
                             => w = v

(* Chunks come from one of two jobs, and embed jobs come after them. A     *)
(* transcript is posted only for a document that its ingest has parked     *)
(* without chunks.                                                         *)
ParsedOnce ==
    /\ ~Unused(Ingest) => req[Upload].at = "end"
    /\ ~Unused(Transcribed) => Done(Ingest)
    /\ row.chunks \/ Embedding => ParseEnded
    /\ \A q \in Posts : req[q].at \in {"read", "put"} =>
         Done(Ingest) /\ (Unused(Transcribed) => ~row.chunks)
    /\ row.there /\ row.status = "needs_ocr" => Done(Ingest) /\ ~row.chunks

(* A round comes after the one before; a document with rounds has its      *)
(* chunks.                                                                 *)
RoundsInOrder ==
    /\ Embedding /\ row.there => row.chunks /\ row.status # "failed"
    /\ \A n, m \in 0..MaxRounds : m = n + 1 /\ ~Unused(Embed(m)) => Done(Embed(n))
    /\ \A w \in Workers :
         (work[w] # NoWork /\ work[w].plan # None /\ work[w].key.kind = "embed"
          /\ work[w].plan.kind = "nothing") => ~row.there

(* The invariant of the jobs.                                              *)
LexicalInv == OneWorkerEach /\ ParsedOnce /\ RoundsInOrder /\ LexicalGoesOn

(* Steps that leave jobs and workers alone.                                *)
LEMMA KeepsElsewhere ==
    ASSUME DocumentInv, LexicalInv, DocumentInv', UNCHANGED <<jobs, work>>,
           row'.there => row.there /\ row'.chunks = row.chunks /\ row'.status = row.status,
           ~row'.there => row' = NoRow \/ row' = row,
           req[Upload].at = "end" => req'[Upload].at = "end",
           \A q \in Posts : req'[q].at \in {"read", "put"} =>
              req[q].at \in {"read", "put"} \/ (row.there /\ row.status = "needs_ocr")
    PROVE  LexicalInv'
<1>1. row'.chunks => row.chunks
  <2>1. ~NoRow.chunks
    BY DEF NoRow
  <2>2. CASE row'.there
    BY <2>2
  <2>3. CASE ~row'.there
    BY <2>1, <2>3
  <2> QED BY <2>2, <2>3
<1>2. OneWorkerEach'
  BY DEF LexicalInv, OneWorkerEach
<1>3. ParsedOnce'
  BY <1>1 DEF LexicalInv, ParsedOnce, ParseEnded, Done, Unused, Embedding
<1>4. RoundsInOrder'
  BY <1>1 DEF LexicalInv, RoundsInOrder, Done, Unused, Embedding
<1>5. LexicalGoesOn'
  BY DEF LexicalInv, LexicalGoesOn, Alive
<1> QED BY <1>2, <1>3, <1>4, <1>5 DEF LexicalInv

(* What a step does to the requests: nothing restarts, and a post is read  *)
(* when the document is parked.                                            *)
LEMMA RequestsGoOn ==
    ASSUME DocumentInv, NEW q \in Requests, NEW where \in {"read", "put", "reclaim", "end"},
           At(q, where), q = Upload => where \in {"put", "end"} /\ req[Upload].at # "end",
           q \in Posts /\ where \in {"read", "put"} =>
              req[q].at \in {"read", "put"} \/ (row.there /\ row.status = "needs_ocr")
    PROVE  /\ req[Upload].at = "end" => req'[Upload].at = "end"
           /\ \A x \in Posts : req'[x].at \in {"read", "put"} =>
                req[x].at \in {"read", "put"} \/ (row.there /\ row.status = "needs_ocr")
<1>1. \A x \in Requests : req'[x].at = IF x = q THEN where ELSE req[x].at
  BY AtIsTyped DEF DocumentInv
<1> QED BY <1>1, NamesAreRequests

(* The bytes are stored.                                                   *)
LEMMA GoesOnPutUpload ==
    ASSUME DocumentInv, LexicalInv, PutUpload, DocumentInv'
    PROVE  LexicalInv'
<1>1. req[Upload].at # "end" /\ \E where \in {"put", "end"} : At(Upload, where)
  BY DEF PutUpload
<1>2. PICK where \in {"put", "end"} : At(Upload, where)
  BY <1>1
<1>3. UNCHANGED <<jobs, work, row>>
  BY DEF PutUpload
<1>4. Upload \notin Posts /\ Upload \in Requests
  BY NamesAreRequests
<1>5. /\ req[Upload].at = "end" => req'[Upload].at = "end"
      /\ \A x \in Posts : req'[x].at \in {"read", "put"} =>
           req[x].at \in {"read", "put"} \/ (row.there /\ row.status = "needs_ocr")
  BY <1>1, <1>2, <1>4, RequestsGoOn
<1> QED BY <1>3, <1>5, KeepsElsewhere

(* The upload commits: its ingest is the first job of all.                 *)
LEMMA GoesOnCommitUpload ==
    ASSUME DocumentInv, LexicalInv, CommitUpload, DocumentInv' PROVE LexicalInv'
<1>1. req[Upload].at = "put" /\ At(Upload, "end") /\ work' = work
  BY DEF CommitUpload
<1>2. \A x \in Requests : req'[x].at = IF x = Upload THEN "end" ELSE req[x].at
  BY <1>1, AtIsTyped, NamesAreRequests DEF DocumentInv
<1>3. row = NoRow /\ ~row.there
  BY <1>1, UploadIsFirst
<1>4. Unused(Ingest) /\ Unused(Transcribed) /\ ~Embedding /\ ~Done(Ingest)
  BY <1>1 DEF LexicalInv, ParsedOnce, ParseEnded, Done, Unused
<1>5. CASE UNCHANGED <<row, joins, jobs>>
  BY <1>1, <1>2, <1>5, KeepsElsewhere, NamesAreRequests
<1>6. CASE row' = [NoRow EXCEPT !.there = TRUE, !.home = Home] /\ jobs' = Enqueued(jobs, {Ingest})
  <2>1. row'.status = "pending" /\ ~row'.chunks
    BY <1>6 DEF NoRow
  <2>2. jobs \in [Keys -> Job]
    BY DEF DocumentInv, Typed, TypeOK, Job
  <2>3. \A k \in Keys : jobs'[k].status = IF k = Ingest THEN "pending" ELSE jobs[k].status
    BY <1>4, <1>6, <2>2, EnqueuedIsTyped DEF Unused
  <2>4. /\ jobs'[Ingest].status = "pending"
        /\ jobs'[Transcribed].status = jobs[Transcribed].status
        /\ \A n \in 0..MaxRounds : jobs'[Embed(n)].status = jobs[Embed(n)].status
    BY <2>3, KeysAreRecords
  <2>5. \A w \in Workers : work[w] = NoWork \/ work[w].key # Ingest
    BY <1>4 DEF LexicalInv, OneWorkerEach, Unused
  <2>6. \A w \in Workers : work[w] # NoWork => work[w].key \in Keys
    BY DEF DocumentInv, Typed, Work
  <2>7. OneWorkerEach'
    BY <1>1, <2>3, <2>5, <2>6 DEF LexicalInv, OneWorkerEach
  <2>8. ~Embedding'
    BY <1>4, <2>4 DEF Embedding, Unused
  <2>9. ParsedOnce'
    <3>1. \A q \in Posts : req[q].at \notin {"read", "put"}
      BY <1>4 DEF LexicalInv, ParsedOnce
    <3>2. \A q \in Posts : req'[q].at \notin {"read", "put"}
      BY <1>2, <3>1, NamesAreRequests
    <3>3. req'[Upload].at = "end"
      BY <1>2, NamesAreRequests
    <3> QED BY <1>4, <2>1, <2>4, <2>8, <3>2, <3>3 DEF ParsedOnce, Unused, Done
  <2>10. RoundsInOrder'
    <3>1. \A w \in Workers : work[w] # NoWork => work[w].key.kind # "embed"
      BY <1>4, <2>6, KeysAreRecords DEF LexicalInv, OneWorkerEach, Embedding, Unused
    <3>2. \A n \in 0..MaxRounds : Unused(Embed(n))'
      BY <2>8 DEF Embedding
    <3> QED BY <1>1, <2>8, <3>1, <3>2 DEF RoundsInOrder
  <2>11. LexicalGoesOn'
    BY <2>1 DEF LexicalGoesOn
  <2> QED BY <2>7, <2>9, <2>10, <2>11 DEF LexicalInv
<1> QED BY <1>5, <1>6 DEF CommitUpload

(* A job moves on between two runs of a handler.                           *)
LEMMA KeepsJobMove ==
    ASSUME DocumentInv, LexicalInv, UNCHANGED <<row, req>>, OneWorkerEach',
           \A k \in Keys : jobs'[k].status = jobs[k].status
                           \/ /\ jobs[k].status \in {"pending", "running"}
                              /\ jobs'[k].status \in {"pending", "running", "failed"},
           \A w \in Workers :
             (work'[w] # NoWork /\ work'[w].plan # None /\ work'[w].key.kind = "embed"
              /\ work'[w].plan.kind = "nothing") => ~row.there
    PROVE  LexicalInv'
<1>1. \A k \in Keys : (Done(k)' <=> Done(k)) /\ (Unused(k)' <=> Unused(k))
  BY DEF Done, Unused
<1>2. Embedding' <=> Embedding
  BY <1>1, KeysAreRecords DEF Embedding
<1>3. ParseEnded' <=> ParseEnded
  BY <1>1, KeysAreRecords DEF ParseEnded
<1>4. ParsedOnce'
  BY <1>1, <1>2, <1>3, KeysAreRecords DEF LexicalInv, ParsedOnce
<1>5. RoundsInOrder'
  BY <1>1, <1>2, KeysAreRecords DEF LexicalInv, RoundsInOrder
<1>6. LexicalGoesOn'
  <2>1. SUFFICES ASSUME row.there, row.status = "ready_lexical"
                 PROVE  \E n \in 0..MaxRounds :
                          \/ Alive(Embed(n))' \/ jobs'[Embed(n)].status = "failed"
                          \/ n = MaxRounds /\ jobs'[Embed(n)].status = "succeeded"
    BY DEF LexicalGoesOn
  <2>2. PICK n \in 0..MaxRounds :
          \/ Alive(Embed(n)) \/ jobs[Embed(n)].status = "failed"
          \/ n = MaxRounds /\ jobs[Embed(n)].status = "succeeded"
    BY <2>1 DEF LexicalInv, LexicalGoesOn
  <2>3. Embed(n) \in Keys
    BY KeysAreRecords
  <2> QED BY <2>2, <2>3 DEF Alive
<1> QED BY <1>4, <1>5, <1>6 DEF LexicalInv

(* A job is claimed: nobody else has it.                                   *)
LEMMA GoesOnClaim ==
    ASSUME DocumentInv, LexicalInv, NEW w \in Workers, Claim(w) PROVE LexicalInv'
<1>1. PICK k \in Keys : /\ jobs[k].status = "pending"
                        /\ jobs' = [jobs EXCEPT ![k].status = "running", ![k].attempts = @ + 1]
                        /\ work' = [work EXCEPT ![w] = [key |-> k, plan |-> None]]
  BY DEF Claim
<1>2. \A x \in Workers : work'[x] = IF x = w THEN [key |-> k, plan |-> None] ELSE work[x]
  BY <1>1, TakenIsTyped DEF DocumentInv
<1>3. jobs \in [Keys -> Job]
  BY DEF DocumentInv, Typed, TypeOK, Job
<1>4. \A x \in Keys : jobs'[x].status = IF x = k THEN "running" ELSE jobs[x].status
  <2>1. jobs' = [jobs EXCEPT ![k] = [jobs[k] EXCEPT !.status = "running", !.attempts = @ + 1]]
    BY <1>1
  <2>2. [jobs[k] EXCEPT !.status = "running", !.attempts = @ + 1].status = "running"
    BY <1>3 DEF Job
  <2> QED BY <1>3, <2>1, <2>2
<1>5. \A x \in Workers : work[x] # NoWork => work[x].key # k /\ work[x].key \in Keys
  BY <1>1 DEF LexicalInv, OneWorkerEach, DocumentInv, Typed, Work
<1>6. OneWorkerEach'
  BY <1>2, <1>4, <1>5 DEF LexicalInv, OneWorkerEach
<1>7. \A x \in Workers :
        (work'[x] # NoWork /\ work'[x].plan # None /\ work'[x].key.kind = "embed"
         /\ work'[x].plan.kind = "nothing") => ~row.there
  BY <1>2 DEF LexicalInv, RoundsInOrder
<1>8. UNCHANGED <<row, req>>
  BY DEF Claim
<1>9. \A x \in Keys : jobs'[x].status = jobs[x].status
                      \/ /\ jobs[x].status \in {"pending", "running"}
                         /\ jobs'[x].status \in {"pending", "running", "failed"}
  BY <1>1, <1>4
<1> QED BY <1>6, <1>7, <1>8, <1>9, KeepsJobMove

(* A job is taken back: without an overrun lease, nobody has it any more.  *)
LEMMA GoesOnReclaim ==
    ASSUME DocumentInv, LexicalInv, NEW k \in Keys, Reclaim(k), ~Overlap PROVE LexicalInv'
<1>1. /\ jobs[k].status = "running" /\ \A w \in Workers : work[w].key # k
      /\ jobs' = [jobs EXCEPT ![k].status = "pending"]
      /\ UNCHANGED <<row, req, work>>
  BY DEF Reclaim
<1>2. jobs \in [Keys -> Job]
  BY DEF DocumentInv, Typed, TypeOK, Job
<1>3. \A x \in Keys : jobs'[x].status = IF x = k THEN "pending" ELSE jobs[x].status
  <2>1. jobs' = [jobs EXCEPT ![k] = [jobs[k] EXCEPT !.status = "pending"]]
    BY <1>1
  <2>2. [jobs[k] EXCEPT !.status = "pending"].status = "pending"
    BY <1>2 DEF Job
  <2> QED BY <1>2, <2>1, <2>2
<1>4. OneWorkerEach'
  <2>1. \A w \in Workers : work[w] # NoWork => work[w].key \in Keys
    BY DEF DocumentInv, Typed, Work
  <2> QED BY <1>1, <1>3, <2>1 DEF LexicalInv, OneWorkerEach
<1>5. \A x \in Keys : jobs'[x].status = jobs[x].status
                      \/ /\ jobs[x].status \in {"pending", "running"}
                         /\ jobs'[x].status \in {"pending", "running", "failed"}
  BY <1>1, <1>3
<1> QED BY <1>1, <1>4, <1>5, KeepsJobMove DEF LexicalInv, RoundsInOrder

(* A worker dies, and its job stays running.                               *)
LEMMA GoesOnDie ==
    ASSUME DocumentInv, LexicalInv, NEW w \in Workers, Die(w) PROVE LexicalInv'
<1>1. \A x \in Workers : work'[x] = IF x = w THEN NoWork ELSE work[x]
  BY DroppedIsTyped DEF DocumentInv, Die
<1>2. UNCHANGED <<row, req, jobs>>
  BY DEF Die
<1>3. OneWorkerEach'
  BY <1>1, <1>2 DEF LexicalInv, OneWorkerEach
<1>4. \A x \in Workers :
        (work'[x] # NoWork /\ work'[x].plan # None /\ work'[x].key.kind = "embed"
         /\ work'[x].plan.kind = "nothing") => ~row.there
  BY <1>1 DEF LexicalInv, RoundsInOrder
<1> QED BY <1>2, <1>3, <1>4, KeepsJobMove

(* A handler decides: an embed job gives up only when the row is gone.     *)
LEMMA GoesOnHandle ==
    ASSUME DocumentInv, LexicalInv, NEW w \in Workers, Handle(w) PROVE LexicalInv'
<1>1. PICK p \in Plans :
        /\ work' = [work EXCEPT ![w].plan = p] /\ work[w] # NoWork /\ work[w].plan = None
        /\ work[w].key.kind = "embed" /\ p.kind = "nothing" =>
             ~row.there \/ row.status = "failed" \/ ~row.chunks
  BY HandlesAPlan
<1>2. /\ \A x \in Workers : x # w => work'[x] = work[x]
      /\ work'[w].key = work[w].key /\ work'[w].plan = p /\ work[w].key \in Keys
  BY <1>1, PlannedIsTyped DEF DocumentInv
<1>3. UNCHANGED <<row, req, jobs>>
  BY DEF Handle
<1>4. OneWorkerEach'
  BY <1>1, <1>2, <1>3 DEF LexicalInv, OneWorkerEach
<1>5. work[w].key.kind = "embed" => Embedding
  <2>1. jobs[work[w].key].status = "running"
    BY <1>1 DEF LexicalInv, OneWorkerEach
  <2> QED BY <1>2, <2>1, KeysAreRecords DEF Embedding, Unused
<1>6. work[w].key.kind = "embed" /\ p.kind = "nothing" => ~row.there
  BY <1>1, <1>5 DEF LexicalInv, RoundsInOrder
<1>7. \A x \in Workers :
        (work'[x] # NoWork /\ work'[x].plan # None /\ work'[x].key.kind = "embed"
         /\ work'[x].plan.kind = "nothing") => ~row.there
  BY <1>2, <1>6 DEF LexicalInv, RoundsInOrder
<1> QED BY <1>3, <1>4, <1>7, KeepsJobMove

(* The jobs after a commit.                                                *)
LEMMA CommitsStatuses ==
    ASSUME DocumentInv, NEW k \in Keys, NEW next
    PROVE  \A x \in Keys : Finished(Enqueued(jobs, next), k)[x].status =
             IF x = k THEN "succeeded"
             ELSE IF x \in next /\ Unused(x) THEN "pending" ELSE jobs[x].status
<1>1. jobs \in [Keys -> Job]
  BY DEF DocumentInv, Typed, TypeOK, Job
<1>2. /\ Enqueued(jobs, next) \in [Keys -> Job]
      /\ \A x \in Keys : Enqueued(jobs, next)[x].status =
                           IF x \in next /\ Unused(x) THEN "pending" ELSE jobs[x].status
  BY <1>1, EnqueuedIsTyped DEF Unused
<1> QED BY <1>2, FinishedIsTyped

(* An ingest or a transcript commits. No embed job has been used so far,   *)
(* so the first round is enqueued and not dropped.                         *)
LEMMA GoesOnParse ==
    ASSUME DocumentInv, LexicalInv, OneWorkerEach', NEW p \in Plans, NEW k \in Keys,
           k.kind # "embed", jobs[k].status = "running", Fits(k, p), p.kind # "nothing",
           p.kind = "embed" => row.chunks, row.there, UNCHANGED req,
           row' = RowAfter(p), jobs' = Finished(Enqueued(jobs, p.next), k),
           \A x \in Workers : work'[x] = NoWork \/ work'[x] = work[x]
    PROVE  LexicalInv'
<1>1. k \in {Ingest, Transcribed} /\ Ingest \in Keys /\ Transcribed \in Keys
      /\ Ingest # Transcribed /\ Ingest.kind # "embed" /\ Transcribed.kind # "embed"
      /\ \A n \in 0..MaxRounds : Embed(n) \in Keys /\ Embed(n).kind = "embed"
                                 /\ Embed(n).round = n
  BY KeysAreRecords
<1>2. Unused(k) = FALSE /\ Done(k) = FALSE
  BY DEF Unused, Done
<1>3. ~ParseEnded
  BY <1>1, <1>2 DEF ParseEnded
<1>4. ~row.chunks /\ ~Embedding
  BY <1>3 DEF LexicalInv, ParsedOnce
<1>5. \A n \in 0..MaxRounds : Unused(Embed(n))
  BY <1>4 DEF Embedding
<1>6. \A x \in Keys : jobs'[x].status =
        IF x = k THEN "succeeded"
        ELSE IF x \in p.next /\ Unused(x) THEN "pending" ELSE jobs[x].status
  BY CommitsStatuses
<1>7. p.next = IF p.to # "ready_lexical" THEN {} ELSE {Embed(0)}
  BY DEF Fits
<1>8. /\ jobs'[k].status = "succeeded"
      /\ \A x \in {Ingest, Transcribed} : x # k => jobs'[x].status = jobs[x].status
      /\ \A n \in 0..MaxRounds : jobs'[Embed(n)].status =
           IF p.to = "ready_lexical" /\ n = 0 THEN "pending" ELSE "absent"
  <2>1. \A x \in {Ingest, Transcribed} : x \notin p.next
    <3>1. Embed(0).kind = "embed"
      BY DEF Embed
    <3> QED BY <1>1, <1>7, <3>1
  <2>2. \A n \in 0..MaxRounds : Embed(n) # k /\ (Embed(n) = Embed(0) <=> n = 0)
    <3>1. 0 \in 0..MaxRounds
      BY AttachmentAssumption
    <3> QED BY <1>1, <3>1
  <2>3. ASSUME NEW n \in 0..MaxRounds
        PROVE  jobs'[Embed(n)].status =
                 IF p.to = "ready_lexical" /\ n = 0 THEN "pending" ELSE "absent"
    <3>1. /\ jobs[Embed(n)].status = "absent" /\ Unused(Embed(n))
          /\ Embed(n) # k /\ Embed(n) \in Keys
      BY <1>1, <1>5, <2>2 DEF Unused
    <3>2. Embed(n) \in p.next <=> p.to = "ready_lexical" /\ n = 0
      BY <1>7, <2>2
    <3> QED BY <1>6, <3>1, <3>2
  <2> QED BY <1>1, <1>6, <2>1, <2>3
<1>9. /\ row'.there /\ row'.status = p.to
      /\ row'.chunks = (p.kind \in {"chunks", "rechunk"})
  BY <1>4, RowAfterIsTyped DEF DocumentInv
<1>10. /\ p.kind \in {"status", "chunks", "rechunk"}
       /\ p.kind = "status" => p.to \in {"needs_ocr", "failed"}
       /\ p.kind # "status" => p.to \in {"ready", "ready_lexical"}
  <2>1. p.kind \in {"nothing", "status", "chunks", "rechunk", "embed"}
    BY DEF Plans
  <2> QED BY <1>4, <2>1 DEF Fits
<1>11. ParseEnded' /\ Done(Ingest)' /\ (Unused(Transcribed)' => k = Ingest)
  <2>1. CASE k = Ingest
    BY <1>1, <1>2, <1>8, <2>1 DEF LexicalInv, ParsedOnce, ParseEnded, Unused, Done
  <2>2. CASE k = Transcribed
    BY <1>1, <1>2, <1>8, <2>2 DEF LexicalInv, ParsedOnce, ParseEnded, Unused, Done
  <2> QED BY <1>1, <2>1, <2>2
<1>12. Embedding' => p.to = "ready_lexical"
  BY <1>8 DEF Embedding, Unused
<1>13. ParsedOnce'
  <2>1. ~Unused(Ingest)' => req'[Upload].at = "end"
    BY <1>1, <1>2, <1>8, <1>11 DEF LexicalInv, ParsedOnce, Unused, Done
  <2>2. ASSUME NEW q \in Posts, req'[q].at \in {"read", "put"}
        PROVE  Done(Ingest)' /\ (Unused(Transcribed)' => ~row'.chunks)
    <3>1. Done(Ingest)
      BY <2>2 DEF LexicalInv, ParsedOnce
    <3>2. k # Ingest
      BY <1>2, <3>1
    <3> QED BY <1>11, <3>2
  <2>3. row'.status = "needs_ocr" => ~row'.chunks
    BY <1>9, <1>10
  <2> QED BY <1>11, <2>1, <2>2, <2>3 DEF ParsedOnce
<1>14. RoundsInOrder'
  <2>1. Embedding' => row'.chunks /\ row'.status # "failed"
    BY <1>9, <1>10, <1>12
  <2>2. \A n, m \in 0..MaxRounds : m = n + 1 => Unused(Embed(m))'
    BY <1>8 DEF Unused
  <2>3. \A x \in Workers : work'[x] = NoWork \/ work'[x].plan = None
                           \/ work'[x].key.kind # "embed" \/ work'[x].plan.kind # "nothing"
    BY DEF LexicalInv, RoundsInOrder
  <2> QED BY <2>1, <2>2, <2>3 DEF RoundsInOrder
<1>15. LexicalGoesOn'
  <2>1. 0 \in 0..MaxRounds
    BY AttachmentAssumption
  <2>2. row'.status = "ready_lexical" => jobs'[Embed(0)].status = "pending"
    BY <1>8, <1>9, <2>1
  <2> QED BY <2>1, <2>2 DEF LexicalGoesOn, Alive
<1> QED BY <1>13, <1>14, <1>15 DEF LexicalInv

(* A round commits. The next one has a key of its own, which is unused.    *)
LEMMA GoesOnEmbed ==
    ASSUME DocumentInv, LexicalInv, OneWorkerEach', NEW p \in Plans, NEW n \in 0..MaxRounds,
           jobs[Embed(n)].status = "running", Fits(Embed(n), p), p.kind # "nothing",
           p.kind = "embed" => row.chunks, row.there, UNCHANGED req,
           row' = RowAfter(p), jobs' = Finished(Enqueued(jobs, p.next), Embed(n)),
           \A x \in Workers : work'[x] = NoWork \/ work'[x] = work[x]
    PROVE  LexicalInv'
<1>1. /\ Ingest \in Keys /\ Transcribed \in Keys
      /\ \A i \in 0..MaxRounds : Embed(i) \in Keys /\ Embed(i).kind = "embed"
                                 /\ Embed(i).round = i
                                 /\ Embed(i) # Ingest /\ Embed(i) # Transcribed
  BY KeysAreRecords
<1>2. p.kind = "embed" /\ row.chunks /\ p.to \in {"ready", "ready_lexical"}
      /\ p.next = IF p.to # "ready_lexical" THEN {} ELSE Rounds(n)
  BY <1>1 DEF Fits
<1>3. \A x \in Keys : jobs'[x].status =
        IF x = Embed(n) THEN "succeeded"
        ELSE IF x \in p.next /\ Unused(x) THEN "pending" ELSE jobs[x].status
  BY <1>1, CommitsStatuses
<1>4. \A x \in p.next : n < MaxRounds /\ x = Embed(n + 1)
  BY <1>2 DEF Rounds
<1>5. MaxRounds \in Nat /\ (n < MaxRounds => n + 1 \in 0..MaxRounds)
  BY AttachmentAssumption
<1>6. n < MaxRounds => Unused(Embed(n + 1))
  BY <1>5 DEF LexicalInv, RoundsInOrder, Done
<1>7. /\ jobs'[Embed(n)].status = "succeeded"
      /\ jobs'[Ingest].status = jobs[Ingest].status
      /\ jobs'[Transcribed].status = jobs[Transcribed].status
  BY <1>1, <1>3, <1>4, <1>5
<1>8. \A i \in 0..MaxRounds : i # n /\ i # n + 1 => jobs'[Embed(i)].status = jobs[Embed(i)].status
  <2>1. SUFFICES ASSUME NEW i \in 0..MaxRounds, i # n, i # n + 1
                 PROVE  jobs'[Embed(i)].status = jobs[Embed(i)].status
    OBVIOUS
  <2>2. Embed(i) # Embed(n)
    BY <1>1, <2>1
  <2>3. Embed(i) \notin p.next
    BY <1>1, <1>4, <1>5, <2>1
  <2> QED BY <1>1, <1>3, <2>2, <2>3
<1>9. n < MaxRounds /\ p.to = "ready_lexical" => jobs'[Embed(n + 1)].status = "pending"
  <2>1. SUFFICES ASSUME n < MaxRounds, p.to = "ready_lexical"
                 PROVE  jobs'[Embed(n + 1)].status = "pending"
    OBVIOUS
  <2>2. Embed(n + 1) \in Keys /\ Embed(n + 1) # Embed(n)
    BY <1>1, <1>5, <2>1
  <2>3. Embed(n + 1) \in p.next
    BY <1>2, <2>1 DEF Rounds
  <2> QED BY <1>3, <1>6, <2>1, <2>2, <2>3
<1>10. /\ row'.there /\ row'.status = p.to /\ row'.chunks = row.chunks
  BY <1>2, RowAfterIsTyped DEF DocumentInv
<1>11. Embedding
  BY DEF Embedding, Unused
<1>12. ParsedOnce'
  <2>1. ParseEnded' <=> ParseEnded
    BY <1>7 DEF ParseEnded, Done, Unused
  <2>2. ParseEnded'
    BY <1>11, <2>1 DEF LexicalInv, ParsedOnce
  <2> QED BY <1>2, <1>7, <1>10, <2>2 DEF LexicalInv, ParsedOnce, Unused, Done
<1>13. RoundsInOrder'
  <2>1. row'.chunks /\ row'.status # "failed"
    BY <1>2, <1>10
  <2>2. ASSUME NEW i \in 0..MaxRounds, NEW m \in 0..MaxRounds, m = i + 1, ~Unused(Embed(m))'
        PROVE  Done(Embed(i))'
    <3>1. CASE i = n
      BY <1>7, <3>1 DEF Done
    <3>2. CASE m = n
      BY <1>8, <2>2, <3>2 DEF LexicalInv, RoundsInOrder, Done, Unused
    <3>3. CASE i # n /\ m # n
      <4>1. jobs'[Embed(m)].status = jobs[Embed(m)].status
        BY <1>8, <2>2, <3>3
      <4>2. Done(Embed(i))
        BY <2>2, <4>1 DEF LexicalInv, RoundsInOrder, Unused
      <4>3. i # n + 1
        BY <1>5, <1>6, <4>2 DEF Done, Unused
      <4> QED BY <1>8, <3>3, <4>2, <4>3 DEF Done
    <3> QED BY <3>1, <3>2, <3>3
  <2>3. \A x \in Workers : work'[x] = NoWork \/ work'[x].plan = None
                           \/ work'[x].key.kind # "embed" \/ work'[x].plan.kind # "nothing"
    BY DEF LexicalInv, RoundsInOrder
  <2> QED BY <2>1, <2>2, <2>3 DEF RoundsInOrder
<1>14. LexicalGoesOn'
  <2>1. CASE n < MaxRounds
    BY <1>5, <1>9, <1>10, <2>1 DEF LexicalGoesOn, Alive
  <2>2. CASE n = MaxRounds
    BY <1>7, <2>2 DEF LexicalGoesOn
  <2> QED BY <1>5, <2>1, <2>2
<1> QED BY <1>12, <1>13, <1>14 DEF LexicalInv

(* A handler commits.                                                      *)
LEMMA GoesOnCommit ==
    ASSUME DocumentInv, LexicalInv, NEW w \in Workers, Commit(w) PROVE LexicalInv'
<1>1. PICK p \in Plans, k \in Keys :
        /\ p = work[w].plan /\ k = work[w].key /\ Fits(k, p) /\ work[w] # NoWork
        /\ work[w].plan # None
        /\ p.kind = "embed" /\ row.there => row.chunks
        /\ \/ p.kind # "nothing" /\ row' = row /\ jobs' = Retried(k)
           \/ p.kind = "nothing" /\ row' = row /\ jobs' = Finished(Enqueued(jobs, p.next), k)
           \/ /\ p.kind # "nothing" /\ row.there
              /\ row' = RowAfter(p) /\ jobs' = Finished(Enqueued(jobs, p.next), k)
        /\ Dropped(w) /\ UNCHANGED req
  BY CommitsAPlan
<1>2. \A x \in Workers : work'[x] = IF x = w THEN NoWork ELSE work[x]
  BY <1>1, DroppedIsTyped DEF DocumentInv
<1>3. jobs \in [Keys -> Job]
  BY DEF DocumentInv, Typed, TypeOK, Job
<1>4. /\ jobs[k].status = "running"
      /\ \A x \in Workers : x # w /\ work[x] # NoWork =>
           work[x].key \in Keys /\ work[x].key # k /\ jobs[work[x].key].status = "running"
  BY <1>1 DEF LexicalInv, OneWorkerEach, DocumentInv, Typed, Work
<1>5. \A x \in Keys : jobs[x].status = "running" /\ x # k => jobs'[x].status = "running"
  <2>1. CASE jobs' = Retried(k)
    BY <1>3, <2>1, RetriedIsTyped
  <2>2. CASE jobs' = Finished(Enqueued(jobs, p.next), k)
    BY <2>2, CommitsStatuses DEF Unused
  <2> QED BY <1>1, <2>1, <2>2
<1>6. OneWorkerEach'
  BY <1>2, <1>4, <1>5 DEF LexicalInv, OneWorkerEach
<1>7. CASE row' = row /\ jobs' = Retried(k)
  <2>1. \A x \in Keys : jobs'[x].status = jobs[x].status
                        \/ /\ jobs[x].status \in {"pending", "running"}
                           /\ jobs'[x].status \in {"pending", "running", "failed"}
    BY <1>3, <1>4, <1>7, RetriedIsTyped
  <2>2. \A x \in Workers :
          (work'[x] # NoWork /\ work'[x].plan # None /\ work'[x].key.kind = "embed"
           /\ work'[x].plan.kind = "nothing") => ~row.there
    BY <1>2 DEF LexicalInv, RoundsInOrder
  <2> QED BY <1>1, <1>6, <1>7, <2>1, <2>2, KeepsJobMove
<1>8. CASE /\ p.kind = "nothing" /\ row' = row
           /\ jobs' = Finished(Enqueued(jobs, p.next), k)
  <2>1. p.next = {}
    BY <1>1, <1>8 DEF Fits, Nothing, Plan
  <2>2. \A x \in Keys : jobs'[x].status = IF x = k THEN "succeeded" ELSE jobs[x].status
    BY <1>8, <2>1, CommitsStatuses
  <2>3. \A x \in Keys : (Unused(x)' <=> Unused(x)) /\ (Done(x) => Done(x)')
    BY <1>4, <2>2 DEF Unused, Done
  <2>4. (Embedding' <=> Embedding) /\ (ParseEnded => ParseEnded')
    BY <2>3, KeysAreRecords DEF Embedding, ParseEnded
  <2>5. ParsedOnce'
    BY <1>1, <1>8, <2>3, <2>4, KeysAreRecords DEF LexicalInv, ParsedOnce
  <2>6. RoundsInOrder'
    BY <1>2, <1>8, <2>3, <2>4, KeysAreRecords DEF LexicalInv, RoundsInOrder
  <2>7. k.kind = "embed" => ~row.there
    BY <1>1, <1>8 DEF LexicalInv, RoundsInOrder
  <2>8. k.kind # "embed" =>
          \A n \in 0..MaxRounds : jobs'[Embed(n)].status = jobs[Embed(n)].status
    BY <2>2, KeysAreRecords
  <2>9. LexicalGoesOn'
    BY <1>8, <2>7, <2>8 DEF LexicalInv, LexicalGoesOn, Alive
  <2> QED BY <1>6, <2>5, <2>6, <2>9 DEF LexicalInv
<1>9. CASE /\ p.kind # "nothing" /\ row.there /\ row' = RowAfter(p)
           /\ jobs' = Finished(Enqueued(jobs, p.next), k)
  <2>1. \A x \in Workers : work'[x] = NoWork \/ work'[x] = work[x]
    BY <1>2
  <2>2. CASE k.kind # "embed"
    BY <1>1, <1>4, <1>6, <1>9, <2>1, <2>2, GoesOnParse
  <2>3. CASE k.kind = "embed"
    <3>1. k.round \in 0..MaxRounds /\ k = Embed(k.round)
      BY <2>3, KeysAreRecords
    <3> QED BY <1>1, <1>4, <1>6, <1>9, <2>1, <3>1, GoesOnEmbed
  <2> QED BY <2>2, <2>3
<1> QED BY <1>1, <1>7, <1>8, <1>9

(* The steps of a posted transcript: the document has no chunks yet, or    *)
(* the key has been used.                                                  *)
LEMMA GoesOnTranscript ==
    ASSUME DocumentInv, LexicalInv, DocumentInv', NEW q \in Posts,
           ReadParked(q) \/ PutTranscript(q) \/ CommitTranscript(q)
    PROVE  LexicalInv'
<1>1. q \in Requests /\ q # Upload
  BY NamesAreRequests
<1>2. CASE ReadParked(q)
  <2>1. At(q, "read") /\ row.there /\ row.status = "needs_ocr" /\ UNCHANGED <<row, jobs, work>>
    BY <1>2 DEF ReadParked
  <2>2. /\ req[Upload].at = "end" => req'[Upload].at = "end"
        /\ \A x \in Posts : req'[x].at \in {"read", "put"} =>
             req[x].at \in {"read", "put"} \/ (row.there /\ row.status = "needs_ocr")
    BY <1>1, <2>1, RequestsGoOn
  <2> QED BY <2>1, <2>2, KeepsElsewhere
<1>3. CASE PutTranscript(q)
  <2>1. req[q].at = "read" /\ (At(q, "put") \/ At(q, "end")) /\ UNCHANGED <<row, jobs, work>>
    BY <1>3 DEF PutTranscript
  <2>2. PICK where \in {"put", "end"} : At(q, where)
    BY <2>1
  <2>3. /\ req[Upload].at = "end" => req'[Upload].at = "end"
        /\ \A x \in Posts : req'[x].at \in {"read", "put"} =>
             req[x].at \in {"read", "put"} \/ (row.there /\ row.status = "needs_ocr")
    BY <1>1, <2>1, <2>2, RequestsGoOn
  <2> QED BY <2>1, <2>3, KeepsElsewhere
<1>4. CASE CommitTranscript(q)
  <2>1. req[q].at = "put" /\ At(q, "end") /\ UNCHANGED work
    BY <1>4 DEF CommitTranscript
  <2>2. /\ req[Upload].at = "end" => req'[Upload].at = "end"
        /\ \A x \in Posts : req'[x].at \in {"read", "put"} =>
             req[x].at \in {"read", "put"} \/ (row.there /\ row.status = "needs_ocr")
    BY <1>1, <2>1, RequestsGoOn
  <2>3. CASE ~row.there
    <3>1. UNCHANGED <<row, jobs>>
      BY <1>4, <2>3 DEF CommitTranscript
    <3> QED BY <2>1, <2>2, <3>1, KeepsElsewhere
  <2>4. CASE row.there
    <3>1. row' = [row EXCEPT !.status = "pending"] /\ jobs' = Enqueued(jobs, {Transcribed})
      BY <1>4, <2>4 DEF CommitTranscript, TranscriptJob
    <3>2. /\ row'.there /\ row'.status = "pending" /\ row'.chunks = row.chunks
      <4>1. row \in Row
        BY DEF DocumentInv, Typed, TypeOK
      <4> QED BY <2>4, <3>1, <4>1 DEF Row
    <3>3. jobs \in [Keys -> Job]
      BY DEF DocumentInv, Typed, TypeOK, Job
    <3>4. \A x \in Keys : jobs'[x].status =
            IF x = Transcribed /\ Unused(Transcribed) THEN "pending" ELSE jobs[x].status
      BY <3>1, <3>3, EnqueuedIsTyped DEF Unused
    <3>5. /\ jobs'[Ingest].status = jobs[Ingest].status
          /\ jobs'[Transcribed].status =
               IF Unused(Transcribed) THEN "pending" ELSE jobs[Transcribed].status
          /\ \A n \in 0..MaxRounds : jobs'[Embed(n)].status = jobs[Embed(n)].status
      BY <3>4, KeysAreRecords
    <3>6. ~Unused(Transcribed)' /\ (Embedding' <=> Embedding)
      BY <3>5 DEF Unused, Embedding
    <3>7. Done(Ingest) /\ (Unused(Transcribed) => ~row.chunks /\ ~Embedding)
      BY <2>1, <2>4 DEF LexicalInv, ParsedOnce, RoundsInOrder
    <3>8. OneWorkerEach'
      <4>1. \A w \in Workers : work[w] # NoWork =>
              work[w].key \in Keys /\ jobs[work[w].key].status = "running"
        BY DEF LexicalInv, OneWorkerEach, DocumentInv, Typed, Work
      <4> QED BY <2>1, <3>4, <4>1 DEF LexicalInv, OneWorkerEach, Unused
    <3>9. ParsedOnce'
      <4>1. ~Unused(Ingest)' => req'[Upload].at = "end"
        BY <2>2, <3>5 DEF LexicalInv, ParsedOnce, Unused
      <4>2. row'.chunks \/ Embedding' => ParseEnded'
        BY <3>2, <3>5, <3>6, <3>7 DEF LexicalInv, ParsedOnce, ParseEnded, Done, Unused
      <4> QED BY <3>2, <3>5, <3>6, <3>7, <4>1, <4>2 DEF ParsedOnce, Done
    <3>10. RoundsInOrder'
      BY <2>1, <2>4, <3>2, <3>5, <3>6 DEF LexicalInv, RoundsInOrder, Done, Unused
    <3>11. LexicalGoesOn'
      BY <3>2 DEF LexicalGoesOn
    <3> QED BY <3>8, <3>9, <3>10, <3>11 DEF LexicalInv
  <2> QED BY <2>3, <2>4
<1> QED BY <1>2, <1>3, <1>4

(* The steps of a save or a fork.                                          *)
LEMMA GoesOnSavingOrForking ==
    ASSUME DocumentInv, LexicalInv, DocumentInv',
           ReadToSave \/ CommitSave \/ ReadToFork \/ CommitFork
    PROVE  LexicalInv'
<1>1. PICK q \in {Save, ForkIt}, where \in {"read", "end"} : At(q, where)
  BY DEF ReadToSave, CommitSave, ReadToFork, CommitFork
<1>2. q \in Requests /\ q \notin Posts /\ q # Upload
  BY NamesAreRequests
<1>3. /\ req[Upload].at = "end" => req'[Upload].at = "end"
      /\ \A x \in Posts : req'[x].at \in {"read", "put"} =>
           req[x].at \in {"read", "put"} \/ (row.there /\ row.status = "needs_ocr")
  BY <1>1, <1>2, RequestsGoOn
<1>4. /\ UNCHANGED <<jobs, work>>
      /\ row' = row \/ row' = [row EXCEPT !.scope = "user", !.home = None]
  BY DEF ReadToSave, CommitSave, ReadToFork, CommitFork
<1>5. row'.there = row.there /\ row'.chunks = row.chunks /\ row'.status = row.status
  <2>1. row \in Row
    BY DEF DocumentInv, Typed, TypeOK
  <2> QED BY <1>4, <2>1 DEF Row
<1>6. ~row'.there => row' = NoRow
  BY DEF DocumentInv, Typed
<1> QED BY <1>3, <1>4, <1>5, <1>6, KeepsElsewhere

(* The steps of a deletion.                                                *)
LEMMA GoesOnDelete ==
    ASSUME DocumentInv, LexicalInv, DocumentInv', NEW s \in Deletes,
           ReadToDelete(s) \/ CommitDelete(s) \/ ReclaimObjects(s)
    PROVE  LexicalInv'
<1>1. s \in Requests /\ s \notin Posts /\ s # Upload /\ Upload \in Requests
      /\ \A x \in Posts : x \in Requests
  BY NamesAreRequests
<1>2. \A x \in Requests : x # s => req'[x].at = req[x].at
  <2>1. CASE ReadToDelete(s)
    BY <2>1 DEF DocumentInv, Typed, ReadToDelete
  <2>2. CASE CommitDelete(s) \/ ReclaimObjects(s)
    <3>1. PICK where \in {"reclaim", "end"} : At(s, where)
      BY <2>2 DEF CommitDelete, ReclaimObjects, NextOf
    <3> QED BY <1>1, <3>1, AtIsTyped DEF DocumentInv
  <2> QED BY <2>1, <2>2
<1>3. /\ req[Upload].at = "end" => req'[Upload].at = "end"
      /\ \A x \in Posts : req'[x].at \in {"read", "put"} => req[x].at \in {"read", "put"}
  BY <1>1, <1>2
<1>4. UNCHANGED <<jobs, work>>
  BY DEF ReadToDelete, CommitDelete, ReclaimObjects
<1>5. row' = row \/ row' = NoRow \/ \E home : row' = [row EXCEPT !.home = home]
  BY DEF ReadToDelete, CommitDelete, ReclaimObjects
<1>6. row'.there => row.there /\ row'.chunks = row.chunks /\ row'.status = row.status
  <2>1. row \in Row /\ ~NoRow.there
    BY DEF DocumentInv, Typed, TypeOK, NoRow
  <2> QED BY <1>5, <2>1 DEF Row
<1>7. ~row'.there => row' = NoRow
  BY DEF DocumentInv, Typed
<1> QED BY <1>3, <1>4, <1>6, <1>7, KeepsElsewhere

(* A request dies with its process.                                        *)
LEMMA GoesOnCut ==
    ASSUME DocumentInv, LexicalInv, DocumentInv', NEW q \in Requests, Cut(q) PROVE LexicalInv'
<1>1. req[q].at # "end" /\ At(q, "end") /\ UNCHANGED <<row, jobs, work>>
  BY DEF Cut
<1>2. /\ req[Upload].at = "end" => req'[Upload].at = "end"
      /\ \A x \in Posts : req'[x].at \in {"read", "put"} =>
           req[x].at \in {"read", "put"} \/ (row.there /\ row.status = "needs_ocr")
  BY <1>1, RequestsGoOn
<1> QED BY <1>1, <1>2, KeepsElsewhere

(* The invariant of the jobs holds initially ...                           *)
LEMMA LexicalInit == ASSUME Init PROVE LexicalInv
<1>1. \A w \in Workers : work[w] = NoWork
  BY DEF Init
<1>2. \A k \in Keys : Unused(k) /\ ~Done(k)
  BY DEF Init, NoJob, Unused, Done
<1>3. ~row.there /\ ~row.chunks
  BY DEF Init, NoRow
<1>4. \A q \in Posts : req[q].at = "start"
  BY NamesAreRequests DEF Init
<1>5. Unused(Ingest) /\ Unused(Transcribed) /\ \A n \in 0..MaxRounds : Unused(Embed(n))
  BY <1>2, KeysAreRecords
<1>6. OneWorkerEach
  BY <1>1 DEF OneWorkerEach
<1>7. ParsedOnce
  BY <1>3, <1>4, <1>5 DEF ParsedOnce, Embedding
<1>8. RoundsInOrder
  BY <1>1, <1>3, <1>5 DEF RoundsInOrder, Embedding
<1>9. LexicalGoesOn
  BY <1>3 DEF LexicalGoesOn
<1> QED BY <1>6, <1>7, <1>8, <1>9 DEF LexicalInv

(* ... and every step keeps it, as long as no lease runs out under a live  *)
(* worker.                                                                 *)
LEMMA LexicalStep ==
    ASSUME ~Overlap, DocumentInv, DocumentInv', LexicalInv, [Next]_vars PROVE LexicalInv'
<1>1. CASE UNCHANGED vars
  <2>1. UNCHANGED <<row, jobs, req, work>>
    BY <1>1 DEF vars
  <2> QED BY <2>1, KeepsElsewhere
<1>2. CASE Next
  BY <1>2, GoesOnPutUpload, GoesOnCommitUpload, GoesOnClaim, GoesOnHandle, GoesOnCommit,
     GoesOnDie, GoesOnReclaim, GoesOnTranscript, GoesOnSavingOrForking, GoesOnDelete, GoesOnCut
     DEF Next
<1> QED BY <1>1, <1>2

(* As long as no lease runs out under a live worker, a document that is    *)
(* only lexical has an embed job to come, whatever crashes, replays, posts *)
(* and deletions happen: the key of the next round is never used before    *)
(* (document_ingest.py).                                                   *)
THEOREM LexicalsGoOn == ASSUME ~Overlap PROVE Spec => []LexicalGoesOn
<1>1. Init => DocumentInv /\ LexicalInv
  BY DocumentInit, LexicalInit
<1>2. DocumentInv /\ LexicalInv /\ [Next]_vars => DocumentInv' /\ LexicalInv'
  BY DocumentStep, LexicalStep
<1>3. LexicalInv => LexicalGoesOn
  BY DEF LexicalInv
<1> QED BY <1>1, <1>2, <1>3, PTL DEF Spec

----------------------------------------------------------------------------
(***************************************************************************)
(* Proofs about StorageMigration, for any objects, buckets, processes and  *)
(* portal requests and any bounds and faults.                              *)
(*                                                                         *)
(* Two invariants.  CopyInv is about bytes.  It speaks of the keys that    *)
(* are written once: what a loop, a clean-up or the table of marks has     *)
(* down as copied is on the bucket (CopiedIsThere), so whatever of these   *)
(* a clean-up unlinks stays readable (BytesSomewhere).  The bucket is one  *)
(* that somebody has chosen as soon as a migration exists (TargetChosen).  *)
(*                                                                         *)
(* StageInv is about who may move the row on.  If no lease runs out under  *)
(* a live loop and portal requests come one at a time, a loop that runs    *)
(* runs alone and on the row as it is (LoopAlone), a request writes over   *)
(* the row it has read (RequestsCurrent), and a process that still         *)
(* publishes an older snapshot errs on the side of two copies              *)
(* (SnapshotsCurrent); so the disk has every object for as long as a       *)
(* rollback may need it (DiskComplete).                                    *)
(***************************************************************************)
(* Types.  The process of a record that has none is any value.             *)
Anyone == Apis \cup {CHOOSE p \in Apis : TRUE}
Targets == Buckets \cup {NoBucket}
Err == [key : ObjectKeys, missing : BOOLEAN]
Obj == [at : {"new", "put", "marked", "live", "dropped", "gone"}, by : Anyone,
        s3 : BOOLEAN, ref : BOOLEAN]
Config == [active : {"local", "s3"}, bucket : Targets]
Mig == [state : States, leased : BOOLEAN, passed : SUBSET ObjectKeys, errs : Seq(Err)]
Snap == [up : BOOLEAN, backend : {"local", "s3"}, dual : BOOLEAN, bucket : Targets]
Loop == [at : {"off", "claim", "look", "pass", "judge"}, st : States,
         keys : SUBSET ObjectKeys,
         todo : SUBSET ObjectKeys, marks : SUBSET ObjectKeys, errs : Seq(Err)]
Asked == [op : Ops \cup {"none"}, at : {"idle", "read", "list", "unlink"},
          st : States,
          by : Anyone, keys : SUBSET ObjectKeys]

(* The types, of all that the steps read.                                  *)
StoreTyped ==
    /\ disk \in SUBSET ObjectKeys
    /\ s3 \in [Buckets -> SUBSET ObjectKeys]
    /\ obj \in [ObjectKeys -> Obj]
    /\ config \in Config
    /\ mig \in Mig
    /\ Len(mig.errs) <= ErrCap
    /\ done \in SUBSET ObjectKeys
    /\ snap \in [Apis -> Snap]
    /\ loop \in [Apis -> Loop]
    /\ \A p \in Apis : loop[p].at \in {"off", "claim"} \/ loop[p].st \in Copying
    /\ asked \in [Portals -> Asked]

(* error_keys is cut to its last ErrCap entries.                           *)
LEMMA ErrorsKept ==
    ASSUME NEW e \in Seq(Err)
    PROVE  Kept(e) \in Seq(Err) /\ Len(Kept(e)) <= ErrCap
<1> DEFINE m == IF Len(e) > ErrCap THEN Len(e) - ErrCap + 1 ELSE 1
<1>1. Len(e) \in Nat /\ ErrCap \in Nat
  BY LenProperties, StorageAssumption DEF StorageAssumption
<1>2. /\ m \in 1..(Len(e) + 1) /\ Len(e) \in (m - 1)..Len(e)
      /\ Len(e) - m + 1 <= ErrCap
  BY <1>1
<1>3. /\ SubSeq(e, m, Len(e)) \in Seq(Err)
      /\ Len(SubSeq(e, m, Len(e))) = Len(e) - m + 1
  <2> HIDE DEF m
  <2> QED BY <1>1, <1>2, SubSeqProperties
<1> QED BY <1>2, <1>3 DEF Kept

(* The records that variables start from.                                  *)
LEMMA RecordsAreTyped ==
    /\ Off \in Loop /\ NoReq \in Asked /\ NewObj \in Obj
    /\ Down \in Snap
    /\ \A c \in Config, m \in Mig : Snapshot(c, m) \in Snap
<1>1. <<>> \in Seq(Err)
  OBVIOUS
<1>2. Off \in Loop
  BY <1>1 DEF Off, Loop, States
<1>3. NoReq \in Asked /\ NewObj \in Obj /\ Down \in Snap
  BY DEF NoReq, Asked, States, NewObj, Obj, Down, Snap, Anyone, Targets
<1>4. ASSUME NEW c \in Config, NEW m \in Mig PROVE Snapshot(c, m) \in Snap
  BY DEF Snapshot, Snap, Config, Mig, Targets
<1> QED BY <1>2, <1>3, <1>4

(* A loop that goes on to a typed state.                                   *)
LEMMA LoopIsTyped ==
    ASSUME StoreTyped, NEW p \in Apis, NEW l \in Loop, LoopSet(p, l),
           l.at \in {"off", "claim"} \/ l.st \in Copying
    PROVE  /\ loop' \in [Apis -> Loop]
           /\ \A q \in Apis : loop'[q] = IF q = p THEN l ELSE loop[q]
           /\ \A q \in Apis : loop'[q].at \in {"off", "claim"} \/ loop'[q].st \in Copying
BY DEF StoreTyped, LoopSet

(* A snapshot of typed rows.                                               *)
LEMMA PublishedIsTyped ==
    ASSUME StoreTyped, NEW p, NEW c \in Config, NEW m \in Mig, Publish(p, c, m)
    PROVE  /\ snap' \in [Apis -> Snap]
           /\ \A q \in Apis : snap'[q] = IF q = p THEN Snapshot(c, m) ELSE snap[q]
BY RecordsAreTyped DEF StoreTyped, Publish

(* What a put leaves in the stores.                                        *)
LEMMA PutIsTyped ==
    ASSUME StoreTyped, NEW p \in Apis, NEW k \in ObjectKeys, NEW ok \in BOOLEAN
    PROVE  /\ Onto(snap[p], k, ok) \in [Buckets -> SUBSET ObjectKeys]
           /\ Stored(disk, k, ok) \in SUBSET ObjectKeys
BY DEF StoreTyped, Onto, Stored

(* What a deletion leaves in the buckets.                                  *)
LEMMA WithoutIsTyped ==
    ASSUME StoreTyped, NEW p \in Apis, NEW k \in ObjectKeys
    PROVE  Without(snap[p], k) \in [Buckets -> SUBSET ObjectKeys]
BY DEF StoreTyped, Without

(* The types, for the steps of a writer ...                                *)
LEMMA TypedObjects ==
    ASSUME StoreTyped, NEW p \in Apis, NEW k \in ObjectKeys, ObjectStep(p, k)
    PROVE  StoreTyped'
<1>1. ASSUME Put(p, k) PROVE StoreTyped'
  <2>1. /\ disk' \in SUBSET ObjectKeys /\ s3' \in [Buckets -> SUBSET ObjectKeys]
        /\ obj' \in [ObjectKeys -> Obj]
    <3>1. obj[k].ref \in BOOLEAN /\ p \in Anyone /\ snap[p].dual \in BOOLEAN
      BY DEF StoreTyped, Obj, Snap, Anyone
    <3>2. ASSUME PutLocal(p, k, obj[k].ref)
          PROVE  /\ disk' \in SUBSET ObjectKeys /\ s3' \in [Buckets -> SUBSET ObjectKeys]
                 /\ obj' \in [ObjectKeys -> Obj]
      <4>1. PICK ok \in BOOLEAN :
              /\ s3' = Onto(snap[p], k, ok)
              /\ obj' = [obj EXCEPT ![k] = [at |-> "put", by |-> p, s3 |-> ok /\ snap[p].dual,
                                            ref |-> obj[k].ref]]
        BY <3>2 DEF PutLocal
      <4>2. [at |-> "put", by |-> p, s3 |-> ok /\ snap[p].dual, ref |-> obj[k].ref] \in Obj
        BY <3>1 DEF Obj
      <4> QED BY <3>2, <4>1, <4>2, PutIsTyped DEF PutLocal, StoreTyped
    <3>3. ASSUME PutS3(p, k, obj[k].ref)
          PROVE  /\ disk' \in SUBSET ObjectKeys /\ s3' \in [Buckets -> SUBSET ObjectKeys]
                 /\ obj' \in [ObjectKeys -> Obj]
      <4>1. PICK ok \in BOOLEAN : disk' = Stored(disk, k, ok /\ snap[p].dual)
        BY <3>3 DEF PutS3
      <4>2. [at |-> "put", by |-> p, s3 |-> TRUE, ref |-> obj[k].ref] \in Obj
        BY <3>1 DEF Obj
      <4>3. /\ s3' = Onto(snap[p], k, TRUE)
            /\ obj' = [obj EXCEPT ![k] = [at |-> "put", by |-> p, s3 |-> TRUE,
                                          ref |-> obj[k].ref]]
        BY <3>3 DEF PutS3
      <4> QED BY <4>1, <4>2, <4>3, PutIsTyped DEF StoreTyped
    <3> QED BY <1>1, <3>2, <3>3 DEF Put
  <2> QED BY <1>1, <2>1 DEF Put, Objects, StoreTyped
<1>2. ASSUME Mark(p, k) \/ Refer(p, k) \/ Unrefer(p, k) \/ Delete(p, k)
      PROVE  StoreTyped'
  <2>1. obj' \in [ObjectKeys -> Obj]
    <3>1. p \in Anyone /\ obj[k] \in Obj
      BY DEF Anyone, StoreTyped
    <3>2. /\ [obj[k] EXCEPT !.at = "marked"] \in Obj
          /\ [obj[k] EXCEPT !.at = "live", !.ref = TRUE] \in Obj
          /\ [obj[k] EXCEPT !.at = "dropped", !.by = p, !.ref = FALSE] \in Obj
          /\ [obj[k] EXCEPT !.at = "gone"] \in Obj
      BY <3>1 DEF Obj
    <3>3. CASE Mark(p, k)
      BY <3>2, <3>3 DEF StoreTyped, Mark
    <3>4. CASE Refer(p, k)
      BY <3>2, <3>4 DEF StoreTyped, Refer
    <3>5. CASE Unrefer(p, k)
      BY <3>2, <3>5 DEF StoreTyped, Unrefer
    <3>6. CASE Delete(p, k)
      BY <3>2, <3>6 DEF StoreTyped, Delete
    <3> QED BY <1>2, <3>3, <3>4, <3>5, <3>6
  <2>2. done' \in SUBSET ObjectKeys /\ disk' \in SUBSET ObjectKeys
    <3>1. CASE Mark(p, k)
      BY <3>1 DEF Mark, StoreTyped
    <3>2. CASE Delete(p, k)
      BY <3>2 DEF Delete, StoreTyped
    <3> QED BY <1>2, <3>1, <3>2 DEF Refer, Unrefer, StoreTyped
  <2>3. s3' \in [Buckets -> SUBSET ObjectKeys]
    <3>1. s3' = s3 \/ s3' = Without(snap[p], k)
      BY <1>2 DEF Mark, Refer, Unrefer, Delete
    <3> QED BY <3>1, WithoutIsTyped DEF StoreTyped
  <2>4. UNCHANGED <<config, mig, snap, loop, asked>>
    BY <1>2 DEF Mark, Refer, Unrefer, Delete, Objects
  <2> QED BY <2>1, <2>2, <2>3, <2>4 DEF StoreTyped
<1> QED BY <1>1, <1>2 DEF ObjectStep

(* ... of the copy loop ...                                                *)
LEMMA TypedLoops ==
    ASSUME StoreTyped, NEW p \in Apis, LoopStep(p)
    PROVE  StoreTyped'
<1>0. /\ loop[p] \in Loop /\ mig \in Mig /\ config \in Config
      /\ loop[p].at \in {"off", "claim"} \/ loop[p].st \in Copying
  BY DEF StoreTyped
<1>1. ASSUME ClaimLease(p) PROVE StoreTyped'
  <2>1. /\ [Off EXCEPT !.at = "look", !.st = mig.state, !.errs = mig.errs] \in Loop
        /\ [Off EXCEPT !.at = "look", !.st = mig.state, !.errs = mig.errs].st = mig.state
        /\ Off \in Loop /\ Off.at = "off"
    BY <1>0, RecordsAreTyped DEF Loop, Mig, Off
  <2>2. /\ loop' \in [Apis -> Loop]
        /\ \A q \in Apis : loop'[q].at \in {"off", "claim"} \/ loop'[q].st \in Copying
    BY <1>1, <2>1, LoopIsTyped DEF ClaimLease
  <2>3. mig' \in Mig /\ mig'.errs = mig.errs
    BY <1>0, <1>1 DEF ClaimLease, Leased, Mig
  <2> QED BY <1>1, <2>2, <2>3 DEF ClaimLease, Rest, StoreTyped
<1>2. ASSUME Validate(p) PROVE StoreTyped'
  <2>1. /\ [loop[p] EXCEPT !.st = "copying"] \in Loop
        /\ [loop[p] EXCEPT !.st = "copying"].st = "copying"
        /\ Off \in Loop /\ Off.at = "off"
    BY <1>0, RecordsAreTyped DEF Loop, Off, States
  <2>2. /\ loop' \in [Apis -> Loop]
        /\ \A q \in Apis : loop'[q].at \in {"off", "claim"} \/ loop'[q].st \in Copying
    BY <1>2, <2>1, LoopIsTyped DEF Validate, Copying
  <2>3. mig' \in Mig /\ mig'.errs = mig.errs
    BY <1>0, <1>2 DEF Validate, Mig, States
  <2> QED BY <1>2, <2>2, <2>3 DEF Validate, Rest, StoreTyped
<1>3. ASSUME BeginPass(p) PROVE StoreTyped'
  <2> DEFINE l == [loop[p] EXCEPT !.at = "pass", !.keys = Referenced,
                     !.todo = IF loop[p].st = "copying" THEN Referenced \ mig.passed
                              ELSE Referenced]
  <2>1. l \in Loop /\ l.st = loop[p].st /\ loop[p].st \in Copying
    BY <1>0, <1>3 DEF Loop, Referenced, BeginPass, Copying
  <2>2. /\ loop' \in [Apis -> Loop]
        /\ \A q \in Apis : loop'[q].at \in {"off", "claim"} \/ loop'[q].st \in Copying
    BY <1>3, <2>1, LoopIsTyped DEF BeginPass
  <2> QED BY <1>3, <2>2 DEF BeginPass, Rest, StoreTyped
<1>4. ASSUME CommitBatch(p) PROVE StoreTyped'
  <2> DEFINE l == [loop[p] EXCEPT !.marks = {}, !.errs = Kept(@),
                                  !.at = IF loop[p].todo = {} THEN "judge" ELSE @]
  <2>1. loop[p].errs \in Seq(Err)
    BY <1>0 DEF Loop
  <2>2. Kept(loop[p].errs) \in Seq(Err) /\ Len(Kept(loop[p].errs)) <= ErrCap
    BY <2>1, ErrorsKept
  <2>3. l \in Loop /\ l.st = loop[p].st /\ loop[p].st \in Copying
    BY <1>0, <1>4, <2>2 DEF Loop, CommitBatch
  <2>4. /\ loop' \in [Apis -> Loop]
        /\ \A q \in Apis : loop'[q].at \in {"off", "claim"} \/ loop'[q].st \in Copying
    BY <1>4, <2>3, LoopIsTyped DEF CommitBatch
  <2>5. mig' \in Mig /\ mig'.errs = Kept(loop[p].errs)
    BY <1>0, <1>4, <2>2 DEF CommitBatch, Mig, Loop
  <2>6. done' \in SUBSET ObjectKeys
    BY <1>0, <1>4 DEF CommitBatch, Loop, StoreTyped
  <2> QED BY <1>4, <2>2, <2>4, <2>5, <2>6 DEF CommitBatch, Rest, StoreTyped
<1>5. ASSUME Judge(p) PROVE StoreTyped'
  <2>1. /\ [loop[p] EXCEPT !.at = "look", !.st = "verifying"] \in Loop
        /\ [loop[p] EXCEPT !.at = "look", !.st = "verifying"].st = "verifying"
        /\ [loop[p] EXCEPT !.at = "look"] \in Loop
        /\ [loop[p] EXCEPT !.at = "look"].st = loop[p].st
        /\ Off \in Loop /\ Off.at = "off"
    BY <1>0, RecordsAreTyped DEF Loop, Off, States
  <2>2. /\ loop' \in [Apis -> Loop]
        /\ \A q \in Apis : loop'[q].at \in {"off", "claim"} \/ loop'[q].st \in Copying
    BY <1>5, <2>1, LoopIsTyped DEF Judge, Copying
  <2>3. mig' \in Mig /\ mig'.errs = mig.errs
    BY <1>0, <1>5 DEF Judge, Mig, States
  <2>4. snap' \in [Apis -> Snap]
    BY <1>0, <1>5, <2>3, PublishedIsTyped DEF Judge, StoreTyped
  <2> QED BY <1>5, <2>2, <2>3, <2>4 DEF Judge, Rest, StoreTyped
<1>6. ASSUME NEW k \in ObjectKeys, CopyKey(p, k) PROVE StoreTyped'
  <2> DEFINE lp == [loop[p] EXCEPT !.todo = @ \ {k}]
             ok == [lp EXCEPT !.marks = @ \cup {k}]
             bad(m) == [lp EXCEPT !.errs = Append(@, [key |-> k, missing |-> m])]
  <2>1. lp \in Loop /\ lp.st = loop[p].st /\ lp.errs = loop[p].errs /\ lp.marks = loop[p].marks
    BY <1>0 DEF Loop
  <2>2. ok \in Loop /\ ok.st = loop[p].st
    <3> HIDE DEF lp
    <3> QED BY <2>1 DEF Loop
  <2>3. ASSUME NEW m \in BOOLEAN PROVE bad(m) \in Loop /\ bad(m).st = loop[p].st
    <3>1. Append(lp.errs, [key |-> k, missing |-> m]) \in Seq(Err)
      BY <2>1, AppendProperties DEF Loop, Err
    <3> HIDE DEF lp
    <3> QED BY <2>1, <3>1 DEF Loop
  <2>4. \/ LoopSet(p, lp) \/ LoopSet(p, ok)
        \/ LoopSet(p, bad(TRUE)) \/ LoopSet(p, bad(FALSE))
    BY <1>6 DEF CopyKey
  <2>5. loop[p].st \in Copying
    BY <1>0, <1>6 DEF CopyKey
  <2>6. /\ loop' \in [Apis -> Loop]
        /\ \A q \in Apis : loop'[q].at \in {"off", "claim"} \/ loop'[q].st \in Copying
    <3> HIDE DEF lp, ok, bad
    <3> QED BY <2>1, <2>2, <2>3, <2>4, <2>5, LoopIsTyped
  <2>7. s3' \in [Buckets -> SUBSET ObjectKeys]
    BY <1>6 DEF CopyKey, StoreTyped
  <2> QED BY <1>6, <2>6, <2>7 DEF CopyKey, Rest, StoreTyped
<1> QED BY <1>1, <1>2, <1>3, <1>4, <1>5, <1>6 DEF LoopStep

(* ... of a process ...                                                    *)
LEMMA TypedProcesses ==
    ASSUME StoreTyped, NEW p \in Apis,
           \/ Start(p) \/ Reload(p) \/ ProcessDies(p) \/ Boot(p)
           \/ \E b \in Buckets : SetBucket(p, b)
    PROVE  StoreTyped'
<1>0. mig \in Mig /\ config \in Config /\ Off \in Loop /\ Off.at = "off"
  BY RecordsAreTyped DEF StoreTyped, Off
<1>9. [Off EXCEPT !.at = "claim"] \in Loop /\ [Off EXCEPT !.at = "claim"].at = "claim"
  BY <1>0 DEF Loop
<1>1. ASSUME Start(p) PROVE StoreTyped'
  <2>1. mig' \in Mig /\ Len(mig'.errs) <= ErrCap
    <3>1. mig' \in Mig /\ mig'.errs = <<>>
      BY <1>1 DEF Start, Mig, States
    <3>2. Len(<<>>) <= ErrCap
      BY StorageAssumption DEF StorageAssumption
    <3> QED BY <3>1, <3>2
  <2>2. /\ loop' \in [Apis -> Loop]
        /\ \A q \in Apis : loop'[q].at \in {"off", "claim"} \/ loop'[q].st \in Copying
    BY <1>1, <1>9 DEF Start, StoreTyped
  <2>3. snap' \in [Apis -> Snap]
    BY <1>0, <1>1, <2>1, PublishedIsTyped DEF Start
  <2> QED BY <1>1, <2>1, <2>2, <2>3 DEF Start, Store, StoreTyped
<1>2. ASSUME Reload(p) PROVE StoreTyped'
  <2>1. snap' \in [Apis -> Snap]
    BY <1>0, <1>2, PublishedIsTyped DEF Reload, Published
  <2> QED BY <1>2, <2>1 DEF Reload, Store, StoreTyped
<1>3. ASSUME ProcessDies(p) PROVE StoreTyped'
  <2>1. /\ loop' \in [Apis -> Loop]
        /\ \A q \in Apis : loop'[q].at \in {"off", "claim"} \/ loop'[q].st \in Copying
    BY <1>0, <1>3, LoopIsTyped DEF ProcessDies
  <2>2. snap' \in [Apis -> Snap]
    BY <1>3, RecordsAreTyped DEF ProcessDies, StoreTyped
  <2>3. asked' \in [Portals -> Asked]
    BY <1>3, RecordsAreTyped DEF ProcessDies, StoreTyped
  <2>4. ASSUME NEW k \in ObjectKeys
        PROVE  [obj[k] EXCEPT !.at = IF obj[k].ref THEN "live" ELSE "gone"] \in Obj
    <3>1. obj[k] \in Obj
      BY DEF StoreTyped
    <3> QED BY <3>1 DEF Obj
  <2>5. obj' \in [ObjectKeys -> Obj]
    BY <1>3, <2>4 DEF ProcessDies, StoreTyped
  <2> QED BY <1>3, <2>1, <2>2, <2>3, <2>5 DEF ProcessDies, StoreTyped
<1>4. ASSUME Boot(p) PROVE StoreTyped'
  <2>1. snap' \in [Apis -> Snap]
    BY <1>0, <1>4, PublishedIsTyped DEF Boot, Published
  <2>2. /\ loop' \in [Apis -> Loop]
        /\ \A q \in Apis : loop'[q].at \in {"off", "claim"} \/ loop'[q].st \in Copying
    BY <1>4, <1>9, LoopIsTyped DEF Boot, StoreTyped
  <2> QED BY <1>4, <2>1, <2>2 DEF Boot, Store, StoreTyped
<1>5. ASSUME NEW b \in Buckets, SetBucket(p, b) PROVE StoreTyped'
  <2>1. config' \in Config
    BY <1>0, <1>5 DEF SetBucket, Config, Targets
  <2>2. snap' \in [Apis -> Snap]
    BY <1>0, <1>5, <2>1, PublishedIsTyped DEF SetBucket
  <2> QED BY <1>5, <2>1, <2>2 DEF SetBucket, Store, StoreTyped
<1> QED BY <1>1, <1>2, <1>3, <1>4, <1>5

(* A request writes what differs from what it has read.                    *)
LEMMA WrittenIsTyped ==
    ASSUME StoreTyped, NEW r, NEW st \in States
    PROVE  /\ Written(r, st) \in Mig /\ Written(r, st).errs = mig.errs
           /\ Written(r, st).state = IF asked[r].st = st THEN mig.state ELSE st
BY DEF StoreTyped, Mig, Written

(* ... and of a portal request.                                            *)
LEMMA TypedPortal ==
    ASSUME StoreTyped, NEW r \in Portals, PortalStep(r)
    PROVE  StoreTyped'
<1>0. mig \in Mig /\ config \in Config /\ asked[r] \in Asked
  BY DEF StoreTyped
<1>9. /\ NoReq \in Asked
      /\ {"completed", "ready_to_flip", "cleaning", "done"} \subseteq States
  BY RecordsAreTyped DEF States
<1>1. ASSUME NEW p \in Apis, NEW op \in Ops, ReadRow(r, p, op) PROVE StoreTyped'
  <2>1. [NoReq EXCEPT !.op = op, !.at = "read", !.by = p, !.st = mig.state] \in Asked
    BY <1>0, <1>9 DEF Asked, Mig, Anyone
  <2>2. asked' \in [Portals -> Asked]
    BY <1>1, <2>1 DEF ReadRow, StoreTyped
  <2> QED BY <1>1, <2>2 DEF ReadRow, Store, StoreTyped
<1>2. ASSUME Flip(r) \/ Rollback(r) PROVE StoreTyped'
  <2>1. config' \in Config
    BY <1>0, <1>2 DEF Flip, Rollback, Config
  <2>2. mig' \in Mig /\ mig'.errs = mig.errs
    BY <1>2, <1>9, WrittenIsTyped DEF Flip, Rollback
  <2>3. snap' \in [Apis -> Snap]
    BY <1>2, <2>1, <2>2, PublishedIsTyped DEF Flip, Rollback
  <2>4. asked' \in [Portals -> Asked]
    BY <1>2, <1>9 DEF Flip, Rollback, StoreTyped
  <2> QED BY <1>2, <2>1, <2>2, <2>3, <2>4 DEF Flip, Rollback, Store, StoreTyped
<1>3. ASSUME CleanStarts(r) PROVE StoreTyped'
  <2>1. mig' \in Mig /\ mig'.errs = mig.errs
    BY <1>3, <1>9, WrittenIsTyped DEF CleanStarts
  <2>2. [asked[r] EXCEPT !.at = "list"] \in Asked
    BY <1>0 DEF Asked
  <2>3. asked' \in [Portals -> Asked]
    BY <1>3, <2>2 DEF CleanStarts, StoreTyped
  <2> QED BY <1>3, <2>1, <2>3 DEF CleanStarts, Store, StoreTyped
<1>4. ASSUME ListDone(r) PROVE StoreTyped'
  <2>1. [asked[r] EXCEPT !.at = "unlink", !.keys = done] \in Asked
    BY <1>0 DEF Asked, StoreTyped
  <2>2. asked' = [asked EXCEPT ![r] = [asked[r] EXCEPT !.at = "unlink", !.keys = done]]
    BY <1>4 DEF ListDone
  <2>3. asked' \in [Portals -> Asked]
    BY <2>1, <2>2 DEF StoreTyped
  <2> QED BY <1>4, <2>3 DEF ListDone, Store, StoreTyped
<1>5. ASSUME NEW k \in ObjectKeys, Unlink(r, k) PROVE StoreTyped'
  <2>1. [asked[r] EXCEPT !.keys = @ \ {k}] \in Asked
    BY <1>0 DEF Asked
  <2>2. asked' \in [Portals -> Asked]
    BY <1>5, <2>1 DEF Unlink, StoreTyped
  <2> QED BY <1>5, <2>2 DEF Unlink, StoreTyped
<1>6. ASSUME CleanEnds(r) PROVE StoreTyped'
  <2>1. mig' \in Mig /\ mig'.errs = mig.errs
    BY <1>0, <1>6, <1>9 DEF CleanEnds, Mig
  <2>2. snap' \in [Apis -> Snap]
    BY <1>0, <1>6, <2>1, PublishedIsTyped DEF CleanEnds
  <2>3. asked' \in [Portals -> Asked]
    BY <1>6, <1>9 DEF CleanEnds, StoreTyped
  <2> QED BY <1>6, <2>1, <2>2, <2>3 DEF CleanEnds, Store, StoreTyped
<1> QED BY <1>1, <1>2, <1>3, <1>4, <1>5, <1>6 DEF PortalStep

(* So every step keeps the types ...                                       *)
LEMMA TypedStep ==
    ASSUME StoreTyped, [StorageNext]_storageVars
    PROVE  StoreTyped'
<1>1. CASE UNCHANGED storageVars
  BY <1>1 DEF storageVars, StoreTyped
<1>2. CASE LeaseRunsOut
  <2>1. mig' \in Mig /\ mig'.errs = mig.errs
    BY <1>2 DEF LeaseRunsOut, StoreTyped, Mig
  <2> QED BY <1>2, <2>1 DEF LeaseRunsOut, Rest, StoreTyped
<1> QED BY <1>1, <1>2, TypedObjects, TypedLoops, TypedProcesses, TypedPortal DEF StorageNext

(* ... which hold initially.                                               *)
LEMMA TypedInit == ASSUME StorageInit PROVE StoreTyped
<1>1. obj \in [ObjectKeys -> Obj]
  <2>1. NewObj \in Obj /\ [NewObj EXCEPT !.at = "live", !.ref = TRUE] \in Obj
    BY RecordsAreTyped DEF Obj
  <2> QED BY <2>1 DEF StorageInit
<1>2. config \in Config /\ mig \in Mig /\ Len(mig.errs) <= ErrCap
  BY StorageAssumption DEF StorageInit, Config, Mig, States, Targets, StorageAssumption
<1>3. snap \in [Apis -> Snap]
  BY <1>2, RecordsAreTyped DEF StorageInit
<1>4. /\ loop \in [Apis -> Loop] /\ \A p \in Apis : loop[p].at = "off"
      /\ asked \in [Portals -> Asked]
  BY RecordsAreTyped DEF StorageInit, Off
<1> QED BY <1>1, <1>2, <1>3, <1>4, StorageAssumption DEF StorageInit, StoreTyped, StorageAssumption

----------------------------------------------------------------------------
(* The key is in somebody's list: of marks, of a pass, of a batch or of a  *)
(* clean-up.                                                               *)
Listed(k) ==
    \/ k \in done
    \/ \E p \in Apis : k \in loop[p].keys \cup loop[p].todo \cup loop[p].marks
    \/ \E r \in Portals : k \in asked[r].keys

(* Somebody has the key down as copied to the bucket.                      *)
Copied(k) ==
    \/ k \in done
    \/ \E p \in Apis : k \in loop[p].marks
    \/ \E r \in Portals : k \in asked[r].keys
    \/ obj[k].at = "put" /\ obj[k].s3

(* The key has been written and not been deleted.                          *)
HasBytes(k) == obj[k].at \in {"put", "marked", "live"}
OnTarget(k) == \E b \in Buckets : k \in s3[b]
(* The keys that are written once.                                         *)
Once == ObjectKeys \ Transcripts

(* A migration has a bucket, and so has every snapshot that writes to one. *)
TargetChosen ==
    /\ mig.state # "none" \/ config.active = "s3" => config.bucket \in Buckets
    /\ \A p \in Apis : loop[p].at # "off" => mig.state # "none"
    /\ \A r \in Portals : asked[r].at # "idle" => mig.state # "none"
    /\ \A p \in Apis : snap[p].dual \/ snap[p].backend = "s3" => snap[p].bucket \in Buckets

(* What has not been written yet is in no list.                            *)
Unwritten == \A k \in ObjectKeys : obj[k].at = "new" => ~obj[k].ref /\ ~Listed(k)
(* What rows refer to has bytes, and a key of Once has come to its end.    *)
RefsHaveBytes ==
    /\ \A k \in ObjectKeys : obj[k].ref => HasBytes(k)
    /\ \A k \in Once : obj[k].ref => obj[k].at = "live"
(* Written bytes are on the disk or on a bucket ...                        *)
BytesSomewhere == \A k \in Once \ Legacy : HasBytes(k) => k \in disk \/ OnTarget(k)
(* ... on a bucket, if they count as copied.                               *)
CopiedIsThere == \A k \in Once : HasBytes(k) /\ Copied(k) => OnTarget(k)

CopyInv ==
    StoreTyped /\ TargetChosen /\ Unwritten /\ RefsHaveBytes /\ BytesSomewhere /\ CopiedIsThere

(* What a snapshot says of the rows it was made from.                      *)
LEMMA SnapshotSays ==
    ASSUME NEW c, NEW m
    PROVE  /\ Snapshot(c, m).bucket = c.bucket /\ Snapshot(c, m).backend = c.active
           /\ Snapshot(c, m).dual <=> m.state \in Open
BY DEF Snapshot

(* A step in a migration that leaves each process with its snapshot or one *)
(* with a bucket.                                                          *)
LEMMA TargetSettled ==
    ASSUME StoreTyped, TargetChosen, mig'.state # "none", config'.bucket \in Buckets,
           \A q \in Apis : snap'[q] = snap[q] \/ snap'[q].bucket \in Buckets
    PROVE  TargetChosen'
BY DEF TargetChosen

(* A bucket stays chosen: the loop ...                                     *)
LEMMA TargetLoops ==
    ASSUME StoreTyped, StoreTyped', TargetChosen, NEW p \in Apis, LoopStep(p)
    PROVE  TargetChosen'
<1>1. mig.state # "none" /\ config.bucket \in Buckets /\ config' = config
  BY DEF LoopStep, ClaimLease, Validate, BeginPass, CopyKey,
         CommitBatch, Judge, Rest, TargetChosen
<1>2. mig'.state # "none"
  <2>0. mig \in Mig
    BY DEF StoreTyped
  <2>1. CASE ClaimLease(p)
    BY <1>1, <2>0, <2>1 DEF ClaimLease, Leased, Mig
  <2>2. CASE Validate(p)
    BY <1>1, <2>0, <2>2 DEF Validate, Mig
  <2>3. CASE BeginPass(p) \/ \E k \in ObjectKeys : CopyKey(p, k)
    BY <1>1, <2>3 DEF BeginPass, CopyKey
  <2>4. CASE CommitBatch(p)
    BY <1>1, <2>0, <2>4 DEF CommitBatch, Mig
  <2>5. CASE Judge(p)
    BY <1>1, <2>0, <2>5 DEF Judge, Mig
  <2> QED BY <2>1, <2>2, <2>3, <2>4, <2>5 DEF LoopStep
<1>3. ASSUME NEW q \in Apis PROVE snap'[q] = snap[q] \/ snap'[q].bucket \in Buckets
  <2>1. CASE snap' = snap
    BY <2>1
  <2>2. CASE Publish(p, config, mig')
    <3>1. snap'[q] = IF q = p THEN Snapshot(config, mig') ELSE snap[q]
      BY <2>2, PublishedIsTyped DEF StoreTyped
    <3> QED BY <1>1, <3>1 DEF Snapshot
  <2> QED BY <2>1, <2>2 DEF LoopStep, ClaimLease, Validate, BeginPass,
                            CopyKey, CommitBatch, Judge
<1> QED BY <1>1, <1>2, <1>3, TargetSettled

(* ... a process ...                                                       *)
LEMMA TargetProcesses ==
    ASSUME StoreTyped, StoreTyped', TargetChosen, NEW p \in Apis,
           \/ Start(p) \/ Reload(p) \/ ProcessDies(p) \/ Boot(p)
           \/ \E b \in Buckets : SetBucket(p, b)
    PROVE  TargetChosen'
<1>0. mig \in Mig /\ config \in Config /\ config' \in Config
  BY DEF StoreTyped
<1>1. CASE Start(p)
  <2>1. mig'.state = "validating" /\ config' = config /\ config.bucket \in Buckets
    BY <1>0, <1>1 DEF Start, Config, Targets
  <2>2. ASSUME NEW q \in Apis PROVE snap'[q] = snap[q] \/ snap'[q].bucket \in Buckets
    <3>1. snap'[q] = IF q = p THEN Snapshot(config, mig') ELSE snap[q]
      BY <1>1, PublishedIsTyped DEF StoreTyped, Start
    <3> QED BY <2>1, <3>1 DEF Snapshot
  <2> QED BY <2>1, <2>2, TargetSettled
<1>2. ASSUME Publish(p, config', mig), config'.bucket \in Buckets \/ config' = config,
             config'.active = config.active
      PROVE  \A q \in Apis : snap'[q].dual \/ snap'[q].backend = "s3" =>
                              snap'[q].bucket \in Buckets
  <2>1. \A q \in Apis : snap'[q] = IF q = p THEN Snapshot(config', mig) ELSE snap[q]
    BY <1>0, <1>2, PublishedIsTyped DEF StoreTyped
  <2>2. mig.state \in Open => mig.state # "none"
    BY DEF Open, Copying
  <2>3. mig.state \in Open \/ config'.active = "s3" => config'.bucket \in Buckets
    BY <1>2, <2>2 DEF TargetChosen
  <2>4. ASSUME NEW q \in Apis, snap'[q].dual \/ snap'[q].backend = "s3"
        PROVE  snap'[q].bucket \in Buckets
    <3>1. CASE q = p
      <4>1. snap'[q] = Snapshot(config', mig)
        BY <2>1, <3>1
      <4>2. mig.state \in Open \/ config'.active = "s3"
        BY <2>4, <4>1, SnapshotSays
      <4> QED BY <2>3, <4>1, <4>2, SnapshotSays
    <3>2. CASE q # p
      BY <2>1, <2>4, <3>2 DEF TargetChosen
    <3> QED BY <3>1, <3>2
  <2> QED BY <2>4
<1>3. CASE Reload(p)
  BY <1>2, <1>3 DEF Reload, Published, TargetChosen
<1>4. CASE Boot(p)
  <2>1. \A q \in Apis : loop'[q].at # "off" => loop[q].at # "off" \/ mig.state # "none"
    BY <1>4 DEF Boot, LoopSet, StoreTyped, Copying
  <2> QED BY <1>2, <1>4, <2>1 DEF Boot, Published, Store, TargetChosen
<1>5. CASE ProcessDies(p)
  <2>1. \A q \in Apis : loop'[q] = loop[q] \/ loop'[q].at = "off"
    BY <1>5 DEF ProcessDies, LoopSet, Off, StoreTyped
  <2>2. \A q \in Apis : snap'[q] = snap[q] \/ (~snap'[q].dual /\ snap'[q].backend = "local")
    BY <1>5 DEF ProcessDies, Down, StoreTyped
  <2>3. \A r \in Portals : asked'[r] = asked[r] \/ asked'[r].at = "idle"
    BY <1>5 DEF ProcessDies, NoReq
  <2> QED BY <1>5, <2>1, <2>2, <2>3 DEF ProcessDies, TargetChosen
<1>6. ASSUME NEW b \in Buckets, SetBucket(p, b) PROVE TargetChosen'
  <2>1. config'.bucket = b /\ config'.active = config.active
    BY <1>0, <1>6 DEF SetBucket, Config
  <2> QED BY <1>2, <1>6, <2>1 DEF SetBucket, Store, TargetChosen
<1> QED BY <1>1, <1>3, <1>4, <1>5, <1>6

(* ... a portal request ...                                                *)
LEMMA TargetPortal ==
    ASSUME StoreTyped, StoreTyped', TargetChosen, NEW r \in Portals, PortalStep(r)
    PROVE  TargetChosen'
<1>0. mig \in Mig /\ config \in Config /\ config' \in Config
  BY DEF StoreTyped
<1>1. mig.state # "none" /\ config.bucket \in Buckets
  BY DEF PortalStep, ReadRow, ReadyFor, Ops, Flip, Rollback,
         CleanStarts, ListDone, CleanEnds, Unlink, TargetChosen
<1>2. mig'.state # "none"
  <2>1. \A st \in States : Written(r, st).state \in {mig.state, st}
    BY WrittenIsTyped
  <2>2. {"completed", "ready_to_flip", "cleaning", "done"} \subseteq States
    BY DEF States
  <2>3. CASE Flip(r)
    BY <1>1, <2>1, <2>2, <2>3 DEF Flip
  <2>4. CASE Rollback(r)
    BY <1>1, <2>1, <2>2, <2>4 DEF Rollback
  <2>5. CASE CleanStarts(r)
    BY <1>1, <2>1, <2>2, <2>5 DEF CleanStarts
  <2>6. CASE CleanEnds(r)
    BY <1>0, <2>6 DEF CleanEnds, Mig
  <2> QED BY <1>1, <2>3, <2>4, <2>5, <2>6
             DEF PortalStep, ReadRow, ListDone, Unlink
<1>3. config'.bucket = config.bucket
  BY <1>0 DEF PortalStep, ReadRow, Flip, Rollback, CleanStarts,
              ListDone, CleanEnds, Unlink, Config
<1>4. ASSUME NEW q \in Apis PROVE snap'[q] = snap[q] \/ snap'[q].bucket \in Buckets
  <2>1. CASE snap' = snap
    BY <2>1
  <2>2. CASE Publish(asked[r].by, config', mig')
    <3>1. snap'[q] = IF q = asked[r].by THEN Snapshot(config', mig') ELSE snap[q]
      BY <2>2, PublishedIsTyped DEF StoreTyped
    <3> QED BY <1>1, <1>3, <3>1 DEF Snapshot
  <2> QED BY <2>1, <2>2 DEF PortalStep, ReadRow, Flip, Rollback,
                            CleanStarts, ListDone, CleanEnds, Unlink,
                            Store
<1> QED BY <1>1, <1>2, <1>3, <1>4, TargetSettled

(* ... and so every step.                                                  *)
LEMMA TargetStep ==
    ASSUME StoreTyped, TargetChosen, [StorageNext]_storageVars
    PROVE  TargetChosen'
<1>0. StoreTyped'
  BY TypedStep
<1>1. CASE UNCHANGED storageVars
  BY <1>1 DEF storageVars, TargetChosen
<1>2. CASE LeaseRunsOut
  <2>1. mig'.state = mig.state
    BY <1>2 DEF LeaseRunsOut, StoreTyped, Mig
  <2> QED BY <1>2, <2>1 DEF LeaseRunsOut, Rest, TargetChosen
<1>3. ASSUME NEW p \in Apis, NEW k \in ObjectKeys, ObjectStep(p, k) PROVE TargetChosen'
  <2>1. UNCHANGED <<config, mig, snap, loop, asked>>
    BY <1>3 DEF ObjectStep, Put, Mark, Refer, Unrefer, Delete,
                Objects
  <2> QED BY <2>1 DEF TargetChosen
<1> QED BY <1>0, <1>1, <1>2, <1>3, TargetLoops, TargetProcesses, TargetPortal DEF StorageNext

(* The part of CopyInv that is about keys.                                 *)
KeysKept == Unwritten /\ RefsHaveBytes /\ BytesSomewhere /\ CopiedIsThere

(* A step that writes no object, lists only what rows refer to, and has    *)
(* nothing down as copied that is not on a bucket.                         *)
LEMMA KeepsKeys ==
    ASSUME CopyInv, UNCHANGED <<disk, obj>>,
           \A k \in ObjectKeys, b \in Buckets : k \in s3[b] => k \in s3'[b],
           \A k \in ObjectKeys : Listed(k)' => Listed(k) \/ obj[k].ref,
           \A k \in ObjectKeys : Copied(k)' => Copied(k) \/ OnTarget(k)'
    PROVE  KeysKept'
<1>1. \A k \in ObjectKeys : OnTarget(k) => OnTarget(k)'
  BY DEF OnTarget
<1>2. \A k \in ObjectKeys : HasBytes(k)' <=> HasBytes(k)
  BY DEF HasBytes
<1>3. Unwritten'
  BY DEF CopyInv, Unwritten
<1>4. RefsHaveBytes'
  BY <1>2 DEF CopyInv, RefsHaveBytes
<1>5. BytesSomewhere'
  BY <1>1, <1>2 DEF CopyInv, BytesSomewhere, Once
<1>6. CopiedIsThere'
  BY <1>1, <1>2 DEF CopyInv, CopiedIsThere, Once
<1> QED BY <1>3, <1>4, <1>5, <1>6 DEF KeysKept

(* The copy loop: it takes a key down as copied after the copy.            *)
LEMMA KeysLoops ==
    ASSUME CopyInv, StoreTyped', NEW p \in Apis, LoopStep(p)
    PROVE  KeysKept'
<1>0. /\ loop[p] \in Loop /\ StoreTyped /\ UNCHANGED <<disk, obj, asked>>
      /\ config.bucket \in Buckets
  BY DEF CopyInv, StoreTyped, LoopStep, ClaimLease, Validate, BeginPass,
         CopyKey, CommitBatch, Judge, Rest, TargetChosen
<1>1. ASSUME NEW l \in Loop, LoopSet(p, l),
             l.keys \subseteq loop[p].keys \cup Referenced,
             l.todo \subseteq loop[p].todo \cup Referenced,
             l.marks \subseteq loop[p].marks, done' \subseteq done \cup loop[p].marks,
             s3' = s3
      PROVE  KeysKept'
  <2>1. \A q \in Apis : loop'[q] = IF q = p THEN l ELSE loop[q]
    BY <1>0, <1>1 DEF LoopSet, StoreTyped
  <2>2. \A k \in ObjectKeys : Listed(k)' => Listed(k) \/ obj[k].ref
    BY <1>0, <1>1, <2>1 DEF Listed, Referenced
  <2>3. \A k \in ObjectKeys : Copied(k)' => Copied(k)
    BY <1>0, <1>1, <2>1 DEF Copied
  <2> QED BY <1>0, <1>1, <2>2, <2>3, KeepsKeys
<1>2. /\ Off \in Loop /\ Off.keys = {} /\ Off.todo = {} /\ Off.marks = {}
  BY RecordsAreTyped DEF Off
<1>3. CASE ClaimLease(p)
  <2> DEFINE l == [Off EXCEPT !.at = "look", !.st = mig.state, !.errs = mig.errs]
  <2>1. l \in Loop /\ l.keys = {} /\ l.todo = {} /\ l.marks = {}
    BY <1>0, <1>2 DEF Loop, StoreTyped, Mig
  <2>2. LoopSet(p, Off) \/ LoopSet(p, l)
    BY <1>3 DEF ClaimLease
  <2>3. done' = done /\ s3' = s3
    BY <1>3 DEF ClaimLease
  <2> HIDE DEF l
  <2> QED BY <1>1, <1>2, <2>1, <2>2, <2>3
<1>4. CASE Validate(p)
  <2> DEFINE l == [loop[p] EXCEPT !.st = "copying"]
  <2>1. /\ l \in Loop /\ l.keys = loop[p].keys /\ l.todo = loop[p].todo
        /\ l.marks = loop[p].marks
    BY <1>0 DEF Loop, States
  <2>2. LoopSet(p, Off) \/ LoopSet(p, l)
    BY <1>4 DEF Validate
  <2>3. done' = done /\ s3' = s3
    BY <1>4 DEF Validate
  <2> HIDE DEF l
  <2> QED BY <1>1, <1>2, <2>1, <2>2, <2>3
<1>5. CASE BeginPass(p)
  <2> DEFINE l == [loop[p] EXCEPT !.at = "pass", !.keys = Referenced,
                     !.todo = IF loop[p].st = "copying" THEN Referenced \ mig.passed
                              ELSE Referenced]
  <2>1. /\ l \in Loop /\ l.keys = Referenced /\ l.todo \subseteq Referenced
        /\ l.marks = loop[p].marks
    BY <1>0 DEF Loop, Referenced
  <2>2. LoopSet(p, l) /\ done' = done /\ s3' = s3
    BY <1>5 DEF BeginPass
  <2> HIDE DEF l
  <2> QED BY <1>1, <2>1, <2>2
<1>6. CASE CommitBatch(p)
  <2> DEFINE l == [loop[p] EXCEPT !.marks = {}, !.errs = Kept(@),
                                  !.at = IF loop[p].todo = {} THEN "judge" ELSE @]
  <2>1. LoopSet(p, l) /\ done' = done \cup loop[p].marks /\ s3' = s3
    BY <1>6 DEF CommitBatch
  <2>2. loop'[p] = l /\ loop'[p] \in Loop
    BY <1>0, <2>1 DEF LoopSet, StoreTyped
  <2>3. l \in Loop /\ l.keys = loop[p].keys /\ l.todo = loop[p].todo /\ l.marks = {}
    BY <1>0, <2>2 DEF Loop
  <2> HIDE DEF l
  <2> QED BY <1>1, <2>1, <2>3
<1>7. CASE Judge(p)
  <2> DEFINE l == [loop[p] EXCEPT !.at = "look", !.st = "verifying"]
             again == [loop[p] EXCEPT !.at = "look"]
  <2>1. /\ l \in Loop /\ l.keys = loop[p].keys /\ l.todo = loop[p].todo
        /\ l.marks = loop[p].marks
    BY <1>0 DEF Loop, States
  <2>2. /\ again \in Loop /\ again.keys = loop[p].keys /\ again.todo = loop[p].todo
        /\ again.marks = loop[p].marks
    BY <1>0 DEF Loop
  <2>3. LoopSet(p, Off) \/ LoopSet(p, l) \/ LoopSet(p, again)
    BY <1>7 DEF Judge
  <2>4. done' = done /\ s3' = s3
    BY <1>7 DEF Judge
  <2> HIDE DEF l, again
  <2> QED BY <1>1, <1>2, <2>1, <2>2, <2>3, <2>4
<1>8. ASSUME NEW k \in ObjectKeys, CopyKey(p, k) PROVE KeysKept'
  <2>1. /\ done' = done
        /\ \A j \in ObjectKeys, b \in Buckets : j \in s3[b] => j \in s3'[b]
    BY <1>0, <1>8 DEF CopyKey, StoreTyped
  <2>2. k \in loop[p].todo
    BY <1>8 DEF CopyKey
  <2> DEFINE lp == [loop[p] EXCEPT !.todo = @ \ {k}]
             ok == [lp EXCEPT !.marks = @ \cup {k}]
             bad(m) == [lp EXCEPT !.errs = Append(@, [key |-> k, missing |-> m])]
  <2>3. /\ lp \in Loop /\ lp.keys = loop[p].keys /\ lp.todo \subseteq loop[p].todo
        /\ lp.marks = loop[p].marks
    BY <1>0 DEF Loop
  <2>4. /\ ok.keys = loop[p].keys /\ ok.todo \subseteq loop[p].todo
        /\ ok.marks = loop[p].marks \cup {k}
    <3> HIDE DEF lp
    <3> QED BY <2>3 DEF Loop
  <2>5. \A m : /\ bad(m).keys = loop[p].keys /\ bad(m).todo \subseteq loop[p].todo
               /\ bad(m).marks = loop[p].marks
    <3> HIDE DEF lp
    <3> QED BY <2>3 DEF Loop
  <2>6. \/ LoopSet(p, lp) \/ LoopSet(p, bad(TRUE)) \/ LoopSet(p, bad(FALSE))
        \/ LoopSet(p, ok) /\ k \in s3'[config.bucket]
    BY <1>0, <1>8 DEF CopyKey, StoreTyped
  <2>7. PICK l : /\ LoopSet(p, l)
                 /\ l.keys = loop[p].keys /\ l.todo \subseteq loop[p].todo
                 /\ \/ l.marks = loop[p].marks
                    \/ l.marks = loop[p].marks \cup {k} /\ k \in s3'[config.bucket]
    <3> HIDE DEF lp, ok, bad
    <3> QED BY <2>3, <2>4, <2>5, <2>6
  <2>8. \A q \in Apis : loop'[q] = IF q = p THEN l ELSE loop[q]
    BY <1>0, <2>7 DEF LoopSet, StoreTyped
  <2>9. \A j \in ObjectKeys : Listed(j)' => Listed(j)
    BY <1>0, <2>1, <2>2, <2>7, <2>8 DEF Listed
  <2>10. \A j \in ObjectKeys : Copied(j)' => Copied(j) \/ OnTarget(j)'
    BY <1>0, <2>1, <2>7, <2>8 DEF Copied, OnTarget
  <2> QED BY <1>0, <2>1, <2>9, <2>10, KeepsKeys
<1> QED BY <1>3, <1>4, <1>5, <1>6, <1>7, <1>8 DEF LoopStep

(* A process that starts a migration, reloads, is back, or sets the        *)
(* bucket.                                                                 *)
LEMMA KeysProcesses ==
    ASSUME CopyInv, StoreTyped', NEW p \in Apis,
           \/ Start(p) \/ Reload(p) \/ Boot(p)
           \/ \E b \in Buckets : SetBucket(p, b)
    PROVE  KeysKept'
<1>1. UNCHANGED <<disk, s3, obj, done, asked>>
  BY DEF Start, Reload, Boot, SetBucket, Store
<1>2. [Off EXCEPT !.at = "claim"].keys = {} /\ [Off EXCEPT !.at = "claim"].todo = {}
      /\ [Off EXCEPT !.at = "claim"].marks = {}
  BY DEF Off
<1>3. \A q \in Apis : \/ loop'[q] = loop[q]
                      \/ loop'[q].keys = {} /\ loop'[q].todo = {} /\ loop'[q].marks = {}
  BY <1>2 DEF Start, Reload, Boot, SetBucket, LoopSet, CopyInv,
              StoreTyped
<1>4. \A k \in ObjectKeys : (Listed(k)' => Listed(k)) /\ (Copied(k)' => Copied(k))
  BY <1>1, <1>3 DEF Listed, Copied
<1> QED BY <1>1, <1>4, KeepsKeys

(* What the death of a process makes of its writers.                       *)
LEMMA DiesInPlace ==
    ASSUME CopyInv, NEW p \in Apis, ProcessDies(p), NEW k \in ObjectKeys
    PROVE  \/ obj'[k] = obj[k]
           \/ /\ obj[k].at \in {"put", "marked", "dropped"} /\ obj'[k].ref = obj[k].ref
              /\ obj'[k].at = IF obj[k].ref THEN "live" ELSE "gone"
<1>1. obj[k] \in Obj
  BY DEF CopyInv, StoreTyped
<1> QED BY <1>1 DEF ProcessDies, Obj

(* It gives no key bytes that it did not have.                             *)
LEMMA BytesOutlive ==
    ASSUME CopyInv, NEW p \in Apis, ProcessDies(p), NEW k \in ObjectKeys, HasBytes(k)'
    PROVE  HasBytes(k)
BY DiesInPlace DEF HasBytes, CopyInv, RefsHaveBytes

(* The death of a process.                                                 *)
LEMMA KeysDie == ASSUME CopyInv, StoreTyped', NEW p \in Apis, ProcessDies(p) PROVE KeysKept'
<1>1. UNCHANGED <<disk, s3, done>>
  BY DEF ProcessDies
<1>2. \A q \in Apis : \/ loop'[q] = loop[q]
                      \/ loop'[q].keys = {} /\ loop'[q].todo = {} /\ loop'[q].marks = {}
  BY DEF ProcessDies, LoopSet, Off, CopyInv, StoreTyped
<1>3. \A r \in Portals : asked'[r] = asked[r] \/ asked'[r].keys = {}
  BY DEF ProcessDies, NoReq
<1>4. ASSUME NEW k \in ObjectKeys
      PROVE  \/ obj'[k] = obj[k]
             \/ /\ obj[k].at \in {"put", "marked", "dropped"} /\ obj'[k].ref = obj[k].ref
                /\ obj'[k].at = IF obj[k].ref THEN "live" ELSE "gone"
  BY <1>4, DiesInPlace
<1>5. ASSUME NEW k \in ObjectKeys
      PROVE  /\ Listed(k)' => Listed(k)
             /\ HasBytes(k)' => HasBytes(k) /\ (Copied(k)' => Copied(k))
  <2>1. Listed(k)' => Listed(k)
    BY <1>1, <1>2, <1>3 DEF Listed
  <2>3. HasBytes(k)' => HasBytes(k)
    BY BytesOutlive
  <2>4. Copied(k)' => Copied(k)
    BY <1>1, <1>2, <1>3, <1>4 DEF Copied
  <2> QED BY <2>1, <2>3, <2>4
<1>6. Unwritten'
  BY <1>4, <1>5 DEF CopyInv, Unwritten
<1>7. RefsHaveBytes'
  BY <1>4 DEF CopyInv, RefsHaveBytes, HasBytes, Once
<1>8. BytesSomewhere' /\ CopiedIsThere'
  BY <1>1, <1>5 DEF CopyInv, BytesSomewhere, CopiedIsThere, OnTarget, Once
<1> QED BY <1>6, <1>7, <1>8 DEF KeysKept

(* A portal request. A clean-up unlinks what was listed as done, which is  *)
(* on a bucket.                                                            *)
LEMMA KeysPortal ==
    ASSUME CopyInv, StoreTyped', NEW r \in Portals, PortalStep(r)
    PROVE  KeysKept'
<1>0. UNCHANGED <<s3, obj, loop>> /\ asked[r] \in Asked
  BY DEF PortalStep, ReadRow, Flip, Rollback, CleanStarts,
         ListDone, CleanEnds, Unlink, Store, CopyInv, StoreTyped
<1>1. ASSUME done' \subseteq done, disk' = disk,
             \A x \in Portals : asked'[x].keys \subseteq asked[x].keys \cup done
      PROVE  KeysKept'
  <2>1. \A k \in ObjectKeys : (Listed(k)' => Listed(k)) /\ (Copied(k)' => Copied(k))
    BY <1>0, <1>1 DEF Listed, Copied
  <2> QED BY <1>0, <1>1, <2>1, KeepsKeys
<1>2. ASSUME NEW p \in Apis, NEW op \in Ops, ReadRow(r, p, op) PROVE KeysKept'
  <2>1. [NoReq EXCEPT !.op = op, !.at = "read", !.by = p, !.st = mig.state].keys = {}
    BY DEF NoReq
  <2>2. \A x \in Portals : asked'[x] = asked[x] \/ asked'[x].keys = {}
    BY <1>2, <2>1 DEF ReadRow, CopyInv, StoreTyped
  <2> QED BY <1>1, <1>2, <2>2 DEF ReadRow, Store
<1>3. CASE Flip(r) \/ Rollback(r) \/ CleanEnds(r)
  <2>1. \A x \in Portals : asked'[x] = asked[x] \/ asked'[x].keys = {}
    BY <1>3 DEF Flip, Rollback, CleanEnds, NoReq, CopyInv, StoreTyped
  <2> QED BY <1>1, <1>3, <2>1 DEF Flip, Rollback, CleanEnds, Store
<1>4. CASE CleanStarts(r)
  <2>1. [asked[r] EXCEPT !.at = "list"].keys = asked[r].keys
    BY <1>0 DEF Asked
  <2>2. \A x \in Portals : asked'[x].keys = asked[x].keys
    BY <1>4, <2>1 DEF CleanStarts, CopyInv, StoreTyped
  <2> QED BY <1>1, <1>4, <2>2 DEF CleanStarts, Store
<1>5. CASE ListDone(r)
  <2>1. [asked[r] EXCEPT !.at = "unlink", !.keys = done].keys = done
    BY <1>0 DEF Asked
  <2>2. asked' = [asked EXCEPT ![r] = [asked[r] EXCEPT !.at = "unlink", !.keys = done]]
    BY <1>5 DEF ListDone
  <2>3. \A x \in Portals : asked'[x].keys = asked[x].keys \/ asked'[x].keys = done
    BY <2>1, <2>2 DEF CopyInv, StoreTyped
  <2> QED BY <1>1, <1>5, <2>3 DEF ListDone, Store
<1>6. ASSUME NEW k \in ObjectKeys, Unlink(r, k) PROVE KeysKept'
  <2>1. [asked[r] EXCEPT !.keys = @ \ {k}].keys = asked[r].keys \ {k}
    BY <1>0 DEF Asked
  <2>2. /\ \A x \in Portals : asked'[x].keys \subseteq asked[x].keys
        /\ k \in asked[r].keys /\ disk' = disk \ {k} /\ done' = done
    BY <1>6, <2>1 DEF Unlink, CopyInv, StoreTyped
  <2>3. \A j \in ObjectKeys : (Listed(j)' => Listed(j)) /\ (Copied(j)' => Copied(j))
    BY <1>0, <2>2 DEF Listed, Copied
  <2>4. \A j \in ObjectKeys : /\ HasBytes(j)' <=> HasBytes(j)
                              /\ OnTarget(j)' <=> OnTarget(j)
    BY <1>0 DEF HasBytes, OnTarget
  <2>5. Unwritten' /\ RefsHaveBytes'
    BY <1>0, <2>3, <2>4 DEF CopyInv, Unwritten, RefsHaveBytes
  <2>6. CopiedIsThere'
    BY <2>3, <2>4 DEF CopyInv, CopiedIsThere, Once
  <2>7. Copied(k)
    BY <2>2 DEF Copied
  <2>8. BytesSomewhere'
    BY <2>2, <2>4, <2>7 DEF CopyInv, BytesSomewhere, CopiedIsThere, Once
  <2> QED BY <2>5, <2>6, <2>8 DEF KeysKept
<1> QED BY <1>2, <1>3, <1>4, <1>5, <1>6 DEF PortalStep

(* Where a put leaves the bytes: other keys are as they were, and under    *)
(* dual-write or with S3 active a bucket has this one.                     *)
LEMMA PutReaches ==
    ASSUME CopyInv, NEW p \in Apis, NEW k \in ObjectKeys, NEW ok \in BOOLEAN
    PROVE  /\ \A j \in ObjectKeys \ {k}, b \in Buckets :
                j \in Onto(snap[p], k, ok)[b] <=> j \in s3[b]
           /\ ok /\ (snap[p].backend = "s3" \/ snap[p].dual) =>
                 \E b \in Buckets : k \in Onto(snap[p], k, ok)[b]
BY DEF CopyInv, StoreTyped, TargetChosen, Onto, Reaches, Stored

(* A step of the writer of one key, which leaves all others alone.         *)
LEMMA KeysOfOne ==
    ASSUME CopyInv, NEW k \in ObjectKeys, UNCHANGED <<loop, asked>>,
           \A j \in ObjectKeys \ {k} : /\ obj'[j] = obj[j] /\ (j \in done' <=> j \in done)
                                       /\ (j \in disk' <=> j \in disk)
                                       /\ \A b \in Buckets : j \in s3'[b] <=> j \in s3[b],
           obj'[k].at # "new",
           obj'[k].ref => HasBytes(k)',
           k \in Once /\ obj'[k].ref => obj'[k].at = "live",
           k \in Once /\ HasBytes(k)' => k \in Legacy \/ k \in disk' \/ OnTarget(k)',
           k \in Once /\ HasBytes(k)' /\ Copied(k)' => OnTarget(k)'
    PROVE  KeysKept'
<1>1. ASSUME NEW j \in ObjectKeys \ {k}
      PROVE  /\ Listed(j)' <=> Listed(j)
             /\ Copied(j)' <=> Copied(j)
             /\ OnTarget(j)' <=> OnTarget(j)
             /\ HasBytes(j)' <=> HasBytes(j)
  BY DEF Listed, Copied, OnTarget, HasBytes
<1>2. Unwritten'
  BY <1>1 DEF CopyInv, Unwritten
<1>3. RefsHaveBytes'
  BY <1>1 DEF CopyInv, RefsHaveBytes, Once
<1>4. BytesSomewhere'
  BY <1>1 DEF CopyInv, BytesSomewhere, Once
<1>5. CopiedIsThere'
  BY <1>1 DEF CopyInv, CopiedIsThere, Once
<1> QED BY <1>2, <1>3, <1>4, <1>5 DEF KeysKept

(* A put. A key of Once that is put has never been listed.                 *)
LEMMA KeysPut ==
    ASSUME CopyInv, StoreTyped', NEW p \in Apis, NEW k \in ObjectKeys, Put(p, k)
    PROVE  KeysKept'
<1>0. UNCHANGED <<loop, asked, done>> /\ obj[k] \in Obj /\ StoreTyped
  BY DEF Put, Objects, CopyInv, StoreTyped
<1>1. k \in Once => ~obj[k].ref /\ ~Listed(k)
  BY DEF Put, Once, CopyInv, Unwritten
<1>2. obj[k].ref => k \notin Once
  BY <1>1
<1>3. ASSUME PutLocal(p, k, obj[k].ref) PROVE KeysKept'
  <2>1. PICK ok \in BOOLEAN :
          /\ s3' = Onto(snap[p], k, ok)
          /\ obj' = [obj EXCEPT ![k] = [at |-> "put", by |-> p, s3 |-> ok /\ snap[p].dual,
                                        ref |-> obj[k].ref]]
    BY <1>3 DEF PutLocal
  <2>2. disk' = disk \cup {k}
    BY <1>3 DEF PutLocal
  <2>3. /\ obj'[k].at = "put" /\ obj'[k].ref = obj[k].ref
        /\ obj'[k].s3 <=> ok /\ snap[p].dual
        /\ \A j \in ObjectKeys \ {k} : obj'[j] = obj[j]
    BY <2>1 DEF CopyInv, StoreTyped
  <2>4. \A j \in ObjectKeys \ {k}, b \in Buckets : j \in s3'[b] <=> j \in s3[b]
    BY <2>1, PutReaches
  <2>5. ok /\ snap[p].dual => OnTarget(k)'
    BY <2>1, PutReaches DEF OnTarget
  <2>6. k \in Once /\ Copied(k)' => OnTarget(k)'
    BY <1>0, <1>1, <2>3, <2>5 DEF Copied, Listed
  <2> QED BY <1>0, <1>2, <2>2, <2>3, <2>4, <2>6, KeysOfOne DEF HasBytes
<1>4. ASSUME PutS3(p, k, obj[k].ref) PROVE KeysKept'
  <2>1. /\ s3' = Onto(snap[p], k, TRUE) /\ snap[p].backend = "s3"
        /\ obj' = [obj EXCEPT ![k] = [at |-> "put", by |-> p, s3 |-> TRUE, ref |-> obj[k].ref]]
        /\ \A j \in ObjectKeys \ {k} : j \in disk' <=> j \in disk
    BY <1>4 DEF PutS3, Stored
  <2>2. /\ obj'[k].at = "put" /\ obj'[k].ref = obj[k].ref
        /\ \A j \in ObjectKeys \ {k} : obj'[j] = obj[j]
    BY <2>1 DEF CopyInv, StoreTyped
  <2>3. \A j \in ObjectKeys \ {k}, b \in Buckets : j \in s3'[b] <=> j \in s3[b]
    BY <2>1, PutReaches
  <2>4. OnTarget(k)'
    BY <2>1, PutReaches DEF OnTarget
  <2> QED BY <1>0, <1>2, <2>1, <2>2, <2>3, <2>4, KeysOfOne DEF HasBytes
<1> QED BY <1>3, <1>4 DEF Put

(* The other steps of a writer: a mark is set only for a key whose put has *)
(* reached the bucket.                                                     *)
LEMMA KeysObjects ==
    ASSUME CopyInv, StoreTyped', NEW p \in Apis, NEW k \in ObjectKeys, ObjectStep(p, k)
    PROVE  KeysKept'
<1>0. obj[k] \in Obj
  BY DEF CopyInv, StoreTyped
<1>1. ASSUME Mark(p, k) PROVE KeysKept'
  <2>1. /\ UNCHANGED <<disk, s3, loop, asked>> /\ obj[k].at = "put"
        /\ obj' = [obj EXCEPT ![k] = [obj[k] EXCEPT !.at = "marked"]]
        /\ \/ done' = done
           \/ obj[k].s3 /\ done' = done \cup {k}
    BY <1>1 DEF Mark, Objects
  <2>2. /\ obj'[k].at = "marked" /\ obj'[k].ref = obj[k].ref
        /\ \A j \in ObjectKeys \ {k} : obj'[j] = obj[j]
    BY <1>0, <2>1 DEF CopyInv, StoreTyped, Obj
  <2>3. Copied(k)' => Copied(k)
    BY <2>1, <2>2 DEF Copied
  <2>4. OnTarget(k)' <=> OnTarget(k)
    BY <2>1 DEF OnTarget
  <2>5. k \in Once => ~obj[k].ref
    BY <2>1 DEF CopyInv, RefsHaveBytes
  <2>6. k \in Once /\ Copied(k)' => OnTarget(k)'
    BY <2>1, <2>3, <2>4 DEF CopyInv, CopiedIsThere, HasBytes
  <2>7. k \in Once => k \in Legacy \/ k \in disk' \/ OnTarget(k)'
    BY <2>1, <2>4 DEF CopyInv, BytesSomewhere, HasBytes
  <2> QED BY <2>1, <2>2, <2>5, <2>6, <2>7, KeysOfOne DEF HasBytes
<1>2. ASSUME Refer(p, k) PROVE KeysKept'
  <2>1. /\ UNCHANGED <<disk, s3, done, loop, asked>> /\ obj[k].at = "marked"
        /\ obj' = [obj EXCEPT ![k] = [obj[k] EXCEPT !.at = "live", !.ref = TRUE]]
    BY <1>2 DEF Refer, Objects
  <2>2. /\ obj'[k].at = "live"
        /\ \A j \in ObjectKeys \ {k} : obj'[j] = obj[j]
    BY <1>0, <2>1 DEF CopyInv, StoreTyped, Obj
  <2>3. Copied(k)' => Copied(k)
    BY <2>1, <2>2 DEF Copied
  <2>4. OnTarget(k)' <=> OnTarget(k)
    BY <2>1 DEF OnTarget
  <2>5. k \in Once /\ Copied(k)' => OnTarget(k)'
    BY <2>1, <2>3, <2>4 DEF CopyInv, CopiedIsThere, HasBytes
  <2>6. k \in Once => k \in Legacy \/ k \in disk' \/ OnTarget(k)'
    BY <2>1, <2>4 DEF CopyInv, BytesSomewhere, HasBytes
  <2> QED BY <2>1, <2>2, <2>5, <2>6, KeysOfOne DEF HasBytes
<1>3. ASSUME Unrefer(p, k) PROVE KeysKept'
  <2>1. /\ UNCHANGED <<disk, s3, done, loop, asked>>
        /\ obj' = [obj EXCEPT ![k] = [obj[k] EXCEPT !.at = "dropped", !.by = p, !.ref = FALSE]]
    BY <1>3 DEF Unrefer, Objects
  <2>2. /\ obj'[k].at = "dropped" /\ ~obj'[k].ref
        /\ \A j \in ObjectKeys \ {k} : obj'[j] = obj[j]
    BY <1>0, <2>1 DEF CopyInv, StoreTyped, Obj
  <2> QED BY <2>1, <2>2, KeysOfOne DEF HasBytes
<1>4. ASSUME Delete(p, k) PROVE KeysKept'
  <2>1. /\ UNCHANGED <<done, loop, asked>> /\ obj[k].at = "dropped"
        /\ obj' = [obj EXCEPT ![k] = [obj[k] EXCEPT !.at = "gone"]]
        /\ s3' = Without(snap[p], k)
        /\ \A j \in ObjectKeys \ {k} : j \in disk' <=> j \in disk
    BY <1>4 DEF Delete, Objects
  <2>2. /\ obj'[k].at = "gone" /\ obj'[k].ref = obj[k].ref
        /\ \A j \in ObjectKeys \ {k} : obj'[j] = obj[j]
    BY <1>0, <2>1 DEF CopyInv, StoreTyped, Obj
  <2>3. ~obj[k].ref
    BY <2>1 DEF CopyInv, RefsHaveBytes, HasBytes
  <2>4. \A j \in ObjectKeys \ {k}, b \in Buckets : j \in s3'[b] <=> j \in s3[b]
    BY <2>1 DEF Without
  <2> QED BY <2>1, <2>2, <2>3, <2>4, KeysOfOne DEF HasBytes
<1> QED BY <1>1, <1>2, <1>3, <1>4, KeysPut DEF ObjectStep

(* Every step keeps CopyInv ...                                            *)
LEMMA CopyStep == ASSUME CopyInv, [StorageNext]_storageVars PROVE CopyInv'
<1>1. StoreTyped' /\ TargetChosen'
  BY TypedStep, TargetStep DEF CopyInv
<1>2. KeysKept'
  <2>1. CASE UNCHANGED <<disk, s3, obj, done, loop, asked>>
    BY <2>1, KeepsKeys DEF Listed, Copied
  <2>2. CASE UNCHANGED storageVars \/ LeaseRunsOut
    BY <2>1, <2>2 DEF storageVars, LeaseRunsOut, Rest
  <2> QED BY <1>1, <2>2, KeysObjects, KeysLoops, KeysProcesses, KeysDie, KeysPortal
             DEF StorageNext
<1> QED BY <1>1, <1>2 DEF CopyInv, KeysKept

(* ... which holds initially.                                              *)
LEMMA CopyInit == ASSUME StorageInit PROVE CopyInv
<1>1. StoreTyped
  BY TypedInit
<1>2. /\ config.active = "local" /\ mig.state = "none" /\ done = {}
      /\ \A p \in Apis : /\ loop[p].at = "off" /\ loop[p].marks = {} /\ loop[p].keys = {}
                         /\ loop[p].todo = {}
      /\ \A r \in Portals : asked[r].at = "idle" /\ asked[r].keys = {}
  BY DEF StorageInit, Off, NoReq
<1>3. \A p \in Apis : snap[p].backend = "local" /\ ~snap[p].dual
  <2>1. ~(mig.state \in Open)
    BY <1>2 DEF Open, Copying
  <2>2. \A p \in Apis : snap[p] = Snapshot(config, mig)
    BY DEF StorageInit
  <2> QED BY <1>2, <2>1, <2>2, SnapshotSays
<1>4. TargetChosen
  BY <1>2, <1>3 DEF TargetChosen
<1>5. \A k \in ObjectKeys : IF k \in Legacy THEN obj[k].at = "live" /\ obj[k].ref
                            ELSE obj[k].at = "new" /\ ~obj[k].ref
  BY DEF StorageInit, NewObj
<1>6. \A k \in ObjectKeys : ~Listed(k) /\ ~Copied(k)
  BY <1>2, <1>5 DEF Listed, Copied
<1> QED BY <1>1, <1>4, <1>5, <1>6 DEF CopyInv, Unwritten, RefsHaveBytes, BytesSomewhere,
                                     CopiedIsThere, HasBytes, Once

(* The inductive invariant about the bytes, whatever is lost, late or      *)
(* overlaps.                                                               *)
THEOREM CopyInvariant == StorageSpec => []CopyInv
<1>1. StorageInit => CopyInv
  BY CopyInit
<1>2. CopyInv /\ [StorageNext]_storageVars => CopyInv'
  BY CopyStep
<1> QED BY <1>1, <1>2, PTL DEF StorageSpec

(* Types of StorageMigration, for every step.                              *)
THEOREM StoresTyped == StorageSpec => []StorageTypeOK
<1>1. CopyInv => StorageTypeOK
  BY DEF CopyInv, StoreTyped, StorageTypeOK, Obj, Config, Mig, Targets
<1> QED BY <1>1, CopyInvariant, PTL

(* No object that is written once and that a row refers to is lost,        *)
(* however many loops, portal requests and processes overlap, and whatever *)
(* copy, mirror, mark or process fails: the disk has it or a bucket does   *)
(* (clean_migration, migrate.py; put_bytes, storage.py).                   *)
THEOREM WrittenOnceKept ==
    StorageSpec => [](\A k \in Referenced \ (Legacy \cup Transcripts) :
                         k \in disk \/ \E b \in Buckets : k \in s3[b])
<1>1. CopyInv => \A k \in Referenced \ (Legacy \cup Transcripts) :
                    k \in disk \/ \E b \in Buckets : k \in s3[b]
  BY DEF CopyInv, RefsHaveBytes, BytesSomewhere, OnTarget, Once, Referenced
<1> QED BY <1>1, CopyInvariant, PTL

(* NothingLost, unless a transcript is posted again under its key: the     *)
(* mark of its older bytes then makes a clean-up unlink the newer ones.    *)
THEOREM NothingIsLost ==
    ASSUME Transcripts = {} PROVE StorageSpec => []NothingLost
<1>1. CopyInv => NothingLost
  BY DEF CopyInv, RefsHaveBytes, BytesSomewhere, OnTarget, Once, HasBytes, NothingLost,
         Referenced
<1> QED BY <1>1, CopyInvariant, PTL

(* A key that is marked as done is on the bucket that the flip activates,  *)
(* if there is one bucket and every key is written once:                   *)
(* is_migration_key_done (repos.py) is asked instead of the bucket.        *)
THEOREM DonesAreOnTarget ==
    ASSUME Transcripts = {}, NEW b \in Buckets, Buckets = {b}
    PROVE  StorageSpec => []DoneIsOnTarget
<1>1. ASSUME CopyInv PROVE DoneIsOnTarget
  <2>1. ASSUME NEW k \in done \cap Referenced, config.bucket # NoBucket
        PROVE  k \in s3[config.bucket]
    <3>1. config.bucket = b
      BY <1>1, <2>1 DEF CopyInv, StoreTyped, Config, Targets
    <3>2. k \in Once /\ HasBytes(k) /\ Copied(k)
      BY <1>1, <2>1 DEF CopyInv, RefsHaveBytes, Referenced, Once, Copied
    <3>3. OnTarget(k)
      BY <1>1, <3>2 DEF CopyInv, CopiedIsThere
    <3> QED BY <3>1, <3>3 DEF OnTarget
  <2> QED BY <2>1 DEF DoneIsOnTarget
<1> QED BY <1>1, CopyInvariant, PTL

----------------------------------------------------------------------------
(* A loop that holds the lease it has claimed.                             *)
Running(p) == loop[p].at \in {"look", "pass", "judge"}

(* One loop runs, on the row as it is.                                     *)
LoopAlone ==
    /\ \A p \in Apis :
          Running(p) => mig.leased /\ mig.state = loop[p].st /\ mig.state \in Copying
    /\ \A p, q \in Apis : Running(p) /\ Running(q) => p = q

(* S3 is active from the flip on.                                          *)
StageOfBackend == config.active = "s3" <=> mig.state \in {"completed", "cleaning", "done"}

(* A request is about to write over the row that it has read.              *)
RequestsCurrent ==
    \A r \in Portals :
        /\ asked[r].at = "read" => /\ mig.state = asked[r].st
                                   /\ mig.state \in {"ready_to_flip", "completed"}
                                   /\ asked[r].op = "clean" => mig.state = "completed"
        /\ asked[r].at \in {"list", "unlink"} => mig.state = "cleaning"

(* A process that uses S3 writes to the disk as well, until the migration  *)
(* is done.                                                                *)
SnapshotsCurrent ==
    \A p \in Apis : snap[p].backend = "s3" => snap[p].dual \/ mig.state = "done"

(* Until the clean-up every key that has bytes is on the disk.             *)
DiskComplete ==
    mig.state \notin {"cleaning", "done"} =>
        \A k \in ObjectKeys \ Legacy : HasBytes(k) => k \in disk

StageInv == LoopAlone /\ StageOfBackend /\ RequestsCurrent /\ SnapshotsCurrent /\ DiskComplete

(* No lease runs out under a live loop, mirror writes succeed, and portal  *)
(* requests come one at a time.                                            *)
Expected == ~CopyOverlap /\ "mirror" \notin Faults /\ \A x, y \in Portals : x = y

(* A process publishes rows of a current migration.                        *)
LEMMA SnapshotsPublished ==
    ASSUME StoreTyped, SnapshotsCurrent, NEW p, NEW c \in Config, NEW m \in Mig,
           Publish(p, c, m),
           c.active = "s3" => m.state \in {"completed", "cleaning", "done"},
           mig.state = "done" => m.state = "done", m = mig'
    PROVE  SnapshotsCurrent'
<1>1. ASSUME NEW q \in Apis, snap'[q].backend = "s3"
      PROVE  snap'[q].dual \/ mig'.state = "done"
  <2>1. snap'[q] = IF q = p THEN Snapshot(c, m) ELSE snap[q]
    BY PublishedIsTyped
  <2>2. CASE q = p
    <3>1. snap'[q] = Snapshot(c, m) /\ c.active = "s3"
      BY <1>1, <2>1, <2>2, SnapshotSays
    <3>2. m.state = "done" \/ m.state \in Open
      BY <3>1 DEF Open
    <3> QED BY <3>1, <3>2, SnapshotSays
  <2>3. CASE q # p
    BY <1>1, <2>1, <2>3 DEF SnapshotsCurrent
  <2> QED BY <2>2, <2>3
<1> QED BY <1>1 DEF SnapshotsCurrent

(* A step of the loop that moves the row on, to the gate or to a failure.  *)
LEMMA StageAdvances ==
    ASSUME StoreTyped, StoreTyped', StageInv, mig.state \in Copying,
           mig'.state \in Copying \cup {"failed", "ready_to_flip"},
           UNCHANGED <<disk, obj, config, asked>>,
           snap' = snap \/ \E p : Publish(p, config, mig')
    PROVE  StageOfBackend' /\ RequestsCurrent' /\ SnapshotsCurrent' /\ DiskComplete'
<1>1. /\ mig.state \notin {"completed", "cleaning", "done", "ready_to_flip"}
      /\ mig'.state \notin {"completed", "cleaning", "done"}
  BY DEF Copying
<1>2. StageOfBackend' /\ config.active # "s3"
  BY <1>1 DEF StageInv, StageOfBackend
<1>3. RequestsCurrent'
  BY <1>1 DEF StageInv, RequestsCurrent
<1>4. SnapshotsCurrent'
  <2>1. CASE snap' = snap
    BY <1>1, <2>1 DEF StageInv, SnapshotsCurrent
  <2>2. ASSUME NEW p, Publish(p, config, mig') PROVE SnapshotsCurrent'
    BY <1>1, <1>2, <2>2, SnapshotsPublished DEF StageInv, StoreTyped
  <2> QED BY <2>1, <2>2
<1>5. DiskComplete'
  BY <1>1 DEF StageInv, DiskComplete, HasBytes
<1> QED BY <1>2, <1>3, <1>4, <1>5

(* The one loop that runs goes on, with the row.                           *)
LEMMA LoopGoesOn ==
    ASSUME StoreTyped, LoopAlone, NEW p \in Apis, Running(p), NEW l, LoopSet(p, l),
           l.at \in {"look", "pass", "judge"} =>
               mig'.leased /\ mig'.state = l.st /\ mig'.state \in Copying
    PROVE  LoopAlone'
<1>1. \A q \in Apis : loop'[q] = IF q = p THEN l ELSE loop[q]
  BY DEF StoreTyped, LoopSet
<1>2. \A q \in Apis : Running(q)' => q = p
  BY <1>1 DEF LoopAlone, Running
<1> QED BY <1>1, <1>2 DEF LoopAlone, Running

(* StageInv, for a step of the copy loop ...                               *)
LEMMA StageLoops ==
    ASSUME StoreTyped, StoreTyped', StageInv, NEW p \in Apis, LoopStep(p)
    PROVE  StageInv'
<1>0. /\ mig \in Mig /\ loop[p] \in Loop /\ UNCHANGED <<disk, obj, config, asked>>
      /\ Off.at = "off"
  BY DEF StoreTyped, LoopStep, ClaimLease, Validate, BeginPass,
         CopyKey, CommitBatch, Judge, Rest, Off
<1>1. ASSUME Running(p)
      PROVE  mig.leased /\ mig.state = loop[p].st /\ mig.state \in Copying
  BY <1>1 DEF StageInv, LoopAlone
<1>2. CASE ClaimLease(p)
  <2>1. mig'.state = mig.state /\ snap' = snap
    BY <1>0, <1>2 DEF ClaimLease, Leased, Mig
  <2>2. StageOfBackend' /\ RequestsCurrent' /\ SnapshotsCurrent' /\ DiskComplete'
    BY <1>0, <2>1 DEF StageInv, StageOfBackend, RequestsCurrent, SnapshotsCurrent,
                      DiskComplete, HasBytes
  <2>3. LoopAlone'
    <3> DEFINE l == [Off EXCEPT !.at = "look", !.st = mig.state, !.errs = mig.errs]
    <3>1. CASE mig.leased \/ mig.state \notin Copying
      <4>1. LoopSet(p, Off) /\ (mig'.leased \/ mig' = mig)
        BY <1>0, <1>2, <3>1 DEF ClaimLease, Leased, Mig
      <4>2. \A q \in Apis : Running(q)' => Running(q) /\ loop'[q] = loop[q]
        BY <1>0, <4>1 DEF LoopSet, StoreTyped, Running
      <4> QED BY <2>1, <4>1, <4>2 DEF StageInv, LoopAlone
    <3>2. CASE ~mig.leased /\ mig.state \in Copying
      <4>1. LoopSet(p, l) /\ mig'.leased
        BY <1>0, <1>2, <3>2 DEF ClaimLease, Leased, Mig
      <4>2. \A q \in Apis : Running(q)' => q = p
        BY <3>2, <4>1 DEF LoopSet, StoreTyped, Running, StageInv, LoopAlone
      <4>3. l.st = mig.state
        BY DEF Off
      <4>4. loop'[p].st = mig.state
        BY <4>1, <4>3 DEF LoopSet, StoreTyped
      <4> QED BY <2>1, <3>2, <4>1, <4>2, <4>4 DEF LoopAlone
    <3> QED BY <3>1, <3>2
  <2> QED BY <2>2, <2>3 DEF StageInv
<1>3. CASE Validate(p)
  <2> DEFINE l == [loop[p] EXCEPT !.st = "copying"]
  <2>1. Running(p) /\ l.st = "copying"
    BY <1>0, <1>3 DEF Validate, Running, Loop
  <2>2. \/ LoopSet(p, Off) /\ mig'.state = "failed"
        \/ LoopSet(p, l) /\ mig'.state = "copying" /\ mig'.leased
    BY <1>0, <1>3 DEF Validate, Mig
  <2>3. LoopAlone'
    <3> HIDE DEF l
    <3> QED BY <1>0, <2>1, <2>2, LoopGoesOn DEF StageInv, Copying
  <2>4. mig'.state \in {"copying", "failed"} /\ snap' = snap
    BY <1>3, <2>2 DEF Validate
  <2> QED BY <1>0, <1>1, <2>1, <2>3, <2>4, StageAdvances DEF StageInv, Copying
<1>4. CASE BeginPass(p) \/ \E k \in ObjectKeys : CopyKey(p, k)
  <2>1. Running(p) /\ UNCHANGED <<mig, snap>>
    BY <1>4 DEF BeginPass, CopyKey, Running
  <2>2. \E l : LoopSet(p, l) /\ l.st = loop[p].st
    <3>1. CASE BeginPass(p)
      <4> DEFINE l == [loop[p] EXCEPT !.at = "pass", !.keys = Referenced,
                         !.todo = IF loop[p].st = "copying" THEN Referenced \ mig.passed
                                  ELSE Referenced]
      <4>1. LoopSet(p, l) /\ l.st = loop[p].st
        BY <1>0, <3>1 DEF BeginPass, Loop
      <4> HIDE DEF l
      <4> QED BY <4>1
    <3>2. ASSUME NEW k \in ObjectKeys, CopyKey(p, k)
          PROVE  \E l : LoopSet(p, l) /\ l.st = loop[p].st
      <4> DEFINE lp == [loop[p] EXCEPT !.todo = @ \ {k}]
                 ok == [lp EXCEPT !.marks = @ \cup {k}]
                 bad(m) == [lp EXCEPT !.errs = Append(@, [key |-> k, missing |-> m])]
      <4>1. /\ lp.st = loop[p].st /\ ok.st = loop[p].st
            /\ bad(TRUE).st = loop[p].st /\ bad(FALSE).st = loop[p].st
        BY <1>0 DEF Loop
      <4>2. \/ LoopSet(p, lp) \/ LoopSet(p, ok)
            \/ LoopSet(p, bad(TRUE)) \/ LoopSet(p, bad(FALSE))
        BY <3>2 DEF CopyKey
      <4> HIDE DEF lp, ok, bad
      <4> QED BY <4>1, <4>2
    <3> QED BY <1>4, <3>1, <3>2
  <2>3. LoopAlone'
    BY <1>1, <2>1, <2>2, LoopGoesOn DEF StageInv
  <2> QED BY <1>0, <1>1, <2>1, <2>3, StageAdvances DEF StageInv
<1>5. CASE CommitBatch(p)
  <2>1. Running(p) /\ snap' = snap
    BY <1>5 DEF CommitBatch, Running
  <2> DEFINE l == [loop[p] EXCEPT !.marks = {}, !.errs = Kept(@),
                                  !.at = IF loop[p].todo = {} THEN "judge" ELSE @]
  <2>2. LoopSet(p, l) /\ l.st = loop[p].st
    BY <1>0, <1>5 DEF CommitBatch, Loop
  <2>3. mig'.state = mig.state /\ mig'.leased
    BY <1>0, <1>5 DEF CommitBatch, Mig
  <2>4. LoopAlone'
    <3> HIDE DEF l
    <3> QED BY <1>1, <2>1, <2>2, <2>3, LoopGoesOn DEF StageInv
  <2> QED BY <1>0, <1>1, <2>1, <2>3, <2>4, StageAdvances DEF StageInv
<1>6. CASE Judge(p)
  <2>1. Running(p)
    BY <1>6 DEF Judge, Running
  <2> DEFINE l == [loop[p] EXCEPT !.at = "look", !.st = "verifying"]
             again == [loop[p] EXCEPT !.at = "look"]
  <2>2. l.st = "verifying" /\ again.st = loop[p].st
    BY <1>0 DEF Loop
  <2>3. \/ LoopSet(p, l) /\ mig'.state = "verifying" /\ mig'.leased = mig.leased
        \/ LoopSet(p, again) /\ mig' = mig
        \/ LoopSet(p, Off) /\ mig'.state = "ready_to_flip"
    BY <1>0, <1>6 DEF Judge, Mig
  <2>4. LoopAlone'
    <3> HIDE DEF l, again
    <3> QED BY <1>0, <1>1, <2>1, <2>2, <2>3, LoopGoesOn DEF StageInv, Copying
  <2>5. mig'.state \in Copying \cup {"ready_to_flip"}
    BY <1>1, <2>1, <2>3 DEF Copying
  <2>6. snap' = snap \/ \E q : Publish(q, config, mig')
    BY <1>6 DEF Judge
  <2> QED BY <1>0, <1>1, <2>1, <2>4, <2>5, <2>6, StageAdvances DEF StageInv
<1> QED BY <1>2, <1>3, <1>4, <1>5, <1>6 DEF LoopStep

(* ... of a process ...                                                    *)
LEMMA StageProcesses ==
    ASSUME StoreTyped, StoreTyped', StageInv, NEW p \in Apis,
           \/ Start(p) \/ Reload(p) \/ Boot(p)
           \/ \E b \in Buckets : SetBucket(p, b)
    PROVE  StageInv'
<1>0. mig \in Mig /\ config \in Config /\ config' \in Config /\ mig' \in Mig
  BY DEF StoreTyped
<1>1. UNCHANGED <<disk, obj, asked>>
  BY DEF Start, Reload, Boot, SetBucket, Store
<1>2. [Off EXCEPT !.at = "claim"].at = "claim"
  BY DEF Off
<1>3. ASSUME NEW q \in Apis, Running(q)' PROVE Running(q) /\ loop'[q] = loop[q]
  BY <1>2, <1>3 DEF Running, Start, Reload, Boot, SetBucket, LoopSet,
                    StoreTyped
<1>4. CASE Start(p)
  <2>1. mig'.state = "validating" /\ mig.state \notin Open /\ config.active # "s3"
    BY <1>4 DEF Start
  <2>2. mig.state \notin {"cleaning", "done", "completed", "ready_to_flip"} \cup Copying
    BY <1>4, <2>1 DEF Start, Open, StageInv, StageOfBackend
  <2>3. \A q \in Apis : ~Running(q)
    BY <2>2 DEF StageInv, LoopAlone
  <2>4. LoopAlone'
    BY <1>3, <2>3 DEF LoopAlone
  <2>5. StageOfBackend' /\ RequestsCurrent' /\ DiskComplete'
    BY <1>1, <1>4, <2>1, <2>2 DEF Start, StageInv, StageOfBackend, RequestsCurrent,
                                  DiskComplete, HasBytes
  <2>6. SnapshotsCurrent'
    BY <1>0, <1>4, <2>1, <2>2, SnapshotsPublished DEF Start, StageInv
  <2> QED BY <2>4, <2>5, <2>6 DEF StageInv
<1>5. CASE Reload(p) \/ Boot(p) \/ \E b \in Buckets : SetBucket(p, b)
  <2>1. mig' = mig /\ config'.active = config.active
    BY <1>0, <1>5 DEF Reload, Boot, SetBucket, Config
  <2>2. LoopAlone'
    BY <1>3, <2>1 DEF StageInv, LoopAlone
  <2>3. StageOfBackend' /\ RequestsCurrent' /\ DiskComplete'
    BY <1>1, <2>1 DEF StageInv, StageOfBackend, RequestsCurrent, DiskComplete, HasBytes
  <2>4. Publish(p, config', mig')
    BY <1>5, <2>1 DEF Reload, Boot, SetBucket, Published, Store
  <2>5. SnapshotsCurrent'
    BY <1>0, <2>1, <2>4, SnapshotsPublished DEF StageInv, StageOfBackend
  <2> QED BY <2>2, <2>3, <2>5 DEF StageInv
<1> QED BY <1>4, <1>5

(* ... for the death of one ...                                            *)
LEMMA StageDie ==
    ASSUME CopyInv, StageInv, NEW p \in Apis, ProcessDies(p)
    PROVE  StageInv'
<1>1. UNCHANGED <<disk, config, mig>>
  BY DEF ProcessDies
<1>2. \A q \in Apis : Running(q)' => Running(q) /\ loop'[q] = loop[q]
  BY DEF ProcessDies, LoopSet, Off, Running, CopyInv, StoreTyped
<1>3. LoopAlone'
  BY <1>1, <1>2 DEF StageInv, LoopAlone
<1>4. \A r \in Portals : asked'[r] = asked[r] \/ asked'[r].at = "idle"
  BY DEF ProcessDies, NoReq
<1>5. StageOfBackend' /\ RequestsCurrent'
  BY <1>1, <1>4 DEF StageInv, StageOfBackend, RequestsCurrent
<1>6. \A q \in Apis : snap'[q] = snap[q] \/ snap'[q].backend = "local"
  BY DEF ProcessDies, Down, CopyInv, StoreTyped
<1>7. SnapshotsCurrent'
  BY <1>1, <1>6 DEF StageInv, SnapshotsCurrent
<1>8. DiskComplete'
  BY <1>1, BytesOutlive DEF StageInv, DiskComplete
<1> QED BY <1>3, <1>5, <1>7, <1>8 DEF StageInv

(* ... of the portal's only request: nobody has moved the row since it was *)
(* read ...                                                                *)
LEMMA StagePortal ==
    ASSUME Expected, StoreTyped, StoreTyped', StageInv, NEW r \in Portals, PortalStep(r)
    PROVE  StageInv'
<1>0. /\ mig \in Mig /\ mig' \in Mig /\ config \in Config /\ config' \in Config
      /\ asked[r] \in Asked
  BY DEF StoreTyped
<1>1. \A x \in Portals : x = r
  BY DEF Expected
<1>2. mig.state \in {"ready_to_flip", "completed", "cleaning"}
  BY DEF PortalStep, ReadRow, ReadyFor, Ops, Flip, Rollback,
         CleanStarts, ListDone, CleanEnds, Unlink, StageInv, RequestsCurrent
<1>3. LoopAlone'
  <2>1. \A q \in Apis : ~Running(q)
    BY <1>2 DEF StageInv, LoopAlone, Copying
  <2>2. loop' = loop
    BY DEF PortalStep, ReadRow, Flip, Rollback, CleanStarts,
           ListDone, CleanEnds, Unlink
  <2> QED BY <2>1, <2>2 DEF LoopAlone, Running
<1>4. obj' = obj
  BY DEF PortalStep, ReadRow, Flip, Rollback, CleanStarts,
         ListDone, CleanEnds, Unlink, Store
<1>5. NoReq.at = "idle"
  BY DEF NoReq
<1>6. ASSUME NEW p \in Apis, NEW op \in Ops, ReadRow(r, p, op) PROVE StageInv'
  <2>1. /\ UNCHANGED <<disk, config, mig, snap>>
        /\ asked' = [asked EXCEPT ![r] = [NoReq EXCEPT !.op = op, !.at = "read", !.by = p,
                                                       !.st = mig.state]]
        /\ mig.state \in {"ready_to_flip", "completed"}
        /\ op = "clean" => mig.state = "completed"
    BY <1>6 DEF ReadRow, Store, ReadyFor, Ops
  <2>2. asked'[r].at = "read" /\ asked'[r].st = mig.state /\ asked'[r].op = op
    BY <2>1 DEF StoreTyped, NoReq
  <2>3. RequestsCurrent'
    BY <1>1, <2>1, <2>2 DEF RequestsCurrent
  <2> QED BY <1>3, <1>4, <2>1, <2>3 DEF StageInv, StageOfBackend, SnapshotsCurrent,
                                       DiskComplete, HasBytes
<1>7. CASE Flip(r)
  <2>1. asked'[r].at = "idle" /\ disk' = disk
    BY <1>5, <1>7 DEF Flip, Store, StoreTyped
  <2>2. mig'.state = "completed" /\ config'.active = "s3"
    <3>1. mig.state = asked[r].st /\ "completed" \in States
      BY <1>7 DEF Flip, StageInv, RequestsCurrent, States
    <3> QED BY <1>0, <1>7, <3>1, WrittenIsTyped DEF Flip, Config
  <2>3. SnapshotsCurrent'
    BY <1>0, <1>2, <1>7, <2>2, SnapshotsPublished DEF Flip, StageInv
  <2>4. mig.state \notin {"cleaning", "done"}
    BY <1>7 DEF Flip, StageInv, RequestsCurrent
  <2> QED BY <1>1, <1>3, <1>4, <2>1, <2>2, <2>3, <2>4
          DEF StageInv, StageOfBackend, RequestsCurrent, DiskComplete, HasBytes
<1>8. CASE Rollback(r)
  <2>1. asked'[r].at = "idle" /\ disk' = disk
    BY <1>5, <1>8 DEF Rollback, Store, StoreTyped
  <2>2. mig'.state = "ready_to_flip" /\ config'.active = "local"
    <3>1. mig.state = asked[r].st /\ "ready_to_flip" \in States
      BY <1>8 DEF Rollback, StageInv, RequestsCurrent, States
    <3> QED BY <1>0, <1>8, <3>1, WrittenIsTyped DEF Rollback, Config
  <2>3. SnapshotsCurrent'
    BY <1>0, <1>2, <1>8, <2>2, SnapshotsPublished DEF Rollback, StageInv
  <2>4. mig.state \notin {"cleaning", "done"}
    BY <1>8 DEF Rollback, StageInv, RequestsCurrent
  <2> QED BY <1>1, <1>3, <1>4, <2>1, <2>2, <2>3, <2>4
          DEF StageInv, StageOfBackend, RequestsCurrent, DiskComplete, HasBytes
<1>9. CASE CleanStarts(r)
  <2>1. UNCHANGED <<config, snap>> /\ asked'[r].at = "list"
    BY <1>0, <1>9 DEF CleanStarts, StoreTyped, Asked
  <2>2. mig.state = asked[r].st /\ mig.state = "completed" /\ "cleaning" \in States
    BY <1>9 DEF CleanStarts, StageInv, RequestsCurrent, States
  <2>3. mig'.state = "cleaning"
    BY <1>9, <2>2, WrittenIsTyped DEF CleanStarts
  <2> QED BY <1>1, <1>3, <2>1, <2>2, <2>3
          DEF StageInv, StageOfBackend, RequestsCurrent, SnapshotsCurrent, DiskComplete
<1>10. CASE ListDone(r) \/ \E k \in ObjectKeys : Unlink(r, k)
  <2>1. UNCHANGED <<config, mig, snap>> /\ mig.state = "cleaning"
    BY <1>10 DEF ListDone, Unlink, StageInv, RequestsCurrent, Store
  <2>2. asked'[r].at = "unlink"
    <3>1. CASE ListDone(r)
      <4>1. asked' = [asked EXCEPT ![r] = [asked[r] EXCEPT !.at = "unlink", !.keys = done]]
        BY <3>1 DEF ListDone
      <4>2. [asked[r] EXCEPT !.at = "unlink", !.keys = done].at = "unlink"
        BY <1>0 DEF Asked
      <4> QED BY <4>1, <4>2 DEF StoreTyped
    <3>2. ASSUME NEW k \in ObjectKeys, Unlink(r, k) PROVE asked'[r].at = "unlink"
      <4>1. [asked[r] EXCEPT !.keys = @ \ {k}].at = asked[r].at
        BY <1>0 DEF Asked
      <4> QED BY <3>2, <4>1 DEF Unlink, StoreTyped
    <3> QED BY <1>10, <3>1, <3>2
  <2> QED BY <1>1, <1>3, <2>1, <2>2
          DEF StageInv, StageOfBackend, RequestsCurrent, SnapshotsCurrent, DiskComplete
<1>11. CASE CleanEnds(r)
  <2>1. asked'[r].at = "idle" /\ config' = config /\ mig.state = "cleaning"
    BY <1>5, <1>11 DEF CleanEnds, Store, StoreTyped, StageInv, RequestsCurrent
  <2>2. mig'.state = "done"
    BY <1>0, <1>11 DEF CleanEnds, Mig
  <2>3. SnapshotsCurrent'
    BY <1>0, <1>11, <2>1, <2>2, SnapshotsPublished DEF CleanEnds, StageInv
  <2> QED BY <1>1, <1>3, <2>1, <2>2, <2>3
          DEF StageInv, StageOfBackend, RequestsCurrent, DiskComplete
<1> QED BY <1>6, <1>7, <1>8, <1>9, <1>10, <1>11 DEF PortalStep

(* ... and of a writer: a put under S3 leaves its copy on the disk, until  *)
(* cleaning has begun.                                                     *)
LEMMA StageObjects ==
    ASSUME Expected, StoreTyped, StoreTyped', StageInv,
           NEW p \in Apis, NEW k \in ObjectKeys, ObjectStep(p, k)
    PROVE  StageInv'
<1>0. obj[k] \in Obj /\ UNCHANGED <<config, mig, snap, loop, asked>>
  BY DEF ObjectStep, Put, Mark, Refer, Unrefer, Delete,
         Objects, StoreTyped
<1>1. LoopAlone' /\ StageOfBackend' /\ RequestsCurrent' /\ SnapshotsCurrent'
  BY <1>0 DEF StageInv, LoopAlone, Running, StageOfBackend, RequestsCurrent, SnapshotsCurrent
<1>2. ASSUME NEW j \in ObjectKeys \ {k}
      PROVE  obj'[j] = obj[j] /\ (j \in disk' <=> j \in disk)
  BY DEF ObjectStep, Put, PutLocal, PutS3, Mark, Refer,
         Unrefer, Delete, Stored, StoreTyped
<1>3. ASSUME mig.state \notin {"cleaning", "done"}, HasBytes(k)'
      PROVE  k \in disk' \/ (HasBytes(k) /\ disk' = disk)
  <2>1. CASE PutLocal(p, k, obj[k].ref)
    <3>1. disk' = disk \cup {k}
      BY <2>1 DEF PutLocal
    <3> QED BY <3>1
  <2>2. CASE PutS3(p, k, obj[k].ref)
    <3>1. snap[p].dual
      BY <1>3, <2>2 DEF PutS3, StageInv, SnapshotsCurrent
    <3>2. PICK ok \in BOOLEAN :
              /\ IF ok THEN UNCHANGED failures ELSE snap[p].dual /\ Fails("mirror")
              /\ disk' = Stored(disk, k, ok /\ snap[p].dual)
      BY <2>2 DEF PutS3
    <3>3. ~Fails("mirror")
      BY DEF Fails, Expected
    <3>4. ok
      BY <3>2, <3>3
    <3> QED BY <3>1, <3>2, <3>4 DEF Stored
  <2>3. CASE Mark(p, k) \/ Refer(p, k)
    BY <2>3 DEF Mark, Refer, HasBytes
  <2>4. CASE Unrefer(p, k)
    <3>1. obj' = [obj EXCEPT ![k] = [obj[k] EXCEPT !.at = "dropped", !.by = p, !.ref = FALSE]]
      BY <2>4 DEF Unrefer
    <3>2. obj'[k].at = "dropped"
      BY <1>0, <3>1 DEF StoreTyped, Obj
    <3> QED BY <1>3, <3>2 DEF HasBytes
  <2>5. CASE Delete(p, k)
    <3>1. obj' = [obj EXCEPT ![k] = [obj[k] EXCEPT !.at = "gone"]]
      BY <2>5 DEF Delete
    <3>2. obj'[k].at = "gone"
      BY <1>0, <3>1 DEF StoreTyped, Obj
    <3> QED BY <1>3, <3>2 DEF HasBytes
  <2> QED BY <2>1, <2>2, <2>3, <2>4, <2>5 DEF ObjectStep, Put
<1>4. DiskComplete'
  <2>1. ASSUME NEW j \in ObjectKeys \ Legacy, mig'.state \notin {"cleaning", "done"},
               HasBytes(j)'
        PROVE  j \in disk'
    <3>1. CASE j = k
      BY <1>0, <1>3, <2>1, <3>1 DEF StageInv, DiskComplete
    <3>2. CASE j # k
      <4>1. HasBytes(j)
        BY <1>2, <2>1, <3>2 DEF HasBytes
      <4> QED BY <1>0, <1>2, <2>1, <3>2, <4>1 DEF StageInv, DiskComplete
    <3> QED BY <3>1, <3>2
  <2> QED BY <2>1 DEF DiskComplete
<1> QED BY <1>1, <1>4 DEF StageInv

(* So every step keeps StageInv ...                                        *)
LEMMA StageStep ==
    ASSUME Expected, CopyInv, CopyInv', StageInv,
           [StorageNext]_storageVars
    PROVE  StageInv'
<1>0. StoreTyped /\ StoreTyped'
  BY DEF CopyInv
<1>1. CASE UNCHANGED storageVars
  BY <1>1 DEF storageVars, StageInv, LoopAlone, Running, StageOfBackend, RequestsCurrent,
              SnapshotsCurrent, DiskComplete, HasBytes
<1>2. CASE LeaseRunsOut
  <2>1. \A p \in Apis : ~Running(p)
    BY <1>2 DEF LeaseRunsOut, Expected, Running
  <2>2. mig'.state = mig.state
    BY <1>0, <1>2 DEF LeaseRunsOut, StoreTyped, Mig
  <2>3. UNCHANGED <<disk, obj, config, snap, loop, asked>>
    BY <1>2 DEF LeaseRunsOut, Rest
  <2>4. LoopAlone'
    BY <2>1, <2>3 DEF LoopAlone, Running
  <2> QED BY <2>2, <2>3, <2>4 DEF StageInv, StageOfBackend, RequestsCurrent, SnapshotsCurrent,
                                  DiskComplete, HasBytes
<1> QED BY <1>0, <1>1, <1>2, StageObjects, StageLoops, StageProcesses, StageDie, StagePortal
        DEF StorageNext

(* ... which holds initially.                                              *)
LEMMA StageInit == ASSUME StorageInit PROVE StageInv
<1>1. /\ config.active = "local" /\ mig.state = "none"
      /\ \A p \in Apis : loop[p].at = "off"
      /\ \A r \in Portals : asked[r].at = "idle"
  BY DEF StorageInit, Off, NoReq
<1>2. \A p \in Apis : snap[p].backend = "local"
  BY <1>1, SnapshotSays DEF StorageInit
<1>3. \A k \in ObjectKeys \ Legacy : ~HasBytes(k)
  BY DEF StorageInit, NewObj, HasBytes
<1> QED BY <1>1, <1>2, <1>3 DEF StageInv, LoopAlone, Running, StageOfBackend, RequestsCurrent,
                                SnapshotsCurrent, DiskComplete

(* The inductive invariant about the stages, when loops and requests do    *)
(* not overlap and every mirror write succeeds.                            *)
THEOREM StageInvariant == ASSUME Expected PROVE StorageSpec => []StageInv
<1>1. StorageInit => StageInv
  BY StageInit
<1>2. CopyInv /\ CopyInv' /\ StageInv /\ [StorageNext]_storageVars => StageInv'
  BY StageStep
<1> QED BY <1>1, <1>2, CopyInvariant, PTL DEF StorageSpec

(* The local disk is a complete superset until the clean-up (ADR 0025, 3), *)
(* so that a rollback loses nothing: under the same hypotheses, each of    *)
(* which TLC shows to be needed.                                           *)
THEOREM LocalsAreComplete ==
    ASSUME Expected
    PROVE  StorageSpec => []LocalIsSuperset
<1>1. CopyInv /\ StageInv => LocalIsSuperset
  BY DEF CopyInv, RefsHaveBytes, StageInv, StageOfBackend, DiskComplete, LocalIsSuperset,
         Referenced
<1> QED BY <1>1, CopyInvariant, StageInvariant, PTL
=============================================================================
