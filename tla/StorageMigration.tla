-------------------------- MODULE StorageMigration --------------------------
(***************************************************************************)
(* The object store moving from the local disk to S3 while it is in use:   *)
(* the leased copy loop, the portal requests that drive it, the snapshot   *)
(* of the configuration each process works from, and the reads, writes     *)
(* and deletions of objects that go on meanwhile.                          *)
(*                                                                         *)
(* internal/media/migrate.py, config.py and storage.py,                    *)
(* cmd/api/routes/storage.py, internal/memory/repos.py.                    *)
(*                                                                         *)
(* A store is the set of keys whose current bytes it holds.  The loop's    *)
(* session keeps the row it has read (expire_on_commit is off), so its     *)
(* view of the state is its own and its writes do not look first.          *)
(***************************************************************************)
EXTENDS Naturals, Sequences, FiniteSets

CONSTANTS
    ObjectKeys,         \* object keys
    Transcripts,  \* the keys that are written more than once
    Legacy,       \* keys referenced since before, some of them without a file
    Buckets, NoBucket,
    Apis,         \* API processes
    Portals,     \* portal requests that may be in flight at once
    Faults,       \* what may fail: "copy", "dual" (S3 put), "mirror" (local put), "mark"
    MaxFailures,    \* bound on failures and crashes
    MaxStarts,    \* bound on migrations
    ErrCap,       \* how many error_keys are kept (50)
    CopyOverlap,      \* whether a lease may run out under a live loop
    QuickBoot     \* whether a process may be back before its lease has run out

ASSUME StorageAssumption ==
    /\ Transcripts \subseteq ObjectKeys /\ Legacy \subseteq ObjectKeys
    /\ NoBucket \notin Buckets
    /\ Faults \subseteq {"copy", "dual", "mirror", "mark"}
    /\ MaxFailures \in Nat /\ MaxStarts \in Nat /\ ErrCap \in Nat
    /\ CopyOverlap \in BOOLEAN /\ QuickBoot \in BOOLEAN

VARIABLES
    disk,    \* keys with a local file
    s3,      \* per bucket, its objects
    obj,     \* per key: how far its writer is, and in which process
    config,  \* active backend, and the bucket of the S3 row
    mig,     \* the newest storage_migrations row
    done,    \* migration_done_keys
    snap,    \* the snapshot each API process has published; "down" if none
    loop,    \* run_migration_loop of each API process
    asked,     \* portal requests
    starts, failures

storageVars == <<disk, s3, obj, config, mig, done, snap, loop, asked, starts, failures>>

States == {"none", "validating", "copying", "verifying", "ready_to_flip", "completed",
           "cleaning", "done", "failed"}
Copying == {"validating", "copying", "verifying"}
Open == Copying \cup {"ready_to_flip", "completed", "cleaning"}
Ops == {"flip", "rollback", "clean"}

(* load_snapshot: the active row, dual-write while a migration is open.    *)
Snapshot(c, m) ==
    [up |-> TRUE, backend |-> c.active, dual |-> m.state \in Open, bucket |-> c.bucket]
Down == [up |-> FALSE, backend |-> "local", dual |-> FALSE, bucket |-> NoBucket]
Publish(p, c, m) == snap' = [snap EXCEPT ![p] = Snapshot(c, m)]
Published(p) == Publish(p, config, mig)

Off == [at |-> "off", st |-> "none", keys |-> {}, todo |-> {}, marks |-> {}, errs |-> <<>>]
NoReq == [op |-> "none", at |-> "idle", st |-> "none", by |-> CHOOSE p \in Apis : TRUE,
          keys |-> {}]
Fails(kind) == kind \in Faults /\ failures < MaxFailures /\ failures' = failures + 1
Up(p) == snap[p].up

----------------------------------------------------------------------------
(* Objects: put_bytes, its mark, the commit of the row that refers to the  *)
(* key, and the deletion that follows the row's.                           *)

Objects == <<config, mig, snap, loop, asked, starts>>
Reaches(sn, b) == sn.bucket = b /\ (sn.backend = "s3" \/ sn.dual)
Stored(ks, k, ok) == IF ok THEN ks \cup {k} ELSE ks \ {k}
Onto(sn, k, ok) == [b \in Buckets |-> Stored(s3[b], k, ok /\ Reaches(sn, b))]
Without(sn, k) == [b \in Buckets |-> IF Reaches(sn, b) THEN s3[b] \ {k} ELSE s3[b]]

(* _put_bytes_sync.  The backend's own store must take the bytes; what     *)
(* the other one does is only logged.  A store that a put does not reach   *)
(* is left with what is no longer the key's current bytes, if anything.    *)
PutLocal(p, k, from) ==
    /\ snap[p].backend = "local"
    /\ disk' = disk \cup {k}
    /\ \E ok \in BOOLEAN :
         /\ IF ok THEN UNCHANGED failures ELSE snap[p].dual /\ Fails("dual")
         /\ s3' = Onto(snap[p], k, ok)
         /\ obj' = [obj EXCEPT ![k] = [at |-> "put", by |-> p, s3 |-> ok /\ snap[p].dual,
                                       ref |-> from]]

(* Without the local copy that a rollback goes back to.                    *)
PutS3Only(p, k, from) ==
    /\ snap[p].backend = "s3"
    /\ s3' = Onto(snap[p], k, TRUE)
    /\ obj' = [obj EXCEPT ![k] = [at |-> "put", by |-> p, s3 |-> TRUE, ref |-> from]]
    /\ UNCHANGED <<disk, failures>>

PutS3(p, k, from) ==
    /\ snap[p].backend = "s3"
    /\ s3' = Onto(snap[p], k, TRUE)
    /\ \E ok \in BOOLEAN :
         /\ IF ok THEN UNCHANGED failures ELSE snap[p].dual /\ Fails("mirror")
         /\ disk' = Stored(disk, k, ok /\ snap[p].dual)
    /\ obj' = [obj EXCEPT ![k] = [at |-> "put", by |-> p, s3 |-> TRUE, ref |-> from]]

(* A new object, or a transcript posted again under its key.               *)
Put(p, k) ==
    /\ Up(p)
    /\ \/ obj[k].at = "new"
       \/ obj[k].at = "live" /\ k \in Transcripts
    /\ (PutLocal(p, k, obj[k].ref) \/ PutS3(p, k, obj[k].ref))
    /\ UNCHANGED <<done, Objects>>

(* Without a look at whether the copy was made.                            *)
MarkAnyway(p, k) ==
    /\ obj[k].at = "put" /\ obj[k].by = p /\ Up(p)
    /\ obj' = [obj EXCEPT ![k].at = "marked"]
    /\ done' = IF snap[p].dual THEN done \cup {k} ELSE done
    /\ UNCHANGED <<disk, s3, failures, Objects>>

(* put_bytes: the mark, if the process still is in dual-write.  That it    *)
(* could not be set is only logged.                                        *)
Mark(p, k) ==
    /\ obj[k].at = "put" /\ obj[k].by = p /\ Up(p)
    /\ obj' = [obj EXCEPT ![k].at = "marked"]
    /\ \/ done' = (IF obj[k].s3 /\ snap[p].dual THEN done \cup {k} ELSE done)
          /\ UNCHANGED failures
       \/ obj[k].s3 /\ snap[p].dual /\ Fails("mark") /\ UNCHANGED done
    /\ UNCHANGED <<disk, s3, Objects>>

Refer(p, k) ==
    /\ obj[k].at = "marked" /\ obj[k].by = p /\ Up(p)
    /\ obj' = [obj EXCEPT ![k].at = "live", ![k].ref = TRUE]
    /\ UNCHANGED <<disk, s3, done, failures, Objects>>

Unrefer(p, k) ==
    /\ obj[k].at = "live" /\ obj[k].ref /\ Up(p)
    /\ obj' = [obj EXCEPT ![k] = [@ EXCEPT !.at = "dropped", !.by = p, !.ref = FALSE]]
    /\ UNCHANGED <<disk, s3, done, failures, Objects>>

(* _delete_key_sync, of what no row refers to any more (gc.py).            *)
Delete(p, k) ==
    /\ obj[k].at = "dropped" /\ obj[k].by = p /\ Up(p)
    /\ obj' = [obj EXCEPT ![k].at = "gone"]
    /\ disk' = IF snap[p].backend = "local" \/ snap[p].dual THEN disk \ {k} ELSE disk
    /\ s3' = Without(snap[p], k)
    /\ UNCHANGED <<done, failures, Objects>>

Referenced == {k \in ObjectKeys : obj[k].ref}

(* _get_bytes_sync, under a snapshot.                                      *)
Reads(sn, k) ==
    \/ (sn.backend = "local" \/ sn.dual) /\ k \in disk
    \/ \E b \in Buckets : Reaches(sn, b) /\ k \in s3[b]

----------------------------------------------------------------------------
(* The copy loop.                                                          *)

LoopSet(p, r) == loop' = [loop EXCEPT ![p] = r]
Rest == <<disk, obj, config, asked, starts>>
Leased == mig' = [mig EXCEPT !.leased = TRUE]

(* claim_storage_migration_lease: nothing more happens when it is taken.   *)
ClaimLease(p) ==
    /\ loop[p].at = "claim"
    /\ IF mig.leased
       THEN LoopSet(p, Off) /\ UNCHANGED mig
       ELSE /\ Leased
            /\ LoopSet(p, IF mig.state \in Copying
                          THEN [Off EXCEPT !.at = "look", !.st = mig.state, !.errs = mig.errs]
                          ELSE Off)
    /\ UNCHANGED <<Rest, s3, done, snap, failures>>

(* validating: the probe, and the row's next state.                        *)
Validate(p) ==
    /\ loop[p].at = "look" /\ loop[p].st = "validating"
    /\ \/ /\ mig' = [mig EXCEPT !.state = "copying", !.leased = TRUE]
          /\ LoopSet(p, [loop[p] EXCEPT !.st = "copying"])
          /\ UNCHANGED failures
       \/ /\ Fails("copy")
          /\ mig' = [mig EXCEPT !.state = "failed"]
          /\ LoopSet(p, Off)
    /\ UNCHANGED <<Rest, s3, done, snap>>

(* list_all_media_refs, and the pass over what it lists.  A copying pass   *)
(* starts after the cursor.                                                *)
BeginPass(p) ==
    /\ loop[p].at = "look" /\ loop[p].st \in {"copying", "verifying"}
    /\ LoopSet(p, [loop[p] EXCEPT !.at = "pass", !.keys = Referenced,
                     !.todo = IF loop[p].st = "copying" THEN Referenced \ mig.passed
                              ELSE Referenced])
    /\ UNCHANGED <<Rest, s3, mig, done, snap, failures>>

(* The mark before the copy is known to be there.                          *)
CopyKeyTrusting(p, k) ==
    /\ loop[p].at = "pass" /\ k \in loop[p].todo
    /\ LoopSet(p, [loop[p] EXCEPT !.todo = @ \ {k}, !.marks = @ \cup {k}])
    /\ \/ s3' = [s3 EXCEPT ![config.bucket] = @ \cup ({k} \cap disk)] /\ UNCHANGED failures
       \/ Fails("copy") /\ UNCHANGED s3
    /\ UNCHANGED <<Rest, mig, done, snap>>

(* One key of _run_copy_pass: done before, copied, without a file, or its  *)
(* copy failed.                                                            *)
CopyKey(p, k) ==
    LET lp == [loop[p] EXCEPT !.todo = @ \ {k}]
        ok == [lp EXCEPT !.marks = @ \cup {k}]
        missing == [lp EXCEPT !.errs = Append(@, [key |-> k, missing |-> TRUE])]
        failed == [lp EXCEPT !.errs = Append(@, [key |-> k, missing |-> FALSE])] IN
    /\ loop[p].at = "pass" /\ k \in loop[p].todo
    /\ \/ k \in done \cup loop[p].marks /\ LoopSet(p, lp) /\ UNCHANGED <<s3, failures>>
       \/ k \notin done \cup loop[p].marks /\ k \notin disk
          /\ LoopSet(p, missing) /\ UNCHANGED <<s3, failures>>
       \/ k \notin done \cup loop[p].marks /\ k \in disk /\ LoopSet(p, ok)
          /\ s3' = [s3 EXCEPT ![config.bucket] = @ \cup {k}] /\ UNCHANGED failures
       \/ k \notin done \cup loop[p].marks /\ k \in disk /\ Fails("copy")
          /\ LoopSet(p, failed) /\ UNCHANGED s3
    /\ UNCHANGED <<Rest, mig, done, snap>>

(* Without the errors: a key that has no file is waited for.               *)
KeptNone(errs) == <<>>
KeptAll(errs) == errs
Kept(errs) == SubSeq(errs, IF Len(errs) > ErrCap THEN Len(errs) - ErrCap + 1 ELSE 1, Len(errs))

(* The end of a batch: cursor, errors and marks, and the lease.            *)
CommitBatch(p) ==
    /\ loop[p].at = "pass"
    /\ done' = done \cup loop[p].marks
    /\ mig' = [mig EXCEPT !.leased = TRUE, !.errs = Kept(loop[p].errs),
                          !.passed = loop[p].keys \ loop[p].todo]
    /\ LoopSet(p, [loop[p] EXCEPT !.marks = {}, !.errs = Kept(@),
                                  !.at = IF loop[p].todo = {} THEN "judge" ELSE @])
    /\ UNCHANGED <<Rest, s3, snap, failures>>

(* After a copying pass, verifying; after a verifying pass, another one    *)
(* or the gate.                                                            *)
Still(p) == {k \in loop[p].keys \ done :
               \A i \in DOMAIN loop[p].errs : loop[p].errs[i] # [key |-> k, missing |-> TRUE]}

Judge(p) ==
    /\ loop[p].at = "judge"
    /\ \/ /\ loop[p].st = "copying"
          /\ mig' = [mig EXCEPT !.state = "verifying", !.passed = {}]
          /\ LoopSet(p, [loop[p] EXCEPT !.at = "look", !.st = "verifying"])
          /\ UNCHANGED snap
       \/ /\ loop[p].st = "verifying" /\ Still(p) # {}
          /\ LoopSet(p, [loop[p] EXCEPT !.at = "look"])
          /\ UNCHANGED <<mig, snap>>
       \/ /\ loop[p].st = "verifying" /\ Still(p) = {}
          /\ mig' = [mig EXCEPT !.state = "ready_to_flip"]
          /\ LoopSet(p, Off)
          /\ Publish(p, config, mig')
    /\ UNCHANGED <<Rest, s3, done, failures>>

(* At most LEASE_SECONDS after the loop that held it last renewed it.      *)
LeaseRunsOut ==
    /\ mig.leased
    /\ (CopyOverlap \/ \A p \in Apis : loop[p].at \in {"off", "claim"})
    /\ mig' = [mig EXCEPT !.leased = FALSE]
    /\ UNCHANGED <<Rest, s3, done, snap, loop, failures>>

----------------------------------------------------------------------------
(* The portal.                                                             *)

Store == <<disk, s3, obj>>

(* put_storage_config: not while a migration copies.                       *)
SetBucket(p, b) ==
    /\ Up(p) /\ b # config.bucket
    /\ mig.state \notin Open \ {"completed", "ready_to_flip"}
    /\ config' = [config EXCEPT !.bucket = b]
    /\ Publish(p, config', mig)
    /\ UNCHANGED <<Store, mig, done, loop, asked, starts, failures>>

(* start_migration, and the background task it leaves.                     *)
Start(p) ==
    /\ Up(p) /\ starts < MaxStarts
    /\ mig.state \notin Open /\ config.active = "local" /\ config.bucket # NoBucket
    /\ starts' = starts + 1
    /\ mig' = [state |-> "validating", leased |-> FALSE, passed |-> {}, errs |-> <<>>]
    /\ loop' = [loop EXCEPT ![p] = IF @.at = "off" THEN [Off EXCEPT !.at = "claim"] ELSE @]
    /\ Publish(p, config, mig')
    /\ UNCHANGED <<Store, config, done, asked, failures>>

(* get_storage_config publishes what it finds.                             *)
Reload(p) ==
    /\ Up(p) /\ snap[p] # Snapshot(config, mig)
    /\ Published(p)
    /\ UNCHANGED <<Store, config, mig, done, loop, asked, starts, failures>>

(* flip, rollback and clean read the row ...                               *)
ReadyFor(op) ==
    CASE op = "flip" -> mig.state \in {"ready_to_flip", "completed"}
      [] op = "rollback" -> mig.state \in {"ready_to_flip", "completed"}
      [] op = "clean" -> mig.state = "completed" /\ config.active = "s3"

ReadRow(r, p, op) ==
    /\ asked[r].at = "idle" /\ Up(p) /\ ReadyFor(op)
    /\ asked' = [asked EXCEPT ![r] = [NoReq EXCEPT !.op = op, !.at = "read", !.by = p,
                                                  !.st = mig.state]]
    /\ UNCHANGED <<Store, config, mig, done, snap, loop, starts, failures>>

(* ... and write what differs from what they have read.                    *)
Written(r, st) == [mig EXCEPT !.state = IF asked[r].st = st THEN @ ELSE st]

Flip(r) ==
    /\ asked[r].at = "read" /\ asked[r].op = "flip"
    /\ config' = [config EXCEPT !.active = "s3"]
    /\ mig' = Written(r, "completed")
    /\ Publish(asked[r].by, config', mig')
    /\ asked' = [asked EXCEPT ![r] = NoReq]
    /\ UNCHANGED <<Store, done, loop, starts, failures>>

Rollback(r) ==
    /\ asked[r].at = "read" /\ asked[r].op = "rollback"
    /\ config' = [config EXCEPT !.active = "local"]
    /\ mig' = Written(r, "ready_to_flip")
    /\ Publish(asked[r].by, config', mig')
    /\ asked' = [asked EXCEPT ![r] = NoReq]
    /\ UNCHANGED <<Store, done, loop, starts, failures>>

(* clean_migration: one transaction up to "cleaning", then the marks as    *)
(* they are by then, the files one by one, and the rest of the other       *)
(* transaction.                                                            *)
CleanStarts(r) ==
    /\ asked[r].at = "read" /\ asked[r].op = "clean"
    /\ mig' = Written(r, "cleaning")
    /\ asked' = [asked EXCEPT ![r].at = "list"]
    /\ UNCHANGED <<Store, config, done, snap, loop, starts, failures>>

ListDone(r) ==
    /\ asked[r].at = "list"
    /\ asked' = [asked EXCEPT ![r].at = "unlink", ![r].keys = done]
    /\ UNCHANGED <<Store, config, mig, done, snap, loop, starts, failures>>

Unlink(r, k) ==
    /\ asked[r].at = "unlink" /\ k \in asked[r].keys
    /\ disk' = disk \ {k}
    /\ asked' = [asked EXCEPT ![r].keys = @ \ {k}]
    /\ UNCHANGED <<s3, obj, config, mig, done, snap, loop, starts, failures>>

CleanEnds(r) ==
    /\ asked[r].at = "unlink" /\ asked[r].keys = {}
    /\ done' = {}
    /\ mig' = [mig EXCEPT !.state = "done"]
    /\ Publish(asked[r].by, config, mig')
    /\ asked' = [asked EXCEPT ![r] = NoReq]
    /\ UNCHANGED <<Store, config, loop, starts, failures>>

----------------------------------------------------------------------------
(* A process dies with its loop, its requests and its writers; when it is  *)
(* back it publishes a snapshot and resumes an open copy.                  *)

ProcessDies(p) ==
    /\ Up(p) /\ failures < MaxFailures /\ failures' = failures + 1
    /\ snap' = [snap EXCEPT ![p] = Down]
    /\ LoopSet(p, Off)
    /\ asked' = [r \in Portals |-> IF asked[r].by = p THEN NoReq ELSE asked[r]]
    /\ obj' = [k \in ObjectKeys |->
                  IF obj[k].by = p /\ obj[k].at \in {"put", "marked", "dropped"}
                  THEN [obj[k] EXCEPT !.at = IF obj[k].ref THEN "live" ELSE "gone"]
                  ELSE obj[k]]
    /\ UNCHANGED <<disk, s3, config, mig, done, starts>>

Boot(p) ==
    /\ ~Up(p) /\ (QuickBoot \/ ~mig.leased)
    /\ Published(p)
    /\ IF mig.state \in Copying THEN LoopSet(p, [Off EXCEPT !.at = "claim"]) ELSE UNCHANGED loop
    /\ UNCHANGED <<Store, config, mig, done, asked, starts, failures>>

----------------------------------------------------------------------------
NewObj == [at |-> "new", by |-> CHOOSE p \in Apis : TRUE, s3 |-> FALSE, ref |-> FALSE]

StorageInit ==
    /\ disk \in SUBSET Legacy
    /\ s3 = [b \in Buckets |-> {}]
    /\ obj = [k \in ObjectKeys |-> IF k \in Legacy THEN [NewObj EXCEPT !.at = "live", !.ref = TRUE]
                                   ELSE NewObj]
    /\ config = [active |-> "local", bucket |-> NoBucket]
    /\ mig = [state |-> "none", leased |-> FALSE, passed |-> {}, errs |-> <<>>]
    /\ done = {}
    /\ snap = [p \in Apis |-> Snapshot(config, mig)]
    /\ loop = [p \in Apis |-> Off]
    /\ asked = [r \in Portals |-> NoReq]
    /\ starts = 0 /\ failures = 0

LoopStep(p) ==
    \/ ClaimLease(p) \/ Validate(p) \/ BeginPass(p) \/ CommitBatch(p) \/ Judge(p)
    \/ \E k \in ObjectKeys : CopyKey(p, k)

ObjectStep(p, k) == Put(p, k) \/ Mark(p, k) \/ Refer(p, k) \/ Unrefer(p, k) \/ Delete(p, k)

PortalStep(r) ==
    \/ \E p \in Apis, op \in Ops : ReadRow(r, p, op)
    \/ Flip(r) \/ Rollback(r) \/ CleanStarts(r) \/ ListDone(r) \/ CleanEnds(r)
    \/ \E k \in ObjectKeys : Unlink(r, k)

StorageNext ==
    \/ \E p \in Apis : \/ LoopStep(p) \/ Start(p) \/ Reload(p) \/ ProcessDies(p) \/ Boot(p)
                       \/ \E k \in ObjectKeys : ObjectStep(p, k)
                       \/ \E b \in Buckets : SetBucket(p, b)
    \/ \E r \in Portals : PortalStep(r)
    \/ LeaseRunsOut

(* A live process goes on with its loop and its clean-up, a lease that     *)
(* nobody renews runs out, and a dead process is started again.            *)
StorageFairness ==
    /\ \A p \in Apis : WF_storageVars(LoopStep(p)) /\ WF_storageVars(Boot(p))
    /\ \A r \in Portals : /\ WF_storageVars(ListDone(r))
                         /\ WF_storageVars(\E k \in ObjectKeys : Unlink(r, k))
                         /\ WF_storageVars(CleanEnds(r))
    /\ WF_storageVars(LeaseRunsOut)

StorageSpec == StorageInit /\ [][StorageNext]_storageVars /\ StorageFairness

----------------------------------------------------------------------------
StorageTypeOK ==
    /\ disk \subseteq ObjectKeys /\ done \subseteq ObjectKeys
    /\ s3 \in [Buckets -> SUBSET ObjectKeys]
    /\ \A k \in ObjectKeys : obj[k].at \in {"new", "put", "marked", "live", "dropped", "gone"}
    /\ config \in [active : {"local", "s3"}, bucket : Buckets \cup {NoBucket}]
    /\ mig.state \in States /\ mig.passed \subseteq ObjectKeys /\ Len(mig.errs) <= ErrCap
    /\ \A p \in Apis : loop[p].at = "off" \/ loop[p].at = "claim" \/ loop[p].st \in Copying

(* No object that a row refers to is lost: whoever of the stores had its   *)
(* bytes, one of them has them now.  The clean-up is what could lose one   *)
(* (clean_migration deletes what migration_done_keys lists).               *)
NothingLost ==
    \A k \in Referenced \ Legacy : k \in disk \/ \E b \in Buckets : k \in s3[b]

(* "local is a complete superset of every store-backed key until cleanup"  *)
(* (ADR 0025, 3): while local is active, or can be made active again by a  *)
(* rollback, every object is on the disk.                                  *)
LocalIsSuperset ==
    config.active = "local" \/ mig.state \in {"ready_to_flip", "completed"} =>
        Referenced \ Legacy \subseteq disk

(* A done key is on the bucket that the flip will activate, with its       *)
(* current bytes: is_migration_key_done is asked instead of the bucket.    *)
DoneIsOnTarget ==
    \A k \in done \cap Referenced : config.bucket # NoBucket => k \in s3[config.bucket]

(* A copy that was started comes to the gate or fails, whatever dies       *)
(* meanwhile: resume_open_migration continues "a copy that was in flight   *)
(* when the process died".                                                 *)
CopyEnds == mig.state \in Copying ~> mig.state \notin Copying

(* Every object can be read by every process that serves requests.         *)
Readable ==
    \A p \in Apis : Up(p) => \A k \in Referenced \ Legacy : Reads(snap[p], k)

(* And by the worker, which ingests attachments.  It never loads a         *)
(* snapshot: it keeps the environment's.                                   *)
WorkerReads == \A k \in Referenced \ Legacy : Reads([Down EXCEPT !.up = TRUE], k)

(* A clean-up that has begun ends the migration, and with it dual-write.   *)
CleaningEnds == mig.state = "cleaning" ~> mig.state # "cleaning"
=============================================================================
