--------------------------- MODULE MultipartUpload ---------------------------
(* The direct multipart upload of one file: its row, its row in             *)
(* upload_multipart_sessions, the object store, and the handlers that race  *)
(* for them - initialisation, completion, abort, the maintenance sweep and  *)
(* the deletion of the file. A handler keeps what it read (the storage      *)
(* upload it works on) while it waits for the store, and the statements     *)
(* that end it name the file only, not the claim or the upload. The size    *)
(* and the hash of the file are fixed, so the integrity checks of a         *)
(* completed object succeed. Storage calls may fail without an answer; a    *)
(* completion that did so may still take effect later.                      *)
EXTENDS Naturals

CONSTANTS
    Request,        \* concurrent requests for the file, each may be repeated
    MaxUploads      \* bound: storage uploads that are ever created

ASSUME MultipartAssumption == MaxUploads \in Nat \ {0}

Upload == 1 .. MaxUploads
NoUpload == 0

VARIABLES
    file,       \* files.status
    key,        \* files.object_key is not null
    reserved,   \* files.reserved_bytes > 0
    session,    \* the row of upload_multipart_sessions
    store,      \* what became of each storage upload
    parts,      \* the storage uploads whose parts are all there
    late,       \* the unanswered completions that the store may still carry out
    object,     \* the storage upload whose object is stored under the key
    request,    \* per request: where it is and the storage upload it works on
    sweep,      \* the same for the maintenance sweep
    clean,      \* the steps of the cleanup job of a deleted file
    confirmed   \* an upload was acknowledged as completed

vars == <<file, key, reserved, session, store, parts, late, object, request,
          sweep, clean, confirmed>>
rows == <<file, key, reserved, session>>
storage == <<store, parts, late, object>>

Active == {"initiated", "uploading", "completing", "cancelling"}
Ended == {"failed", "cancelled", "expired"}

Where == {"idle", "create", "insert", "drop",
          "observe", "reclaim", "list", "assemble", "verify", "missing",
          "vanished", "rejected", "unknown", "fail", "failOrRelease", "release",
          "releaseAndMark", "mark", "confirm", "finalize", "settle",
          "abort", "absent", "doubt", "adopt", "cancel"}

TypeOK ==
    /\ file \in {"uploading", "pending", "failed", "deleting", "gone"}
    /\ key \in BOOLEAN /\ reserved \in BOOLEAN
    /\ session \in [status : Active \cup Ended \cup {"none", "completed"},
                    upload : 0 .. MaxUploads, expired : BOOLEAN,
                    retryable : BOOLEAN]
    /\ store \in [Upload -> {"unused", "open", "aborted", "done"}]
    /\ parts \in SUBSET Upload /\ late \in SUBSET Upload
    /\ object \in 0 .. MaxUploads
    /\ request \in [Request -> [at : Where, upload : 0 .. MaxUploads]]
    /\ sweep \in [at : {"idle", "head", "claim", "abort", "expire"},
                  upload : 0 .. MaxUploads]
    /\ clean \in [at : {"idle", "abort", "delete", "final", "done"},
                  upload : 0 .. MaxUploads]
    /\ confirmed \in BOOLEAN

Idle == [at |-> "idle", upload |-> NoUpload]
NoSession == [status |-> "none", upload |-> NoUpload, expired |-> FALSE,
              retryable |-> FALSE]

(* The file has just been reserved.                                         *)
Init ==
    /\ file = "uploading" /\ key = FALSE /\ reserved = TRUE
    /\ session = NoSession
    /\ store = [u \in Upload |-> "unused"]
    /\ parts = {} /\ late = {} /\ object = NoUpload
    /\ request = [r \in Request |-> Idle]
    /\ sweep = Idle /\ clean = Idle
    /\ confirmed = FALSE

-----------------------------------------------------------------------------
(* A request moves on, or ends.                                             *)

Go(r, at) == request' = [request EXCEPT ![r].at = at]
GoWith(r, at, u) == request' = [request EXCEPT ![r] = [at |-> at, upload |-> u]]
End(r) == request' = [request EXCEPT ![r] = Idle]
At(r, at) == request[r].at = at
Mine(r) == request[r].upload

OnlyRequest == UNCHANGED <<rows, storage, sweep, clean, confirmed>>

-----------------------------------------------------------------------------
(* The statements of the repository.                                        *)

(* finalizeMultipartUploadCompletion transitions.                           *)
Completable ==
    /\ session.status \in {"completing", "cancelling"}
    /\ file = "uploading" \/ (file = "pending" /\ key)

Publish ==
    /\ file' = "pending" /\ key' = TRUE
    /\ reserved' = FALSE
    /\ session' = [session EXCEPT !.status = "completed", !.retryable = FALSE]

(* finalizeMultipartUploadAbort and finalizeMultipartUploadFailure.         *)
GiveUp(from, to) ==
    IF session.status = from /\ file = "uploading"
    THEN /\ file' = "failed" /\ key' = FALSE /\ reserved' = FALSE
         /\ session' = [session EXCEPT !.status = to, !.retryable = FALSE]
    ELSE UNCHANGED rows

-----------------------------------------------------------------------------
(* initMultipartUpload                                                      *)

(* reserveUploadFile, then the look at the active session: an existing one  *)
(* is reported and nothing is created.                                      *)
BeginInit(r) ==
    /\ At(r, "idle")
    /\ file = "uploading" \/ (file = "failed" /\ ~key)
    /\ file' = "uploading" /\ reserved' = TRUE
    /\ IF session.status \in Active THEN UNCHANGED request ELSE Go(r, "create")
    /\ UNCHANGED <<key, session, storage, sweep, clean, confirmed>>

CreateStorageUpload(r) ==
    /\ At(r, "create")
    /\ \E u \in Upload :
          /\ store[u] = "unused"
          /\ \A v \in Upload : v < u => store[v] # "unused"
          /\ store' = [store EXCEPT ![u] = "open"]
          /\ GoWith(r, "insert", u)
    /\ UNCHANGED <<rows, parts, late, object, sweep, clean, confirmed>>

(* createMultipartUploadSession; a loser aborts the upload it created.      *)
InsertSession(r) ==
    /\ At(r, "insert")
    /\ IF file = "uploading" /\ session.status \in Ended \cup {"none"}
       THEN /\ session' = [NoSession EXCEPT !.status = "initiated",
                                            !.upload = Mine(r)]
            /\ End(r)
       ELSE UNCHANGED session /\ Go(r, "drop")
    /\ UNCHANGED <<file, key, reserved, storage, sweep, clean, confirmed>>

DropUpload(r) ==
    /\ At(r, "drop")
    /\ store' = [store EXCEPT ![Mine(r)] = "aborted"]
    /\ End(r)
    /\ UNCHANGED <<rows, parts, late, object, sweep, clean, confirmed>>

(* presignMultipartParts. Here and in a completion the expiry is checked on *)
(* an earlier read: the session may have expired since.                     *)
Presign ==
    /\ session.status = "initiated"
    /\ session' = [session EXCEPT !.status = "uploading"]
    /\ UNCHANGED <<file, key, reserved, storage, request, sweep, clean, confirmed>>

(* The browser sends the parts to the store with its signed addresses.      *)
SendParts(u) ==
    /\ store[u] = "open" /\ u \notin parts
    /\ parts' = parts \cup {u}
    /\ UNCHANGED <<rows, store, late, object, request, sweep, clean, confirmed>>

-----------------------------------------------------------------------------
(* completeMultipartUpload                                                  *)

(* claimMultipartUploadCompletion; a completion that is already under way   *)
(* is observed instead.                                                     *)
BeginCompletion(r) ==
    /\ At(r, "idle")
    /\ file # "gone"
    /\ \/ /\ session.status \in {"initiated", "uploading"}
          /\ file = "uploading"
          /\ session' = [session EXCEPT !.status = "completing",
                                        !.expired = FALSE, !.retryable = FALSE]
          /\ GoWith(r, "list", session.upload)
       \/ /\ session.status = "completing"
          /\ Go(r, "observe")
          /\ UNCHANGED session
    /\ UNCHANGED <<file, key, reserved, storage, sweep, clean, confirmed>>

Observe(r) ==
    /\ At(r, "observe")
    /\ \/ object # NoUpload /\ Go(r, "confirm")
       \/ object = NoUpload /\ Go(r, "reclaim")
       \/ End(r)
    /\ OnlyRequest

(* reclaimMultipartUploadCompletion: a completion marked as retryable.      *)
Reclaim(r) ==
    /\ At(r, "reclaim")
    /\ IF session.status = "completing" /\ session.retryable
       THEN /\ session' = [session EXCEPT !.expired = FALSE, !.retryable = FALSE]
            /\ \/ GoWith(r, "list", session.upload)
               \/ file # "uploading" /\ End(r)
       ELSE UNCHANGED session /\ End(r)
    /\ UNCHANGED <<file, key, reserved, storage, sweep, clean, confirmed>>

(* ListParts and assertCompletePartSet                                      *)
ListParts(r) ==
    /\ At(r, "list")
    /\ \/ store[Mine(r)] = "open" /\ Mine(r) \in parts /\ Go(r, "assemble")
       \/ store[Mine(r)] = "open" /\ Mine(r) \notin parts /\ Go(r, "release")
       \/ store[Mine(r)] # "open" /\ Go(r, "missing")
       \/ Go(r, "releaseAndMark")
    /\ OnlyRequest

(* CompleteMultipartUpload: done, rejected, missing, or without an answer;  *)
(* then the store has done it, may still do it, or never will.              *)
Assemble(r) ==
    /\ At(r, "assemble")
    /\ IF store[Mine(r)] = "open"
       THEN \/ /\ store' = [store EXCEPT ![Mine(r)] = "done"]
               /\ object' = Mine(r)
               /\ late' = late \ {Mine(r)}
               /\ (Go(r, "verify") \/ Go(r, "unknown"))
            \/ /\ late' \in {late, late \cup {Mine(r)}}
               /\ UNCHANGED <<store, object>>
               /\ Go(r, "unknown")
            \/ /\ UNCHANGED <<store, object, late>>
               /\ Go(r, "rejected")
       ELSE /\ (Go(r, "vanished") \/ Go(r, "unknown"))
            /\ UNCHANGED <<store, object, late>>
    /\ UNCHANGED <<rows, parts, sweep, clean, confirmed>>

LateAssembly(u) ==
    /\ u \in late /\ store[u] = "open"
    /\ store' = [store EXCEPT ![u] = "done"]
    /\ object' = u
    /\ late' = late \ {u}
    /\ UNCHANGED <<rows, parts, request, sweep, clean, confirmed>>

(* inspectCompletedMultipartObject after each outcome: the object is there, *)
(* it is not, or the store does not answer.                                 *)
IfAbsent(at) ==
    CASE at = "missing" -> "fail"
      [] at = "vanished" -> "failOrRelease"
      [] at = "rejected" -> "release"
      [] OTHER -> "mark"

\* Mutant: an outcome that is not known is taken for a success.
InspectNothing(r) ==
    /\ request[r].at \in {"verify", "missing", "vanished", "rejected", "unknown"}
    /\ IF request[r].at \in {"verify", "unknown"} \/ object # NoUpload
       THEN Go(r, "finalize")
       ELSE Go(r, IfAbsent(request[r].at))
    /\ OnlyRequest

Inspect(r) ==
    /\ request[r].at \in {"verify", "missing", "vanished", "rejected", "unknown"}
    /\ \/ object # NoUpload /\ Go(r, IF At(r, "missing") THEN "settle" ELSE "finalize")
       \/ object = NoUpload /\ Go(r, IfAbsent(request[r].at))
       \/ Go(r, "mark")
    /\ OnlyRequest

(* finalizeMultipartUploadFailure after NoSuchUpload.                       *)
FailUpload(r) ==
    /\ At(r, "fail") \/ At(r, "failOrRelease")
    /\ GiveUp("completing", "failed")
    /\ IF session'.status = "failed" THEN End(r)
       ELSE Go(r, IF At(r, "fail") THEN "mark" ELSE "release")
    /\ UNCHANGED <<storage, sweep, clean, confirmed>>

(* releaseMultipartUploadCompletion; after an unanswered listing the        *)
(* handler also marks the completion as retryable, in a second statement.   *)
Release(r) ==
    /\ \/ At(r, "release") /\ End(r)
       \/ At(r, "releaseAndMark") /\ Go(r, "mark")
    /\ session' = [session EXCEPT
                     !.status = IF @ = "completing" THEN "uploading" ELSE @,
                     !.retryable = IF session.status = "completing"
                                   THEN At(r, "releaseAndMark") ELSE @]
    /\ UNCHANGED <<file, key, reserved, storage, sweep, clean, confirmed>>

(* markMultipartUploadCompletionRetryable                                   *)
MarkRetryable(r) ==
    /\ At(r, "mark")
    /\ session' = [session EXCEPT
                     !.retryable = IF session.status = "completing" THEN TRUE ELSE @]
    /\ End(r)
    /\ UNCHANGED <<file, key, reserved, storage, sweep, clean, confirmed>>

(* finalizeMultipartUploadCompletion; success is answered when the session  *)
(* is completed, by this request or before. After a listing that missed the *)
(* upload anything else marks the completion; so does a transaction that    *)
(* fails, except for an observer.                                           *)
FinalizeCompletion(r) ==
    /\ request[r].at \in {"confirm", "finalize", "settle", "adopt"}
    /\ IF Completable THEN Publish ELSE UNCHANGED rows
    /\ IF At(r, "settle") /\ session'.status # "completed"
       THEN Go(r, "mark") ELSE End(r)
    /\ confirmed' = (confirmed \/ (~At(r, "adopt") /\ session'.status = "completed"))
    /\ UNCHANGED <<storage, sweep, clean>>

FinalizationFails(r) ==
    /\ At(r, "finalize") \/ At(r, "settle")
    /\ Go(r, "mark")
    /\ OnlyRequest

-----------------------------------------------------------------------------
(* abortMultipartUpload                                                     *)

BeginAbort(r) ==
    /\ At(r, "idle")
    /\ session.status \in {"initiated", "uploading", "cancelling"}
    /\ session' = [session EXCEPT !.status = "cancelling", !.retryable = FALSE]
    /\ GoWith(r, "abort", session.upload)
    /\ UNCHANGED <<file, key, reserved, storage, sweep, clean, confirmed>>

AbortStorage(u) ==
    store' = [store EXCEPT ![u] = IF @ = "open" THEN "aborted" ELSE @]

AbortUpload(r) ==
    /\ At(r, "abort")
    /\ \/ AbortStorage(Mine(r)) /\ Go(r, IF store[Mine(r)] = "open"
                                         THEN "cancel" ELSE "absent")
       \/ AbortStorage(Mine(r)) /\ Go(r, "doubt")
       \/ UNCHANGED store /\ Go(r, "doubt")
    /\ UNCHANGED <<rows, parts, late, object, sweep, clean, confirmed>>

(* The store no longer has the upload (or did not answer): the object       *)
(* decides who won.                                                         *)
ResolveAbort(r) ==
    /\ \/ At(r, "absent") \/ At(r, "doubt")
    /\ \/ object # NoUpload /\ Go(r, "adopt")
       \/ object = NoUpload /\ At(r, "absent") /\ Go(r, "cancel")
       \/ End(r)
    /\ OnlyRequest

Cancel(r) ==
    /\ At(r, "cancel")
    /\ GiveUp("cancelling", "cancelled")
    /\ End(r)
    /\ UNCHANGED <<storage, sweep, clean, confirmed>>

(* The client or the server goes away between two steps.                    *)
RequestDies(r) ==
    /\ ~At(r, "idle")
    /\ End(r)
    /\ OnlyRequest

-----------------------------------------------------------------------------
(* cleanupExpiredMultipartUploadSessions                                    *)

(* The session's time to live or the lease of its completion runs out.      *)
Expire ==
    /\ session.status \in Active /\ ~session.expired
    /\ session' = [session EXCEPT !.expired = TRUE]
    /\ UNCHANGED <<file, key, reserved, storage, request, sweep, clean, confirmed>>

Sweep(at) == sweep' = [sweep EXCEPT !.at = at]
OnlySweep == UNCHANGED <<rows, storage, request, clean, confirmed>>

BeginSweep ==
    /\ sweep.at = "idle"
    /\ session.status \in Active /\ session.expired
    /\ sweep' = CASE session.status = "completing" ->
                       [at |-> "head", upload |-> NoUpload]
                 [] session.status = "cancelling" ->
                       [at |-> "abort", upload |-> session.upload]
                 [] OTHER -> [at |-> "claim", upload |-> NoUpload]
    /\ OnlySweep

(* An expired completion whose object is there is finalized.                *)
SweepHead ==
    /\ sweep.at = "head"
    /\ \/ /\ object # NoUpload
          /\ sweep' = Idle
          /\ IF Completable THEN Publish ELSE UNCHANGED rows
       \/ object = NoUpload /\ Sweep("claim") /\ UNCHANGED rows
       \/ sweep' = Idle /\ UNCHANGED rows
    /\ UNCHANGED <<storage, request, clean, confirmed>>

(* claimExpiredMultipartUploadAbort                                         *)
SweepClaim ==
    /\ sweep.at = "claim"
    /\ IF session.expired /\ session.status \in {"initiated", "uploading", "completing"}
       THEN /\ session' = [session EXCEPT !.status = "cancelling", !.retryable = FALSE]
            /\ sweep' = [at |-> "abort", upload |-> session.upload]
       ELSE UNCHANGED session /\ sweep' = Idle
    /\ UNCHANGED <<file, key, reserved, storage, request, clean, confirmed>>

(* An upload that the store does not know any more counts as aborted.       *)
SweepAbort ==
    /\ sweep.at = "abort"
    /\ \/ AbortStorage(sweep.upload) /\ Sweep("expire")
       \/ AbortStorage(sweep.upload) /\ sweep' = Idle
       \/ UNCHANGED store /\ sweep' = Idle
    /\ UNCHANGED <<rows, parts, late, object, request, clean, confirmed>>

SweepExpire ==
    /\ sweep.at = "expire"
    /\ GiveUp("cancelling", "expired")
    /\ sweep' = Idle
    /\ UNCHANGED <<storage, request, clean, confirmed>>

-----------------------------------------------------------------------------
(* The deletion of the file (prepareFileCleanupWithClient) and its cleanup  *)
(* job: abort the upload that was active, delete the object, delete the row *)
(* with its session.                                                        *)
\* Mutant: the payload leaves out an upload that is being completed.
DeleteFileCompleting ==
    /\ file \in {"uploading", "pending", "failed"}
    /\ file' = "deleting"
    /\ session' = [session EXCEPT !.status =
                     IF @ \in {"initiated", "uploading"} THEN "cancelling" ELSE @]
    /\ clean' = [at |-> "abort",
                 upload |-> IF session.status \in Active \ {"completing"}
                            THEN session.upload ELSE NoUpload]
    /\ UNCHANGED <<key, reserved, storage, request, sweep, confirmed>>

DeleteFile ==
    /\ file \in {"uploading", "pending", "failed"}
    /\ file' = "deleting"
    /\ session' = [session EXCEPT !.status =
                     IF @ \in {"initiated", "uploading"} THEN "cancelling" ELSE @]
    /\ clean' = [at |-> "abort",
                 upload |-> IF session.status \in Active
                            THEN session.upload ELSE NoUpload]
    /\ UNCHANGED <<key, reserved, storage, request, sweep, confirmed>>

CleanAbort ==
    /\ clean.at = "abort"
    /\ IF clean.upload = NoUpload THEN UNCHANGED store ELSE AbortStorage(clean.upload)
    /\ clean' = [clean EXCEPT !.at = "delete"]
    /\ UNCHANGED <<rows, parts, late, object, request, sweep, confirmed>>

(* Both keys of the payload, the file's and the session's, are this one.    *)
CleanDelete ==
    /\ clean.at = "delete"
    /\ object' = IF key \/ session.status # "none" THEN NoUpload ELSE object
    /\ clean' = [clean EXCEPT !.at = "final"]
    /\ UNCHANGED <<rows, store, parts, late, request, sweep, confirmed>>

CleanFinalize ==
    /\ clean.at = "final"
    /\ file' = "gone" /\ key' = FALSE /\ reserved' = FALSE
    /\ session' = NoSession
    /\ clean' = [clean EXCEPT !.at = "done"]
    /\ UNCHANGED <<storage, request, sweep, confirmed>>

-----------------------------------------------------------------------------
Complete(r) ==
    \/ BeginCompletion(r) \/ Observe(r) \/ Reclaim(r) \/ ListParts(r)
    \/ Assemble(r) \/ Inspect(r) \/ FailUpload(r) \/ Release(r)
    \/ MarkRetryable(r) \/ FinalizeCompletion(r) \/ FinalizationFails(r)

Abort(r) == BeginAbort(r) \/ AbortUpload(r) \/ ResolveAbort(r) \/ Cancel(r)

Initialise(r) ==
    BeginInit(r) \/ CreateStorageUpload(r) \/ InsertSession(r) \/ DropUpload(r)

Maintain == BeginSweep \/ SweepHead \/ SweepClaim \/ SweepAbort \/ SweepExpire

Delete == DeleteFile \/ CleanAbort \/ CleanDelete \/ CleanFinalize

Next ==
    \/ \E r \in Request : Initialise(r) \/ Complete(r) \/ Abort(r) \/ RequestDies(r)
    \/ \E u \in Upload : SendParts(u) \/ LateAssembly(u)
    \/ Presign \/ Expire \/ Maintain \/ Delete

Spec == Init /\ [][Next]_vars

(* The maintenance runs again and again, sessions and leases run out, and   *)
(* the store answers the sweep and the cleanup job now and then.            *)
SweepSucceeds ==
    \/ /\ SweepHead
       /\ IF object = NoUpload THEN sweep'.at = "claim"
                              ELSE Completable => session'.status = "completed"
    \/ SweepAbort /\ sweep'.at = "expire"

Fairness ==
    /\ WF_vars(Expire)
    /\ WF_vars(BeginSweep) /\ WF_vars(SweepClaim) /\ WF_vars(SweepExpire)
    /\ SF_vars(SweepSucceeds)
    /\ WF_vars(CleanAbort) /\ WF_vars(CleanDelete) /\ WF_vars(CleanFinalize)

FairSpec == Spec /\ Fairness

-----------------------------------------------------------------------------
(* A file is queued for ingestion only with a key under which an object is  *)
(* stored, whatever the store left unanswered and whoever finalized it      *)
(* (finalizeMultipartUploadCompletion and its six callers); and once that   *)
(* has been acknowledged no request, no sweep and no late statement of an   *)
(* earlier attempt takes the file back, short of its deletion.              *)
PublishedIsStored ==
    /\ TypeOK
    /\ file = "pending" => key /\ object # NoUpload
    /\ confirmed => file \in {"pending", "deleting", "gone"}

(* Nobody will abort this open storage upload any more: it belongs to no    *)
(* active session, no request that created it and no cleanup job.           *)
Stray(u) ==
    /\ store[u] = "open"
    /\ session.status \in Active => session.upload # u
    /\ \A r \in Request : request[r].at \in {"insert", "drop"} => Mine(r) # u
    /\ clean.at = "abort" => clean.upload # u

(* What can go wrong: the request that created the upload ends before the   *)
(* session is stored or its upload is dropped; a request or sweep that      *)
(* worked on an earlier upload ends the present session; or the object of   *)
(* an earlier upload completes the present session.                         *)
InitialiserDies(u) ==
    \E r \in Request :
        Mine(r) = u /\ request[r].at \in {"insert", "drop"} /\ RequestDies(r)

Outdated ==
    \/ \E r \in Request :
          /\ Mine(r) # session.upload
          /\ (FailUpload(r) \/ FinalizeCompletion(r) \/ Cancel(r))
    \/ sweep.upload # session.upload /\ SweepExpire

EarlierObjectAdopted == session'.status = "completed" /\ object # session.upload

(* Storage uploads are tracked from their creation to their end, except for *)
(* these three steps: no other interleaving of requests, sweep and deletion *)
(* leaves parts behind in the store.                                        *)
StraysHaveACause ==
    [][\A u \in Upload : Stray(u)' /\ ~Stray(u) =>
          InitialiserDies(u) \/ Outdated \/ EarlierObjectAdopted]_vars

(* "expired completing multipart cleanup finalizes a verified object        *)
(* instead of aborting it": the sweep never expires an upload whose object  *)
(* is stored. It looks for the object before it claims the session, not     *)
(* after the store has told it that the upload is gone.                     *)
ExpiryKeepsStoredObject ==
    [][SweepExpire /\ file' = "failed" => object = NoUpload]_vars

(* Once the client sends no more completions, every session ends: a crash,  *)
(* an unanswered storage call or a lost race leaves none to reserve its     *)
(* quota for ever.                                                          *)
SessionsEnd ==
    <>[][\A r \in Request : ~BeginCompletion(r)]_vars
        => []<>(session.status \notin Active)
=============================================================================
