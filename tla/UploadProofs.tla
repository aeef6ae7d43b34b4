----------------------------- MODULE UploadProofs -----------------------------
(* What the uploads promise, for every number of requests, storage uploads,   *)
(* tabs, files and documents: a file that waits for its ingestion has its     *)
(* object, storage uploads are lost track of by three steps only, a published  *)
(* file has the bytes that were verified, and what users have reserved and    *)
(* stored stays within their quotas.                                          *)
EXTENDS MultipartUpload, ChunkedUpload, FiniteSetTheorems, WellFoundedInduction, TLAPS

-----------------------------------------------------------------------------
(* The direct multipart upload. *)

Number == 0 .. MaxUploads
SessionStatus == Active \cup Ended \cup {"none", "completed"}
SessionRow == [status : SessionStatus, upload : Number, expired : BOOLEAN, retryable : BOOLEAN]
RequestRow == [at : Where, upload : Number]
SweepRow == [at : {"idle", "head", "claim", "abort", "expire"}, upload : Number]
CleanRow == [at : {"idle", "abort", "delete", "final", "done"}, upload : Number]

Used(u) == store[u] # "unused"
Refs == {session.upload, sweep.upload, clean.upload} \cup late

\* What anyone refers to was created, and an active session has its upload.
KnownAreUsed ==
    /\ \A u \in Refs : u # NoUpload => Used(u)
    /\ \A r \in Request : Mine(r) # NoUpload => Used(Mine(r))
    /\ session.status \in Active => session.upload # NoUpload

\* A storage upload that has no session yet is known to its creator only.
NewAreOwned ==
    \A r \in Request : request[r].at \in {"insert", "drop"} =>
        /\ Mine(r) # NoUpload /\ store[Mine(r)] = "open"
        /\ Mine(r) \notin Refs /\ Mine(r) # object
        /\ \A s \in Request : s # r => Mine(s) # Mine(r)

\* What a request at a place, with a storage upload, has learnt.
Right(at, u) ==
    /\ at \in {"list", "assemble", "abort"} => u # NoUpload
    /\ at \in {"missing", "vanished", "fail", "failOrRelease", "absent", "cancel"} =>
         u # NoUpload /\ store[u] # "open"
    /\ at \in {"confirm", "finalize", "settle", "adopt"} =>
         object # NoUpload \/ file \in {"deleting", "gone"}

RequestsAreRight == \A r \in Request : Right(request[r].at, Mine(r))

\* And the sweep.
SweepIsRight ==
    /\ sweep.at \in {"abort", "expire"} => sweep.upload # NoUpload
    /\ sweep.at = "expire" => store[sweep.upload] # "open"

\* The cleanup job exists once the file is being deleted, and has the upload of
\* the session that was active then.
CleanIsRight ==
    /\ clean.at = "idle" <=> file \notin {"deleting", "gone"}
    /\ clean.at = "done" <=> file = "gone"
    /\ clean.at = "done" => session.status = "none"
    /\ clean.at # "idle" /\ session.status \in Active => clean.upload = session.upload
    /\ clean.at \in {"delete", "final"} /\ clean.upload # NoUpload => store[clean.upload] # "open"

\* The object is that of a completed storage upload; a published file has it.
ObjectIsRight ==
    /\ object # NoUpload => store[object] = "done"
    /\ file = "pending" => key /\ object # NoUpload
    /\ session.status = "completed" => file \in {"pending", "deleting"}
    /\ confirmed => file \in {"pending", "deleting", "gone"}

\* TypeOK, with names for the rows.
Types ==
    /\ file \in {"uploading", "pending", "failed", "deleting", "gone"}
    /\ key \in BOOLEAN /\ reserved \in BOOLEAN /\ confirmed \in BOOLEAN
    /\ session \in SessionRow
    /\ store \in [Upload -> {"unused", "open", "aborted", "done"}]
    /\ parts \in SUBSET Upload /\ late \in SUBSET Upload
    /\ object \in Number
    /\ request \in [Request -> RequestRow]
    /\ sweep \in SweepRow /\ clean \in CleanRow

MultipartInv ==
    /\ Types /\ KnownAreUsed /\ NewAreOwned
    /\ RequestsAreRight /\ SweepIsRight /\ CleanIsRight /\ ObjectIsRight

\* Storage uploads have numbers other than none.
LEMMA Numbers ==
    /\ NoUpload \in Number /\ Upload \subseteq Number /\ NoUpload \notin Upload
    /\ \A n \in Number : n # NoUpload => n \in Upload
BY MultipartAssumption DEF Number, Upload, NoUpload

\* The rows are those of the type invariant.
LEMMA RowsAreTyped == TypeOK <=> Types
BY DEF TypeOK, Types, SessionRow, SessionStatus, RequestRow, SweepRow, CleanRow, Number

\* The rows of a session that statements write.
LEMMA SessionRows ==
    ASSUME NEW s \in SessionRow, NEW x \in SessionStatus, NEW b \in BOOLEAN, NEW c \in BOOLEAN
    PROVE  /\ s.status \in SessionStatus /\ s.upload \in Number
           /\ [s EXCEPT !.status = x] \in SessionRow
           /\ [s EXCEPT !.retryable = b] \in SessionRow
           /\ [s EXCEPT !.expired = b] \in SessionRow
           /\ [s EXCEPT !.expired = b, !.retryable = c] \in SessionRow
           /\ [s EXCEPT !.status = x, !.retryable = b] \in SessionRow
           /\ [s EXCEPT !.status = x, !.expired = b, !.retryable = c] \in SessionRow
BY DEF SessionRow

\* The row of a new session, and no row.
LEMMA NewSession ==
    ASSUME NEW u \in Number
    PROVE  /\ NoSession \in SessionRow /\ NoSession.status = "none" /\ NoSession.upload = NoUpload
           /\ [NoSession EXCEPT !.status = "initiated", !.upload = u] \in SessionRow
           /\ [NoSession EXCEPT !.status = "initiated", !.upload = u].status = "initiated"
           /\ [NoSession EXCEPT !.status = "initiated", !.upload = u].upload = u
BY Numbers DEF NoSession, SessionRow, SessionStatus, Active

\* The other requests stay where they are.
Others(r) == \A s \in Request : s # r => request'[s] = request[s]

\* Where a request is, and what it works on.
LEMMA RequestFields ==
    ASSUME Types, NEW r \in Request
    PROVE  request[r].at \in Where /\ Mine(r) \in Number
BY DEF Types, RequestRow, Mine

\* How a request goes on with the same storage upload.
LEMMA RequestGoes ==
    ASSUME Types, NEW r \in Request, NEW at \in Where, Go(r, at)
    PROVE  /\ request' \in [Request -> RequestRow] /\ Others(r)
           /\ request'[r].at = at /\ request'[r].upload = Mine(r)
BY DEF Types, RequestRow, Go, Mine, Others

\* How it goes on with another one.
LEMMA RequestGoesWith ==
    ASSUME Types, NEW r \in Request, NEW at \in Where, NEW u \in Number, GoWith(r, at, u)
    PROVE  /\ request' \in [Request -> RequestRow] /\ Others(r)
           /\ request'[r].at = at /\ request'[r].upload = u
BY DEF Types, RequestRow, GoWith, Others

\* How it ends.
LEMMA RequestEnds ==
    ASSUME Types, NEW r \in Request, End(r)
    PROVE  /\ request' \in [Request -> RequestRow] /\ Others(r)
           /\ request'[r].at = "idle" /\ request'[r].upload = NoUpload
BY Numbers DEF Types, RequestRow, End, Idle, Others, Where

\* Statements leave what is known of the storage uploads as it is, as long as
\* nobody comes to refer to one that was not referred to.
LEMMA StatementsKeepKnown ==
    ASSUME MultipartInv, UNCHANGED storage,
           session'.upload \in {session.upload, NoUpload},
           session'.status \in Active => session'.upload # NoUpload,
           sweep'.upload \in Refs \cup {NoUpload}, clean'.upload \in Refs \cup {NoUpload},
           \A s \in Request :
              \/ request'[s] = request[s]
              \/ /\ request'[s].at \notin {"insert", "drop"}
                 /\ request'[s].upload \in Refs \cup {Mine(s), NoUpload}
    PROVE  KnownAreUsed' /\ NewAreOwned'
<1>1. /\ store' = store /\ late' = late /\ object' = object
      /\ Refs' \subseteq Refs \cup {NoUpload}
  BY DEF storage, Refs
<1>2. KnownAreUsed'
  BY <1>1 DEF MultipartInv, KnownAreUsed, Used, Mine
<1>3. ASSUME NEW s \in Request, request'[s].at \in {"insert", "drop"}
      PROVE  /\ Mine(s)' # NoUpload /\ store'[Mine(s)'] = "open"
             /\ Mine(s)' \notin Refs' /\ Mine(s)' # object'
             /\ \A q \in Request : q # s => Mine(q)' # Mine(s)'
  <2>1. request'[s] = request[s]
    BY <1>3
  <2>2. /\ Mine(s) # NoUpload /\ store[Mine(s)] = "open"
        /\ Mine(s) \notin Refs /\ Mine(s) # object
        /\ \A q \in Request : q # s => Mine(q) # Mine(s)
    BY <1>3, <2>1 DEF MultipartInv, NewAreOwned
  <2> QED BY <1>1, <2>1, <2>2 DEF Mine
<1> QED BY <1>2, <1>3 DEF NewAreOwned

\* A statement that neither creates nor deletes rows and adopts no upload.
LEMMA Statements ==
    ASSUME MultipartInv, UNCHANGED <<storage, clean>>, Types',
           session'.upload = session.upload,
           session'.status \in Active => session.status \in Active,
           session.status = "none" => session'.status = "none",
           file \in {"deleting", "gone"} \/ file' \in {"deleting", "gone"} => file' = file,
           \/ sweep' = sweep
           \/ SweepIsRight' /\ sweep'.upload \in Refs \cup {NoUpload},
           \A s \in Request :
              \/ request'[s] = request[s]
              \/ /\ request'[s].at \notin {"insert", "drop"}
                 /\ request'[s].upload \in Refs \cup {Mine(s), NoUpload}
                 /\ Right(request[s].at, request[s].upload)',
           ObjectIsRight'
    PROVE  MultipartInv'
<1>1. /\ store' = store /\ late' = late /\ object' = object /\ clean' = clean
      /\ sweep.upload \in Refs /\ clean.upload \in Refs
  BY DEF storage, Refs
<1>2. KnownAreUsed' /\ NewAreOwned'
  <2>1. session'.status \in Active => session'.upload # NoUpload
    BY DEF MultipartInv, KnownAreUsed
  <2>2. sweep'.upload \in Refs \cup {NoUpload} /\ clean'.upload \in Refs \cup {NoUpload}
    BY <1>1
  <2> QED BY <1>1, <2>1, <2>2, StatementsKeepKnown
<1>3. RequestsAreRight'
  <2>1. ASSUME NEW s \in Request, request'[s] = request[s]
        PROVE  Right(request[s].at, request[s].upload)'
    BY <1>1, <2>1 DEF MultipartInv, RequestsAreRight, Right, Mine
  <2> QED BY <2>1 DEF RequestsAreRight, Mine
<1>4. SweepIsRight'
  BY <1>1 DEF MultipartInv, SweepIsRight
<1>5. CleanIsRight'
  BY <1>1 DEF MultipartInv, CleanIsRight
<1> QED BY <1>2, <1>3, <1>4, <1>5 DEF MultipartInv

\* A step of a request that changes nothing else.
LEMMA RequestKeeps ==
    ASSUME MultipartInv, NEW r \in Request, OnlyRequest,
           request' \in [Request -> RequestRow], Others(r),
           request'[r].upload \in {Mine(r), NoUpload},
           request'[r].at \notin {"insert", "drop"},
           Right(request'[r].at, request'[r].upload)
    PROVE  MultipartInv'
<1> USE DEF OnlyRequest, rows, storage
<1>1. Types' /\ ObjectIsRight'
  BY DEF MultipartInv, Types, ObjectIsRight
<1>2. Right(request[r].at, request[r].upload)'
  BY DEF Right
<1>3. \A s \in Request :
         \/ request'[s] = request[s]
         \/ /\ request'[s].at \notin {"insert", "drop"}
            /\ request'[s].upload \in Refs \cup {Mine(s), NoUpload}
            /\ Right(request[s].at, request[s].upload)'
  BY <1>2 DEF Others
<1> QED BY <1>1, <1>3, Statements

\* The requests' steps that change nothing else.
LEMMA RequestSteps ==
    ASSUME MultipartInv, NEW r \in Request,
           \/ Observe(r) \/ ListParts(r) \/ Inspect(r) \/ FinalizationFails(r)
           \/ ResolveAbort(r) \/ RequestDies(r)
    PROVE  MultipartInv'
<1> USE DEF Where
<1>0. Types /\ Right(request[r].at, Mine(r)) /\ OnlyRequest
  BY DEF MultipartInv, RequestsAreRight, Observe, ListParts, Inspect, FinalizationFails,
         ResolveAbort, RequestDies
<1>1. ASSUME NEW at \in Where, Go(r, at), at \notin {"insert", "drop"}, Right(at, Mine(r))
      PROVE  MultipartInv'
  <2>1. /\ request' \in [Request -> RequestRow] /\ Others(r)
        /\ request'[r].at = at /\ request'[r].upload = Mine(r)
    BY <1>0, <1>1, RequestGoes
  <2> QED BY <1>0, <1>1, <2>1, RequestKeeps
<1>2. CASE End(r)
  <2>1. /\ request' \in [Request -> RequestRow] /\ Others(r)
        /\ request'[r].at = "idle" /\ request'[r].upload = NoUpload
    BY <1>0, <1>2, RequestEnds
  <2>2. Right("idle", NoUpload)
    BY DEF Right
  <2> QED BY <1>0, <2>1, <2>2, RequestKeeps
<1>3. CASE Observe(r)
  BY <1>1, <1>2, <1>3 DEF Observe, Right
<1>4. CASE ListParts(r)
  BY <1>0, <1>1, <1>4 DEF ListParts, Right, At
<1>5. CASE Inspect(r)
  <2>1. PICK at \in Where : /\ Go(r, at)
                            /\ at \in {"settle", "finalize", "fail", "failOrRelease", "release", "mark"}
                            /\ at \in {"settle", "finalize"} => object # NoUpload
                            /\ at = "fail" => request[r].at = "missing"
                            /\ at = "failOrRelease" => request[r].at = "vanished"
    BY <1>5 DEF Inspect, IfAbsent, At
  <2> QED BY <1>0, <1>1, <2>1 DEF Right
<1>6. CASE FinalizationFails(r)
  BY <1>1, <1>6 DEF FinalizationFails, Right
<1>7. CASE ResolveAbort(r)
  BY <1>0, <1>1, <1>2, <1>7 DEF ResolveAbort, Right, At
<1>8. CASE RequestDies(r)
  BY <1>2, <1>8 DEF RequestDies
<1> QED BY <1>3, <1>4, <1>5, <1>6, <1>7, <1>8

\* The statement creates and deletes no row, and activates no session.
RowsKept ==
    /\ session' \in SessionRow /\ session'.upload = session.upload
    /\ session'.status \in Active => session.status \in Active
    /\ session.status = "none" => session'.status = "none"
    /\ file' \in {"uploading", "pending", "failed", "deleting", "gone"}
    /\ key' \in BOOLEAN /\ reserved' \in BOOLEAN
    /\ file \in {"deleting", "gone"} \/ file' \in {"deleting", "gone"} => file' = file

\* The statement of a request.
LEMMA RequestStatements ==
    ASSUME MultipartInv, NEW r \in Request, UNCHANGED <<storage, sweep, clean>>,
           request' \in [Request -> RequestRow], Others(r),
           request'[r].at \notin {"insert", "drop"},
           request'[r].upload \in {Mine(r), NoUpload, session.upload},
           Right(request[r].at, request[r].upload)',
           RowsKept, confirmed' \in BOOLEAN, ObjectIsRight'
    PROVE  MultipartInv'
<1> USE DEF RowsKept
<1>1. Types'
  BY DEF MultipartInv, Types, storage
<1>2. \A s \in Request :
         \/ request'[s] = request[s]
         \/ /\ request'[s].at \notin {"insert", "drop"}
            /\ request'[s].upload \in Refs \cup {Mine(s), NoUpload}
            /\ Right(request[s].at, request[s].upload)'
  BY DEF Others, Refs
<1> QED BY <1>1, <1>2, Statements

\* Initialisation reserves the file again.
LEMMA BeginInitKeeps ==
    ASSUME MultipartInv, NEW r \in Request, BeginInit(r)
    PROVE  MultipartInv'
<1>1. Types /\ session \in SessionRow /\ session' = session /\ key' = key /\ confirmed' = confirmed
      /\ UNCHANGED <<storage, sweep, clean>>
  BY DEF MultipartInv, Types, BeginInit
<1>2. ObjectIsRight'
  BY DEF MultipartInv, ObjectIsRight, BeginInit, storage
<1>3. CASE UNCHANGED request
  <2>1. Types'
    BY <1>1, <1>3 DEF Types, BeginInit, storage
  <2> QED BY <1>1, <1>2, <1>3, <2>1, Statements DEF BeginInit
<1>4. CASE Go(r, "create")
  <2>1. /\ request' \in [Request -> RequestRow] /\ Others(r)
        /\ request'[r].at = "create" /\ request'[r].upload = Mine(r)
    BY <1>1, <1>4, RequestGoes DEF Where
  <2>2. Right(request[r].at, request[r].upload)'
    BY <2>1 DEF Right
  <2>3. key' \in BOOLEAN /\ confirmed' \in BOOLEAN
    BY <1>1 DEF Types
  <2> QED BY <1>1, <1>2, <2>1, <2>2, <2>3, RequestStatements DEF BeginInit, RowsKept
<1> QED BY <1>3, <1>4 DEF BeginInit

\* A completion claims the active session, with its storage upload.
LEMMA BeginCompletionKeeps ==
    ASSUME MultipartInv, NEW r \in Request, BeginCompletion(r)
    PROVE  MultipartInv'
<1>1. Types /\ ObjectIsRight /\ KnownAreUsed /\ session \in SessionRow
      /\ UNCHANGED <<file, key, reserved, storage, sweep, clean, confirmed>>
  BY DEF MultipartInv, Types, BeginCompletion
<1>2. /\ file \in {"uploading", "pending", "failed", "deleting", "gone"}
      /\ key \in BOOLEAN /\ reserved \in BOOLEAN /\ confirmed \in BOOLEAN
  BY <1>1 DEF Types
<1>3. CASE /\ session.status \in {"initiated", "uploading"} /\ file = "uploading"
           /\ session' = [session EXCEPT !.status = "completing",
                                         !.expired = FALSE, !.retryable = FALSE]
           /\ GoWith(r, "list", session.upload)
  <2>1. session' \in SessionRow /\ session'.status = "completing" /\ session'.upload = session.upload
    <3>1. "completing" \in SessionStatus /\ FALSE \in BOOLEAN
      BY DEF SessionStatus, Active
    <3>2. session' \in SessionRow
      BY <1>1, <1>3, <3>1, SessionRows, Zenon
    <3>3. session'.status = "completing" /\ session'.upload = session.upload
      BY <1>1, <1>3 DEF SessionRow
    <3> QED BY <3>2, <3>3
  <2>2. session.upload \in Number /\ session.upload # NoUpload
    BY <1>1, <1>3 DEF SessionRow, KnownAreUsed, Active
  <2>3. /\ request' \in [Request -> RequestRow] /\ Others(r)
        /\ request'[r].at = "list" /\ request'[r].upload = session.upload
    BY <1>1, <1>3, <2>2, RequestGoesWith DEF Where
  <2>4. Right(request[r].at, request[r].upload)'
    BY <2>2, <2>3 DEF Right
  <2>5. ObjectIsRight'
    BY <1>1, <2>1 DEF ObjectIsRight, storage
  <2> QED BY <1>1, <1>2, <1>3, <2>1, <2>3, <2>4, <2>5, RequestStatements DEF Active, RowsKept
<1>4. CASE session' = session /\ Go(r, "observe")
  <2>1. OnlyRequest
    BY <1>1, <1>4 DEF OnlyRequest, rows
  <2>2. /\ request' \in [Request -> RequestRow] /\ Others(r)
        /\ request'[r].at = "observe" /\ request'[r].upload = Mine(r)
    BY <1>1, <1>4, RequestGoes DEF Where
  <2>3. Right(request'[r].at, request'[r].upload)
    BY <2>2 DEF Right
  <2> QED BY <2>1, <2>2, <2>3, RequestKeeps
<1> QED BY <1>3, <1>4 DEF BeginCompletion

\* So does one that was marked as retryable.
LEMMA ReclaimKeeps ==
    ASSUME MultipartInv, NEW r \in Request, Reclaim(r)
    PROVE  MultipartInv'
<1>1. Types /\ ObjectIsRight /\ KnownAreUsed /\ session \in SessionRow
      /\ UNCHANGED <<file, key, reserved, storage, sweep, clean, confirmed>>
  BY DEF MultipartInv, Types, Reclaim
<1>2. /\ file \in {"uploading", "pending", "failed", "deleting", "gone"}
      /\ key \in BOOLEAN /\ reserved \in BOOLEAN /\ confirmed \in BOOLEAN
  BY <1>1 DEF Types
<1>3. /\ session' \in SessionRow /\ session'.status = session.status
      /\ session'.upload = session.upload
  <2>1. session' = [session EXCEPT !.expired = FALSE, !.retryable = FALSE] \/ session' = session
    BY DEF Reclaim
  <2>2. [session EXCEPT !.expired = FALSE, !.retryable = FALSE] \in SessionRow
    BY <1>1, SessionRows, Zenon DEF SessionStatus
  <2>3. /\ [session EXCEPT !.expired = FALSE, !.retryable = FALSE].status = session.status
        /\ [session EXCEPT !.expired = FALSE, !.retryable = FALSE].upload = session.upload
    BY <1>1 DEF SessionRow
  <2> QED BY <1>1, <2>1, <2>2, <2>3
<1>4. ObjectIsRight'
  BY <1>1, <1>3 DEF ObjectIsRight, storage
<1>5. CASE End(r)
  <2>1. /\ request' \in [Request -> RequestRow] /\ Others(r)
        /\ request'[r].at = "idle" /\ request'[r].upload = NoUpload
    BY <1>1, <1>5, RequestEnds
  <2>2. Right(request[r].at, request[r].upload)'
    BY <2>1 DEF Right
  <2> QED BY <1>1, <1>2, <1>3, <1>4, <2>1, <2>2, RequestStatements DEF RowsKept
<1>6. CASE session.status = "completing" /\ GoWith(r, "list", session.upload)
  <2>1. session.upload \in Number /\ session.upload # NoUpload
    BY <1>1, <1>6 DEF SessionRow, KnownAreUsed, Active
  <2>2. /\ request' \in [Request -> RequestRow] /\ Others(r)
        /\ request'[r].at = "list" /\ request'[r].upload = session.upload
    BY <1>1, <1>6, <2>1, RequestGoesWith DEF Where
  <2>3. Right(request[r].at, request[r].upload)'
    BY <2>1, <2>2 DEF Right
  <2> QED BY <1>1, <1>2, <1>3, <1>4, <2>2, <2>3, RequestStatements DEF RowsKept
<1> QED BY <1>5, <1>6 DEF Reclaim

\* Giving up ends the session and frees the file, or changes nothing.
LEMMA GivingUp ==
    ASSUME MultipartInv, NEW from \in Active, NEW to \in Ended, GiveUp(from, to),
           UNCHANGED <<storage, confirmed>>
    PROVE  RowsKept /\ ObjectIsRight' /\ confirmed' \in BOOLEAN
<1>1. Types /\ ObjectIsRight /\ session \in SessionRow
  BY DEF MultipartInv, Types
<1>2. CASE UNCHANGED rows
  BY <1>1, <1>2 DEF RowsKept, rows, storage, ObjectIsRight, Types
<1>3. CASE /\ session.status = from /\ file = "uploading"
           /\ file' = "failed" /\ key' = FALSE /\ reserved' = FALSE
           /\ session' = [session EXCEPT !.status = to, !.retryable = FALSE]
  <2>1. to \in SessionStatus /\ FALSE \in BOOLEAN
    BY DEF SessionStatus
  <2>2. session' \in SessionRow
    BY <1>1, <1>3, <2>1, SessionRows, Zenon
  <2>3. session'.status = to /\ session'.upload = session.upload
    BY <1>1, <1>3 DEF SessionRow
  <2>4. ObjectIsRight'
    BY <1>1, <1>3, <2>3 DEF ObjectIsRight, storage, Ended
  <2>5. confirmed' \in BOOLEAN
    BY <1>1 DEF Types
  <2> QED BY <1>3, <2>2, <2>3, <2>4, <2>5 DEF RowsKept, Active, Ended
<1> QED BY <1>2, <1>3 DEF GiveUp

\* Publishing completes the session and queues the file.
LEMMA Publishing ==
    ASSUME MultipartInv, Completable, Publish, object # NoUpload \/ file \in {"deleting", "gone"},
           UNCHANGED storage, confirmed' \in BOOLEAN
    PROVE  RowsKept /\ ObjectIsRight' /\ session'.status = "completed"
<1>1. Types /\ ObjectIsRight /\ session \in SessionRow
  BY DEF MultipartInv, Types
<1>2. "completed" \in SessionStatus /\ FALSE \in BOOLEAN
  BY DEF SessionStatus
<1>3. session' \in SessionRow
  BY <1>1, <1>2, SessionRows, Zenon DEF Publish
<1>4. session'.status = "completed" /\ session'.upload = session.upload
  BY <1>1 DEF SessionRow, Publish
<1>5. ObjectIsRight'
  BY <1>1, <1>4 DEF ObjectIsRight, storage, Publish, Completable
<1> QED BY <1>3, <1>4, <1>5 DEF RowsKept, Publish, Completable, Active, Ended

\* A failed completion ends the upload, or finds that it is not its turn.
LEMMA FailUploadKeeps ==
    ASSUME MultipartInv, NEW r \in Request, FailUpload(r)
    PROVE  MultipartInv'
<1>1. Types /\ UNCHANGED <<storage, sweep, clean, confirmed>> /\ GiveUp("completing", "failed")
  BY DEF MultipartInv, FailUpload
<1>2. RowsKept /\ ObjectIsRight' /\ confirmed' \in BOOLEAN
  BY <1>1, GivingUp DEF Active, Ended
<1>3. CASE End(r)
  <2>1. /\ request' \in [Request -> RequestRow] /\ Others(r)
        /\ request'[r].at = "idle" /\ request'[r].upload = NoUpload
    BY <1>1, <1>3, RequestEnds
  <2>2. Right(request[r].at, request[r].upload)'
    BY <2>1 DEF Right
  <2> QED BY <1>1, <1>2, <2>1, <2>2, RequestStatements
<1>4. ASSUME NEW at \in {"mark", "release"}, Go(r, at)
      PROVE  MultipartInv'
  <2>1. /\ request' \in [Request -> RequestRow] /\ Others(r)
        /\ request'[r].at = at /\ request'[r].upload = Mine(r)
    BY <1>1, <1>4, RequestGoes DEF Where
  <2>2. Right(request[r].at, request[r].upload)'
    BY <2>1 DEF Right
  <2> QED BY <1>1, <1>2, <2>1, <2>2, RequestStatements
<1> QED BY <1>3, <1>4 DEF FailUpload

\* A cancelled upload likewise.
LEMMA CancelKeeps ==
    ASSUME MultipartInv, NEW r \in Request, Cancel(r)
    PROVE  MultipartInv'
<1>1. Types /\ UNCHANGED <<storage, sweep, clean, confirmed>> /\ GiveUp("cancelling", "cancelled")
  BY DEF MultipartInv, Cancel
<1>2. RowsKept /\ ObjectIsRight' /\ confirmed' \in BOOLEAN
  BY <1>1, GivingUp DEF Active, Ended
<1>3. /\ request' \in [Request -> RequestRow] /\ Others(r)
      /\ request'[r].at = "idle" /\ request'[r].upload = NoUpload
  BY <1>1, RequestEnds DEF Cancel
<1>4. Right(request[r].at, request[r].upload)'
  BY <1>3 DEF Right
<1> QED BY <1>1, <1>2, <1>3, <1>4, RequestStatements

\* A completion is released to be tried again.
LEMMA ReleaseKeeps ==
    ASSUME MultipartInv, NEW r \in Request, Release(r)
    PROVE  MultipartInv'
<1>1. Types /\ ObjectIsRight /\ session \in SessionRow
      /\ UNCHANGED <<file, key, reserved, storage, sweep, clean, confirmed>>
  BY DEF MultipartInv, Types, Release
<1>2. /\ file \in {"uploading", "pending", "failed", "deleting", "gone"}
      /\ key \in BOOLEAN /\ reserved \in BOOLEAN /\ confirmed \in BOOLEAN
  BY <1>1 DEF Types
<1> DEFINE status == IF session.status = "completing" THEN "uploading" ELSE session.status
           retryable == IF session.status = "completing"
                        THEN At(r, "releaseAndMark") ELSE session.retryable
<1>3. session' = [session EXCEPT !.status = status, !.retryable = retryable]
  BY <1>1 DEF Release, SessionRow
<1>4. status \in SessionStatus /\ retryable \in BOOLEAN
  BY <1>1 DEF SessionRow, SessionStatus, Active, At
<1>5. session' \in SessionRow
  <2> HIDE DEF status, retryable
  <2> QED BY <1>1, <1>3, <1>4, SessionRows, Zenon
<1>6. session'.status = status /\ session'.upload = session.upload
  BY <1>1, <1>3 DEF SessionRow
<1>7. RowsKept
  BY <1>1, <1>2, <1>5, <1>6 DEF RowsKept, Active
<1>8. ObjectIsRight'
  BY <1>1, <1>6 DEF ObjectIsRight, storage
<1>9. /\ request' \in [Request -> RequestRow] /\ Others(r)
      /\ request'[r].at \in {"idle", "mark"} /\ request'[r].upload \in {Mine(r), NoUpload}
  <2>1. CASE End(r)
    BY <1>1, <2>1, RequestEnds
  <2>2. CASE Go(r, "mark")
    BY <1>1, <2>2, RequestGoes DEF Where
  <2> QED BY <2>1, <2>2 DEF Release
<1>10. Right(request[r].at, request[r].upload)'
  BY <1>9 DEF Right
<1> QED BY <1>1, <1>2, <1>7, <1>8, <1>9, <1>10, RequestStatements

\* A completion is marked, to be claimed again.
LEMMA MarkRetryableKeeps ==
    ASSUME MultipartInv, NEW r \in Request, MarkRetryable(r)
    PROVE  MultipartInv'
<1>1. Types /\ ObjectIsRight /\ session \in SessionRow
      /\ UNCHANGED <<file, key, reserved, storage, sweep, clean, confirmed>>
  BY DEF MultipartInv, Types, MarkRetryable
<1>2. /\ file \in {"uploading", "pending", "failed", "deleting", "gone"}
      /\ key \in BOOLEAN /\ reserved \in BOOLEAN /\ confirmed \in BOOLEAN
  BY <1>1 DEF Types
<1> DEFINE retryable == IF session.status = "completing" THEN TRUE ELSE session.retryable
<1>3. session' = [session EXCEPT !.retryable = retryable]
  BY <1>1 DEF MarkRetryable, SessionRow
<1>4. retryable \in BOOLEAN
  BY <1>1 DEF SessionRow
<1>5. session' \in SessionRow
  <2> HIDE DEF retryable
  <2> QED BY <1>1, <1>3, <1>4, SessionRows, Zenon DEF SessionStatus
<1>6. session'.status = session.status /\ session'.upload = session.upload
  BY <1>1, <1>3 DEF SessionRow
<1>7. RowsKept
  BY <1>1, <1>2, <1>5, <1>6 DEF RowsKept
<1>8. ObjectIsRight'
  BY <1>1, <1>6 DEF ObjectIsRight, storage
<1>9. /\ request' \in [Request -> RequestRow] /\ Others(r)
      /\ request'[r].at = "idle" /\ request'[r].upload = NoUpload
  BY <1>1, RequestEnds DEF MarkRetryable
<1>10. Right(request[r].at, request[r].upload)'
  BY <1>9 DEF Right
<1> QED BY <1>1, <1>2, <1>7, <1>8, <1>9, <1>10, RequestStatements

\* A completion is finalized: the file is published, or was deleted before.
LEMMA FinalizeCompletionKeeps ==
    ASSUME MultipartInv, NEW r \in Request, FinalizeCompletion(r)
    PROVE  MultipartInv'
<1>1. Types /\ ObjectIsRight /\ session \in SessionRow /\ Right(request[r].at, Mine(r))
      /\ UNCHANGED <<storage, sweep, clean>>
  BY DEF MultipartInv, Types, FinalizeCompletion, RequestsAreRight
<1>2. object # NoUpload \/ file \in {"deleting", "gone"}
  BY <1>1 DEF FinalizeCompletion, Right
<1>3. RowsKept /\ ObjectIsRight' /\ confirmed' \in BOOLEAN
  <2>1. confirmed' \in BOOLEAN
    BY <1>1 DEF FinalizeCompletion, Types
  <2>2. CASE Completable /\ Publish
    BY <1>1, <1>2, <2>1, <2>2, Publishing
  <2>3. CASE UNCHANGED rows
    <3>1. ObjectIsRight'
      BY <1>1, <2>3 DEF FinalizeCompletion, ObjectIsRight, rows, storage
    <3>2. RowsKept
      BY <1>1, <2>3 DEF RowsKept, rows, Types
    <3> QED BY <2>1, <3>1, <3>2
  <2> QED BY <2>2, <2>3 DEF FinalizeCompletion
<1>4. /\ request' \in [Request -> RequestRow] /\ Others(r)
      /\ request'[r].at \in {"idle", "mark"} /\ request'[r].upload \in {Mine(r), NoUpload}
  <2>1. CASE End(r)
    BY <1>1, <2>1, RequestEnds
  <2>2. CASE Go(r, "mark")
    BY <1>1, <2>2, RequestGoes DEF Where
  <2> QED BY <2>1, <2>2 DEF FinalizeCompletion
<1>5. Right(request[r].at, request[r].upload)'
  BY <1>4 DEF Right
<1> QED BY <1>1, <1>3, <1>4, <1>5, RequestStatements

\* An abort turns the session, and works on its storage upload.
LEMMA BeginAbortKeeps ==
    ASSUME MultipartInv, NEW r \in Request, BeginAbort(r)
    PROVE  MultipartInv'
<1>1. Types /\ ObjectIsRight /\ KnownAreUsed /\ session \in SessionRow
      /\ session.status \in {"initiated", "uploading", "cancelling"}
      /\ session' = [session EXCEPT !.status = "cancelling", !.retryable = FALSE]
      /\ UNCHANGED <<file, key, reserved, storage, sweep, clean, confirmed>>
  BY DEF MultipartInv, Types, BeginAbort
<1>2. /\ file \in {"uploading", "pending", "failed", "deleting", "gone"}
      /\ key \in BOOLEAN /\ reserved \in BOOLEAN /\ confirmed \in BOOLEAN
  BY <1>1 DEF Types
<1>3. "cancelling" \in SessionStatus /\ FALSE \in BOOLEAN
  BY DEF SessionStatus, Active
<1>4. session' \in SessionRow
  BY <1>1, <1>3, SessionRows, Zenon
<1>5. session'.status = "cancelling" /\ session'.upload = session.upload
  BY <1>1 DEF SessionRow
<1>6. RowsKept
  BY <1>1, <1>2, <1>4, <1>5 DEF RowsKept, Active
<1>7. ObjectIsRight'
  BY <1>1, <1>5 DEF ObjectIsRight, storage
<1>8. session.upload \in Number /\ session.upload # NoUpload
  BY <1>1 DEF SessionRow, KnownAreUsed, Active
<1>9. /\ request' \in [Request -> RequestRow] /\ Others(r)
      /\ request'[r].at = "abort" /\ request'[r].upload = session.upload
  BY <1>1, <1>8, RequestGoesWith DEF BeginAbort, Where
<1>10. Right(request[r].at, request[r].upload)'
  BY <1>8, <1>9 DEF Right
<1> QED BY <1>1, <1>2, <1>6, <1>7, <1>9, <1>10, RequestStatements

\* A statement without a request.
LEMMA OtherStatements ==
    ASSUME MultipartInv, UNCHANGED <<storage, clean, request, confirmed>>, RowsKept,
           sweep' \in SweepRow, ObjectIsRight',
           \/ sweep' = sweep
           \/ SweepIsRight' /\ sweep'.upload \in Refs \cup {NoUpload}
    PROVE  MultipartInv'
<1>1. Types'
  BY DEF MultipartInv, Types, RowsKept, storage
<1> QED BY <1>1, Statements DEF RowsKept

\* Presigning and the passing of time change the session only.
LEMMA SessionStepsKeep ==
    ASSUME MultipartInv, Presign \/ Expire
    PROVE  MultipartInv'
<1>1. Types /\ ObjectIsRight /\ session \in SessionRow /\ sweep \in SweepRow
      /\ UNCHANGED <<file, key, reserved, storage, request, sweep, clean, confirmed>>
  BY DEF MultipartInv, Types, Presign, Expire
<1>2. /\ file \in {"uploading", "pending", "failed", "deleting", "gone"}
      /\ key \in BOOLEAN /\ reserved \in BOOLEAN
  BY <1>1 DEF Types
<1>3. /\ session' \in SessionRow /\ session'.upload = session.upload
      /\ \/ session'.status = session.status
         \/ session.status = "initiated" /\ session'.status = "uploading"
  <2>1. CASE Presign
    <3>1. "uploading" \in SessionStatus
      BY DEF SessionStatus, Active
    <3>2. session' \in SessionRow
      BY <1>1, <2>1, <3>1, SessionRows, Zenon DEF Presign
    <3> QED BY <1>1, <2>1, <3>2 DEF Presign, SessionRow
  <2>2. CASE Expire
    <3>1. TRUE \in BOOLEAN /\ session.status \in SessionStatus
      BY <1>1 DEF SessionRow
    <3>2. session' \in SessionRow
      BY <1>1, <2>2, <3>1, SessionRows, Zenon DEF Expire
    <3>3. session' = [session EXCEPT !.expired = TRUE]
      BY <2>2 DEF Expire
    <3>4. session'.status = session.status /\ session'.upload = session.upload
      BY <1>1, <3>3 DEF SessionRow
    <3> QED BY <3>2, <3>4
  <2> QED BY <2>1, <2>2
<1>4. RowsKept
  BY <1>1, <1>2, <1>3 DEF RowsKept, Active
<1>5. ObjectIsRight'
  BY <1>1, <1>3 DEF ObjectIsRight, storage
<1> QED BY <1>1, <1>4, <1>5, OtherStatements

\* The rows of the sweep.
LEMMA SweepRows ==
    ASSUME NEW at \in {"idle", "head", "claim", "abort", "expire"}, NEW u \in Number, NEW s \in SweepRow
    PROVE  /\ [at |-> at, upload |-> u] \in SweepRow /\ [s EXCEPT !.at = at] \in SweepRow
           /\ [s EXCEPT !.at = at].at = at /\ [s EXCEPT !.at = at].upload = s.upload
           /\ Idle \in SweepRow /\ Idle.at = "idle" /\ Idle.upload = NoUpload
           /\ s.upload \in Number
BY Numbers DEF SweepRow, Idle

\* The sweep picks an expired session.
LEMMA BeginSweepKeeps ==
    ASSUME MultipartInv, BeginSweep
    PROVE  MultipartInv'
<1>1. Types /\ KnownAreUsed /\ ObjectIsRight /\ session \in SessionRow /\ sweep \in SweepRow
      /\ UNCHANGED <<rows, storage, request, clean, confirmed>>
  BY DEF MultipartInv, Types, BeginSweep, OnlySweep
<1>2. RowsKept /\ ObjectIsRight'
  BY <1>1 DEF RowsKept, ObjectIsRight, rows, storage, Types
<1>3. session.upload \in Number /\ session.upload # NoUpload
  BY <1>1 DEF SessionRow, KnownAreUsed, BeginSweep
<1>4. PICK at \in {"head", "claim", "abort"}, u \in {NoUpload, session.upload} :
         sweep' = [at |-> at, upload |-> u] /\ (at = "abort" => u # NoUpload)
  BY <1>3 DEF BeginSweep
<1>5. sweep' \in SweepRow
  BY <1>1, <1>3, <1>4, SweepRows, Numbers, ZenonT(40)
<1>6. sweep'.at = at /\ sweep'.upload = u
  BY <1>4
<1>7. SweepIsRight' /\ sweep'.upload \in Refs \cup {NoUpload}
  BY <1>4, <1>6 DEF SweepIsRight, Refs
<1> QED BY <1>1, <1>2, <1>5, <1>7, OtherStatements

\* The sweep finalizes an expired completion whose object is there.
LEMMA SweepHeadKeeps ==
    ASSUME MultipartInv, SweepHead
    PROVE  MultipartInv'
<1>1. Types /\ ObjectIsRight /\ sweep \in SweepRow /\ confirmed \in BOOLEAN
      /\ UNCHANGED <<storage, request, clean, confirmed>>
  BY DEF MultipartInv, Types, SweepHead
<1>2. sweep' \in SweepRow /\ SweepIsRight' /\ sweep'.upload \in Refs \cup {NoUpload}
  <2>1. CASE sweep' = Idle
    BY <1>1, <2>1, SweepRows, Numbers DEF SweepIsRight
  <2>2. CASE Sweep("claim")
    BY <1>1, <2>2, SweepRows, Numbers, ZenonT(40) DEF SweepIsRight, Sweep, Refs
  <2> QED BY <2>1, <2>2 DEF SweepHead
<1>3. CASE UNCHANGED rows
  <2>1. RowsKept /\ ObjectIsRight'
    BY <1>1, <1>3 DEF RowsKept, ObjectIsRight, rows, storage, Types
  <2> QED BY <1>1, <1>2, <2>1, OtherStatements
<1>4. CASE object # NoUpload /\ Completable /\ Publish
  <2>1. RowsKept /\ ObjectIsRight'
    BY <1>1, <1>4, Publishing
  <2> QED BY <1>1, <1>2, <2>1, OtherStatements
<1> QED BY <1>3, <1>4 DEF SweepHead

\* The sweep claims an expired session, to abort its storage upload.
LEMMA SweepClaimKeeps ==
    ASSUME MultipartInv, SweepClaim
    PROVE  MultipartInv'
<1>1. Types /\ KnownAreUsed /\ ObjectIsRight /\ session \in SessionRow /\ sweep \in SweepRow
      /\ UNCHANGED <<file, key, reserved, storage, request, clean, confirmed>>
  BY DEF MultipartInv, Types, SweepClaim
<1>2. /\ file \in {"uploading", "pending", "failed", "deleting", "gone"}
      /\ key \in BOOLEAN /\ reserved \in BOOLEAN
  BY <1>1 DEF Types
<1>3. CASE session' = session /\ sweep' = Idle
  <2>1. RowsKept /\ ObjectIsRight'
    BY <1>1, <1>2, <1>3 DEF RowsKept, ObjectIsRight, storage
  <2>2. sweep' \in SweepRow /\ SweepIsRight' /\ sweep'.upload \in Refs \cup {NoUpload}
    BY <1>1, <1>3, SweepRows, Numbers DEF SweepIsRight
  <2> QED BY <1>1, <2>1, <2>2, OtherStatements
<1>4. CASE /\ session.status \in {"initiated", "uploading", "completing"}
           /\ session' = [session EXCEPT !.status = "cancelling", !.retryable = FALSE]
           /\ sweep' = [at |-> "abort", upload |-> session.upload]
  <2>1. "cancelling" \in SessionStatus /\ FALSE \in BOOLEAN
    BY DEF SessionStatus, Active
  <2>2. session' \in SessionRow
    BY <1>1, <1>4, <2>1, SessionRows, Zenon
  <2>3. session'.status = "cancelling" /\ session'.upload = session.upload
    BY <1>1, <1>4 DEF SessionRow
  <2>4. RowsKept
    BY <1>1, <1>2, <1>4, <2>2, <2>3 DEF RowsKept, Active
  <2>5. ObjectIsRight'
    BY <1>1, <2>3 DEF ObjectIsRight, storage
  <2>6. session.upload \in Number /\ session.upload # NoUpload
    BY <1>1, <1>4 DEF SessionRow, KnownAreUsed, Active
  <2>7. sweep' \in SweepRow
    BY <1>1, <1>4, <2>6, SweepRows
  <2>8. SweepIsRight' /\ sweep'.upload \in Refs \cup {NoUpload}
    BY <1>4, <2>6 DEF SweepIsRight, Refs
  <2> QED BY <1>1, <2>4, <2>5, <2>7, <2>8, OtherStatements
<1> QED BY <1>3, <1>4 DEF SweepClaim

\* The sweep ends a session whose storage upload is gone.
LEMMA SweepExpireKeeps ==
    ASSUME MultipartInv, SweepExpire
    PROVE  MultipartInv'
<1>1. Types /\ sweep \in SweepRow /\ sweep' = Idle /\ GiveUp("cancelling", "expired")
      /\ UNCHANGED <<storage, request, clean, confirmed>>
  BY DEF MultipartInv, Types, SweepExpire
<1>2. RowsKept /\ ObjectIsRight'
  BY <1>1, GivingUp DEF Active, Ended
<1>3. sweep' \in SweepRow /\ SweepIsRight' /\ sweep'.upload \in Refs \cup {NoUpload}
  BY <1>1, SweepRows, Numbers DEF SweepIsRight
<1> QED BY <1>1, <1>2, <1>3, OtherStatements

-----------------------------------------------------------------------------
(* The steps at the store. *)

\* A storage upload that somebody knows ends, or is assembled.
LEMMA StoreSteps ==
    ASSUME MultipartInv, UNCHANGED <<rows, confirmed>>, Types', NEW u \in Upload,
           \A v \in Upload : v # u => store'[v] = store[v],
           Used(u), store'[u] # "unused",
           store'[u] = "open" => store[u] = "open", store[u] = "done" => store'[u] = "done",
           object' = object \/ (object' = u /\ store'[u] = "done"),
           late' \subseteq late \cup {u},
           sweep'.upload \in {sweep.upload, NoUpload}, SweepIsRight',
           clean'.upload = clean.upload, CleanIsRight',
           \A s \in Request : request'[s].at \in {"insert", "drop"} =>
                                 request'[s] = request[s] /\ Mine(s) # u,
           \A s \in Request :
              \/ request'[s] = request[s]
              \/ /\ request'[s].upload \in {Mine(s), NoUpload}
                 /\ Right(request[s].at, request[s].upload)'
    PROVE  MultipartInv'
<1> USE DEF rows
<1>1. u # NoUpload /\ Refs' \subseteq Refs \cup {u, NoUpload}
  BY Numbers DEF Refs
<1>2. \A v \in Number : v # NoUpload /\ Used(v) => Used(v)'
  BY Numbers DEF Used
<1>3. Refs \subseteq Number /\ object \in Number /\ \A s \in Request : Mine(s) \in Number
  <2>1. /\ session \in SessionRow /\ sweep \in SweepRow /\ clean \in CleanRow
        /\ late \subseteq Upload /\ object \in Number
    BY DEF MultipartInv, Types
  <2>2. session.upload \in Number /\ sweep.upload \in Number /\ clean.upload \in Number
    BY <2>1 DEF SessionRow, SweepRow, CleanRow
  <2>3. \A s \in Request : Mine(s) \in Number
    BY DEF MultipartInv, Types, RequestRow, Mine
  <2> QED BY <2>1, <2>2, <2>3, Numbers DEF Refs
<1>4. KnownAreUsed'
  <2>1. ASSUME NEW v \in Refs', v # NoUpload
        PROVE  Used(v)'
    <3>1. CASE v = u
      BY <3>1 DEF Used
    <3>2. CASE v \in Refs
      <4>1. v \in Number /\ Used(v)
        BY <1>3, <2>1, <3>2 DEF MultipartInv, KnownAreUsed
      <4> QED BY <1>2, <2>1, <4>1
    <3> QED BY <1>1, <2>1, <3>1, <3>2
  <2>2. \A s \in Request : Mine(s)' # NoUpload => store'[Mine(s)'] # "unused"
    BY <1>2, <1>3 DEF MultipartInv, KnownAreUsed, Mine, Used
  <2> QED BY <2>1, <2>2 DEF MultipartInv, KnownAreUsed, Used
<1>5. NewAreOwned'
  <2>1. ASSUME NEW s \in Request, request'[s].at \in {"insert", "drop"}
        PROVE  /\ Mine(s)' # NoUpload /\ store'[Mine(s)'] = "open"
               /\ Mine(s)' \notin Refs' /\ Mine(s)' # object'
               /\ \A q \in Request : q # s => Mine(q)' # Mine(s)'
    <3>1. request'[s] = request[s] /\ Mine(s) # u /\ Mine(s)' = Mine(s)
      BY <2>1 DEF Mine
    <3>2. /\ Mine(s) # NoUpload /\ store[Mine(s)] = "open"
          /\ Mine(s) \notin Refs /\ Mine(s) # object
          /\ \A q \in Request : q # s => Mine(q) # Mine(s)
      BY <2>1, <3>1 DEF MultipartInv, NewAreOwned
    <3>3. Mine(s) \in Upload
      BY <1>3, <3>2, Numbers
    <3>4. \A q \in Request : q # s => Mine(q)' # Mine(s)
      BY <3>2 DEF Mine
    <3> QED BY <1>1, <3>1, <3>2, <3>3, <3>4
  <2> QED BY <2>1 DEF NewAreOwned
<1>6. RequestsAreRight'
  <2>1. ASSUME NEW s \in Request, request'[s] = request[s]
        PROVE  Right(request[s].at, request[s].upload)'
    <3>1. Right(request[s].at, Mine(s))
      BY DEF MultipartInv, RequestsAreRight
    <3>2. \A v \in Number : v # NoUpload /\ store[v] # "open" => store'[v] # "open"
      BY Numbers
    <3>3. object # NoUpload => object' # NoUpload
      BY <1>1
    <3> QED BY <1>3, <2>1, <3>1, <3>2, <3>3 DEF Right, Mine
  <2> QED BY <2>1 DEF RequestsAreRight, Mine
<1>7. ObjectIsRight'
  <2>1. object' # NoUpload => store'[object'] = "done"
    BY <1>3, Numbers DEF MultipartInv, ObjectIsRight
  <2>2. object # NoUpload => object' # NoUpload
    BY <1>1
  <2> QED BY <2>1, <2>2 DEF MultipartInv, ObjectIsRight
<1> QED BY <1>4, <1>5, <1>6, <1>7 DEF MultipartInv

\* The sweep is right after a step of another part at the store.
LEMMA SweepStaysRight ==
    ASSUME MultipartInv, sweep' = sweep, NEW u \in Upload,
           \A v \in Upload : v # u => store'[v] = store[v],
           store'[u] = "open" => store[u] = "open"
    PROVE  SweepIsRight'
<1>1. sweep.upload \in Number
  BY DEF MultipartInv, Types, SweepRow
<1> QED BY <1>1, Numbers DEF MultipartInv, SweepIsRight

\* The cleanup job, likewise.
LEMMA CleanStaysRight ==
    ASSUME MultipartInv, clean' = clean, UNCHANGED rows, NEW u \in Upload,
           \A v \in Upload : v # u => store'[v] = store[v],
           store'[u] = "open" => store[u] = "open"
    PROVE  CleanIsRight'
<1>1. clean.upload \in Number
  BY DEF MultipartInv, Types, CleanRow
<1> QED BY <1>1, Numbers DEF MultipartInv, CleanIsRight, rows

\* What an abort at the store does to an upload that was created.
LEMMA StorageAborts ==
    ASSUME Types, NEW u \in Upload, Used(u), AbortStorage(u)
    PROVE  /\ store' \in [Upload -> {"unused", "open", "aborted", "done"}]
           /\ \A v \in Upload : v # u => store'[v] = store[v]
           /\ store'[u] # "unused" /\ store'[u] # "open"
           /\ store[u] = "done" => store'[u] = "done"
BY DEF Types, Used, AbortStorage

\* A request that lost the insertion of its session drops its storage upload.
LEMMA DropUploadKeeps ==
    ASSUME MultipartInv, NEW r \in Request, DropUpload(r)
    PROVE  MultipartInv'
<1>1. Types /\ UNCHANGED <<rows, parts, late, object, sweep, clean, confirmed>>
  BY DEF MultipartInv, DropUpload
<1> DEFINE u == Mine(r)
<1>2. /\ u \in Upload /\ store[u] = "open"
      /\ \A s \in Request : s # r => Mine(s) # u
  <2>1. u \in Number
    BY <1>1, RequestFields
  <2> QED BY <2>1, Numbers DEF MultipartInv, NewAreOwned, DropUpload, At
<1>3. store' = [store EXCEPT ![u] = "aborted"] /\ End(r)
  BY DEF DropUpload
<1> HIDE DEF u
<1>4. /\ store' \in [Upload -> {"unused", "open", "aborted", "done"}]
      /\ \A v \in Upload : v # u => store'[v] = store[v]
      /\ store'[u] = "aborted"
  BY <1>1, <1>2, <1>3 DEF Types
<1>5. /\ request' \in [Request -> RequestRow] /\ Others(r)
      /\ request'[r].at = "idle" /\ request'[r].upload = NoUpload
  BY <1>1, <1>3, RequestEnds
<1>6. Types'
  BY <1>1, <1>4, <1>5 DEF Types, rows
<1>7. SweepIsRight'
  BY <1>1, <1>2, <1>4, SweepStaysRight
<1>8. CleanIsRight'
  BY <1>1, <1>2, <1>4, CleanStaysRight
<1>9. \A s \in Request : request'[s].at \in {"insert", "drop"} =>
                           request'[s] = request[s] /\ Mine(s) # u
  BY <1>2, <1>5 DEF Others
<1>10. \A s \in Request :
          \/ request'[s] = request[s]
          \/ /\ request'[s].upload \in {Mine(s), NoUpload}
             /\ Right(request[s].at, request[s].upload)'
  BY <1>5 DEF Others, Right
<1> QED BY <1>1, <1>2, <1>4, <1>6, <1>7, <1>8, <1>9, <1>10, StoreSteps DEF Used

\* The store answers a completion, or does not.
LEMMA AssembleKeeps ==
    ASSUME MultipartInv, NEW r \in Request, Assemble(r)
    PROVE  MultipartInv'
<1>1. Types /\ UNCHANGED <<rows, parts, sweep, clean, confirmed>> /\ request[r].at = "assemble"
  BY DEF MultipartInv, Assemble, At
<1> DEFINE u == Mine(r)
<1>2. u \in Upload /\ Used(u) /\ u # NoUpload
  <2>1. u \in Number
    BY <1>1, RequestFields
  <2>2. u # NoUpload
    BY <1>1 DEF MultipartInv, RequestsAreRight, Right
  <2> QED BY <2>1, <2>2, Numbers DEF MultipartInv, KnownAreUsed
<1>3. PICK at \in {"verify", "unknown", "rejected", "vanished"} :
         Go(r, at) /\ (at = "vanished" => store[u] # "open" /\ store' = store)
  BY DEF Assemble
<1>4. \/ store' = store /\ object' = object /\ late' \in {late, late \cup {u}}
      \/ /\ store[u] = "open" /\ store' = [store EXCEPT ![u] = "done"]
         /\ object' = u /\ late' = late \ {u}
  BY DEF Assemble
<1> HIDE DEF u
<1>5. /\ store' \in [Upload -> {"unused", "open", "aborted", "done"}]
      /\ \A v \in Upload : v # u => store'[v] = store[v]
      /\ store'[u] # "unused"
      /\ store'[u] = "open" => store[u] = "open"
      /\ store[u] = "done" => store'[u] = "done"
      /\ object' = object \/ (object' = u /\ store'[u] = "done")
      /\ late' \subseteq late \cup {u}
  BY <1>1, <1>2, <1>4 DEF Types, Used
<1>6. /\ request' \in [Request -> RequestRow] /\ Others(r)
      /\ request'[r].at = at /\ request'[r].upload = u
  BY <1>1, <1>3, RequestGoes DEF Where, u
<1>7. Types'
  <2>1. object' \in Number /\ late' \subseteq Upload
    BY <1>1, <1>2, <1>5, Numbers DEF Types
  <2> QED BY <1>1, <1>5, <1>6, <2>1 DEF Types, rows
<1>8. SweepIsRight'
  BY <1>1, <1>2, <1>5, SweepStaysRight
<1>9. CleanIsRight'
  BY <1>1, <1>2, <1>5, CleanStaysRight
<1>10. \A s \in Request : request'[s].at \in {"insert", "drop"} =>
                           request'[s] = request[s] /\ Mine(s) # u
  <2>1. ASSUME NEW s \in Request, request'[s].at \in {"insert", "drop"}
        PROVE  request'[s] = request[s] /\ Mine(s) # u
    <3>1. s # r /\ request'[s] = request[s]
      BY <1>6, <2>1 DEF Others
    <3> QED BY <2>1, <3>1 DEF MultipartInv, NewAreOwned, u
  <2> QED BY <2>1
<1>11. \A s \in Request :
          \/ request'[s] = request[s]
          \/ /\ request'[s].upload \in {Mine(s), NoUpload}
             /\ Right(request[s].at, request[s].upload)'
  <2>1. Right(request[r].at, request[r].upload)'
    BY <1>2, <1>3, <1>6 DEF Right
  <2> QED BY <1>6, <2>1 DEF Others, u
<1> QED BY <1>1, <1>2, <1>5, <1>7, <1>8, <1>9, <1>10, <1>11, StoreSteps

\* An unanswered completion is carried out.
LEMMA LateAssemblyKeeps ==
    ASSUME MultipartInv, NEW u \in Upload, LateAssembly(u)
    PROVE  MultipartInv'
<1>1. Types /\ UNCHANGED <<rows, parts, request, sweep, clean, confirmed>>
      /\ store' = [store EXCEPT ![u] = "done"] /\ object' = u /\ late' = late \ {u}
      /\ u \in late /\ store[u] = "open"
  BY DEF MultipartInv, LateAssembly
<1>2. /\ store' \in [Upload -> {"unused", "open", "aborted", "done"}]
      /\ \A v \in Upload : v # u => store'[v] = store[v]
      /\ store'[u] = "done"
  BY <1>1 DEF Types
<1>3. Types'
  <2>1. u \in Number
    BY Numbers
  <2> QED BY <1>1, <1>2, <2>1 DEF Types, rows
<1>4. SweepIsRight'
  BY <1>1, <1>2, SweepStaysRight
<1>5. CleanIsRight'
  BY <1>1, <1>2, CleanStaysRight
<1>6. \A s \in Request : request[s].at \in {"insert", "drop"} => Mine(s) # u
  BY <1>1 DEF MultipartInv, NewAreOwned, Refs
<1> QED BY <1>1, <1>2, <1>3, <1>4, <1>5, <1>6, StoreSteps DEF Used

\* The parts of an upload concern nobody else.
LEMMA SendPartsKeeps ==
    ASSUME MultipartInv, NEW u \in Upload, SendParts(u)
    PROVE  MultipartInv'
<1> USE DEF SendParts, rows
<1>1. Types'
  BY DEF MultipartInv, Types
<1>2. KnownAreUsed' /\ NewAreOwned'
  BY DEF MultipartInv, KnownAreUsed, NewAreOwned, Refs, Used, Mine
<1>3. RequestsAreRight' /\ SweepIsRight' /\ CleanIsRight' /\ ObjectIsRight'
  BY DEF MultipartInv, RequestsAreRight, Right, SweepIsRight, CleanIsRight, ObjectIsRight, Mine
<1> QED BY <1>1, <1>2, <1>3 DEF MultipartInv

\* An aborted session aborts its storage upload, if the store answers.
LEMMA AbortUploadKeeps ==
    ASSUME MultipartInv, NEW r \in Request, AbortUpload(r)
    PROVE  MultipartInv'
<1>1. Types /\ UNCHANGED <<rows, parts, late, object, sweep, clean, confirmed>>
      /\ request[r].at = "abort"
  BY DEF MultipartInv, AbortUpload, At
<1> DEFINE u == Mine(r)
<1>2. u \in Upload /\ Used(u) /\ u # NoUpload
  <2>1. u \in Number
    BY <1>1, RequestFields
  <2>2. u # NoUpload
    BY <1>1 DEF MultipartInv, RequestsAreRight, Right
  <2> QED BY <2>1, <2>2, Numbers DEF MultipartInv, KnownAreUsed
<1>3. PICK at \in {"cancel", "absent", "doubt"} :
         Go(r, at) /\ (AbortStorage(u) \/ (at = "doubt" /\ store' = store))
  BY DEF AbortUpload
<1> HIDE DEF u
<1>4. /\ store' \in [Upload -> {"unused", "open", "aborted", "done"}]
      /\ \A v \in Upload : v # u => store'[v] = store[v]
      /\ store'[u] # "unused"
      /\ store'[u] = "open" => store[u] = "open"
      /\ store[u] = "done" => store'[u] = "done"
      /\ at # "doubt" => store'[u] # "open"
  <2>1. CASE AbortStorage(u)
    BY <1>1, <1>2, <2>1, StorageAborts
  <2>2. CASE at = "doubt" /\ store' = store
    BY <1>1, <1>2, <2>2 DEF Types, Used
  <2> QED BY <1>3, <2>1, <2>2
<1>5. /\ request' \in [Request -> RequestRow] /\ Others(r)
      /\ request'[r].at = at /\ request'[r].upload = u
  BY <1>1, <1>3, RequestGoes DEF Where, u
<1>6. Types'
  BY <1>1, <1>4, <1>5 DEF Types, rows
<1>7. SweepIsRight'
  BY <1>1, <1>2, <1>4, SweepStaysRight
<1>8. CleanIsRight'
  BY <1>1, <1>2, <1>4, CleanStaysRight
<1>9. \A s \in Request : request'[s].at \in {"insert", "drop"} =>
                           request'[s] = request[s] /\ Mine(s) # u
  <2>1. ASSUME NEW s \in Request, request'[s].at \in {"insert", "drop"}
        PROVE  request'[s] = request[s] /\ Mine(s) # u
    <3>1. s # r /\ request'[s] = request[s]
      BY <1>5, <2>1 DEF Others
    <3> QED BY <2>1, <3>1 DEF MultipartInv, NewAreOwned, u
  <2> QED BY <2>1
<1>10. \A s \in Request :
          \/ request'[s] = request[s]
          \/ /\ request'[s].upload \in {Mine(s), NoUpload}
             /\ Right(request[s].at, request[s].upload)'
  <2>1. Right(request[r].at, request[r].upload)'
    BY <1>2, <1>4, <1>5 DEF Right
  <2> QED BY <1>5, <2>1 DEF Others, u
<1> QED BY <1>1, <1>2, <1>4, <1>6, <1>7, <1>8, <1>9, <1>10, StoreSteps

\* The sweep aborts the storage upload of the session it claimed.
LEMMA SweepAbortKeeps ==
    ASSUME MultipartInv, SweepAbort
    PROVE  MultipartInv'
<1>1. Types /\ sweep \in SweepRow /\ sweep.at = "abort"
      /\ UNCHANGED <<rows, parts, late, object, request, clean, confirmed>>
  BY DEF MultipartInv, Types, SweepAbort
<1> DEFINE u == sweep.upload
<1>2. u \in Upload /\ Used(u) /\ u # NoUpload
  <2>1. u \in Number /\ u # NoUpload /\ u \in Refs
    BY <1>1 DEF SweepRow, MultipartInv, SweepIsRight, Refs
  <2> QED BY <2>1, Numbers DEF MultipartInv, KnownAreUsed
<1>3. \/ AbortStorage(u) /\ (Sweep("expire") \/ sweep' = Idle)
      \/ store' = store /\ sweep' = Idle
  BY DEF SweepAbort
<1>4. /\ store' \in [Upload -> {"unused", "open", "aborted", "done"}]
      /\ \A v \in Upload : v # u => store'[v] = store[v]
      /\ store'[u] # "unused"
      /\ store'[u] = "open" => store[u] = "open"
      /\ store[u] = "done" => store'[u] = "done"
      /\ Sweep("expire") /\ sweep' # Idle => store'[u] # "open"
  <2> HIDE DEF u
  <2>1. CASE AbortStorage(u)
    BY <1>1, <1>2, <2>1, StorageAborts
  <2>2. CASE store' = store /\ sweep' = Idle
    BY <1>1, <1>2, <2>2 DEF Types, Used
  <2> QED BY <1>3, <2>1, <2>2
<1>5. /\ sweep' \in SweepRow /\ SweepIsRight'
      /\ sweep'.upload \in {sweep.upload, NoUpload}
  <2>1. CASE sweep' = Idle
    BY <1>1, <2>1, SweepRows, Numbers DEF SweepIsRight
  <2>2. CASE Sweep("expire") /\ sweep' # Idle
    <3>1. sweep' \in SweepRow /\ sweep'.at = "expire" /\ sweep'.upload = u
      BY <1>1, <2>2, SweepRows, Numbers, ZenonT(40) DEF Sweep
    <3> QED BY <1>2, <1>4, <2>2, <3>1 DEF SweepIsRight
  <2> QED BY <1>3, <2>1, <2>2
<1>6. Types'
  BY <1>1, <1>4, <1>5 DEF Types, rows
<1>7. CleanIsRight'
  BY <1>1, <1>2, <1>4, CleanStaysRight
<1>8. \A s \in Request : request[s].at \in {"insert", "drop"} => Mine(s) # u
  BY DEF MultipartInv, NewAreOwned, Refs
<1> HIDE DEF u
<1> QED BY <1>1, <1>2, <1>4, <1>5, <1>6, <1>7, <1>8, StoreSteps

\* The cleanup job aborts the storage upload that the deletion found.
LEMMA CleanAbortKeeps ==
    ASSUME MultipartInv, CleanAbort
    PROVE  MultipartInv'
<1>1. Types /\ clean \in CleanRow /\ clean.at = "abort"
      /\ UNCHANGED <<rows, parts, late, object, request, sweep, confirmed>>
      /\ clean' = [clean EXCEPT !.at = "delete"]
  BY DEF MultipartInv, Types, CleanAbort
<1>2. /\ clean' \in CleanRow /\ clean'.at = "delete" /\ clean'.upload = clean.upload
      /\ clean.upload \in Number
  BY <1>1 DEF CleanRow
<1>3. CASE clean.upload = NoUpload /\ store' = store
  <2>1. Types'
    BY <1>1, <1>2, <1>3 DEF Types, rows
  <2>2. KnownAreUsed' /\ NewAreOwned'
    BY <1>1, <1>2, <1>3 DEF MultipartInv, KnownAreUsed, NewAreOwned, Refs, Used, Mine, rows
  <2>3. RequestsAreRight' /\ SweepIsRight' /\ ObjectIsRight'
    BY <1>1, <1>3 DEF MultipartInv, RequestsAreRight, Right, SweepIsRight, ObjectIsRight, Mine, rows
  <2>4. CleanIsRight'
    BY <1>1, <1>2, <1>3 DEF MultipartInv, CleanIsRight, rows
  <2> QED BY <2>1, <2>2, <2>3, <2>4 DEF MultipartInv
<1>4. CASE clean.upload # NoUpload /\ AbortStorage(clean.upload)
  <2> DEFINE u == clean.upload
  <2>1. u \in Upload /\ Used(u) /\ u # NoUpload
    BY <1>2, <1>4, Numbers DEF MultipartInv, KnownAreUsed, Refs
  <2>2. /\ store' \in [Upload -> {"unused", "open", "aborted", "done"}]
        /\ \A v \in Upload : v # u => store'[v] = store[v]
        /\ store'[u] # "unused" /\ store'[u] # "open"
        /\ store[u] = "done" => store'[u] = "done"
    <3>1. AbortStorage(u)
      BY <1>4
    <3> HIDE DEF u
    <3> QED BY <1>1, <2>1, <3>1, StorageAborts
  <2>3. Types'
    BY <1>1, <1>2, <2>2 DEF Types, rows
  <2>4. SweepIsRight'
    BY <1>1, <2>1, <2>2, SweepStaysRight
  <2>5. CleanIsRight'
    BY <1>1, <1>2, <2>2 DEF MultipartInv, CleanIsRight, rows
  <2>6. \A s \in Request : request[s].at \in {"insert", "drop"} => Mine(s) # u
    BY DEF MultipartInv, NewAreOwned, Refs
  <2>7. clean'.upload = u /\ sweep'.upload \in {sweep.upload, NoUpload}
    BY <1>1, <1>2
  <2> HIDE DEF u
  <2> QED BY <1>1, <1>2, <2>1, <2>2, <2>3, <2>4, <2>5, <2>6, <2>7, StoreSteps
<1> QED BY <1>3, <1>4 DEF CleanAbort

\* It deletes the object.
LEMMA CleanDeleteKeeps ==
    ASSUME MultipartInv, CleanDelete
    PROVE  MultipartInv'
<1>1. Types /\ clean \in CleanRow /\ clean.at = "delete" /\ object' \in {NoUpload, object}
      /\ UNCHANGED <<rows, store, parts, late, request, sweep, confirmed>>
      /\ clean' = [clean EXCEPT !.at = "final"]
  BY DEF MultipartInv, Types, CleanDelete
<1>2. /\ clean' \in CleanRow /\ clean'.at = "final" /\ clean'.upload = clean.upload
  BY <1>1 DEF CleanRow
<1>3. file \in {"deleting", "gone"}
  BY <1>1 DEF MultipartInv, CleanIsRight, Types
<1>4. Types'
  BY <1>1, <1>2, Numbers DEF Types, rows
<1>5. KnownAreUsed' /\ NewAreOwned'
  BY <1>1, <1>2 DEF MultipartInv, KnownAreUsed, NewAreOwned, Refs, Used, Mine, rows
<1>6. RequestsAreRight' /\ SweepIsRight' /\ ObjectIsRight'
  BY <1>1, <1>3 DEF MultipartInv, RequestsAreRight, Right, SweepIsRight, ObjectIsRight, Mine, rows
<1>7. CleanIsRight'
  BY <1>1, <1>2 DEF MultipartInv, CleanIsRight, rows
<1> QED BY <1>4, <1>5, <1>6, <1>7 DEF MultipartInv

\* It deletes the rows, and is done.
LEMMA CleanFinalizeKeeps ==
    ASSUME MultipartInv, CleanFinalize
    PROVE  MultipartInv'
<1>1. Types /\ clean \in CleanRow /\ clean.at = "final"
      /\ UNCHANGED <<storage, request, sweep, confirmed>>
      /\ clean' = [clean EXCEPT !.at = "done"]
      /\ file' = "gone" /\ key' = FALSE /\ reserved' = FALSE /\ session' = NoSession
  BY DEF MultipartInv, Types, CleanFinalize
<1>2. /\ clean' \in CleanRow /\ clean'.at = "done" /\ clean'.upload = clean.upload
  BY <1>1 DEF CleanRow
<1>3. session' \in SessionRow /\ session'.status = "none" /\ session'.upload = NoUpload
  BY <1>1, NewSession, Numbers
<1>4. Types'
  BY <1>1, <1>2, <1>3 DEF Types, storage
<1>5. KnownAreUsed' /\ NewAreOwned'
  <2>1. sweep'.upload \in Refs \cup {NoUpload} /\ clean'.upload \in Refs \cup {NoUpload}
    BY <1>1, <1>2 DEF Refs
  <2>2. session'.status \in Active => session'.upload # NoUpload
    BY <1>3 DEF Active
  <2> QED BY <1>1, <1>3, <2>1, <2>2, StatementsKeepKnown
<1>6. RequestsAreRight' /\ SweepIsRight' /\ ObjectIsRight'
  BY <1>1, <1>3 DEF MultipartInv, RequestsAreRight, Right, SweepIsRight, ObjectIsRight, Mine, storage
<1>7. CleanIsRight'
  BY <1>1, <1>2, <1>3 DEF MultipartInv, CleanIsRight, Active
<1> QED BY <1>4, <1>5, <1>6, <1>7 DEF MultipartInv

\* The deletion of the file stops its session, and remembers its upload.
LEMMA DeleteFileKeeps ==
    ASSUME MultipartInv, DeleteFile
    PROVE  MultipartInv'
<1>1. Types /\ KnownAreUsed /\ session \in SessionRow
      /\ file \in {"uploading", "pending", "failed"} /\ file' = "deleting"
      /\ UNCHANGED <<key, reserved, storage, request, sweep, confirmed>>
  BY DEF MultipartInv, Types, DeleteFile
<1> DEFINE status == IF session.status \in {"initiated", "uploading"}
                     THEN "cancelling" ELSE session.status
           upload == IF session.status \in Active THEN session.upload ELSE NoUpload
<1>2. status \in SessionStatus /\ upload \in Number
  BY <1>1, Numbers DEF SessionRow, SessionStatus, Active
<1>3. session' = [session EXCEPT !.status = status]
  BY <1>1 DEF DeleteFile, SessionRow
<1>4. session' \in SessionRow /\ session'.status = status /\ session'.upload = session.upload
  <2> HIDE DEF status
  <2>1. session' \in SessionRow
    BY <1>1, <1>2, <1>3, SessionRows, Zenon
  <2> QED BY <1>1, <1>3, <2>1 DEF SessionRow
<1>5. /\ clean' = [at |-> "abort", upload |-> upload]
      /\ clean'.at = "abort" /\ clean'.upload = upload
  BY DEF DeleteFile
<1>6. clean' \in CleanRow
  BY <1>2, <1>5 DEF CleanRow
<1>7. Types'
  BY <1>1, <1>4, <1>6 DEF Types, storage
<1>8. KnownAreUsed' /\ NewAreOwned'
  <2>1. sweep'.upload \in Refs \cup {NoUpload} /\ clean'.upload \in Refs \cup {NoUpload}
    BY <1>1, <1>5 DEF Refs
  <2>2. session'.status \in Active => session'.upload # NoUpload
    BY <1>1, <1>4 DEF KnownAreUsed, Active
  <2> QED BY <1>1, <1>4, <2>1, <2>2, StatementsKeepKnown
<1>9. RequestsAreRight' /\ SweepIsRight' /\ ObjectIsRight'
  BY <1>1, <1>4 DEF MultipartInv, RequestsAreRight, Right, SweepIsRight, ObjectIsRight, Mine, storage
<1>10. CleanIsRight'
  BY <1>1, <1>4, <1>5 DEF MultipartInv, CleanIsRight, Active
<1> QED BY <1>7, <1>8, <1>9, <1>10 DEF MultipartInv

\* The session of a new storage upload is stored, unless it lost.
LEMMA InsertSessionKeeps ==
    ASSUME MultipartInv, NEW r \in Request, InsertSession(r)
    PROVE  MultipartInv'
<1>1. Types /\ session \in SessionRow /\ request[r].at = "insert" /\ Mine(r) \in Number
      /\ UNCHANGED <<file, key, reserved, storage, sweep, clean, confirmed>>
  BY RequestFields DEF MultipartInv, Types, InsertSession, At
<1>2. /\ Mine(r) # NoUpload /\ store[Mine(r)] = "open"
      /\ Mine(r) \notin Refs /\ Mine(r) # object
      /\ \A s \in Request : s # r => Mine(s) # Mine(r)
  BY <1>1 DEF MultipartInv, NewAreOwned
<1>3. CASE session' = session /\ Go(r, "drop")
  <2>1. /\ request' \in [Request -> RequestRow] /\ Others(r)
        /\ request'[r].at = "drop" /\ request'[r].upload = Mine(r)
    BY <1>1, <1>3, RequestGoes DEF Where
  <2>2. Types'
    BY <1>1, <1>3, <2>1 DEF Types, storage
  <2>3. \A s \in Request : Mine(s)' = Mine(s)
    BY <2>1 DEF Mine, Others
  <2>4. KnownAreUsed'
    BY <1>1, <1>3, <2>3 DEF MultipartInv, KnownAreUsed, Refs, Used, storage
  <2>5. NewAreOwned'
    <3>1. ASSUME NEW s \in Request, request'[s].at \in {"insert", "drop"}
          PROVE  request[s].at \in {"insert", "drop"}
      BY <1>1, <2>1, <3>1 DEF Others
    <3> QED BY <1>1, <1>3, <2>3, <3>1 DEF MultipartInv, NewAreOwned, Refs, storage
  <2>6. RequestsAreRight'
    BY <1>1, <2>1 DEF MultipartInv, RequestsAreRight, Right, Mine, Others, storage
  <2>7. SweepIsRight' /\ CleanIsRight' /\ ObjectIsRight'
    BY <1>1, <1>3 DEF MultipartInv, SweepIsRight, CleanIsRight, ObjectIsRight, storage
  <2> QED BY <2>2, <2>4, <2>5, <2>6, <2>7 DEF MultipartInv
<1>4. CASE /\ file = "uploading" /\ End(r)
           /\ session' = [NoSession EXCEPT !.status = "initiated", !.upload = Mine(r)]
  <2>1. /\ request' \in [Request -> RequestRow] /\ Others(r)
        /\ request'[r].at = "idle" /\ request'[r].upload = NoUpload
    BY <1>1, <1>4, RequestEnds
  <2>2. session' \in SessionRow /\ session'.status = "initiated" /\ session'.upload = Mine(r)
    BY <1>1, <1>4, NewSession
  <2>3. Types'
    BY <1>1, <2>1, <2>2 DEF Types, storage
  <2>4. Refs' \subseteq Refs \cup {Mine(r)}
    BY <1>1, <2>2 DEF Refs, storage
  <2>5. KnownAreUsed'
    <3>1. \A v \in Refs' : v # NoUpload => store'[v] # "unused"
      BY <1>1, <1>2, <2>4 DEF MultipartInv, KnownAreUsed, Used, storage
    <3>2. \A s \in Request : Mine(s)' # NoUpload => store'[Mine(s)'] # "unused"
      BY <1>1, <2>1 DEF MultipartInv, KnownAreUsed, Used, storage, Mine, Others
    <3> QED BY <1>2, <2>2, <3>1, <3>2 DEF KnownAreUsed, Used
  <2>6. NewAreOwned'
    <3>1. ASSUME NEW s \in Request, request'[s].at \in {"insert", "drop"}
          PROVE  /\ Mine(s)' # NoUpload /\ store'[Mine(s)'] = "open"
                 /\ Mine(s)' \notin Refs' /\ Mine(s)' # object'
                 /\ \A q \in Request : q # s => Mine(q)' # Mine(s)'
      <4>1. s # r /\ Mine(s)' = Mine(s) /\ request[s].at \in {"insert", "drop"}
        BY <2>1, <3>1 DEF Others, Mine
      <4>2. /\ Mine(s) # NoUpload /\ store[Mine(s)] = "open"
            /\ Mine(s) \notin Refs /\ Mine(s) # object
            /\ \A q \in Request : q # s => Mine(q) # Mine(s)
        BY <4>1 DEF MultipartInv, NewAreOwned
      <4>3. Mine(s) # Mine(r)
        BY <1>2, <4>1
      <4>4. \A q \in Request : q # s => Mine(q)' # Mine(s)
        BY <2>1, <4>2 DEF Mine, Others
      <4> QED BY <1>1, <2>4, <4>1, <4>2, <4>3, <4>4 DEF storage
    <3> QED BY <3>1 DEF NewAreOwned
  <2>7. RequestsAreRight'
    BY <1>1, <2>1 DEF MultipartInv, RequestsAreRight, Right, Mine, Others, storage
  <2>8. SweepIsRight' /\ ObjectIsRight'
    BY <1>1, <1>4, <2>2 DEF MultipartInv, SweepIsRight, ObjectIsRight, storage
  <2>9. CleanIsRight'
    BY <1>1, <1>4 DEF MultipartInv, CleanIsRight, storage
  <2> QED BY <2>3, <2>5, <2>6, <2>7, <2>8, <2>9 DEF MultipartInv
<1> QED BY <1>3, <1>4 DEF InsertSession

\* A new storage upload is known to nobody but the request that creates it.
LEMMA CreateStorageUploadKeeps ==
    ASSUME MultipartInv, NEW r \in Request, CreateStorageUpload(r)
    PROVE  MultipartInv'
<1>1. Types /\ UNCHANGED <<rows, parts, late, object, sweep, clean, confirmed>>
  BY DEF MultipartInv, CreateStorageUpload
<1>2. PICK u \in Upload : /\ store[u] = "unused"
                          /\ store' = [store EXCEPT ![u] = "open"]
                          /\ GoWith(r, "insert", u)
  BY DEF CreateStorageUpload
<1>3. /\ store' \in [Upload -> {"unused", "open", "aborted", "done"}]
      /\ \A v \in Upload : v # u => store'[v] = store[v]
      /\ store'[u] = "open" /\ u \in Number /\ u # NoUpload
  BY <1>1, <1>2, Numbers DEF Types
<1>4. /\ request' \in [Request -> RequestRow] /\ Others(r)
      /\ request'[r].at = "insert" /\ request'[r].upload = u
  BY <1>1, <1>2, <1>3, RequestGoesWith DEF Where
<1>5. Types'
  BY <1>1, <1>3, <1>4 DEF Types, rows
<1>6. /\ u \notin Refs /\ u # object /\ \A s \in Request : Mine(s) # u
      /\ Refs' = Refs /\ Refs \subseteq Number /\ object \in Number
      /\ \A s \in Request : Mine(s) \in Number
  <2>1. u \notin Refs /\ u # object /\ \A s \in Request : Mine(s) # u
    BY <1>2, <1>3 DEF MultipartInv, KnownAreUsed, ObjectIsRight, Used
  <2>2. Refs' = Refs
    BY <1>1 DEF Refs, rows
  <2>3. /\ session \in SessionRow /\ sweep \in SweepRow /\ clean \in CleanRow
        /\ late \subseteq Upload /\ object \in Number
    BY <1>1 DEF Types
  <2>4. session.upload \in Number /\ sweep.upload \in Number /\ clean.upload \in Number
    BY <2>3 DEF SessionRow, SweepRow, CleanRow
  <2>5. \A s \in Request : Mine(s) \in Number
    BY <1>1, RequestFields
  <2> QED BY <2>1, <2>2, <2>3, <2>4, <2>5, Numbers DEF Refs
<1>7. \A v \in Number : v # NoUpload /\ v # u => store'[v] = store[v]
  BY <1>3, Numbers
<1>8. KnownAreUsed'
  <2>1. \A v \in Refs' : v # NoUpload => store'[v] # "unused"
    BY <1>6, <1>7 DEF MultipartInv, KnownAreUsed, Used
  <2>2. ASSUME NEW s \in Request, Mine(s)' # NoUpload
        PROVE  store'[Mine(s)'] # "unused"
    <3>1. CASE s = r
      BY <1>3, <1>4, <3>1 DEF Mine
    <3>2. CASE s # r
      <4>1. Mine(s)' = Mine(s)
        BY <1>4, <3>2 DEF Mine, Others
      <4> QED BY <1>6, <1>7, <2>2, <4>1 DEF MultipartInv, KnownAreUsed, Used
    <3> QED BY <3>1, <3>2
  <2> QED BY <1>1, <2>1, <2>2 DEF MultipartInv, KnownAreUsed, Used, rows
<1>9. NewAreOwned'
  <2>1. ASSUME NEW s \in Request, request'[s].at \in {"insert", "drop"}
        PROVE  /\ Mine(s)' # NoUpload /\ store'[Mine(s)'] = "open"
               /\ Mine(s)' \notin Refs' /\ Mine(s)' # object'
               /\ \A q \in Request : q # s => Mine(q)' # Mine(s)'
    <3>1. CASE s = r
      <4>1. Mine(s)' = u /\ \A q \in Request : q # s => Mine(q)' = Mine(q)
        BY <1>4, <3>1 DEF Mine, Others
      <4> QED BY <1>1, <1>3, <1>6, <4>1
    <3>2. CASE s # r
      <4>1. Mine(s)' = Mine(s) /\ request[s].at \in {"insert", "drop"}
        BY <1>4, <2>1, <3>2 DEF Mine, Others
      <4>2. /\ Mine(s) # NoUpload /\ store[Mine(s)] = "open"
            /\ Mine(s) \notin Refs /\ Mine(s) # object
            /\ \A q \in Request : q # s => Mine(q) # Mine(s)
        BY <4>1 DEF MultipartInv, NewAreOwned
      <4>3. \A q \in Request : q # s => Mine(q)' # Mine(s)
        BY <1>4, <1>6, <4>2 DEF Mine, Others
      <4> QED BY <1>1, <1>6, <1>7, <4>1, <4>2, <4>3
    <3> QED BY <3>1, <3>2
  <2> QED BY <2>1 DEF NewAreOwned
<1>10. RequestsAreRight'
  <2>1. ASSUME NEW s \in Request
        PROVE  Right(request[s].at, request[s].upload)'
    <3>1. CASE s = r
      BY <1>4, <3>1 DEF Right
    <3>2. CASE s # r
      <4>1. request'[s] = request[s] /\ Right(request[s].at, Mine(s))
        BY <1>4, <3>2 DEF Others, MultipartInv, RequestsAreRight
      <4> QED BY <1>1, <1>6, <1>7, <4>1 DEF Right, Mine, rows
    <3> QED BY <3>1, <3>2
  <2> QED BY <2>1 DEF RequestsAreRight, Mine
<1>11. SweepIsRight' /\ CleanIsRight'
  <2>1. /\ sweep.upload \in Number /\ sweep.upload # u
        /\ clean.upload \in Number /\ clean.upload # u
    BY <1>6 DEF Refs
  <2> QED BY <1>1, <1>7, <2>1 DEF MultipartInv, SweepIsRight, CleanIsRight, rows
<1>12. ObjectIsRight'
  BY <1>1, <1>6, <1>7 DEF MultipartInv, ObjectIsRight, rows
<1> QED BY <1>5, <1>8, <1>9, <1>10, <1>11, <1>12 DEF MultipartInv

-----------------------------------------------------------------------------
\* MultipartInv holds from the reservation of the file on, whatever the
\* requests, the sweep, the store and the cleanup job do.
THEOREM MultipartInvariant == Spec => []MultipartInv
<1>1. Init => MultipartInv
  <2> SUFFICES ASSUME Init
               PROVE  MultipartInv
    OBVIOUS
  <2> USE DEF Init
  <2>1. /\ Idle.at = "idle" /\ Idle.upload = NoUpload /\ "idle" \in Where
        /\ session \in SessionRow /\ session.status = "none" /\ session.upload = NoUpload
    BY NewSession, Numbers DEF Idle, Where
  <2>2. Idle \in RequestRow /\ Idle \in SweepRow /\ Idle \in CleanRow
    BY <2>1, Numbers DEF RequestRow, SweepRow, CleanRow, Idle
  <2>3. Types
    BY <2>1, <2>2, Numbers DEF Types
  <2>4. KnownAreUsed /\ NewAreOwned
    BY <2>1 DEF KnownAreUsed, NewAreOwned, Refs, Mine, Active
  <2>5. RequestsAreRight /\ SweepIsRight /\ CleanIsRight /\ ObjectIsRight
    BY <2>1 DEF RequestsAreRight, Right, SweepIsRight, CleanIsRight, ObjectIsRight, Active
  <2> QED BY <2>3, <2>4, <2>5 DEF MultipartInv
<1>2. MultipartInv /\ [Next]_vars => MultipartInv'
  <2> SUFFICES ASSUME MultipartInv, [Next]_vars
               PROVE  MultipartInv'
    OBVIOUS
  <2>1. ASSUME NEW r \in Request, Initialise(r)
        PROVE  MultipartInv'
    BY <2>1, BeginInitKeeps, CreateStorageUploadKeeps, InsertSessionKeeps, DropUploadKeeps
       DEF Initialise
  <2>2. ASSUME NEW r \in Request, Complete(r)
        PROVE  MultipartInv'
    <3>1. CASE Observe(r) \/ ListParts(r) \/ Inspect(r) \/ FinalizationFails(r)
      BY <3>1, RequestSteps
    <3>2. CASE BeginCompletion(r) \/ Reclaim(r) \/ Assemble(r)
      BY <3>2, BeginCompletionKeeps, ReclaimKeeps, AssembleKeeps
    <3>3. CASE FailUpload(r) \/ Release(r) \/ MarkRetryable(r) \/ FinalizeCompletion(r)
      BY <3>3, FailUploadKeeps, ReleaseKeeps, MarkRetryableKeeps, FinalizeCompletionKeeps
    <3> QED BY <2>2, <3>1, <3>2, <3>3 DEF Complete
  <2>3. ASSUME NEW r \in Request, Abort(r) \/ RequestDies(r)
        PROVE  MultipartInv'
    BY <2>3, BeginAbortKeeps, AbortUploadKeeps, CancelKeeps, RequestSteps DEF Abort
  <2>4. ASSUME NEW u \in Upload, SendParts(u) \/ LateAssembly(u)
        PROVE  MultipartInv'
    BY <2>4, SendPartsKeeps, LateAssemblyKeeps
  <2>5. CASE Presign \/ Expire \/ Maintain
    BY <2>5, SessionStepsKeep, BeginSweepKeeps, SweepHeadKeeps, SweepClaimKeeps,
       SweepAbortKeeps, SweepExpireKeeps DEF Maintain
  <2>6. CASE Delete
    BY <2>6, DeleteFileKeeps, CleanAbortKeeps, CleanDeleteKeeps, CleanFinalizeKeeps DEF Delete
  <2>7. CASE UNCHANGED vars
    <3> USE <2>7 DEF vars
    <3>1. Types'
      BY DEF MultipartInv, Types
    <3>2. KnownAreUsed' /\ NewAreOwned'
      BY DEF MultipartInv, KnownAreUsed, NewAreOwned, Refs, Used, Mine
    <3>3. RequestsAreRight' /\ SweepIsRight' /\ CleanIsRight' /\ ObjectIsRight'
      BY DEF MultipartInv, RequestsAreRight, Right, SweepIsRight, CleanIsRight, ObjectIsRight, Mine
    <3> QED BY <3>1, <3>2, <3>3 DEF MultipartInv
  <2> QED BY <2>1, <2>2, <2>3, <2>4, <2>5, <2>6, <2>7 DEF Next
<1> QED BY <1>1, <1>2, PTL DEF Spec

\* A file waits for its ingestion only with an object under its key, and an
\* acknowledged upload is not taken back (finalizeMultipartUploadCompletion).
THEOREM PublishedStored == Spec => []PublishedIsStored
<1>1. MultipartInv => PublishedIsStored
  BY RowsAreTyped DEF MultipartInv, ObjectIsRight, PublishedIsStored
<1> QED BY <1>1, MultipartInvariant, PTL

-----------------------------------------------------------------------------
(* Who loses track of a storage upload. *)

\* What ends an active session.
LEMMA SessionEnds ==
    ASSUME MultipartInv, Next, session.status \in Active,
           session'.status \notin Active \/ session'.upload # session.upload
    PROVE  \/ \E r \in Request : FailUpload(r) \/ Cancel(r) \/ FinalizeCompletion(r)
           \/ SweepHead \/ SweepExpire \/ CleanFinalize
<1>1. session \in SessionRow /\ session' # session
  BY DEF MultipartInv, Types
<1>2. ASSUME NEW r \in Request, Initialise(r)
      PROVE  FALSE
  BY <1>1, <1>2 DEF Initialise, BeginInit, CreateStorageUpload, InsertSession, DropUpload, rows,
     Active, Ended
<1>3. ASSUME NEW r \in Request, Complete(r)
      PROVE  FailUpload(r) \/ FinalizeCompletion(r)
  <2>1. CASE Observe(r) \/ ListParts(r) \/ Assemble(r) \/ Inspect(r) \/ FinalizationFails(r)
    BY <1>1, <2>1 DEF Observe, ListParts, Assemble, Inspect, FinalizationFails, OnlyRequest, rows
  <2>2. CASE BeginCompletion(r)
    BY <1>1, <2>2 DEF BeginCompletion, SessionRow, Active
  <2>3. CASE Reclaim(r)
    BY <1>1, <2>3 DEF Reclaim, SessionRow, Active
  <2>4. CASE Release(r)
    BY <1>1, <2>4 DEF Release, SessionRow, Active
  <2>5. CASE MarkRetryable(r)
    BY <1>1, <2>5 DEF MarkRetryable, SessionRow
  <2> QED BY <1>3, <2>1, <2>2, <2>3, <2>4, <2>5 DEF Complete
<1>4. ASSUME NEW r \in Request, Abort(r) \/ RequestDies(r)
      PROVE  Cancel(r)
  <2>1. CASE BeginAbort(r)
    BY <1>1, <2>1 DEF BeginAbort, SessionRow, Active
  <2>2. CASE AbortUpload(r) \/ ResolveAbort(r) \/ RequestDies(r)
    BY <1>1, <2>2 DEF AbortUpload, ResolveAbort, RequestDies, OnlyRequest, rows
  <2> QED BY <1>4, <2>1, <2>2 DEF Abort
<1>5. ASSUME NEW u \in Upload, SendParts(u) \/ LateAssembly(u)
      PROVE  FALSE
  BY <1>1, <1>5 DEF SendParts, LateAssembly, rows
<1>6. CASE Presign
  BY <1>1, <1>6 DEF Presign, SessionRow, Active
<1>7. CASE Expire
  BY <1>1, <1>7 DEF Expire, SessionRow
<1>8. CASE Maintain
  <2>1. CASE BeginSweep \/ SweepAbort
    BY <1>1, <2>1 DEF BeginSweep, SweepAbort, OnlySweep, rows
  <2>2. CASE SweepClaim
    BY <1>1, <2>2 DEF SweepClaim, SessionRow, Active
  <2> QED BY <1>8, <2>1, <2>2 DEF Maintain
<1>9. CASE Delete
  <2>1. CASE DeleteFile
    BY <1>1, <2>1 DEF DeleteFile, SessionRow, Active
  <2>2. CASE CleanAbort \/ CleanDelete
    BY <1>1, <2>2 DEF CleanAbort, CleanDelete, rows
  <2> QED BY <1>9, <2>1, <2>2 DEF Delete
<1> QED BY <1>2, <1>3, <1>4, <1>5, <1>6, <1>7, <1>8, <1>9 DEF Next

\* What moves a request that has just created a storage upload.
LEMMA CreatorMoves ==
    ASSUME MultipartInv, Next, NEW r \in Request, request[r].at \in {"insert", "drop"},
           request'[r] # request[r]
    PROVE  InsertSession(r) \/ DropUpload(r) \/ RequestDies(r)
<1> USE DEF At
<1>1. ASSUME NEW s \in Request, s # r
      PROVE  /\ \A at : ~Go(s, at)
             /\ \A at, u : ~GoWith(s, at, u)
             /\ ~End(s) /\ request' # request
  BY <1>1 DEF MultipartInv, Types, Go, GoWith, End
<1>2. request' # request
  OBVIOUS
<1>3. ASSUME NEW s \in Request, Initialise(s)
      PROVE  s = r /\ (InsertSession(r) \/ DropUpload(r))
  <2>1. s = r
    BY <1>1, <1>3 DEF Initialise, BeginInit, CreateStorageUpload, InsertSession, DropUpload
  <2> QED BY <1>3, <2>1 DEF Initialise, BeginInit, CreateStorageUpload
<1>4. ASSUME NEW s \in Request, Complete(s)
      PROVE  FALSE
  <2>1. s # r
    BY <1>4 DEF Complete, BeginCompletion, Observe, Reclaim, ListParts, Assemble, Inspect,
       FailUpload, Release, MarkRetryable, FinalizeCompletion, FinalizationFails
  <2>2. CASE BeginCompletion(s) \/ Observe(s) \/ Reclaim(s) \/ ListParts(s) \/ Assemble(s)
    BY <1>1, <2>1, <2>2 DEF BeginCompletion, Observe, Reclaim, ListParts, Assemble
  <2>3. CASE Inspect(s) \/ FailUpload(s) \/ Release(s) \/ MarkRetryable(s)
             \/ FinalizeCompletion(s) \/ FinalizationFails(s)
    BY <1>1, <2>1, <2>3 DEF Inspect, FailUpload, Release, MarkRetryable,
       FinalizeCompletion, FinalizationFails
  <2> QED BY <1>4, <2>2, <2>3 DEF Complete
<1>5. ASSUME NEW s \in Request, Abort(s) \/ RequestDies(s)
      PROVE  s = r /\ RequestDies(r)
  <2>1. s = r
    BY <1>1, <1>5 DEF Abort, BeginAbort, AbortUpload, ResolveAbort, Cancel, RequestDies
  <2> QED BY <1>5, <2>1 DEF Abort, BeginAbort, AbortUpload, ResolveAbort, Cancel
<1>6. ASSUME NEW u \in Upload, SendParts(u) \/ LateAssembly(u)
      PROVE  FALSE
  BY <1>2, <1>6 DEF SendParts, LateAssembly
<1>7. CASE Presign \/ Expire \/ Maintain
  BY <1>2, <1>7 DEF Presign, Expire, Maintain, BeginSweep, SweepHead, SweepClaim, SweepAbort,
     SweepExpire, OnlySweep
<1>8. CASE Delete
  BY <1>2, <1>8 DEF Delete, DeleteFile, CleanAbort, CleanDelete, CleanFinalize
<1> QED BY <1>3, <1>4, <1>5, <1>6, <1>7, <1>8 DEF Next

\* What moves the cleanup job before it has aborted the storage upload.
LEMMA CleanMoves ==
    ASSUME MultipartInv, Next, clean.at = "abort", clean' # clean
    PROVE  CleanAbort
<1>1. file \in {"deleting", "gone"}
  BY DEF MultipartInv, Types, CleanIsRight
<1>2. ASSUME NEW s \in Request, Initialise(s) \/ Abort(s) \/ RequestDies(s)
      PROVE  FALSE
  BY <1>2 DEF Initialise, BeginInit, CreateStorageUpload, InsertSession, DropUpload, Abort,
     BeginAbort, AbortUpload, ResolveAbort, Cancel, RequestDies, OnlyRequest
<1>3. ASSUME NEW s \in Request, Complete(s)
      PROVE  FALSE
  BY <1>3 DEF Complete, BeginCompletion, Observe, Reclaim, ListParts, Assemble, Inspect,
     FailUpload, Release, MarkRetryable, FinalizeCompletion, FinalizationFails, OnlyRequest
<1>4. ASSUME NEW u \in Upload, SendParts(u) \/ LateAssembly(u)
      PROVE  FALSE
  BY <1>4 DEF SendParts, LateAssembly
<1>5. CASE Presign \/ Expire \/ Maintain
  BY <1>5 DEF Presign, Expire, Maintain, BeginSweep, SweepHead, SweepClaim, SweepAbort,
     SweepExpire, OnlySweep
<1>6. CASE Delete
  BY <1>1, <1>6 DEF Delete, DeleteFile, CleanDelete, CleanFinalize
<1> QED BY <1>2, <1>3, <1>4, <1>5, <1>6 DEF Next

\* And what opens a storage upload.
LEMMA StoreOpens ==
    ASSUME MultipartInv, Next, NEW u \in Upload, store[u] # "open", store'[u] = "open"
    PROVE  \E r \in Request : request'[r].at = "insert" /\ Mine(r)' = u
<1>1. Types
  BY DEF MultipartInv
<1>2. ASSUME NEW r \in Request, CreateStorageUpload(r)
      PROVE  request'[r].at = "insert" /\ Mine(r)' = u
  <2>1. PICK v \in Upload : store' = [store EXCEPT ![v] = "open"] /\ GoWith(r, "insert", v)
    BY <1>2 DEF CreateStorageUpload
  <2>2. v = u /\ v \in Number
    BY <1>1, <2>1, Numbers DEF Types
  <2>3. request'[r].at = "insert" /\ request'[r].upload = v
    BY <1>1, <2>1, <2>2, RequestGoesWith DEF Where
  <2> QED BY <2>2, <2>3 DEF Mine
<1>3. \A v : store' # [store EXCEPT ![v] = "aborted"] /\ store' # [store EXCEPT ![v] = "done"]
  BY <1>1 DEF Types
<1>4. \A v : ~AbortStorage(v)
  BY <1>1 DEF Types, AbortStorage
<1>5. store' # store
  OBVIOUS
<1>6. ASSUME NEW r \in Request, Initialise(r) \/ Abort(r) \/ RequestDies(r)
      PROVE  CreateStorageUpload(r)
  BY <1>3, <1>4, <1>5, <1>6 DEF Initialise, BeginInit, InsertSession, DropUpload, Abort,
     BeginAbort, AbortUpload, ResolveAbort, Cancel, RequestDies, OnlyRequest, storage
<1>7. ASSUME NEW r \in Request, Complete(r)
      PROVE  FALSE
  BY <1>3, <1>5, <1>7 DEF Complete, BeginCompletion, Observe, Reclaim, ListParts, Assemble, Inspect,
     FailUpload, Release, MarkRetryable, FinalizeCompletion, FinalizationFails, OnlyRequest, storage
<1>8. ASSUME NEW v \in Upload, SendParts(v) \/ LateAssembly(v)
      PROVE  FALSE
  BY <1>3, <1>5, <1>8 DEF SendParts, LateAssembly
<1>9. CASE Presign \/ Expire \/ Maintain
  BY <1>4, <1>5, <1>9 DEF Presign, Expire, Maintain, BeginSweep, SweepHead, SweepClaim, SweepAbort,
     SweepExpire, OnlySweep, storage
<1>10. CASE Delete
  BY <1>4, <1>5, <1>10 DEF Delete, DeleteFile, CleanAbort, CleanDelete, CleanFinalize, storage
<1> QED BY <1>2, <1>6, <1>7, <1>8, <1>9, <1>10 DEF Next

\* A storage upload that was tracked and is not any more has lost its session,
\* its creator or its cleanup job.
LEMMA StraysAreLeft ==
    ASSUME MultipartInv, Next, NEW u \in Upload, ~Stray(u), Stray(u)'
    PROVE  InitialiserDies(u) \/ Outdated \/ EarlierObjectAdopted
<1>1. /\ store'[u] = "open"
      /\ session'.status \in Active => session'.upload # u
      /\ \A r \in Request : request'[r].at \in {"insert", "drop"} => Mine(r)' # u
      /\ clean'.at = "abort" => clean'.upload # u
  BY DEF Stray
<1>2. store[u] = "open"
  BY <1>1, StoreOpens
<1>3. CASE session.status \in Active /\ session.upload = u
  <2>1. session \in SessionRow
    BY DEF MultipartInv, Types
  <2>2. ASSUME Completable, Publish, object # NoUpload \/ file \in {"deleting", "gone"}
        PROVE  EarlierObjectAdopted
    <3>1. session'.status = "completed"
      BY <2>1, <2>2 DEF Publish, SessionRow
    <3>2. object # session.upload
      BY <1>2, <1>3, <2>2 DEF MultipartInv, ObjectIsRight, Completable
    <3> QED BY <3>1, <3>2 DEF EarlierObjectAdopted
  <2>3. ~UNCHANGED rows
    BY <1>1, <1>3 DEF rows
  <2>4. ASSUME NEW r \in Request, FailUpload(r) \/ Cancel(r)
        PROVE  Outdated
    <3>1. Mine(r) # u
      BY <1>2, <2>4 DEF MultipartInv, RequestsAreRight, Right, FailUpload, Cancel, At
    <3> QED BY <1>3, <2>4, <3>1 DEF Outdated
  <2>5. ASSUME NEW r \in Request, FinalizeCompletion(r)
        PROVE  EarlierObjectAdopted
    <3>1. object # NoUpload \/ file \in {"deleting", "gone"}
      BY <2>5 DEF MultipartInv, RequestsAreRight, Right, FinalizeCompletion
    <3> QED BY <2>2, <2>3, <2>5, <3>1 DEF FinalizeCompletion
  <2>6. CASE SweepHead
    BY <2>2, <2>3, <2>6 DEF SweepHead
  <2>7. CASE SweepExpire
    <3>1. sweep.upload # u
      BY <1>2, <2>7 DEF MultipartInv, SweepIsRight, SweepExpire
    <3> QED BY <1>3, <2>7, <3>1 DEF Outdated
  <2>8. ~CleanFinalize
    <3>1. u # NoUpload
      BY Numbers
    <3> QED BY <1>2, <1>3, <3>1 DEF MultipartInv, CleanIsRight, CleanFinalize
  <2> QED BY <1>1, <1>3, <2>4, <2>5, <2>6, <2>7, <2>8, SessionEnds
<1>4. ASSUME NEW r \in Request, request[r].at \in {"insert", "drop"}, Mine(r) = u
      PROVE  InitialiserDies(u)
  <2>1. request'[r] # request[r]
    BY <1>1, <1>4 DEF Mine
  <2>2. Types /\ request[r].at \in Where
    BY RequestFields DEF MultipartInv
  <2>3. ~DropUpload(r)
    BY <1>1, <1>4, <2>2 DEF DropUpload, Types
  <2>4. ~InsertSession(r)
    <3>1. CASE session' = [NoSession EXCEPT !.status = "initiated", !.upload = Mine(r)]
      <4>1. session'.status = "initiated" /\ session'.upload = u
        BY <1>4, <3>1, <2>2, RequestFields, NewSession
      <4> QED BY <1>1, <4>1 DEF Active
    <3>2. CASE Go(r, "drop")
      <4>1. request'[r].at = "drop" /\ Mine(r)' = u
        BY <1>4, <2>2, <3>2, RequestGoes DEF Where, Mine
      <4> QED BY <1>1, <4>1
    <3> QED BY <3>1, <3>2 DEF InsertSession
  <2>5. RequestDies(r)
    BY <1>4, <2>1, <2>3, <2>4, CreatorMoves
  <2> QED BY <1>4, <2>5 DEF InitialiserDies
<1>5. CASE clean.at = "abort" /\ clean.upload = u
  <2>1. CleanAbort
    BY <1>1, <1>5, CleanMoves
  <2>2. Types /\ u # NoUpload
    BY Numbers DEF MultipartInv
  <2> QED BY <1>1, <1>5, <2>1, <2>2 DEF CleanAbort, AbortStorage, Types
<1> QED BY <1>2, <1>3, <1>4, <1>5 DEF Stray

\* Storage uploads are tracked from their creation to their end but for the
\* three steps that StraysHaveACause names.
THEOREM StraysCaused == Spec => StraysHaveACause
<1>1. ASSUME MultipartInv, [Next]_vars
      PROVE  [\A u \in Upload : Stray(u)' /\ ~Stray(u) =>
                InitialiserDies(u) \/ Outdated \/ EarlierObjectAdopted]_vars
  <2>1. CASE UNCHANGED vars
    BY <2>1
  <2>2. CASE Next
    BY <1>1, <2>2, StraysAreLeft
  <2> QED BY <1>1, <2>1, <2>2
<1> QED BY <1>1, MultipartInvariant, PTL DEF Spec, StraysHaveACause

-----------------------------------------------------------------------------
(* The chunked upload. *)

FileRow == [st : Status, content : Content \cup {None}, key : BOOLEAN,
            reserved : Nat, storage : Nat]
TempRow == [is : {"absent", "cut", "good", "bad"}, last : Tab \cup {None}]
MergeSteps == {"idle", "open", "copy", "check", "store", "publish", "clean", "late",
               "reject", "fail"}
MergeRow == [at : MergeSteps, file : File \cup {None}]

\* ChunkedTypeOK, with names for the rows.
ChunkedTypes ==
    /\ row \in [File -> FileRow]
    /\ original \in [File -> {"none", "good", "bad"}]
    /\ job \subseteq File
    /\ dir \in [File -> {"absent", "partial", "torn", "whole"}]
    /\ temp \in [File -> TempRow]
    /\ writing \subseteq File
    /\ merge \in [Tab -> MergeRow]
    /\ overlap \subseteq File /\ orphan \subseteq File

\* A request is idle or merges a file.
MergesHaveFiles == \A r \in Tab : merge[r].at = "idle" <=> merge[r].file = None

\* The row of a file.
RowIsRight(f) ==
    /\ row[f].st \notin Absent => row[f].content \in Content
    /\ row[f].st = "uploading" \/ row[f].st \in Absent => ~row[f].key
    /\ row[f].st \in {"pending", "completed"} => row[f].key
    /\ row[f].st = "unused" => original[f] = "none"
    /\ f \in job => row[f].st \in {"deleting", "gone"}

\* Two merges of it did not run at once, and what the one that runs has learnt.
MergeIsRight(f) ==
    /\ \A r \in Merging(f) : row[f].st # "unused"
    /\ f \notin overlap =>
         /\ \A r, s \in Merging(f) : r = s
         /\ \A r \in Merging(f) :
              /\ merge[r].at \in {"open", "copy", "check", "store", "publish", "reject", "fail"}
                   => ~row[f].key
              /\ merge[r].at = "store" => temp[f].is = "good"
              /\ merge[r].at \in {"publish", "clean", "late"}
                   => original[f] = "good" \/ row[f].st \in {"deleting", "gone"}

\* Its object is what was verified, and somebody knows it.
StoredIsRight(f) ==
    /\ f \notin overlap /\ row[f].key /\ row[f].st # "deleting" =>
         /\ original[f] = "good"
         /\ row[f].reserved = 0 /\ row[f].storage = Size[row[f].content]
    /\ f \notin orphan /\ original[f] # "none" =>
         \/ row[f].key \/ f \in job
         \/ \E r \in Merging(f) : merge[r].at \in {"publish", "late"}

FileIsRight(f) == RowIsRight(f) /\ MergeIsRight(f) /\ StoredIsRight(f)

ChunkedInv == ChunkedTypes /\ MergesHaveFiles /\ \A f \in File : FileIsRight(f)

\* The rows are those of the type invariant.
LEMMA ChunkedRowsAreTyped == ChunkedTypeOK <=> ChunkedTypes
BY DEF ChunkedTypeOK, ChunkedTypes, FileRow, TempRow, MergeRow, MergeSteps

\* The rows that statements write, and what they hold.
LEMMA RowWrites ==
    ASSUME NEW x \in FileRow, NEW st \in Status, NEW b \in BOOLEAN, NEW n \in Nat, NEW m \in Nat
    PROVE  /\ [x EXCEPT !.st = st] \in FileRow
           /\ [x EXCEPT !.st = st, !.reserved = n, !.storage = m] \in FileRow
           /\ [x EXCEPT !.st = st, !.key = b, !.reserved = n, !.storage = m] \in FileRow
BY DEF FileRow

\* The step does not touch the file g.
Untouched(g) ==
    /\ row'[g] = row[g] /\ original'[g] = original[g] /\ temp'[g] = temp[g]
    /\ g \in job' <=> g \in job
    /\ g \in overlap' <=> g \in overlap
    /\ g \in orphan' <=> g \in orphan
    /\ \A r \in Tab : merge'[r] = merge[r] \/ (merge[r].file # g /\ merge'[r].file # g)

\* A file that a step does not touch stays right.
LEMMA UntouchedStaysRight ==
    ASSUME NEW g \in File, FileIsRight(g), Untouched(g)
    PROVE  FileIsRight(g)'
<1> USE DEF Untouched
<1>1. /\ Merging(g)' = Merging(g)
      /\ \A r \in Merging(g) : r \in Tab /\ merge'[r] = merge[r]
  BY DEF Merging
<1>2. RowIsRight(g)'
  BY DEF FileIsRight, RowIsRight
<1>3. MergeIsRight(g)'
  BY <1>1 DEF FileIsRight, MergeIsRight
<1>4. StoredIsRight(g)'
  BY <1>1 DEF FileIsRight, StoredIsRight
<1> QED BY <1>2, <1>3, <1>4 DEF FileIsRight

\* How a merge moves.
LEMMA MergeMoves ==
    ASSUME ChunkedTypes, MergesHaveFiles, NEW r \in Tab, ~MergesAt(r, "idle")
    PROVE  /\ TargetOf(r) \in File /\ r \in Merging(TargetOf(r))
           /\ \A at \in MergeSteps \ {"idle"} : Next1(r, at) =>
                /\ merge' \in [Tab -> MergeRow] /\ MergesHaveFiles'
                /\ merge'[r].at = at /\ merge'[r].file = TargetOf(r)
                /\ \A s \in Tab : s # r => merge'[s] = merge[s]
           /\ MergeEnds(r) =>
                /\ merge' \in [Tab -> MergeRow] /\ MergesHaveFiles'
                /\ merge'[r].at = "idle" /\ merge'[r].file = None
                /\ \A s \in Tab : s # r => merge'[s] = merge[s]
<1> USE DEF ChunkedTypes, MergeRow, MergesHaveFiles, MergesAt, TargetOf, Merging
<1>1. TargetOf(r) \in File /\ r \in Merging(TargetOf(r))
  OBVIOUS
<1>2. ASSUME NEW at \in MergeSteps \ {"idle"}, Next1(r, at)
      PROVE  /\ merge' \in [Tab -> MergeRow] /\ MergesHaveFiles'
             /\ merge'[r].at = at /\ merge'[r].file = TargetOf(r)
             /\ \A s \in Tab : s # r => merge'[s] = merge[s]
  BY <1>2 DEF Next1
<1>3. ASSUME MergeEnds(r)
      PROVE  /\ merge' \in [Tab -> MergeRow] /\ MergesHaveFiles'
             /\ merge'[r].at = "idle" /\ merge'[r].file = None
             /\ \A s \in Tab : s # r => merge'[s] = merge[s]
  BY <1>3 DEF MergeEnds, NoMerge, MergeSteps
<1> QED BY <1>1, <1>2, <1>3

\* A step that touches one file keeps the invariant if that file stays right.
LEMMA OneFileKeeps ==
    ASSUME ChunkedInv, ChunkedTypes', MergesHaveFiles', NEW f \in File,
           \A g \in File : g # f => Untouched(g), FileIsRight(f)'
    PROVE  ChunkedInv'
BY UntouchedStaysRight DEF ChunkedInv

\* The merge r of f has moved on or ended.
MergeMoved(r, f) ==
    /\ merge' \in [Tab -> MergeRow] /\ MergesHaveFiles'
    /\ merge[r].file = f /\ merge[r].at # "idle"
    /\ \/ merge'[r].file = f /\ merge'[r].at # "idle"
       \/ merge'[r].file = None /\ merge'[r].at = "idle"
    /\ \A s \in Tab : s # r => merge'[s] = merge[s]

\* The merges of a file after a step of one of them.
LEMMA MergingAfter ==
    ASSUME ChunkedInv, NEW f \in File, NEW r \in Tab, MergeMoved(r, f)
    PROVE  /\ r \in Merging(f)
           /\ \A s \in Merging(f)' : s \in Merging(f) /\ (s # r => merge'[s] = merge[s])
           /\ \A s \in Merging(f) : s # r => s \in Merging(f)'
           /\ merge'[r].at # "idle" => r \in Merging(f)'
           /\ f \notin overlap => \A s \in Merging(f) : s = r
           /\ \A g \in File : g # f =>
                \A s \in Tab : merge'[s] = merge[s] \/ (merge[s].file # g /\ merge'[s].file # g)
BY ChunkedUploadAssumption DEF ChunkedInv, FileIsRight, MergeIsRight, MergeMoved, Merging

\* An upload is reserved: a row is inserted or resumed.
LEMMA ReserveKeeps ==
    ASSUME ChunkedInv, NEW c \in Content, Reserve(c)
    PROVE  ChunkedInv'
<1>1. ChunkedTypes /\ UNCHANGED <<original, job, dir, temp, writing, merge, overlap, orphan>>
  BY DEF ChunkedInv, Reserve, disk, history
<1>2. PICK f \in File : /\ row' = [row EXCEPT ![f] = Uploading(c)]
                        /\ ~row[f].key /\ row[f].st \in {"uploading", "failed", "unused"}
  <2>1. ASSUME NEW f \in File, row[f].st = "unused"
        PROVE  ~row[f].key
    BY <2>1 DEF ChunkedInv, FileIsRight, RowIsRight, Absent
  <2> QED BY <2>1 DEF Reserve, Claimed, Resumable
<1>3. Uploading(c) \in FileRow /\ Uploading(c).st = "uploading" /\ Uploading(c).content = c
      /\ Uploading(c).key = FALSE
  BY ChunkedUploadAssumption DEF Uploading, FileRow, Status
<1>4. row' \in [File -> FileRow] /\ row'[f] = Uploading(c)
      /\ \A g \in File : g # f => row'[g] = row[g]
  BY <1>1, <1>2, <1>3 DEF ChunkedTypes
<1>5. ChunkedTypes' /\ MergesHaveFiles'
  BY <1>1, <1>4 DEF ChunkedTypes, ChunkedInv, MergesHaveFiles
<1>6. \A g \in File : g # f => Untouched(g)
  BY <1>1, <1>4 DEF Untouched
<1>7. FileIsRight(f)'
  <2>1. FileIsRight(f) /\ f \notin job /\ Merging(f)' = Merging(f)
    BY <1>1, <1>2 DEF ChunkedInv, FileIsRight, RowIsRight, Merging
  <2>2. RowIsRight(f)'
    BY <1>1, <1>3, <1>4, <2>1 DEF RowIsRight, Absent
  <2>3. MergeIsRight(f)'
    BY <1>1, <1>2, <1>3, <1>4, <2>1 DEF MergeIsRight, FileIsRight
  <2>4. StoredIsRight(f)'
    BY <1>1, <1>2, <1>3, <1>4, <2>1 DEF StoredIsRight, FileIsRight
  <2> QED BY <2>2, <2>3, <2>4 DEF FileIsRight
<1> QED BY <1>5, <1>6, <1>7, OneFileKeeps

\* The chunks are no concern of the row, and no merge believes them.
LEMMA ChunksKeep ==
    ASSUME ChunkedInv, NEW f \in File, BeginChunk(f) \/ WriteChunk(f)
    PROVE  ChunkedInv'
<1>1. ChunkedTypes /\ UNCHANGED <<row, original, job, temp, merge, overlap, orphan>>
  BY DEF ChunkedInv, BeginChunk, WriteChunk, fileRows, disk, history
<1>2. dir' \in [File -> {"absent", "partial", "torn", "whole"}] /\ writing' \subseteq File
  BY <1>1 DEF ChunkedTypes, BeginChunk, WriteChunk, disk
<1>3. ChunkedTypes' /\ MergesHaveFiles'
  BY <1>1, <1>2 DEF ChunkedTypes, ChunkedInv, MergesHaveFiles
<1>4. \A g \in File : Untouched(g)
  BY <1>1 DEF Untouched
<1> QED BY <1>3, <1>4, UntouchedStaysRight DEF ChunkedInv

\* A merge begins; if another one runs, the file is one of those that may go wrong.
LEMMA BeginMergeKeeps ==
    ASSUME ChunkedInv, NEW r \in Tab, NEW f \in File, BeginMerge(r, f)
    PROVE  ChunkedInv'
<1>1. ChunkedTypes /\ MergesHaveFiles /\ FileIsRight(f)
      /\ UNCHANGED <<row, original, job, dir, temp, writing, orphan>>
      /\ row[f].st = "uploading" /\ merge[r].at = "idle"
  BY DEF ChunkedInv, BeginMerge, fileRows, disk, MergesAt
<1>2. /\ merge' \in [Tab -> MergeRow] /\ merge'[r].at = "open" /\ merge'[r].file = f
      /\ \A s \in Tab : s # r => merge'[s] = merge[s]
  BY <1>1 DEF BeginMerge, ChunkedTypes, MergeRow, MergeSteps
<1>3. merge[r].file = None /\ f # None
  BY <1>1, ChunkedUploadAssumption DEF MergesHaveFiles
<1>4. overlap' = IF Merging(f) = {} THEN overlap ELSE overlap \cup {f}
  BY DEF BeginMerge
<1>5. ChunkedTypes' /\ MergesHaveFiles'
  BY <1>1, <1>2, <1>3, <1>4 DEF ChunkedTypes, MergesHaveFiles
<1>6. ASSUME NEW g \in File, g # f
      PROVE  Untouched(g)
  <2>1. g # None
    BY ChunkedUploadAssumption
  <2> QED BY <1>1, <1>2, <1>3, <1>4, <1>6, <2>1 DEF Untouched
<1>7. Merging(f)' = Merging(f) \cup {r}
  BY <1>1, <1>2, <1>3 DEF Merging
<1>8. RowIsRight(f)'
  BY <1>1 DEF FileIsRight, RowIsRight
<1>9. MergeIsRight(f)'
  <2>1. \A s \in Merging(f)' : row'[f].st # "unused"
    BY <1>1
  <2>2. ASSUME f \notin overlap'
        PROVE  Merging(f)' = {r} /\ f \notin overlap
    BY <1>4, <1>7, <2>2
  <2>3. ~row'[f].key
    BY <1>1 DEF FileIsRight, RowIsRight
  <2> QED BY <1>2, <2>1, <2>2, <2>3 DEF MergeIsRight
<1>10. StoredIsRight(f)'
  <2>1. ~row[f].key
    BY <1>1 DEF FileIsRight, RowIsRight
  <2>2. \A s \in Merging(f) : s # r
    BY <1>1 DEF Merging
  <2>3. \A s \in Merging(f) : s \in Tab
    BY DEF Merging
  <2> QED BY <1>1, <1>2, <1>7, <2>1, <2>2, <2>3 DEF FileIsRight, StoredIsRight
<1> QED BY <1>5, <1>6, <1>8, <1>9, <1>10, OneFileKeeps DEF FileIsRight

\* What the merge r of f has learnt.
Learnt(r, f) ==
    /\ merge[r].at \in {"open", "copy", "check", "store", "publish", "reject", "fail"}
         => ~row[f].key
    /\ merge[r].at = "store" => temp[f].is = "good"
    /\ merge[r].at \in {"publish", "clean", "late"}
         => original[f] = "good" \/ row[f].st \in {"deleting", "gone"}

\* What a merge has learnt holds unless another one ran at once.
LEMMA WhatIsLearnt ==
    ASSUME ChunkedInv, NEW f \in File \ overlap, NEW r \in Merging(f)
    PROVE  Learnt(r, f)
BY DEF ChunkedInv, FileIsRight, MergeIsRight, Learnt

\* A step of a merge that touches its file only.
LEMMA MergeStepKeeps ==
    ASSUME ChunkedInv, NEW f \in File, NEW r \in Tab, MergeMoved(r, f), ChunkedTypes',
           \A g \in File : g # f =>
              /\ row'[g] = row[g] /\ original'[g] = original[g] /\ temp'[g] = temp[g]
              /\ g \in job' <=> g \in job
              /\ g \in orphan' <=> g \in orphan,
           overlap' = overlap, row'[f].st = "unused" => row[f].st = "unused",
           f \notin overlap /\ merge'[r].at # "idle" => Learnt(r, f)',
           RowIsRight(f)', StoredIsRight(f)'
    PROVE  ChunkedInv'
<1>1. MergesHaveFiles'
  BY DEF MergeMoved
<1>2. \A g \in File : g # f => Untouched(g)
  BY MergingAfter DEF Untouched
<1>3. MergeIsRight(f)'
  <2>1. \A s \in Merging(f)' : s \in Merging(f)
    BY MergingAfter
  <2>2. \A s \in Merging(f)' : row'[f].st # "unused"
    BY <2>1 DEF ChunkedInv, FileIsRight, MergeIsRight
  <2>3. ASSUME f \notin overlap
        PROVE  /\ \A s \in Merging(f)' : s = r
               /\ r \in Merging(f)' => Learnt(r, f)'
    <3>1. \A s \in Merging(f) : s = r
      BY <2>3, MergingAfter
    <3> QED BY <2>1, <2>3, <3>1 DEF Merging
  <2> QED BY <2>2, <2>3 DEF MergeIsRight, Learnt
<1> QED BY <1>1, <1>2, <1>3, OneFileKeeps DEF FileIsRight

\* One that touches the disk only.
LEMMA DiskStepKeeps ==
    ASSUME ChunkedInv, NEW f \in File, NEW r \in Tab, MergeMoved(r, f),
           UNCHANGED <<row, original, job, writing, overlap, orphan>>,
           merge[r].at \notin {"publish", "late"},
           dir' \in [File -> {"absent", "partial", "torn", "whole"}],
           temp' \in [File -> TempRow], \A g \in File : g # f => temp'[g] = temp[g],
           f \notin overlap /\ merge'[r].at # "idle" => Learnt(r, f)'
    PROVE  ChunkedInv'
<1>1. ChunkedTypes' /\ FileIsRight(f)
  BY DEF ChunkedInv, ChunkedTypes, MergeMoved
<1>2. RowIsRight(f)'
  BY <1>1 DEF FileIsRight, RowIsRight
<1>3. StoredIsRight(f)'
  <2>1. ASSUME NEW s \in Merging(f), merge[s].at \in {"publish", "late"}
        PROVE  s \in Merging(f)' /\ merge'[s].at \in {"publish", "late"}
    BY <2>1, MergingAfter
  <2> QED BY <1>1, <2>1 DEF FileIsRight, StoredIsRight
<1> QED BY <1>1, <1>2, <1>3, MergeStepKeeps

\* The steps of a merge that touch the disk only.
LEMMA DiskSteps ==
    ASSUME ChunkedInv, NEW r \in Tab, OpenTemp(r) \/ Copy(r) \/ Verify(r) \/ CleanUp(r) \/ Reject(r)
    PROVE  ChunkedInv'
<1>1. ChunkedTypes /\ MergesHaveFiles /\ UNCHANGED <<row, original, job, writing, overlap, orphan>>
      /\ merge[r].at \in {"open", "copy", "check", "clean", "reject"}
  BY DEF ChunkedInv, OpenTemp, Copy, Verify, CleanUp, Reject, fileRows, history, MergesAt
<1>2. PICK f \in File : f = TargetOf(r) /\ r \in Merging(f) /\ merge[r].file = f
  BY <1>1, MergeMoves DEF MergesAt, TargetOf
<1>3. (f \notin overlap => Learnt(r, f)) /\ temp[f] \in TempRow
  BY <1>1, <1>2, WhatIsLearnt DEF ChunkedTypes
<1>4. ASSUME NEW at \in MergeSteps \ {"idle"}, Next1(r, at)
      PROVE  MergeMoved(r, f) /\ merge'[r].at = at
  <2>1. merge' \in [Tab -> MergeRow] /\ MergesHaveFiles' /\ merge'[r].at = at /\ merge'[r].file = f
        /\ \A s \in Tab : s # r => merge'[s] = merge[s]
    BY <1>1, <1>2, <1>4, MergeMoves DEF MergesAt
  <2> QED BY <1>1, <1>2, <1>4, <2>1 DEF MergeMoved
<1>5. ASSUME MergeEnds(r)
      PROVE  MergeMoved(r, f) /\ merge'[r].at = "idle"
  <2>1. merge' \in [Tab -> MergeRow] /\ MergesHaveFiles' /\ merge'[r].at = "idle" /\ merge'[r].file = None
        /\ \A s \in Tab : s # r => merge'[s] = merge[s]
    BY <1>1, <1>2, <1>5, MergeMoves DEF MergesAt
  <2> QED BY <1>1, <1>2, <2>1 DEF MergeMoved
<1>6. NoTemp \in TempRow /\ [is |-> "cut", last |-> r] \in TempRow
      /\ \A is \in {"good", "bad", "cut", "absent"} : [temp[f] EXCEPT !.is = is] \in TempRow
                                           /\ [temp[f] EXCEPT !.is = is].is = is
  BY <1>3 DEF NoTemp, TempRow
<1>7. CASE OpenTemp(r)
  <2>1. MergeMoved(r, f) /\ merge'[r].at = "copy"
    BY <1>4, <1>7 DEF OpenTemp, MergeSteps
  <2>2. /\ temp' \in [File -> TempRow] /\ \A g \in File : g # f => temp'[g] = temp[g]
        /\ dir' \in [File -> {"absent", "partial", "torn", "whole"}]
    BY <1>1, <1>2, <1>6, <1>7 DEF OpenTemp, ChunkedTypes
  <2>3. f \notin overlap => Learnt(r, f)'
    BY <1>1, <1>2, <1>3, <1>7, <2>1 DEF Learnt, OpenTemp, MergesAt
  <2> QED BY <1>1, <1>2, <2>1, <2>2, <2>3, DiskStepKeeps
<1>8. CASE Copy(r)
  <2>1. \/ MergeMoved(r, f) /\ merge'[r].at = "check"
        \/ MergeMoved(r, f) /\ merge'[r].at = "idle"
    BY <1>4, <1>5, <1>8 DEF Copy, MergeSteps
  <2>2. PICK is \in {"good", "bad", "cut", "absent"} :
           temp' = temp \/ temp' = [temp EXCEPT ![f].is = is]
    BY <1>2, <1>3, <1>8 DEF Copy, TempRow
  <2>3. /\ temp' \in [File -> TempRow] /\ \A g \in File : g # f => temp'[g] = temp[g]
        /\ dir' \in [File -> {"absent", "partial", "torn", "whole"}]
    <3>1. temp' = temp \/ temp' = [temp EXCEPT ![f] = [temp[f] EXCEPT !.is = is]]
      BY <2>2
    <3>2. [temp[f] EXCEPT !.is = is] \in TempRow
      BY <1>6
    <3> QED BY <1>1, <1>2, <1>8, <3>1, <3>2 DEF Copy, ChunkedTypes
  <2>4. f \notin overlap /\ merge'[r].at # "idle" => Learnt(r, f)'
    BY <1>1, <1>2, <1>3, <1>8, <2>1 DEF Learnt, Copy, MergesAt
  <2> QED BY <1>1, <1>2, <2>1, <2>3, <2>4, DiskStepKeeps
<1>9. CASE Verify(r)
  <2>1. \/ MergeMoved(r, f) /\ merge'[r].at = "idle"
        \/ MergeMoved(r, f) /\ merge'[r].at = "store" /\ temp[f].is = "good"
        \/ MergeMoved(r, f) /\ merge'[r].at = "reject"
    BY <1>2, <1>4, <1>5, <1>9 DEF Verify, MergeSteps
  <2>2. temp' = temp /\ dir' = dir
    BY <1>9 DEF Verify, disk
  <2>3. f \notin overlap /\ merge'[r].at # "idle" => Learnt(r, f)'
    BY <1>1, <1>2, <1>3, <1>9, <2>1, <2>2 DEF Learnt, Verify, MergesAt
  <2>4. temp \in [File -> TempRow] /\ dir \in [File -> {"absent", "partial", "torn", "whole"}]
    BY <1>1 DEF ChunkedTypes
  <2> QED BY <1>1, <1>2, <2>1, <2>2, <2>3, <2>4, DiskStepKeeps
<1>10. CASE CleanUp(r)
  <2>1. \/ MergeMoved(r, f) /\ merge'[r].at = "idle"
        \/ MergeMoved(r, f) /\ merge'[r].at = "late"
    BY <1>4, <1>5, <1>10 DEF CleanUp, MergeSteps
  <2>2. /\ temp' \in [File -> TempRow] /\ \A g \in File : g # f => temp'[g] = temp[g]
        /\ dir' \in [File -> {"absent", "partial", "torn", "whole"}]
    BY <1>1, <1>2, <1>6, <1>10 DEF CleanUp, ChunkedTypes, disk
  <2>3. f \notin overlap /\ merge'[r].at # "idle" => Learnt(r, f)'
    BY <1>1, <1>2, <1>3, <1>10, <2>1 DEF Learnt, CleanUp, MergesAt
  <2>4. merge[r].at = "clean"
    BY <1>10 DEF CleanUp, MergesAt
  <2> QED BY <1>1, <1>2, <2>1, <2>2, <2>3, <2>4, DiskStepKeeps
<1>11. CASE Reject(r)
  <2>1. MergeMoved(r, f) /\ merge'[r].at = "fail"
    BY <1>4, <1>11 DEF Reject, MergeSteps
  <2>2. /\ temp' \in [File -> TempRow] /\ \A g \in File : g # f => temp'[g] = temp[g]
        /\ dir' \in [File -> {"absent", "partial", "torn", "whole"}]
    BY <1>1, <1>2, <1>6, <1>11 DEF Reject, ChunkedTypes
  <2>3. f \notin overlap => Learnt(r, f)'
    BY <1>1, <1>2, <1>3, <1>11, <2>1 DEF Learnt, Reject, MergesAt
  <2> QED BY <1>1, <1>2, <2>1, <2>2, <2>3, DiskStepKeeps
<1> QED BY <1>7, <1>8, <1>9, <1>10, <1>11

\* updateFile gives a file its object, or queues its cleanup again.
LEMMA Recorded ==
    ASSUME ChunkedTypes, NEW f \in File, NEW st \in {"pending", "failed"}, RowIsRight(f),
           row[f].st # "unused", Record(f, st)
    PROVE  /\ row' \in [File -> FileRow] /\ job' \subseteq File
           /\ \A g \in File : g # f => row'[g] = row[g] /\ (g \in job' <=> g \in job)
           /\ \/ row[f].st \in {"deleting", "gone"} /\ row' = row /\ job' = job \cup {f}
              \/ /\ row[f].st \notin {"deleting", "gone", "unused"} /\ job' = job /\ f \notin job
                 /\ row'[f].st = st /\ row'[f].key = TRUE /\ row'[f].reserved = 0
                 /\ row'[f].content \in Content /\ row'[f].storage = Size[row'[f].content]
<1>1. row \in [File -> FileRow] /\ row[f] \in FileRow /\ job \subseteq File
  BY DEF ChunkedTypes
<1>2. CASE row[f].st \in Absent \cup {"deleting"}
  BY <1>1, <1>2 DEF Record, Absent
<1>3. CASE row[f].st \notin Absent \cup {"deleting"}
  <2> DEFINE bytes == Size[row[f].content]
             x == [row[f] EXCEPT !.st = st, !.key = TRUE, !.reserved = 0, !.storage = bytes]
  <2>1. row[f].content \in Content
    BY <1>3 DEF RowIsRight
  <2>2. bytes \in Nat /\ st \in Status /\ TRUE \in BOOLEAN /\ 0 \in Nat
    BY <2>1, ChunkedUploadAssumption DEF Status
  <2>3. x \in FileRow
    <3> HIDE DEF bytes
    <3> QED BY <1>1, <2>2, RowWrites, Zenon
  <2>4. /\ x.st = st /\ x.key = TRUE /\ x.reserved = 0
        /\ x.content = row[f].content /\ x.storage = bytes
    BY <1>1 DEF FileRow
  <2>5. row' = [row EXCEPT ![f] = x] /\ job' = job
    BY <1>1, <1>3 DEF Record
  <2>6. row' \in [File -> FileRow] /\ row'[f] = x /\ \A g \in File : g # f => row'[g] = row[g]
    <3> HIDE DEF x
    <3> QED BY <1>1, <2>3, <2>5
  <2>7. f \notin job
    BY <1>3 DEF RowIsRight, Absent
  <2> QED BY <1>1, <1>3, <2>1, <2>4, <2>5, <2>6, <2>7 DEF Absent
<1> QED BY <1>2, <1>3

\* The merge r works on f: what its steps start from, and how it moves.
MergesFile(r, f) ==
    /\ f = TargetOf(r) /\ r \in Merging(f) /\ merge[r].file = f
    /\ f \notin overlap => Learnt(r, f)
    /\ RowIsRight(f) /\ StoredIsRight(f) /\ row[f].st # "unused"
    /\ \A at \in MergeSteps \ {"idle"} :
          Next1(r, at) => MergeMoved(r, f) /\ merge'[r].at = at
    /\ MergeEnds(r) => MergeMoved(r, f) /\ merge'[r].at = "idle"

\* Every request that merges works on a file.
LEMMA MergeStarts ==
    ASSUME ChunkedInv, NEW r \in Tab, ~MergesAt(r, "idle")
    PROVE  \E f \in File : MergesFile(r, f)
<1>1. ChunkedTypes /\ MergesHaveFiles /\ merge[r].at # "idle"
  BY DEF ChunkedInv, MergesAt
<1>2. PICK f \in File : f = TargetOf(r) /\ r \in Merging(f) /\ merge[r].file = f
  BY <1>1, MergeMoves DEF TargetOf
<1>3. f \notin overlap => Learnt(r, f)
  BY <1>2, WhatIsLearnt
<1>4. RowIsRight(f) /\ StoredIsRight(f) /\ row[f].st # "unused"
  BY <1>2 DEF ChunkedInv, FileIsRight, MergeIsRight
<1>5. ASSUME NEW at \in MergeSteps \ {"idle"}, Next1(r, at)
      PROVE  MergeMoved(r, f) /\ merge'[r].at = at
  <2>1. merge' \in [Tab -> MergeRow] /\ MergesHaveFiles' /\ merge'[r].at = at /\ merge'[r].file = f
        /\ \A s \in Tab : s # r => merge'[s] = merge[s]
    BY <1>1, <1>2, <1>5, MergeMoves
  <2> QED BY <1>1, <1>2, <1>5, <2>1 DEF MergeMoved
<1>6. ASSUME MergeEnds(r)
      PROVE  MergeMoved(r, f) /\ merge'[r].at = "idle"
  <2>1. merge' \in [Tab -> MergeRow] /\ MergesHaveFiles' /\ merge'[r].at = "idle" /\ merge'[r].file = None
        /\ \A s \in Tab : s # r => merge'[s] = merge[s]
    BY <1>1, <1>2, <1>6, MergeMoves
  <2> QED BY <1>1, <1>2, <2>1 DEF MergeMoved
<1> QED BY <1>2, <1>3, <1>4, <1>5, <1>6 DEF MergesFile

\* The temporary file becomes the object, as it is by now.
LEMMA StoreKeeps ==
    ASSUME ChunkedInv, NEW r \in Tab, Store(r)
    PROVE  ChunkedInv'
<1>1. ChunkedTypes /\ merge[r].at = "store" /\ UNCHANGED <<row, job, dir, temp, writing, overlap>>
  BY DEF ChunkedInv, Store, MergesAt, disk
<1>2. PICK f \in File : MergesFile(r, f)
  BY <1>1, MergeStarts DEF MergesAt
<1>3. PICK sent \in {"good", "bad"} :
         /\ sent = IF temp[f].is = "good" THEN "good" ELSE "bad"
         /\ \/ /\ original' = [original EXCEPT ![f] = sent] /\ orphan' = orphan
               /\ MergeMoved(r, f) /\ merge'[r].at = "publish"
            \/ /\ MergeMoved(r, f) /\ merge'[r].at = "idle"
               /\ \/ original' = original /\ orphan' = orphan
                  \/ /\ original' = [original EXCEPT ![f] = sent]
                     /\ orphan' = IF row[f].key THEN orphan ELSE orphan \cup {f}
  <2>1. "publish" \in MergeSteps \ {"idle"}
    BY DEF MergeSteps
  <2> QED BY <1>2, <2>1 DEF Store, MergesFile
<1>4. /\ original' \in [File -> {"none", "good", "bad"}] /\ orphan' \subseteq File
      /\ \A g \in File : g # f => original'[g] = original[g] /\ (g \in orphan' <=> g \in orphan)
      /\ original'[f] = original[f] \/ original'[f] = sent
  BY <1>1, <1>3 DEF ChunkedTypes
<1>5. ChunkedTypes'
  BY <1>1, <1>3, <1>4 DEF ChunkedTypes, MergeMoved
<1>6. f \notin overlap => sent = "good" /\ ~row[f].key
  BY <1>1, <1>2, <1>3 DEF Learnt, MergesFile
<1>7. f \notin overlap /\ merge'[r].at # "idle" => Learnt(r, f)'
  BY <1>1, <1>2, <1>3, <1>4, <1>6 DEF Learnt, ChunkedTypes, MergesFile
<1>8. RowIsRight(f)'
  BY <1>1, <1>2 DEF RowIsRight, MergesFile
<1>9. StoredIsRight(f)'
  <2>1. f \notin overlap => ~row'[f].key
    BY <1>1, <1>6
  <2>2. ASSUME f \notin orphan', original'[f] # "none"
        PROVE  \/ row'[f].key \/ f \in job'
               \/ \E s \in Merging(f)' : merge'[s].at \in {"publish", "late"}
    <3>1. CASE original' = original /\ orphan' = orphan
      <4>1. ASSUME NEW s \in Merging(f), merge[s].at \in {"publish", "late"}
            PROVE  s \in Merging(f)' /\ merge'[s].at \in {"publish", "late"}
        BY <1>1, <1>3, <4>1, MergingAfter
      <4> QED BY <1>1, <1>2, <2>2, <3>1, <4>1 DEF StoredIsRight, MergesFile
    <3>2. CASE merge'[r].at = "publish" /\ MergeMoved(r, f)
      BY <3>2, MergingAfter
    <3>3. CASE orphan' = IF row[f].key THEN orphan ELSE orphan \cup {f}
      BY <1>1, <2>2, <3>3
    <3> QED BY <1>3, <3>1, <3>2, <3>3
  <2> QED BY <1>1, <2>1, <2>2 DEF StoredIsRight
<1> QED BY <1>1, <1>3, <1>4, <1>5, <1>7, <1>8, <1>9, MergeStepKeeps

\* What is known of the object stays known when another merge than its own moves,
\* or when its merge was not about to make it known.
LEMMA StaysKnown ==
    ASSUME ChunkedInv, NEW f \in File, NEW r \in Tab, MergeMoved(r, f), f \notin orphan',
           orphan \subseteq orphan', original'[f] # "none" => original[f] # "none",
           row[f].key => row'[f].key, f \in job => f \in job',
           \/ merge[r].at \notin {"publish", "late"}
           \/ merge'[r].at \in {"publish", "late"}
           \/ row'[f].key \/ f \in job'
    PROVE  original'[f] # "none" => \/ row'[f].key \/ f \in job'
                                    \/ \E s \in Merging(f)' : merge'[s].at \in {"publish", "late"}
<1>1. StoredIsRight(f)
  BY DEF ChunkedInv, FileIsRight
<1>2. ASSUME NEW s \in Merging(f), s # r
      PROVE  s \in Merging(f)' /\ merge'[s] = merge[s]
  BY <1>2, MergingAfter
<1>3. merge'[r].at \in {"publish", "late"} => r \in Merging(f)'
  BY MergingAfter
<1> QED BY <1>1, <1>2, <1>3 DEF StoredIsRight

\* The object is recorded, or not, and the merge goes on to its end.
LEMMA PublishMergeKeeps ==
    ASSUME ChunkedInv, NEW r \in Tab, PublishMerge(r)
    PROVE  ChunkedInv'
<1>1. ChunkedTypes /\ merge[r].at = "publish"
      /\ UNCHANGED <<original, dir, temp, writing, overlap, orphan>>
  BY DEF ChunkedInv, PublishMerge, MergesAt, disk, history
<1>2. PICK f \in File : MergesFile(r, f)
  BY <1>1, MergeStarts DEF MergesAt
<1>3. /\ MergeMoved(r, f) /\ merge'[r].at \in {"clean", "late"}
      /\ \/ Record(f, "pending")
         \/ row' = row /\ job' = job /\ merge'[r].at = "late"
  BY <1>2 DEF PublishMerge, MergesFile, MergeSteps
<1>4. /\ row' \in [File -> FileRow] /\ job' \subseteq File
      /\ \A g \in File : g # f => row'[g] = row[g] /\ (g \in job' <=> g \in job)
      /\ \/ row[f].st \in {"deleting", "gone"} /\ row' = row /\ job' = job \cup {f}
         \/ /\ row[f].st \notin {"deleting", "gone", "unused"} /\ job' = job /\ f \notin job
            /\ row'[f].st = "pending" /\ row'[f].key = TRUE /\ row'[f].reserved = 0
            /\ row'[f].content \in Content /\ row'[f].storage = Size[row'[f].content]
         \/ row' = row /\ job' = job /\ merge'[r].at = "late"
  <2>1. CASE Record(f, "pending")
    BY <1>1, <1>2, <2>1, Recorded DEF MergesFile
  <2>2. CASE row' = row /\ job' = job /\ merge'[r].at = "late"
    BY <1>1, <2>2 DEF ChunkedTypes
  <2> QED BY <1>3, <2>1, <2>2
<1>5. ChunkedTypes'
  BY <1>1, <1>3, <1>4 DEF ChunkedTypes, MergeMoved
<1>6. f \notin overlap => original[f] = "good" \/ row[f].st \in {"deleting", "gone"}
  BY <1>1, <1>2 DEF MergesFile, Learnt
<1>7. f \notin overlap => Learnt(r, f)'
  BY <1>1, <1>3, <1>4, <1>6 DEF Learnt
<1>8. RowIsRight(f)'
  BY <1>1, <1>2, <1>4 DEF RowIsRight, MergesFile, Absent
<1>9. StoredIsRight(f)'
  <2>1. f \notin overlap' /\ row'[f].key /\ row'[f].st # "deleting" =>
           /\ original'[f] = "good"
           /\ row'[f].reserved = 0 /\ row'[f].storage = Size[row'[f].content]
    BY <1>1, <1>2, <1>4, <1>6 DEF MergesFile, StoredIsRight
  <2>2. ASSUME f \notin orphan'
        PROVE  original'[f] # "none" => \/ row'[f].key \/ f \in job'
                 \/ \E s \in Merging(f)' : merge'[s].at \in {"publish", "late"}
    <3>1. /\ row[f].key => row'[f].key
          /\ f \in job => f \in job'
          /\ merge'[r].at \in {"publish", "late"} \/ row'[f].key \/ f \in job'
      BY <1>3, <1>4
    <3> QED BY <1>1, <1>3, <2>2, <3>1, StaysKnown
  <2> QED BY <2>1, <2>2 DEF StoredIsRight
<1>10. row'[f].st = "unused" => row[f].st = "unused"
  BY <1>4
<1> QED BY <1>1, <1>3, <1>4, <1>5, <1>7, <1>8, <1>9, <1>10, MergeStepKeeps

\* A late failure records the object, or leaves one that nobody knows.
LEMMA FailLateKeeps ==
    ASSUME ChunkedInv, NEW r \in Tab, FailLate(r)
    PROVE  ChunkedInv'
<1>1. ChunkedTypes /\ merge[r].at = "late"
      /\ UNCHANGED <<original, dir, temp, writing, overlap>>
  BY DEF ChunkedInv, FailLate, MergesAt, disk
<1>2. PICK f \in File : MergesFile(r, f)
  BY <1>1, MergeStarts DEF MergesAt
<1>3. /\ MergeMoved(r, f) /\ merge'[r].at = "idle"
      /\ \/ Record(f, "failed") /\ orphan' = orphan
         \/ /\ row' = row /\ job' = job
            /\ orphan' = IF row[f].key \/ f \in job THEN orphan ELSE orphan \cup {f}
  BY <1>2 DEF FailLate, MergesFile
<1>4. /\ row' \in [File -> FileRow] /\ job' \subseteq File
      /\ \A g \in File : g # f => row'[g] = row[g] /\ (g \in job' <=> g \in job)
      /\ \/ row[f].st \in {"deleting", "gone"} /\ row' = row /\ job' = job \cup {f}
         \/ /\ row[f].st \notin {"deleting", "gone", "unused"} /\ job' = job /\ f \notin job
            /\ row'[f].st = "failed" /\ row'[f].key = TRUE /\ row'[f].reserved = 0
            /\ row'[f].content \in Content /\ row'[f].storage = Size[row'[f].content]
         \/ /\ row' = row /\ job' = job
            /\ orphan' = IF row[f].key \/ f \in job THEN orphan ELSE orphan \cup {f}
  <2>1. CASE Record(f, "failed")
    BY <1>1, <1>2, <2>1, Recorded DEF MergesFile
  <2>2. CASE /\ row' = row /\ job' = job
             /\ orphan' = IF row[f].key \/ f \in job THEN orphan ELSE orphan \cup {f}
    BY <1>1, <2>2 DEF ChunkedTypes
  <2> QED BY <1>3, <2>1, <2>2
<1>5. /\ orphan' \subseteq File /\ orphan \subseteq orphan'
      /\ \A g \in File : g # f => (g \in orphan' <=> g \in orphan)
  BY <1>1, <1>3 DEF ChunkedTypes
<1>6. ChunkedTypes'
  BY <1>1, <1>3, <1>4, <1>5 DEF ChunkedTypes, MergeMoved
<1>7. f \notin overlap => original[f] = "good" \/ row[f].st \in {"deleting", "gone"}
  BY <1>1, <1>2 DEF MergesFile, Learnt
<1>8. RowIsRight(f)'
  BY <1>1, <1>2, <1>4 DEF RowIsRight, MergesFile, Absent
<1>9. StoredIsRight(f)'
  <2>1. f \notin overlap' /\ row'[f].key /\ row'[f].st # "deleting" =>
           /\ original'[f] = "good"
           /\ row'[f].reserved = 0 /\ row'[f].storage = Size[row'[f].content]
    BY <1>1, <1>2, <1>4, <1>7 DEF MergesFile, StoredIsRight
  <2>2. ASSUME f \notin orphan'
        PROVE  original'[f] # "none" => \/ row'[f].key \/ f \in job'
                 \/ \E s \in Merging(f)' : merge'[s].at \in {"publish", "late"}
    <3>1. /\ row[f].key => row'[f].key
          /\ f \in job => f \in job'
          /\ row'[f].key \/ f \in job'
      BY <1>4, <2>2
    <3> QED BY <1>1, <1>3, <1>5, <2>2, <3>1, StaysKnown
  <2> QED BY <2>1, <2>2 DEF StoredIsRight
<1>10. row'[f].st = "unused" => row[f].st = "unused"
  BY <1>4
<1> QED BY <1>1, <1>3, <1>4, <1>5, <1>6, <1>8, <1>9, <1>10, MergeStepKeeps

\* A rejected merge gives the bytes of its file back.
LEMMA FailMergeKeeps ==
    ASSUME ChunkedInv, NEW r \in Tab, FailMerge(r)
    PROVE  ChunkedInv'
<1>1. ChunkedTypes /\ merge[r].at = "fail"
      /\ UNCHANGED <<original, job, dir, temp, writing, overlap, orphan>>
  BY DEF ChunkedInv, FailMerge, MergesAt, disk, history
<1>2. PICK f \in File : MergesFile(r, f)
  BY <1>1, MergeStarts DEF MergesAt
<1>3. MergeMoved(r, f) /\ merge'[r].at = "idle"
  BY <1>2 DEF FailMerge, MergesFile
<1> DEFINE x == [row[f] EXCEPT !.st = "failed", !.reserved = 0, !.storage = 0]
<1>4. \/ row' = row
      \/ row[f].st \notin Absent \cup {"deleting"} /\ row' = [row EXCEPT ![f] = x]
  BY <1>1, <1>2 DEF FailMerge, MergesFile, ChunkedTypes
<1>5. x \in FileRow /\ x.st = "failed" /\ x.content = row[f].content /\ x.key = row[f].key
  <2>1. row[f] \in FileRow /\ "failed" \in Status /\ 0 \in Nat
    BY <1>1 DEF ChunkedTypes, Status
  <2>2. x \in FileRow
    BY <2>1, RowWrites, Zenon
  <2> QED BY <2>1, <2>2 DEF FileRow
<1>6. /\ row' \in [File -> FileRow] /\ \A g \in File : g # f => row'[g] = row[g]
      /\ \/ row' = row
         \/ /\ row[f].st \notin Absent \cup {"deleting"}
            /\ row'[f].st = "failed" /\ row'[f].content = row[f].content
            /\ row'[f].key = row[f].key
  <2> HIDE DEF x
  <2> QED BY <1>1, <1>4, <1>5 DEF ChunkedTypes
<1>7. ChunkedTypes'
  BY <1>1, <1>3, <1>6 DEF ChunkedTypes, MergeMoved
<1>8. f \notin overlap => ~row[f].key
  BY <1>1, <1>2 DEF MergesFile, Learnt
<1>9. RowIsRight(f)'
  BY <1>1, <1>2, <1>6 DEF RowIsRight, MergesFile, Absent
<1>10. StoredIsRight(f)'
  <2>1. f \notin overlap' => ~row'[f].key
    BY <1>1, <1>6, <1>8
  <2>2. ASSUME f \notin orphan'
        PROVE  original'[f] # "none" => \/ row'[f].key \/ f \in job'
                 \/ \E s \in Merging(f)' : merge'[s].at \in {"publish", "late"}
    <3>1. row[f].key => row'[f].key
      BY <1>6
    <3> QED BY <1>1, <1>3, <2>2, <3>1, StaysKnown
  <2> QED BY <2>1, <2>2 DEF StoredIsRight
<1>11. row'[f].st = "unused" => row[f].st = "unused"
  BY <1>6
<1> QED BY <1>1, <1>3, <1>6, <1>7, <1>9, <1>10, <1>11, MergeStepKeeps

\* The server dies: what only the merge knew of is an orphan.
LEMMA MergeDiesKeeps ==
    ASSUME ChunkedInv, NEW r \in Tab, MergeDies(r)
    PROVE  ChunkedInv'
<1>1. ChunkedTypes /\ ~MergesAt(r, "idle")
      /\ UNCHANGED <<row, original, job, dir, temp, writing, overlap>>
  BY DEF ChunkedInv, MergeDies, disk, fileRows
<1>2. PICK f \in File : MergesFile(r, f)
  BY <1>1, MergeStarts
<1>3. /\ MergeMoved(r, f) /\ merge'[r].at = "idle"
      /\ orphan' = IF merge[r].at \in {"publish", "late"} /\ ~row[f].key /\ f \notin job
                   THEN orphan \cup {f} ELSE orphan
  BY <1>2 DEF MergeDies, MergesFile
<1>4. /\ orphan' \subseteq File /\ orphan \subseteq orphan'
      /\ \A g \in File : g # f => (g \in orphan' <=> g \in orphan)
  BY <1>1, <1>3 DEF ChunkedTypes
<1>5. ChunkedTypes'
  BY <1>1, <1>3, <1>4 DEF ChunkedTypes, MergeMoved
<1>6. RowIsRight(f)'
  BY <1>1, <1>2 DEF RowIsRight, MergesFile
<1>7. StoredIsRight(f)'
  <2>1. ASSUME f \notin orphan'
        PROVE  original'[f] # "none" => \/ row'[f].key \/ f \in job'
                 \/ \E s \in Merging(f)' : merge'[s].at \in {"publish", "late"}
    <3>1. merge[r].at \notin {"publish", "late"} \/ row'[f].key \/ f \in job'
      BY <1>1, <1>3, <2>1
    <3> QED BY <1>1, <1>3, <1>4, <2>1, <3>1, StaysKnown
  <2> QED BY <1>1, <1>2, <2>1 DEF StoredIsRight, MergesFile
<1> QED BY <1>1, <1>3, <1>4, <1>5, <1>6, <1>7, MergeStepKeeps

\* What else happens to the row of a file while its merges stand still.
LEMMA RowStepKeeps ==
    ASSUME ChunkedInv, NEW f \in File, UNCHANGED <<dir, temp, writing, merge, overlap, orphan>>,
           row' \in [File -> FileRow], original' \in [File -> {"none", "good", "bad"}],
           job' \subseteq File,
           \A g \in File : g # f =>
              row'[g] = row[g] /\ original'[g] = original[g] /\ (g \in job' <=> g \in job),
           row'[f].st = "unused" => row[f].st = "unused",
           row'[f].key => row[f].key,
           \/ original'[f] = original[f] /\ (row[f].st \in {"deleting", "gone"} =>
                                               row'[f].st \in {"deleting", "gone"})
           \/ row'[f].st \in {"deleting", "gone"},
           RowIsRight(f)', StoredIsRight(f)'
    PROVE  ChunkedInv'
<1>1. ChunkedTypes' /\ MergesHaveFiles' /\ FileIsRight(f)
  BY DEF ChunkedInv, ChunkedTypes, MergesHaveFiles
<1>2. \A g \in File : g # f => Untouched(g)
  BY DEF Untouched
<1>3. MergeIsRight(f)'
  <2>1. Merging(f)' = Merging(f)
    BY DEF Merging
  <2> QED BY <1>1, <2>1 DEF FileIsRight, MergeIsRight
<1> QED BY <1>1, <1>2, <1>3, OneFileKeeps DEF FileIsRight

\* A statement that gives a row another status.
LEMMA StatusWrites ==
    ASSUME ChunkedTypes, NEW f \in File, NEW st \in Status, row' = [row EXCEPT ![f].st = st]
    PROVE  /\ row' \in [File -> FileRow] /\ \A g \in File : g # f => row'[g] = row[g]
           /\ row'[f].st = st /\ row'[f].key = row[f].key /\ row'[f].content = row[f].content
           /\ row'[f].reserved = row[f].reserved /\ row'[f].storage = row[f].storage
<1> DEFINE x == [row[f] EXCEPT !.st = st]
<1>1. row \in [File -> FileRow] /\ row[f] \in FileRow
  BY DEF ChunkedTypes
<1>2. row' = [row EXCEPT ![f] = x]
  BY <1>1
<1>3. x \in FileRow
  <2>1. TRUE \in BOOLEAN /\ 0 \in Nat
    OBVIOUS
  <2> QED BY <1>1, <2>1, RowWrites, Zenon
<1>4. /\ x.st = st /\ x.key = row[f].key /\ x.content = row[f].content
      /\ x.reserved = row[f].reserved /\ x.storage = row[f].storage
  BY <1>1 DEF FileRow
<1> HIDE DEF x
<1> QED BY <1>1, <1>2, <1>3, <1>4

\* The ingestion, a retry and a deletion move the row.
LEMMA StatusSteps ==
    ASSUME ChunkedInv, NEW f \in File, Ingest(f) \/ Retry(f) \/ DeleteRow(f)
    PROVE  ChunkedInv'
<1>1. /\ ChunkedTypes /\ RowIsRight(f) /\ StoredIsRight(f)
      /\ UNCHANGED <<original, dir, temp, writing, merge, overlap, orphan>>
  BY DEF ChunkedInv, FileIsRight, Ingest, Retry, DeleteRow, OnlyRows, disk, history
<1>2. PICK st \in {"completed", "failed", "pending", "deleting"} :
         /\ row' = [row EXCEPT ![f].st = st] /\ row[f].st \notin Absent \cup {"deleting"}
         /\ \/ st # "deleting" /\ row[f].key /\ job' = job
            \/ st = "deleting" /\ job' = job \cup {f}
  BY DEF Ingest, Retry, DeleteRow, Absent
<1>3. st \in Status
  BY DEF Status
<1>4. /\ row' \in [File -> FileRow] /\ \A g \in File : g # f => row'[g] = row[g]
      /\ row'[f].st = st /\ row'[f].key = row[f].key /\ row'[f].content = row[f].content
      /\ row'[f].reserved = row[f].reserved /\ row'[f].storage = row[f].storage
  BY <1>1, <1>2, <1>3, StatusWrites
<1>5. /\ original \in [File -> {"none", "good", "bad"}] /\ job' \subseteq File
      /\ \A g \in File : g # f => (g \in job' <=> g \in job)
  BY <1>1, <1>2 DEF ChunkedTypes
<1>6. RowIsRight(f)'
  BY <1>1, <1>2, <1>4 DEF RowIsRight, Absent
<1>7. Merging(f)' = Merging(f)
  BY <1>1 DEF Merging
<1>8. StoredIsRight(f)'
  BY <1>1, <1>2, <1>4, <1>7 DEF StoredIsRight
<1>9. row'[f].st # "unused" /\ row[f].st \notin {"deleting", "gone"}
  BY <1>2, <1>4 DEF Absent
<1> QED BY <1>1, <1>4, <1>5, <1>6, <1>8, <1>9, RowStepKeeps

\* The cleanup job and the maintenance delete rows.
LEMMA DeletionSteps ==
    ASSUME ChunkedInv, NEW f \in File, FinishCleanup(f) \/ Abandon(f)
    PROVE  ChunkedInv'
<1> DEFINE x == [NoRow EXCEPT !.st = "gone"]
<1>1. /\ ChunkedTypes /\ RowIsRight(f) /\ StoredIsRight(f)
      /\ UNCHANGED <<dir, temp, writing, merge, overlap, orphan>>
  BY DEF ChunkedInv, FileIsRight, FinishCleanup, Abandon, OnlyRows, disk, history
<1>2. x \in FileRow /\ x.st = "gone" /\ x.key = FALSE
  BY DEF NoRow, FileRow, Status
<1>3. /\ row[f].st \in {"deleting", "gone", "uploading"}
      /\ \/ row' = row /\ row[f].st = "gone"
         \/ row' = [row EXCEPT ![f] = x]
      /\ \/ job' = job \ {f} /\ original' = [original EXCEPT ![f] = "none"]
         \/ job' = job /\ original' = original /\ ~row[f].key
  BY <1>1 DEF FinishCleanup, Abandon, NeedsBytes, RowIsRight, Absent
<1>4. /\ row' \in [File -> FileRow] /\ \A g \in File : g # f => row'[g] = row[g]
      /\ row'[f].st = "gone" /\ ~row'[f].key
  <2>1. row[f].st = "gone" => ~row[f].key
    BY <1>1 DEF RowIsRight, Absent
  <2> HIDE DEF x
  <2> QED BY <1>1, <1>2, <1>3, <2>1 DEF ChunkedTypes
<1>5. /\ original' \in [File -> {"none", "good", "bad"}] /\ job' \subseteq File
      /\ \A g \in File : g # f => original'[g] = original[g] /\ (g \in job' <=> g \in job)
      /\ \/ original'[f] = "none"
         \/ original'[f] = original[f] /\ job' = job /\ ~row[f].key
  BY <1>1, <1>3 DEF ChunkedTypes
<1>6. RowIsRight(f)'
  BY <1>4 DEF RowIsRight, Absent
<1>7. Merging(f)' = Merging(f)
  BY <1>1 DEF Merging
<1>8. StoredIsRight(f)'
  BY <1>1, <1>4, <1>5, <1>7 DEF StoredIsRight
<1> QED BY <1>1, <1>4, <1>5, <1>6, <1>8, RowStepKeeps

\* The maintenance removes what no request uses.
LEMMA SweepTempKeeps ==
    ASSUME ChunkedInv, NEW f \in File, SweepTemp(f)
    PROVE  ChunkedInv'
<1>1. /\ ChunkedTypes /\ FileIsRight(f) /\ Merging(f) = {}
      /\ UNCHANGED <<row, original, job, writing, merge, overlap, orphan>>
  BY DEF ChunkedInv, SweepTemp, fileRows, history
<1>2. NoTemp \in TempRow
  BY DEF NoTemp, TempRow
<1>3. /\ temp' \in [File -> TempRow] /\ \A g \in File : g # f => temp'[g] = temp[g]
      /\ dir' \in [File -> {"absent", "partial", "torn", "whole"}]
  BY <1>1, <1>2 DEF SweepTemp, ChunkedTypes
<1>4. ChunkedTypes' /\ MergesHaveFiles'
  BY <1>1, <1>3 DEF ChunkedInv, ChunkedTypes, MergesHaveFiles
<1>5. \A g \in File : g # f => Untouched(g)
  BY <1>1, <1>3 DEF Untouched
<1>6. FileIsRight(f)'
  <2>1. Merging(f)' = Merging(f)
    BY <1>1 DEF Merging
  <2>2. RowIsRight(f)' /\ StoredIsRight(f)'
    BY <1>1, <2>1 DEF FileIsRight, RowIsRight, StoredIsRight
  <2>3. MergeIsRight(f)'
    BY <1>1, <2>1 DEF MergeIsRight
  <2> QED BY <2>2, <2>3 DEF FileIsRight
<1> QED BY <1>4, <1>5, <1>6, OneFileKeeps

-----------------------------------------------------------------------------
\* The initial states satisfy the invariant.
LEMMA ChunkedStarts == ChunkedInit => ChunkedInv
<1> SUFFICES ASSUME ChunkedInit
             PROVE  ChunkedInv
  OBVIOUS
<1> USE DEF ChunkedInit
<1>1. NoRow \in FileRow /\ NoRow.st = "unused" /\ NoRow.key = FALSE
  BY DEF NoRow, FileRow, Status
<1>2. NoTemp \in TempRow /\ NoMerge \in MergeRow /\ NoMerge.at = "idle" /\ NoMerge.file = None
  BY DEF NoTemp, TempRow, NoMerge, MergeRow, MergeSteps
<1>3. ChunkedTypes /\ MergesHaveFiles
  BY <1>1, <1>2 DEF ChunkedTypes, MergesHaveFiles
<1>4. ASSUME NEW f \in File
      PROVE  FileIsRight(f)
  <2>1. Merging(f) = {}
    BY <1>2 DEF Merging
  <2> QED BY <1>1, <2>1 DEF FileIsRight, RowIsRight, MergeIsRight, StoredIsRight, Absent
<1> QED BY <1>3, <1>4 DEF ChunkedInv

\* Every step keeps it.
LEMMA ChunkedStep == ChunkedInv /\ [ChunkedNext]_chunkedVars => ChunkedInv'
<1> SUFFICES ASSUME ChunkedInv, [ChunkedNext]_chunkedVars
             PROVE  ChunkedInv'
  OBVIOUS
<1>1. CASE UploadWithChunks
  BY <1>1, ReserveKeeps, ChunksKeep, BeginMergeKeeps DEF UploadWithChunks, InitUpload
<1>2. ASSUME NEW r \in Tab, Merge(r)
      PROVE  ChunkedInv'
  BY <1>2, DiskSteps, StoreKeeps, PublishMergeKeeps, FailLateKeeps, FailMergeKeeps,
     MergeDiesKeeps DEF Merge
<1>3. ASSUME NEW f \in File, \/ Ingest(f) \/ Retry(f) \/ DeleteRow(f) \/ FinishCleanup(f)
                             \/ Abandon(f) \/ SweepTemp(f)
      PROVE  ChunkedInv'
  BY <1>3, StatusSteps, DeletionSteps, SweepTempKeeps
<1>4. CASE UNCHANGED chunkedVars
  <2>1. ChunkedTypes' /\ MergesHaveFiles'
    BY <1>4 DEF chunkedVars, ChunkedInv, ChunkedTypes, MergesHaveFiles
  <2>2. \A g \in File : Untouched(g)
    BY <1>4 DEF chunkedVars, Untouched
  <2> QED BY <2>1, <2>2, UntouchedStaysRight DEF ChunkedInv
<1> QED BY <1>1, <1>2, <1>3, <1>4 DEF ChunkedNext

\* ChunkedInv holds however the requests of the tabs meet, and whatever dies.
THEOREM ChunkedInvariant == ChunkedSpec => []ChunkedInv
<1>1. ChunkedInit => ChunkedInv
  BY ChunkedStarts
<1>2. ChunkedInv /\ [ChunkedNext]_chunkedVars => ChunkedInv'
  BY ChunkedStep
<1> QED BY <1>1, <1>2, PTL DEF ChunkedSpec

\* A published file has the verified bytes and is charged for them, and an
\* object is known to somebody, but for the exceptions the histories record,
\* and what checkFile says to be there has a key, is being deleted or has failed
\* (mergeChunks, updateFile, checkFile).
THEOREM ChunksStoredAsVerified == ChunkedSpec => []StoredAsVerified
<1>1. ChunkedInv => StoredAsVerified
  <2> SUFFICES ASSUME ChunkedInv PROVE StoredAsVerified
    OBVIOUS
  <2>1. ASSUME NEW c \in Content, SaysExists(c)
        PROVE  \E f \in Claimed(c) : row[f].key \/ row[f].st \in {"deleting", "failed"}
    <3>1. PICK f \in Claimed(c) : ~NeedsBytes(f)
      BY <2>1 DEF SaysExists
    <3>2. f \in File /\ row[f].st \notin Absent /\ RowIsRight(f)
      BY <3>1 DEF Claimed, ChunkedInv, FileIsRight
    <3>3. row[f].st \in Status
      BY <3>2 DEF ChunkedInv, ChunkedTypes, FileRow
    <3>4. row[f].key \/ row[f].st \in {"deleting", "failed"}
      BY <3>1, <3>2, <3>3 DEF NeedsBytes, RowIsRight, Status, Absent
    <3> QED BY <3>1, <3>4
  <2> QED BY <2>1, ChunkedRowsAreTyped DEF ChunkedInv, FileIsRight, StoredIsRight, StoredAsVerified
<1> QED BY <1>1, ChunkedInvariant, PTL

-----------------------------------------------------------------------------
(* Sums over finite sets, as MapThenSumSet computes them.                     *)

\* The element that a fold takes next.
Chosen(s) == CHOOSE x \in s : TRUE

\* g adds the values v of the subsets of t, one element after the other.
Unfolds(v, t, g) ==
    \A s \in SUBSET t : g[s] = IF s = {} THEN 0 ELSE v[Chosen(s)] + g[s \ {Chosen(s)}]

\* g has the sums of v, in numbers.
Sums(v, t, g) == g \in [SUBSET t -> Nat] /\ Unfolds(v, t, g)

SumsOf(v, t) == CHOOSE g : Sums(v, t, g)

\* Among subsets of a finite set one is least: what fails for a subset fails for
\* one all of whose parts it holds for.
LEMMA LeastSubset ==
    ASSUME NEW S, IsFiniteSet(S), NEW T, T \subseteq SUBSET S, T # {}
    PROVE  \E x \in T : \A y \in T : y \subseteq x => y = x
<1>1. T \subseteq FiniteSubsetsOf(S)
  BY FS_Subset DEF FiniteSubsetsOf
<1>2. \E x \in T : \A y \in T : ~(<<y, x>> \in StrictSubsetOrdering(S))
  BY <1>1, FS_StrictSubsetOrderingWellFounded, WFMin
<1>3. PICK x \in T : \A y \in T : ~(<<y, x>> \in StrictSubsetOrdering(S))
  BY <1>2
<1>4. \A y \in T : y \subseteq x => y = x
  BY <1>3 DEF StrictSubsetOrdering
<1> QED BY <1>4

\* What is taken is there.
LEMMA ChosenIs == ASSUME NEW s, s # {} PROVE Chosen(s) \in s
BY DEF Chosen

\* There is one way only to add up.
LEMMA OneSum ==
    ASSUME NEW S, IsFiniteSet(S), NEW v, NEW t \in SUBSET S, NEW u \in SUBSET S,
           NEW g, NEW h, Unfolds(v, t, g), Unfolds(v, u, h)
    PROVE  \A x \in SUBSET (t \cap u) : g[x] = h[x]
<1> DEFINE T == {x \in SUBSET (t \cap u) : g[x] # h[x]}
<1> SUFFICES ASSUME T # {} PROVE FALSE
  OBVIOUS
<1>1. T \subseteq SUBSET S
  OBVIOUS
<1>2. \E x \in T : \A y \in T : y \subseteq x => y = x
  <2> HIDE DEF T
  <2> QED BY <1>1, LeastSubset
<1>3. PICK x \in T : \A y \in T : y \subseteq x => y = x
  BY <1>2
<1>4. x # {}
  BY <1>3 DEF Unfolds
<1>5. PICK p : p = Chosen(x)
  OBVIOUS
<1>6. p \in x
  BY <1>4, <1>5, ChosenIs
<1>7. x \ {p} \subseteq x /\ x \ {p} # x /\ x \ {p} \in SUBSET (t \cap u)
  BY <1>6
<1>8. g[x \ {p}] = h[x \ {p}]
  BY <1>3, <1>7
<1>9. g[x] = v[p] + g[x \ {p}] /\ h[x] = v[p] + h[x \ {p}]
  BY <1>4, <1>5 DEF Unfolds
<1> QED BY <1>8, <1>9

\* There is one: the recursion of the fold has a solution.
LEMMA SumsThere ==
    ASSUME NEW S, IsFiniteSet(S), NEW v \in [S -> Nat]
    PROVE  \A t \in SUBSET S : Sums(v, t, SumsOf(v, t))
<1> DEFINE T == {t \in SUBSET S : ~ \E g : Sums(v, t, g)}
<1>1. T = {}
  <2> SUFFICES ASSUME T # {} PROVE FALSE
    OBVIOUS
  <2>1. T \subseteq SUBSET S
    OBVIOUS
  <2>2. \E t \in T : \A s \in T : s \subseteq t => s = t
    <3> HIDE DEF T
    <3> QED BY <2>1, LeastSubset
  <2>3. PICK t \in T : \A s \in T : s \subseteq t => s = t
    BY <2>2
  <2>4. \A s \in SUBSET t : s # t => Sums(v, s, SumsOf(v, s))
    <3> SUFFICES ASSUME NEW s \in SUBSET t, s # t PROVE Sums(v, s, SumsOf(v, s))
      OBVIOUS
    <3>1. \E g : Sums(v, s, g)
      BY <2>3
    <3> QED BY <3>1 DEF SumsOf
  <2>5. PICK k : k = [s \in SUBSET t |->
                        IF s = {} THEN 0
                        ELSE IF s = t THEN v[Chosen(t)] + SumsOf(v, t \ {Chosen(t)})[t \ {Chosen(t)}]
                        ELSE SumsOf(v, s)[s]]
    OBVIOUS
  <2>6. \A s \in SUBSET t : s # t => SumsOf(v, s)[s] \in Nat
    BY <2>4, ZenonT(60) DEF Sums, Unfolds
  <2>7. SumsOf(v, {})[{}] = 0 \/ t = {}
    <3> SUFFICES ASSUME t # {} PROVE SumsOf(v, {})[{}] = 0
      OBVIOUS
    <3>1. Sums(v, {}, SumsOf(v, {}))
      BY <2>4
    <3> QED BY <3>1 DEF Sums, Unfolds
  <2>8. \A s \in SUBSET t : s # t => k[s] = SumsOf(v, s)[s]
    BY <2>5, <2>7
  <2>9. t # {} => k[t] = v[Chosen(t)] + k[t \ {Chosen(t)}] /\ k[t] \in Nat
    <3> SUFFICES ASSUME t # {} PROVE k[t] = v[Chosen(t)] + k[t \ {Chosen(t)}] /\ k[t] \in Nat
      OBVIOUS
    <3>1. PICK p : p = Chosen(t)
      OBVIOUS
    <3>2. p \in t
      BY <3>1, ChosenIs
    <3>3. PICK r : r = t \ {p}
      OBVIOUS
    <3>4. r \in SUBSET t /\ r # t
      BY <3>2, <3>3
    <3>5. k[t] = v[p] + SumsOf(v, r)[r]
      BY <2>5, <3>1, <3>3
    <3>6. v[p] \in Nat /\ SumsOf(v, r)[r] \in Nat /\ k[r] = SumsOf(v, r)[r]
      BY <2>6, <2>8, <3>2, <3>4
    <3> QED BY <3>1, <3>3, <3>5, <3>6
  <2>10. k \in [SUBSET t -> Nat]
    <3>1. k[{}] = 0
      BY <2>5
    <3>2. ASSUME NEW s \in SUBSET t PROVE k[s] \in Nat
      <4>1. CASE s # t
        BY <2>6, <2>8, <4>1
      <4>2. CASE s = t
        <5>1. t = {} \/ k[t] \in Nat
          BY <2>9
        <5>2. t = {} => k[t] = 0
          BY <3>1
        <5> QED BY <4>2, <5>1, <5>2
      <4> QED BY <4>1, <4>2
    <3> QED BY <2>5, <3>2
  <2>11. ASSUME NEW s \in SUBSET t, s # {}, s # t
         PROVE  k[s] = v[Chosen(s)] + k[s \ {Chosen(s)}]
    <3>1. PICK p : p = Chosen(s)
      OBVIOUS
    <3>2. p \in s
      BY <2>11, <3>1, ChosenIs
    <3>3. PICK r : r = s \ {p}
      OBVIOUS
    <3>4. r \in SUBSET s /\ r \in SUBSET t /\ r # t
      BY <2>11, <3>2, <3>3
    <3>5. SumsOf(v, s)[s] = v[p] + SumsOf(v, s)[r]
      BY <2>4, <2>11, <3>1, <3>3 DEF Sums, Unfolds
    <3>6. SumsOf(v, s)[r] = SumsOf(v, r)[r]
      <4>1. Sums(v, s, SumsOf(v, s)) /\ Sums(v, r, SumsOf(v, r))
        BY <2>4, <2>11, <3>4
      <4>2. s \in SUBSET S /\ r \in SUBSET S
        BY <3>4
      <4>3. \A x \in SUBSET (s \cap r) : SumsOf(v, s)[x] = SumsOf(v, r)[x]
        <5>1. Unfolds(v, s, SumsOf(v, s)) /\ Unfolds(v, r, SumsOf(v, r))
          BY <4>1 DEF Sums
        <5> QED BY <4>2, <5>1, OneSum
      <4> QED BY <3>4, <4>3
    <3>7. k[s] = SumsOf(v, s)[s] /\ k[r] = SumsOf(v, r)[r]
      BY <2>8, <2>11, <3>4
    <3> QED BY <3>1, <3>3, <3>5, <3>6, <3>7
  <2>12. Sums(v, t, k)
    <3>1. \A s \in SUBSET t : k[s] = IF s = {} THEN 0 ELSE v[Chosen(s)] + k[s \ {Chosen(s)}]
      BY <2>5, <2>9, <2>11
    <3> QED BY <2>10, <3>1 DEF Sums, Unfolds
  <2> QED BY <2>3, <2>12
<1>2. ASSUME NEW t \in SUBSET S PROVE Sums(v, t, SumsOf(v, t))
  <2>1. \E g : Sums(v, t, g)
    BY <1>1
  <2> QED BY <2>1 DEF SumsOf
<1> QED BY <1>2

\* The sum does not depend on the order: any element may be taken first.
LEMMA SumWithout ==
    ASSUME NEW S, IsFiniteSet(S), NEW v \in [S -> Nat], NEW g, Sums(v, S, g)
    PROVE  \A s \in SUBSET S : \A x \in s : g[s] = v[x] + g[s \ {x}]
<1> DEFINE T == {s \in SUBSET S : \E x \in s : g[s] # v[x] + g[s \ {x}]}
<1> SUFFICES ASSUME T # {} PROVE FALSE
  OBVIOUS
<1>1. T \subseteq SUBSET S
  OBVIOUS
<1>2. \E s \in T : \A y \in T : y \subseteq s => y = s
  <2> HIDE DEF T
  <2> QED BY <1>1, LeastSubset
<1>3. PICK s \in T : \A y \in T : y \subseteq s => y = s
  BY <1>2
<1>4. PICK x \in s : g[s] # v[x] + g[s \ {x}]
  BY <1>3
<1>5. PICK p : p = Chosen(s)
  OBVIOUS
<1>6. p \in s /\ g[s] = v[p] + g[s \ {p}]
  BY <1>3, <1>4, <1>5, ChosenIs DEF Sums, Unfolds
<1>7. x # p
  BY <1>4, <1>6
<1>8. PICK r : r = (s \ {p}) \ {x}
  OBVIOUS
<1>9. r = (s \ {x}) \ {p}
  BY <1>8
<1>10. s \ {p} \in SUBSET S /\ s \ {x} \in SUBSET S /\ r \in SUBSET S
  BY <1>3, <1>8
<1>11. g[s \ {p}] = v[x] + g[r]
  <2>1. s \ {p} \notin T
    BY <1>3, <1>6
  <2>2. x \in s \ {p}
    BY <1>7
  <2> QED BY <1>8, <1>10, <2>1, <2>2
<1>12. g[s \ {x}] = v[p] + g[r]
  <2>1. s \ {x} \notin T
    BY <1>3, <1>4
  <2>2. p \in s \ {x}
    BY <1>6, <1>7
  <2> QED BY <1>9, <1>10, <2>1, <2>2
<1>13. v[x] \in Nat /\ v[p] \in Nat /\ g[r] \in Nat
  BY <1>3, <1>6, <1>10 DEF Sums, Unfolds
<1> QED BY <1>4, <1>6, <1>11, <1>12, <1>13

\* Values that agree have equal sums.
LEMMA SameSum ==
    ASSUME NEW S, IsFiniteSet(S), NEW v, NEW w, NEW g, NEW h, Sums(v, S, g), Sums(w, S, h),
           NEW t \in SUBSET S, \A x \in t : v[x] = w[x]
    PROVE  g[t] = h[t]
<1> DEFINE T == {s \in SUBSET t : g[s] # h[s]}
<1> SUFFICES ASSUME T # {} PROVE FALSE
  OBVIOUS
<1>1. T \subseteq SUBSET S
  OBVIOUS
<1>2. \E s \in T : \A y \in T : y \subseteq s => y = s
  <2> HIDE DEF T
  <2> QED BY <1>1, LeastSubset
<1>3. PICK s \in T : \A y \in T : y \subseteq s => y = s
  BY <1>2
<1>4. s # {} /\ s \in SUBSET S
  BY <1>3 DEF Sums, Unfolds
<1>5. PICK p : p = Chosen(s)
  OBVIOUS
<1>6. p \in s
  BY <1>4, <1>5, ChosenIs
<1>7. g[s \ {p}] = h[s \ {p}]
  BY <1>3, <1>6
<1>8. g[s] = v[p] + g[s \ {p}] /\ h[s] = w[p] + h[s \ {p}]
  BY <1>4, <1>5 DEF Sums, Unfolds
<1>9. v[p] = w[p]
  BY <1>3, <1>6
<1> QED BY <1>3, <1>7, <1>8, <1>9

\* What a change of one value makes of the sum.
LEMMA SumChanges ==
    ASSUME NEW S, IsFiniteSet(S), NEW v \in [S -> Nat], NEW w \in [S -> Nat],
           NEW f \in S, \A x \in S : x # f => w[x] = v[x]
    PROVE  /\ SumsOf(v, S)[S] \in Nat /\ SumsOf(w, S)[S] \in Nat
           /\ SumsOf(w, S)[S] = (SumsOf(v, S)[S] + w[f]) - v[f]
<1>1. PICK g, h : g = SumsOf(v, S) /\ h = SumsOf(w, S)
  OBVIOUS
<1>2. Sums(v, S, g) /\ Sums(w, S, h)
  BY <1>1, SumsThere
<1>3. g[S] = v[f] + g[S \ {f}] /\ h[S] = w[f] + h[S \ {f}]
  BY <1>2, SumWithout
<1>4. g[S \ {f}] = h[S \ {f}]
  BY <1>2, SameSum
<1>5. g[S \ {f}] \in Nat /\ v[f] \in Nat /\ w[f] \in Nat
  BY <1>2 DEF Sums, Unfolds
<1> QED BY <1>1, <1>3, <1>4, <1>5

\* Nothing adds up to nothing.
LEMMA SumOfNothing ==
    ASSUME NEW S, IsFiniteSet(S), NEW v \in [S -> Nat], \A x \in S : v[x] = 0
    PROVE  SumsOf(v, S)[S] = 0
<1>1. PICK g : g = SumsOf(v, S)
  OBVIOUS
<1>2. Sums(v, S, g)
  BY <1>1, SumsThere
<1> DEFINE T == {s \in SUBSET S : g[s] # 0}
<1>3. T = {}
  <2> SUFFICES ASSUME T # {} PROVE FALSE
    OBVIOUS
  <2>1. T \subseteq SUBSET S
    OBVIOUS
  <2>2. \E s \in T : \A y \in T : y \subseteq s => y = s
    <3> HIDE DEF T
    <3> QED BY <2>1, LeastSubset
  <2>3. PICK s \in T : \A y \in T : y \subseteq s => y = s
    BY <2>2
  <2>4. s # {} /\ s \in SUBSET S
    BY <1>2, <2>3 DEF Sums, Unfolds
  <2>5. PICK p : p = Chosen(s)
    OBVIOUS
  <2>6. p \in s
    BY <2>4, <2>5, ChosenIs
  <2>7. g[s \ {p}] = 0
    BY <2>3, <2>6
  <2>8. g[s] = v[p] + g[s \ {p}]
    BY <1>2, <2>4, <2>5 DEF Sums, Unfolds
  <2> QED BY <2>3, <2>4, <2>6, <2>7, <2>8
<1> QED BY <1>1, <1>3

-----------------------------------------------------------------------------
(* The quotas. A step changes one row at most; what it charges fits, or is    *)
(* charged already.                                                          *)

\* What is reserved and stored, given the rows.
ReservedIn(x) == MapThenSumSet(LAMBDA f : x[f].reserved, File)
StoredIn(x) == MapThenSumSet(LAMBDA f : x[f].storage, File)

\* They are what the model compares with the quotas, before and after a step.
LEMMA SumsOfRows ==
    /\ Reserved(File) = ReservedIn(row) /\ Reserved(File)' = ReservedIn(row')
    /\ Stored(File) = StoredIn(row) /\ Stored(File)' = StoredIn(row')
BY DEF Reserved, ReservedIn, Stored, StoredIn, MapThenSumSet, MapThenFoldSet

\* Whatever solves the recursion of a fold has the sum.
LEMMA FoldIsSum ==
    ASSUME NEW v \in [File -> Nat], NEW g, Unfolds(v, File, g)
    PROVE  g[File] = SumsOf(v, File)[File]
<1>1. IsFiniteSet(File)
  BY ChunkedUploadAssumption
<1>2. Sums(v, File, SumsOf(v, File))
  BY <1>1, SumsThere
<1>3. Unfolds(v, File, SumsOf(v, File))
  BY <1>2 DEF Sums
<1>4. \A x \in SUBSET (File \cap File) : g[x] = SumsOf(v, File)[x]
  BY <1>1, <1>3, OneSum
<1> QED BY <1>4

\* What is reserved is a sum of that kind.
LEMMA ReservedIsSum ==
    ASSUME NEW x, \A f \in File : x[f].reserved \in Nat
    PROVE  ReservedIn(x) = SumsOf([f \in File |-> x[f].reserved], File)[File]
<1> DEFINE Body(g) == [s \in SUBSET File |->
                         IF s = {} THEN 0 ELSE x[Chosen(s)].reserved + g[s \ {Chosen(s)}]]
<1>1. ReservedIn(x) = (CHOOSE g : g = Body(g))[File]
  BY DEF ReservedIn, MapThenSumSet, MapThenFoldSet, Chosen
<1>2. PICK v : v = [f \in File |-> x[f].reserved]
  OBVIOUS
<1>3. v \in [File -> Nat] /\ IsFiniteSet(File) /\ \A s \in SUBSET File : s # {} => Chosen(s) \in File
  BY <1>2, ChosenIs, ChunkedUploadAssumption
<1>4. \E g : g = Body(g)
  <2>1. PICK g : g = SumsOf(v, File)
    OBVIOUS
  <2>2. Sums(v, File, g)
    BY <1>3, <2>1, SumsThere
  <2>3. \A s \in SUBSET File : g[s] = Body(g)[s]
    BY <1>2, <1>3, <2>2 DEF Sums, Unfolds
  <2>4. g = [s \in SUBSET File |-> g[s]]
    BY <2>2 DEF Sums
  <2>5. g = Body(g)
    BY <2>3, <2>4
  <2> QED BY <2>5
<1>5. PICK g : g = CHOOSE h : h = Body(h)
  OBVIOUS
<1>6. g = Body(g)
  <2> HIDE DEF Body
  <2> QED BY <1>4, <1>5
<1>7. Unfolds(v, File, g)
  <2>1. \A s \in SUBSET File :
          g[s] = IF s = {} THEN 0 ELSE x[Chosen(s)].reserved + g[s \ {Chosen(s)}]
    BY <1>6
  <2> QED BY <1>2, <1>3, <2>1 DEF Unfolds
<1>8. g[File] = SumsOf(v, File)[File]
  BY <1>3, <1>7, FoldIsSum
<1> QED BY <1>1, <1>2, <1>5, <1>8

\* And so is what is stored.
LEMMA StoredIsSum ==
    ASSUME NEW x, \A f \in File : x[f].storage \in Nat
    PROVE  StoredIn(x) = SumsOf([f \in File |-> x[f].storage], File)[File]
<1> DEFINE Body(g) == [s \in SUBSET File |->
                         IF s = {} THEN 0 ELSE x[Chosen(s)].storage + g[s \ {Chosen(s)}]]
<1>1. StoredIn(x) = (CHOOSE g : g = Body(g))[File]
  BY DEF StoredIn, MapThenSumSet, MapThenFoldSet, Chosen
<1>2. PICK v : v = [f \in File |-> x[f].storage]
  OBVIOUS
<1>3. v \in [File -> Nat] /\ IsFiniteSet(File) /\ \A s \in SUBSET File : s # {} => Chosen(s) \in File
  BY <1>2, ChosenIs, ChunkedUploadAssumption
<1>4. \E g : g = Body(g)
  <2>1. PICK g : g = SumsOf(v, File)
    OBVIOUS
  <2>2. Sums(v, File, g)
    BY <1>3, <2>1, SumsThere
  <2>3. \A s \in SUBSET File : g[s] = Body(g)[s]
    BY <1>2, <1>3, <2>2 DEF Sums, Unfolds
  <2>4. g = [s \in SUBSET File |-> g[s]]
    BY <2>2 DEF Sums
  <2>5. g = Body(g)
    BY <2>3, <2>4
  <2> QED BY <2>5
<1>5. PICK g : g = CHOOSE h : h = Body(h)
  OBVIOUS
<1>6. g = Body(g)
  <2> HIDE DEF Body
  <2> QED BY <1>4, <1>5
<1>7. Unfolds(v, File, g)
  <2>1. \A s \in SUBSET File :
          g[s] = IF s = {} THEN 0 ELSE x[Chosen(s)].storage + g[s \ {Chosen(s)}]
    BY <1>6
  <2> QED BY <1>2, <1>3, <2>1 DEF Unfolds
<1>8. g[File] = SumsOf(v, File)[File]
  BY <1>3, <1>7, FoldIsSum
<1> QED BY <1>1, <1>2, <1>5, <1>8

\* What a change of one row makes of the sums.
LEMMA RowsAddUp ==
    ASSUME NEW x \in [File -> FileRow], NEW y \in [File -> FileRow], NEW f \in File,
           \A g \in File : g # f => y[g] = x[g]
    PROVE  /\ ReservedIn(x) \in Nat /\ ReservedIn(y) \in Nat
           /\ StoredIn(x) \in Nat /\ StoredIn(y) \in Nat
           /\ ReservedIn(y) = (ReservedIn(x) + y[f].reserved) - x[f].reserved
           /\ StoredIn(y) = (StoredIn(x) + y[f].storage) - x[f].storage
<1>1. IsFiniteSet(File)
  BY ChunkedUploadAssumption
<1>2. \A g \in File : /\ x[g].reserved \in Nat /\ y[g].reserved \in Nat
                      /\ x[g].storage \in Nat /\ y[g].storage \in Nat
  BY DEF FileRow
<1>3. /\ ReservedIn(x) \in Nat /\ ReservedIn(y) \in Nat
      /\ ReservedIn(y) = (ReservedIn(x) + y[f].reserved) - x[f].reserved
  <2>1. PICK v, w : v = [g \in File |-> x[g].reserved] /\ w = [g \in File |-> y[g].reserved]
    OBVIOUS
  <2>2. /\ v \in [File -> Nat] /\ w \in [File -> Nat] /\ v[f] = x[f].reserved /\ w[f] = y[f].reserved
        /\ \A g \in File : g # f => w[g] = v[g]
    BY <1>2, <2>1
  <2>3. ReservedIn(x) = SumsOf(v, File)[File] /\ ReservedIn(y) = SumsOf(w, File)[File]
    BY <1>2, <2>1, ReservedIsSum
  <2>4. /\ SumsOf(v, File)[File] \in Nat /\ SumsOf(w, File)[File] \in Nat
        /\ SumsOf(w, File)[File] = (SumsOf(v, File)[File] + w[f]) - v[f]
    BY <1>1, <2>2, SumChanges
  <2> QED BY <2>2, <2>3, <2>4
<1>4. /\ StoredIn(x) \in Nat /\ StoredIn(y) \in Nat
      /\ StoredIn(y) = (StoredIn(x) + y[f].storage) - x[f].storage
  <2>1. PICK v, w : v = [g \in File |-> x[g].storage] /\ w = [g \in File |-> y[g].storage]
    OBVIOUS
  <2>2. /\ v \in [File -> Nat] /\ w \in [File -> Nat] /\ v[f] = x[f].storage /\ w[f] = y[f].storage
        /\ \A g \in File : g # f => w[g] = v[g]
    BY <1>2, <2>1
  <2>3. StoredIn(x) = SumsOf(v, File)[File] /\ StoredIn(y) = SumsOf(w, File)[File]
    BY <1>2, <2>1, StoredIsSum
  <2>4. /\ SumsOf(v, File)[File] \in Nat /\ SumsOf(w, File)[File] \in Nat
        /\ SumsOf(w, File)[File] = (SumsOf(v, File)[File] + w[f]) - v[f]
    BY <1>1, <2>2, SumChanges
  <2> QED BY <2>2, <2>3, <2>4
<1> QED BY <1>3, <1>4

\* What a file is charged for: while it waits for its bytes, for all of them;
\* and a file that is being merged waits for them still or has them.
ChargeIsRight(f) ==
    /\ row[f].st = "uploading" => row[f].reserved = Size[row[f].content]
    /\ f \notin overlap =>
         \A r \in Merging(f) : row[f].key \/ row[f].st \in {"uploading", "deleting", "gone"}

QuotaInv == ChunkedInv /\ QuotaHolds /\ \A f \in File : ChargeIsRight(f)

\* A step that changes one row keeps the quotas if it fits, or if it charges no
\* more.
LEMMA QuotaGoes ==
    ASSUME QuotaInv, ChunkedInv', NEW f \in File, \A g \in File : g # f => row'[g] = row[g],
           overlap \subseteq overlap',
           overlap' = {} =>
             \/ \E m \in Nat : /\ row'[f].reserved = row[f].reserved + m
                               /\ row'[f].storage <= row[f].storage /\ Fits(m)
             \/ /\ row'[f].reserved <= row[f].reserved
                /\ row'[f].reserved + row'[f].storage <= row[f].reserved + row[f].storage
    PROVE  QuotaHolds'
<1> SUFFICES ASSUME overlap' = {}
             PROVE  Reserved(File)' <= ActiveQuota /\ Stored(File)' + Reserved(File)' <= Quota
  BY DEF QuotaHolds
<1>1. row \in [File -> FileRow] /\ row' \in [File -> FileRow]
  BY DEF QuotaInv, ChunkedInv, ChunkedTypes
<1>2. PICK x, y : x = row /\ y = row'
  OBVIOUS
<1>3. /\ Reserved(File) = ReservedIn(x) /\ Reserved(File)' = ReservedIn(y)
      /\ Stored(File) = StoredIn(x) /\ Stored(File)' = StoredIn(y)
  BY <1>2, SumsOfRows
<1>4. /\ ReservedIn(x) \in Nat /\ ReservedIn(y) \in Nat
      /\ StoredIn(x) \in Nat /\ StoredIn(y) \in Nat
      /\ ReservedIn(y) = (ReservedIn(x) + y[f].reserved) - x[f].reserved
      /\ StoredIn(y) = (StoredIn(x) + y[f].storage) - x[f].storage
  <2>1. x \in [File -> FileRow] /\ y \in [File -> FileRow] /\ \A g \in File : g # f => y[g] = x[g]
    BY <1>1, <1>2
  <2> QED BY <2>1, RowsAddUp
<1>5. /\ x[f].reserved \in Nat /\ y[f].reserved \in Nat
      /\ x[f].storage \in Nat /\ y[f].storage \in Nat
  BY <1>1, <1>2 DEF FileRow
<1>6. ReservedIn(x) <= ActiveQuota /\ StoredIn(x) + ReservedIn(x) <= Quota
  <2>1. overlap = {}
    OBVIOUS
  <2> QED BY <1>3, <2>1 DEF QuotaInv, QuotaHolds
<1>7. Quota \in Nat /\ ActiveQuota \in Nat
  BY ChunkedUploadAssumption
<1>8. ASSUME NEW m \in Nat, y[f].reserved = x[f].reserved + m, y[f].storage <= x[f].storage, Fits(m)
      PROVE  ReservedIn(y) <= ActiveQuota /\ StoredIn(y) + ReservedIn(y) <= Quota
  <2>1. ReservedIn(x) + m <= ActiveQuota /\ StoredIn(x) + ReservedIn(x) + m <= Quota
    BY <1>3, <1>8 DEF Fits
  <2> QED BY <1>4, <1>5, <1>7, <1>8, <2>1
<1>9. ASSUME y[f].reserved <= x[f].reserved,
             y[f].reserved + y[f].storage <= x[f].reserved + x[f].storage
      PROVE  ReservedIn(y) <= ActiveQuota /\ StoredIn(y) + ReservedIn(y) <= Quota
  BY <1>4, <1>5, <1>6, <1>7, <1>9
<1> QED BY <1>2, <1>3, <1>8, <1>9

\* A file is charged as before if its row stays and no merge of it begins.
LEMMA ChargeStays ==
    ASSUME NEW g \in File, ChargeIsRight(g), row'[g] = row[g], overlap \subseteq overlap',
           Merging(g)' \subseteq Merging(g)
    PROVE  ChargeIsRight(g)'
BY DEF ChargeIsRight

\* A merge that moves begins none.
LEMMA NoMergeBegins ==
    ASSUME ChunkedInv, NEW f \in File, NEW r \in Tab, MergeMoved(r, f)
    PROVE  \A g \in File : Merging(g)' \subseteq Merging(g)
<1> SUFFICES ASSUME NEW g \in File, NEW s \in Merging(g)' PROVE s \in Merging(g)
  OBVIOUS
<1>1. CASE g = f
  BY <1>1, MergingAfter
<1>2. CASE g # f
  <2>1. s \in Tab /\ merge'[s].at # "idle" /\ merge'[s].file = g
    BY DEF Merging
  <2>2. merge'[s] = merge[s] \/ (merge[s].file # g /\ merge'[s].file # g)
    BY <1>2, <2>1, MergingAfter
  <2> QED BY <2>1, <2>2 DEF Merging
<1> QED BY <1>1, <1>2

\* A step that changes no row.
LEMMA RowsStay ==
    ASSUME QuotaInv, ChunkedInv', row' = row, overlap \subseteq overlap',
           \A g \in File : Merging(g)' \subseteq Merging(g)
    PROVE  QuotaInv'
<1>1. \A g \in File : ChargeIsRight(g)'
  BY ChargeStays DEF QuotaInv
<1>2. QuotaHolds'
  <2>1. Reserved(File)' = Reserved(File) /\ Stored(File)' = Stored(File)
    BY SumsOfRows
  <2>2. overlap' = {} => overlap = {}
    OBVIOUS
  <2> QED BY <2>1, <2>2 DEF QuotaInv, QuotaHolds
<1> QED BY <1>1, <1>2 DEF QuotaInv

\* A step that changes one row.
LEMMA OneRowGoes ==
    ASSUME QuotaInv, ChunkedInv', NEW f \in File, \A g \in File : g # f => row'[g] = row[g],
           overlap \subseteq overlap',
           \A g \in File : Merging(g)' \subseteq Merging(g),
           overlap' = {} =>
             \/ \E m \in Nat : /\ row'[f].reserved = row[f].reserved + m
                               /\ row'[f].storage <= row[f].storage /\ Fits(m)
             \/ /\ row'[f].reserved <= row[f].reserved
                /\ row'[f].reserved + row'[f].storage <= row[f].reserved + row[f].storage,
           ChargeIsRight(f)'
    PROVE  QuotaInv'
<1>1. QuotaHolds'
  BY QuotaGoes
<1>2. \A g \in File : g # f => ChargeIsRight(g)'
  BY ChargeStays DEF QuotaInv
<1> QED BY <1>1, <1>2 DEF QuotaInv

\* An upload is charged for what it is short of, if that fits.
LEMMA ReserveFits ==
    ASSUME QuotaInv, ChunkedInv', NEW c \in Content, Reserve(c)
    PROVE  QuotaInv'
<1>1. /\ row \in [File -> FileRow] /\ UNCHANGED <<merge, overlap>>
      /\ Size[c] \in Nat
  BY ChunkedUploadAssumption DEF QuotaInv, ChunkedInv, ChunkedTypes, Reserve, history
<1>2. PICK f \in File :
        /\ row' = [row EXCEPT ![f] = Uploading(c)]
        /\ \/ Size[c] - row[f].reserved > 0 => Fits(Size[c] - row[f].reserved)
           \/ Fits(Size[c])
  BY DEF Reserve, Claimed
<1>3. /\ row'[f] = Uploading(c) /\ \A g \in File : g # f => row'[g] = row[g]
  BY <1>1, <1>2
<1>4. /\ Uploading(c).st = "uploading" /\ Uploading(c).content = c
      /\ Uploading(c).reserved = Size[c] /\ Uploading(c).storage = 0
  BY DEF Uploading
<1>5. ChargeIsRight(f)'
  BY <1>3, <1>4 DEF ChargeIsRight
<1>6. row[f].reserved \in Nat /\ row[f].storage \in Nat
  BY <1>1 DEF FileRow
<1>7. \/ \E m \in Nat : /\ row'[f].reserved = row[f].reserved + m
                        /\ row'[f].storage <= row[f].storage /\ Fits(m)
      \/ /\ row'[f].reserved <= row[f].reserved
         /\ row'[f].reserved + row'[f].storage <= row[f].reserved + row[f].storage
  <2>1. PICK m : m = Size[c] - row[f].reserved
    OBVIOUS
  <2>2. CASE m <= 0
    BY <1>1, <1>3, <1>4, <1>6, <2>1, <2>2
  <2>3. CASE m > 0
    <3>1. m \in Nat /\ row'[f].reserved = row[f].reserved + m /\ row'[f].storage <= row[f].storage
      BY <1>1, <1>3, <1>4, <1>6, <2>1, <2>3
    <3>2. Fits(m) \/ Fits(Size[c])
      BY <1>2, <2>1, <2>3
    <3>3. Fits(Size[c]) => Fits(m)
      <4>1. Reserved(File) \in Nat /\ Stored(File) \in Nat
        <5>1. PICK x : x = row
          OBVIOUS
        <5>2. x \in [File -> FileRow]
          BY <1>1, <5>1
        <5>3. ReservedIn(x) \in Nat /\ StoredIn(x) \in Nat
          BY <5>2, RowsAddUp
        <5> QED BY <5>1, <5>3, SumsOfRows
      <4>2. m <= Size[c] /\ ActiveQuota \in Nat /\ Quota \in Nat
        BY <1>1, <1>6, <2>1, ChunkedUploadAssumption
      <4> QED BY <1>1, <3>1, <4>1, <4>2 DEF Fits
    <3> QED BY <3>1, <3>2, <3>3
  <2> QED BY <1>1, <1>6, <2>1, <2>2, <2>3
<1>8. \A g \in File : Merging(g)' = Merging(g)
  BY <1>1 DEF Merging
<1> QED BY <1>1, <1>3, <1>5, <1>7, <1>8, OneRowGoes

\* What is stored is charged in place of what was reserved.
LEMMA RecordFits ==
    ASSUME QuotaInv, ChunkedInv', NEW r \in Tab, NEW f \in File, MergesFile(r, f),
           MergeMoved(r, f), overlap' = overlap,
           NEW st \in {"pending", "failed"}, Record(f, st)
    PROVE  QuotaInv'
<1>1. ChunkedTypes /\ row \in [File -> FileRow] /\ row[f] \in FileRow /\ ChargeIsRight(f)
      /\ RowIsRight(f) /\ StoredIsRight(f) /\ r \in Merging(f)
  BY DEF QuotaInv, ChunkedInv, ChunkedTypes, MergesFile
<1>2. \A g \in File : Merging(g)' \subseteq Merging(g)
  BY NoMergeBegins DEF QuotaInv
<1>3. CASE row' = row
  BY <1>2, <1>3, RowsStay
<1>4. CASE row[f].st \notin Absent \cup {"deleting"}
  <2> DEFINE bytes == Size[row[f].content]
             x == [row[f] EXCEPT !.st = st, !.key = TRUE, !.reserved = 0, !.storage = bytes]
  <2>1. row' = [row EXCEPT ![f] = x]
    BY <1>1, <1>4 DEF Record
  <2>2. x.st = st /\ x.key = TRUE /\ x.reserved = 0 /\ x.storage = bytes
    BY <1>1 DEF FileRow
  <2>3. row'[f].st = st /\ row'[f].key = TRUE /\ row'[f].reserved = 0 /\ row'[f].storage = bytes
        /\ \A g \in File : g # f => row'[g] = row[g]
    <3> HIDE DEF x, bytes
    <3> QED BY <1>1, <2>1, <2>2
  <2>4. ChargeIsRight(f)'
    BY <2>3 DEF ChargeIsRight
  <2>5. ASSUME overlap' = {}
        PROVE  /\ row'[f].reserved <= row[f].reserved
               /\ row'[f].reserved + row'[f].storage <= row[f].reserved + row[f].storage
    <3>1. bytes \in Nat /\ row[f].reserved \in Nat /\ row[f].storage \in Nat
      BY <1>1, <1>4, ChunkedUploadAssumption DEF RowIsRight, FileRow
    <3>2. row[f].key \/ row[f].st = "uploading"
      BY <1>1, <1>4, <2>5 DEF ChargeIsRight, Absent
    <3>3. row[f].key => row[f].reserved = 0 /\ row[f].storage = bytes
      BY <1>1, <1>4, <2>5 DEF StoredIsRight
    <3>4. row[f].st = "uploading" => row[f].reserved = bytes
      BY <1>1 DEF ChargeIsRight
    <3> HIDE DEF bytes
    <3> QED BY <2>3, <3>1, <3>2, <3>3, <3>4
  <2> HIDE DEF x, bytes
  <2> QED BY <1>2, <2>3, <2>4, <2>5, OneRowGoes
<1> QED BY <1>3, <1>4 DEF Record

\* The steps of a merge.
LEMMA MergeFits ==
    ASSUME QuotaInv, ChunkedInv', NEW r \in Tab, Merge(r)
    PROVE  QuotaInv'
<1>1. ChunkedInv /\ ~MergesAt(r, "idle") /\ overlap' = overlap
  BY DEF QuotaInv, Merge, MergesAt, OpenTemp, Copy, Verify, Store, PublishMerge, CleanUp, FailLate,
         Reject, FailMerge, MergeDies, history
<1>2. PICK f \in File : MergesFile(r, f)
  BY <1>1, MergeStarts
<1>3. MergeMoved(r, f)
  BY <1>1, <1>2 DEF MergesFile, MergeSteps, Merge, OpenTemp, Copy, Verify, Store, PublishMerge,
                    CleanUp, FailLate, Reject, FailMerge, MergeDies
<1>4. \A g \in File : Merging(g)' \subseteq Merging(g)
  BY <1>1, <1>3, NoMergeBegins
<1>5. CASE row' = row
  BY <1>1, <1>4, <1>5, RowsStay
<1>6. CASE Record(f, "pending") \/ Record(f, "failed")
  BY <1>1, <1>2, <1>3, <1>6, RecordFits
<1>7. CASE FailMerge(r) /\ row' # row
  <2> DEFINE x == [row[f] EXCEPT !.st = "failed", !.reserved = 0, !.storage = 0]
  <2>1. row \in [File -> FileRow] /\ row[f] \in FileRow
    BY DEF QuotaInv, ChunkedInv, ChunkedTypes
  <2>2. row' = [row EXCEPT ![f] = x]
    BY <1>2, <1>7, <2>1 DEF FailMerge, MergesFile
  <2>3. x.st = "failed" /\ x.reserved = 0 /\ x.storage = 0
    BY <2>1 DEF FileRow
  <2>4. row'[f].st = "failed" /\ row'[f].reserved = 0 /\ row'[f].storage = 0
        /\ \A g \in File : g # f => row'[g] = row[g]
    <3> HIDE DEF x
    <3> QED BY <2>1, <2>2, <2>3
  <2>5. row[f].reserved \in Nat /\ row[f].storage \in Nat
    BY <2>1 DEF FileRow
  <2>6. ChargeIsRight(f)'
    <3>1. f \notin overlap => Merging(f)' = {}
      <4>1. merge'[r].at = "idle"
        BY <1>2, <1>7 DEF FailMerge, MergesFile
      <4>2. f \notin overlap => \A s \in Merging(f) : s = r
        BY <1>1, <1>3, MergingAfter
      <4>3. r \notin Merging(f)'
        BY <4>1 DEF Merging
      <4> QED BY <1>4, <4>2, <4>3
    <3> QED BY <1>1, <2>4, <3>1 DEF ChargeIsRight
  <2>7. /\ row'[f].reserved <= row[f].reserved
        /\ row'[f].reserved + row'[f].storage <= row[f].reserved + row[f].storage
    BY <2>4, <2>5
  <2> HIDE DEF x
  <2> QED BY <1>1, <1>4, <2>4, <2>6, <2>7, OneRowGoes
<1>8. row' = row \/ Record(f, "pending") \/ Record(f, "failed") \/ FailMerge(r)
  BY <1>2 DEF Merge, MergesFile, OpenTemp, Copy, Verify, Store, PublishMerge, CleanUp, FailLate,
              Reject, MergeDies, fileRows
<1> QED BY <1>5, <1>6, <1>7, <1>8

\* What else happens to a row charges nothing.
LEMMA OthersFit ==
    ASSUME QuotaInv, ChunkedInv', NEW f \in File,
           \/ Ingest(f) \/ Retry(f) \/ DeleteRow(f) \/ FinishCleanup(f) \/ Abandon(f) \/ SweepTemp(f)
    PROVE  QuotaInv'
<1>1. /\ ChunkedInv /\ UNCHANGED <<merge, overlap>> /\ ChunkedTypes
      /\ row \in [File -> FileRow] /\ row[f] \in FileRow /\ ChargeIsRight(f)
  BY DEF QuotaInv, ChunkedInv, ChunkedTypes, Ingest, Retry, DeleteRow, FinishCleanup, Abandon,
         SweepTemp, OnlyRows, history
<1>2. \A g \in File : Merging(g)' = Merging(g)
  BY <1>1 DEF Merging
<1>3. row[f].reserved \in Nat /\ row[f].storage \in Nat
  BY <1>1 DEF FileRow
<1>4. CASE row' = row
  BY <1>1, <1>2, <1>4, RowsStay
<1>5. CASE Ingest(f) \/ Retry(f) \/ DeleteRow(f)
  <2>1. PICK st \in {"completed", "failed", "pending", "deleting"} :
          row' = [row EXCEPT ![f].st = st] /\ (st = "deleting" \/ row[f].key)
    BY <1>5 DEF Ingest, Retry, DeleteRow
  <2>2. st \in Status
    BY DEF Status
  <2>3. /\ \A g \in File : g # f => row'[g] = row[g]
        /\ row'[f].st = st /\ row'[f].key = row[f].key /\ row'[f].content = row[f].content
        /\ row'[f].reserved = row[f].reserved /\ row'[f].storage = row[f].storage
    BY <1>1, <2>1, <2>2, StatusWrites
  <2>4. ChargeIsRight(f)'
    BY <1>1, <1>2, <2>1, <2>3 DEF ChargeIsRight
  <2>5. /\ row'[f].reserved <= row[f].reserved
        /\ row'[f].reserved + row'[f].storage <= row[f].reserved + row[f].storage
    BY <1>3, <2>3
  <2> QED BY <1>1, <1>2, <2>3, <2>4, <2>5, OneRowGoes
<1>6. CASE row' = [row EXCEPT ![f] = [NoRow EXCEPT !.st = "gone"]]
  <2>1. row'[f] = [NoRow EXCEPT !.st = "gone"] /\ \A g \in File : g # f => row'[g] = row[g]
    BY <1>1, <1>6
  <2>2. row'[f].st = "gone" /\ row'[f].reserved = 0 /\ row'[f].storage = 0
    BY <2>1 DEF NoRow
  <2>3. ChargeIsRight(f)'
    BY <2>2 DEF ChargeIsRight
  <2>4. /\ row'[f].reserved <= row[f].reserved
        /\ row'[f].reserved + row'[f].storage <= row[f].reserved + row[f].storage
    BY <1>3, <2>2
  <2> QED BY <1>1, <1>2, <2>1, <2>3, <2>4, OneRowGoes
<1>7. row' = row \/ (Ingest(f) \/ Retry(f) \/ DeleteRow(f))
      \/ row' = [row EXCEPT ![f] = [NoRow EXCEPT !.st = "gone"]]
  BY DEF FinishCleanup, Abandon, SweepTemp, fileRows
<1> QED BY <1>4, <1>5, <1>6, <1>7

\* A merge that begins finds its file charged.
LEMMA BeginFits ==
    ASSUME QuotaInv, ChunkedInv', NEW r \in Tab, NEW f \in File, BeginMerge(r, f)
    PROVE  QuotaInv'
<1>1. /\ ChunkedTypes /\ row' = row /\ overlap \subseteq overlap' /\ row[f].st = "uploading"
      /\ \A s \in Tab : s # r => merge'[s] = merge[s]
      /\ merge'[r].file = f
  BY DEF QuotaInv, ChunkedInv, ChunkedTypes, BeginMerge, fileRows
<1>2. \A g \in File : g # f => Merging(g)' \subseteq Merging(g)
  BY <1>1 DEF Merging
<1>3. \A g \in File : ChargeIsRight(g)'
  <2>1. \A g \in File : g # f => ChargeIsRight(g)'
    BY <1>1, <1>2, ChargeStays DEF QuotaInv
  <2>2. ChargeIsRight(f)'
    BY <1>1 DEF QuotaInv, ChargeIsRight
  <2> QED BY <2>1, <2>2
<1>4. QuotaHolds'
  <2>1. Reserved(File)' = Reserved(File) /\ Stored(File)' = Stored(File)
    BY <1>1, SumsOfRows
  <2>2. overlap' = {} => overlap = {}
    BY <1>1
  <2> QED BY <2>1, <2>2 DEF QuotaInv, QuotaHolds
<1> QED BY <1>3, <1>4 DEF QuotaInv

\* In the beginning nothing is charged.
LEMMA NothingCharged ==
    ASSUME ChunkedInit, ChunkedInv
    PROVE  QuotaInv
<1>1. \A f \in File : row[f].st = "unused" /\ row[f].reserved = 0 /\ row[f].storage = 0
  BY DEF ChunkedInit, NoRow
<1>2. \A f \in File : Merging(f) = {}
  BY DEF ChunkedInit, Merging, NoMerge
<1>3. \A f \in File : ChargeIsRight(f)
  BY <1>1, <1>2 DEF ChargeIsRight
<1>4. Reserved(File) = 0 /\ Stored(File) = 0
  <2>1. PICK x : x = row
    OBVIOUS
  <2>2. PICK v : v = [f \in File |-> x[f].reserved]
    OBVIOUS
  <2>3. PICK w : w = [f \in File |-> x[f].storage]
    OBVIOUS
  <2>4. v \in [File -> Nat] /\ w \in [File -> Nat] /\ \A f \in File : v[f] = 0 /\ w[f] = 0
    BY <1>1, <2>1, <2>2, <2>3
  <2>5. IsFiniteSet(File)
    BY ChunkedUploadAssumption
  <2>6. SumsOf(v, File)[File] = 0 /\ SumsOf(w, File)[File] = 0
    BY <2>4, <2>5, SumOfNothing
  <2>7. ReservedIn(x) = SumsOf(v, File)[File] /\ StoredIn(x) = SumsOf(w, File)[File]
    <3>1. \A f \in File : x[f].reserved \in Nat /\ x[f].storage \in Nat
      BY <1>1, <2>1
    <3> QED BY <2>2, <2>3, <3>1, ReservedIsSum, StoredIsSum
  <2> QED BY <2>1, <2>6, <2>7, SumsOfRows
<1> QED BY <1>3, <1>4, ChunkedUploadAssumption DEF QuotaInv, QuotaHolds

\* A user has reserved and stored no more than the quotas allow, for every number
\* of files, documents and tabs and every size, unless two merges of one file ran
\* at once (reserveUploadFile, ensureQuotaAvailable, mergeChunks).
THEOREM QuotasHold == ChunkedSpec => []QuotaHolds
<1>1. ChunkedInit => QuotaInv
  BY ChunkedStarts, NothingCharged
<1>2. QuotaInv /\ [ChunkedNext]_chunkedVars => QuotaInv'
  <2> SUFFICES ASSUME QuotaInv, [ChunkedNext]_chunkedVars
               PROVE  QuotaInv'
    OBVIOUS
  <2>1. ChunkedInv'
    BY ChunkedStep DEF QuotaInv
  <2>2. ASSUME row' = row, merge' = merge, overlap' = overlap
        PROVE  QuotaInv'
    <3>1. \A g \in File : Merging(g)' = Merging(g)
      BY <2>2 DEF Merging
    <3> QED BY <2>1, <2>2, <3>1, RowsStay
  <2>3. ASSUME NEW f \in File, BeginChunk(f) \/ WriteChunk(f)
        PROVE  QuotaInv'
    BY <2>2, <2>3 DEF BeginChunk, WriteChunk, fileRows, history
  <2>4. CASE UploadWithChunks
    BY <2>1, <2>3, <2>4, ReserveFits, BeginFits DEF UploadWithChunks, InitUpload
  <2>5. CASE UNCHANGED chunkedVars
    BY <2>2, <2>5 DEF chunkedVars
  <2> QED BY <2>1, <2>4, <2>5, MergeFits, OthersFit DEF ChunkedNext
<1>3. QuotaInv => QuotaHolds
  BY DEF QuotaInv
<1> QED BY <1>1, <1>2, <1>3, PTL DEF ChunkedSpec

=============================================================================
