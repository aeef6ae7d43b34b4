# chatLLM in TLA+

This directory holds TLA+ models of chatLLM, the configurations with which TLC
checks them on small instances, and proofs that TLAPS checks for every value of
the constants. `PROJECT.json` maps each definition to the lines it models and
lists the runs, the mutants of the properties, the hazards and the theorems.

    tlc -config Repairs.cfg MCRepairs   # a run
    tlapm CleanupProofs.tla             # a proof

## The system

chatLLM is a chat application that answers from the documents a user has
uploaded. It consists of

- a **browser client** (`client/`, React with Zustand stores);
- a **server** (`server/`, NestJS on Node.js). It owns accounts, uploads,
  conversations and the queues. Each server process runs the HTTP handlers, the
  workers of three BullMQ queues (files, cleanup, evaluation) and their
  dispatchers, and a periodic maintenance;
- a **RAG service** (`rag-service/`, FastAPI on Python threads). It converts and
  indexes documents, retrieves evidence and runs evaluations. The server calls
  it over HTTP; it writes to the same PostgreSQL database;
- **stores**: PostgreSQL (the only state that is taken to be durable), Redis
  (queue messages, rate limits, the first layer of the retrieval cache), an S3
  object store, and the indexes in Qdrant, Elasticsearch and Neo4j.

Three ideas recur. The work of a queue is a *row with a lease* in PostgreSQL: a
message only names the row; whoever takes the message claims the row with a
statement, renews the lease by a heartbeat, and every later statement is fenced
by the token of the claim. No transaction spans the database and a store:
everything between two statements may fail, be answered late, or never be
answered, and is repaired by a retry, by a cleanup job or by the maintenance.
And the browser shows a change before the server has confirmed it, so that every
answer may come too late for what is shown; generations, tickets and aborts
decide which answers count.

### Components

| component | state | operations | hard behaviour | correct when |
|---|---|---|---|---|
| file ingestion (`fileQueue.ts`, `repositories/files.ts`, `ingestion.py`, `db.py`) | status, attempts and active generation of files; jobs with leases; generations, chunks, index entries, derived objects | dispatch, claim, renew, reconcile, retry, reingest; receive, start, create, convert, publish, chunk, index, activate, fail; clean up a generation | a worker outlives its lease, messages are lost or repeated, either side dies between two steps, the user deletes or reingests meanwhile | what is served is one whole generation, newer ones replace older ones, every file settles, nothing is leaked |
| durable deletion (`cleanupJobs.ts`, `cleanupQueue.ts`) | cleanup jobs with steps, parents, payload and lease | request the deletion of a file, space, account or avatar; claim, step, wait for children, finalize, fail | requests are repeated and overlap, uploads come late, workers overtake each other | every object and index entry stays known until it is gone; parents go last; every deletion settles |
| multipart upload (`upload.service.ts`, `uploadMultipart.ts`, `maintenance.ts`) | file row, session row, storage uploads and object | initialise, sign parts, complete, observe, reclaim, abort, expire, delete | calls to the store without an answer that take effect later, requests that race with the sweep | an acknowledged upload stays, a queued file has its object, sessions end |
| chunked upload, quota, deduplication (`upload.service.ts`, `files.ts`) | chunk files on disk, one temporary file, file rows with reserved and stored bytes | check, reserve, store a chunk, merge, sweep | two merges of one upload, a failure after the file was queued, two reservations near the limit | a published file has its verified bytes and is charged for them; the quota holds |
| evaluation runs (`ragEvalQueue.ts`, `repositories/ragEval.ts`, `rag-eval.service.ts`) | runs with leases and deadlines, controllers in memory | create, claim, execute, complete, fail an attempt, cancel, stop, reset or fail stale runs | attempts overtaken by others, cancellation at another server, stop between claim and registration | results are those of the last attempt, cancelled work stops, every run ends |
| datasets and cases (`repositories/ragEval.ts`) | rows, snapshots and baselines of runs | add, remove, start a run, drop, complete | row locks taken in different orders; limits checked before the lock | a run is about the cases of one moment, and is compared case by case |
| evaluation page (`RagEvaluation.tsx`) | the list, the summary, the details it shows | read, poll, create, delete, cancel | requests that overtake each other | what is shown fits together, an ended run is shown as ended |
| sessions and accounts (`auth.service.ts`, `sessions.ts`) | sessions by refresh token, the browser's cookies | register, log in (password, GitHub), refresh, log out, delete | two tabs refresh at once, a refresh overlaps a logout, an answer is lost | one session per login, ended by its time or its logout |
| retrieval cache (`retrieval_cache.py`, `agentic_retrieval.py`, `db.py`) | versions of a space and its indexes; entries in Redis and PostgreSQL | read the scope, look up, verify, retrieve, retry, store, copy; bump | evidence stored after what it was found in was replaced; a layer that misses the invalidation | an answer shows nothing that was replaced or removed before the question |
| RAG client (`ragClient.ts`, `circuitBreaker.ts`) | the calls, the circuit they share | call, retry, succeed, fail, time out, probe | results of calls that began in an earlier state of the circuit | an open circuit never waits for a probe that is over |
| rate limits (`rateLimits.ts`) | windows in Redis | count a request | many addresses try one email | no window lets more pass than its limit |
| persona (`persona.ts`, `PersonaCenter.tsx`) | profile and insights | analyse, accept, hide, reject, edit, reset, switch off | an analysis runs while the user decides | the analysis yields |
| lifecycle, migrations (`main.ts`, `runtime-lifecycle.service.ts`) | one process | start, fail to start, serve, stop | signals and failures in any order | the connections outlive the work |
| chat stream (`chat-stream.service.ts`, `answerGeneration.ts`, `concurrencyGate.ts`) | places in the gate, the stream, stored messages | ask, search, answer, stop, store, title | the client leaves at any moment, the provider hangs | a place is given back once; half an answer is kept only of a client that left |
| conversations and messages (`messages.ts`, `conversations.ts`) | messages by time and id | append, branch, truncate, page | times cut to milliseconds, equal times in a branch | a truncation reaches the end; pages cover the conversation |
| sources and grounding (`chatSources.ts`, `answerGeneration.ts`) | the context of one prompt, the claims of its answer | pack, cite, verify | budgets, duplicates, numbers | citations name the sources that the prompt showed |
| chat view (`useChatStore.ts`, `chatRequestState.ts`) | shown messages, caches, streams | select, send, stop, continue, regenerate, create, archive, delete | late answers, failed changes | what is shown is the cache of what is selected |
| lists, search (`useProjectSpaceStore.ts`, `useSearchStore.ts`) | lists and selection | read, create, rename, archive, delete, search | a read overlaps a change | when nothing is on its way the list is the server's |
| documents of a space (`useKnowledgeFilesStore.ts`) | one shared list, one poller | open, close, poll, retry, delete, upload | polls stopped and started across pages and spaces | polling goes on while there is work |
| uploads of the browser (`uploadManager.ts`, `KnowledgeBase.tsx`) | uploads with parts in flight, one banner | drop, hash, check, send, complete, fall back | parts in flight after a failure, sessions replaced | completion is asked for with all parts; the banner goes |
| templates, chat settings (`PromptTemplates.tsx`, `ChatSettingsDialog.tsx`) | rows, forms | list, view, edit, save, delete | answers arrive while a form is edited | a form writes what it shows to the row it shows |
| project spaces (server) | rows of one user | create, rename, delete | the deletion is part of durable deletion | - |
| planning, verification, fusion, reranking (`agentic_retrieval.py`, `retrieval.py`, ...) | none | plan, rank, verify | heuristics over text and scores | - |
| index stores, converters, metrics, judge, object storage, Redis, database pools | external, or arithmetic | | modelled where they are called | - |
| health, metrics, queue health, usage, workbench, configuration, other pages, scripts | read only, presentation, tools | | | - |

The components interact through rows and calls. An upload ends by setting its
file to `pending`, which the dispatcher of ingestion finds. Ingestion activates
a generation in the transaction that bumps the knowledge version, and enqueues
a cleanup job for the generation it replaces. A deletion sets the file to
`deleting`, which every statement of upload and ingestion refuses, and enqueues
the job that calls the RAG service and the object store. A cleanup by the RAG
service bumps the version again. A question of the chat passes the rate limits,
takes a place in the gate, asks the RAG service through the circuit breaker, and
its answer meets the user's other requests in the messages of the conversation
and in the stores of the browser.

## The modules

| module | what it is | lines of the code it is about |
|---|---|---|
| `DocumentPublication` | abstract: what ingestion promises the readers of documents | |
| `FileIngestion` | ingestion, the cleanup of generations, the deletion of a file; implements `DocumentPublication` | `fileQueue.ts`, `files.ts`, `ingestion.py`, `db.py` |
| `CleanupJobs` | durable deletion of files, spaces, accounts and avatars | `cleanupJobs.ts`, `cleanupQueue.ts` |
| `MultipartUpload` | the direct upload of one file | `upload.service.ts`, `uploadMultipart.ts`, `maintenance.ts` |
| `ChunkedUpload` | the upload in chunks, the reservation, both quotas | `upload.service.ts`, `files.ts` |
| `RagEvalRuns` | the runs of one evaluation dataset | `ragEval.ts`, `ragEvalQueue.ts` |
| `EvalLibrary` | the dataset, its cases and the locks of its transactions | `ragEval.ts` |
| `EvalPage` | the page that shows datasets and runs | `RagEvaluation.tsx` |
| `Accounts` | logins, sessions, tokens, two tabs of a browser | `auth.service.ts`, `sessions.ts`, `useAuthStore.ts`, `api.ts` |
| `RetrievalCache` | cached evidence while the documents of a space change | `retrieval_cache.py`, `agentic_retrieval.py` |
| `RagClient` | calls of one operation of the RAG service and their circuit breaker | `ragClient.ts`, `circuitBreaker.ts` |
| `RateLimits` | the windows that all instances share | `rateLimits.ts` |
| `Persona` | profile, insights and their page | `persona.ts`, `PersonaCenter.tsx` |
| `RuntimeLifecycle` | one process of the server | `main.ts`, `runtime-lifecycle.service.ts` |
| `ChatStreams` | questions and their streams at the server | `chat-stream.service.ts`, `concurrencyGate.ts` |
| `MessageHistory` | times, branches, truncation and pages of messages | `messages.ts`, `conversations.ts`, `messagePagination.ts` |
| `GroundedAnswers` | context, citations and check of one answer | `chatSources.ts`, `answerGeneration.ts` |
| `ChatView` | the chat of the web client | `useChatStore.ts` |
| `ClientLists` | its lists and its search | `useProjectSpaceStore.ts`, `useSearchStore.ts` |
| `KnowledgeFiles` | the documents of a space in the web client | `useKnowledgeFilesStore.ts` |
| `UploadTab` | the knowledge page as it uploads | `uploadManager.ts`, `KnowledgeBase.tsx` |
| `ClientForms` | the page of the templates and the settings dialog | `PromptTemplates.tsx`, `ChatSettingsDialog.tsx` |
| `CompletionPoller` | operators: the poller that two pages use | `requestGeneration.ts` |
| `ArrayFilter` | operators: `Array.prototype.filter` as stores and pages use it | its callers |
| `FileIngestionProofs`, `CleanupProofs`, `UploadProofs`, `RagEvalProofs`, `AccountProofs`, `ServiceProofs`, `ChatProofs`, `ClientProofs` | theorems and proofs; each extends the modules it is about | |
| `MC...` | instances for TLC, and the compositions of the runs | |

The parts meet at their shared rows, and each module has the other side of its
border as far as it matters: `FileIngestion` starts with an uploaded file and
has its deletion; `CleanupJobs` has uploads and indexing as steps that produce
something to delete; `MultipartUpload` has the cleanup job of its own file;
`RetrievalCache` has publication and cleanup as what changes the versions;
`EvalPage`, `UploadTab` and `ClientForms` have as much of the server as they meet.
Parts that share no row are checked side by side: the MC module has a variable
(`part`, `way`, `about`, `side`, `focus`) that is chosen in the initial state and
says which part the behaviour is about, so that one run examines several parts
without the product of their states.

Definitions whose comment begins with "Mutant" are not part of any
specification. They are plausible bugs: each stands beside the definition it
would replace and violates the property that `PROJECT.json` names with it.

### Ingestion, deletion, uploads

**FileIngestion.** One step is one transaction, or one call to a store that no
transaction covers. `fileStatus`, `tries`, `due` and `active` are columns of
`files`; `jobStatus`, `jobAttempt`, `leaseLive` and `jobGen` of
`file_ingestion_jobs`; `genStatus` is the status in
`file_conversion_generations`; `chunks`, `index` and `artifacts` tell which parts
of a generation exist; `cleanup`, `deletion` and `doomed` are its cleanup job and
the file's. `server` and `rag` are the program counters of the server's worker
and the RAG service's thread for each attempt: both go on after the lease is
lost, and only their statements notice. Attempt, lease token and generation are
drawn together by a claim and compared together, so one number stands for the
three. Redis appears as `queued`: messages are lost and repeated (`LoseMessage`,
`Redeliver`). The actions follow `processFileById` and
`reconcileFileIngestionJobs` on the server, and `process_file` with its converted
path in the RAG service. The three index stores are one `index`, written batch by
batch under a lease check. A file is not renamed between two initialisations of
its upload, so its object key is fixed.

**CleanupJobs.** `job` has the rows of `artifact_cleanup_jobs` by resource key,
with the payload reduced to its object keys; `work` is what each worker holds:
the copy of the row that its claim returned, which may be outdated. `transfer` is
the request that stores an object: it puts the object first and tells the table
later, so a deletion can come in between (`RecordObject`). A request that comes
again merges its payload into the row (`Inserted`), except for the two callers
that open a finished job again (`Requeued`). Back-off is left out: a job whose
delay runs is one that nobody claims yet. `NoOne` stands for SQL's null. Two
transactions are taken apart where nothing holds what they have read. A batch of
index entries is written after its lease was checked (`CheckLease`, then `IndexFile`),
and the deletion, the RAG service's cleanup and the end of the job may all come in
between; `strayed` names the files with entries of such a batch. And a finalizer of a
space or the account looks at the children (`LookAtChildren`), locking none of them,
before it deletes and completes (`Finalize`); `reopened` names the children that an
upload has opened again since.

**MultipartUpload.** `file`, `key`, `reserved` and `session` are the rows;
`store`, `parts`, `late` and `object` are the object store. Each request has a
program counter and the storage upload it read (`request`), as have the sweep and
the cleanup job. The statements that end a request name the file only, as in the
code, so a late one may meet a later session. A storage call succeeds, fails, or
is not answered; an unanswered completion may take effect at any later time
(`LateAssembly`). Size and hash of the object are taken to be right: the branches
of the integrity check for a foreign object are left out.

**ChunkedUpload.** `row` has the file rows with what they reserve and store,
`dir` and `temp` are the chunk directory and the one temporary file, `merge` the
merge requests, each of which may die between any two of its steps. Content is a
model value with a size; a chunk may be short. The histories `overlap` and
`orphan` name the files of which two merges ran at once, and those whose object
was stored by a merge that did not record it.

### Evaluations

**RagEvalRuns.** `run` has the rows, with the deadline, the age limit of the
maintenance and the retry delay as booleans that time sets; `registry` is the map
of controllers of each server process. Any worker may try to claim any run at any
time, which covers every order in which BullMQ could deliver.
`RAG_EVAL_STALE_RUN_MS` may pass before or after the deadline. An execution is
registered within its lease (the two are consecutive in memory). Datasets, cases,
scores and the baseline are left out here; the failure for an empty dataset
cannot occur, since a run is only created with cases.

**EvalLibrary.** `tx` is where the transaction of each request is, with the locks
it holds on the dataset and on cases; `storing` is the transaction of
`completeRagEvalRunWithResults`. `WaitsFor` says who waits for whom;
`CirclesPassTheCompletion` is about its circles (PostgreSQL then aborts one).

**EvalPage.** `evaluated` is what the server would answer, `page` what is shown,
`asked` the requests by ticket (`RequestGenerationGuard`), `edits` the changes
that wait for answers. Its two pollers are records of `CompletionPoller`.

### Accounts and services

**Accounts.** `session` has the rows by refresh token; `jar` and `hint` are what
the tabs of one browser share; `page`, `call` and `refresh` are each tab's store,
requests and single-flight refresh. The clock is a number up to `MaxTime`.
Passwords, signatures and profiles are abstracted.

**RetrievalCache.** All requests ask the same question with the same settings in
one space, which is the only case in which entries meet. `version` stands for the
knowledge version and the two index versions, which every bump changes together;
it is *read* in two statements, so that a scope may mix two values. Evidence is a
set of pairs of file and generation. Verdicts of quality and support may go either
way. A lane lists what its index has and keeps what PostgreSQL serves at that
time; keyword search falls back to a text search in PostgreSQL, which still finds
a file whose index entries are gone. A retrieval is one step: its lanes only add
what was present at some time after the scope was read. The graph lane adds
nothing that the vector lane does not show.

**RagClient.** `call` has, per call, its permit, attempts, age and timer; `circuit`
the failures, the opening and `probeInFlight`. Time passes for all calls together
(`Tick`).

**RateLimits.** A request is counted in the buckets of its address, its route and
its identity one after the other; each may find Redis failing.

**Persona.** Requests run through the locks of their transaction (`requests`);
an answer of the page's requests is handled when the request ends.

**RuntimeLifecycle.** `main` is bootstrap, `closing` the hooks of `app.close`,
`runtime` the one promise of `shutdownRuntime`; each queue has a worker, a job, a
start and `dispatching`. Migrations are one step, as they run in one transaction
under an advisory lock.

### Chat

**ChatStreams.** `gate` is `activeTotal` and `activeByKey`; `stream` is where each
request is, whether its client left, what it found and how much text it has; a
text is "none", "part" or "whole". What `ragTrigger.ts` finds in a question is a
set of terms.

**MessageHistory.** Times are microseconds, `PerMilli` of which a JavaScript Date
cannot tell apart; ids are random. A branch copies messages with one time.

**GroundedAnswers.** A passage and a claim are records of the few things the rules
look at: file, text, size, terms, numbers, polarity. Where the code loops over the documents
there is a recursive function of their number, and where it sorts, the place of a
document is the number of those that come before it.

### Browser

JavaScript runs one task at a time, so a step is a handler up to its `await`, or
the arrival of an answer. **ChatView**, **ClientLists**, **KnowledgeFiles**,
**UploadTab** and **ClientForms** keep the state of one store or page, the server's
rows as far as the answers show them, and the requests that are on their way. A
request that was aborted does nothing more. Each has a bound on the changes asked
for and on the failures.

## The runs

Each run finishes within a few minutes with two workers. Deadlock checking is off
everywhere, since each system may stop: when all work is done, and when a bound is
reached. Progress is stated by the liveness properties instead.

| run | what it asks | bounds |
|---|---|---|
| `ingestion_publication` | `ServedIsWhole`, `CompletedServesLatest`: is a document served whole, while a late attempt, its retirement and the next publication overlap, or while it is deleted? `ImplementsPublication`: does the pipeline implement `DocumentPublication`? | one file; two claims with a reset between them, or one claim and a deletion at any moment (the action constraint `RepeatedOrDeleted`) |
| `ingestion_settles` (`FileIngestion` itself) | `LostOnlyByTakeover`: which step loses track of a generation? `EveryFileSettles` | one file, two automatic attempts |
| `repairs` | `IndexIsTracked`, `ParentsGoLast`, `ObjectsLostOnlyByRepeatedDeletion`; `RepairsEnd`: does every accepted deletion end, the deletion of a file at any moment of its ingestion, and every session of a multipart upload? | a file in a space with two workers, or a space, or two avatars, with one worker; one attempt per job; one ingestion attempt; one upload request with two storage uploads |
| `uploads` | `PublishedIsStored`, `StraysHaveACause`: does what was acknowledged stay, and which steps lose track of a storage upload? `StoredAsVerified`, `QuotaHolds`: does a published file have its verified bytes, do the sums keep the quotas? | two requests of one file with two storage uploads; or three files with two contents, a quota of one, two merges |
| `evaluation` | `LastAttemptCounts`, `RunsEnd`; `RunsAreWhole`, `CirclesPassTheCompletion`; `SummaryFits`, `EndedRunsShow` | two workers at one server and one at another, one run with two attempts; three cases and two runs of a dataset; two datasets on the page, one lost answer |
| `accounts` | `OneSessionPerLogin`, `LoginsEndOnTime`, `LogoutEndsTheLogin` | one user, two tabs of which one acts, two refresh tokens, three units of time, one change of the profile |
| `service` | `EvidenceIsCurrent`, `AnswersAreFresh`; `ProbesEnd`; `LimitsHold`; `AnalysisYields`; `WorkEndsBeforeThePool` | two requests and one change of version; three calls with two tries; two addresses with one email; two insights and two requests at once; two queues |
| `chat` | `GateCountsStreams`, `HalfAnswersAreStops`, `LeavingFreesThePlace`; `TruncationReachesTheEnd`; `ContextFits`, `CitationsNameTheirSources` | two streams of one user with a limit of one or two; four messages; six documents, three budgets, up to three of them found, two claims |
| `client` | `ViewShowsItsCache`, `LiveAnswersSurviveSwitches`; `ListsSettle`; `PollingGoesOn`; `UploadsSettle`; `FormsReachTheirRows` | a question with two changes, of which only the first may be an archiving, or two questions without; three items with two changes and one failure; three parts, batches and uploads of two, two drops and two mishaps; two templates and two conversations |
| `multipart_expiry`, `eval_baseline`, `chat_pages` | counterexamples, see the findings | one request; three cases, two of which ask the same, one request, two runs; four messages with pages of one |

Why these bounds are enough to see the cases that matter:

- One file in the ingestion runs. The files of a user share no row that ingestion
  writes; files meet in the deletion of a parent (a file, a space and an account
  are three levels of resources) and in quotas, where the runs have several. The
  proofs hold for any set of files.
- Two claims and two attempts are the least at which an attempt can be late,
  overtaken and retired. A third one repeats the relation of the second to the
  first: the fences compare for equality, and the proofs are for any number.
- `MaxAttempts = 1` in `CleanupJobs` still lets a job be claimed again, after
  waiting for children and after it is opened again; the exhausted job, which
  needs the budget to be used up, is reached early.
- Two storage uploads are the least at which a late request of the first attempt
  meets the session of the second; two requests give every pair of handlers, and
  each request may be repeated as often as the state allows.
- One change of version leaves the scopes old, new and mixed.
- Three calls of the RAG client are the least at which a late answer, a probe and
  a refused call meet.
- The forms and buttons of one of the two tabs are used; the other one is open, checks
  its session and refreshes it, so that both race for the cookie jar.
- Two changes and one failure in the lists of the browser: a rollback needs a change that
  fails and one that it should not undo.

`SYMMETRY` permutes requests that differ by name only and is used in runs without
liveness. Every action of every module fires in a passing run, and each property
of a passing run is violated by the mutant listed with it. The first conjunct of
one safety property of each module is its type invariant.

## Fairness

- **FileIngestion.** The dispatcher scans on its timer (`Dispatch`,
  `DispatcherReconciles`, weak); BullMQ does not lose every message for ever
  (`Claim`, strong, since a lost message disables it); a request to the RAG
  service ends by its timeout and a worker then reconciles, or its process ends;
  a lease that nobody renews runs out, a back-off elapses. *Nothing* is assumed
  of the RAG service: it may stay silent in each attempt. The steps of the file's
  cleanup job are weakly fair, as its queue retries them.
- **CleanupJobs.** Each claimable job is dispatched every five seconds and no job
  is passed over for ever although all workers may be busy each time (strong); a
  worker advances or fails; an abandoned lease runs out; each dispatch fails the
  exhausted jobs.
- **MultipartUpload.** The maintenance runs on its timer; sessions and leases
  expire; the store answers the sweep now and then (strong). Nothing is assumed
  of requests: they may die anywhere. The liveness has a premise in the property
  itself, that completions are not requested for ever, since each one extends the
  lease.
- **RagEvalRuns.** Deadlines pass, the maintenance fails stale runs, a heartbeat
  finds a lost lease, and an aborted request returns. Nothing is assumed of
  workers otherwise.
- **EvalPage**, **KnowledgeFiles.** Timers fire and requests are answered or fail
  (weak); nothing is assumed of the user.
- **ChatStreams.** The steps that wait for the database or follow an abort are taken
  (`StreamStep`, weak): a query answers or times out. Nothing is assumed of the
  provider, the retrieval and the client, which may hang.
- The other modules have no liveness property and no fairness.

## What the checks found

The properties of the passing runs hold. Four statements of the repository's
documents and tests are not kept by the code. Three of them are runs that end with a
counterexample; the fourth is the named exception of a property.

1. `multipart_expiry` (`ExpiryKeepsStoredObject`). "expired completing multipart
   cleanup finalizes a verified object instead of aborting it"
   (`server/test/upload-multipart.test.mjs:1954`). The sweep looks for the object
   before it claims the session. A completion that outlived its lease may store
   the object in between; the store then reports the upload as missing, which the
   sweep takes for an abort (`services/maintenance.ts:91`). A request that aborts
   does look again.
2. `eval_baseline` (`PairsCompareTheSameCase`). The paired baseline is computed only
   for the same case, "相同 Case", of both runs (`docs/rag-architecture-v2.md:75`). The
   deletion of a case clears `case_id` in its results, and a result without one is
   paired with every result of the baseline that has the same question
   (`repositories/ragEval.ts:809`). When two cases ask the same and one of them is
   deleted after two runs, the summary compares it with the other one.
3. `chat_pages` (`PagesCoverTheConversation`). Large conversations are loaded by
   cursor pages (`README.MD:287`). The driver returns `created_at` as a Date, for
   which `normalizeTimestamp` returns null (`lib/messagePagination.ts:22`), and the
   cursor that the server itself has issued is refused with 400.
4. "a failed upload with no external object reacquires quota on the same canonical
   file" (`server/test/upload-quota-dedup.test.mjs:324`). It never gets there: of a
   failed file without bytes `checkFile` says that it exists (`upload.service.ts:456`),
   and the client stops with "File already exists (Instant Upload)". In the last
   conjunct of `StoredAsVerified` a failed file is the one thing that a check may
   report without its bytes; TLC refutes the conjunct without that exception by a
   merge that fails its hash check. `UploadTab` has the tab that then finishes
   (`CheckAnswers`).

Seven gaps contradict no statement of the repository. Each is the named exception of
a property, which thereby says that there is no other one:

- a claim may take a file over from an expired lease before it was reconciled and
  clears `conversion_generation_id` of the job (`repositories/files.ts:758`); the
  generation of the earlier attempt is then known to nobody who would clean it up
  until its file is deleted (`LostOnlyByTakeover`);
- a repeated deletion of a file whose row never learnt its key replaces the key that
  the late upload had put into the payload (`repositories/cleanupJobs.ts:316`;
  `ObjectsLostOnlyByRepeatedDeletion`);
- `cleanup_file_endpoint` bumps the version (`main.py:450`) before the row of the
  file is removed, and the removal bumps nothing: what text search finds in between
  is cached under the new version (`lateFound` in `EvidenceIsCurrent` and
  `AnswersAreFresh`);
- a batch of index entries is written after the check of its lease
  (`ingestion.py:945`), by nothing that the deletion of the file excludes: once
  `/cleanup-file` (`main.py:443`) and the job have passed in between, the entries
  belong to no row and no job (`strayed` in `IndexIsTracked`);
- a finalizer reads the children of a space or the account in a statement that locks
  none of them (`repositories/cleanupJobs.ts:840-851`), so that a late upload may open
  one again (`repositories/files.ts:468`) before the parent goes (`reopened` in
  `ParentsGoLast`); the child is carried out all the same;
- a failed archiving puts back the selection and the messages of when it was asked
  for, whatever was selected, streamed or stopped since, and leaves the flags as they
  are (`useChatStore.ts:616-620`; `restored` in `ViewShowsItsCache`);
- two probes may be under way after the probe of an opening that a late success had
  closed has failed (`circuitBreaker.ts:54`; `crossed` in `ProbesEnd`).

The strays of `StraysHaveACause` are a similar list: a storage upload is lost track
of when its request dies before the session is inserted, when an outdated request or
sweep ends a later session, or when the object of an earlier upload completes the
present session. `StoredAsVerified` excepts two merges at once (`overlap`) and merges
that died after storing (`orphan`).

### Other observations

Met while the code was modelled, and kept in the models as the code has them:

- *Templates.* The error of a failed deletion is not seen: the dialog covers the
  page's banner, and closing it clears it (`PromptTemplates.tsx:206`, `:344`). What
  is typed while a save is under way is lost when its answer shows the template; a
  deletion in flight closes the editor opened meanwhile. A creation whose answer was
  lost cannot be repeated (the name is taken) and its template is not listed until
  the page is loaded again.
- *Chat settings.* A draft made for one conversation is saved to another one when a
  late answer to a creation switches the selection under the open dialog. Saving
  moves a conversation without a space into the current one. The answer to a save
  closes the dialog and drops later edits.
- *Uploads page.* After one part has failed the other parts in flight write
  "uploading" over the error, which the timer then does not clear; changing the space
  while an error is shown stops its timer (`KnowledgeBase.tsx:62-73`). A tab that
  resumes a session replaced meanwhile completes it with parts missing, which the
  server refuses. A 404 in the middle of a direct upload is taken for a missing
  endpoint.
- *Lifecycle.* A second identical signal kills the process; a failed start with a
  worker that could not be closed leaves a live process; an evaluation claimed but
  not yet registered when `stop()` runs is not aborted, so that the shutdown runs into
  its timeout; dispatches in flight are not awaited.
- *Answers.* The sources saved after the check are the filtered list, which
  "[Source n]" no longer indexes; an answer may be graded "supported" although its
  evidence was insufficient; the first source may exceed the budget by less than its
  minimum. An answer without citations is not held against its numbers, nor against
  a passage that says the contrary (`chatSources.ts:1146-1170`): both count only where
  something is cited. A provider's stream that ends at an event boundary without
  `[DONE]` is taken as complete.
- *Chat view.* Continuing an answer while the messages that a selection has requested
  are on their way lets them replace what is shown: the rest of the answer has no
  place any more (`useChatStore.ts:792`, `:809`). `LiveAnswersSurviveSwitches` is
  therefore about answers to questions.
- *Conversations.* The copies of a branch share one `created_at`, so they are
  ordered by their random ids, and a truncation in a branch also removes what was
  earlier; "branch from this message" leaves the message out.
- *Persona.* A refresh in flight survives a reset; a reset and a refresh lock rows
  and profile in opposite orders; concurrent partial saves read, then write
  (`persona.ts:386-420`); a late answer to an analysis shows a hidden insight again.
- *Evaluations.* Starting a run does not check its limit again under the lock. Three
  requests may deadlock with a completion (`CirclesPassTheCompletion`); the deletion
  of a case during a completion fails the attempt. The page's details stay at
  their spinner when a poll or a cancellation overtakes the first load
  (`RagEvaluation.tsx:1096`); a case added after the selected dataset was deleted is
  ignored without a word (`:892`).
- *Lists.* A failed rename, update or archive restores a snapshot of the whole list,
  which brings back what was deleted and drops what was created meanwhile. Sending
  before the first load has answered drops the load; a double Enter without a
  conversation creates two; late answers after a logout fill the store again.
- *Accounts.* A late answer to a change of the profile may show the former user; a
  late answer to a logout clears the cookies of a new login.

## Proofs

Every invariant and every action property of the passing runs is the statement of a
theorem; the theorems hold for every value of the constants. The assumptions are the
named `ASSUME`s of the modules:

- bounds are natural numbers, positive where the code's limits are; an access token
  lives no longer than a session; a case limit per run is within that of the dataset;
- the null value is none of the values it stands beside (`NoOneAssumption` says of
  `CleanupJobs` that it is no row either), and resources of different kinds, and the
  names "temp", `New` and `Nobody` of the chat view, differ;
- what the code counts, files, streams, cases, datasets, templates, is finite, as
  are the numbers that a claim cites;
- of a document that is found, the tokens of its head and of its text are natural
  numbers, and its score is an integer.

| theorem | module | states |
|---|---|---|
| `TypeCorrect`, `Invariant` | `FileIngestionProofs` | `Spec => []TypeOK`, `Spec => []IInv` |
| `ServedWhole`, `CompletedServes`, `CleanupSpares` | | `ServedIsWhole`, `CompletedServesLatest`, `CleanupSparesPublishable` |
| `PublicationForward`, `CompletedStays`, `DeletionStays`, `OnlyTakeoverLoses` | | four action properties, the last one `LostOnlyByTakeover` |
| `Implements` | `FileIngestionProofs` | `Spec => Publication!Spec`, the property `ImplementsPublication` |
| `ReadersSeeWholeVersions` | `ChatProofs` | of `DocumentPublication`: what is served is whole |
| `CleanupInvariant` | `CleanupProofs` | `Spec => []IInv` |
| `IndexTracked`, `ParentsLast`, `OnlyRepeatedDeletionLoses` | | `IndexIsTracked`, `ParentsGoLast`, `ObjectsLostOnlyByRepeatedDeletion` |
| `RunsInvariant`, `LastCounts`, `EndedStays` | `RagEvalProofs` | `[]IInv`, `LastAttemptCounts`, and that a run which has ended never changes |
| `EveryRunIsWhole`, `EveryCirclePassesTheCompletion`, `SummariesFit` | | `RunsAreWhole`, `CirclesPassTheCompletion`, `SummaryFits` |
| `CacheInvariant`, `CurrentEvidence`, `FreshAnswers` | `ServiceProofs` | `[]CacheInv`, `EvidenceIsCurrent`, `AnswersAreFresh` |
| `LimitsAlwaysHold`, `ProbesAlwaysEnd`, `AnalysesYield`, `WorkEndsFirst` | | `LimitsHold`, `ProbesEnd`, `AnalysisYields`, `WorkEndsBeforeThePool` |
| `MultipartInvariant`, `PublishedStored`, `StraysCaused` | `UploadProofs` | `[]MultipartInv`, `PublishedIsStored`, `StraysHaveACause` |
| `ChunkedInvariant`, `ChunksStoredAsVerified`, `QuotasHold` | | `[]ChunkedInv`, `StoredAsVerified`, `QuotaHolds` |
| `AccountsStayRight`, `LoginsHaveOneSession`, `LoginsEnd`, `LogoutsEndLogins` | `AccountProofs` | `[]AccountsInv`, `OneSessionPerLogin`, `LoginsEndOnTime`, `LogoutEndsTheLogin` |
| `GateCountsEveryStream`, `HalfAnswersAreOfStops` | `ChatProofs` | `GateCountsStreams`, `HalfAnswersAreStops` |
| `TruncationsReachTheEnd` | | `TruncationReachesTheEnd` |
| `ContextsFit`, `CitationsNameSources` | | `ContextFits`, `CitationsNameTheirSources` |
| `ListsAlwaysSettle`, `UploadsAlwaysSettle`, `FormsKeepTheirRows` | `ClientProofs` | `ListsSettle`, `UploadsSettle`, `FormsReachTheirRows` |
| `ChatShowsItsCache`, `AnswersKeepTheirPlace` | | `ViewShowsItsCache`, `LiveAnswersSurviveSwitches` |

None of the safety properties is inductive. Each proof has an inductive invariant
made of named parts, which TLC has checked on the runs, one step per action, and
below it one per part that the action can disturb.

**FileIngestion.** That a served generation is whole depends on no late worker
writing to it, thus on what the phase of a thread says about the generation it works
on, and on which cleanups can exist. `IInv` adds to the types

- `ClaimsInOrder`: an attempt that was not drawn has touched nothing;
- `RowsOfClaims`: the rows of a file refer to its own attempts, the served
  generation is not newer than the claim, and a job refers to the generation of its
  own attempt only, so a fence on the attempt is one on the generation;
- `StatusesAgree`: a live lease means that file and job are processing; a completed
  job is one whose generation is served;
- `PhaseTellsParts`: what exists of a generation in each phase of its attempt. Each
  part may be missing for one reason only, a cleanup or the deletion of the file, and
  a leased attempt has no cleanup;
- `ServedIsFinished`: the thread of a served generation has ended, so that none of
  its steps can take a part away;
- `LeftoversAreRetired`: a generation that a job still refers to after processing
  was retired, or is served. This is what makes the takeover the only leak.

The refinement maps the stages of a generation to those of a version: retired, ready
if every part is there, building otherwise. Each action publishes, builds, abandons,
dismantles or removes, or stutters; four lemmas say what has to be shown for each
kind.

**CleanupJobs.** A worker does something at a store and records it later, with the
copy of the row that its claim returned, while requests open the job again, add keys
to it or take its lease away. The invariant says (`WorkIsDone`) that a worker which
still holds the lease has a copy no older than the row: its steps are among those of
the row, the keys of the row among its own, and what it is about to record is done.
Around it, `RowsMatchJobs` ties the status of a file to its job and to its owners,
`OwnersMatchJobs` that of spaces and the account to theirs, `KeysMatchJobs` says that
a job deletes the objects of its own resource only and that a row with a key has it
in the job, `EntriesHaveJobs` that entries of a file which is not stored, and that were
not written late, have a job that will remove them. `AttemptsLeft` makes a queued job
one that can be claimed. The two action properties follow from the invariant and the one
action that matters for each. For `ParentsGoLast` that is the commit of a finalizer. It
`Owns` its job by the lock of its transaction, whatever becomes of its lease, and
`EndingsHold` says what its look at the children is still worth: each of them is
completed or was opened again since. That needs `ChildrenAreFiles` (a parent is the child
of nobody) and that nobody becomes a child of a parent that is ending (`ChildStep`), since
a request that would add one waits for the row of the parent.

**RagEvalRuns.** An overtaken attempt stores nothing since tokens are drawn by
counting (`AttemptsWereDrawn`, `AttemptsDiffer`) and a lease carries the latest
(`RowAgrees`). That the holder of a lease can be aborted (`HoldersAreRegistered`)
needs that an execution is registered within its lease (`StartsInTime`): a later
attempt of the same run at the same server replaces the entry only after the lease
has passed on.

**RetrievalCache.** Evidence kept under a scope was found after the versions of the
scope were read, and what it was found in changes only together with the versions.
So an entry is `Good` for its scope: while the versions are the scope's it is
`Current`, and every request that can still reach the scope may show it (`Fresh`).
`Reachable` is what makes this inductive: a request reads the knowledge version
first, so it reaches only scopes that are not older than what it has read.

**RateLimits.** What a bucket let through it has counted, and a window that is open
ends a window's length after it opened (`LimitsInv`).

**RagClient.** `ProbesMatch`: the circuit is probing only if some call has its probe,
and there is no other, unless a probe of an earlier opening has failed. `InBudget`:
what a call has used and what its timer still allows stay within the total timeout.

**RuntimeLifecycle.** `Phases` says what there is to close in each phase of the start,
`Stops` what has ended in each phase of the end; `Ends` is about the exit with 0.

**MultipartUpload.** A handler acts on what it learnt some steps ago, and its last
statement names the file only. `RequestsAreRight` says what is still true of what it
learnt: an upload that the store did not know is not open again, and an object that
was seen is there unless the file is being deleted. That is enough for
`PublishedIsStored`; nothing needs to be known of whose object it is. For
`StraysHaveACause` the invariant adds who knows a storage upload: `NewAreOwned`, that
an upload without a session is known to its creator alone, `KnownAreUsed`, that
nobody knows one that is not yet created, and `CleanIsRight`, that the cleanup job
has the upload of a session that is still active. The lemmas `SessionEnds`,
`CreatorMoves`, `CleanMoves` and `StoreOpens` list the steps by which an upload can
lose each of those who know it; in the steps that are not among the three causes the
upload is no longer open.

**ChunkedUpload.** Each step touches one file, so the invariant is one of a file
(`FileIsRight`) and every other file is `Untouched`. `MergeIsRight` says that of a
file in which two merges never met, the one that runs finds its row without a key
until it publishes it, stores what it verified, and has stored it when it publishes;
`RowIsRight` that only a deleted or deleting file has a cleanup job, and that a row
has a key when it says so. `StoredIsRight` is the property itself.

**The quotas.** `QuotaInv` adds to it what a file is charged for (`ChargeIsRight`): while
it waits for its bytes it is charged for all of them, so the step that publishes them
moves a charge from one sum to the other and never adds one. `SumChanges` says by how
much a sum over the files differs when one of them changes. It is an induction over
finite sets, done by hand: among the subsets of a finite set for which something fails
one is least (`LeastSubset`).

**Accounts.** Several hands hold tokens: the cookie jar, the requests that are on their
way and the answers that will change the jar. `NewAreUnseen` says that until an answer
arrives nobody has the token it brings, so it is brought once. Of a login of which no
overlap was recorded, `NewestAreHeld` says that what an answer brings, what the jar has
while nothing refreshes it, and what a logout names, is the one token that may be live;
`OverlapsAreRecorded` that a refresh which meets a logout of its login is recorded. So a
logout deletes the last token of its login, and nothing can bring another one
(`LogoutsAreLast`). The time of a login is a fact of its grants: the tokens of a login
expire together (`SessionsAreRight`), and no access token outlives them.

**Datasets of evaluations.** `LocksAreRight` says that exactly the request which is past
the lock has the row of the dataset, so what a request counted under the lock is still
true when it stores (`TxsAreRight`), and one run is under way at a time. A circle of
`WaitsFor` that avoids the completion would need two holders of that one lock.

**The evaluation page.** `Known` are the things that were true of a dataset: they stay
known, since runs go forward. `Summed` says that the summary is of what is shown, or that
the request under way will make it so. The rest is about one page at a time: each handler
is a sequence of small changes of the page, and a lemma says of each what it keeps.

**Persona.** An analysis holds the lock of the profile from its first read on
(`ProfileIsLocked`), so nobody switches the memory off under it; it deletes rows under
their locks, and only those the user has not chosen (`RowsAreDeleted`).

**ChatStreams.** `GateIsRight` says that the gate has counted the streams that run, per
user and in all; each step enters, leaves, or keeps that set. A row of the log refers to
its stream (`AnswerIsRight`), so that a half answer has a stream whose client has left.

**MessageHistory.** `HistoryInv` says of the main conversation that times never run
against places, and of a branch that it has one time. A truncation compares times, hence
removes with a message all that were after it; a cut is remembered until the room grows.

**GroundedAnswers.** The invariant is short (`GroundedInv`: the context is the packing of
what was found), the work is in the packing. Its recursive functions are taken apart by
`EveryNumber` (a set of numbers with 0 and every successor is all of them) and their
values are named `Sums` of a list. The order is one: any two places that differ are in
it one way, it is transitive, so the number of those ahead is a different place for each
document (`FirstsFirst` says what the order promises). The minima fit since no document
is shown beyond the first that does not fit; the shares by weight, rounded down, do not
exceed the rest; and what is then left is given in order, until it is used up
(`GivenInOrder`). The numbers of the sources are those of the prompt since both the label
of a passage and its place in the filtered list count the passages before it
(`Numbered`). What is saved with an answer that cites are the sources that survived the
check (`Kept`), by a citation that holds or as the first that supports a claim without one.

**ClientLists.** A list fits the server's rows but for the change under way, unless a
change has failed since it was read (`ListFits`); so does what a request has read for it.
Of each item one change is under way (`ChangesInOrder`).

**UploadTab.** `NothingForgotten` says that each part which an upload does not still send
is with the server, or that another storage upload has taken the place of its own, whose
generation is later. `BannerTells` ties the banner to an upload under way or to a timer.

**ChatView.** Most handlers change one conversation and then set the flags of what is
shown; `ViewReady` is what holds before and `FlagsRight` what holds after. `AnswerLive`
is the part for `AnswersKeepTheirPlace`: messages that a selection requested, and that
will still replace the cache, have found no live answer there. What a failed archiving
brings back is excepted until the next selection (`restored`), which sets view and flags
anew. `TempListed` and
`ListedExist` say that what is shown is listed and that what is written to exists,
without which a late answer could recreate what was deleted.

**ClientForms.** The list of templates is that of the rows the server had before the
change under way (`ListTells`), unless an answer was lost; a draft and each save on its
way are of the conversation they will be saved to, unless the selection was moved under
the open dialog.

Only model-checked is liveness: `EveryFileSettles`, `RepairsEnd`, `RunsEnd`,
`EndedRunsShow`, `LeavingFreesThePlace`, `PollingGoesOn`. The prover handles neither
fairness nor ENABLED. Of `ImplementsPublication` and `LiveAnswersSurviveSwitches`, which
are temporal too, every step is proved, as they need no fairness. The three
counterexamples are TLC's, of course. Where a fact needs an induction over a list, a set
or a number it is done with the least counterexample, since the library's induction
theorems take an operator, which no installed prover can instantiate.

## What is not modelled

- The other ingestion paths of `process_file` (streaming and standard): every file
  has a document kind since migration 0032, so they are not reached.
- The text, scores and formats: retrieval heuristics, converters, metrics. A model of
  them would be a program over characters.
- In the retrieval cache: entries for single planned queries and conversations,
  questions over all spaces, and the lock that lets one of several equal requests
  retrieve while the others wait. The lock changes who retrieves, not what may be
  found.
- The connection pool of the RAG service, health and usage reports, the workbench,
  and the pages that only present fetched data.
- The check of answers in an evaluation (`evaluateAnswerClaims`): it splits an answer
  into other claims than the chat's check, and looks at other marks of them.
- In the browser: older pages of messages, drafts and the opening of a branch in the
  chat view; the percentages of uploads and
  the deletion of a document that is being uploaded.

## Plan

The plan of this project is carried out: each module it named is there, each run has its
properties, and each safety property its theorem. What could follow is

1. liveness, should a prover for fairness become available: the measures would be the
   attempts that are left, for ingestion and cleanup, and the phase of each request;
2. the parts listed above that are not modelled, of which the lock of equal requests in
   the retrieval cache has the most concurrency;
3. a composition of `ChatStreams` and `ChatView` over one channel of events, in place of
   the border each has now.
