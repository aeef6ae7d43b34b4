--------------------------- MODULE KnowledgeFiles ---------------------------
(* The documents of a space in the web client: one list that the pages share, *)
(* one request for it, and a poller that asks again while documents are still *)
(* worked on (useKnowledgeFilesStore, createCompletionPoller).                *)
EXTENDS Naturals, FiniteSets, CompletionPoller

CONSTANTS
    Space,    \* the spaces of the user
    Nowhere,  \* no space, no request
    MaxFail   \* bound of the requests that fail and of the deletions

ASSUME KnowledgeFilesAssumption == Nowhere \notin Space /\ MaxFail \in Nat

VARIABLES
    view,     \* the space that is selected, and whether its page is open
    files,    \* the list: of which space, loaded, with documents in work
    request,  \* the request that is on its way: its space, what the server read
    poller,   \* createCompletionPoller, and the space that is polled
    working,  \* the server: whether a space has documents in work
    changing, \* the change that waits for its answer, with its space (a bound: one)
    fails

fileVars == <<view, files, request, poller, working, changing, fails>>

Change == {"retry", "delete", "upload"}
Idle == [of |-> Nowhere, at |-> "none", busy |-> FALSE]

FilesTypeOK ==
    /\ view.of \in Space /\ view.open \in BOOLEAN
    /\ files.of \in Space \cup {Nowhere}
    /\ {files.loaded, files.fresh, files.busy, files.loading} \subseteq BOOLEAN
    /\ request.at \in {"none", "asked", "served"}
    /\ files.loading = (request.at # "none")
    /\ poller.of \in Space \cup {Nowhere}
    /\ poller.task \in {"none", "begun", "waiting", "over"}
    /\ {poller.running, poller.timer, poller.again} \subseteq BOOLEAN
    /\ poller.timer => poller.running /\ poller.task = "none"
    /\ poller.again => poller.running /\ poller.task # "none"
    /\ working \in [Space -> BOOLEAN]
    /\ changing \subseteq Change \X Space /\ fails \in 0..MaxFail

FilesInit ==
    /\ view \in [of : Space, open : {FALSE}]
    /\ files = [of |-> Nowhere, loaded |-> FALSE, fresh |-> FALSE, busy |-> FALSE,
                loading |-> FALSE]
    /\ request = Idle
    /\ poller = [of |-> Nowhere, running |-> FALSE, timer |-> FALSE, again |-> FALSE,
                 task |-> "none"]
    /\ working \in [Space -> BOOLEAN]
    /\ changing = {} /\ fails = 0

-----------------------------------------------------------------------------
\* The request a task waits for is answered or aborted.
Woken(p) == IF p.task = "waiting" THEN [p EXCEPT !.task = "over"] ELSE p

-----------------------------------------------------------------------------
(* The store. *)

IsFresh(s) == files.loaded /\ files.of = s /\ files.fresh
Joins(s) == request.at # "none" /\ request.of = s

\* A request of fetchFiles: another one is aborted, and the list of another
\* space forgotten.
Requested(s) ==
    /\ files' = IF files.of = s THEN [files EXCEPT !.loading = TRUE]
                ELSE [of |-> s, loaded |-> FALSE, fresh |-> FALSE, busy |-> FALSE,
                      loading |-> TRUE]
    /\ request' = [of |-> s, at |-> "asked", busy |-> FALSE]

\* fetchFiles, of the pages and of a change that was made.
Fetch(s, force) ==
    IF ~force /\ (IsFresh(s) \/ Joins(s)) THEN UNCHANGED <<files, request, poller>>
    ELSE Requested(s) /\ poller' = Woken(poller)

\* startPolling
PollingStarted(p, s, f) ==
    LET q == [p EXCEPT !.of = s] IN
    IF f.loaded /\ f.of = s /\ f.fresh
    THEN IF f.busy THEN Started(q) ELSE Stopped(q)
    ELSE StartedNow(q)

\* stopPolling
PollingStopped(p, s) == IF p.of = s THEN Stopped([p EXCEPT !.of = Nowhere]) ELSE p

ServeFiles ==
    /\ request.at = "asked"
    /\ request' = [request EXCEPT !.at = "served", !.busy = working[request.of]]
    /\ UNCHANGED <<view, files, poller, working, changing, fails>>

\* The answer is published; the poller goes on while documents are in work.
FilesAnswer ==
    LET p == IF poller.of # request.of THEN poller
             ELSE IF request.busy THEN Started(poller) ELSE Stopped(poller)
    IN
    /\ request.at = "served"
    /\ files' = [of |-> request.of, loaded |-> TRUE, fresh |-> TRUE,
                 busy |-> request.busy, loading |-> FALSE]
    /\ request' = Idle
    /\ poller' = Woken(p)
    /\ UNCHANGED <<view, working, changing, fails>>

FilesFail ==
    /\ request.at # "none" /\ fails < MaxFail
    /\ files' = [files EXCEPT !.loading = FALSE]
    /\ request' = Idle
    /\ poller' = Woken(poller)
    /\ fails' = fails + 1
    /\ UNCHANGED <<view, working, changing>>

\* Two seconds after the answer.
NoLongerFresh ==
    /\ files.fresh
    /\ files' = [files EXCEPT !.fresh = FALSE]
    /\ UNCHANGED <<view, request, poller, working, changing, fails>>

PollTimerFires ==
    /\ poller.timer
    /\ poller' = RunTask([poller EXCEPT !.timer = FALSE])
    /\ UNCHANGED <<view, files, request, working, changing, fails>>

\* The task: it asks for the space that is polled by now.
TaskAsks ==
    LET s == poller.of IN
    /\ poller.task = "begun"
    /\ IF s = Nowhere \/ IsFresh(s)
       THEN poller' = [poller EXCEPT !.task = "over"] /\ UNCHANGED <<files, request>>
       ELSE /\ poller' = [poller EXCEPT !.task = "waiting"]
            /\ IF Joins(s) THEN UNCHANGED <<files, request>> ELSE Requested(s)
    /\ UNCHANGED <<view, working, changing, fails>>

TaskEnds ==
    /\ poller.task = "over"
    /\ poller' = TaskSettled(poller)
    /\ UNCHANGED <<view, files, request, working, changing, fails>>

-----------------------------------------------------------------------------
(* The pages. *)

\* The layout asks for the documents of a space that is selected; the page
\* polls it instead of the one before.
ShowSpace(s) ==
    /\ s # view.of
    /\ view' = [view EXCEPT !.of = s]
    /\ IF view.open
       THEN /\ UNCHANGED <<files, request>>
            /\ poller' = PollingStarted(PollingStopped(poller, view.of), s, files)
       ELSE Fetch(s, FALSE)
    /\ UNCHANGED <<working, changing, fails>>

\* The knowledge page is opened or left.
TogglePage ==
    /\ view' = [view EXCEPT !.open = ~@]
    /\ poller' = IF view.open THEN PollingStopped(poller, view.of)
                 ELSE PollingStarted(poller, view.of, files)
    /\ UNCHANGED <<files, request, working, changing, fails>>

\* cancelFetch
Cancelled(f, s) == [f EXCEPT !.loading = @ /\ ~Joins(s)]
CancelsRequest(s) == request' = IF Joins(s) THEN Idle ELSE request
WokenBy(s) == IF Joins(s) THEN Woken(poller) ELSE poller

\* handleRetryFile, handleFileUpload: of the space the page shows now.
AskChange(kind) ==
    /\ view.open
    /\ kind = "retry" => files.of = view.of /\ files.loaded
    /\ changing = {} /\ changing' = {<<kind, view.of>>}
    /\ UNCHANGED <<view, files, request, poller, working, fails>>

\* The document is queued: a list that was asked for before is cancelled, the
\* document put into the list, and the space it was in polled.
RetryAnswers(s) ==
    LET f == [Cancelled(files, s) EXCEPT !.busy = TRUE] IN
    /\ <<"retry", s>> \in changing
    /\ changing' = {}
    /\ working' = [working EXCEPT ![s] = TRUE]
    /\ files' = f /\ CancelsRequest(s)
    /\ poller' = PollingStarted(WokenBy(s), s, f)
    /\ UNCHANGED <<view, fails>>

\* confirmDeleteFile: the document, perhaps the last one in work, goes from
\* the list before the server is asked.
AskDelete ==
    LET s == view.of IN
    /\ view.open /\ files.of = s /\ files.loaded /\ fails < MaxFail
    /\ changing = {} /\ changing' = {<<"delete", s>>}
    /\ fails' = fails + 1
    /\ \E busy \in {FALSE, files.busy} : files' = [Cancelled(files, s) EXCEPT !.busy = busy]
    /\ CancelsRequest(s) /\ poller' = WokenBy(s)
    /\ UNCHANGED <<view, working>>

DeleteAnswers(s) ==
    /\ <<"delete", s>> \in changing
    /\ changing' = {}
    /\ \E busy \in {FALSE, files.busy} : files' = [files EXCEPT !.busy = busy]
    /\ UNCHANGED <<view, request, poller, working, fails>>

\* refreshFiles: the deletion failed, or the upload was stored.
Refreshes(s) ==
    /\ \/ <<"delete", s>> \in changing /\ UNCHANGED working
       \/ <<"upload", s>> \in changing /\ working' = [working EXCEPT ![s] = TRUE]
    /\ changing' = {}
    /\ Fetch(s, TRUE)
    /\ UNCHANGED <<view, fails>>

\* The work of the server on a space's documents is done.
WorkEnds(s) ==
    /\ working[s]
    /\ working' = [working EXCEPT ![s] = FALSE]
    /\ UNCHANGED <<view, files, request, poller, changing, fails>>

PollerStep == PollTimerFires \/ TaskAsks \/ TaskEnds

FilesNext ==
    \/ ServeFiles \/ FilesAnswer \/ FilesFail \/ NoLongerFresh
    \/ PollerStep
    \/ \E s \in Space :
         ShowSpace(s) \/ RetryAnswers(s) \/ DeleteAnswers(s) \/ Refreshes(s) \/ WorkEnds(s)
    \/ \E kind \in Change \ {"delete"} : AskChange(kind)
    \/ TogglePage \/ AskDelete

\* Timers fire, requests are answered or fail, and the work of a document ends;
\* nothing obliges the user.
FilesFairness ==
    WF_fileVars(PollerStep) /\ WF_fileVars(ServeFiles) /\ WF_fileVars(FilesAnswer)
      /\ WF_fileVars(NoLongerFresh)

-----------------------------------------------------------------------------

\* A list that is polled does not show documents in work for ever when the
\* server's work has ended, whatever is stopped, restarted, aborted and failed
\* on the way (createCompletionPoller, startPolling).
PollingGoesOn ==
    /\ []FilesTypeOK
    /\ []<>~(/\ files.of = poller.of /\ files.of \in Space
          /\ files.busy /\ ~working[files.of])
=============================================================================
