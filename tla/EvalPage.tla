------------------------------- MODULE EvalPage -------------------------------
(* The page of the evaluations in the web client: the list of datasets, the   *)
(* summary of the one that is shown and the details of a run are read by      *)
(* requests that overtake each other, while runs begin and end at the server. *)
(* Each kind of request has one ticket of the page's RequestGenerationGuard.  *)
EXTENDS Naturals, Sequences, FiniteSets, CompletionPoller, ArrayFilter

CONSTANTS
    Dataset,   \* the datasets that ever exist
    NoDataset,
    RunsEach,   \* bound: runs of a dataset
    MaxAsks,   \* bound: changes the user makes
    MaxLost    \* bound: requests that fail

ASSUME EvalPageAssumption ==
    /\ IsFiniteSet(Dataset) /\ NoDataset \notin Dataset
    /\ {RunsEach, MaxAsks, MaxLost} \subseteq Nat

Ticket == {"datasets", "quality", "details", "cancel"}
Polled == {"datasets", "details"}

(* How far the runs of a dataset are: the k-th is running at 2 * k - 1 and    *)
(* has ended at 2 * k.                                                        *)
Progress == 0 .. 2 * RunsEach
IsRunning(n) == n % 2 = 1
SameRun(n, m) == (n + 1) \div 2 = (m + 1) \div 2

VARIABLES
    evaluated,  \* the server: the datasets that exist, and their progress
    page,       \* what the page keeps and shows
    asked,      \* the requests that hold the tickets
    edits,      \* the changes whose answers the page waits for
    left        \* of the bounds

pageVars == <<evaluated, page, asked, edits, left>>

Absent == 2 * RunsEach + 1
Deleted == 2 * RunsEach + 2
Exists == {d \in Dataset : evaluated[d] \in Progress}
Entry == [of : Dataset, run : Progress]
NoEntry == [of |-> NoDataset, run |-> 0]
Quiet == [at |-> "none", of |-> NoDataset, found |-> <<>>, polled |-> FALSE]
Closed == [open |-> FALSE, run |-> NoEntry, loading |-> FALSE]
NewPage == [list |-> <<>>, chosen |-> NoDataset, summary |-> NoEntry, modal |-> Closed,
            poller |-> [k \in Polled |-> NewPoller]]

PageTypeOK ==
    /\ evaluated \in [Dataset -> Progress \cup {Absent, Deleted}]
    /\ page.list \in Seq(Entry) /\ page.chosen \in Dataset \cup {NoDataset}
    /\ {page.summary, page.modal.run} \subseteq Entry \cup {NoEntry}
    /\ {page.modal.open, page.modal.loading} \subseteq BOOLEAN
    /\ \A k \in Polled : page.poller[k].timer => page.poller[k].running
    /\ \A k \in Ticket :
         /\ asked[k].at \in {"none", "asked", "served"}
         /\ asked[k].found \in Seq(Entry) /\ asked[k].polled \in BOOLEAN
    /\ edits \subseteq [kind : {"create", "edit", "delete", "run"}, of : Dataset,
                        at : {"asked", "served"}, run : Progress]
    /\ left \in [asks : 0 .. MaxAsks, lost : 0 .. MaxLost]

-----------------------------------------------------------------------------
(* RequestGenerationGuard. A state s is the page with its requests. *)

Here == [page |-> page, asked |-> asked]

\* abort, finish: the task that waited for the request is over.
Over(s, k) ==
    LET t == [s EXCEPT !.asked[k] = Quiet] IN
    IF s.asked[k].polled THEN [t EXCEPT !.page.poller[k] = TaskSettled(@)] ELSE t

\* begin: the request before it is aborted.
Begun(s, k, d) == [Over(s, k) EXCEPT !.asked[k] = [Quiet EXCEPT !.at = "asked", !.of = d]]

-----------------------------------------------------------------------------
(* What the page shows, and the effects that follow from it. *)

Listed(s) == {s.page.list[i].of : i \in DOMAIN s.page.list}

\* selectedDataset and its latest run: the one that is selected, or the first.
Shown(s) ==
    LET all == s.page.list
        list == Without(all, {i \in DOMAIN all : all[i].of # s.page.chosen}) \o all
    IN  IF list = <<>> THEN NoEntry ELSE Head(list)

\* Mutant: the list is polled while the run that is shown is running.
FollowsShown(s, k) ==
    IF k = "datasets" THEN IsRunning(Shown(s).run)
    ELSE /\ s.page.modal.open /\ IsRunning(s.page.modal.run.run)
         /\ s.asked["cancel"].of # s.page.modal.run.of

\* What is polled: the list while a run of it is running, and the details of a
\* run that is running and not being cancelled.
Follows(s, k) ==
    IF k = "datasets" THEN \E i \in DOMAIN s.page.list : IsRunning(s.page.list[i].run)
    ELSE /\ s.page.modal.open /\ IsRunning(s.page.modal.run.run)
         /\ s.asked["cancel"].of # s.page.modal.run.of

\* A poller begins anew; one that is stopped no longer waits for its request,
\* and the request for the details is aborted.
PollerEffect(s, t, k) ==
    IF Follows(s, k) = Follows(t, k) THEN t
    ELSE IF Follows(t, k) THEN [t EXCEPT !.page.poller[k] = Started(NewPoller)]
    ELSE LET u == [t EXCEPT !.page.poller[k] = NewPoller, !.asked[k].polled = FALSE]
         IN  IF k = "details" THEN Over(u, k) ELSE u

\* Mutant: the summary is read again for another dataset only.
QualityEffectOfDataset(s, t) ==
    IF Shown(s).of = Shown(t).of THEN t
    ELSE IF Shown(t) = NoEntry
    THEN [Over(t, "quality") EXCEPT !.page.summary = NoEntry]
    ELSE Begun(t, "quality", Shown(t).of)

\* The summary is read again whenever the latest run shown is another one or
\* has another status.
QualityEffect(s, t) ==
    IF Shown(s) = Shown(t) THEN t
    ELSE IF Shown(t) = NoEntry
    THEN [Over(t, "quality") EXCEPT !.page.summary = NoEntry]
    ELSE Begun(t, "quality", Shown(t).of)

\* The state is rendered as t, and the effects run one after the other.
Renders(t) ==
    \E s \in {t} : \E q \in {QualityEffect(Here, s)} :
        \E l \in {PollerEffect(Here, q, "datasets")} :
            \E u \in {PollerEffect(Here, l, "details")} : page' = u.page /\ asked' = u.asked

\* mergeRunIntoDatasets
Merged(list, found) ==
    [i \in DOMAIN list |->
       IF \E j \in DOMAIN found : found[j].of = list[i].of /\ SameRun(found[j].run, list[i].run)
       THEN found[1] ELSE list[i]]

-----------------------------------------------------------------------------
(* The requests. *)

PageInit ==
    /\ evaluated \in [Dataset -> {0, 1, Absent}]
    /\ page = NewPage
    /\ asked = [k \in Ticket |-> Quiet]
    /\ edits = {} /\ left = [asks |-> MaxAsks, lost |-> MaxLost]

\* The orders in which the server may list the datasets.
Lists == {list \in [1 .. Cardinality(Exists) -> Exists] :
            \A i, j \in DOMAIN list : list[i] = list[j] => i = j}

NowAt(d) == [of |-> d, run |-> evaluated[d]]

\* The server reads for a request. A run that is cancelled ends by that.
Serve(k) ==
    LET d == asked[k].of IN
    /\ asked[k].at = "asked"
    /\ IF k = "datasets"
       THEN /\ UNCHANGED evaluated
            /\ \E list \in Lists : asked' = [asked EXCEPT ![k].at = "served",
                    ![k].found = [i \in DOMAIN list |-> NowAt(list[i])]]
       ELSE /\ d \in Exists
            /\ k = "cancel" => IsRunning(evaluated[d])
            /\ evaluated' = IF k = "cancel" THEN [evaluated EXCEPT ![d] = @ + 1] ELSE evaluated
            /\ asked' = [asked EXCEPT ![k].at = "served",
                                      ![k].found = <<[of |-> d, run |-> evaluated'[d]]>>]
    /\ UNCHANGED <<page, edits, left>>

DatasetsAnswer ==
    LET list == asked["datasets"].found
        s == Over(Here, "datasets") IN
    /\ asked["datasets"].at = "served"
    /\ Renders([s EXCEPT !.page.list = list,
                  !.page.chosen = IF @ = NoDataset /\ list # <<>> THEN list[1].of ELSE @])
    /\ UNCHANGED <<evaluated, edits, left>>

QualityAnswer ==
    /\ asked["quality"].at = "served"
    /\ Renders([Over(Here, "quality") EXCEPT !.page.summary = asked["quality"].found[1]])
    /\ UNCHANGED <<evaluated, edits, left>>

\* Of handleViewRunDetails, or of the poller, which does not end the loading.
DetailsAnswer ==
    LET found == asked["details"].found IN
    /\ asked["details"].at = "served"
    /\ Renders([Over(Here, "details") EXCEPT
                  !.page.modal.run = found[1],
                  !.page.modal.loading = @ /\ asked["details"].polled,
                  !.page.list = Merged(@, found)])
    /\ UNCHANGED <<evaluated, edits, left>>

\* invalidateDatasetRequests
Invalidated(s) == Over(s, "datasets")

CancelAnswer ==
    LET found == asked["cancel"].found
        s == Invalidated(Over(Here, "cancel")) IN
    /\ asked["cancel"].at = "served"
    /\ Renders([s EXCEPT !.page.list = Merged(@, found),
                  !.page.modal.run = IF @.of = found[1].of /\ SameRun(@.run, found[1].run)
                                     THEN found[1] ELSE @])
    /\ UNCHANGED <<evaluated, edits, left>>

\* The dataset has gone, or the run that is to be cancelled has ended.
Refused(k) ==
    /\ k # "datasets" /\ asked[k].at = "asked"
    /\ asked[k].of \in Exists => k = "cancel" /\ ~IsRunning(evaluated[asked[k].of])

\* A request fails: the details that were asked for are closed.
Fails(k) ==
    LET s == Over(Here, k) IN
    /\ asked[k].at = "asked"
    /\ \/ Refused(k) /\ UNCHANGED left
       \/ left.lost > 0 /\ left' = [left EXCEPT !.lost = @ - 1]
    /\ Renders(CASE k = "quality" -> [s EXCEPT !.page.summary = NoEntry]
                 [] k = "details" /\ ~asked[k].polled ->
                      [s EXCEPT !.page.modal.open = FALSE, !.page.modal.loading = FALSE]
                 [] OTHER -> s)
    /\ UNCHANGED <<evaluated, edits>>

\* Three seconds after the task before, or after the poller began.
PollAgain(k) ==
    LET p == RunTask([page.poller[k] EXCEPT !.timer = FALSE]) IN
    /\ page.poller[k].timer
    /\ Renders([Begun([Here EXCEPT !.page.poller[k] = p], k,
                      IF k = "details" THEN page.modal.run.of ELSE NoDataset)
                  EXCEPT !.asked[k].polled = TRUE])
    /\ UNCHANGED <<evaluated, edits, left>>

-----------------------------------------------------------------------------
(* The user. *)

Choose(d) ==
    /\ d \in Listed(Here) /\ d # page.chosen
    /\ Renders([Here EXCEPT !.page.chosen = d])
    /\ UNCHANGED <<evaluated, edits, left>>

\* handleViewRunDetails: a run whose results are in the list already, since
\* they were merged into it, is not asked for.
ViewDetails ==
    LET e == Shown(Here)
        s == [Over(Here, "details") EXCEPT !.page.modal.open = TRUE, !.page.modal.run = e]
    IN
    /\ ~page.modal.open /\ e.run > 0
    /\ \/ Renders(Begun([s EXCEPT !.page.modal.loading = TRUE], "details", e.of))
       \/ ~IsRunning(e.run) /\ Renders([s EXCEPT !.page.modal.loading = FALSE])
    /\ UNCHANGED <<evaluated, edits, left>>

\* closeRunDetails
CloseDetails ==
    /\ page.modal.open
    /\ Renders([Over(Here, "details") EXCEPT !.page.modal = Closed])
    /\ UNCHANGED <<evaluated, edits, left>>

\* handleCancelRun
CancelRun ==
    LET e == IF page.modal.open THEN page.modal.run ELSE Shown(Here) IN
    /\ IsRunning(e.run) /\ asked["cancel"].of # e.of
    /\ left.asks > 0 /\ left' = [left EXCEPT !.asks = @ - 1]
    /\ Renders(Begun(Over(Here, "details"), "cancel", e.of))
    /\ UNCHANGED <<evaluated, edits>>

\* handleSaveDataset, handleCreateCase, handleDeleteCase, handleDeleteDataset,
\* handleRunEval; the cases are as little told apart as the names.
Ask(kind, d) ==
    /\ left.asks > 0 /\ left' = [left EXCEPT !.asks = @ - 1]
    /\ CASE kind = "create" -> evaluated[d] = Absent
         [] kind = "run" -> d = Shown(Here).of /\ ~IsRunning(Shown(Here).run)
         [] OTHER -> d \in Listed(Here)
    /\ edits' = edits \cup {[kind |-> kind, of |-> d, at |-> "asked", run |-> 0]}
    /\ UNCHANGED <<evaluated, page, asked>>

\* The server makes the change; a run under way is returned, not begun again.
Change(c) ==
    /\ c \in edits /\ c.at = "asked"
    /\ c.of \in Exists <=> c.kind # "create"
    /\ c.kind = "create" => evaluated[c.of] = Absent
    /\ c.kind = "run" => evaluated[c.of] < 2 * RunsEach
    /\ evaluated' = [evaluated EXCEPT ![c.of] =
         CASE c.kind = "create" -> 0
           [] c.kind = "delete" -> Deleted
           [] c.kind = "run" /\ ~IsRunning(@) -> @ + 1
           [] OTHER -> @]
    /\ edits' = (edits \ {c}) \cup
         {[c EXCEPT !.at = "served", !.run = IF c.kind = "run" THEN evaluated'[c.of] ELSE 0]}
    /\ UNCHANGED <<page, asked, left>>

\* The page makes it too, and drops a list that was asked for before.
EditAnswers(c) ==
    LET s == Invalidated(Here) IN
    /\ c \in edits /\ c.at = "served"
    /\ edits' = edits \ {c}
    /\ Renders(CASE c.kind = "create" ->
                      [s EXCEPT !.page.list = <<[of |-> c.of, run |-> 0]>> \o @,
                                !.page.chosen = c.of]
                 [] c.kind = "delete" ->
                      [s EXCEPT !.page.list = Without(@, {i \in DOMAIN @ : @[i].of = c.of}),
                                !.page.chosen = IF @ = c.of THEN NoDataset ELSE @]
                 [] c.kind = "run" ->
                      [s EXCEPT !.page.list = [i \in DOMAIN @ |->
                          IF @[i].of = c.of THEN [of |-> c.of, run |-> c.run] ELSE @[i]]]
                 [] OTHER -> s)
    /\ UNCHANGED <<evaluated, left>>

EditFails(c) ==
    /\ c \in edits /\ edits' = edits \ {c}
    /\ UNCHANGED <<evaluated, page, asked, left>>

\* The page is opened, and before that left, which aborts its requests.
OpenPage ==
    /\ edits = {} /\ left.asks > 0 /\ left' = [left EXCEPT !.asks = @ - 1]
    /\ page' = NewPage
    /\ asked' = [k \in Ticket |->
                    IF k = "datasets" THEN [Quiet EXCEPT !.at = "asked"] ELSE Quiet]
    /\ UNCHANGED <<evaluated, edits>>

RunEnds(d) ==
    /\ d \in Exists /\ IsRunning(evaluated[d])
    /\ evaluated' = [evaluated EXCEPT ![d] = @ + 1]
    /\ UNCHANGED <<page, asked, edits, left>>

-----------------------------------------------------------------------------

Answered == DatasetsAnswer \/ QualityAnswer \/ DetailsAnswer \/ CancelAnswer

PageNext ==
    \/ Answered
    \/ \E k \in Ticket : Serve(k) \/ Fails(k)
    \/ \E k \in Polled : PollAgain(k)
    \/ \E d \in Dataset :
         \/ Choose(d) \/ RunEnds(d)
         \/ \E kind \in {"create", "edit", "delete", "run"} : Ask(kind, d)
    \/ \E c \in edits : Change(c) \/ EditAnswers(c) \/ EditFails(c)
    \/ ViewDetails \/ CloseDetails \/ CancelRun \/ OpenPage

PageSpec == PageInit /\ [][PageNext]_pageVars

Progresses(k) ==
    Serve(k) \/ (Refused(k) /\ Fails(k)) \/ (k \in Polled /\ PollAgain(k))

\* The server answers each request, and timers fire; nothing obliges the user
\* or a run.
PageFairness ==
    /\ WF_pageVars(DatasetsAnswer \/ Progresses("datasets"))
    /\ WF_pageVars(DetailsAnswer \/ Progresses("details"))
    /\ WF_pageVars(CancelAnswer \/ Progresses("cancel"))

\* The summary that is shown, once it is loaded, is of the dataset that is shown
\* and not older than the state of the run shown beside it, whatever answers
\* late (the quality effect and its ticket).
SummaryFits ==
    /\ PageTypeOK
    /\ asked["quality"].at = "none" /\ page.summary # NoEntry =>
        LET e == Shown(Here) IN page.summary.of = e.of /\ page.summary.run >= e.run

Behind(e) == IsRunning(e.run) /\ e.of \in Exists /\ evaluated[e.of] # e.run

\* A run that has ended is not shown as running for ever, neither in the list
\* nor in its details, although requests are aborted and refused and changes
\* replace what was polled (the two pollers of the page).
EndedRunsShow ==
    /\ []<>(\A i \in DOMAIN page.list : ~Behind(page.list[i]))
    /\ []<>~(page.modal.open /\ Behind(page.modal.run))
=============================================================================
