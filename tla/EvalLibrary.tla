----------------------------- MODULE EvalLibrary -----------------------------
(* The dataset of an evaluation, its cases, and what its runs keep of them,   *)
(* with the row locks under which the transactions of PostgreSQL meet: the    *)
(* requests of the user, and the completion of the run that is under way. How *)
(* a run is claimed, retried and ended otherwise is the matter of RagEvalRuns.*)
EXTENDS Naturals, FiniteSets

CONSTANTS
    Case,           \* the cases that are ever created
    QuestionOf,     \* the question of each; two cases may ask the same
    Asking,         \* concurrent requests of the user
    MaxCases,       \* RAG_EVAL_MAX_CASES_PER_DATASET
    MaxPerRun,      \* RAG_EVAL_MAX_CASES_PER_RUN
    MaxEval         \* bound: runs that are ever created

ASSUME EvalLibraryAssumption ==
    /\ {MaxCases, MaxPerRun} \subseteq Nat \ {0} /\ MaxPerRun <= MaxCases
    /\ MaxEval \in Nat
    /\ IsFiniteSet(Case) /\ {"nobody", "completion"} \cap Asking = {}

Eval == 1 .. MaxEval
Nil == 0
Free == "nobody"
Completion == "completion"

VARIABLES
    dataset,    \* whether it exists, and who has locked its row
    cases,      \* rag_eval_cases
    evals,      \* rag_eval_runs with rag_eval_run_cases and rag_eval_results
    tx,         \* the requests and where their transactions are
    storing     \* the transaction of completeRagEvalRunWithResults

libraryVars == <<dataset, cases, evals, tx, storing>>

NoEval == [status |-> "none", count |-> 0, snapshot |-> {}, baseline |-> Nil, ok |-> {}]
NoTx == [at |-> "idle", kind |-> "none", of |-> {}, count |-> 0]
NotStoring == [eval |-> Nil, stored |-> {}, waits |-> {}]

LibraryTypeOK ==
    /\ dataset.there \in BOOLEAN /\ dataset.lock \in Asking \cup {Free}
    /\ cases \in [Case -> {"new", "stored", "gone"}]
    /\ evals \in [Eval -> [status : {"none", "running", "completed", "failed", "ended"},
                           count : 0 .. Cardinality(Case), snapshot : SUBSET Case,
                           baseline : Eval \cup {Nil}, ok : SUBSET Case]]
    /\ tx \in [Asking -> [at : {"idle", "asked", "locked", "counted", "deleted"},
                          kind : {"none", "add", "remove", "run", "drop"},
                          of : SUBSET Case, count : 0 .. Cardinality(Case)]]
    /\ storing \in [eval : Eval \cup {Nil}, stored : SUBSET Case, waits : SUBSET Case]

LibraryInit ==
    /\ dataset = [there |-> TRUE, lock |-> Free]
    /\ cases = [c \in Case |-> "new"]
    /\ evals = [e \in Eval |-> NoEval]
    /\ tx = [r \in Asking |-> NoTx]
    /\ storing = NotStoring

Stored == {c \in Case : cases[c] = "stored"}
In(status) == {e \in Eval : evals[e].status \in status}
Latest(of) == {e \in of : \A f \in of : f <= e}
OneOf(e) == IF e = {} THEN Nil ELSE CHOOSE x \in e : TRUE

Goes(r, at) == tx' = [tx EXCEPT ![r].at = at]
Unlocked(r) == IF dataset.lock = r THEN [dataset EXCEPT !.lock = Free] ELSE dataset

\* The end of a request, whose transaction is committed or rolled back.
Ends(r) ==
    /\ tx' = [tx EXCEPT ![r] = NoTx]
    /\ dataset' = Unlocked(r)

-----------------------------------------------------------------------------
(* What the service checks before it begins a transaction. *)

Asks(r, kind, of) ==
    /\ tx[r].at = "idle" /\ dataset.there
    /\ tx' = [tx EXCEPT ![r] = [NoTx EXCEPT !.at = "asked", !.kind = kind, !.of = of]]
    /\ UNCHANGED <<dataset, cases, evals, storing>>

AskAdd(r, c) ==
    /\ cases[c] = "new" /\ Cardinality(Stored) < MaxCases
    /\ \A p \in Asking : c \notin tx[p].of
    /\ Asks(r, "add", {c})

AskRemove(r, c) == cases[c] = "stored" /\ Asks(r, "remove", {c})

AskRun(r) == Cardinality(Stored) \in 1 .. MaxPerRun /\ Asks(r, "run", {})

AskDrop(r) == Asks(r, "drop", {})

\* Mutant: the row is read without a lock.
ReadDataset(r) ==
    /\ tx[r].at = "asked"
    /\ IF ~dataset.there \/ (tx[r].kind = "remove" /\ tx[r].of \cap Stored = {})
       THEN Ends(r)
       ELSE Goes(r, "locked") /\ UNCHANGED dataset
    /\ UNCHANGED <<cases, evals, storing>>

\* select ... for update; the request fails if its row has gone meanwhile.
LockDataset(r) ==
    /\ tx[r].at = "asked" /\ dataset.lock = Free
    /\ IF ~dataset.there \/ (tx[r].kind = "remove" /\ tx[r].of \cap Stored = {})
       THEN Ends(r)
       ELSE Goes(r, "locked") /\ dataset' = [dataset EXCEPT !.lock = r]
    /\ UNCHANGED <<cases, evals, storing>>

-----------------------------------------------------------------------------
(* createRagEvalCaseForUser, deleteRagEvalCaseForUser *)

CountCases(r) ==
    /\ tx[r].at = "locked" /\ tx[r].kind \in {"add", "run"}
    /\ LET n == Cardinality(Stored) IN
       IF (tx[r].kind = "add" /\ n >= MaxCases) \/ (tx[r].kind = "run" /\ n = 0)
       THEN Ends(r)
       ELSE /\ tx' = [tx EXCEPT ![r].at = "counted",
                               ![r].count = IF tx[r].kind = "run" THEN n ELSE 0]
            /\ UNCHANGED dataset
    /\ UNCHANGED <<cases, evals, storing>>

AddCase(r) ==
    /\ tx[r].at = "counted" /\ tx[r].kind = "add"
    /\ cases' = [c \in Case |-> IF c \in tx[r].of THEN "stored" ELSE cases[c]]
    /\ Ends(r)
    /\ UNCHANGED <<evals, storing>>

\* The row of a case that the completion refers to is shared with it.
Shares(c) == c \in storing.stored /\ cases[c] = "stored"

\* Mutant: the dataset is locked when the case is deleted already.
DeleteRowFirst(r) ==
    /\ tx[r].at = "asked" /\ tx[r].kind = "remove"
    /\ ~\E c \in tx[r].of : Shares(c)
    /\ Goes(r, "deleted")
    /\ UNCHANGED <<dataset, cases, evals, storing>>

DeleteRow(r) ==
    /\ tx[r].at = "locked" /\ tx[r].kind = "remove"
    /\ ~\E c \in tx[r].of : Shares(c)
    /\ Goes(r, "deleted")
    /\ UNCHANGED <<dataset, cases, evals, storing>>

\* The rows of results that refer to the case refer to none from now on.
RemoveCase(r) ==
    /\ tx[r].at = "deleted"
    /\ dataset.lock \in {r, Free}
    /\ cases' = [c \in Case |-> IF c \in tx[r].of THEN "gone" ELSE cases[c]]
    /\ Ends(r)
    /\ UNCHANGED <<evals, storing>>

-----------------------------------------------------------------------------
(* createRunningRagEvalRunForUser, deleteRagEvalDatasetForUser *)

\* A run that is under way is returned instead of a second one. One that is
\* being completed is waited for, since its row may leave the unique index.
StartRun(r) ==
    /\ tx[r].at = "counted" /\ tx[r].kind = "run"
    /\ storing.eval = Nil
    /\ Ends(r)
    /\ \/ In({"running"}) # {} /\ UNCHANGED evals
       \/ /\ In({"running"}) = {}
          /\ \E e \in Eval :
               /\ evals[e].status = "none" /\ \A f \in 1 .. e - 1 : evals[f].status # "none"
               /\ evals' = [evals EXCEPT ![e] =
                    [NoEval EXCEPT !.status = "running", !.count = tx[r].count,
                                   !.snapshot = Stored,
                                   !.baseline = OneOf(Latest(In({"completed"})))]]
    /\ UNCHANGED <<cases, storing>>

\* The rows of its cases, runs and results go with it.
DropDataset(r) ==
    /\ tx[r].at = "locked" /\ tx[r].kind = "drop"
    /\ storing.eval = Nil /\ \A p \in Asking : tx[p].at # "deleted"
    /\ tx' = [tx EXCEPT ![r] = NoTx]
    /\ dataset' = [there |-> FALSE, lock |-> Free]
    /\ cases' = [c \in Case |-> "gone"]
    /\ evals' = [e \in Eval |-> NoEval]
    /\ UNCHANGED storing

-----------------------------------------------------------------------------
(* completeRagEvalRunWithResults, and the other ends of a run *)

BeginCompletion(e) ==
    /\ storing.eval = Nil /\ evals[e].status = "running"
    /\ storing' = [NotStoring EXCEPT !.eval = e]
    /\ UNCHANGED <<dataset, cases, evals, tx>>

Deleting == UNION {tx[r].of : r \in {p \in Asking : tx[p].at = "deleted"}}

\* A result refers to its case, or to none if the case has gone. If the case is
\* being deleted the insertion waits for that, and finds no row to refer to.
StoreResult(c) ==
    /\ storing.eval # Nil /\ storing.waits = {}
    /\ c \in evals[storing.eval].snapshot \ storing.stored
    /\ storing' = IF c \in Deleting THEN [storing EXCEPT !.waits = {c}]
                  ELSE [storing EXCEPT !.stored = @ \cup {c}]
    /\ UNCHANGED <<dataset, cases, evals, tx>>

RollsBack == storing' = NotStoring

ReferenceFails ==
    /\ storing.waits # {} /\ storing.waits \cap Deleting = {}
    /\ IF \A c \in storing.waits : cases[c] = "gone" THEN RollsBack
       ELSE storing' = [storing EXCEPT !.stored = @ \cup storing.waits, !.waits = {}]
    /\ UNCHANGED <<dataset, cases, evals, tx>>

\* The statement that touches the dataset is the last one. A run of which only
\* some cases failed is "partial", which is taken with "completed".
CommitCompletion(ok) ==
    /\ storing.eval # Nil /\ storing.stored = evals[storing.eval].snapshot
    /\ ok \subseteq storing.stored
    /\ dataset.lock = Free
    /\ evals' = [evals EXCEPT ![storing.eval].ok = ok,
                    ![storing.eval].status = IF ok = {} THEN "failed" ELSE "completed"]
    /\ RollsBack
    /\ UNCHANGED <<dataset, cases, tx>>

\* Cancelled, given up, or too old.
EndRun(e) ==
    /\ evals[e].status = "running" /\ storing.eval = Nil
    /\ evals' = [evals EXCEPT ![e].status = "ended"]
    /\ UNCHANGED <<dataset, cases, tx, storing>>

-----------------------------------------------------------------------------
(* Who waits for whom. PostgreSQL ends one transaction of a cycle. *)

WaitsFor(p) ==
    IF p = Completion
    THEN IF storing.waits # {} THEN {r \in Asking : tx[r].at = "deleted" /\ tx[r].of = storing.waits}
         ELSE IF storing.eval # Nil /\ storing.stored = evals[storing.eval].snapshot
         THEN {dataset.lock} \ {Free}
         ELSE {}
    ELSE CASE tx[p].at = "asked" -> {dataset.lock} \ {Free}
           [] tx[p].at = "deleted" -> {dataset.lock} \ {p, Free}
           [] tx[p].at = "counted" /\ tx[p].kind = "run" /\ storing.eval # Nil -> {Completion}
           [] tx[p].at = "locked" /\ tx[p].kind = "remove" ->
                IF \E c \in tx[p].of : Shares(c) THEN {Completion} ELSE {}
           [] tx[p].at = "locked" /\ tx[p].kind = "drop" ->
                {r \in Asking : tx[r].at = "deleted"}
                  \cup (IF storing.eval # Nil THEN {Completion} ELSE {})
           [] OTHER -> {}

InCycle(party) == party # {} /\ \A p \in party : WaitsFor(p) \cap party # {}
Cycles == {party \in SUBSET (Asking \cup {Completion}) : InCycle(party)}

\* The request is answered with an error, the completion is a failed attempt.
BreakDeadlock ==
    \E party \in Cycles : \E p \in party :
        /\ \A q \in party : ~InCycle(party \ {q})
        /\ IF p = Completion THEN RollsBack /\ UNCHANGED <<tx, dataset>>
           ELSE Ends(p) /\ UNCHANGED storing
        /\ UNCHANGED <<cases, evals>>

LibraryNext ==
    \/ \E r \in Asking :
         \/ \E c \in Case : AskAdd(r, c) \/ AskRemove(r, c)
         \/ AskRun(r) \/ AskDrop(r) \/ LockDataset(r) \/ CountCases(r) \/ AddCase(r)
         \/ DeleteRow(r) \/ RemoveCase(r) \/ StartRun(r) \/ DropDataset(r)
    \/ \E e \in Eval : BeginCompletion(e) \/ EndRun(e)
    \/ \E c \in Case : StoreResult(c)
    \/ \E ok \in SUBSET Case : CommitCompletion(ok)
    \/ ReferenceFails \/ BreakDeadlock

LibrarySpec == LibraryInit /\ [][LibraryNext]_libraryVars

-----------------------------------------------------------------------------
(* getRagEvalQualitySummaryForUser *)

Summarised == OneOf(Latest(In({"completed", "failed"})))

\* The results that a summary compares: successful ones of the run and of its
\* baseline, of the same case, or of the same question if the case has gone.
Pairs(e) ==
    IF e = Nil \/ evals[e].baseline = Nil THEN {}
    ELSE {p \in evals[e].ok \X evals[evals[e].baseline].ok :
            IF cases[p[1]] = "stored" THEN p[2] = p[1]
            ELSE QuestionOf[p[2]] = QuestionOf[p[1]]}

\* A run is about the cases that its dataset had at one moment, however many
\* are added and removed while it is created: what the claim would refuse as an
\* incomplete snapshot never comes to be (createRunningRagEvalRunForUser,
\* claimNextRagEvalRunJob). The dataset never holds more cases than it may,
\* although the service looks before it locks (createCase). The run that it is
\* compared with was completed before.
RunsAreWhole ==
    /\ LibraryTypeOK
    /\ Cardinality(Stored) <= MaxCases
    /\ Cardinality(In({"running"})) <= 1
    /\ \A e \in In({"running", "completed", "failed", "ended"}) :
         /\ evals[e].count = Cardinality(evals[e].snapshot) /\ evals[e].count > 0
         /\ evals[e].baseline # Nil =>
              evals[e].baseline < e /\ evals[evals[e].baseline].status = "completed"

\* A summary compares a case with itself only: the paired baseline is worked out
\* for the same case in both runs (docs/rag-architecture-v2.md:75). The code
\* pairs a result whose case was deleted with any that asked the same
\* (getRagEvalQualitySummaryForUser), so this does not hold.
PairsCompareTheSameCase == \A p \in Pairs(Summarised) : p[1] = p[2]

\* Requests never wait for each other in a circle, since each of them takes the
\* dataset first. A circle always runs through the completion of a run, which
\* takes the dataset last: then a run is started, the dataset deleted, or a
\* case deleted whose result is stored already (for update of the dataset
\* against the order of completeRagEvalRunWithResults).
CirclesPassTheCompletion ==
    \A party \in Cycles : Completion \in party
=============================================================================
