----------------------------- MODULE MCEvaluation -----------------------------
(* TLC instance of the evaluations: how a run is executed, what it is about,  *)
(* and how the page shows it. The parts share no state that is modelled in    *)
(* more than one of them, so a behaviour is about one.                        *)
EXTENDS RagEvalRuns, EvalLibrary, EvalPage

CONSTANTS s1, s2, w3, c1, c2, c3

\* w3 runs on the second server, the other workers on the first.
TwoServers == [w \in Worker |-> IF w = w3 THEN s2 ELSE s1]

\* Two cases ask the same.
Questions == [c \in Case |-> IF c = c3 THEN 2 ELSE 1]

VARIABLE about

EvaluationInit ==
    /\ Init /\ LibraryInit /\ PageInit
    /\ about \in {"runs", "library", "summary", "details"}
    /\ about \in {"runs", "library"} => \A d \in Dataset : evaluated[d] = 0
    /\ about = "details" => Cardinality(Exists) = 1

\* Of two cases that ask the same c1 is the first to be stored; fewer results
\* make fewer pairs. Of the page, the details do without the summary and a second dataset, and
\* the summary without the details.
OnlyThisPart ==
    /\ about = "library" => 
         /\ cases'[c1] = "new" => cases'[c2] = "new"
         /\ \A e \in Eval : evals'[e].ok \in {{}, evals'[e].snapshot}
    /\ about = "summary" => ~page'.modal.open
    /\ about = "details" => /\ asked'["quality"].at # "served"
                            /\ Cardinality(Exists') < 2

EvaluationNext ==
    /\ \/ about = "runs" /\ Next /\ UNCHANGED <<libraryVars, pageVars>>
       \/ about = "library" /\ LibraryNext /\ OnlyThisPart
            /\ UNCHANGED <<vars, pageVars>>
       \/ about \in {"summary", "details"} /\ PageNext /\ OnlyThisPart
            /\ UNCHANGED <<vars, libraryVars>>
    /\ UNCHANGED about

EvaluationSpec ==
    /\ EvaluationInit /\ [][EvaluationNext]_<<about, vars, libraryVars, pageVars>>
    /\ Fairness /\ PageFairness

\* A behaviour of the library alone.
BaselineSpec ==
    /\ EvaluationInit /\ about = "library"
    /\ [][EvaluationNext]_<<about, vars, libraryVars, pageVars>>
=============================================================================
