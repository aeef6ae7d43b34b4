-------------------------- MODULE MCFileIngestion --------------------------
(* TLC instance of FileIngestion.                                          *)
EXTENDS FileIngestion

\* A bound: a behaviour has a second claim or a deletion, not both.
RepeatedOrDeleted == claims' = MaxClaims => deletion' = [f \in Files |-> "none"]
=============================================================================
