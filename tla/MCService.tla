------------------------------ MODULE MCService ------------------------------
(* TLC instance of the parts of the services that share no state: a behaviour *)
(* is about the evidence cache of the RAG service, the server's client of that *)
(* service, the rate limits, the persona or the life of a server process.      *)
EXTENDS RetrievalCache, RagClient, RateLimits, Persona, RuntimeLifecycle, TLC

VARIABLE side

others == <<cacheVars, clientVars, limitVars, personaVars, runtimeVars>>

\* The question has the words of every file.
ByWordsAndMeaning == [d \in Doc |-> {"vector", "keyword"}]

Symmetric == Permutations(Request)

ServiceInit ==
    /\ side \in {"cache", "client", "limits", "persona", "runtime"}
    /\ CacheInit /\ RagClientInit /\ LimitsInit /\ PersonaInit /\ RuntimeInit
    /\ side # "cache" => active = [d \in Doc |-> 1]

ServiceNext ==
    \/ side = "cache" /\ CacheNext
       /\ UNCHANGED <<side, clientVars, limitVars, personaVars, runtimeVars>>
    \/ side = "client" /\ RagClientNext
       /\ UNCHANGED <<side, cacheVars, limitVars, personaVars, runtimeVars>>
    \/ side = "limits" /\ LimitsNext
       /\ UNCHANGED <<side, cacheVars, clientVars, personaVars, runtimeVars>>
    \/ side = "persona" /\ PersonaNext
       /\ UNCHANGED <<side, cacheVars, clientVars, limitVars, runtimeVars>>
    \/ side = "runtime" /\ RuntimeNext
       /\ UNCHANGED <<side, cacheVars, clientVars, limitVars, personaVars>>

ServiceSpec == ServiceInit /\ [][ServiceNext]_<<side, others>>
=============================================================================
