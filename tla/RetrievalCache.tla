---------------------------- MODULE RetrievalCache ----------------------------
(* Cached evidence of the RAG service: requests that ask the same question   *)
(* in the same project space with the same settings, so that the exact key   *)
(* of an entry differs by the versions of its scope only. PostgreSQL (l2)    *)
(* keeps the entries; a Redis instance that may fail at any call (l1) copies *)
(* some of them. Meanwhile files of the space are published and deleted.     *)
(* Evidence is a set of <<file, generation>>; scores and the planned queries *)
(* are abstracted: a verdict on quality may go either way, and the planned   *)
(* queries are one retrieval. Entries of the kind conversation_evidence are  *)
(* never reused and are left out, as are those of single planned queries     *)
(* (subquery), kept under the same scope, and the lock that spares           *)
(* concurrent requests a retrieval.                                          *)
EXTENDS Naturals, FiniteSets

CONSTANTS
    Request,        \* threads that serve /retrieve
    Doc,            \* files of the project space
    Changing,       \* those of them that are published or deleted meanwhile
    Finds,          \* the lanes that find each file for the question
    MaxVersion      \* bound: the largest knowledge version

Lane == {"vector", "keyword"}

ASSUME CacheAssumption ==
    /\ Finds \in [Doc -> SUBSET Lane] /\ Changing \subseteq Doc
    /\ MaxVersion \in Nat \ {0}

Version == 1 .. MaxVersion
Generation == 1 .. MaxVersion + 1
Scope == Version \X Version
NoScope == <<>>

VARIABLES
    version,    \* knowledge_version and, in step with it, the index versions
    active,     \* the generation a file serves, 0 before its first publication
    row,        \* per file: live, then what its cleanup has removed so far
    l1,         \* the entries in Redis
    l2,         \* the rows of rag_retrieval_cache
    req,        \* per request: where it is and what it holds
    lateFound   \* history: files found by text search after their cleanup's bump

cacheVars == <<version, active, row, l1, l2, req, lateFound>>
knowledge == <<version, active, row>>

Evidence == SUBSET (Doc \X Generation)
Entry == [scope : Scope, docs : Evidence]

Unasked == [at |-> "idle", know |-> 0, scope |-> NoScope, docs |-> {},
         base |-> [d \in Doc |-> 0]]

Retrieval ==
    [at : {"idle", "scope", "index", "look1", "look2", "verify", "retrieve",
           "retry", "store", "copy", "reply"},
     know : Version \cup {0}, scope : Scope \cup {NoScope}, docs : Evidence,
     base : [Doc -> 0 .. MaxVersion + 2]]

CacheTypeOK ==
    /\ version \in Version
    /\ active \in [Doc -> Generation \cup {0}]
    /\ row \in [Doc -> {"live", "novectors", "unindexed", "cleaned", "gone"}]
    /\ l1 \in SUBSET Entry /\ l2 \in SUBSET Entry
    /\ req \in [Request -> Retrieval]
    /\ lateFound \in SUBSET Doc

CacheInit ==
    /\ version = 1
    /\ active \in [Doc -> {0, 1}] /\ \A d \in Doc \ Changing : active[d] = 1
    /\ row = [d \in Doc |-> "live"]
    /\ l1 = {} /\ l2 = {}
    /\ req = [r \in Request |-> Unasked]
    /\ lateFound = {}

At(r, at) == req[r].at = at
Go(r, at) == req' = [req EXCEPT ![r].at = at]
Look(cache, s) == {e \in cache : e.scope = s}
Put(cache, e) == (cache \ Look(cache, e.scope)) \cup {e}

-----------------------------------------------------------------------------
(* The knowledge of the space.                                              *)

(* What PostgreSQL still serves, and what a lane's index still lists.       *)
Present == {d \in Doc : row[d] # "gone" /\ active[d] # 0}
Indexed(l) ==
    {d \in Present : row[d] = "live" \/ (row[d] = "novectors" /\ l = "keyword")}
Found(docs, l) == {<<d, active[d]>> : d \in {x \in docs : l \in Finds[x]}}

\* Mutant: the rows are cleared and the version stays.
BumpClearsRowsOnly == version < MaxVersion /\ UNCHANGED version /\ l2' = {}

(* _bump_project_knowledge_version: the versions grow together and the rows *)
(* of the space leave the cache; Redis is not told.                         *)
Bump == version < MaxVersion /\ version' = version + 1 /\ l2' = {}

(* The activation of a generation, whose index entries were written before. *)
Publish(d) ==
    /\ row[d] = "live"
    /\ active' = [active EXCEPT ![d] = @ + 1]
    /\ Bump
    /\ UNCHANGED <<row, l1, req, lateFound>>

(* cleanup_file_endpoint: the vectors, then the other indexes, then the     *)
(* bump. The row and its chunks go later, when the cleanup job ends.        *)
RemoveIndex(d) ==
    /\ \/ row[d] = "live" /\ row' = [row EXCEPT ![d] = "novectors"]
       \/ row[d] = "novectors" /\ row' = [row EXCEPT ![d] = "unindexed"]
    /\ UNCHANGED <<version, active, l1, l2, req, lateFound>>

FinishCleanup(d) ==
    /\ row[d] = "unindexed"
    /\ row' = [row EXCEPT ![d] = "cleaned"]
    /\ Bump
    /\ UNCHANGED <<active, l1, req, lateFound>>

RemoveRow(d) ==
    /\ row[d] = "cleaned"
    /\ row' = [row EXCEPT ![d] = "gone"]
    /\ UNCHANGED <<version, active, l1, l2, req, lateFound>>

-----------------------------------------------------------------------------
(* What a retrieval may return. A lane lists candidates of its index and    *)
(* keeps those that PostgreSQL serves. Keyword search falls back to a text  *)
(* search in PostgreSQL when Elasticsearch fails or has no hit; the latter  *)
(* does not count as degraded.                                              *)
Hits == Found(Indexed("keyword"), "keyword")
TextSearch == Found(Present, "keyword")

Result(docs, degraded) == [docs |-> docs, degraded |-> degraded]
VectorLane == {Result(Found(Indexed("vector"), "vector"), FALSE), Result({}, TRUE)}
KeywordLane == {Result(IF Hits # {} THEN Hits ELSE TextSearch, FALSE),
                Result(TextSearch, TRUE), Result({}, TRUE)}
Outcomes == {Result(v.docs \cup k.docs, v.degraded \/ k.degraded) :
               v \in VectorLane, k \in KeywordLane}

(* The files an outcome shows although their cleanup has bumped the version. *)
Late(o) == {d \in Doc : row[d] = "cleaned" /\ <<d, active[d]>> \in o.docs}

-----------------------------------------------------------------------------
(* A request arrives; base is the oldest generation of each file that its   *)
(* answer may show.                                                         *)
Served == [d \in Doc |-> IF row[d] = "gone" THEN MaxVersion + 2 ELSE active[d]]

Begin(r) ==
    /\ At(r, "idle")
    /\ req' = [req EXCEPT ![r] = [Unasked EXCEPT !.at = "scope", !.base = Served]]
    /\ UNCHANGED <<knowledge, l1, l2, lateFound>>

(* get_retrieval_scope reads the space and the versions of its indexes in   *)
(* two statements; the fingerprint is made of both.                         *)
ReadKnowledge(r) ==
    /\ At(r, "scope")
    /\ req' = [req EXCEPT ![r].at = "index", ![r].know = version]
    /\ UNCHANGED <<knowledge, l1, l2, lateFound>>

ReadIndexVersions(r) ==
    /\ At(r, "index")
    /\ req' = [req EXCEPT ![r].at = "look1", ![r].scope = <<req[r].know, version>>,
                          ![r].know = 0]
    /\ UNCHANGED <<knowledge, l1, l2, lateFound>>

(* find_exact: Redis, unless it fails or is in its cooldown, then           *)
(* PostgreSQL, whose entry is copied to Redis.                              *)
Candidate(r, e) == req' = [req EXCEPT ![r].at = "verify", ![r].docs = e.docs]

LookL1(r) ==
    /\ At(r, "look1")
    /\ \/ \E e \in Look(l1, req[r].scope) : Candidate(r, e)
       \/ Go(r, "look2")
    /\ UNCHANGED <<knowledge, l1, l2, lateFound>>

LookL2(r) ==
    /\ At(r, "look2")
    /\ \/ \E e \in Look(l2, req[r].scope) :
            Candidate(r, e) /\ (l1' = Put(l1, e) \/ UNCHANGED l1)
       \/ Look(l2, req[r].scope) = {} /\ Go(r, "retrieve") /\ UNCHANGED l1
    /\ UNCHANGED <<knowledge, l2, lateFound>>

(* PostgreSQL fails: the lookup counts as a miss, and nothing is stored     *)
(* unless the scope has been read.                                          *)
LookupFails(r) ==
    /\ At(r, "scope") \/ At(r, "index") \/ At(r, "look2")
    /\ req' = [req EXCEPT ![r].at = "retrieve", ![r].know = 0]
    /\ UNCHANGED <<knowledge, l1, l2, lateFound>>

(* An exact entry is verified, then reused or rejected.                     *)
Reuse(r) ==
    /\ At(r, "verify")
    /\ Go(r, "reply") \/ req' = [req EXCEPT ![r].at = "retrieve", ![r].docs = {}]
    /\ UNCHANGED <<knowledge, l1, l2, lateFound>>

(* Retrieval is repeated if it finds nothing, if it was degraded, or if the *)
(* evidence is judged not to support the question.                          *)
Retrieve(r) ==
    /\ At(r, "retrieve")
    /\ \E o \in Outcomes, at \in {"store", "retry"} :
         /\ o.degraded \/ o.docs = {} => at = "retry"
         /\ req' = [req EXCEPT ![r].at = at, ![r].docs = o.docs]
         /\ lateFound' = lateFound \cup Late(o)
    /\ UNCHANGED <<knowledge, l1, l2>>

Retry(r) ==
    /\ At(r, "retry")
    /\ \E o \in Outcomes :
         /\ req' = [req EXCEPT ![r].at = "store", ![r].docs = @ \cup o.docs]
         /\ lateFound' = lateFound \cup Late(o)
    /\ UNCHANGED <<knowledge, l1, l2>>

\* Mutant: the entry is stored under the scope of now.
StoreUnderNewScope(r) ==
    /\ At(r, "store")
    /\ \/ /\ req[r].docs # {} /\ req[r].scope # NoScope
          /\ l2' = Put(l2, [scope |-> <<version, version>>, docs |-> req[r].docs])
          /\ Go(r, "copy")
       \/ UNCHANGED l2 /\ Go(r, "reply")
    /\ UNCHANGED <<knowledge, l1, lateFound>>

(* upsert_query_cache, if the evidence is good enough: PostgreSQL first,    *)
(* under the scope that was read before the retrieval; then the row is read *)
(* again and copied to Redis.                                               *)
StoreAnswer(r) ==
    /\ At(r, "store")
    /\ \/ /\ req[r].docs # {} /\ req[r].scope # NoScope
          /\ l2' = Put(l2, [scope |-> req[r].scope, docs |-> req[r].docs])
          /\ Go(r, "copy")
       \/ UNCHANGED l2 /\ Go(r, "reply")
    /\ UNCHANGED <<knowledge, l1, lateFound>>

CopyToL1(r) ==
    /\ At(r, "copy")
    /\ (\E e \in Look(l2, req[r].scope) : l1' = Put(l1, e)) \/ UNCHANGED l1
    /\ Go(r, "reply")
    /\ UNCHANGED <<knowledge, l2, lateFound>>

(* The answer is made from req[r].docs.                                     *)
Reply(r) ==
    /\ At(r, "reply")
    /\ req' = [req EXCEPT ![r] = Unasked]
    /\ UNCHANGED <<knowledge, l1, l2, lateFound>>

-----------------------------------------------------------------------------
(* Entries expire or are evicted, and a process may end in the middle.      *)
DropEntry ==
    /\ \/ \E e \in l1 : l1' = l1 \ {e} /\ UNCHANGED l2
       \/ \E e \in l2 : l2' = l2 \ {e} /\ UNCHANGED l1
    /\ UNCHANGED <<knowledge, req, lateFound>>

RequestDies(r) ==
    /\ ~At(r, "idle")
    /\ req' = [req EXCEPT ![r] = Unasked]
    /\ UNCHANGED <<knowledge, l1, l2, lateFound>>

CacheNext ==
    \/ \E r \in Request :
         \/ Begin(r) \/ ReadKnowledge(r) \/ ReadIndexVersions(r) \/ LookL1(r) \/ LookL2(r)
         \/ LookupFails(r) \/ Reuse(r) \/ Retrieve(r) \/ Retry(r) \/ StoreAnswer(r)
         \/ CopyToL1(r) \/ Reply(r) \/ RequestDies(r)
    \/ \E d \in Changing : Publish(d) \/ RemoveIndex(d) \/ FinishCleanup(d) \/ RemoveRow(d)
    \/ DropEntry

CacheSpec == CacheInit /\ [][CacheNext]_cacheVars

-----------------------------------------------------------------------------
(* The evidence stored under the present versions is what the files serve   *)
(* now, however late it was stored: a publication or a deletion makes all   *)
(* earlier entries unreachable (_bump_project_knowledge_version), in Redis  *)
(* too, which is not told. One gap is known: a file that text search found  *)
(* between the bump of its cleanup and the removal of its row may stay in   *)
(* the cache, since the removal changes no version.                         *)
EvidenceIsCurrent ==
    /\ CacheTypeOK
    /\ \A e \in l1 \cup l2 : e.scope = <<version, version>> =>
        \A d \in Doc, g \in Generation : <<d, g>> \in e.docs =>
            IF row[d] = "gone" THEN d \in lateFound ELSE g = active[d]

(* An answer never shows a generation that had been replaced, nor a file    *)
(* that had been removed, when the request arrived, although the scope is   *)
(* not read atomically (get_retrieval_scope) and other requests fill the    *)
(* cache with what they retrieved under older scopes (agentic_retrieve).    *)
AnswersAreFresh ==
    \A r \in Request : At(r, "reply") =>
        \A d \in Doc, g \in Generation :
            <<d, g>> \in req[r].docs => g >= req[r].base[d] \/ d \in lateFound
=============================================================================
