-------------------------------- MODULE Persona --------------------------------
(* What the server believes of a user: a profile, and insights drawn from the *)
(* questions, each of which the user accepts, hides or rejects; and the page  *)
(* that shows them. Every chat message has the insights drawn again, in a     *)
(* transaction that meets those of the page at the locks of PostgreSQL.       *)
EXTENDS Naturals, FiniteSets

CONSTANTS
    Insight,     \* interests, observations, suggestions, each of a topic
    Requests,    \* requests under way at once, chat messages included
    MaxRequests  \* bound: requests that are ever made

Nobody == "nobody"

ASSUME PersonaAssumption == MaxRequests \in Nat /\ Nobody \notin Requests

MinTopicEvidence == 2
Chosen == {"accepted", "hidden", "rejected"}
Absent == [status |-> "none", id |-> 0, lock |-> Nobody]

VARIABLES
    spoken,    \* how many questions spoke of the topic of each insight
    profile,   \* user_personas, and who has locked the row
    insights,  \* the rows, and who has deleted each in a transaction
    requests,  \* the requests and where they are
    center,    \* the page: the profile and the insights it shows, the form
    made

personaVars == <<spoken, profile, insights, requests, center, made>>

Kinds == {"none", "load", "chat", "analyze", "save", "choose", "restore", "reset"}
Analysis == {"chat", "analyze"}
Blank == [memory |-> TRUE, rows |-> [i \in Insight |-> Absent]]
Quiet == [kind |-> "none", at |-> "idle", of |-> {}, id |-> 0, to |-> "none", found |-> Blank]

PersonaTypeOK ==
    /\ spoken \in [Insight -> 0 .. MinTopicEvidence]
    /\ profile \in [memory : BOOLEAN, content : {"empty", "analyzed", "edited"},
                    edited : BOOLEAN, lock : Requests \cup {Nobody}]
    /\ insights \in [Insight -> [status : {"none", "active"} \cup Chosen, id : 0 .. MaxRequests,
                                 lock : Requests \cup {Nobody}]]
    /\ \A r \in Requests :
         /\ requests[r].kind \in Kinds /\ requests[r].of \subseteq Insight
         /\ requests[r].at \in {"idle", "asked", "locked", "deleted", "reading", "rows", "answered",
                               "failed"}
    /\ {center.open, center.loading, center.saving, center.analyzing, center.form} \subseteq BOOLEAN
    /\ made \in 0 .. MaxRequests

PersonaInit ==
    /\ spoken = [i \in Insight |-> 0]
    /\ profile = [memory |-> TRUE, content |-> "empty", edited |-> FALSE, lock |-> Nobody]
    /\ insights = [i \in Insight |-> Absent]
    /\ requests = [r \in Requests |-> Quiet]
    /\ center = [open |-> FALSE, shown |-> Blank, form |-> TRUE, loading |-> FALSE,
                 saving |-> FALSE, analyzing |-> FALSE]
    /\ made = 0

Goes(r, at) == requests' = [requests EXCEPT ![r].at = at]
IsAt(r, kinds, at) == requests[r].kind \in kinds /\ requests[r].at = at
Unlocked(rows, r) == [i \in Insight |-> IF rows[i].lock = r THEN Absent ELSE rows[i]]


\* Nobody waits for the analysis that a chat message starts.
Stored(r) == requests' = [requests EXCEPT
                 ![r] = IF @.kind = "chat" THEN Quiet ELSE [@ EXCEPT !.at = "reading"]]

-----------------------------------------------------------------------------
(* refreshPersonaInsightsForUser: the analysis of the latest questions. *)

\* Mutant: the row of the profile is read without a lock.
ReadProfile(r) ==
    /\ IsAt(r, Analysis, "asked")
    /\ \A p \in Requests : requests[p].kind \in Analysis => requests[p].at \notin {"locked", "deleted"}
    /\ IF profile.memory THEN Goes(r, "locked") ELSE Stored(r)
    /\ UNCHANGED <<spoken, profile, insights, center, made>>

\* The advisory lock and the row of the profile; nothing is drawn for a user
\* who has switched the memory off.
LockProfile(r) ==
    /\ IsAt(r, Analysis, "asked") /\ profile.lock = Nobody
    /\ IF profile.memory THEN Goes(r, "locked") /\ profile' = [profile EXCEPT !.lock = r]
       ELSE Stored(r) /\ UNCHANGED profile
    /\ UNCHANGED <<spoken, insights, center, made>>

\* The rows that the user has not chosen; another transaction that has deleted
\* one is waited for.
DeleteActive(r) ==
    /\ IsAt(r, Analysis, "locked")
    /\ \A i \in Insight : insights[i].status = "active" => insights[i].lock = Nobody
    /\ insights' = [i \in Insight |-> IF insights[i].status = "active"
                                      THEN [insights[i] EXCEPT !.lock = r] ELSE insights[i]]
    /\ Goes(r, "deleted")
    /\ UNCHANGED <<spoken, profile, center, made>>

\* The topics that enough questions spoke of.
AnalyzePersonaSignals(messages) == {i \in Insight : messages[i] >= MinTopicEvidence}

\* What becomes of a row that is drawn: its status stays if the user chose it.
Inserted(row, r) ==
    IF row.lock = r \/ row.status = "none" THEN [status |-> "active", id |-> made, lock |-> Nobody]
    ELSE row

\* What the user has edited is never replaced.
MergePersonaProfile(existing, drawn) ==
    IF existing.edited THEN existing
    ELSE [existing EXCEPT !.content = IF drawn = {} THEN "empty" ELSE "analyzed"]

\* A row that another transaction has deleted is waited for before the insertion.
StoreAnalysis(r) ==
    /\ IsAt(r, Analysis, "deleted")
    /\ LET drawn == AnalyzePersonaSignals(spoken) IN
         /\ \A i \in drawn : insights[i].lock \in {r, Nobody}
         /\ insights' = [i \in Insight |-> IF i \in drawn THEN Inserted(insights[i], r)
                                           ELSE Unlocked(insights, r)[i]]
         /\ profile' = [MergePersonaProfile(profile, drawn) EXCEPT !.lock = IF @ = r THEN Nobody ELSE @]
    /\ Stored(r)
    /\ UNCHANGED <<spoken, center, made>>

-----------------------------------------------------------------------------
(* deletePersonaProfileForUser, resetPersonaCenterForUser *)

\* The rows the statements see, but for those that are being drawn anew.
DeleteRows(r) ==
    /\ IsAt(r, {"reset"}, "asked")
    /\ insights' = [i \in Insight |->
         IF insights[i].status # "none" /\ insights[i].lock = Nobody
         THEN [insights[i] EXCEPT !.lock = r] ELSE insights[i]]
    /\ Goes(r, "deleted")
    /\ UNCHANGED <<spoken, profile, center, made>>

StoreReset(r) ==
    /\ IsAt(r, {"reset"}, "deleted") /\ profile.lock = Nobody
    /\ profile' = [memory |-> TRUE, content |-> "empty", edited |-> FALSE, lock |-> Nobody]
    /\ insights' = Unlocked(insights, r)
    /\ Goes(r, "reading")
    /\ UNCHANGED <<spoken, center, made>>

-----------------------------------------------------------------------------
(* The requests of a single statement, and the two reads of a center. *)

\* updatePersonaProfileForUser; the page sends the whole form.
StoreProfile(r) ==
    /\ IsAt(r, {"save"}, "asked") /\ profile.lock = Nobody
    /\ profile' = [profile EXCEPT !.memory = requests[r].found.memory, !.content = "edited",
                                  !.edited = TRUE]
    /\ Goes(r, "answered")
    /\ UNCHANGED <<spoken, insights, center, made>>

\* updatePersona..StatusForUser, deletePersona..ForUser: an id that an analysis
\* has replaced is not found.
StoreChoice(r) ==
    /\ IsAt(r, {"choose", "restore"}, "asked")
    /\ \E i \in requests[r].of :
         /\ insights[i].lock = Nobody
         /\ IF insights[i].status # "none" /\ insights[i].id = requests[r].id
            THEN insights' = [insights EXCEPT ![i].status = requests[r].to] /\ Goes(r, "answered")
            ELSE Goes(r, "failed") /\ UNCHANGED insights
    /\ UNCHANGED <<spoken, profile, center, made>>

\* getPersonaCenterForUser: the profile first (its upsert waits for a lock), no
\* insights when the memory is off.
ReadMemory(r) ==
    /\ IsAt(r, {"load"}, "asked") \/ IsAt(r, {"analyze", "reset"}, "reading")
    /\ profile.lock = Nobody
    /\ requests' = [requests EXCEPT ![r].found = [Blank EXCEPT !.memory = profile.memory],
                                    ![r].at = IF profile.memory THEN "rows" ELSE "answered"]
    /\ UNCHANGED <<spoken, profile, insights, center, made>>

\* A deletion that is not committed is not seen; what the user rejected is not shown.
ReadRows(r) ==
    /\ requests[r].at = "rows"
    /\ requests' = [requests EXCEPT
         ![r].found.rows = [i \in Insight |-> IF insights[i].status = "rejected" THEN Absent
                                              ELSE [insights[i] EXCEPT !.lock = Nobody]],
         ![r].at = "answered"]
    /\ UNCHANGED <<spoken, profile, insights, center, made>>

\* A deadlock, a failure of the database, or a connection that is lost: the
\* transaction is rolled back, the page loads again if it had moved ahead.
RequestFails(r) ==
    /\ requests[r].kind # "none"
    /\ profile' = [profile EXCEPT !.lock = IF @ = r THEN Nobody ELSE @]
    /\ insights' = [i \in Insight |-> [insights[i] EXCEPT !.lock = IF @ = r THEN Nobody ELSE @]]
    /\ requests' = [requests EXCEPT
         ![r] = IF @.kind = "choose" THEN [Quiet EXCEPT !.kind = "load", !.at = "asked"] ELSE Quiet]
    /\ center' = [center EXCEPT
         !.loading = (@ /\ requests[r].kind # "load") \/ requests[r].kind = "choose",
         !.saving = @ /\ requests[r].kind \notin {"save", "reset"},
         !.analyzing = @ /\ requests[r].kind # "analyze"]
    /\ UNCHANGED <<spoken, made>>

-----------------------------------------------------------------------------
(* The page. *)

Ask(r, request) ==
    /\ requests[r].kind = "none" /\ made < MaxRequests
    /\ requests' = [requests EXCEPT ![r] = [request EXCEPT !.at = "asked"]]
    /\ made' = made + 1
    /\ UNCHANGED <<profile, insights>>

\* A question is stored before the analysis it starts.
SendQuestion(r) ==
    /\ Ask(r, [Quiet EXCEPT !.kind = "chat"])
    /\ \E topics \in SUBSET Insight :
         spoken' = [i \in Insight |-> IF i \in topics /\ spoken[i] < MinTopicEvidence
                                      THEN spoken[i] + 1 ELSE spoken[i]]
    /\ UNCHANGED center

OpenPage(r) ==
    /\ ~center.open
    /\ Ask(r, [Quiet EXCEPT !.kind = "load"])
    /\ center' = [center EXCEPT !.open = TRUE, !.loading = TRUE]
    /\ UNCHANGED spoken

\* Until the first answer, and during each load, the page shows nothing else.
Usable == center.open /\ ~center.loading

RefreshInsights(r) ==
    /\ Usable /\ ~center.analyzing
    /\ Ask(r, [Quiet EXCEPT !.kind = "analyze"])
    /\ center' = [center EXCEPT !.analyzing = TRUE]
    /\ UNCHANGED spoken

\* saveProfile sends what the form says, whatever the server says by now.
SaveProfile(r) ==
    /\ Usable /\ ~center.saving
    /\ Ask(r, [Quiet EXCEPT !.kind = "save", !.found.memory = center.form])
    /\ center' = [center EXCEPT !.saving = TRUE]
    /\ UNCHANGED spoken

ToggleForm ==
    /\ Usable
    /\ center' = [center EXCEPT !.form = ~@]
    /\ UNCHANGED <<spoken, profile, insights, requests, made>>

ResetProfile(r) ==
    /\ Usable /\ ~center.saving
    /\ Ask(r, [Quiet EXCEPT !.kind = "reset"])
    /\ center' = [center EXCEPT !.saving = TRUE]
    /\ UNCHANGED spoken

\* setInterestStatus, setSuggestionStatus, setObservationStatus: the page does
\* not wait for the answer.
SetStatus(r) ==
    /\ Usable
    /\ \E i \in Insight, status \in {"accepted", "hidden"} :
         LET row == center.shown.rows[i] IN
         /\ row.status \in {"active", "accepted"} \ {status}
         /\ Ask(r, [Quiet EXCEPT !.kind = "choose", !.of = {i}, !.id = row.id, !.to = status])
         /\ center' = [center EXCEPT !.shown.rows[i] =
              IF status = "hidden" THEN Absent ELSE [row EXCEPT !.status = status]]
    /\ UNCHANGED spoken

\* restoreHiddenRecord, deleteHiddenRecord
RestoreOrDelete(r) ==
    /\ Usable
    /\ \E i \in Insight, status \in {"active", "rejected"} :
         /\ center.shown.rows[i].status = "hidden"
         /\ Ask(r, [Quiet EXCEPT !.kind = "restore", !.of = {i}, !.id = center.shown.rows[i].id,
                                 !.to = status])
    /\ UNCHANGED <<spoken, center>>

ApplySavedProfile(shown, memory) ==
    IF memory THEN [shown EXCEPT !.memory = TRUE] ELSE [Blank EXCEPT !.memory = FALSE]

\* An answer reaches the page.
TakeAnswer(r) ==
    /\ requests[r].at = "answered"
    /\ center' =
         CASE requests[r].kind = "save" ->
                [center EXCEPT !.shown = ApplySavedProfile(@, requests[r].found.memory),
                               !.form = requests[r].found.memory, !.saving = FALSE]
           [] requests[r].kind \in {"load", "analyze", "reset"} ->
                [center EXCEPT !.shown = requests[r].found, !.form = requests[r].found.memory,
                               !.loading = @ /\ requests[r].kind # "load",
                               !.analyzing = @ /\ requests[r].kind # "analyze",
                               !.saving = @ /\ requests[r].kind # "reset"]
           [] requests[r].kind = "restore" -> [center EXCEPT !.loading = TRUE]
           [] OTHER -> center
    /\ requests' = [requests EXCEPT
         ![r] = IF @.kind = "restore" THEN [Quiet EXCEPT !.kind = "load", !.at = "asked"] ELSE Quiet]
    /\ UNCHANGED <<spoken, profile, insights, made>>

PersonaNext ==
    \/ ToggleForm
    \/ \E r \in Requests :
         \/ LockProfile(r) \/ DeleteActive(r) \/ StoreAnalysis(r) \/ DeleteRows(r) \/ StoreReset(r)
         \/ StoreProfile(r) \/ StoreChoice(r) \/ ReadMemory(r) \/ ReadRows(r) \/ RequestFails(r)
         \/ SendQuestion(r) \/ OpenPage(r) \/ RefreshInsights(r) \/ SaveProfile(r) \/ ResetProfile(r)
         \/ SetStatus(r) \/ RestoreOrDelete(r) \/ TakeAnswer(r)

PersonaSpec == PersonaInit /\ [][PersonaNext]_personaVars

-----------------------------------------------------------------------------
(* Properties *)

Analyzes(r) == IsAt(r, Analysis, "deleted") /\ insights' # insights /\ requests'[r].at \in {"idle", "reading"}

\* An analysis yields to the user, whatever was asked while it ran: it stores
\* nothing once the memory is off, leaves the status of every insight that the
\* user has accepted, hidden or rejected, and keeps an edited profile.
AnalysisYields ==
    /\ []PersonaTypeOK
    /\ [][\A r \in Requests : Analyzes(r) =>
         /\ profile.memory
         /\ profile.edited => profile'.content = profile.content
         /\ \A i \in Insight : insights[i].status \in Chosen => insights'[i].status = insights[i].status
      ]_personaVars
=============================================================================
