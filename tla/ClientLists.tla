---------------------------- MODULE ClientLists ----------------------------
(* The lists of the web client: the spaces, the conversations, the results of *)
(* a search. A newer request aborts the older one of its key, and a change    *)
(* aborts it too (RequestGenerationGuard): an aborted request does nothing.   *)
EXTENDS Integers, FiniteSets

CONSTANTS
    Item,     \* the places of a list
    Creatable,  \* the one of them that the user may create
    Query,    \* what may be searched
    MaxListChange, \* bound of the changes that are asked for
    Nothing   \* no selection, no query, no request

ASSUME ClientListsAssumption ==
    /\ Creatable \in Item /\ MaxListChange \in Nat /\ Nothing \notin Item \cup Query

VARIABLES
    lists,   \* what is shown, by list
    db,      \* what the server has
    ops,     \* changes that wait for their answers (a bound: one of an item)
    asked,   \* changes asked for so far
    search   \* useSearchStore and the dialog's timer

listVars == <<lists, db, ops, asked, search>>

List == {"spaces", "conversations"}
Names == {"old", "new", "gone"}
NoRequest == [at |-> "none", data |-> [i \in Item |-> "gone"]]

ListsTypeOK ==
    /\ \A k \in List :
         /\ lists[k].shown \in [Item -> Names] /\ db[k] \in [Item -> Names]
         /\ lists[k].request.at \in {"none", "asked", "served"}
         /\ lists[k].loading = (lists[k].request.at # "none")
    /\ lists["spaces"].current \in Item \cup {Nothing}
    /\ \A o \in ops : o.list \in List /\ o.item \in Item
         /\ o.kind \in {"rename", "delete", "create"}
         /\ o.at \in {"sent", "applied", "failed"}
    /\ asked \in 0..MaxListChange
    /\ search.query \in Query \cup {Nothing}
    /\ search.request \in Query \cup {Nothing}
    /\ search.results \in Query \cup {Nothing, "failed"}
    /\ search.loading = (search.request # Nothing)

AllThere == [i \in Item |-> IF i = Creatable THEN "gone" ELSE "old"]

\* The selection of a space is remembered between visits.
ListsInit ==
    /\ \E kept \in Item \cup {Nothing} :
         lists = [k \in List |-> [shown |-> NoRequest.data, loaded |-> FALSE,
                                  loading |-> FALSE, stale |-> "no",
                                  current |-> IF k = "spaces" THEN kept ELSE Nothing,
                                  request |-> NoRequest]]
    /\ db = [k \in List |-> AllThere]
    /\ ops = {} /\ asked = 0
    /\ search = [query |-> Nothing, timer |-> FALSE, request |-> Nothing,
                 loading |-> FALSE, results |-> Nothing]

-----------------------------------------------------------------------------
(* Requests for a list. *)

\* abort
Aborted(l) ==
    [l EXCEPT !.request = NoRequest, !.loading = FALSE,
              !.stale = IF @ = "no" THEN "no" ELSE "yes"]

\* begin
Begun(l) ==
    [l EXCEPT !.request = [NoRequest EXCEPT !.at = "asked"], !.loading = TRUE,
              !.stale = IF @ = "no" THEN "no" ELSE "reading"]

Listed(l) == {i \in Item : l.shown[i] # "gone"}

\* The selection, or the first space if it is not listed.
Reselected(l) ==
    [l EXCEPT !.current = IF @ \in Listed(l) THEN @
                          ELSE IF Listed(l) = {} THEN Nothing
                          ELSE CHOOSE i \in Listed(l) : TRUE]

FetchList(k) ==
    /\ lists' = [lists EXCEPT ![k] = Begun(@)]
    /\ UNCHANGED <<db, ops, asked, search>>

ServeList(k) ==
    /\ lists[k].request.at = "asked"
    /\ lists' = [lists EXCEPT ![k].request = [at |-> "served", data |-> db[k]]]
    /\ UNCHANGED <<db, ops, asked, search>>

\* The answer is published, and a space selected if the selection is gone.
ListAnswers(k) ==
    LET l == Aborted([lists[k] EXCEPT !.shown = lists[k].request.data,
                                      !.loaded = TRUE,
                                      !.stale = IF @ = "yes" THEN "yes" ELSE "no"])
    IN
    /\ lists[k].request.at = "served"
    /\ lists' = [lists EXCEPT ![k] = IF k = "spaces" THEN Reselected(l) ELSE l]
    /\ UNCHANGED <<db, ops, asked, search>>

ListFails(k) ==
    /\ lists[k].request.at # "none"
    /\ lists' = [lists EXCEPT ![k] = Aborted(@)]
    /\ UNCHANGED <<db, ops, asked, search>>

-----------------------------------------------------------------------------
(* Changes. *)

Effect(shown, o) ==
    [shown EXCEPT ![o.item] =
        IF o.kind = "create" THEN "old"
        ELSE IF @ = "gone" \/ o.kind = "delete" THEN "gone" ELSE "new"]

\* A change is shown, and what was read before it aborted.
Changed(l, o) == [Aborted(l) EXCEPT !.shown = Effect(@, o)]

ChangeOf(kind, k, i) ==
    [kind |-> kind, list |-> k, item |-> i, at |-> "sent",
     before |-> IF k = "spaces" THEN NoRequest.data ELSE lists[k].shown]

Unbusy(k, i) == \A o \in ops : o.list # k \/ o.item # i

\* renameProjectSpace, renameConversation, updateConversation and the pinned,
\* favorite and archived marks: shown at once.
Rename(k, i) ==
    LET o == ChangeOf("rename", k, i) IN
    /\ lists[k].shown[i] # "gone" /\ Unbusy(k, i)
    /\ lists' = [lists EXCEPT ![k] = Changed(@, o)]
    /\ ops' = ops \cup {o}
    /\ asked < MaxListChange /\ asked' = asked + 1
    /\ UNCHANGED <<db, search>>

\* deleteProjectSpace, deleteConversation: gone at once, and another space is
\* selected.
Delete(k, i) ==
    LET o == ChangeOf("delete", k, i)
        l == Changed(lists[k], o)
    IN
    /\ lists[k].shown[i] # "gone" /\ Unbusy(k, i)
    /\ lists' = [lists EXCEPT ![k] =
                   IF k = "spaces" /\ l.current = i THEN Reselected(l) ELSE l]
    /\ ops' = ops \cup {o}
    /\ asked < MaxListChange /\ asked' = asked + 1
    /\ UNCHANGED <<db, search>>

\* createProjectSpace, branchConversation: shown when the server has it.
Create(k) ==
    /\ db[k][Creatable] = "gone" /\ Unbusy(k, Creatable)
    /\ ops' = ops \cup {ChangeOf("create", k, Creatable)}
    /\ asked < MaxListChange /\ asked' = asked + 1
    /\ UNCHANGED <<lists, db, search>>

\* The server applies a change, or refuses what it does not have.
Serve(o) ==
    LET found == o.kind = "create" \/ db[o.list][o.item] # "gone" IN
    /\ o.at = "sent"
    /\ db' = IF found THEN [db EXCEPT ![o.list] = Effect(@, o)] ELSE db
    /\ ops' = (ops \ {o}) \cup {[o EXCEPT !.at = IF found THEN "applied" ELSE "failed"]}
    /\ UNCHANGED <<lists, asked, search>>

\* The change or its answer is lost.
Lose(o) ==
    /\ o.at # "failed"
    /\ ops' = (ops \ {o}) \cup {[o EXCEPT !.at = "failed"]}
    /\ UNCHANGED <<lists, db, asked, search>>

\* Mutant: a list that was read before the change is still published.
SucceededOnly(l, o) ==
    LET m == [l EXCEPT !.shown = Effect(@, o)] IN
    IF o.list = "conversations" THEN m
    ELSE IF o.kind = "create" THEN [m EXCEPT !.current = o.item] ELSE Reselected(m)

\* The change is shown once more. A space that was created is selected; one
\* that was deleted may have been selected again.
Succeeded(l, o) ==
    LET m == Changed(l, o) IN
    IF o.list = "conversations" THEN m
    ELSE IF o.kind = "create" THEN [m EXCEPT !.current = o.item]
    ELSE IF o.kind = "delete" /\ m.current = o.item THEN Reselected(m) ELSE m

Succeed(o) ==
    /\ o.at = "applied"
    /\ lists' = [lists EXCEPT ![o.list] = Succeeded(@, o)]
    /\ ops' = ops \ {o}
    /\ UNCHANGED <<db, asked, search>>

\* The spaces are read again.
SpaceFails(o) ==
    /\ o.at = "failed" /\ o.list = "spaces"
    /\ lists' = [lists EXCEPT !["spaces"] =
                   IF o.kind = "create" THEN [@ EXCEPT !.stale = "yes"]
                   ELSE Begun([@ EXCEPT !.stale = "yes"])]
    /\ ops' = ops \ {o}
    /\ UNCHANGED <<db, asked, search>>

\* renameConversation and its like restore the whole list as it was before
\* the change; deleteConversation puts the conversation back.
ConversationFails(o) ==
    /\ o.at = "failed" /\ o.list = "conversations"
    /\ LET shown == lists["conversations"].shown IN
       lists' = [lists EXCEPT !["conversations"] = [@ EXCEPT
         !.stale = "yes",
         !.shown = IF o.kind = "rename" THEN o.before
                   ELSE IF o.kind = "delete" /\ shown[o.item] = "gone"
                   THEN [shown EXCEPT ![o.item] = o.before[o.item]] ELSE shown]]
    /\ ops' = ops \ {o}
    /\ UNCHANGED <<db, asked, search>>

\* selectProjectSpace
SelectSpace(i) ==
    /\ i \in Listed(lists["spaces"])
    /\ lists' = [lists EXCEPT !["spaces"].current = i]
    /\ UNCHANGED <<db, ops, asked, search>>

-----------------------------------------------------------------------------
(* The search dialog. *)

\* setQuery, setFilters: what runs is aborted; the dialog's timer starts.
SetQuery(q) ==
    /\ search' = [search EXCEPT !.query = q, !.timer = TRUE, !.request = Nothing,
                                !.loading = FALSE]
    /\ UNCHANGED <<lists, db, ops, asked>>

\* searchMessages, of a query that is not blank.
Searching(s) == [s EXCEPT !.request = s.query, !.loading = TRUE]

\* The timer of the dialog: searchMessages, or clearResults.
SearchTimerFires ==
    /\ search.timer
    /\ search' = IF search.query # Nothing THEN Searching([search EXCEPT !.timer = FALSE])
                 ELSE [search EXCEPT !.timer = FALSE, !.request = Nothing,
                                     !.results = Nothing, !.loading = FALSE]
    /\ UNCHANGED <<lists, db, ops, asked>>

SearchAnswers(ok) ==
    /\ search.request # Nothing
    /\ search' = [search EXCEPT !.results = IF ok THEN search.request ELSE "failed",
                                !.request = Nothing, !.loading = FALSE]
    /\ UNCHANGED <<lists, db, ops, asked>>

ListsNext ==
    \/ \E k \in List :
         \/ FetchList(k) \/ ServeList(k) \/ ListAnswers(k) \/ ListFails(k) \/ Create(k)
         \/ \E i \in Item : Rename(k, i) \/ Delete(k, i)
    \/ \E o \in ops :
         Serve(o) \/ Lose(o) \/ Succeed(o) \/ SpaceFails(o) \/ ConversationFails(o)
    \/ \E i \in Item : SelectSpace(i)

SearchNext ==
    \/ \E q \in Query \cup {Nothing} : SetQuery(q)
    \/ SearchTimerFires
    \/ \E ok \in BOOLEAN : SearchAnswers(ok)

ListsSpec == ListsInit /\ [][ListsNext \/ SearchNext]_listVars

-----------------------------------------------------------------------------

Settled(k) ==
    lists[k].request.at = "none" /\ \A o \in ops : o.list # k

\* When nothing is on its way, a list shows what the server has, unless a
\* change failed since it was last read (the aborts at the start and at the
\* end of every change). And the space that is selected is a listed one at any
\* time, although a list that still has a deleted space may be published while
\* its deletion waits for the answer and the user may select it again
\* (deleteProjectSpace).
ListsSettle ==
    /\ ListsTypeOK
    /\ \A k \in List :
         Settled(k) /\ lists[k].loaded /\ lists[k].stale = "no" => lists[k].shown = db[k]
    /\ LET l == lists["spaces"] IN
       l.loaded => l.current \in Listed(l) \/ (l.current = Nothing /\ Listed(l) = {})

=============================================================================
