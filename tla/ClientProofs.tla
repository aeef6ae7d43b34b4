---------------------------- MODULE ClientProofs ----------------------------
(* What is proved of the web client: its lists, the uploads of a tab, its     *)
(* chat, and its forms.                                                       *)
EXTENDS ClientLists, UploadTab, ChatView, ClientForms, SequenceTheorems, FiniteSetTheorems,
        WellFoundedInduction, TLAPS

-----------------------------------------------------------------------------
(* The lists. What a list shows, and what a request has read for it, is what  *)
(* the server has, but for the places whose changes wait for their answers.   *)

\* A list and its request.
ListShape(l) ==
    /\ l = [shown |-> l.shown, loaded |-> l.loaded, loading |-> l.loading, stale |-> l.stale,
            current |-> l.current, request |-> l.request]
    /\ l.request = [at |-> l.request.at, data |-> l.request.data]
    /\ l.shown \in [Item -> Names] /\ l.request.data \in [Item -> Names]
    /\ l.request.at \in {"none", "asked", "served"}
    /\ l.loading = (l.request.at # "none")
    /\ l.stale \in {"no", "reading", "yes"}
    /\ l.current \in Item \cup {Nothing}

\* A change that waits for its answer.
OpShape(o) ==
    /\ o = [kind |-> o.kind, list |-> o.list, item |-> o.item, at |-> o.at, before |-> o.before]
    /\ o.kind \in {"rename", "delete", "create"} /\ o.list \in List /\ o.item \in Item
    /\ o.at \in {"sent", "applied", "failed"} /\ o.before \in [Item -> Names]

\* The search.
SearchShape(s) ==
    /\ s = [query |-> s.query, timer |-> s.timer, request |-> s.request, loading |-> s.loading,
            results |-> s.results]
    /\ s.query \in Query \cup {Nothing} /\ s.request \in Query \cup {Nothing}
    /\ s.results \in Query \cup {Nothing, "failed"} /\ s.loading = (s.request # Nothing)

\* One change of a place waits at a time, and the server has what it applied.
ChangesInOrder ==
    /\ \A o \in ops : OpShape(o)
    /\ \A o, p \in ops : o.list = p.list /\ o.item = p.item => o = p
    /\ \A o \in ops : o.at = "applied" =>
         db[o.list][o.item] = CASE o.kind = "create" -> "old" [] o.kind = "rename" -> "new"
                                [] OTHER -> "gone"

\* What is read of a place is what the server has, but for a change under way;
\* a place that is renamed is there if it is there on the server.
Fits(k, names) ==
    \A i \in Item :
        /\ (\A o \in ops : o.list = k => o.item # i) => names[i] = db[k][i]
        /\ \A o \in ops : o.list = k /\ o.item = i /\ o.kind = "rename" /\ o.at # "failed" =>
             (names[i] = "gone" <=> db[k][i] = "gone")

\* The list fits unless a change failed since it was read; so does what a
\* request has read for it.
ListFits(k) ==
    /\ lists[k].loaded /\ lists[k].stale = "no" => Fits(k, lists[k].shown)
    /\ lists[k].request.at = "served" /\ lists[k].stale # "yes" => Fits(k, lists[k].request.data)

\* The space that is selected is listed.
SpaceSelected(l) ==
    l.loaded => l.current \in Listed(l) \/ (l.current = Nothing /\ Listed(l) = {})

\* The inductive invariant of the lists.
ListsInv ==
    /\ lists = [k \in List |-> lists[k]] /\ db \in [List -> [Item -> Names]]
    /\ \A k \in List : ListShape(lists[k]) /\ ListFits(k)
    /\ ChangesInOrder /\ SpaceSelected(lists["spaces"])
    /\ asked \in 0 .. MaxListChange /\ SearchShape(search)

\* The initial states satisfy the invariant.
LEMMA ListsStart == ListsInit => ListsInv
<1> SUFFICES ASSUME ListsInit PROVE ListsInv
  OBVIOUS
<1> USE ClientListsAssumption
<1>1. \A k \in List : /\ lists[k].shown = NoRequest.data /\ lists[k].loaded = FALSE
                      /\ lists[k].request = NoRequest /\ lists[k].stale = "no"
  BY DEF ListsInit
<1>2. \A k \in List : ListShape(lists[k])
  <2>1. PICK kept \in Item \cup {Nothing} :
          lists = [k \in List |-> [shown |-> NoRequest.data, loaded |-> FALSE,
                                   loading |-> FALSE, stale |-> "no",
                                   current |-> IF k = "spaces" THEN kept ELSE Nothing,
                                   request |-> NoRequest]]
    BY DEF ListsInit
  <2>2. NoRequest.data \in [Item -> Names]
    BY DEF NoRequest, Names
  <2> QED BY <2>1, <2>2 DEF ListShape, NoRequest
<1>3. \A k \in List : ListFits(k)
  BY <1>1 DEF ListFits, NoRequest
<1>4. lists = [k \in List |-> lists[k]] /\ db \in [List -> [Item -> Names]]
  BY DEF ListsInit, AllThere, Names
<1>5. ChangesInOrder /\ SpaceSelected(lists["spaces"])
  BY <1>1 DEF ListsInit, ChangesInOrder, SpaceSelected, List
<1>6. asked \in 0 .. MaxListChange
  BY DEF ListsInit
<1>7. SearchShape(search)
  <2>1. search = [query |-> Nothing, timer |-> FALSE, request |-> Nothing, loading |-> FALSE,
                  results |-> Nothing]
    BY DEF ListsInit
  <2>2. search.loading = FALSE /\ search.request = Nothing
    BY <2>1
  <2> QED BY <2>1, <2>2 DEF SearchShape
<1> QED BY <1>2, <1>3, <1>4, <1>5, <1>6, <1>7 DEF ListsInv

\* What a change makes of what is shown, or of what the server has.
LEMMA EffectIs ==
    ASSUME NEW names \in [Item -> Names], NEW o, OpShape(o)
    PROVE  /\ Effect(names, o) \in [Item -> Names]
           /\ \A i \in Item : i # o.item => Effect(names, o)[i] = names[i]
           /\ o.kind = "create" => Effect(names, o)[o.item] = "old"
           /\ o.kind = "delete" => Effect(names, o)[o.item] = "gone"
           /\ o.kind = "rename" =>
                Effect(names, o)[o.item] = IF names[o.item] = "gone" THEN "gone" ELSE "new"
<1>1. o.item \in Item /\ o.kind \in {"rename", "delete", "create"}
  BY DEF OpShape
<1> QED BY <1>1 DEF Effect, Names

\* What a list becomes.
LEMMA ShownInstead ==
    ASSUME NEW l, ListShape(l), NEW names \in [Item -> Names], NEW m, m = [l EXCEPT !.shown = names]
    PROVE  /\ ListShape(m) /\ m.shown = names /\ m.loaded = l.loaded /\ m.stale = l.stale
           /\ m.current = l.current /\ m.request = l.request
BY DEF ListShape

\* A request is aborted: what it changed of the list will be read again.
LEMMA AbortedIs ==
    ASSUME NEW l, ListShape(l), NEW m, m = Aborted(l)
    PROVE  /\ ListShape(m) /\ m.shown = l.shown /\ m.loaded = l.loaded
           /\ m.current = l.current /\ m.request.at = "none"
           /\ m.stale = IF l.stale = "no" THEN "no" ELSE "yes"
<1>1. PICK stale \in {"no", "yes"} : stale = IF l.stale = "no" THEN "no" ELSE "yes"
  OBVIOUS
<1>2. m = [l EXCEPT !.request = NoRequest, !.loading = FALSE, !.stale = stale]
  BY <1>1 DEF Aborted, ListShape
<1>3. /\ m.shown = l.shown /\ m.loaded = l.loaded /\ m.current = l.current
      /\ m.request = NoRequest /\ m.stale = stale /\ m.loading = FALSE
      /\ m = [shown |-> m.shown, loaded |-> m.loaded, loading |-> m.loading, stale |-> m.stale,
              current |-> m.current, request |-> m.request]
  BY <1>2 DEF ListShape
<1>4. NoRequest.at = "none" /\ NoRequest.data \in [Item -> Names]
      /\ NoRequest = [at |-> NoRequest.at, data |-> NoRequest.data]
  BY DEF NoRequest, Names
<1> QED BY <1>1, <1>3, <1>4 DEF ListShape

\* A request begins in the place of an older one.
LEMMA BegunIs ==
    ASSUME NEW l, ListShape(l), NEW m, m = Begun(l)
    PROVE  /\ ListShape(m) /\ m.shown = l.shown /\ m.loaded = l.loaded
           /\ m.current = l.current /\ m.request.at = "asked"
           /\ m.stale = IF l.stale = "no" THEN "no" ELSE "reading"
<1>1. PICK stale \in {"no", "reading"} : stale = IF l.stale = "no" THEN "no" ELSE "reading"
  OBVIOUS
<1>2. PICK request : request = [NoRequest EXCEPT !.at = "asked"]
  OBVIOUS
<1>3. m = [l EXCEPT !.request = request, !.loading = TRUE, !.stale = stale]
  BY <1>1, <1>2 DEF Begun, ListShape
<1>4. /\ m.shown = l.shown /\ m.loaded = l.loaded /\ m.current = l.current
      /\ m.request = request /\ m.stale = stale /\ m.loading = TRUE
      /\ m = [shown |-> m.shown, loaded |-> m.loaded, loading |-> m.loading, stale |-> m.stale,
              current |-> m.current, request |-> m.request]
  BY <1>3 DEF ListShape
<1>5. request.at = "asked" /\ request.data \in [Item -> Names]
      /\ request = [at |-> request.at, data |-> request.data]
  BY <1>2 DEF NoRequest, Names
<1> QED BY <1>1, <1>4, <1>5 DEF ListShape

\* The space that is selected is listed once it was selected anew.
LEMMA ReselectedIs ==
    ASSUME NEW l, ListShape(l), NEW m, m = Reselected(l)
    PROVE  /\ ListShape(m) /\ m.shown = l.shown /\ m.loaded = l.loaded /\ m.stale = l.stale
           /\ m.request = l.request /\ SpaceSelected(m)
<1>1. PICK current : current = IF l.current \in Listed(l) THEN l.current
                               ELSE IF Listed(l) = {} THEN Nothing
                               ELSE CHOOSE i \in Listed(l) : TRUE
  OBVIOUS
<1>2. current \in Listed(l) \/ (current = Nothing /\ Listed(l) = {})
  BY <1>1
<1>3. current \in Item \cup {Nothing}
  BY <1>2 DEF Listed
<1>4. m = [l EXCEPT !.current = current]
  BY <1>1 DEF Reselected, ListShape
<1>5. /\ ListShape(m) /\ m.shown = l.shown /\ m.loaded = l.loaded /\ m.stale = l.stale
      /\ m.request = l.request /\ m.current = current
  BY <1>3, <1>4 DEF ListShape
<1>6. Listed(m) = Listed(l)
  BY <1>5 DEF Listed
<1> QED BY <1>2, <1>5, <1>6 DEF SpaceSelected

\* A change is shown, and the request before it aborted.
LEMMA ChangedIs ==
    ASSUME NEW l, ListShape(l), NEW o, OpShape(o), NEW m, m = Changed(l, o)
    PROVE  /\ ListShape(m) /\ m.shown = Effect(l.shown, o) /\ m.loaded = l.loaded
           /\ m.current = l.current /\ m.request.at = "none"
           /\ m.stale = IF l.stale = "no" THEN "no" ELSE "yes"
<1>1. PICK a : a = Aborted(l)
  OBVIOUS
<1>2. /\ ListShape(a) /\ a.shown = l.shown /\ a.loaded = l.loaded
      /\ a.current = l.current /\ a.request.at = "none"
      /\ a.stale = IF l.stale = "no" THEN "no" ELSE "yes"
  BY <1>1, AbortedIs
<1>3. m = [a EXCEPT !.shown = Effect(l.shown, o)]
  BY <1>1, <1>2 DEF Changed
<1>4. Effect(l.shown, o) \in [Item -> Names]
  BY EffectIs DEF ListShape
<1> QED BY <1>2, <1>3, <1>4, ShownInstead

\* A list to which nothing has happened fits as before.
LEMMA FitsKept ==
    ASSUME NEW k \in List, db'[k] = db[k],
           \A o : o.list = k => (o \in ops' <=> o \in ops)
    PROVE  \A names : Fits(k, names) => Fits(k, names)'
BY DEF Fits

\* What remains to be shown of a step of one list.
LEMMA ListGoes ==
    ASSUME ListsInv, NEW k \in List, NEW l, ListShape(l), lists' = [lists EXCEPT ![k] = l],
           \A j \in List \ {k} : db'[j] = db[j],
           \A j \in List \ {k} : \A o : o.list = j => (o \in ops' <=> o \in ops),
           l.loaded /\ l.stale = "no" => Fits(k, l.shown)',
           l.request.at = "served" /\ l.stale # "yes" => Fits(k, l.request.data)',
           k = "spaces" => SpaceSelected(l),
           db' \in [List -> [Item -> Names]], ChangesInOrder', asked' \in 0 .. MaxListChange,
           SearchShape(search')
    PROVE  ListsInv'
<1>1. \A j \in List : lists'[j] = IF j = k THEN l ELSE lists[j]
  BY DEF ListsInv
<1>2. (lists = [j \in List |-> lists[j]])'
  BY DEF ListsInv
<1>3. \A j \in List : ListShape(lists[j])'
  <2>1. \A j \in List : ListShape(lists[j])
    BY DEF ListsInv
  <2>2. \A j \in List : ListShape(lists'[j])
    BY <1>1, <2>1
  <2> QED BY <2>2 DEF ListShape
<1>4. \A j \in List : ListFits(j)'
  <2> SUFFICES ASSUME NEW j \in List PROVE ListFits(j)'
    OBVIOUS
  <2>1. CASE j = k
    BY <1>1, <2>1 DEF ListFits
  <2>2. CASE j # k
    <3>1. ListFits(j) /\ lists'[j] = lists[j]
      BY <1>1, <2>2 DEF ListsInv
    <3>2. \A names : Fits(j, names) => Fits(j, names)'
      BY <2>2, FitsKept
    <3>3. PICK shown, data : shown = lists[j].shown /\ data = lists[j].request.data
      OBVIOUS
    <3>4. (Fits(j, shown) => Fits(j, shown)') /\ (Fits(j, data) => Fits(j, data)')
      BY <3>2
    <3>5. /\ lists[j].loaded /\ lists[j].stale = "no" => Fits(j, shown)
          /\ lists[j].request.at = "served" /\ lists[j].stale # "yes" => Fits(j, data)
      BY <3>1, <3>3 DEF ListFits
    <3>6. /\ lists'[j].loaded /\ lists'[j].stale = "no" => Fits(j, shown)'
          /\ lists'[j].request.at = "served" /\ lists'[j].stale # "yes" => Fits(j, data)'
          /\ shown = lists'[j].shown /\ data = lists'[j].request.data
      BY <3>1, <3>3, <3>4, <3>5
    <3> QED BY <3>6 DEF ListFits, Fits
  <2> QED BY <2>1, <2>2
<1>5. SpaceSelected(lists["spaces"])'
  <2>1. SpaceSelected(lists["spaces"]) /\ "spaces" \in List
    BY DEF ListsInv, List
  <2>2. SpaceSelected(lists'["spaces"])
    BY <1>1, <2>1
  <2> QED BY <2>2 DEF SpaceSelected, Listed
<1>6. SearchShape(search)'
  BY DEF SearchShape
<1> QED BY <1>2, <1>3, <1>4, <1>5, <1>6 DEF ListsInv

\* A step of a request, or of the user who selects a space.
LEMMA RequestStep ==
    ASSUME ListsInv, NEW k \in List,
           \/ FetchList(k) \/ ServeList(k) \/ ListAnswers(k) \/ ListFails(k)
           \/ k = "spaces" /\ \E i \in Item : SelectSpace(i)
    PROVE  ListsInv'
<1>1. /\ ListShape(lists[k]) /\ ListFits(k) /\ (k = "spaces" => SpaceSelected(lists[k]))
      /\ UNCHANGED <<db, ops, asked, search>>
      /\ db[k] \in [Item -> Names]
  BY DEF ListsInv, FetchList, ServeList, ListAnswers, ListFails, SelectSpace
<1>2. /\ db' \in [List -> [Item -> Names]] /\ ChangesInOrder' /\ asked' \in 0 .. MaxListChange
      /\ SearchShape(search')
  BY <1>1 DEF ListsInv, ChangesInOrder, OpShape
<1>3. PICK l : /\ ListShape(l) /\ lists' = [lists EXCEPT ![k] = l]
               /\ l.loaded /\ l.stale = "no" => Fits(k, l.shown)
               /\ l.request.at = "served" /\ l.stale # "yes" => Fits(k, l.request.data)
               /\ k = "spaces" => SpaceSelected(l)
  <2>1. CASE FetchList(k) \/ ListFails(k)
    <3>1. PICK l : l \in {Begun(lists[k]), Aborted(lists[k])} /\ lists' = [lists EXCEPT ![k] = l]
      BY <2>1 DEF FetchList, ListFails
    <3>2. /\ ListShape(l) /\ l.shown = lists[k].shown /\ l.loaded = lists[k].loaded
          /\ l.current = lists[k].current /\ l.request.at # "served"
          /\ l.stale = "no" => lists[k].stale = "no"
      BY <1>1, <3>1, BegunIs, AbortedIs
    <3>3. SpaceSelected(lists[k]) => SpaceSelected(l)
      BY <3>2 DEF SpaceSelected, Listed
    <3> QED BY <1>1, <3>1, <3>2, <3>3 DEF ListFits
  <2>2. CASE ServeList(k)
    <3>1. PICK l : l = [lists[k] EXCEPT !.request = [at |-> "served", data |-> db[k]]]
      OBVIOUS
    <3>2. lists' = [lists EXCEPT ![k] = l] /\ lists[k].request.at = "asked"
      BY <2>2, <3>1 DEF ServeList
    <3>3. /\ ListShape(l) /\ l.shown = lists[k].shown /\ l.loaded = lists[k].loaded
          /\ l.current = lists[k].current /\ l.stale = lists[k].stale /\ l.request.data = db[k]
      BY <1>1, <3>1, <3>2 DEF ListShape
    <3>4. SpaceSelected(lists[k]) => SpaceSelected(l)
      BY <3>3 DEF SpaceSelected, Listed
    <3>5. Fits(k, db[k])
      BY DEF Fits
    <3> QED BY <1>1, <3>2, <3>3, <3>4, <3>5 DEF ListFits
  <2>3. CASE ListAnswers(k)
    <3>1. PICK stale \in {"yes", "no"} : stale = IF lists[k].stale = "yes" THEN "yes" ELSE "no"
      OBVIOUS
    <3>2. PICK a : a = [lists[k] EXCEPT !.shown = lists[k].request.data, !.loaded = TRUE,
                                        !.stale = stale]
      OBVIOUS
    <3>3. /\ ListShape(a) /\ a.shown = lists[k].request.data /\ a.stale = stale
      BY <1>1, <3>1, <3>2 DEF ListShape
    <3>4. PICK b : b = Aborted(a)
      OBVIOUS
    <3>5. /\ ListShape(b) /\ b.shown = a.shown /\ b.request.at = "none" /\ b.stale = stale
      BY <3>1, <3>3, <3>4, AbortedIs
    <3>6. PICK l : l = IF k = "spaces" THEN Reselected(b) ELSE b
      OBVIOUS
    <3>7. /\ ListShape(l) /\ l.shown = a.shown /\ l.request.at = "none" /\ l.stale = stale
          /\ k = "spaces" => SpaceSelected(l)
      BY <3>5, <3>6, ReselectedIs
    <3>8. lists' = [lists EXCEPT ![k] = l] /\ lists[k].request.at = "served"
      <4>1. a = [lists[k] EXCEPT !.shown = lists[k].request.data, !.loaded = TRUE,
                   !.stale = IF @ = "yes" THEN "yes" ELSE "no"]
        BY <1>1, <3>1, <3>2 DEF ListShape
      <4> QED BY <2>3, <3>4, <3>6, <4>1 DEF ListAnswers
    <3>9. l.stale = "no" => Fits(k, l.shown)
      BY <1>1, <3>1, <3>3, <3>7, <3>8 DEF ListFits
    <3> QED BY <3>7, <3>8, <3>9
  <2>4. ASSUME k = "spaces", NEW i \in Item, SelectSpace(i)
        PROVE  \E l : /\ ListShape(l) /\ lists' = [lists EXCEPT ![k] = l]
                      /\ l.loaded /\ l.stale = "no" => Fits(k, l.shown)
                      /\ l.request.at = "served" /\ l.stale # "yes" => Fits(k, l.request.data)
                      /\ k = "spaces" => SpaceSelected(l)
    <3>1. PICK l : l = [lists[k] EXCEPT !.current = i]
      OBVIOUS
    <3>2. lists' = [lists EXCEPT ![k] = l] /\ i \in Listed(lists[k])
      BY <2>4, <3>1 DEF SelectSpace
    <3>3. /\ ListShape(l) /\ l.shown = lists[k].shown /\ l.loaded = lists[k].loaded
          /\ l.current = i /\ l.stale = lists[k].stale /\ l.request = lists[k].request
      BY <1>1, <3>1 DEF ListShape
    <3>4. SpaceSelected(l)
      BY <3>2, <3>3 DEF SpaceSelected, Listed
    <3> QED BY <1>1, <3>2, <3>3, <3>4 DEF ListFits
  <2> QED BY <2>1, <2>2, <2>3, <2>4
<1>4. /\ l.loaded /\ l.stale = "no" => Fits(k, l.shown)'
      /\ l.request.at = "served" /\ l.stale # "yes" => Fits(k, l.request.data)'
  <2>1. \A names : Fits(k, names) => Fits(k, names)'
    BY <1>1, FitsKept
  <2> QED BY <1>3, <2>1
<1>5. \A j \in List \ {k} : db'[j] = db[j] /\ \A o : o.list = j => (o \in ops' <=> o \in ops)
  BY <1>1
<1> QED BY <1>2, <1>3, <1>4, <1>5, ListGoes

\* A change that is asked for.
LEMMA ChangeAsked ==
    ASSUME ListsInv, NEW k \in List, NEW i \in Item,
           Rename(k, i) \/ Delete(k, i) \/ (i = Creatable /\ Create(k))
    PROVE  ListsInv'
<1> USE ClientListsAssumption
<1>1. /\ ListShape(lists[k]) /\ ListFits(k) /\ (k = "spaces" => SpaceSelected(lists[k]))
      /\ UNCHANGED <<db, search>> /\ db[k] \in [Item -> Names] /\ Unbusy(k, i)
      /\ lists = [lists EXCEPT ![k] = lists[k]]
  BY DEF ListsInv, Rename, Delete, Create
<1>2. PICK kind \in {"rename", "delete", "create"} :
        /\ kind = "rename" => Rename(k, i)
        /\ kind = "delete" => Delete(k, i)
        /\ kind = "create" => i = Creatable /\ Create(k)
        /\ ops' = ops \cup {ChangeOf(kind, k, i)}
        /\ asked < MaxListChange /\ asked' = asked + 1
  BY DEF Rename, Delete, Create
<1>3. PICK o : o = ChangeOf(kind, k, i)
  OBVIOUS
<1>4. OpShape(o) /\ o.kind = kind /\ o.list = k /\ o.item = i /\ o.at = "sent"
  <2>1. NoRequest.data \in [Item -> Names] /\ lists[k].shown \in [Item -> Names]
    BY <1>1 DEF NoRequest, Names, ListShape
  <2> QED BY <1>3, <2>1 DEF ChangeOf, OpShape
<1>5. ops' = ops \cup {o} /\ \A p \in ops : p.list # k \/ p.item # i
  BY <1>1, <1>2, <1>3 DEF Unbusy
<1>6. ChangesInOrder'
  <2>1. ChangesInOrder
    BY DEF ListsInv
  <2> QED BY <1>1, <1>4, <1>5, <2>1 DEF ChangesInOrder, OpShape
<1>7. /\ db' \in [List -> [Item -> Names]] /\ asked' \in 0 .. MaxListChange /\ SearchShape(search')
  BY <1>1, <1>2 DEF ListsInv
<1>8. \A j \in List \ {k} : db'[j] = db[j] /\ \A p : p.list = j => (p \in ops' <=> p \in ops)
  BY <1>1, <1>4, <1>5
<1>9. PICK l : /\ ListShape(l) /\ lists' = [lists EXCEPT ![k] = l]
               /\ l.loaded = lists[k].loaded /\ (l.stale = "no" => lists[k].stale = "no")
               /\ l.request.at = "none" \/ (kind = "create" /\ l = lists[k])
               /\ \A j \in Item : j # i => l.shown[j] = lists[k].shown[j]
               /\ kind = "rename" => lists[k].shown[i] # "gone" /\ l.shown[i] # "gone"
               /\ k = "spaces" => SpaceSelected(l)
  <2>1. CASE kind = "create"
    <3>1. lists' = [lists EXCEPT ![k] = lists[k]]
      BY <1>1, <1>2, <2>1 DEF Create
    <3> QED BY <1>1, <2>1, <3>1
  <2>2. PICK m : m = Changed(lists[k], o)
    OBVIOUS
  <2>3. /\ ListShape(m) /\ m.shown = Effect(lists[k].shown, o) /\ m.loaded = lists[k].loaded
        /\ m.current = lists[k].current /\ m.request.at = "none"
        /\ m.stale = "no" => lists[k].stale = "no"
    BY <1>1, <1>4, <2>2, ChangedIs
  <2>4. /\ \A j \in Item : j # i => m.shown[j] = lists[k].shown[j]
        /\ kind = "delete" => m.shown[i] = "gone"
        /\ kind = "rename" => m.shown[i] = IF lists[k].shown[i] = "gone" THEN "gone" ELSE "new"
    BY <1>1, <1>4, <2>3, EffectIs DEF ListShape
  <2>5. CASE kind = "rename"
    <3>1. lists[k].shown[i] # "gone"
      BY <1>2, <2>5 DEF Rename
    <3>2. lists' = [lists EXCEPT ![k] = m]
      BY <1>2, <1>3, <2>2, <2>5 DEF Rename
    <3>3. Listed(m) = Listed(lists[k])
      BY <2>4, <2>5, <3>1 DEF Listed
    <3>4. k = "spaces" => SpaceSelected(m)
      BY <1>1, <2>3, <3>3 DEF SpaceSelected
    <3> QED BY <2>3, <2>4, <2>5, <3>1, <3>2, <3>4
  <2>6. CASE kind = "delete"
    <3>1. lists[k].shown[i] # "gone"
      BY <1>2, <2>6 DEF Delete
    <3>2. PICK l : l = IF k = "spaces" /\ m.current = i THEN Reselected(m) ELSE m
      OBVIOUS
    <3>3. lists' = [lists EXCEPT ![k] = l]
      BY <1>2, <1>3, <2>2, <2>6, <3>2 DEF Delete
    <3>4. /\ ListShape(l) /\ l.shown = m.shown /\ l.loaded = m.loaded /\ l.stale = m.stale
          /\ l.request = m.request
      BY <2>3, <3>2, ReselectedIs
    <3>5. k = "spaces" => SpaceSelected(l)
      <4>1. CASE k = "spaces" /\ m.current = i
        BY <2>3, <3>2, <4>1, ReselectedIs
      <4>2. CASE k = "spaces" /\ m.current # i
        <5>1. l = m /\ SpaceSelected(lists[k])
          BY <1>1, <3>2, <4>2
        <5>2. i \in Listed(lists[k])
          BY <3>1 DEF Listed
        <5>3. lists[k].loaded => lists[k].current \in Listed(lists[k]) \ {i}
          BY <2>3, <4>2, <5>1, <5>2 DEF SpaceSelected
        <5>4. Listed(lists[k]) \ {i} \subseteq Listed(m)
          BY <2>4 DEF Listed
        <5> QED BY <2>3, <5>1, <5>3, <5>4 DEF SpaceSelected
      <4> QED BY <4>1, <4>2
    <3> QED BY <2>3, <2>4, <2>6, <3>3, <3>4, <3>5
  <2> QED BY <2>1, <2>5, <2>6
<1>10. l.loaded /\ l.stale = "no" => Fits(k, l.shown)'
  <2> SUFFICES ASSUME l.loaded, l.stale = "no" PROVE Fits(k, l.shown)'
    OBVIOUS
  <2>1. Fits(k, lists[k].shown)
    BY <1>1, <1>9 DEF ListFits
  <2>2. kind = "rename" => db[k][i] # "gone"
    BY <1>5, <1>9, <2>1 DEF Fits
  <2> QED BY <1>1, <1>4, <1>5, <1>9, <2>1, <2>2 DEF Fits
<1>11. l.request.at = "served" /\ l.stale # "yes" => Fits(k, l.request.data)'
  <2> SUFFICES ASSUME l.request.at = "served", l.stale # "yes" PROVE Fits(k, l.request.data)'
    OBVIOUS
  <2>1. l = lists[k] /\ kind = "create"
    BY <1>9
  <2>2. Fits(k, lists[k].request.data)
    BY <1>1, <2>1 DEF ListFits
  <2> QED BY <1>1, <1>4, <1>5, <2>1, <2>2 DEF Fits
<1>12. /\ \A j \in List \ {k} : db'[j] = db[j]
       /\ \A j \in List \ {k} : \A p : p.list = j => (p \in ops' <=> p \in ops)
  BY <1>8
<1>13. ListShape(l) /\ lists' = [lists EXCEPT ![k] = l] /\ (k = "spaces" => SpaceSelected(l))
  BY <1>9
<1> QED BY <1>6, <1>7, <1>10, <1>11, <1>12, <1>13, ListGoes

\* A change reaches the server, or is lost.
LEMMA ChangeServed ==
    ASSUME ListsInv, NEW o \in ops, Serve(o) \/ Lose(o)
    PROVE  ListsInv'
<1> DEFINE k == o.list
           i == o.item
<1>1. /\ OpShape(o) /\ k \in List /\ i \in Item /\ o.kind \in {"rename", "delete", "create"}
      /\ ListShape(lists[k]) /\ ListFits(k) /\ (k = "spaces" => SpaceSelected(lists[k]))
      /\ UNCHANGED <<lists, asked, search>> /\ db[k] \in [Item -> Names]
      /\ lists' = [lists EXCEPT ![k] = lists[k]]
      /\ db \in [List -> [Item -> Names]] /\ ChangesInOrder
  BY DEF ListsInv, ChangesInOrder, OpShape, Serve, Lose
<1>2. PICK at \in {"applied", "failed"} :
        /\ ops' = (ops \ {o}) \cup {[o EXCEPT !.at = at]}
        /\ at = "failed" => db' = db
        /\ at = "applied" => /\ o.kind = "create" \/ db[k][i] # "gone"
                             /\ db' = [db EXCEPT ![k] = Effect(db[k], o)] /\ o.at = "sent"
  <2>1. CASE Lose(o)
    BY <2>1 DEF Lose
  <2>2. CASE Serve(o)
    BY <2>2 DEF Serve
  <2> QED BY <2>1, <2>2
<1>3. PICK p : p = [o EXCEPT !.at = at]
  OBVIOUS
<1>4. OpShape(p) /\ p.kind = o.kind /\ p.list = k /\ p.item = i /\ p.at = at
  BY <1>1, <1>3 DEF OpShape
<1>5. ops' = (ops \ {o}) \cup {p} /\ \A x \in ops \ {o} : x.list # k \/ x.item # i
  BY <1>1, <1>2, <1>3 DEF ChangesInOrder
<1>6. /\ db' \in [List -> [Item -> Names]]
      /\ \A j \in List, x \in Item : j # k \/ x # i => db'[j][x] = db[j][x]
      /\ at = "applied" => db'[k][i] = CASE o.kind = "create" -> "old" [] o.kind = "rename" -> "new"
                                         [] OTHER -> "gone"
      /\ at = "failed" => db'[k][i] = db[k][i]
      /\ \A j \in List : j # k => db'[j] = db[j]
  <2>1. CASE at = "failed"
    BY <1>1, <1>2, <2>1
  <2>2. CASE at = "applied"
    <3>1. PICK names : names = Effect(db[k], o)
      OBVIOUS
    <3>2. /\ names \in [Item -> Names] /\ \A x \in Item : x # i => names[x] = db[k][x]
          /\ o.kind = "create" => names[i] = "old"
          /\ o.kind = "delete" => names[i] = "gone"
          /\ o.kind = "rename" => names[i] = IF db[k][i] = "gone" THEN "gone" ELSE "new"
      BY <1>1, <3>1, EffectIs
    <3>3. db' = [db EXCEPT ![k] = names]
      BY <1>2, <2>2, <3>1
    <3>4. db' \in [List -> [Item -> Names]] /\ db'[k] = names /\ \A j \in List : j # k => db'[j] = db[j]
      BY <1>1, <3>2, <3>3
    <3> QED BY <1>1, <1>2, <2>2, <3>2, <3>4
  <2> QED BY <2>1, <2>2
<1>7. ChangesInOrder'
  <2>1. \A x \in ops' : OpShape(x)'
    BY <1>1, <1>4, <1>5 DEF ChangesInOrder, OpShape
  <2>2. \A x, y \in ops' : x.list = y.list /\ x.item = y.item => x = y
    BY <1>1, <1>4, <1>5 DEF ChangesInOrder
  <2>3. ASSUME NEW x \in ops', x.at = "applied"
        PROVE  db'[x.list][x.item] = CASE x.kind = "create" -> "old" [] x.kind = "rename" -> "new"
                                       [] OTHER -> "gone"
    <3>1. CASE x = p
      BY <1>4, <1>6, <2>3, <3>1
    <3>2. CASE x # p
      <4>1. x \in ops /\ (x.list # k \/ x.item # i) /\ OpShape(x)
        BY <1>1, <1>5, <3>2 DEF ChangesInOrder
      <4>2. db'[x.list][x.item] = db[x.list][x.item]
        BY <1>6, <4>1 DEF OpShape
      <4> QED BY <1>1, <2>3, <4>1, <4>2 DEF ChangesInOrder
    <3> QED BY <3>1, <3>2
  <2> QED BY <2>1, <2>2, <2>3 DEF ChangesInOrder
<1>8. \A names : Fits(k, names) => Fits(k, names)'
  <2> SUFFICES ASSUME NEW names, Fits(k, names) PROVE Fits(k, names)'
    OBVIOUS
  <2>1. \A x \in Item : x # i =>
          /\ (\A y \in ops' : y.list = k => y.item # x) => names[x] = db'[k][x]
          /\ \A y \in ops' : y.list = k /\ y.item = x /\ y.kind = "rename" /\ y.at # "failed" =>
               (names[x] = "gone" <=> db'[k][x] = "gone")
    BY <1>1, <1>4, <1>5, <1>6 DEF Fits
  <2>2. \A y \in ops' : y.list = k /\ y.item = i => y = p
    BY <1>4, <1>5
  <2>3. at = "applied" /\ o.kind = "rename" => (names[i] = "gone" <=> db'[k][i] = "gone")
    BY <1>1, <1>2, <1>6 DEF Fits
  <2> QED BY <1>1, <1>4, <1>5, <2>1, <2>2, <2>3 DEF Fits
<1>9. /\ lists[k].loaded /\ lists[k].stale = "no" => Fits(k, lists[k].shown)'
      /\ lists[k].request.at = "served" /\ lists[k].stale # "yes" => Fits(k, lists[k].request.data)'
  <2>1. PICK shown, data : shown = lists[k].shown /\ data = lists[k].request.data
    OBVIOUS
  <2>2. (Fits(k, shown) => Fits(k, shown)') /\ (Fits(k, data) => Fits(k, data)')
    BY <1>8
  <2>3. shown = lists'[k].shown /\ data = lists'[k].request.data
    BY <1>1, <2>1
  <2> QED BY <1>1, <2>1, <2>2, <2>3 DEF ListFits, Fits
<1>10. \A j \in List \ {k} : db'[j] = db[j] /\ \A x : x.list = j => (x \in ops' <=> x \in ops)
  BY <1>4, <1>5, <1>6
<1>11. asked' \in 0 .. MaxListChange /\ SearchShape(search')
  BY <1>1 DEF ListsInv
<1>12. PICK l : l = lists[k]
  OBVIOUS
<1>13. /\ l.loaded /\ l.stale = "no" => Fits(k, l.shown)'
       /\ l.request.at = "served" /\ l.stale # "yes" => Fits(k, l.request.data)'
  BY <1>1, <1>9, <1>12 DEF Fits
<1>14. /\ \A j \in List \ {k} : db'[j] = db[j]
       /\ \A j \in List \ {k} : \A x : x.list = j => (x \in ops' <=> x \in ops)
       /\ db' \in [List -> [Item -> Names]]
  BY <1>6, <1>10
<1>15. /\ ListShape(l) /\ lists' = [lists EXCEPT ![k] = l] /\ (k = "spaces" => SpaceSelected(l))
       /\ k \in List
  BY <1>1, <1>12
<1> HIDE DEF k, i
<1> QED BY <1>7, <1>11, <1>13, <1>14, <1>15, ListGoes

\* The end of a change: it is shown once more, or the list is stale.
LEMMA ChangeEnds ==
    ASSUME ListsInv, NEW o \in ops, Succeed(o) \/ SpaceFails(o) \/ ConversationFails(o)
    PROVE  ListsInv'
<1> DEFINE k == o.list
           i == o.item
<1>1. /\ OpShape(o) /\ k \in List /\ i \in Item /\ o.kind \in {"rename", "delete", "create"}
      /\ ListShape(lists[k]) /\ ListFits(k) /\ (k = "spaces" => SpaceSelected(lists[k]))
      /\ UNCHANGED <<db, asked, search>> /\ db[k] \in [Item -> Names]
      /\ db \in [List -> [Item -> Names]] /\ ChangesInOrder /\ ops' = ops \ {o}
      /\ lists[k].shown \in [Item -> Names]
  BY DEF ListsInv, ChangesInOrder, OpShape, ListShape, Succeed, SpaceFails, ConversationFails
<1>2. ChangesInOrder'
  BY <1>1 DEF ChangesInOrder, OpShape
<1>3. PICK l : /\ ListShape(l) /\ lists' = [lists EXCEPT ![k] = l]
               /\ l.loaded /\ l.stale = "no" => Fits(k, l.shown)'
               /\ l.request.at = "served" => l.stale = "yes"
               /\ k = "spaces" => SpaceSelected(l)
  <2>1. CASE Succeed(o)
    <3>1. PICK m : m = Changed(lists[k], o)
      OBVIOUS
    <3>2. /\ ListShape(m) /\ m.shown = Effect(lists[k].shown, o) /\ m.loaded = lists[k].loaded
          /\ m.current = lists[k].current /\ m.request.at = "none"
          /\ m.stale = "no" => lists[k].stale = "no"
      BY <1>1, <3>1, ChangedIs
    <3>3. /\ \A j \in Item : j # i => m.shown[j] = lists[k].shown[j]
          /\ o.kind = "create" => m.shown[i] = "old"
          /\ o.kind = "delete" => m.shown[i] = "gone"
          /\ o.kind = "rename" => m.shown[i] = IF lists[k].shown[i] = "gone" THEN "gone" ELSE "new"
      BY <1>1, <3>2, EffectIs
    <3>4. o.at = "applied" /\ lists' = [lists EXCEPT ![k] = Succeeded(lists[k], o)]
      BY <2>1 DEF Succeed
    <3>5. PICK l : l = Succeeded(lists[k], o)
      OBVIOUS
    <3>6. /\ l = m \/ l = [m EXCEPT !.current = i] \/ l = Reselected(m)
          /\ k = "spaces" => \/ o.kind = "create" /\ l = [m EXCEPT !.current = i]
                             \/ o.kind = "delete" /\ m.current = i /\ l = Reselected(m)
                             \/ o.kind = "delete" /\ m.current # i /\ l = m
                             \/ o.kind = "rename" /\ l = m
      BY <1>1, <3>1, <3>5 DEF Succeeded
    <3>7. /\ ListShape(l) /\ l.shown = m.shown /\ l.loaded = m.loaded /\ l.stale = m.stale
          /\ l.request = m.request /\ (l = [m EXCEPT !.current = i] => l.current = i)
      <4>1. ASSUME l = [m EXCEPT !.current = i]
            PROVE  /\ ListShape(l) /\ l.shown = m.shown /\ l.loaded = m.loaded
                   /\ l.stale = m.stale /\ l.request = m.request /\ l.current = i
        BY <1>1, <3>2, <4>1 DEF ListShape
      <4>2. ASSUME l = Reselected(m)
            PROVE  /\ ListShape(l) /\ l.shown = m.shown /\ l.loaded = m.loaded
                   /\ l.stale = m.stale /\ l.request = m.request
        BY <3>2, <4>2, ReselectedIs
      <4> QED BY <3>2, <3>6, <4>1, <4>2
    <3>8. l.loaded /\ l.stale = "no" => Fits(k, l.shown)'
      <4> SUFFICES ASSUME l.loaded, l.stale = "no" PROVE Fits(k, l.shown)'
        OBVIOUS
      <4>1. Fits(k, lists[k].shown)
        BY <1>1, <3>2, <3>7 DEF ListFits
      <4>2. l.shown[i] = db[k][i]
        <5>1. db[k][i] = CASE o.kind = "create" -> "old" [] o.kind = "rename" -> "new"
                           [] OTHER -> "gone"
          BY <1>1, <3>4 DEF ChangesInOrder
        <5>2. o.kind = "rename" => lists[k].shown[i] # "gone"
          BY <1>1, <3>4, <4>1, <5>1 DEF Fits
        <5> QED BY <1>1, <3>3, <3>7, <5>1, <5>2
      <4>3. \A j \in Item : j # i =>
              /\ (\A p \in ops' : p.list = k => p.item # j) => l.shown[j] = db'[k][j]
              /\ \A p \in ops' : p.list = k /\ p.item = j /\ p.kind = "rename" /\ p.at # "failed" =>
                   (l.shown[j] = "gone" <=> db'[k][j] = "gone")
        BY <1>1, <3>3, <3>7, <4>1 DEF Fits
      <4>4. \A p \in ops' : p.list # k \/ p.item # i
        BY <1>1 DEF ChangesInOrder
      <4> QED BY <1>1, <4>2, <4>3, <4>4 DEF Fits
    <3>9. ASSUME k = "spaces" PROVE SpaceSelected(l)
      <4>1. SpaceSelected(lists[k])
        BY <1>1, <3>9
      <4>2. CASE o.kind = "create"
        <5>1. l.current = i /\ l.shown[i] = "old"
          BY <3>3, <3>6, <3>7, <3>9, <4>2
        <5> QED BY <1>1, <5>1 DEF SpaceSelected, Listed
      <4>3. CASE o.kind = "delete" /\ m.current = i
        BY <3>2, <3>6, <3>9, <4>3, ReselectedIs
      <4>4. CASE o.kind = "delete" /\ m.current # i
        <5>1. l = m
          BY <3>6, <3>9, <4>4
        <5>2. lists[k].current \in Listed(lists[k]) => lists[k].current \in Listed(m)
          BY <3>2, <3>3, <4>4 DEF Listed
        <5>3. Listed(m) \subseteq Listed(lists[k])
          BY <3>3, <4>4 DEF Listed
        <5> QED BY <3>2, <4>1, <5>1, <5>2, <5>3 DEF SpaceSelected
      <4>5. CASE o.kind = "rename"
        <5>1. l = m
          BY <3>6, <3>9, <4>5
        <5>2. Listed(m) = Listed(lists[k])
          BY <3>3, <4>5 DEF Listed
        <5> QED BY <3>2, <4>1, <5>1, <5>2 DEF SpaceSelected
      <4> QED BY <1>1, <4>2, <4>3, <4>4, <4>5
    <3>10. lists' = [lists EXCEPT ![k] = l] /\ l.request.at # "served"
      BY <3>2, <3>4, <3>5, <3>7
    <3> QED BY <3>7, <3>8, <3>9, <3>10
  <2>2. CASE SpaceFails(o)
    <3>1. PICK m : m = [lists[k] EXCEPT !.stale = "yes"]
      OBVIOUS
    <3>2. /\ ListShape(m) /\ m.shown = lists[k].shown /\ m.loaded = lists[k].loaded
          /\ m.current = lists[k].current /\ m.stale = "yes"
      BY <1>1, <3>1 DEF ListShape
    <3>3. PICK l : l = IF o.kind = "create" THEN m ELSE Begun(m)
      OBVIOUS
    <3>4. lists' = [lists EXCEPT ![k] = l] /\ k = "spaces"
      BY <2>2, <3>1, <3>3 DEF SpaceFails
    <3>5. /\ ListShape(l) /\ l.shown = m.shown /\ l.loaded = m.loaded /\ l.current = m.current
          /\ l.stale = "yes" \/ (l.stale = "reading" /\ l.request.at = "asked")
      BY <3>2, <3>3, BegunIs
    <3>6. SpaceSelected(l)
      BY <1>1, <3>2, <3>4, <3>5 DEF SpaceSelected, Listed
    <3> QED BY <3>4, <3>5, <3>6
  <2>3. CASE ConversationFails(o)
    <3>1. k = "conversations"
      BY <2>3 DEF ConversationFails
    <3>2. PICK shown : shown = lists[k].shown
      OBVIOUS
    <3>3. PICK names : names = IF o.kind = "rename" THEN o.before
                               ELSE IF o.kind = "delete" /\ shown[i] = "gone"
                               THEN [shown EXCEPT ![i] = o.before[i]] ELSE shown
      OBVIOUS
    <3>4. names \in [Item -> Names]
      BY <1>1, <3>2, <3>3 DEF OpShape
    <3>5. PICK l : l = [lists[k] EXCEPT !.stale = "yes", !.shown = names]
      OBVIOUS
    <3>6. lists' = [lists EXCEPT ![k] = l]
      BY <2>3, <3>1, <3>2, <3>3, <3>5 DEF ConversationFails
    <3>7. ListShape(l) /\ l.stale = "yes"
      BY <1>1, <3>4, <3>5 DEF ListShape
    <3> QED BY <3>1, <3>6, <3>7
  <2> QED BY <2>1, <2>2, <2>3
<1>4. /\ db' \in [List -> [Item -> Names]] /\ asked' \in 0 .. MaxListChange
      /\ SearchShape(search')
  BY <1>1 DEF ListsInv
<1>5. /\ \A j \in List \ {k} : db'[j] = db[j]
      /\ \A j \in List \ {k} : \A p : p.list = j => (p \in ops' <=> p \in ops)
  BY <1>1
<1>6. /\ k \in List /\ ListShape(l) /\ lists' = [lists EXCEPT ![k] = l]
      /\ k = "spaces" => SpaceSelected(l)
  BY <1>1, <1>3
<1>7. /\ l.loaded /\ l.stale = "no" => Fits(k, l.shown)'
      /\ l.request.at = "served" /\ l.stale # "yes" => Fits(k, l.request.data)'
  BY <1>3
<1> HIDE DEF k, i
<1> QED BY <1>2, <1>4, <1>5, <1>6, <1>7, ListGoes

\* The lists do not know of the search.
LEMMA SearchGoes ==
    ASSUME ListsInv, UNCHANGED <<lists, db, ops, asked>>, SearchShape(search')
    PROVE  ListsInv'
<1>1. \A k \in List : ListFits(k)'
  BY DEF ListsInv, ListFits, Fits
<1>2. ChangesInOrder'
  BY DEF ListsInv, ChangesInOrder, OpShape
<1>3. SpaceSelected(lists["spaces"])' /\ \A k \in List : ListShape(lists[k])'
  BY DEF ListsInv, SpaceSelected, Listed, ListShape
<1>4. SearchShape(search)'
  BY DEF SearchShape
<1> QED BY <1>1, <1>2, <1>3, <1>4 DEF ListsInv

\* A step of the search dialog.
LEMMA SearchStep ==
    ASSUME ListsInv, SearchNext
    PROVE  ListsInv'
<1> USE ClientListsAssumption
<1>1. SearchShape(search) /\ UNCHANGED <<lists, db, ops, asked>>
  BY DEF ListsInv, SearchNext, SetQuery, SearchTimerFires, SearchAnswers
<1>2. SearchShape(search')
  <2>1. ASSUME NEW q \in Query \cup {Nothing}, SetQuery(q) PROVE SearchShape(search')
    BY <1>1, <2>1 DEF SetQuery, SearchShape
  <2>2. CASE SearchTimerFires
    <3>1. CASE search.query # Nothing
      <4>1. search' = [[search EXCEPT !.timer = FALSE]
                          EXCEPT !.request = search.query, !.loading = TRUE]
        BY <1>1, <2>2, <3>1 DEF SearchTimerFires, Searching, SearchShape
      <4> QED BY <1>1, <3>1, <4>1 DEF SearchShape
    <3>2. CASE search.query = Nothing
      BY <1>1, <2>2, <3>2 DEF SearchTimerFires, SearchShape
    <3> QED BY <3>1, <3>2
  <2>3. ASSUME NEW ok \in BOOLEAN, SearchAnswers(ok) PROVE SearchShape(search')
    <3>1. PICK results \in Query \cup {"failed"} : results = IF ok THEN search.request ELSE "failed"
      BY <1>1, <2>3 DEF SearchAnswers, SearchShape
    <3>2. search' = [search EXCEPT !.results = results, !.request = Nothing, !.loading = FALSE]
      BY <2>3, <3>1 DEF SearchAnswers
    <3> QED BY <1>1, <3>1, <3>2 DEF SearchShape
  <2> QED BY <2>1, <2>2, <2>3 DEF SearchNext
<1> QED BY <1>1, <1>2, SearchGoes

\* Every step keeps the invariant.
LEMMA ListsStep == ListsInv /\ [ListsNext \/ SearchNext]_listVars => ListsInv'
<1> SUFFICES ASSUME ListsInv, [ListsNext \/ SearchNext]_listVars PROVE ListsInv'
  OBVIOUS
<1>1. ASSUME NEW k \in List,
             FetchList(k) \/ ServeList(k) \/ ListAnswers(k) \/ ListFails(k)
      PROVE  ListsInv'
  BY <1>1, RequestStep
<1>2. ASSUME NEW i \in Item, SelectSpace(i) PROVE ListsInv'
  <2>1. "spaces" \in List
    BY DEF List
  <2> QED BY <1>2, <2>1, RequestStep
<1>3. ASSUME NEW k \in List, Create(k) PROVE ListsInv'
  BY <1>3, ClientListsAssumption, ChangeAsked
<1>4. ASSUME NEW k \in List, NEW i \in Item, Rename(k, i) \/ Delete(k, i) PROVE ListsInv'
  BY <1>4, ChangeAsked
<1>5. ASSUME NEW o \in ops,
             Serve(o) \/ Lose(o) \/ Succeed(o) \/ SpaceFails(o) \/ ConversationFails(o)
      PROVE  ListsInv'
  BY <1>5, ChangeServed, ChangeEnds
<1>6. CASE UNCHANGED listVars
  <2>1. UNCHANGED <<lists, db, ops, asked>> /\ SearchShape(search')
    BY <1>6 DEF listVars, ListsInv
  <2> QED BY <2>1, SearchGoes
<1> QED BY <1>1, <1>2, <1>3, <1>4, <1>5, <1>6, SearchStep DEF ListsNext

\* The invariant says what the run checks.
LEMMA ListsInvSettles == ListsInv => ListsSettle
<1> SUFFICES ASSUME ListsInv PROVE ListsSettle
  OBVIOUS
<1>1. \A k \in List : ListShape(lists[k]) /\ ListFits(k) /\ db[k] \in [Item -> Names]
  BY DEF ListsInv
<1>2. ListsTypeOK
  <2>1. \A k \in List : /\ lists[k].shown \in [Item -> Names] /\ db[k] \in [Item -> Names]
                        /\ lists[k].request.at \in {"none", "asked", "served"}
                        /\ lists[k].loading = (lists[k].request.at # "none")
    BY <1>1 DEF ListShape
  <2>2. lists["spaces"].current \in Item \cup {Nothing}
    BY <1>1 DEF ListShape, List
  <2>3. \A o \in ops : o.list \in List /\ o.item \in Item /\ o.kind \in {"rename", "delete", "create"}
                       /\ o.at \in {"sent", "applied", "failed"}
    BY DEF ListsInv, ChangesInOrder, OpShape
  <2>4. SearchShape(search) /\ asked \in 0 .. MaxListChange
    BY DEF ListsInv
  <2> QED BY <2>1, <2>2, <2>3, <2>4 DEF ListsTypeOK, SearchShape
<1>3. ASSUME NEW k \in List, Settled(k), lists[k].loaded, lists[k].stale = "no"
      PROVE  lists[k].shown = db[k]
  <2>1. \A i \in Item : lists[k].shown[i] = db[k][i]
    BY <1>1, <1>3 DEF ListFits, Fits, Settled
  <2>2. PICK shown, names : shown = lists[k].shown /\ names = db[k]
    OBVIOUS
  <2>3. shown \in [Item -> Names] /\ names \in [Item -> Names]
    BY <1>1, <2>2 DEF ListShape
  <2>4. \A i \in Item : shown[i] = names[i]
    BY <2>1, <2>2
  <2>5. shown = names
    BY <2>3, <2>4
  <2> QED BY <2>2, <2>5
<1>4. SpaceSelected(lists["spaces"])
  BY DEF ListsInv
<1> QED BY <1>2, <1>3, <1>4 DEF ListsSettle, SpaceSelected

\* A list that waits for nothing shows what the server has, unless a change of
\* it failed since it was read; and the space that is selected is listed, for
\* any number of spaces, conversations, changes and searches
\* (RequestGenerationGuard, projectSpaceStore, chatStore).
THEOREM ListsAlwaysSettle == ListsSpec => []ListsSettle
<1>1. ListsInit => ListsInv
  BY ListsStart
<1>2. ListsInv /\ [ListsNext \/ SearchNext]_listVars => ListsInv'
  BY ListsStep
<1>3. ListsInv => ListsSettle
  BY ListsInvSettles
<1> QED BY <1>1, <1>2, <1>3, PTL DEF ListsSpec

-----------------------------------------------------------------------------
(* The uploads of a tab. What an upload has still to send, with what the      *)
(* server has of it, is every part at any time; and a banner tells of an      *)
(* upload under way, or of an error whose timer will clear it.                *)

\* What an upload, its session and its file can be, and the parts under way.
Places == Waiting \cup {"none", "queued", "over"}
Sessions == {"none", "open", "expired", "completed"}
Files == {"none", "uploading", "failed", "stored"}
Flight == [doc : Doc, part : Part, gen : Nat, mode : {"direct", "legacy"}]

\* What an upload is made of; it has addresses only of what it still sends.
UploadShape(u) ==
    /\ u = [at |-> u.at, after |-> u.after, mode |-> u.mode, mayFallBack |-> u.mayFallBack,
            fileId |-> u.fileId, chunks |-> u.chunks, gen |-> u.gen, to |-> u.to, todo |-> u.todo,
            addresses |-> u.addresses, flying |-> u.flying]
    /\ u.at \in Places /\ u.after \in Doc \cup {NoDoc} /\ u.mode \in {"direct", "legacy"}
    /\ u.chunks \subseteq Part /\ u.gen \in Nat /\ u.to \in Nat
    /\ u.todo \subseteq Part /\ u.addresses \subseteq u.todo /\ u.flying \subseteq u.todo
    /\ u.flying # {} => u.at = "sending"
    /\ u.at \notin {"sending", "completing", "over"} => u.addresses = {}
    /\ u.at \in {"queued", "hashing", "checking"} => u.mode = "direct"

\* What the server keeps of a document.
RemoteShape(q) ==
    /\ q = [direct |-> q.direct, file |-> q.file, session |-> q.session, gen |-> q.gen,
            stored |-> q.stored, chunks |-> q.chunks]
    /\ q.file \in Files /\ q.session \in Sessions /\ q.gen \in Nat
    /\ q.stored \subseteq Part /\ q.chunks \subseteq Part

\* Every part that an upload does not still send is with the server, unless
\* another storage upload has taken the place of its own.
NothingForgotten(u, q) ==
    /\ u.chunks \subseteq q.chunks
    /\ u.at \in {"presigning", "sending", "completing"} =>
         IF u.mode = "legacy" THEN Part \ u.todo \subseteq q.chunks
         ELSE /\ u.gen <= q.gen
              /\ q.session = "open" /\ q.gen = u.gen => Part \ u.todo \subseteq q.stored
    /\ u.at = "completing" => u.todo = {}

\* The banner of an upload is that of one under way, or an error with a timer.
BannerTells ==
    /\ banner = [name |-> banner.name, status |-> banner.status, why |-> banner.why]
    /\ banner.name \in Doc \cup {NoDoc} /\ banner.why \in {"none", "upload", "late", "switch"}
    /\ banner.why = "none" => banner = NoBanner
    /\ banner.why = "upload" =>
         /\ banner.name \in Doc
         /\ \/ banner.status = "error" /\ banner.name \in timers.due
            \/ tab[banner.name].at \in Waiting

\* The numbers of drops and mishaps.
BoundKept ==
    /\ bound \in [drops : Nat, mishaps : Nat]
    /\ bound.drops <= MaxDrops /\ bound.mishaps <= MaxMishaps

\* The inductive invariant of the uploads.
TabInv ==
    /\ tab = [d \in Doc |-> tab[d]] /\ remote = [d \in Doc |-> remote[d]]
    /\ \A d \in Doc : /\ UploadShape(tab[d]) /\ RemoteShape(remote[d])
                      /\ NothingForgotten(tab[d], remote[d])
    /\ late \subseteq Flight /\ timers.due \subseteq Doc /\ BannerTells /\ BoundKept

\* The initial states satisfy the invariant.
LEMMA TabStarts == TabInit => TabInv
<1> SUFFICES ASSUME TabInit PROVE TabInv
  OBVIOUS
<1> USE UploadTabAssumption
<1>1. UploadShape(NoUpload)
  BY DEF UploadShape, NoUpload, Places
<1>2. PICK direct \in BOOLEAN :
        remote = [d \in Doc |-> [direct |-> direct, file |-> "none", session |-> "none", gen |-> 0,
                                 stored |-> {}, chunks |-> {}]]
  BY DEF TabInit
<1>3. \A d \in Doc : RemoteShape(remote[d]) /\ NothingForgotten(tab[d], remote[d])
  BY <1>2 DEF TabInit, RemoteShape, NothingForgotten, NoUpload, Files, Sessions
<1>4. tab = [d \in Doc |-> tab[d]] /\ remote = [d \in Doc |-> remote[d]]
  BY <1>2 DEF TabInit
<1>5. \A d \in Doc : UploadShape(tab[d])
  BY <1>1 DEF TabInit
<1>6. late \subseteq Flight /\ timers.due \subseteq Doc /\ BannerTells
  BY DEF TabInit, BannerTells, NoBanner
<1>7. BoundKept
  BY DEF TabInit, BoundKept
<1> QED BY <1>3, <1>4, <1>5, <1>6, <1>7 DEF TabInv

\* What the steps of one document leave of the others.
LEMMA DocumentGoes ==
    ASSUME TabInv, NEW d \in Doc, NEW u, NEW q, UploadShape(u), RemoteShape(q),
           NothingForgotten(u, q), tab' = [tab EXCEPT ![d] = u], remote' = [remote EXCEPT ![d] = q]
    PROVE  /\ (tab = [e \in Doc |-> tab[e]])' /\ (remote = [e \in Doc |-> remote[e]])'
           /\ \A e \in Doc : /\ UploadShape(tab[e])' /\ RemoteShape(remote[e])'
                             /\ NothingForgotten(tab[e], remote[e])'
           /\ tab'[d] = u /\ \A e \in Doc \ {d} : tab'[e] = tab[e]
<1>1. /\ \A e \in Doc : tab'[e] = IF e = d THEN u ELSE tab[e]
      /\ \A e \in Doc : remote'[e] = IF e = d THEN q ELSE remote[e]
      /\ (tab = [e \in Doc |-> tab[e]])' /\ (remote = [e \in Doc |-> remote[e]])'
  BY DEF TabInv
<1>2. \A e \in Doc : UploadShape(tab[e])
  BY DEF TabInv
<1>3. \A e \in Doc : RemoteShape(remote[e])
  BY DEF TabInv
<1>4. \A e \in Doc : NothingForgotten(tab[e], remote[e])
  BY DEF TabInv
<1>5. \A e \in Doc : UploadShape(tab'[e])
  BY <1>1, <1>2
<1>6. \A e \in Doc : RemoteShape(remote'[e])
  BY <1>1, <1>3
<1>7. \A e \in Doc : NothingForgotten(tab'[e], remote'[e])
  BY <1>1, <1>4
<1>8. \A e \in Doc : /\ UploadShape(tab[e])' /\ RemoteShape(remote[e])'
                     /\ NothingForgotten(tab[e], remote[e])'
  BY <1>5, <1>6, <1>7, SMTT(20) DEF UploadShape, RemoteShape, NothingForgotten
<1> QED BY <1>1, <1>8

\* What a step of an upload may do to the banner, the timers and the parts that
\* are still in flight.
Outcome(d, u) ==
    \/ banner' = NoBanner /\ UNCHANGED <<late, timers>>
    \/ /\ u.at \in Waiting /\ late' = late /\ timers'.due \subseteq Doc
       /\ \E status : Tells(d, status)
    \/ /\ u.at \in Waiting \/ tab[d].at \notin Waiting
       /\ UNCHANGED <<late, banner, timers>>
    \/ /\ Tells(d, "error") /\ timers' = [due |-> timers.due \cup {d}, last |-> d]
       /\ late' \subseteq late \cup Flights(d)

\* A step of one document that leaves nothing behind preserves the invariant.
LEMMA UploadGoes ==
    ASSUME TabInv, NEW d \in Doc, NEW u, NEW q, UploadShape(u), RemoteShape(q),
           NothingForgotten(u, q), tab' = [tab EXCEPT ![d] = u], remote' = [remote EXCEPT ![d] = q],
           BoundKept', Outcome(d, u)
    PROVE  TabInv'
<1>1. /\ (tab = [e \in Doc |-> tab[e]])' /\ (remote = [e \in Doc |-> remote[e]])'
      /\ \A e \in Doc : /\ UploadShape(tab[e])' /\ RemoteShape(remote[e])'
                        /\ NothingForgotten(tab[e], remote[e])'
      /\ tab'[d] = u /\ \A e \in Doc \ {d} : tab'[e] = tab[e]
  BY DocumentGoes
<1>2. late' \subseteq Flight /\ timers'.due \subseteq Doc /\ BannerTells'
  <2>1. late \subseteq Flight /\ timers.due \subseteq Doc /\ BannerTells /\ UploadShape(tab[d])
    BY DEF TabInv
  <2>2. CASE banner' = NoBanner /\ UNCHANGED <<late, timers>>
    BY <2>1, <2>2 DEF BannerTells, NoBanner
  <2>3. CASE /\ u.at \in Waiting /\ late' = late /\ timers'.due \subseteq Doc
             /\ \E status : Tells(d, status)
    BY <1>1, <2>1, <2>3 DEF BannerTells, Tells
  <2>4. CASE /\ u.at \in Waiting \/ tab[d].at \notin Waiting
             /\ UNCHANGED <<late, banner, timers>>
    BY <1>1, <2>1, <2>4 DEF BannerTells, NoBanner
  <2>5. CASE /\ Tells(d, "error") /\ timers' = [due |-> timers.due \cup {d}, last |-> d]
             /\ late' \subseteq late \cup Flights(d)
    <3>1. Flights(d) \subseteq Flight
      BY <2>1 DEF Flights, Flight, UploadShape
    <3>2. BannerTells'
      BY <2>5 DEF BannerTells, Tells
    <3> QED BY <2>1, <2>5, <3>1, <3>2
  <2> QED BY <2>2, <2>3, <2>4, <2>5 DEF Outcome
<1> QED BY <1>1, <1>2 DEF TabInv

\* An upload that ends, or that failed; the server may have more than before.
LEMMA UploadEnds ==
    ASSUME TabInv, NEW d \in Doc, NEW q, RemoteShape(q), remote[d].chunks \subseteq q.chunks,
           remote' = [remote EXCEPT ![d] = q], BoundKept', tab[d].at # "sending",
           Failed(d) \/ Finished(d)
    PROVE  TabInv'
<1>1. UploadShape(tab[d]) /\ NothingForgotten(tab[d], remote[d])
  BY DEF TabInv
<1>2. PICK u : u = [tab[d] EXCEPT !.at = "over"]
  OBVIOUS
<1>3. /\ u = [at |-> "over", after |-> tab[d].after, mode |-> tab[d].mode,
              mayFallBack |-> tab[d].mayFallBack, fileId |-> tab[d].fileId, chunks |-> tab[d].chunks,
              gen |-> tab[d].gen, to |-> tab[d].to, todo |-> tab[d].todo,
              addresses |-> tab[d].addresses, flying |-> {}]
  BY <1>1, <1>2 DEF UploadShape
<1>4. tab' = [tab EXCEPT ![d] = u]
  <2>1. PICK v : v = [tab[d] EXCEPT !.at = "over", !.flying = {}]
    OBVIOUS
  <2>2. v = [at |-> "over", after |-> tab[d].after, mode |-> tab[d].mode,
             mayFallBack |-> tab[d].mayFallBack, fileId |-> tab[d].fileId, chunks |-> tab[d].chunks,
             gen |-> tab[d].gen, to |-> tab[d].to, todo |-> tab[d].todo,
             addresses |-> tab[d].addresses, flying |-> {}]
    BY <1>1, <2>1 DEF UploadShape
  <2>3. v = u
    BY <1>3, <2>2
  <2> QED BY <1>2, <2>1, <2>3 DEF Failed, Finished, Goes
<1>5. UploadShape(u)
  BY <1>1, <1>3 DEF UploadShape, Places
<1>6. NothingForgotten(u, q)
  BY <1>1, <1>3 DEF NothingForgotten
<1>7. Outcome(d, u)
  BY DEF Failed, Finished, Outcome
<1> QED BY <1>4, <1>5, <1>6, <1>7, UploadGoes

\* A direct upload that is taken for one of a server that has none.
LEMMA FallsBack ==
    ASSUME TabInv, NEW d \in Doc, UNCHANGED <<remote, bound>>, tab[d].at \in {"initing", "presigning"},
           EndpointMissing(d)
    PROVE  TabInv'
<1>1. UploadShape(tab[d]) /\ NothingForgotten(tab[d], remote[d]) /\ RemoteShape(remote[d])
      /\ BoundKept' /\ remote' = [remote EXCEPT ![d] = remote[d]]
  BY DEF TabInv, BoundKept
<1>2. CASE Failed(d)
  BY <1>1, <1>2, UploadEnds
<1>3. CASE ~Failed(d)
  <2>1. PICK u : u = [tab[d] EXCEPT !.at = "initing", !.mode = "legacy"]
    OBVIOUS
  <2>2. tab' = [tab EXCEPT ![d] = u] /\ UNCHANGED <<late, banner, timers>>
    BY <1>3, <2>1 DEF EndpointMissing, Goes
  <2>3. u = [at |-> "initing", after |-> tab[d].after, mode |-> "legacy",
             mayFallBack |-> tab[d].mayFallBack, fileId |-> tab[d].fileId, chunks |-> tab[d].chunks,
             gen |-> tab[d].gen, to |-> tab[d].to, todo |-> tab[d].todo,
             addresses |-> tab[d].addresses, flying |-> tab[d].flying]
    BY <1>1, <2>1 DEF UploadShape
  <2>4. UploadShape(u)
    BY <1>1, <2>3 DEF UploadShape, Places, Waiting
  <2>5. NothingForgotten(u, remote[d])
    BY <1>1, <2>3 DEF NothingForgotten
  <2>6. Outcome(d, u)
    BY <2>2, <2>3 DEF Outcome, Waiting
  <2> QED BY <1>1, <2>2, <2>4, <2>5, <2>6, UploadGoes
<1> QED BY <1>2, <1>3

\* The parts that are sent at once are some of those there are addresses of.
LEMMA FirstAreSome == \A S, n : First(S, n) \subseteq S
BY DEF First

\* A document that is dropped, and one whose turn it is.
LEMMA DropAndStart ==
    ASSUME TabInv, NEW d \in Doc, (\E p \in Doc \cup {NoDoc} : Drop(d, p)) \/ Start(d) \/ Hashed(d)
    PROVE  TabInv'
<1> USE UploadTabAssumption
<1>1. /\ UploadShape(tab[d]) /\ NothingForgotten(tab[d], remote[d]) /\ RemoteShape(remote[d])
      /\ remote' = remote /\ remote' = [remote EXCEPT ![d] = remote[d]]
  BY DEF TabInv, Drop, Start, Hashed
<1>2. BoundKept'
  <2>1. BoundKept
    BY DEF TabInv
  <2>2. CASE bound' = bound
    BY <2>1, <2>2 DEF BoundKept
  <2>3. CASE bound.drops < MaxDrops /\ bound' = [bound EXCEPT !.drops = @ + 1]
    BY <2>1, <2>3 DEF BoundKept
  <2> QED BY <2>2, <2>3 DEF Drop, Start, Hashed
<1>3. PICK u : UploadShape(u) /\ NothingForgotten(u, remote[d]) /\ tab' = [tab EXCEPT ![d] = u]
               /\ Outcome(d, u)
  <2>1. ASSUME NEW p \in Doc \cup {NoDoc}, Drop(d, p)
        PROVE  \E u : UploadShape(u) /\ NothingForgotten(u, remote[d]) /\ tab' = [tab EXCEPT ![d] = u]
                      /\ Outcome(d, u)
    <3>1. PICK u : u = [NoUpload EXCEPT !.at = "queued", !.after = p]
      OBVIOUS
    <3>2. u = [at |-> "queued", after |-> p, mode |-> "direct", mayFallBack |-> FALSE,
               fileId |-> FALSE, chunks |-> {}, gen |-> 0, to |-> 0, todo |-> {}, addresses |-> {},
               flying |-> {}]
      BY <3>1 DEF NoUpload
    <3>3. UploadShape(u) /\ NothingForgotten(u, remote[d])
      BY <1>1, <3>2 DEF UploadShape, Places, NothingForgotten, RemoteShape
    <3>4. tab' = [tab EXCEPT ![d] = u] /\ Outcome(d, u)
      BY <2>1, <3>1, <3>2 DEF Drop, Goes, Outcome, Waiting
    <3> QED BY <3>3, <3>4
  <2>2. CASE Start(d) \/ Hashed(d)
    <3>1. PICK at \in {"hashing", "checking", "over"} :
            /\ Goes(d, [tab[d] EXCEPT !.at = at])
            /\ tab[d].at \in {"queued", "hashing"}
            /\ \/ /\ at \in Waiting /\ late' = late /\ timers'.due \subseteq Doc
                  /\ \E status : Tells(d, status)
               \/ tab[d].at = "queued" /\ at = "over" /\ UNCHANGED <<late, timers, banner>>
      BY <2>2 DEF Start, Hashed, Waiting, TabInv
    <3>2. PICK u : u = [tab[d] EXCEPT !.at = at]
      OBVIOUS
    <3>3. u = [at |-> at, after |-> tab[d].after, mode |-> tab[d].mode,
               mayFallBack |-> tab[d].mayFallBack, fileId |-> tab[d].fileId, chunks |-> tab[d].chunks,
               gen |-> tab[d].gen, to |-> tab[d].to, todo |-> tab[d].todo,
               addresses |-> tab[d].addresses, flying |-> tab[d].flying]
      BY <1>1, <3>2 DEF UploadShape
    <3>4. UploadShape(u) /\ NothingForgotten(u, remote[d])
      BY <1>1, <3>1, <3>3 DEF UploadShape, Places, Waiting, NothingForgotten
    <3>5. tab' = [tab EXCEPT ![d] = u] /\ Outcome(d, u)
      BY <3>1, <3>2, <3>3 DEF Goes, Outcome, Waiting
    <3> QED BY <3>4, <3>5
  <2> QED BY <2>1, <2>2
<1> QED BY <1>1, <1>2, <1>3, UploadGoes

\* The parts that the server knows of need not be sent.
LEMMA SendingIsWell ==
    ASSUME TabInv, NEW d \in Doc, NEW q, RemoteShape(q), remote[d].chunks \subseteq q.chunks,
           remote'[d] = q, NEW known \in SUBSET q.stored, q.session = "open",
           tab[d].at \in {"checking", "initing"}, tab[d].mode = "direct",
           NEW u, u = Sending(tab[d], d, known)
    PROVE  /\ UploadShape(u) /\ NothingForgotten(u, q) /\ u.at \in {"completing", "presigning"}
           /\ u.at = "completing" <=> known = Part
<1>1. UploadShape(tab[d]) /\ NothingForgotten(tab[d], remote[d]) /\ tab[d].addresses = {}
      /\ tab[d].flying = {} /\ q.gen \in Nat /\ known \subseteq Part
  BY DEF TabInv, UploadShape, RemoteShape
<1>2. PICK at \in {"completing", "presigning"} :
        at = IF known = Part THEN "completing" ELSE "presigning"
  OBVIOUS
<1>3. u = [tab[d] EXCEPT !.gen = q.gen, !.todo = Part \ known, !.at = at]
  BY <1>2 DEF Sending
<1>4. u = [at |-> at, after |-> tab[d].after, mode |-> tab[d].mode,
           mayFallBack |-> tab[d].mayFallBack, fileId |-> tab[d].fileId, chunks |-> tab[d].chunks,
           gen |-> q.gen, to |-> tab[d].to, todo |-> Part \ known,
           addresses |-> tab[d].addresses, flying |-> tab[d].flying]
  BY <1>1, <1>3 DEF UploadShape
<1>5. UploadShape(u)
  BY <1>1, <1>4 DEF UploadShape, Places, Waiting
<1>6. NothingForgotten(u, q)
  BY <1>1, <1>2, <1>4 DEF NothingForgotten
<1> QED BY <1>2, <1>4, <1>5, <1>6

\* The check, and the beginning of the direct way.
LEMMA CheckStep ==
    ASSUME TabInv, NEW d \in Doc, (\E known \in SUBSET Part : CheckAnswers(d, known)) \/ DirectInit(d)
    PROVE  TabInv'
<1>1. /\ UploadShape(tab[d]) /\ NothingForgotten(tab[d], remote[d]) /\ RemoteShape(remote[d])
      /\ BoundKept' /\ tab[d].at \in {"checking", "initing"} /\ tab[d].mode = "direct"
      /\ remote = [remote EXCEPT ![d] = remote[d]]
  BY DEF TabInv, CheckAnswers, DirectInit, BoundKept, UploadShape
<1>2. CASE remote' = remote /\ (Failed(d) \/ Finished(d))
  BY <1>1, <1>2, UploadEnds
<1>3. CASE UNCHANGED <<remote, bound>> /\ tab[d].at = "initing" /\ EndpointMissing(d)
  BY <1>1, <1>3, FallsBack
<1>4. ASSUME NEW q, RemoteShape(q), remote[d].chunks \subseteq q.chunks, q.session = "open",
             remote' = [remote EXCEPT ![d] = q], remote'[d] = q, NEW known \in SUBSET q.stored,
             Goes(d, Sending(tab[d], d, known)),
             Tells(d, IF known = Part THEN "merging" ELSE "uploading"),
             UNCHANGED <<late, timers>>
      PROVE  TabInv'
  <2>1. PICK u : u = Sending(tab[d], d, known)
    OBVIOUS
  <2>2. /\ UploadShape(u) /\ NothingForgotten(u, q) /\ u.at \in {"completing", "presigning"}
        /\ u.at = "completing" <=> known = Part
    BY <1>1, <1>4, <2>1, SendingIsWell, ZenonT(40)
  <2>3. tab' = [tab EXCEPT ![d] = u] /\ Outcome(d, u)
    BY <1>4, <2>1, <2>2 DEF Goes, Outcome, Waiting, TabInv
  <2> QED BY <1>1, <1>4, <2>2, <2>3, UploadGoes
<1>5. ASSUME NEW known \in SUBSET Part, CheckAnswers(d, known) PROVE TabInv'
  <2>1. remote' = remote /\ known \in {remote[d].stored, {}} /\ UNCHANGED bound
    BY <1>5 DEF CheckAnswers
  <2>2. CASE Failed(d) \/ Finished(d)
    BY <2>1, <2>2, <1>2
  <2>3. CASE remote[d].session = "open" /\ ~Failed(d) /\ ~Finished(d)
    <3>1. /\ Goes(d, Sending(tab[d], d, known))
          /\ Tells(d, IF known = Part THEN "merging" ELSE "uploading") /\ UNCHANGED <<late, timers>>
      BY <1>5, <2>3 DEF CheckAnswers
    <3> QED BY <1>1, <1>4, <2>1, <2>3, <3>1
  <2>4. CASE remote[d].session # "open" /\ ~Failed(d) /\ ~Finished(d)
    <3>1. PICK fileId : fileId = (remote[d].file = "uploading")
      OBVIOUS
    <3>2. PICK chunks \in {remote[d].chunks, {}} :
            chunks = IF remote[d].file = "uploading" THEN remote[d].chunks ELSE {}
      OBVIOUS
    <3>3. PICK u : u = [tab[d] EXCEPT !.at = "initing", !.mayFallBack = TRUE, !.fileId = fileId,
                                      !.chunks = chunks]
      OBVIOUS
    <3>4. tab' = [tab EXCEPT ![d] = u] /\ UNCHANGED <<late, timers, banner>>
      BY <1>5, <2>4, <3>1, <3>2, <3>3 DEF CheckAnswers, Goes
    <3>5. u = [at |-> "initing", after |-> tab[d].after, mode |-> tab[d].mode, mayFallBack |-> TRUE,
               fileId |-> fileId, chunks |-> chunks, gen |-> tab[d].gen, to |-> tab[d].to,
               todo |-> tab[d].todo, addresses |-> tab[d].addresses, flying |-> tab[d].flying]
      BY <1>1, <3>3 DEF UploadShape
    <3>6. UploadShape(u) /\ NothingForgotten(u, remote[d])
      BY <1>1, <1>5, <3>5 DEF UploadShape, NothingForgotten, Places, Waiting, RemoteShape, CheckAnswers
    <3>7. Outcome(d, u)
      BY <3>4, <3>5 DEF Outcome, Waiting
    <3> QED BY <1>1, <2>1, <3>4, <3>6, <3>7, UploadGoes
  <2> QED BY <2>2, <2>3, <2>4
<1>6. CASE DirectInit(d)
  <2>1. tab[d].at = "initing" /\ UNCHANGED bound
    BY <1>6 DEF DirectInit
  <2>2. CASE remote' = remote /\ (EndpointMissing(d) \/ Failed(d) \/ Finished(d))
    BY <1>2, <1>3, <2>1, <2>2
  <2>3. CASE ~(remote' = remote /\ (EndpointMissing(d) \/ Failed(d) \/ Finished(d)))
    <3>1. remote' = Opened(d) /\ UNCHANGED <<late, timers>>
      BY <1>6, <2>3 DEF DirectInit
    <3>2. PICK known \in {remote'[d].stored, {}} :
            /\ Goes(d, Sending(tab[d], d, known))
            /\ Tells(d, IF known = Part THEN "merging" ELSE "uploading")
      BY <1>6, <2>3 DEF DirectInit
    <3>3. PICK q : q = IF remote[d].session = "open" THEN remote[d]
                       ELSE [remote[d] EXCEPT !.file = "uploading", !.session = "open",
                                              !.gen = @ + 1, !.stored = {}]
      OBVIOUS
    <3>4. remote' = [remote EXCEPT ![d] = q] /\ remote'[d] = q
      BY <1>1, <3>1, <3>3 DEF Opened, TabInv
    <3>5. RemoteShape(q) /\ remote[d].chunks = q.chunks /\ q.session = "open"
      <4>1. CASE remote[d].session = "open"
        BY <1>1, <3>3, <4>1
      <4>2. CASE remote[d].session # "open"
        <5>1. q = [remote[d] EXCEPT !.file = "uploading", !.session = "open", !.gen = @ + 1,
                                    !.stored = {}]
          BY <3>3, <4>2
        <5>2. q = [direct |-> remote[d].direct, file |-> "uploading", session |-> "open",
                   gen |-> remote[d].gen + 1, stored |-> {}, chunks |-> remote[d].chunks]
          BY <1>1, <5>1 DEF RemoteShape
        <5> QED BY <1>1, <5>2 DEF RemoteShape, Files, Sessions
      <4> QED BY <4>1, <4>2
    <3> QED BY <1>4, <3>1, <3>2, <3>4, <3>5
  <2> QED BY <2>2, <2>3
<1> QED BY <1>5, <1>6

\* The beginning of the old way, and the addresses of the next parts.
LEMMA NextParts ==
    ASSUME TabInv, NEW d \in Doc, LegacyInit(d) \/ Presign(d)
    PROVE  TabInv'
<1>1. /\ UploadShape(tab[d]) /\ NothingForgotten(tab[d], remote[d]) /\ RemoteShape(remote[d])
      /\ BoundKept' /\ tab[d].at \in {"initing", "presigning"}
      /\ remote = [remote EXCEPT ![d] = remote[d]]
      /\ tab[d].addresses = {} /\ tab[d].flying = {}
  BY DEF TabInv, LegacyInit, Presign, BoundKept, UploadShape
<1>2. CASE remote' = remote /\ (Failed(d) \/ Finished(d))
  BY <1>1, <1>2, UploadEnds
<1>3. CASE LegacyInit(d) /\ ~(remote' = remote /\ Finished(d))
  <2>1. PICK q : q = IF tab[d].fileId THEN remote[d] ELSE [remote[d] EXCEPT !.file = "uploading"]
    OBVIOUS
  <2>2. remote' = [remote EXCEPT ![d] = q] /\ UNCHANGED <<late, timers>>
    BY <1>1, <1>3, <2>1 DEF LegacyInit, TabInv
  <2>3. RemoteShape(q) /\ q.chunks = remote[d].chunks
    BY <1>1, <2>1 DEF RemoteShape, Files, Sessions
  <2>4. PICK at \in {"completing", "presigning"} :
          at = IF tab[d].chunks = Part THEN "completing" ELSE "presigning"
    OBVIOUS
  <2>5. PICK u : u = [tab[d] EXCEPT !.todo = Part \ tab[d].chunks, !.at = at]
    OBVIOUS
  <2>6. u = [at |-> at, after |-> tab[d].after, mode |-> "legacy",
             mayFallBack |-> tab[d].mayFallBack, fileId |-> tab[d].fileId, chunks |-> tab[d].chunks,
             gen |-> tab[d].gen, to |-> tab[d].to, todo |-> Part \ tab[d].chunks,
             addresses |-> {}, flying |-> {}]
    BY <1>1, <1>3, <2>5 DEF UploadShape, LegacyInit
  <2>7. UploadShape(u) /\ NothingForgotten(u, q)
    BY <1>1, <2>3, <2>4, <2>6 DEF UploadShape, Places, Waiting, NothingForgotten
  <2>8. tab' = [tab EXCEPT ![d] = u] /\ \E status : Tells(d, status)
    BY <1>3, <2>4, <2>5 DEF LegacyInit, Goes
  <2>9. Outcome(d, u)
    BY <2>2, <2>6, <2>8 DEF Outcome, Waiting, TabInv
  <2> QED BY <1>1, <2>2, <2>3, <2>7, <2>8, <2>9, UploadGoes
<1>4. CASE Presign(d) /\ ~Failed(d)
  <2>1. UNCHANGED <<remote, bound>> /\ tab[d].at = "presigning"
    BY <1>4 DEF Presign
  <2>2. CASE EndpointMissing(d)
    BY <2>1, <2>2, FallsBack
  <2>3. CASE ~EndpointMissing(d)
    <3>1. PICK addresses : addresses = IF tab[d].mode = "legacy" THEN tab[d].todo
                                       ELSE First(tab[d].todo, Batch)
      OBVIOUS
    <3>2. PICK flying : flying = First(addresses, Concurrency)
      OBVIOUS
    <3>3. addresses \subseteq tab[d].todo /\ flying \subseteq addresses
      BY <3>1, <3>2, FirstAreSome
    <3>4. PICK u : u = [[tab[d] EXCEPT !.to = remote[d].gen] EXCEPT !.at = "sending",
                                        !.addresses = addresses, !.flying = flying]
      OBVIOUS
    <3>5. tab' = [tab EXCEPT ![d] = u] /\ UNCHANGED <<late, banner, timers>>
      BY <1>4, <2>3, <3>1, <3>2, <3>4 DEF Presign, Goes, Flies
    <3>6. u = [at |-> "sending", after |-> tab[d].after, mode |-> tab[d].mode,
               mayFallBack |-> tab[d].mayFallBack, fileId |-> tab[d].fileId,
               chunks |-> tab[d].chunks, gen |-> tab[d].gen, to |-> remote[d].gen,
               todo |-> tab[d].todo, addresses |-> addresses, flying |-> flying]
      BY <1>1, <3>4 DEF UploadShape
    <3>7. UploadShape(u) /\ NothingForgotten(u, remote[d])
      BY <1>1, <2>1, <3>3, <3>6 DEF UploadShape, Places, Waiting, NothingForgotten, RemoteShape
    <3>8. Outcome(d, u)
      BY <3>5, <3>6 DEF Outcome, Waiting
    <3> QED BY <1>1, <2>1, <3>5, <3>7, <3>8, UploadGoes
  <2> QED BY <2>2, <2>3
<1>5. CASE Presign(d) /\ Failed(d)
  BY <1>2, <1>5 DEF Presign
<1> QED BY <1>2, <1>3, <1>4, <1>5

\* What the server has of a document when a part has arrived.
WithPart(d, p, mode) ==
    IF mode = "legacy" THEN [remote[d] EXCEPT !.chunks = @ \cup {p}]
    ELSE [remote[d] EXCEPT !.stored = @ \cup {p}]

\* q is what the server has at least when p has arrived.
Gained(q, d, p, mode) ==
    /\ RemoteShape(q) /\ q.gen = remote[d].gen /\ q.session = remote[d].session
    /\ remote[d].chunks \subseteq q.chunks /\ remote[d].stored \subseteq q.stored
    /\ mode = "legacy" => p \in q.chunks
    /\ mode = "direct" => p \in q.stored

\* The server keeps what it had, and the part.
LEMMA PartArrives ==
    ASSUME TabInv, NEW d \in Doc, NEW p \in Part, NEW mode \in {"direct", "legacy"}, NEW gen
    PROVE  /\ Gained(WithPart(d, p, mode), d, p, mode)
           /\ Arrives(d, p, mode, gen) = [remote EXCEPT ![d] = WithPart(d, p, mode)]
<1>1. RemoteShape(remote[d])
  BY DEF TabInv
<1>2. PICK q : q = WithPart(d, p, mode)
  OBVIOUS
<1>3. CASE mode = "legacy"
  <2>1. q = [remote[d] EXCEPT !.chunks = @ \cup {p}]
    BY <1>2, <1>3 DEF WithPart
  <2>2. q = [direct |-> remote[d].direct, file |-> remote[d].file, session |-> remote[d].session,
             gen |-> remote[d].gen, stored |-> remote[d].stored, chunks |-> remote[d].chunks \cup {p}]
    BY <1>1, <2>1 DEF RemoteShape
  <2>3. Gained(q, d, p, mode)
    BY <1>1, <1>3, <2>2 DEF RemoteShape, Gained
  <2>4. Arrives(d, p, mode, gen) = [remote EXCEPT ![d] = q]
    BY <1>3, <2>1 DEF Arrives
  <2> QED BY <1>2, <2>3, <2>4
<1>4. CASE mode = "direct"
  <2>1. q = [remote[d] EXCEPT !.stored = @ \cup {p}]
    BY <1>2, <1>4 DEF WithPart
  <2>2. q = [direct |-> remote[d].direct, file |-> remote[d].file, session |-> remote[d].session,
             gen |-> remote[d].gen, stored |-> remote[d].stored \cup {p}, chunks |-> remote[d].chunks]
    BY <1>1, <2>1 DEF RemoteShape
  <2>3. Gained(q, d, p, mode)
    BY <1>1, <1>4, <2>2 DEF RemoteShape, Gained
  <2>4. Arrives(d, p, mode, gen) = [remote EXCEPT ![d] = q]
    BY <1>4, <2>1 DEF Arrives
  <2> QED BY <1>2, <2>3, <2>4
<1> QED BY <1>3, <1>4

\* A mishap that is counted.
LEMMA MishapsKept == TabInv /\ (Mishap \/ UNCHANGED bound) => BoundKept'
<1> SUFFICES ASSUME TabInv, Mishap \/ UNCHANGED bound PROVE BoundKept'
  OBVIOUS
<1>1. BoundKept /\ MaxMishaps \in Nat
  BY UploadTabAssumption DEF TabInv
<1> QED BY <1>1 DEF BoundKept, Mishap

\* A part that is sent: it is with the server, and no more to be sent.
LEMMA PartGoes ==
    ASSUME TabInv, NEW d \in Doc, NEW p \in Part, PartSent(d, p)
    PROVE  TabInv'
<1>1. /\ UploadShape(tab[d]) /\ NothingForgotten(tab[d], remote[d]) /\ RemoteShape(remote[d])
      /\ BoundKept' /\ p \in tab[d].flying /\ tab[d].at = "sending"
      /\ UNCHANGED <<late, timers>>
  BY MishapsKept DEF TabInv, PartSent, UploadShape
<1>2. PICK q : /\ RemoteShape(q) /\ remote' = [remote EXCEPT ![d] = q]
               /\ remote[d].chunks \subseteq q.chunks /\ q.gen = remote[d].gen
               /\ remote[d].stored \subseteq q.stored
               /\ q.session = remote[d].session
               /\ tab[d].mode = "legacy" => p \in q.chunks
               /\ tab[d].mode = "direct" => p \in q.stored
  <2>1. remote' = Arrives(d, p, tab[d].mode, tab[d].to) /\ tab[d].mode \in {"direct", "legacy"}
    BY <1>1 DEF PartSent, UploadShape
  <2>2. PICK q : q = WithPart(d, p, tab[d].mode)
    OBVIOUS
  <2>3. Gained(q, d, p, tab[d].mode) /\ remote' = [remote EXCEPT ![d] = q]
    BY <2>1, <2>2, PartArrives
  <2> QED BY <2>3 DEF Gained
<1> DEFINE todo == tab[d].todo \ {p}
           addresses == tab[d].addresses \ {p}
<1>3. PICK v : v = [tab[d] EXCEPT !.flying = @ \ {p}, !.todo = @ \ {p}, !.addresses = @ \ {p}]
  OBVIOUS
<1>4. v = [at |-> "sending", after |-> tab[d].after, mode |-> tab[d].mode,
           mayFallBack |-> tab[d].mayFallBack, fileId |-> tab[d].fileId, chunks |-> tab[d].chunks,
           gen |-> tab[d].gen, to |-> tab[d].to, todo |-> todo, addresses |-> addresses,
           flying |-> tab[d].flying \ {p}]
  BY <1>1, <1>3 DEF UploadShape
<1>5. PICK u : u = IF v.flying # {} THEN v
                   ELSE IF v.addresses # {} THEN Flies(v, v.addresses)
                   ELSE IF v.todo # {} THEN [v EXCEPT !.at = "presigning"]
                   ELSE [v EXCEPT !.at = "completing"]
  OBVIOUS
<1>6. tab' = [tab EXCEPT ![d] = u] /\ \E status : Tells(d, status)
  BY <1>3, <1>5 DEF PartSent, Goes
<1>7. PICK at \in {"sending", "presigning", "completing"}, flying \in SUBSET todo :
        /\ u = [at |-> at, after |-> tab[d].after, mode |-> tab[d].mode,
                mayFallBack |-> tab[d].mayFallBack, fileId |-> tab[d].fileId, chunks |-> tab[d].chunks,
                gen |-> tab[d].gen, to |-> tab[d].to, todo |-> todo, addresses |-> addresses,
                flying |-> flying]
        /\ at # "sending" => addresses = {} /\ flying = {}
        /\ at = "completing" => todo = {}
  <2>1. CASE v.flying # {}
    <3>1. u = v /\ v.flying \subseteq todo
      BY <1>1, <1>4, <1>5, <2>1 DEF UploadShape
    <3> QED BY <1>4, <3>1
  <2>2. CASE v.flying = {} /\ v.addresses # {}
    <3>1. PICK flying : flying = First(v.addresses, Concurrency)
      OBVIOUS
    <3>2. flying \subseteq todo
      BY <1>1, <1>4, <3>1, FirstAreSome DEF UploadShape
    <3>3. u = [v EXCEPT !.at = "sending", !.addresses = v.addresses, !.flying = flying]
      BY <1>5, <2>2, <3>1 DEF Flies
    <3>4. u = [at |-> "sending", after |-> tab[d].after, mode |-> tab[d].mode,
               mayFallBack |-> tab[d].mayFallBack, fileId |-> tab[d].fileId, chunks |-> tab[d].chunks,
               gen |-> tab[d].gen, to |-> tab[d].to, todo |-> todo, addresses |-> addresses,
               flying |-> flying]
      BY <1>4, <3>3
    <3> QED BY <3>2, <3>4
  <2>3. CASE v.flying = {} /\ v.addresses = {}
    <3>1. PICK at \in {"presigning", "completing"} :
            u = [v EXCEPT !.at = at] /\ (at = "completing" => v.todo = {})
      BY <1>5, <2>3
    <3>2. u = [at |-> at, after |-> tab[d].after, mode |-> tab[d].mode,
               mayFallBack |-> tab[d].mayFallBack, fileId |-> tab[d].fileId, chunks |-> tab[d].chunks,
               gen |-> tab[d].gen, to |-> tab[d].to, todo |-> todo, addresses |-> addresses,
               flying |-> {}]
      BY <1>4, <2>3, <3>1
    <3>3. v.todo = todo /\ v.addresses = addresses /\ {} \in SUBSET todo
      BY <1>4
    <3> QED BY <2>3, <3>1, <3>2, <3>3
  <2> QED BY <2>1, <2>2, <2>3
<1>8. UploadShape(u)
  BY <1>1, <1>7 DEF UploadShape, Places, Waiting
<1>9. NothingForgotten(u, q)
  BY <1>1, <1>2, <1>7 DEF UploadShape, NothingForgotten
<1>10. Outcome(d, u)
  BY <1>1, <1>6, <1>7 DEF Outcome, Waiting, TabInv
<1> QED BY <1>1, <1>2, <1>6, <1>8, <1>9, <1>10, UploadGoes

\* A part that fails ends its upload.
LEMMA PartIsLost ==
    ASSUME TabInv, NEW d \in Doc, NEW p \in Part, PartFails(d, p)
    PROVE  TabInv'
<1>1. /\ UploadShape(tab[d]) /\ NothingForgotten(tab[d], remote[d]) /\ RemoteShape(remote[d])
      /\ BoundKept'
  BY MishapsKept DEF TabInv, PartFails
<1>2. PICK q : /\ RemoteShape(q) /\ remote' = [remote EXCEPT ![d] = q]
               /\ remote[d].chunks \subseteq q.chunks
  <2>1. CASE remote' = remote
    <3>1. remote' = [remote EXCEPT ![d] = remote[d]]
      BY <2>1 DEF TabInv
    <3> QED BY <1>1, <3>1
  <2>2. CASE remote' # remote
    <3>1. remote' = Arrives(d, p, tab[d].mode, tab[d].to) /\ tab[d].mode \in {"direct", "legacy"}
      BY <1>1, <2>2 DEF PartFails, UploadShape
    <3>2. PICK q : q = WithPart(d, p, tab[d].mode)
      OBVIOUS
    <3>3. Gained(q, d, p, tab[d].mode) /\ remote' = [remote EXCEPT ![d] = q]
      BY <3>1, <3>2, PartArrives
    <3> QED BY <3>3 DEF Gained
  <2> QED BY <2>1, <2>2
<1>3. PICK u : u = [[tab[d] EXCEPT !.flying = @ \ {p}] EXCEPT !.at = "over", !.flying = {}]
  OBVIOUS
<1>4. u = [at |-> "over", after |-> tab[d].after, mode |-> tab[d].mode,
           mayFallBack |-> tab[d].mayFallBack, fileId |-> tab[d].fileId, chunks |-> tab[d].chunks,
           gen |-> tab[d].gen, to |-> tab[d].to, todo |-> tab[d].todo,
           addresses |-> tab[d].addresses, flying |-> {}]
  BY <1>1, <1>3 DEF UploadShape
<1>5. tab' = [tab EXCEPT ![d] = u]
  BY <1>3 DEF PartFails, Goes
<1>6. UploadShape(u) /\ NothingForgotten(u, q)
  BY <1>1, <1>2, <1>4 DEF UploadShape, Places, NothingForgotten
<1>7. Outcome(d, u)
  BY DEF PartFails, Outcome
<1> QED BY <1>1, <1>2, <1>5, <1>6, <1>7, UploadGoes

\* The completion, and a step that fails.
LEMMA CompletionGoes ==
    ASSUME TabInv, NEW d \in Doc, Complete(d) \/ StepFails(d)
    PROVE  TabInv'
<1>1. /\ RemoteShape(remote[d]) /\ BoundKept' /\ tab[d].at # "sending"
      /\ Failed(d) \/ Finished(d)
  BY MishapsKept DEF TabInv, Complete, StepFails
<1>2. PICK q : /\ RemoteShape(q) /\ remote' = [remote EXCEPT ![d] = q]
               /\ remote[d].chunks \subseteq q.chunks
  <2>1. CASE remote' = remote
    <3>1. remote' = [remote EXCEPT ![d] = remote[d]]
      BY <2>1 DEF TabInv
    <3> QED BY <1>1, <3>1
  <2>2. CASE remote' # remote
    <3>1. PICK session \in Sessions :
            session = IF tab[d].mode = "legacy" THEN remote[d].session ELSE "completed"
      BY <1>1 DEF RemoteShape, Sessions
    <3>2. PICK q : q = [remote[d] EXCEPT !.file = "stored", !.session = session]
      OBVIOUS
    <3>3. q = [direct |-> remote[d].direct, file |-> "stored", session |-> session,
               gen |-> remote[d].gen, stored |-> remote[d].stored, chunks |-> remote[d].chunks]
      BY <1>1, <3>2 DEF RemoteShape
    <3>4. RemoteShape(q)
      BY <1>1, <3>3 DEF RemoteShape, Files
    <3>5. remote' = [remote EXCEPT ![d] = q]
      <4>1. remote' = Merged(d) /\ remote = [e \in Doc |-> remote[e]]
        BY <2>2 DEF Complete, StepFails, TabInv
      <4>2. CASE tab[d].mode = "legacy"
        <5>1. [remote[d] EXCEPT !.file = "stored"] = q
          BY <1>1, <3>1, <3>3, <4>2 DEF RemoteShape
        <5> QED BY <4>1, <4>2, <5>1 DEF Merged
      <4>3. CASE tab[d].mode # "legacy"
        <5>1. q = [[remote[d] EXCEPT !.file = "stored"] EXCEPT !.session = "completed"]
          BY <3>1, <3>2, <4>3
        <5> QED BY <4>1, <4>3, <5>1 DEF Merged
      <4> QED BY <4>2, <4>3
    <3>6. remote[d].chunks \subseteq q.chunks
      BY <3>3
    <3> QED BY <3>4, <3>5, <3>6
  <2> QED BY <2>1, <2>2
<1> QED BY <1>1, <1>2, UploadEnds

\* What becomes of a session, without the tab.
LEMMA SessionGoes ==
    ASSUME TabInv, NEW d \in Doc, SessionExpires(d) \/ SessionCancelled(d) \/ OtherTabInits(d)
    PROVE  TabInv'
<1>1. /\ UploadShape(tab[d]) /\ NothingForgotten(tab[d], remote[d]) /\ RemoteShape(remote[d])
      /\ BoundKept' /\ UNCHANGED <<tab, late, banner, timers>> /\ tab' = [tab EXCEPT ![d] = tab[d]]
  BY MishapsKept DEF TabInv, SessionExpires, SessionCancelled, OtherTabInits
<1>2. Outcome(d, tab[d])
  BY <1>1 DEF Outcome
<1>3. PICK q : RemoteShape(q) /\ NothingForgotten(tab[d], q) /\ remote' = [remote EXCEPT ![d] = q]
  <2>1. CASE SessionExpires(d)
    <3>1. PICK q : q = [remote[d] EXCEPT !.session = "expired"]
      OBVIOUS
    <3>2. q = [direct |-> remote[d].direct, file |-> remote[d].file, session |-> "expired",
               gen |-> remote[d].gen, stored |-> remote[d].stored, chunks |-> remote[d].chunks]
      BY <1>1, <3>1 DEF RemoteShape
    <3>3. RemoteShape(q) /\ NothingForgotten(tab[d], q)
      BY <1>1, <3>2 DEF RemoteShape, Sessions, NothingForgotten
    <3> QED BY <2>1, <3>1, <3>3 DEF SessionExpires
  <2>2. CASE SessionCancelled(d)
    <3>1. PICK file \in Files : file = IF remote[d].file = "uploading" THEN "failed" ELSE remote[d].file
      BY <1>1 DEF RemoteShape, Files
    <3>2. PICK q : q = [direct |-> remote[d].direct, file |-> file, session |-> "none",
               gen |-> remote[d].gen, stored |-> {}, chunks |-> remote[d].chunks]
      OBVIOUS
    <3>3. RemoteShape(q) /\ NothingForgotten(tab[d], q)
      BY <1>1, <3>2 DEF RemoteShape, Sessions, NothingForgotten
    <3>4. remote' = [remote EXCEPT ![d] = q]
      <4>1. \A e \in Doc : remote'[e] = IF e = d THEN q ELSE remote[e]
        <5>1. PICK r : r = [[[remote[d] EXCEPT !.session = "none"] EXCEPT !.stored = {}]
                             EXCEPT !.file = file]
          OBVIOUS
        <5>2. r = [direct |-> remote[d].direct, file |-> file, session |-> "none",
                   gen |-> remote[d].gen, stored |-> {}, chunks |-> remote[d].chunks]
          BY <1>1, <5>1 DEF RemoteShape
        <5>3. \A e \in Doc : remote'[e] = IF e = d THEN r ELSE remote[e]
          BY <2>2, <3>1, <5>1 DEF SessionCancelled, TabInv
        <5> QED BY <3>2, <5>2, <5>3
      <4>2. remote' = [e \in Doc |-> remote'[e]] /\ remote = [e \in Doc |-> remote[e]]
        BY <2>2 DEF SessionCancelled, TabInv
      <4> QED BY <4>1, <4>2
    <3> QED BY <3>3, <3>4
  <2>3. CASE OtherTabInits(d)
    <3>1. PICK q : q = [[[[remote[d] EXCEPT !.file = "uploading"] EXCEPT !.session = "open"]
                           EXCEPT !.gen = remote[d].gen + 1] EXCEPT !.stored = {}]
      OBVIOUS
    <3>2. q = [direct |-> remote[d].direct, file |-> "uploading", session |-> "open",
               gen |-> remote[d].gen + 1, stored |-> {}, chunks |-> remote[d].chunks]
      BY <1>1, <3>1 DEF RemoteShape
    <3>3. RemoteShape(q) /\ NothingForgotten(tab[d], q)
      BY <1>1, <3>2 DEF RemoteShape, Sessions, Files, NothingForgotten, UploadShape
    <3>4. remote' = [remote EXCEPT ![d] = q]
      <4>1. \A e \in Doc : remote'[e] = IF e = d THEN q ELSE remote[e]
        BY <2>3, <3>1 DEF OtherTabInits, Opened, TabInv
      <4>2. remote' = [e \in Doc |-> remote'[e]] /\ remote = [e \in Doc |-> remote[e]]
        BY <2>3 DEF OtherTabInits, Opened, TabInv
      <4> QED BY <4>1, <4>2
    <3> QED BY <3>3, <3>4
  <2> QED BY <2>1, <2>2, <2>3
<1> QED BY <1>1, <1>2, <1>3, UploadGoes

\* The parts that go on without their upload, and the timers.
LEMMA LateStep ==
    ASSUME TabInv, NEW f \in late, LatePartTells(f) \/ LatePartEnds(f)
    PROVE  TabInv'
<1>1. /\ f \in Flight /\ f.doc \in Doc /\ f.part \in Part /\ f.mode \in {"direct", "legacy"}
      /\ UNCHANGED <<tab, timers, bound>> /\ late' \subseteq late
      /\ \/ banner' = [name |-> f.doc, status |-> "uploading", why |-> "late"]
         \/ banner' = banner
  BY DEF TabInv, Flight, LatePartTells, LatePartEnds
<1>2. BannerTells' /\ late' \subseteq Flight /\ timers'.due \subseteq Doc /\ BoundKept'
  <2>1. BannerTells /\ late \subseteq Flight /\ timers.due \subseteq Doc /\ BoundKept
    BY DEF TabInv
  <2>2. CASE banner' = banner
    BY <1>1, <2>1, <2>2 DEF BannerTells, BoundKept, NoBanner
  <2>3. CASE banner' = [name |-> f.doc, status |-> "uploading", why |-> "late"]
    BY <1>1, <2>1, <2>3 DEF BannerTells, BoundKept
  <2> QED BY <1>1, <2>2, <2>3
<1>3. CASE remote' = remote
  BY <1>1, <1>2, <1>3 DEF TabInv, UploadShape, RemoteShape, NothingForgotten
<1>4. CASE remote' # remote
  <2> DEFINE d == f.doc
  <2>1. remote' = Arrives(d, f.part, f.mode, f.gen)
    BY <1>4 DEF LatePartTells, LatePartEnds
  <2>2. PICK q : q = WithPart(d, f.part, f.mode)
    OBVIOUS
  <2>3. Gained(q, d, f.part, f.mode) /\ remote' = [remote EXCEPT ![d] = q]
    BY <1>1, <2>1, <2>2, PartArrives
  <2>4. UploadShape(tab[d]) /\ NothingForgotten(tab[d], remote[d])
        /\ tab' = [tab EXCEPT ![d] = tab[d]]
    BY <1>1 DEF TabInv
  <2>5. NothingForgotten(tab[d], q) /\ RemoteShape(q)
    BY <2>3, <2>4 DEF NothingForgotten, Gained
  <2>6. /\ (tab = [e \in Doc |-> tab[e]])' /\ (remote = [e \in Doc |-> remote[e]])'
        /\ \A e \in Doc : /\ UploadShape(tab[e])' /\ RemoteShape(remote[e])'
                          /\ NothingForgotten(tab[e], remote[e])'
    BY <1>1, <2>3, <2>4, <2>5, DocumentGoes
  <2> QED BY <1>2, <2>6 DEF TabInv
<1> QED BY <1>3, <1>4

\* The timers, one of which a change of the space stops.
LEMMA TimerStep ==
    ASSUME TabInv, SwitchSpace \/ \E d \in Doc : TimerFires(d)
    PROVE  TabInv'
<1>1. /\ UNCHANGED <<tab, late, remote, bound>> /\ timers'.due \subseteq timers.due
  BY DEF SwitchSpace, TimerFires
<1>2. BannerTells /\ timers.due \subseteq Doc /\ BoundKept
  BY DEF TabInv
<1>3. BannerTells'
  <2>1. ASSUME NEW d \in Doc, TimerFires(d) PROVE BannerTells'
    <3>1. CASE banner.name = d /\ banner.status = "error"
      <4>1. banner' = NoBanner
        BY <2>1, <3>1 DEF TimerFires
      <4> QED BY <4>1 DEF BannerTells, NoBanner
    <3>2. CASE ~(banner.name = d /\ banner.status = "error")
      <4>1. banner' = banner /\ timers'.due = timers.due \ {d}
        BY <2>1, <3>2 DEF TimerFires
      <4> QED BY <1>1, <1>2, <3>2, <4>1 DEF BannerTells, NoBanner
    <3> QED BY <3>1, <3>2
  <2>2. CASE SwitchSpace
    <3>1. CASE banner.status = "error"
      <4>1. banner' = [banner EXCEPT !.why = "switch"]
        BY <2>2, <3>1 DEF SwitchSpace
      <4>2. banner' = [name |-> banner.name, status |-> banner.status, why |-> "switch"]
        BY <1>2, <4>1 DEF BannerTells
      <4> QED BY <1>2, <4>2 DEF BannerTells
    <3>2. CASE banner.status # "error"
      <4>1. banner' = banner
        BY <2>2, <3>2 DEF SwitchSpace
      <4> QED BY <1>1, <1>2, <3>2, <4>1 DEF BannerTells, NoBanner
    <3> QED BY <3>1, <3>2
  <2> QED BY <2>1, <2>2
<1>4. BoundKept' /\ timers'.due \subseteq Doc
  BY <1>1, <1>2 DEF BoundKept
<1> QED BY <1>1, <1>3, <1>4 DEF TabInv, UploadShape, RemoteShape, NothingForgotten

\* Every step preserves the invariant.
LEMMA TabGoesOn == TabInv /\ [TabNext]_tabVars => TabInv'
<1> SUFFICES ASSUME TabInv, [TabNext]_tabVars PROVE TabInv'
  OBVIOUS
<1>1. CASE UNCHANGED tabVars
  BY <1>1 DEF tabVars, TabInv, UploadShape, RemoteShape, NothingForgotten, BannerTells, BoundKept,
              NoBanner
<1>2. CASE TabNext
  BY <1>2, DropAndStart, CheckStep, NextParts, PartGoes, PartIsLost, CompletionGoes, SessionGoes,
     LateStep, TimerStep DEF TabNext
<1> QED BY <1>1, <1>2

\* An upload is completed only when the server has every part of it, and the
\* banner of an upload does not outlive it, for every number of documents, parts
\* and drops and every size of the batches.
THEOREM UploadsAlwaysSettle == TabSpec => []UploadsSettle
<1>1. TabInv => UploadsSettle
  <2> SUFFICES ASSUME TabInv PROVE UploadsSettle
    OBVIOUS
  <2>1. TabTypeOK
    <3>1. \A d \in Doc : UploadShape(tab[d]) /\ RemoteShape(remote[d])
      BY DEF TabInv
    <3>2. late \subseteq [doc : Doc, part : Part, gen : Nat, mode : {"direct", "legacy"}]
      BY DEF TabInv, Flight
    <3> QED BY <3>1, <3>2 DEF TabInv, TabTypeOK, UploadShape, RemoteShape, Places, Sessions, Files,
                              BannerTells, BoundKept
  <2>2. ASSUME NEW d \in Doc, tab[d].at = "completing"
        PROVE  IF tab[d].mode = "legacy" THEN remote[d].chunks = Part
               ELSE remote[d].session = "open" /\ remote[d].gen = tab[d].gen => remote[d].stored = Part
    <3>1. RemoteShape(remote[d]) /\ NothingForgotten(tab[d], remote[d])
      BY DEF TabInv
    <3>2. tab[d].todo = {} /\ Part \ {} = Part
      BY <2>2, <3>1 DEF NothingForgotten
    <3>3. CASE tab[d].mode = "legacy"
      BY <2>2, <3>1, <3>2, <3>3 DEF RemoteShape, NothingForgotten
    <3>4. CASE tab[d].mode # "legacy"
      BY <2>2, <3>1, <3>2, <3>4 DEF RemoteShape, NothingForgotten
    <3> QED BY <3>3, <3>4
  <2>3. ASSUME \A d \in Doc : tab[d].at \in {"none", "over"}, timers.due = {}, banner # NoBanner
        PROVE  banner.why \in {"late", "switch"}
    BY <2>3 DEF TabInv, BannerTells, Waiting
  <2> QED BY <2>1, <2>2, <2>3 DEF UploadsSettle
<1> QED BY <1>1, TabStarts, TabGoesOn, PTL DEF TabSpec

-----------------------------------------------------------------------------
(* Filters. *)

\* f follows the recursion of Without up to m.
Filters(s, gone, m, f) ==
    f = [n \in 0 .. m |-> IF n = 0 THEN <<>>
                          ELSE IF n \in gone THEN f[n - 1] ELSE Append(f[n - 1], s[n])]

\* A nonempty set of numbers has a least one.
LEMMA LeastNumber ==
    ASSUME NEW T, T \subseteq Nat, T # {}
    PROVE  \E n \in T : \A m \in T : n <= m
<1>1. \E n \in T : \A m \in T : ~(<<m, n>> \in OpToRel(<, Nat))
  BY NatLessThanWellFounded, WFMin
<1>2. PICK n \in T : \A m \in T : ~(<<m, n>> \in OpToRel(<, Nat))
  BY <1>1
<1>3. ASSUME NEW m \in T PROVE n <= m
  <2>1. m \in Nat /\ n \in Nat
    OBVIOUS
  <2>2. ~ (m < n)
    BY <1>2, <2>1 DEF OpToRel
  <2> QED BY <2>1, <2>2
<1> QED BY <1>3

\* The recursion has a solution.
LEMMA FiltersThere ==
    ASSUME NEW s, NEW gone, NEW m \in Nat
    PROVE  \E f : Filters(s, gone, m, f)
<1> DEFINE T == {n \in Nat : ~ \E f : Filters(s, gone, n, f)}
<1>1. T = {}
  <2> SUFFICES ASSUME T # {} PROVE FALSE
    OBVIOUS
  <2>1. \E n \in T : \A k \in T : n <= k
    <3>1. T \subseteq Nat
      OBVIOUS
    <3> HIDE DEF T
    <3> QED BY <3>1, LeastNumber
  <2>2. PICK n \in T : \A k \in T : n <= k
    BY <2>1
  <2>3. n # 0
    <3>1. Filters(s, gone, 0, [k \in 0 .. 0 |-> <<>>])
      BY DEF Filters
    <3> QED BY <2>2, <3>1
  <2>4. n - 1 \in Nat /\ n - 1 \notin T
    BY <2>2, <2>3
  <2>5. PICK f : Filters(s, gone, n - 1, f)
    BY <2>4
  <2>6. PICK g : g = [k \in 0 .. n |-> IF k = n
                                       THEN IF k \in gone THEN f[k - 1] ELSE Append(f[k - 1], s[k])
                                       ELSE f[k]]
    OBVIOUS
  <2>7. Filters(s, gone, n, g)
    <3>1. \A k \in 0 .. n : k # n => k \in 0 .. (n - 1) /\ g[k] = f[k]
      BY <2>2, <2>4, <2>6
    <3>2. \A k \in 0 .. n : k # 0 => k - 1 \in 0 .. n /\ k - 1 # n
      BY <2>2
    <3>3. \A k \in 0 .. n : g[k] = IF k = 0 THEN <<>>
                                   ELSE IF k \in gone THEN g[k - 1] ELSE Append(g[k - 1], s[k])
      BY <2>3, <2>5, <2>6, <3>1, <3>2 DEF Filters
    <3> QED BY <2>6, <3>3 DEF Filters
  <2> QED BY <2>2, <2>7
<1> QED BY <1>1

\* What a list keeps is of the same kind, was in it at a place that is not gone,
\* and comes from one place only.
FilteredFrom(s, gone, m, r, T) ==
    /\ r \in Seq(T)
    /\ \A x : (\E j \in 1 .. Len(r) : r[j] = x) <=> (\E i \in 1 .. m : i \notin gone /\ s[i] = x)
    /\ (\A i, j \in 1 .. m : s[i] = s[j] => i = j) =>
         \A i, j \in 1 .. Len(r) : r[i] = r[j] => i = j

\* One element more.
LEMMA FilterStep ==
    ASSUME NEW T, NEW s \in Seq(T), NEW gone, NEW m \in Nat, m + 1 \in DOMAIN s, NEW r,
           FilteredFrom(s, gone, m, r, T)
    PROVE  /\ m + 1 \in gone => FilteredFrom(s, gone, m + 1, r, T)
           /\ m + 1 \notin gone => FilteredFrom(s, gone, m + 1, Append(r, s[m + 1]), T)
<1>1. \A i : i \in 1 .. (m + 1) <=> i \in 1 .. m \/ i = m + 1
  OBVIOUS
<1>2. ASSUME m + 1 \in gone PROVE FilteredFrom(s, gone, m + 1, r, T)
  BY <1>1, <1>2 DEF FilteredFrom
<1>3. ASSUME m + 1 \notin gone PROVE FilteredFrom(s, gone, m + 1, Append(r, s[m + 1]), T)
  <2>1. PICK x : x = s[m + 1]
    OBVIOUS
  <2>2. PICK q : q = Append(r, x)
    OBVIOUS
  <2>3. x \in T /\ r \in Seq(T)
    BY <2>1 DEF FilteredFrom
  <2>4. q \in Seq(T) /\ Len(q) = Len(r) + 1 /\ q[Len(r) + 1] = x /\ Len(r) \in Nat
    BY <2>2, <2>3
  <2>5. \A j \in 1 .. Len(r) : q[j] = r[j]
    BY <2>2, <2>3
  <2>6. \A j : j \in 1 .. Len(q) <=> j \in 1 .. Len(r) \/ j = Len(r) + 1
    BY <2>4
  <2>7. \A y : (\E j \in 1 .. Len(q) : q[j] = y) <=> (\E i \in 1 .. (m + 1) : i \notin gone /\ s[i] = y)
    <3> SUFFICES ASSUME NEW y
                 PROVE  (\E j \in 1 .. Len(q) : q[j] = y)
                          <=> (\E i \in 1 .. (m + 1) : i \notin gone /\ s[i] = y)
      OBVIOUS
    <3>1. (\E j \in 1 .. Len(q) : q[j] = y) <=> (\E j \in 1 .. Len(r) : r[j] = y) \/ x = y
      BY <2>4, <2>5, <2>6
    <3>2. (\E i \in 1 .. (m + 1) : i \notin gone /\ s[i] = y)
            <=> (\E i \in 1 .. m : i \notin gone /\ s[i] = y) \/ x = y
      BY <1>1, <1>3, <2>1
    <3> QED BY <3>1, <3>2 DEF FilteredFrom
  <2>8. ASSUME \A i, j \in 1 .. (m + 1) : s[i] = s[j] => i = j
        PROVE  \A i, j \in 1 .. Len(q) : q[i] = q[j] => i = j
    <3>1. \A j \in 1 .. Len(r) : r[j] # x
      <4> SUFFICES ASSUME NEW j \in 1 .. Len(r), r[j] = x PROVE FALSE
        OBVIOUS
      <4>1. PICK i \in 1 .. m : s[i] = x
        BY DEF FilteredFrom
      <4>2. i \in 1 .. (m + 1) /\ m + 1 \in 1 .. (m + 1) /\ i # m + 1
        OBVIOUS
      <4> QED BY <2>1, <2>8, <4>1, <4>2
    <3>2. \A i, j \in 1 .. Len(r) : r[i] = r[j] => i = j
      BY <1>1, <2>8 DEF FilteredFrom
    <3> QED BY <2>4, <2>5, <2>6, <3>1, <3>2
  <2>9. FilteredFrom(s, gone, m + 1, q, T)
    BY <2>4, <2>7, <2>8 DEF FilteredFrom
  <2> QED BY <2>1, <2>2, <2>9
<1> QED BY <1>2, <1>3

\* A list without some of its elements.
LEMMA WithoutIs ==
    ASSUME NEW T, NEW s \in Seq(T), NEW gone
    PROVE  FilteredFrom(s, gone, Len(s), Without(s, gone), T)
<1>1. Len(s) \in Nat /\ DOMAIN s = 1 .. Len(s)
  OBVIOUS
<1>2. \E f : Filters(s, gone, Len(s), f)
  BY <1>1, FiltersThere
<1>3. PICK f : f = CHOOSE g : Filters(s, gone, Len(s), g)
  OBVIOUS
<1>4. Filters(s, gone, Len(s), f)
  BY <1>2, <1>3
<1>5. Without(s, gone) = f[Len(s)]
  BY <1>3 DEF Without, Filters
<1> DEFINE U == {n \in Nat : n <= Len(s) /\ ~ FilteredFrom(s, gone, n, f[n], T)}
<1>6. U = {}
  <2> SUFFICES ASSUME U # {} PROVE FALSE
    OBVIOUS
  <2>1. \E n \in U : \A k \in U : n <= k
    <3>1. U \subseteq Nat
      OBVIOUS
    <3> HIDE DEF U
    <3> QED BY <3>1, LeastNumber
  <2>2. PICK n \in U : \A k \in U : n <= k
    BY <2>1
  <2>3. n # 0
    <3>1. f[0] = <<>>
      BY <1>1, <1>4 DEF Filters
    <3>2. FilteredFrom(s, gone, 0, <<>>, T)
      BY DEF FilteredFrom
    <3> QED BY <2>2, <3>1, <3>2
  <2>4. PICK m \in Nat : n = m + 1
    BY <2>2, <2>3
  <2>5. m \notin U /\ m <= Len(s) /\ m + 1 \in DOMAIN s /\ n \in 0 .. Len(s)
    BY <1>1, <2>2, <2>4
  <2>6. FilteredFrom(s, gone, m, f[m], T)
    BY <2>5
  <2>7. f[n] = IF n \in gone THEN f[m] ELSE Append(f[m], s[n])
    <3>1. n - 1 = m
      BY <2>4
    <3>2. f[n] = IF n \in gone THEN f[n - 1] ELSE Append(f[n - 1], s[n])
      BY <1>4, <2>3, <2>5 DEF Filters
    <3> QED BY <3>1, <3>2
  <2>8. FilteredFrom(s, gone, n, f[n], T)
    BY <2>4, <2>5, <2>6, <2>7, FilterStep
  <2> QED BY <2>2, <2>8
<1>7. FilteredFrom(s, gone, Len(s), f[Len(s)], T)
  BY <1>1, <1>6
<1> QED BY <1>5, <1>7

-----------------------------------------------------------------------------
(* The chat. *)

\* A message of a conversation of up to n questions.
Texts == {"", "part", "more", "whole"}
MessageUpTo(n) == [of : Conv, turn : 0..n, role : {"user", "assistant", "welcome"},
                   text : Texts, known : BOOLEAN]
Thread(n) == Seq(MessageUpTo(n))

\* Messages on their way, as the server had them.
FetchShape(f, n) ==
    /\ f = [at |-> f.at, after |-> f.after, data |-> f.data]
    /\ f.at \in {"none", "asked", "served"} /\ f.after \in {"none", "selection", "deletion"}
    /\ f.at # "none" => f.after # "none"
    /\ f.data \in Thread(n) /\ \A i \in DOMAIN f.data : f.data[i].known

\* A stream that does not continue an answer writes one the server has not named.
Question(r) == r.at # "none" /\ r.into = r.turn

StreamShape(r, n) ==
    /\ r = [turn |-> r.turn, into |-> r.into, known |-> r.known, was |-> r.was, at |-> r.at]
    /\ r.turn \in 0..n /\ r.into \in 0..r.turn /\ r.known \in BOOLEAN /\ r.was \in Texts
    /\ r.at \in {"none", "sent", "open", "told"}
    /\ Question(r) => ~r.known

\* The parts of a view.
ViewShape(v, n) ==
    /\ v = [listed |-> v.listed, current |-> v.current, shown |-> v.shown, cache |-> v.cache,
            fetch |-> v.fetch, stream |-> v.stream, fresh |-> v.fresh, stopped |-> v.stopped,
            sending |-> v.sending, isStopped |-> v.isStopped,
            loading |-> v.loading, restored |-> v.restored]
    /\ v.listed \subseteq Conv /\ v.current \in Conv \cup {Nobody} /\ v.shown \in Thread(n)
    /\ v.cache = [c \in Conv |-> v.cache[c]]
    /\ \A c \in Conv : v.cache[c] = Nobody \/ v.cache[c] \in Thread(n)
    /\ v.fetch = [c \in Conv |-> v.fetch[c]] /\ \A c \in Conv : FetchShape(v.fetch[c], n)
    /\ v.stream = [c \in Conv |-> v.stream[c]] /\ \A c \in Conv : StreamShape(v.stream[c], n)
    /\ v.fresh \subseteq {"fetch", "delete"} \X Conv /\ v.stopped \subseteq Conv
    /\ v.sending \in BOOLEAN /\ v.isStopped \in BOOLEAN /\ v.loading \in BOOLEAN
    /\ v.restored \in BOOLEAN

\* What is compared with the generation of a cache is on its way.
FreshFetched(v) == \A c \in Conv : <<"fetch", c>> \in v.fresh => v.fetch[c].at # "none"

\* The view shows what its conversation has and does.
Shows(v, c) ==
    /\ v.cache[c] # Nobody => v.shown = v.cache[c]
    /\ v.sending = Active(v, c)
    /\ v.isStopped = (c \in v.stopped)

\* What is shown is right, and loads only what is on its way, unless a failed
\* archiving brought it back.
FlagsRight(v) ==
    v.current # Nobody /\ ~v.restored =>
        Shows(v, v.current) /\ (v.loading => v.fetch[v.current].at # "none")

\* The temporary conversation has its messages for as long as it is there.
TempListed(v) ==
    /\ "temp" \in v.listed => v.cache["temp"] # Nobody
    /\ v.current = "temp" => "temp" \in v.listed

\* An answer to a question is written into the cache, and messages that were
\* requested by a selection and will replace the cache have no place to lose.
AnswerLive(v, c) ==
    Question(v.stream[c]) =>
        /\ v.cache[c] # Nobody \/ (c = "temp" /\ "temp" \notin v.listed)
        /\ <<"fetch", c>> \in v.fresh /\ v.fetch[c].after # "deletion" /\ v.cache[c] # Nobody =>
             \A i \in DOMAIN v.cache[c] : ~IsAnswer(v.cache[c][i], v.stream[c])

\* A view before and after its flags are set.
ViewReady(v, n) ==
    ViewShape(v, n) /\ FreshFetched(v) /\ TempListed(v) /\ \A c \in Conv : AnswerLive(v, c)
ViewRight(v, n) == ViewReady(v, n) /\ FlagsRight(v)

\* The server has told of every message it has.
ServerShape(s, n) ==
    /\ s = [c \in Conv |-> s[c]]
    /\ \A c \in Conv : s[c] = Nobody \/ (s[c] \in Thread(n) /\ \A i \in DOMAIN s[c] : s[c][i].known)

\* What is shown is listed, what is listed or written to exists.
ListedExist(v, s) ==
    /\ v.current \in v.listed \cup {Nobody}
    /\ \A c \in Conv \ {"temp"} : s[c] = Nobody => c \notin v.listed /\ ~Active(v, c)

\* The conversations that exist are the same.
SameExist(s, t) == \A c \in Conv : s[c] = Nobody <=> t[c] = Nobody

\* A change under way, and what it has changed in the view before its answer.
OpFits(o, v, s, n) ==
    /\ o = [kind |-> o.kind, of |-> o.of, msg |-> o.msg, here |-> o.here, before |-> o.before]
    /\ o.kind \in Kinds \cup {"none"} /\ o.before \in Thread(n) /\ o.msg \in MessageUpTo(n)
    /\ o.kind = "none" => o = NoOp
    /\ o.kind \notin {"none", "archive"} => o.of \in Conv
    /\ o.kind = "archive" => o.of \in v.listed \cup {Nobody}
    /\ o.kind = "delete conversation" =>
         o.of # "temp" /\ o.of \notin v.listed /\ v.current # o.of /\ s[o.of] # Nobody
    /\ o.kind \in {"create", "create and send"} => "temp" \in v.listed /\ s[New] = Nobody

\* Another view of the same list, which differs in what c has and does.
Touches(v, w, c) ==
    /\ w.listed = v.listed /\ w.current = v.current
    /\ \A d \in Conv : d # c => w.cache[d] = v.cache[d] /\ w.stream[d] = v.stream[d]

\* The inductive invariant of the chat.
ViewInv ==
    /\ turns \in 0..MaxTurn /\ changes \in 0..MaxChange
    /\ ViewRight(client, turns) /\ ServerShape(server, turns)
    /\ ListedExist(client, server) /\ OpFits(op, client, server, turns)

\* More turns, more messages.
LEMMA ThreadGrows ==
    ASSUME NEW n \in Nat, NEW m \in Nat, n <= m
    PROVE  MessageUpTo(n) \subseteq MessageUpTo(m) /\ Thread(n) \subseteq Thread(m)
<1>1. 0..n \subseteq 0..m
  OBVIOUS
<1>2. MessageUpTo(n) \subseteq MessageUpTo(m)
  <2> SUFFICES ASSUME NEW x \in MessageUpTo(n) PROVE x \in MessageUpTo(m)
    OBVIOUS
  <2> QED BY <1>1 DEF MessageUpTo
<1>3. ASSUME NEW s \in Thread(n) PROVE s \in Thread(m)
  BY <1>2 DEF Thread
<1> QED BY <1>2, <1>3

\* A thread is not "no conversation".
LEMMA ThreadThere ==
    ASSUME NEW n \in 0..MaxTurn, NEW s \in Thread(n) PROVE s # Nobody
<1>1. n \in Nat /\ MaxTurn \in Nat /\ n <= MaxTurn
  BY ChatViewAssumption
<1>2. s \in Thread(MaxTurn)
  BY <1>1, ThreadGrows
<1>3. Thread(MaxTurn) = Messages
  BY DEF Thread, MessageUpTo, Messages, Texts
<1> QED BY <1>2, <1>3, ChatViewAssumption

\* A message is one.
LEMMA MsgIs ==
    ASSUME NEW n \in Nat, NEW c \in Conv, NEW k \in 0..n, NEW role \in {"user", "assistant", "welcome"},
           NEW text \in Texts, NEW known \in BOOLEAN
    PROVE  /\ Msg(c, k, role, text, known) \in MessageUpTo(n)
           /\ Msg(c, k, role, text, known).known = known
BY DEF Msg, MessageUpTo

\* The messages of a conversation are a thread.
LEMMA MessagesOfIs ==
    ASSUME NEW n \in Nat, NEW v, ViewShape(v, n), NEW c \in Conv
    PROVE  MessagesOf(v, c) \in Thread(n)
BY DEF ViewShape, MessagesOf, Thread

\* The fields of a view whose messages were replaced.
LEMMA UpdatedFields ==
    ASSUME NEW n, NEW v, ViewShape(v, n), NEW c \in Conv, NEW new
    PROVE  Updated(v, c, new) =
             [listed |-> v.listed, current |-> v.current,
              shown |-> IF v.current = c THEN new ELSE v.shown,
              cache |-> [v.cache EXCEPT ![c] = new],
              fetch |-> v.fetch, stream |-> v.stream,
              fresh |-> {t \in v.fresh : t[2] # c}, stopped |-> v.stopped,
              sending |-> v.sending, isStopped |-> v.isStopped,
              loading |-> v.loading, restored |-> v.restored]
<1>1. v = [listed |-> v.listed, current |-> v.current, shown |-> v.shown, cache |-> v.cache,
           fetch |-> v.fetch, stream |-> v.stream, fresh |-> v.fresh, stopped |-> v.stopped,
           sending |-> v.sending, isStopped |-> v.isStopped,
           loading |-> v.loading, restored |-> v.restored]
  BY DEF ViewShape
<1>2. PICK sh : sh = IF v.current = c THEN new ELSE v.shown
  OBVIOUS
<1>3. PICK ca : ca = [v.cache EXCEPT ![c] = new]
  OBVIOUS
<1>4. PICK fr : fr = {t \in v.fresh : t[2] # c}
  OBVIOUS
<1>5. PICK w : w = [v EXCEPT !.cache = ca, !.shown = sh, !.fresh = fr]
  OBVIOUS
<1>6. Updated(v, c, new) = w
  BY <1>2, <1>3, <1>4, <1>5 DEF Updated
<1>7. w =
        [listed |-> v.listed, current |-> v.current, shown |-> sh, cache |-> ca,
         fetch |-> v.fetch, stream |-> v.stream, fresh |-> fr, stopped |-> v.stopped,
         sending |-> v.sending, isStopped |-> v.isStopped,
         loading |-> v.loading, restored |-> v.restored]
  BY <1>1, <1>5
<1> QED BY <1>2, <1>3, <1>4, <1>6, <1>7

\* Messages are replaced: afterwards the answer of their conversation is live.
LEMMA UpdatedRight ==
    ASSUME NEW n \in 0..MaxTurn, NEW v, ViewShape(v, n), FreshFetched(v), TempListed(v),
           NEW c \in Conv, \A d \in Conv : d # c => AnswerLive(v, d), NEW new \in Thread(n)
    PROVE  /\ ViewReady(Updated(v, c, new), n)
           /\ FlagsRight(v) => FlagsRight(Updated(v, c, new))
           /\ Touches(v, Updated(v, c, new), c)
           /\ Updated(v, c, new).stream = v.stream /\ Updated(v, c, new).cache[c] = new
<1>1. PICK w : w = Updated(v, c, new)
  OBVIOUS
<1>2. w = [listed |-> v.listed, current |-> v.current,
              shown |-> IF v.current = c THEN new ELSE v.shown,
              cache |-> [v.cache EXCEPT ![c] = new],
              fetch |-> v.fetch, stream |-> v.stream,
              fresh |-> {t \in v.fresh : t[2] # c}, stopped |-> v.stopped,
              sending |-> v.sending, isStopped |-> v.isStopped,
              loading |-> v.loading, restored |-> v.restored]
  BY <1>1, UpdatedFields
<1>3. /\ w.listed = v.listed /\ w.current = v.current /\ w.fetch = v.fetch /\ w.stream = v.stream
      /\ w.stopped = v.stopped /\ w.sending = v.sending /\ w.isStopped = v.isStopped
      /\ w.loading = v.loading /\ w.restored = v.restored
  BY <1>2
<1>4. w.shown = IF v.current = c THEN new ELSE v.shown
  BY <1>2
<1>5. w.cache = [v.cache EXCEPT ![c] = new]
  BY <1>2
<1>6. w.fresh = {t \in v.fresh : t[2] # c}
  BY <1>2
<1>7. new # Nobody
  BY ThreadThere
<1>8. w.cache[c] = new /\ \A d \in Conv : d # c => w.cache[d] = v.cache[d]
  BY <1>5 DEF ViewShape
<1>9. w.cache = [d \in Conv |-> w.cache[d]]
  BY <1>5 DEF ViewShape
<1>10. <<"fetch", c>> \notin w.fresh /\ w.fresh \subseteq v.fresh
  BY <1>6
<1>11. ViewShape(w, n)
  <2>1. w = [listed |-> w.listed, current |-> w.current, shown |-> w.shown, cache |-> w.cache,
            fetch |-> w.fetch, stream |-> w.stream, fresh |-> w.fresh, stopped |-> w.stopped,
            sending |-> w.sending, isStopped |-> w.isStopped,
            loading |-> w.loading, restored |-> w.restored]
    BY <1>2
  <2>2. w.shown \in Thread(n)
    BY <1>4 DEF ViewShape
  <2>3. \A d \in Conv : w.cache[d] = Nobody \/ w.cache[d] \in Thread(n)
    BY <1>8 DEF ViewShape
  <2> QED BY <1>3, <1>9, <1>10, <2>1, <2>2, <2>3 DEF ViewShape
<1>12. FreshFetched(w) /\ TempListed(w)
  <2>1. FreshFetched(w)
    BY <1>3, <1>10 DEF FreshFetched
  <2>2. "temp" \in Conv
    BY DEF Conv
  <2>3. v.cache["temp"] # Nobody => w.cache["temp"] # Nobody
    BY <1>7, <1>8, <2>2
  <2>4. TempListed(w)
    BY <1>3, <2>3 DEF TempListed
  <2> QED BY <2>1, <2>4
<1>13. ASSUME NEW d \in Conv PROVE AnswerLive(w, d)
  <2>1. CASE d = c
    BY <1>7, <1>8, <1>10, <2>1 DEF AnswerLive
  <2>2. CASE d # c
    <3>1. AnswerLive(v, d)
      BY <2>2
    <3> QED BY <1>3, <1>8, <1>10, <2>2, <3>1 DEF AnswerLive
  <2> QED BY <2>1, <2>2
<1>14. FlagsRight(v) => FlagsRight(w)
  BY <1>3, <1>4, <1>8 DEF FlagsRight, Shows, Active, ViewShape
<1>15. Touches(v, w, c)
  BY <1>3, <1>8 DEF Touches
<1>16. w.stream = v.stream /\ w.cache[c] = new
  BY <1>3, <1>8
<1>17. ViewReady(w, n)
  BY <1>11, <1>12, <1>13 DEF ViewReady
<1> QED BY <1>1, <1>14, <1>15, <1>16, <1>17

\* A request for messages begins.
LEMMA FetchStartedRight ==
    ASSUME NEW n \in 0..MaxTurn, NEW v, ViewReady(v, n), NEW c \in Conv,
           NEW after \in {"selection", "deletion"},
           after = "selection" => ~Question(v.stream[c]) \/ v.cache[c] = Nobody
    PROVE  /\ ViewReady(FetchStarted(v, c, after), n)
           /\ FlagsRight(v) \/ (v.current = c /\ Shows(v, c))
                => FlagsRight(FetchStarted(v, c, after))
           /\ Touches(v, FetchStarted(v, c, after), Nobody)
<1>1. PICK f : f = [at |-> "asked", after |-> after, data |-> <<>>]
  OBVIOUS
<1>2. PICK fe : fe = [v.fetch EXCEPT ![c] = f]
  OBVIOUS
<1>3. PICK fr : fr = v.fresh \cup {<<"fetch", c>>}
  OBVIOUS
<1>4. PICK w : w = [v EXCEPT !.fetch = fe, !.fresh = fr]
  OBVIOUS
<1>5. FetchStarted(v, c, after) = w
  BY <1>1, <1>2, <1>3, <1>4 DEF FetchStarted
<1>6. ViewShape(v, n)
  BY DEF ViewReady
<1>7. /\ w = [listed |-> w.listed, current |-> w.current, shown |-> w.shown, cache |-> w.cache,
            fetch |-> w.fetch, stream |-> w.stream, fresh |-> w.fresh, stopped |-> w.stopped,
            sending |-> w.sending, isStopped |-> w.isStopped,
            loading |-> w.loading, restored |-> w.restored]
      /\ w.listed = v.listed /\ w.current = v.current /\ w.shown = v.shown /\ w.cache = v.cache
      /\ w.stream = v.stream /\ w.stopped = v.stopped /\ w.sending = v.sending
      /\ w.isStopped = v.isStopped /\ w.loading = v.loading /\ w.restored = v.restored
      /\ w.fetch = fe /\ w.fresh = fr
  <2>1. v = [listed |-> v.listed, current |-> v.current, shown |-> v.shown, cache |-> v.cache,
           fetch |-> v.fetch, stream |-> v.stream, fresh |-> v.fresh, stopped |-> v.stopped,
           sending |-> v.sending, isStopped |-> v.isStopped,
           loading |-> v.loading, restored |-> v.restored]
    BY <1>6 DEF ViewShape
  <2> QED BY <1>4, <2>1
<1>8. /\ w.fetch[c] = f /\ \A d \in Conv : d # c => w.fetch[d] = v.fetch[d]
      /\ w.fetch = [d \in Conv |-> w.fetch[d]]
  BY <1>2, <1>6, <1>7 DEF ViewShape
<1>9. f.at = "asked" /\ f.after = after /\ FetchShape(f, n)
  <2>1. f.data = <<>> /\ <<>> \in Thread(n)
    BY <1>1 DEF Thread
  <2> QED BY <1>1, <2>1 DEF FetchShape
<1>10. ViewShape(w, n)
  <2>1. \A d \in Conv : FetchShape(w.fetch[d], n)
    BY <1>6, <1>8, <1>9 DEF ViewShape
  <2>2. w.fresh \subseteq {"fetch", "delete"} \X Conv
    BY <1>3, <1>6, <1>7 DEF ViewShape
  <2> QED BY <1>6, <1>7, <1>8, <2>1, <2>2 DEF ViewShape
<1>11. FreshFetched(w)
  <2> SUFFICES ASSUME NEW d \in Conv, <<"fetch", d>> \in w.fresh PROVE w.fetch[d].at # "none"
    BY DEF FreshFetched
  <2>1. CASE d = c
    BY <1>8, <1>9, <2>1
  <2>2. CASE d # c
    <3>1. <<"fetch", d>> \in v.fresh
      BY <1>3, <1>7, <2>2
    <3> QED BY <1>8, <2>2, <3>1 DEF ViewReady, FreshFetched
  <2> QED BY <2>1, <2>2
<1>12. TempListed(w)
  BY <1>7 DEF ViewReady, TempListed
<1>13. ASSUME NEW d \in Conv PROVE AnswerLive(w, d)
  <2>1. AnswerLive(v, d)
    BY DEF ViewReady
  <2>2. CASE d = c
    BY <1>7, <1>8, <1>9, <2>1, <2>2 DEF AnswerLive
  <2>3. CASE d # c
    <3>1. <<"fetch", d>> \in w.fresh <=> <<"fetch", d>> \in v.fresh
      BY <1>3, <1>7, <2>3
    <3>2. w.fetch[d] = v.fetch[d]
      BY <1>8, <2>3
    <3> QED BY <1>7, <2>1, <3>1, <3>2 DEF AnswerLive
  <2> QED BY <2>2, <2>3
<1>14. ASSUME FlagsRight(v) PROVE FlagsRight(w)
  BY <1>6, <1>7, <1>8, <1>9, <1>14 DEF FlagsRight, Shows, Active, ViewShape
<1>15. ASSUME v.current = c, Shows(v, c) PROVE FlagsRight(w)
  BY <1>7, <1>8, <1>9, <1>15 DEF FlagsRight, Shows, Active
<1>16. ViewReady(w, n)
  BY <1>10, <1>11, <1>12, <1>13 DEF ViewReady
<1>17. Touches(v, w, Nobody)
  BY <1>7 DEF Touches
<1> QED BY <1>5, <1>14, <1>15, <1>16, <1>17

\* A request for messages ends.
LEMMA FetchFinishedRight ==
    ASSUME NEW n \in 0..MaxTurn, NEW v, ViewRight(v, n), NEW c \in Conv
    PROVE  ViewRight(FetchFinished(v, c), n) /\ Touches(v, FetchFinished(v, c), Nobody)
<1>1. PICK fe : fe = [v.fetch EXCEPT ![c] = NoFetch]
  OBVIOUS
<1>2. PICK fr : fr = v.fresh \ {<<"fetch", c>>}
  OBVIOUS
<1>3. PICK lo : lo = IF v.current = c THEN FALSE ELSE v.loading
  OBVIOUS
<1>4. PICK w : w = [v EXCEPT !.fetch = fe, !.fresh = fr, !.loading = lo]
  OBVIOUS
<1>5. FetchFinished(v, c) = w
  BY <1>1, <1>2, <1>3, <1>4 DEF FetchFinished
<1>6. ViewShape(v, n)
  BY DEF ViewRight, ViewReady
<1>7. /\ w = [listed |-> w.listed, current |-> w.current, shown |-> w.shown, cache |-> w.cache,
            fetch |-> w.fetch, stream |-> w.stream, fresh |-> w.fresh, stopped |-> w.stopped,
            sending |-> w.sending, isStopped |-> w.isStopped,
            loading |-> w.loading, restored |-> w.restored]
      /\ w.listed = v.listed /\ w.current = v.current /\ w.shown = v.shown /\ w.cache = v.cache
      /\ w.stream = v.stream /\ w.stopped = v.stopped /\ w.sending = v.sending
      /\ w.isStopped = v.isStopped
      /\ w.fetch = fe /\ w.fresh = fr /\ w.loading = lo /\ w.restored = v.restored
  <2>1. v = [listed |-> v.listed, current |-> v.current, shown |-> v.shown, cache |-> v.cache,
           fetch |-> v.fetch, stream |-> v.stream, fresh |-> v.fresh, stopped |-> v.stopped,
           sending |-> v.sending, isStopped |-> v.isStopped,
           loading |-> v.loading, restored |-> v.restored]
    BY <1>6 DEF ViewShape
  <2> QED BY <1>4, <2>1
<1>8. /\ w.fetch[c] = NoFetch /\ \A d \in Conv : d # c => w.fetch[d] = v.fetch[d]
      /\ w.fetch = [d \in Conv |-> w.fetch[d]]
  BY <1>1, <1>6, <1>7 DEF ViewShape
<1>9. FetchShape(NoFetch, n)
  <2>1. NoFetch.data = <<>> /\ <<>> \in Thread(n)
    BY DEF NoFetch, Thread
  <2> QED BY <2>1 DEF FetchShape, NoFetch
<1>10. ViewShape(w, n)
  <2>1. \A d \in Conv : FetchShape(w.fetch[d], n)
    BY <1>6, <1>8, <1>9 DEF ViewShape
  <2>2. w.fresh \subseteq {"fetch", "delete"} \X Conv /\ w.loading \in BOOLEAN
    BY <1>2, <1>3, <1>6, <1>7 DEF ViewShape
  <2> QED BY <1>6, <1>7, <1>8, <2>1, <2>2 DEF ViewShape
<1>11. <<"fetch", c>> \notin w.fresh /\ w.fresh \subseteq v.fresh
  BY <1>2, <1>7
<1>12. FreshFetched(w)
  BY <1>8, <1>11 DEF ViewRight, ViewReady, FreshFetched
<1>13. TempListed(w)
  BY <1>7 DEF ViewRight, ViewReady, TempListed
<1>14. ASSUME NEW d \in Conv PROVE AnswerLive(w, d)
  <2>1. AnswerLive(v, d)
    BY DEF ViewRight, ViewReady
  <2>2. <<"fetch", d>> \in w.fresh => <<"fetch", d>> \in v.fresh /\ w.fetch[d] = v.fetch[d]
    BY <1>8, <1>11
  <2> QED BY <1>7, <2>1, <2>2 DEF AnswerLive
<1>15. FlagsRight(w)
  <2>1. FlagsRight(v)
    BY DEF ViewRight
  <2> QED BY <1>3, <1>6, <1>7, <1>8, <2>1 DEF FlagsRight, Shows, Active, ViewShape
<1>16. ViewRight(w, n)
  BY <1>10, <1>12, <1>13, <1>14, <1>15 DEF ViewRight, ViewReady
<1>17. Touches(v, w, Nobody)
  BY <1>7 DEF Touches
<1> QED BY <1>5, <1>16, <1>17

\* A conversation is selected.
LEMMA SelectedRight ==
    ASSUME NEW n \in 0..MaxTurn, NEW v, ViewReady(v, n), NEW c \in v.listed
    PROVE  /\ ViewRight(Selected(v, c), n)
           /\ Selected(v, c).listed = v.listed /\ Selected(v, c).current = c
           /\ \A d \in Conv : /\ Selected(v, c).cache[d] = v.cache[d]
                             /\ Selected(v, c).stream[d] = v.stream[d]
<1>1. c \in Conv /\ ViewShape(v, n)
  BY DEF ViewReady, ViewShape
<1>2. PICK sh : sh = IF v.cache[c] = Nobody THEN <<>> ELSE v.cache[c]
  OBVIOUS
<1>3. PICK lo : lo = (v.cache[c] = Nobody)
  OBVIOUS
<1>4. PICK se : se = Active(v, c)
  OBVIOUS
<1>5. PICK sp : sp = (c \in v.stopped)
  OBVIOUS
<1>6. PICK w : w = [v EXCEPT !.current = c, !.shown = sh, !.loading = lo, !.sending = se,
                             !.isStopped = sp, !.restored = FALSE]
  OBVIOUS
<1>7. Switched(v, c) = w
  BY <1>2, <1>3, <1>4, <1>5, <1>6 DEF Switched
<1>8. /\ w = [listed |-> w.listed, current |-> w.current, shown |-> w.shown, cache |-> w.cache,
            fetch |-> w.fetch, stream |-> w.stream, fresh |-> w.fresh, stopped |-> w.stopped,
            sending |-> w.sending, isStopped |-> w.isStopped,
            loading |-> w.loading, restored |-> w.restored]
      /\ w.listed = v.listed /\ w.cache = v.cache /\ w.fetch = v.fetch /\ w.fresh = v.fresh
      /\ w.stream = v.stream /\ w.stopped = v.stopped
      /\ w.current = c /\ w.shown = sh /\ w.loading = lo /\ w.sending = se /\ w.isStopped = sp
      /\ w.restored = FALSE
  <2>1. v = [listed |-> v.listed, current |-> v.current, shown |-> v.shown, cache |-> v.cache,
           fetch |-> v.fetch, stream |-> v.stream, fresh |-> v.fresh, stopped |-> v.stopped,
           sending |-> v.sending, isStopped |-> v.isStopped,
           loading |-> v.loading, restored |-> v.restored]
    BY <1>1 DEF ViewShape
  <2> QED BY <1>6, <2>1
<1>9. w.sending \in BOOLEAN /\ w.isStopped \in BOOLEAN /\ w.loading \in BOOLEAN
  BY <1>3, <1>4, <1>5, <1>8 DEF Active
<1>10. ViewShape(w, n)
  <2>1. w.shown \in Thread(n)
    <3>1. <<>> \in Thread(n)
      BY DEF Thread
    <3> QED BY <1>1, <1>2, <1>8, <3>1 DEF ViewShape
  <2> QED BY <1>1, <1>8, <1>9, <2>1 DEF ViewShape
<1>11. ViewReady(w, n)
  BY <1>8, <1>10 DEF ViewReady, FreshFetched, TempListed, AnswerLive, IsAnswer
<1>12. Shows(w, c)
  BY <1>2, <1>4, <1>5, <1>8 DEF Active, Shows
<1>13. CASE Active(w, c) /\ w.cache[c] # Nobody
  <2>1. Selected(v, c) = w
    BY <1>7, <1>8, <1>13 DEF Selected, Active
  <2>2. FlagsRight(w)
    BY <1>3, <1>8, <1>12, <1>13 DEF FlagsRight
  <2> QED BY <1>8, <1>11, <2>1, <2>2 DEF ViewRight
<1>14. CASE ~(Active(w, c) /\ w.cache[c] # Nobody)
  <2>1. Selected(v, c) = FetchStarted(w, c, "selection")
    BY <1>7, <1>8, <1>14 DEF Selected, Active
  <2>2. ~Question(w.stream[c]) \/ w.cache[c] = Nobody
    BY <1>14 DEF Question, Active
  <2>3. /\ ViewRight(FetchStarted(w, c, "selection"), n)
        /\ Touches(w, FetchStarted(w, c, "selection"), Nobody)
    BY <1>1, <1>8, <1>11, <1>12, <2>2, FetchStartedRight DEF ViewRight
  <2>4. \A d \in Conv : d # Nobody
    BY ChatViewAssumption
  <2> QED BY <1>8, <2>1, <2>3, <2>4 DEF Touches
<1> QED BY <1>13, <1>14

\* What holds of a view holds of it when there are more turns.
LEMMA ViewWider ==
    ASSUME NEW n \in Nat, NEW m \in Nat, n <= m, NEW v, ViewRight(v, n)
    PROVE  ViewRight(v, m)
<1>1. Thread(n) \subseteq Thread(m) /\ 0..n \subseteq 0..m
  BY ThreadGrows
<1>2. ViewShape(v, n)
  BY DEF ViewRight, ViewReady
<1>3. \A c \in Conv : FetchShape(v.fetch[c], m)
  BY <1>1, <1>2 DEF ViewShape, FetchShape
<1>4. \A c \in Conv : StreamShape(v.stream[c], m)
  BY <1>1, <1>2 DEF ViewShape, StreamShape
<1>5. \A c \in Conv : v.cache[c] = Nobody \/ v.cache[c] \in Thread(m)
  BY <1>1, <1>2 DEF ViewShape
<1>6. ViewShape(v, m)
  BY <1>1, <1>2, <1>3, <1>4, <1>5 DEF ViewShape
<1> QED BY <1>6 DEF ViewRight, ViewReady

\* A stream begins.
LEMMA StreamBegunIs ==
    ASSUME NEW n \in 0..MaxTurn, NEW v, ViewRight(v, n), NEW c \in Conv,
           NEW r, StreamShape(r, n), r.at # "none"
    PROVE  /\ ViewShape(StreamBegun(v, c, r), n) /\ FreshFetched(StreamBegun(v, c, r))
           /\ TempListed(StreamBegun(v, c, r)) /\ FlagsRight(StreamBegun(v, c, r))
           /\ \A d \in Conv : d # c \/ ~Question(r) => AnswerLive(StreamBegun(v, c, r), d)
           /\ Touches(v, StreamBegun(v, c, r), c) /\ StreamBegun(v, c, r).cache = v.cache
           /\ StreamBegun(v, c, r).stream[c] = r
<1>1. PICK st : st = [v.stream EXCEPT ![c] = r]
  OBVIOUS
<1>2. PICK sp : sp = v.stopped \ {c}
  OBVIOUS
<1>3. PICK se : se = (v.current = c \/ v.sending)
  OBVIOUS
<1>4. PICK is : is = (v.current # c /\ v.isStopped)
  OBVIOUS
<1>5. PICK w : w = [v EXCEPT !.stream = st, !.stopped = sp, !.sending = se, !.isStopped = is]
  OBVIOUS
<1>6. ViewShape(v, n)
  BY DEF ViewRight, ViewReady
<1>7. StreamBegun(v, c, r) = w
  BY <1>1, <1>2, <1>3, <1>4, <1>5 DEF StreamBegun
<1>8. /\ w = [listed |-> w.listed, current |-> w.current, shown |-> w.shown, cache |-> w.cache,
            fetch |-> w.fetch, stream |-> w.stream, fresh |-> w.fresh, stopped |-> w.stopped,
            sending |-> w.sending, isStopped |-> w.isStopped,
            loading |-> w.loading, restored |-> w.restored]
      /\ w.listed = v.listed /\ w.current = v.current /\ w.shown = v.shown /\ w.cache = v.cache
      /\ w.fetch = v.fetch /\ w.fresh = v.fresh /\ w.loading = v.loading /\ w.restored = v.restored
      /\ w.stream = st /\ w.stopped = sp /\ w.sending = se /\ w.isStopped = is
  <2>1. v = [listed |-> v.listed, current |-> v.current, shown |-> v.shown, cache |-> v.cache,
           fetch |-> v.fetch, stream |-> v.stream, fresh |-> v.fresh, stopped |-> v.stopped,
           sending |-> v.sending, isStopped |-> v.isStopped,
           loading |-> v.loading, restored |-> v.restored]
    BY <1>6 DEF ViewShape
  <2> QED BY <1>5, <2>1
<1>9. /\ w.stream[c] = r /\ \A d \in Conv : d # c => w.stream[d] = v.stream[d]
      /\ w.stream = [d \in Conv |-> w.stream[d]]
  BY <1>1, <1>6, <1>8 DEF ViewShape
<1>10. w.sending \in BOOLEAN /\ w.isStopped \in BOOLEAN
  BY <1>3, <1>4, <1>8
<1>11. ViewShape(w, n)
  <2>1. \A d \in Conv : StreamShape(w.stream[d], n)
    BY <1>6, <1>9 DEF ViewShape
  <2>2. w.stopped \subseteq Conv
    BY <1>2, <1>6, <1>8 DEF ViewShape
  <2> QED BY <1>6, <1>8, <1>9, <1>10, <2>1, <2>2 DEF ViewShape
<1>12. FreshFetched(w) /\ TempListed(w)
  BY <1>8 DEF ViewRight, ViewReady, FreshFetched, TempListed
<1>13. FlagsRight(w)
  <2> SUFFICES ASSUME w.current # Nobody, ~w.restored
               PROVE  Shows(w, w.current) /\ (w.loading => w.fetch[w.current].at # "none")
    BY DEF FlagsRight
  <2>1. Shows(v, v.current) /\ (v.loading => v.fetch[v.current].at # "none") /\ v.current \in Conv
    BY <1>6, <1>8 DEF ViewRight, FlagsRight, ViewShape
  <2>2. CASE v.current = c
    BY <1>2, <1>3, <1>4, <1>8, <1>9, <2>1, <2>2 DEF Shows, Active
  <2>3. CASE v.current # c
    <3>1. w.sending = v.sending /\ w.isStopped = v.isStopped
      BY <1>3, <1>4, <1>6, <1>8, <2>3 DEF ViewShape
    <3>2. v.current \in w.stopped <=> v.current \in v.stopped
      BY <1>2, <1>8, <2>3
    <3> QED BY <1>8, <1>9, <2>1, <2>3, <3>1, <3>2 DEF Shows, Active
  <2> QED BY <2>2, <2>3
<1>14. ASSUME NEW d \in Conv, d # c \/ ~Question(r) PROVE AnswerLive(w, d)
  <2>1. CASE d = c
    BY <1>9, <1>14, <2>1 DEF AnswerLive
  <2>2. CASE d # c
    <3>1. AnswerLive(v, d)
      BY DEF ViewRight, ViewReady
    <3> QED BY <1>8, <1>9, <2>2, <3>1 DEF AnswerLive
  <2> QED BY <2>1, <2>2
<1>15. Touches(v, w, c) /\ w.cache = v.cache
  BY <1>8, <1>9 DEF Touches
<1> QED BY <1>7, <1>9, <1>11, <1>12, <1>13, <1>14, <1>15

\* Two elements more.
LEMMA TwoMore ==
    ASSUME NEW T, NEW s \in Seq(T), NEW a \in T, NEW b \in T
    PROVE  s \o <<a, b>> \in Seq(T)
<1>1. <<a, b>> \in Seq(T)
  OBVIOUS
<1> QED BY <1>1

\* A question is sent.
LEMMA SentRight ==
    ASSUME NEW n \in 1..MaxTurn, NEW v, ViewRight(v, n - 1), NEW c \in Conv
    PROVE  /\ ViewRight(Sent(v, c, n), n) /\ Touches(v, Sent(v, c, n), c)
           /\ Sent(v, c, n).stream[c].turn = n
<1>1. n \in 0..MaxTurn /\ n \in Nat /\ n - 1 \in Nat /\ n - 1 <= n /\ MaxTurn \in Nat
  BY ChatViewAssumption
<1>2. ViewRight(v, n)
  BY <1>1, ViewWider
<1>3. PICK r : r = [turn |-> n, into |-> n, known |-> FALSE, was |-> "", at |-> "sent"]
  OBVIOUS
<1>4. StreamShape(r, n) /\ r.at # "none" /\ r.turn = n
  <2>1. r.turn = n /\ r.into = n /\ ~r.known /\ r.was = "" /\ r.at = "sent" /\ r.known \in BOOLEAN
    BY <1>3
  <2>2. n \in 0..n
    BY <1>1
  <2> QED BY <1>3, <2>1, <2>2 DEF StreamShape, Texts
<1>5. PICK b : b = StreamBegun(v, c, r)
  OBVIOUS
<1>6. /\ ViewShape(b, n) /\ FreshFetched(b) /\ TempListed(b) /\ FlagsRight(b)
      /\ \A d \in Conv : d # c => AnswerLive(b, d)
      /\ Touches(v, b, c) /\ b.stream[c] = r
  BY <1>1, <1>2, <1>4, <1>5, StreamBegunIs
<1>7. PICK new : new = MessagesOf(v, c) \o <<Msg(c, n, "user", "whole", FALSE),
                                              Msg(c, n, "assistant", "", FALSE)>>
  OBVIOUS
<1>8. new \in Thread(n)
  <2>1. MessagesOf(v, c) \in Thread(n)
    BY <1>1, <1>2, MessagesOfIs DEF ViewRight, ViewReady
  <2>2. /\ Msg(c, n, "user", "whole", FALSE) \in MessageUpTo(n)
        /\ Msg(c, n, "assistant", "", FALSE) \in MessageUpTo(n)
    <3>1. n \in 0..n /\ {"", "whole"} \subseteq Texts /\ FALSE \in BOOLEAN
      BY <1>1 DEF Texts
    <3> QED BY <1>1, <3>1, MsgIs
  <2> QED BY <1>7, <2>1, <2>2, TwoMore DEF Thread
<1>9. Sent(v, c, n) = Updated(b, c, new)
  BY <1>3, <1>5, <1>7 DEF Sent
<1>10. /\ ViewRight(Updated(b, c, new), n) /\ Touches(b, Updated(b, c, new), c)
       /\ Updated(b, c, new).stream = b.stream
  BY <1>1, <1>6, <1>8, UpdatedRight DEF ViewRight
<1>11. Touches(v, Updated(b, c, new), c)
  BY <1>6, <1>10 DEF Touches
<1>12. Updated(b, c, new).stream[c].turn = n
  BY <1>4, <1>6, <1>10
<1> QED BY <1>9, <1>10, <1>11, <1>12

\* A stream ends.
LEMMA StreamFinishedRight ==
    ASSUME NEW n \in 0..MaxTurn, NEW v, ViewRight(v, n), NEW c \in Conv
    PROVE  /\ ViewRight(StreamFinished(v, c), n)
           /\ Touches(v, StreamFinished(v, c), c) /\ StreamFinished(v, c).stream[c] = NoStream
<1>1. PICK st : st = [v.stream EXCEPT ![c] = NoStream]
  OBVIOUS
<1>2. PICK sp : sp = v.stopped \ {c}
  OBVIOUS
<1>3. PICK se : se = (v.current # c /\ v.sending)
  OBVIOUS
<1>4. PICK is : is = (v.current # c /\ v.isStopped)
  OBVIOUS
<1>5. PICK w : w = [v EXCEPT !.stream = st, !.stopped = sp, !.sending = se, !.isStopped = is]
  OBVIOUS
<1>6. ViewShape(v, n)
  BY DEF ViewRight, ViewReady
<1>7. StreamFinished(v, c) = w
  BY <1>1, <1>2, <1>3, <1>4, <1>5 DEF StreamFinished
<1>8. /\ w = [listed |-> w.listed, current |-> w.current, shown |-> w.shown, cache |-> w.cache,
            fetch |-> w.fetch, stream |-> w.stream, fresh |-> w.fresh, stopped |-> w.stopped,
            sending |-> w.sending, isStopped |-> w.isStopped,
            loading |-> w.loading, restored |-> w.restored]
      /\ w.listed = v.listed /\ w.current = v.current /\ w.shown = v.shown /\ w.cache = v.cache
      /\ w.fetch = v.fetch /\ w.fresh = v.fresh /\ w.loading = v.loading /\ w.restored = v.restored
      /\ w.stream = st /\ w.stopped = sp /\ w.sending = se /\ w.isStopped = is
  <2>1. v = [listed |-> v.listed, current |-> v.current, shown |-> v.shown, cache |-> v.cache,
           fetch |-> v.fetch, stream |-> v.stream, fresh |-> v.fresh, stopped |-> v.stopped,
           sending |-> v.sending, isStopped |-> v.isStopped,
           loading |-> v.loading, restored |-> v.restored]
    BY <1>6 DEF ViewShape
  <2> QED BY <1>5, <2>1
<1>9. /\ w.stream[c] = NoStream /\ \A d \in Conv : d # c => w.stream[d] = v.stream[d]
      /\ w.stream = [d \in Conv |-> w.stream[d]]
  BY <1>1, <1>6, <1>8 DEF ViewShape
<1>10. w.sending \in BOOLEAN /\ w.isStopped \in BOOLEAN
  BY <1>3, <1>4, <1>8
<1>11. StreamShape(NoStream, n) /\ NoStream.at = "none"
  BY DEF StreamShape, NoStream, Question, Texts
<1>12. ViewShape(w, n)
  <2>1. \A d \in Conv : StreamShape(w.stream[d], n)
    BY <1>6, <1>9, <1>11 DEF ViewShape
  <2>2. w.stopped \subseteq Conv
    BY <1>2, <1>6, <1>8 DEF ViewShape
  <2> QED BY <1>6, <1>8, <1>9, <1>10, <2>1, <2>2 DEF ViewShape
<1>13. FreshFetched(w) /\ TempListed(w)
  BY <1>8 DEF ViewRight, ViewReady, FreshFetched, TempListed
<1>14. FlagsRight(w)
  <2> SUFFICES ASSUME w.current # Nobody, ~w.restored
               PROVE  Shows(w, w.current) /\ (w.loading => w.fetch[w.current].at # "none")
    BY DEF FlagsRight
  <2>1. Shows(v, v.current) /\ (v.loading => v.fetch[v.current].at # "none") /\ v.current \in Conv
    BY <1>6, <1>8 DEF ViewRight, FlagsRight, ViewShape
  <2>2. CASE v.current = c
    BY <1>2, <1>3, <1>4, <1>8, <1>9, <1>11, <2>1, <2>2 DEF Shows, Active
  <2>3. CASE v.current # c
    <3>1. w.sending = v.sending /\ w.isStopped = v.isStopped
      BY <1>3, <1>4, <1>6, <1>8, <2>3 DEF ViewShape
    <3>2. v.current \in w.stopped <=> v.current \in v.stopped
      BY <1>2, <1>8, <2>3
    <3> QED BY <1>8, <1>9, <2>1, <2>3, <3>1, <3>2 DEF Shows, Active
  <2> QED BY <2>2, <2>3
<1>15. ASSUME NEW d \in Conv PROVE AnswerLive(w, d)
  <2>1. CASE d = c
    BY <1>9, <1>11, <2>1 DEF AnswerLive, Question
  <2>2. CASE d # c
    <3>1. AnswerLive(v, d)
      BY DEF ViewRight, ViewReady
    <3> QED BY <1>8, <1>9, <2>2, <3>1 DEF AnswerLive
  <2> QED BY <2>1, <2>2
<1>16. Touches(v, w, c) /\ w.stream[c] = NoStream
  BY <1>8, <1>9 DEF Touches
<1>17. ViewRight(w, n)
  BY <1>12, <1>13, <1>14, <1>15 DEF ViewRight, ViewReady
<1> QED BY <1>7, <1>16, <1>17

\* The stream e, further on.
Moved(e, r, n) ==
    /\ StreamShape(r, n) /\ r.at # "none" /\ r.turn = e.turn /\ r.into = e.into
    /\ r.known = e.known

\* r is the stream of c.
Streams(v, c, r) == v.stream[c] = r

\* Opening or telling a stream moves it.
LEMMA MovedIs ==
    ASSUME NEW n, NEW e, StreamShape(e, n), e.at # "none", NEW at \in {"open", "told"}
    PROVE  Moved(e, [e EXCEPT !.at = at], n) /\ [e EXCEPT !.at = at].at = at
<1>1. PICK r : r = [e EXCEPT !.at = at]
  OBVIOUS
<1>2. e = [turn |-> e.turn, into |-> e.into, known |-> e.known, was |-> e.was, at |-> e.at]
  BY DEF StreamShape
<1>3. /\ r = [turn |-> r.turn, into |-> r.into, known |-> r.known, was |-> r.was, at |-> r.at]
      /\ r.turn = e.turn /\ r.into = e.into /\ r.known = e.known /\ r.was = e.was /\ r.at = at
  BY <1>1, <1>2
<1>4. StreamShape(r, n) /\ r.at # "none"
  BY <1>3 DEF StreamShape, Question
<1> QED BY <1>1, <1>3, <1>4 DEF Moved

\* A stream gets on.
LEMMA StreamMovesRight ==
    ASSUME NEW n \in 0..MaxTurn, NEW v, ViewRight(v, n), NEW c \in Conv, Active(v, c),
           NEW r, Moved(v.stream[c], r, n), NEW st, st = [v.stream EXCEPT ![c] = r],
           NEW w, w = [v EXCEPT !.stream = st]
    PROVE  /\ ViewRight(w, n) /\ Touches(v, w, c) /\ w.cache = v.cache /\ Streams(w, c, r)
<1>6. ViewShape(v, n)
  BY DEF ViewRight, ViewReady
<1>8. /\ w = [listed |-> w.listed, current |-> w.current, shown |-> w.shown, cache |-> w.cache,
            fetch |-> w.fetch, stream |-> w.stream, fresh |-> w.fresh, stopped |-> w.stopped,
            sending |-> w.sending, isStopped |-> w.isStopped,
            loading |-> w.loading, restored |-> w.restored]
      /\ w.listed = v.listed /\ w.current = v.current /\ w.shown = v.shown /\ w.cache = v.cache
      /\ w.fetch = v.fetch /\ w.fresh = v.fresh /\ w.loading = v.loading /\ w.restored = v.restored
      /\ w.stopped = v.stopped /\ w.sending = v.sending /\ w.isStopped = v.isStopped
      /\ w.stream = st
  <2>1. v = [listed |-> v.listed, current |-> v.current, shown |-> v.shown, cache |-> v.cache,
           fetch |-> v.fetch, stream |-> v.stream, fresh |-> v.fresh, stopped |-> v.stopped,
           sending |-> v.sending, isStopped |-> v.isStopped,
           loading |-> v.loading, restored |-> v.restored]
    BY <1>6 DEF ViewShape
  <2> QED BY <2>1
<1>9. /\ w.stream[c] = r /\ \A d \in Conv : d # c => w.stream[d] = v.stream[d]
      /\ w.stream = [d \in Conv |-> w.stream[d]]
  BY <1>6, <1>8 DEF ViewShape
<1>10. /\ StreamShape(r, n) /\ r.at # "none" /\ (Question(r) <=> Question(v.stream[c]))
       /\ r.into = v.stream[c].into /\ r.known = v.stream[c].known
  BY DEF Moved, Question, Active
<1>11. ViewShape(w, n)
  <2>1. \A d \in Conv : StreamShape(w.stream[d], n)
    BY <1>6, <1>9, <1>10 DEF ViewShape
  <2> QED BY <1>6, <1>8, <1>9, <2>1 DEF ViewShape
<1>12. FreshFetched(w) /\ TempListed(w)
  BY <1>8 DEF ViewRight, ViewReady, FreshFetched, TempListed
<1>14. FlagsRight(w)
  <2> SUFFICES ASSUME w.current # Nobody, ~w.restored
               PROVE  Shows(w, w.current) /\ (w.loading => w.fetch[w.current].at # "none")
    BY DEF FlagsRight
  <2>1. Shows(v, v.current) /\ (v.loading => v.fetch[v.current].at # "none") /\ v.current \in Conv
    BY <1>6, <1>8 DEF ViewRight, FlagsRight, ViewShape
  <2>2. CASE v.current = c
    BY <1>8, <1>9, <1>10, <2>1, <2>2 DEF Shows, Active
  <2>3. CASE v.current # c
    BY <1>8, <1>9, <2>1, <2>3 DEF Shows, Active
  <2> QED BY <2>2, <2>3
<1>15. ASSUME NEW d \in Conv PROVE AnswerLive(w, d)
  <2>1. AnswerLive(v, d)
    BY DEF ViewRight, ViewReady
  <2>2. CASE d = c
    BY <1>8, <1>9, <1>10, <2>1, <2>2 DEF AnswerLive, IsAnswer
  <2>3. CASE d # c
    BY <1>8, <1>9, <2>1, <2>3 DEF AnswerLive
  <2> QED BY <2>2, <2>3
<1>16. Touches(v, w, c) /\ w.cache = v.cache /\ Streams(w, c, r)
  BY <1>8, <1>9 DEF Touches, Streams
<1>17. ViewRight(w, n)
  BY <1>11, <1>12, <1>14, <1>15 DEF ViewRight, ViewReady
<1> QED BY <1>16, <1>17

\* Messages are replaced.
LEMMA ReplacedRight ==
    ASSUME NEW n \in 0..MaxTurn, NEW v, ViewRight(v, n), NEW c \in Conv, NEW new \in Thread(n)
    PROVE  /\ ViewRight(Updated(v, c, new), n) /\ Touches(v, Updated(v, c, new), c)
           /\ Updated(v, c, new).stream = v.stream /\ Updated(v, c, new).cache[c] = new
<1>1. /\ ViewShape(v, n) /\ FreshFetched(v) /\ TempListed(v) /\ FlagsRight(v)
      /\ \A d \in Conv : d # c => AnswerLive(v, d)
  BY DEF ViewRight, ViewReady
<1> QED BY <1>1, UpdatedRight DEF ViewRight

\* An answer is written: under the same id, it stays in its place.
LEMMA RewrittenRight ==
    ASSUME NEW n \in 0..MaxTurn, NEW v, ViewRight(v, n), NEW c \in Conv, NEW text \in Texts,
           NEW k \in 0..n, NEW known \in BOOLEAN
    PROVE  /\ ViewRight(Rewritten(v, c, text, k, known), n)
           /\ Touches(v, Rewritten(v, c, text, k, known), c)
           /\ k = v.stream[c].into /\ known = v.stream[c].known =>
                Place(v, c) \subseteq Place(Rewritten(v, c, text, k, known), c)
<1>1. ViewShape(v, n) /\ n \in Nat
  BY ChatViewAssumption DEF ViewRight, ViewReady
<1>2. PICK ms : ms = MessagesOf(v, c)
  OBVIOUS
<1>3. ms \in Thread(n)
  BY <1>1, <1>2, MessagesOfIs
<1>4. PICK new : new = [i \in DOMAIN ms |->
        IF i \in Place(v, c) THEN [ms[i] EXCEPT !.text = text, !.turn = k, !.known = known]
        ELSE ms[i]]
  OBVIOUS
<1>5. Rewritten(v, c, text, k, known) = Updated(v, c, new)
  BY <1>2, <1>4 DEF Rewritten
<1>6. ASSUME NEW i \in DOMAIN ms
      PROVE  /\ new[i] \in MessageUpTo(n)
             /\ i \in Place(v, c) =>
                  new[i].turn = k /\ new[i].known = known /\ new[i].role = ms[i].role
  <2>1. PICK m : m = ms[i]
    OBVIOUS
  <2>2. m \in MessageUpTo(n)
    BY <1>3, <2>1 DEF Thread
  <2>3. PICK x : x = [m EXCEPT !.text = text, !.turn = k, !.known = known]
    OBVIOUS
  <2>4. x \in MessageUpTo(n) /\ x.turn = k /\ x.known = known /\ x.role = m.role
    BY <1>1, <2>2, <2>3 DEF MessageUpTo
  <2>5. new[i] = IF i \in Place(v, c) THEN x ELSE m
    BY <1>4, <2>1, <2>3
  <2> QED BY <2>1, <2>2, <2>4, <2>5
<1>7. new \in Thread(n) /\ DOMAIN new = DOMAIN ms
  <2>1. DOMAIN ms = 1..Len(ms) /\ Len(ms) \in Nat
    BY <1>3 DEF Thread
  <2>2. DOMAIN new = 1..Len(ms)
    BY <1>4, <2>1
  <2>3. new \in [1..Len(ms) -> MessageUpTo(n)]
    BY <1>4, <1>6, <2>1
  <2> QED BY <2>1, <2>2, <2>3, SeqDef DEF Thread
<1>8. /\ ViewRight(Updated(v, c, new), n) /\ Touches(v, Updated(v, c, new), c)
      /\ Updated(v, c, new).stream = v.stream /\ Updated(v, c, new).cache[c] = new
  <2>1. /\ FreshFetched(v) /\ TempListed(v)
        /\ \A d \in Conv : d # c => AnswerLive(v, d)
    BY DEF ViewRight, ViewReady
  <2> QED BY <1>1, <1>7, <2>1, UpdatedRight, ReplacedRight
<1>9. MessagesOf(Updated(v, c, new), c) = new
  BY <1>7, <1>8, ThreadThere DEF MessagesOf
<1>10. ASSUME k = v.stream[c].into, known = v.stream[c].known, NEW i \in Place(v, c)
       PROVE  i \in Place(Updated(v, c, new), c)
  <2>1. i \in DOMAIN ms /\ ms[i].role # "user"
    BY <1>2 DEF Place, IsAnswer
  <2>2. new[i].turn = k /\ new[i].known = known /\ new[i].role # "user"
    BY <1>6, <1>10, <2>1
  <2> QED BY <1>7, <1>8, <1>9, <1>10, <2>1, <2>2 DEF Place, IsAnswer
<1> QED BY <1>5, <1>8, <1>10

\* What arrives is written, or dropped.
LEMMA WrittenRight ==
    ASSUME NEW n \in 0..MaxTurn, NEW v, ViewRight(v, n), NEW c \in Conv, NEW text \in Texts,
           NEW k \in 0..n, NEW known \in BOOLEAN
    PROVE  /\ ViewRight(Written(v, c, text, k, known), n)
           /\ Touches(v, Written(v, c, text, k, known), c)
           /\ k = v.stream[c].into /\ known = v.stream[c].known =>
                Place(v, c) \subseteq Place(Written(v, c, text, k, known), c)
<1>1. Touches(v, v, c)
  BY DEF Touches
<1> QED BY <1>1, RewrittenRight DEF Written

\* A filtered thread is one.
LEMMA ThreadWithout ==
    ASSUME NEW n \in Nat, NEW s \in Thread(n), NEW gone
    PROVE  Without(s, gone) \in Thread(n)
<1>1. s \in Seq(MessageUpTo(n))
  BY DEF Thread
<1>2. FilteredFrom(s, gone, Len(s), Without(s, gone), MessageUpTo(n))
  BY <1>1, WithoutIs
<1> QED BY <1>2 DEF FilteredFrom, Thread

\* An answer is rolled back.
LEMMA RolledBackRight ==
    ASSUME NEW n \in 0..MaxTurn, NEW v, ViewRight(v, n), NEW c \in Conv, NEW withQuestion
    PROVE  /\ ViewRight(RolledBack(v, c, withQuestion), n)
           /\ Touches(v, RolledBack(v, c, withQuestion), c)
<1>1. ViewShape(v, n) /\ n \in Nat
  BY ChatViewAssumption DEF ViewRight, ViewReady
<1>2. StreamShape(v.stream[c], n)
  BY <1>1 DEF ViewShape
<1>3. /\ v.stream[c].was \in Texts /\ v.stream[c].into \in 0..n
      /\ v.stream[c].known \in BOOLEAN
  BY <1>1, <1>2 DEF StreamShape
<1>4. PICK gone : gone = Place(v, c) \cup
         (IF withQuestion
          THEN {i \in DOMAIN MessagesOf(v, c) :
                  /\ MessagesOf(v, c)[i].turn = v.stream[c].turn
                  /\ MessagesOf(v, c)[i].role = "user" /\ ~MessagesOf(v, c)[i].known}
          ELSE {})
  OBVIOUS
<1>5. Without(MessagesOf(v, c), gone) \in Thread(n)
  BY <1>1, MessagesOfIs, ThreadWithout
<1>6. CASE v.stream[c].into # v.stream[c].turn
  <2>1. RolledBack(v, c, withQuestion)
          = Rewritten(v, c, v.stream[c].was, v.stream[c].into, v.stream[c].known)
    BY <1>6 DEF RolledBack
  <2> QED BY <1>3, <2>1, RewrittenRight
<1>7. CASE v.stream[c].into = v.stream[c].turn
  <2>1. RolledBack(v, c, withQuestion) = Updated(v, c, Without(MessagesOf(v, c), gone))
    BY <1>4, <1>7 DEF RolledBack
  <2> QED BY <1>5, <2>1, ReplacedRight
<1> QED BY <1>6, <1>7

\* The server has named the messages of two threads, one after the other.
LEMMA NamedTogether ==
    ASSUME NEW n \in Nat, NEW t \in Thread(n), \A i \in DOMAIN t : t[i].known,
           NEW ms \in Thread(n), \A i \in DOMAIN ms : ms[i].known
    PROVE  t \o ms \in Thread(n) /\ \A i \in DOMAIN (t \o ms) : (t \o ms)[i].known
<1>1. t \in Seq(MessageUpTo(n)) /\ ms \in Seq(MessageUpTo(n))
  BY DEF Thread
<1>2. t \o ms \in Thread(n)
  BY <1>1 DEF Thread
<1>3. ASSUME NEW i \in DOMAIN (t \o ms) PROVE (t \o ms)[i].known
  <2>1. CASE i <= Len(t)
    <3>1. i \in DOMAIN t /\ (t \o ms)[i] = t[i]
      BY <1>1, <2>1
    <3> QED BY <3>1
  <2>2. CASE ~(i <= Len(t))
    <3>1. i - Len(t) \in DOMAIN ms /\ (t \o ms)[i] = ms[i - Len(t)]
      BY <1>1, <2>2
    <3> QED BY <3>1
  <2> QED BY <2>1, <2>2
<1> QED BY <1>2, <1>3

\* What the server keeps.
LEMMA KeptIs ==
    ASSUME NEW n \in 0..MaxTurn, ServerShape(server, n), NEW c, NEW ms \in Thread(n),
           \A i \in DOMAIN ms : ms[i].known
    PROVE  ServerShape(Kept(c, ms), n) /\ SameExist(server, Kept(c, ms))
<1>1. PICK row : row = IF server[c] = Nobody THEN server[c] ELSE server[c] \o ms
  OBVIOUS
<1>2. PICK s : s = [server EXCEPT ![c] = row]
  OBVIOUS
<1>3. Kept(c, ms) = s
  BY <1>1, <1>2 DEF Kept
<1>5. CASE c \in Conv
  <2>1. /\ row = Nobody \/ (row \in Thread(n) /\ \A i \in DOMAIN row : row[i].known)
        /\ row = Nobody <=> server[c] = Nobody
    <3>1. CASE server[c] = Nobody
      BY <1>1, <3>1
    <3>2. CASE server[c] # Nobody
      <4>1. server[c] \in Thread(n) /\ \A i \in DOMAIN server[c] : server[c][i].known
        BY <1>5, <3>2 DEF ServerShape
      <4>2. n \in Nat
        BY ChatViewAssumption
      <4>3. row \in Thread(n) /\ \A i \in DOMAIN row : row[i].known
        BY <1>1, <3>2, <4>1, <4>2, NamedTogether
      <4> QED BY <3>2, <4>3, ThreadThere
    <3> QED BY <3>1, <3>2
  <2>2. /\ s = [d \in Conv |-> s[d]] /\ s[c] = row
        /\ \A d \in Conv : d # c => s[d] = server[d]
    BY <1>2, <1>5 DEF ServerShape
  <2> QED BY <1>3, <2>1, <2>2 DEF ServerShape, SameExist
<1>6. CASE c \notin Conv
  <2>1. s = server
    BY <1>2, <1>6 DEF ServerShape
  <2> QED BY <1>3, <2>1 DEF SameExist
<1> QED BY <1>5, <1>6

\* A message that the server has named.
LEMMA NamedIs ==
    ASSUME NEW n \in Nat, NEW c \in Conv, NEW k \in 0..n, NEW role \in {"user", "assistant"},
           NEW text \in Texts
    PROVE  /\ <<Msg(c, k, role, text, TRUE)>> \in Thread(n)
           /\ \A i \in DOMAIN <<Msg(c, k, role, text, TRUE)>> :
                <<Msg(c, k, role, text, TRUE)>>[i].known
<1>1. PICK m : m = Msg(c, k, role, text, TRUE)
  OBVIOUS
<1>2. m \in MessageUpTo(n) /\ m.known
  BY <1>1, MsgIs
<1>3. <<m>> \in Thread(n) /\ \A i \in DOMAIN <<m>> : <<m>>[i] = m
  BY <1>2 DEF Thread
<1> QED BY <1>1, <1>2, <1>3

\* What the server keeps of a stream that was left.
LEMMA LeftRight ==
    ASSUME NEW n \in 0..MaxTurn, ServerShape(server, n), NEW c \in Conv,
           StreamShape(client.stream[c], n), NEW s \in Left(c)
    PROVE  ServerShape(s, n) /\ SameExist(server, s)
<1>0. n \in Nat
  BY ChatViewAssumption
<1>1. PICK k : k = client.stream[c].turn
  OBVIOUS
<1>2. PICK q : q = <<Msg(c, k, "user", "whole", TRUE)>>
  OBVIOUS
<1>3. PICK a : a = <<Msg(c, k, "assistant", "part", TRUE)>>
  OBVIOUS
<1>4. k \in 0..n /\ "whole" \in Texts /\ "part" \in Texts
  BY <1>1 DEF StreamShape, Texts
<1>5. q \in Thread(n) /\ \A i \in DOMAIN q : q[i].known
  BY <1>0, <1>2, <1>4, NamedIs
<1>6. a \in Thread(n) /\ \A i \in DOMAIN a : a[i].known
  BY <1>0, <1>3, <1>4, NamedIs
<1>7. q \o a \in Thread(n) /\ \A i \in DOMAIN (q \o a) : (q \o a)[i].known
  BY <1>0, <1>5, <1>6, NamedTogether
<1>8. s = server \/ s = Kept(c, q) \/ s = Kept(c, q \o a) \/ s = Kept(c, a)
  BY <1>1, <1>2, <1>3 DEF Left
<1>9. SameExist(server, server)
  BY DEF SameExist
<1> QED BY <1>5, <1>6, <1>7, <1>8, <1>9, KeptIs

\* An operation fits a view that lists and shows the same.
LEMMA OpStays ==
    ASSUME NEW n \in Nat, NEW m \in Nat, n <= m, NEW o, NEW v, NEW w, NEW s, NEW t,
           OpFits(o, v, s, n), SameExist(s, t),
           w.listed = v.listed, w.current = v.current \/ w.current \in v.listed
    PROVE  OpFits(o, w, t, m)
<1>1. MessageUpTo(n) \subseteq MessageUpTo(m) /\ Thread(n) \subseteq Thread(m)
  BY ThreadGrows
<1>2. New \in Conv
  BY DEF Conv
<1> QED BY <1>1, <1>2 DEF OpFits, SameExist

\* The welcome is a message.
LEMMA WelcomeIs ==
    ASSUME NEW n \in Nat
    PROVE  Welcome \in MessageUpTo(n) /\ <<Welcome>> \in Thread(n) /\ <<>> \in Thread(n)
<1>1. Welcome \in MessageUpTo(n)
  BY DEF Welcome, Msg, MessageUpTo, Texts, Conv
<1> QED BY <1>1 DEF Thread

\* No operation fits every view.
LEMMA NoOpFits ==
    ASSUME NEW n \in Nat, NEW v, NEW s
    PROVE  OpFits(NoOp, v, s, n)
BY WelcomeIs DEF OpFits, NoOp, Op

\* What is listed or written to still exists.
LEMMA ListedStays ==
    ASSUME NEW v, NEW w, NEW s, NEW t, NEW c, ListedExist(v, s), SameExist(s, t),
           Touches(v, w, c),
           c \in Conv \ {"temp"} => Active(v, c) \/ s[c] # Nobody \/ ~Active(w, c)
    PROVE  ListedExist(w, t)
<1> SUFFICES ASSUME NEW d \in Conv \ {"temp"}, t[d] = Nobody
             PROVE  d \notin w.listed /\ ~Active(w, d)
  BY DEF ListedExist, Touches
<1>1. s[d] = Nobody /\ d \notin v.listed /\ ~Active(v, d)
  BY DEF ListedExist, SameExist
<1>2. d \notin w.listed
  BY <1>1 DEF Touches
<1>3. CASE d = c
  BY <1>1, <1>2, <1>3
<1>4. CASE d # c
  BY <1>1, <1>2, <1>4 DEF Touches, Active
<1> QED BY <1>3, <1>4

\* The server keeps what it has.
LEMMA ServerWider ==
    ASSUME NEW n \in Nat, NEW m \in Nat, n <= m, NEW s, ServerShape(s, n)
    PROVE  ServerShape(s, m)
BY ThreadGrows DEF ServerShape

\* An answer whose conversation keeps its cache keeps its place.
LEMMA CacheKeepsPlace ==
    ASSUME ViewInv, NEW c \in Conv, client'.cache[c] = client.cache[c]
    PROVE  PlaceLost(c) => client.stream[c].into # client.stream[c].turn
<1> SUFFICES ASSUME PlaceLost(c), client.stream[c].into = client.stream[c].turn
             PROVE  FALSE
  OBVIOUS
<1>1. AnswerLive(client, c) /\ TempListed(client)
  BY DEF ViewInv, ViewRight, ViewReady
<1>2. Question(client.stream[c])
  BY DEF PlaceLost, Active, Question
<1>3. CASE client.cache[c] # Nobody
  <2>1. MessagesOf(client', c) = MessagesOf(client, c)
    BY <1>3 DEF MessagesOf
  <2>2. Place(client', c) = Place(client, c)
    BY <2>1 DEF PlaceLost, Place
  <2> QED BY <2>2 DEF PlaceLost
<1>4. CASE client.cache[c] = Nobody
  <2>1. client.current # c
    BY <1>1, <1>2, <1>4 DEF AnswerLive, TempListed
  <2>2. MessagesOf(client, c) = <<>>
    BY <1>4, <2>1 DEF MessagesOf
  <2>3. Place(client, c) = {}
    BY <2>2 DEF Place
  <2> QED BY <2>3 DEF PlaceLost
<1> QED BY <1>3, <1>4

\* What no step does to an answer, in the state before it.
LivePlacesKept ==
    \A c \in Conv : PlaceLost(c) =>
        \/ op' # op \/ client.fetch[c].after = "deletion"
        \/ client.stream[c].into # client.stream[c].turn

\* What the view has and does, and its numbers.
LEMMA InvIs ==
    ASSUME ViewInv
    PROVE  /\ turns \in 0..MaxTurn /\ turns \in Nat /\ MaxTurn \in Nat /\ turns <= MaxTurn
           /\ ViewShape(client, turns) /\ ViewRight(client, turns)
           /\ \A c \in Conv : StreamShape(client.stream[c], turns) /\ FetchShape(client.fetch[c], turns)
           /\ \A c \in Conv : c # Nobody
BY ChatViewAssumption DEF ViewInv, ViewRight, ViewReady, ViewShape

\* A view that differs in one conversation, at a server that has the same ones.
LEMMA OneTouched ==
    ASSUME ViewInv, NEW c \in Conv \cup {Nobody}, turns' = turns, op' = op, changes' = changes,
           ViewRight(client', turns), ServerShape(server', turns), SameExist(server, server'),
           Touches(client, client', c),
           c \in Conv \ {"temp"} =>
             Active(client, c) \/ server[c] # Nobody \/ ~Active(client', c),
           c \in Conv =>
             \/ client'.cache[c] = client.cache[c]
             \/ client'.stream[c] # client.stream[c]
             \/ Place(client, c) \subseteq Place(client', c)
    PROVE  ViewInv' /\ LivePlacesKept
<1>1. ListedExist(client', server')
  BY ListedStays DEF ViewInv
<1>2. OpFits(op', client', server', turns')
  BY InvIs, OpStays DEF ViewInv, Touches
<1>3. ViewInv'
  BY <1>1, <1>2 DEF ViewInv
<1>4. ASSUME NEW d \in Conv, PlaceLost(d), client.stream[d].into = client.stream[d].turn PROVE FALSE
  <2>1. client'.cache[d] # client.cache[d]
    BY <1>4, CacheKeepsPlace
  <2>2. d = c
    BY <2>1 DEF Touches
  <2> QED BY <1>4, <2>1, <2>2 DEF PlaceLost
<1> QED BY <1>3, <1>4 DEF LivePlacesKept

\* No stream is one.
LEMMA NoStreamIs ==
    ASSUME NEW n \in Nat
    PROVE  StreamShape(NoStream, n) /\ NoStream.at = "none"
BY DEF StreamShape, NoStream, Question, Texts

\* Nor is no request.
LEMMA NoFetchIs ==
    ASSUME NEW n \in Nat
    PROVE  FetchShape(NoFetch, n) /\ NoFetch.at = "none"
<1>1. NoFetch.data = <<>> /\ <<>> \in Thread(n)
  BY DEF NoFetch, Thread
<1> QED BY <1>1 DEF FetchShape, NoFetch

\* A question is sent.
LEMMA SendStep ==
    ASSUME ViewInv, Send
    PROVE  ViewInv' /\ LivePlacesKept
<1>1. PICK c : c = client.current
  OBVIOUS
<1>2. /\ c \in Conv /\ ~client.sending /\ turns < MaxTurn
      /\ client' = Sent(client, c, turns + 1) /\ turns' = turns + 1
      /\ server' \in Left(c) /\ op' = op /\ changes' = changes
  BY <1>1 DEF Send
<1>3. turns + 1 \in 1..MaxTurn /\ (turns + 1) - 1 = turns /\ turns + 1 \in Nat /\ turns <= turns + 1
      /\ turns + 1 \in 0..MaxTurn
  BY <1>2, InvIs
<1>4. /\ ViewRight(client', turns') /\ Touches(client, client', c)
      /\ client'.stream[c].turn = turns + 1
  <2>1. ViewRight(client, (turns + 1) - 1)
    BY <1>3, InvIs
  <2> QED BY <1>2, <1>3, <2>1, SentRight
<1>5. ServerShape(server', turns) /\ SameExist(server, server')
  BY <1>2, InvIs, LeftRight DEF ViewInv
<1>6. ServerShape(server', turns')
  BY <1>2, <1>3, <1>5, InvIs, ServerWider
<1>7. server[c] # Nobody \/ c = "temp"
  BY <1>1, <1>2, InvIs DEF ViewInv, ListedExist
<1>8. ListedExist(client', server')
  BY <1>4, <1>5, <1>7, ListedStays DEF ViewInv
<1>9. OpFits(op', client', server', turns')
  BY <1>2, <1>3, <1>4, <1>5, InvIs, OpStays DEF ViewInv, Touches
<1>10. ViewInv'
  BY <1>2, <1>3, <1>4, <1>6, <1>8, <1>9 DEF ViewInv
<1>11. client'.stream[c] # client.stream[c]
  <2>1. client.stream[c].turn \in 0..turns
    BY <1>2, InvIs DEF ViewShape, StreamShape
  <2> QED BY <1>3, <1>4, <2>1
<1>12. ASSUME NEW d \in Conv, PlaceLost(d), client.stream[d].into = client.stream[d].turn
       PROVE  FALSE
  <2>1. d # c
    BY <1>11, <1>12 DEF PlaceLost
  <2>2. client'.cache[d] = client.cache[d]
    BY <1>4, <2>1 DEF Touches
  <2> QED BY <1>12, <2>2, CacheKeepsPlace
<1> QED BY <1>10, <1>12 DEF LivePlacesKept

\* An answer is continued: it has no place of its own.
LEMMA ContinueStep ==
    ASSUME ViewInv, Continue
    PROVE  ViewInv' /\ LivePlacesKept
<1>1. PICK c : c = client.current
  OBVIOUS
<1>2. PICK last : last = client.shown[Len(client.shown)]
  OBVIOUS
<1>3. PICK r : r = [turn |-> turns + 1, into |-> last.turn, known |-> last.known,
                    was |-> last.text, at |-> "sent"]
  OBVIOUS
<1>4. /\ c \in Conv /\ turns < MaxTurn /\ client.shown # <<>>
      /\ client' = StreamBegun(client, c, r) /\ turns' = turns + 1
      /\ server' = server /\ op' = op /\ changes' = changes
  BY <1>1, <1>2, <1>3 DEF Continue
<1>5. turns + 1 \in Nat /\ turns <= turns + 1 /\ turns + 1 \in 0..MaxTurn
  BY <1>4, InvIs
<1>6. last \in MessageUpTo(turns)
  <2>1. client.shown \in Seq(MessageUpTo(turns))
    BY InvIs DEF ViewShape, Thread
  <2>2. Len(client.shown) \in DOMAIN client.shown
    BY <1>4, <2>1
  <2> QED BY <1>2, <2>1, <2>2
<1>7. StreamShape(r, turns + 1) /\ r.at # "none" /\ ~Question(r)
  <2>1. last.turn \in 0..turns /\ last.known \in BOOLEAN /\ last.text \in Texts
    BY <1>6 DEF MessageUpTo
  <2>2. r.turn = turns + 1 /\ r.into = last.turn /\ r.known = last.known /\ r.was = last.text
        /\ r.at = "sent"
    BY <1>3
  <2>3. turns + 1 \in 0..(turns + 1) /\ last.turn \in 0..(turns + 1) /\ last.turn # turns + 1
    BY <2>1, InvIs
  <2> QED BY <1>3, <2>1, <2>2, <2>3 DEF StreamShape, Question
<1>8. ViewRight(client, turns + 1)
  BY <1>5, InvIs, ViewWider
<1>9. /\ ViewShape(client', turns') /\ FreshFetched(client') /\ TempListed(client')
      /\ FlagsRight(client') /\ \A d \in Conv : AnswerLive(client', d)
      /\ Touches(client, client', c) /\ client'.cache = client.cache
  BY <1>4, <1>5, <1>7, <1>8, StreamBegunIs
<1>10. SameExist(server, server')
  BY <1>4 DEF SameExist
<1>11. server[c] # Nobody \/ c = "temp"
  BY <1>1, <1>4, InvIs DEF ViewInv, ListedExist
<1>12. ListedExist(client', server')
  BY <1>9, <1>10, <1>11, ListedStays DEF ViewInv
<1>13. OpFits(op', client', server', turns')
  BY <1>4, <1>5, <1>9, <1>10, InvIs, OpStays DEF ViewInv, Touches
<1>14. ServerShape(server', turns')
  BY <1>4, <1>5, InvIs, ServerWider DEF ViewInv
<1>15. ViewInv'
  BY <1>4, <1>5, <1>9, <1>12, <1>13, <1>14 DEF ViewInv, ViewRight, ViewReady
<1>16. LivePlacesKept
  BY <1>9, CacheKeepsPlace DEF LivePlacesKept
<1> QED BY <1>15, <1>16

\* A conversation is selected.
LEMMA SelectStep ==
    ASSUME ViewInv, NEW c \in Conv, Select(c)
    PROVE  ViewInv' /\ LivePlacesKept
<1>1. /\ c \in client.listed /\ client' = Selected(client, c)
      /\ server' = server /\ op' = op /\ turns' = turns /\ changes' = changes
  BY DEF Select
<1>2. ViewReady(client, turns)
  BY InvIs DEF ViewRight
<1>3. /\ ViewRight(client', turns) /\ client'.listed = client.listed /\ client'.current = c
      /\ \A d \in Conv : client'.cache[d] = client.cache[d] /\ client'.stream[d] = client.stream[d]
  BY <1>1, <1>2, InvIs, SelectedRight
<1>4. ListedExist(client', server')
  BY <1>1, <1>3 DEF ViewInv, ListedExist, Active
<1>5. OpFits(op', client', server', turns')
  <2>1. SameExist(server, server')
    BY <1>1 DEF SameExist
  <2> QED BY <1>1, <1>3, <2>1, InvIs, OpStays DEF ViewInv
<1>6. ViewInv'
  BY <1>1, <1>3, <1>4, <1>5 DEF ViewInv
<1>7. LivePlacesKept
  BY <1>3, CacheKeepsPlace DEF LivePlacesKept
<1> QED BY <1>6, <1>7

\* A stream is left.
LEMMA StopStep ==
    ASSUME ViewInv, Stop
    PROVE  ViewInv' /\ LivePlacesKept
<1>1. PICK c : c = client.current
  OBVIOUS
<1>2. PICK st : st = [client.stream EXCEPT ![c] = NoStream]
  OBVIOUS
<1>3. PICK sp : sp = client.stopped \cup {c}
  OBVIOUS
<1>4. PICK w : w = [client EXCEPT !.stream = st, !.stopped = sp, !.sending = FALSE,
                                  !.isStopped = TRUE]
  OBVIOUS
<1>5. /\ c # Nobody /\ client' = w /\ server' \in Left(c)
      /\ op' = op /\ turns' = turns /\ changes' = changes
  BY <1>1, <1>2, <1>3, <1>4 DEF Stop
<1>6. c \in Conv /\ ViewShape(client, turns)
  BY <1>1, <1>5, InvIs DEF ViewShape
<1>8. /\ w = [listed |-> w.listed, current |-> w.current, shown |-> w.shown, cache |-> w.cache,
            fetch |-> w.fetch, stream |-> w.stream, fresh |-> w.fresh, stopped |-> w.stopped,
            sending |-> w.sending, isStopped |-> w.isStopped,
            loading |-> w.loading, restored |-> w.restored]
      /\ w.listed = client.listed /\ w.current = client.current /\ w.shown = client.shown
      /\ w.cache = client.cache /\ w.fetch = client.fetch /\ w.fresh = client.fresh
      /\ w.loading = client.loading /\ w.restored = client.restored
      /\ w.stream = st /\ w.stopped = sp /\ w.sending = FALSE /\ w.isStopped = TRUE
  <2>0. PICK v : v = client
    OBVIOUS
  <2>1. v = [listed |-> v.listed, current |-> v.current, shown |-> v.shown, cache |-> v.cache,
           fetch |-> v.fetch, stream |-> v.stream, fresh |-> v.fresh, stopped |-> v.stopped,
           sending |-> v.sending, isStopped |-> v.isStopped,
           loading |-> v.loading, restored |-> v.restored]
    BY <1>6, <2>0 DEF ViewShape
  <2>2. w = [v EXCEPT !.stream = st, !.stopped = sp, !.sending = FALSE, !.isStopped = TRUE]
    BY <1>4, <2>0
  <2> QED BY <2>0, <2>1, <2>2
<1>9. /\ w.stream[c] = NoStream /\ \A d \in Conv : d # c => w.stream[d] = client.stream[d]
      /\ w.stream = [d \in Conv |-> w.stream[d]]
  BY <1>2, <1>6, <1>8 DEF ViewShape
<1>11. StreamShape(NoStream, turns) /\ NoStream.at = "none"
  BY InvIs, NoStreamIs
<1>12. ViewShape(w, turns)
  <2>1. \A d \in Conv : StreamShape(w.stream[d], turns)
    BY <1>6, <1>9, <1>11 DEF ViewShape
  <2>2. w.stopped \subseteq Conv
    BY <1>3, <1>6, <1>8 DEF ViewShape
  <2> QED BY <1>6, <1>8, <1>9, <2>1, <2>2 DEF ViewShape
<1>13. FreshFetched(w) /\ TempListed(w)
  BY <1>8, InvIs DEF ViewRight, ViewReady, FreshFetched, TempListed
<1>14. FlagsRight(w)
  <2>1. FlagsRight(client)
    BY InvIs DEF ViewRight
  <2>2. ~client.restored => Shows(client, c) /\ (client.loading => client.fetch[c].at # "none")
    BY <1>1, <1>5, <2>1 DEF FlagsRight
  <2>3. ~Active(w, c) /\ c \in w.stopped
    BY <1>3, <1>8, <1>9, <1>11 DEF Active
  <2>4. (w.sending = Active(w, c)) /\ (w.isStopped = (c \in w.stopped))
    BY <1>8, <2>3 DEF Active
  <2> QED BY <1>1, <1>8, <2>2, <2>4 DEF Shows, FlagsRight
<1>15. ASSUME NEW d \in Conv PROVE AnswerLive(w, d)
  <2>1. CASE d = c
    BY <1>9, <1>11, <2>1 DEF AnswerLive, Question
  <2>2. CASE d # c
    <3>1. AnswerLive(client, d)
      BY InvIs DEF ViewRight, ViewReady
    <3> QED BY <1>8, <1>9, <2>2, <3>1 DEF AnswerLive
  <2> QED BY <2>1, <2>2
<1>16. Touches(client, client', c) /\ client'.cache = client.cache /\ ~Active(client', c)
  BY <1>5, <1>8, <1>9, <1>11 DEF Touches, Active
<1>17. ViewRight(client', turns)
  BY <1>5, <1>12, <1>13, <1>14, <1>15 DEF ViewRight, ViewReady
<1>18. ServerShape(server', turns) /\ SameExist(server, server')
  BY <1>5, <1>6, InvIs, LeftRight DEF ViewInv
<1> QED BY <1>5, <1>6, <1>16, <1>17, <1>18, OneTouched

\* The server reads messages.
LEMMA ServeFetchStep ==
    ASSUME ViewInv, NEW c \in Conv, ServeFetch(c)
    PROVE  ViewInv' /\ LivePlacesKept
<1>1. PICK f : f = [client.fetch[c] EXCEPT !.at = "served", !.data = server[c]]
  OBVIOUS
<1>2. PICK fe : fe = [client.fetch EXCEPT ![c] = f]
  OBVIOUS
<1>3. PICK w : w = [client EXCEPT !.fetch = fe]
  OBVIOUS
<1>4. /\ client' = w /\ client.fetch[c].at = "asked" /\ Exists(c)
      /\ server' = server /\ op' = op /\ turns' = turns /\ changes' = changes
  <2>1. client' = [client EXCEPT !.fetch = [client.fetch EXCEPT ![c] =
                     [client.fetch[c] EXCEPT !.at = "served", !.data = server[c]]]]
    <3>1. client' = [client EXCEPT !.fetch[c].at = "served", !.fetch[c].data = server[c]]
      BY DEF ServeFetch
    <3>2. PICK v : v = client
      OBVIOUS
    <3>3. v = [listed |-> v.listed, current |-> v.current, shown |-> v.shown, cache |-> v.cache,
           fetch |-> v.fetch, stream |-> v.stream, fresh |-> v.fresh, stopped |-> v.stopped,
           sending |-> v.sending, isStopped |-> v.isStopped,
           loading |-> v.loading, restored |-> v.restored]
      BY <3>2, InvIs DEF ViewShape
    <3>4. v.fetch = [d \in Conv |-> v.fetch[d]] /\ FetchShape(v.fetch[c], turns)
      BY <3>2, InvIs DEF ViewShape
    <3> QED BY <3>1, <3>2, <3>3, <3>4 DEF FetchShape
  <2> QED BY <1>1, <1>2, <1>3, <2>1 DEF ServeFetch
<1>6. ViewShape(client, turns) /\ FetchShape(client.fetch[c], turns)
  BY InvIs
<1>7. /\ w = [listed |-> w.listed, current |-> w.current, shown |-> w.shown, cache |-> w.cache,
            fetch |-> w.fetch, stream |-> w.stream, fresh |-> w.fresh, stopped |-> w.stopped,
            sending |-> w.sending, isStopped |-> w.isStopped,
            loading |-> w.loading, restored |-> w.restored]
      /\ w.listed = client.listed /\ w.current = client.current /\ w.shown = client.shown
      /\ w.cache = client.cache /\ w.stream = client.stream /\ w.fresh = client.fresh
      /\ w.stopped = client.stopped /\ w.sending = client.sending
      /\ w.isStopped = client.isStopped /\ w.loading = client.loading
      /\ w.restored = client.restored /\ w.fetch = fe
  <2>0. PICK v : v = client
    OBVIOUS
  <2>1. v = [listed |-> v.listed, current |-> v.current, shown |-> v.shown, cache |-> v.cache,
           fetch |-> v.fetch, stream |-> v.stream, fresh |-> v.fresh, stopped |-> v.stopped,
           sending |-> v.sending, isStopped |-> v.isStopped,
           loading |-> v.loading, restored |-> v.restored]
    BY <1>6, <2>0 DEF ViewShape
  <2>2. w = [v EXCEPT !.fetch = fe]
    BY <1>3, <2>0
  <2> QED BY <2>0, <2>1, <2>2
<1>8. /\ w.fetch[c] = f /\ \A d \in Conv : d # c => w.fetch[d] = client.fetch[d]
      /\ w.fetch = [d \in Conv |-> w.fetch[d]]
  BY <1>2, <1>6, <1>7 DEF ViewShape
<1>9. f.at = "served" /\ f.after = client.fetch[c].after /\ FetchShape(f, turns)
  <2>1. server[c] \in Thread(turns) /\ \A i \in DOMAIN server[c] : server[c][i].known
    BY <1>4 DEF ViewInv, ServerShape, Exists
  <2>2. f = [at |-> "served", after |-> client.fetch[c].after, data |-> server[c]]
    <3>1. PICK e : e = client.fetch[c]
      OBVIOUS
    <3>2. e = [at |-> e.at, after |-> e.after, data |-> e.data]
      BY <1>6, <3>1 DEF FetchShape
    <3>3. f = [e EXCEPT !.at = "served", !.data = server[c]]
      BY <1>1, <3>1
    <3> QED BY <3>1, <3>2, <3>3
  <2>3. client.fetch[c].after \in {"none", "selection", "deletion"} /\ client.fetch[c].after # "none"
    BY <1>4, <1>6 DEF FetchShape
  <2> QED BY <2>1, <2>2, <2>3 DEF FetchShape
<1>10. ViewShape(w, turns)
  <2>1. \A d \in Conv : FetchShape(w.fetch[d], turns)
    BY <1>6, <1>8, <1>9 DEF ViewShape
  <2> QED BY <1>6, <1>7, <1>8, <2>1 DEF ViewShape
<1>11. \A d \in Conv : w.fetch[d].at # "none" <=> client.fetch[d].at # "none"
  BY <1>4, <1>8, <1>9
<1>12. FreshFetched(w) /\ TempListed(w)
  BY <1>7, <1>11, InvIs DEF ViewRight, ViewReady, FreshFetched, TempListed
<1>13. ASSUME NEW d \in Conv PROVE AnswerLive(w, d)
  <2>1. AnswerLive(client, d)
    BY InvIs DEF ViewRight, ViewReady
  <2>2. w.fetch[d].after = client.fetch[d].after
    BY <1>8, <1>9
  <2> QED BY <1>7, <2>1, <2>2 DEF AnswerLive
<1>14. FlagsRight(w)
  <2>1. FlagsRight(client) /\ client.current \in Conv \cup {Nobody}
    BY InvIs DEF ViewRight, ViewShape
  <2> QED BY <1>7, <1>11, <2>1 DEF FlagsRight, Shows, Active
<1>15. ViewRight(w, turns)
  BY <1>10, <1>12, <1>13, <1>14 DEF ViewRight, ViewReady
<1>16. Touches(client, w, Nobody) /\ SameExist(server, server) /\ Nobody \notin Conv
  BY <1>7, InvIs DEF Touches, SameExist
<1> QED BY <1>4, <1>15, <1>16, OneTouched DEF ViewInv

\* Messages arrive: what they replace has no place that is written to.
LEMMA FetchAnswersStep ==
    ASSUME ViewInv, NEW c \in Conv, FetchAnswers(c)
    PROVE  ViewInv' /\ LivePlacesKept
<1>1. /\ client' = FetchFinished(Fetched(client, c), c)
      /\ server' = server /\ op' = op /\ turns' = turns /\ changes' = changes
  BY DEF FetchAnswers
<1>2. PICK w : w = Fetched(client, c)
  OBVIOUS
<1>3. client.fetch[c].data \in Thread(turns)
  BY InvIs DEF FetchShape
<1>4. /\ ViewRight(w, turns) /\ Touches(client, w, c)
      /\ <<"fetch", c>> \notin client.fresh => w = client
      /\ w.stream = client.stream
  <2>1. CASE <<"fetch", c>> \in client.fresh
    <3>1. w = Updated(client, c, client.fetch[c].data)
      BY <1>2, <2>1 DEF Fetched
    <3> QED BY <1>3, <2>1, <3>1, InvIs, ReplacedRight
  <2>2. CASE <<"fetch", c>> \notin client.fresh
    <3>1. w = client
      BY <1>2, <2>2 DEF Fetched
    <3> QED BY <3>1, InvIs DEF Touches
  <2> QED BY <2>1, <2>2
<1>5. ViewRight(client', turns) /\ Touches(w, client', Nobody)
  BY <1>1, <1>2, <1>4, InvIs, FetchFinishedRight
<1>6. Touches(client, client', c)
  BY <1>4, <1>5, InvIs DEF Touches
<1>7. ServerShape(server', turns) /\ SameExist(server, server')
  BY <1>1 DEF ViewInv, SameExist
<1>8. client'.stream[c] = client.stream[c] /\ client'.cache[c] = w.cache[c]
  BY <1>4, <1>5, InvIs DEF Touches
<1>9. c # "temp" => Active(client, c) \/ server[c] # Nobody \/ ~Active(client', c)
  BY <1>8 DEF Active
<1>10. ListedExist(client', server')
  BY <1>6, <1>7, <1>9, ListedStays DEF ViewInv
<1>11. OpFits(op', client', server', turns')
  BY <1>1, <1>6, <1>7, InvIs, OpStays DEF ViewInv, Touches
<1>12. ViewInv'
  BY <1>1, <1>5, <1>7, <1>10, <1>11 DEF ViewInv
<1>13. ASSUME NEW d \in Conv, PlaceLost(d), client.stream[d].into = client.stream[d].turn,
              client.fetch[d].after # "deletion"
       PROVE  FALSE
  <2>1. client'.cache[d] # client.cache[d]
    BY <1>13, CacheKeepsPlace
  <2>2. d = c
    BY <1>6, <2>1 DEF Touches
  <2>3. <<"fetch", c>> \in client.fresh
    BY <1>4, <1>8, <2>1, <2>2
  <2>4. AnswerLive(client, c) /\ TempListed(client)
    BY InvIs DEF ViewRight, ViewReady
  <2>5. Question(client.stream[c])
    BY <1>13, <2>2 DEF PlaceLost, Active, Question
  <2>6. CASE client.cache[c] # Nobody
    <3>1. \A i \in DOMAIN client.cache[c] : ~IsAnswer(client.cache[c][i], client.stream[c])
      BY <1>13, <2>2, <2>3, <2>4, <2>5, <2>6 DEF AnswerLive
    <3>2. MessagesOf(client, c) = client.cache[c]
      BY <2>6 DEF MessagesOf
    <3>3. Place(client, c) = {}
      BY <3>1, <3>2 DEF Place
    <3> QED BY <1>13, <2>2, <3>3 DEF PlaceLost
  <2>7. CASE client.cache[c] = Nobody
    <3>1. client.current # c
      BY <2>4, <2>5, <2>7 DEF AnswerLive, TempListed
    <3>2. MessagesOf(client, c) = <<>>
      BY <2>7, <3>1 DEF MessagesOf
    <3>3. Place(client, c) = {}
      BY <3>2 DEF Place
    <3> QED BY <1>13, <2>2, <3>3 DEF PlaceLost
  <2> QED BY <2>6, <2>7
<1>14. LivePlacesKept
  BY <1>13 DEF LivePlacesKept
<1> QED BY <1>12, <1>14

\* Messages do not arrive.
LEMMA FetchFailsStep ==
    ASSUME ViewInv, NEW c \in Conv, FetchFails(c)
    PROVE  ViewInv' /\ LivePlacesKept
<1>1. /\ client' = FetchFinished(client, c)
      /\ server' = server /\ op' = op /\ turns' = turns /\ changes' = changes
  BY DEF FetchFails
<1>2. ViewRight(client', turns) /\ Touches(client, client', Nobody)
  BY <1>1, InvIs, FetchFinishedRight
<1>3. SameExist(server, server') /\ ServerShape(server', turns) /\ Nobody \notin Conv
  BY <1>1, InvIs DEF SameExist, ViewInv
<1> QED BY <1>1, <1>2, <1>3, OneTouched

\* The server takes a question.
LEMMA AcceptStep ==
    ASSUME ViewInv, NEW c \in Conv, Accept(c)
    PROVE  ViewInv' /\ LivePlacesKept
<1>1. PICK k : k = client.stream[c].turn
  OBVIOUS
<1>2. PICK q : q = <<Msg(c, k, "user", "whole", TRUE)>>
  OBVIOUS
<1>3. /\ client' = [client EXCEPT !.stream[c].at = "open"] /\ server' = Kept(c, q)
      /\ client.stream[c].at = "sent" /\ op' = op /\ turns' = turns /\ changes' = changes
  BY <1>1, <1>2 DEF Accept
<1>4. Active(client, c)
  BY <1>3 DEF Active
<1>5. ViewRight(client', turns) /\ Touches(client, client', c) /\ client'.cache = client.cache
  <2>1. PICK r : r = [client.stream[c] EXCEPT !.at = "open"]
    OBVIOUS
  <2>2. PICK st : st = [client.stream EXCEPT ![c] = r]
    OBVIOUS
  <2>3. client' = [client EXCEPT !.stream = st]
    BY <1>3, <2>1, <2>2
  <2>4. StreamShape(client.stream[c], turns) /\ client.stream[c].at # "none"
    BY <1>3, InvIs
  <2>5. Moved(client.stream[c], r, turns)
    BY <2>1, <2>4, MovedIs
  <2> QED BY <1>4, <2>2, <2>3, <2>5, InvIs, StreamMovesRight
<1>6. ServerShape(server', turns) /\ SameExist(server, server')
  <2>1. k \in 0..turns /\ "whole" \in Texts /\ "user" \in {"user", "assistant"}
    BY <1>1, InvIs DEF StreamShape, Texts
  <2>2. q \in Thread(turns) /\ \A i \in DOMAIN q : q[i].known
    BY <1>2, <2>1, InvIs, NamedIs
  <2> QED BY <1>3, <2>2, InvIs, KeptIs DEF ViewInv
<1> QED BY <1>3, <1>4, <1>5, <1>6, OneTouched

\* An answer that fails is rolled back, and its stream ends.
LEMMA RolledBackEnds ==
    ASSUME ViewInv, NEW c \in Conv, NEW withQuestion, Active(client, c),
           client' = StreamFinished(RolledBack(client, c, withQuestion), c),
           server' \in Left(c), op' = op, turns' = turns, changes' = changes
    PROVE  ViewInv' /\ LivePlacesKept
<1>1. PICK w : w = RolledBack(client, c, withQuestion)
  OBVIOUS
<1>2. ViewRight(w, turns) /\ Touches(client, w, c)
  BY <1>1, InvIs, RolledBackRight
<1>3. /\ ViewRight(client', turns) /\ Touches(w, client', c)
      /\ client'.stream[c] = NoStream
  BY <1>1, <1>2, InvIs, StreamFinishedRight
<1>4. Touches(client, client', c)
  BY <1>2, <1>3 DEF Touches
<1>5. ServerShape(server', turns) /\ SameExist(server, server')
  BY InvIs, LeftRight DEF ViewInv
<1>6. client'.stream[c] # client.stream[c]
  BY <1>3, NoStreamIs, InvIs DEF Active
<1> QED BY <1>3, <1>4, <1>5, <1>6, OneTouched

\* A question is refused, or lost.
LEMMA SendFailsStep ==
    ASSUME ViewInv, NEW c \in Conv, SendFails(c)
    PROVE  ViewInv' /\ LivePlacesKept
<1>1. Active(client, c)
  BY DEF SendFails, Active
<1> QED BY <1>1, RolledBackEnds DEF SendFails

\* An answer fails.
LEMMA StreamFailsStep ==
    ASSUME ViewInv, NEW c \in Conv, StreamFails(c)
    PROVE  ViewInv' /\ LivePlacesKept
<1>1. Active(client, c)
  BY DEF StreamFails, Active
<1> QED BY <1>1, RolledBackEnds DEF StreamFails

\* A question gets its id.
LEMMA TellQuestionStep ==
    ASSUME ViewInv, NEW c \in Conv, TellQuestion(c)
    PROVE  ViewInv' /\ LivePlacesKept
<1>1. PICK ms : ms = MessagesOf(client, c)
  OBVIOUS
<1>2. PICK w : w = [client EXCEPT !.stream[c].at = "told"]
  OBVIOUS
<1>3. PICK named : named = {i \in DOMAIN ms :
             /\ client.stream[c].into = client.stream[c].turn
             /\ ms[i].turn = client.stream[c].turn /\ ms[i].role = "user" /\ ~ms[i].known}
  OBVIOUS
<1>4. PICK new : new = [i \in DOMAIN ms |->
             IF i \in named THEN [ms[i] EXCEPT !.known = TRUE] ELSE ms[i]]
  OBVIOUS
<1>5. /\ client' = IF named = {} THEN w ELSE Updated(w, c, new)
      /\ client.stream[c].at = "open"
      /\ server' = server /\ op' = op /\ turns' = turns /\ changes' = changes
  BY <1>1, <1>2, <1>3, <1>4 DEF TellQuestion
<1>6. Active(client, c)
  BY <1>5 DEF Active
<1>7. /\ ViewRight(w, turns) /\ Touches(client, w, c)
      /\ w.stream[c] # client.stream[c]
  <2>1. PICK r : r = [client.stream[c] EXCEPT !.at = "told"]
    OBVIOUS
  <2>2. PICK st : st = [client.stream EXCEPT ![c] = r]
    OBVIOUS
  <2>3. w = [client EXCEPT !.stream = st]
    BY <1>2, <2>1, <2>2
  <2>4. StreamShape(client.stream[c], turns) /\ client.stream[c].at # "none"
    BY <1>5, InvIs
  <2>5. Moved(client.stream[c], r, turns) /\ r.at = "told"
    BY <2>1, <2>4, MovedIs
  <2>6. ViewRight(w, turns) /\ Touches(client, w, c) /\ Streams(w, c, r)
    BY <1>6, <2>2, <2>3, <2>5, InvIs, StreamMovesRight
  <2> QED BY <1>5, <2>5, <2>6 DEF Streams
<1>8. new \in Thread(turns)
  <2>1. ms \in Seq(MessageUpTo(turns))
    BY <1>1, InvIs, MessagesOfIs DEF Thread
  <2>2. DOMAIN ms = 1..Len(ms) /\ Len(ms) \in Nat
    BY <2>1
  <2>3. ASSUME NEW i \in 1..Len(ms) PROVE new[i] \in MessageUpTo(turns)
    <3>1. PICK m : m = ms[i]
      OBVIOUS
    <3>2. m \in MessageUpTo(turns)
      BY <2>1, <3>1
    <3>3. [m EXCEPT !.known = TRUE] \in MessageUpTo(turns)
      BY <3>2 DEF MessageUpTo
    <3>4. new[i] = IF i \in named THEN [m EXCEPT !.known = TRUE] ELSE m
      BY <1>4, <2>2, <3>1
    <3> QED BY <3>2, <3>3, <3>4
  <2>4. new \in [1..Len(ms) -> MessageUpTo(turns)]
    BY <1>4, <2>2, <2>3
  <2> QED BY <2>2, <2>4, SeqDef DEF Thread
<1>9. ViewRight(client', turns) /\ Touches(client, client', c) /\ client'.stream[c] = w.stream[c]
  <2>1. CASE named = {}
    BY <1>5, <1>7, <2>1
  <2>2. CASE named # {}
    <3>1. /\ ViewRight(client', turns) /\ Touches(w, client', c)
          /\ client'.stream = w.stream
      BY <1>5, <1>7, <1>8, <2>2, InvIs, ReplacedRight
    <3> QED BY <1>7, <3>1 DEF Touches
  <2> QED BY <2>1, <2>2
<1>10. client'.stream[c] # client.stream[c]
  BY <1>7, <1>9
<1>11. ServerShape(server', turns) /\ SameExist(server, server')
  BY <1>5 DEF ViewInv, SameExist
<1> QED BY <1>5, <1>6, <1>9, <1>10, <1>11, OneTouched

\* A piece of an answer is written into its place.
LEMMA ReceivePieceStep ==
    ASSUME ViewInv, NEW c \in Conv, ReceivePiece(c)
    PROVE  ViewInv' /\ LivePlacesKept
<1>1. PICK k : k = client.stream[c].into
  OBVIOUS
<1>2. PICK known : known = client.stream[c].known
  OBVIOUS
<1>3. PICK text : text = IF client.stream[c].into = client.stream[c].turn THEN "part" ELSE "more"
  OBVIOUS
<1>4. /\ client' = Written(client, c, text, k, known) /\ client.stream[c].at = "told"
      /\ server' = server /\ op' = op /\ turns' = turns /\ changes' = changes
  BY <1>1, <1>2, <1>3 DEF ReceivePiece
<1>5. k \in 0..turns /\ known \in BOOLEAN /\ text \in Texts
  <2>1. StreamShape(client.stream[c], turns) /\ turns \in Nat
    BY InvIs
  <2>2. k \in 0..turns /\ known \in BOOLEAN
    BY <1>1, <1>2, <2>1 DEF StreamShape
  <2> QED BY <1>3, <2>2 DEF Texts
<1>6. /\ ViewRight(client', turns) /\ Touches(client, client', c)
      /\ Place(client, c) \subseteq Place(client', c)
  BY <1>1, <1>2, <1>4, <1>5, InvIs, WrittenRight
<1>7. Active(client, c)
  BY <1>4 DEF Active
<1>8. ServerShape(server', turns) /\ SameExist(server, server')
  BY <1>4 DEF ViewInv, SameExist
<1> QED BY <1>4, <1>6, <1>7, <1>8, OneTouched

\* An answer is whole.
LEMMA DoneStep ==
    ASSUME ViewInv, NEW c \in Conv, Done(c)
    PROVE  ViewInv' /\ LivePlacesKept
<1>1. PICK k : k = client.stream[c].turn
  OBVIOUS
<1>2. PICK a : a = <<Msg(c, k, "assistant", "whole", TRUE)>>
  OBVIOUS
<1>3. PICK w : w = Written(client, c, "whole", k, TRUE)
  OBVIOUS
<1>4. /\ client' = StreamFinished(w, c) /\ server' = Kept(c, a)
      /\ client.stream[c].at = "told" /\ op' = op /\ turns' = turns /\ changes' = changes
  BY <1>1, <1>2, <1>3 DEF Done
<1>5. k \in 0..turns /\ "whole" \in Texts /\ "assistant" \in {"user", "assistant"}
  BY <1>1, InvIs DEF StreamShape, Texts
<1>6. ViewRight(w, turns) /\ Touches(client, w, c)
  BY <1>3, <1>5, InvIs, WrittenRight
<1>7. ViewRight(client', turns) /\ Touches(w, client', c) /\ client'.stream[c] = NoStream
  BY <1>4, <1>6, InvIs, StreamFinishedRight
<1>8. Touches(client, client', c)
  BY <1>6, <1>7 DEF Touches
<1>9. Active(client, c) /\ client'.stream[c] # client.stream[c]
  BY <1>4, <1>7, NoStreamIs, InvIs DEF Active
<1>10. ServerShape(server', turns) /\ SameExist(server, server')
  <2>1. a \in Thread(turns) /\ \A i \in DOMAIN a : a[i].known
    BY <1>2, <1>5, InvIs, NamedIs
  <2> QED BY <1>4, <2>1, InvIs, KeptIs DEF ViewInv
<1> QED BY <1>4, <1>7, <1>8, <1>9, <1>10, OneTouched

\* An operation that waits, or ends: nothing is asked of its places.
LEMMA OpMoves ==
    ASSUME op' # op
    PROVE  LivePlacesKept
BY DEF LivePlacesKept

\* An operation that begins.
LEMMA OpBegins ==
    ASSUME NEW n \in Nat, NEW v, NEW s, NEW kind \in Kinds \ {"archive"}, NEW c \in Conv,
           NEW m \in MessageUpTo(n), NEW here, NEW before \in Thread(n),
           kind = "delete conversation" =>
             c # "temp" /\ c \notin v.listed /\ v.current # c /\ s[c] # Nobody,
           kind \in {"create", "create and send"} => "temp" \in v.listed /\ s[New] = Nobody
    PROVE  OpFits(Op(kind, c, m, here, before), v, s, n) /\ Op(kind, c, m, here, before) # NoOp
<1>1. PICK o : o = [kind |-> kind, of |-> c, msg |-> m, here |-> here, before |-> before]
  OBVIOUS
<1>2. Op(kind, c, m, here, before) = o
  BY <1>1 DEF Op
<1>3. /\ o.kind = kind /\ o.of = c /\ o.msg = m /\ o.here = here /\ o.before = before
      /\ o = [kind |-> o.kind, of |-> o.of, msg |-> o.msg, here |-> o.here, before |-> o.before]
  BY <1>1
<1>4. kind # "none" /\ NoOp.kind = "none"
  BY DEF Kinds, NoOp, Op
<1>5. OpFits(o, v, s, n) /\ o # NoOp
  BY <1>3, <1>4 DEF OpFits
<1> QED BY <1>2, <1>5

\* One change more.
LEMMA ChangeCounted ==
    ASSUME ViewInv, changes < MaxChange
    PROVE  changes + 1 \in 0..MaxChange
<1>1. changes \in 0..MaxChange
  BY DEF ViewInv
<1>2. MaxChange \in Nat
  BY ChatViewAssumption
<1> QED BY <1>1, <1>2

\* A message is deleted in the view.
LEMMA DeleteMessageStep ==
    ASSUME ViewInv, op = NoOp, changes < MaxChange, client.current \in Old \cup {New},
           NEW i \in DOMAIN MessagesOf(client, client.current), DeleteMessage(i)
    PROVE  ViewInv' /\ LivePlacesKept
<1>1. PICK c : c = client.current
  OBVIOUS
<1>2. PICK before : before = MessagesOf(client, c)
  OBVIOUS
<1>3. PICK v : v = Updated(client, c, RemoveAt(before, i))
  OBVIOUS
<1>4. PICK fr : fr = v.fresh \cup {<<"delete", c>>}
  OBVIOUS
<1>5. PICK w : w = [v EXCEPT !.fresh = fr]
  OBVIOUS
<1>6. /\ client' = w /\ op' = Op("delete message", c, before[i], TRUE, before)
      /\ changes' = changes + 1 /\ turns' = turns /\ server' = server
  BY <1>1, <1>2, <1>3, <1>4, <1>5 DEF DeleteMessage
<1>7. c \in Conv /\ before \in Thread(turns) /\ i \in DOMAIN before
  <2>1. c \in Conv
    BY <1>1 DEF Conv
  <2> QED BY <1>1, <1>2, <2>1, InvIs, MessagesOfIs
<1>8. before[i] \in MessageUpTo(turns) /\ RemoveAt(before, i) \in Thread(turns)
  <2>1. before \in Seq(MessageUpTo(turns)) /\ i \in 1..Len(before)
    BY <1>7 DEF Thread
  <2>2. SubSeq(before, 1, i - 1) \in Seq(MessageUpTo(turns))
    BY <2>1
  <2>3. SubSeq(before, i + 1, Len(before)) \in Seq(MessageUpTo(turns))
    BY <2>1
  <2> QED BY <2>1, <2>2, <2>3 DEF Thread, RemoveAt
<1>9. ViewRight(v, turns) /\ Touches(client, v, c)
  BY <1>3, <1>7, <1>8, InvIs, ReplacedRight
<1>10. /\ w = [listed |-> w.listed, current |-> w.current, shown |-> w.shown, cache |-> w.cache,
            fetch |-> w.fetch, stream |-> w.stream, fresh |-> w.fresh, stopped |-> w.stopped,
            sending |-> w.sending, isStopped |-> w.isStopped,
            loading |-> w.loading, restored |-> w.restored]
      /\ w.listed = v.listed /\ w.current = v.current /\ w.shown = v.shown /\ w.cache = v.cache
      /\ w.fetch = v.fetch /\ w.stream = v.stream /\ w.stopped = v.stopped
      /\ w.sending = v.sending /\ w.isStopped = v.isStopped /\ w.loading = v.loading
      /\ w.restored = v.restored /\ w.fresh = fr
  <2>1. v = [listed |-> v.listed, current |-> v.current, shown |-> v.shown, cache |-> v.cache,
           fetch |-> v.fetch, stream |-> v.stream, fresh |-> v.fresh, stopped |-> v.stopped,
           sending |-> v.sending, isStopped |-> v.isStopped,
           loading |-> v.loading, restored |-> v.restored]
    BY <1>9 DEF ViewRight, ViewReady, ViewShape
  <2> QED BY <1>5, <2>1
<1>11. \A d : <<"fetch", d>> \in w.fresh <=> <<"fetch", d>> \in v.fresh
  BY <1>4, <1>10
<1>12. ViewRight(w, turns)
  <2>1. ViewShape(w, turns)
    <3>1. ViewShape(v, turns)
      BY <1>9 DEF ViewRight, ViewReady
    <3>2. w.fresh \subseteq {"fetch", "delete"} \X Conv
      BY <1>4, <1>7, <1>10, <3>1 DEF ViewShape
    <3> QED BY <1>10, <3>1, <3>2 DEF ViewShape
  <2>2. FreshFetched(w) /\ TempListed(w)
    BY <1>9, <1>10, <1>11 DEF ViewRight, ViewReady, FreshFetched, TempListed
  <2>3. \A d \in Conv : AnswerLive(w, d)
    BY <1>9, <1>10, <1>11 DEF ViewRight, ViewReady, AnswerLive
  <2>4. FlagsRight(w)
    BY <1>9, <1>10 DEF ViewRight, FlagsRight, Shows, Active
  <2> QED BY <2>1, <2>2, <2>3, <2>4 DEF ViewRight, ViewReady
<1>13. Touches(client, w, c) /\ SameExist(server, server')
  BY <1>6, <1>9, <1>10 DEF Touches, SameExist
<1>14. ListedExist(w, server')
  <2>1. server[c] # Nobody \/ c = "temp"
    BY <1>1, <1>7, InvIs DEF ViewInv, ListedExist
  <2> QED BY <1>13, <2>1, ListedStays DEF ViewInv
<1>15. OpFits(op', w, server', turns) /\ op' # NoOp
  <2>1. "delete message" \in Kinds
    BY DEF Kinds
  <2> QED BY <1>6, <1>7, <1>8, <2>1, InvIs, OpBegins
<1>16. changes' \in 0..MaxChange
  BY <1>6, ChangeCounted
<1>17. ViewInv'
  BY <1>6, <1>12, <1>14, <1>15, <1>16 DEF ViewInv
<1> QED BY <1>15, <1>17, OpMoves

\* What follows a question is about to be deleted.
LEMMA RegenerateStep ==
    ASSUME ViewInv, op = NoOp, changes < MaxChange, client.current \in Old \cup {New},
           NEW i \in DOMAIN MessagesOf(client, client.current), Regenerate(i)
    PROVE  ViewInv' /\ LivePlacesKept
<1>1. PICK c : c = client.current
  OBVIOUS
<1>2. PICK ms : ms = MessagesOf(client, c)
  OBVIOUS
<1>3. /\ op' = Op("truncate", c, ms[i], TRUE, <<>>) /\ changes' = changes + 1
      /\ client' = client /\ turns' = turns /\ server' = server
  BY <1>1, <1>2 DEF Regenerate
<1>4. c \in Conv /\ ms \in Thread(turns) /\ i \in DOMAIN ms
  <2>1. c \in Conv
    BY <1>1 DEF Conv
  <2> QED BY <1>1, <1>2, <2>1, InvIs, MessagesOfIs
<1>5. ms[i] \in MessageUpTo(turns) /\ <<>> \in Thread(turns) /\ "truncate" \in Kinds
  BY <1>4 DEF Thread, Kinds
<1>6. OpFits(op', client, server, turns) /\ op' # NoOp
  BY <1>3, <1>4, <1>5, InvIs, OpBegins
<1>7. changes' \in 0..MaxChange
  BY <1>3, ChangeCounted
<1>8. ViewInv'
  BY <1>3, <1>6, <1>7 DEF ViewInv
<1> QED BY <1>6, <1>8, OpMoves

\* A flag that is not set says that something is not there.
LEMMA NotIn ==
    ASSUME NEW S, NEW t, t \notin S, NEW x \in BOOLEAN, ~x
    PROVE  x = (t \in S)
OBVIOUS

\* A temporary conversation is shown.
LEMMA CreateConversationStep ==
    ASSUME ViewInv, op = NoOp, changes < MaxChange, NEW kind \in {"create", "create and send"},
           CreateConversation(kind)
    PROVE  ViewInv' /\ LivePlacesKept
<1>1. PICK li : li = client.listed \cup {"temp"}
  OBVIOUS
<1>2. PICK ca : ca = [client.cache EXCEPT !["temp"] = <<Welcome>>]
  OBVIOUS
<1>3. PICK sp : sp = client.stopped \ {"temp"}
  OBVIOUS
<1>4. PICK w : w = [client EXCEPT !.listed = li, !.current = "temp", !.shown = <<Welcome>>,
                      !.cache = ca, !.stopped = sp, !.sending = FALSE, !.isStopped = FALSE,
                      !.loading = FALSE, !.restored = FALSE]
  OBVIOUS
<1>5. /\ client' = w /\ op' = Op(kind, "temp", Welcome, TRUE, <<>>) /\ ~Active(client, "temp")
      /\ changes' = changes + 1 /\ turns' = turns /\ server' = server
  BY <1>1, <1>2, <1>3, <1>4 DEF CreateConversation
<1>6. "temp" \in Conv /\ ViewShape(client, turns) /\ ViewRight(client, turns) /\ turns \in Nat
  BY InvIs DEF Conv
<1>7. /\ w = [listed |-> w.listed, current |-> w.current, shown |-> w.shown, cache |-> w.cache,
            fetch |-> w.fetch, stream |-> w.stream, fresh |-> w.fresh, stopped |-> w.stopped,
            sending |-> w.sending, isStopped |-> w.isStopped,
            loading |-> w.loading, restored |-> w.restored]
      /\ w.fetch = client.fetch /\ w.stream = client.stream /\ w.fresh = client.fresh
      /\ w.listed = li /\ w.current = "temp" /\ w.shown = <<Welcome>> /\ w.cache = ca
      /\ w.stopped = sp /\ w.sending = FALSE /\ w.isStopped = FALSE /\ w.loading = FALSE
      /\ w.restored = FALSE
  <2>0. PICK v : v = client
    OBVIOUS
  <2>1. v = [listed |-> v.listed, current |-> v.current, shown |-> v.shown, cache |-> v.cache,
           fetch |-> v.fetch, stream |-> v.stream, fresh |-> v.fresh, stopped |-> v.stopped,
           sending |-> v.sending, isStopped |-> v.isStopped,
           loading |-> v.loading, restored |-> v.restored]
    BY <1>6, <2>0 DEF ViewShape
  <2>2. w = [v EXCEPT !.listed = li, !.current = "temp", !.shown = <<Welcome>>,
                      !.cache = ca, !.stopped = sp, !.sending = FALSE, !.isStopped = FALSE,
                      !.loading = FALSE, !.restored = FALSE]
    BY <1>4, <2>0
  <2> QED BY <2>0, <2>1, <2>2
<1>8. Welcome \in MessageUpTo(turns) /\ <<Welcome>> \in Thread(turns) /\ <<>> \in Thread(turns)
  BY <1>6, WelcomeIs
<1>9. /\ w.cache["temp"] = <<Welcome>> /\ \A d \in Conv : d # "temp" => w.cache[d] = client.cache[d]
      /\ w.cache = [d \in Conv |-> w.cache[d]]
  BY <1>2, <1>6, <1>7 DEF ViewShape
<1>10. <<Welcome>> # Nobody
  BY <1>8, InvIs, ThreadThere
<1>11. ViewShape(w, turns)
  <2>1. \A d \in Conv : w.cache[d] = Nobody \/ w.cache[d] \in Thread(turns)
    BY <1>6, <1>8, <1>9 DEF ViewShape
  <2>2. w.listed \subseteq Conv /\ w.stopped \subseteq Conv
    BY <1>1, <1>3, <1>6, <1>7 DEF ViewShape
  <2> QED BY <1>6, <1>7, <1>8, <1>9, <2>1, <2>2 DEF ViewShape
<1>12. FreshFetched(w) /\ TempListed(w)
  <2>1. FreshFetched(w)
    BY <1>6, <1>7 DEF ViewRight, ViewReady, FreshFetched
  <2>2. "temp" \in w.listed
    BY <1>1, <1>7
  <2> QED BY <1>9, <1>10, <2>1, <2>2 DEF TempListed
<1>13. FlagsRight(w)
  <2>1. ~Active(w, "temp") /\ "temp" \notin w.stopped
    BY <1>3, <1>5, <1>7 DEF Active
  <2>2. w.sending = Active(w, "temp")
    BY <1>7, <2>1 DEF Active
  <2>3. w.isStopped = ("temp" \in w.stopped)
    <3>1. w.isStopped = FALSE
      BY <1>7
    <3>2. w.isStopped \in BOOLEAN /\ ~w.isStopped
      BY <3>1
    <3> QED BY <2>1, <3>2, NotIn
  <2> QED BY <1>7, <1>9, <2>2, <2>3 DEF FlagsRight, Shows
<1>14. ASSUME NEW d \in Conv PROVE AnswerLive(w, d)
  <2>1. CASE d = "temp"
    BY <1>5, <1>7, <2>1 DEF AnswerLive, Question, Active
  <2>2. CASE d # "temp"
    <3>1. AnswerLive(client, d)
      BY <1>6 DEF ViewRight, ViewReady
    <3> QED BY <1>7, <1>9, <2>2, <3>1 DEF AnswerLive
  <2> QED BY <2>1, <2>2
<1>15. ListedExist(w, server')
  BY <1>1, <1>5, <1>7 DEF ViewInv, ListedExist, Active
<1>16. OpFits(op', w, server', turns) /\ op' # NoOp
  <2>1. /\ kind \in Kinds \ {"archive"} /\ kind # "delete conversation" /\ "temp" \in w.listed
        /\ server'[New] = Nobody
    BY <1>1, <1>5, <1>7 DEF Kinds, CreateConversation, Exists
  <2> QED BY <1>5, <1>6, <1>8, <2>1, OpBegins
<1>17. changes' \in 0..MaxChange
  BY <1>5, ChangeCounted
<1>18. ViewInv'
  BY <1>5, <1>11, <1>12, <1>13, <1>14, <1>15, <1>16, <1>17 DEF ViewInv, ViewRight, ViewReady
<1> QED BY <1>16, <1>18, OpMoves

\* A conversation disappears.
LEMMA DeleteConversationStep ==
    ASSUME ViewInv, op = NoOp, changes < MaxChange, NEW c \in Conv, DeleteConversation(c)
    PROVE  ViewInv' /\ LivePlacesKept
<1>1. PICK here : here = (client.current = c)
  OBVIOUS
<1>2. PICK e : e = IF here THEN Emptied(client) ELSE client
  OBVIOUS
<1>3. PICK li : li = client.listed \ {c}
  OBVIOUS
<1>4. PICK w : w = [e EXCEPT !.listed = e.listed \ {c}, !.sending = ~here /\ e.sending,
                      !.isStopped = ~here /\ e.isStopped, !.loading = ~here /\ e.loading]
  OBVIOUS
<1>5. /\ client' = w /\ op' = Op("delete conversation", c, Welcome, here, MessagesOf(client, c))
      /\ c \in client.listed \ {"temp"}
      /\ changes' = changes + 1 /\ turns' = turns /\ server' = server
  BY <1>1, <1>2, <1>4 DEF DeleteConversation
<1>6. ViewShape(client, turns) /\ ViewRight(client, turns) /\ turns \in Nat
  BY InvIs
<1>7. /\ e = [listed |-> e.listed, current |-> e.current, shown |-> e.shown, cache |-> e.cache,
            fetch |-> e.fetch, stream |-> e.stream, fresh |-> e.fresh, stopped |-> e.stopped,
            sending |-> e.sending, isStopped |-> e.isStopped,
            loading |-> e.loading, restored |-> e.restored]
      /\ e.listed = client.listed /\ e.cache = client.cache /\ e.fetch = client.fetch
      /\ e.stream = client.stream /\ e.fresh = client.fresh /\ e.stopped = client.stopped
      /\ e.sending = client.sending /\ e.isStopped = client.isStopped
      /\ e.loading = client.loading /\ e.restored = client.restored
      /\ here => e.current = Nobody /\ e.shown = <<>>
      /\ ~here => e.current = client.current /\ e.shown = client.shown
  <2>0. PICK v : v = client
    OBVIOUS
  <2>1. v = [listed |-> v.listed, current |-> v.current, shown |-> v.shown, cache |-> v.cache,
           fetch |-> v.fetch, stream |-> v.stream, fresh |-> v.fresh, stopped |-> v.stopped,
           sending |-> v.sending, isStopped |-> v.isStopped,
           loading |-> v.loading, restored |-> v.restored]
    BY <1>6, <2>0 DEF ViewShape
  <2>2. CASE here
    <3>1. e = [v EXCEPT !.current = Nobody, !.shown = <<>>]
      BY <1>2, <2>0, <2>2 DEF Emptied
    <3> QED BY <2>0, <2>1, <2>2, <3>1
  <2>3. CASE ~here
    <3>1. e = v
      BY <1>2, <2>0, <2>3
    <3> QED BY <2>0, <2>1, <2>3, <3>1
  <2> QED BY <2>2, <2>3
<1>8. PICK se : se = (~here /\ e.sending)
  OBVIOUS
<1>9. PICK is : is = (~here /\ e.isStopped)
  OBVIOUS
<1>10. PICK lo : lo = (~here /\ e.loading)
  OBVIOUS
<1>11. /\ w = [listed |-> w.listed, current |-> w.current, shown |-> w.shown, cache |-> w.cache,
            fetch |-> w.fetch, stream |-> w.stream, fresh |-> w.fresh, stopped |-> w.stopped,
            sending |-> w.sending, isStopped |-> w.isStopped,
            loading |-> w.loading, restored |-> w.restored]
       /\ w.current = e.current /\ w.shown = e.shown /\ w.cache = e.cache /\ w.fetch = e.fetch
       /\ w.stream = e.stream /\ w.fresh = e.fresh /\ w.stopped = e.stopped
       /\ w.listed = li /\ w.sending = se /\ w.isStopped = is /\ w.loading = lo
       /\ w.restored = e.restored
  <2>1. w = [e EXCEPT !.listed = li, !.sending = se, !.isStopped = is, !.loading = lo]
    BY <1>3, <1>4, <1>7, <1>8, <1>9, <1>10
  <2>2. e = [listed |-> e.listed, current |-> e.current, shown |-> e.shown, cache |-> e.cache,
            fetch |-> e.fetch, stream |-> e.stream, fresh |-> e.fresh, stopped |-> e.stopped,
            sending |-> e.sending, isStopped |-> e.isStopped,
            loading |-> e.loading, restored |-> e.restored]
    BY <1>7
  <2> QED BY <2>1, <2>2
<1>12. w.sending \in BOOLEAN /\ w.isStopped \in BOOLEAN /\ w.loading \in BOOLEAN
  BY <1>8, <1>9, <1>10, <1>11
<1>13. ViewShape(w, turns)
  <2>1. <<>> \in Thread(turns)
    BY <1>6, WelcomeIs
  <2>2. w.current \in Conv \cup {Nobody} /\ w.shown \in Thread(turns)
    BY <1>6, <1>7, <1>11, <2>1 DEF ViewShape
  <2>3. w.listed \subseteq Conv
    BY <1>3, <1>6, <1>11 DEF ViewShape
  <2> QED BY <1>6, <1>7, <1>11, <1>12, <2>2, <2>3 DEF ViewShape
<1>14. "temp" \in w.listed <=> "temp" \in client.listed
  BY <1>3, <1>5, <1>11
<1>15. FreshFetched(w) /\ TempListed(w)
  <2>1. Nobody # "temp"
    BY InvIs DEF Conv
  <2> QED BY <1>6, <1>7, <1>11, <1>14, <2>1 DEF ViewRight, ViewReady, FreshFetched, TempListed
<1>16. \A d \in Conv : AnswerLive(w, d)
  BY <1>6, <1>7, <1>11, <1>14 DEF ViewRight, ViewReady, AnswerLive
<1>17. FlagsRight(w)
  <2>1. CASE here
    BY <1>7, <1>11, <2>1 DEF FlagsRight
  <2>2. CASE ~here
    <3>1. /\ w.sending = client.sending /\ w.isStopped = client.isStopped
          /\ w.loading = client.loading /\ w.restored = client.restored
      BY <1>6, <1>7, <1>8, <1>9, <1>10, <1>11, <2>2 DEF ViewShape
    <3> QED BY <1>6, <1>7, <1>11, <2>2, <3>1 DEF ViewRight, FlagsRight, Shows, Active
  <2> QED BY <2>1, <2>2
<1>18. c \notin w.listed /\ w.current # c /\ server[c] # Nobody
  <2>1. server[c] # Nobody
    BY <1>5 DEF ViewInv, ListedExist
  <2> QED BY <1>1, <1>3, <1>7, <1>11, <2>1, InvIs
<1>19. ListedExist(w, server')
  BY <1>1, <1>3, <1>5, <1>7, <1>11 DEF ViewInv, ListedExist, Active
<1>20. OpFits(op', w, server', turns) /\ op' # NoOp
  <2>1. "delete conversation" \in Kinds
    BY DEF Kinds
  <2>2. MessagesOf(client, c) \in Thread(turns) /\ Welcome \in MessageUpTo(turns)
    BY <1>6, MessagesOfIs, WelcomeIs
  <2> QED BY <1>5, <1>6, <1>18, <2>1, <2>2, OpBegins
<1>21. changes' \in 0..MaxChange
  BY <1>5, ChangeCounted
<1>22. ViewInv'
  BY <1>5, <1>13, <1>15, <1>16, <1>17, <1>19, <1>20, <1>21 DEF ViewInv, ViewRight, ViewReady
<1> QED BY <1>20, <1>22, OpMoves

\* An operation ends: what is left is right in itself.
LEMMA OpEnds ==
    ASSUME ViewInv, op.kind # "none", op' = NoOp, changes' = changes, turns' \in 0..MaxTurn,
           ViewRight(client', turns'), ServerShape(server', turns'), ListedExist(client', server')
    PROVE  ViewInv' /\ LivePlacesKept
<1>1. turns' \in Nat
  BY ChatViewAssumption
<1>2. op' # op
  BY DEF NoOp, Op
<1>3. ViewInv'
  BY <1>1, NoOpFits DEF ViewInv
<1> QED BY <1>2, <1>3, OpMoves

\* What the server keeps of the messages of a conversation.
LEMMA RowReplaced ==
    ASSUME NEW n \in 0..MaxTurn, NEW s, ServerShape(s, n), NEW c \in Conv, s[c] # Nobody,
           NEW ms \in Thread(n), \A i \in DOMAIN ms : ms[i].known, NEW t, t = [s EXCEPT ![c] = ms]
    PROVE  ServerShape(t, n) /\ SameExist(s, t)
<1>1. t = [d \in Conv |-> t[d]] /\ t[c] = ms /\ \A d \in Conv : d # c => t[d] = s[d]
  BY DEF ServerShape
<1>2. ms # Nobody
  BY ThreadThere
<1> QED BY <1>1, <1>2 DEF ServerShape, SameExist

\* A message is deleted by the server.
LEMMA MessageDeletedStep ==
    ASSUME ViewInv, MessageDeleted
    PROVE  ViewInv' /\ LivePlacesKept
<1>1. PICK c : c = op.of
  OBVIOUS
<1>2. PICK row : row = server[c]
  OBVIOUS
<1>3. PICK ms : ms = Without(row, {i \in DOMAIN row : SameMessage(row[i], op.msg)})
  OBVIOUS
<1>4. /\ op.kind = "delete message" /\ row # Nobody /\ server' = [server EXCEPT ![c] = ms]
      /\ op' = NoOp /\ client' = client /\ turns' = turns /\ changes' = changes
  BY <1>1, <1>2, <1>3 DEF MessageDeleted, Exists
<1>5. c \in Conv
  BY <1>1, <1>4 DEF ViewInv, OpFits
<1>6. row \in Thread(turns) /\ \A i \in DOMAIN row : row[i].known
  BY <1>2, <1>4, <1>5 DEF ViewInv, ServerShape
<1>7. ms \in Thread(turns) /\ \A i \in DOMAIN ms : ms[i].known
  <2>1. row \in Seq(MessageUpTo(turns))
    BY <1>6 DEF Thread
  <2>2. FilteredFrom(row, {i \in DOMAIN row : SameMessage(row[i], op.msg)}, Len(row), ms,
                     MessageUpTo(turns))
    BY <1>3, <2>1, WithoutIs
  <2>3. ms \in Seq(MessageUpTo(turns))
    BY <2>2 DEF FilteredFrom
  <2>4. ASSUME NEW j \in DOMAIN ms PROVE ms[j].known
    <3>1. j \in 1..Len(ms)
      BY <2>3
    <3>2. \E i \in 1..Len(row) : row[i] = ms[j]
      BY <2>2, <3>1 DEF FilteredFrom
    <3> QED BY <1>6, <2>1, <3>2
  <2> QED BY <2>3, <2>4 DEF Thread
<1>8. ServerShape(server', turns) /\ SameExist(server, server')
  BY <1>2, <1>4, <1>5, <1>7, InvIs, RowReplaced DEF ViewInv
<1>9. ListedExist(client', server')
  BY <1>4, <1>8 DEF ViewInv, ListedExist, SameExist, Active
<1> QED BY <1>4, <1>8, <1>9, InvIs, OpEnds

\* A message comes back, or its conversation is read again.
LEMMA MessageStaysStep ==
    ASSUME ViewInv, MessageStays
    PROVE  ViewInv' /\ LivePlacesKept
<1>1. PICK c : c = op.of
  OBVIOUS
<1>2. /\ op.kind = "delete message" /\ op' = NoOp
      /\ client' = IF <<"delete", c>> \in client.fresh THEN Updated(client, c, op.before)
                   ELSE FetchStarted(client, c, "deletion")
      /\ server' = server /\ turns' = turns /\ changes' = changes
  BY <1>1 DEF MessageStays
<1>3. c \in Conv /\ op.before \in Thread(turns)
  BY <1>1, <1>2 DEF ViewInv, OpFits
<1>4. ViewRight(client', turns) /\ (Touches(client, client', c) \/ Touches(client, client', Nobody))
  <2>1. CASE <<"delete", c>> \in client.fresh
    BY <1>2, <1>3, <2>1, InvIs, ReplacedRight
  <2>2. CASE <<"delete", c>> \notin client.fresh
    <3>1. ViewReady(client, turns) /\ FlagsRight(client)
      BY InvIs DEF ViewRight
    <3>2. /\ ViewReady(FetchStarted(client, c, "deletion"), turns)
          /\ FlagsRight(FetchStarted(client, c, "deletion"))
          /\ Touches(client, FetchStarted(client, c, "deletion"), Nobody)
      BY <1>3, <3>1, InvIs, FetchStartedRight
    <3> QED BY <1>2, <2>2, <3>2 DEF ViewRight
  <2> QED BY <2>1, <2>2
<1>5. client'.stream[c] = client.stream[c]
  <2>1. CASE <<"delete", c>> \in client.fresh
    BY <1>2, <1>3, <2>1, InvIs, ReplacedRight
  <2>2. CASE <<"delete", c>> \notin client.fresh
    <3>1. ViewReady(client, turns) /\ FlagsRight(client)
      BY InvIs DEF ViewRight
    <3>2. Touches(client, FetchStarted(client, c, "deletion"), Nobody)
      BY <1>3, <3>1, InvIs, FetchStartedRight
    <3> QED BY <1>2, <1>3, <2>2, <3>2, InvIs DEF Touches
  <2> QED BY <2>1, <2>2
<1>6. ListedExist(client', server')
  <2>1. SameExist(server, server')
    BY <1>2 DEF SameExist
  <2>2. Active(client, c) \/ ~Active(client', c)
    BY <1>5 DEF Active
  <2> QED BY <1>4, <2>1, <2>2, InvIs, ListedStays DEF ViewInv
<1> QED BY <1>2, <1>4, <1>6, InvIs, OpEnds DEF ViewInv

\* The messages before one are the first ones.
LEMMA BeforeIs ==
    ASSUME NEW n \in Nat, NEW ms \in Thread(n), NEW msg
    PROVE  /\ Before(ms, msg) \in Thread(n)
           /\ \A j \in DOMAIN Before(ms, msg) : j \in DOMAIN ms /\ Before(ms, msg)[j] = ms[j]
<1>1. PICK at : at = {i \in DOMAIN ms : SameMessage(ms[i], msg)}
  OBVIOUS
<1>2. ms \in Seq(MessageUpTo(n))
  BY DEF Thread
<1>3. CASE at = {}
  BY <1>1, <1>3 DEF Before
<1>4. CASE at # {}
  <2>1. PICK i : i = CHOOSE j \in at : TRUE
    OBVIOUS
  <2>2. i \in 1..Len(ms)
    BY <1>1, <1>2, <1>4, <2>1
  <2>3. Before(ms, msg) = SubSeq(ms, 1, i - 1)
    BY <1>1, <1>4, <2>1 DEF Before
  <2>4. /\ SubSeq(ms, 1, i - 1) \in Seq(MessageUpTo(n))
        /\ \A j \in DOMAIN SubSeq(ms, 1, i - 1) :
             j \in DOMAIN ms /\ SubSeq(ms, 1, i - 1)[j] = ms[j]
    BY <1>2, <2>2
  <2> QED BY <2>3, <2>4 DEF Thread
<1> QED BY <1>3, <1>4

\* The history is cut, and the question asked again.
LEMMA TruncatedStep ==
    ASSUME ViewInv, Truncated
    PROVE  ViewInv' /\ LivePlacesKept
<1>1. PICK c : c = op.of
  OBVIOUS
<1>2. PICK ms : ms = MessagesOf(client, c)
  OBVIOUS
<1>3. PICK v : v = IF Before(ms, op.msg) = ms THEN client
                   ELSE Updated(client, c, Before(ms, op.msg))
  OBVIOUS
<1>4. PICK row : row = Before(server[c], op.msg)
  OBVIOUS
<1>5. /\ op.kind = "truncate" /\ server[c] # Nobody /\ turns < MaxTurn
      /\ client' = Sent(v, c, turns + 1) /\ turns' = turns + 1 /\ op' = NoOp
      /\ server' = [server EXCEPT ![c] = row] /\ changes' = changes
  BY <1>1, <1>2, <1>3, <1>4 DEF Truncated, AskedAgain, Exists
<1>6. c \in Conv
  BY <1>1, <1>5 DEF ViewInv, OpFits
<1>7. ViewRight(v, turns) /\ Touches(client, v, c)
  <2>1. ms \in Thread(turns)
    BY <1>2, <1>6, InvIs, MessagesOfIs
  <2>2. Before(ms, op.msg) \in Thread(turns)
    BY <2>1, InvIs, BeforeIs
  <2>3. CASE Before(ms, op.msg) = ms
    <3>1. v = client
      BY <1>3, <2>3
    <3> QED BY <3>1, InvIs DEF Touches
  <2>4. CASE Before(ms, op.msg) # ms
    <3>1. v = Updated(client, c, Before(ms, op.msg))
      BY <1>3, <2>4
    <3> QED BY <1>6, <2>2, <3>1, InvIs, ReplacedRight
  <2> QED BY <2>3, <2>4
<1>8. turns + 1 \in 1..MaxTurn /\ (turns + 1) - 1 = turns /\ turns + 1 \in Nat
      /\ turns <= turns + 1 /\ turns + 1 \in 0..MaxTurn
  BY <1>5, InvIs
<1>9. ViewRight(client', turns + 1) /\ Touches(v, client', c)
  <2>1. ViewRight(v, (turns + 1) - 1)
    BY <1>7, <1>8
  <2> QED BY <1>5, <1>6, <1>8, <2>1, SentRight
<1>10. Touches(client, client', c)
  BY <1>7, <1>9 DEF Touches
<1>11. row \in Thread(turns) /\ \A i \in DOMAIN row : row[i].known
  <2>1. server[c] \in Thread(turns) /\ \A i \in DOMAIN server[c] : server[c][i].known
    BY <1>5, <1>6 DEF ViewInv, ServerShape
  <2>2. /\ row \in Thread(turns)
        /\ \A i \in DOMAIN row : i \in DOMAIN server[c] /\ row[i] = server[c][i]
    BY <1>4, <2>1, InvIs, BeforeIs
  <2> QED BY <2>1, <2>2
<1>12. ServerShape(server', turns) /\ SameExist(server, server')
  BY <1>5, <1>6, <1>11, InvIs, RowReplaced DEF ViewInv
<1>13. ServerShape(server', turns + 1)
  BY <1>8, <1>12, InvIs, ServerWider
<1>14. ListedExist(client', server')
  BY <1>5, <1>10, <1>12, ListedStays DEF ViewInv
<1> QED BY <1>5, <1>8, <1>9, <1>13, <1>14, OpEnds

\* The history is kept.
LEMMA NotTruncatedStep ==
    ASSUME ViewInv, NotTruncated
    PROVE  ViewInv' /\ LivePlacesKept
<1>1. /\ op.kind = "truncate" /\ op' = NoOp
      /\ client' = client /\ server' = server /\ turns' = turns /\ changes' = changes
  BY DEF NotTruncated
<1>2. ListedExist(client', server')
  BY <1>1 DEF ViewInv
<1>3. ServerShape(server', turns') /\ ViewRight(client', turns') /\ turns' \in 0..MaxTurn
  BY <1>1 DEF ViewInv
<1>4. op.kind # "none"
  BY <1>1
<1> QED BY <1>1, <1>2, <1>3, <1>4, OpEnds

\* The conversation that was created takes the place of the temporary one.
LEMMA MigratedRight ==
    ASSUME NEW n \in 0..MaxTurn, NEW v, ViewRight(v, n), ~Active(v, New)
    PROVE  /\ ViewReady(Migrated(v), n) /\ New \in Migrated(v).listed
           /\ Migrated(v).listed = (v.listed \ {"temp"}) \cup {New}
           /\ Migrated(v).stream = v.stream
<1>1. PICK li : li = (v.listed \ {"temp"}) \cup {New}
  OBVIOUS
<1>2. PICK cu : cu = IF v.current = "temp" THEN New ELSE v.current
  OBVIOUS
<1>3. PICK ca : ca = [v.cache EXCEPT !["temp"] = Nobody, ![New] = v.cache["temp"]]
  OBVIOUS
<1>4. PICK w : w = [v EXCEPT !.listed = li, !.current = cu, !.cache = ca]
  OBVIOUS
<1>5. Migrated(v) = w
  BY <1>1, <1>2, <1>3, <1>4 DEF Migrated
<1>6. ViewShape(v, n) /\ New \in Conv /\ "temp" \in Conv /\ New # "temp"
  BY ChatViewAssumption DEF ViewRight, ViewReady, Conv
<1>7. /\ w = [listed |-> w.listed, current |-> w.current, shown |-> w.shown, cache |-> w.cache,
            fetch |-> w.fetch, stream |-> w.stream, fresh |-> w.fresh, stopped |-> w.stopped,
            sending |-> w.sending, isStopped |-> w.isStopped,
            loading |-> w.loading, restored |-> w.restored]
      /\ w.shown = v.shown /\ w.fetch = v.fetch /\ w.stream = v.stream /\ w.fresh = v.fresh
      /\ w.stopped = v.stopped /\ w.sending = v.sending /\ w.isStopped = v.isStopped
      /\ w.loading = v.loading /\ w.restored = v.restored /\ w.listed = li
      /\ w.current = cu /\ w.cache = ca
  <2>1. v = [listed |-> v.listed, current |-> v.current, shown |-> v.shown, cache |-> v.cache,
           fetch |-> v.fetch, stream |-> v.stream, fresh |-> v.fresh, stopped |-> v.stopped,
           sending |-> v.sending, isStopped |-> v.isStopped,
           loading |-> v.loading, restored |-> v.restored]
    BY <1>6 DEF ViewShape
  <2> QED BY <1>4, <2>1
<1>8. /\ w.cache["temp"] = Nobody /\ w.cache[New] = v.cache["temp"]
      /\ \A d \in Conv \ {"temp", New} : w.cache[d] = v.cache[d]
      /\ w.cache = [d \in Conv |-> w.cache[d]]
  <2>1. PICK t : t = "temp"
    OBVIOUS
  <2>2. PICK f : f = v.cache
    OBVIOUS
  <2>3. f = [d \in Conv |-> f[d]] /\ t \in Conv /\ New \in Conv /\ t # New
    BY <1>6, <2>1, <2>2 DEF ViewShape
  <2>4. ca = [f EXCEPT ![t] = Nobody, ![New] = f[t]]
    BY <1>3, <2>1, <2>2
  <2>5. /\ ca[t] = Nobody /\ ca[New] = f[t] /\ \A d \in Conv \ {t, New} : ca[d] = f[d]
        /\ ca = [d \in Conv |-> ca[d]]
    BY <2>3, <2>4
  <2> QED BY <1>7, <2>1, <2>2, <2>5
<1>9. ViewShape(w, n)
  <2>1. \A d \in Conv : w.cache[d] = Nobody \/ w.cache[d] \in Thread(n)
    BY <1>6, <1>8 DEF ViewShape
  <2>2. w.listed \subseteq Conv /\ w.current \in Conv \cup {Nobody}
    BY <1>1, <1>2, <1>6, <1>7 DEF ViewShape
  <2> QED BY <1>6, <1>7, <1>8, <2>1, <2>2 DEF ViewShape
<1>10. FreshFetched(w)
  BY <1>7 DEF ViewRight, ViewReady, FreshFetched
<1>11. "temp" \notin w.listed /\ w.current # "temp"
  BY <1>1, <1>2, <1>6, <1>7
<1>12. TempListed(w)
  BY <1>11 DEF TempListed
<1>13. ASSUME NEW d \in Conv PROVE AnswerLive(w, d)
  <2>1. CASE d = "temp"
    BY <1>8, <1>11, <2>1 DEF AnswerLive
  <2>2. CASE d = New
    BY <1>7, <2>2 DEF AnswerLive, Question, Active
  <2>3. CASE d \notin {"temp", New}
    <3>1. AnswerLive(v, d)
      BY DEF ViewRight, ViewReady
    <3> QED BY <1>7, <1>8, <2>3, <3>1 DEF AnswerLive
  <2> QED BY <2>1, <2>2, <2>3
<1>14. ViewReady(w, n)
  BY <1>9, <1>10, <1>12, <1>13 DEF ViewReady
<1> QED BY <1>1, <1>5, <1>7, <1>14

\* A conversation is created.
LEMMA CreatedStep ==
    ASSUME ViewInv, Created
    PROVE  ViewInv' /\ LivePlacesKept
<1>1. PICK m : m = Migrated(client)
  OBVIOUS
<1>2. PICK v : v = Selected(m, New)
  OBVIOUS
<1>3. /\ op.kind \in {"create", "create and send"}
      /\ op.kind = "create and send" => turns < MaxTurn
      /\ server' = [server EXCEPT ![New] = <<>>] /\ op' = NoOp /\ changes' = changes
      /\ \/ client' = v /\ turns' = turns
         \/ /\ op.kind = "create and send"
            /\ client' = Sent(v, New, turns + 1) /\ turns' = turns + 1
  BY <1>1, <1>2 DEF Created
<1>4. New \in Conv /\ New # "temp" /\ server[New] = Nobody
  BY <1>3, ChatViewAssumption DEF ViewInv, OpFits, Conv
<1>5. ~Active(client, New)
  BY <1>4 DEF ViewInv, ListedExist
<1>6. /\ ViewReady(m, turns) /\ New \in m.listed
      /\ m.listed = (client.listed \ {"temp"}) \cup {New} /\ m.stream = client.stream
  BY <1>1, <1>5, InvIs, MigratedRight
<1>7. /\ ViewRight(v, turns) /\ v.listed = m.listed /\ v.current = New
      /\ \A d \in Conv : v.stream[d] = m.stream[d]
  BY <1>2, <1>6, InvIs, SelectedRight
<1>8. /\ server' = [d \in Conv |-> server'[d]] /\ server'[New] = <<>>
      /\ \A d \in Conv : d # New => server'[d] = server[d]
  BY <1>3, <1>4 DEF ViewInv, ServerShape
<1>9. <<>> \in Thread(turns) /\ <<>> # Nobody
  <2>1. <<>> \in Thread(turns)
    BY InvIs, WelcomeIs
  <2> QED BY <2>1, InvIs, ThreadThere
<1>10. ServerShape(server', turns)
  BY <1>8, <1>9 DEF ViewInv, ServerShape
<1>11. ListedExist(v, server')
  <2> SUFFICES ASSUME NEW d \in Conv \ {"temp"}, server'[d] = Nobody
               PROVE  d \notin v.listed /\ ~Active(v, d)
    BY <1>6, <1>7 DEF ListedExist
  <2>1. d # New /\ server[d] = Nobody
    BY <1>8, <1>9
  <2>2. d \notin client.listed /\ ~Active(client, d)
    BY <2>1 DEF ViewInv, ListedExist
  <2> QED BY <1>6, <1>7, <2>1, <2>2 DEF Active
<1>12. op.kind # "none"
  BY <1>3
<1>13. CASE client' = v /\ turns' = turns
  BY <1>3, <1>7, <1>10, <1>11, <1>12, <1>13, InvIs, OpEnds
<1>14. CASE /\ op.kind = "create and send"
            /\ client' = Sent(v, New, turns + 1) /\ turns' = turns + 1
  <2>1. turns + 1 \in 1..MaxTurn /\ (turns + 1) - 1 = turns /\ turns + 1 \in Nat
        /\ turns <= turns + 1 /\ turns + 1 \in 0..MaxTurn
    <3>1. turns < MaxTurn
      BY <1>3, <1>14
    <3> QED BY <3>1, InvIs
  <2>2. ViewRight(v, (turns + 1) - 1)
    BY <1>7, <2>1
  <2>3. ViewRight(client', turns + 1) /\ Touches(v, client', New)
    BY <1>4, <1>14, <2>1, <2>2, SentRight
  <2>4. SameExist(server', server') /\ server'[New] # Nobody
    BY <1>8, <1>9 DEF SameExist
  <2>5. ListedExist(client', server')
    BY <1>11, <2>3, <2>4, ListedStays
  <2>6. ServerShape(server', turns + 1)
    BY <1>10, <2>1, InvIs, ServerWider
  <2> QED BY <1>3, <1>12, <1>14, <2>1, <2>3, <2>5, <2>6, OpEnds
<1> QED BY <1>3, <1>13, <1>14

\* A conversation is not created.
LEMMA NotCreatedStep ==
    ASSUME ViewInv, NotCreated
    PROVE  ViewInv' /\ LivePlacesKept
<1>1. PICK li : li = client.listed \ {"temp"}
  OBVIOUS
<1>2. PICK cu : cu = IF client.current = "temp" THEN Nobody ELSE client.current
  OBVIOUS
<1>3. PICK w : w = [client EXCEPT !.listed = li, !.current = cu]
  OBVIOUS
<1>4. /\ op.kind \in {"create", "create and send"} /\ client' = w /\ op' = NoOp
      /\ server' = server /\ turns' = turns /\ changes' = changes
  BY <1>1, <1>2, <1>3 DEF NotCreated
<1>5. ViewShape(client, turns) /\ ViewRight(client, turns) /\ Nobody # "temp"
  BY InvIs DEF Conv
<1>6. /\ w = [listed |-> w.listed, current |-> w.current, shown |-> w.shown, cache |-> w.cache,
            fetch |-> w.fetch, stream |-> w.stream, fresh |-> w.fresh, stopped |-> w.stopped,
            sending |-> w.sending, isStopped |-> w.isStopped,
            loading |-> w.loading, restored |-> w.restored]
      /\ w.shown = client.shown /\ w.cache = client.cache /\ w.fetch = client.fetch
      /\ w.stream = client.stream /\ w.fresh = client.fresh /\ w.stopped = client.stopped
      /\ w.sending = client.sending /\ w.isStopped = client.isStopped
      /\ w.loading = client.loading /\ w.restored = client.restored /\ w.listed = li /\ w.current = cu
  <2>0. PICK v : v = client
    OBVIOUS
  <2>1. v = [listed |-> v.listed, current |-> v.current, shown |-> v.shown, cache |-> v.cache,
           fetch |-> v.fetch, stream |-> v.stream, fresh |-> v.fresh, stopped |-> v.stopped,
           sending |-> v.sending, isStopped |-> v.isStopped,
           loading |-> v.loading, restored |-> v.restored]
    BY <1>5, <2>0 DEF ViewShape
  <2>2. w = [v EXCEPT !.listed = li, !.current = cu]
    BY <1>3, <2>0
  <2> QED BY <2>0, <2>1, <2>2
<1>7. ViewShape(w, turns)
  BY <1>1, <1>2, <1>5, <1>6 DEF ViewShape
<1>8. "temp" \notin w.listed /\ w.current # "temp"
  BY <1>1, <1>2, <1>5, <1>6
<1>9. FreshFetched(w) /\ TempListed(w)
  BY <1>5, <1>6, <1>8 DEF ViewRight, ViewReady, FreshFetched, TempListed
<1>10. ASSUME NEW d \in Conv PROVE AnswerLive(w, d)
  <2>1. AnswerLive(client, d)
    BY <1>5 DEF ViewRight, ViewReady
  <2> QED BY <1>6, <1>8, <2>1 DEF AnswerLive
<1>11. FlagsRight(w)
  BY <1>2, <1>5, <1>6 DEF ViewRight, FlagsRight, Shows, Active
<1>12. ViewRight(client', turns')
  BY <1>4, <1>7, <1>9, <1>10, <1>11 DEF ViewRight, ViewReady
<1>13. ListedExist(client', server')
  BY <1>1, <1>2, <1>4, <1>6 DEF ViewInv, ListedExist, Active
<1>14. op.kind # "none"
  BY <1>4
<1> QED BY <1>4, <1>12, <1>13, <1>14, InvIs, OpEnds DEF ViewInv

\* A conversation is forgotten.
LEMMA ConversationDeletedStep ==
    ASSUME ViewInv, ConversationDeleted
    PROVE  ViewInv' /\ LivePlacesKept
<1>1. PICK c : c = op.of
  OBVIOUS
<1>2. PICK ca : ca = [client.cache EXCEPT ![c] = Nobody]
  OBVIOUS
<1>3. PICK fe : fe = [client.fetch EXCEPT ![c] = NoFetch]
  OBVIOUS
<1>4. PICK st : st = [client.stream EXCEPT ![c] = NoStream]
  OBVIOUS
<1>5. PICK sp : sp = client.stopped \ {c}
  OBVIOUS
<1>6. PICK fr : fr = {t \in client.fresh : t[2] # c}
  OBVIOUS
<1>7. PICK w : w = [client EXCEPT !.cache = ca, !.fetch = fe, !.stream = st, !.stopped = sp,
                                  !.fresh = fr]
  OBVIOUS
<1>8. /\ op.kind = "delete conversation" /\ client' = w /\ op' = NoOp
      /\ server' = [server EXCEPT ![c] = Nobody] /\ turns' = turns /\ changes' = changes
  BY <1>1, <1>2, <1>3, <1>4, <1>5, <1>6, <1>7 DEF ConversationDeleted
<1>9. /\ c \in Conv /\ c # "temp" /\ c \notin client.listed /\ client.current # c
  BY <1>1, <1>8 DEF ViewInv, OpFits
<1>10. ViewShape(client, turns) /\ ViewRight(client, turns)
  BY InvIs
<1>11. /\ w = [listed |-> w.listed, current |-> w.current, shown |-> w.shown, cache |-> w.cache,
            fetch |-> w.fetch, stream |-> w.stream, fresh |-> w.fresh, stopped |-> w.stopped,
            sending |-> w.sending, isStopped |-> w.isStopped,
            loading |-> w.loading, restored |-> w.restored]
       /\ w.listed = client.listed /\ w.current = client.current /\ w.shown = client.shown
       /\ w.sending = client.sending /\ w.isStopped = client.isStopped
       /\ w.loading = client.loading /\ w.restored = client.restored
       /\ w.cache = ca /\ w.fetch = fe /\ w.stream = st
       /\ w.stopped = sp /\ w.fresh = fr
  <2>0. PICK v : v = client
    OBVIOUS
  <2>1. v = [listed |-> v.listed, current |-> v.current, shown |-> v.shown, cache |-> v.cache,
           fetch |-> v.fetch, stream |-> v.stream, fresh |-> v.fresh, stopped |-> v.stopped,
           sending |-> v.sending, isStopped |-> v.isStopped,
           loading |-> v.loading, restored |-> v.restored]
    BY <1>10, <2>0 DEF ViewShape
  <2>2. w = [v EXCEPT !.cache = ca, !.fetch = fe, !.stream = st, !.stopped = sp, !.fresh = fr]
    BY <1>7, <2>0
  <2> QED BY <2>0, <2>1, <2>2
<1>12. /\ w.cache[c] = Nobody /\ \A d \in Conv : d # c => w.cache[d] = client.cache[d]
       /\ w.cache = [d \in Conv |-> w.cache[d]]
  BY <1>2, <1>9, <1>10, <1>11 DEF ViewShape
<1>13. /\ w.fetch[c] = NoFetch /\ \A d \in Conv : d # c => w.fetch[d] = client.fetch[d]
       /\ w.fetch = [d \in Conv |-> w.fetch[d]]
  BY <1>3, <1>9, <1>10, <1>11 DEF ViewShape
<1>14. /\ w.stream[c] = NoStream /\ \A d \in Conv : d # c => w.stream[d] = client.stream[d]
       /\ w.stream = [d \in Conv |-> w.stream[d]]
  BY <1>4, <1>9, <1>10, <1>11 DEF ViewShape
<1>15. StreamShape(NoStream, turns) /\ NoStream.at = "none" /\ FetchShape(NoFetch, turns)
  BY InvIs, NoStreamIs, NoFetchIs
<1>16. ViewShape(w, turns)
  <2>1. \A d \in Conv : w.cache[d] = Nobody \/ w.cache[d] \in Thread(turns)
    BY <1>10, <1>12 DEF ViewShape
  <2>2. \A d \in Conv : FetchShape(w.fetch[d], turns)
    BY <1>10, <1>13, <1>15 DEF ViewShape
  <2>3. \A d \in Conv : StreamShape(w.stream[d], turns)
    BY <1>10, <1>14, <1>15 DEF ViewShape
  <2>4. w.fresh \subseteq {"fetch", "delete"} \X Conv /\ w.stopped \subseteq Conv
    BY <1>5, <1>6, <1>10, <1>11 DEF ViewShape
  <2> QED BY <1>10, <1>11, <1>12, <1>13, <1>14, <2>1, <2>2, <2>3, <2>4 DEF ViewShape
<1>17. <<"fetch", c>> \notin w.fresh /\ w.fresh \subseteq client.fresh
  BY <1>6, <1>11
<1>18. FreshFetched(w)
  <2> SUFFICES ASSUME NEW d \in Conv, <<"fetch", d>> \in w.fresh PROVE w.fetch[d].at # "none"
    BY DEF FreshFetched
  <2>1. d # c /\ <<"fetch", d>> \in client.fresh
    BY <1>17
  <2> QED BY <1>10, <1>13, <2>1 DEF ViewRight, ViewReady, FreshFetched
<1>19. TempListed(w)
  <2>1. "temp" \in Conv
    BY DEF Conv
  <2> QED BY <1>9, <1>10, <1>11, <1>12, <2>1 DEF ViewRight, ViewReady, TempListed
<1>20. ASSUME NEW d \in Conv PROVE AnswerLive(w, d)
  <2>1. CASE d = c
    BY <1>14, <1>15, <2>1 DEF AnswerLive, Question
  <2>2. CASE d # c
    <3>1. AnswerLive(client, d)
      BY <1>10 DEF ViewRight, ViewReady
    <3> QED BY <1>11, <1>12, <1>13, <1>14, <1>17, <2>2, <3>1 DEF AnswerLive
  <2> QED BY <2>1, <2>2
<1>21. FlagsRight(w)
  <2> SUFFICES ASSUME w.current # Nobody, ~w.restored
               PROVE  Shows(w, w.current) /\ (w.loading => w.fetch[w.current].at # "none")
    BY DEF FlagsRight
  <2>1. /\ Shows(client, client.current) /\ client.current \in Conv /\ client.current # c
        /\ client.loading => client.fetch[client.current].at # "none"
    BY <1>9, <1>10, <1>11 DEF ViewRight, FlagsRight, ViewShape
  <2>2. client.current \in w.stopped <=> client.current \in client.stopped
    BY <1>5, <1>11, <2>1
  <2> QED BY <1>11, <1>12, <1>13, <1>14, <2>1, <2>2 DEF Shows, Active
<1>22. ViewRight(client', turns')
  BY <1>8, <1>16, <1>18, <1>19, <1>20, <1>21 DEF ViewRight, ViewReady
<1>23. /\ server' = [d \in Conv |-> server'[d]] /\ server'[c] = Nobody
       /\ \A d \in Conv : d # c => server'[d] = server[d]
  BY <1>8, <1>9 DEF ViewInv, ServerShape
<1>24. ServerShape(server', turns')
  BY <1>8, <1>23 DEF ViewInv, ServerShape
<1>25. ListedExist(client', server')
  <2> SUFFICES ASSUME NEW d \in Conv \ {"temp"}, server'[d] = Nobody
               PROVE  d \notin w.listed /\ ~Active(w, d)
    BY <1>8, <1>11 DEF ViewInv, ListedExist
  <2>1. CASE d = c
    BY <1>9, <1>11, <1>14, <1>15, <2>1 DEF Active
  <2>2. CASE d # c
    BY <1>11, <1>14, <1>23, <2>2 DEF ViewInv, ListedExist, Active
  <2> QED BY <2>1, <2>2
<1>26. op.kind # "none"
  BY <1>8
<1> QED BY <1>8, <1>22, <1>24, <1>25, <1>26, InvIs, OpEnds

\* A conversation is listed again.
LEMMA ConversationStaysStep ==
    ASSUME ViewInv, ConversationStays
    PROVE  ViewInv' /\ LivePlacesKept
<1>1. PICK c : c = op.of
  OBVIOUS
<1>2. PICK li : li = client.listed \cup {c}
  OBVIOUS
<1>3. PICK v : v = [client EXCEPT !.listed = li]
  OBVIOUS
<1>4. PICK sh : sh = IF v.cache[c] # Nobody THEN v.cache[c] ELSE op.before
  OBVIOUS
<1>5. PICK lo : lo = (v.fetch[c].at # "none")
  OBVIOUS
<1>6. PICK se : se = Active(v, c)
  OBVIOUS
<1>7. PICK is : is = (c \in v.stopped)
  OBVIOUS
<1>8. PICK w : w = [v EXCEPT !.current = c, !.shown = sh, !.loading = lo, !.sending = se,
                             !.isStopped = is, !.restored = FALSE]
  OBVIOUS
<1>9. /\ op.kind = "delete conversation" /\ op' = NoOp
      /\ server' = server /\ turns' = turns /\ changes' = changes
      /\ client' = w \/ client' = v
  <2>1. ShownAgain(v, c, op.before) = w
    BY <1>4, <1>5, <1>6, <1>7, <1>8 DEF ShownAgain
  <2>2. client' = IF op.here /\ client.current = Nobody THEN ShownAgain(v, c, op.before) ELSE v
    BY <1>1, <1>2, <1>3 DEF ConversationStays
  <2> QED BY <2>1, <2>2 DEF ConversationStays
<1>10. c \in Conv /\ c # "temp" /\ server[c] # Nobody /\ op.before \in Thread(turns)
  BY <1>1, <1>9 DEF ViewInv, OpFits
<1>11. ViewShape(client, turns) /\ ViewRight(client, turns)
  BY InvIs
<1>12. /\ v = [listed |-> v.listed, current |-> v.current, shown |-> v.shown, cache |-> v.cache,
            fetch |-> v.fetch, stream |-> v.stream, fresh |-> v.fresh, stopped |-> v.stopped,
            sending |-> v.sending, isStopped |-> v.isStopped,
            loading |-> v.loading, restored |-> v.restored]
      /\ v.current = client.current /\ v.shown = client.shown /\ v.cache = client.cache
      /\ v.fetch = client.fetch /\ v.stream = client.stream /\ v.fresh = client.fresh
      /\ v.stopped = client.stopped /\ v.sending = client.sending
      /\ v.isStopped = client.isStopped /\ v.loading = client.loading /\ v.restored = client.restored
      /\ v.listed = li
  <2>0. PICK u : u = client
    OBVIOUS
  <2>1. u = [listed |-> u.listed, current |-> u.current, shown |-> u.shown, cache |-> u.cache,
           fetch |-> u.fetch, stream |-> u.stream, fresh |-> u.fresh, stopped |-> u.stopped,
           sending |-> u.sending, isStopped |-> u.isStopped,
           loading |-> u.loading, restored |-> u.restored]
    BY <1>11, <2>0 DEF ViewShape
  <2>2. v = [u EXCEPT !.listed = li]
    BY <1>3, <2>0
  <2> QED BY <2>0, <2>1, <2>2
<1>13. "temp" \in v.listed <=> "temp" \in client.listed
  BY <1>2, <1>10, <1>12
<1>14. ViewShape(v, turns)
  <2>1. v.listed \subseteq Conv
    BY <1>2, <1>10, <1>11, <1>12 DEF ViewShape
  <2> QED BY <1>11, <1>12, <2>1 DEF ViewShape
<1>15. ViewReady(v, turns)
  <2>1. FreshFetched(v) /\ TempListed(v)
    BY <1>11, <1>12, <1>13 DEF ViewRight, ViewReady, FreshFetched, TempListed
  <2>2. \A d \in Conv : AnswerLive(v, d)
    BY <1>11, <1>12, <1>13 DEF ViewRight, ViewReady, AnswerLive
  <2> QED BY <1>14, <2>1, <2>2 DEF ViewReady
<1>16. ListedExist(v, server')
  BY <1>2, <1>9, <1>10, <1>12 DEF ViewInv, ListedExist, Active
<1>17. op.kind # "none" /\ ServerShape(server', turns')
  BY <1>9 DEF ViewInv
<1>18. CASE client' = v
  <2>1. FlagsRight(v)
    BY <1>11, <1>12 DEF ViewRight, FlagsRight, Shows, Active
  <2>2. ViewRight(v, turns)
    BY <1>15, <2>1 DEF ViewRight
  <2> QED BY <1>9, <1>16, <1>17, <1>18, <2>2, InvIs, OpEnds
<1>19. CASE client' = w
  <2>1. /\ w = [listed |-> w.listed, current |-> w.current, shown |-> w.shown, cache |-> w.cache,
            fetch |-> w.fetch, stream |-> w.stream, fresh |-> w.fresh, stopped |-> w.stopped,
            sending |-> w.sending, isStopped |-> w.isStopped,
            loading |-> w.loading, restored |-> w.restored]
        /\ w.listed = v.listed /\ w.cache = v.cache /\ w.fetch = v.fetch /\ w.fresh = v.fresh
        /\ w.stream = v.stream /\ w.stopped = v.stopped
        /\ w.current = c /\ w.shown = sh /\ w.loading = lo /\ w.sending = se /\ w.isStopped = is
        /\ w.restored = FALSE
    <3>1. v = [listed |-> v.listed, current |-> v.current, shown |-> v.shown, cache |-> v.cache,
            fetch |-> v.fetch, stream |-> v.stream, fresh |-> v.fresh, stopped |-> v.stopped,
            sending |-> v.sending, isStopped |-> v.isStopped,
            loading |-> v.loading, restored |-> v.restored]
      BY <1>12
    <3> QED BY <1>8, <3>1
  <2>2. w.sending \in BOOLEAN /\ w.isStopped \in BOOLEAN /\ w.loading \in BOOLEAN
    BY <1>5, <1>6, <1>7, <2>1 DEF Active
  <2>3. ViewShape(w, turns)
    <3>1. w.shown \in Thread(turns)
      BY <1>10, <1>14, <1>4, <2>1 DEF ViewShape
    <3> QED BY <1>10, <1>14, <2>1, <2>2, <3>1 DEF ViewShape
  <2>4. FreshFetched(w) /\ TempListed(w)
    BY <1>10, <1>15, <2>1 DEF ViewReady, FreshFetched, TempListed
  <2>5. \A d \in Conv : AnswerLive(w, d)
    BY <1>15, <2>1 DEF ViewReady, AnswerLive
  <2>6. FlagsRight(w)
    <3>1. Shows(w, c)
      BY <1>4, <1>6, <1>7, <2>1 DEF Shows, Active
    <3> QED BY <1>5, <2>1, <3>1 DEF FlagsRight
  <2>7. ViewRight(w, turns)
    BY <2>3, <2>4, <2>5, <2>6 DEF ViewRight, ViewReady
  <2>8. ListedExist(w, server')
    BY <1>2, <1>12, <1>16, <2>1 DEF ListedExist, Active
  <2> QED BY <1>9, <1>17, <1>19, <2>7, <2>8, InvIs, OpEnds
<1> QED BY <1>9, <1>18, <1>19

\* The view v with another selection and other messages.
PutBack(v, cu, sh, re) == [v EXCEPT !.current = cu, !.shown = sh, !.restored = re]

\* The view moves to a conversation that is listed, or to none: what it shows is
\* right if it is none, or if it says that it was restored.
LEMMA PutBackRight ==
    ASSUME NEW n \in Nat, NEW v, ViewRight(v, n), NEW cu \in v.listed \cup {Nobody},
           NEW sh \in Thread(n), NEW re \in BOOLEAN, re \/ cu = Nobody,
           NEW w, w = PutBack(v, cu, sh, re)
    PROVE  /\ ViewRight(w, n) /\ w.listed = v.listed /\ w.current = cu
           /\ w.cache = v.cache /\ w.stream = v.stream
<1>1. ViewShape(v, n)
  BY DEF ViewRight, ViewReady
<1>2. /\ w = [listed |-> w.listed, current |-> w.current, shown |-> w.shown, cache |-> w.cache,
            fetch |-> w.fetch, stream |-> w.stream, fresh |-> w.fresh, stopped |-> w.stopped,
            sending |-> w.sending, isStopped |-> w.isStopped,
            loading |-> w.loading, restored |-> w.restored]
      /\ w.listed = v.listed /\ w.cache = v.cache /\ w.fetch = v.fetch /\ w.stream = v.stream
      /\ w.fresh = v.fresh /\ w.stopped = v.stopped /\ w.sending = v.sending
      /\ w.isStopped = v.isStopped /\ w.loading = v.loading
      /\ w.current = cu /\ w.shown = sh /\ w.restored = re
  <2>1. v = [listed |-> v.listed, current |-> v.current, shown |-> v.shown, cache |-> v.cache,
           fetch |-> v.fetch, stream |-> v.stream, fresh |-> v.fresh, stopped |-> v.stopped,
           sending |-> v.sending, isStopped |-> v.isStopped,
           loading |-> v.loading, restored |-> v.restored]
    BY <1>1 DEF ViewShape
  <2> QED BY <2>1 DEF PutBack
<1>3. ViewShape(w, n)
  <2>1. w.current \in Conv \cup {Nobody}
    BY <1>1, <1>2 DEF ViewShape
  <2> QED BY <1>1, <1>2, <2>1 DEF ViewShape
<1>4. FreshFetched(w) /\ TempListed(w)
  <2>1. Nobody # "temp"
    BY ChatViewAssumption DEF Conv
  <2> QED BY <1>2, <2>1 DEF ViewRight, ViewReady, FreshFetched, TempListed
<1>5. \A d \in Conv : AnswerLive(w, d)
  BY <1>2 DEF ViewRight, ViewReady, AnswerLive
<1>6. FlagsRight(w)
  BY <1>2 DEF FlagsRight
<1> QED BY <1>2, <1>3, <1>4, <1>5, <1>6 DEF ViewRight, ViewReady

\* A conversation goes into the archive.
LEMMA ArchiveConversationStep ==
    ASSUME ViewInv, op = NoOp, changes < MaxChange, NEW c \in Conv, ArchiveConversation(c)
    PROVE  ViewInv' /\ LivePlacesKept
<1>1. PICK o : o = [kind |-> "archive", of |-> client.current, msg |-> Welcome, here |-> FALSE,
                    before |-> client.shown]
  OBVIOUS
<1>2. /\ client' = IF client.current = c THEN Emptied(client) ELSE client
      /\ op' = o /\ changes' = changes + 1 /\ turns' = turns /\ server' = server
  BY <1>1 DEF ArchiveConversation, Op
<1>3. ViewShape(client, turns) /\ ViewRight(client, turns) /\ turns \in Nat
  BY InvIs
<1>4. <<>> \in Thread(turns) /\ Welcome \in MessageUpTo(turns)
  BY <1>3, WelcomeIs
<1>5. /\ ViewRight(client', turns) /\ client'.listed = client.listed
      /\ client'.current \in {client.current, Nobody}
      /\ client'.cache = client.cache /\ client'.stream = client.stream
  <2>1. CASE client.current = c
    <3>1. PICK v : v = client
      OBVIOUS
    <3>2. PICK w : w = client'
      OBVIOUS
    <3>3. w = [v EXCEPT !.current = Nobody, !.shown = <<>>]
      BY <1>2, <2>1, <3>1, <3>2 DEF Emptied
    <3>4. /\ v = [listed |-> v.listed, current |-> v.current, shown |-> v.shown, cache |-> v.cache,
                 fetch |-> v.fetch, stream |-> v.stream, fresh |-> v.fresh, stopped |-> v.stopped,
                 sending |-> v.sending, isStopped |-> v.isStopped,
                 loading |-> v.loading, restored |-> v.restored]
          /\ v.restored \in BOOLEAN
      BY <1>3, <3>1 DEF ViewShape
    <3>5. PICK re \in BOOLEAN : re = v.restored
      BY <3>4
    <3>6. PICK cu \in v.listed \cup {Nobody} : cu = Nobody
      OBVIOUS
    <3>7. PICK sh \in Thread(turns) : sh = <<>>
      BY <1>4
    <3>8. w = PutBack(v, cu, sh, re) /\ (re \/ cu = Nobody)
      BY <3>3, <3>4, <3>5, <3>6, <3>7 DEF PutBack
    <3>9. ViewRight(v, turns)
      BY <1>3, <3>1
    <3>10. /\ ViewRight(w, turns) /\ w.listed = v.listed /\ w.current = cu
           /\ w.cache = v.cache /\ w.stream = v.stream
      BY <1>3, <3>8, <3>9, PutBackRight
    <3> QED BY <3>1, <3>2, <3>6, <3>10
  <2>2. CASE client.current # c
    BY <1>2, <1>3, <2>2
  <2> QED BY <2>1, <2>2
<1>6. ListedExist(client', server')
  BY <1>2, <1>5 DEF ViewInv, ListedExist, Active
<1>7. OpFits(op', client', server', turns') /\ op' # NoOp
  <2>1. /\ o.kind = "archive" /\ o.of = client.current /\ o.msg = Welcome /\ o.before = client.shown
        /\ o = [kind |-> o.kind, of |-> o.of, msg |-> o.msg, here |-> o.here, before |-> o.before]
    BY <1>1
  <2>2. client.shown \in Thread(turns) /\ "archive" \in Kinds
    BY <1>3 DEF ViewShape, Kinds
  <2>3. client.current \in client'.listed \cup {Nobody}
    BY <1>5 DEF ViewInv, ListedExist
  <2>4. o # NoOp
    BY <2>1 DEF NoOp, Op
  <2> QED BY <1>2, <1>4, <2>1, <2>2, <2>3, <2>4 DEF OpFits
<1>8. changes' \in 0..MaxChange
  BY <1>2, ChangeCounted
<1>9. ViewInv'
  BY <1>2, <1>5, <1>6, <1>7, <1>8 DEF ViewInv
<1> QED BY <1>7, <1>9, OpMoves

\* It is in the archive.
LEMMA ArchivedStep ==
    ASSUME ViewInv, Archived
    PROVE  ViewInv' /\ LivePlacesKept
<1>1. /\ op.kind # "none" /\ op' = NoOp
      /\ client' = client /\ server' = server /\ turns' = turns /\ changes' = changes
  BY DEF Archived
<1>2. ListedExist(client', server') /\ ServerShape(server', turns') /\ ViewRight(client', turns')
      /\ turns' \in 0..MaxTurn
  BY <1>1 DEF ViewInv
<1> QED BY <1>1, <1>2, OpEnds

\* It is not: what was shown before comes back.
LEMMA NotArchivedStep ==
    ASSUME ViewInv, NotArchived
    PROVE  ViewInv' /\ LivePlacesKept
<1>1. PICK u : u = client
  OBVIOUS
<1>2. PICK v : v = [u EXCEPT !.current = op.of, !.shown = op.before]
  OBVIOUS
<1>3. PICK w : w = client'
  OBVIOUS
<1>4. ViewShape(u, turns) /\ ViewRight(u, turns) /\ turns \in Nat
  BY <1>1, InvIs
<1>5. /\ u = [listed |-> u.listed, current |-> u.current, shown |-> u.shown, cache |-> u.cache,
              fetch |-> u.fetch, stream |-> u.stream, fresh |-> u.fresh, stopped |-> u.stopped,
              sending |-> u.sending, isStopped |-> u.isStopped,
              loading |-> u.loading, restored |-> u.restored]
      /\ u.restored \in BOOLEAN
  BY <1>4 DEF ViewShape
<1>6. PICK re \in BOOLEAN : re = (u.restored \/ v # u)
  OBVIOUS
<1>7. v.restored = u.restored
  BY <1>2, <1>5
<1>8. /\ op.kind = "archive" /\ op' = NoOp
      /\ w = [v EXCEPT !.restored = re]
      /\ server' = server /\ turns' = turns /\ changes' = changes
  BY <1>1, <1>2, <1>3, <1>6, <1>7 DEF NotArchived
<1>9. op.of \in u.listed \cup {Nobody} /\ op.before \in Thread(turns)
  BY <1>1, <1>8 DEF ViewInv, OpFits
<1>10. /\ ViewRight(w, turns) /\ w.listed = u.listed /\ w.current \in u.listed \cup {Nobody}
       /\ w.stream = u.stream
  <2>1. CASE v = u
    <3>1. w = u
      BY <1>5, <1>6, <1>8, <2>1
    <3>2. u.current \in u.listed \cup {Nobody}
      BY <1>1 DEF ViewInv, ListedExist
    <3> QED BY <1>4, <3>1, <3>2
  <2>2. CASE v # u
    <3>1. PICK cu \in u.listed \cup {Nobody} : cu = op.of
      BY <1>9
    <3>2. PICK sh \in Thread(turns) : sh = op.before
      BY <1>9
    <3>3. re
      BY <1>6, <2>2
    <3>4. w = PutBack(u, cu, sh, re)
      BY <1>2, <1>5, <1>8, <3>1, <3>2 DEF PutBack
    <3>5. re \/ cu = Nobody
      BY <3>3
    <3>6. ViewRight(w, turns) /\ w.listed = u.listed /\ w.current = cu /\ w.stream = u.stream
      BY <1>4, <3>4, <3>5, PutBackRight
    <3> QED BY <3>1, <3>6
  <2> QED BY <2>1, <2>2
<1>11. ListedExist(client', server')
  BY <1>1, <1>3, <1>8, <1>10 DEF ViewInv, ListedExist, Active
<1>12. op.kind # "none" /\ ServerShape(server', turns') /\ turns' \in 0..MaxTurn
  BY <1>8 DEF ViewInv
<1>13. ViewRight(client', turns')
  BY <1>3, <1>8, <1>10
<1> QED BY <1>8, <1>11, <1>12, <1>13, OpEnds

\* A step of the chat keeps the invariant, and the places of answers.
LEMMA ViewSteps ==
    ASSUME ViewInv, [ViewNext]_viewVars
    PROVE  ViewInv' /\ LivePlacesKept
<1>1. CASE UNCHANGED viewVars
  <2>1. client' = client /\ server' = server /\ op' = op /\ turns' = turns /\ changes' = changes
    BY <1>1 DEF viewVars
  <2>2. ViewInv'
    BY <2>1 DEF ViewInv
  <2>3. LivePlacesKept
    BY <2>1 DEF LivePlacesKept, PlaceLost
  <2> QED BY <2>2, <2>3
<1>2. CASE User
  <2>1. CASE \E c \in Conv : Select(c)
    BY <2>1, SelectStep
  <2>2. CASE Send \/ Continue \/ Stop
    BY <2>2, SendStep, ContinueStep, StopStep
  <2>3. CASE /\ op = NoOp /\ changes < MaxChange /\ client.current \in Old \cup {New}
             /\ \E i \in DOMAIN MessagesOf(client, client.current) :
                  DeleteMessage(i) \/ Regenerate(i)
    BY <2>3, DeleteMessageStep, RegenerateStep
  <2>4. CASE /\ op = NoOp /\ changes < MaxChange
             /\ \E kind \in {"create", "create and send"} : CreateConversation(kind)
    BY <2>4, CreateConversationStep
  <2>5. CASE op = NoOp /\ changes < MaxChange /\ \E c \in Conv : DeleteConversation(c)
    BY <2>5, DeleteConversationStep
  <2>6. CASE op = NoOp /\ changes < MaxChange /\ \E c \in Conv : ArchiveConversation(c)
    BY <2>6, ArchiveConversationStep
  <2> QED BY <1>2, <2>1, <2>2, <2>3, <2>4, <2>5, <2>6 DEF User
<1>3. CASE Network
  <2>1. CASE \E c \in Conv : ServeFetch(c) \/ FetchAnswers(c) \/ FetchFails(c)
    BY <2>1, ServeFetchStep, FetchAnswersStep, FetchFailsStep
  <2>2. CASE \E c \in Conv : Accept(c) \/ SendFails(c) \/ TellQuestion(c)
    BY <2>2, AcceptStep, SendFailsStep, TellQuestionStep
  <2>3. CASE \E c \in Conv : ReceivePiece(c) \/ Done(c) \/ StreamFails(c)
    BY <2>3, ReceivePieceStep, DoneStep, StreamFailsStep
  <2>4. CASE MessageDeleted \/ MessageStays \/ Truncated \/ NotTruncated
    BY <2>4, MessageDeletedStep, MessageStaysStep, TruncatedStep, NotTruncatedStep
  <2>5. CASE Created \/ NotCreated \/ ConversationDeleted \/ ConversationStays
    BY <2>5, CreatedStep, NotCreatedStep, ConversationDeletedStep, ConversationStaysStep
  <2>6. CASE Archived \/ NotArchived
    BY <2>6, ArchivedStep, NotArchivedStep
  <2> QED BY <1>3, <2>1, <2>2, <2>3, <2>4, <2>5, <2>6 DEF Network
<1> QED BY <1>1, <1>2, <1>3 DEF ViewNext

\* The chat begins with nothing shown.
LEMMA ViewBegins ==
    ASSUME ViewInit
    PROVE  ViewInv
<1>1. turns = 0 /\ changes = 0 /\ turns \in Nat /\ turns \in 0..MaxTurn /\ changes \in 0..MaxChange
  BY ChatViewAssumption DEF ViewInit
<1>2. PICK w : w = client
  OBVIOUS
<1>3. w = [listed |-> Old, current |-> Nobody, shown |-> <<>>,
           cache |-> [c \in Conv |-> Nobody],
           fetch |-> [c \in Conv |-> NoFetch],
           stream |-> [c \in Conv |-> NoStream],
           fresh |-> {}, stopped |-> {},
           sending |-> FALSE, isStopped |-> FALSE, loading |-> FALSE, restored |-> FALSE]
  BY <1>2 DEF ViewInit
<1>4. /\ w = [listed |-> w.listed, current |-> w.current, shown |-> w.shown, cache |-> w.cache,
            fetch |-> w.fetch, stream |-> w.stream, fresh |-> w.fresh, stopped |-> w.stopped,
            sending |-> w.sending, isStopped |-> w.isStopped,
            loading |-> w.loading, restored |-> w.restored]
      /\ w.listed = Old /\ w.current = Nobody /\ w.shown = <<>>
      /\ w.cache = [c \in Conv |-> Nobody] /\ w.fetch = [c \in Conv |-> NoFetch]
      /\ w.stream = [c \in Conv |-> NoStream] /\ w.fresh = {} /\ w.stopped = {}
      /\ w.sending = FALSE /\ w.isStopped = FALSE /\ w.loading = FALSE /\ w.restored = FALSE
  BY <1>3
<1>5. w.sending \in BOOLEAN /\ w.isStopped \in BOOLEAN /\ w.loading \in BOOLEAN
  BY <1>4
<1>6. /\ \A c \in Conv : w.cache[c] = Nobody /\ w.fetch[c] = NoFetch /\ w.stream[c] = NoStream
      /\ w.cache = [c \in Conv |-> w.cache[c]] /\ w.fetch = [c \in Conv |-> w.fetch[c]]
      /\ w.stream = [c \in Conv |-> w.stream[c]]
  BY <1>4
<1>7. /\ StreamShape(NoStream, turns) /\ NoStream.at = "none" /\ FetchShape(NoFetch, turns)
      /\ <<>> \in Thread(turns)
  BY <1>1, NoStreamIs, NoFetchIs, WelcomeIs
<1>8. Old \subseteq Conv /\ "temp" \notin Old /\ "temp" # Nobody
  BY ChatViewAssumption DEF Conv
<1>9. ViewShape(w, turns)
  BY <1>4, <1>5, <1>6, <1>7, <1>8 DEF ViewShape
<1>10. FreshFetched(w) /\ TempListed(w) /\ FlagsRight(w)
  BY <1>4, <1>8 DEF FreshFetched, TempListed, FlagsRight
<1>11. ~Question(NoStream)
  BY <1>7 DEF Question
<1>12. \A c \in Conv : AnswerLive(w, c)
  BY <1>6, <1>11 DEF AnswerLive
<1>13. ViewRight(client, turns)
  BY <1>2, <1>9, <1>10, <1>12 DEF ViewRight, ViewReady
<1>14. ASSUME NEW c \in Conv
       PROVE  Stored(c) \in Thread(turns) /\ \A i \in DOMAIN Stored(c) : Stored(c)[i].known
  <2>1. PICK q : q = <<Msg(c, 0, "user", "whole", TRUE)>>
    OBVIOUS
  <2>2. PICK a : a = <<Msg(c, 0, "assistant", "whole", TRUE)>>
    OBVIOUS
  <2>3. 0 \in 0..turns /\ "whole" \in Texts
    BY <1>1 DEF Texts
  <2>4. PICK m1 : m1 = Msg(c, 0, "user", "whole", TRUE)
    OBVIOUS
  <2>5. PICK m2 : m2 = Msg(c, 0, "assistant", "whole", TRUE)
    OBVIOUS
  <2>6. m1 \in MessageUpTo(turns) /\ m1.known /\ m2 \in MessageUpTo(turns) /\ m2.known
    BY <1>1, <2>3, <2>4, <2>5, MsgIs
  <2>7. <<m1, m2>> \in Thread(turns) /\ \A i \in DOMAIN <<m1, m2>> : <<m1, m2>>[i].known
    BY <2>6 DEF Thread
  <2>8. Stored(c) = <<m1, m2>>
    BY <2>4, <2>5 DEF Stored
  <2> QED BY <2>7, <2>8
<1>15. /\ server = [c \in Conv |-> server[c]]
       /\ \A c \in Conv : server[c] = IF c \in Old THEN Stored(c) ELSE Nobody
  BY DEF ViewInit
<1>16. ServerShape(server, turns)
  BY <1>14, <1>15 DEF ServerShape
<1>17. ListedExist(client, server)
  <2>1. \A c \in Old : server[c] # Nobody
    BY <1>1, <1>8, <1>14, <1>15, ThreadThere
  <2> QED BY <1>2, <1>4, <1>6, <1>7, <2>1 DEF ListedExist, Active
<1>18. OpFits(op, client, server, turns)
  BY <1>1, NoOpFits DEF ViewInit
<1> QED BY <1>1, <1>13, <1>16, <1>17, <1>18 DEF ViewInv

\* The invariant holds of every state of the chat.
LEMMA ViewStays == ViewSpec => []ViewInv
<1>1. ViewInit => ViewInv
  BY ViewBegins
<1>2. ViewInv /\ [ViewNext]_viewVars => ViewInv'
  BY ViewSteps
<1> QED BY <1>1, <1>2, PTL DEF ViewSpec

\* What is shown is the cache of the shown conversation, with its flags, for any
\* number of conversations, questions and changes.
THEOREM ChatShowsItsCache == ViewSpec => []ViewShowsItsCache
<1>1. ViewInv => ViewShowsItsCache
  <2> SUFFICES ASSUME ViewInv PROVE ViewShowsItsCache
    OBVIOUS
  <2>1. Thread(turns) \subseteq Messages
    <3>1. Thread(turns) \subseteq Thread(MaxTurn)
      BY InvIs, ThreadGrows
    <3>2. Thread(MaxTurn) = Messages
      BY DEF Thread, MessageUpTo, Messages, Texts
    <3> QED BY <3>1, <3>2
  <2>2. ViewTypeOK
    <3>1. /\ client.listed \subseteq Conv /\ client.current \in Conv \cup {Nobody}
          /\ client.shown \in Messages
      BY <2>1, InvIs DEF ViewShape
    <3>2. ASSUME NEW c \in Conv
          PROVE  /\ client.cache[c] = Nobody \/ client.cache[c] \in Messages
                 /\ client.fetch[c].at \in {"none", "asked", "served"}
                 /\ client.stream[c].at \in {"none", "sent", "open", "told"}
                 /\ client.stream[c].into \in 0..client.stream[c].turn
                 /\ server[c] = Nobody \/ server[c] \in Messages
      <4>1. client.cache[c] = Nobody \/ client.cache[c] \in Messages
        BY <2>1, InvIs DEF ViewShape
      <4>2. client.fetch[c].at \in {"none", "asked", "served"}
        BY InvIs DEF FetchShape
      <4>3. /\ client.stream[c].at \in {"none", "sent", "open", "told"}
            /\ client.stream[c].into \in 0..client.stream[c].turn
        BY InvIs DEF StreamShape
      <4>4. server[c] = Nobody \/ server[c] \in Messages
        BY <2>1 DEF ViewInv, ServerShape
      <4> QED BY <4>1, <4>2, <4>3, <4>4
    <3>3. client.fresh \subseteq {"fetch", "delete"} \X Conv /\ client.stopped \subseteq Conv
      BY InvIs DEF ViewShape
    <3>4. \A c \in Conv : <<"fetch", c>> \in client.fresh => client.fetch[c].at # "none"
      BY InvIs DEF ViewRight, ViewReady, FreshFetched
    <3>5. {client.sending, client.isStopped, client.loading, client.restored} \subseteq BOOLEAN
      BY InvIs DEF ViewShape
    <3>6. op.kind \in Kinds \cup {"none"} /\ turns \in 0..MaxTurn /\ changes \in 0..MaxChange
      BY DEF ViewInv, OpFits
    <3> QED BY <3>1, <3>2, <3>3, <3>4, <3>5, <3>6 DEF ViewTypeOK
  <2>3. FlagsRight(client)
    BY InvIs DEF ViewRight
  <2> QED BY <2>2, <2>3 DEF ViewShowsItsCache, FlagsRight, Shows
<1> QED BY <1>1, ViewStays, PTL

\* No answer to a question loses its place in its conversation to messages that
\* a selection requested.
THEOREM AnswersKeepTheirPlace == ViewSpec => LiveAnswersSurviveSwitches
<1>1. ViewInv /\ [ViewNext]_viewVars =>
        [\A c \in Conv : PlaceLost(c) =>
           \/ op' # op \/ client.fetch[c].after = "deletion"
           \/ client.stream[c].into # client.stream[c].turn]_viewVars
  BY ViewSteps DEF LivePlacesKept
<1> QED BY <1>1, ViewStays, PTL DEF ViewSpec, LiveAnswersSurviveSwitches

-----------------------------------------------------------------------------
(* The forms. *)

Rows == [Template -> Label \cup {Unnamed}]

\* The list l has each template of the rows r once, under its name.
ListsRows(l, r) ==
    /\ l \in Seq(TemplateItem)
    /\ \A i, j \in DOMAIN l : l[i].id = l[j].id => i = j
    /\ \A i \in DOMAIN l : r[l[i].id] = l[i].name
    /\ \A t \in Template : r[t] # Unnamed => \E i \in DOMAIN l : l[i].id = t

\* The page of the templates.
PageFit(p) ==
    /\ p = [list |-> p.list, selected |-> p.selected, mode |-> p.mode, draft |-> p.draft,
            error |-> p.error]
    /\ p.list \in Seq(TemplateItem) /\ p.selected \in Template \cup {NoRow}
    /\ p.mode \in {"none", "view", "edit", "create"} /\ p.draft \in Label \cup {Unnamed}
    /\ p.error \in BOOLEAN
    /\ p.mode = "edit" => p.selected \in Template

\* The change that it waits for.
SavingFit(s) ==
    /\ s = [kind |-> s.kind, of |-> s.of, name |-> s.name, at |-> s.at]
    /\ s.kind \in {"none", "create", "update", "delete"}
    /\ s.at \in {"none", "asked", "done", "refused"}
    /\ s.kind = "none" <=> s = NoSave
    /\ s.kind \in {"update", "delete"} => s.of \in Template
    /\ s.kind \in {"create", "update"} => s.name \in Label
    /\ s.at = "done" => s.of \in Template

\* Its request for the list.
ListingFit(g) ==
    /\ g = [at |-> g.at, rows |-> g.rows]
    /\ g.at \in {"asked", "served", "ended"} /\ g.rows \in Rows

\* The rows, and the ids that were given.
LibraryFit(b) ==
    /\ b = [rows |-> b.rows, spent |-> b.spent]
    /\ b.rows \in Rows /\ b.spent \subseteq Template
    /\ \A t \in Template : b.rows[t] # Unnamed => t \in b.spent

\* The change s makes q of the rows r.
ChangedBy(s, r, q) ==
    /\ q = [r EXCEPT ![s.of] = IF s.kind = "delete" THEN Unnamed ELSE s.name]
    /\ r[s.of] = Unnamed <=> s.kind = "create"

\* The list l is of the rows q, but for the change s if the server has made it.
ListTells(l, q, s) ==
    \E r \in Rows : ListsRows(l, r) /\ IF s.at = "done" THEN ChangedBy(s, r, q) ELSE q = r

\* The page has the list of the rows q, or will have it, unless b says otherwise.
ToldFits(l, q, s, g, b) ==
    b => IF g.at = "ended" THEN ListTells(l, q, s)
         ELSE s = NoSave /\ (g.at = "served" => g.rows = q)

TemplatesInv ==
    /\ LibraryFit(library) /\ ListingFit(listing) /\ told \in BOOLEAN
    /\ PageFit(page) /\ SavingFit(saving)
    /\ ToldFits(page.list, library.rows, saving, listing, told)

\* The settings of each conversation are made for it, if b does not say otherwise.
SettingsOf(f, b) == f \in [Chat -> Setting] /\ (~b => \A c \in Chat : f[c].of = c)

\* So is the draft of the dialog.
DialogFit(d, b) ==
    /\ d = [open |-> d.open, draft |-> d.draft, current |-> d.current]
    /\ d.open \in BOOLEAN
    /\ d.current \in Chat \cup {NoRow} /\ d.draft \in Setting \cup {NoRow}
    /\ d.draft # NoRow => d.open
    /\ d.draft # NoRow /\ ~b => d.current # NoRow /\ d.draft.of = d.current

\* And a save that waits for its answer.
PatchFit(p, b) ==
    /\ p = [to |-> p.to, value |-> p.value, before |-> p.before]
    /\ p.to \in Chat /\ p.value \in Setting /\ SettingsOf(p.before, b)
    /\ ~b => p.value.of = p.to

DialogInv ==
    /\ moved \in BOOLEAN /\ DialogFit(dialog, moved)
    /\ settings = [s \in {"shown", "stored"} |-> settings[s]]
    /\ \A s \in {"shown", "stored"} : SettingsOf(settings[s], moved)
    /\ \A p \in patches : PatchFit(p, moved)

\* The dialog is right at first.
LEMMA DialogBegins == FormsInit => DialogInv
<1> SUFFICES ASSUME FormsInit PROVE DialogInv
  OBVIOUS
<1>1. DialogFit(dialog, moved)
  <2>1. PICK c \in Chat : dialog = [open |-> FALSE, draft |-> NoRow, current |-> c]
    BY DEF FormsInit
  <2> QED BY <2>1 DEF DialogFit
<1>2. PICK f : f = [c \in Chat |-> [text |-> 0, of |-> c]]
  OBVIOUS
<1>3. SettingsOf(f, moved)
  BY <1>2 DEF SettingsOf, Setting
<1>4. settings = [s \in {"shown", "stored"} |-> f]
  BY <1>2 DEF FormsInit
<1>5. \A s \in {"shown", "stored"} : settings[s] = f
  BY <1>4
<1> QED BY <1>1, <1>3, <1>4, <1>5 DEF FormsInit, DialogInv

\* What the dialog copies from.
LEMMA FormIs ==
    ASSUME DialogInv, dialog.current \in Chat
    PROVE  /\ FormOf \in Setting /\ (~moved => FormOf.of = dialog.current)
           /\ FormOf = [text |-> FormOf.text, of |-> FormOf.of]
<1>1. FormOf \in Setting /\ (~moved => FormOf.of = dialog.current)
  <2>1. CASE dialog.draft # NoRow
    BY <2>1 DEF FormOf, DialogInv, DialogFit
  <2>2. CASE dialog.draft = NoRow
    BY <2>2 DEF FormOf, DialogInv, SettingsOf
  <2> QED BY <2>1, <2>2
<1> QED BY <1>1 DEF Setting

\* Steps that change the dialog only.
LEMMA DialogChanges ==
    ASSUME DialogInv, NEW d, dialog' = d, DialogFit(d, moved),
           UNCHANGED <<settings, patches, moved>>
    PROVE  DialogInv'
BY DEF DialogInv, DialogFit, SettingsOf, PatchFit

\* A dialog that is closed has no draft.
LEMMA ClosedFits ==
    ASSUME NEW d, NEW b, DialogFit(d, b)
    PROVE  DialogFit(ClosedDialog(d), b)
<1>1. PICK e : e = ClosedDialog(d)
  OBVIOUS
<1>2. e = [open |-> FALSE, draft |-> NoRow, current |-> d.current]
  BY <1>1 DEF ClosedDialog, DialogFit
<1> QED BY <1>1, <1>2 DEF DialogFit

\* A draft is made.
LEMMA DraftMade ==
    ASSUME DialogInv, dialog.open, dialog.current \in Chat, NEW v \in Setting,
           ~moved => v.of = dialog.current, dialog' = [dialog EXCEPT !.draft = v],
           UNCHANGED <<settings, patches, moved>>
    PROVE  DialogInv'
<1>1. PICK e : e = [dialog EXCEPT !.draft = v]
  OBVIOUS
<1>2. e = [open |-> dialog.open, draft |-> v, current |-> dialog.current]
  BY <1>1 DEF DialogInv, DialogFit
<1>3. DialogFit(e, moved)
  BY <1>2, FormsAssumption DEF DialogInv, DialogFit
<1> QED BY <1>1, <1>3, DialogChanges

\* The user changes the settings of the form.
LEMMA SettingsChange == DialogInv /\ (ChangeSettings \/ ResetSettings) => DialogInv'
<1> SUFFICES ASSUME DialogInv, ChangeSettings \/ ResetSettings PROVE DialogInv'
  OBVIOUS
<1>1. /\ dialog.open /\ dialog.current \in Chat /\ UNCHANGED <<settings, patches, moved>>
  BY DEF DialogInv, DialogFit, ChangeSettings, ResetSettings, OnlyDialog
<1>2. CASE ChangeSettings
  <2>1. PICK text \in 0 .. 1 : dialog' = [dialog EXCEPT !.draft = [FormOf EXCEPT !.text = text]]
    BY <1>2 DEF ChangeSettings
  <2>2. PICK f : f = FormOf
    OBVIOUS
  <2>3. PICK v : v = [f EXCEPT !.text = text]
    OBVIOUS
  <2>4. /\ f \in Setting /\ (~moved => f.of = dialog.current)
        /\ f = [text |-> f.text, of |-> f.of]
    BY <1>1, <2>2, FormIs
  <2>5. v = [text |-> text, of |-> f.of]
    BY <2>3, <2>4
  <2>6. v \in Setting /\ (~moved => v.of = dialog.current)
    BY <2>4, <2>5 DEF Setting
  <2> QED BY <1>1, <2>1, <2>2, <2>3, <2>6, DraftMade
<1>3. CASE ResetSettings
  <2>1. PICK v : v = [text |-> 0, of |-> dialog.current]
    OBVIOUS
  <2>2. v \in Setting /\ v.of = dialog.current
    BY <1>1, <2>1 DEF Setting
  <2>3. dialog' = [dialog EXCEPT !.draft = v]
    BY <1>3, <2>1 DEF ResetSettings
  <2> QED BY <1>1, <2>2, <2>3, DraftMade
<1> QED BY <1>2, <1>3

\* The dialog is opened or closed.
LEMMA DialogToggles == DialogInv /\ (CloseSettings \/ OpenSettings) => DialogInv'
<1> SUFFICES ASSUME DialogInv, CloseSettings \/ OpenSettings PROVE DialogInv'
  OBVIOUS
<1>1. UNCHANGED <<settings, patches, moved>> /\ DialogFit(dialog, moved)
  BY DEF DialogInv, CloseSettings, OpenSettings, OnlyDialog
<1>2. CASE CloseSettings
  BY <1>1, <1>2, ClosedFits, DialogChanges DEF CloseSettings
<1>3. CASE OpenSettings
  <2>1. PICK e : e = [dialog EXCEPT !.open = TRUE]
    OBVIOUS
  <2>2. e = [open |-> TRUE, draft |-> dialog.draft, current |-> dialog.current]
    BY <1>1, <2>1 DEF DialogFit
  <2>3. DialogFit(e, moved)
    BY <1>1, <2>2 DEF DialogFit
  <2> QED BY <1>1, <1>3, <2>1, <2>3, DialogChanges DEF OpenSettings
<1> QED BY <1>2, <1>3

\* The user selects another conversation.
LEMMA ChatSelected == DialogInv /\ SelectChat => DialogInv'
<1> SUFFICES ASSUME DialogInv, SelectChat PROVE DialogInv'
  OBVIOUS
<1>1. PICK c \in Chat \cup {NoRow} : dialog' = [dialog EXCEPT !.current = c]
  BY DEF SelectChat
<1>2. /\ moved' = (moved \/ (dialog.open /\ dialog.draft # NoRow))
      /\ UNCHANGED <<settings, patches>>
  BY DEF SelectChat, OnlyDialog
<1>3. DialogFit(dialog, moved) /\ moved \in BOOLEAN
  BY DEF DialogInv
<1>4. dialog' = [open |-> dialog.open, draft |-> dialog.draft, current |-> c]
  BY <1>1, <1>3 DEF DialogFit
<1>5. (moved => moved') /\ moved' \in BOOLEAN
  BY <1>2, <1>3
<1>6. DialogFit(dialog', moved')
  BY <1>2, <1>3, <1>4 DEF DialogFit
<1>7. \A s \in {"shown", "stored"} : SettingsOf(settings[s], moved')
  BY <1>5 DEF DialogInv, SettingsOf
<1>8. \A p \in patches : PatchFit(p, moved')
  BY <1>5 DEF DialogInv, SettingsOf, PatchFit
<1> QED BY <1>2, <1>5, <1>6, <1>7, <1>8 DEF DialogInv, DialogFit, SettingsOf, PatchFit

\* Settings are written for one conversation.
LEMMA SettingWritten ==
    ASSUME NEW f, NEW b, SettingsOf(f, b), NEW c \in Chat, NEW v \in Setting, ~b => v.of = c,
           NEW g, g = [f EXCEPT ![c] = v]
    PROVE  SettingsOf(g, b)
BY DEF SettingsOf

\* Steps that change the settings.
LEMMA SettingsWritten ==
    ASSUME DialogInv, NEW f, NEW g, SettingsOf(f, moved), SettingsOf(g, moved),
           settings' = [s \in {"shown", "stored"} |-> IF s = "shown" THEN f ELSE g],
           DialogFit(dialog', moved), \A p \in patches' : PatchFit(p, moved), UNCHANGED moved
    PROVE  DialogInv'
<1>1. settings' = [s \in {"shown", "stored"} |-> settings'[s]]
  OBVIOUS
<1>2. \A s \in {"shown", "stored"} : SettingsOf(settings'[s], moved)
  OBVIOUS
<1> QED BY <1>1, <1>2 DEF DialogInv, DialogFit, SettingsOf, PatchFit

\* The form is saved.
LEMMA SettingsSaved == DialogInv /\ SaveSettings => DialogInv'
<1> SUFFICES ASSUME DialogInv, SaveSettings PROVE DialogInv'
  OBVIOUS
<1>1. PICK f : f = settings["shown"]
  OBVIOUS
<1>2. PICK g : g = settings["stored"]
  OBVIOUS
<1>3. PICK c : c = dialog.current
  OBVIOUS
<1>4. PICK v : v = dialog.draft
  OBVIOUS
<1>5. SettingsOf(f, moved) /\ SettingsOf(g, moved) /\ DialogFit(dialog, moved)
  BY <1>1, <1>2 DEF DialogInv
<1>6. /\ c \in Chat /\ v \in Setting /\ (~moved => v.of = c)
      /\ UNCHANGED <<dialog, moved>>
      /\ settings' = [settings EXCEPT !["shown"][c] = v]
      /\ patches' = {[to |-> c, value |-> v, before |-> f]}
  BY <1>1, <1>3, <1>4, <1>5 DEF SaveSettings, Dirty, DialogFit
<1>7. PICK h : h = [f EXCEPT ![c] = v]
  OBVIOUS
<1>8. SettingsOf(h, moved)
  BY <1>5, <1>6, <1>7, SettingWritten
<1>9. settings' = [s \in {"shown", "stored"} |-> IF s = "shown" THEN h ELSE g]
  BY <1>1, <1>2, <1>6, <1>7 DEF DialogInv
<1>10. \A p \in patches' : PatchFit(p, moved)
  <2>1. PICK q : q = [to |-> c, value |-> v, before |-> f]
    OBVIOUS
  <2>2. PatchFit(q, moved)
    BY <1>5, <1>6, <2>1 DEF PatchFit
  <2> QED BY <1>6, <2>1, <2>2
<1> QED BY <1>5, <1>6, <1>8, <1>9, <1>10, SettingsWritten

\* The save is answered, or fails.
LEMMA SaveEnds == DialogInv /\ (PatchAnswered \/ PatchFails) => DialogInv'
<1> SUFFICES ASSUME DialogInv, PatchAnswered \/ PatchFails PROVE DialogInv'
  OBVIOUS
<1>1. PICK f : f = settings["shown"]
  OBVIOUS
<1>2. PICK g : g = settings["stored"]
  OBVIOUS
<1>3. SettingsOf(f, moved) /\ SettingsOf(g, moved) /\ DialogFit(dialog, moved)
  BY <1>1, <1>2 DEF DialogInv
<1>4. ASSUME NEW p \in patches, PatchEnds(p)
      PROVE  /\ PatchFit(p, moved) /\ DialogFit(dialog', moved) /\ UNCHANGED moved
             /\ \A q \in patches' : PatchFit(q, moved)
  BY <1>3, <1>4, ClosedFits DEF PatchEnds, DialogInv
<1>5. CASE PatchAnswered
  <2>1. PICK p \in patches :
          /\ settings' = [s \in {"shown", "stored"} |-> [settings[s] EXCEPT ![p.to] = p.value]]
          /\ PatchEnds(p)
    BY <1>5 DEF PatchAnswered
  <2>2. PICK h : h = [f EXCEPT ![p.to] = p.value]
    OBVIOUS
  <2>3. PICK k : k = [g EXCEPT ![p.to] = p.value]
    OBVIOUS
  <2>4. settings' = [s \in {"shown", "stored"} |-> IF s = "shown" THEN h ELSE k]
    BY <1>1, <1>2, <2>1, <2>2, <2>3
  <2>5. p.to \in Chat /\ p.value \in Setting /\ (~moved => p.value.of = p.to)
    BY <1>4, <2>1 DEF PatchFit
  <2>6. SettingsOf(h, moved) /\ SettingsOf(k, moved)
    BY <1>3, <2>2, <2>3, <2>5, SettingWritten
  <2> QED BY <1>4, <2>1, <2>4, <2>6, SettingsWritten
<1>6. CASE PatchFails
  <2>1. PICK p \in patches, taken \in BOOLEAN :
          /\ settings' = [shown |-> p.before,
                          stored |-> IF taken THEN [settings["stored"] EXCEPT ![p.to] = p.value]
                                     ELSE settings["stored"]]
          /\ PatchEnds(p)
    BY <1>6 DEF PatchFails
  <2>2. PICK k : k = IF taken THEN [g EXCEPT ![p.to] = p.value] ELSE g
    OBVIOUS
  <2>3. settings' = [shown |-> p.before, stored |-> k]
    BY <1>2, <2>1, <2>2
  <2>4. settings' = [s \in {"shown", "stored"} |-> IF s = "shown" THEN p.before ELSE k]
    BY <2>3
  <2>5. /\ p.to \in Chat /\ p.value \in Setting /\ (~moved => p.value.of = p.to)
        /\ SettingsOf(p.before, moved)
    BY <1>4, <2>1 DEF PatchFit
  <2>6. SettingsOf(k, moved)
    <3>1. PICK h : h = [g EXCEPT ![p.to] = p.value]
      OBVIOUS
    <3>2. SettingsOf(h, moved)
      BY <1>3, <2>5, <3>1, SettingWritten
    <3> QED BY <1>3, <2>2, <3>1, <3>2
  <2> QED BY <1>4, <2>1, <2>4, <2>5, <2>6, SettingsWritten
<1> QED BY <1>5, <1>6

\* Every step of the dialog keeps it right, and other steps leave it alone.
LEMMA DialogSteps ==
    DialogInv /\ (DialogNext \/ UNCHANGED dialogVars) => DialogInv'
<1> SUFFICES ASSUME DialogInv, DialogNext \/ UNCHANGED dialogVars PROVE DialogInv'
  OBVIOUS
<1>1. CASE UNCHANGED dialogVars
  BY <1>1 DEF dialogVars, DialogInv, DialogFit, SettingsOf, PatchFit
<1>2. CASE DialogNext
  BY <1>2, SettingsChange, DialogToggles, ChatSelected, SettingsSaved, SaveEnds DEF DialogNext
<1> QED BY <1>1, <1>2

\* A template in a list.
LEMMA ItemIs ==
    ASSUME NEW x \in TemplateItem
    PROVE  /\ x = [id |-> x.id, name |-> x.name]
           /\ x.id \in Template /\ x.name \in Label /\ x.name # Unnamed
BY FormsAssumption DEF TemplateItem

\* What a list of rows has at a place.
LEMMA ListedIs ==
    ASSUME NEW r, NEW l, ListsRows(l, r), NEW i \in DOMAIN l
    PROVE  /\ l[i] \in TemplateItem /\ l[i] = [id |-> l[i].id, name |-> l[i].name]
           /\ l[i].id \in Template /\ l[i].name \in Label /\ l[i].name # Unnamed
           /\ l[i].name = r[l[i].id]
<1>1. l[i] \in TemplateItem
  BY DEF ListsRows
<1> QED BY <1>1, ItemIs DEF ListsRows

\* The list of rows has each once.
LEMMA ListedOnce ==
    ASSUME NEW r \in Rows, NEW l, ListsRows(l, r)
    PROVE  ToSet(l) = Items(r) /\ Len(l) = Cardinality(Items(r))
<1>1. PICK n \in Nat : n = Len(l) /\ DOMAIN l = 1 .. n
  BY DEF ListsRows
<1>2. \A i \in 1 .. n : /\ l[i] = [id |-> l[i].id, name |-> l[i].name]
                        /\ l[i].id \in Template /\ l[i].name \in Label
                        /\ l[i].name # Unnamed /\ l[i].name = r[l[i].id]
  BY <1>1, ListedIs
<1>3. \A i \in 1 .. n : l[i] \in Items(r)
  <2> SUFFICES ASSUME NEW i \in 1 .. n PROVE l[i] \in Items(r)
    OBVIOUS
  <2>1. r[l[i].id] = l[i].name /\ l[i].name # Unnamed
    BY <1>2
  <2> QED BY <1>2, <2>1 DEF Items
<1>4. \A x \in Items(r) : \E i \in 1 .. n : l[i] = x
  <2> SUFFICES ASSUME NEW x \in Items(r) PROVE \E i \in 1 .. n : l[i] = x
    OBVIOUS
  <2>1. PICK t \in Template : r[t] # Unnamed /\ x = [id |-> t, name |-> r[t]]
    BY DEF Items
  <2>2. PICK i \in 1 .. n : l[i].id = t
    BY <1>1, <2>1 DEF ListsRows
  <2>3. l[i] = [id |-> t, name |-> r[t]]
    BY <1>1, <1>2, <2>2 DEF ListsRows
  <2> QED BY <2>1, <2>3
<1>5. ToSet(l) = Items(r)
  BY <1>1, <1>3, <1>4 DEF ToSet
<1>6. l \in [1 .. n -> Items(r)] /\ \A i, j \in 1 .. n : l[i] = l[j] => i = j
  <2>1. l = [i \in 1 .. n |-> l[i]]
    BY <1>1 DEF ListsRows
  <2> QED BY <1>1, <1>3, <2>1 DEF ListsRows
<1>7. l \in Bijection(1 .. n, Items(r))
  BY <1>4, <1>6 DEF Bijection, Injection, Surjection, IsInjective
<1>8. IsFiniteSet(1 .. n) /\ Cardinality(1 .. n) = n
  BY FS_Interval
<1>9. Cardinality(Items(r)) = n
  BY <1>7, <1>8, FS_Bijection DEF ExistsBijection
<1> QED BY <1>1, <1>5, <1>9

\* The items of rows are finitely many.
LEMMA ItemsFinite ==
    ASSUME NEW r \in Rows
    PROVE  IsFiniteSet(Items(r))
<1>1. PICK T : T = {t \in Template : r[t] # Unnamed}
  OBVIOUS
<1>2. IsFiniteSet(T)
  BY <1>1, FormsAssumption, FS_Subset
<1>3. PICK f : f = [t \in T |-> [id |-> t, name |-> r[t]]]
  OBVIOUS
<1>4. f \in Surjection(T, Items(r))
  BY <1>1, <1>3 DEF Items, Surjection
<1> QED BY <1>2, <1>4, FS_Surjection

\* The list that is read has each row once.
LEMMA ItemsOrdered ==
    ASSUME NEW r \in Rows
    PROVE  ListsRows(SetToSeq(Items(r)), r)
<1>1. PICK S : S = Items(r)
  OBVIOUS
<1>2. PICK n \in Nat : n = Cardinality(S)
  BY <1>1, ItemsFinite, FS_CardinalityType
<1>3. PICK f \in Bijection(1 .. n, S) : TRUE
  BY <1>1, <1>2, ItemsFinite, FS_CardinalityType DEF ExistsBijection
<1>4. PICK l : l = SetToSeq(S)
  OBVIOUS
<1>5. l \in [1 .. n -> S] /\ IsInjective(l)
  <2>1. f \in [1 .. n -> S] /\ IsInjective(f)
    BY <1>3 DEF Bijection, Injection
  <2> QED BY <1>2, <1>4, <2>1 DEF SetToSeq
<1>6. l \in Surjection(1 .. n, S)
  <2>1. Cardinality(1 .. n) = n /\ IsFiniteSet(S) /\ l \in Injection(1 .. n, S)
    BY <1>1, <1>5, ItemsFinite, FS_Interval DEF Injection
  <2> QED BY <1>2, <2>1, FS_Injection
<1>7. \A x \in S : /\ x = [id |-> x.id, name |-> x.name]
                   /\ x.id \in Template /\ x.name = r[x.id] /\ x.name \in Label
  BY <1>1 DEF Items, Rows
<1>8. DOMAIN l = 1 .. n /\ Len(l) = n /\ \A i \in 1 .. n : l[i] \in S
  BY <1>5
<1>9. l \in Seq(TemplateItem)
  <2>1. \A x \in S : x \in TemplateItem
    BY <1>7 DEF TemplateItem
  <2> QED BY <1>5, <2>1
<1>10. \A i, j \in 1 .. n : l[i].id = l[j].id => i = j
  <2> SUFFICES ASSUME NEW i \in 1 .. n, NEW j \in 1 .. n, l[i].id = l[j].id PROVE i = j
    OBVIOUS
  <2>1. l[i] = l[j]
    BY <1>7, <1>8
  <2> QED BY <1>5, <1>8, <2>1 DEF IsInjective
<1>11. \A t \in Template : r[t] # Unnamed => \E i \in 1 .. n : l[i].id = t
  <2> SUFFICES ASSUME NEW t \in Template, r[t] # Unnamed PROVE \E i \in 1 .. n : l[i].id = t
    OBVIOUS
  <2>1. PICK x : x = [id |-> t, name |-> r[t]]
    OBVIOUS
  <2>2. x \in S
    BY <1>1, <2>1 DEF Items
  <2>3. PICK i \in 1 .. n : l[i] = x
    BY <1>6, <2>2 DEF Surjection
  <2> QED BY <2>1, <2>3
<1> QED BY <1>1, <1>4, <1>7, <1>8, <1>9, <1>10, <1>11 DEF ListsRows

\* A created template is put before the others.
LEMMA CreatedListed ==
    ASSUME NEW r \in Rows, NEW l, ListsRows(l, r), NEW t \in Template, r[t] = Unnamed,
           NEW name \in Label, NEW q, q = [r EXCEPT ![t] = name]
    PROVE  ListsRows(<<[id |-> t, name |-> name]>> \o l, q)
<1>1. PICK x : x = [id |-> t, name |-> name]
  OBVIOUS
<1>2. PICK k : k = <<x>> \o l
  OBVIOUS
<1>3. x \in TemplateItem /\ x.id = t /\ x.name = name
  BY <1>1 DEF TemplateItem
<1>4. l \in Seq(TemplateItem)
  BY DEF ListsRows
<1>5. PICK n \in Nat : n = Len(l) /\ DOMAIN l = 1 .. n
  BY <1>4
<1>6. k \in Seq(TemplateItem) /\ Len(k) = n + 1 /\ DOMAIN k = 1 .. (n + 1) /\ k[1] = x
  BY <1>2, <1>3, <1>4, <1>5
<1>7. \A i \in 1 .. n : i + 1 \in 1 .. (n + 1) /\ k[i + 1] = l[i]
  BY <1>2, <1>3, <1>4, <1>5
<1>8. \A i \in 1 .. (n + 1) : i = 1 \/ \E j \in 1 .. n : i = j + 1
  <2> SUFFICES ASSUME NEW i \in 1 .. (n + 1), i # 1 PROVE \E j \in 1 .. n : i = j + 1
    OBVIOUS
  <2>1. i - 1 \in 1 .. n /\ i = (i - 1) + 1
    OBVIOUS
  <2> QED BY <2>1
<1>9. \A i \in 1 .. n : /\ l[i].id \in Template /\ l[i].id # t /\ l[i].name = r[l[i].id]
                        /\ l[i].name # Unnamed
  <2> SUFFICES ASSUME NEW i \in 1 .. n
               PROVE  /\ l[i].id \in Template /\ l[i].id # t /\ l[i].name = r[l[i].id]
                      /\ l[i].name # Unnamed
    OBVIOUS
  <2> QED BY <1>5, ListedIs
<1>10. \A u \in Template : q[u] = IF u = t THEN name ELSE r[u]
  BY DEF Rows
<1>11. \A i, j \in 1 .. (n + 1) : k[i].id = k[j].id => i = j
  <2> SUFFICES ASSUME NEW i \in 1 .. (n + 1), NEW j \in 1 .. (n + 1), k[i].id = k[j].id
               PROVE  i = j
    OBVIOUS
  <2>1. CASE i = 1 /\ j = 1
    BY <2>1
  <2>2. CASE i # 1 /\ j = 1
    BY <1>3, <1>6, <1>7, <1>8, <1>9, <2>2
  <2>3. CASE i = 1 /\ j # 1
    BY <1>3, <1>6, <1>7, <1>8, <1>9, <2>3
  <2>4. CASE i # 1 /\ j # 1
    <3>1. PICK a \in 1 .. n : i = a + 1
      BY <1>8, <2>4
    <3>2. PICK b \in 1 .. n : j = b + 1
      BY <1>8, <2>4
    <3>3. l[a].id = l[b].id
      BY <1>7, <3>1, <3>2
    <3>4. a = b
      BY <1>5, <3>3 DEF ListsRows
    <3> QED BY <3>1, <3>2, <3>4
  <2> QED BY <2>1, <2>2, <2>3, <2>4
<1>12. \A i \in 1 .. (n + 1) : q[k[i].id] = k[i].name
  <2> SUFFICES ASSUME NEW i \in 1 .. (n + 1) PROVE q[k[i].id] = k[i].name
    OBVIOUS
  <2>1. CASE i = 1
    BY <1>3, <1>6, <1>10, <2>1
  <2>2. CASE i # 1
    <3>1. PICK a \in 1 .. n : i = a + 1
      BY <1>8, <2>2
    <3> QED BY <1>7, <1>9, <1>10, <3>1
  <2> QED BY <2>1, <2>2
<1>13. \A u \in Template : q[u] # Unnamed => \E i \in 1 .. (n + 1) : k[i].id = u
  <2> SUFFICES ASSUME NEW u \in Template, q[u] # Unnamed
               PROVE  \E i \in 1 .. (n + 1) : k[i].id = u
    OBVIOUS
  <2>1. CASE u = t
    BY <1>3, <1>6, <2>1
  <2>2. CASE u # t
    <3>1. r[u] # Unnamed
      BY <1>10, <2>2
    <3>2. PICK a \in 1 .. n : l[a].id = u
      BY <1>5, <3>1 DEF ListsRows
    <3> QED BY <1>7, <3>2
  <2> QED BY <2>1, <2>2
<1> QED BY <1>1, <1>2, <1>6, <1>11, <1>12, <1>13 DEF ListsRows

\* The list l when t has another name.
Renamed(l, t, name) ==
    [i \in DOMAIN l |-> IF l[i].id = t THEN [id |-> t, name |-> name] ELSE l[i]]

\* One that is changed has its place.
LEMMA UpdatedListed ==
    ASSUME NEW r \in Rows, NEW l, ListsRows(l, r), NEW t \in Template, r[t] # Unnamed,
           NEW name \in Label, NEW q, q = [r EXCEPT ![t] = name]
    PROVE  ListsRows(Renamed(l, t, name), q)
<1>1. PICK x : x = [id |-> t, name |-> name]
  OBVIOUS
<1>2. PICK k : k = [i \in DOMAIN l |-> IF l[i].id = t THEN x ELSE l[i]]
  OBVIOUS
<1>3. x \in TemplateItem /\ x.id = t /\ x.name = name
  BY <1>1 DEF TemplateItem
<1>4. k \in Seq(TemplateItem) /\ DOMAIN k = DOMAIN l /\ \A i \in DOMAIN k : k[i].id = l[i].id
  BY <1>2, <1>3 DEF ListsRows
<1>5. \A u \in Template : q[u] = IF u = t THEN name ELSE r[u]
  BY DEF Rows
<1>6. \A i \in DOMAIN l : l[i].id \in Template
  BY ListedIs
<1>7. \A i \in DOMAIN k : q[k[i].id] = k[i].name
  BY <1>2, <1>3, <1>4, <1>5, <1>6 DEF ListsRows
<1>8. \A u \in Template : q[u] # Unnamed => \E i \in DOMAIN k : k[i].id = u
  BY <1>4, <1>5 DEF ListsRows
<1>9. \A i, j \in DOMAIN k : k[i].id = k[j].id => i = j
  BY <1>4 DEF ListsRows
<1>10. k = Renamed(l, t, name)
  BY <1>1, <1>2 DEF Renamed
<1> QED BY <1>4, <1>7, <1>8, <1>9, <1>10 DEF ListsRows

\* One that is deleted is taken out.
LEMMA DeletedListed ==
    ASSUME NEW r \in Rows, NEW l, ListsRows(l, r), NEW t \in Template,
           NEW q, q = [r EXCEPT ![t] = Unnamed]
    PROVE  ListsRows(Without(l, {i \in DOMAIN l : l[i].id = t}), q)
<1>1. PICK gone : gone = {i \in DOMAIN l : l[i].id = t}
  OBVIOUS
<1>2. PICK k : k = Without(l, gone)
  OBVIOUS
<1>3. l \in Seq(TemplateItem)
  BY DEF ListsRows
<1>4. FilteredFrom(l, gone, Len(l), k, TemplateItem)
  BY <1>2, <1>3, WithoutIs
<1>5. PICK n \in Nat : n = Len(l) /\ DOMAIN l = 1 .. n
  BY <1>3
<1>6. PICK m \in Nat : m = Len(k) /\ DOMAIN k = 1 .. m
  BY <1>4 DEF FilteredFrom
<1>7. k \in Seq(TemplateItem)
  BY <1>4 DEF FilteredFrom
<1>8. \A x : (\E j \in 1 .. m : k[j] = x) <=> (\E i \in 1 .. n : i \notin gone /\ l[i] = x)
  BY <1>4, <1>5, <1>6 DEF FilteredFrom
<1>9. \A i, j \in 1 .. n : l[i].id = l[j].id => i = j
  BY <1>5 DEF ListsRows
<1>10. \A i, j \in 1 .. m : k[i] = k[j] => i = j
  BY <1>4, <1>5, <1>6, <1>9 DEF FilteredFrom
<1>11. \A i, j \in 1 .. m : k[i].id = k[j].id => i = j
  <2> SUFFICES ASSUME NEW i \in 1 .. m, NEW j \in 1 .. m, k[i].id = k[j].id PROVE i = j
    OBVIOUS
  <2>1. PICK a \in 1 .. n : l[a] = k[i]
    BY <1>8
  <2>2. PICK b \in 1 .. n : l[b] = k[j]
    BY <1>8
  <2>3. a = b
    BY <1>9, <2>1, <2>2
  <2> QED BY <1>10, <2>1, <2>2, <2>3
<1>12. \A u \in Template : q[u] = IF u = t THEN Unnamed ELSE r[u]
  BY DEF Rows
<1>13. \A i \in 1 .. n : /\ l[i].id \in Template /\ l[i].name = r[l[i].id]
                         /\ (i \in gone <=> l[i].id = t)
  BY <1>1, <1>5, ListedIs
<1>14. \A j \in 1 .. m : q[k[j].id] = k[j].name
  <2> SUFFICES ASSUME NEW j \in 1 .. m PROVE q[k[j].id] = k[j].name
    OBVIOUS
  <2>1. PICK i \in 1 .. n : i \notin gone /\ l[i] = k[j]
    BY <1>8
  <2> QED BY <1>12, <1>13, <2>1
<1>15. \A u \in Template : q[u] # Unnamed => \E j \in 1 .. m : k[j].id = u
  <2> SUFFICES ASSUME NEW u \in Template, q[u] # Unnamed PROVE \E j \in 1 .. m : k[j].id = u
    OBVIOUS
  <2>1. u # t /\ r[u] # Unnamed
    BY <1>12
  <2>2. PICK i \in 1 .. n : l[i].id = u
    BY <1>5, <2>1 DEF ListsRows
  <2>3. i \notin gone
    BY <1>13, <2>1, <2>2
  <2>4. PICK j \in 1 .. m : k[j] = l[i]
    BY <1>8, <2>3
  <2> QED BY <2>2, <2>4
<1>16. ListsRows(k, q)
  BY <1>6, <1>7, <1>11, <1>14, <1>15 DEF ListsRows
<1> QED BY <1>1, <1>2, <1>16

\* The invariant, of what is there after a step.
LEMMA TemplatesAfter ==
    ASSUME NEW b, b = library', LibraryFit(b), NEW g, g = listing', ListingFit(g),
           told' \in BOOLEAN, NEW p, p = page', PageFit(p), NEW s, s = saving', SavingFit(s),
           ToldFits(p.list, b.rows, s, g, told')
    PROVE  TemplatesInv'
BY DEF TemplatesInv

\* What the invariant says of now.
LEMMA TemplatesNow ==
    ASSUME TemplatesInv
    PROVE  /\ LibraryFit(library) /\ ListingFit(listing) /\ told \in BOOLEAN
           /\ PageFit(page) /\ SavingFit(saving)
           /\ ToldFits(page.list, library.rows, saving, listing, told)
BY DEF TemplatesInv

\* Steps that change the page, but not its list.
LEMMA PageTurns ==
    ASSUME TemplatesInv, NEW p, p = page', PageFit(p), p.list = page.list,
           UNCHANGED <<library, listing, saving, told>>
    PROVE  TemplatesInv'
BY TemplatesNow, TemplatesAfter

\* The templates are right at first.
LEMMA TemplatesBegin == FormsInit => TemplatesInv
<1> SUFFICES ASSUME FormsInit PROVE TemplatesInv
  OBVIOUS
<1>1. LibraryFit(library)
  <2>1. PICK names \in Rows :
          /\ \A t \in Template : names[t] # Unnamed <=> t \in Given
          /\ library = [rows |-> names, spent |-> Given]
    BY DEF FormsInit, Rows
  <2>2. Given \subseteq Template
    BY FormsAssumption
  <2> QED BY <2>1, <2>2 DEF LibraryFit
<1>2. ListingFit(listing)
  BY <1>1 DEF FormsInit, ListingFit, LibraryFit
<1>3. PageFit(page)
  BY DEF FormsInit, PageFit
<1>4. SavingFit(saving) /\ saving = NoSave
  BY DEF FormsInit, SavingFit, NoSave
<1>5. ToldFits(page.list, library.rows, saving, listing, told)
  BY <1>4 DEF FormsInit, ToldFits
<1> QED BY <1>1, <1>2, <1>3, <1>4, <1>5 DEF TemplatesInv, FormsInit

\* Nothing is saved: no change waits.
LEMMA NothingWaits ==
    /\ NoSave.kind = "none" /\ NoSave.at = "none" /\ SavingFit(NoSave)
    /\ NoRow \notin Template /\ Unnamed \notin Label
BY FormsAssumption DEF NoSave, SavingFit

\* A change in another state of its way.
LEMMA SavingMoves ==
    ASSUME NEW s, SavingFit(s), s.kind # "none", NEW x \in {"refused", "done"},
           NEW t \in Template \cup {NoRow}, s.kind \in {"update", "delete"} => t = s.of,
           x = "done" => t \in Template, x = "refused" => t = s.of,
           NEW v, v = [kind |-> s.kind, of |-> t, name |-> s.name, at |-> x]
    PROVE  SavingFit(v)
<1>1. v # NoSave
  BY NothingWaits
<1> QED BY <1>1 DEF SavingFit

\* The server refuses a change.
LEMMA Refuses ==
    ASSUME TemplatesInv, saving.kind # "none", saving.at = "asked", RefuseTemplate,
           UNCHANGED <<page, listing, told>>
    PROVE  TemplatesInv'
<1>1. PICK s : s = saving
  OBVIOUS
<1>2. PICK v : v = [s EXCEPT !.at = "refused"]
  OBVIOUS
<1>3. SavingFit(s) /\ s.kind # "none" /\ s.at = "asked"
  BY <1>1, TemplatesNow
<1>4. v = [kind |-> s.kind, of |-> s.of, name |-> s.name, at |-> "refused"]
  BY <1>2, <1>3 DEF SavingFit
<1>5. SavingFit(v)
  <2>1. v # NoSave
    BY <1>3, <1>4, NothingWaits
  <2> QED BY <1>3, <1>4, <2>1 DEF SavingFit
<1>6. saving' = v /\ library' = library
  BY <1>1, <1>2 DEF RefuseTemplate
<1>7. ToldFits(page.list, library.rows, s, listing, told)
  BY <1>1, TemplatesNow
<1>8. ToldFits(page.list, library.rows, v, listing, told)
  <2> SUFFICES ASSUME told
               PROVE  IF listing.at = "ended" THEN ListTells(page.list, library.rows, v)
                      ELSE v = NoSave /\ (listing.at = "served" => listing.rows = library.rows)
    BY DEF ToldFits
  <2>1. listing.at = "ended" /\ ListTells(page.list, library.rows, s)
    BY <1>3, <1>7, NothingWaits DEF ToldFits
  <2> QED BY <1>3, <1>4, <2>1 DEF ListTells
<1> QED BY <1>5, <1>6, <1>8, TemplatesNow, TemplatesAfter

\* The change s is made, of the template t: the rows become q, and the ids given sp.
Performs(s, t, q, sp) ==
    /\ s = saving /\ s.kind # "none" /\ s.at = "asked"
    /\ s.kind \in {"update", "delete"} => t = s.of
    /\ library.rows[t] = Unnamed <=> s.kind = "create"
    /\ q = [library.rows EXCEPT ![t] = IF s.kind = "delete" THEN Unnamed ELSE s.name]
    /\ sp \subseteq Template /\ library.spent \subseteq sp /\ t \in sp
    /\ library' = [rows |-> q, spent |-> sp]
    /\ saving' = [kind |-> s.kind, of |-> t, name |-> s.name, at |-> "done"]

\* The server makes a change.
LEMMA Makes ==
    ASSUME TemplatesInv, NEW s, NEW t \in Template, NEW q, NEW sp, Performs(s, t, q, sp),
           UNCHANGED <<page, listing, told>>
    PROVE  TemplatesInv'
<1> USE DEF Performs
<1>1. SavingFit(s) /\ LibraryFit(library)
  BY TemplatesNow
<1>2. PICK v : v = [kind |-> s.kind, of |-> t, name |-> s.name, at |-> "done"]
  OBVIOUS
<1>3. SavingFit(v)
  BY <1>1, <1>2, SavingMoves
<1>4. PICK b : b = [rows |-> q, spent |-> sp]
  OBVIOUS
<1>5. PICK w : w = IF s.kind = "delete" THEN Unnamed ELSE s.name
  OBVIOUS
<1>6. w \in Label \cup {Unnamed}
  BY <1>1, <1>5 DEF SavingFit
<1>7. library.rows \in Rows /\ \A u \in Template : library.rows[u] # Unnamed => u \in sp
  BY <1>1 DEF LibraryFit
<1>8. q = [library.rows EXCEPT ![t] = w]
  BY <1>5
<1>9. q \in Rows /\ \A u \in Template : q[u] = IF u = t THEN w ELSE library.rows[u]
  BY <1>6, <1>7, <1>8 DEF Rows
<1>10. LibraryFit(b)
  BY <1>4, <1>7, <1>9 DEF LibraryFit
<1>11. ToldFits(page.list, library.rows, s, listing, told)
  BY TemplatesNow
<1>12. ToldFits(page.list, q, v, listing, told)
  <2> SUFFICES ASSUME told
               PROVE  IF listing.at = "ended" THEN ListTells(page.list, q, v)
                      ELSE v = NoSave /\ (listing.at = "served" => listing.rows = q)
    BY DEF ToldFits
  <2>1. listing.at = "ended" /\ ListTells(page.list, library.rows, s)
    BY <1>11, NothingWaits DEF ToldFits
  <2>2. PICK r \in Rows : ListsRows(page.list, r) /\ library.rows = r
    BY <2>1 DEF ListTells
  <2>3. ChangedBy(v, r, q)
    BY <1>2, <2>2 DEF ChangedBy
  <2> QED BY <1>2, <2>1, <2>2, <2>3 DEF ListTells
<1>13. b.rows = q /\ b = library' /\ v = saving'
  BY <1>2, <1>4
<1> QED BY <1>3, <1>10, <1>12, <1>13, TemplatesNow, TemplatesAfter

\* A template is created.
LEMMA Inserts == TemplatesInv /\ InsertTemplate => TemplatesInv'
<1> SUFFICES ASSUME TemplatesInv, InsertTemplate PROVE TemplatesInv'
  OBVIOUS
<1>1. /\ saving.kind = "create" /\ saving.at = "asked" /\ UNCHANGED <<page, listing, told>>
  BY DEF InsertTemplate
<1>2. CASE RefuseTemplate
  BY <1>1, <1>2, Refuses
<1>3. CASE ~RefuseTemplate
  <2>1. PICK t \in Template \ library.spent :
          /\ library' = [rows |-> [library.rows EXCEPT ![t] = saving.name],
                         spent |-> library.spent \cup {t}]
          /\ saving' = [saving EXCEPT !.of = t, !.at = "done"]
    BY <1>3 DEF InsertTemplate
  <2>2. PICK s : s = saving
    OBVIOUS
  <2>3. SavingFit(s) /\ LibraryFit(library)
    BY <2>2, TemplatesNow
  <2>4. library.rows[t] = Unnamed /\ library.spent \subseteq Template
    BY <2>3 DEF LibraryFit
  <2>5. PICK v : v = [s EXCEPT !.of = t, !.at = "done"]
    OBVIOUS
  <2>6. v = [kind |-> s.kind, of |-> t, name |-> s.name, at |-> "done"]
    BY <2>3, <2>5 DEF SavingFit
  <2>7. saving' = [kind |-> s.kind, of |-> t, name |-> s.name, at |-> "done"]
    BY <2>1, <2>2, <2>5, <2>6
  <2>8. PICK q : q = [library.rows EXCEPT ![t] = IF s.kind = "delete" THEN Unnamed ELSE s.name]
    OBVIOUS
  <2>9. q = [library.rows EXCEPT ![t] = saving.name]
    BY <1>1, <2>2, <2>8
  <2>10. PICK sp : sp = library.spent \cup {t}
    OBVIOUS
  <2>11. /\ library' = [rows |-> q, spent |-> sp]
         /\ sp \subseteq Template /\ library.spent \subseteq sp /\ t \in sp
    BY <2>1, <2>4, <2>9, <2>10
  <2>12. Performs(s, t, q, sp)
    BY <1>1, <2>2, <2>4, <2>7, <2>8, <2>11 DEF Performs
  <2> QED BY <1>1, <2>12, Makes
<1> QED BY <1>2, <1>3

\* A template that is there gets a name, or loses it.
LEMMA Alters ==
    ASSUME TemplatesInv, saving.kind \in {"update", "delete"}, saving.at = "asked",
           library.rows[saving.of] # Unnamed,
           NEW w, w = IF saving.kind = "delete" THEN Unnamed ELSE saving.name,
           library' = [library EXCEPT !.rows[saving.of] = w],
           saving' = [saving EXCEPT !.at = "done"], UNCHANGED <<page, listing, told>>
    PROVE  TemplatesInv'
<1>1. PICK s : s = saving
  OBVIOUS
<1>2. SavingFit(s) /\ LibraryFit(library)
  BY <1>1, TemplatesNow
<1>3. PICK t \in Template : t = s.of
  BY <1>1, <1>2 DEF SavingFit
<1>4. PICK q : q = [library.rows EXCEPT ![t] = IF s.kind = "delete" THEN Unnamed ELSE s.name]
  OBVIOUS
<1>5. q = [library.rows EXCEPT ![t] = w]
  BY <1>1, <1>4
<1>6. PICK sp : sp = library.spent
  OBVIOUS
<1>7. library' = [rows |-> q, spent |-> sp]
  <2>1. PICK rows : rows = library.rows
    OBVIOUS
  <2>2. library = [rows |-> rows, spent |-> sp]
    BY <1>2, <1>6, <2>1 DEF LibraryFit
  <2>3. PICK b : b = [library EXCEPT !.rows = q]
    OBVIOUS
  <2>4. library' = b
    BY <1>1, <1>3, <1>5, <2>1, <2>2, <2>3
  <2>5. b = [rows |-> q, spent |-> sp]
    BY <2>2, <2>3
  <2> QED BY <2>4, <2>5
<1>8. sp \subseteq Template /\ library.spent \subseteq sp /\ t \in sp
  BY <1>1, <1>2, <1>3, <1>6 DEF LibraryFit
<1>9. saving' = [kind |-> s.kind, of |-> t, name |-> s.name, at |-> "done"]
  <2>1. PICK v : v = [s EXCEPT !.at = "done"]
    OBVIOUS
  <2>2. v = [kind |-> s.kind, of |-> s.of, name |-> s.name, at |-> "done"]
    BY <1>2, <2>1 DEF SavingFit
  <2> QED BY <1>1, <1>3, <2>1, <2>2
<1>10. Performs(s, t, q, sp)
  BY <1>1, <1>3, <1>4, <1>7, <1>8, <1>9 DEF Performs
<1> QED BY <1>10, Makes

\* A template is changed or deleted.
LEMMA UpdatesRemoves == TemplatesInv /\ (UpdateTemplate \/ RemoveTemplate) => TemplatesInv'
<1> SUFFICES ASSUME TemplatesInv, UpdateTemplate \/ RemoveTemplate PROVE TemplatesInv'
  OBVIOUS
<1>1. /\ saving.kind \in {"update", "delete"} /\ saving.at = "asked"
      /\ UNCHANGED <<page, listing, told>>
  BY DEF UpdateTemplate, RemoveTemplate
<1>2. CASE RefuseTemplate
  BY <1>1, <1>2, Refuses
<1>3. CASE ~RefuseTemplate
  <2>1. PICK w : w = IF saving.kind = "delete" THEN Unnamed ELSE saving.name
    OBVIOUS
  <2>2. /\ library.rows[saving.of] # Unnamed
        /\ library' = [library EXCEPT !.rows[saving.of] = w]
        /\ saving' = [saving EXCEPT !.at = "done"]
    BY <1>3, <2>1 DEF UpdateTemplate, RemoveTemplate
  <2> QED BY <1>1, <2>1, <2>2, Alters
<1> QED BY <1>2, <1>3

\* The list is read.
LEMMA ListingRead == TemplatesInv /\ ListingServed => TemplatesInv'
<1> SUFFICES ASSUME TemplatesInv, ListingServed PROVE TemplatesInv'
  OBVIOUS
<1>1. PICK g : g = [at |-> "served", rows |-> library.rows]
  OBVIOUS
<1>2. ListingFit(g) /\ listing' = g
  BY <1>1, TemplatesNow DEF ListingServed, LibraryFit, ListingFit
<1>3. ToldFits(page.list, library.rows, saving, g, told)
  <2>1. ToldFits(page.list, library.rows, saving, listing, told) /\ listing.at = "asked"
    BY TemplatesNow DEF ListingServed
  <2> QED BY <1>1, <2>1 DEF ToldFits
<1>4. UNCHANGED <<library, page, saving, told>>
  BY DEF ListingServed
<1> QED BY <1>2, <1>3, <1>4, TemplatesNow, TemplatesAfter

\* A template is changed elsewhere.
LEMMA ChangedThere == TemplatesInv /\ ChangedElsewhere => TemplatesInv'
<1> SUFFICES ASSUME TemplatesInv, ChangedElsewhere PROVE TemplatesInv'
  OBVIOUS
<1>1. PICK t \in Template, name \in Label \cup {Unnamed} :
        /\ library.rows[t] \notin {Unnamed, name}
        /\ library' = [library EXCEPT !.rows[t] = name]
  BY DEF ChangedElsewhere
<1>2. told' = FALSE /\ UNCHANGED <<page, listing, saving>>
  BY DEF ChangedElsewhere
<1>3. LibraryFit(library)
  BY TemplatesNow
<1>4. PICK rows : rows = library.rows
  OBVIOUS
<1>5. PICK q : q = [rows EXCEPT ![t] = name]
  OBVIOUS
<1>6. q \in Rows /\ \A u \in Template : q[u] # Unnamed => u \in library.spent
  BY <1>1, <1>3, <1>4, <1>5 DEF LibraryFit, Rows
<1>7. PICK b : b = [rows |-> q, spent |-> library.spent]
  OBVIOUS
<1>8. library' = b
  <2>1. PICK x : x = [library EXCEPT !.rows = q]
    OBVIOUS
  <2>2. library' = x
    BY <1>1, <1>4, <1>5, <2>1
  <2> QED BY <1>3, <1>7, <2>1, <2>2 DEF LibraryFit
<1>9. LibraryFit(b)
  BY <1>3, <1>6, <1>7 DEF LibraryFit
<1>10. ToldFits(page.list, b.rows, saving, listing, FALSE)
  BY DEF ToldFits
<1> QED BY <1>2, <1>8, <1>9, <1>10, TemplatesNow, TemplatesAfter

\* The list arrives.
LEMMA ListArrives == TemplatesInv /\ ListingAnswered => TemplatesInv'
<1> SUFFICES ASSUME TemplatesInv, ListingAnswered PROVE TemplatesInv'
  OBVIOUS
<1>1. PICK l : l = SetToSeq(Items(listing.rows))
  OBVIOUS
<1>2. PICK p : p = [page EXCEPT !.list = l]
  OBVIOUS
<1>3. PICK g : g = [listing EXCEPT !.at = "ended"]
  OBVIOUS
<1>4. /\ page' = p /\ listing' = g /\ listing.at = "served" /\ UNCHANGED <<library, saving, told>>
  BY <1>1, <1>2, <1>3 DEF ListingAnswered
<1>5. PageFit(page) /\ ListingFit(listing)
  BY TemplatesNow
<1>6. g = [at |-> "ended", rows |-> listing.rows] /\ listing.rows \in Rows
  BY <1>3, <1>5 DEF ListingFit
<1>7. ListsRows(l, listing.rows)
  BY <1>1, <1>6, ItemsOrdered
<1>8. p = [list |-> l, selected |-> page.selected, mode |-> page.mode, draft |-> page.draft,
           error |-> page.error]
  BY <1>2, <1>5 DEF PageFit
<1>9. PageFit(p) /\ p.list = l
  BY <1>5, <1>7, <1>8 DEF PageFit, ListsRows
<1>10. ListingFit(g) /\ g.at = "ended"
  BY <1>6 DEF ListingFit
<1>11. ToldFits(l, library.rows, saving, g, told)
  <2>1. ToldFits(page.list, library.rows, saving, listing, told)
    BY TemplatesNow
  <2>2. told => saving = NoSave /\ listing.rows = library.rows
    BY <1>4, <2>1 DEF ToldFits
  <2>3. told => ListTells(l, library.rows, saving)
    BY <1>6, <1>7, <2>2, NothingWaits DEF ListTells
  <2> QED BY <1>10, <2>3 DEF ToldFits
<1> QED BY <1>4, <1>9, <1>10, <1>11, TemplatesNow, TemplatesAfter

\* It does not.
LEMMA ListingLost == TemplatesInv /\ ListingFails => TemplatesInv'
<1> SUFFICES ASSUME TemplatesInv, ListingFails PROVE TemplatesInv'
  OBVIOUS
<1>1. PICK p : p = [page EXCEPT !.error = TRUE]
  OBVIOUS
<1>2. PICK g : g = [listing EXCEPT !.at = "ended"]
  OBVIOUS
<1>3. page' = p /\ listing' = g /\ UNCHANGED <<library, saving>> /\ told' = FALSE
  BY <1>1, <1>2 DEF ListingFails
<1>4. PageFit(page) /\ ListingFit(listing)
  BY TemplatesNow
<1>5. PageFit(p)
  <2>1. p = [list |-> page.list, selected |-> page.selected, mode |-> page.mode,
             draft |-> page.draft, error |-> TRUE]
    BY <1>1, <1>4 DEF PageFit
  <2> QED BY <1>4, <2>1 DEF PageFit
<1>6. ListingFit(g)
  BY <1>2, <1>4 DEF ListingFit
<1>7. ToldFits(p.list, library.rows, saving, g, FALSE)
  BY DEF ToldFits
<1> QED BY <1>3, <1>5, <1>6, <1>7, TemplatesNow, TemplatesAfter

\* What the page has.
LEMMA PageIs ==
    ASSUME TemplatesInv
    PROVE  /\ page = [list |-> page.list, selected |-> page.selected, mode |-> page.mode,
                      draft |-> page.draft, error |-> page.error]
           /\ page.list \in Seq(TemplateItem) /\ page.selected \in Template \cup {NoRow}
           /\ page.draft \in Label \cup {Unnamed} /\ page.error \in BOOLEAN
           /\ page.mode \in {"none", "view", "edit", "create"}
           /\ page.mode = "edit" => page.selected \in Template
           /\ \A i \in DOMAIN page.list : /\ page.list[i].id \in Template
                                          /\ page.list[i].name \in Label
BY TemplatesNow, ItemIs DEF PageFit

\* The dialogs of the page are opened and closed.
LEMMA Turns ==
    ASSUME TemplatesInv,
           \/ \E i \in DOMAIN page.list : OpenTemplateView(i)
           \/ OpenTemplateEditor \/ NewTemplate \/ CloseTemplate
           \/ \E name \in Label \cup {Unnamed} : TypeTemplate(name)
    PROVE  TemplatesInv'
<1>1. UNCHANGED <<library, listing, saving, told>>
  BY DEF OpenTemplateView, OpenTemplateEditor, NewTemplate, CloseTemplate, TypeTemplate, OnlyPage
<1>2. ASSUME NEW i \in DOMAIN page.list, OpenTemplateView(i) PROVE TemplatesInv'
  <2>1. PICK p : p = [page EXCEPT !.selected = page.list[i].id, !.draft = page.list[i].name,
                                  !.error = FALSE, !.mode = "view"]
    OBVIOUS
  <2>2. p = [list |-> page.list, selected |-> page.list[i].id, mode |-> "view",
             draft |-> page.list[i].name, error |-> FALSE]
    BY <2>1, PageIs
  <2>3. PageFit(p) /\ p.list = page.list
    BY <2>2, PageIs DEF PageFit
  <2> QED BY <1>1, <1>2, <2>1, <2>3, PageTurns DEF OpenTemplateView
<1>3. CASE OpenTemplateEditor
  <2>1. PICK i \in ListedAt(page.selected) :
          page' = [page EXCEPT !.draft = page.list[i].name, !.error = FALSE, !.mode = "edit"]
    BY <1>3 DEF OpenTemplateEditor
  <2>2. PICK p : p = [page EXCEPT !.draft = page.list[i].name, !.error = FALSE, !.mode = "edit"]
    OBVIOUS
  <2>3. p = [list |-> page.list, selected |-> page.selected, mode |-> "edit",
             draft |-> page.list[i].name, error |-> FALSE]
    BY <2>2, PageIs
  <2>4. i \in DOMAIN page.list /\ page.selected \in Template
    BY PageIs DEF ListedAt
  <2>5. PageFit(p) /\ p.list = page.list
    BY <2>3, <2>4, PageIs DEF PageFit
  <2> QED BY <1>1, <2>1, <2>2, <2>5, PageTurns
<1>4. CASE NewTemplate
  <2>1. PICK p : p = [page EXCEPT !.selected = NoRow, !.draft = Unnamed, !.error = FALSE,
                                  !.mode = "create"]
    OBVIOUS
  <2>2. p = [list |-> page.list, selected |-> NoRow, mode |-> "create", draft |-> Unnamed,
             error |-> FALSE]
    BY <2>1, PageIs
  <2>3. PageFit(p) /\ p.list = page.list
    BY <2>2, PageIs DEF PageFit
  <2> QED BY <1>1, <1>4, <2>1, <2>3, PageTurns DEF NewTemplate
<1>5. CASE CloseTemplate
  <2>1. PICK p : p = [page EXCEPT !.mode = "none", !.error = FALSE]
    OBVIOUS
  <2>2. p = [list |-> page.list, selected |-> page.selected, mode |-> "none",
             draft |-> page.draft, error |-> FALSE]
    BY <2>1, PageIs
  <2>3. PageFit(p) /\ p.list = page.list
    BY <2>2, PageIs DEF PageFit
  <2> QED BY <1>1, <1>5, <2>1, <2>3, PageTurns DEF CloseTemplate
<1>6. ASSUME NEW name \in Label \cup {Unnamed}, TypeTemplate(name) PROVE TemplatesInv'
  <2>1. PICK p : p = [page EXCEPT !.draft = name]
    OBVIOUS
  <2>2. p = [list |-> page.list, selected |-> page.selected, mode |-> page.mode,
             draft |-> name, error |-> page.error]
    BY <2>1, PageIs
  <2>3. PageFit(p) /\ p.list = page.list
    BY <2>2, PageIs DEF PageFit
  <2> QED BY <1>1, <1>6, <2>1, <2>3, PageTurns DEF TypeTemplate
<1> QED BY <1>2, <1>3, <1>4, <1>5, <1>6

\* A change is asked for.
LEMMA AsksFor ==
    ASSUME TemplatesInv, saving = NoSave, NEW t \in Template \cup {NoRow},
           NEW kind \in {"create", "update", "delete"},
           kind \in {"update", "delete"} => t \in Template,
           kind # "delete" => page.draft \in Label, AskFor(kind, t)
    PROVE  TemplatesInv'
<1>1. PICK v : v = [kind |-> kind, of |-> t, name |-> page.draft, at |-> "asked"]
  OBVIOUS
<1>2. PICK p : p = [page EXCEPT !.error = FALSE]
  OBVIOUS
<1>3. PICK b \in BOOLEAN : b = (told /\ listing.at = "ended")
  OBVIOUS
<1>4. saving' = v /\ page' = p /\ told' = b /\ UNCHANGED <<library, listing>>
  BY <1>1, <1>2, <1>3 DEF AskFor
<1>5. SavingFit(v)
  <2>1. v # NoSave
    BY <1>1, NothingWaits
  <2> QED BY <1>1, <2>1 DEF SavingFit
<1>6. PageFit(p) /\ p.list = page.list
  <2>1. p = [list |-> page.list, selected |-> page.selected, mode |-> page.mode,
             draft |-> page.draft, error |-> FALSE]
    BY <1>2, PageIs
  <2> QED BY <2>1, PageIs DEF PageFit
<1>7. ToldFits(page.list, library.rows, v, listing, b)
  <2>1. ToldFits(page.list, library.rows, saving, listing, told)
    BY TemplatesNow
  <2>2. b => listing.at = "ended" /\ ListTells(page.list, library.rows, NoSave)
    BY <1>3, <2>1 DEF ToldFits
  <2>3. b => ListTells(page.list, library.rows, v)
    BY <1>1, <2>2, NothingWaits DEF ListTells
  <2> QED BY <2>2, <2>3 DEF ToldFits
<1>8. LibraryFit(library) /\ ListingFit(listing)
  BY TemplatesNow
<1> QED BY <1>3, <1>4, <1>5, <1>6, <1>7, <1>8, TemplatesAfter

\* The form is saved, or the template that is shown is deleted.
LEMMA SavesDeletes == TemplatesInv /\ (SaveTemplate \/ DeleteTemplate) => TemplatesInv'
<1> SUFFICES ASSUME TemplatesInv, SaveTemplate \/ DeleteTemplate PROVE TemplatesInv'
  OBVIOUS
<1>1. saving = NoSave
  BY DEF SaveTemplate, DeleteTemplate
<1>2. CASE SaveTemplate /\ page.draft = Unnamed
  <2>1. PICK p : p = [page EXCEPT !.error = TRUE]
    OBVIOUS
  <2>2. p = [list |-> page.list, selected |-> page.selected, mode |-> page.mode,
             draft |-> page.draft, error |-> TRUE]
    BY <2>1, PageIs
  <2>3. PageFit(p) /\ p.list = page.list
    BY <2>2, PageIs DEF PageFit
  <2> QED BY <1>2, <2>1, <2>3, PageTurns DEF SaveTemplate, OnlyPage
<1>3. CASE SaveTemplate /\ page.draft # Unnamed
  <2>1. page.draft \in Label
    BY <1>3, PageIs
  <2>2. CASE page.mode = "edit"
    <3>1. AskFor("update", page.selected) /\ page.selected \in Template
      BY <1>3, <2>2, PageIs DEF SaveTemplate
    <3> QED BY <1>1, <2>1, <3>1, AsksFor
  <2>3. CASE page.mode # "edit"
    <3>1. AskFor("create", NoRow)
      BY <1>3, <2>3 DEF SaveTemplate
    <3> QED BY <1>1, <2>1, <3>1, AsksFor
  <2> QED BY <2>2, <2>3
<1>4. CASE DeleteTemplate
  <2>1. AskFor("delete", page.selected) /\ page.selected \in Template
    BY <1>4, PageIs DEF DeleteTemplate, ViewOpen, ListedAt
  <2> QED BY <1>1, <2>1, AsksFor
<1> QED BY <1>2, <1>3, <1>4

\* The list that an answer makes is a list.
LEMMA ToldListIs ==
    ASSUME TemplatesInv, saving.at = "done", NEW l \in Seq(TemplateItem)
    PROVE  ToldList(l) \in Seq(TemplateItem)
<1>1. SavingFit(saving) /\ saving.of \in Template
  BY TemplatesNow DEF SavingFit
<1>2. saving.kind \in {"create", "update", "delete"}
  BY <1>1, NothingWaits DEF SavingFit
<1>3. CASE saving.kind \in {"create", "update"}
  <2>1. PICK x : x = SavedItem
    OBVIOUS
  <2>2. x \in TemplateItem
    BY <1>1, <1>3, <2>1 DEF SavedItem, TemplateItem, SavingFit
  <2>3. PICK k : k = <<x>> \o l
    OBVIOUS
  <2>4. k \in Seq(TemplateItem)
    BY <2>2, <2>3
  <2>5. PICK j : j = [i \in DOMAIN l |-> IF l[i].id = saving.of THEN x ELSE l[i]]
    OBVIOUS
  <2>6. j \in Seq(TemplateItem)
    BY <2>2, <2>5
  <2> QED BY <1>3, <2>1, <2>3, <2>4, <2>5, <2>6 DEF ToldList
<1>4. CASE saving.kind = "delete"
  <2>1. PICK gone : gone = {i \in DOMAIN l : l[i].id = saving.of}
    OBVIOUS
  <2>2. FilteredFrom(l, gone, Len(l), Without(l, gone), TemplateItem)
    BY WithoutIs
  <2>3. Without(l, gone) \in Seq(TemplateItem)
    BY <2>2 DEF FilteredFrom
  <2> QED BY <1>4, <2>1, <2>3 DEF ToldList
<1> QED BY <1>2, <1>3, <1>4

\* It tells what the server has done.
LEMMA ToldListTells ==
    ASSUME TemplatesInv, saving.at = "done", NEW r \in Rows, NEW l, ListsRows(l, r),
           NEW q, ChangedBy(saving, r, q)
    PROVE  ListsRows(ToldList(l), q)
<1>1. SavingFit(saving) /\ saving.of \in Template
  BY TemplatesNow DEF SavingFit
<1>2. saving.kind \in {"create", "update", "delete"}
  BY <1>1, NothingWaits DEF SavingFit
<1>3. PICK t \in Template : t = saving.of
  BY <1>1
<1>4. CASE saving.kind = "create"
  <2>1. PICK name \in Label : name = saving.name
    BY <1>1, <1>4 DEF SavingFit
  <2>2. q = [r EXCEPT ![t] = name] /\ r[t] = Unnamed
    BY <1>3, <1>4, <2>1 DEF ChangedBy
  <2>3. ListsRows(<<[id |-> t, name |-> name]>> \o l, q)
    BY <2>2, CreatedListed
  <2> QED BY <1>3, <1>4, <2>1, <2>3 DEF ToldList, SavedItem
<1>5. CASE saving.kind = "update"
  <2>1. PICK name \in Label : name = saving.name
    BY <1>1, <1>5 DEF SavingFit
  <2>2. q = [r EXCEPT ![t] = name] /\ r[t] # Unnamed
    BY <1>3, <1>5, <2>1 DEF ChangedBy
  <2>3. ListsRows(Renamed(l, t, name), q)
    BY <2>2, UpdatedListed
  <2>4. ToldList(l) = Renamed(l, t, name)
    BY <1>3, <1>5, <2>1 DEF ToldList, SavedItem, Renamed
  <2> QED BY <2>3, <2>4
<1>6. CASE saving.kind = "delete"
  <2>1. q = [r EXCEPT ![t] = Unnamed]
    BY <1>3, <1>6 DEF ChangedBy
  <2>2. ListsRows(Without(l, {i \in DOMAIN l : l[i].id = t}), q)
    BY <2>1, DeletedListed, ZenonT(40)
  <2> QED BY <1>3, <1>6, <2>2 DEF ToldList
<1> QED BY <1>2, <1>4, <1>5, <1>6

\* A page whose list is as the answer makes it.
LEMMA AnswerArrives ==
    ASSUME TemplatesInv, saving.at = "done", NEW p, p = page', PageFit(p),
           p.list = ToldList(page.list), saving' = NoSave, UNCHANGED <<library, listing, told>>
    PROVE  TemplatesInv'
<1>1. /\ LibraryFit(library) /\ ListingFit(listing) /\ told \in BOOLEAN
      /\ ToldFits(page.list, library.rows, saving, listing, told)
  BY TemplatesNow
<1>2. SavingFit(NoSave) /\ NoSave.at # "done" /\ saving # NoSave
  BY NothingWaits
<1>3. ToldFits(p.list, library.rows, NoSave, listing, told)
  <2> SUFFICES ASSUME told PROVE ToldFits(p.list, library.rows, NoSave, listing, told)
    BY DEF ToldFits
  <2>1. listing.at = "ended" /\ ListTells(page.list, library.rows, saving)
    BY <1>1, <1>2 DEF ToldFits
  <2>2. PICK r \in Rows : /\ ListsRows(page.list, r)
                          /\ ChangedBy(saving, r, library.rows)
    BY <2>1 DEF ListTells
  <2>3. ListsRows(ToldList(page.list), library.rows) /\ library.rows \in Rows
    BY <1>1, <2>2, ToldListTells DEF LibraryFit
  <2>4. ListTells(p.list, library.rows, NoSave)
    BY <1>2, <2>3 DEF ListTells
  <2> QED BY <2>1, <2>4 DEF ToldFits
<1> QED BY <1>1, <1>2, <1>3, TemplatesAfter

\* A change is answered.
LEMMA ChangeAnswered == TemplatesInv /\ (SaveAnswered \/ DeleteAnswered) => TemplatesInv'
<1> SUFFICES ASSUME TemplatesInv, SaveAnswered \/ DeleteAnswered PROVE TemplatesInv'
  OBVIOUS
<1>1. /\ saving.at = "done" /\ saving' = NoSave /\ UNCHANGED <<library, listing, told>>
  BY DEF SaveAnswered, DeleteAnswered
<1>2. PICK l : l = ToldList(page.list)
  OBVIOUS
<1>3. l \in Seq(TemplateItem) /\ saving.of \in Template
  BY <1>1, <1>2, PageIs, ToldListIs, TemplatesNow DEF SavingFit
<1>4. CASE SaveAnswered
  <2>1. PICK p : p = [page EXCEPT !.list = l, !.selected = saving.of, !.mode = "view"]
    OBVIOUS
  <2>2. p = [list |-> l, selected |-> saving.of, mode |-> "view", draft |-> page.draft,
             error |-> page.error]
    BY <2>1, PageIs
  <2>3. PageFit(p) /\ p.list = l
    BY <1>3, <2>2, PageIs DEF PageFit
  <2>4. page' = p
    BY <1>2, <1>4, <2>1 DEF SaveAnswered
  <2> QED BY <1>1, <1>2, <2>3, <2>4, AnswerArrives
<1>5. CASE DeleteAnswered
  <2>1. PICK p : p = [page EXCEPT !.list = l, !.selected = NoRow, !.draft = Unnamed,
                                  !.mode = "none"]
    OBVIOUS
  <2>2. p = [list |-> l, selected |-> NoRow, mode |-> "none", draft |-> Unnamed,
             error |-> page.error]
    BY <2>1, PageIs
  <2>3. PageFit(p) /\ p.list = l
    BY <1>3, <2>2, PageIs DEF PageFit
  <2>4. page' = p
    BY <1>2, <1>5, <2>1 DEF DeleteAnswered
  <2> QED BY <1>1, <1>2, <2>3, <2>4, AnswerArrives
<1> QED BY <1>4, <1>5

\* A change is refused, or its answer is lost.
LEMMA ChangeRefused == TemplatesInv /\ ChangeFails => TemplatesInv'
<1> SUFFICES ASSUME TemplatesInv, ChangeFails PROVE TemplatesInv'
  OBVIOUS
<1>1. PICK p : p = [page EXCEPT !.error = TRUE]
  OBVIOUS
<1>2. PICK b \in BOOLEAN : b = (told /\ saving.at # "done")
  OBVIOUS
<1>3. page' = p /\ told' = b /\ saving' = NoSave /\ UNCHANGED <<library, listing>>
  BY <1>1, <1>2 DEF ChangeFails
<1>4. PageFit(p) /\ p.list = page.list
  <2>1. p = [list |-> page.list, selected |-> page.selected, mode |-> page.mode,
             draft |-> page.draft, error |-> TRUE]
    BY <1>1, PageIs
  <2> QED BY <2>1, PageIs DEF PageFit
<1>5. ToldFits(page.list, library.rows, NoSave, listing, b)
  <2>1. ToldFits(page.list, library.rows, saving, listing, told) /\ saving # NoSave
    BY TemplatesNow DEF ChangeFails
  <2>2. b => listing.at = "ended" /\ ListTells(page.list, library.rows, saving)
    BY <1>2, <2>1 DEF ToldFits
  <2>3. b => ListTells(page.list, library.rows, NoSave)
    BY <1>2, <2>2, NothingWaits DEF ListTells
  <2> QED BY <2>2, <2>3 DEF ToldFits
<1>6. LibraryFit(library) /\ ListingFit(listing) /\ SavingFit(NoSave)
  BY TemplatesNow, NothingWaits
<1> QED BY <1>2, <1>3, <1>4, <1>5, <1>6, TemplatesAfter

\* Every step of the templates keeps them right, and other steps leave them alone.
LEMMA TemplatesSteps ==
    TemplatesInv /\ (TemplatesNext \/ UNCHANGED templateVars) => TemplatesInv'
<1> SUFFICES ASSUME TemplatesInv, TemplatesNext \/ UNCHANGED templateVars PROVE TemplatesInv'
  OBVIOUS
<1>1. CASE UNCHANGED templateVars
  <2>1. UNCHANGED <<library, page, listing, saving, told>>
    BY <1>1 DEF templateVars
  <2> QED BY <2>1, TemplatesNow, TemplatesAfter
<1>2. CASE TemplatesNext
  BY <1>2, Inserts, UpdatesRemoves, ListingRead, ChangedThere, ListArrives, ListingLost, Turns,
     SavesDeletes, ChangeAnswered, ChangeRefused DEF TemplatesNext
<1> QED BY <1>1, <1>2

\* The forms of the client.
FormsInv == TemplatesInv /\ DialogInv

\* They are right at first, and stay so.
LEMMA FormsGoOn ==
    /\ FormsInit => FormsInv
    /\ FormsInv /\ [TemplatesNext \/ DialogNext]_formVars => FormsInv'
<1>1. FormsInit => FormsInv
  BY TemplatesBegin, DialogBegins DEF FormsInv
<1>2. TemplatesNext => UNCHANGED dialogVars
  BY DEF TemplatesNext, InsertTemplate, UpdateTemplate, RemoveTemplate, ListingServed,
     ChangedElsewhere, ListingAnswered, ListingFails, OpenTemplateView, OpenTemplateEditor,
     NewTemplate, CloseTemplate, TypeTemplate, SaveTemplate, DeleteTemplate, SaveAnswered,
     DeleteAnswered, ChangeFails, AskFor, OnlyPage
<1>3. DialogNext => UNCHANGED templateVars
  BY DEF DialogNext, ChangeSettings, ResetSettings, CloseSettings, OpenSettings, SaveSettings,
     PatchAnswered, PatchFails, PatchEnds, SelectChat, OnlyDialog
<1>4. UNCHANGED formVars => UNCHANGED templateVars /\ UNCHANGED dialogVars
  BY DEF formVars
<1> QED BY <1>1, <1>2, <1>3, <1>4, TemplatesSteps, DialogSteps DEF FormsInv

\* What is right of the forms is what the property says of them.
LEMMA FormsFit == FormsInv => FormsReachTheirRows
<1> SUFFICES ASSUME FormsInv PROVE FormsReachTheirRows
  OBVIOUS
<1>1. TemplatesInv /\ DialogInv
  BY DEF FormsInv
<1>2. TemplatesSettle
  <2> SUFFICES ASSUME told, listing.at = "ended", saving = NoSave
               PROVE  /\ ToSet(page.list) = Items(library.rows)
                      /\ Len(page.list) = Cardinality(Items(library.rows))
    BY DEF TemplatesSettle
  <2>1. ToldFits(page.list, library.rows, saving, listing, told)
    BY <1>1, TemplatesNow
  <2>2. ListTells(page.list, library.rows, NoSave)
    BY <2>1 DEF ToldFits
  <2>3. library.rows \in Rows /\ ListsRows(page.list, library.rows)
    BY <2>2, NothingWaits DEF ListTells
  <2> QED BY <2>3, ListedOnce
<1>3. SettingsReachTheirChat
  BY <1>1 DEF SettingsReachTheirChat, DialogInv, SettingsOf
<1>4. FormsTypeOK
  <2>1. /\ LibraryFit(library) /\ ListingFit(listing) /\ told \in BOOLEAN
        /\ SavingFit(saving)
    BY <1>1, TemplatesNow
  <2>2. /\ library.rows \in [Template -> Label \cup {Unnamed}] /\ library.spent \subseteq Template
        /\ listing.at \in {"asked", "served", "ended"}
        /\ saving.kind \in {"none", "create", "update", "delete"}
    BY <2>1 DEF LibraryFit, Rows, ListingFit, SavingFit
  <2>3. dialog.open \in BOOLEAN /\ moved \in BOOLEAN /\ page.error \in BOOLEAN
    BY <1>1, PageIs DEF DialogInv, DialogFit
  <2>4. dialog.current \in Chat \cup {NoRow} /\ dialog.draft \in Setting \cup {NoRow}
    BY <1>1 DEF DialogInv, DialogFit
  <2>5. settings \in [{"shown", "stored"} -> [Chat -> Setting]]
    <3>1. \A s \in {"shown", "stored"} : settings[s] \in [Chat -> Setting]
      BY <1>1 DEF DialogInv, SettingsOf
    <3> QED BY <1>1, <3>1 DEF DialogInv
  <2>6. patches \subseteq [to : Chat, value : Setting, before : [Chat -> Setting]]
    <3> SUFFICES ASSUME NEW p \in patches
                 PROVE  p \in [to : Chat, value : Setting, before : [Chat -> Setting]]
      OBVIOUS
    <3>1. PatchFit(p, moved)
      BY <1>1 DEF DialogInv
    <3> QED BY <3>1 DEF PatchFit, SettingsOf
  <2> QED BY <1>1, <2>1, <2>2, <2>3, <2>4, <2>5, <2>6, PageIs DEF FormsTypeOK
<1> QED BY <1>2, <1>3, <1>4 DEF FormsReachTheirRows

\* The page of the templates shows the rows, each once, and the settings of a
\* conversation are those that were made for it, whenever answers come and whatever
\* is typed meanwhile (PromptTemplates.tsx and ChatSettingsDialog.tsx).
THEOREM FormsKeepTheirRows == FormsSpec => []FormsReachTheirRows
<1>1. FormsSpec => []FormsInv
  BY FormsGoOn, PTL DEF FormsSpec
<1> QED BY <1>1, FormsFit, PTL
=============================================================================
