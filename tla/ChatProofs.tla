----------------------------- MODULE ChatProofs -----------------------------
(* Theorems about the server's chat, for every number of users, conversations *)
(* and requests and every limit of the gate, about the history of a           *)
(* conversation, for every clock and every order of ids, about the context of *)
(* an answer and its sources, for any documents and claims, and about what    *)
(* readers of documents are promised.                                         *)
EXTENDS ChatStreams, MessageHistory, GroundedAnswers, DocumentPublication,
        FiniteSetTheorems, SequenceTheorems, WellFoundedInduction, TLAPS

-----------------------------------------------------------------------------
(* The streams and the gate. *)

Places == [total : Nat, by : [User -> Nat]]
ConversationRow == [there : BOOLEAN, rag : BOOLEAN, title : {"placeholder", "chosen", "generated"}]
Logged == [by : Stream, role : {"user", "assistant"}, text : {"question", "part", "whole", "abstained"}]
Stage == {"idle", "finding", "asking", "preparing", "retrieving", "answering", "saving", "telling", "over"}
StreamRow == [
    at : Stage, in : Conversation \cup {"none"}, left : BOOLEAN,
    title : {"none", "placeholder", "chosen", "generated"}, rag : BOOLEAN, terms : SUBSET Terms,
    evidence : {"unasked", "found", "empty"}, text : {"none", "part", "whole", "abstained"},
    failed : BOOLEAN, titling : BOOLEAN]

ChatTypes ==
    /\ caps \in Caps /\ gate \in Places
    /\ conv \in [Conversation -> ConversationRow]
    /\ log \in [Conversation -> Seq(Logged)]
    /\ stream \in [Stream -> StreamRow]
    /\ \A c \in Conversation : ~conv[c].there => log[c] = <<>>

Running == {s \in Stream : stream[s].at \in Working}
RunningOf(u) == {s \in Running : UserOf(s) = u}

\* The gate has counted the streams that run.
GateIsRight ==
    /\ gate.total = Cardinality(Running) /\ gate.total <= caps.total
    /\ \A u \in User : gate.by[u] = Cardinality(RunningOf(u)) /\ gate.by[u] <= caps.user

\* A stream that has begun has a conversation, fails at its end only, and keeps
\* half an answer only if its client left.
RowIsRight(r) ==
    /\ r.at # "idle" => r.in \in Conversation
    /\ r.failed => r.at = "over"
    /\ r.at = "saving" /\ r.text = "part" => r.left

\* An answer in the log is of a stream that told it, or is about to.
AnswerIsRight(row) ==
    row.role = "assistant" =>
        /\ row.text = "part" => stream[row.by].left
        /\ stream[row.by].at \in {"telling", "over"} /\ ~stream[row.by].failed

ChatInv ==
    /\ ChatTypes /\ GateIsRight
    /\ \A s \in Stream : RowIsRight(stream[s])
    /\ \A c \in Conversation : \A i \in DOMAIN log[c] : AnswerIsRight(log[c][i])

\* The limits are numbers, and a gate that is not full has a place.
LEMMA CapsAreNumbers ==
    ASSUME ChatTypes
    PROVE  /\ caps.total \in Nat /\ caps.total >= 1 /\ caps.user \in Nat /\ caps.user >= 1
           /\ gate.total \in Nat /\ gate.by \in [User -> Nat]
BY ChatStreamsAssumption DEF ChatTypes, Places

\* The running streams are finitely many.
LEMMA RunningAreFinite ==
    /\ IsFiniteSet(Running) /\ Cardinality(Running) \in Nat
    /\ \A u : IsFiniteSet(RunningOf(u)) /\ Cardinality(RunningOf(u)) \in Nat
<1>1. IsFiniteSet(Running)
  BY FS_Subset, ChatStreamsAssumption DEF Running
<1>2. ASSUME NEW u PROVE IsFiniteSet(RunningOf(u))
  <2>1. RunningOf(u) \in SUBSET Running
    BY DEF RunningOf
  <2> QED BY <1>1, <2>1, FS_Subset
<1> QED BY <1>1, <1>2, FS_CardinalityType

\* One less, of a number that is not zero.
LEMMA OneLess ==
    ASSUME NEW n \in Nat, n >= 1
    PROVE  Max({n - 1, 0}) = n - 1
<1>1. \E x \in {n - 1, 0} : \A y \in {n - 1, 0} : x >= y
  OBVIOUS
<1> QED BY <1>1 DEF Max

\* A stream goes on in its stage, or has no place before and after.
Stays(s, row) ==
    /\ (stream[s].at \in Working) <=> (row.at \in Working)
    /\ row.at \in Working => row.in = stream[s].in
    /\ gate' = gate

Takes(s, row) ==
    /\ stream[s].at \notin Working /\ row.at \in Working
    /\ HasPlace(OwnerOf[row.in]) /\ Acquire(OwnerOf[row.in])

Leaves(s, row) ==
    /\ stream[s].at \in Working /\ row.at \notin Working
    /\ Release(OwnerOf[stream[s].in])

\* The gate counts on as a stream takes its place, goes on, and leaves.
LEMMA GateGoesOn ==
    ASSUME ChatInv, NEW s \in Stream, NEW row \in StreamRow, row.at # "idle" => row.in \in Conversation,
           stream' = [stream EXCEPT ![s] = row], caps' = caps,
           Stays(s, row) \/ Takes(s, row) \/ Leaves(s, row)
    PROVE  GateIsRight' /\ gate' \in Places
<1>1. stream'[s] = row /\ \A r \in Stream : r # s => stream'[r] = stream[r]
  BY DEF ChatInv, ChatTypes
<1>2. /\ gate \in Places /\ gate.total = Cardinality(Running) /\ gate.total <= caps.total
      /\ \A u \in User : gate.by[u] = Cardinality(RunningOf(u)) /\ gate.by[u] <= caps.user
  BY DEF ChatInv, ChatTypes, GateIsRight
<1>3. /\ caps.total \in Nat /\ caps.user \in Nat /\ gate.total \in Nat /\ gate.by \in [User -> Nat]
  BY CapsAreNumbers DEF ChatInv
<1>4. CASE Stays(s, row)
  <2>1. Running' = Running
    BY <1>1, <1>4 DEF Running, Stays
  <2>2. \A r \in Running : UserOf(r)' = UserOf(r)
    BY <1>1, <1>4 DEF Running, Stays, UserOf
  <2>3. \A u : RunningOf(u)' = RunningOf(u)
    BY <2>1, <2>2 DEF RunningOf
  <2> QED BY <1>2, <1>4, <2>1, <2>3 DEF GateIsRight, Stays
<1>5. CASE Takes(s, row)
  <2>1. PICK v : v = OwnerOf[row.in]
    OBVIOUS
  <2>2. v \in User
    <3>1. row.at # "idle"
      BY <1>5 DEF Takes, Working
    <3> QED BY <2>1, <3>1, ChatStreamsAssumption
  <2>3. Running' = Running \cup {s} /\ s \notin Running
    BY <1>1, <1>5 DEF Running, Takes
  <2>4. \A r \in Stream : r # s => UserOf(r)' = UserOf(r)
    BY <1>1 DEF UserOf
  <2>5. UserOf(s)' = v
    BY <1>1, <2>1 DEF UserOf
  <2>6. RunningOf(v)' = RunningOf(v) \cup {s} /\ s \notin RunningOf(v)
    BY <2>3, <2>4, <2>5 DEF RunningOf, Running
  <2>7. \A u : u # v => RunningOf(u)' = RunningOf(u)
    BY <2>3, <2>4, <2>5 DEF RunningOf, Running
  <2>8. Cardinality(Running)' = Cardinality(Running) + 1
    BY <2>3, FS_AddElement, RunningAreFinite
  <2>9. Cardinality(RunningOf(v))' = Cardinality(RunningOf(v)) + 1
    BY <2>6, FS_AddElement, RunningAreFinite
  <2>10. /\ gate' = [total |-> gate.total + 1, by |-> [gate.by EXCEPT ![v] = gate.by[v] + 1]]
         /\ gate.total < caps.total /\ gate.by[v] < caps.user
    BY <1>5, <2>1 DEF Takes, Acquire, HasPlace
  <2>11. /\ gate'.total = gate.total + 1 /\ gate'.by[v] = gate.by[v] + 1
         /\ \A u \in User : u # v => gate'.by[u] = gate.by[u]
         /\ gate' \in Places
    BY <1>3, <2>2, <2>10 DEF Places
  <2>12. gate'.total = Cardinality(Running)' /\ gate'.total <= caps'.total
    BY <1>2, <1>3, <2>8, <2>10, <2>11
  <2>13. ASSUME NEW u \in User PROVE gate'.by[u] = Cardinality(RunningOf(u))' /\ gate'.by[u] <= caps'.user
    <3>1. CASE u = v
      BY <1>2, <1>3, <2>2, <2>9, <2>10, <2>11, <3>1
    <3>2. CASE u # v
      BY <1>2, <2>7, <2>11, <3>2
    <3> QED BY <3>1, <3>2
  <2> QED BY <2>11, <2>12, <2>13 DEF GateIsRight
<1>6. CASE Leaves(s, row)
  <2>1. PICK v : v = OwnerOf[stream[s].in]
    OBVIOUS
  <2>2. v \in User /\ UserOf(s) = v
    <3>1. stream[s].in \in Conversation
      BY <1>6 DEF Leaves, Working, ChatInv, RowIsRight
    <3> QED BY <2>1, <3>1, ChatStreamsAssumption DEF UserOf
  <2>3. Running' = Running \ {s} /\ s \in Running
    BY <1>1, <1>6 DEF Running, Leaves
  <2>4. \A r \in Stream : r # s => UserOf(r)' = UserOf(r)
    BY <1>1 DEF UserOf
  <2>5. RunningOf(v)' = RunningOf(v) \ {s} /\ s \in RunningOf(v)
    BY <2>2, <2>3, <2>4 DEF RunningOf, Running
  <2>6. \A u : u # v => RunningOf(u)' = RunningOf(u)
    BY <2>2, <2>3, <2>4 DEF RunningOf, Running
  <2>7. Cardinality(Running)' = Cardinality(Running) - 1
    BY <2>3, FS_RemoveElement, RunningAreFinite
  <2>8. Cardinality(RunningOf(v))' = Cardinality(RunningOf(v)) - 1
    BY <2>5, FS_RemoveElement, RunningAreFinite
  <2>9. Cardinality(Running) >= 1 /\ Cardinality(RunningOf(v)) >= 1
    BY <2>3, <2>5, FS_EmptySet, RunningAreFinite
  <2>10. gate' = [total |-> Max({gate.total - 1, 0}), by |-> [gate.by EXCEPT ![v] = Max({gate.by[v] - 1, 0})]]
    BY <1>6, <2>1 DEF Leaves, Release
  <2>11. Max({gate.total - 1, 0}) = gate.total - 1 /\ Max({gate.by[v] - 1, 0}) = gate.by[v] - 1
    BY <1>2, <1>3, <2>2, <2>9, OneLess
  <2>12. /\ gate'.total = gate.total - 1 /\ gate'.by[v] = gate.by[v] - 1
         /\ \A u \in User : u # v => gate'.by[u] = gate.by[u]
         /\ gate' \in Places
    <3>1. gate.total - 1 \in Nat /\ gate.by[v] - 1 \in Nat
      BY <1>2, <1>3, <2>2, <2>9
    <3>2. gate' = [total |-> gate.total - 1, by |-> [gate.by EXCEPT ![v] = gate.by[v] - 1]]
      BY <2>10, <2>11
    <3> QED BY <1>3, <2>2, <3>1, <3>2 DEF Places
  <2>13. gate'.total = Cardinality(Running)' /\ gate'.total <= caps'.total
    BY <1>2, <1>3, <2>7, <2>12
  <2>14. ASSUME NEW u \in User PROVE gate'.by[u] = Cardinality(RunningOf(u))' /\ gate'.by[u] <= caps'.user
    <3>1. CASE u = v
      BY <1>2, <1>3, <2>2, <2>8, <2>12, <3>1
    <3>2. CASE u # v
      BY <1>2, <2>6, <2>12, <3>2
    <3> QED BY <3>1, <3>2
  <2> QED BY <2>12, <2>13, <2>14 DEF GateIsRight
<1> QED BY <1>4, <1>5, <1>6

\* An answer that was told stays told, and a client that left stays away.
Keeps(s, row) ==
    /\ stream[s].left => row.left
    /\ stream[s].at \in {"telling", "over"} =>
         row.at \in {"telling", "over"} /\ (row.failed => stream[s].failed)

\* What a step leaves of the conversations is well formed.
LogsGoOn ==
    /\ conv' \in [Conversation -> ConversationRow]
    /\ log' \in [Conversation -> Seq(Logged)]
    /\ \A c \in Conversation : ~conv'[c].there => log'[c] = <<>>

\* A step of one stream keeps the invariant if its row is right, its place is
\* counted, and what it adds to the log is right.
LEMMA StreamGoesOn ==
    ASSUME ChatInv, NEW s \in Stream, NEW row \in StreamRow, RowIsRight(row),
           stream' = [stream EXCEPT ![s] = row], caps' = caps, LogsGoOn,
           Stays(s, row) \/ Takes(s, row) \/ Leaves(s, row), Keeps(s, row),
           \A c \in Conversation : \A i \in DOMAIN log'[c] :
             (\E j \in DOMAIN log[c] : log'[c][i] = log[c][j])
             \/ /\ log'[c][i].role = "assistant" =>
                     /\ log'[c][i].by = s /\ row.at \in {"telling", "over"} /\ ~row.failed
                     /\ log'[c][i].text = "part" => row.left
    PROVE  ChatInv'
<1>1. GateIsRight' /\ gate' \in Places
  BY GateGoesOn DEF RowIsRight
<1>2. stream'[s] = row /\ \A r \in Stream : r # s => stream'[r] = stream[r]
  BY DEF ChatInv, ChatTypes
<1>3. stream' \in [Stream -> StreamRow]
  BY DEF ChatInv, ChatTypes
<1>4. ChatTypes'
  BY <1>1, <1>3 DEF ChatInv, ChatTypes, LogsGoOn
<1>5. \A r \in Stream : RowIsRight(stream[r])'
  BY <1>2 DEF ChatInv, RowIsRight
<1>6. ASSUME NEW c \in Conversation, NEW i \in DOMAIN log'[c] PROVE AnswerIsRight(log[c][i])'
  <2>1. CASE \E j \in DOMAIN log[c] : log'[c][i] = log[c][j]
    <3>1. PICK j \in DOMAIN log[c] : log'[c][i] = log[c][j]
      BY <2>1
    <3>2. PICK old : old = log[c][j]
      OBVIOUS
    <3>3. AnswerIsRight(old)
      BY <3>2 DEF ChatInv
    <3>4. old.by \in Stream
      <4>1. log[c] \in Seq(Logged)
        BY DEF ChatInv, ChatTypes
      <4>2. old \in Logged
        BY <3>2, <4>1
      <4> QED BY <4>2 DEF Logged
    <3> QED BY <1>2, <3>1, <3>2, <3>3, <3>4 DEF AnswerIsRight, Keeps
  <2>2. CASE /\ log'[c][i].role = "assistant" =>
                  /\ log'[c][i].by = s /\ row.at \in {"telling", "over"} /\ ~row.failed
                  /\ log'[c][i].text = "part" => row.left
    BY <1>2, <2>2 DEF AnswerIsRight
  <2> QED BY <2>1, <2>2
<1> QED BY <1>1, <1>4, <1>5, <1>6 DEF ChatInv

\* A step of the user's other requests keeps the invariant if it takes from the
\* logs only.
LEMMA RequestGoesOn ==
    ASSUME ChatInv, stream' = stream, caps' = caps, gate' = gate, LogsGoOn,
           \A c \in Conversation : \A i \in DOMAIN log'[c] :
             \E j \in DOMAIN log[c] : log'[c][i] = log[c][j]
    PROVE  ChatInv'
<1>1. Running' = Running /\ \A u : RunningOf(u)' = RunningOf(u)
  BY DEF Running, RunningOf, UserOf
<1>2. GateIsRight'
  BY <1>1 DEF ChatInv, GateIsRight
<1>3. ChatTypes'
  BY DEF ChatInv, ChatTypes, LogsGoOn
<1>4. \A r \in Stream : RowIsRight(stream[r])'
  BY DEF ChatInv, RowIsRight
<1>5. ASSUME NEW c \in Conversation, NEW i \in DOMAIN log'[c] PROVE AnswerIsRight(log[c][i])'
  BY DEF ChatInv, AnswerIsRight
<1> QED BY <1>2, <1>3, <1>4, <1>5 DEF ChatInv

\* A stream whose row says so ends right.
LEMMA EndsRight ==
    ASSUME ChatInv, NEW s \in Stream, NEW failed \in BOOLEAN, stream[s].at # "idle"
    PROVE  /\ Ended(s, failed) \in StreamRow /\ RowIsRight(Ended(s, failed))
           /\ Ended(s, failed).at = "over" /\ Ended(s, failed).left = stream[s].left
           /\ Ended(s, failed).failed = (failed /\ ~stream[s].left)
<1>1. stream[s].in \in Conversation /\ stream[s].left \in BOOLEAN /\ stream[s].titling \in BOOLEAN
  BY DEF ChatInv, ChatTypes, StreamRow, RowIsRight
<1>2. PICK b \in BOOLEAN : b = (failed /\ ~stream[s].left)
  OBVIOUS
<1>3. PICK row : row = Ended(s, failed)
  OBVIOUS
<1>4. row \in StreamRow /\ row.at = "over" /\ row.in = stream[s].in /\ row.left = stream[s].left
      /\ row.failed = (failed /\ ~stream[s].left)
  <2>1. PICK c \in Conversation \cup {"none"}, a \in BOOLEAN, d \in BOOLEAN :
             c = stream[s].in /\ a = stream[s].left /\ d = stream[s].titling
    BY <1>1
  <2>2. row = [NewStream EXCEPT !.at = "over", !.in = c, !.left = a, !.failed = b, !.titling = d]
    BY <1>2, <1>3, <2>1 DEF Ended
  <2>3. row \in StreamRow /\ row.at = "over" /\ row.in = c /\ row.left = a /\ row.failed = b
    <3>1. a \in BOOLEAN /\ b \in BOOLEAN /\ d \in BOOLEAN /\ c \in Conversation \cup {"none"}
      OBVIOUS
    <3> QED BY <2>2, <3>1 DEF NewStream, StreamRow, Stage
  <2>4. row.left = stream[s].left /\ row.in = stream[s].in
    BY <2>1, <2>3
  <2> QED BY <1>2, <2>3, <2>4, Zenon
<1>5. RowIsRight(row)
  BY <1>1, <1>4 DEF RowIsRight
<1> QED BY <1>3, <1>4, <1>5

\* What the database keeps as it is goes on.
LEMMA SameLogs ==
    ASSUME ChatInv, UNCHANGED <<conv, log>>
    PROVE  LogsGoOn /\ \A c \in Conversation : \A i \in DOMAIN log'[c] :
             \E j \in DOMAIN log[c] : log'[c][i] = log[c][j]
BY DEF ChatInv, ChatTypes, LogsGoOn

\* However a stream ends, with the logs as they are.
LEMMA FinishGoesOn ==
    ASSUME ChatInv, NEW s \in Stream, NEW failed \in BOOLEAN, stream[s].at \in Working,
           stream[s].at = "telling" => ~failed, Finish(s, failed), UNCHANGED <<caps, conv, log>>
    PROVE  ChatInv'
<1>1. PICK row : row = Ended(s, failed)
  OBVIOUS
<1>2. stream[s].at # "idle" /\ stream[s].at # "over"
  BY DEF Working
<1>3. row \in StreamRow /\ RowIsRight(row) /\ row.at = "over" /\ row.left = stream[s].left
      /\ row.failed = (failed /\ ~stream[s].left)
  BY <1>1, <1>2, EndsRight
<1>4. Leaves(s, row)
  BY <1>3 DEF Leaves, Finish, Working, UserOf
<1>5. Keeps(s, row)
  BY <1>2, <1>3 DEF Keeps
<1>6. stream' = [stream EXCEPT ![s] = row]
  BY <1>1 DEF Finish
<1> QED BY <1>3, <1>4, <1>5, <1>6, SameLogs, StreamGoesOn

\* A question is posted.
LEMMA PostGoesOn ==
    ASSUME ChatInv, NEW s \in Stream, NEW c \in Conversation, NEW terms \in Message, Post(s, c, terms)
    PROVE  ChatInv'
<1>1. terms \in SUBSET Terms
  BY ChatStreamsAssumption DEF Terms
<1>2. stream[s] \in StreamRow
  BY DEF ChatInv, ChatTypes
<1>3. PICK row : row = [stream[s] EXCEPT !.at = "finding", !.in = c, !.terms = terms]
  OBVIOUS
<1>4. row \in StreamRow /\ row.at = "finding" /\ row.in = c /\ row.left = stream[s].left
      /\ row.failed = stream[s].failed /\ row.text = stream[s].text
  BY <1>1, <1>2, <1>3 DEF StreamRow, Stage
<1>5. stream' = [stream EXCEPT ![s] = row]
  BY <1>2, <1>3 DEF Post, ChatInv, ChatTypes, StreamRow
<1>6. RowIsRight(row)
  BY <1>4 DEF RowIsRight, ChatInv, Post
<1>7. Stays(s, row)
  BY <1>4 DEF Stays, Post, Working
<1>8. Keeps(s, row)
  BY <1>4 DEF Keeps, Post
<1>9. caps' = caps /\ UNCHANGED <<conv, log>>
  BY DEF Post
<1> QED BY <1>4, <1>5, <1>6, <1>7, <1>8, <1>9, SameLogs, StreamGoesOn

\* The conversation is found and a place is taken, or the request refused.
LEMMA FindGoesOn ==
    ASSUME ChatInv, NEW s \in Stream, FindConversation(s)
    PROVE  ChatInv'
<1>1. PICK c : c = stream[s].in
  OBVIOUS
<1>2. c \in Conversation /\ stream[s] \in StreamRow /\ conv[c] \in ConversationRow
  BY <1>1 DEF ChatInv, ChatTypes, FindConversation, RowIsRight
<1>3. caps' = caps /\ UNCHANGED <<conv, log>>
  BY DEF FindConversation
<1>4. CASE conv[c].there /\ ~stream[s].left /\ HasPlace(UserOf(s))
  <2>1. PICK row : row = [stream[s] EXCEPT !.at = "asking", !.rag = conv[c].rag, !.title = conv[c].title]
    OBVIOUS
  <2>2. row \in StreamRow /\ row.at = "asking" /\ row.in = c /\ row.left = stream[s].left
        /\ row.failed = stream[s].failed /\ row.text = stream[s].text
    BY <1>1, <1>2, <2>1, ZenonT(40) DEF StreamRow, Stage, ConversationRow
  <2>3. stream' = [stream EXCEPT ![s] = row] /\ Acquire(UserOf(s))
    BY <1>1, <1>2, <1>4, <2>1 DEF FindConversation, ChatInv, ChatTypes, StreamRow
  <2>4. RowIsRight(row)
    BY <1>2, <2>2 DEF RowIsRight, ChatInv, FindConversation
  <2>5. Takes(s, row)
    BY <1>1, <1>4, <2>2, <2>3 DEF Takes, FindConversation, Working, UserOf
  <2>6. Keeps(s, row)
    BY <2>2 DEF Keeps, FindConversation
  <2> QED BY <1>3, <2>2, <2>3, <2>4, <2>5, <2>6, SameLogs, StreamGoesOn
<1>5. CASE ~(conv[c].there /\ ~stream[s].left /\ HasPlace(UserOf(s)))
  <2>1. PICK row : row = Ended(s, TRUE)
    OBVIOUS
  <2>2. row \in StreamRow /\ RowIsRight(row) /\ row.at = "over" /\ row.left = stream[s].left
    BY <2>1, EndsRight DEF FindConversation
  <2>3. stream' = [stream EXCEPT ![s] = row] /\ gate' = gate
    BY <1>1, <1>5, <2>1 DEF FindConversation
  <2>4. Stays(s, row) /\ Keeps(s, row)
    BY <2>2, <2>3 DEF Stays, Keeps, FindConversation, Working
  <2> QED BY <1>3, <2>2, <2>3, <2>4, SameLogs, StreamGoesOn
<1> QED BY <1>4, <1>5

\* One entry more at the end of a log.
LEMMA EntryGoesOn ==
    ASSUME ChatInv, NEW c \in Conversation, NEW entry \in Logged, conv[c].there,
           log' = [log EXCEPT ![c] = Append(@, entry)], conv' = conv
    PROVE  LogsGoOn /\ \A d \in Conversation : \A i \in DOMAIN log'[d] :
             (\E j \in DOMAIN log[d] : log'[d][i] = log[d][j]) \/ log'[d][i] = entry
<1>1. PICK old : old = log[c]
  OBVIOUS
<1>2. old \in Seq(Logged) /\ log' = [log EXCEPT ![c] = Append(old, entry)]
  BY <1>1 DEF ChatInv, ChatTypes
<1>3. Append(old, entry) \in Seq(Logged)
  BY <1>2
<1>4. log'[c] = Append(old, entry) /\ \A d \in Conversation : d # c => log'[d] = log[d]
  BY <1>2 DEF ChatInv, ChatTypes
<1>5. LogsGoOn
  BY <1>2, <1>3, <1>4 DEF ChatInv, ChatTypes, LogsGoOn
<1>6. ASSUME NEW i \in DOMAIN Append(old, entry)
      PROVE  (\E j \in DOMAIN old : Append(old, entry)[i] = old[j]) \/ Append(old, entry)[i] = entry
  BY <1>2
<1>7. ASSUME NEW d \in Conversation, NEW i \in DOMAIN log'[d]
      PROVE  (\E j \in DOMAIN log[d] : log'[d][i] = log[d][j]) \/ log'[d][i] = entry
  <2>1. CASE d = c
    BY <1>1, <1>4, <1>6, <2>1
  <2>2. CASE d # c
    BY <1>4, <2>2
  <2> QED BY <2>1, <2>2
<1> QED BY <1>5, <1>7

\* The question is inserted.
LEMMA InsertGoesOn ==
    ASSUME ChatInv, NEW s \in Stream, InsertQuestion(s)
    PROVE  ChatInv'
<1>1. PICK c : c = stream[s].in
  OBVIOUS
<1>2. c \in Conversation /\ stream[s] \in StreamRow /\ stream[s].at = "asking" /\ conv[c].there
  BY <1>1 DEF ChatInv, ChatTypes, InsertQuestion, RowIsRight
<1>3. PICK entry : entry = Row(s, "user", "question")
  OBVIOUS
<1>4. entry \in Logged /\ entry.role = "user"
  BY <1>3 DEF Row, Logged
<1>5. caps' = caps /\ conv' = conv /\ log' = [log EXCEPT ![c] = Append(@, entry)]
  BY <1>1, <1>3 DEF InsertQuestion
<1>6. LogsGoOn /\ \A d \in Conversation : \A i \in DOMAIN log'[d] :
        (\E j \in DOMAIN log[d] : log'[d][i] = log[d][j]) \/ log'[d][i] = entry
  BY <1>2, <1>4, <1>5, EntryGoesOn
<1>7. PICK b \in BOOLEAN : b = (stream[s].title = "placeholder")
  OBVIOUS
<1>8. CASE GoesOn(s)
  <2>1. PICK row : row = [stream[s] EXCEPT !.at = "preparing", !.title = "none", !.titling = b]
    OBVIOUS
  <2>2. row \in StreamRow /\ row.at = "preparing" /\ row.in = c /\ row.left = stream[s].left
        /\ row.failed = stream[s].failed
    BY <1>1, <1>2, <2>1 DEF StreamRow, Stage
  <2>3. stream' = [stream EXCEPT ![s] = row] /\ gate' = gate
    BY <1>7, <1>8, <2>1 DEF InsertQuestion
  <2>4. RowIsRight(row)
    BY <1>2, <2>2 DEF RowIsRight, ChatInv
  <2>5. Stays(s, row) /\ Keeps(s, row)
    BY <1>1, <1>2, <2>2, <2>3 DEF Stays, Keeps, Working
  <2> QED BY <1>4, <1>5, <1>6, <2>2, <2>3, <2>4, <2>5, StreamGoesOn
<1>9. CASE ~GoesOn(s)
  <2>1. PICK last : last = Ended(s, FALSE)
    OBVIOUS
  <2>2. last \in StreamRow /\ last.left = stream[s].left /\ last.failed = (FALSE /\ ~stream[s].left)
    BY <1>2, <2>1, EndsRight
  <2>3. last.in = c
    BY <1>1, <2>1 DEF Ended, NewStream
  <2>4. PICK row : row = [last EXCEPT !.at = "over", !.title = "none", !.titling = b]
    OBVIOUS
  <2>5. row \in StreamRow /\ row.at = "over" /\ row.in = c /\ row.left = last.left
    BY <2>2, <2>3, <2>4 DEF StreamRow, Stage
  <2>6. stream' = [stream EXCEPT ![s] = row] /\ Release(UserOf(s))
    BY <1>7, <1>9, <2>1, <2>4 DEF InsertQuestion
  <2>7. RowIsRight(row)
    BY <1>2, <2>5 DEF RowIsRight
  <2>8. Leaves(s, row)
    BY <1>2, <2>5, <2>6 DEF Leaves, Working, UserOf
  <2>9. Keeps(s, row)
    BY <1>2, <2>2, <2>5 DEF Keeps
  <2> QED BY <1>4, <1>5, <1>6, <2>5, <2>6, <2>7, <2>8, <2>9, StreamGoesOn
<1> QED BY <1>8, <1>9

\* A stream that goes on to its next stage, with the logs as they are.
LEMMA StageGoesOn ==
    ASSUME ChatInv, NEW s \in Stream, NEW row \in StreamRow, RowIsRight(row),
           stream' = [stream EXCEPT ![s] = row], UNCHANGED <<caps, gate, conv, log>>,
           stream[s].at \in Working \ {"telling"}, row.at \in Working,
           row.in = stream[s].in, row.left = stream[s].left
    PROVE  ChatInv'
<1>1. Stays(s, row) /\ Keeps(s, row)
  BY DEF Stays, Keeps, Working
<1> QED BY <1>1, SameLogs, StreamGoesOn

\* Persona and recent messages are read; what was asked is retrieved; there is
\* no evidence; a piece of the answer comes; the answer ends.
LEMMA AnswerGoesOn ==
    ASSUME ChatInv, NEW s \in Stream,
           \/ Prepare(s) \/ Abstain(s) \/ ReceiveChunk(s)
           \/ \E evidence \in {"found", "empty"} : Retrieve(s, evidence)
           \/ \E text \in {"none", "whole"} : AnswerEnds(s, text)
    PROVE  ChatInv'
<1>1. stream[s] \in StreamRow /\ stream \in [Stream -> StreamRow] /\ RowIsRight(stream[s])
  BY DEF ChatInv, ChatTypes
<1>2. CASE Prepare(s)
  <2>1. PICK stage1 \in {"retrieving", "answering"} : stream' = [stream EXCEPT ![s].at = stage1]
    BY <1>2 DEF Prepare
  <2>2. PICK row : row = [stream[s] EXCEPT !.at = stage1]
    OBVIOUS
  <2>3. row \in StreamRow /\ row.at = stage1 /\ row.in = stream[s].in /\ row.left = stream[s].left
        /\ row.failed = stream[s].failed
    BY <1>1, <2>2 DEF StreamRow, Stage
  <2>4. stream' = [stream EXCEPT ![s] = row]
    BY <1>1, <2>1, <2>2
  <2>5. stream[s].at \in Working \ {"telling"} /\ row.at \in Working /\ UNCHANGED <<caps, gate, conv, log>>
    BY <1>2, <2>3 DEF Prepare, Working
  <2>6. RowIsRight(row)
    BY <1>1, <1>2, <2>3 DEF RowIsRight, Prepare
  <2> QED BY <2>3, <2>4, <2>5, <2>6, StageGoesOn
<1>3. CASE Abstain(s)
  <2>1. PICK row : row = [stream[s] EXCEPT !.at = "saving", !.text = "abstained"]
    OBVIOUS
  <2>2. row \in StreamRow /\ row.at = "saving" /\ row.text = "abstained" /\ row.in = stream[s].in
        /\ row.left = stream[s].left /\ row.failed = stream[s].failed
    BY <1>1, <2>1 DEF StreamRow, Stage
  <2>3. stream' = [stream EXCEPT ![s] = row]
    BY <1>1, <1>3, <2>1 DEF Abstain, StreamRow
  <2>4. stream[s].at \in Working \ {"telling"} /\ row.at \in Working /\ UNCHANGED <<caps, gate, conv, log>>
    BY <1>3, <2>2 DEF Abstain, Working
  <2>5. RowIsRight(row)
    BY <1>1, <1>3, <2>2 DEF RowIsRight, Abstain
  <2> QED BY <2>2, <2>3, <2>4, <2>5, StageGoesOn
<1>4. CASE ReceiveChunk(s) /\ ~stream[s].left
  <2>1. PICK row : row = [stream[s] EXCEPT !.text = "part"]
    OBVIOUS
  <2>2. row \in StreamRow /\ row.at = stream[s].at /\ row.in = stream[s].in
        /\ row.left = stream[s].left /\ row.failed = stream[s].failed
    BY <1>1, <2>1 DEF StreamRow
  <2>3. stream' = [stream EXCEPT ![s] = row]
    BY <1>1, <1>4, <2>1 DEF ReceiveChunk
  <2>4. stream[s].at \in Working \ {"telling"} /\ row.at \in Working /\ UNCHANGED <<caps, gate, conv, log>>
    BY <1>4, <2>2 DEF ReceiveChunk, AsksModel, Working
  <2>5. RowIsRight(row)
    BY <1>1, <1>4, <2>2 DEF RowIsRight, ReceiveChunk, AsksModel
  <2> QED BY <2>2, <2>3, <2>4, <2>5, StageGoesOn
<1>5. CASE ReceiveChunk(s) /\ stream[s].left
  <2>1. PICK row : row = [stream[s] EXCEPT !.at = "saving"]
    OBVIOUS
  <2>2. row \in StreamRow /\ row.at = "saving" /\ row.in = stream[s].in
        /\ row.left = stream[s].left /\ row.failed = stream[s].failed
    BY <1>1, <2>1 DEF StreamRow, Stage
  <2>3. stream' = [stream EXCEPT ![s] = row]
    BY <1>1, <1>5, <2>1 DEF ReceiveChunk
  <2>4. stream[s].at \in Working \ {"telling"} /\ row.at \in Working /\ UNCHANGED <<caps, gate, conv, log>>
    BY <1>5, <2>2 DEF ReceiveChunk, AsksModel, Working
  <2>5. RowIsRight(row)
    BY <1>1, <1>5, <2>2 DEF RowIsRight, ReceiveChunk, AsksModel
  <2> QED BY <2>2, <2>3, <2>4, <2>5, StageGoesOn
<1>6. ASSUME NEW evidence \in {"found", "empty"}, Retrieve(s, evidence) PROVE ChatInv'
  <2>1. PICK row : row = [stream[s] EXCEPT !.at = "answering", !.evidence = evidence]
    OBVIOUS
  <2>2. row \in StreamRow /\ row.at = "answering" /\ row.in = stream[s].in
        /\ row.left = stream[s].left /\ row.failed = stream[s].failed
    BY <1>1, <2>1 DEF StreamRow, Stage
  <2>3. stream' = [stream EXCEPT ![s] = row]
    BY <1>1, <1>6, <2>1 DEF Retrieve, StreamRow
  <2>4. stream[s].at \in Working \ {"telling"} /\ row.at \in Working /\ UNCHANGED <<caps, gate, conv, log>>
    BY <1>6, <2>2 DEF Retrieve, Working
  <2>5. RowIsRight(row)
    BY <1>1, <1>6, <2>2 DEF RowIsRight, Retrieve
  <2> QED BY <2>2, <2>3, <2>4, <2>5, StageGoesOn
<1>7. ASSUME NEW text \in {"none", "whole"}, AnswerEnds(s, text) PROVE ChatInv'
  <2>1. PICK row : row = [stream[s] EXCEPT !.at = "saving", !.text = text]
    OBVIOUS
  <2>2. row \in StreamRow /\ row.at = "saving" /\ row.in = stream[s].in /\ row.text = text
        /\ row.left = stream[s].left /\ row.failed = stream[s].failed
    BY <1>1, <2>1 DEF StreamRow, Stage
  <2>3. stream' = [stream EXCEPT ![s] = row]
    BY <1>1, <1>7, <2>1 DEF AnswerEnds, StreamRow
  <2>4. stream[s].at \in Working \ {"telling"} /\ row.at \in Working /\ UNCHANGED <<caps, gate, conv, log>>
    BY <1>7, <2>2 DEF AnswerEnds, AsksModel, Working
  <2>5. RowIsRight(row)
    BY <1>1, <1>7, <2>2 DEF RowIsRight, AnswerEnds, AsksModel
  <2> QED BY <2>2, <2>3, <2>4, <2>5, StageGoesOn
<1> QED BY <1>2, <1>3, <1>4, <1>5, <1>6, <1>7

\* The answer is inserted.
LEMMA SaveGoesOn ==
    ASSUME ChatInv, NEW s \in Stream, SaveAnswer(s)
    PROVE  ChatInv'
<1>1. PICK c : c = stream[s].in
  OBVIOUS
<1>2. c \in Conversation /\ stream[s] \in StreamRow /\ stream[s].at = "saving" /\ conv[c].there
      /\ stream[s].text # "none" /\ RowIsRight(stream[s])
  BY <1>1 DEF ChatInv, ChatTypes, SaveAnswer, RowIsRight
<1>3. PICK entry : entry = Row(s, "assistant", stream[s].text)
  OBVIOUS
<1>4. entry \in Logged /\ entry.by = s /\ entry.text = stream[s].text
  BY <1>2, <1>3 DEF Row, Logged, StreamRow
<1>5. caps' = caps /\ conv' = conv /\ log' = [log EXCEPT ![c] = Append(@, entry)]
  BY <1>1, <1>3 DEF SaveAnswer
<1>6. LogsGoOn /\ \A d \in Conversation : \A i \in DOMAIN log'[d] :
        (\E j \in DOMAIN log[d] : log'[d][i] = log[d][j]) \/ log'[d][i] = entry
  BY <1>2, <1>4, <1>5, EntryGoesOn
<1>7. PICK row : row = [stream[s] EXCEPT !.at = "telling"]
  OBVIOUS
<1>8. row \in StreamRow /\ row.at = "telling" /\ row.in = c /\ row.left = stream[s].left
      /\ row.failed = stream[s].failed
  BY <1>1, <1>2, <1>7 DEF StreamRow, Stage
<1>9. stream' = [stream EXCEPT ![s] = row] /\ gate' = gate
  BY <1>7 DEF SaveAnswer
<1>10. RowIsRight(row) /\ ~row.failed
  BY <1>2, <1>8 DEF RowIsRight
<1>11. Stays(s, row) /\ Keeps(s, row)
  BY <1>1, <1>2, <1>8, <1>9 DEF Stays, Keeps, Working
<1>12. entry.text = "part" => row.left
  BY <1>2, <1>4, <1>8 DEF RowIsRight
<1>13. \A d \in Conversation : \A i \in DOMAIN log'[d] :
         (\E j \in DOMAIN log[d] : log'[d][i] = log[d][j])
         \/ /\ log'[d][i].role = "assistant" =>
                 /\ log'[d][i].by = s /\ row.at \in {"telling", "over"} /\ ~row.failed
                 /\ log'[d][i].text = "part" => row.left
  BY <1>4, <1>6, <1>8, <1>10, <1>12
<1> QED BY <1>5, <1>6, <1>8, <1>9, <1>10, <1>11, <1>13, StreamGoesOn

\* The conversation gets its title in the background, or none.
LEMMA TitleGoesOn ==
    ASSUME ChatInv, NEW s \in Stream, NEW ok \in BOOLEAN, GenerateTitle(s, ok)
    PROVE  ChatInv'
<1>1. stream[s] \in StreamRow /\ RowIsRight(stream[s])
  BY DEF ChatInv, ChatTypes
<1>2. PICK row : row = [stream[s] EXCEPT !.titling = FALSE]
  OBVIOUS
<1>3. row \in StreamRow /\ row.at = stream[s].at /\ row.in = stream[s].in /\ row.text = stream[s].text
      /\ row.left = stream[s].left /\ row.failed = stream[s].failed
  BY <1>1, <1>2 DEF StreamRow
<1>4. stream' = [stream EXCEPT ![s] = row] /\ UNCHANGED <<caps, gate, log>>
  BY <1>2 DEF GenerateTitle
<1>5. RowIsRight(row)
  BY <1>1, <1>3 DEF RowIsRight
<1>6. Stays(s, row) /\ Keeps(s, row)
  BY <1>3, <1>4 DEF Stays, Keeps
<1>7. LogsGoOn
  <2>1. PICK c : c = stream[s].in
    OBVIOUS
  <2>2. CASE ok /\ conv[c].there /\ c \in Conversation
    <3>1. PICK title : title = TitleIfPlaceholder(c, "generated")
      OBVIOUS
    <3>2. conv[c] \in ConversationRow
      BY <2>2 DEF ChatInv, ChatTypes
    <3>3. title \in {"placeholder", "chosen", "generated"}
      BY <3>1, <3>2 DEF TitleIfPlaceholder, ConversationRow
    <3>4. PICK new : new = [conv[c] EXCEPT !.title = title]
      OBVIOUS
    <3>5. new \in ConversationRow /\ new.there = conv[c].there
      BY <3>2, <3>3, <3>4 DEF ConversationRow
    <3>6. conv' = [conv EXCEPT ![c] = new]
      BY <2>1, <2>2, <3>1, <3>4 DEF GenerateTitle
    <3> QED BY <1>4, <2>2, <3>5, <3>6 DEF ChatInv, ChatTypes, LogsGoOn
  <2>3. CASE ~(ok /\ conv[c].there)
    BY <1>4, <2>1, <2>3 DEF GenerateTitle, ChatInv, ChatTypes, LogsGoOn
  <2>4. CASE ok /\ conv[c].there /\ c \notin Conversation
    <3>1. conv' = conv
      BY <2>1, <2>4 DEF GenerateTitle, ChatInv, ChatTypes
    <3> QED BY <1>4, <3>1 DEF ChatInv, ChatTypes, LogsGoOn
  <2> QED BY <2>2, <2>3, <2>4
<1>8. \A c \in Conversation : \A i \in DOMAIN log'[c] : \E j \in DOMAIN log[c] : log'[c][i] = log[c][j]
  BY <1>4
<1> QED BY <1>3, <1>4, <1>5, <1>6, <1>7, <1>8, StreamGoesOn

\* The client leaves.
LEMMA LeavingGoesOn ==
    ASSUME ChatInv, NEW s \in Stream, ClientLeaves(s)
    PROVE  ChatInv'
<1>1. stream[s] \in StreamRow /\ RowIsRight(stream[s])
  BY DEF ChatInv, ChatTypes
<1>2. PICK row : row = [stream[s] EXCEPT !.left = TRUE]
  OBVIOUS
<1>3. row \in StreamRow /\ row.at = stream[s].at /\ row.in = stream[s].in
      /\ row.failed = stream[s].failed /\ row.left
  BY <1>1, <1>2 DEF StreamRow
<1>4. stream' = [stream EXCEPT ![s] = row] /\ UNCHANGED <<caps, gate, conv, log>>
  BY <1>2 DEF ClientLeaves
<1>5. RowIsRight(row)
  BY <1>1, <1>3 DEF RowIsRight
<1>6. Stays(s, row) /\ Keeps(s, row)
  BY <1>3, <1>4 DEF Stays, Keeps
<1> QED BY <1>3, <1>4, <1>5, <1>6, SameLogs, StreamGoesOn

\* The user renames and deletes conversations and messages, and truncates.
LEMMA RequestsGoOn ==
    ASSUME ChatInv, NEW c \in Conversation,
           \/ RenameConversation(c) \/ DeleteConversation(c)
           \/ \E i \in DOMAIN log[c] : RemoveMessage(c, i) \/ TruncateConversation(c, i)
    PROVE  ChatInv'
<1>1. conv[c] \in ConversationRow
  BY DEF ChatInv, ChatTypes
<1>2. PICK old : old = log[c]
  OBVIOUS
<1>3. old \in Seq(Logged)
  BY <1>2 DEF ChatInv, ChatTypes
<1>4. ASSUME NEW part \in Seq(Logged), log' = [log EXCEPT ![c] = part], UNCHANGED <<caps, gate, conv, stream>>,
             \A i \in DOMAIN part : \E j \in DOMAIN old : part[i] = old[j]
      PROVE  ChatInv'
  <2>1. log'[c] = part /\ \A d \in Conversation : d # c => log'[d] = log[d]
    BY <1>4 DEF ChatInv, ChatTypes
  <2>2. old = <<>> => part = <<>>
    <3> SUFFICES ASSUME old = <<>> PROVE part = <<>>
      OBVIOUS
    <3>1. Len(part) \in Nat /\ DOMAIN part = 1..Len(part)
      OBVIOUS
    <3>2. \A i \in DOMAIN part : i \in DOMAIN <<>>
      BY <1>4
    <3>3. \A i \in 1..Len(part) : FALSE
      BY <3>1, <3>2
    <3>4. Len(part) = 0
      BY <3>1, <3>3
    <3> QED BY <3>4
  <2>3. LogsGoOn
    BY <1>2, <1>4, <2>1, <2>2 DEF ChatInv, ChatTypes, LogsGoOn
  <2>4. \A d \in Conversation : \A i \in DOMAIN log'[d] : \E j \in DOMAIN log[d] : log'[d][i] = log[d][j]
    BY <1>2, <1>4, <2>1
  <2> QED BY <1>4, <2>3, <2>4, RequestGoesOn
<1>5. CASE RenameConversation(c)
  <2>1. PICK new : new = [conv[c] EXCEPT !.title = "chosen"]
    OBVIOUS
  <2>2. new \in ConversationRow /\ new.there = conv[c].there
    BY <1>1, <2>1 DEF ConversationRow
  <2>3. conv' = [conv EXCEPT ![c] = new] /\ UNCHANGED <<caps, gate, log, stream>>
    BY <1>5, <2>1 DEF RenameConversation
  <2>4. LogsGoOn
    BY <2>2, <2>3 DEF ChatInv, ChatTypes, LogsGoOn
  <2> QED BY <2>3, <2>4, RequestGoesOn
<1>6. CASE DeleteConversation(c)
  <2>1. PICK new : new = [conv[c] EXCEPT !.there = FALSE]
    OBVIOUS
  <2>2. new \in ConversationRow
    BY <1>1, <2>1 DEF ConversationRow
  <2>3. conv' = [conv EXCEPT ![c] = new] /\ log' = [log EXCEPT ![c] = <<>>] /\ UNCHANGED <<caps, gate, stream>>
    BY <1>6, <2>1 DEF DeleteConversation
  <2>4. log'[c] = <<>> /\ \A d \in Conversation : d # c => log'[d] = log[d] /\ conv'[d] = conv[d]
    BY <2>3 DEF ChatInv, ChatTypes
  <2>5. LogsGoOn
    <3>1. <<>> \in Seq(Logged)
      OBVIOUS
    <3> QED BY <2>2, <2>3, <2>4, <3>1 DEF ChatInv, ChatTypes, LogsGoOn
  <2>6. \A d \in Conversation : \A i \in DOMAIN log'[d] : \E j \in DOMAIN log[d] : log'[d][i] = log[d][j]
    BY <2>4
  <2> QED BY <2>3, <2>5, <2>6, RequestGoesOn
<1>7. ASSUME NEW i \in DOMAIN log[c], RemoveMessage(c, i) PROVE ChatInv'
  <2>1. PICK part : part = RemoveAt(old, i)
    OBVIOUS
  <2>2. part = SubSeq(old, 1, i - 1) \o SubSeq(old, i + 1, Len(old)) /\ i \in 1..Len(old)
    BY <1>2, <1>3, <2>1 DEF RemoveAt
  <2>3. PICK head, tail : head = SubSeq(old, 1, i - 1) /\ tail = SubSeq(old, i + 1, Len(old))
    OBVIOUS
  <2>4. head \in Seq(Logged) /\ Len(head) = i - 1 /\ \A k \in 1..i-1 : head[k] = old[k]
    BY <1>3, <2>2, <2>3, SMTT(20)
  <2>5. tail \in Seq(Logged) /\ Len(tail) = Len(old) - i /\ \A k \in 1..Len(old)-i : tail[k] = old[i + k]
    <3>1. Len(old) \in Nat /\ i \in Nat /\ i <= Len(old)
      BY <1>3, <2>2
    <3>2. PICK first, last : first = i + 1 /\ last = Len(old)
      OBVIOUS
    <3>3. tail = SubSeq(old, first, last) /\ first \in 1..Len(old)+1 /\ last \in 0..Len(old) /\ first <= last + 1
      BY <2>2, <2>3, <3>1, <3>2
    <3>4. tail \in Seq(Logged)
      BY <1>3, <3>3
    <3>5. Len(tail) = IF first <= last THEN last - first + 1 ELSE 0
      BY <1>3, <3>3
    <3>6. \A k \in 1..last-first+1 : tail[k] = old[first + k - 1]
      BY <1>3, <3>3
    <3>7. ASSUME NEW k \in 1..Len(old)-i PROVE tail[k] = old[i + k]
      <4>1. first + k - 1 = i + k /\ k \in 1..last-first+1
        BY <3>1, <3>2, <3>3
      <4> QED BY <3>6, <4>1
    <3> QED BY <3>1, <3>2, <3>3, <3>4, <3>5, <3>7
  <2>6. part = head \o tail
    BY <2>2, <2>3
  <2>7. part \in Seq(Logged) /\ Len(part) = Len(old) - 1
    <3>1. head \o tail \in Seq(Logged) /\ Len(head \o tail) = Len(head) + Len(tail)
      BY <2>4, <2>5, ConcatProperties
    <3>2. Len(old) \in Nat /\ i \in Nat
      BY <1>3, <2>2
    <3> QED BY <2>4, <2>5, <2>6, <3>1, <3>2
  <2>8. ASSUME NEW k \in DOMAIN part PROVE \E j \in DOMAIN old : part[k] = old[j]
    <3>1. k \in 1..Len(old)-1 /\ Len(old) \in Nat /\ DOMAIN old = 1..Len(old)
      BY <1>3, <2>7
    <3>2. part[k] = IF k <= Len(head) THEN head[k] ELSE tail[k - Len(head)]
      <4>1. \A n \in 1..Len(head)+Len(tail) :
              (head \o tail)[n] = IF n <= Len(head) THEN head[n] ELSE tail[n - Len(head)]
        BY <2>4, <2>5, ConcatProperties
      <4>2. k \in 1..Len(head)+Len(tail)
        BY <2>2, <2>4, <2>5, <3>1
      <4> QED BY <2>6, <4>1, <4>2
    <3>3. i \in Nat /\ i >= 1 /\ i <= Len(old) /\ Len(head) = i - 1 /\ k \in Nat
      BY <2>2, <2>4, <3>1
    <3>4. CASE k < i
      <4>1. k \in 1..i-1 /\ k <= Len(head)
        BY <2>2, <2>4, <3>1, <3>4
      <4>2. part[k] = old[k]
        BY <2>4, <3>2, <4>1
      <4> QED BY <3>1, <4>1, <4>2
    <3>5. CASE k >= i
      <4>1. k - Len(head) \in 1..Len(old)-i /\ ~(k <= Len(head)) /\ i + (k - Len(head)) = k + 1
        BY <3>1, <3>3, <3>5
      <4>2. tail[k - Len(head)] = old[i + (k - Len(head))]
        BY <2>5, <4>1
      <4>3. part[k] = old[k + 1] /\ k + 1 \in 1..Len(old)
        BY <3>1, <3>2, <4>1, <4>2
      <4> QED BY <3>1, <4>3
    <3> QED BY <3>3, <3>4, <3>5
  <2> QED BY <1>2, <1>4, <1>7, <2>1, <2>7, <2>8 DEF RemoveMessage
<1>8. ASSUME NEW i \in DOMAIN log[c], TruncateConversation(c, i) PROVE ChatInv'
  <2>1. PICK part : part = SubSeq(old, 1, i - 1)
    OBVIOUS
  <2>2. part \in Seq(Logged) /\ Len(part) = i - 1 /\ i \in 1..Len(old)
    BY <1>2, <1>3, <2>1
  <2>3. \A k \in 1..Len(part) : part[k] = old[k]
    BY <1>2, <1>3, <2>1, <2>2
  <2>4. \A k \in DOMAIN part : \E j \in DOMAIN old : part[k] = old[j]
    BY <1>3, <2>2, <2>3
  <2> QED BY <1>2, <1>4, <1>8, <2>1, <2>2, <2>4 DEF TruncateConversation
<1> QED BY <1>5, <1>6, <1>7, <1>8

\* The invariant holds at the start.
LEMMA ChatStarts == ChatInit => ChatInv
<1>. SUFFICES ASSUME ChatInit PROVE ChatInv
  OBVIOUS
<1>1. PICK row : row = NewStream
  OBVIOUS
<1>2. row \in StreamRow /\ row.at = "idle" /\ ~row.failed
  BY <1>1 DEF NewStream, StreamRow, Stage
<1>3. stream = [s \in Stream |-> row]
  BY <1>1 DEF ChatInit
<1>4. stream \in [Stream -> StreamRow] /\ \A s \in Stream : RowIsRight(stream[s])
  BY <1>2, <1>3 DEF RowIsRight
<1>5. conv \in [Conversation -> ConversationRow] /\ \A c \in Conversation : conv[c].there
  BY DEF ChatInit, ConversationRow
<1>6. log \in [Conversation -> Seq(Logged)] /\ \A c \in Conversation : log[c] = <<>>
  <2>1. <<>> \in Seq(Logged)
    OBVIOUS
  <2> QED BY <2>1 DEF ChatInit
<1>7. gate \in Places /\ gate.total = 0 /\ \A u \in User : gate.by[u] = 0
  BY DEF ChatInit, Places
<1>8. ChatTypes
  BY <1>4, <1>5, <1>6, <1>7 DEF ChatTypes, ChatInit
<1>9. Running = {} /\ \A u : RunningOf(u) = {}
  BY <1>2, <1>3 DEF Running, RunningOf, Working
<1>10. GateIsRight
  BY <1>7, <1>8, <1>9, FS_EmptySet, CapsAreNumbers DEF GateIsRight
<1> QED BY <1>4, <1>6, <1>8, <1>10 DEF ChatInv

\* Every step keeps the invariant.
LEMMA ChatGoesOn == ChatInv /\ [ChatNext]_chatVars => ChatInv'
<1>. SUFFICES ASSUME ChatInv, [ChatNext]_chatVars PROVE ChatInv'
  OBVIOUS
<1>1. ASSUME NEW s \in Stream, StreamStep(s) PROVE ChatInv'
  <2>1. CASE FindConversation(s)
    BY <2>1, FindGoesOn
  <2>2. CASE InsertQuestion(s)
    BY <2>2, InsertGoesOn
  <2>3. CASE QuestionFails(s) \/ SaveFails(s)
    BY <2>3, FinishGoesOn DEF QuestionFails, SaveFails, Working
  <2>4. CASE Prepare(s) \/ Abstain(s)
    BY <2>4, AnswerGoesOn
  <2>5. CASE AbortWakes(s) \/ NothingToSave(s) \/ TellAnswer(s)
    BY <2>5, FinishGoesOn DEF AbortWakes, AsksModel, NothingToSave, TellAnswer, Working
  <2>6. CASE SaveAnswer(s)
    BY <2>6, SaveGoesOn
  <2> QED BY <1>1, <2>1, <2>2, <2>3, <2>4, <2>5, <2>6 DEF StreamStep
<1>2. ASSUME NEW s \in Stream, RetrievalFails(s) \/ AnswerFails(s) PROVE ChatInv'
  BY <1>2, FinishGoesOn DEF RetrievalFails, AnswerFails, Fail, AsksModel, Working
<1>3. ASSUME NEW s \in Stream, NEW c \in Conversation, NEW terms \in Message, Post(s, c, terms) PROVE ChatInv'
  BY <1>3, PostGoesOn
<1>4. ASSUME NEW s \in Stream, NEW evidence \in {"found", "empty"}, Retrieve(s, evidence) PROVE ChatInv'
  BY <1>4, AnswerGoesOn
<1>5. ASSUME NEW s \in Stream, NEW text \in {"none", "whole"}, AnswerEnds(s, text) PROVE ChatInv'
  BY <1>5, AnswerGoesOn
<1>6. ASSUME NEW s \in Stream, ReceiveChunk(s) PROVE ChatInv'
  BY <1>6, AnswerGoesOn
<1>7. ASSUME NEW s \in Stream, NEW ok \in BOOLEAN, GenerateTitle(s, ok) PROVE ChatInv'
  BY <1>7, TitleGoesOn
<1>8. ASSUME NEW s \in Stream, ClientLeaves(s) PROVE ChatInv'
  BY <1>8, LeavingGoesOn
<1>9. ASSUME NEW c \in Conversation,
             \/ RenameConversation(c) \/ DeleteConversation(c)
             \/ \E i \in DOMAIN log[c] : RemoveMessage(c, i) \/ TruncateConversation(c, i)
      PROVE  ChatInv'
  BY <1>9, RequestsGoOn
<1>10. CASE UNCHANGED chatVars
  <2>1. UNCHANGED <<caps, gate, conv, log, stream>>
    BY <1>10 DEF chatVars
  <2> QED BY <2>1, SameLogs, RequestGoesOn
<1> QED BY <1>1, <1>2, <1>3, <1>4, <1>5, <1>6, <1>7, <1>8, <1>9, <1>10 DEF ChatNext

\* What the invariant says of the gate and of the answers.
LEMMA ChatInvTells == ChatInv => GateCountsStreams /\ HalfAnswersAreStops
<1>. SUFFICES ASSUME ChatInv PROVE GateCountsStreams /\ HalfAnswersAreStops
  OBVIOUS
<1>1. ChatTypeOK
  <2>1. StreamRow = [at : {"idle", "finding", "over"} \cup Working,
         in : Conversation \cup {"none"}, left : BOOLEAN,
         title : {"none", "placeholder", "chosen", "generated"},
         rag : BOOLEAN, terms : SUBSET Terms,
         evidence : {"unasked", "found", "empty"},
         text : {"none", "part", "whole", "abstained"},
         failed : BOOLEAN, titling : BOOLEAN]
    <3>1. Stage = {"idle", "finding", "over"} \cup Working
      BY DEF Stage, Working
    <3> QED BY <3>1 DEF StreamRow
  <2> QED BY <2>1 DEF ChatInv, ChatTypes, ChatTypeOK, Places, ConversationRow, Logged
<1>2. GateCountsStreams
  BY <1>1 DEF ChatInv, GateIsRight, GateCountsStreams, Running, RunningOf
<1>3. HalfAnswersAreStops
  BY DEF ChatInv, AnswerIsRight, HalfAnswersAreStops
<1> QED BY <1>2, <1>3

\* The gate counts the streams that run, in all and of each user, and never
\* more than its limits, however streams fail, stop and end: no place is lost
\* and none is taken twice, for every number of users and streams and every
\* limit (concurrencyGate.ts and the finally block of createChatStream).
THEOREM GateCountsEveryStream == ChatSpec => []GateCountsStreams
<1>1. ChatInit => ChatInv
  BY ChatStarts
<1>2. ChatInv /\ [ChatNext]_chatVars => ChatInv'
  BY ChatGoesOn
<1>3. ChatInv => GateCountsStreams
  BY ChatInvTells
<1> QED BY <1>1, <1>2, <1>3, PTL DEF ChatSpec

\* A half answer is kept only of a client that left, and no answer is kept of a
\* question whose client was told of a failure, while conversations are
\* truncated, deleted and written by other streams at any time
\* (createChatStream's loop and catch block).
THEOREM HalfAnswersAreOfStops == ChatSpec => []HalfAnswersAreStops
<1>1. ChatInit => ChatInv
  BY ChatStarts
<1>2. ChatInv /\ [ChatNext]_chatVars => ChatInv'
  BY ChatGoesOn
<1>3. ChatInv => HalfAnswersAreStops
  BY ChatInvTells
<1> QED BY <1>1, <1>2, <1>3, PTL DEF ChatSpec

-----------------------------------------------------------------------------
(* The history of a conversation. *)

\* A finite set has an element with none before it, in every order.
LEMMA SomeIsFirst ==
    ASSUME NEW T, IsFiniteSet(T), T # {}, NEW R, R \subseteq T \X T,
           \A x \in T : <<x, x>> \notin R,
           \A x, y, z \in T : <<x, y>> \in R /\ <<y, z>> \in R => <<x, z>> \in R
    PROVE  \E x \in T : \A y \in T : <<y, x>> \notin R
<1> DEFINE Below(x) == {y \in T : <<y, x>> \in R}
           Counts == {Cardinality(Below(x)) : x \in T}
<1>1. \A x \in T : IsFiniteSet(Below(x)) /\ Cardinality(Below(x)) \in Nat
  <2>1. \A x \in T : Below(x) \in SUBSET T
    OBVIOUS
  <2> QED BY <2>1, FS_Subset, FS_CardinalityType
<1>2. Counts \subseteq Nat /\ Counts # {}
  <2>1. \A n \in Counts : \E x \in T : n = Cardinality(Below(x))
    OBVIOUS
  <2>2. \A x \in T : Cardinality(Below(x)) \in Counts
    OBVIOUS
  <2> HIDE DEF Below, Counts
  <2> QED BY <1>1, <2>1, <2>2
<1>3. PICK least \in Counts : \A n \in Counts : ~(n < least)
  <2>1. PICK Less : Less = OpToRel(<, Nat)
    OBVIOUS
  <2>2. IsWellFoundedOn(Less, Nat)
    BY <2>1, NatLessThanWellFounded
  <2>3. PICK n \in Counts : \A k \in Counts : ~(<<k, n>> \in Less)
    BY <1>2, <2>2, WFMin
  <2>4. Less = {ss \in Nat \X Nat : ss[1] < ss[2]}
    BY <2>1 DEF OpToRel
  <2>5. ASSUME NEW k \in Counts, k < n PROVE FALSE
    <3>1. k \in Nat /\ n \in Nat
      BY <1>2
    <3> QED BY <2>3, <2>4, <2>5, <3>1
  <2> QED BY <2>5
<1>4. PICK x \in T : least = Cardinality(Below(x))
  OBVIOUS
<1>5. ASSUME NEW y \in T, <<y, x>> \in R PROVE FALSE
  <2>1. Below(y) \subseteq Below(x) \ {y} /\ y \in Below(x)
    BY <1>5
  <2>2. Below(y) \in SUBSET Below(x) /\ Below(y) # Below(x)
    BY <2>1
  <2>3. Cardinality(Below(y)) < Cardinality(Below(x))
    <3>1. /\ Cardinality(Below(y)) <= Cardinality(Below(x))
          /\ Cardinality(Below(x)) = Cardinality(Below(y)) => Below(x) = Below(y)
      BY <1>1, <2>2, FS_Subset, Zenon
    <3>2. Cardinality(Below(x)) \in Nat /\ Cardinality(Below(y)) \in Nat
      BY <1>1
    <3> HIDE DEF Below
    <3> QED BY <2>2, <3>1, <3>2
  <2>4. Cardinality(Below(y)) \in Counts
    <3> HIDE DEF Below
    <3> QED OBVIOUS
  <2> QED BY <1>3, <1>4, <2>3, <2>4
<1> QED BY <1>5

\* A finite set of numbers has its greatest.
LEMMA MaxIsGreatest ==
    ASSUME NEW T, IsFiniteSet(T), T # {}, T \subseteq Nat
    PROVE  Max(T) \in T /\ \A x \in T : x <= Max(T)
<1> DEFINE R == {p \in T \X T : p[1] > p[2]}
<1>1. \A x, y \in T : <<x, y>> \in R <=> x > y
  OBVIOUS
<1>2. \A x \in T : <<x, x>> \notin R
  BY <1>1
<1>3. \A x, y, z \in T : <<x, y>> \in R /\ <<y, z>> \in R => <<x, z>> \in R
  BY <1>1
<1>4. R \subseteq T \X T
  OBVIOUS
<1> HIDE DEF R
<1>5. PICK x \in T : \A y \in T : <<y, x>> \notin R
  BY <1>2, <1>3, <1>4, SomeIsFirst
<1>6. ASSUME NEW y \in T PROVE x >= y
  <2>1. ~(y > x)
    BY <1>1, <1>5
  <2>2. x \in Nat /\ y \in Nat
    OBVIOUS
  <2> QED BY <2>1, <2>2
<1>7. Max(T) \in T /\ \A y \in T : Max(T) >= y
  BY <1>6 DEF Max
<1> QED BY <1>7

\* The values of a function on a finite set are finitely many.
LEMMA ValuesAreFinite ==
    ASSUME NEW T, IsFiniteSet(T), NEW f, f = [x \in T |-> f[x]]
    PROVE  IsFiniteSet({f[x] : x \in T})
<1>1. f \in Surjection(T, {f[x] : x \in T})
  BY DEF Surjection
<1> QED BY <1>1, FS_Surjection

\* The rows: finitely many, of the past, in the main conversation in the order
\* of their places, in a branch of one time; a cut leaves nothing later.
HistoryInv ==
    /\ HistoryTypeOK /\ IsFiniteSet(rows)
    /\ \A m \in rows : m.at <= clock
    /\ \A m, n \in In("main") : n.at < m.at => n.place < m.place
    /\ \A m, n \in In("branch") : n.at = m.at
    /\ \A room \in Room : cutAt[room] # NoMessage => \A m \in In(room) : m.place < cutAt[room]

\* The next place is after all of the room.
LEMMA NextIsLast ==
    ASSUME HistoryInv, NEW room \in Room
    PROVE  NextPlace(room) \in Nat /\ \A m \in In(room) : m.place < NextPlace(room)
<1>1. PICK T : T = {m.place : m \in In(room)} \cup {0}
  OBVIOUS
<1>2. IsFiniteSet(In(room))
  BY FS_Subset DEF HistoryInv, In
<1>3. IsFiniteSet({m.place : m \in In(room)})
  <2>1. PICK f : f = [m \in In(room) |-> m.place]
    OBVIOUS
  <2>2. {m.place : m \in In(room)} = {f[m] : m \in In(room)} /\ f = [m \in In(room) |-> f[m]]
    BY <2>1
  <2> QED BY <1>2, <2>2, ValuesAreFinite
<1>4. IsFiniteSet(T)
  BY <1>1, <1>3, FS_AddElement
<1>5. T \subseteq Nat /\ T # {}
  BY <1>1 DEF HistoryInv, HistoryTypeOK, In, MessageRow
<1>6. Max(T) \in Nat /\ \A x \in T : x <= Max(T)
  BY <1>4, <1>5, MaxIsGreatest
<1>7. NextPlace(room) = Max(T) + 1
  BY <1>1 DEF NextPlace
<1>8. \A m \in In(room) : m.place \in T
  BY <1>1
<1>9. PICK last : last = Max(T)
  OBVIOUS
<1>10. last \in Nat /\ NextPlace(room) = last + 1 /\ \A m \in In(room) : m.place <= last /\ m.place \in Nat
  BY <1>5, <1>6, <1>7, <1>8, <1>9
<1> QED BY <1>10

\* A row's millisecond is not after it.
LEMMA MillisAreEarlier ==
    ASSUME NEW at \in Nat
    PROVE  Millis(at) <= at /\ Millis(at) \in Int
<1>1. PerMilli \in Nat /\ PerMilli > 0
  BY MessageHistoryAssumption
<1>2. at % PerMilli \in 0..PerMilli-1
  BY <1>1
<1> QED BY <1>1, <1>2 DEF Millis

Readers == [room : Room, got : SUBSET MessageId, of : SUBSET MessageId,
            cursor : {NoMessage} \cup [id : MessageId, createdAt : Nat \cup {NoMessage}],
            end : BOOLEAN, on : BOOLEAN]

\* A message is inserted.
LEMMA InsertingKeepsHistory ==
    ASSUME HistoryInv, NEW id \in MessageId, NEW role \in {"user", "assistant"}, NEW gap \in 1..2,
           InsertMessage(id, role, gap)
    PROVE  HistoryInv'
<1>1. PICK new : new = [id |-> id, room |-> "main", at |-> clock + gap, role |-> role,
                        place |-> NextPlace("main")]
  OBVIOUS
<1>2. /\ clock \in Nat /\ clock' = clock + gap /\ clock' \in 0..MaxClock /\ clock' > clock
      /\ rows' = rows \cup {new} /\ reader' = reader /\ cutAt' = [cutAt EXCEPT !["main"] = NoMessage]
  <2>1. clock \in 0..MaxClock /\ MaxClock \in Nat
    BY MessageHistoryAssumption DEF HistoryInv, HistoryTypeOK
  <2> QED BY <1>1, <2>1 DEF InsertMessage
<1>3. NextPlace("main") \in Nat /\ \A m \in In("main") : m.place < NextPlace("main")
  BY NextIsLast DEF Room
<1>4. /\ new \in MessageRow /\ new.room = "main" /\ new.at = clock' /\ new.id = id
      /\ new.place = NextPlace("main")
  BY <1>1, <1>2, <1>3 DEF MessageRow, Room
<1>5. \A m \in rows : m \in MessageRow /\ m.id # id /\ m.at <= clock /\ m.at \in Nat /\ m.place \in Nat
  BY DEF HistoryInv, HistoryTypeOK, MessageRow, InsertMessage, Fresh, Ids
<1>6. rows' \subseteq MessageRow /\ \A m1, m2 \in rows' : m1.id = m2.id => m1 = m2
  BY <1>2, <1>4, <1>5 DEF HistoryInv, HistoryTypeOK
<1>7. IsFiniteSet(rows')
  BY <1>2, FS_AddElement DEF HistoryInv
<1>8. \A m \in rows' : m.at <= clock'
  BY <1>2, <1>4, <1>5
<1>9. In("main")' = In("main") \cup {new} /\ In("branch")' = In("branch")
  BY <1>2, <1>4 DEF In
<1>10. ASSUME NEW m \in In("main")', NEW n \in In("main")', n.at < m.at PROVE n.place < m.place
  <2>1. CASE m = new /\ n # new
    BY <1>3, <1>4, <1>9, <2>1
  <2>2. CASE n = new
    <3>1. m.at <= clock' /\ m.at \in Nat
      BY <1>2, <1>4, <1>5, <1>9 DEF In
    <3> QED BY <1>2, <1>4, <1>10, <2>2, <3>1
  <2>3. CASE m # new /\ n # new
    BY <1>9, <1>10, <2>3 DEF HistoryInv
  <2> QED BY <2>1, <2>2, <2>3
<1>11. cutAt' \in [Room -> Nat \cup {NoMessage}] /\ cutAt'["main"] = NoMessage /\ cutAt'["branch"] = cutAt["branch"]
  BY <1>2 DEF HistoryInv, HistoryTypeOK, Room
<1>12. \A room \in Room : cutAt'[room] # NoMessage => \A m \in In(room)' : m.place < cutAt'[room]
  BY <1>9, <1>11 DEF HistoryInv, Room
<1>13. HistoryTypeOK'
  BY <1>2, <1>6, <1>11 DEF HistoryInv, HistoryTypeOK
<1> QED BY <1>7, <1>8, <1>9, <1>10, <1>12, <1>13 DEF HistoryInv

\* A branch copies messages, at one time.
LEMMA BranchingKeepsHistory ==
    ASSUME HistoryInv, NEW from, Branch(from)
    PROVE  HistoryInv'
<1>1. PICK copied : copied = CopiedUpTo(from)
  OBVIOUS
<1>2. PICK ids \in [copied -> Fresh] :
        /\ \A n1, n2 \in copied : ids[n1] = ids[n2] => n1 = n2
        /\ rows' = rows \cup {[n EXCEPT !.id = ids[n], !.room = "branch", !.at = clock + 1] : n \in copied}
  BY <1>1 DEF Branch
<1>3. PICK f : f = [n \in copied |-> [n EXCEPT !.id = ids[n], !.room = "branch", !.at = clock + 1]]
  OBVIOUS
<1>4. PICK copies : copies = {f[n] : n \in copied}
  OBVIOUS
<1>5. rows' = rows \cup copies
  BY <1>2, <1>3, <1>4
<1>6. copied \subseteq rows /\ IsFiniteSet(copied)
  <2>1. copied \in SUBSET rows
    BY <1>1 DEF CopiedUpTo, In
  <2> QED BY <2>1, FS_Subset DEF HistoryInv
<1>7. IsFiniteSet(copies)
  <2>1. f = [n \in copied |-> f[n]]
    BY <1>3
  <2> QED BY <1>4, <1>6, <2>1, ValuesAreFinite
<1>8. /\ clock \in Nat /\ clock' = clock + 1 /\ clock' \in 0..MaxClock
      /\ reader' = reader /\ cutAt' = [cutAt EXCEPT !["branch"] = NoMessage] /\ In("branch") = {}
  <2>1. clock \in 0..MaxClock /\ MaxClock \in Nat
    BY MessageHistoryAssumption DEF HistoryInv, HistoryTypeOK
  <2>2. /\ clock < MaxClock /\ clock' = clock + 1 /\ reader' = reader
        /\ cutAt' = [cutAt EXCEPT !["branch"] = NoMessage] /\ In("branch") = {}
    BY Zenon DEF Branch
  <2> QED BY <2>1, <2>2
<1>9. ASSUME NEW n \in copied
      PROVE  f[n] \in MessageRow /\ f[n].room = "branch" /\ f[n].at = clock' /\ f[n].id = ids[n]
  <2>1. n \in MessageRow /\ ids[n] \in MessageId
    BY <1>6 DEF HistoryInv, HistoryTypeOK, Fresh
  <2>2. f[n] = [n EXCEPT !.id = ids[n], !.room = "branch", !.at = clock']
    BY <1>3, <1>8
  <2>3. clock' \in Nat
    BY <1>8
  <2> QED BY <2>1, <2>2, <2>3 DEF MessageRow, Room
<1>10. \A m \in rows : m \in MessageRow /\ m.at <= clock /\ m.at \in Nat
  BY DEF HistoryInv, HistoryTypeOK, MessageRow
<1>11. rows' \subseteq MessageRow /\ \A m \in rows' : m.at <= clock'
  BY <1>4, <1>5, <1>8, <1>9, <1>10
<1>12. ASSUME NEW m1 \in rows', NEW m2 \in rows', m1.id = m2.id PROVE m1 = m2
  <2>1. \A m \in rows : \A n \in copied : m.id # f[n].id
    BY <1>9 DEF Fresh, Ids
  <2>2. CASE m1 \in rows /\ m2 \in rows
    BY <1>12, <2>2 DEF HistoryInv, HistoryTypeOK
  <2>3. CASE ~(m1 \in rows /\ m2 \in rows)
    <3>1. PICK n1 \in copied, n2 \in copied : m1 = f[n1] /\ m2 = f[n2]
      BY <1>4, <1>5, <1>12, <2>1, <2>3
    <3> QED BY <1>2, <1>9, <1>12, <3>1, ZenonT(40)
  <2> QED BY <2>2, <2>3
<1>13. IsFiniteSet(rows')
  BY <1>5, <1>7, FS_Union DEF HistoryInv
<1>14. \A m \in copies : m.room = "branch" /\ m.at = clock'
  BY <1>4, <1>9
<1>15. In("main")' = In("main") /\ In("branch")' = copies
  BY <1>5, <1>8, <1>14 DEF In
<1>16. cutAt' \in [Room -> Nat \cup {NoMessage}] /\ cutAt'["branch"] = NoMessage /\ cutAt'["main"] = cutAt["main"]
  BY <1>8 DEF HistoryInv, HistoryTypeOK, Room
<1>17. \A room \in Room : cutAt'[room] # NoMessage => \A m \in In(room)' : m.place < cutAt'[room]
  BY <1>15, <1>16 DEF HistoryInv, Room
<1>18. HistoryTypeOK'
  BY <1>8, <1>11, <1>12, <1>16 DEF HistoryInv, HistoryTypeOK
<1> QED BY <1>11, <1>13, <1>14, <1>15, <1>17, <1>18 DEF HistoryInv

\* Messages are taken away; a cut takes all that is not before it.
LEMMA RemovingKeepsHistory ==
    ASSUME HistoryInv, rows' \subseteq rows, reader' = reader, clock' = clock,
           cutAt' \in [Room -> Nat \cup {NoMessage}],
           \A room \in Room : cutAt'[room] # NoMessage => \A m \in In(room)' : m.place < cutAt'[room]
    PROVE  HistoryInv'
<1>1. HistoryTypeOK'
  BY DEF HistoryInv, HistoryTypeOK
<1>2. IsFiniteSet(rows')
  <2>1. rows' \in SUBSET rows
    OBVIOUS
  <2> QED BY <2>1, FS_Subset DEF HistoryInv
<1>3. \A room : In(room)' \subseteq In(room)
  BY DEF In
<1> QED BY <1>1, <1>2, <1>3 DEF HistoryInv

\* A conversation is truncated from a question.
LEMMA TruncatingKeepsHistory ==
    ASSUME HistoryInv, NEW m, TruncateFrom(m)
    PROVE  HistoryInv'
<1>1. m \in rows /\ m \in MessageRow /\ m.room \in Room /\ m.place \in Nat /\ m.at \in Nat
  BY DEF TruncateFrom, HistoryInv, HistoryTypeOK, MessageRow
<1>2. /\ rows' = rows \ GoneWith(m) /\ cutAt' = [cutAt EXCEPT ![m.room] = m.place]
      /\ clock' = clock /\ reader' = reader
  BY DEF TruncateFrom
<1>3. cutAt' \in [Room -> Nat \cup {NoMessage}] /\ cutAt'[m.room] = m.place
      /\ \A room \in Room : room # m.room => cutAt'[room] = cutAt[room]
  BY <1>1, <1>2 DEF HistoryInv, HistoryTypeOK
<1>4. Millis(m.at) <= m.at /\ Millis(m.at) \in Int
  BY <1>1, MillisAreEarlier
<1>5. ASSUME NEW room \in Room, cutAt'[room] # NoMessage, NEW n \in In(room)' PROVE n.place < cutAt'[room]
  <2>1. n \in In(room) /\ n \in rows /\ n.room = room /\ n.at \in Nat
    BY <1>2 DEF In, HistoryInv, HistoryTypeOK, MessageRow
  <2>2. CASE room # m.room
    BY <1>3, <1>5, <2>1, <2>2 DEF HistoryInv
  <2>3. CASE room = m.room
    <3>1. ~(n.at >= Millis(m.at))
      BY <1>2, <2>1, <2>3 DEF In, GoneWith
    <3>2. n.at < m.at
      BY <1>1, <1>4, <2>1, <3>1
    <3>3. m \in In(room)
      BY <1>1, <2>3 DEF In
    <3>4. CASE room = "main"
      BY <1>3, <2>1, <2>3, <3>2, <3>3, <3>4 DEF HistoryInv
    <3>5. CASE room = "branch"
      <4>1. n.at = m.at
        BY <2>1, <3>3, <3>5 DEF HistoryInv
      <4> QED BY <1>1, <3>2, <4>1
    <3> QED BY <3>4, <3>5 DEF Room
  <2> QED BY <2>2, <2>3
<1> QED BY <1>2, <1>3, <1>5, RemovingKeepsHistory

\* A message is deleted.
LEMMA DeletingKeepsHistory ==
    ASSUME HistoryInv, NEW m, DeleteMessage(m)
    PROVE  HistoryInv'
<1>1. rows' = rows \ {m} /\ clock' = clock /\ reader' = reader /\ cutAt' = cutAt
  BY DEF DeleteMessage
<1>2. \A room \in Room : In(room)' \subseteq In(room)
  BY <1>1 DEF In
<1>3. cutAt' \in [Room -> Nat \cup {NoMessage}]
  BY <1>1 DEF HistoryInv, HistoryTypeOK
<1>4. \A room \in Room : cutAt'[room] # NoMessage => \A n \in In(room)' : n.place < cutAt'[room]
  BY <1>1, <1>2 DEF HistoryInv
<1>5. rows' \subseteq rows
  BY <1>1
<1> QED BY <1>1, <1>3, <1>4, <1>5, RemovingKeepsHistory

\* A reader's step that leaves the rows keeps the history.
LEMMA ReadingKeepsHistory ==
    ASSUME HistoryInv, UNCHANGED <<clock, rows, cutAt>>, reader' \in Readers
    PROVE  HistoryInv'
<1>1. HistoryTypeOK'
  BY DEF HistoryInv, HistoryTypeOK, Readers
<1> QED BY <1>1 DEF HistoryInv, In

\* A client opens a conversation.
LEMMA OpeningKeepsHistory ==
    ASSUME HistoryInv, NEW room \in Room, OpenConversation(room)
    PROVE  HistoryInv'
<1>1. PICK ids : ids = {m.id : m \in In(room)}
  OBVIOUS
<1>2. ids \subseteq MessageId
  BY <1>1 DEF In, HistoryInv, HistoryTypeOK, MessageRow
<1>3. reader' = [NoReader EXCEPT !.room = room, !.on = TRUE, !.of = ids] /\ UNCHANGED <<clock, rows, cutAt>>
  BY <1>1 DEF OpenConversation
<1>4. reader' \in Readers
  BY <1>2, <1>3 DEF NoReader, Readers
<1> QED BY <1>3, <1>4, ReadingKeepsHistory

\* A page that is not the last has an oldest message.
LEMMA PageHasItsOldest ==
    ASSUME HistoryInv, NEW past \in SUBSET rows, Cardinality(past) > PageLimit
    PROVE  LET page == {m \in past : Cardinality({n \in past : Newer(n, m)}) < PageLimit}
           IN  \E m \in page : \A n \in page : n = m \/ Newer(n, m)
<1> DEFINE page == {m \in past : Cardinality({n \in past : Newer(n, m)}) < PageLimit}
<1>1. \A m \in rows : m.at \in Nat /\ m.id \in Nat
  BY MessageHistoryAssumption DEF HistoryInv, HistoryTypeOK, MessageRow
<1>2. \A m, n \in rows : m.id = n.id => m = n
  BY DEF HistoryInv, HistoryTypeOK
<1>3. IsFiniteSet(past)
  BY FS_Subset DEF HistoryInv
<1>4. PageLimit \in Nat /\ PageLimit > 0
  BY MessageHistoryAssumption
<1>5. past # {}
  BY <1>4, FS_EmptySet
<1>6. \A m \in rows : ~Newer(m, m)
  BY <1>1 DEF Newer, Before
<1>7. ASSUME NEW k \in rows, NEW m \in rows, NEW n \in rows, Newer(k, m), Newer(m, n) PROVE Newer(k, n)
  BY <1>1, <1>7 DEF Newer, Before
<1>8. ASSUME NEW m \in rows, NEW n \in rows, m # n, ~Newer(m, n) PROVE Newer(n, m)
  <2>1. m.id # n.id
    BY <1>2, <1>8
  <2> QED BY <1>1, <1>8, <2>1 DEF Newer, Before
<1>9. \E m \in past : \A n \in past : ~Newer(n, m)
  <2>1. PICK R : R = {p \in past \X past : Newer(p[1], p[2])}
    OBVIOUS
  <2>2. R \subseteq past \X past /\ \A x, y \in past : <<x, y>> \in R <=> Newer(x, y)
    BY <2>1
  <2>3. \A x \in past : <<x, x>> \notin R
    BY <1>6, <2>2
  <2>4. \A x, y, z \in past : <<x, y>> \in R /\ <<y, z>> \in R => <<x, z>> \in R
    BY <1>7, <2>2
  <2>5. PICK m \in past : \A n \in past : <<n, m>> \notin R
    BY <1>3, <1>5, <2>2, <2>3, <2>4, SomeIsFirst
  <2> QED BY <2>2, <2>5
<1>10. page # {}
  <2>1. PICK m \in past : \A n \in past : ~Newer(n, m)
    BY <1>9
  <2>2. {n \in past : Newer(n, m)} = {}
    BY <2>1
  <2>3. Cardinality({n \in past : Newer(n, m)}) < PageLimit
    BY <1>4, <2>2, FS_EmptySet
  <2> QED BY <2>1, <2>3
<1>11. page \in SUBSET past
  OBVIOUS
<1>12. page \in SUBSET rows /\ IsFiniteSet(page)
  BY <1>3, <1>11, FS_Subset
<1> HIDE DEF page
<1>13. \E m \in page : \A n \in page : n = m \/ Newer(n, m)
  <2>1. PICK R : R = {p \in page \X page : Newer(p[2], p[1])}
    OBVIOUS
  <2>2. R \subseteq page \X page /\ \A x, y \in page : <<x, y>> \in R <=> Newer(y, x)
    BY <2>1
  <2>3. \A x \in page : <<x, x>> \notin R
    BY <1>6, <1>12, <2>2
  <2>4. \A x, y, z \in page : <<x, y>> \in R /\ <<y, z>> \in R => <<x, z>> \in R
    BY <1>7, <1>12, <2>2
  <2>5. PICK m \in page : \A n \in page : <<n, m>> \notin R
    BY <1>10, <1>12, <2>2, <2>3, <2>4, SomeIsFirst
  <2>6. \A n \in page : ~Newer(m, n)
    BY <2>2, <2>5
  <2> QED BY <1>8, <1>12, <2>6
<1> QED BY <1>13 DEF page

\* A page is read.
LEMMA PagingKeepsHistory ==
    ASSUME HistoryInv, ReadPage
    PROVE  HistoryInv'
<1>1. PICK past : past = {m \in In(reader.room) : PastCursor(m)}
  OBVIOUS
<1>2. PICK page : page = {m \in past : Cardinality({n \in past : Newer(n, m)}) < PageLimit}
  OBVIOUS
<1>3. PICK oldest : oldest = CHOOSE m \in page : \A n \in page : n = m \/ Newer(n, m)
  OBVIOUS
<1>4. PICK seen : seen = reader.got \cup {m.id : m \in page}
  OBVIOUS
<1>5. UNCHANGED <<clock, rows, cutAt>>
  BY DEF ReadPage
<1>6. reader' = IF reader.cursor = NoMessage \/ ValidCursor(reader.cursor)
                THEN [reader EXCEPT !.got = seen, !.end = ~(Cardinality(past) > PageLimit),
                        !.cursor = IF Cardinality(past) > PageLimit THEN Cursor(oldest) ELSE NoMessage]
                ELSE [reader EXCEPT !.end = TRUE]
  BY <1>1, <1>2, <1>3, <1>4 DEF ReadPage
<1>7. reader \in Readers
  BY DEF HistoryInv, HistoryTypeOK, Readers
<1>8. past \in SUBSET rows /\ page \in SUBSET rows
  BY <1>1, <1>2 DEF In
<1>9. CASE reader' = [reader EXCEPT !.end = TRUE]
  <2>1. reader' \in Readers
    BY <1>7, <1>9 DEF Readers
  <2> QED BY <1>5, <2>1, ReadingKeepsHistory
<1>10. seen \in SUBSET MessageId
  BY <1>4, <1>7, <1>8 DEF Readers, HistoryInv, HistoryTypeOK, MessageRow
<1>11. CASE /\ Cardinality(past) > PageLimit
            /\ reader' = [reader EXCEPT !.got = seen, !.end = FALSE, !.cursor = Cursor(oldest)]
  <2>1. \E m \in page : \A n \in page : n = m \/ Newer(n, m)
    BY <1>2, <1>8, <1>11, PageHasItsOldest
  <2>2. oldest \in page
    BY <1>3, <2>1
  <2>3. oldest.id \in MessageId
    BY <1>8, <2>2 DEF HistoryInv, HistoryTypeOK, MessageRow
  <2>4. PICK cursor : cursor = Cursor(oldest)
    OBVIOUS
  <2>5. cursor = [id |-> oldest.id, createdAt |-> NoMessage]
    BY <2>4 DEF Cursor, NormalizedTime, CreatedAt
  <2>6. cursor \in {NoMessage} \cup [id : MessageId, createdAt : Nat \cup {NoMessage}]
    BY <2>3, <2>5
  <2>7. reader' \in Readers
    BY <1>7, <1>10, <1>11, <2>4, <2>6 DEF Readers
  <2> QED BY <1>5, <2>7, ReadingKeepsHistory
<1>12. CASE reader' = [reader EXCEPT !.got = seen, !.end = TRUE, !.cursor = NoMessage]
  <2>1. reader' \in Readers
    BY <1>7, <1>10, <1>12 DEF Readers
  <2> QED BY <1>5, <2>1, ReadingKeepsHistory
<1>13. CASE Cardinality(past) > PageLimit
  BY <1>6, <1>9, <1>11, <1>13, Zenon
<1>14. CASE ~(Cardinality(past) > PageLimit)
  BY <1>6, <1>9, <1>12, <1>14, Zenon
<1> QED BY <1>13, <1>14

\* The invariant holds at the start.
LEMMA HistoryStarts == HistoryInit => HistoryInv
<1>. SUFFICES ASSUME HistoryInit PROVE HistoryInv
  OBVIOUS
<1>1. reader \in Readers
  BY DEF HistoryInit, NoReader, Readers, Room
<1>2. HistoryTypeOK
  BY <1>1, MessageHistoryAssumption DEF HistoryInit, HistoryTypeOK, Readers
<1> QED BY <1>2, FS_EmptySet DEF HistoryInit, HistoryInv, In

\* Every step keeps the invariant.
LEMMA HistoryGoesOn == HistoryInv /\ [HistoryNext]_historyVars => HistoryInv'
<1>. SUFFICES ASSUME HistoryInv, [HistoryNext]_historyVars PROVE HistoryInv'
  OBVIOUS
<1>1. ASSUME NEW id \in MessageId, NEW role \in {"user", "assistant"}, NEW gap \in 1..2,
             InsertMessage(id, role, gap)
      PROVE  HistoryInv'
  BY <1>1, InsertingKeepsHistory
<1>2. ASSUME NEW m \in rows \cup {NoMessage}, Branch(m) PROVE HistoryInv'
  BY <1>2, BranchingKeepsHistory
<1>3. ASSUME NEW m \in rows, TruncateFrom(m) \/ DeleteMessage(m) PROVE HistoryInv'
  BY <1>3, TruncatingKeepsHistory, DeletingKeepsHistory
<1>4. ASSUME NEW room \in Room, OpenConversation(room) PROVE HistoryInv'
  BY <1>4, OpeningKeepsHistory
<1>5. CASE ReadPage
  BY <1>5, PagingKeepsHistory
<1>6. CASE UNCHANGED historyVars
  BY <1>6 DEF historyVars, HistoryInv, HistoryTypeOK, In
<1> QED BY <1>1, <1>2, <1>3, <1>4, <1>5, <1>6 DEF HistoryNext

\* A truncation leaves nothing of the conversation from the selected question
\* on, in the conversation and in a branch, for every clock, every number of
\* units in a millisecond and every order of ids
\* (truncateConversationFromUserMessage).
THEOREM TruncationsReachTheEnd == HistorySpec => []TruncationReachesTheEnd
<1>1. HistoryInit => HistoryInv
  BY HistoryStarts
<1>2. HistoryInv /\ [HistoryNext]_historyVars => HistoryInv'
  BY HistoryGoesOn
<1>3. HistoryInv => TruncationReachesTheEnd
  BY DEF HistoryInv, TruncationReachesTheEnd
<1> QED BY <1>1, <1>2, <1>3, PTL DEF HistorySpec

-----------------------------------------------------------------------------
(* Induction over numbers, sums and filters.                                  *)

\* A set of numbers with 0 and with the successor of each of its numbers has
\* every number.
LEMMA EveryNumber ==
    ASSUME NEW T, 0 \in T, \A n \in Nat : n \in T => n + 1 \in T
    PROVE  \A n \in Nat : n \in T
<1> DEFINE U == {n \in Nat : n \notin T}
<1> SUFFICES ASSUME U # {} PROVE FALSE
  OBVIOUS
<1>1. \E n \in U : \A m \in U : ~(<<m, n>> \in OpToRel(<, Nat))
  <2>1. U \subseteq Nat
    OBVIOUS
  <2> HIDE DEF U
  <2> QED BY <2>1, NatLessThanWellFounded, WFMin
<1>2. PICK n \in U : \A m \in U : ~(<<m, n>> \in OpToRel(<, Nat))
  BY <1>1
<1>3. n \in Nat /\ n # 0 /\ n \notin T
  OBVIOUS
<1>4. n - 1 \in Nat /\ n - 1 < n /\ (n - 1) + 1 = n
  BY <1>3
<1>5. n - 1 \in T
  BY <1>2, <1>3, <1>4 DEF OpToRel
<1> QED BY <1>3, <1>4, <1>5

\* g follows the recursion of SumTo up to m.
Sums(f, m, g) == g = [k \in 0 .. m |-> IF k = 0 THEN 0 ELSE g[k - 1] + f[k]]

LEMMA SumsThere ==
    ASSUME NEW f, NEW m \in Nat
    PROVE  \E g : Sums(f, m, g)
<1> DEFINE T == {n \in Nat : \E g : Sums(f, n, g)}
<1>1. 0 \in T
  <2>1. Sums(f, 0, [k \in 0 .. 0 |-> 0])
    BY DEF Sums
  <2> QED BY <2>1
<1>2. ASSUME NEW n \in Nat, n \in T PROVE n + 1 \in T
  <2>1. PICK g : Sums(f, n, g)
    BY <1>2
  <2>2. PICK h : h = [k \in 0 .. (n + 1) |-> IF k = n + 1 THEN g[n] + f[n + 1] ELSE g[k]]
    OBVIOUS
  <2>3. \A k \in 0 .. (n + 1) : k # n + 1 => k \in 0 .. n
    OBVIOUS
  <2>4. \A k \in 0 .. n : g[k] = IF k = 0 THEN 0 ELSE g[k - 1] + f[k]
    BY <2>1 DEF Sums
  <2>5. ASSUME NEW k \in 0 .. (n + 1)
        PROVE  h[k] = IF k = 0 THEN 0 ELSE h[k - 1] + f[k]
    <3>1. CASE k = n + 1
      <4>1. k # 0 /\ k - 1 = n /\ n \in 0 .. (n + 1) /\ n # n + 1
        BY <3>1
      <4>2. h[k] = g[n] + f[k] /\ h[k - 1] = g[n]
        BY <2>2, <3>1, <4>1
      <4> QED BY <4>1, <4>2
    <3>2. CASE k # n + 1
      <4>1. k \in 0 .. n /\ h[k] = g[k]
        BY <2>2, <2>3, <3>2
      <4>2. ASSUME k # 0 PROVE h[k - 1] = g[k - 1]
        <5>1. k - 1 \in 0 .. (n + 1) /\ k - 1 # n + 1
          BY <4>1, <4>2
        <5> QED BY <2>2, <5>1
      <4> QED BY <2>4, <4>1, <4>2
    <3> QED BY <3>1, <3>2
  <2>6. Sums(f, n + 1, h)
    BY <2>2, <2>5 DEF Sums
  <2> QED BY <2>6
<1>3. m \in T
  <2> HIDE DEF T
  <2> QED BY <1>1, <1>2, EveryNumber
<1> QED BY <1>3

LEMMA SumIs ==
    ASSUME NEW f, NEW m \in Nat
    PROVE  \E g : Sums(f, m, g) /\ SumTo(f, m) = g[m]
<1>1. PICK g : g = CHOOSE h : Sums(f, m, h)
  OBVIOUS
<1>2. Sums(f, m, g)
  BY <1>1, SumsThere
<1>3. SumTo(f, m) = g[m]
  BY <1>1 DEF SumTo, Sums
<1> QED BY <1>2, <1>3

\* The sum of nothing, and of one number more.
LEMMA SumStep ==
    ASSUME NEW f, NEW n \in Nat
    PROVE  SumTo(f, 0) = 0 /\ SumTo(f, n + 1) = SumTo(f, n) + f[n + 1]
<1>1. SumTo(f, 0) = 0
  <2>1. PICK g : Sums(f, 0, g) /\ SumTo(f, 0) = g[0]
    BY SumIs
  <2> QED BY <2>1 DEF Sums
<1>2. PICK g : Sums(f, n, g) /\ SumTo(f, n) = g[n]
  BY SumIs
<1>3. PICK h : Sums(f, n + 1, h) /\ SumTo(f, n + 1) = h[n + 1]
  BY SumIs
<1>4. \A k \in 0 .. n : g[k] = IF k = 0 THEN 0 ELSE g[k - 1] + f[k]
  BY <1>2 DEF Sums
<1>5. \A k \in 0 .. (n + 1) : h[k] = IF k = 0 THEN 0 ELSE h[k - 1] + f[k]
  BY <1>3 DEF Sums
<1> DEFINE T == {k \in Nat : k <= n => g[k] = h[k]}
<1>6. 0 \in T
  <2>1. 0 \in 0 .. n /\ 0 \in 0 .. (n + 1)
    OBVIOUS
  <2> QED BY <1>4, <1>5, <2>1
<1>7. ASSUME NEW k \in Nat, k \in T PROVE k + 1 \in T
  <2> SUFFICES ASSUME k + 1 <= n PROVE g[k + 1] = h[k + 1]
    OBVIOUS
  <2>1. k + 1 \in 0 .. n /\ k + 1 \in 0 .. (n + 1) /\ k + 1 # 0 /\ (k + 1) - 1 = k /\ k <= n
    OBVIOUS
  <2>2. g[k + 1] = g[k] + f[k + 1]
    BY <1>4, <2>1
  <2>3. h[k + 1] = h[k] + f[k + 1]
    BY <1>5, <2>1
  <2> QED BY <1>7, <2>1, <2>2, <2>3
<1>8. n \in T
  <2> HIDE DEF T
  <2> QED BY <1>6, <1>7, EveryNumber
<1>9. n + 1 \in 0 .. (n + 1) /\ n + 1 # 0 /\ (n + 1) - 1 = n
  OBVIOUS
<1>10. h[n + 1] = h[n] + f[n + 1]
  BY <1>5, <1>9
<1> QED BY <1>1, <1>2, <1>3, <1>8, <1>10

\* Sums of numbers: of their kind, and compared, added and multiplied like them.
LEMMA SumNumber ==
    ASSUME NEW f, NEW n \in Nat, \A i \in 1 .. n : f[i] \in Int
    PROVE  \A m \in 0 .. n : SumTo(f, m) \in Int
<1> DEFINE T == {m \in Nat : m <= n => SumTo(f, m) \in Int}
<1>1. 0 \in T
  BY SumStep
<1>2. ASSUME NEW m \in Nat, m \in T PROVE m + 1 \in T
  <2> SUFFICES ASSUME m + 1 <= n PROVE SumTo(f, m + 1) \in Int
    OBVIOUS
  <2>1. SumTo(f, m) \in Int /\ f[m + 1] \in Int
    BY <1>2
  <2> QED BY <2>1, SumStep
<1>3. \A m \in Nat : m \in T
  <2> HIDE DEF T
  <2> QED BY <1>1, <1>2, EveryNumber
<1> QED BY <1>3

LEMMA SumAtMost ==
    ASSUME NEW f, NEW g, NEW n \in Nat,
           \A i \in 1 .. n : f[i] \in Int /\ g[i] \in Int /\ f[i] <= g[i]
    PROVE  SumTo(f, n) <= SumTo(g, n)
<1> DEFINE T == {m \in Nat : m <= n => SumTo(f, m) <= SumTo(g, m)}
<1>1. 0 \in T
  BY SumStep
<1>2. ASSUME NEW m \in Nat, m \in T PROVE m + 1 \in T
  <2> SUFFICES ASSUME m + 1 <= n PROVE SumTo(f, m + 1) <= SumTo(g, m + 1)
    OBVIOUS
  <2>1. SumTo(f, m) \in Int /\ SumTo(g, m) \in Int
    BY SumNumber
  <2>2. f[m + 1] \in Int /\ g[m + 1] \in Int /\ f[m + 1] <= g[m + 1]
    OBVIOUS
  <2>3. SumTo(f, m) <= SumTo(g, m)
    BY <1>2
  <2> QED BY <2>1, <2>2, <2>3, SumStep
<1>3. n \in T
  <2> HIDE DEF T
  <2> QED BY <1>1, <1>2, EveryNumber
<1> QED BY <1>3

LEMMA SumSame ==
    ASSUME NEW f, NEW g, NEW n \in Nat, \A i \in 1 .. n : f[i] = g[i]
    PROVE  SumTo(f, n) = SumTo(g, n)
<1> DEFINE T == {m \in Nat : m <= n => SumTo(f, m) = SumTo(g, m)}
<1>1. 0 \in T
  BY SumStep
<1>2. ASSUME NEW m \in Nat, m \in T PROVE m + 1 \in T
  <2> SUFFICES ASSUME m + 1 <= n PROVE SumTo(f, m + 1) = SumTo(g, m + 1)
    OBVIOUS
  <2>1. SumTo(f, m) = SumTo(g, m) /\ f[m + 1] = g[m + 1]
    BY <1>2
  <2> QED BY <2>1, SumStep
<1>3. n \in T
  <2> HIDE DEF T
  <2> QED BY <1>1, <1>2, EveryNumber
<1> QED BY <1>3

LEMMA SumOfBoth ==
    ASSUME NEW f, NEW g, NEW h, NEW n \in Nat,
           \A i \in 1 .. n : f[i] \in Int /\ g[i] \in Int /\ h[i] = f[i] + g[i]
    PROVE  SumTo(h, n) = SumTo(f, n) + SumTo(g, n)
<1> DEFINE T == {m \in Nat : m <= n => SumTo(h, m) = SumTo(f, m) + SumTo(g, m)}
<1>1. 0 \in T
  BY SumStep
<1>2. ASSUME NEW m \in Nat, m \in T PROVE m + 1 \in T
  <2> SUFFICES ASSUME m + 1 <= n PROVE SumTo(h, m + 1) = SumTo(f, m + 1) + SumTo(g, m + 1)
    OBVIOUS
  <2>1. SumTo(f, m) \in Int /\ SumTo(g, m) \in Int
    BY SumNumber
  <2>2. f[m + 1] \in Int /\ g[m + 1] \in Int /\ h[m + 1] = f[m + 1] + g[m + 1]
    OBVIOUS
  <2>3. SumTo(h, m) = SumTo(f, m) + SumTo(g, m)
    BY <1>2
  <2> QED BY <2>1, <2>2, <2>3, SumStep
<1>3. n \in T
  <2> HIDE DEF T
  <2> QED BY <1>1, <1>2, EveryNumber
<1> QED BY <1>3

LEMMA SumOfMultiples ==
    ASSUME NEW f, NEW g, NEW c \in Int, NEW n \in Nat,
           \A i \in 1 .. n : f[i] \in Int /\ g[i] = c * f[i]
    PROVE  SumTo(g, n) = c * SumTo(f, n)
<1> DEFINE T == {m \in Nat : m <= n => SumTo(g, m) = c * SumTo(f, m)}
<1>1. 0 \in T
  BY SumStep
<1>2. ASSUME NEW m \in Nat, m \in T PROVE m + 1 \in T
  <2> SUFFICES ASSUME m + 1 <= n PROVE SumTo(g, m + 1) = c * SumTo(f, m + 1)
    OBVIOUS
  <2>1. PICK x \in Int : x = SumTo(f, m)
    BY SumNumber
  <2>2. PICK y \in Int : y = f[m + 1] /\ g[m + 1] = c * y
    OBVIOUS
  <2>3. SumTo(g, m) = c * x
    BY <1>2, <2>1
  <2>4. c * (x + y) = c * x + c * y
    OBVIOUS
  <2> QED BY <2>1, <2>2, <2>3, <2>4, SumStep
<1>3. n \in T
  <2> HIDE DEF T
  <2> QED BY <1>1, <1>2, EveryNumber
<1> QED BY <1>3

\* A sum of numbers that are not negative grows.
LEMMA SumGrows ==
    ASSUME NEW f, NEW n \in Nat, \A i \in 1 .. n : f[i] \in Nat
    PROVE  \A m \in 0 .. n : SumTo(f, m) \in Nat /\ SumTo(f, m) <= SumTo(f, n)
<1> DEFINE T == {m \in Nat : m <= n => \A k \in 0 .. m : SumTo(f, k) \in Nat /\ SumTo(f, k) <= SumTo(f, m)}
<1>1. 0 \in T
  BY SumStep
<1>2. ASSUME NEW m \in Nat, m \in T PROVE m + 1 \in T
  <2> SUFFICES ASSUME m + 1 <= n, NEW k \in 0 .. (m + 1)
               PROVE  SumTo(f, k) \in Nat /\ SumTo(f, k) <= SumTo(f, m + 1)
    OBVIOUS
  <2>1. \A j \in 0 .. m : SumTo(f, j) \in Nat /\ SumTo(f, j) <= SumTo(f, m)
    BY <1>2
  <2>2. SumTo(f, m) \in Nat /\ f[m + 1] \in Nat
    BY <2>1
  <2>3. SumTo(f, m + 1) \in Nat /\ SumTo(f, m) <= SumTo(f, m + 1)
    BY <2>2, SumStep
  <2>4. k = m + 1 \/ k \in 0 .. m
    OBVIOUS
  <2> QED BY <2>1, <2>2, <2>3, <2>4
<1>3. n \in T
  <2> HIDE DEF T
  <2> QED BY <1>1, <1>2, EveryNumber
<1> QED BY <1>3

-----------------------------------------------------------------------------
(* The tokens of the documents in the context.                                *)

\* The documents that have a text.
Passage == {d \in Document : d.body # 0}

LEMMA MinimumIs ==
    ASSUME NEW d \in Passage
    PROVE  /\ d.head \in Nat /\ d.body \in Nat /\ d.body > 0
           /\ Minimum(d) \in Nat /\ Minimum(d) > 0 /\ Minimum(d) <= d.body
           /\ Weight(d) \in Nat /\ Weight(d) > 0
<1>1. d.head \in Nat /\ d.body \in Nat /\ d.score \in Int /\ d.body # 0
  BY GroundedAssumption DEF Passage
<1>2. MinPassage \in Nat /\ MinPassage # 0 /\ MinInventory \in Nat /\ MinInventory # 0
  BY GroundedAssumption
<1>3. Minimum(d) \in Nat /\ Minimum(d) > 0 /\ Minimum(d) <= d.body
  BY <1>1, <1>2 DEF Minimum, Least
<1>4. Weight(d) \in Nat /\ Weight(d) > 0
  BY <1>1 DEF Weight
<1> QED BY <1>1, <1>3, <1>4

\* A whole number of times a divisor goes into a number.
LEMMA Quotient ==
    ASSUME NEW a \in Nat, NEW w \in Nat, w > 0
    PROVE  a \div w \in Nat /\ w * (a \div w) <= a
OBVIOUS

\* Shares by weight, each cut to what is wanted, are not more than there is.
LEMMA SharesFit ==
    ASSUME NEW n \in Nat, NEW r \in Nat, NEW wanted, NEW weight, NEW share,
           \A i \in 1 .. n : wanted[i] \in Nat /\ weight[i] \in Nat /\ weight[i] > 0,
           \A i \in 1 .. n : share[i] = Least(wanted[i], (r * weight[i]) \div SumTo(weight, n))
    PROVE  /\ \A i \in 1 .. n : share[i] \in Nat /\ share[i] <= wanted[i]
           /\ SumTo(share, n) \in Nat /\ SumTo(share, n) <= r
<1>1. CASE n = 0
  <2>1. SumTo(share, n) = 0
    BY <1>1, SumStep
  <2>2. \A i \in 1 .. n : FALSE
    BY <1>1
  <2> QED BY <2>1, <2>2
<1>2. CASE n # 0
  <2>1. PICK w : w = SumTo(weight, n)
    OBVIOUS
  <2>2. w \in Nat /\ w > 0
    <3>1. \A m \in 0 .. n : SumTo(weight, m) \in Nat /\ SumTo(weight, m) <= SumTo(weight, n)
      BY SumGrows
    <3>2. SumTo(weight, 0) = 0 /\ SumTo(weight, 0 + 1) = SumTo(weight, 0) + weight[0 + 1]
      BY SumStep
    <3>3. 1 \in 0 .. n /\ n \in 0 .. n /\ 1 \in 1 .. n
      BY <1>2
    <3>4. SumTo(weight, 1) = weight[1] /\ weight[1] > 0
      BY <3>2, <3>3
    <3> QED BY <2>1, <3>1, <3>3, <3>4
  <2>3. ASSUME NEW i \in 1 .. n
        PROVE  share[i] \in Nat /\ share[i] <= wanted[i] /\ w * share[i] <= r * weight[i]
               /\ r * weight[i] \in Nat
    <3>1. PICK x \in Nat : x = r * weight[i]
      OBVIOUS
    <3>2. PICK q \in Nat : q = x \div w /\ w * q <= x
      BY <2>2, Quotient
    <3>3. share[i] = Least(wanted[i], q)
      BY <2>1, <3>1, <3>2
    <3>4. share[i] \in Nat /\ share[i] <= wanted[i] /\ share[i] <= q
      BY <3>2, <3>3 DEF Least
    <3>5. PICK s \in Nat : s = share[i] /\ s <= q
      BY <3>4
    <3>6. w * s <= w * q
      BY <2>2, <3>5
    <3>7. w * s \in Nat /\ w * q \in Nat
      BY <2>2
    <3> QED BY <3>1, <3>2, <3>4, <3>5, <3>6, <3>7
  <2>4. \A m \in 0 .. n : SumTo(share, m) \in Nat /\ SumTo(share, m) <= SumTo(share, n)
    BY <2>3, SumGrows
  <2>5. PICK s \in Nat : s = SumTo(share, n)
    BY <2>4
  <2>6. PICK f : f = [i \in 1 .. n |-> w * share[i]]
    OBVIOUS
  <2>7. PICK g : g = [i \in 1 .. n |-> r * weight[i]]
    OBVIOUS
  <2>8. SumTo(f, n) = w * s
    <3>1. \A i \in 1 .. n : share[i] \in Int /\ f[i] = w * share[i]
      BY <2>3, <2>6
    <3> QED BY <2>2, <2>5, <3>1, SumOfMultiples
  <2>9. SumTo(g, n) = r * w
    <3>1. \A i \in 1 .. n : weight[i] \in Int /\ g[i] = r * weight[i]
      BY <2>7
    <3> QED BY <2>1, <3>1, SumOfMultiples
  <2>10. SumTo(f, n) <= SumTo(g, n)
    <3>1. \A i \in 1 .. n : f[i] \in Int /\ g[i] \in Int /\ f[i] <= g[i]
      <4> SUFFICES ASSUME NEW i \in 1 .. n PROVE f[i] \in Int /\ g[i] \in Int /\ f[i] <= g[i]
        OBVIOUS
      <4>1. PICK x \in Nat : x = share[i]
        BY <2>3
      <4>2. w * x \in Int
        BY <2>2
      <4> QED BY <2>3, <2>6, <2>7, <4>1, <4>2
    <3> QED BY <3>1, SumAtMost
  <2>11. w * s <= r * w
    BY <2>8, <2>9, <2>10
  <2>12. s <= r
    <3> SUFFICES ASSUME s >= r + 1 PROVE FALSE
      OBVIOUS
    <3>1. w * s >= w * (r + 1)
      BY <2>2
    <3>2. w * (r + 1) = r * w + w
      BY <2>2
    <3>3. r * w \in Nat /\ w * s \in Nat
      BY <2>2
    <3> QED BY <2>2, <2>11, <3>1, <3>2, <3>3
  <2> QED BY <2>3, <2>5, <2>12
<1> QED BY <1>1, <1>2

\* What is left goes in their order to those who need it.
GivenInOrder(n, left, need, extra) ==
    \A i \in 1 .. n : extra[i] = LET over == left - SumTo(need, i - 1)
                                  IN IF over <= 0 THEN 0 ELSE Least(need[i], over)

\* It is given as long as there is some and one who needs it.
LEMMA ExtrasFit ==
    ASSUME NEW n \in Nat, NEW left \in Nat, NEW need, NEW extra,
           \A i \in 1 .. n : need[i] \in Nat,
           GivenInOrder(n, left, need, extra)
    PROVE  /\ \A i \in 1 .. n : extra[i] \in Nat /\ extra[i] <= need[i]
           /\ SumTo(extra, n) <= left
           /\ SumTo(need, n) <= left => \A i \in 1 .. n : extra[i] = need[i]
<1>1. \A m \in 0 .. n : SumTo(need, m) \in Nat /\ SumTo(need, m) <= SumTo(need, n)
  BY SumGrows
<1>2. \A i \in 1 .. n : i - 1 \in 0 .. n /\ i \in 0 .. n /\ (i - 1) + 1 = i /\ i - 1 \in Nat
  OBVIOUS
<1>3. ASSUME NEW i \in 1 .. n
      PROVE  /\ extra[i] \in Nat /\ extra[i] <= need[i]
             /\ SumTo(need, n) <= left => extra[i] = need[i]
  <2>1. PICK x \in Nat : x = SumTo(need, i - 1)
    BY <1>1, <1>2
  <2>2. SumTo(need, i) = x + need[i]
    BY <1>2, <2>1, SumStep
  <2>3. extra[i] = IF left - x <= 0 THEN 0 ELSE Least(need[i], left - x)
    BY <2>1 DEF GivenInOrder
  <2>4. extra[i] \in Nat /\ extra[i] <= need[i]
    BY <2>3 DEF Least
  <2>5. ASSUME SumTo(need, n) <= left PROVE extra[i] = need[i]
    <3>1. SumTo(need, i) <= SumTo(need, n) /\ SumTo(need, n) \in Nat /\ SumTo(need, i) \in Nat
      BY <1>1, <1>2
    <3>2. x + need[i] <= left
      BY <2>2, <2>5, <3>1
    <3> QED BY <2>3, <3>2 DEF Least
  <2> QED BY <2>4, <2>5
<1> DEFINE T == {m \in Nat : m <= n => SumTo(extra, m) = Least(left, SumTo(need, m))}
<1>4. 0 \in T
  <2>1. SumTo(extra, 0) = 0 /\ SumTo(need, 0) = 0
    BY SumStep
  <2> QED BY <2>1 DEF Least
<1>5. ASSUME NEW m \in Nat, m \in T PROVE m + 1 \in T
  <2> SUFFICES ASSUME m + 1 <= n PROVE SumTo(extra, m + 1) = Least(left, SumTo(need, m + 1))
    OBVIOUS
  <2>1. m + 1 \in 1 .. n /\ (m + 1) - 1 = m /\ m \in 0 .. n
    OBVIOUS
  <2>2. PICK x \in Nat : x = SumTo(need, m)
    BY <1>1, <2>1
  <2>3. SumTo(need, m + 1) = x + need[m + 1] /\ SumTo(extra, m + 1) = SumTo(extra, m) + extra[m + 1]
    BY <2>2, SumStep
  <2>4. extra[m + 1] = IF left - x <= 0 THEN 0 ELSE Least(need[m + 1], left - x)
    BY <2>1, <2>2 DEF GivenInOrder
  <2>5. SumTo(extra, m) = Least(left, x)
    BY <1>5, <2>1, <2>2
  <2>6. PICK y \in Nat : y = need[m + 1]
    BY <2>1
  <2> QED BY <2>3, <2>4, <2>5, <2>6 DEF Least
<1>6. n \in T
  <2> HIDE DEF T
  <2> QED BY <1>4, <1>5, EveryNumber
<1>7. SumTo(extra, n) = Least(left, SumTo(need, n)) /\ SumTo(need, n) \in Nat
  BY <1>1, <1>6
<1>8. SumTo(extra, n) <= left
  BY <1>7 DEF Least
<1> QED BY <1>3, <1>8

\* The least that is shown of the documents, and all of them.
Minima(ds) == [i \in DOMAIN ds |-> Minimum(ds[i])]
Bodies(ds) == [i \in DOMAIN ds |-> ds[i].body]

\* Between its minimum and its whole, each document gets its part of the rest;
\* all get their whole if the rest is enough for it.
AllocationFits(ds, b, a) ==
    /\ \A i \in DOMAIN ds : a[i] \in Nat /\ Minimum(ds[i]) <= a[i] /\ a[i] <= ds[i].body
    /\ SumTo(a, Len(ds)) <= SumTo(Minima(ds), Len(ds)) + Rest(ds, b)
    /\ SumTo(Bodies(ds), Len(ds)) <= SumTo(Minima(ds), Len(ds)) + Rest(ds, b) =>
         \A i \in DOMAIN ds : a[i] = ds[i].body

LEMMA RestIs ==
    ASSUME NEW ds \in Seq(Passage), NEW b \in Nat
    PROVE  Rest(ds, b) \in Nat
<1>1. PICK n \in Nat : n = Len(ds) /\ DOMAIN ds = 1 .. n
  OBVIOUS
<1>2. PICK f : f = [i \in DOMAIN ds |-> ds[i].head + Minimum(ds[i])]
  OBVIOUS
<1>3. \A i \in 1 .. n : f[i] \in Nat
  <2> SUFFICES ASSUME NEW i \in 1 .. n PROVE f[i] \in Nat
    OBVIOUS
  <2>1. ds[i] \in Passage
    BY <1>1
  <2> QED BY <1>1, <1>2, <2>1, MinimumIs
<1>4. SumTo(f, n) \in Nat
  <2>1. n \in 0 .. n
    OBVIOUS
  <2> QED BY <1>3, <2>1, SumGrows
<1>5. Separators(n) \in Nat
  BY GroundedAssumption DEF Separators
<1> QED BY <1>1, <1>2, <1>4, <1>5 DEF Rest

LEMMA AllocationIs ==
    ASSUME NEW ds \in Seq(Passage), NEW b \in Nat
    PROVE  \E a : a = Allocation(ds, b) /\ DOMAIN a = DOMAIN ds /\ AllocationFits(ds, b, a)
<1>1. PICK n \in Nat : n = Len(ds) /\ DOMAIN ds = 1 .. n
  OBVIOUS
<1>2. PICK r \in Nat : r = Rest(ds, b)
  BY RestIs
<1>3. PICK weight : weight = [i \in DOMAIN ds |-> Weight(ds[i])]
  OBVIOUS
<1>4. PICK wanted : wanted = [i \in 1 .. n |-> ds[i].body - Minimum(ds[i])]
  OBVIOUS
<1>5. PICK share : share = Share(ds, b)
  OBVIOUS
<1>6. ASSUME NEW i \in 1 .. n
      PROVE  /\ ds[i].body \in Nat /\ Minimum(ds[i]) \in Nat /\ Minimum(ds[i]) <= ds[i].body
             /\ wanted[i] \in Nat /\ wanted[i] = ds[i].body - Minimum(ds[i])
             /\ weight[i] \in Nat /\ weight[i] > 0
  <2>1. ds[i] \in Passage
    BY <1>1
  <2> QED BY <1>1, <1>3, <1>4, <2>1, MinimumIs
<1>7. share = [i \in DOMAIN ds |-> Least(ds[i].body - Minimum(ds[i]), (r * Weight(ds[i])) \div SumTo(weight, n))]
  BY <1>1, <1>2, <1>3, <1>5 DEF Share
<1>8. \A i \in 1 .. n : share[i] = Least(wanted[i], (r * weight[i]) \div SumTo(weight, n))
  BY <1>1, <1>3, <1>4, <1>7
<1>9. /\ \A i \in 1 .. n : share[i] \in Nat /\ share[i] <= wanted[i]
      /\ SumTo(share, n) \in Nat /\ SumTo(share, n) <= r
  BY <1>6, <1>8, SharesFit
<1>10. PICK left \in Nat : left = r - SumTo(share, n)
  BY <1>9
<1>11. PICK need : need = [i \in DOMAIN ds |-> ds[i].body - Minimum(ds[i]) - share[i]]
  OBVIOUS
<1>12. PICK extra : extra = [i \in DOMAIN ds |->
                               LET over == left - SumTo(need, i - 1)
                               IN IF over <= 0 THEN 0 ELSE Least(need[i], over)]
  OBVIOUS
<1>13. ASSUME NEW i \in 1 .. n PROVE need[i] \in Nat /\ need[i] = wanted[i] - share[i]
  BY <1>1, <1>6, <1>9, <1>11
<1>14. /\ \A i \in 1 .. n : extra[i] \in Nat /\ extra[i] <= need[i]
       /\ SumTo(extra, n) <= left
       /\ SumTo(need, n) <= left => \A i \in 1 .. n : extra[i] = need[i]
  <2>1. GivenInOrder(n, left, need, extra)
    BY <1>1, <1>12 DEF GivenInOrder
  <2>2. \A i \in 1 .. n : need[i] \in Nat
    BY <1>13
  <2> QED BY <2>1, <2>2, ExtrasFit
<1>15. PICK a : a = [i \in DOMAIN ds |-> Minimum(ds[i]) + share[i] + extra[i]]
  OBVIOUS
<1>16. a = Allocation(ds, b)
  BY <1>1, <1>2, <1>5, <1>10, <1>11, <1>12, <1>15 DEF Allocation
<1>17. ASSUME NEW i \in 1 .. n
       PROVE  a[i] \in Nat /\ Minimum(ds[i]) <= a[i] /\ a[i] <= ds[i].body
              /\ a[i] = Minimum(ds[i]) + share[i] + extra[i]
  BY <1>1, <1>6, <1>9, <1>13, <1>14, <1>15, SMTT(20)
<1>18. PICK least : least = Minima(ds) /\ \A i \in 1 .. n : least[i] = Minimum(ds[i])
  <2>1. \A i \in 1 .. n : Minima(ds)[i] = Minimum(ds[i])
    BY <1>1 DEF Minima
  <2> QED BY <2>1
<1>19. PICK both : both = [i \in 1 .. n |-> least[i] + share[i]]
  OBVIOUS
<1>20. SumTo(both, n) = SumTo(least, n) + SumTo(share, n)
  <2>1. \A i \in 1 .. n : least[i] \in Int /\ share[i] \in Int /\ both[i] = least[i] + share[i]
    BY <1>6, <1>9, <1>18, <1>19
  <2> QED BY <2>1, SumOfBoth
<1>21. ASSUME NEW i \in 1 .. n PROVE both[i] \in Int /\ both[i] = least[i] + share[i]
  BY <1>6, <1>9, <1>18, <1>19
<1>22. SumTo(a, n) = SumTo(both, n) + SumTo(extra, n)
  <2>1. \A i \in 1 .. n : both[i] \in Int /\ extra[i] \in Int /\ a[i] = both[i] + extra[i]
    BY <1>6, <1>9, <1>14, <1>17, <1>18, <1>21
  <2> QED BY <2>1, SumOfBoth
<1>23. SumTo(least, n) \in Int /\ SumTo(extra, n) \in Int /\ SumTo(need, n) \in Int
  <2>1. n \in 0 .. n
    OBVIOUS
  <2>2. \A i \in 1 .. n : least[i] \in Int /\ extra[i] \in Int /\ need[i] \in Int
    BY <1>6, <1>13, <1>14, <1>18
  <2> QED BY <2>1, <2>2, SumNumber
<1>24. SumTo(a, n) <= SumTo(least, n) + r
  BY <1>9, <1>10, <1>14, <1>20, <1>22, <1>23
<1>25. PICK whole : whole = Bodies(ds) /\ \A i \in 1 .. n : whole[i] = ds[i].body
  <2>1. \A i \in 1 .. n : Bodies(ds)[i] = ds[i].body
    BY <1>1 DEF Bodies
  <2> QED BY <2>1
<1>26. SumTo(whole, n) = SumTo(both, n) + SumTo(need, n)
  <2>1. \A i \in 1 .. n : both[i] \in Int /\ need[i] \in Int /\ whole[i] = both[i] + need[i]
    <3> SUFFICES ASSUME NEW i \in 1 .. n
                 PROVE  both[i] \in Int /\ need[i] \in Int /\ whole[i] = both[i] + need[i]
      OBVIOUS
    <3>1. both[i] = Minimum(ds[i]) + share[i] /\ whole[i] = ds[i].body
      BY <1>18, <1>21, <1>25
    <3>2. ds[i].body \in Nat /\ Minimum(ds[i]) \in Nat /\ wanted[i] = ds[i].body - Minimum(ds[i])
      BY <1>6
    <3>3. share[i] \in Nat /\ need[i] \in Nat /\ need[i] = wanted[i] - share[i]
      BY <1>9, <1>13
    <3> QED BY <3>1, <3>2, <3>3
  <2> QED BY <2>1, SumOfBoth
<1>27. ASSUME SumTo(whole, n) <= SumTo(least, n) + r, NEW i \in 1 .. n
       PROVE  a[i] = ds[i].body
  <2>1. SumTo(need, n) <= left
    BY <1>9, <1>10, <1>20, <1>23, <1>26, <1>27
  <2>2. extra[i] = need[i]
    BY <1>14, <2>1
  <2>3. need[i] = ds[i].body - Minimum(ds[i]) - share[i] /\ share[i] \in Nat
    BY <1>6, <1>9, <1>13
  <2>4. ds[i].body \in Nat /\ Minimum(ds[i]) \in Nat /\ a[i] = Minimum(ds[i]) + share[i] + extra[i]
    BY <1>6, <1>17
  <2> QED BY <2>2, <2>3, <2>4
<1>28. AllocationFits(ds, b, a)
  BY <1>1, <1>2, <1>17, <1>18, <1>24, <1>25, <1>27 DEF AllocationFits
<1> QED BY <1>15, <1>16, <1>28

-----------------------------------------------------------------------------
(* The documents that are shown, and what they take of the budget.            *)

\* Numbers up to a bound have a greatest one.
LEMMA GreatestNumber ==
    ASSUME NEW l \in Nat, NEW T, T \subseteq 0 .. l, T # {}
    PROVE  Max(T) \in T /\ \A m \in T : Max(T) >= m
<1> DEFINE U == {k \in Nat : \A S \in SUBSET (0 .. k) :
                               S # {} => \E x \in S : \A y \in S : x >= y}
<1>1. 0 \in U
  <2> SUFFICES ASSUME NEW S \in SUBSET (0 .. 0), S # {} PROVE \E x \in S : \A y \in S : x >= y
    OBVIOUS
  <2>1. PICK x \in S : TRUE
    OBVIOUS
  <2>2. x = 0 /\ \A y \in S : y = 0
    OBVIOUS
  <2>3. \A y \in S : x >= y
    BY <2>2
  <2> QED BY <2>3
<1>2. ASSUME NEW k \in Nat, k \in U PROVE k + 1 \in U
  <2> SUFFICES ASSUME NEW S \in SUBSET (0 .. (k + 1)), S # {}
               PROVE  \E x \in S : \A y \in S : x >= y
    OBVIOUS
  <2>1. CASE k + 1 \in S
    <3>1. \A y \in S : k + 1 >= y
      OBVIOUS
    <3> QED BY <2>1, <3>1
  <2>2. CASE k + 1 \notin S
    <3>1. S \in SUBSET (0 .. k)
      BY <2>2
    <3> QED BY <1>2, <3>1
  <2> QED BY <2>1, <2>2
<1>3. l \in U
  <2> HIDE DEF U
  <2> QED BY <1>1, <1>2, EveryNumber
<1>4. \E x \in T : \A y \in T : x >= y
  BY <1>3
<1> QED BY <1>4 DEF Max

\* The documents from the first on that fit are shown.
LEMMA ShownIs ==
    ASSUME NEW ds \in Seq(Passage), NEW b \in Nat
    PROVE  \E m \in 0 .. Len(ds) :
             /\ Shown(ds, b) \in Seq(Passage) /\ Len(Shown(ds, b)) = m
             /\ \A i \in 1 .. m : Shown(ds, b)[i] = ds[i] /\ Fits(ds, b, i)
             /\ (\A i \in 1 .. Len(ds) : Fits(ds, b, i)) => m = Len(ds)
<1>1. PICK l \in Nat : l = Len(ds) /\ DOMAIN ds = 1 .. l
  OBVIOUS
<1> DEFINE T == {n \in 0 .. l : \A i \in 1 .. n : Fits(ds, b, i)}
<1>2. 0 \in T
  OBVIOUS
<1>3. T \subseteq 0 .. l
  OBVIOUS
<1>4. PICK m : m = Max(T)
  OBVIOUS
<1>5. m \in T /\ \A k \in T : m >= k
  <2> HIDE DEF T
  <2> QED BY <1>2, <1>3, <1>4, GreatestNumber
<1>6. Shown(ds, b) = SubSeq(ds, 1, m)
  BY <1>1, <1>4 DEF Shown
<1>7. m \in 0 .. l /\ \A i \in 1 .. m : Fits(ds, b, i)
  BY <1>5
<1>8. (\A i \in 1 .. l : Fits(ds, b, i)) => m = l
  <2> SUFFICES ASSUME \A i \in 1 .. l : Fits(ds, b, i) PROVE m = l
    OBVIOUS
  <2>1. l \in T
    OBVIOUS
  <2> QED BY <1>1, <1>5, <1>7, <2>1
<1>9. PICK s : s = SubSeq(ds, 1, m)
  OBVIOUS
<1>10. s \in Seq(Passage) /\ Len(s) = m /\ \A i \in 1 .. m : s[i] = ds[i]
  <2>1. \A i \in 1 .. m : ds[i] \in Passage
    BY <1>1, <1>7
  <2>2. s = [i \in 1 .. m |-> ds[i]]
    BY <1>1, <1>7, <1>9
  <2> QED BY <1>7, <2>1, <2>2
<1> QED BY <1>1, <1>6, <1>7, <1>8, <1>9, <1>10

Heads(ds) == [i \in DOMAIN ds |-> ds[i].head]

\* What the headers, the least and the whole of n documents take.
LEMMA SumsOfDocuments ==
    ASSUME NEW ds \in Seq(Passage), NEW n \in 0 .. Len(ds)
    PROVE  /\ SumTo(Heads(ds), n) \in Nat /\ SumTo(Minima(ds), n) \in Nat
           /\ SumTo(Bodies(ds), n) \in Nat /\ SumTo(Minima(ds), n) <= SumTo(Bodies(ds), n)
           /\ Separators(n) \in Nat
<1>1. DOMAIN ds = 1 .. Len(ds) /\ Len(ds) \in Nat /\ n \in Nat /\ \A i \in 1 .. n : i \in 1 .. Len(ds)
  OBVIOUS
<1>2. ASSUME NEW i \in 1 .. n
      PROVE  /\ Heads(ds)[i] \in Nat /\ Minima(ds)[i] \in Nat /\ Bodies(ds)[i] \in Nat
             /\ Minima(ds)[i] <= Bodies(ds)[i]
  <2>1. i \in DOMAIN ds /\ ds[i] \in Passage
    BY <1>1
  <2>2. Heads(ds)[i] = ds[i].head /\ Minima(ds)[i] = Minimum(ds[i]) /\ Bodies(ds)[i] = ds[i].body
    BY <2>1 DEF Heads, Minima, Bodies
  <2> QED BY <2>1, <2>2, MinimumIs
<1>3. n \in 0 .. n
  BY <1>1
<1>4. \A i \in 1 .. n : Heads(ds)[i] \in Nat
  BY <1>2
<1>5. \A i \in 1 .. n : Minima(ds)[i] \in Nat
  BY <1>2
<1>6. \A i \in 1 .. n : Bodies(ds)[i] \in Nat
  BY <1>2
<1>7. SumTo(Heads(ds), n) \in Nat
  BY <1>1, <1>3, <1>4, SumGrows
<1>8. SumTo(Minima(ds), n) \in Nat
  BY <1>1, <1>3, <1>5, SumGrows
<1>9. SumTo(Bodies(ds), n) \in Nat
  BY <1>1, <1>3, <1>6, SumGrows
<1>10. SumTo(Minima(ds), n) <= SumTo(Bodies(ds), n)
  <2>1. \A i \in 1 .. n : Minima(ds)[i] \in Int /\ Bodies(ds)[i] \in Int /\ Minima(ds)[i] <= Bodies(ds)[i]
    BY <1>2
  <2> QED BY <1>1, <2>1, SumAtMost
<1>11. Separators(n) \in Nat
  BY <1>1, GroundedAssumption DEF Separators
<1> QED BY <1>7, <1>8, <1>9, <1>10, <1>11

\* Headers and texts, added one document after another.
LEMMA HeadsAnd ==
    ASSUME NEW ds \in Seq(Passage), NEW n \in 0 .. Len(ds), NEW f, NEW h,
           \A i \in 1 .. n : f[i] \in Int /\ h[i] = ds[i].head + f[i]
    PROVE  SumTo(h, n) = SumTo(Heads(ds), n) + SumTo(f, n)
<1>1. ASSUME NEW i \in 1 .. n
      PROVE  Heads(ds)[i] \in Int /\ f[i] \in Int /\ h[i] = Heads(ds)[i] + f[i]
  <2>1. i \in DOMAIN ds /\ ds[i] \in Passage
    OBVIOUS
  <2>2. Heads(ds)[i] = ds[i].head
    BY <2>1 DEF Heads
  <2> QED BY <2>1, <2>2, MinimumIs
<1>2. n \in Nat
  OBVIOUS
<1> QED BY <1>1, <1>2, SumOfBoth

\* The rest is what the headers, the minima and the separators leave.
LEMMA RestLeaves ==
    ASSUME NEW ds \in Seq(Passage), NEW b \in Nat
    PROVE  LET fixed == SumTo(Heads(ds), Len(ds)) + SumTo(Minima(ds), Len(ds)) + Separators(Len(ds))
           IN Rest(ds, b) = IF b > fixed THEN b - fixed ELSE 0
<1>1. PICK n \in Nat : n = Len(ds) /\ DOMAIN ds = 1 .. n
  OBVIOUS
<1>2. PICK h : h = [i \in DOMAIN ds |-> ds[i].head + Minimum(ds[i])]
  OBVIOUS
<1>3. ASSUME NEW i \in 1 .. n PROVE Minima(ds)[i] \in Int /\ h[i] = ds[i].head + Minima(ds)[i]
  <2>1. i \in DOMAIN ds /\ ds[i] \in Passage
    BY <1>1
  <2>2. Minima(ds)[i] = Minimum(ds[i])
    BY <2>1 DEF Minima
  <2> QED BY <1>2, <2>1, <2>2, MinimumIs
<1>4. SumTo(h, n) = SumTo(Heads(ds), n) + SumTo(Minima(ds), n)
  <2>1. n \in 0 .. Len(ds)
    BY <1>1
  <2> QED BY <1>3, <2>1, HeadsAnd
<1>5. Rest(ds, b) = IF b > SumTo(h, n) + Separators(n) THEN b - (SumTo(h, n) + Separators(n)) ELSE 0
  BY <1>1, <1>2 DEF Rest
<1> QED BY <1>1, <1>4, <1>5

\* What is reserved for n documents.
LEMMA ReservedIs ==
    ASSUME NEW ds \in Seq(Passage)
    PROVE  \A n \in 0 .. Len(ds) :
             Reserved(ds, n) = SumTo(Heads(ds), n) + SumTo(Minima(ds), n) + Separators(n)
<1>1. PICK l \in Nat : l = Len(ds) /\ DOMAIN ds = 1 .. l
  OBVIOUS
<1>2. PICK req : req = [i \in 1 .. l |-> Required(ds, i)]
  OBVIOUS
<1>3. ASSUME NEW n \in 0 .. l PROVE Reserved(ds, n) = SumTo(req, n)
  <2>1. PICK q : q = [i \in 1 .. n |-> Required(ds, i)]
    OBVIOUS
  <2>2. \A i \in 1 .. n : q[i] = req[i]
    BY <1>1, <1>2, <2>1
  <2>3. n \in Nat
    OBVIOUS
  <2> QED BY <2>1, <2>2, <2>3, SumSame DEF Reserved
<1> DEFINE T == {n \in Nat : n <= l =>
                   SumTo(req, n) = SumTo(Heads(ds), n) + SumTo(Minima(ds), n) + Separators(n)}
<1>4. 0 \in T
  <2>1. SumTo(req, 0) = 0 /\ SumTo(Heads(ds), 0) = 0 /\ SumTo(Minima(ds), 0) = 0
    BY SumStep
  <2>2. Separators(0) = 0
    BY GroundedAssumption DEF Separators
  <2> QED BY <2>1, <2>2
<1>5. ASSUME NEW n \in Nat, n \in T PROVE n + 1 \in T
  <2> SUFFICES ASSUME n + 1 <= l
               PROVE  SumTo(req, n + 1) = SumTo(Heads(ds), n + 1) + SumTo(Minima(ds), n + 1) + Separators(n + 1)
    OBVIOUS
  <2>1. n + 1 \in 1 .. l /\ n \in 0 .. l /\ ds[n + 1] \in Passage
    BY <1>1
  <2>2. PICK x \in Nat, y \in Nat, z \in Nat :
            x = SumTo(Heads(ds), n) /\ y = SumTo(Minima(ds), n) /\ z = Separators(n)
    BY <1>1, <2>1, SumsOfDocuments
  <2>3. PICK h \in Nat, m \in Nat : h = ds[n + 1].head /\ m = Minimum(ds[n + 1])
    BY <2>1, MinimumIs
  <2>4. SumTo(Heads(ds), n + 1) = x + h
    <3>1. Heads(ds)[n + 1] = h
      BY <1>1, <2>1, <2>3 DEF Heads
    <3> QED BY <2>2, <3>1, SumStep
  <2>5. SumTo(Minima(ds), n + 1) = y + m
    <3>1. Minima(ds)[n + 1] = m
      BY <1>1, <2>1, <2>3 DEF Minima
    <3> QED BY <2>2, <3>1, SumStep
  <2>6. PICK t \in Nat : t = IF n = 0 THEN 0 ELSE Separator
    BY GroundedAssumption
  <2>7. SumTo(req, n + 1) = SumTo(req, n) + h + m + t
    <3>1. req[n + 1] = h + m + t
      BY <1>2, <2>1, <2>3, <2>6 DEF Required
    <3>2. SumTo(req, n) = x + y + z
      BY <1>5, <2>2
    <3>3. SumTo(req, n + 1) = SumTo(req, n) + req[n + 1]
      BY SumStep
    <3> QED BY <3>1, <3>2, <3>3
  <2>8. Separators(n + 1) = z + t
    <3>1. Separator \in Nat
      BY GroundedAssumption
    <3>2. Separators(n + 1) = Separator * n
      <4>1. n + 1 # 0 /\ (n + 1) - 1 = n
        OBVIOUS
      <4> QED BY <4>1 DEF Separators
    <3>3. CASE n = 0
      BY <2>2, <2>6, <3>1, <3>2, <3>3 DEF Separators
    <3>4. CASE n # 0
      <4>1. z = Separator * (n - 1) /\ t = Separator
        BY <2>2, <2>6, <3>4 DEF Separators
      <4>2. Separator * n = Separator * (n - 1) + Separator
        BY <3>1
      <4> QED BY <3>2, <4>1, <4>2
    <3> QED BY <3>3, <3>4
  <2>9. SumTo(req, n) = x + y + z
    BY <1>5, <2>2
  <2> QED BY <2>4, <2>5, <2>7, <2>8, <2>9
<1>6. \A n \in Nat : n \in T
  <2> HIDE DEF T
  <2> QED BY <1>4, <1>5, EveryNumber
<1> QED BY <1>1, <1>3, <1>6

-----------------------------------------------------------------------------
(* The context that is packed.                                                *)

\* What is said of the context that is packed of ds within b tokens.
ContextIs(ds, b, context) ==
    LET n == Len(context)
    IN /\ n \in 0 .. Len(ds) /\ DOMAIN context = 1 .. n /\ \E T : context \in Seq(T)
       /\ \A i \in 1 .. n : context[i].document = ds[i]
       /\ \A i \in 1 .. n : context[i].label =
            Cardinality({j \in 1 .. i :
                Inventory(context[j].document) = Inventory(context[i].document)})
       /\ Tokens(context) > b => n = 1 /\ context[1].tokens = Minimum(ds[1])
       /\ SumTo(Heads(ds), Len(ds)) + SumTo(Bodies(ds), Len(ds)) + Separators(Len(ds)) <= b =>
            n = Len(ds) /\ \A i \in 1 .. n : context[i].tokens = ds[i].body

\* More documents take more.
LEMMA MoreTakeMore ==
    ASSUME NEW ds \in Seq(Passage), NEW i \in 1 .. Len(ds)
    PROVE  /\ SumTo(Heads(ds), i) <= SumTo(Heads(ds), Len(ds))
           /\ SumTo(Bodies(ds), i) <= SumTo(Bodies(ds), Len(ds))
           /\ Separators(i) <= Separators(Len(ds))
<1>1. PICK l \in Nat : l = Len(ds) /\ DOMAIN ds = 1 .. l
  OBVIOUS
<1>2. \A k \in 1 .. l : Heads(ds)[k] \in Nat
  <2> SUFFICES ASSUME NEW k \in 1 .. l PROVE Heads(ds)[k] \in Nat
    OBVIOUS
  <2>1. ds[k] \in Passage /\ Heads(ds)[k] = ds[k].head
    BY <1>1 DEF Heads
  <2> QED BY <2>1, MinimumIs
<1>3. \A k \in 1 .. l : Bodies(ds)[k] \in Nat
  <2> SUFFICES ASSUME NEW k \in 1 .. l PROVE Bodies(ds)[k] \in Nat
    OBVIOUS
  <2>1. ds[k] \in Passage /\ Bodies(ds)[k] = ds[k].body
    BY <1>1 DEF Bodies
  <2> QED BY <2>1, MinimumIs
<1>4. i \in 0 .. l
  BY <1>1
<1>5. SumTo(Heads(ds), i) <= SumTo(Heads(ds), l)
  BY <1>2, <1>4, SumGrows
<1>6. SumTo(Bodies(ds), i) <= SumTo(Bodies(ds), l)
  BY <1>3, <1>4, SumGrows
<1>7. Separators(i) <= Separators(l)
  <2>1. i - 1 \in Nat /\ l - 1 \in Nat /\ i - 1 <= l - 1 /\ i # 0 /\ l # 0 /\ Separator \in Nat
    BY <1>1, GroundedAssumption
  <2>2. Separator * (i - 1) <= Separator * (l - 1)
    BY <2>1
  <2>3. Separators(i) = Separator * (i - 1) /\ Separators(l) = Separator * (l - 1)
    BY <2>1 DEF Separators
  <2> QED BY <2>2, <2>3
<1> QED BY <1>1, <1>5, <1>6, <1>7

\* If all fit as a whole, each fits.
LEMMA WholeFits ==
    ASSUME NEW ds \in Seq(Passage), NEW b \in Nat,
           SumTo(Heads(ds), Len(ds)) + SumTo(Bodies(ds), Len(ds)) + Separators(Len(ds)) <= b,
           NEW i \in 1 .. Len(ds)
    PROVE  Fits(ds, b, i)
<1>1. PICK j \in Nat : j = i - 1 /\ i = j + 1
  OBVIOUS
<1>2. i \in 0 .. Len(ds) /\ j \in 0 .. Len(ds) /\ Len(ds) \in 0 .. Len(ds)
      /\ ds[i] \in Passage /\ i \in DOMAIN ds /\ i \in Nat
  BY <1>1
<1>3. PICK h \in Nat, m \in Nat, w \in Nat, t \in Nat :
        /\ h = SumTo(Heads(ds), i) /\ m = SumTo(Minima(ds), i)
        /\ w = SumTo(Bodies(ds), i) /\ m <= w /\ t = Separators(i)
  BY <1>2, SumsOfDocuments
<1>4. PICK h1 \in Nat, w1 \in Nat, t1 \in Nat :
        /\ h1 = SumTo(Heads(ds), Len(ds)) /\ w1 = SumTo(Bodies(ds), Len(ds))
        /\ t1 = Separators(Len(ds))
  BY <1>2, SumsOfDocuments
<1>5. h <= h1 /\ w <= w1 /\ t <= t1
  BY <1>3, <1>4, MoreTakeMore
<1>6. PICK x \in Nat, y \in Nat, z \in Nat :
        x = SumTo(Heads(ds), j) /\ y = SumTo(Minima(ds), j) /\ z = Separators(j)
  BY <1>2, SumsOfDocuments
<1>7. Reserved(ds, i) = h + m + t /\ Reserved(ds, j) = x + y + z
  BY <1>2, <1>3, <1>6, ReservedIs
<1>8. h1 + w1 + t1 <= b
  BY <1>4
<1>9. h + m + t <= b
  BY <1>3, <1>5, <1>8, SMTT(20)
<1>10. PICK head \in Nat, least \in Nat : head = ds[i].head /\ least = Minimum(ds[i]) /\ least > 0
  BY <1>2, MinimumIs
<1>11. h = x + head
  <2>1. Heads(ds)[i] = head
    BY <1>2, <1>10 DEF Heads
  <2>2. SumTo(Heads(ds), j + 1) = SumTo(Heads(ds), j) + Heads(ds)[j + 1]
    BY SumStep
  <2> QED BY <1>1, <1>3, <1>6, <2>1, <2>2
<1>12. m = y + least
  <2>1. Minima(ds)[i] = least
    BY <1>2, <1>10 DEF Minima
  <2>2. SumTo(Minima(ds), j + 1) = SumTo(Minima(ds), j) + Minima(ds)[j + 1]
    BY SumStep
  <2> QED BY <1>1, <1>3, <1>6, <2>1, <2>2
<1>13. z <= t
  <2>1. PICK s \in Nat : s = Separator
    BY GroundedAssumption
  <2>2. t = s * j
    <3>1. i # 0 /\ i - 1 = j
      BY <1>1
    <3> QED BY <1>3, <2>1, <3>1 DEF Separators
  <2>3. CASE j = 0
    BY <1>6, <2>1, <2>2, <2>3 DEF Separators
  <2>4. CASE j # 0
    <3>1. z = s * (j - 1)
      BY <1>6, <2>1, <2>4 DEF Separators
    <3>2. s * j = s * (j - 1) + s
      OBVIOUS
    <3> QED BY <2>1, <2>2, <3>1, <3>2
  <2> QED BY <2>3, <2>4
<1>14. Reserved(ds, i) <= b
  BY <1>7, <1>9
<1>15. x + y + z + head < b
  <2>1. (x + head) + (y + least) + t <= b
    BY <1>9, <1>11, <1>12
  <2>2. least > 0
    BY <1>10
  <2> QED BY <1>13, <2>1, <2>2
<1>16. Reserved(ds, i - 1) + ds[i].head < b
  BY <1>1, <1>7, <1>10, <1>15
<1> QED BY <1>14, <1>16 DEF Fits

\* The list of documents that is packed.
LEMMA PackedIs ==
    ASSUME NEW docs, NEW ds \in Seq(Passage), Diversified(docs) = ds, NEW b \in Nat
    PROVE  ContextIs(ds, b, Packed(docs, b))
<1>1. PICK n \in 0 .. Len(ds) :
        /\ Shown(ds, b) \in Seq(Passage) /\ Len(Shown(ds, b)) = n
        /\ \A i \in 1 .. n : Shown(ds, b)[i] = ds[i] /\ Fits(ds, b, i)
        /\ (\A i \in 1 .. Len(ds) : Fits(ds, b, i)) => n = Len(ds)
  BY ShownIs
<1>2. PICK s \in Seq(Passage) : s = Shown(ds, b) /\ Len(s) = n /\ DOMAIN s = 1 .. n
  BY <1>1
<1>3. n \in Nat /\ n \in 0 .. Len(s) /\ \A i \in 1 .. n : i \in DOMAIN ds /\ s[i] = ds[i]
  BY <1>1, <1>2
<1>4. PICK a : a = Allocation(s, b) /\ DOMAIN a = DOMAIN s /\ AllocationFits(s, b, a)
  BY AllocationIs
<1>5. PICK context : context = Packed(docs, b)
  OBVIOUS
<1>6. context = [i \in 1 .. n |-> [document |-> s[i], label |-> Label(s, i), tokens |-> a[i]]]
  BY <1>2, <1>4, <1>5 DEF Packed
<1>7. DOMAIN context = 1 .. n /\ Len(context) = n
      /\ \A i \in 1 .. n : context[i].document = s[i] /\ context[i].tokens = a[i]
  <2>1. DOMAIN context = 1 .. n
        /\ \A i \in 1 .. n : context[i].document = s[i] /\ context[i].tokens = a[i]
    BY <1>6
  <2>2. Len(context) = n
    BY <1>3, <1>6
  <2> QED BY <2>1, <2>2
<1>8. ASSUME NEW i \in 1 .. n
      PROVE  a[i] \in Nat /\ Minimum(ds[i]) \in Nat /\ Minimum(ds[i]) <= a[i] /\ s[i].head \in Nat
  <2>1. s[i] \in Passage /\ i \in DOMAIN s
    BY <1>2
  <2> QED BY <1>3, <1>4, <2>1, MinimumIs DEF AllocationFits
<1>9. PICK h \in Nat, m \in Nat, w \in Nat, t \in Nat :
        /\ h = SumTo(Heads(s), n) /\ m = SumTo(Minima(s), n)
        /\ w = SumTo(Bodies(s), n) /\ t = Separators(n)
  BY <1>3, SumsOfDocuments
<1>10. \A i \in 1 .. n : a[i] \in Int
  BY <1>8
<1>11. PICK c \in Int : c = SumTo(a, n)
  <2>1. n \in 0 .. n
    BY <1>3
  <2> QED BY <1>3, <1>10, <2>1, SumNumber
<1>12. Tokens(context) = h + c + t
  <2>1. PICK f : f = [i \in DOMAIN context |-> context[i].document.head + context[i].tokens]
    OBVIOUS
  <2>2. \A i \in 1 .. n : a[i] \in Int /\ f[i] = s[i].head + a[i]
    BY <1>7, <1>10, <2>1
  <2>3. SumTo(f, n) = h + c
    BY <1>3, <1>9, <1>11, <2>2, HeadsAnd
  <2> QED BY <1>7, <1>9, <2>1, <2>3 DEF Tokens
<1>13. PICK r \in Nat : r = Rest(s, b) /\ r = IF b > h + m + t THEN b - (h + m + t) ELSE 0
  BY <1>2, <1>9, RestIs, RestLeaves
<1>14. c <= m + r
  BY <1>2, <1>4, <1>9, <1>11, <1>13 DEF AllocationFits
<1>15. n = 0 => h = 0 /\ c = 0 /\ t = 0
  BY <1>9, <1>11, SumStep, GroundedAssumption DEF Separators
<1>16. n # 0 /\ n # 1 => h + m + t <= b
  <2> SUFFICES ASSUME n # 0, n # 1 PROVE h + m + t <= b
    OBVIOUS
  <2>1. n \in 1 .. n
    BY <1>3
  <2>2. Reserved(ds, n) <= b
    BY <1>1, <2>1 DEF Fits
  <2>3. Reserved(ds, n) = SumTo(Heads(ds), n) + SumTo(Minima(ds), n) + Separators(n)
    BY <1>1, ReservedIs
  <2>4. SumTo(Heads(ds), n) = h
    <3>1. \A i \in 1 .. n : Heads(ds)[i] = Heads(s)[i]
      BY <1>2, <1>3 DEF Heads
    <3> QED BY <1>3, <1>9, <3>1, SumSame
  <2>5. SumTo(Minima(ds), n) = m
    <3>1. \A i \in 1 .. n : Minima(ds)[i] = Minima(s)[i]
      BY <1>2, <1>3 DEF Minima
    <3> QED BY <1>3, <1>9, <3>1, SumSame
  <2> QED BY <1>9, <2>2, <2>3, <2>4, <2>5
<1>17. ASSUME Tokens(context) > b PROVE n = 1 /\ context[1].tokens = Minimum(ds[1])
  <2>1. h + c + t > b
    BY <1>12, <1>17
  <2>2. n # 0
    BY <1>15, <2>1
  <2>3. ~ (b >= h + m + t)
    BY <1>13, <1>14, <2>1
  <2>4. n = 1
    BY <1>16, <2>2, <2>3
  <2>5. c <= m
    BY <1>13, <1>14, <2>3
  <2>6. SumTo(a, 1) = a[1] /\ SumTo(Minima(s), 1) = Minima(s)[1]
    <3>1. 1 \in 1 .. n
      BY <2>4
    <3>2. SumTo(a, 0 + 1) = SumTo(a, 0) + a[0 + 1] /\ SumTo(a, 0) = 0
      BY SumStep
    <3>3. SumTo(Minima(s), 0 + 1) = SumTo(Minima(s), 0) + Minima(s)[0 + 1] /\ SumTo(Minima(s), 0) = 0
      BY SumStep
    <3>4. a[1] \in Nat /\ Minima(s)[1] \in Nat
      BY <1>2, <1>3, <1>8, <3>1 DEF Minima
    <3> QED BY <3>2, <3>3, <3>4
  <2>7. Minima(s)[1] = Minimum(ds[1]) /\ Minimum(ds[1]) \in Nat /\ a[1] \in Nat /\ Minimum(ds[1]) <= a[1]
        /\ context[1].tokens = a[1]
    <3>1. 1 \in 1 .. n
      BY <2>4
    <3> QED BY <1>2, <1>3, <1>7, <1>8, <3>1 DEF Minima
  <2>8. a[1] <= Minimum(ds[1])
    BY <1>9, <1>11, <2>4, <2>5, <2>6, <2>7
  <2> QED BY <2>4, <2>7, <2>8
<1>18. ASSUME SumTo(Heads(ds), Len(ds)) + SumTo(Bodies(ds), Len(ds)) + Separators(Len(ds)) <= b
       PROVE  n = Len(ds) /\ \A i \in 1 .. n : context[i].tokens = ds[i].body
  <2>1. \A i \in 1 .. Len(ds) : Fits(ds, b, i)
    BY <1>18, WholeFits
  <2>2. n = Len(ds)
    BY <1>1, <2>1
  <2>3. SumTo(Heads(ds), n) = h
    <3>1. \A i \in 1 .. n : Heads(ds)[i] = Heads(s)[i]
      BY <1>2, <1>3 DEF Heads
    <3> QED BY <1>3, <1>9, <3>1, SumSame
  <2>4. SumTo(Bodies(ds), n) = w
    <3>1. \A i \in 1 .. n : Bodies(ds)[i] = Bodies(s)[i]
      BY <1>2, <1>3 DEF Bodies
    <3> QED BY <1>3, <1>9, <3>1, SumSame
  <2>5. h + w + t <= b
    BY <1>9, <1>18, <2>2, <2>3, <2>4
  <2>6. w <= m + r
    BY <1>13, <2>5
  <2>7. \A i \in 1 .. n : a[i] = s[i].body
    BY <1>2, <1>4, <1>9, <1>13, <2>6 DEF AllocationFits
  <2> QED BY <1>3, <1>7, <2>2, <2>7
<1>19. ASSUME NEW i \in 1 .. n
       PROVE  context[i].label =
                Cardinality({j \in 1 .. i : Inventory(context[j].document) = Inventory(context[i].document)})
  <2>1. context[i].label = Label(s, i)
    BY <1>6
  <2>2. \A j \in 1 .. i : j \in 1 .. n
    BY <1>3
  <2>3. \A j \in 1 .. i : context[j].document = s[j]
    BY <1>7, <2>2
  <2>4. context[i].document = s[i]
    BY <1>7
  <2>5. {j \in 1 .. i : Inventory(context[j].document) = Inventory(context[i].document)}
          = {j \in 1 .. i : Inventory(s[j]) = Inventory(s[i])}
    BY <2>3, <2>4
  <2> QED BY <2>1, <2>5 DEF Label
<1>20. n \in 0 .. Len(ds) /\ \A i \in 1 .. n : context[i].document = ds[i]
  BY <1>1, <1>3, <1>7
<1>21. \E T : context \in Seq(T)
  <2>1. PICK T : T = {[document |-> s[i], label |-> Label(s, i), tokens |-> a[i]] : i \in 1 .. n}
    OBVIOUS
  <2>2. \A i \in 1 .. n : [document |-> s[i], label |-> Label(s, i), tokens |-> a[i]] \in T
    BY <2>1
  <2>3. context \in Seq(T)
    BY <1>3, <1>6, <2>2
  <2> QED BY <2>3
<1> QED BY <1>5, <1>7, <1>17, <1>18, <1>19, <1>20, <1>21 DEF ContextIs

-----------------------------------------------------------------------------
(* The order of the documents.                                                *)

\* A nonempty set of numbers has a least one.
LEMMA LeastNumber ==
    ASSUME NEW T, T \subseteq Nat, T # {}
    PROVE  Min(T) \in T /\ \A m \in T : Min(T) <= m
<1>1. \E n \in T : \A m \in T : ~(<<m, n>> \in OpToRel(<, Nat))
  BY NatLessThanWellFounded, WFMin
<1>2. PICK n \in T : \A m \in T : ~(<<m, n>> \in OpToRel(<, Nat))
  BY <1>1
<1>3. ASSUME NEW m \in T PROVE n <= m
  <2>1. m \in Nat /\ n \in Nat
    OBVIOUS
  <2>2. ~ (m < n)
    BY <1>2, <2>1 DEF OpToRel
  <2> QED BY <2>1, <2>2
<1>4. \E x \in T : \A y \in T : x <= y
  BY <1>3
<1> QED BY <1>4 DEF Min

\* k follows the recursion of Distinct up to m.
KeptUpTo(docs, m, k) ==
    k = [n \in 0 .. m |-> IF n = 0 THEN <<>>
                          ELSE IF docs[n].body = 0 \/ Again(k[n - 1], docs[n]) THEN k[n - 1]
                          ELSE Append(k[n - 1], docs[n])]

LEMMA KeepsThere ==
    ASSUME NEW docs, NEW m \in Nat
    PROVE  \E k : KeptUpTo(docs, m, k)
<1> DEFINE T == {n \in Nat : \E k : KeptUpTo(docs, n, k)}
<1>1. 0 \in T
  <2>1. KeptUpTo(docs, 0, [n \in 0 .. 0 |-> <<>>])
    BY DEF KeptUpTo
  <2> QED BY <2>1
<1>2. ASSUME NEW n \in Nat, n \in T PROVE n + 1 \in T
  <2>1. PICK k : KeptUpTo(docs, n, k)
    BY <1>2
  <2> DEFINE Next1(d, q) == IF d.body = 0 \/ Again(q, d) THEN q ELSE Append(q, d)
  <2>2. PICK h : h = [i \in 0 .. (n + 1) |-> IF i = n + 1 THEN Next1(docs[n + 1], k[n]) ELSE k[i]]
    OBVIOUS
  <2>3. \A i \in 0 .. (n + 1) : i # n + 1 => i \in 0 .. n
    OBVIOUS
  <2>4. \A i \in 0 .. n : k[i] = IF i = 0 THEN <<>> ELSE Next1(docs[i], k[i - 1])
    BY <2>1 DEF KeptUpTo
  <2>5. ASSUME NEW i \in 0 .. (n + 1)
        PROVE  h[i] = IF i = 0 THEN <<>> ELSE Next1(docs[i], h[i - 1])
    <3> HIDE DEF Next1
    <3>1. CASE i = n + 1
      <4>1. i # 0 /\ i - 1 = n /\ n \in 0 .. (n + 1) /\ n # n + 1
        BY <3>1
      <4>2. h[i] = Next1(docs[i], k[n]) /\ h[i - 1] = k[n]
        BY <2>2, <3>1, <4>1
      <4> QED BY <4>1, <4>2
    <3>2. CASE i # n + 1
      <4>1. i \in 0 .. n /\ h[i] = k[i]
        BY <2>2, <2>3, <3>2
      <4>2. ASSUME i # 0 PROVE h[i - 1] = k[i - 1]
        <5>1. i - 1 \in 0 .. (n + 1) /\ i - 1 # n + 1
          BY <4>1, <4>2
        <5> QED BY <2>2, <5>1
      <4> QED BY <2>4, <4>1, <4>2
    <3> QED BY <3>1, <3>2
  <2>6. KeptUpTo(docs, n + 1, h)
    BY <2>2, <2>5 DEF KeptUpTo
  <2> QED BY <2>6
<1>3. m \in T
  <2> HIDE DEF T
  <2> QED BY <1>1, <1>2, EveryNumber
<1> QED BY <1>3

\* What is kept has a text.
LEMMA DistinctIs ==
    ASSUME NEW docs \in Seq(Document)
    PROVE  Distinct(docs) \in Seq(Passage)
<1>1. PICK l \in Nat : l = Len(docs) /\ DOMAIN docs = 1 .. l
  OBVIOUS
<1>2. PICK k : k = CHOOSE h : KeptUpTo(docs, l, h)
  OBVIOUS
<1>3. KeptUpTo(docs, l, k)
  BY <1>2, KeepsThere
<1>4. Distinct(docs) = k[l]
  BY <1>1, <1>2 DEF Distinct, KeptUpTo
<1> DEFINE T == {n \in Nat : n <= l => k[n] \in Seq(Passage)}
<1>5. 0 \in T
  <2>1. k[0] = <<>>
    BY <1>3 DEF KeptUpTo
  <2>2. <<>> \in Seq(Passage)
    OBVIOUS
  <2>3. k[0] \in Seq(Passage)
    BY <2>1, <2>2
  <2> QED BY <2>3
<1>6. ASSUME NEW n \in Nat, n \in T PROVE n + 1 \in T
  <2> SUFFICES ASSUME n + 1 <= l PROVE k[n + 1] \in Seq(Passage)
    OBVIOUS
  <2>1. n + 1 \in 0 .. l /\ n + 1 # 0 /\ (n + 1) - 1 = n /\ n <= l /\ docs[n + 1] \in Document
    BY <1>1
  <2>2. k[n] \in Seq(Passage)
    BY <1>6, <2>1
  <2>3. k[n + 1] = IF docs[n + 1].body = 0 \/ Again(k[n], docs[n + 1]) THEN k[n]
                   ELSE Append(k[n], docs[n + 1])
    BY <1>3, <2>1 DEF KeptUpTo
  <2>4. docs[n + 1].body # 0 => docs[n + 1] \in Passage
    BY <2>1 DEF Passage
  <2> QED BY <2>2, <2>3, <2>4
<1>7. l \in T
  <2> HIDE DEF T
  <2> QED BY <1>5, <1>6, EveryNumber
<1> QED BY <1>4, <1>7

\* The rounds: a file's passages are in one after another, the first in the first.
LEMMA RoundIs ==
    ASSUME NEW kept, NEW l \in Nat, NEW i \in 1 .. l
    PROVE  /\ Round(kept, i) \in Nat /\ IsFiniteSet(Mates(kept, i))
           /\ Min(Mates(kept, i)) \in 1 .. i
           /\ kept[Min(Mates(kept, i))].file = kept[i].file
           /\ Min(Mates(kept, i)) = i => Round(kept, i) = 1
<1>1. Mates(kept, i) \subseteq 1 .. i /\ i \in Mates(kept, i) /\ i \in Nat
  BY DEF Mates
<1>2. IsFiniteSet(1 .. i)
  BY FS_Interval
<1>3. IsFiniteSet(Mates(kept, i))
  BY <1>1, <1>2, FS_Subset
<1>4. Round(kept, i) \in Nat
  BY <1>3, FS_CardinalityType DEF Round
<1>5. Min(Mates(kept, i)) \in Mates(kept, i) /\ \A j \in Mates(kept, i) : Min(Mates(kept, i)) <= j
  <2>1. Mates(kept, i) \subseteq Nat /\ Mates(kept, i) # {}
    BY <1>1
  <2> QED BY <2>1, LeastNumber
<1>6. Min(Mates(kept, i)) \in 1 .. i /\ kept[Min(Mates(kept, i))].file = kept[i].file
  BY <1>5 DEF Mates
<1>7. ASSUME Min(Mates(kept, i)) = i PROVE Round(kept, i) = 1
  <2>1. \A j \in Mates(kept, i) : j = i
    <3> SUFFICES ASSUME NEW j \in Mates(kept, i) PROVE j = i
      OBVIOUS
    <3>1. j \in 1 .. i /\ i <= j
      BY <1>1, <1>5, <1>7
    <3> QED BY <3>1
  <2>2. Mates(kept, i) = {i}
    BY <1>1, <2>1
  <2> QED BY <2>2, FS_Singleton DEF Round
<1> QED BY <1>3, <1>4, <1>6, <1>7

LEMMA RoundsGrow ==
    ASSUME NEW kept, NEW l \in Nat, NEW i \in 1 .. l, NEW j \in 1 .. l, i < j,
           kept[i].file = kept[j].file
    PROVE  Round(kept, i) < Round(kept, j)
<1>1. IsFiniteSet(Mates(kept, i)) /\ IsFiniteSet(Mates(kept, j))
      /\ Round(kept, i) \in Nat /\ Round(kept, j) \in Nat
  BY RoundIs
<1>2. Mates(kept, i) \subseteq Mates(kept, j) /\ j \in Mates(kept, j) /\ j \notin Mates(kept, i)
  BY DEF Mates
<1>3. Cardinality(Mates(kept, i)) <= Cardinality(Mates(kept, j))
      /\ (Cardinality(Mates(kept, j)) = Cardinality(Mates(kept, i)) => Mates(kept, j) = Mates(kept, i))
  BY <1>1, <1>2, FS_Subset
<1> QED BY <1>1, <1>2, <1>3 DEF Round

\* The order is strict and total.
LEMMA SoonerOrders ==
    ASSUME NEW kept, NEW l \in Nat, NEW i \in 1 .. l, NEW j \in 1 .. l, NEW k \in 1 .. l
    PROVE  /\ ~ Sooner(kept, i, i)
           /\ Sooner(kept, i, j) /\ Sooner(kept, j, k) => Sooner(kept, i, k)
           /\ i # j => Sooner(kept, i, j) \/ Sooner(kept, j, i)
<1>1. PICK ri \in Nat, rj \in Nat, rk \in Nat :
        ri = Round(kept, i) /\ rj = Round(kept, j) /\ rk = Round(kept, k)
  BY RoundIs
<1>2. PICK fi \in Nat, fj \in Nat, fk \in Nat :
        fi = Min(Mates(kept, i)) /\ fj = Min(Mates(kept, j)) /\ fk = Min(Mates(kept, k))
  <2>1. \A x \in 1 .. l : Min(Mates(kept, x)) \in 1 .. x
    BY RoundIs
  <2>2. Min(Mates(kept, i)) \in Nat /\ Min(Mates(kept, j)) \in Nat /\ Min(Mates(kept, k)) \in Nat
    BY <2>1
  <2> QED BY <2>2
<1>3. ~ Sooner(kept, i, i)
  BY <1>1, <1>2 DEF Sooner
<1>4. Sooner(kept, i, j) /\ Sooner(kept, j, k) => Sooner(kept, i, k)
  BY <1>1, <1>2 DEF Sooner
<1>5. ASSUME i # j PROVE Sooner(kept, i, j) \/ Sooner(kept, j, i)
  <2> SUFFICES ASSUME ri = rj, fi = fj PROVE FALSE
    BY <1>1, <1>2 DEF Sooner
  <2>1. kept[Min(Mates(kept, i))].file = kept[i].file
    BY RoundIs
  <2>2. kept[Min(Mates(kept, j))].file = kept[j].file
    BY RoundIs
  <2>3. kept[i].file = kept[j].file
    BY <1>2, <2>1, <2>2
  <2>4. CASE i < j
    <3>1. ri < rj
      BY <1>1, <2>3, <2>4, RoundsGrow
    <3> QED BY <3>1
  <2>5. CASE j < i
    <3>1. rj < ri
      BY <1>1, <2>3, <2>5, RoundsGrow
    <3> QED BY <3>1
  <2> QED BY <1>5, <2>4, <2>5
<1> QED BY <1>3, <1>4, <1>5

\* As many are ahead of a document as its place says, so that every place is
\* taken once.
LEMMA AheadIs ==
    ASSUME NEW kept, NEW l \in Nat, DOMAIN kept = 1 .. l
    PROVE  /\ \A i \in 1 .. l : Ahead(kept, i) \in 0 .. (l - 1)
           /\ \A i, j \in 1 .. l : Sooner(kept, i, j) => Ahead(kept, i) < Ahead(kept, j)
           /\ \A i, j \in 1 .. l : Ahead(kept, i) = Ahead(kept, j) => i = j
           /\ \A n \in 1 .. l : \E i \in 1 .. l : Ahead(kept, i) = n - 1
<1> DEFINE Sooners(i) == {j \in 1 .. l : Sooner(kept, j, i)}
<1>1. IsFiniteSet(1 .. l) /\ Cardinality(1 .. l) = l
  BY FS_Interval
<1>2. ASSUME NEW i \in 1 .. l
      PROVE  /\ Ahead(kept, i) = Cardinality(Sooners(i)) /\ IsFiniteSet(Sooners(i))
             /\ Ahead(kept, i) \in 0 .. (l - 1)
  <2>1. Ahead(kept, i) = Cardinality(Sooners(i))
    BY DEF Ahead
  <2>2. i \in 1 .. l /\ i \notin Sooners(i) /\ Sooners(i) \subseteq 1 .. l
    BY SoonerOrders
  <2>3. IsFiniteSet(Sooners(i)) /\ Cardinality(Sooners(i)) <= l
        /\ (l = Cardinality(Sooners(i)) => 1 .. l = Sooners(i))
    <3> HIDE DEF Sooners
    <3> QED BY <1>1, <2>2, FS_Subset
  <2>4. Cardinality(Sooners(i)) \in Nat
    BY <2>3, FS_CardinalityType
  <2>5. Cardinality(Sooners(i)) # l
    BY <2>2, <2>3
  <2> HIDE DEF Sooners
  <2> QED BY <2>1, <2>3, <2>4, <2>5
<1>3. ASSUME NEW i \in 1 .. l, NEW j \in 1 .. l, Sooner(kept, i, j)
      PROVE  Ahead(kept, i) < Ahead(kept, j)
  <2>1. \A k \in 1 .. l : Sooner(kept, k, i) => Sooner(kept, k, j)
    BY <1>3, SoonerOrders
  <2>2. ~ Sooner(kept, i, i)
    BY SoonerOrders
  <2>3. Sooners(i) \subseteq Sooners(j) /\ i \in Sooners(j) /\ i \notin Sooners(i)
    BY <1>3, <2>1, <2>2
  <2>4. Cardinality(Sooners(i)) <= Cardinality(Sooners(j))
        /\ (Cardinality(Sooners(j)) = Cardinality(Sooners(i)) => Sooners(j) = Sooners(i))
    <3>1. IsFiniteSet(Sooners(j))
      BY <1>2
    <3> HIDE DEF Sooners
    <3> QED BY <2>3, <3>1, FS_Subset
  <2>5. Cardinality(Sooners(i)) \in Nat /\ Cardinality(Sooners(j)) \in Nat
    BY <1>2, FS_CardinalityType
  <2>6. Ahead(kept, i) = Cardinality(Sooners(i)) /\ Ahead(kept, j) = Cardinality(Sooners(j))
    BY <1>2
  <2> HIDE DEF Sooners
  <2> QED BY <2>3, <2>4, <2>5, <2>6
<1> HIDE DEF Sooners
<1>4. ASSUME NEW i \in 1 .. l, NEW j \in 1 .. l, Ahead(kept, i) = Ahead(kept, j) PROVE i = j
  <2> SUFFICES ASSUME i # j PROVE FALSE
    OBVIOUS
  <2>1. Sooner(kept, i, j) \/ Sooner(kept, j, i)
    BY SoonerOrders
  <2>2. Ahead(kept, i) < Ahead(kept, j) \/ Ahead(kept, j) < Ahead(kept, i)
    BY <1>3, <2>1
  <2>3. Ahead(kept, i) \in Nat /\ Ahead(kept, j) \in Nat
    BY <1>2
  <2> QED BY <1>4, <2>2, <2>3
<1>5. ASSUME NEW n \in 1 .. l PROVE \E i \in 1 .. l : Ahead(kept, i) = n - 1
  <2>1. PICK f : f = [i \in 1 .. l |-> Ahead(kept, i)]
    OBVIOUS
  <2>2. f \in [1 .. l -> 0 .. (l - 1)]
    BY <1>2, <2>1
  <2>3. \A i, j \in 1 .. l : f[i] = f[j] => i = j
    BY <1>4, <2>1
  <2>4. f \in Injection(1 .. l, 0 .. (l - 1))
    BY <2>2, <2>3 DEF Injection, IsInjective
  <2>5. IsFiniteSet(0 .. (l - 1)) /\ Cardinality(0 .. (l - 1)) = l
    <3>1. l - 1 \in Int /\ 0 \in Int
      OBVIOUS
    <3>2. IsFiniteSet(0 .. (l - 1)) /\ Cardinality(0 .. (l - 1)) = IF 0 > l - 1 THEN 0 ELSE l - 1 - 0 + 1
      BY <3>1, FS_Interval
    <3> QED BY <3>2
  <2>6. f \in Surjection(1 .. l, 0 .. (l - 1))
    BY <1>1, <2>4, <2>5, FS_Injection
  <2>7. n - 1 \in 0 .. (l - 1)
    OBVIOUS
  <2>8. \E i \in 1 .. l : f[i] = n - 1
    BY <2>6, <2>7 DEF Surjection
  <2> QED BY <2>1, <2>8
<1>6. \A i \in 1 .. l : Ahead(kept, i) \in 0 .. (l - 1)
  BY <1>2
<1> QED BY <1>3, <1>4, <1>5, <1>6

\* The first passages of the files come first.
FirstsFirst(ds) ==
    \A i, j \in DOMAIN ds :
        (\E k \in 1 .. (i - 1) : ds[k].file = ds[i].file)
          /\ ~ (\E k \in 1 .. (j - 1) : ds[k].file = ds[j].file) => j < i

LEMMA DiversifiedIs ==
    ASSUME NEW docs \in Seq(Document)
    PROVE  Diversified(docs) \in Seq(Passage) /\ FirstsFirst(Diversified(docs))
<1>1. PICK kept \in Seq(Passage) : kept = Distinct(docs)
  BY DistinctIs
<1>2. PICK l \in Nat : l = Len(kept) /\ DOMAIN kept = 1 .. l
  OBVIOUS
<1>3. PICK place : place = [n \in 1 .. l |-> CHOOSE i \in 1 .. l : Ahead(kept, i) = n - 1]
  OBVIOUS
<1>4. ASSUME NEW n \in 1 .. l PROVE place[n] \in 1 .. l /\ Ahead(kept, place[n]) = n - 1
  <2>1. \E i \in 1 .. l : Ahead(kept, i) = n - 1
    BY <1>2, AheadIs
  <2> QED BY <1>3, <2>1
<1>5. PICK ds : ds = [n \in 1 .. l |-> kept[place[n]]]
  OBVIOUS
<1>6. ds = Diversified(docs)
  BY <1>1, <1>2, <1>3, <1>5 DEF Diversified
<1>7. ds \in Seq(Passage)
  <2>1. \A n \in 1 .. l : kept[place[n]] \in Passage
    BY <1>2, <1>4
  <2> QED BY <1>5, <2>1
<1>8. \A i, j \in 1 .. l : Sooner(kept, i, j) => Ahead(kept, i) < Ahead(kept, j)
  BY <1>2, AheadIs
<1>9. ASSUME NEW i \in 1 .. l, NEW j \in 1 .. l,
             \E k \in 1 .. (i - 1) : ds[k].file = ds[i].file,
             ~ (\E k \in 1 .. (j - 1) : ds[k].file = ds[j].file)
      PROVE  j < i
  <2>1. PICK k \in 1 .. (i - 1) : ds[k].file = ds[i].file
    BY <1>9
  <2>2. k \in 1 .. l /\ k < i
    OBVIOUS
  <2>3. PICK pi \in 1 .. l, pj \in 1 .. l, pk \in 1 .. l :
          /\ pi = place[i] /\ pj = place[j] /\ pk = place[k]
          /\ Ahead(kept, pi) = i - 1 /\ Ahead(kept, pj) = j - 1 /\ Ahead(kept, pk) = k - 1
    BY <1>4, <2>2
  <2>4. PICK ri \in Nat, rj \in Nat, rk \in Nat :
          ri = Round(kept, pi) /\ rj = Round(kept, pj) /\ rk = Round(kept, pk)
    BY RoundIs
  <2>5. rk < ri
    <3>1. kept[pk].file = kept[pi].file
      BY <1>5, <2>1, <2>2, <2>3
    <3>2. pk # pi
      BY <2>2, <2>3
    <3>3. CASE pk < pi
      BY <2>4, <3>1, <3>3, RoundsGrow
    <3>4. CASE pi < pk
      <4>1. ri < rk
        BY <2>4, <3>1, <3>4, RoundsGrow
      <4>2. Sooner(kept, pi, pk)
        BY <2>4, <4>1 DEF Sooner
      <4>3. Ahead(kept, pi) < Ahead(kept, pk)
        BY <1>8, <4>2
      <4> QED BY <2>2, <2>3, <4>3
    <3> QED BY <3>2, <3>3, <3>4
  <2>6. rj = 1
    <3>1. PICK f : f = Min(Mates(kept, pj))
      OBVIOUS
    <3>2. f \in 1 .. pj /\ kept[f].file = kept[pj].file /\ (f = pj => Round(kept, pj) = 1)
      BY <3>1, RoundIs
    <3> SUFFICES ASSUME f # pj PROVE FALSE
      BY <2>4, <3>2
    <3>3. f \in 1 .. l /\ f < pj
      BY <3>2
    <3>4. Round(kept, f) < Round(kept, pj)
      BY <3>2, <3>3, RoundsGrow
    <3>5. Sooner(kept, f, pj)
      BY <3>4 DEF Sooner
    <3>6. Ahead(kept, f) < Ahead(kept, pj) /\ Ahead(kept, f) \in 0 .. (l - 1)
      BY <1>2, <1>8, <3>3, <3>5, AheadIs
    <3>7. PICK n \in 1 .. l : n = Ahead(kept, f) + 1
      BY <3>6
    <3>8. n < j /\ n \in 1 .. (j - 1)
      BY <2>3, <3>6, <3>7, SMTT(20)
    <3>9. Ahead(kept, place[n]) = Ahead(kept, f) /\ place[n] \in 1 .. l
      BY <1>4, <3>6, <3>7
    <3>10. place[n] = f
      BY <1>2, <3>3, <3>9, AheadIs
    <3>11. ds[n].file = ds[j].file
      BY <1>5, <2>3, <3>2, <3>10
    <3> QED BY <1>9, <3>8, <3>11
  <2>7. rk # 0
    <3>1. pk \in Mates(kept, pk)
      BY DEF Mates
    <3>2. IsFiniteSet(Mates(kept, pk))
      BY RoundIs
    <3> QED BY <2>4, <3>1, <3>2, FS_EmptySet DEF Round
  <2>8. rj < ri
    BY <2>5, <2>6, <2>7
  <2>9. Sooner(kept, pj, pi)
    BY <2>4, <2>8 DEF Sooner
  <2>10. Ahead(kept, pj) < Ahead(kept, pi)
    BY <1>8, <2>9
  <2> QED BY <2>3, <2>10
<1>10. FirstsFirst(ds)
  <2>1. DOMAIN ds = 1 .. l
    BY <1>5
  <2> QED BY <1>9, <2>1 DEF FirstsFirst
<1> QED BY <1>6, <1>7, <1>10

-----------------------------------------------------------------------------
(* The sources, by the numbers of the prompt.                                 *)

\* f follows the recursion of Without up to m.
Filters(s, gone, m, f) ==
    f = [n \in 0 .. m |-> IF n = 0 THEN <<>>
                          ELSE IF n \in gone THEN f[n - 1] ELSE Append(f[n - 1], s[n])]

LEMMA FiltersThere ==
    ASSUME NEW s, NEW gone, NEW m \in Nat
    PROVE  \E f : Filters(s, gone, m, f)
<1> DEFINE T == {n \in Nat : \E f : Filters(s, gone, n, f)}
<1>1. 0 \in T
  <2>1. Filters(s, gone, 0, [n \in 0 .. 0 |-> <<>>])
    BY DEF Filters
  <2> QED BY <2>1
<1>2. ASSUME NEW n \in Nat, n \in T PROVE n + 1 \in T
  <2>1. PICK k : Filters(s, gone, n, k)
    BY <1>2
  <2> DEFINE Next1(i, q) == IF i \in gone THEN q ELSE Append(q, s[i])
  <2>2. PICK h : h = [i \in 0 .. (n + 1) |-> IF i = n + 1 THEN Next1(n + 1, k[n]) ELSE k[i]]
    OBVIOUS
  <2>3. \A i \in 0 .. (n + 1) : i # n + 1 => i \in 0 .. n
    OBVIOUS
  <2>4. \A i \in 0 .. n : k[i] = IF i = 0 THEN <<>> ELSE Next1(i, k[i - 1])
    BY <2>1 DEF Filters
  <2>5. ASSUME NEW i \in 0 .. (n + 1)
        PROVE  h[i] = IF i = 0 THEN <<>> ELSE Next1(i, h[i - 1])
    <3> HIDE DEF Next1
    <3>1. CASE i = n + 1
      <4>1. i # 0 /\ i - 1 = n /\ n \in 0 .. (n + 1) /\ n # n + 1
        BY <3>1
      <4>2. h[i] = Next1(i, k[n]) /\ h[i - 1] = k[n]
        BY <2>2, <3>1, <4>1
      <4> QED BY <4>1, <4>2
    <3>2. CASE i # n + 1
      <4>1. i \in 0 .. n /\ h[i] = k[i]
        BY <2>2, <2>3, <3>2
      <4>2. ASSUME i # 0 PROVE h[i - 1] = k[i - 1]
        <5>1. i - 1 \in 0 .. (n + 1) /\ i - 1 # n + 1
          BY <4>1, <4>2
        <5> QED BY <2>2, <5>1
      <4> QED BY <2>4, <4>1, <4>2
    <3> QED BY <3>1, <3>2
  <2>6. Filters(s, gone, n + 1, h)
    BY <2>2, <2>5 DEF Filters
  <2> QED BY <2>6
<1>3. m \in T
  <2> HIDE DEF T
  <2> QED BY <1>1, <1>2, EveryNumber
<1> QED BY <1>3

\* What is left of the first m places, and how many they are.
Left(gone, m) == {j \in 1 .. m : j \notin gone}
LeftCount(gone, m) == Cardinality(Left(gone, m))

LEMMA LeftGrows ==
    ASSUME NEW gone, NEW m \in Nat
    PROVE  /\ IsFiniteSet(Left(gone, m)) /\ LeftCount(gone, m) \in Nat
           /\ LeftCount(gone, 0) = 0
           /\ m + 1 \in gone => Left(gone, m + 1) = Left(gone, m)
           /\ m + 1 \notin gone => Left(gone, m + 1) = Left(gone, m) \cup {m + 1}
                                   /\ LeftCount(gone, m + 1) = LeftCount(gone, m) + 1
<1>1. IsFiniteSet(1 .. m) /\ Left(gone, m) \subseteq 1 .. m
  BY FS_Interval DEF Left
<1>2. IsFiniteSet(Left(gone, m))
  BY <1>1, FS_Subset
<1>3. LeftCount(gone, m) \in Nat
  BY <1>2, FS_CardinalityType DEF LeftCount
<1>4. Left(gone, 0) = {}
  BY DEF Left
<1>5. LeftCount(gone, 0) = 0
  BY <1>4, FS_EmptySet DEF LeftCount
<1>6. \A j : j \in 1 .. (m + 1) <=> j \in 1 .. m \/ j = m + 1
  OBVIOUS
<1>7. m + 1 \in gone => Left(gone, m + 1) = Left(gone, m)
  BY <1>6 DEF Left
<1>8. m + 1 \notin gone => Left(gone, m + 1) = Left(gone, m) \cup {m + 1}
  BY <1>6 DEF Left
<1>9. m + 1 \notin Left(gone, m)
  BY <1>1
<1>10. m + 1 \notin gone => LeftCount(gone, m + 1) = LeftCount(gone, m) + 1
  BY <1>2, <1>8, <1>9, FS_AddElement DEF LeftCount
<1> QED BY <1>2, <1>3, <1>5, <1>7, <1>8, <1>10

\* r has what is left of the first m of s, each at its number.
Numbered(s, gone, m, r, T) ==
    /\ r \in Seq(T) /\ Len(r) = LeftCount(gone, m)
    /\ \A i \in Left(gone, m) : LeftCount(gone, i) \in 1 .. Len(r) /\ r[LeftCount(gone, i)] = s[i]
    /\ \A k \in 1 .. Len(r) : \E i \in Left(gone, m) : LeftCount(gone, i) = k

LEMMA NumberedStep ==
    ASSUME NEW T, NEW s \in Seq(T), NEW gone, NEW m \in Nat, m + 1 \in DOMAIN s, NEW r,
           Numbered(s, gone, m, r, T)
    PROVE  /\ m + 1 \in gone => Numbered(s, gone, m + 1, r, T)
           /\ m + 1 \notin gone => Numbered(s, gone, m + 1, Append(r, s[m + 1]), T)
<1>1. ASSUME m + 1 \in gone PROVE Numbered(s, gone, m + 1, r, T)
  <2>1. Left(gone, m + 1) = Left(gone, m)
    BY <1>1, LeftGrows
  <2> QED BY <2>1 DEF Numbered, LeftCount
<1>2. ASSUME m + 1 \notin gone PROVE Numbered(s, gone, m + 1, Append(r, s[m + 1]), T)
  <2>1. PICK x \in T : x = s[m + 1]
    OBVIOUS
  <2>2. PICK c \in Nat : c = LeftCount(gone, m)
    BY LeftGrows
  <2>3. Left(gone, m + 1) = Left(gone, m) \cup {m + 1} /\ LeftCount(gone, m + 1) = c + 1
    BY <1>2, <2>2, LeftGrows
  <2>4. r \in Seq(T) /\ Len(r) = c
    BY <2>2 DEF Numbered
  <2>5. PICK q : q = Append(r, x)
    OBVIOUS
  <2>6. q \in Seq(T) /\ Len(q) = c + 1 /\ q[c + 1] = x /\ \A k \in 1 .. c : q[k] = r[k]
    BY <2>4, <2>5
  <2>7. ASSUME NEW i \in Left(gone, m + 1)
        PROVE  LeftCount(gone, i) \in 1 .. Len(q) /\ q[LeftCount(gone, i)] = s[i]
    <3>1. CASE i \in Left(gone, m)
      <4>1. LeftCount(gone, i) \in 1 .. c /\ r[LeftCount(gone, i)] = s[i]
        BY <2>4, <3>1 DEF Numbered
      <4> QED BY <2>6, <4>1
    <3>2. CASE i = m + 1
      BY <2>1, <2>3, <2>6, <3>2
    <3> QED BY <2>3, <3>1, <3>2
  <2>8. ASSUME NEW k \in 1 .. Len(q) PROVE \E i \in Left(gone, m + 1) : LeftCount(gone, i) = k
    <3>1. CASE k = c + 1
      BY <2>3, <3>1
    <3>2. CASE k \in 1 .. c
      <4>1. \E i \in Left(gone, m) : LeftCount(gone, i) = k
        BY <2>4, <3>2 DEF Numbered
      <4> QED BY <2>3, <4>1
    <3> QED BY <2>6, <3>1, <3>2
  <2>9. Numbered(s, gone, m + 1, q, T)
    BY <2>3, <2>6, <2>7, <2>8 DEF Numbered
  <2> QED BY <2>1, <2>5, <2>9
<1> QED BY <1>1, <1>2

LEMMA WithoutNumbers ==
    ASSUME NEW T, NEW s \in Seq(T), NEW gone
    PROVE  Numbered(s, gone, Len(s), Without(s, gone), T)
<1>1. PICK l \in Nat : l = Len(s) /\ DOMAIN s = 1 .. l
  OBVIOUS
<1>2. PICK f : f = CHOOSE g : Filters(s, gone, l, g)
  OBVIOUS
<1>3. Filters(s, gone, l, f)
  BY <1>2, FiltersThere
<1>4. Without(s, gone) = f[l]
  BY <1>1, <1>2 DEF Without, Filters
<1> DEFINE U == {n \in Nat : n <= l => Numbered(s, gone, n, f[n], T)}
<1>5. 0 \in U
  <2>1. f[0] = <<>>
    BY <1>3 DEF Filters
  <2>2. Left(gone, 0) = {} /\ LeftCount(gone, 0) = 0
    <3>1. Left(gone, 0) = {}
      BY DEF Left
    <3> QED BY <3>1, FS_EmptySet DEF LeftCount
  <2>3. PICK r : r = f[0]
    OBVIOUS
  <2>4. r \in Seq(T) /\ Len(r) = 0 /\ \A k \in 1 .. Len(r) : FALSE
    BY <2>1, <2>3
  <2>5. Numbered(s, gone, 0, r, T)
    BY <2>2, <2>4 DEF Numbered
  <2> QED BY <2>3, <2>5
<1>6. ASSUME NEW n \in Nat, n \in U PROVE n + 1 \in U
  <2> SUFFICES ASSUME n + 1 <= l PROVE Numbered(s, gone, n + 1, f[n + 1], T)
    OBVIOUS
  <2>1. n + 1 \in 0 .. l /\ n + 1 # 0 /\ (n + 1) - 1 = n /\ n <= l /\ n + 1 \in DOMAIN s
    BY <1>1
  <2>2. Numbered(s, gone, n, f[n], T)
    BY <1>6, <2>1
  <2>3. f[n + 1] = IF n + 1 \in gone THEN f[n] ELSE Append(f[n], s[n + 1])
    BY <1>3, <2>1 DEF Filters
  <2> QED BY <2>1, <2>2, <2>3, NumberedStep
<1>7. l \in U
  <2> HIDE DEF U
  <2> QED BY <1>5, <1>6, EveryNumber
<1> QED BY <1>1, <1>4, <1>7

\* The sources of a context: a number is of the passage that the prompt shows
\* under it.
SourcesRight(context, sources) ==
    /\ \E T : sources \in Seq(T)
    /\ \A n \in DOMAIN sources :
         {e.document : e \in {f \in Range(context) : f.label = n /\ ~Inventory(f.document)}}
           = {sources[n].document}

LEMMA SourcesAre ==
    ASSUME NEW ds, NEW b, NEW context, ContextIs(ds, b, context), Len(ds) \in Nat
    PROVE  SourcesRight(context, SourcesOf(context))
<1>1. PICK l \in Nat : l = Len(context) /\ DOMAIN context = 1 .. l
  <2>1. Len(context) \in 0 .. Len(ds) /\ DOMAIN context = 1 .. Len(context)
    BY DEF ContextIs
  <2>2. Len(context) \in Nat
    BY <2>1
  <2> QED BY <2>1, <2>2
<1>2. PICK T : context \in Seq(T)
  BY DEF ContextIs
<1>3. PICK gone : gone = {i \in DOMAIN context : Inventory(context[i].document)}
  OBVIOUS
<1>4. PICK sources : sources = SourcesOf(context)
  OBVIOUS
<1>5. Numbered(context, gone, l, sources, T)
  BY <1>1, <1>2, <1>3, <1>4, WithoutNumbers DEF SourcesOf
<1>6. ASSUME NEW i \in Left(gone, l)
      PROVE  /\ i \in 1 .. l /\ ~Inventory(context[i].document)
             /\ context[i].label = LeftCount(gone, i)
             /\ LeftCount(gone, i) \in DOMAIN sources /\ sources[LeftCount(gone, i)] = context[i]
  <2>1. i \in 1 .. l /\ ~Inventory(context[i].document)
    BY <1>1, <1>3 DEF Left
  <2>2. context[i].label = Cardinality({j \in 1 .. i :
                             Inventory(context[j].document) = Inventory(context[i].document)})
    BY <1>1, <2>1 DEF ContextIs
  <2>3. \A j \in 1 .. i : j \in 1 .. l
    BY <2>1
  <2>4. \A j \in 1 .. i : (Inventory(context[j].document) = Inventory(context[i].document)) <=> j \notin gone
    BY <1>1, <1>3, <2>1, <2>3 DEF Inventory
  <2>5. {j \in 1 .. i : Inventory(context[j].document) = Inventory(context[i].document)} = Left(gone, i)
    BY <2>4 DEF Left
  <2>6. sources \in Seq(T) /\ LeftCount(gone, i) \in 1 .. Len(sources)
        /\ sources[LeftCount(gone, i)] = context[i]
    BY <1>5 DEF Numbered
  <2>7. LeftCount(gone, i) \in DOMAIN sources
    BY <2>6
  <2>8. context[i].label = LeftCount(gone, i)
    BY <2>2, <2>5 DEF LeftCount
  <2> QED BY <2>1, <2>6, <2>7, <2>8
<1>7. ASSUME NEW n \in DOMAIN sources
      PROVE  {e.document : e \in {f \in Range(context) : f.label = n /\ ~Inventory(f.document)}}
               = {sources[n].document}
  <2>1. sources \in Seq(T) /\ n \in 1 .. Len(sources)
    BY <1>5 DEF Numbered
  <2>2. PICK i \in Left(gone, l) : LeftCount(gone, i) = n
    BY <1>5, <2>1 DEF Numbered
  <2>3. sources[n] = context[i] /\ context[i].label = n /\ ~Inventory(context[i].document) /\ i \in DOMAIN context
    BY <1>1, <1>6, <2>2
  <2>4. ASSUME NEW f \in Range(context), f.label = n, ~Inventory(f.document)
        PROVE  f = sources[n]
    <3>1. PICK j \in 1 .. l : f = context[j]
      BY <1>1 DEF Range
    <3>2. j \in Left(gone, l)
      BY <1>1, <1>3, <2>4, <3>1 DEF Left
    <3> QED BY <1>6, <2>4, <3>1, <3>2
  <2>5. sources[n] \in Range(context)
    BY <2>3 DEF Range
  <2>6. {f \in Range(context) : f.label = n /\ ~Inventory(f.document)} = {sources[n]}
    BY <2>3, <2>4, <2>5
  <2> QED BY <2>6
<1>8. sources \in Seq(T)
  BY <1>5 DEF Numbered
<1> QED BY <1>4, <1>7, <1>8 DEF SourcesRight

-----------------------------------------------------------------------------
(* The checks of an answer.                                                   *)

\* A claim that the program can meet.
ClaimIs(c) == IsFiniteSet(c.cites) /\ c.cautious \in BOOLEAN

LEMMA CitationsFinite ==
    ASSUME NEW claims, IsFiniteSet(claims), \A c \in claims : ClaimIs(c)
    PROVE  IsFiniteSet(Citations(claims))
<1>1. PICK f : f = [c \in claims |-> {<<c, n>> : n \in c.cites}]
  OBVIOUS
<1>2. PICK S : S = {f[c] : c \in claims}
  OBVIOUS
<1>3. IsFiniteSet(S)
  <2>1. f \in Surjection(claims, S)
    BY <1>1, <1>2 DEF Surjection
  <2> QED BY <2>1, FS_Surjection
<1>4. ASSUME NEW U \in S PROVE IsFiniteSet(U)
  <2>1. PICK c \in claims : U = {<<c, n>> : n \in c.cites}
    BY <1>1, <1>2
  <2>2. PICK g : g = [n \in c.cites |-> <<c, n>>]
    OBVIOUS
  <2>3. g \in Surjection(c.cites, U)
    BY <2>1, <2>2 DEF Surjection
  <2>4. IsFiniteSet(c.cites)
    BY DEF ClaimIs
  <2> QED BY <2>3, <2>4, FS_Surjection
<1>5. IsFiniteSet(UNION S)
  BY <1>3, <1>4, FS_UNION
<1>6. UNION S = Citations(claims)
  <2>1. S = {{<<c, n>> : n \in c.cites} : c \in claims}
    BY <1>1, <1>2
  <2> QED BY <2>1 DEF Citations
<1> QED BY <1>5, <1>6

\* A citation is of a claim and a number that it cites.
LEMMA CitationIs ==
    ASSUME NEW claims
    PROVE  /\ \A x \in Citations(claims) : x[1] \in claims /\ x[2] \in x[1].cites
           /\ \A c \in claims : \A n \in c.cites :
                \E x \in Citations(claims) : x[1] = c /\ x[2] = n
<1>1. ASSUME NEW x \in Citations(claims) PROVE x[1] \in claims /\ x[2] \in x[1].cites
  <2>1. PICK c \in claims : \E n \in c.cites : x = <<c, n>>
    BY DEF Citations
  <2>2. PICK n \in c.cites : x = <<c, n>>
    BY <2>1
  <2> QED BY <2>2
<1>2. ASSUME NEW c \in claims, NEW n \in c.cites
      PROVE  \E x \in Citations(claims) : x[1] = c /\ x[2] = n
  <2>1. <<c, n>> \in Citations(claims)
    BY DEF Citations
  <2> QED BY <2>1
<1> QED BY <1>1, <1>2

\* What is saved survived the check.
LEMMA SavedIsKept ==
    ASSUME NEW sources, NEW claims, NEW quality, NEW insufficient
    PROVE  VerifiedSources(sources, claims, quality, insufficient) \subseteq Kept(sources, claims)
BY DEF VerifiedSources

\* What is saved with a cited answer supports a claim of it that cites it, or
\* that cites nothing.
LEMMA SavedSupports ==
    ASSUME NEW T, NEW sources \in Seq(T), NEW claims, Citations(claims) # {},
           NEW n \in Kept(sources, claims)
    PROVE  \E c \in claims : Supports(sources[n], c) /\ (c.cites = {} \/ n \in c.cites)
<1>1. CASE n \in {x[2] : x \in GoodCitations(sources, claims)}
  <2>1. PICK x \in GoodCitations(sources, claims) : n = x[2]
    BY <1>1
  <2>2. x \in Citations(claims) /\ Supported(sources, x[2], x[1])
    BY DEF GoodCitations
  <2>3. x[1] \in claims /\ x[2] \in x[1].cites
    BY <2>2, CitationIs
  <2> QED BY <2>1, <2>2, <2>3 DEF Supported
<1>2. CASE n \in Attributed(sources, claims)
  <2>1. PICK c \in claims : c.cites = {} /\ Supporting(sources, c) # {} /\ n = Min(Supporting(sources, c))
    BY <1>2 DEF Attributed
  <2>2. Supporting(sources, c) \subseteq Nat
    BY DEF Supporting
  <2>3. n \in Supporting(sources, c)
    BY <2>1, <2>2, LeastNumber
  <2> QED BY <2>1, <2>3 DEF Supporting
<1> QED BY <1>1, <1>2 DEF Kept

\* An answer whose citations all hold is saved with all of them.
LEMMA AllHeldAllSaved ==
    ASSUME NEW T, NEW sources \in Seq(T), NEW claims, Citations(claims) # {},
           IsFiniteSet(Citations(claims)), GoodCitations(sources, claims) = Citations(claims),
           NEW quality, quality # "unsupported", NEW insufficient
    PROVE  UNION {c.cites : c \in claims} \subseteq VerifiedSources(sources, claims, quality, insufficient)
<1>1. PICK x \in Citations(claims) : TRUE
  OBVIOUS
<1>2. x[2] \in DOMAIN sources
  BY DEF GoodCitations, Supported
<1>3. sources # <<>>
  BY <1>2
<1>4. \A y \in Citations(claims) : y[2] \in Kept(sources, claims)
  BY DEF Kept
<1>5. Kept(sources, claims) # {}
  BY <1>4
<1>6. Status(sources, claims, quality, insufficient) \in {"partial", "supported"}
  <2>1. CASE Cautious(claims) /\ insufficient
    BY <1>3, <2>1 DEF Status
  <2>2. CASE ~ (Cautious(claims) /\ insufficient)
    <3>1. Status(sources, claims, quality, insufficient) =
            IF Kept(sources, claims) = {} \/ quality = "unsupported"
                 \/ ~(Cardinality(Citations(claims)) = 0 => Score(sources, claims) >= 18)
            THEN "unsupported" ELSE IF (IF Cardinality(Citations(claims)) = 0 THEN Score(sources, claims) >= 32
                     ELSE 10 * Cardinality(GoodCitations(sources, claims))
                            >= 8 * Cardinality(Citations(claims))) /\ quality = "strong"
                 THEN "supported" ELSE "partial"
      BY <1>3, <2>2 DEF Status
    <3>2. Cardinality(Citations(claims)) # 0
      BY FS_EmptySet
    <3> QED BY <1>5, <3>1, <3>2
  <2> QED BY <2>1, <2>2
<1>7. VerifiedSources(sources, claims, quality, insufficient) = Kept(sources, claims)
  BY <1>6 DEF VerifiedSources
<1>8. ASSUME NEW c \in claims, NEW n \in c.cites PROVE n \in Kept(sources, claims)
  BY <1>4, CitationIs
<1> QED BY <1>7, <1>8

-----------------------------------------------------------------------------
(* The steps.                                                                 *)

NoClaim == [cites |-> {}, says |-> "nothing", against |-> "none", exact |-> TRUE, deep |-> FALSE,
            cautious |-> TRUE]

\* Once prepared, the context is the packing of what was found, and only then
\* is there an answer.
GroundedInv ==
    /\ found \in Seq(Document) /\ Len(found) <= MaxFound
    /\ prepared = NotPrepared => answer = {}
    /\ prepared # NotPrepared =>
         \E b \in Budget, q \in Quality, w \in BOOLEAN :
            prepared = [budget |-> b, context |-> Packed(found, b), quality |-> q, insufficient |-> w]
    /\ IsFiniteSet(answer) /\ \A c \in answer : ClaimIs(c)

LEMMA GroundedStarts == GroundedInit => GroundedInv
<1> SUFFICES ASSUME GroundedInit PROVE GroundedInv
  OBVIOUS
<1>1. found = <<>> /\ prepared = NotPrepared /\ answer = {}
  BY DEF GroundedInit
<1>2. found \in Seq(Document) /\ Len(found) <= MaxFound
  BY <1>1, GroundedAssumption
<1> QED BY <1>1, <1>2, FS_EmptySet DEF GroundedInv

LEMMA GroundedGoesOn == GroundedInv /\ [GroundedNext]_groundedVars => GroundedInv'
<1> SUFFICES ASSUME GroundedInv, [GroundedNext]_groundedVars PROVE GroundedInv'
  OBVIOUS
<1>1. ASSUME NEW d \in Document, Find(d) PROVE GroundedInv'
  <2>1. prepared = NotPrepared /\ Len(found) < MaxFound /\ found' = Append(found, d)
        /\ prepared' = prepared /\ answer' = answer
    BY <1>1 DEF Find
  <2>2. found \in Seq(Document) /\ MaxFound \in Nat
    BY GroundedAssumption DEF GroundedInv
  <2>3. found' \in Seq(Document) /\ Len(found') <= MaxFound
    BY <2>1, <2>2
  <2>4. answer = {}
    BY <2>1 DEF GroundedInv
  <2> QED BY <2>1, <2>3, <2>4, FS_EmptySet DEF GroundedInv
<1>2. ASSUME NEW b \in Budget, NEW q \in Quality, NEW weak \in BOOLEAN, PrepareAnswer(b, q, weak)
      PROVE  GroundedInv'
  <2>1. prepared = NotPrepared /\ found' = found /\ answer' = answer
    BY <1>2 DEF PrepareAnswer
  <2>2. PICK w \in BOOLEAN : w = (weak \/ SourcesOf(Packed(found, b)) = <<>>)
    OBVIOUS
  <2>3. prepared' = [budget |-> b, context |-> Packed(found, b), quality |-> q, insufficient |-> w]
    BY <1>2, <2>2 DEF PrepareAnswer
  <2> QED BY <2>1, <2>3 DEF GroundedInv
<1>3. ASSUME AnswerInsufficient PROVE GroundedInv'
  <2>1. prepared # NotPrepared /\ answer' = {NoClaim} /\ found' = found /\ prepared' = prepared
    BY <1>3 DEF AnswerInsufficient, NoClaim
  <2>2. IsFiniteSet({NoClaim})
    BY FS_Singleton
  <2>3. ClaimIs(NoClaim)
    BY FS_EmptySet DEF ClaimIs, NoClaim
  <2> QED BY <2>1, <2>2, <2>3 DEF GroundedInv
<1>4. ASSUME NEW c \in Claim, Say(c) PROVE GroundedInv'
  <2>1. prepared # NotPrepared /\ answer' = answer \cup {c} /\ found' = found /\ prepared' = prepared
    BY <1>4 DEF Say
  <2>2. IsFiniteSet(answer \cup {c})
    BY FS_AddElement DEF GroundedInv
  <2>3. ClaimIs(c)
    BY GroundedAssumption DEF ClaimIs
  <2> QED BY <2>1, <2>2, <2>3 DEF GroundedInv
<1>5. CASE UNCHANGED groundedVars
  BY <1>5 DEF GroundedInv, groundedVars
<1> QED BY <1>1, <1>2, <1>3, <1>4, <1>5 DEF GroundedNext

\* What the invariant says of a context.
LEMMA ContextRight ==
    ASSUME GroundedInv, prepared # NotPrepared
    PROVE  /\ prepared.budget \in Budget /\ prepared.budget \in Nat
           /\ prepared.quality \in Quality /\ prepared.insufficient \in BOOLEAN
           /\ Diversified(found) \in Seq(Passage) /\ FirstsFirst(Diversified(found))
           /\ ContextIs(Diversified(found), prepared.budget, prepared.context)
<1>1. PICK b \in Budget, q \in Quality, w \in BOOLEAN :
        prepared = [budget |-> b, context |-> Packed(found, b), quality |-> q, insufficient |-> w]
  BY DEF GroundedInv
<1>2. PICK context : context = Packed(found, b)
  OBVIOUS
<1>3. prepared.budget = b /\ prepared.context = context /\ prepared.quality = q /\ prepared.insufficient = w
  BY <1>1, <1>2
<1>4. found \in Seq(Document)
  BY DEF GroundedInv
<1>5. PICK ds : ds = Diversified(found)
  OBVIOUS
<1>6. ds \in Seq(Passage) /\ FirstsFirst(ds)
  BY <1>4, <1>5, DiversifiedIs
<1>7. b \in Nat
  BY GroundedAssumption
<1>8. ContextIs(ds, b, context)
  BY <1>2, <1>5, <1>6, <1>7, PackedIs
<1> QED BY <1>3, <1>5, <1>6, <1>7, <1>8

LEMMA ContextsFitNow == GroundedInv => ContextFits
<1> SUFFICES ASSUME GroundedInv PROVE ContextFits
  OBVIOUS
<1> DEFINE ds == Diversified(found)
           b == prepared.budget
<1>1. ASSUME prepared # NotPrepared
      PROVE  /\ b \in Budget /\ prepared.quality \in Quality /\ prepared.insufficient \in BOOLEAN
             /\ ds \in Seq(Passage) /\ FirstsFirst(ds) /\ ContextIs(ds, b, Context) /\ b \in Nat
  BY <1>1, ContextRight DEF Context
<1>2. GroundedTypeOK
  <2>1. Range(found) \subseteq Document /\ Len(found) <= MaxFound
    BY DEF GroundedInv, Range
  <2>2. \A c \in answer : c.cautious \in BOOLEAN
    BY DEF GroundedInv, ClaimIs
  <2>3. ASSUME prepared # NotPrepared
        PROVE  {e.document : e \in Range(prepared.context)} \subseteq Document
    <3> SUFFICES ASSUME NEW e \in Range(Context) PROVE e.document \in Document
      BY DEF Context
    <3> HIDE DEF ds, b
    <3>1. PICK i \in DOMAIN Context : e = Context[i]
      BY DEF Range
    <3>2. Len(Context) \in 0 .. Len(ds) /\ DOMAIN Context = 1 .. Len(Context)
          /\ Context[i].document = ds[i]
      BY <1>1, <2>3, <3>1 DEF ContextIs
    <3>3. i \in DOMAIN ds /\ ds \in Seq(Passage)
      BY <1>1, <2>3, <3>2
    <3>4. ds[i] \in Passage
      BY <3>3
    <3> QED BY <3>1, <3>2, <3>4 DEF Passage
  <2> QED BY <1>1, <2>1, <2>2, <2>3 DEF GroundedTypeOK
<1>3. ASSUME prepared # NotPrepared
      PROVE  LET whole == SumTo([i \in DOMAIN ds |-> ds[i].head + ds[i].body], Len(ds)) + Separators(Len(ds))
                 Later(i) == \E k \in 1 .. (i - 1) : ds[k].file = ds[i].file
             IN /\ Tokens(Context) > b => Len(Context) = 1 /\ Context[1].tokens = Minimum(Context[1].document)
                /\ whole <= b => Len(Context) = Len(ds) /\ \A i \in DOMAIN ds : Context[i].tokens = ds[i].body
                /\ \A i \in DOMAIN ds, j \in DOMAIN ds : Later(i) /\ ~Later(j) => j < i
  <2> HIDE DEF ds, b
  <2>1. ds \in Seq(Passage) /\ FirstsFirst(ds) /\ ContextIs(ds, b, Context) /\ b \in Nat
    BY <1>1, <1>3
  <2>2. PICK l \in Nat : l = Len(ds) /\ DOMAIN ds = 1 .. l
    BY <2>1
  <2>3. PICK h : h = [i \in DOMAIN ds |-> ds[i].head + ds[i].body]
    OBVIOUS
  <2>4. SumTo(h, l) = SumTo(Heads(ds), l) + SumTo(Bodies(ds), l)
    <3>1. ASSUME NEW i \in 1 .. l PROVE Bodies(ds)[i] \in Int /\ h[i] = ds[i].head + Bodies(ds)[i]
      <4>1. i \in DOMAIN ds /\ ds[i] \in Passage
        BY <2>1, <2>2
      <4>2. Bodies(ds)[i] = ds[i].body
        BY <4>1 DEF Bodies
      <4> QED BY <2>3, <4>1, <4>2, MinimumIs
    <3>2. l \in 0 .. Len(ds)
      BY <2>2
    <3> QED BY <2>1, <3>1, <3>2, HeadsAnd
  <2>5. ASSUME Tokens(Context) > b
        PROVE  Len(Context) = 1 /\ Context[1].tokens = Minimum(Context[1].document)
    BY <2>1, <2>5 DEF ContextIs
  <2>6. ASSUME SumTo(h, l) + Separators(l) <= b
        PROVE  Len(Context) = l /\ \A i \in DOMAIN ds : Context[i].tokens = ds[i].body
    <3>1. SumTo(Heads(ds), l) + SumTo(Bodies(ds), l) + Separators(l) <= b
      BY <2>4, <2>6
    <3> QED BY <2>1, <2>2, <3>1 DEF ContextIs
  <2>7. \A i \in DOMAIN ds, j \in DOMAIN ds :
          (\E k \in 1 .. (i - 1) : ds[k].file = ds[i].file)
            /\ ~ (\E k \in 1 .. (j - 1) : ds[k].file = ds[j].file) => j < i
    BY <2>1 DEF FirstsFirst
  <2> QED BY <2>2, <2>3, <2>5, <2>6, <2>7
<1> QED BY <1>2, <1>3 DEF ContextFits

LEMMA CitationsNameNow == GroundedInv => CitationsNameTheirSources
<1> SUFFICES ASSUME GroundedInv, prepared # NotPrepared, answer # {} PROVE CitationsNameTheirSources
  BY DEF CitationsNameTheirSources
<1>1. PICK sources : sources = SourcesOf(Context)
  OBVIOUS
<1>2. SourcesRight(Context, sources)
  <2>1. ContextIs(Diversified(found), prepared.budget, Context) /\ Diversified(found) \in Seq(Passage)
    BY ContextRight DEF Context
  <2>2. Len(Diversified(found)) \in Nat
    BY <2>1
  <2> QED BY <1>1, <2>1, <2>2, SourcesAre
<1>3. PICK T : sources \in Seq(T)
  BY <1>2 DEF SourcesRight
<1>4. PICK q, w : q = prepared.quality /\ w = prepared.insufficient
  OBVIOUS
<1>5. PICK saved : saved = VerifiedSources(sources, answer, q, w)
  OBVIOUS
<1>6. saved \subseteq Kept(sources, answer)
  BY <1>5, SavedIsKept
<1>7. IsFiniteSet(answer) /\ IsFiniteSet(Citations(answer))
  BY CitationsFinite DEF GroundedInv
<1>8. Citations(answer) # {} => \A k \in saved : \E c \in answer :
        Supports(sources[k], c) /\ (c.cites = {} \/ k \in c.cites)
  BY <1>3, <1>6, SavedSupports
<1>9. ASSUME Citations(answer) # {}, GoodCitations(sources, answer) = Citations(answer), q # "unsupported"
      PROVE  UNION {c.cites : c \in answer} \subseteq saved
  BY <1>3, <1>5, <1>7, <1>9, AllHeldAllSaved
<1>10. \A k \in DOMAIN sources :
         {e.document : e \in {f \in Range(Context) : f.label = k /\ ~Inventory(f.document)}}
           = {sources[k].document}
  BY <1>2 DEF SourcesRight
<1> QED BY <1>1, <1>4, <1>5, <1>8, <1>9, <1>10 DEF CitationsNameTheirSources

\* The context keeps its budget, and gives what fits, for any documents, sizes,
\* scores and budgets.
THEOREM ContextsFit == GroundedSpec => []ContextFits
<1>1. GroundedInit => GroundedInv
  BY GroundedStarts
<1>2. GroundedInv /\ [GroundedNext]_groundedVars => GroundedInv'
  BY GroundedGoesOn
<1>3. GroundedInv => ContextFits
  BY ContextsFitNow
<1> QED BY <1>1, <1>2, <1>3, PTL DEF GroundedSpec

\* A citation is held against the passage under its number, and what is saved
\* with a cited answer was shown and supports it, for any documents, claims and
\* retrievals.
THEOREM CitationsNameSources == GroundedSpec => []CitationsNameTheirSources
<1>1. GroundedInit => GroundedInv
  BY GroundedStarts
<1>2. GroundedInv /\ [GroundedNext]_groundedVars => GroundedInv'
  BY GroundedGoesOn
<1>3. GroundedInv => CitationsNameTheirSources
  BY CitationsNameNow
<1> QED BY <1>1, <1>2, <1>3, PTL DEF GroundedSpec

-----------------------------------------------------------------------------
(* What readers of documents are promised. *)

\* The promise holds however builds, switches and removals interleave.
THEOREM ReadersSeeWholeVersions == NoVersion \notin Versions => (Spec => []ServedIsReady)
<1>. SUFFICES ASSUME NoVersion \notin Versions PROVE Spec => []ServedIsReady
  OBVIOUS
<1>1. Init => Inv
  BY DEF Init, Inv, TypeOK, NobodyShares, ServedIsReady
<1>2. Inv /\ [Next]_vars => Inv'
  <2>. SUFFICES ASSUME Inv, [Next]_vars PROVE Inv'
    OBVIOUS
  <2>. USE DEF Inv, TypeOK, NobodyShares, ServedIsReady
  <2>1. ASSUME NEW v \in Versions, Build(v) PROVE Inv'
    BY <2>1 DEF Build
  <2>2. ASSUME NEW v \in Versions, Abandon(v) PROVE Inv'
    BY <2>2 DEF Abandon
  <2>3. ASSUME NEW d \in Documents, NEW v \in Versions, Publish(d, v) PROVE Inv'
    BY <2>3 DEF Publish
  <2>4. ASSUME NEW d \in Documents, RequestRemoval(d) PROVE Inv'
    BY <2>4 DEF RequestRemoval
  <2>5. ASSUME NEW parts \in SUBSET Versions, Dismantle(parts) PROVE Inv'
    BY <2>5 DEF Dismantle
  <2>6. ASSUME NEW d \in Documents, NEW parts \in SUBSET Versions, RemoveDocument(d, parts) PROVE Inv'
    BY <2>6 DEF RemoveDocument
  <2>7. CASE UNCHANGED vars
    BY <2>7 DEF vars
  <2>. QED BY <2>1, <2>2, <2>3, <2>4, <2>5, <2>6, <2>7 DEF Next
<1>3. Inv => ServedIsReady
  BY DEF Inv
<1>. QED
  BY <1>1, <1>2, <1>3, PTL DEF Spec
=============================================================================
