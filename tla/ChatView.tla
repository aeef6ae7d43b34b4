------------------------------ MODULE ChatView ------------------------------
(* The chat of the web client: the shown messages, their cache by            *)
(* conversation, the requests for messages, the streams of answers, and the  *)
(* changes that are shown before the server confirms them. JavaScript runs   *)
(* one task at a time: an aborted request does nothing more.                 *)
EXTENDS Integers, Sequences, FiniteSets, SequencesExt, ArrayFilter

CONSTANTS
    Old,      \* conversations that exist
    New,      \* one that the client creates
    MaxTurn, MaxChange,  \* bounds of the questions and the changes
    Nobody,   \* no conversation, no answer
    Failures  \* the kinds of request that may fail

VARIABLES
    client,  \* useChatStore and chatRequestState; history: restored, since a failed
             \* archiving brought an earlier view back
    server,  \* the messages the database has, of a conversation that exists
    op,      \* the change that waits for its answer (a bound: one at a time)
    turns,   \* questions asked so far
    changes  \* changes asked for so far

viewVars == <<client, server, op, turns, changes>>

Conv == Old \cup {New, "temp"}
Msg(c, n, role, text, known) ==
    [of |-> c, turn |-> n, role |-> role, text |-> text, known |-> known]
Welcome == Msg("temp", 0, "welcome", "part", FALSE)
Messages == Seq([of : Conv, turn : 0..MaxTurn, role : {"user", "assistant", "welcome"},
                 text : {"", "part", "more", "whole"}, known : BOOLEAN])

ASSUME ChatViewAssumption ==
    /\ New \notin Old /\ "temp" \notin Old \cup {New}
    /\ Nobody \notin Conv \cup Messages
    /\ {MaxTurn, MaxChange} \subseteq Nat

Kinds == {"delete message", "truncate", "create", "create and send",
          "delete conversation", "archive"}

\* What waits for an answer of the server: of a conversation, about a message,
\* and what is restored if it fails.
Op(kind, c, m, here, before) ==
    [kind |-> kind, of |-> c, msg |-> m, here |-> here, before |-> before]
NoOp == Op("none", Nobody, Welcome, FALSE, <<>>)

\* A stream of an answer: into which message (tempAiId, which the server may
\* know), and what that was before.
NoStream == [turn |-> 0, into |-> 0, known |-> FALSE, was |-> "", at |-> "none"]
NoFetch == [at |-> "none", after |-> "none", data |-> <<>>]

ViewTypeOK ==
    /\ client.listed \subseteq Conv
    /\ client.current \in Conv \cup {Nobody}
    /\ client.shown \in Messages
    /\ \A c \in Conv :
         /\ client.cache[c] = Nobody \/ client.cache[c] \in Messages
         /\ client.fetch[c].at \in {"none", "asked", "served"}
         /\ client.stream[c].at \in {"none", "sent", "open", "told"}
         /\ client.stream[c].into \in 0..client.stream[c].turn
         /\ server[c] = Nobody \/ server[c] \in Messages
    /\ client.fresh \subseteq {"fetch", "delete"} \X Conv
    /\ \A c \in Conv : <<"fetch", c>> \in client.fresh => client.fetch[c].at # "none"
    /\ client.stopped \subseteq Conv
    /\ {client.sending, client.isStopped, client.loading, client.restored} \subseteq BOOLEAN
    /\ op.kind \in Kinds \cup {"none"}
    /\ turns \in 0..MaxTurn /\ changes \in 0..MaxChange

\* Each conversation that exists has a question and its answer.
Stored(c) == <<Msg(c, 0, "user", "whole", TRUE), Msg(c, 0, "assistant", "whole", TRUE)>>

ViewInit ==
    /\ client = [listed |-> Old, current |-> Nobody, shown |-> <<>>,
                 cache |-> [c \in Conv |-> Nobody],
                 fetch |-> [c \in Conv |-> NoFetch],
                 stream |-> [c \in Conv |-> NoStream],
                 fresh |-> {}, stopped |-> {},
                 sending |-> FALSE, isStopped |-> FALSE, loading |-> FALSE,
                 restored |-> FALSE]
    /\ server = [c \in Conv |-> IF c \in Old THEN Stored(c) ELSE Nobody]
    /\ op = NoOp /\ turns = 0 /\ changes = 0

-----------------------------------------------------------------------------
(* The store: functions of its state v. *)

\* getConversationMessages
MessagesOf(v, c) ==
    IF v.cache[c] # Nobody THEN v.cache[c]
    ELSE IF v.current = c THEN v.shown ELSE <<>>

\* Mutant: a change in the background is shown too.
UpdatedAll(v, c, new) ==
    [v EXCEPT !.cache[c] = new, !.shown = new,
              !.fresh = {t \in @ : t[2] # c}]

\* updateConversationMessages: what is compared with the cache's generation is
\* no longer fresh.
Updated(v, c, new) ==
    [v EXCEPT !.cache[c] = new,
              !.shown = IF v.current = c THEN new ELSE @,
              !.fresh = {t \in @ : t[2] # c}]

\* beginMessageFetch: an earlier one is aborted.
FetchStarted(v, c, after) ==
    [v EXCEPT !.fetch[c] = [at |-> "asked", after |-> after, data |-> <<>>],
              !.fresh = @ \cup {<<"fetch", c>>}]

\* finishMessageFetch: the end of the current one.
FetchFinished(v, c) ==
    [v EXCEPT !.fetch[c] = NoFetch, !.fresh = @ \ {<<"fetch", c>>},
              !.loading = IF v.current = c THEN FALSE ELSE @]

\* hasActiveStream
Active(v, c) == v.stream[c].at # "none"

\* What a switch to a conversation shows.
Switched(v, c) ==
    [v EXCEPT !.current = c,
              !.shown = IF v.cache[c] = Nobody THEN <<>> ELSE v.cache[c],
              !.loading = v.cache[c] = Nobody,
              !.sending = Active(v, c),
              !.isStopped = c \in v.stopped,
              !.restored = FALSE]

\* selectConversation: from the cache first, then from the server, unless an
\* answer is being streamed into the cache.
Selected(v, c) ==
    LET w == Switched(v, c) IN
    IF Active(v, c) /\ v.cache[c] # Nobody THEN w ELSE FetchStarted(w, c, "selection")

\* beginStream: an earlier stream of the conversation is aborted.
StreamBegun(v, c, r) ==
    [v EXCEPT !.stream[c] = r,
              !.stopped = @ \ {c},
              !.sending = v.current = c \/ @,
              !.isStopped = v.current # c /\ @]

\* The question and the place of its answer.
Sent(v, c, n) ==
    Updated(StreamBegun(v, c, [turn |-> n, into |-> n, known |-> FALSE, was |-> "", at |-> "sent"]), c,
            MessagesOf(v, c) \o <<Msg(c, n, "user", "whole", FALSE),
                                  Msg(c, n, "assistant", "", FALSE)>>)

\* finishStream, and the flags if its conversation is shown.
StreamFinished(v, c) ==
    [v EXCEPT !.stream[c] = NoStream,
              !.stopped = @ \ {c},
              !.sending = v.current # c /\ @,
              !.isStopped = v.current # c /\ @]

\* The message r is written into, by its id.
IsAnswer(m, r) == m.turn = r.into /\ m.role # "user" /\ m.known = r.known
Place(v, c) ==
    LET ms == MessagesOf(v, c) IN {i \in DOMAIN ms : IsAnswer(ms[i], v.stream[c])}

\* The message the stream of c writes becomes text, under the id of n.
Rewritten(v, c, text, n, known) ==
    LET ms == MessagesOf(v, c) IN
    Updated(v, c, [i \in DOMAIN ms |->
        IF i \in Place(v, c) THEN [ms[i] EXCEPT !.text = text, !.turn = n, !.known = known]
        ELSE ms[i]])

\* What arrives for a message that has gone is dropped.
Written(v, c, text, n, known) ==
    IF Place(v, c) = {} THEN v ELSE Rewritten(v, c, text, n, known)

\* rollbackFailedAssistant: a continued answer becomes what it was, a new one
\* goes, with its question if the server did not take it.
RolledBack(v, c, withQuestion) ==
    LET r == v.stream[c]
        ms == MessagesOf(v, c)
        asked == {i \in DOMAIN ms : ms[i].turn = r.turn /\ ms[i].role = "user" /\ ~ms[i].known}
    IN
    IF r.into # r.turn THEN Rewritten(v, c, r.was, r.into, r.known)
    ELSE Updated(v, c, Without(ms, Place(v, c) \cup (IF withQuestion THEN asked ELSE {})))

Exists(c) == server[c] # Nobody
Kept(c, ms) == [server EXCEPT ![c] = IF @ = Nobody THEN @ ELSE @ \o ms]

\* What the server keeps when the client leaves a stream: nothing more, the
\* question, or a part of the answer too (it may do so later than here).
Left(c) ==
    LET r == client.stream[c]
        q == <<Msg(c, r.turn, "user", "whole", TRUE)>>
        a == <<Msg(c, r.turn, "assistant", "part", TRUE)>>
    IN {server} \cup (IF r.at = "none" THEN {}
                      ELSE IF r.at = "sent" THEN {Kept(c, q), Kept(c, q \o a)}
                      ELSE {Kept(c, a)})

-----------------------------------------------------------------------------
(* The user. *)

\* handleSelectConversation
Select(c) ==
    /\ c \in client.listed
    /\ client' = Selected(client, c)
    /\ UNCHANGED <<server, op, turns, changes>>

\* handleSendMessage: while nothing is sent.
Send ==
    LET c == client.current IN
    /\ c \in Conv /\ ~client.sending /\ turns < MaxTurn
    /\ client' = Sent(client, c, turns + 1)
    /\ turns' = turns + 1
    /\ server' \in Left(c)
    /\ UNCHANGED <<op, changes>>

\* continueGeneration: the rest is written into the answer that was stopped.
Continue ==
    LET c == client.current
        last == client.shown[Len(client.shown)]
    IN
    /\ c \in Conv /\ client.isStopped /\ ~client.sending /\ turns < MaxTurn
    /\ client.shown # <<>> /\ last.role # "user"
    /\ client' = StreamBegun(client, c, [turn |-> turns + 1, into |-> last.turn,
                                known |-> last.known, was |-> last.text, at |-> "sent"])
    /\ turns' = turns + 1
    /\ UNCHANGED <<server, op, changes>>

\* stopGeneration: the server hears of it later.
Stop ==
    LET c == client.current IN
    /\ c # Nobody /\ Active(client, c)
    /\ server' \in Left(c)
    /\ client' = [client EXCEPT !.stream[c] = NoStream, !.stopped = @ \cup {c},
                                !.sending = FALSE, !.isStopped = TRUE]
    /\ UNCHANGED <<op, turns, changes>>

\* deleteMessage: it disappears at once.
DeleteMessage(i) ==
    LET c == client.current
        before == MessagesOf(client, c)
        w == Updated(client, c, RemoveAt(before, i))
    IN
    /\ client' = [w EXCEPT !.fresh = @ \cup {<<"delete", c>>}]
    /\ op' = Op("delete message", c, before[i], TRUE, before)
    /\ changes' = changes + 1
    /\ UNCHANGED <<server, turns>>

\* regenerateMessage, offered below the last answer: first the last question
\* and what follows it are deleted.
Regenerate(i) ==
    LET c == client.current
        ms == MessagesOf(client, c)
    IN
    /\ ~client.sending /\ ms[Len(ms)].role # "user"
    /\ ms[i].role = "user" /\ \A j \in DOMAIN ms : j > i => ms[j].role # "user"
    /\ op' = Op("truncate", c, ms[i], TRUE, <<>>)
    /\ changes' = changes + 1
    /\ UNCHANGED <<client, server, turns>>

\* createConversation, by a button or by a message that has no conversation:
\* one with a temporary id is shown, with a welcome (a bound: one at a time).
CreateConversation(kind) ==
    /\ New \notin client.listed /\ ~Exists(New)
    /\ ~Active(client, "temp") /\ client.fetch["temp"] = NoFetch
    /\ kind = "create and send" =>
         client.current = Nobody /\ ~client.sending /\ turns < MaxTurn
    /\ client' = [client EXCEPT !.listed = @ \cup {"temp"}, !.current = "temp",
                    !.shown = <<Welcome>>, !.cache["temp"] = <<Welcome>>,
                    !.stopped = @ \ {"temp"},
                    !.sending = FALSE, !.isStopped = FALSE, !.loading = FALSE,
                    !.restored = FALSE]
    /\ op' = Op(kind, "temp", Welcome, TRUE, <<>>)
    /\ changes' = changes + 1
    /\ UNCHANGED <<server, turns>>

\* The view without its conversation.
Emptied(v) == [v EXCEPT !.current = Nobody, !.shown = <<>>]

\* deleteConversation: it disappears at once, and the flags of its view.
DeleteConversation(c) ==
    LET here == client.current = c IN
    /\ c \in client.listed \ {"temp"}
    /\ client' = [(IF here THEN Emptied(client) ELSE client) EXCEPT
                    !.listed = @ \ {c},
                    !.sending = ~here /\ @, !.isStopped = ~here /\ @,
                    !.loading = ~here /\ @]
    /\ op' = Op("delete conversation", c, Welcome, here, MessagesOf(client, c))
    /\ changes' = changes + 1
    /\ UNCHANGED <<server, turns>>

\* archiveConversation: it leaves the view, which keeps its flags; it stays in
\* the list of the archive. What is restored is what is shown now.
ArchiveConversation(c) ==
    /\ c \in client.listed
    /\ client' = IF client.current = c THEN Emptied(client) ELSE client
    /\ op' = Op("archive", client.current, Welcome, FALSE, client.shown)
    /\ changes' = changes + 1
    /\ UNCHANGED <<server, turns>>

-----------------------------------------------------------------------------
(* The requests for messages. *)

\* The server reads the messages; the answer is on its way.
ServeFetch(c) ==
    /\ client.fetch[c].at = "asked" /\ Exists(c)
    /\ client' = [client EXCEPT !.fetch[c].at = "served", !.fetch[c].data = server[c]]
    /\ UNCHANGED <<server, op, turns, changes>>

\* Mutant: what was written to the cache since the request is overwritten.
FetchedAnyway(v, c) == Updated(v, c, v.fetch[c].data)

\* The answer replaces the cache, unless that was written to since the request.
Fetched(v, c) ==
    IF <<"fetch", c>> \in v.fresh THEN Updated(v, c, v.fetch[c].data) ELSE v

\* fetchConversationMessages, from its answer on.
FetchAnswers(c) ==
    /\ client.fetch[c].at = "served"
    /\ client' = FetchFinished(Fetched(client, c), c)
    /\ UNCHANGED <<server, op, turns, changes>>

FetchFails(c) ==
    /\ client.fetch[c].at # "none"
    /\ ~Exists(c) \/ "fetch" \in Failures
    /\ client' = FetchFinished(client, c)
    /\ UNCHANGED <<server, op, turns, changes>>

-----------------------------------------------------------------------------
(* The stream of an answer. *)

\* The server takes the question.
Accept(c) ==
    LET n == client.stream[c].turn IN
    /\ client.stream[c].at = "sent" /\ Exists(c)
    /\ client' = [client EXCEPT !.stream[c].at = "open"]
    /\ server' = Kept(c, <<Msg(c, n, "user", "whole", TRUE)>>)
    /\ UNCHANGED <<op, turns, changes>>

\* The request is refused, or lost on its way or back.
SendFails(c) ==
    /\ client.stream[c].at = "sent"
    /\ ~Exists(c) \/ "stream" \in Failures
    /\ client' = StreamFinished(RolledBack(client, c, TRUE), c)
    /\ server' \in Left(c)
    /\ UNCHANGED <<op, turns, changes>>

\* The id of the question: it replaces the one the client made. (A continuation
\* has no question.)
TellQuestion(c) ==
    LET r == client.stream[c]
        ms == MessagesOf(client, c)
        told == {i \in DOMAIN ms : /\ r.into = r.turn
                                   /\ ms[i].turn = r.turn /\ ms[i].role = "user" /\ ~ms[i].known}
        v == [client EXCEPT !.stream[c].at = "told"]
    IN
    /\ client.stream[c].at = "open"
    /\ client' = IF told = {} THEN v
                 ELSE Updated(v, c, [i \in DOMAIN ms |->
                                       IF i \in told THEN [ms[i] EXCEPT !.known = TRUE]
                                       ELSE ms[i]])
    /\ UNCHANGED <<server, op, turns, changes>>

\* A piece of the answer.
ReceivePiece(c) ==
    LET r == client.stream[c] IN
    /\ r.at = "told"
    /\ client' = Written(client, c, IF r.into = r.turn THEN "part" ELSE "more",
                         r.into, r.known)
    /\ UNCHANGED <<server, op, turns, changes>>

\* The server keeps the answer and tells its id, then the stream ends.
Done(c) ==
    LET n == client.stream[c].turn IN
    /\ client.stream[c].at = "told"
    /\ server' = Kept(c, <<Msg(c, n, "assistant", "whole", TRUE)>>)
    /\ client' = StreamFinished(Written(client, c, "whole", n, TRUE), c)
    /\ UNCHANGED <<op, turns, changes>>

\* The server tells of a failure, or the connection is lost.
StreamFails(c) ==
    /\ client.stream[c].at \in {"open", "told"} /\ "stream" \in Failures
    /\ client' = StreamFinished(RolledBack(client, c, FALSE), c)
    /\ server' \in Left(c)
    /\ UNCHANGED <<op, turns, changes>>

-----------------------------------------------------------------------------
(* The answers to changes. *)

SameMessage(m, n) == m.turn = n.turn /\ m.role = n.role

MessageDeleted ==
    /\ op.kind = "delete message" /\ op.msg.known /\ Exists(op.of)
    /\ server' = [server EXCEPT ![op.of] =
                    Without(@, {i \in DOMAIN @ : SameMessage(@[i], op.msg)})]
    /\ op' = NoOp
    /\ UNCHANGED <<client, turns, changes>>

\* What was before comes back, unless the cache was written to since.
MessageStays ==
    LET c == op.of IN
    /\ op.kind = "delete message"
    /\ ~op.msg.known \/ ~Exists(c) \/ op.kind \in Failures
    /\ client' = IF <<"delete", c>> \in client.fresh
                 THEN Updated(client, c, op.before)
                 ELSE FetchStarted(client, c, "deletion")
    /\ op' = NoOp
    /\ UNCHANGED <<server, turns, changes>>

\* The messages before a message, all if it is not among them.
Before(ms, msg) ==
    LET at == {i \in DOMAIN ms : SameMessage(ms[i], msg)} IN
    IF at = {} THEN ms ELSE SubSeq(ms, 1, (CHOOSE i \in at : TRUE) - 1)

\* The same in the client, then the question is sent again, to the
\* conversation it was asked in.
AskedAgain(v, c, n) ==
    LET ms == MessagesOf(v, c)
        w == IF Before(ms, op.msg) = ms THEN v ELSE Updated(v, c, Before(ms, op.msg))
    IN Sent(w, c, n)

Truncated ==
    LET c == op.of IN
    /\ op.kind = "truncate" /\ op.msg.known /\ Exists(c) /\ turns < MaxTurn
    /\ \E i \in DOMAIN server[c] : SameMessage(server[c][i], op.msg)
    /\ server' = [server EXCEPT ![c] = Before(@, op.msg)]
    /\ client' = AskedAgain(client, c, turns + 1)
    /\ turns' = turns + 1
    /\ op' = NoOp
    /\ UNCHANGED changes

\* The history is kept, and nothing is sent.
NotTruncated ==
    /\ op.kind = "truncate"
    /\ \/ ~op.msg.known \/ ~Exists(op.of) \/ op.kind \in Failures \/ turns = MaxTurn
       \/ \A i \in DOMAIN server[op.of] : ~SameMessage(server[op.of][i], op.msg)
    /\ op' = NoOp
    /\ UNCHANGED <<client, server, turns, changes>>

\* The conversation takes the place, the cache and the selection of the
\* temporary one.
Migrated(v) ==
    [v EXCEPT !.listed = (@ \ {"temp"}) \cup {New},
              !.current = IF @ = "temp" THEN New ELSE @,
              !.cache = [@ EXCEPT !["temp"] = Nobody, ![New] = v.cache["temp"]]]

\* createConversation, from its answer on: it is selected, and the message
\* that had no conversation is sent to it.
Created ==
    LET v == Selected(Migrated(client), New) IN
    /\ op.kind \in {"create", "create and send"}
    /\ op.kind = "create and send" => turns < MaxTurn
    /\ server' = [server EXCEPT ![New] = <<>>]
    /\ IF op.kind = "create" THEN client' = v /\ turns' = turns
       ELSE client' = Sent(v, New, turns + 1) /\ turns' = turns + 1
    /\ op' = NoOp
    /\ UNCHANGED changes

NotCreated ==
    /\ op.kind \in {"create", "create and send"} /\ "create" \in Failures
    /\ client' = [client EXCEPT !.listed = @ \ {"temp"},
                                !.current = IF @ = "temp" THEN Nobody ELSE @]
    /\ op' = NoOp
    /\ UNCHANGED <<server, turns, changes>>

\* clearConversation: its requests are aborted, its messages forgotten.
ConversationDeleted ==
    LET c == op.of IN
    /\ op.kind = "delete conversation"
    /\ server' = [server EXCEPT ![c] = Nobody]
    /\ client' = [client EXCEPT !.cache[c] = Nobody, !.fetch[c] = NoFetch,
                    !.stream[c] = NoStream, !.stopped = @ \ {c},
                    !.fresh = {t \in @ : t[2] # c}]
    /\ op' = NoOp
    /\ UNCHANGED <<turns, changes>>

\* A conversation is shown again, with what it does by now.
ShownAgain(v, c, before) ==
    [v EXCEPT !.current = c,
              !.shown = IF v.cache[c] # Nobody THEN v.cache[c] ELSE before,
              !.loading = v.fetch[c].at # "none",
              !.sending = Active(v, c),
              !.isStopped = c \in v.stopped,
              !.restored = FALSE]

\* It is listed again, and shown if nothing else is.
ConversationStays ==
    LET c == op.of
        v == [client EXCEPT !.listed = @ \cup {c}]
    IN
    /\ op.kind = "delete conversation" /\ op.kind \in Failures
    /\ client' = IF op.here /\ client.current = Nobody THEN ShownAgain(v, c, op.before) ELSE v
    /\ op' = NoOp
    /\ UNCHANGED <<server, turns, changes>>

Archived ==
    /\ op.kind = "archive"
    /\ op' = NoOp
    /\ UNCHANGED <<client, server, turns, changes>>

\* The selection and the messages of before come back, whatever was selected or
\* written since.
NotArchived ==
    LET v == [client EXCEPT !.current = op.of, !.shown = op.before] IN
    /\ op.kind = "archive" /\ op.kind \in Failures
    /\ client' = [v EXCEPT !.restored = @ \/ v # client]
    /\ op' = NoOp
    /\ UNCHANGED <<server, turns, changes>>

-----------------------------------------------------------------------------

User ==
    \/ \E c \in Conv : Select(c)
    \/ Send \/ Continue \/ Stop
    \/ /\ op = NoOp /\ changes < MaxChange
       /\ \/ /\ client.current \in Old \cup {New}
             /\ \E i \in DOMAIN MessagesOf(client, client.current) :
                  DeleteMessage(i) \/ Regenerate(i)
          \/ \E kind \in {"create", "create and send"} : CreateConversation(kind)
          \/ \E c \in Conv : DeleteConversation(c) \/ ArchiveConversation(c)

Network ==
    \/ \E c \in Conv :
         \/ ServeFetch(c) \/ FetchAnswers(c) \/ FetchFails(c)
         \/ Accept(c) \/ SendFails(c) \/ TellQuestion(c) \/ ReceivePiece(c) \/ Done(c)
         \/ StreamFails(c)
    \/ MessageDeleted \/ MessageStays \/ Truncated \/ NotTruncated
    \/ Created \/ NotCreated \/ ConversationDeleted \/ ConversationStays
    \/ Archived \/ NotArchived

ViewNext == User \/ Network

ViewSpec == ViewInit /\ [][ViewNext]_viewVars

-----------------------------------------------------------------------------

\* What is shown is the cache of the conversation that is shown, and so are
\* the flags whether it sends, was stopped or loads, whichever conversations
\* are written to in the background (updateConversationMessages,
\* selectConversation, finishStream, stopGeneration, deleteConversation); but
\* for what a failed archiving brought back, until a conversation is selected.
ViewShowsItsCache ==
    /\ ViewTypeOK
    /\ client.current # Nobody /\ ~client.restored =>
        LET c == client.current IN
        /\ client.cache[c] # Nobody => client.shown = client.cache[c]
        /\ client.sending = Active(client, c)
        /\ client.isStopped = (c \in client.stopped)
        /\ client.loading => client.fetch[c].at # "none"

\* The place of the answer that is streamed into c is lost.
PlaceLost(c) ==
    /\ Active(client, c) /\ client'.stream[c] = client.stream[c]
    /\ Place(client, c) # {} /\ Place(client', c) = {}

\* Nor do messages that were requested by a selection, before the question was
\* sent or while it was answered, overwrite it (the cache generations). What
\* continues an answer has no such place of its own: late messages of a
\* selection may take the answer it is written into away.
LiveAnswersSurviveSwitches ==
    [][\A c \in Conv : PlaceLost(c) =>
         \/ op' # op \/ client.fetch[c].after = "deletion"
         \/ client.stream[c].into # client.stream[c].turn]_viewVars

=============================================================================
