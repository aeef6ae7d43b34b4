----------------------------- MODULE ChatStreams -----------------------------
(* The server's chat: a question becomes a stream of events, with a place in *)
(* the concurrency gate, while the user renames, truncates and deletes, the  *)
(* client leaves, the model provider and the retrieval fail or hang, and     *)
(* titles and retrieval traces are written in the background.                *)
EXTENDS Integers, Sequences, FiniteSets, SequencesExt, FiniteSetsExt

CONSTANTS
    User,
    Conversation,
    OwnerOf,       \* the user of a conversation
    Stream,        \* requests that send a message
    Message,       \* the messages that are tried: the terms each has
    Caps,          \* limits of the gate that are tried
    MaxMessages    \* bound of a conversation

ASSUME ChatStreamsAssumption ==
    /\ OwnerOf \in [Conversation -> User]
    /\ \A terms \in Message : terms \subseteq {"inventory", "knowledge", "verb",
                                             "document", "skip"}
    /\ Caps \subseteq [total : Nat \ {0}, user : Nat \ {0}]
    /\ MaxMessages \in Nat
    /\ IsFiniteSet(Stream) /\ "none" \notin Conversation

VARIABLES
    caps,     \* CHAT_STREAM_MAX_CONCURRENT, ..._PER_USER
    gate,     \* activeTotal, activeByKey
    conv,     \* conversations
    log,      \* messages of a conversation, by time
    stream    \* the requests

chatVars == <<caps, gate, conv, log, stream>>

\* What the rules of ragTrigger.ts find in a message.
Terms == {"inventory", "knowledge", "verb", "document", "skip"}

NewStream == [at |-> "idle", in |-> "none", left |-> FALSE, failed |-> FALSE,
              titling |-> FALSE, title |-> "none", rag |-> FALSE, terms |-> {},
              evidence |-> "unasked", text |-> "none"]

Working == {"asking", "preparing", "retrieving", "answering", "saving", "telling"}
UserOf(s) == OwnerOf[stream[s].in]
Row(s, role, text) == [by |-> s, role |-> role, text |-> text]

ChatTypeOK ==
    /\ caps \in Caps
    /\ gate \in [total : Nat, by : [User -> Nat]]
    /\ conv \in [Conversation -> [there : BOOLEAN, rag : BOOLEAN,
                                  title : {"placeholder", "chosen", "generated"}]]
    /\ \A c \in Conversation :
         /\ ~conv[c].there => log[c] = <<>>
         /\ log[c] \in Seq([by : Stream, role : {"user", "assistant"},
                            text : {"question", "part", "whole", "abstained"}])
    /\ stream \in [Stream -> [
         at : {"idle", "finding", "over"} \cup Working,
         in : Conversation \cup {"none"}, left : BOOLEAN,
         title : {"none", "placeholder", "chosen", "generated"},
         rag : BOOLEAN, terms : SUBSET Terms,
         evidence : {"unasked", "found", "empty"},
         text : {"none", "part", "whole", "abstained"},
         failed : BOOLEAN, titling : BOOLEAN]]

ChatInit ==
    /\ caps \in Caps
    /\ gate = [total |-> 0, by |-> [u \in User |-> 0]]
    /\ conv \in [Conversation -> [there : {TRUE}, rag : BOOLEAN, title : {"placeholder"}]]
    /\ log = [c \in Conversation |-> <<>>]
    /\ stream = [s \in Stream |-> NewStream]

\* getRagTriggerDecision: the first rule that applies.
TriggerReason(terms) ==
    IF "inventory" \in terms THEN "inventory"
    ELSE IF "knowledge" \in terms THEN "explicit_knowledge"
    ELSE IF {"verb", "document"} \subseteq terms THEN "document_grounded"
    ELSE IF "skip" \in terms THEN "explicit_skip"
    ELSE "default_rag"

ShouldUseRag(terms) == TriggerReason(terms) # "explicit_skip"

-----------------------------------------------------------------------------
(* The gate. *)

\* tryAcquire: the limit of all, then that of the user.
HasPlace(u) == gate.total < caps.total /\ gate.by[u] < caps.user

Acquire(u) == gate' = [total |-> gate.total + 1, by |-> [gate.by EXCEPT ![u] = @ + 1]]

\* release: of a slot that was acquired, once.
Release(u) ==
    gate' = [total |-> Max({gate.total - 1, 0}),
             by |-> [gate.by EXCEPT ![u] = Max({@ - 1, 0})]]

-----------------------------------------------------------------------------
(* A stream. *)

\* Mutant: a stream whose client left returns without the finally block.
LeakIfLeft(s, failed) ==
    /\ stream' = [stream EXCEPT ![s].at = "over"]
    /\ IF stream[s].left THEN UNCHANGED gate ELSE Release(UserOf(s))

\* What is left of a stream: whether its client left, or was told of a failure.
Ended(s, failed) ==
    [NewStream EXCEPT !.at = "over", !.in = stream[s].in, !.left = stream[s].left,
                      !.failed = failed /\ ~stream[s].left,
                      !.titling = stream[s].titling]

\* The end of the stream and the finally block.
Finish(s, failed) ==
    /\ stream' = [stream EXCEPT ![s] = Ended(s, failed)]
    /\ Release(UserOf(s))

\* sendMessage: content that is no text, empty or too long is refused before.
Post(s, c, terms) ==
    /\ stream[s].at = "idle"
    /\ stream' = [stream EXCEPT ![s].at = "finding", ![s].in = c, ![s].terms = terms]
    /\ UNCHANGED <<caps, gate, conv, log>>

\* The conversation is read and a place taken, or the request refused.
FindConversation(s) ==
    LET c == stream[s].in IN
    /\ stream[s].at = "finding"
    /\ IF conv[c].there /\ ~stream[s].left /\ HasPlace(UserOf(s))
       THEN /\ stream' = [stream EXCEPT ![s].at = "asking", ![s].rag = conv[c].rag,
                                        ![s].title = conv[c].title]
            /\ Acquire(UserOf(s))
       ELSE /\ stream' = [stream EXCEPT ![s] = Ended(s, TRUE)]
            /\ UNCHANGED gate
    /\ UNCHANGED <<caps, conv, log>>

\* isChatConnectionClosed, when the listeners are in place.
GoesOn(s) == ~stream[s].left

\* The question is inserted; a placeholder title is replaced in the background.
InsertQuestion(s) ==
    LET c == stream[s].in IN
    /\ stream[s].at = "asking" /\ conv[c].there /\ Len(log[c]) < MaxMessages
    /\ log' = [log EXCEPT ![c] = Append(@, Row(s, "user", "question"))]
    /\ stream' = [stream EXCEPT
         ![s] = [(IF GoesOn(s) THEN stream[s] ELSE Ended(s, FALSE)) EXCEPT
                   !.at = IF GoesOn(s) THEN "preparing" ELSE "over",
                   !.title = "none", !.titling = stream[s].title = "placeholder"]]
    /\ IF GoesOn(s) THEN UNCHANGED gate ELSE Release(UserOf(s))
    /\ UNCHANGED <<caps, conv>>

\* The database refuses the question (its conversation was deleted) or fails.
QuestionFails(s) ==
    /\ stream[s].at = "asking"
    /\ Finish(s, TRUE)
    /\ UNCHANGED <<caps, conv, log>>

\* The persona and the recent messages are read.
Prepare(s) ==
    /\ stream[s].at = "preparing"
    /\ stream' = [stream EXCEPT
         ![s].at = IF stream[s].rag /\ ShouldUseRag(stream[s].terms)
                   THEN "retrieving" ELSE "answering"]
    /\ UNCHANGED <<caps, gate, conv, log>>

\* prepareGroundedAnswer: with evidence, or with none.
Retrieve(s, evidence) ==
    /\ stream[s].at = "retrieving"
    /\ stream' = [stream EXCEPT ![s].at = "answering", ![s].evidence = evidence]
    /\ UNCHANGED <<caps, gate, conv, log>>

RetrievalFails(s) ==
    /\ stream[s].at = "retrieving"
    /\ Finish(s, TRUE)
    /\ UNCHANGED <<caps, conv, log>>

\* buildInsufficientEvidenceAnswer: no model is asked.
Abstain(s) ==
    /\ stream[s].at = "answering" /\ stream[s].evidence = "empty"
    /\ stream' = [stream EXCEPT ![s].at = "saving", ![s].text = "abstained"]
    /\ UNCHANGED <<caps, gate, conv, log>>

AsksModel(s) == stream[s].at = "answering" /\ stream[s].evidence # "empty"

\* A piece of the answer. When the client has left, the loop breaks and what
\* was written so far is the answer.
ReceiveChunk(s) ==
    /\ AsksModel(s)
    /\ IF ~stream[s].left THEN stream' = [stream EXCEPT ![s].text = "part"]
       ELSE stream' = [stream EXCEPT ![s].at = "saving"]
    /\ UNCHANGED <<caps, gate, conv, log>>

\* The provider ends the answer; an empty one is not saved.
AnswerEnds(s, text) ==
    /\ AsksModel(s)
    /\ stream[s].text = "part" => text = "whole"
    /\ stream' = [stream EXCEPT ![s].at = "saving", ![s].text = text]
    /\ UNCHANGED <<caps, gate, conv, log>>

\* Mutant: what was written before a failure of the provider is kept.
KeepPart(s) ==
    /\ stream' = [stream EXCEPT ![s].at = "saving", ![s].failed = TRUE]
    /\ UNCHANGED gate

\* The catch block: the client hears of the failure, unless it left.
Fail(s) == Finish(s, TRUE)

AnswerFails(s) ==
    /\ AsksModel(s) \/ stream[s].at = "preparing"
    /\ Fail(s)
    /\ UNCHANGED <<caps, conv, log>>

\* Mutant: the signal is not given to the retrieval.
AbortWakesModel(s) ==
    /\ stream[s].left /\ AsksModel(s)
    /\ Finish(s, FALSE)
    /\ UNCHANGED <<caps, conv, log>>

\* The abort signal ends the retrieval or the model's answer.
AbortWakes(s) ==
    /\ stream[s].left /\ (stream[s].at = "retrieving" \/ AsksModel(s))
    /\ Finish(s, FALSE)
    /\ UNCHANGED <<caps, conv, log>>

\* verifyAnswerGrounding, then the answer is inserted (and its trace in the
\* background, insertRagRunForMessage).
SaveAnswer(s) ==
    LET c == stream[s].in
        r == stream[s]
    IN
    /\ r.at = "saving" /\ r.text # "none" /\ conv[c].there
    /\ Len(log[c]) < MaxMessages
    /\ log' = [log EXCEPT ![c] = Append(@, Row(s, "assistant", r.text))]
    /\ stream' = [stream EXCEPT ![s].at = "telling"]
    /\ UNCHANGED <<caps, gate, conv>>

NothingToSave(s) ==
    /\ stream[s].at = "saving" /\ stream[s].text = "none"
    /\ Finish(s, FALSE)
    /\ UNCHANGED <<caps, conv, log>>

\* The conversation was deleted, or the database failed.
SaveFails(s) ==
    /\ stream[s].at = "saving" /\ stream[s].text # "none"
    /\ Finish(s, TRUE)
    /\ UNCHANGED <<caps, conv, log>>

TellAnswer(s) ==
    /\ stream[s].at = "telling"
    /\ Finish(s, FALSE)
    /\ UNCHANGED <<caps, conv, log>>

\* updateConversationTitleIfPlaceholder
TitleIfPlaceholder(c, title) ==
    IF conv[c].title = "placeholder" THEN title ELSE conv[c].title

\* generateConversationTitle: the model names the conversation, or fails.
GenerateTitle(s, ok) ==
    LET c == stream[s].in IN
    /\ stream[s].titling
    /\ conv' = IF ok /\ conv[c].there
               THEN [conv EXCEPT ![c].title = TitleIfPlaceholder(c, "generated")]
               ELSE conv
    /\ stream' = [stream EXCEPT ![s].titling = FALSE]
    /\ UNCHANGED <<caps, gate, log>>

\* The client closes the connection, by a stop or otherwise.
ClientLeaves(s) ==
    /\ stream[s].at \in {"finding"} \cup Working /\ ~stream[s].left
    /\ stream' = [stream EXCEPT ![s].left = TRUE]
    /\ UNCHANGED <<caps, gate, conv, log>>

-----------------------------------------------------------------------------
(* The user's other requests. *)

\* updateConversation: with a title, or the settings.
RenameConversation(c) ==
    /\ conv[c].there
    /\ conv' = [conv EXCEPT ![c].title = "chosen"]
    /\ UNCHANGED <<caps, gate, log, stream>>

\* deleteConversation: the messages go with it.
DeleteConversation(c) ==
    /\ conv[c].there
    /\ conv' = [conv EXCEPT ![c].there = FALSE]
    /\ log' = [log EXCEPT ![c] = <<>>]
    /\ UNCHANGED <<caps, gate, stream>>

\* deleteMessage
RemoveMessage(c, i) ==
    /\ log' = [log EXCEPT ![c] = RemoveAt(@, i)]
    /\ UNCHANGED <<caps, gate, conv, stream>>

\* truncateConversation: from a question on.
TruncateConversation(c, i) ==
    /\ log[c][i].role = "user"
    /\ log' = [log EXCEPT ![c] = SubSeq(@, 1, i - 1)]
    /\ UNCHANGED <<caps, gate, conv, stream>>

\* What a stream does with the database and the signal alone.
StreamStep(s) ==
    \/ FindConversation(s) \/ InsertQuestion(s) \/ QuestionFails(s)
    \/ Prepare(s) \/ Abstain(s) \/ AbortWakes(s)
    \/ SaveAnswer(s) \/ NothingToSave(s) \/ SaveFails(s) \/ TellAnswer(s)

ChatNext ==
    \/ \E s \in Stream :
         \/ \E c \in Conversation, terms \in Message : Post(s, c, terms)
         \/ StreamStep(s)
         \/ \E evidence \in {"found", "empty"} : Retrieve(s, evidence)
         \/ RetrievalFails(s) \/ AnswerFails(s) \/ ReceiveChunk(s)
         \/ \E text \in {"none", "whole"} : AnswerEnds(s, text)
         \/ \E ok \in BOOLEAN : GenerateTitle(s, ok)
         \/ ClientLeaves(s)
    \/ \E c \in Conversation :
         \/ RenameConversation(c)
         \/ DeleteConversation(c)
         \/ \E i \in DOMAIN log[c] : RemoveMessage(c, i) \/ TruncateConversation(c, i)

\* The database answers or its query times out, and an abort is delivered;
\* nothing obliges a provider, the retrieval or a client.
ChatFairness == \A s \in Stream : WF_chatVars(StreamStep(s))

ChatSpec == ChatInit /\ [][ChatNext]_chatVars /\ ChatFairness

-----------------------------------------------------------------------------

\* The gate counts the streams that run, in all and of each user, within the
\* limits, however streams end (concurrencyGate.ts, the finally block).
GateCountsStreams ==
    /\ ChatTypeOK
    /\ LET running == {s \in Stream : stream[s].at \in Working} IN
       /\ gate.total = Cardinality(running) /\ gate.total <= caps.total
       /\ \A u \in User :
            /\ gate.by[u] = Cardinality({s \in running : UserOf(s) = u})
            /\ gate.by[u] <= caps.user

\* A half answer is kept only of a client that left, and a client that was
\* told of a failure finds no answer of that question when it comes back
\* (createChatStream's loop and catch block).
HalfAnswersAreStops ==
    \A c \in Conversation : \A i \in DOMAIN log[c] :
      LET row == log[c][i] IN row.role = "assistant" =>
        /\ row.text = "part" => stream[row.by].left
        /\ ~stream[row.by].failed

\* When the client leaves, the stream ends and its place is free, whatever the
\* provider and the retrieval do (abortUpstreamStream, isChatConnectionClosed).
LeavingFreesThePlace ==
    []<>(\A s \in Stream : stream[s].left => stream[s].at = "over")
=============================================================================
