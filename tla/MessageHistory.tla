--------------------------- MODULE MessageHistory ---------------------------
(* The messages of a conversation as the database keeps them: by a creation *)
(* time in microseconds and a random id. What leaves the database as a      *)
(* JavaScript Date, a cursor or the time of a selected message, has only    *)
(* milliseconds. A branch copies messages in one transaction, whose now()   *)
(* is the time of all the copies; a client reads a conversation page by     *)
(* page, newest first, while messages are added, deleted and truncated.     *)
EXTENDS Integers, FiniteSets, FiniteSetsExt

CONSTANTS
    MessageId,  \* uuids, as numbers: their order is random
    PerMilli,   \* units of the database's clock in a millisecond
    MaxClock,   \* bound of the clock
    PageLimit,  \* messages of a page
    NoMessage

ASSUME MessageHistoryAssumption ==
    /\ MessageId \subseteq Nat /\ PerMilli \in Nat \ {0}
    /\ MaxClock \in Nat /\ PageLimit \in Nat \ {0}
    /\ NoMessage \notin MessageId

VARIABLES
    clock,   \* now() of the database
    rows,    \* messages
    reader,  \* a client that reads a conversation page by page
    cutAt    \* history: the position from which a conversation was truncated

historyVars == <<clock, rows, reader, cutAt>>

Room == {"main", "branch"}
Ids == {m.id : m \in rows}
In(room) == {m \in rows : m.room = room}
\* An id is never used again: none that the reader saw is fresh.
Fresh == MessageId \ (Ids \cup reader.of \cup reader.got)
NoReader == [room |-> "main", cursor |-> NoMessage, got |-> {}, of |-> {},
             end |-> FALSE, on |-> FALSE]

\* history: "place" is a message's place in what the user wrote and read.
MessageRow == [id : MessageId, room : Room, at : Nat,
               role : {"user", "assistant"}, place : Nat]

HistoryTypeOK ==
    /\ clock \in 0..MaxClock
    /\ rows \subseteq MessageRow
    /\ \A m1, m2 \in rows : m1.id = m2.id => m1 = m2
    /\ reader \in [room : Room, got : SUBSET MessageId, of : SUBSET MessageId,
                   cursor : {NoMessage} \cup [id : MessageId,
                                  createdAt : Nat \cup {NoMessage}],
                   end : BOOLEAN, on : BOOLEAN]
    /\ cutAt \in [Room -> Nat \cup {NoMessage}]

HistoryInit ==
    /\ clock = 0
    /\ rows = {}
    /\ reader = NoReader
    /\ cutAt = [c \in Room |-> NoMessage]

\* The time of a row as a Date.
Millis(at) == at - (at % PerMilli)

\* (created_at, id) < (at, id).
Before(m, at, id) == m.at < at \/ (m.at = at /\ m.id < id)
Newer(m, n) == Before(n, m.at, m.id)

\* Places only tell which message came first: the next one is the last.
NextPlace(room) == Max({m.place : m \in In(room)} \cup {0}) + 1

\* insertMessage: each in a transaction of its own, at a time of its own.
InsertMessage(id, role, gap) ==
    /\ id \in Fresh /\ clock + gap <= MaxClock
    /\ clock' = clock + gap
    /\ rows' = rows \cup {[id |-> id, room |-> "main", at |-> clock + gap,
                           role |-> role, place |-> NextPlace("main")]}
    /\ cutAt' = [cutAt EXCEPT !["main"] = NoMessage]
    /\ UNCHANGED reader

\* createConversationBranchForUser: up to a message, or the whole.
CopiedUpTo(m) == {n \in In("main") : m # NoMessage => n.at <= Millis(m.at)}

Branch(m) ==
    LET copied == CopiedUpTo(m) IN
    /\ In("branch") = {} /\ clock < MaxClock
    /\ m = NoMessage \/ m \in In("main")
    /\ clock' = clock + 1
    /\ \E ids \in [copied -> Fresh] :
         /\ \A n1, n2 \in copied : ids[n1] = ids[n2] => n1 = n2
         /\ rows' = rows \cup {[n EXCEPT !.id = ids[n], !.room = "branch",
                                         !.at = clock + 1] : n \in copied}
    /\ cutAt' = [cutAt EXCEPT !["branch"] = NoMessage]
    /\ UNCHANGED reader

\* Mutant: the selected message stays.
GoneWithLater(m) == {n \in In(m.room) : n.at > m.at}

\* truncateConversationFromUserMessage: the message and what came later.
GoneWith(m) == {n \in In(m.room) : n.at >= Millis(m.at)}

TruncateFrom(m) ==
    /\ m \in rows /\ m.role = "user"
    /\ rows' = rows \ GoneWith(m)
    /\ cutAt' = [cutAt EXCEPT ![m.room] = m.place]
    /\ UNCHANGED <<clock, reader>>

DeleteMessage(m) ==
    /\ m \in rows
    /\ rows' = rows \ {m}
    /\ UNCHANGED <<clock, reader, cutAt>>

\* normalizeTimestamp takes texts only, and the driver reads a timestamptz as a
\* Date.
NormalizedTime(value) == IF value.kind = "text" THEN value.ms ELSE NoMessage
CreatedAt(m) == [kind |-> "date", ms |-> Millis(m.at)]

\* encodeMessageCursor: of the oldest message of a page.
Cursor(m) == [id |-> m.id, createdAt |-> NormalizedTime(CreatedAt(m))]

\* decodeMessageCursor, normalizeMessagePageQuery.
ValidCursor(cursor) == cursor.createdAt # NoMessage

\* The filter of listMessagesForConversationPage.
PastCursor(m) ==
    reader.cursor = NoMessage \/ Before(m, reader.cursor.createdAt, reader.cursor.id)

\* The newest messages past the cursor, one more than the page shows to learn
\* whether there are others; a request with a cursor that is not valid is
\* refused.
ReadPage ==
    LET past == {m \in In(reader.room) : PastCursor(m)}
        page == {m \in past : Cardinality({n \in past : Newer(n, m)})
                                < PageLimit}
        oldest == CHOOSE m \in page : \A n \in page : n = m \/ Newer(n, m)
        more == Cardinality(past) > PageLimit
    IN
    /\ reader.on /\ ~reader.end
    /\ reader' = IF reader.cursor = NoMessage \/ ValidCursor(reader.cursor)
                 THEN [reader EXCEPT
                         !.got = @ \cup {m.id : m \in page},
                         !.end = ~more,
                         !.cursor = IF more THEN Cursor(oldest) ELSE NoMessage]
                 ELSE [reader EXCEPT !.end = TRUE]
    /\ UNCHANGED <<clock, rows, cutAt>>

\* A client opens the conversation: the first page is the newest.
OpenConversation(room) ==
    /\ ~reader.on
    /\ reader' = [NoReader EXCEPT !.room = room, !.on = TRUE,
                    !.of = {m.id : m \in In(room)}]
    /\ UNCHANGED <<clock, rows, cutAt>>

HistoryNext ==
    \/ \E id \in MessageId, role \in {"user", "assistant"}, gap \in 1..2 :
         InsertMessage(id, role, gap)
    \/ \E m \in rows \cup {NoMessage} : Branch(m)
    \/ \E m \in rows : TruncateFrom(m) \/ DeleteMessage(m)
    \/ \E room \in Room : OpenConversation(room)
    \/ ReadPage

HistorySpec == HistoryInit /\ [][HistoryNext]_historyVars

-----------------------------------------------------------------------------

\* A regeneration leaves nothing of the conversation from the selected message
\* on, also in a branch, whose messages all have one time
\* (truncateConversationFromUserMessage).
TruncationReachesTheEnd ==
    /\ HistoryTypeOK
    /\ \A room \in Room : cutAt[room] # NoMessage =>
         \A m \in In(room) : m.place < cutAt[room]

\* The cursor leads through the whole conversation: what was there when the
\* client opened it, and still is, has been on a page when it gets no more.
PagesCoverTheConversation ==
    reader.end => reader.of \cap Ids \subseteq reader.got
=============================================================================
