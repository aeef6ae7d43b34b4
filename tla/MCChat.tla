------------------------------- MODULE MCChat -------------------------------
(* The streams and the history of the server's chat share the database, not a *)
(* state, and an answer's sources are worked out within one step of a stream: *)
(* a behaviour is about one of the three.                                     *)
EXTENDS ChatStreams, MessageHistory, GroundedAnswers

CONSTANTS u1, c1

VARIABLE focus

OwnerOfAll == [c \in {c1} |-> u1]
TriedCaps == {[total |-> 2, user |-> 2], [total |-> 1, user |-> 2]}
TriedMessages == {{"skip"}, {"skip", "knowledge"}}

\* Two files, the second passage of one with the text of the other's first, an
\* inventory, and a passage with no text.
DocumentOf(id, file, kind, text, body, score) ==
    [id |-> id, file |-> file, kind |-> kind, text |-> text, head |-> 2, body |-> body, score |-> score]
TriedDocuments ==
    {DocumentOf(1, "f", "passage", "x", 3, 9), DocumentOf(2, "f", "passage", "y", 6, 5),
     DocumentOf(3, "g", "passage", "y", 6, 0), DocumentOf(4, "g", "passage", "z", 5, 7),
     DocumentOf(5, "i", "inventory", "list", 3, 0), DocumentOf(6, "g", "passage", "w", 0, 7)}
\* Claims of each kind that the check tells apart, with and without citations.
ClaimOf(cites, says, against, exact, deep, cautious) ==
    [cites |-> cites, says |-> says, against |-> against, exact |-> exact, deep |-> deep,
     cautious |-> cautious]
TriedClaims ==
    {ClaimOf({}, "x", "none", TRUE, FALSE, FALSE), ClaimOf({}, "y", "none", FALSE, FALSE, FALSE),
     ClaimOf({1}, "x", "none", TRUE, TRUE, FALSE), ClaimOf({2}, "y", "none", TRUE, FALSE, FALSE),
     ClaimOf({1, 2}, "y", "x", TRUE, FALSE, FALSE), ClaimOf({1}, "x", "none", FALSE, FALSE, FALSE),
     ClaimOf({}, "z", "none", TRUE, TRUE, TRUE), ClaimOf({3}, "z", "y", TRUE, FALSE, FALSE)}

Init ==
    /\ ChatInit /\ HistoryInit /\ GroundedInit
    /\ focus \in {"streams", "history", "answers"}
    /\ focus # "streams" => caps.total = 1 /\ conv[c1].rag

Next ==
    \/ focus = "streams" /\ ChatNext /\ UNCHANGED <<focus, historyVars, groundedVars>>
    \/ focus = "history" /\ HistoryNext /\ UNCHANGED <<focus, chatVars, groundedVars>>
    \/ focus = "answers" /\ GroundedNext /\ UNCHANGED <<focus, chatVars, historyVars>>

Spec == Init /\ [][Next]_<<focus, chatVars, historyVars, groundedVars>> /\ ChatFairness

PagesSpec == Init /\ focus = "history" /\ [][Next]_<<focus, chatVars, historyVars, groundedVars>>
=============================================================================
