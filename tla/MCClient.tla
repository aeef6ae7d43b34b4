------------------------------ MODULE MCClient ------------------------------
(* TLC instance of the web client: its chat, its lists, its documents, its    *)
(* uploads and its forms share no state, so a behaviour is about one of them. *)
EXTENDS ChatView, ClientLists, KnowledgeFiles, UploadTab, ClientForms

CONSTANT MaxViewSteps  \* bound: changes in the chat and, counted twice, its questions

VARIABLE about

Init ==
    /\ ViewInit /\ ListsInit /\ FilesInit /\ TabInit /\ FormsInit
    /\ about \in List \cup {"chat", "search", "files", "uploads", "templates", "settings"}
    /\ about # "spaces" => lists["spaces"].current = Nothing
    /\ about # "files" => /\ view.of = CHOOSE s \in Space : TRUE
                          /\ \A s \in Space : ~working[s]
    /\ about # "templates" => \A t \in Given : library.rows[t] = CHOOSE l \in Label : TRUE
    /\ about # "settings" => dialog.current = CHOOSE c \in Chat : TRUE
    /\ about # "uploads" => \A d \in Doc : remote[d].direct

(* The requests for one list do not depend on the other list.               *)
OnlyThisList ==
    \A k \in List \ {about} :
        lists'[k] = lists[k] /\ \A o \in ops' : o.list = about

(* Bound: a conversation is archived before the other changes of the chat.   *)
ArchivedFirst == op'.kind = "archive" => changes' = 1

Next ==
    /\ \/ /\ about = "chat" /\ ViewNext /\ 2 * turns' + changes' <= MaxViewSteps
          /\ ArchivedFirst
          /\ UNCHANGED <<listVars, fileVars, tabVars, formVars>>
       \/ about \in List /\ ListsNext /\ OnlyThisList /\ UNCHANGED <<viewVars, fileVars, tabVars, formVars>>
       \/ about = "search" /\ SearchNext /\ UNCHANGED <<viewVars, fileVars, tabVars, formVars>>
       \/ about = "files" /\ FilesNext /\ UNCHANGED <<viewVars, listVars, tabVars, formVars>>
       \/ about = "templates" /\ TemplatesNext /\ UNCHANGED <<viewVars, listVars, fileVars, tabVars>>
       \/ about = "settings" /\ DialogNext /\ UNCHANGED <<viewVars, listVars, fileVars, tabVars>>
       \/ about = "uploads" /\ TabNext /\ UNCHANGED <<viewVars, listVars, fileVars, formVars>>
    /\ UNCHANGED about

ClientSpec ==
    Init /\ [][Next]_<<about, viewVars, listVars, fileVars, tabVars, formVars>> /\ FilesFairness
=============================================================================
