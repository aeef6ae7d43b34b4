---------------------------- MODULE ClientForms ----------------------------
(* Two forms of the web client that edit a copy of what they show: the page  *)
(* of the prompt templates, with the rows it reads and writes, and the       *)
(* settings dialog of the chat. Answers arrive while a form is used.         *)
EXTENDS Integers, Sequences, FiniteSets, SequencesExt, ArrayFilter

CONSTANTS
    Template,  \* the ids of templates, those that exist at first among them
    Given, Label,  \* and the names a user may give them
    Chat,      \* the conversations of the settings dialog
    NoRow      \* no template, no conversation, no draft

\* What has no name: no row, and a field that is empty.
Unnamed == "unnamed"

ASSUME FormsAssumption ==
    /\ Given \subseteq Template /\ Template \subseteq Nat /\ IsFiniteSet(Template)
    /\ Unnamed \notin Label
    /\ Cardinality(Given) <= Cardinality(Label)
    /\ NoRow \notin Template \cup Chat

VARIABLES
    library,  \* the rows of the templates and the ids given so far
    page,     \* the page of the templates
    listing, saving,  \* its requests: for the list, for one change
    told,     \* (history) no change was made elsewhere or before the list
              \* came, and no answer to one was lost
    dialog,   \* the settings dialog and the selected conversation
    settings, \* of each conversation, as shown and as stored
    patches,  \* the saves of the dialog that wait for their answers
    moved     \* (history) the selection moved under an open dialog

templateVars == <<library, page, listing, saving, told>>
dialogVars == <<dialog, settings, patches, moved>>
formVars == <<templateVars, dialogVars>>

TemplateItem == [id : Template, name : Label]
\* The settings of a conversation, and for which one they were made.
Setting == [text : 0..1, of : Chat]
NoSave == [kind |-> "none", of |-> NoRow, name |-> Unnamed, at |-> "none"]

FormsTypeOK ==
    /\ library.rows \in [Template -> Label \cup {Unnamed}] /\ library.spent \subseteq Template
    /\ page.list \in Seq(TemplateItem) /\ page.selected \in Template \cup {NoRow}
    /\ page.mode \in {"none", "view", "edit", "create"} /\ page.draft \in Label \cup {Unnamed}
    /\ listing.at \in {"asked", "served", "ended"}
    /\ saving.kind \in {"none", "create", "update", "delete"}
    /\ {page.error, told, moved, dialog.open} \subseteq BOOLEAN
    /\ dialog.current \in Chat \cup {NoRow} /\ dialog.draft \in Setting \cup {NoRow}
    /\ settings \in [{"shown", "stored"} -> [Chat -> Setting]]
    /\ patches \subseteq [to : Chat, value : Setting, before : [Chat -> Setting]]

FormsInit ==
    /\ \E names \in [Template -> Label \cup {Unnamed}] :
         /\ \A t \in Template : names[t] # Unnamed <=> t \in Given
         /\ IsInjective([t \in Given |-> names[t]])
         /\ library = [rows |-> names, spent |-> Given]
    /\ page = [list |-> <<>>, selected |-> NoRow, mode |-> "none", draft |-> Unnamed,
               error |-> FALSE]
    /\ listing = [at |-> "asked", rows |-> library.rows]
    /\ saving = NoSave /\ told = TRUE
    /\ \E c \in Chat : dialog = [open |-> FALSE, draft |-> NoRow, current |-> c]
    /\ settings = [s \in {"shown", "stored"} |-> [c \in Chat |->
                     [text |-> 0, of |-> c]]]
    /\ patches = {} /\ moved = FALSE

-----------------------------------------------------------------------------
(* The rows of the templates.                                                *)

\* A name is given once (prompt_templates_user_lower_name_idx).
NameFree(t, name) == \A other \in Template \ {t} : library.rows[other] # name

RefuseTemplate == saving' = [saving EXCEPT !.at = "refused"] /\ UNCHANGED library

InsertTemplate ==
    LET ids == Template \ library.spent IN
    /\ saving.kind = "create" /\ saving.at = "asked"
    /\ IF ~NameFree(NoRow, saving.name) THEN RefuseTemplate
       ELSE \E t \in ids :
              /\ \A other \in ids : t <= other
              /\ library' = [rows |-> [library.rows EXCEPT ![t] = saving.name],
                             spent |-> library.spent \cup {t}]
              /\ saving' = [saving EXCEPT !.of = t, !.at = "done"]
    /\ UNCHANGED <<page, listing, told, dialogVars>>

UpdateTemplate ==
    /\ saving.kind = "update" /\ saving.at = "asked"
    /\ IF library.rows[saving.of] = Unnamed \/ ~NameFree(saving.of, saving.name) THEN RefuseTemplate
       ELSE /\ library' = [library EXCEPT !.rows[saving.of] = saving.name]
            /\ saving' = [saving EXCEPT !.at = "done"]
    /\ UNCHANGED <<page, listing, told, dialogVars>>

RemoveTemplate ==
    /\ saving.kind = "delete" /\ saving.at = "asked"
    /\ IF library.rows[saving.of] = Unnamed THEN RefuseTemplate
       ELSE /\ library' = [library EXCEPT !.rows[saving.of] = Unnamed]
            /\ saving' = [saving EXCEPT !.at = "done"]
    /\ UNCHANGED <<page, listing, told, dialogVars>>

ListingServed ==
    /\ listing.at = "asked"
    /\ listing' = [at |-> "served", rows |-> library.rows]
    /\ UNCHANGED <<library, page, saving, told, dialogVars>>

\* Another page of the user renames or deletes a template (a bound: once).
ChangedElsewhere ==
    /\ told
    /\ \E t \in Template, name \in Label \cup {Unnamed} :
         /\ library.rows[t] \notin {Unnamed, name} /\ (name = Unnamed \/ NameFree(t, name))
         /\ library' = [library EXCEPT !.rows[t] = name]
    /\ told' = FALSE
    /\ UNCHANGED <<page, listing, saving, dialogVars>>

-----------------------------------------------------------------------------
(* The page of the templates.                                                *)

Items(rows) == {[id |-> t, name |-> rows[t]] : t \in {u \in Template : rows[u] # Unnamed}}

\* fetchTemplates
ListingAnswered ==
    /\ listing.at = "served"
    /\ page' = [page EXCEPT !.list = SetToSeq(Items(listing.rows))]
    /\ listing' = [listing EXCEPT !.at = "ended"]
    /\ UNCHANGED <<library, saving, told, dialogVars>>

ListingFails ==
    /\ listing.at \in {"asked", "served"}
    /\ page' = [page EXCEPT !.error = TRUE]
    /\ listing' = [listing EXCEPT !.at = "ended"] /\ told' = FALSE
    /\ UNCHANGED <<library, saving, dialogVars>>

ListedAt(t) == {i \in DOMAIN page.list : page.list[i].id = t}
FormOpen == page.mode \in {"edit", "create"}
ViewOpen == page.mode = "view" /\ ListedAt(page.selected) # {}
OnlyPage == UNCHANGED <<library, listing, saving, told, dialogVars>>

\* A card, which no dialog covers and a list that is read shows.
OpenTemplateView(i) ==
    /\ ~FormOpen /\ ~ViewOpen /\ listing.at = "ended"
    /\ page' = [page EXCEPT !.selected = page.list[i].id, !.draft = page.list[i].name,
                            !.error = FALSE, !.mode = "view"]
    /\ OnlyPage

\* Also while the deletion of the template waits for its answer.
OpenTemplateEditor ==
    /\ ViewOpen
    /\ \E i \in ListedAt(page.selected) :
         page' = [page EXCEPT !.draft = page.list[i].name, !.error = FALSE, !.mode = "edit"]
    /\ OnlyPage

NewTemplate ==
    /\ ~FormOpen /\ ~ViewOpen
    /\ page' = [page EXCEPT !.selected = NoRow, !.draft = Unnamed, !.error = FALSE,
                            !.mode = "create"]
    /\ OnlyPage

CloseTemplate ==
    /\ FormOpen \/ ViewOpen
    /\ saving = NoSave
    /\ page' = [page EXCEPT !.mode = "none", !.error = FALSE]
    /\ OnlyPage

TypeTemplate(name) ==
    /\ FormOpen /\ page.draft # name
    /\ page' = [page EXCEPT !.draft = name]
    /\ OnlyPage

\* A change of a template is asked for.
AskFor(kind, t) ==
    /\ saving' = [kind |-> kind, of |-> t, name |-> page.draft, at |-> "asked"]
    /\ page' = [page EXCEPT !.error = FALSE]
    /\ told' = (told /\ listing.at = "ended")
    /\ UNCHANGED <<library, listing, dialogVars>>

SaveTemplate ==
    /\ FormOpen /\ saving = NoSave
    /\ page.mode = "create" => library.spent # Template
    /\ IF page.draft = Unnamed THEN page' = [page EXCEPT !.error = TRUE] /\ OnlyPage
       ELSE IF page.mode = "edit" THEN AskFor("update", page.selected)
       ELSE AskFor("create", NoRow)

DeleteTemplate == ViewOpen /\ saving = NoSave /\ AskFor("delete", page.selected)

SavedItem == [id |-> saving.of, name |-> saving.name]

\* What the list becomes by an answer.
ToldList(list) ==
    CASE saving.kind = "create" -> <<SavedItem>> \o list
      [] saving.kind = "update" -> [i \in DOMAIN list |->
                                      IF list[i].id = saving.of THEN SavedItem ELSE list[i]]
      [] saving.kind = "delete" -> Without(list, {i \in DOMAIN list : list[i].id = saving.of})

\* The answer shows the template, and what was typed meanwhile is gone.
SaveAnswered ==
    /\ saving.kind \in {"create", "update"} /\ saving.at = "done"
    /\ page' = [page EXCEPT !.list = ToldList(@), !.selected = saving.of, !.mode = "view"]
    /\ saving' = NoSave
    /\ UNCHANGED <<library, listing, told, dialogVars>>

DeleteAnswered ==
    /\ saving.kind = "delete" /\ saving.at = "done"
    /\ page' = [page EXCEPT !.list = ToldList(@), !.selected = NoRow, !.draft = Unnamed,
                            !.mode = "none"]
    /\ saving' = NoSave
    /\ UNCHANGED <<library, listing, told, dialogVars>>

\* The change was refused, or its answer is lost.
ChangeFails ==
    /\ saving # NoSave
    /\ page' = [page EXCEPT !.error = TRUE]
    /\ told' = (told /\ saving.at # "done")
    /\ saving' = NoSave
    /\ UNCHANGED <<library, listing, dialogVars>>

-----------------------------------------------------------------------------
(* The settings dialog.                                                      *)

OnlyDialog == UNCHANGED <<settings, patches, templateVars>>

\* The settings of the form: what is shown of the conversation of now, until a
\* change copies all of it.
FormOf == IF dialog.draft # NoRow THEN dialog.draft ELSE settings["shown"][dialog.current]

ChangeSettings ==
    /\ dialog.open /\ dialog.current # NoRow
    /\ \E text \in 0..1 : dialog' = [dialog EXCEPT !.draft = [FormOf EXCEPT !.text = text]]
    /\ UNCHANGED moved
    /\ OnlyDialog

\* handleReset: the defaults.
ResetSettings ==
    /\ dialog.open /\ dialog.current # NoRow
    /\ dialog' = [dialog EXCEPT !.draft = [text |-> 0, of |-> dialog.current]]
    /\ UNCHANGED moved
    /\ OnlyDialog

ClosedDialog(d) == [d EXCEPT !.open = FALSE, !.draft = NoRow]

\* Mutant: the draft outlives the dialog.
CloseKeepingTheDraft ==
    /\ dialog.open
    /\ dialog' = [dialog EXCEPT !.open = FALSE]
    /\ UNCHANGED moved
    /\ OnlyDialog

CloseSettings ==
    /\ dialog.open
    /\ dialog' = ClosedDialog(dialog)
    /\ UNCHANGED moved
    /\ OnlyDialog

OpenSettings ==
    /\ ~dialog.open
    /\ dialog' = [dialog EXCEPT !.open = TRUE]
    /\ UNCHANGED moved
    /\ OnlyDialog

\* What is unchanged cannot be saved.
Dirty ==
    dialog.draft # NoRow /\ dialog.draft.text # settings["shown"][dialog.current].text

\* handleSave, up to its answer: the conversation of now gets all of the form.
\* (A bound: one save at a time.)
SaveSettings ==
    LET c == dialog.current IN
    /\ dialog.open /\ patches = {} /\ c # NoRow
    /\ Dirty
    /\ settings' = [settings EXCEPT !["shown"][c] = dialog.draft]
    /\ patches' = {[to |-> c, value |-> dialog.draft, before |-> settings["shown"]]}
    /\ UNCHANGED <<dialog, moved, templateVars>>

\* Either end of the save closes the dialog, whatever it shows by then.
PatchEnds(p) ==
    /\ patches' = patches \ {p}
    /\ dialog' = ClosedDialog(dialog)
    /\ UNCHANGED <<moved, templateVars>>

PatchAnswered ==
    \E p \in patches :
        /\ settings' = [s \in {"shown", "stored"} |-> [settings[s] EXCEPT ![p.to] = p.value]]
        /\ PatchEnds(p)

PatchFails ==
    \E p \in patches, taken \in BOOLEAN :
        /\ settings' = [shown |-> p.before,
                        stored |-> IF taken THEN [settings["stored"] EXCEPT ![p.to] = p.value]
                                   ELSE settings["stored"]]
        /\ PatchEnds(p)

\* The user selects another conversation, which an open dialog covers; a late
\* answer to a creation or a deletion selects one all the same.
SelectChat ==
    /\ \E c \in Chat \cup {NoRow} : dialog' = [dialog EXCEPT !.current = c]
    /\ dialog.current # dialog'.current
    /\ moved' = (moved \/ (dialog.open /\ dialog.draft # NoRow))
    /\ OnlyDialog

-----------------------------------------------------------------------------
TemplatesNext ==
    \/ InsertTemplate \/ UpdateTemplate \/ RemoveTemplate \/ ListingServed \/ ChangedElsewhere
    \/ ListingAnswered \/ ListingFails
    \/ \E i \in DOMAIN page.list : OpenTemplateView(i)
    \/ OpenTemplateEditor \/ NewTemplate \/ CloseTemplate
    \/ \E name \in Label \cup {Unnamed} : TypeTemplate(name)
    \/ SaveTemplate \/ DeleteTemplate
    \/ SaveAnswered \/ DeleteAnswered \/ ChangeFails

DialogNext ==
    \/ ChangeSettings \/ ResetSettings \/ CloseSettings \/ OpenSettings \/ SaveSettings
    \/ PatchAnswered \/ PatchFails \/ SelectChat

FormsSpec == FormsInit /\ [][TemplatesNext \/ DialogNext]_formVars

-----------------------------------------------------------------------------
\* The list of the templates is the rows, each once, when nothing is under way
\* and every change was told to the page after its list came.
TemplatesSettle ==
    told /\ listing.at = "ended" /\ saving = NoSave =>
        /\ ToSet(page.list) = Items(library.rows)
        /\ Len(page.list) = Cardinality(Items(library.rows))

\* The settings of a conversation are never those of another one, which the
\* form had copied before (but when the selection moved under the form).
SettingsReachTheirChat ==
    \A s \in DOMAIN settings, c \in Chat : settings[s][c].of = c \/ moved

\* A form writes what it shows, to the row it shows: the page of the templates
\* (PromptTemplates.tsx) and the settings dialog (ChatSettingsDialog.tsx).
FormsReachTheirRows == FormsTypeOK /\ TemplatesSettle /\ SettingsReachTheirChat
=============================================================================
