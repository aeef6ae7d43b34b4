----------------------------- MODULE UploadTab -----------------------------
(* The knowledge page as it uploads: the documents that are dropped, one after *)
(* the other or at once, each with its parts in flight, the one banner that     *)
(* tells of all of them, and the server's side as far as the page meets it.     *)
(* A part stands for a part of a direct upload or for a chunk; a document that  *)
(* is being uploaded is not deleted.                                            *)
EXTENDS Naturals, FiniteSets

CONSTANTS
    Doc,          \* documents, each with a name of its own
    Supported,    \* those of a supported type and size
    NoDoc,
    Parts,        \* parts of a document: 1 .. Parts
    Batch,        \* parts whose addresses are asked for at once
    Concurrency,  \* parts in flight at once
    MaxDrops, MaxMishaps   \* bounds

ASSUME UploadTabAssumption ==
    /\ Supported \subseteq Doc /\ NoDoc \notin Doc
    /\ {Parts, Batch, Concurrency} \subseteq Nat \ {0} /\ {MaxDrops, MaxMishaps} \subseteq Nat

VARIABLES
    tab,      \* the upload of each document
    late,     \* parts still in flight of uploads that have failed
    banner,   \* uploadState, and why it is as it is
    timers,   \* errors that are to be cleared, and the one the page can still stop
    remote,   \* the server's side of each document
    bound     \* drops and mishaps so far

tabVars == <<tab, late, banner, timers, remote, bound>>

Part == 1 .. Parts
NoBanner == [name |-> NoDoc, status |-> "none", why |-> "none"]
NoUpload == [at |-> "none", after |-> NoDoc, mode |-> "direct", mayFallBack |-> FALSE,
             fileId |-> FALSE, chunks |-> {}, gen |-> 0, to |-> 0, todo |-> {}, addresses |-> {}, flying |-> {}]
Waiting == {"hashing", "checking", "initing", "presigning", "sending", "completing"}

TabTypeOK ==
    /\ \A d \in Doc :
         /\ tab[d].at \in Waiting \cup {"none", "queued", "over"}
         /\ tab[d].mode \in {"direct", "legacy"} /\ tab[d].after \in Doc \cup {NoDoc}
         /\ tab[d].flying \subseteq tab[d].todo /\ tab[d].todo \subseteq Part
         /\ tab[d].flying # {} => tab[d].at = "sending"
         /\ remote[d].session \in {"none", "open", "expired", "completed"}
         /\ remote[d].file \in {"none", "uploading", "failed", "stored"}
    /\ late \subseteq [doc : Doc, part : Part, gen : Nat, mode : {"direct", "legacy"}]
    /\ banner.name \in Doc \cup {NoDoc} /\ timers.due \subseteq Doc
    /\ bound.drops <= MaxDrops /\ bound.mishaps <= MaxMishaps

TabInit ==
    /\ tab = [d \in Doc |-> NoUpload]
    /\ late = {} /\ banner = NoBanner /\ timers = [due |-> {}, last |-> NoDoc]
    /\ \E direct \in BOOLEAN :
         remote = [d \in Doc |-> [direct |-> direct, file |-> "none", session |-> "none", gen |-> 0,
                                  stored |-> {}, chunks |-> {}]]
    /\ bound = [drops |-> 0, mishaps |-> 0]

Mishap == bound.mishaps < MaxMishaps /\ bound' = [bound EXCEPT !.mishaps = @ + 1]
Tells(d, status) == banner' = [name |-> d, status |-> status, why |-> "upload"]
Goes(d, u) == tab' = [tab EXCEPT ![d] = u]

-----------------------------------------------------------------------------
(* How an upload ends. *)

Flights(d) ==
    {[doc |-> d, part |-> p, gen |-> tab[d].to, mode |-> tab[d].mode] : p \in tab[d].flying}

\* uploadFile and processFile after an error: it is shown, and cleared after
\* five seconds; the other parts stay in flight.
Failed(d) ==
    /\ Goes(d, [tab[d] EXCEPT !.at = "over", !.flying = {}])
    /\ late' = late \cup Flights(d)
    /\ Tells(d, "error")
    /\ timers' = [due |-> timers.due \cup {d}, last |-> d]

Finished(d) ==
    /\ Goes(d, [tab[d] EXCEPT !.at = "over"])
    /\ banner' = NoBanner
    /\ UNCHANGED <<late, timers>>

\* A request is answered 404: without a multipart upload at the check this is
\* taken for a server that has none.
EndpointMissing(d) ==
    IF tab[d].mayFallBack /\ tab[d].mode = "direct"
    THEN /\ Goes(d, [tab[d] EXCEPT !.at = "initing", !.mode = "legacy"])
         /\ UNCHANGED <<late, banner, timers>>
    ELSE Failed(d)

-----------------------------------------------------------------------------
(* Steps of an upload. *)

\* handleDrop, handleFileUpload: one document, or one after another; the button
\* is off while there is a banner, dropping is not.
Drop(d, p) ==
    /\ bound.drops < MaxDrops /\ tab[d].at \in {"none", "over"}
    /\ d \notin timers.due \ {timers.last}
    /\ p \in {NoDoc} \cup {q \in Doc \ {d} : tab[q].at \notin {"none", "over"} /\ tab[q].after # d}
    /\ Goes(d, [NoUpload EXCEPT !.at = "queued", !.after = p])
    /\ bound' = [bound EXCEPT !.drops = @ + 1]
    /\ UNCHANGED <<late, banner, timers, remote>>

\* processFile: a document that is no document is refused without a banner.
Start(d) ==
    /\ tab[d].at = "queued"
    /\ tab[d].after # NoDoc => tab[tab[d].after].at = "over"
    /\ IF d \in Supported
       THEN /\ Goes(d, [tab[d] EXCEPT !.at = "hashing"])
            /\ timers' = [due |-> timers.due \ {timers.last}, last |-> NoDoc]
            /\ Tells(d, "hashing")
       ELSE Goes(d, [tab[d] EXCEPT !.at = "over"]) /\ UNCHANGED <<timers, banner>>
    /\ UNCHANGED <<late, remote, bound>>

Hashed(d) ==
    /\ tab[d].at = "hashing"
    /\ Goes(d, [tab[d] EXCEPT !.at = "checking"]) /\ Tells(d, "hashing")
    /\ UNCHANGED <<late, timers, remote, bound>>

\* The parts that are to be sent, without those the server knows of.
Sending(u, d, known) ==
    [u EXCEPT !.gen = remote'[d].gen, !.todo = Part \ known,
              !.at = IF known = Part THEN "completing" ELSE "presigning"]

\* The check: a file that is not being uploaded exists already, a failed one too;
\* a session that is open is resumed with the parts it lists, of which it knows
\* none when the store does not answer.
CheckAnswers(d, known) ==
    /\ tab[d].at = "checking" /\ known \in {remote[d].stored, {}}
    /\ UNCHANGED <<remote, bound>>
    /\ IF remote[d].file \in {"stored", "failed"} THEN known = {} /\ Finished(d)
       ELSE IF remote[d].session = "expired" THEN known = {} /\ Failed(d)
       ELSE IF remote[d].session = "open"
       THEN /\ Goes(d, Sending(tab[d], d, known)) /\ Tells(d, IF known = Part THEN "merging" ELSE "uploading")
            /\ UNCHANGED <<late, timers>>
       ELSE /\ known = {}
            /\ Goes(d, [tab[d] EXCEPT !.at = "initing", !.mayFallBack = TRUE,
                                      !.fileId = remote[d].file = "uploading",
                                      !.chunks = IF remote[d].file = "uploading" THEN remote[d].chunks ELSE {}])
            /\ UNCHANGED <<late, timers, banner>>

\* A session is opened for the file, unless one is open.
Opened(d) ==
    IF remote[d].session = "open" THEN remote
    ELSE [remote EXCEPT ![d].file = "uploading", ![d].session = "open", ![d].gen = @ + 1, ![d].stored = {}]

\* The direct way: a session is opened, or the open one resumed.
DirectInit(d) ==
    /\ tab[d].at = "initing" /\ tab[d].mode = "direct" /\ UNCHANGED bound
    /\ IF ~remote[d].direct THEN EndpointMissing(d) /\ UNCHANGED remote
       ELSE IF remote[d].file = "stored" THEN Finished(d) /\ UNCHANGED remote
       ELSE IF remote[d].session = "expired" THEN Failed(d) /\ UNCHANGED remote
       ELSE /\ remote' = Opened(d)
            /\ \E known \in {remote'[d].stored, {}} :
                 /\ Goes(d, Sending(tab[d], d, known))
                 /\ Tells(d, IF known = Part THEN "merging" ELSE "uploading")
            /\ UNCHANGED <<late, timers>>

\* The old way: the chunks the check did not know of, sent without asking for
\* addresses.
LegacyInit(d) ==
    /\ tab[d].at = "initing" /\ tab[d].mode = "legacy" /\ UNCHANGED bound
    /\ IF ~tab[d].fileId /\ remote[d].file = "stored" THEN Finished(d) /\ UNCHANGED remote
       ELSE /\ remote' = IF tab[d].fileId THEN remote ELSE [remote EXCEPT ![d].file = "uploading"]
            /\ Goes(d, [tab[d] EXCEPT !.todo = Part \ tab[d].chunks,
                                      !.at = IF tab[d].chunks = Part THEN "completing" ELSE "presigning"])
            /\ Tells(d, IF tab[d].chunks = Part THEN "merging" ELSE "uploading")
            /\ UNCHANGED <<late, timers>>

First(S, n) == {p \in S : Cardinality({q \in S : q < p}) < n}

\* Mutant: what comes after the slice is forgotten.
FliesOnce(u, addresses) ==
    [u EXCEPT !.at = "sending", !.addresses = addresses, !.flying = First(addresses, Concurrency),
              !.todo = First(addresses, Concurrency)]

\* The next slice is sent.
Flies(u, addresses) ==
    [u EXCEPT !.at = "sending", !.addresses = addresses, !.flying = First(addresses, Concurrency)]

\* The addresses of the next parts: they are of the storage upload of now.
Presign(d) ==
    /\ tab[d].at = "presigning"
    /\ IF tab[d].mode = "legacy" \/ remote[d].session = "open"
       THEN /\ Goes(d, Flies([tab[d] EXCEPT !.to = remote[d].gen],
                             IF tab[d].mode = "legacy" THEN tab[d].todo ELSE First(tab[d].todo, Batch)))
            /\ UNCHANGED <<late, banner, timers>>
       ELSE IF remote[d].session = "expired" THEN Failed(d) ELSE EndpointMissing(d)
    /\ UNCHANGED <<remote, bound>>

\* What the server keeps of a part that arrives.
Arrives(d, p, mode, gen) ==
    IF mode = "legacy" THEN [remote EXCEPT ![d].chunks = @ \cup {p}]
    ELSE [remote EXCEPT ![d].stored = @ \cup {p}]
Accepted(d, mode, gen) ==
    IF mode = "legacy" THEN remote[d].file = "uploading"
    ELSE remote[d].session \in {"open", "expired"} /\ remote[d].gen = gen

\* A part is sent: the slice goes on, the next slice is begun, more addresses
\* are asked for, or the upload is completed.
PartSent(d, p) ==
    LET u == tab[d]
        v == [u EXCEPT !.flying = @ \ {p}, !.todo = @ \ {p}, !.addresses = @ \ {p}]
    IN
    /\ p \in u.flying /\ Accepted(d, u.mode, u.to)
    /\ remote' = Arrives(d, p, u.mode, u.to)
    /\ Goes(d, IF v.flying # {} THEN v
               ELSE IF v.addresses # {} THEN Flies(v, v.addresses)
               ELSE IF v.todo # {} THEN [v EXCEPT !.at = "presigning"]
               ELSE [v EXCEPT !.at = "completing"])
    /\ Tells(d, IF tab'[d].at = "completing" THEN "merging" ELSE "uploading")
    /\ UNCHANGED <<late, timers, bound>>

\* A part is refused, or its answer is lost.
PartFails(d, p) ==
    LET u == [tab[d] EXCEPT !.flying = @ \ {p}] IN
    /\ p \in tab[d].flying
    /\ \/ /\ ~Accepted(d, tab[d].mode, tab[d].to) /\ UNCHANGED <<remote, bound>>
       \/ /\ Mishap
          /\ \/ UNCHANGED remote
             \/ Accepted(d, tab[d].mode, tab[d].to) /\ remote' = Arrives(d, p, tab[d].mode, tab[d].to)
    /\ Goes(d, [u EXCEPT !.at = "over", !.flying = {}])
    /\ late' = late \cup {f \in Flights(d) : f.part # p}
    /\ Tells(d, "error")
    /\ timers' = [due |-> timers.due \cup {d}, last |-> d]

\* complete and merge: the server looks whether all is there; a session that is
\* not there any more is in conflict.
Merged(d) ==
    IF tab[d].mode = "legacy" THEN [remote EXCEPT ![d].file = "stored"]
    ELSE [remote EXCEPT ![d].file = "stored", ![d].session = "completed"]
Whole(d) ==
    /\ remote[d].file = "uploading"
    /\ IF tab[d].mode = "legacy" THEN remote[d].chunks = Part
       ELSE remote[d].session = "open" /\ remote[d].stored = Part
Complete(d) ==
    /\ tab[d].at = "completing" /\ UNCHANGED bound
    /\ IF Whole(d) THEN Finished(d) /\ remote' = Merged(d)
       ELSE /\ UNCHANGED remote
            /\ IF tab[d].mode = "direct" /\ remote[d].session = "completed" THEN Finished(d) ELSE Failed(d)

\* A request of a step fails; that of a completion may have had its effect.
StepFails(d) ==
    /\ tab[d].at \in Waiting \ {"sending"} /\ Mishap
    /\ Failed(d)
    /\ \/ UNCHANGED remote
       \/ tab[d].at = "completing" /\ Whole(d) /\ remote' = Merged(d)

-----------------------------------------------------------------------------
(* What goes on without the upload. *)

\* A part of an upload that failed goes on, and tells of it; chunks tell nothing
\* on their way.
LatePartTells(f) ==
    /\ f \in late /\ f.mode = "direct"
    /\ banner' = [name |-> f.doc, status |-> "uploading", why |-> "late"]
    /\ UNCHANGED <<tab, late, timers, remote, bound>>
LatePartEnds(f) ==
    /\ f \in late /\ late' = late \ {f}
    /\ IF Accepted(f.doc, f.mode, f.gen)
       THEN /\ remote' = Arrives(f.doc, f.part, f.mode, f.gen)
            /\ banner' = [name |-> f.doc, status |-> "uploading", why |-> "late"]
       ELSE UNCHANGED <<remote, banner>>
    /\ UNCHANGED <<tab, timers, bound>>

\* Five seconds after an error: it is cleared if it is still shown.
TimerFires(d) ==
    /\ d \in timers.due
    /\ timers' = [due |-> timers.due \ {d}, last |-> NoDoc]
    /\ banner' = IF banner.name = d /\ banner.status = "error" THEN NoBanner ELSE banner
    /\ UNCHANGED <<tab, late, remote, bound>>

\* Another space is selected: the effect that stops the polling stops the timer.
SwitchSpace ==
    /\ timers.last # NoDoc
    /\ timers' = [due |-> timers.due \ {timers.last}, last |-> NoDoc]
    /\ banner' = IF banner.status = "error" THEN [banner EXCEPT !.why = "switch"] ELSE banner
    /\ UNCHANGED <<tab, late, remote, bound>>

\* The session expires, or is cancelled: from another tab, or by the sweep that
\* finds it expired.
SessionExpires(d) ==
    /\ remote[d].session = "open" /\ Mishap
    /\ remote' = [remote EXCEPT ![d].session = "expired"]
    /\ UNCHANGED <<tab, late, banner, timers>>
SessionCancelled(d) ==
    /\ IF remote[d].session = "expired" THEN UNCHANGED bound ELSE remote[d].session = "open" /\ Mishap
    /\ remote' = [remote EXCEPT ![d].session = "none", ![d].stored = {},
                                ![d].file = IF @ = "uploading" THEN "failed" ELSE @]
    /\ UNCHANGED <<tab, late, banner, timers>>

\* Another tab opens a session of the same document.
OtherTabInits(d) ==
    /\ remote[d].direct /\ remote[d].session = "none" /\ remote[d].file # "stored" /\ Mishap
    /\ remote' = Opened(d)
    /\ UNCHANGED <<tab, late, banner, timers>>

TabNext ==
    \/ \E d \in Doc, p \in Doc \cup {NoDoc} : Drop(d, p)
    \/ \E d \in Doc : Start(d) \/ Hashed(d) \/ DirectInit(d) \/ LegacyInit(d) \/ Presign(d)
    \/ \E d \in Doc : Complete(d) \/ StepFails(d)
    \/ \E d \in Doc, known \in SUBSET Part : CheckAnswers(d, known)
    \/ \E d \in Doc, p \in Part : PartSent(d, p) \/ PartFails(d, p)
    \/ \E f \in late : LatePartTells(f)
    \/ \E f \in late : LatePartEnds(f)
    \/ \E d \in Doc : TimerFires(d)
    \/ SwitchSpace
    \/ \E d \in Doc : SessionExpires(d) \/ SessionCancelled(d) \/ OtherTabInits(d)

TabSpec == TabInit /\ [][TabNext]_tabVars

-----------------------------------------------------------------------------
\* The tab asks the server to complete an upload only when every part it has is
\* there, unless the upload was replaced or ended meanwhile; and when all is
\* over the banner is gone, unless a part that was still in flight wrote over the
\* error, or the space was changed while the error was shown
\* (uploadWithDirectMultipart, uploadWithLegacyChunks, processFile).
UploadsSettle ==
    /\ TabTypeOK
    /\ \A d \in Doc : tab[d].at = "completing" =>
         IF tab[d].mode = "legacy" THEN remote[d].chunks = Part
         ELSE remote[d].session = "open" /\ remote[d].gen = tab[d].gen => remote[d].stored = Part
    /\ (\A d \in Doc : tab[d].at \in {"none", "over"}) /\ timers.due = {} /\ banner # NoBanner
         => banner.why \in {"late", "switch"}
=============================================================================
