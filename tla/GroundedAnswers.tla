---------------------------- MODULE GroundedAnswers ----------------------------
(* From what a retrieval finds to the sources that are saved with the answer:  *)
(* the passages are put into the prompt under numbers, the model cites the      *)
(* numbers, and verifyAnswerGrounding checks the answer against the sources. A   *)
(* text stands for what it says; a claim's terms are those of the text it says, *)
(* or of one with the contrary, and if it is deep, of the text's end; and its   *)
(* numbers are those of that text, if it is exact. An evaluation checks answers *)
(* in another way, which is not modelled.                                       *)
EXTENDS Integers, Sequences, FiniteSets, SequencesExt, FiniteSetsExt, ArrayFilter

CONSTANTS
    Document,   \* records: id, file, kind, text, head and body in tokens, score in tenths
    Budget,     \* token budgets of the context
    Quality,    \* what the retrieval says of itself: "strong", "weak", "unsupported"
    Claim,      \* records: cites (source numbers), says, against (texts), exact, deep, cautious
    Separator,  \* tokens between two sources
    MinPassage, MinInventory,   \* the least that is shown of a source, in tokens
    MaxFound, MaxClaims         \* bounds

ASSUME GroundedAssumption ==
    /\ Separator \in Nat /\ MaxFound \in Nat /\ MaxClaims \in Nat
    /\ MinPassage \in Nat \ {0} /\ MinInventory \in Nat \ {0}
    /\ \A d \in Document : d.head \in Nat /\ d.body \in Nat /\ d.score \in Int
    /\ Budget \subseteq Nat
    /\ \A c \in Claim : IsFiniteSet(c.cites) /\ c.cautious \in BOOLEAN

VARIABLES
    found,     \* the documents of the retrieval, in its order
    prepared,  \* the context, the quality, and whether evidence is insufficient
    answer     \* the claims of the answer so far

groundedVars == <<found, prepared, answer>>

NotPrepared == [budget |-> 0, context |-> <<>>, quality |-> "none", insufficient |-> FALSE]

GroundedTypeOK ==
    /\ Range(found) \subseteq Document /\ Len(found) <= MaxFound
    /\ prepared = NotPrepared \/
       /\ prepared.budget \in Budget /\ prepared.quality \in Quality
       /\ prepared.insufficient \in BOOLEAN
       /\ {e.document : e \in Range(prepared.context)} \subseteq Document
    /\ \A c \in answer : c.cautious \in BOOLEAN

-----------------------------------------------------------------------------
(* packRagAnswerContext *)

Least(a, b) == IF a < b THEN a ELSE b
Inventory(d) == d.kind = "inventory"

\* The sum of f[1] to f[n].
SumTo(f, n) ==
    LET sum[k \in 0 .. n] == IF k = 0 THEN 0 ELSE sum[k - 1] + f[k]
    IN sum[n]

\* No blank document, and none with the identity or the text of one before.
Again(kept, d) == \E k \in DOMAIN kept : kept[k].id = d.id \/ kept[k].text = d.text
Distinct(docs) ==
    LET kept[n \in 0 .. Len(docs)] ==
          IF n = 0 THEN <<>>
          ELSE IF docs[n].body = 0 \/ Again(kept[n - 1], docs[n]) THEN kept[n - 1]
          ELSE Append(kept[n - 1], docs[n])
    IN kept[Len(docs)]

\* The first passage of each file, then the second of each, and so on: the
\* document at a place is the one that as many come before as there are places.
Mates(kept, i) == {j \in 1 .. i : kept[j].file = kept[i].file}
Round(kept, i) == Cardinality(Mates(kept, i))
Sooner(kept, i, j) ==
    \/ Round(kept, i) < Round(kept, j)
    \/ Round(kept, i) = Round(kept, j) /\ Min(Mates(kept, i)) < Min(Mates(kept, j))
Ahead(kept, i) == Cardinality({j \in DOMAIN kept : Sooner(kept, j, i)})
Diversified(docs) ==
    LET kept == Distinct(docs)
    IN [n \in DOMAIN kept |-> kept[CHOOSE i \in DOMAIN kept : Ahead(kept, i) = n - 1]]

\* Mutant: inventories are numbered with the sources.
LabelInOrder(ds, i) == i

\* The number a document has in the prompt: sources and inventories are
\* numbered apart.
Label(ds, i) == Cardinality({j \in 1 .. i : Inventory(ds[j]) = Inventory(ds[i])})

Minimum(d) == Least(d.body, IF Inventory(d) THEN MinInventory ELSE MinPassage)
Required(ds, i) == ds[i].head + Minimum(ds[i]) + (IF i = 1 THEN 0 ELSE Separator)
Reserved(ds, n) == SumTo([i \in 1 .. n |-> Required(ds, i)], n)

\* Mutant: the minimum of the next source is not counted.
FitsHeader(ds, b, i) == Reserved(ds, i - 1) + ds[i].head < b

Fits(ds, b, i) ==
    /\ i = 1 \/ Reserved(ds, i) <= b
    /\ Reserved(ds, i - 1) + ds[i].head < b

\* The documents that are shown: up to the first that does not fit.
Shown(ds, b) ==
    SubSeq(ds, 1, Max({n \in 0 .. Len(ds) : \A i \in 1 .. n : Fits(ds, b, i)}))

\* The tokens of each document that is shown: its minimum, its share of the
\* rest by score, and in their order what is then left.
Separators(n) == Separator * (IF n = 0 THEN 0 ELSE n - 1)
Weight(d) == IF d.score > 0 THEN d.score ELSE 1
Rest(ds, b) ==
    LET fixed == SumTo([i \in DOMAIN ds |-> ds[i].head + Minimum(ds[i])], Len(ds)) + Separators(Len(ds))
    IN IF b > fixed THEN b - fixed ELSE 0
Share(ds, b) ==
    LET weights == SumTo([i \in DOMAIN ds |-> Weight(ds[i])], Len(ds))
    IN [i \in DOMAIN ds |->
          Least(ds[i].body - Minimum(ds[i]), (Rest(ds, b) * Weight(ds[i])) \div weights)]
Allocation(ds, b) ==
    LET share == Share(ds, b)
        left == Rest(ds, b) - SumTo(share, Len(ds))
        need == [i \in DOMAIN ds |-> ds[i].body - Minimum(ds[i]) - share[i]]
        Extra(i) == LET over == left - SumTo(need, i - 1)
                    IN IF over <= 0 THEN 0 ELSE Least(need[i], over)
    IN [i \in DOMAIN ds |-> Minimum(ds[i]) + share[i] + Extra(i)]

\* The packed documents, with what of them the prompt has.
Packed(docs, b) ==
    LET ds == Shown(Diversified(docs), b)
        tokens == Allocation(ds, b)
    IN [i \in DOMAIN ds |-> [document |-> ds[i], label |-> Label(ds, i), tokens |-> tokens[i]]]

Tokens(context) ==
    SumTo([i \in DOMAIN context |-> context[i].document.head + context[i].tokens], Len(context))
      + Separators(Len(context))

\* buildChatSources, buildVerificationSources: no inventories.
SourcesOf(context) ==
    Without(context, {i \in DOMAIN context : Inventory(context[i].document)})

-----------------------------------------------------------------------------
(* The check of an answer. *)

\* The source has the terms of the claim, in what of it the prompt showed.
Mentions(source, claim) ==
    /\ source.document.text \in {claim.says, claim.against}
    /\ claim.deep => source.tokens = source.document.body

\* It has them and the claim's numbers, and the clause that is most like the
\* claim does not say the contrary.
Contradicts(source, claim) == source.document.text = claim.against
Supports(source, claim) == Mentions(source, claim) /\ claim.exact /\ ~Contradicts(source, claim)

\* A number that no source has is an unsupported citation.
Supported(sources, n, claim) == n \in DOMAIN sources /\ Supports(sources[n], claim)

\* The citations of an answer: the claim and the number.
Citations(claims) == UNION {{<<c, n>> : n \in c.cites} : c \in claims}
GoodCitations(sources, claims) ==
    {c \in Citations(claims) : Supported(sources, c[2], c[1])}

\* A claim that cites nothing is attributed to the first of the sources that
\* support it best.
Supporting(sources, claim) == {n \in DOMAIN sources : Supports(sources[n], claim)}
Attributed(sources, claims) ==
    {Min(Supporting(sources, c)) : c \in {d \in claims : d.cites = {} /\ Supporting(sources, d) # {}}}

Cautious(claims) == \E c \in claims : c.cautious

\* An answer without citations keeps every source that has terms of it, and is
\* graded by how much of it they have, in hundredths: here neither numbers nor
\* the contrary count.
Related(sources, claims) == {n \in DOMAIN sources : \E c \in claims : Mentions(sources[n], c)}
Score(sources, claims) ==
    LET covered == {c \in claims : \E n \in DOMAIN sources : Mentions(sources[n], c)}
        best == Max({Cardinality({c \in claims : Mentions(sources[n], c)}) : n \in DOMAIN sources})
    IN (60 * Cardinality(covered) + 6 * best) \div Cardinality(claims) + 20
         + (12 * Cardinality(Related(sources, claims))) \div Len(sources)

\* The numbers of the sources that survive the check.
Kept(sources, claims) ==
    IF Citations(claims) = {} THEN Related(sources, claims)
    ELSE {c[2] : c \in GoodCitations(sources, claims)} \cup Attributed(sources, claims)

\* verifyAnswerGrounding: its status.
Status(sources, claims, quality, insufficient) ==
    LET cited == Cardinality(Citations(claims))
        kept == Kept(sources, claims)
        enough == IF cited = 0 THEN Score(sources, claims) >= 32
                  ELSE 10 * Cardinality(GoodCitations(sources, claims)) >= 8 * cited
        some == cited = 0 => Score(sources, claims) >= 18
    IN CASE sources = <<>> -> IF insufficient /\ Cautious(claims) THEN "not_applicable" ELSE "unsupported"
         [] sources # <<>> /\ Cautious(claims) /\ insufficient -> "partial"
         [] OTHER -> IF kept = {} \/ quality = "unsupported" \/ ~some THEN "unsupported"
                     ELSE IF enough /\ quality = "strong" THEN "supported" ELSE "partial"

\* The sources that are saved with the answer.
VerifiedSources(sources, claims, quality, insufficient) ==
    IF Status(sources, claims, quality, insufficient) \in {"unsupported", "not_applicable"}
    THEN {} ELSE Kept(sources, claims)

-----------------------------------------------------------------------------

GroundedInit == found = <<>> /\ prepared = NotPrepared /\ answer = {}

Context == prepared.context

Find(d) ==
    /\ prepared = NotPrepared /\ Len(found) < MaxFound
    /\ found' = Append(found, d)
    /\ UNCHANGED <<prepared, answer>>

\* prepareGroundedAnswer: without a source in the context the evidence is
\* insufficient whatever the retrieval says.
PrepareAnswer(b, q, weak) ==
    /\ prepared = NotPrepared
    /\ \E context \in {Packed(found, b)} :
         prepared' = [budget |-> b, context |-> context, quality |-> q,
                      insufficient |-> weak \/ SourcesOf(context) = <<>>]
    /\ UNCHANGED <<found, answer>>

\* With no context the model is not asked: the answer says so.
AnswerInsufficient ==
    /\ prepared # NotPrepared /\ Context = <<>> /\ answer = {}
    /\ answer' = {[cites |-> {}, says |-> "nothing", against |-> "none", exact |-> TRUE,
                   deep |-> FALSE, cautious |-> TRUE]}
    /\ UNCHANGED <<found, prepared>>

\* The model answers; a stream that ends early leaves the claims so far.
Say(c) ==
    /\ prepared # NotPrepared /\ Context # <<>> /\ Cardinality(answer) < MaxClaims
    /\ answer' = answer \cup {c}
    /\ UNCHANGED <<found, prepared>>

GroundedNext ==
    \/ \E d \in Document : Find(d)
    \/ \E b \in Budget, q \in Quality, weak \in BOOLEAN : PrepareAnswer(b, q, weak)
    \/ AnswerInsufficient
    \/ \E c \in Claim : Say(c)

GroundedSpec == GroundedInit /\ [][GroundedNext]_groundedVars

-----------------------------------------------------------------------------
\* The context keeps its budget, whatever is found, unless it shows one source
\* alone whose header leaves less than the minimum; everything that fits as a
\* whole is shown as a whole; and no file has a second passage shown before the
\* first of another.
ContextFits ==
    /\ GroundedTypeOK
    /\ prepared # NotPrepared /\ answer = {} =>
      LET ds == Diversified(found)
          whole == SumTo([i \in DOMAIN ds |-> ds[i].head + ds[i].body], Len(ds))
                     + Separators(Len(ds))
          Later(i) == \E k \in 1 .. (i - 1) : ds[k].file = ds[i].file
      IN
      /\ Tokens(Context) > prepared.budget =>
           Len(Context) = 1 /\ Context[1].tokens = Minimum(Context[1].document)
      /\ whole <= prepared.budget =>
           Len(Context) = Len(ds) /\ \A i \in DOMAIN ds : Context[i].tokens = ds[i].body
      /\ \A i \in DOMAIN ds, j \in DOMAIN ds : Later(i) /\ ~Later(j) => j < i

\* A citation is held against the passage that the prompt showed the model
\* under that number; whatever is saved with a cited answer was shown to the
\* model and supports a claim of it, one that cites it or one that cites
\* nothing; and an answer whose citations all hold is saved with every source
\* it cites, unless the retrieval found its own support wanting.
CitationsNameTheirSources ==
    prepared # NotPrepared /\ answer # {} =>
      LET sources == SourcesOf(Context)
          saved == VerifiedSources(sources, answer, prepared.quality, prepared.insufficient)
          ShownAs(n) == {e.document : e \in {f \in Range(Context) : f.label = n /\ ~Inventory(f.document)}}
      IN
      /\ \A n \in DOMAIN sources : ShownAs(n) = {sources[n].document}
      /\ Citations(answer) # {} => \A n \in saved : \E c \in answer :
           Supports(sources[n], c) /\ (c.cites = {} \/ n \in c.cites)
      /\ Citations(answer) # {} /\ GoodCitations(sources, answer) = Citations(answer)
            /\ prepared.quality # "unsupported"
           => UNION {c.cites : c \in answer} \subseteq saved
=============================================================================
