----------------------------- MODULE MCExtraction -----------------------------
(* Instances of Extraction for TLC. *)
EXTENDS Extraction, TLC

\* A table of contents is skipped whatever it says, and so are lines nobody speaks.
MCHeadings == {h \in Heading : h.toc => h.body = NoText}

MCLines == {l \in Line : l.spoken \/ (l.text.tail = NoTail /\ ~l.objection /\ ~l.proof)}

MCItems ==
    {i \in Item : i.type \in {"tldr", "insight", "quote"} /\ ~i.malformed}
    \cup {[type |-> "unknown", text |-> NoText, malformed |-> malformed] : malformed \in BOOLEAN}

\* Beginnings of texts are interchangeable.
Symmetry == Permutations(Heads)
=============================================================================
