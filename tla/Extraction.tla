------------------------------ MODULE Extraction ------------------------------
(***************************************************************************)
(* How a cleaned text becomes atoms: the heading tree of a document        *)
(* (pipeline/parse.py) and its atoms, the atoms of a transcript            *)
(* (pipeline/atomise.py), and the validation of what a model returned      *)
(* (pipeline/atomise_llm.py).  Every source is read element by element;    *)
(* what it yields is made distinct by content hash and cut to a limit.     *)
(*                                                                         *)
(* A text is its first MAX_QUOTE_CHARS characters and the rest; the hash   *)
(* of an atom stands for its type and text.  Which lines voice objections  *)
(* or proof is left to the patterns and open here.                         *)
(***************************************************************************)
EXTENDS Naturals, Sequences

CONSTANTS
    Heads,              \* first MAX_QUOTE_CHARS characters of texts
    Tails,              \* what may follow them
    NoTail,             \* nothing follows
    NoText,             \* a blank text
    Levels,             \* heading levels, 1 .. 6
    Headings, Lines, Items,   \* the elements sources are made of
    MAX_ATOMS,          \* limit of the rule-based atomizer, 15
    MAX_ATOMS_PER_DOC,  \* limit of the LLM atomizer, 60
    MaxLength           \* bound: elements of a source

Texts == [head : Heads, tail : Tails \cup {NoTail}]

\* The types the rule-based atomizer gives, and those a model may: the rest of
\* M1_ATOM_TYPES are treated like "insight".
Types == {"tldr", "insight", "objection", "proof_point", "quote"}

\* A heading with the first sentence that follows it; a line of a transcript; an
\* item of the model's list.  "unknown" is an item dropped for its shape or type,
\* and a malformed one makes the validation itself raise (a text that is a number).
Heading == [level : Levels, toc : BOOLEAN, body : Texts \cup {NoText}]
Line == [spoken : BOOLEAN, text : Texts, objection : BOOLEAN, proof : BOOLEAN]
Item == [type : Types \cup {"unknown"}, text : Texts \cup {NoText}, malformed : BOOLEAN]

ASSUME LevelsAssumption == Levels \subseteq Nat
ASSUME ElementsAssumption == Headings \subseteq Heading /\ Lines \subseteq Line /\ Items \subseteq Item
ASSUME LimitsAssumption ==
    MAX_ATOMS \in Nat /\ MAX_ATOMS_PER_DOC \in Nat \ {0} /\ MaxLength \in Nat
ASSUME NoTextAssumption == NoText \notin Texts

VARIABLES
    kind,       \* "document", "transcript", or the "model"'s answer
    source,     \* its headings, lines or items
    lead,       \* a document's first sentence before any heading
    pc,
    at,         \* the element looked at next
    ancestors,  \* the headings above and including the last one, as positions
    atoms,      \* the atoms of a document or transcript, duplicates included
    unique,     \* the distinct ones found so far, those of the model included
    seen,       \* their hashes
    out         \* the atoms returned

vars == <<kind, source, lead, pc, at, ancestors, atoms, unique, seen, out>>

\* from: the element an atom comes from; path: the breadcrumb of its section.
Atom(type, text, from, path) == [type |-> type, text |-> text, from |-> from, path |-> path]

AtomSet == [type : Types, text : Texts, from : Nat, path : Seq(Nat)]

Hash(atom) == <<atom.type, atom.text>>

Limit == IF kind = "model" THEN MAX_ATOMS_PER_DOC ELSE MAX_ATOMS

\* An answer keeps to its limit.
TypeOK ==
    /\ \/ kind = "document" /\ source \in Seq(Headings)
       \/ kind = "transcript" /\ source \in Seq(Lines)
       \/ kind = "model" /\ source \in Seq(Items)
    /\ lead \in Texts \cup {NoText}
    /\ pc \in {"read", "unique", "done", "raised"}
    /\ at \in Nat \ {0}
    /\ ancestors \in Seq(1 .. Len(source))
    /\ atoms \in Seq(AtomSet)
    /\ unique \in Seq(AtomSet)
    /\ seen \subseteq Types \X Texts
    /\ out \in Seq(AtomSet) /\ Len(out) <= Limit

SeqsUpTo(elements) == UNION {[1 .. n -> elements] : n \in 0 .. MaxLength}

Init ==
    /\ \/ kind = "document" /\ source \in SeqsUpTo(Headings) /\ lead \in Texts \cup {NoText}
       \/ kind = "transcript" /\ source \in SeqsUpTo(Lines) /\ lead = NoText
       \/ kind = "model" /\ source \in SeqsUpTo(Items) /\ lead = NoText
    /\ pc = "read" /\ at = 1
    /\ ancestors = <<>> /\ atoms = <<>> /\ unique = <<>> /\ seen = {} /\ out = <<>>

\* text[:MAX_QUOTE_CHARS]
Cut(text) == [text EXCEPT !.tail = NoTail]

-----------------------------------------------------------------------------
(* parse_text and _document_atoms *)

\* Mutant: one ancestor is popped where the loop pops all that are as deep.
KeptAfterOnePop(level) ==
    IF ancestors # <<>> /\ source[ancestors[Len(ancestors)]].level >= level
    THEN Len(ancestors) - 1 ELSE Len(ancestors)

\* How many ancestors are left when those at the end that are at least as deep
\* have been popped.
Kept(level) ==
    CHOOSE n \in 0 .. Len(ancestors) :
        /\ n = 0 \/ source[ancestors[n]].level < level
        /\ \A m \in n + 1 .. Len(ancestors) : source[ancestors[m]].level >= level

FirstType == IF atoms = <<>> THEN "tldr" ELSE "insight"

\* A table of contents is no section, though the headings under it keep it as an
\* ancestor; a section without text yields nothing.
ReadHeading ==
    /\ pc = "read" /\ kind = "document" /\ at <= Len(source)
    /\ LET h == source[at]
           path == Append(SubSeq(ancestors, 1, Kept(h.level)), at)
       IN /\ ancestors' = path
          /\ atoms' = IF h.toc \/ h.body = NoText THEN atoms
                      ELSE Append(atoms, Atom(FirstType, Cut(h.body), at, path))
    /\ at' = at + 1
    /\ UNCHANGED <<kind, source, lead, pc, unique, seen, out>>

\* Text before the first heading is in no section; a text without headings is one.
EndDocument ==
    /\ pc = "read" /\ kind = "document" /\ at > Len(source)
    /\ atoms' = IF source # <<>> \/ lead = NoText THEN atoms
                ELSE <<Atom(FirstType, Cut(lead), 0, <<>>)>>
    /\ pc' = "unique" /\ at' = 1
    /\ UNCHANGED <<kind, source, lead, ancestors, unique, seen, out>>

-----------------------------------------------------------------------------
(* _transcript_atoms *)

ReadLine ==
    /\ pc = "read" /\ kind = "transcript" /\ at <= Len(source)
    /\ LET l == source[at]
           summary == IF atoms = <<>> THEN <<Atom("tldr", l.text, at, <<>>)>> ELSE <<>>
           objection == IF l.objection THEN <<Atom("objection", Cut(l.text), at, <<>>)>> ELSE <<>>
           proof == IF l.proof THEN <<Atom("proof_point", Cut(l.text), at, <<>>)>> ELSE <<>>
       IN atoms' = IF l.spoken THEN atoms \o summary \o objection \o proof ELSE atoms
    /\ at' = at + 1
    /\ UNCHANGED <<kind, source, lead, pc, ancestors, unique, seen, out>>

EndTranscript ==
    /\ pc = "read" /\ kind = "transcript" /\ at > Len(source)
    /\ pc' = "unique" /\ at' = 1
    /\ UNCHANGED <<kind, source, lead, ancestors, atoms, unique, seen, out>>

-----------------------------------------------------------------------------
(* extract_atoms *)

\* Mutant: duplicates are recognised by where they come from.
AddByPlace(atom) ==
    IF \E n \in DOMAIN unique : unique[n].from = atom.from /\ Hash(unique[n]) = Hash(atom)
    THEN UNCHANGED <<unique, seen>>
    ELSE unique' = Append(unique, atom) /\ seen' = seen \cup {Hash(atom)}

\* An atom is kept the first time its hash is met.
Add(atom) ==
    IF Hash(atom) \in seen
    THEN UNCHANGED <<unique, seen>>
    ELSE unique' = Append(unique, atom) /\ seen' = seen \cup {Hash(atom)}

\* Mutant: the list is cut before duplicates are removed.
ToCheckCut == IF Len(atoms) < MAX_ATOMS THEN Len(atoms) ELSE MAX_ATOMS

ToCheck == Len(atoms)

KeepFirst ==
    /\ pc = "unique" /\ at <= ToCheck
    /\ Add(atoms[at])
    /\ at' = at + 1
    /\ UNCHANGED <<kind, source, lead, pc, ancestors, atoms, out>>

\* Mutant: the limit is forgotten.
FirstOnesAll == unique

FirstOnes == SubSeq(unique, 1, IF Len(unique) < Limit THEN Len(unique) ELSE Limit)

ReturnAtoms ==
    /\ pc = "unique" /\ at > ToCheck
    /\ pc' = "done" /\ out' = FirstOnes
    /\ UNCHANGED <<kind, source, lead, at, ancestors, atoms, unique, seen>>

-----------------------------------------------------------------------------
(* LLMAtomizer.extract *)

\* The provider fails, or there is no list of items in what it answers.
AnswerRaises ==
    /\ pc = "read" /\ kind = "model" /\ at = 1
    /\ pc' = "raised"
    /\ UNCHANGED <<kind, source, lead, at, ancestors, atoms, unique, seen, out>>

\* An item of a known type with a text is an atom; a quote is cut.
Valid(item) == item.type \in Types /\ item.text # NoText

\* White space is collapsed after the cut and before the hash is taken: texts that
\* differ in it alone are one text here.
Normal(item) == IF item.type = "quote" THEN Cut(item.text) ELSE item.text

ReadItem ==
    /\ pc = "read" /\ kind = "model" /\ at <= Len(source)
    /\ ~source[at].malformed
    /\ IF Valid(source[at])
       THEN Add(Atom(source[at].type, Normal(source[at]), at, <<>>))
       ELSE UNCHANGED <<unique, seen>>
    /\ at' = at + 1
    /\ UNCHANGED <<kind, source, lead, pc, ancestors, atoms, out>>

\* One malformed item takes the whole extraction down.
ItemRaises ==
    /\ pc = "read" /\ kind = "model" /\ at <= Len(source)
    /\ source[at].malformed
    /\ pc' = "raised"
    /\ UNCHANGED <<kind, source, lead, at, ancestors, atoms, unique, seen, out>>

EndPc == IF unique = <<>> THEN "raised" ELSE "done"

EndItems ==
    /\ pc = "read" /\ kind = "model" /\ at > Len(source)
    /\ pc' = EndPc
    /\ out' = IF EndPc = "done" THEN FirstOnes ELSE out
    /\ UNCHANGED <<kind, source, lead, at, ancestors, atoms, unique, seen>>

-----------------------------------------------------------------------------
Next ==
    \/ ReadHeading \/ EndDocument \/ ReadLine \/ EndTranscript
    \/ KeepFirst \/ ReturnAtoms
    \/ AnswerRaises \/ ReadItem \/ ItemRaises \/ EndItems

Spec == Init /\ [][Next]_vars

-----------------------------------------------------------------------------
(* Properties *)

\* Heading m is above heading n, or is n: all that follow m up to n are deeper.
Encloses(m, n) == m <= n /\ \A k \in m + 1 .. n : source[m].level < source[k].level

EnclosingPath(path, n) ==
    /\ {path[j] : j \in DOMAIN path} = {m \in 1 .. n : Encloses(m, n)}
    /\ \A j, k \in DOMAIN path : j < k => path[j] < path[k]

\* The breadcrumb of an atom names the headings its section stands under, from the
\* outermost in, whatever levels a document skips or returns to.
BreadcrumbEncloses ==
    kind = "document" =>
        \A n \in DOMAIN atoms : EnclosingPath(atoms[n].path, atoms[n].from)

\* No two atoms of an extraction have the same hash, so that inserting them does
\* not violate uq_atoms_doc_content.
DistinctAtoms == \A m, n \in DOMAIN out : Hash(out[m]) = Hash(out[n]) => m = n

\* The hashes a source calls for.
Wanted ==
    IF kind = "model"
    THEN {Hash(Atom(source[n].type, Normal(source[n]), n, <<>>)) :
             n \in {n \in DOMAIN source : Valid(source[n])}}
    ELSE {Hash(atoms[n]) : n \in DOMAIN atoms}

\* Duplicates do not crowd other atoms out: what a source calls for is returned,
\* unless the answer is full of different atoms.
NothingCrowdedOut ==
    pc = "done" => Len(out) = Limit \/ Wanted = {Hash(out[n]) : n \in DOMAIN out}
=============================================================================
