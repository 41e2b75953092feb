------------------------- MODULE MCGeneratePipeline -------------------------
(* Instances of GeneratePipeline for TLC. *)
EXTENDS GeneratePipeline, TLC

CONSTANTS h1, h2, h3, c1, c2

TwoHeaders == <<h1, h2>>
ThreeHeaders == <<h1, h2, h3>>

OwnStem == [h \in Header |-> h]

Symmetry == Permutations({c1, c2})

\* What a header has to do with one handle: a set of the fields of IR.
Role ==
    {{}} \cup
    {{"opaques"} \cup native \cup returned :
        native \in {{}, {"destructors"}, {"destructors", "methods"},
                   {"destructors", "methods", "classes", "goUses"},
                   {"destructors", "methods", "classes", "goUses", "projected"}},
        returned \in {{}, {"goUses"}, {"values"}, {"values", "goUses"},
                     {"values", "goUses", "goValues"}}}

IRWith(role, declares, goContent, functions, strings) ==
    LET With(field) == {c \in Handle : field \in role[c]}
    IN  [declares    |-> declares,
         opaques     |-> With("opaques"),
         destructors |-> With("destructors"),
         methods     |-> With("methods"),
         classes     |-> With("classes"),
         projected   |-> With("projected"),
         values      |-> With("values"),
         goValues    |-> With("goValues"),
         goUses      |-> With("goUses"),
         goContent   |-> goContent,
         functions   |-> functions,
         strings     |-> strings]

\* Every header there can be.
AllIRs ==
    {m \in {IRWith(role, d, g, f, s) :
              role \in [Handle -> Role], d, g, f, s \in BOOLEAN} : WellFormed(m)}

\* Headers with something for Go and no strings.
GoIRs == {IRWith(role, TRUE, TRUE, TRUE, FALSE) : role \in [Handle -> Role]}

\* ... whose classes all have a method for Go.
UsableIRs == {m \in GoIRs : m.destructors = m.classes}

\* Free functions only, that return strings.
StringIRs == {m \in AllIRs : m.opaques = {} /\ m.goContent /\ m.strings}
=============================================================================
