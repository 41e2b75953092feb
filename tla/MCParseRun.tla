------------------------------ MODULE MCParseRun ------------------------------
(***************************************************************************)
(* A project directory with two headers and a source, a directory that is  *)
(* not of the project, links between them and to a file that is no header, *)
(* and a second spelling of a path.                                        *)
(***************************************************************************)
EXTENDS ParseRun

AllTexts == STRING

Project == <<"base", "d">>
Elsewhere == <<"base", "e">>
BaseDir == <<"base">>
PackageDir == <<"base", "out", "gen">>
Libraries == {"libx.a"}

\* "dotted" spells "b" otherwise, "link" leads from the project to "r", "alias"
\* to "t", which is no header.
AllPaths == {"a", "b", "dotted", "s", "x", "link", "r", "alias", "t"}
DirectoryEntries == AllPaths \ {"dotted"}
LeadTo == [p \in AllPaths |-> CASE p = "dotted" -> "b" [] p = "link" -> "r" [] p = "alias" -> "t"
                               [] OTHER -> p]
Parents == [p \in AllPaths |-> IF p \in {"x", "r"} THEN Elsewhere ELSE Project]
Extensions == [p \in AllPaths |-> CASE p = "s" -> "source" [] p = "t" -> "other" [] OTHER -> "header"]

(***************************************************************************)
(* What libclang shows.                                                    *)
(***************************************************************************)

Leaf(path, kind, name, sig, defined) ==
    [path |-> path, system |-> FALSE, kind |-> kind, name |-> name, sig |-> sig,
     defined |-> defined, access |-> "public", kids |-> <<>>]

Guard(p) == Leaf(p, "macro", "GUARD", {}, FALSE)

\* A class with a private pure virtual, an operator and an operator of a friend.
Class(p, body) ==
    [Leaf(p, "record", "K", {}, TRUE) EXCEPT !.kids =
        <<Leaf(p, "member", "Get()", {}, FALSE),
          [Leaf(p, "member", "Run()", {"pure"}, FALSE) EXCEPT !.access = "private"],
          Leaf(p, "operator", "==", {"const"}, body),
          [Leaf(p, "friend", "", {}, FALSE) EXCEPT !.kids =
              <<Leaf(p, "operator", "+", {}, FALSE), Leaf(p, "function", "helper", {}, FALSE)>>]>>]

\* A forward declaration, an empty class, and a class with a private member.
Bare(p) ==
    <<Leaf(p, "record", "Fwd", {}, FALSE), Leaf(p, "record", "Empty", {}, TRUE),
      [Leaf(p, "record", "Hidden", {}, TRUE) EXCEPT !.kids =
            <<[Leaf(p, "member", "x", {}, FALSE) EXCEPT !.access = "private"]>>]>>

Namespaces(p) ==
    <<[Leaf(p, "namespace", "n", {}, FALSE) EXCEPT !.kids =
         <<Leaf(p, "function", "f", {"int"}, FALSE), Leaf(p, "function", "f", {"char"}, FALSE),
           [Leaf(p, "namespace", "m", {}, FALSE) EXCEPT !.kids = <<Leaf(p, "enum", "E", {}, FALSE)>>]>>],
      [Leaf(p, "namespace", "", {}, FALSE) EXCEPT !.kids = <<Leaf(p, "function", "g", {}, FALSE)>>]>>

A(p, body) == <<Guard(p), Class(p, body)>> \o Namespaces(p)

B(p, body) ==
    <<Leaf(p, "macro", "SIZE", {"4"}, TRUE), Leaf(p, "operator", "<<", {}, body),
      Leaf(p, "typedef", "Handler", {"callback"}, FALSE),
      [Leaf(p, "typedef", "Color", {}, FALSE) EXCEPT !.kids = <<Leaf(p, "enum", "", {"red"}, FALSE)>>]>>

R(p, body) == <<Leaf(p, "function", "far", {}, FALSE), Leaf(p, "operator", "-", {}, body)>>
X == <<Leaf("x", "function", "foreign", {}, FALSE)>>
RECURSIVE System(_)
System(cursors) ==
    [i \in DOMAIN cursors |-> [cursors[i] EXCEPT !.system = TRUE, !.kids = System(@)]]

ShownBySource ==
    {<<>>, X \o A("a", TRUE), A("a", FALSE) \o B("dotted", TRUE), <<Guard("a")>>,
     System(A("a", TRUE)), R("link", FALSE) \o B("b", FALSE)}
ShownByA == {A("a", FALSE), A("a", TRUE) \o Bare("a")}
ShownByB == {B("b", FALSE), A("a", TRUE) \o B("dotted", FALSE), <<>>}

(***************************************************************************)
(* Configurations.                                                         *)
(***************************************************************************)

Rel(opt, name) == Word(opt, "rel", <<name>>)
Unset == Word("", "unset", <<>>)
NoVariable == [v \in {"V"} |-> Unset]

Tree(dirs, headers, files, s, a, b, outcome) ==
    [dirs |-> dirs, headers |-> headers, args |-> <<>>, ldflags |-> <<>>, env |-> NoVariable,
     directories |-> {Project}, present |-> files,
     shown |-> [u \in {"s", "a", "b", "r", "x", "t"} |->
                    CASE u = "s" -> s [] u = "a" -> a [] u = "b" -> b [] u = "r" -> R("r", TRUE)
                      [] u = "t" -> R("t", FALSE) [] OTHER -> X],
     outcome |-> outcome]

AllRead == [u \in {"s", "a", "b", "r", "x", "t"} |-> "read"]
Outcomes == {AllRead} \cup {[AllRead EXCEPT ![p[1]] = p[2]] :
                                p \in {<<"s", "errors">>, <<"a", "null">>, <<"b", "errors">>, <<"b", "gone">>}}

\* No unit shows a file that is not there.
Consistent(tree) ==
    \A u \in tree.present : \A c \in ToSet(tree.shown[u]) : Canonical[c.path] \in tree.present

DirTrees ==
    {tree \in {Tree(<<Project>>, <<>>, files, s, a, b, outcome) :
        files \in {{"a", "b"}, {"a", "b", "t"}, {"a", "b", "s", "x"}, {"a", "b", "s", "r"}},
        s \in ShownBySource, a \in ShownByA, b \in ShownByB, outcome \in Outcomes} :
     Consistent(tree)}

\* Two units that show a header of the project, by a link and by where it leads.
Linked == Tree(<<Project>>, <<>>, {"a", "b", "s", "r"}, R("link", FALSE), A("a", FALSE),
               R("r", TRUE) \o B("b", FALSE), AllRead)

HeaderTrees ==
    {Tree(<<>>, headers, {"a", "b", "s", "x", "r"}, <<>>, a, b, outcome) :
        headers \in {<<"b">>, <<"a", "b">>, <<"dotted", "a">>, <<"link">>},
        a \in ShownByA, b \in ShownByB, outcome \in Outcomes}

Refused ==
    {Tree(p[1], p[2], {"a", "b", "s"}, <<>>, <<>>, <<>>, AllRead) :
        p \in {<<<<>>, <<>>>>, <<<<Project>>, <<"a">>>>, <<<<Project, Project>>, <<>>>>,
               <<<<Elsewhere>>, <<>>>>, <<<<>>, <<"b", "dotted">>>>, <<<<>>, <<"s">>>>, <<<<>>, <<"x">>>>}}

Variables == {Unset, Rel("", "lib"), Word("", "abs", <<"usr">>), Rel("-I", "inc"), Option("")}

Uses(ws) == \E i \in DOMAIN ws : ws[i].kind = "var"
Environments(ws) == IF Uses(ws) THEN {[v \in {"V"} |-> w] : w \in Variables} ELSE {NoVariable}
Lines(words, n) == UNION {[1..k -> words] : k \in 1..n}

CompilerWords ==
    {Option("-I"), Rel("-I", "inc"), Word("-I", "abs", Project), Option("-isystem"), Rel("", "d"),
     Rel("-D", "X"), Option("-D"), Rel("-std=", "c++20"), Word("-I", "rel", <<"..", "inc">>)}
VariableWords == {Word("-I", "var", <<"V">>), Word("", "var", <<"V">>)}

LinkerWords ==
    {Option("-L"), Rel("-L", "lib"), Word("-L", "var", <<"V">>), Rel("", "libx.a"),
     Word("", "abs", <<"usr", "libx.a">>), Word("", "var", <<"V">>), Rel("-l", "x"),
     Word("", "rel", <<"..", "libx.a">>)}

One == Tree(<<>>, <<"b">>, {"b"}, <<>>, <<>>, R("b", FALSE), AllRead)

Flags ==
    UNION {{[One EXCEPT !.args = ws, !.env = env] : env \in Environments(ws)} :
            ws \in Lines(CompilerWords, 3) \cup Lines(CompilerWords \cup VariableWords, 2)}
    \cup
    UNION {{[One EXCEPT !.ldflags = ws, !.env = env] : env \in Environments(ws)} :
            ws \in Lines(LinkerWords, 2)}
    \cup {[One EXCEPT !.args = <<Option("-x"), Rel("", "c")>>]}

AllInputs == DirTrees \cup {Linked} \cup HeaderTrees \cup Refused \cup Flags
===============================================================================
