------------------------------- MODULE ParseRun -------------------------------
(***************************************************************************)
(* A run of the generator up to the declarations of each header: the       *)
(* configuration is resolved and validated (src/config.rs), translation    *)
(* units are found and parsed one by one with libclang, their declarations *)
(* collected (src/parsing/parser.rs, compiler.rs) and handed out by header *)
(* (src/codegen/c_abi.rs, generate_all).  What libclang shows of a unit is *)
(* an input.                                                               *)
(***************************************************************************)
EXTENDS BuildFlags, FiniteSets

CONSTANTS
    Inputs,                 \* configurations with what is on disk, as records
    Paths,                  \* spelled paths of files
    Entries,                \* those as a listing of their directory spells them
    Canonical,              \* the file each path leads to, one of Paths
    ParentDir,              \* the directory each path is in
    Extension               \* "header", "source" or "other", for each path

ASSUME PathsAssumption ==
    /\ Entries \subseteq Paths
    /\ Canonical \in [Paths -> Paths] /\ ParentDir \in [Paths -> Seq(Texts)]
    /\ \A p \in Paths : Canonical[Canonical[p]] = Canonical[p]
    /\ \A p \in Paths : \E q \in Entries : /\ Canonical[q] = Canonical[p] /\ ParentDir[q] = ParentDir[p]
                                         /\ Extension[q] = Extension[p]
    /\ IsFiniteSet(Paths)

\* How the parse of a unit ends: its file is gone, libclang gives no unit, it
\* reports errors, or neither.
UnitOutcomes == {"gone", "null", "errors", "read"}

(* An input is                                                               *)
(*   [dirs, headers, args, ldflags, env, directories, present, shown,        *)
(*    outcome]:                                                              *)
(* the configuration, the environment, the directories and files there are,  *)
(* and of every unit the cursors libclang shows and how its parse ends.      *)
(* A cursor is [path, system, kind, name, sig, defined, access, kids]; sig   *)
(* stands for its types and flags, defined for a class or operator body in a *)
(* header, or a macro value that can be taken over.                          *)

\* What is in the namespaces among some cursors, with the namespace it is in.
Inside(S) ==
    UNION {{<<k, Append(q[2], q[1].name)>> : k \in ToSet(q[1].kids)} :
              q \in {q \in S : q[1].kind = "namespace" /\ q[1].name # ""}}

\* Namespaces nest to a depth of two here.
Nested(S) == S \cup Inside(S) \cup Inside(Inside(S))

Top(cursors) == {<<c, <<>>>> : c \in ToSet(cursors)}

IsClass(c) == c.kind = "record" /\ c.defined /\ c.name # ""

\* What libclang shows of a unit: files that are there, each once, by one of
\* its paths and as the system's or not, with all that is in a declaration;
\* one definition of a class; and the unit's own file.
ShowsUnit(x, u) ==
    LET all == Nested(Top(x.shown[u])) IN
    /\ x.shown[u] \in Seq(ToSet(x.shown[u]))
    /\ Inside(Inside(Inside(Top(x.shown[u])))) = {}
    /\ \A q \in all :
          /\ q[1].kids \in Seq(ToSet(q[1].kids))
          /\ \A k \in UNION {{k} \cup ToSet(k.kids) : k \in ToSet(q[1].kids)} :
                k.path = q[1].path /\ k.system = q[1].system
    /\ \A c \in ToSet(x.shown[u]) :
          /\ c.path \in Paths /\ (u \in x.present => Canonical[c.path] \in x.present)
          /\ Canonical[c.path] = u => /\ ParentDir[c.path] = ParentDir[u] /\ ~c.system
                                      /\ Extension[c.path] = Extension[u]
    /\ \A c, d \in ToSet(x.shown[u]) :
          Canonical[c.path] = Canonical[d.path] => c.path = d.path /\ c.system = d.system
    /\ \A p, q \in all :
          IsClass(p[1]) /\ IsClass(q[1]) /\ p[1].path = q[1].path
            /\ p[1].name = q[1].name /\ p[2] = q[2] => p[1].kids = q[1].kids

ASSUME InputsAssumption ==
    \A x \in Inputs : /\ x.headers \in Seq(Paths)
                      /\ IsLine(x.env, x.args) /\ IsLine(x.env, x.ldflags)
                      /\ x.dirs \in Seq(Seq(Texts))
                      /\ \A p \in Paths : /\ x.outcome[Canonical[p]] \in UnitOutcomes
                                          /\ ShowsUnit(x, Canonical[p])

VARIABLES
    in,                     \* the input
    phase,                  \* the step the run is at, see Next
    failing,                \* whether an error is on its way up
    config,                 \* the resolved configuration
    index,                  \* whether the libclang index is alive
    live,                   \* the translation units that are
    pass,                   \* 1, and 2 for the supplemental headers
    queue,                  \* units to parse, the current one at the head
    args,                   \* libclang's arguments for the current unit
    todo,                   \* cursors to visit, with their namespaces
    read,                   \* units read without error
    discovered,             \* headers seen, as spelled
    api,                    \* declarations collected
    parts,                  \* of every generation header its declarations
    exported                \* the flags of the generated package

vars == <<in, phase, failing, config, index, live, pass, queue, args, todo, read, discovered,
          api, parts, exported>>

(***************************************************************************)
(* Configuration                                                           *)
(***************************************************************************)

Init ==
    /\ in \in Inputs
    /\ phase = "given"
    /\ failing = FALSE /\ index = FALSE /\ live = {} /\ pass = 1
    /\ config = [dirs |-> <<>>, headers |-> <<>>, args |-> <<>>, ldflags |-> <<>>]
    /\ queue = <<>> /\ args = <<>> /\ todo = <<>> /\ read = {} /\ discovered = {}
    /\ api = <<>> /\ parts = <<>> /\ exported = [cxx |-> <<>>, ld |-> <<>>]

parseVars == <<index, live, pass, queue, args, todo, read, discovered, api, parts, exported>>

\* Config::resolve_relative_paths
ResolveConfig ==
    /\ phase = "given"
    /\ config' = [dirs |-> in.dirs,
                  headers |-> [i \in DOMAIN in.headers |-> Canonical[in.headers[i]]],
                  args |-> ResolveClangArgs(in.env, in.args),
                  ldflags |-> ResolveLdflags(in.env, in.ldflags)]
    /\ phase' = IF Unresolved(config'.args) \/ Unresolved(config'.ldflags)
                THEN "failed" ELSE "resolved"
    /\ UNCHANGED <<in, failing>> /\ UNCHANGED parseVars

NoRepetition(s) == \A i, j \in DOMAIN s : s[i] = s[j] => i = j

\* mutant: duplicates are not looked for
RepetitionsPass(c) ==
    /\ (c.dirs = <<>>) # (c.headers = <<>>)
    /\ ToSet(c.dirs) \subseteq in.directories /\ ToSet(c.headers) \subseteq in.present
    /\ \A i \in DOMAIN c.headers : Extension[c.headers[i]] = "header"

\* Config::validate
Valid(c) ==
    /\ (c.dirs = <<>>) # (c.headers = <<>>)
    /\ ToSet(c.dirs) \subseteq in.directories /\ ToSet(c.headers) \subseteq in.present
    /\ \A i \in DOMAIN c.headers : Extension[c.headers[i]] = "header"
    /\ NoRepetition(c.dirs) /\ NoRepetition(c.headers)

Validate ==
    /\ phase = "resolved"
    /\ phase' = IF Valid(config) THEN "valid" ELSE "failed"
    /\ UNCHANGED <<in, failing, config>> /\ UNCHANGED parseVars

\* The files of a kind in the directories of the configuration, by their canonical paths.
Listed(extension) ==
    {Canonical[p] : p \in {q \in Entries : /\ ParentDir[q] \in ToSet(config.dirs)
                                           /\ Extension[q] = extension
                                           /\ Canonical[q] \in in.present}}

\* scan_dir_translation_units: headers only where there is no source
Scanned == IF Listed("source") # {} THEN Listed("source") ELSE Listed("header")

\* Config::discovered_headers
GenerationHeaders ==
    IF config.headers # <<>> THEN ToSet(config.headers) ELSE Listed("header")

(***************************************************************************)
(* Translation units.  Paths are visited in their order, of which nothing  *)
(* is assumed.  The index and the unit are dropped on every way out.       *)
(***************************************************************************)

\* ClangIndex::new, after collect_translation_units
OpenIndex ==
    /\ phase = "valid"
    /\ \E units \in IF config.headers # <<>> THEN {config.headers} ELSE SetToSeqs(Scanned) :
            queue' = units
    /\ index' \in BOOLEAN
    /\ phase' = IF index' THEN "units" ELSE "failed"
    /\ UNCHANGED <<in, failing, config, live, pass, args, todo, read, discovered, api, parts, exported>>

\* A file may be gone, and libclang may give no unit.
ParseUnit ==
    /\ phase = "units" /\ queue # <<>>
    /\ args' = CollectClangArgs(config.args, config.dirs, ParentDir[Head(queue)])
    /\ IF in.outcome[Head(queue)] \in {"gone", "null"}
       THEN failing' = TRUE /\ phase' = "closing" /\ UNCHANGED <<live, todo>>
       ELSE /\ live' = live \cup {Head(queue)}
            /\ todo' = [i \in DOMAIN in.shown[Head(queue)] |->
                            [cursor |-> in.shown[Head(queue)][i], namespace |-> <<>>]]
            /\ phase' = "visiting"
            /\ UNCHANGED failing
    /\ UNCHANGED <<in, config, index, pass, queue, read, discovered, api, parts, exported>>

\* should_collect_cursor; no command sets a target header
ShouldCollect(c) ==
    /\ ~c.system
    /\ Extension[c.path] = "header"
    /\ IF config.headers # <<>>
       THEN Canonical[c.path] \in ToSet(config.headers)
       ELSE ParentDir[c.path] \in ToSet(config.dirs)

\* parse_function, parse_enum_with_name, parse_macro_definition, parse_callback_typedef
Entity(kind, c, namespace) ==
    [kind |-> kind, header |-> Canonical[c.path], namespace |-> namespace, name |-> c.name,
     sig |-> c.sig, defined |-> FALSE, operators |-> {}]

Operator(c, namespace) == [Entity("operator", c, namespace) EXCEPT !.defined = c.defined]

\* parse_record: pure virtuals count whatever their access, the rest when public
Record(c, namespace) ==
    LET kids == {k \in ToSet(c.kids) : ShouldCollect(k)}
        public == {k \in kids : k.access = "public"}
        ofFriends == UNION {ToSet(k.kids) : k \in {k \in public : k.kind = "friend"}} IN
    [Entity("record", c, namespace) EXCEPT
        !.sig = {k.name : k \in {k \in public : k.kind = "member"}}
                    \cup {"abstract" : k \in {k \in kids : "pure" \in k.sig}},
        !.operators = {Operator(k, namespace) :
                          k \in {k \in public \cup ofFriends : k.kind = "operator"}}]

\* What a cursor that is no namespace adds to the API; a typedef has one enum.
Declared(c, namespace) ==
    LET record == Record(c, namespace)
        unnamed == {k \in ToSet(c.kids) : k.kind = "enum" /\ k.name = ""} IN
    CASE IsClass(c) ->
            IF record.sig \ {"abstract"} = {} /\ record.operators = {} THEN <<>> ELSE <<record>>
      [] c.kind = "operator" -> <<Operator(c, namespace)>>
      [] c.kind \in {"function", "enum"} -> <<Entity(c.kind, c, namespace)>>
      [] c.kind = "typedef" /\ "callback" \in c.sig -> <<Entity("callback", c, namespace)>>
      [] c.kind = "typedef" /\ "callback" \notin c.sig /\ unnamed # {} ->
            <<[Entity("enum", CHOOSE k \in unnamed : TRUE, namespace) EXCEPT !.name = c.name]>>
      [] c.kind = "macro" /\ c.defined -> <<Entity("macro", c, <<>>)>>
      [] OTHER -> <<>>

Visiting == phase = "visiting" /\ todo # <<>>
Cursor == Head(todo).cursor

visitUnchanged == <<in, phase, failing, config, index, live, pass, queue, args, read, parts, exported>>

SkipCursor ==
    /\ Visiting /\ ~ShouldCollect(Cursor)
    /\ todo' = Tail(todo)
    /\ UNCHANGED <<discovered, api>> /\ UNCHANGED visitUnchanged

\* An anonymous namespace is not entered.
EnterNamespace ==
    /\ Visiting /\ ShouldCollect(Cursor) /\ Cursor.kind = "namespace"
    /\ LET inner == Append(Head(todo).namespace, Cursor.name)
           kids == IF Cursor.name = "" THEN <<>> ELSE Cursor.kids IN
       todo' = [i \in DOMAIN kids |-> [cursor |-> kids[i], namespace |-> inner]] \o Tail(todo)
    /\ discovered' = discovered \cup {Cursor.path}
    /\ UNCHANGED api /\ UNCHANGED visitUnchanged

\* record_header_path, for the cursor and for the children of a class
CollectDeclaration ==
    /\ Visiting /\ ShouldCollect(Cursor) /\ Cursor.kind # "namespace"
    /\ todo' = Tail(todo)
    /\ api' = api \o Declared(Cursor, Head(todo).namespace)
    /\ discovered' = discovered \cup {Cursor.path}
                        \cup IF IsClass(Cursor)
                             THEN {k.path : k \in {k \in ToSet(Cursor.kids) : ShouldCollect(k)}}
                             ELSE {}
    /\ UNCHANGED visitUnchanged

\* mutant: errors of libclang are read and forgotten
Indulgent(unit) == FALSE

\* collect_diagnostics: severity of an error or more
HasErrors(unit) == in.outcome[unit] = "errors"

ReadDiagnostics ==
    /\ phase = "visiting" /\ todo = <<>>
    /\ failing' = HasErrors(Head(queue))
    /\ read' = IF failing' THEN read ELSE read \cup {Head(queue)}
    /\ phase' = "disposing"
    /\ UNCHANGED <<in, config, index, live, pass, queue, args, todo, discovered, api, parts, exported>>

\* mutant: a unit outlives the error that it has shown
KeptWhenFailing == IF failing THEN live ELSE {}

\* TranslationUnit::drop
Disposed == live \ {Head(queue)}

\* mutant: the loop stays at its unit
SameAgain == queue

Remaining == Tail(queue)

DisposeUnit ==
    /\ phase = "disposing"
    /\ live' = Disposed
    /\ queue' = Remaining
    /\ phase' = IF failing THEN "closing" ELSE "units"
    /\ UNCHANGED <<in, failing, config, index, pass, args, todo, read, discovered, api, parts, exported>>

\* mutant: no header is parsed that a source might have included
SourcesSuffice == {}

\* Headers of the directories of which nothing was seen.
SupplementalHeaders ==
    IF config.dirs = <<>> THEN {}
    ELSE {h \in Listed("header") : ~\E seen \in discovered : Canonical[seen] = h}

StartSupplement ==
    /\ phase = "units" /\ queue = <<>> /\ pass = 1
    /\ pass' = 2
    /\ queue' \in SetToSeqs(SupplementalHeaders)
    /\ UNCHANGED <<in, phase, failing, config, index, live, args, todo, read, discovered, api, parts, exported>>

(***************************************************************************)
(* Merging what several units have shown                                   *)
(***************************************************************************)

\* OperatorDedupeKey, RecordDedupeKey; anything else is its own key
OperatorKey(o) == [o EXCEPT !.defined = FALSE]

\* mutant: operators with and without a body make different classes
BodiesCount(e) == OperatorKey(e)

Key(e) == [OperatorKey(e) EXCEPT !.operators = {OperatorKey(o) : o \in @}]

\* An operator counts as defined when one that is alike does.
DedupeOperators(operators) ==
    {[o EXCEPT !.defined = \E p \in operators : OperatorKey(p) = OperatorKey(o) /\ p.defined] :
        o \in operators}

\* mutant: the first one that was seen is kept as it is
FirstSeen(e, alike) == e

Merged(e, alike) ==
    [e EXCEPT !.defined = \E a \in alike : a.defined,
              !.operators = DedupeOperators(UNION {a.operators : a \in alike})]

\* The places where a key comes for the first time.
Firsts(keys) == {i \in DOMAIN keys : \A j \in 1..(i - 1) : keys[j] # keys[i]}

\* dedupe_vec, dedupe_operators, dedupe_records: what is kept stays in its place.
Dedupe(entities) ==
    LET keys == [i \in DOMAIN entities |-> Key(entities[i])] IN
    [i \in Firsts(keys) |->
        Merged(entities[i], {e \in ToSet(entities) : Key(e) = keys[i]})]

\* dedupe_api, which also sorts: nothing depends on the order
FinishParse ==
    /\ phase = "units" /\ queue = <<>> /\ pass = 2
    /\ api' = Dedupe(api)
    /\ phase' = "closing"
    /\ UNCHANGED <<in, failing, config, index, live, pass, queue, args, todo, read, discovered, parts, exported>>

\* ClangIndex::drop
CloseIndex ==
    /\ phase = "closing"
    /\ index' = FALSE
    /\ phase' = IF failing THEN "failed" ELSE "parsed"
    /\ UNCHANGED <<in, failing, config, live, pass, queue, args, todo, read, discovered, api, parts, exported>>

\* generate_all with filter_to_header, and write_package_metadata
HandOut ==
    /\ phase = "parsed"
    /\ parts' = [h \in GenerationHeaders |->
                    Restrict(api, {i \in DOMAIN api : Canonical[api[i].header] = h})]
    /\ exported' = [cxx |-> ExportedCxxflags(in.args, config.args),
                    ld |-> ExportedLdflags(config.ldflags)]
    /\ phase' = "handed"
    /\ UNCHANGED <<in, failing, config, index, live, pass, queue, args, todo, read, discovered, api>>

Next ==
    \/ ResolveConfig
    \/ Validate
    \/ OpenIndex
    \/ ParseUnit
    \/ SkipCursor
    \/ EnterNamespace
    \/ CollectDeclaration
    \/ ReadDiagnostics
    \/ DisposeUnit
    \/ StartSupplement
    \/ FinishParse
    \/ CloseIndex
    \/ HandOut

\* One thread that nothing waits for: each step is followed by the next.
Spec == Init /\ [][Next]_vars /\ WF_vars(Next)

(***************************************************************************)
(* Properties                                                              *)
(***************************************************************************)

\* Types, and that no file is in line twice (Config::validate compares what
\* paths lead to, and the scans keep sets).
TypeOK ==
    /\ phase \in {"given", "resolved", "valid", "units", "visiting", "disposing", "closing",
                  "parsed", "handed", "failed"}
    /\ failing \in BOOLEAN /\ index \in BOOLEAN /\ pass \in {1, 2}
    /\ ToSet(queue) \cup live \cup read \subseteq {Canonical[p] : p \in Paths}
    /\ discovered \subseteq Paths
    /\ \A i \in DOMAIN api : ~api[i].defined \/ api[i].kind = "operator"
    /\ phase \notin {"given", "resolved"} => NoRepetition(queue)

\* At most the unit that is being visited is alive, within the index, and on
\* every way out both are gone: parser.rs's Drop implementations.
UnitsReleased ==
    /\ live # {} => index /\ queue # <<>> /\ live = {Head(queue)}
    /\ phase \in {"visiting", "disposing"} => live # {}
    /\ phase \in {"parsed", "handed", "failed"} => live = {} /\ ~index

\* Nothing is handed out of a run in which a unit could not be read, though
\* the declarations of a unit are collected before its errors are looked at.
FailureStopsAll ==
    phase = "handed" => /\ read # {} \/ GenerationHeaders = {}
                        /\ \A u \in read : in.outcome[u] = "read"
                        /\ config.headers # <<>> => read = ToSet(config.headers)
                        /\ config.dirs # <<>> => Scanned \subseteq read

\* What a unit declares in a header.
ShownBy(unit, h) ==
    {e \in UNION {ToSet(Declared(q[1], q[2])) :
                    q \in {q \in Nested(Top(in.shown[unit])) : ~q[1].system /\ q[1].kind # "namespace"}} :
        Canonical[e.header] = h}

\* A declaration, whether operators have bodies aside.
Plainly(e) == [e EXCEPT !.defined = FALSE,
                        !.operators = {<<o.namespace, o.name, o.sig>> : o \in @}]

Plain(S) == {Plainly(e) : e \in S}

\* Precondition: a header shows the same, bodies aside, to every unit that
\* includes it as a header of the project.
SeenAlike ==
    \A h \in GenerationHeaders :
        LET alone == Plain(ShownBy(h, h)) IN
        \A u \in read \ {h} : \/ \A c \in ToSet(in.shown[u]) : c.system \/ Canonical[c.path] # h
                              \/ Plain(ShownBy(u, h)) = alone

\* Precondition: headers of the directories are no links to elsewhere, or to
\* files that are no headers.
NoLinksOut ==
    \A h \in GenerationHeaders :
        Extension[h] = "header" /\ (config.dirs # <<>> => ParentDir[h] \in ToSet(config.dirs))

\* Each header is handed what it declares when it is parsed by itself, whether
\* a source included it, no unit did, or only as a system header: parse's
\* supplemental headers.
EveryDeclarationRead ==
    phase = "handed" /\ SeenAlike /\ NoLinksOut =>
        \A h \in GenerationHeaders : Plain(ToSet(parts[h])) = Plain(ShownBy(h, h))

\* What tells a declaration from others of a header.
Declaration(e) == <<e.kind, e.namespace, e.name, IF e.kind = "record" THEN {} ELSE e.sig>>

\* What is collected belongs to a header that gets a wrapper (should_collect_cursor
\* and filter_to_header agree on what a project's header is), and, however many
\* units see a declaration, that header is handed it once: dedupe_api.
HandedOutOnce ==
    phase = "handed" =>
        /\ \A i \in DOMAIN api : \E h \in DOMAIN parts : api[i] \in ToSet(parts[h])
        /\ SeenAlike =>
              \A h \in DOMAIN parts :
                  NoRepetition([i \in DOMAIN parts[h] |-> Declaration(parts[h][i])])

\* Precondition: what units show of the project's headers they show by paths
\* that tell so.
PathsTell ==
    \A u \in read : \A c \in ToSet(in.shown[u]) :
        ~c.system /\ Canonical[c.path] \in GenerationHeaders => ShouldCollect(c)

\* Operators are declarations themselves, or those of a class.
OperatorsOf(e) == {o \in {e} \cup e.operators : o.kind = "operator"}

Bodies(e) == {<<Plainly(e), OperatorKey(o)>> : o \in {p \in OperatorsOf(e) : p.defined}}

\* An operator, of a class or free, counts as defined in its header when any
\* unit has shown its body, in whatever order they came: dedupe_operators and
\* dedupe_records.
DefinitionsMerged ==
    phase = "handed" /\ PathsTell =>
        \A h \in DOMAIN parts :
            LET bodies == UNION {UNION {Bodies(e) : e \in ShownBy(u, h)} : u \in read} IN
            \A e \in ToSet(parts[h]) : \A o \in OperatorsOf(e) :
                o.defined <=> <<Plainly(e), OperatorKey(o)>> \in bodies

\* What the configuration says, its variables replaced.
Meant(raw) == CompilerReads([i \in DOMAIN raw |-> Expand(in.env, raw[i])])

\* Precondition: variables stand for paths, not for options, for nothing or
\* for other variables, every option has its value, no argument is empty, and
\* the language follows -x as a word of its own, the only form that is looked for;
\* a standard is in one word with its option.
PlainOptions(raw) ==
    /\ \A i \in DOMAIN raw : /\ raw[i].kind = "none" => raw[i].opt # ""
                             /\ raw[i].opt = "-x" => raw[i].kind = "none"
                             /\ raw[i].opt = "-std=" => raw[i].kind # "none"
    /\ \A i \in DOMAIN raw : raw[i].kind = "var" =>
            LET v == Expand(in.env, [raw[i] EXCEPT !.opt = ""]) IN v.opt = "" /\ v.kind \in {"rel", "abs"}
    /\ Meant(raw).open = ""
    /\ \A i \in DOMAIN raw : i > 1 /\ raw[i - 1].kind = "none" => raw[i].opt = ""

\* libclang reads the configured arguments as they were meant, relative to the
\* configuration, then looks where the units are, each place once: resolve_relative_clang_args,
\* collect_clang_args.
ParseReadsArguments ==
    phase = "visiting" /\ PlainOptions(in.args) =>
        LET reads == CompilerReads(args)
            meant == Meant(in.args)
            places == AllAt(<<>>, reads.dirs)
            configured == Len(meant.dirs)
            Default(w, d) == IF w = Option("") THEN d ELSE w IN
        /\ reads.open = "" /\ reads.files = meant.files /\ reads.defines = meant.defines
        /\ reads.language = Default(meant.language, Word("", "rel", <<"c++">>))
        /\ reads.standard = Default(meant.standard, Word("", "rel", <<"c++17">>))
        /\ SubSeq(places, 1, configured) = AllAt(Base, meant.dirs)
        /\ AllAt(<<>>, reads.systemDirs) = AllAt(Base, meant.systemDirs)
        /\ ToSet(config.dirs) \cup {ParentDir[Head(queue)]}
                \subseteq ToSet(places) \cup ToSet(AllAt(<<>>, reads.systemDirs))
        /\ \A i \in configured + 1..Len(places) : ~Contains(SubSeq(places, 1, i - 1), places[i])

IncludesAgree ==
    PlainOptions(in.args) =>
        LET build == CompilerReads(exported.cxx)
            meant == Meant(in.args) IN
        /\ FirstOnes(AllWalked(OutputDir, build.dirs)) =
                FirstOnes(<<OutputDir>> \o AllWalked(Base, meant.dirs))
        /\ build.defines = meant.defines /\ build.standard = meant.standard
        /\ build.files = <<>> /\ build.open = ""

LibrariesAgree ==
    PlainOptions(in.ldflags) =>
        LET build == CompilerReads(exported.ld)
            meant == Meant(in.ldflags) IN
        /\ AllWalked(OutputDir, build.libraryDirs) = AllWalked(Base, meant.libraryDirs)
        /\ DOMAIN build.files = DOMAIN meant.files
        /\ \A i \in DOMAIN meant.files :
                IF IsLibraryFile(meant.files[i])
                THEN Walk(At(OutputDir, build.files[i])) = Walk(At(Base, meant.files[i]))
                ELSE build.files[i] = meant.files[i]

\* The C++ of the package is compiled with the include directories, macros and
\* standard of the configuration, directories in the same order and leading to
\* the same places from the package (exported_cxxflags), and the linker is given
\* the library directories and files of the configuration, leading to the same
\* places (resolve_ldflags, exported_ldflags).
BuildAgrees == phase = "handed" => IncludesAgree /\ LibrariesAgree

\* A run ends, with what it has collected or with an error.
RunEnds == <>(phase \in {"handed", "failed"})
===============================================================================
