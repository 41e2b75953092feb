-------------------------- MODULE GeneratePipeline --------------------------
(***************************************************************************)
(* One run of `generate`: generate_all in src/codegen/c_abi.rs, which      *)
(* normalizes every entry header, decides which header declares which Go   *)
(* type, and then writes the wrapper set of one header after the other     *)
(* into one directory, which is one Go package and one native library.     *)
(*                                                                         *)
(* A handle is a native class as the wrappers see it.  Of a normalized     *)
(* header only what decides who declares a handle is kept.  The parser is  *)
(* external: it leaves any IR in IRs for each header.                      *)
(***************************************************************************)
EXTENDS Naturals, Sequences, FiniteSets

CONSTANTS
    Headers,                \* the entry headers, in the order of discovery
    Stem,                   \* the snake-case file stem of each header
    Handle,                 \* handles of native classes
    IRs,                    \* the normalized headers to consider
    DefaultNames,           \* output.header, .source and .ir are defaults
    GoModule,               \* --go-module is given
    WriteIr                 \* --dump-ir is given

Header == {Headers[i] : i \in DOMAIN Headers}

IR == [declares    : BOOLEAN,           \* the parser found declarations
       opaques     : SUBSET Handle,     \* opaque_types: declared or referenced
       destructors : SUBSET Handle,     \* records: each has a Destructor
       methods     : SUBSET Handle,     \* ... those with a Method
       classes     : SUBSET Handle,     \* ... those with a Method Go supports
       projected   : SUBSET Handle,     \* ... those with a pair of Get and Set
       values      : SUBSET Handle,     \* returned by value
       goValues    : SUBSET Handle,     \* ... by a function Go supports
       goUses      : SUBSET Handle,     \* in signatures of functions Go supports
       goContent   : BOOLEAN,           \* a free function, class, enum or constant for Go
       functions   : BOOLEAN,           \* any function at all
       strings     : BOOLEAN]           \* some function returns a std::string

\* What normalize() guarantees of its result.
WellFormed(m) ==
    /\ m.projected \subseteq m.classes
    /\ m.classes \subseteq m.methods
    /\ m.methods \subseteq m.destructors
    /\ m.destructors \cup m.values \cup m.goUses \subseteq m.opaques
    /\ m.goValues \subseteq m.values \cap m.goUses
    /\ m.classes \subseteq m.goUses
    /\ m.goUses # {} => m.goContent
    /\ m.strings \/ m.opaques # {} => m.functions
    /\ m.goContent \/ m.functions => m.declares

ASSUME HeaderAssumption ==
    /\ Headers \in Seq(Header) /\ Headers # << >>
    /\ \A i, j \in DOMAIN Headers : Headers[i] = Headers[j] => i = j
    /\ {DefaultNames, GoModule, WriteIr} \subseteq BOOLEAN

NormalizedHeader == {m \in IR : WellFormed(m)}

ASSUME IRAssumption == IRs \subseteq NormalizedHeader

VARIABLES
    ir,                     \* the normalized headers
    phase,                  \* what generate_all does next
    at,                     \* the header it is at, as an index of Headers
    emitted,                \* globally_emitted_opaques
    claimed,                \* owned_opaque_owner
    local,                  \* local_owned_opaque_value_handles of this header
    files,                  \* the header whose wrapper each file holds
    types,                  \* Go types declared: <<handle, header>>
    owners,                 \* ... those with newOwned, newBorrowed and Close
    symbols                 \* C symbols defined: <<symbol, header>>

vars == <<ir, phase, at, emitted, claimed, local, files, types, owners, symbols>>
output == <<files, types, owners, symbols>>

Phase == {"start", "claim", "h", "cpp", "go", "metadata", "ir", "done", "failed"}

Extension == {"h", "cpp", "go", "ir"}

GoPackage == [stem |-> "", ext |-> "mod"]    \* go.mod and build_flags.go

File == [stem : {Stem[h] : h \in Header}, ext : Extension] \cup {GoPackage}

Symbol == {<<"string_free">>} \cup ({"delete"} \X Handle)

TypeOK ==
    /\ ir \in [Header -> NormalizedHeader]
    /\ phase \in Phase
    /\ at \in 1 .. Len(Headers) + 1
    /\ emitted \in SUBSET Handle
    /\ claimed \in SUBSET Handle
    /\ local \in SUBSET Handle
    /\ files \in SUBSET (File \X Header)
    /\ types \in SUBSET (Handle \X Header)
    /\ owners \in SUBSET types
    /\ symbols \in SUBSET (Symbol \X Header)

\* A record is declared in one header.
OneHome ==
    \A g, h \in Header : g # h => ir[g].destructors \cap ir[h].destructors = {}

Init ==
    /\ ir \in [Header -> IRs]
    /\ OneHome
    /\ phase = "start"
    /\ at = 1
    /\ emitted = {} /\ claimed = {} /\ local = {}
    /\ files = {} /\ types = {} /\ owners = {} /\ symbols = {}

-----------------------------------------------------------------------------
(* What the whole run knows before it writes.                              *)

\* Of several headers, those without declarations are passed over.
Selected ==
    IF Len(Headers) = 1 THEN Header ELSE {h \in Header : ir[h].declares}

\* On to the next header after i, if one is left.
Advance(i) ==
    \E j \in i + 1 .. Len(Headers) + 1 :
        /\ j \in DOMAIN Headers => Headers[j] \in Selected
        /\ \A k \in i + 1 .. j - 1 : Headers[k] \notin Selected
        /\ at' = j
        /\ phase' = IF j \in DOMAIN Headers THEN "claim" ELSE "done"

\* class_handles_with_methods: any method will do.
ClassHandles(h) == ir[h].methods \cap ir[h].destructors

GlobalClassHandles == UNION {ClassHandles(h) : h \in Selected}

\* Classes with a projection, known before any header is normalized.
Projections == UNION {ir[h].projected : h \in Header}

NeedOwnershipHere(h) ==                       \* mutant: other headers' classes are not covered
    ir[h].values \ (ClassHandles(h) \cup Projections)

\* opaque_model_value_handles_needing_go_ownership
NeedOwnership(h) == ir[h].values \ (GlobalClassHandles \cup Projections)

GlobalOwned == UNION {NeedOwnership(h) : h \in Selected}

-----------------------------------------------------------------------------
(* The files of one header.                                                *)

This == Headers[at]

\* The classes collect_facade_classes finds, which need a method Go supports.
FacadeClasses == ir[This].classes \cap ir[This].destructors

\* render_go_facade_with_owned_opaques starts over if it is given no owned
\* handles at all.
LocalOwned ==
    IF GlobalOwned = {} /\ local = {}
    THEN ir[This].goValues \ (FacadeClasses \cup Projections)
    ELSE local

EmittedIsEnough ==                           \* mutant: no exception for what this header owns
    ir[This].opaques \ (emitted \cup FacadeClasses \cup Projections)

\* Opaque types that no file before this one, and no class, declares.
NewOpaques ==
    {c \in ir[This].opaques : c \notin emitted \/ c \in LocalOwned}
        \ (FacadeClasses \cup Projections)

SyntheticDeletesAnywhere == ir[This].values \ ir[This].destructors   \* mutant: not the claimant only

\* synthetic_opaque_model_value_deletes
SyntheticDeletes ==
    {c \in ir[This].values : c \in local}
        \ (ir[This].destructors \cup GlobalClassHandles \cup Projections)

DefinedSymbols ==
    ({"delete"} \X (ir[This].destructors \cup SyntheticDeletes))
        \cup {s \in {<<"string_free">>} : ir[This].strings}

\* fs::write replaces what another header left in a file of the same name.
Write(file) == files' = {e \in files : e[1] # file} \cup {<<file, This>>}

FirstStem(h, ext) == [stem |-> Stem[Headers[1]], ext |-> ext]   \* mutant: the names are not scoped

WrapperFile(h, ext) == [stem |-> Stem[h], ext |-> ext]

-----------------------------------------------------------------------------
\* Configuration check and pass 1.
Start ==
    /\ phase = "start"
    /\ Len(Headers) = 1 \/ DefaultNames
    /\ Advance(0)
    /\ emitted' = GlobalClassHandles \cup
          (IF Len(Headers) = 1 THEN {} ELSE GlobalOwned)
    /\ UNCHANGED <<ir, claimed, local, output>>

ClaimAgain == NeedOwnership(This)            \* mutant: owned_opaque_owner is not asked

ClaimNew == NeedOwnership(This) \ claimed

\* Each owned handle goes to the first header that returns it by value.
Claim ==
    /\ phase = "claim"
    /\ local' = ClaimNew
    /\ claimed' = claimed \cup ClaimNew
    /\ phase' = "h"
    /\ UNCHANGED <<ir, at, emitted, output>>

WriteHeader ==
    /\ phase = "h"
    /\ IF ir[This].functions THEN Write(WrapperFile(This, "h")) ELSE UNCHANGED files
    /\ phase' = "cpp"
    /\ UNCHANGED <<ir, at, emitted, claimed, local, types, owners, symbols>>

WriteSource ==
    /\ phase = "cpp"
    /\ \/ /\ ir[This].functions
          /\ Write(WrapperFile(This, "cpp"))
          /\ symbols' = symbols \cup (DefinedSymbols \X {This})
       \/ /\ ~ir[This].functions
          /\ UNCHANGED <<files, symbols>>
    /\ phase' = "go"
    /\ UNCHANGED <<ir, at, emitted, claimed, local, types, owners>>

\* Without Go content there is no Go file, and no opaque type either.
WriteGo ==
    /\ phase = "go"
    /\ \/ /\ ir[This].goContent
          /\ Write(WrapperFile(This, "go"))
          /\ types' = types \cup ((FacadeClasses \cup NewOpaques) \X {This})
          /\ owners' = owners \cup
                ((FacadeClasses \cup (NewOpaques \cap LocalOwned)) \X {This})
       \/ /\ ~ir[This].goContent
          /\ UNCHANGED <<files, types, owners>>
    /\ phase' = "metadata"
    /\ UNCHANGED <<ir, at, emitted, claimed, local, symbols>>

WriteMetadata ==
    /\ phase = "metadata"
    /\ IF GoModule THEN Write(GoPackage) ELSE UNCHANGED files
    /\ phase' = "ir"
    /\ UNCHANGED <<ir, at, emitted, claimed, local, types, owners, symbols>>

ForgetEmitted == UNCHANGED emitted           \* mutant: the loop after a header is missing

\* All opaque types of the header count as emitted from now on.
RecordEmitted == emitted' = emitted \cup ir[This].opaques

\* The IR dump, and the bookkeeping after a header.
FinishHeader ==
    /\ phase = "ir"
    /\ IF WriteIr THEN Write(WrapperFile(This, "ir")) ELSE UNCHANGED files
    /\ RecordEmitted
    /\ Advance(at)
    /\ UNCHANGED <<ir, claimed, local, types, owners, symbols>>

\* A declaration that cannot be normalized or rendered, names that collide,
\* explicit names for several headers, or an I/O error: the run stops there.
Fail ==
    /\ phase \notin {"claim", "done", "failed"}
    /\ phase' = "failed"
    /\ UNCHANGED <<ir, at, emitted, claimed, local, output>>

Next ==
    \/ Start \/ Claim \/ WriteHeader \/ WriteSource \/ WriteGo
    \/ WriteMetadata \/ FinishHeader \/ Fail

Spec == Init /\ [][Next]_vars

-----------------------------------------------------------------------------
(* Which headers are free of the cases the findings are about.             *)

\* No header returns another header's class by value, unless that class has a
\* projection; or some handle needs an owned opaque type.
RecomputeHarmless ==
    \/ GlobalOwned # {}
    \/ \A h \in Header : ir[h].goValues \subseteq ir[h].classes \cup Projections

\* Every class with methods is of use in Go, and so is every header that
\* refers to a class.
AllReachGo ==
    \A h \in Header :
        /\ ir[h].methods = ir[h].classes
        /\ ir[h].opaques # {} => ir[h].goContent

\* No two headers return strings, and none returns another one's class
\* without methods by value.
NothingShared ==
    \A g, h \in Header : g # h =>
        /\ ~(ir[g].strings /\ ir[h].strings)
        /\ ir[g].values \cap (ir[h].destructors \ ir[h].methods) = {}

DistinctStems == \A g, h \in Header : Stem[g] = Stem[h] => g = h

-----------------------------------------------------------------------------
\* No Go type is declared by the files of two headers: they are one package
\* (the filter on globally_emitted_opaques in go_facade.rs).
TypesDeclaredOnce == \A d, e \in types : d[1] = e[1] => d = e

\* ... which holds if render_go_facade_with_owned_opaques never recomputes to
\* any effect.
DeclaredOnceUnlessRecomputed == RecomputeHarmless => TypesDeclaredOnce

-----------------------------------------------------------------------------
(* The inductive invariant behind DeclaredOnceUnlessRecomputed.            *)

\* generate_all works on one selected header at a time.
AtIsSelected ==
    phase \notin {"start", "done", "failed"} =>
        at \in DOMAIN Headers /\ This \in Selected

\* Types come from the opaque types of the headers it has been through.
TypesAreWritten ==
    \A t \in types : \E i \in DOMAIN Headers :
        /\ phase # "start"
        /\ t[2] = Headers[i]
        /\ t[1] \in ir[Headers[i]].opaques
        /\ i < at => t[1] \in emitted
        /\ i <= at
        /\ i = at => phase \in {"metadata", "ir", "failed"}

\* Nothing that is claimed or has a class of its own is ever not emitted.
EmittedFromTheStart ==
    phase \notin {"start", "failed"} =>
        /\ GlobalClassHandles \subseteq emitted
        /\ Len(Headers) > 1 => GlobalOwned \subseteq emitted

\* Classes are declared at home, the others by whoever claims them first.
DeclaredByRight ==
    /\ \A t \in types : t[1] \in GlobalClassHandles => t[1] \in ir[t[2]].destructors
    /\ Len(Headers) > 1 => \A t \in types : t[1] \in GlobalOwned => t[1] \in claimed
    /\ phase \in {"h", "cpp", "go"} => \A t \in types : t[1] \notin local

PipelineInv ==
    /\ TypeOK
    /\ OneHome
    /\ local \subseteq claimed /\ claimed \subseteq GlobalOwned
    /\ AtIsSelected
    /\ TypesAreWritten
    /\ EmittedFromTheStart
    /\ RecomputeHarmless => DeclaredByRight /\ TypesDeclaredOnce

-----------------------------------------------------------------------------
\* When the run is done, a header's Go file finds every handle its signatures
\* mention declared, by itself or by another file of the package.
UsedTypesDeclared ==
    phase = "done" =>
        \A h \in Selected : ir[h].goContent =>
            \A c \in ir[h].goUses : \E g \in Header : <<c, g>> \in types

\* Close of an owner wrapper calls a delete that the header's own C wrappers
\* define: render_owned_opaque_wrapper and the synthetic deletes agree.
OwnersCanDelete ==
    RecomputeHarmless =>
        \A o \in owners : <<<<"delete", o[1]>>, o[2]>> \in symbols

\* When the run is done, a handle that a Go function returns by value has a
\* wrapper that owns it, so that the object can be freed at all.
ValuesHaveOwners ==
    phase = "done" =>
        \A h \in Selected : \A c \in ir[h].goValues :
            \E g \in Header : <<c, g>> \in owners

\* Both hold if everything that counts as emitted reaches Go: the types and the
\* owners that class_handles_with_methods and globally_emitted_opaques promise
\* to the other headers are there.
PromisesKeptIfAllReachGo == AllReachGo => UsedTypesDeclared /\ ValuesHaveOwners

\* No C symbol is defined by the sources of two headers: they are linked into
\* one library.
SymbolsDefinedOnce == \A d, e \in symbols : d[1] = e[1] => d = e

DefinedOnceUnlessShared == NothingShared => SymbolsDefinedOnce

\* The handles class_handles_with_methods returns get a wrapper struct.
ClassHandlesGetWrappers ==
    phase = "done" =>
        \A c \in GlobalClassHandles : \E h \in Header : <<c, h>> \in owners

WrapperSet(h) ==
    {WrapperFile(h, ext) : ext \in
        {x \in {"h", "cpp"} : ir[h].functions}
            \cup {x \in {"go"} : ir[h].goContent}
            \cup {x \in {"ir"} : WriteIr}}

\* However the run ends, the headers it has been through have complete sets of
\* files of their own.
FinishedSetsStand ==
    \A i \in 1 .. at - 1 : phase # "start" /\ Headers[i] \in Selected =>
        WrapperSet(Headers[i]) \X {Headers[i]} \subseteq files

StandIfStemsDiffer == DistinctStems => FinishedSetsStand
=============================================================================
