----------------------- MODULE GeneratePipelineProofs -----------------------
(***************************************************************************)
(* Proofs about module GeneratePipeline, for any number of headers and     *)
(* handles and any headers the parser may leave:                           *)
(*                                                                         *)
(*   Invariant         PipelineInv is an invariant                                *)
(*   DeclaredOnce      so is DeclaredOnceUnlessRecomputed                  *)
(*   DefinedOnce       so is DefinedOnceUnlessShared                       *)
(*   OwnersDelete      so is OwnersCanDelete                               *)
(*   SetsStand         so is StandIfStemsDiffer                            *)
(*   PromisesKept      so is PromisesKeptIfAllReachGo                      *)
(*                                                                         *)
(* PipelineInv says who declares a type.  What is behind the others comes after   *)
(* it: SymbolInv says where symbols come from, FileInv what the directory  *)
(* holds, and PromiseInv what the headers gone through leave to the rest.  *)
(***************************************************************************)
EXTENDS GeneratePipeline, TLAPS

\* What a header says of its handles is ordered as normalize() orders it.
LEMMA HeaderFacts ==
    ASSUME TypeOK, NEW h \in Header
    PROVE  /\ ir[h].projected \subseteq ir[h].classes
           /\ ir[h].classes \subseteq ir[h].methods
           /\ ir[h].methods \subseteq ir[h].destructors
           /\ ir[h].destructors \subseteq ir[h].opaques
           /\ ir[h].opaques \subseteq Handle
           /\ ir[h].values \subseteq ir[h].opaques
           /\ ir[h].goValues \subseteq ir[h].values
           /\ ir[h].goValues \subseteq ir[h].goUses
           /\ ir[h].classes \subseteq ir[h].goUses
           /\ ir[h].goUses \subseteq ir[h].opaques
           /\ ir[h].goUses # {} => ir[h].goContent
           /\ ir[h].goContent => ir[h].declares
           /\ ir[h].opaques # {} => ir[h].functions
  <1>1. ir[h] \in IR /\ WellFormed(ir[h])
    BY DEF TypeOK, NormalizedHeader
  <1> QED
    BY <1>1 DEF IR, WellFormed

\* What the run knows of all headers depends on the headers alone.
LEMMA KnownFromTheStart ==
    ASSUME UNCHANGED ir
    PROVE  /\ Selected' = Selected
           /\ Projections' = Projections
           /\ GlobalClassHandles' = GlobalClassHandles
           /\ GlobalOwned' = GlobalOwned
           /\ RecomputeHarmless' = RecomputeHarmless
           /\ OneHome' = OneHome
  <1>1. Selected' = Selected
    BY DEF Selected
  <1>2. Projections' = Projections
    BY DEF Projections
  <1>3. GlobalClassHandles' = GlobalClassHandles
    BY <1>1 DEF GlobalClassHandles, ClassHandles
  <1>4. GlobalOwned' = GlobalOwned
    BY <1>1, <1>2, <1>3 DEF GlobalOwned, NeedOwnership
  <1>5. RecomputeHarmless' = RecomputeHarmless
    BY <1>2, <1>4 DEF RecomputeHarmless
  <1>6. OneHome' = OneHome
    BY DEF OneHome
  <1> QED
    BY <1>1, <1>2, <1>3, <1>4, <1>5, <1>6

\* The handles with a class, and those that need an owned opaque type, are
\* handles, and no handle is both.
LEMMA KnownHandles ==
    ASSUME TypeOK
    PROVE  /\ GlobalClassHandles \subseteq Handle
           /\ GlobalOwned \subseteq Handle
           /\ GlobalClassHandles \cap GlobalOwned = {}
  <1>1. Selected \subseteq Header
    BY DEF Selected
  <1>2. GlobalClassHandles \subseteq Handle
    BY <1>1, HeaderFacts DEF GlobalClassHandles, ClassHandles
  <1>3. GlobalOwned \subseteq Handle
    BY <1>1, HeaderFacts DEF GlobalOwned, NeedOwnership
  <1>4. GlobalClassHandles \cap GlobalOwned = {}
    BY DEF GlobalOwned, NeedOwnership
  <1> QED
    BY <1>2, <1>3, <1>4

\* Where recomputing is harmless, a header owns what was claimed for it.
LEMMA HarmlessMeansClaimed ==
    ASSUME TypeOK, RecomputeHarmless, This \in Header
    PROVE  LocalOwned = local
  <1>1. CASE GlobalOwned # {}
    BY <1>1 DEF LocalOwned
  <1>2. CASE GlobalOwned = {}
    <2>1. ir[This].goValues \subseteq ir[This].classes \cup Projections
      BY <1>2 DEF RecomputeHarmless
    <2>2. ir[This].classes \subseteq FacadeClasses
      BY HeaderFacts DEF FacadeClasses
    <2> QED
      BY <2>1, <2>2 DEF LocalOwned
  <1> QED
    BY <1>1, <1>2

\* Initially nothing is declared and nothing claimed.
THEOREM InitInvariant == Init => PipelineInv
  <1> SUFFICES ASSUME Init PROVE PipelineInv
    OBVIOUS
  <1> USE DEF Init
  <1>1. TypeOK
    <2>1. ir \in [Header -> NormalizedHeader]
      BY IRAssumption
    <2>2. at \in 1 .. Len(Headers) + 1
      BY HeaderAssumption
    <2> QED
      BY <2>1, <2>2 DEF TypeOK, Phase
  <1>2. AtIsSelected /\ TypesAreWritten /\ EmittedFromTheStart
    BY DEF AtIsSelected, TypesAreWritten, EmittedFromTheStart
  <1>3. DeclaredByRight /\ TypesDeclaredOnce
    BY DEF DeclaredByRight, TypesDeclaredOnce
  <1> QED
    BY <1>1, <1>2, <1>3 DEF PipelineInv

-----------------------------------------------------------------------------
\* A step keeps the invariant that changes files and symbols only, and goes
\* on from a phase to one of the same kind.
LEMMA QuietStep ==
    ASSUME PipelineInv, TypeOK',
           UNCHANGED <<ir, at, emitted, claimed, local, types>>,
           phase \in {"start", "done", "failed"} =>
               phase' \in {"start", "done", "failed"},
           phase \in {"metadata", "ir", "failed"} =>
               phase' \in {"metadata", "ir", "failed"},
           phase' = "start" => phase = "start",
           phase' \notin {"start", "failed"} => phase \notin {"start", "failed"},
           phase' \in {"h", "cpp", "go"} => phase \in {"h", "cpp", "go"}
    PROVE  PipelineInv'
  <1> USE DEF PipelineInv
  <1>1. AtIsSelected'
    BY KnownFromTheStart DEF AtIsSelected, This
  <1>2. TypesAreWritten'
    BY DEF TypesAreWritten
  <1>3. EmittedFromTheStart'
    BY KnownFromTheStart DEF EmittedFromTheStart
  <1>4. RecomputeHarmless' => DeclaredByRight' /\ TypesDeclaredOnce'
    BY KnownFromTheStart DEF DeclaredByRight, TypesDeclaredOnce
  <1> QED
    BY <1>1, <1>2, <1>3, <1>4, KnownFromTheStart

\* The steps that write the C files, the metadata and nothing else, and failing.
LEMMA FilesInvariant ==
    ASSUME PipelineInv, WriteHeader \/ WriteSource \/ WriteMetadata \/ Fail
    PROVE  PipelineInv'
  <1>1. UNCHANGED <<ir, at, emitted, claimed, local, types, owners>>
    BY DEF WriteHeader, WriteSource, WriteMetadata, Fail, output
  <1>2. \/ phase = "h" /\ phase' = "cpp"
        \/ phase = "cpp" /\ phase' = "go"
        \/ phase = "metadata" /\ phase' = "ir"
        \/ phase \notin {"claim", "done", "failed"} /\ phase' = "failed"
    BY DEF WriteHeader, WriteSource, WriteMetadata, Fail
  <1>3. CASE Fail
    <2>1. TypeOK'
      BY <1>3 DEF Fail, PipelineInv, TypeOK, Phase, output
    <2> QED
      BY <1>1, <1>3, <2>1, QuietStep DEF Fail
  <1>4. CASE WriteHeader \/ WriteSource \/ WriteMetadata
    <2>1. This \in Header
      BY <1>4 DEF PipelineInv, AtIsSelected, WriteHeader, WriteSource, WriteMetadata, Selected
    <2>2. \A f \in File : Write(f) => files' \in SUBSET (File \X Header)
      BY <2>1 DEF Write, PipelineInv, TypeOK
    <2>3. /\ GoPackage \in File
          /\ \A ext \in Extension : WrapperFile(This, ext) \in File
      BY <2>1 DEF File, WrapperFile
    <2>4. files' \in SUBSET (File \X Header)
      <3>1. "h" \in Extension /\ "cpp" \in Extension
        BY DEF Extension
      <3> QED
        BY <1>4, <2>2, <2>3, <3>1
           DEF WriteHeader, WriteSource, WriteMetadata, PipelineInv, TypeOK
    <2>5. DefinedSymbols \subseteq Symbol
      <3>1. ir[This].destructors \subseteq Handle /\ SyntheticDeletes \subseteq Handle
        BY <2>1, HeaderFacts DEF PipelineInv, SyntheticDeletes
      <3> QED
        BY <3>1 DEF DefinedSymbols, Symbol
    <2>6. symbols' \in SUBSET (Symbol \X Header)
      BY <1>4, <2>1, <2>5 DEF WriteHeader, WriteSource, WriteMetadata, PipelineInv, TypeOK
    <2>7. TypeOK'
      BY <1>1, <1>2, <2>4, <2>6 DEF PipelineInv, TypeOK, Phase
    <2>8. phase \notin {"start", "done", "failed", "ir"} /\ phase' # "done"
      BY <1>4 DEF WriteHeader, WriteSource, WriteMetadata
    <2> QED
      BY <1>1, <1>2, <2>7, <2>8, QuietStep
  <1> QED
    BY <1>3, <1>4

\* Advancing stays in range and stops at selected headers.
LEMMA AdvanceFacts ==
    ASSUME NEW i \in Nat, Advance(i), UNCHANGED ir
    PROVE  /\ at' \in i + 1 .. Len(Headers) + 1
           /\ phase' \in {"claim", "done"}
           /\ phase' = "claim" => at' \in DOMAIN Headers /\ Headers[at'] \in Selected
  BY DEF Advance

\* Pass 1 declares and claims nothing.
LEMMA StartInvariant == ASSUME PipelineInv, Start PROVE PipelineInv'
  <1> USE DEF Start
  <1>1. Advance(0) /\ UNCHANGED <<ir, claimed, local, files, types, owners, symbols>>
    BY DEF output
  <1>2. /\ at' \in 1 .. Len(Headers) + 1
        /\ phase' \in {"claim", "done"}
        /\ phase' = "claim" => at' \in DOMAIN Headers /\ Headers[at'] \in Selected
    BY <1>1, AdvanceFacts
  <1>3. types = {}
    BY DEF PipelineInv, TypesAreWritten, TypeOK
  <1>4. TypeOK'
    <2>1. emitted' \in SUBSET Handle
      BY KnownHandles DEF PipelineInv
    <2> QED
      BY <1>1, <1>2, <2>1 DEF PipelineInv, TypeOK, Phase
  <1>5. AtIsSelected'
    BY <1>1, <1>2, KnownFromTheStart DEF AtIsSelected, This
  <1>6. TypesAreWritten'
    BY <1>1, <1>3 DEF TypesAreWritten
  <1>7. EmittedFromTheStart'
    <2>1. emitted' = GlobalClassHandles \cup
                        (IF Len(Headers) = 1 THEN {} ELSE GlobalOwned)
      OBVIOUS
    <2>2. GlobalClassHandles' = GlobalClassHandles /\ GlobalOwned' = GlobalOwned
      BY <1>1, KnownFromTheStart
    <2> HIDE DEF Start
    <2>3. Len(Headers) > 1 => Len(Headers) # 1
      BY HeaderAssumption
    <2> QED
      BY <2>1, <2>2, <2>3 DEF EmittedFromTheStart
  <1>8. DeclaredByRight' /\ TypesDeclaredOnce'
    BY <1>1, <1>3 DEF DeclaredByRight, TypesDeclaredOnce
  <1> QED
    BY <1>1, <1>4, <1>5, <1>6, <1>7, <1>8, KnownFromTheStart DEF PipelineInv

\* A header claims what no header before it has claimed, and so declared.
LEMMA ClaimInvariant == ASSUME PipelineInv, Claim PROVE PipelineInv'
  <1> USE DEF Claim
  <1>1. at \in DOMAIN Headers /\ This \in Selected /\ This \in Header
    BY DEF PipelineInv, AtIsSelected, Selected
  <1>2. ClaimNew \subseteq GlobalOwned
    BY <1>1 DEF ClaimNew, GlobalOwned
  <1>3. TypeOK'
    BY <1>2, KnownHandles DEF PipelineInv, TypeOK, Phase, output
  <1>4. AtIsSelected'
    BY <1>1, KnownFromTheStart DEF AtIsSelected, This
  <1>5. TypesAreWritten'
    BY DEF PipelineInv, TypesAreWritten, output
  <1>6. EmittedFromTheStart'
    BY KnownFromTheStart DEF PipelineInv, EmittedFromTheStart
  <1>7. ASSUME RecomputeHarmless PROVE DeclaredByRight' /\ TypesDeclaredOnce'
    <2>1. \A t \in types : t[1] \notin ClaimNew
      <3>1. CASE Len(Headers) > 1
        BY <1>2, <1>7, <3>1 DEF PipelineInv, DeclaredByRight, ClaimNew
      <3>2. CASE ~(Len(Headers) > 1)
        <4>1. at = 1 /\ DOMAIN Headers = {1}
          <5>1. Len(Headers) \in Nat /\ DOMAIN Headers = 1 .. Len(Headers)
            BY HeaderAssumption
          <5> QED
            BY <1>1, <3>2, <5>1
        <4> QED
          BY <4>1 DEF PipelineInv, TypesAreWritten
      <3> QED
        BY <3>1, <3>2
    <2>2. DeclaredByRight'
      BY <1>7, <2>1, KnownFromTheStart DEF PipelineInv, DeclaredByRight, output
    <2>3. TypesDeclaredOnce'
      BY <1>7 DEF PipelineInv, TypesDeclaredOnce, output
    <2> QED
      BY <2>2, <2>3
  <1> QED
    BY <1>2, <1>3, <1>4, <1>5, <1>6, <1>7, KnownFromTheStart DEF PipelineInv

\* What counts as emitted after a header is what counted before and what it
\* has just declared.
LEMMA FinishInvariant == ASSUME PipelineInv, FinishHeader PROVE PipelineInv'
  <1> USE DEF FinishHeader, RecordEmitted
  <1>1. at \in DOMAIN Headers /\ at \in Nat /\ This \in Header
    <2>1. at \in DOMAIN Headers /\ This \in Selected
      BY DEF PipelineInv, AtIsSelected
    <2> QED
      BY <2>1, HeaderAssumption DEF Selected
  <1>2. /\ at' \in at + 1 .. Len(Headers) + 1
        /\ phase' \in {"claim", "done"}
        /\ phase' = "claim" => at' \in DOMAIN Headers /\ Headers[at'] \in Selected
    BY <1>1, AdvanceFacts
  <1>3. TypeOK'
    <2>1. emitted' \in SUBSET Handle
      BY <1>1, HeaderFacts DEF PipelineInv, TypeOK
    <2>2. files' \in SUBSET (File \X Header)
      <3>1. WrapperFile(This, "ir") \in File
        BY <1>1 DEF WrapperFile, File, Extension
      <3> QED
        BY <1>1, <3>1 DEF Write, PipelineInv, TypeOK
    <2>3. at' \in 1 .. Len(Headers) + 1
      BY <1>1, <1>2
    <2> QED
      BY <1>2, <2>1, <2>2, <2>3 DEF PipelineInv, TypeOK, Phase
  <1>4. AtIsSelected'
    BY <1>2, KnownFromTheStart DEF AtIsSelected, This
  <1>5. TypesAreWritten'
    <2> SUFFICES ASSUME NEW t \in types
                 PROVE  \E i \in DOMAIN Headers :
                           /\ t[2] = Headers[i]
                           /\ t[1] \in ir[Headers[i]].opaques
                           /\ t[1] \in emitted'
                           /\ i <= at' /\ i # at'
      BY <1>2 DEF TypesAreWritten
    <2>1. PICK i \in DOMAIN Headers :
             /\ t[2] = Headers[i]
             /\ t[1] \in ir[Headers[i]].opaques
             /\ i < at => t[1] \in emitted
             /\ i <= at
      BY DEF PipelineInv, TypesAreWritten
    <2>2. i < at \/ i = at
      BY <1>1, <2>1, HeaderAssumption
    <2>3. t[1] \in emitted'
      BY <2>1, <2>2 DEF This
    <2>4. i <= at' /\ i # at'
      BY <1>1, <1>2, <2>2, HeaderAssumption
    <2> QED
      BY <2>1, <2>3, <2>4
  <1>6. EmittedFromTheStart'
    BY KnownFromTheStart DEF PipelineInv, EmittedFromTheStart
  <1>7. RecomputeHarmless => DeclaredByRight' /\ TypesDeclaredOnce'
    BY <1>2, KnownFromTheStart DEF PipelineInv, DeclaredByRight, TypesDeclaredOnce
  <1> QED
    BY <1>3, <1>4, <1>5, <1>6, <1>7, KnownFromTheStart DEF PipelineInv

-----------------------------------------------------------------------------
\* The Go file of a header declares what it is the first to declare.
LEMMA GoInvariant == ASSUME PipelineInv, WriteGo PROVE PipelineInv'
  <1>1. phase = "go" /\ phase' = "metadata"
    BY DEF WriteGo
  <1>2. at \in DOMAIN Headers /\ at \in Nat /\ This \in Selected /\ This \in Header
    BY <1>1, HeaderAssumption DEF PipelineInv, AtIsSelected, TypeOK, Selected
  <1>3. UNCHANGED <<ir, at, emitted, claimed, local, symbols>>
    BY DEF WriteGo
  <1>4. CASE ~ir[This].goContent
    <2>1. UNCHANGED <<types, owners, files>>
      BY <1>4 DEF WriteGo
    <2>2. TypeOK'
      BY <1>1, <1>3, <2>1 DEF PipelineInv, TypeOK, Phase
    <2> QED
      BY <1>1, <1>3, <2>1, <2>2, QuietStep
  <1>5. CASE ir[This].goContent
    <2> DEFINE New == FacadeClasses \cup NewOpaques
    <2>1. /\ Write(WrapperFile(This, "go"))
          /\ types' = types \cup (New \X {This})
          /\ owners' = owners \cup
                ((FacadeClasses \cup (NewOpaques \cap LocalOwned)) \X {This})
      BY <1>5 DEF WriteGo
    <2>2. New \subseteq ir[This].opaques /\ New \subseteq Handle
      <3>1. FacadeClasses \subseteq ir[This].opaques
        BY <1>2, HeaderFacts DEF PipelineInv, FacadeClasses
      <3>2. NewOpaques \subseteq ir[This].opaques
        BY DEF NewOpaques
      <3> QED
        BY <1>2, <3>1, <3>2, HeaderFacts DEF PipelineInv
    <2>3. TypeOK'
      <3>1. files' \in SUBSET (File \X Header)
        <4>1. WrapperFile(This, "go") \in File
          BY <1>2 DEF WrapperFile, File, Extension
        <4> QED
          BY <1>2, <2>1, <4>1 DEF Write, PipelineInv, TypeOK
      <3>2. types' \in SUBSET (Handle \X Header)
        BY <1>2, <2>1, <2>2 DEF PipelineInv, TypeOK
      <3>3. owners' \in SUBSET types'
        BY <2>1 DEF PipelineInv, TypeOK
      <3> QED
        BY <1>1, <1>3, <3>1, <3>2, <3>3 DEF PipelineInv, TypeOK, Phase
    <2>4. \A t \in types' :
             t \in types \/ (t[1] \in New /\ t[2] = This /\ t = <<t[1], t[2]>>)
      BY <2>1
    <2>5. AtIsSelected'
      BY <1>2, <1>3, KnownFromTheStart DEF AtIsSelected, This
    <2>6. TypesAreWritten'
      <3> SUFFICES ASSUME NEW t \in types'
                   PROVE  \E i \in DOMAIN Headers :
                             /\ t[2] = Headers[i]
                             /\ t[1] \in ir[Headers[i]].opaques
                             /\ i < at => t[1] \in emitted
                             /\ i <= at
        BY <1>1, <1>3 DEF TypesAreWritten
      <3>1. CASE t \in types
        BY <3>1 DEF PipelineInv, TypesAreWritten
      <3>2. CASE t[1] \in New /\ t[2] = This
        BY <1>2, <2>2, <3>2 DEF This
      <3> QED
        BY <2>4, <3>1, <3>2
    <2>7. EmittedFromTheStart'
      BY <1>1, <1>3, KnownFromTheStart DEF PipelineInv, EmittedFromTheStart
    <2>8. ASSUME RecomputeHarmless PROVE DeclaredByRight' /\ TypesDeclaredOnce'
      <3> DEFINE Classes == GlobalClassHandles
      <3>1. LocalOwned = local /\ local \subseteq claimed /\ claimed \subseteq GlobalOwned
        BY <1>2, <2>8, HarmlessMeansClaimed DEF PipelineInv
      <3>2. DeclaredByRight /\ TypesDeclaredOnce
        BY <2>8 DEF PipelineInv
      <3>3. FacadeClasses \subseteq ir[This].destructors /\ FacadeClasses \subseteq Classes
        <4>1. FacadeClasses \subseteq ClassHandles(This)
          BY <1>2, HeaderFacts DEF PipelineInv, FacadeClasses, ClassHandles
        <4> QED
          BY <1>2, <4>1 DEF FacadeClasses, GlobalClassHandles
      <3>4. Classes \subseteq emitted /\ Classes \cap GlobalOwned = {}
        BY <1>1, KnownHandles DEF PipelineInv, EmittedFromTheStart
      <3>5. NewOpaques \cap Classes = {}
        BY <3>1, <3>4 DEF NewOpaques
      <3>6. \A c \in New : Len(Headers) > 1 /\ c \in GlobalOwned => c \in claimed
        BY <1>1, <3>1, <3>3, <3>4 DEF NewOpaques, PipelineInv, EmittedFromTheStart
      <3>7. ASSUME NEW t \in types PROVE t[1] \notin New
        <4>1. PICK i \in DOMAIN Headers :
                 t[2] = Headers[i] /\ t[1] \in emitted /\ i < at
          <5>1. PICK i \in DOMAIN Headers :
                   /\ t[2] = Headers[i]
                   /\ i < at => t[1] \in emitted
                   /\ i <= at
                   /\ i # at
            BY <1>1, <3>7 DEF PipelineInv, TypesAreWritten
          <5>2. i < at
            BY <1>2, <5>1, HeaderAssumption
          <5> QED
            BY <5>1, <5>2
        <4>2. t[2] # This /\ t[2] \in Header
          BY <1>2, <4>1, HeaderAssumption DEF This
        <4>3. t[1] \notin FacadeClasses
          BY <1>2, <3>2, <3>3, <3>7, <4>2 DEF DeclaredByRight, PipelineInv, OneHome
        <4>4. t[1] \notin NewOpaques
          BY <1>1, <3>1, <3>2, <3>7, <4>1 DEF DeclaredByRight, NewOpaques
        <4> QED
          BY <4>3, <4>4
      <3>8. TypesDeclaredOnce'
        BY <2>4, <3>2, <3>7 DEF TypesDeclaredOnce
      <3>9. DeclaredByRight'
        <4>1. \A t \in types' : t[1] \in Classes => t[1] \in ir[t[2]].destructors
          BY <2>4, <3>2, <3>3, <3>5 DEF DeclaredByRight
        <4>2. Len(Headers) > 1 => \A t \in types' : t[1] \in GlobalOwned => t[1] \in claimed
          BY <2>4, <3>2, <3>6 DEF DeclaredByRight
        <4> QED
          BY <1>1, <1>3, <4>1, <4>2, KnownFromTheStart DEF DeclaredByRight
      <3> QED
        BY <3>8, <3>9
    <2> QED
      BY <1>3, <2>3, <2>5, <2>6, <2>7, <2>8, KnownFromTheStart DEF PipelineInv
  <1> QED
    BY <1>4, <1>5

-----------------------------------------------------------------------------
\* PipelineInv is an invariant of every run of generate_all.
THEOREM Invariant == Spec => []PipelineInv
  <1>1. PipelineInv /\ [Next]_vars => PipelineInv'
    <2> SUFFICES ASSUME PipelineInv, [Next]_vars PROVE PipelineInv'
      OBVIOUS
    <2>1. CASE UNCHANGED vars
      <3>1. TypeOK'
        BY <2>1 DEF vars, PipelineInv, TypeOK
      <3> QED
        BY <2>1, <3>1, QuietStep DEF vars
    <2>2. CASE Next
      BY <2>2, StartInvariant, ClaimInvariant, FilesInvariant, GoInvariant,
         FinishInvariant DEF Next
    <2> QED
      BY <2>1, <2>2
  <1> QED
    BY <1>1, InitInvariant, PTL DEF Spec

\* No two Go files of the package declare one type, unless the facade comes to
\* recompute which handles it owns (go_facade.rs).
THEOREM DeclaredOnce == Spec => []DeclaredOnceUnlessRecomputed
  <1>1. PipelineInv => DeclaredOnceUnlessRecomputed
    BY DEF PipelineInv, DeclaredOnceUnlessRecomputed
  <1> QED
    BY <1>1, Invariant, PTL

-----------------------------------------------------------------------------
(* C symbols, and the owners that need them.                               *)

AfterClaim == {"h", "cpp", "go", "metadata", "ir"}
AfterSource == {"go", "metadata", "ir"}

\* A symbol comes from a header gone through, which frees strings, destroys a
\* class of its own, or has claimed a handle that is a class of no header.
SymbolIsRight(d) ==
    \E i \in DOMAIN Headers :
        /\ d[2] = Headers[i] /\ Headers[i] \in Selected
        /\ phase # "start" /\ i <= at
        /\ i = at => phase \in AfterSource \cup {"failed"}
        /\ \/ d[1] = <<"string_free">> /\ ir[d[2]].strings
           \/ \E c \in ir[d[2]].destructors : d[1] = <<"delete", c>>
           \/ \E c \in (ir[d[2]].values \cap claimed) \ GlobalClassHandles :
                  /\ d[1] = <<"delete", c>>
                  /\ phase \in {"h", "cpp"} => c \notin local

SymbolInv ==
    /\ \A d \in symbols : SymbolIsRight(d)
    /\ DefinedOnceUnlessShared

\* What a header owns it returns by value, and its source is written before
\* its Go file.
OwnerInv ==
    /\ phase \in AfterClaim => local \subseteq NeedOwnership(This)
    /\ phase \in AfterSource /\ ir[This].functions =>
           DefinedSymbols \X {This} \subseteq symbols
    /\ OwnersCanDelete

\* Where a header is at work it is a header, and one of those that are selected.
LEMMA AtWork ==
    ASSUME PipelineInv, phase \notin {"start", "done", "failed"}
    PROVE  /\ at \in DOMAIN Headers /\ at \in Nat
           /\ This \in Selected /\ This \in Header
  <1>1. at \in DOMAIN Headers /\ This \in Selected
    BY DEF PipelineInv, AtIsSelected
  <1> QED
    BY <1>1, HeaderAssumption DEF Selected

\* No two symbols of a header and of one before it are the same.
LEMMA NewSymbolsAreNew ==
    ASSUME PipelineInv, SymbolInv, NothingShared, phase = "cpp",
           NEW s \in DefinedSymbols, NEW e \in symbols
    PROVE  s # e[1]
  <1>1. at \in DOMAIN Headers /\ at \in Nat /\ This \in Selected /\ This \in Header
    BY AtWork
  <1>2. PICK i \in DOMAIN Headers :
           /\ e[2] = Headers[i] /\ Headers[i] \in Selected /\ i # at
           /\ \/ e[1] = <<"string_free">> /\ ir[e[2]].strings
              \/ \E c \in ir[e[2]].destructors : e[1] = <<"delete", c>>
              \/ \E c \in ir[e[2]].values \ GlobalClassHandles :
                     e[1] = <<"delete", c>> /\ c \notin local
    BY DEF SymbolInv, SymbolIsRight, AfterSource
  <1>3. e[2] # This /\ e[2] \in Header /\ e[2] \in Selected
    BY <1>1, <1>2, HeaderAssumption DEF This, Selected
  <1>4. \A g \in Selected : ir[g].methods \cap ir[g].destructors \subseteq GlobalClassHandles
    BY DEF GlobalClassHandles, ClassHandles
  <1>5. \/ s = <<"string_free">> /\ ir[This].strings
        \/ \E c \in ir[This].destructors \cup SyntheticDeletes : s = <<"delete", c>>
    BY DEF DefinedSymbols
  <1>6. CASE s = <<"string_free">> /\ ir[This].strings
    BY <1>1, <1>2, <1>3, <1>6 DEF NothingShared
  <1>7. ASSUME NEW c \in ir[This].destructors, s = <<"delete", c>>
        PROVE  s # e[1]
    <2>1. c \notin ir[e[2]].destructors
      BY <1>1, <1>3 DEF PipelineInv, OneHome
    <2>2. c \notin ir[e[2]].values \ GlobalClassHandles
      BY <1>1, <1>3, <1>4 DEF NothingShared
    <2> QED
      BY <1>2, <1>7, <2>1, <2>2
  <1>8. ASSUME NEW c \in SyntheticDeletes, s = <<"delete", c>>
        PROVE  s # e[1]
    <2>1. c \in ir[This].values /\ c \in local /\ c \notin GlobalClassHandles
      BY DEF SyntheticDeletes
    <2>2. c \notin ir[e[2]].destructors
      BY <1>1, <1>3, <1>4, <2>1 DEF NothingShared
    <2> QED
      BY <1>2, <1>8, <2>1, <2>2
  <1> QED
    BY <1>5, <1>6, <1>7, <1>8

LEMMA SymbolStep == ASSUME PipelineInv, PipelineInv', SymbolInv, [Next]_vars PROVE SymbolInv'
  <1>1. UNCHANGED ir /\ NothingShared' = NothingShared
    BY DEF Next, Start, Claim, WriteHeader, WriteSource, WriteGo, WriteMetadata,
           FinishHeader, Fail, output, vars, NothingShared
  <1>2. ASSUME UNCHANGED symbols, NEW d \in symbols
        PROVE  SymbolIsRight(d)'
    <2>1. PICK i \in DOMAIN Headers :
             /\ d[2] = Headers[i] /\ Headers[i] \in Selected
             /\ phase # "start" /\ i <= at
             /\ i = at => phase \in AfterSource \cup {"failed"}
             /\ \/ d[1] = <<"string_free">> /\ ir[d[2]].strings
                \/ \E c \in ir[d[2]].destructors : d[1] = <<"delete", c>>
                \/ \E c \in (ir[d[2]].values \cap claimed) \ GlobalClassHandles :
                       /\ d[1] = <<"delete", c>>
                       /\ phase \in {"h", "cpp"} => c \notin local
      BY DEF SymbolInv, SymbolIsRight
    <2>2. phase' # "start" /\ i <= at' /\ (i = at' => phase' \in AfterSource \cup {"failed"})
      <3>1. CASE FinishHeader
        <4>1. at \in Nat /\ at' \in at + 1 .. Len(Headers) + 1 /\ phase' \in {"claim", "done"}
          BY <3>1, AtWork, AdvanceFacts, <1>1 DEF FinishHeader
        <4> QED
          BY <2>1, <4>1, HeaderAssumption
      <3>2. CASE ~FinishHeader
        BY <2>1, <3>2 DEF Next, Start, Claim, WriteHeader, WriteSource, WriteGo,
              WriteMetadata, Fail, vars, AfterSource
      <3> QED
        BY <3>1, <3>2
    <2>3. claimed \subseteq claimed'
      BY DEF Next, Start, Claim, WriteHeader, WriteSource, WriteGo, WriteMetadata,
             FinishHeader, Fail, vars
    <2>4. \A c \in claimed : (phase \in {"h", "cpp"} => c \notin local)
                               => (phase' \in {"h", "cpp"} => c \notin local')
      <3>1. CASE Claim
        BY <3>1 DEF Claim, ClaimNew
      <3>2. CASE FinishHeader \/ Start
        BY <3>2 DEF FinishHeader, Start, Advance
      <3>3. CASE ~(Claim \/ FinishHeader \/ Start)
        BY <3>3 DEF Next, WriteHeader, WriteSource, WriteGo, WriteMetadata, Fail, vars
      <3> QED
        BY <3>1, <3>2, <3>3
    <2> QED
      BY <1>1, <2>1, <2>2, <2>3, <2>4, KnownFromTheStart DEF SymbolIsRight
  <1>3. CASE UNCHANGED symbols
    BY <1>1, <1>2, <1>3 DEF SymbolInv, DefinedOnceUnlessShared, SymbolsDefinedOnce
  <1>4. CASE WriteSource /\ symbols' = symbols \cup (DefinedSymbols \X {This})
    <2>1. /\ phase = "cpp" /\ phase' = "go"
          /\ UNCHANGED <<at, local, claimed>>
      BY <1>4 DEF WriteSource
    <2>2. /\ at \in DOMAIN Headers /\ at \in Nat /\ This \in Selected
          /\ local \subseteq claimed
      BY <2>1, AtWork DEF PipelineInv
    <2>3. ASSUME NEW d \in symbols PROVE SymbolIsRight(d)'
      BY <1>1, <2>1, <2>3, KnownFromTheStart DEF SymbolInv, SymbolIsRight, AfterSource
    <2>4. ASSUME NEW d \in DefinedSymbols \X {This} PROVE SymbolIsRight(d)'
      <3>1. d[2] = This /\ d[1] \in DefinedSymbols
        BY <2>4
      <3>2. \/ d[1] = <<"string_free">> /\ ir[This].strings
            \/ \E c \in ir[This].destructors : d[1] = <<"delete", c>>
            \/ \E c \in (ir[This].values \cap claimed) \ GlobalClassHandles :
                   d[1] = <<"delete", c>>
        BY <2>2, <3>1 DEF DefinedSymbols, SyntheticDeletes
      <3> QED
        BY <1>1, <2>1, <2>2, <3>1, <3>2, KnownFromTheStart
           DEF SymbolIsRight, AfterSource, This
    <2>5. ASSUME NothingShared PROVE SymbolsDefinedOnce'
      <3> SUFFICES ASSUME NEW d \in symbols', NEW e \in symbols', d[1] = e[1]
                   PROVE  d = e
        BY DEF SymbolsDefinedOnce
      <3>1. d \in symbols /\ e \in symbols => d = e
        BY <2>5 DEF SymbolInv, DefinedOnceUnlessShared, SymbolsDefinedOnce
      <3>2. d \in DefinedSymbols \X {This} => e \notin symbols
        BY <2>1, <2>5, NewSymbolsAreNew
      <3>3. e \in DefinedSymbols \X {This} => d \notin symbols
        BY <2>1, <2>5, NewSymbolsAreNew
      <3>4. d \in DefinedSymbols \X {This} /\ e \in DefinedSymbols \X {This} => d = e
        OBVIOUS
      <3> QED
        BY <1>4, <3>1, <3>2, <3>3, <3>4
    <2> QED
      BY <1>1, <1>4, <2>3, <2>4, <2>5 DEF SymbolInv, DefinedOnceUnlessShared
  <1> QED
    BY <1>3, <1>4 DEF Next, Start, Claim, WriteHeader, WriteSource, WriteGo,
          WriteMetadata, FinishHeader, Fail, output, vars

LEMMA OwnerStep == ASSUME PipelineInv, OwnerInv, [Next]_vars PROVE OwnerInv'
  <1>1. UNCHANGED ir /\ symbols \subseteq symbols' /\ owners \subseteq owners'
    BY DEF Next, Start, Claim, WriteHeader, WriteSource, WriteGo, WriteMetadata,
           FinishHeader, Fail, output, vars
  <1>2. /\ \A h \in Header : NeedOwnership(h)' = NeedOwnership(h)
        /\ RecomputeHarmless' = RecomputeHarmless
    BY <1>1, KnownFromTheStart DEF NeedOwnership, ClassHandles
  <1>3. (phase \in AfterClaim => local \subseteq NeedOwnership(This))'
    <2>1. CASE Claim
      BY <1>2, <2>1, AtWork DEF Claim, ClaimNew, This
    <2>2. CASE Start \/ FinishHeader
      BY <2>2 DEF Start, FinishHeader, Advance, AfterClaim
    <2>3. CASE ~(Claim \/ Start \/ FinishHeader)
      <3>1. /\ UNCHANGED <<at, local>>
            /\ phase' \in AfterClaim => phase \in AfterClaim
        BY <2>3 DEF Next, WriteHeader, WriteSource, WriteGo, WriteMetadata, Fail,
                    vars, AfterClaim
      <3> QED
        BY <1>2, <3>1, AtWork DEF OwnerInv, AfterClaim, This
    <2> QED
      BY <2>1, <2>2, <2>3
  <1>4. (phase \in AfterSource /\ ir[This].functions =>
             DefinedSymbols \X {This} \subseteq symbols)'
    <2>1. CASE WriteSource
      BY <1>1, <2>1, KnownFromTheStart
         DEF WriteSource, DefinedSymbols, SyntheticDeletes, This
    <2>2. CASE Start \/ FinishHeader \/ Claim
      BY <2>2 DEF Start, FinishHeader, Advance, Claim, AfterSource
    <2>3. CASE ~(WriteSource \/ Start \/ FinishHeader \/ Claim)
      <3>1. /\ UNCHANGED <<at, local>>
            /\ phase' \in AfterSource => phase \in AfterSource
        BY <2>3 DEF Next, WriteHeader, WriteGo, WriteMetadata, Fail, vars, AfterSource
      <3>2. This' = This /\ DefinedSymbols' = DefinedSymbols
        BY <1>1, <3>1, KnownFromTheStart DEF DefinedSymbols, SyntheticDeletes, This
      <3> QED
        BY <1>1, <3>1, <3>2 DEF OwnerInv
    <2> QED
      BY <2>1, <2>2, <2>3
  <1>5. ASSUME RecomputeHarmless, NEW o \in owners'
        PROVE  <<<<"delete", o[1]>>, o[2]>> \in symbols'
    <2>1. CASE o \in owners
      BY <1>1, <1>5, <2>1 DEF OwnerInv, OwnersCanDelete
    <2>2. CASE o \notin owners
      <3>1. /\ phase = "go" /\ symbols' = symbols
            /\ o \in (FacadeClasses \cup (NewOpaques \cap LocalOwned)) \X {This}
        BY <2>2 DEF Next, Start, Claim, WriteHeader, WriteSource, WriteGo,
              WriteMetadata, FinishHeader, Fail, output, vars
      <3>2. This \in Header /\ This \in Selected
        BY <3>1, AtWork
      <3>3. LocalOwned = local /\ local \subseteq NeedOwnership(This)
        BY <1>5, <3>1, <3>2, HarmlessMeansClaimed DEF PipelineInv, OwnerInv, AfterClaim
      <3>4. o[1] \in ir[This].destructors \cup SyntheticDeletes
        BY <3>1, <3>3 DEF FacadeClasses, NewOpaques, SyntheticDeletes, NeedOwnership
      <3>5. ir[This].functions
        <4>1. o[1] \in ir[This].opaques
          BY <3>1, <3>2, HeaderFacts DEF PipelineInv, FacadeClasses, NewOpaques
        <4> QED
          BY <3>2, <4>1, HeaderFacts DEF PipelineInv
      <3>6. <<<<"delete", o[1]>>, This>> \in symbols
        BY <3>1, <3>4, <3>5 DEF OwnerInv, AfterSource, DefinedSymbols
      <3> QED
        BY <3>1, <3>6
    <2> QED
      BY <2>1, <2>2
  <1> QED
    BY <1>2, <1>3, <1>4, <1>5 DEF OwnerInv, OwnersCanDelete

-----------------------------------------------------------------------------
(* Files.                                                                  *)

\* What of a header's set is in the directory: of those it has been through all,
\* of the one it is at what comes before the current phase.
FileInv ==
    DistinctStems =>
        /\ phase = "start" => at = 1
        /\ FinishedSetsStand
        /\ phase \in {"cpp", "go", "metadata", "ir"} /\ ir[This].functions =>
               <<WrapperFile(This, "h"), This>> \in files
        /\ phase \in {"go", "metadata", "ir"} /\ ir[This].functions =>
               <<WrapperFile(This, "cpp"), This>> \in files
        /\ phase \in {"metadata", "ir"} /\ ir[This].goContent =>
               <<WrapperFile(This, "go"), This>> \in files

\* A write takes nothing from other files, and those of other headers and of
\* other kinds are others.
LEMMA WriteKeepsOthers ==
    ASSUME NEW file, Write(file), NEW e \in files, e[1] # file
    PROVE  e \in files'
  BY DEF Write

LEMMA WriteAdds ==
    ASSUME NEW file, Write(file)
    PROVE  <<file, This>> \in files'
  BY DEF Write

LEMMA FilesDiffer ==
    ASSUME DistinctStems, NEW g \in Header, NEW h \in Header,
           NEW x \in Extension, NEW y \in Extension
    PROVE  /\ WrapperFile(g, x) = WrapperFile(h, y) => g = h /\ x = y
           /\ WrapperFile(g, x) # GoPackage
  <1>1. WrapperFile(g, x).stem = Stem[g] /\ WrapperFile(g, x).ext = x
    BY DEF WrapperFile
  <1>2. WrapperFile(h, y).stem = Stem[h] /\ WrapperFile(h, y).ext = y
    BY DEF WrapperFile
  <1>3. GoPackage.ext = "mod" /\ "mod" \notin Extension
    BY DEF GoPackage, Extension
  <1> QED
    BY <1>1, <1>2, <1>3 DEF DistinctStems

\* The sets of the headers before this one stand while this one is written.
LEMMA SetsKept ==
    ASSUME PipelineInv, DistinctStems, FinishedSetsStand, UNCHANGED <<ir, at>>,
           phase \notin {"start", "done", "failed"},
           \/ UNCHANGED files
           \/ Write(GoPackage)
           \/ \E ext \in Extension : Write(WrapperFile(This, ext))
    PROVE  FinishedSetsStand'
  <1>1. at \in DOMAIN Headers /\ at \in Nat /\ This \in Header
    BY AtWork
  <1>2. SUFFICES ASSUME NEW i \in 1 .. at - 1, Headers[i] \in Selected,
                        NEW ext \in Extension,
                        <<WrapperFile(Headers[i], ext), Headers[i]>> \in files
                 PROVE  <<WrapperFile(Headers[i], ext), Headers[i]>> \in files'
    <2>1. Selected' = Selected /\ \A h : WrapperSet(h)' = WrapperSet(h)
      BY KnownFromTheStart DEF WrapperSet, WrapperFile
    <2>2. \A h : WrapperSet(h) \subseteq {WrapperFile(h, ext) : ext \in Extension}
      BY DEF WrapperSet, Extension
    <2> QED
      BY <2>1, <2>2 DEF FinishedSetsStand
  <1>3. Headers[i] \in Header /\ Headers[i] # This
    BY <1>1, <1>2, HeaderAssumption DEF Selected, This
  <1> QED
    BY <1>1, <1>2, <1>3, FilesDiffer, WriteKeepsOthers

\* What comes before b but not between a and b comes before a, or is a.
LEMMA BeforeAtOrBetween ==
    \A a \in Nat : \A b \in Nat : \A i \in 1 .. b - 1 :
        i \notin a + 1 .. b - 1 => i \in 1 .. a - 1 \/ i = a
  OBVIOUS

LEMMA FileStep == ASSUME PipelineInv, FileInv, [Next]_vars PROVE FileInv'
  <1>1. UNCHANGED ir /\ Selected' = Selected
    <2>1. UNCHANGED ir
      BY DEF Next, Start, Claim, WriteHeader, WriteSource, WriteGo, WriteMetadata,
             FinishHeader, Fail, output, vars
    <2> QED
      BY <2>1, KnownFromTheStart
  <1>2. SUFFICES ASSUME DistinctStems PROVE FileInv'
    BY DEF FileInv, DistinctStems
  <1>3. \A h : WrapperSet(h)' = WrapperSet(h) /\ \A ext : WrapperFile(h, ext)' = WrapperFile(h, ext)
    BY <1>1 DEF WrapperSet, WrapperFile
  <1>4. CASE Start
    <2>1. /\ phase' \in {"claim", "done"} /\ UNCHANGED files
          /\ \A k \in 1 .. at' - 1 : Headers[k] \notin Selected
      BY <1>4 DEF Start, Advance, output
    <2> QED
      BY <1>1, <2>1 DEF FileInv, FinishedSetsStand
  <1>5. CASE FinishHeader
    <2>1. at \in DOMAIN Headers /\ at \in Nat /\ This \in Header /\ This \in Selected
      BY <1>5, AtWork DEF FinishHeader
    <2>2. /\ phase' \in {"claim", "done"} /\ at' \in Nat /\ at < at'
          /\ \A k \in at + 1 .. at' - 1 : Headers[k] \notin Selected
      BY <1>5, <2>1, HeaderAssumption DEF FinishHeader, Advance
    <2>3. \A e \in files : e[1] # WrapperFile(This, "ir") => e \in files'
      BY <1>5, WriteKeepsOthers DEF FinishHeader
    <2>4. \A h \in Header, ext \in {"h", "cpp", "go"} :
              WrapperFile(h, ext) # WrapperFile(This, "ir")
      BY <1>2, <2>1, FilesDiffer DEF Extension
    <2>5. WrapperSet(This) \X {This} \subseteq files'
      <3>1. WriteIr => <<WrapperFile(This, "ir"), This>> \in files'
        BY <1>5, WriteAdds DEF FinishHeader
      <3>2. /\ ir[This].functions => <<WrapperFile(This, "h"), This>> \in files
            /\ ir[This].functions => <<WrapperFile(This, "cpp"), This>> \in files
            /\ ir[This].goContent => <<WrapperFile(This, "go"), This>> \in files
        BY <1>2, <1>5 DEF FinishHeader, FileInv
      <3> QED
        BY <2>1, <2>3, <2>4, <3>1, <3>2 DEF WrapperSet
    <2>6. ASSUME NEW i \in 1 .. at - 1, Headers[i] \in Selected
          PROVE  WrapperSet(Headers[i]) \X {Headers[i]} \subseteq files'
      <3>1. WrapperSet(Headers[i]) \X {Headers[i]} \subseteq files
        BY <1>2, <1>5, <2>6 DEF FinishHeader, FileInv, FinishedSetsStand
      <3>2. Headers[i] \in Header /\ Headers[i] # This
        BY <2>1, <2>6, HeaderAssumption DEF Selected, This
      <3>3. \A f \in WrapperSet(Headers[i]) : f # WrapperFile(This, "ir")
        BY <1>2, <2>1, <3>2, FilesDiffer DEF WrapperSet, Extension
      <3> QED
        BY <2>3, <3>1, <3>3
    <2>7. FinishedSetsStand'
      <3> SUFFICES ASSUME NEW i, i \in 1 .. at' - 1, Headers[i] \in Selected
                   PROVE  WrapperSet(Headers[i]) \X {Headers[i]} \subseteq files'
        BY <1>1, <1>3 DEF FinishedSetsStand
      <3>1. i \in 1 .. at - 1 \/ i = at
        BY <2>1, <2>2, BeforeAtOrBetween
      <3> QED
        BY <2>5, <2>6, <3>1 DEF This
    <2> QED
      BY <2>2, <2>7 DEF FileInv
  <1>6. CASE Claim \/ Fail \/ UNCHANGED vars
    <2>1. /\ UNCHANGED <<at, files>>
          /\ phase' = "start" => phase = "start"
          /\ phase' \in {"h", "failed"} \/ phase' = phase
      BY <1>6 DEF Claim, Fail, output, vars
    <2>2. FinishedSetsStand'
      <3>1. CASE phase = "start"
        <4>1. at' - 1 = 0
          BY <1>2, <2>1, <3>1 DEF FileInv
        <4> QED
          BY <4>1 DEF FinishedSetsStand
      <3>2. CASE phase # "start"
        BY <1>1, <1>2, <1>3, <2>1, <3>2 DEF FileInv, FinishedSetsStand
      <3> QED
        BY <3>1, <3>2
    <2> QED
      BY <1>1, <1>2, <1>3, <2>1, <2>2 DEF FileInv, This
  <1>7. CASE WriteHeader \/ WriteSource \/ WriteGo \/ WriteMetadata
    <2>1. /\ UNCHANGED at /\ This \in Header
          /\ phase \notin {"start", "done", "failed"}
      BY <1>7, AtWork DEF WriteHeader, WriteSource, WriteGo, WriteMetadata
    <2>2. FinishedSetsStand'
      BY <1>1, <1>2, <1>7, <2>1, SetsKept
         DEF WriteHeader, WriteSource, WriteGo, WriteMetadata, FileInv, Extension
    <2>3. \A x \in Extension, y \in Extension :
              /\ WrapperFile(This, x) = WrapperFile(This, y) => x = y
              /\ WrapperFile(This, x) # GoPackage
      BY <1>2, <2>1, FilesDiffer
    <2>4. \A x, y \in Extension : x # y /\ Write(WrapperFile(This, x)) =>
              \A e \in files : e[1] = WrapperFile(This, y) => e \in files'
      BY <2>3, WriteKeepsOthers
    <2>5. \A y \in Extension : Write(GoPackage) =>
              \A e \in files : e[1] = WrapperFile(This, y) => e \in files'
      BY <2>3, WriteKeepsOthers
    <2>6. \A x \in Extension : Write(WrapperFile(This, x)) =>
              <<WrapperFile(This, x), This>> \in files'
      BY WriteAdds
    <2>7. {"h", "cpp", "go"} \subseteq Extension
      BY DEF Extension
    <2>8. This' = This /\ \A ext : WrapperFile(This, ext)' = WrapperFile(This, ext)
      BY <1>3, <2>1 DEF This
    <2>9. CASE WriteHeader
      BY <1>1, <2>2, <2>6, <2>7, <2>8, <2>9 DEF WriteHeader, FileInv
    <2>10. CASE WriteSource
      BY <1>1, <1>2, <2>2, <2>4, <2>6, <2>7, <2>8, <2>10 DEF WriteSource, FileInv
    <2>11. CASE WriteGo
      BY <1>1, <1>2, <2>2, <2>4, <2>6, <2>7, <2>8, <2>11 DEF WriteGo, FileInv
    <2>12. CASE WriteMetadata
      BY <1>1, <1>2, <2>2, <2>5, <2>7, <2>8, <2>12 DEF WriteMetadata, FileInv
    <2> QED
      BY <1>7, <2>9, <2>10, <2>11, <2>12
  <1> QED
    BY <1>4, <1>5, <1>6, <1>7 DEF Next

-----------------------------------------------------------------------------
(* What headers leave to one another.                                      *)

\* Handles that are declared, or that some header is known to declare.
Promised ==
    {c \in Handle : \E g \in Header : <<c, g>> \in types}
        \cup GlobalClassHandles \cup GlobalOwned \cup Projections

Owned(c) == \E g \in Header : <<c, g>> \in owners

\* A header does its part: it wraps its classes, claims what it returns by
\* value, and refers to nothing that nobody declares.
Delivered(h) ==
    /\ ir[h].classes \X {h} \subseteq owners
    /\ ir[h].opaques \subseteq Promised
    /\ NeedOwnership(h) \subseteq claimed

PromiseInv ==
    AllReachGo =>
        /\ phase = "done" => at = Len(Headers) + 1
        /\ emitted \subseteq Promised
        /\ \A i \in 1 .. at - 1 : Headers[i] \in Selected => Delivered(Headers[i])
        /\ phase \in {"metadata", "ir"} => Delivered(This)
        /\ phase \in AfterClaim => NeedOwnership(This) \subseteq claimed
        /\ \A c \in claimed :
               Owned(c) \/ phase = "failed" \/ (phase \in {"h", "cpp", "go"} /\ c \in local)

\* What is promised, owned or delivered stays so.
LEMMA PromisesStand ==
    ASSUME UNCHANGED ir, types \subseteq types', owners \subseteq owners',
           claimed \subseteq claimed'
    PROVE  /\ Promised \subseteq Promised'
           /\ \A c : Owned(c) => Owned(c)'
           /\ \A h : NeedOwnership(h)' = NeedOwnership(h)
           /\ \A h : Delivered(h) => Delivered(h)'
  <1>1. Promised \subseteq Promised'
    BY KnownFromTheStart DEF Promised
  <1>2. \A c : Owned(c) => Owned(c)'
    BY DEF Owned
  <1>3. \A h : NeedOwnership(h)' = NeedOwnership(h)
    BY KnownFromTheStart DEF NeedOwnership
  <1>4. \A h : Delivered(h) => Delivered(h)'
    BY <1>1, <1>3 DEF Delivered
  <1> QED
    BY <1>1, <1>2, <1>3, <1>4

\* The Go file of a header keeps what the header promises.
LEMMA GoKeepsPromises ==
    ASSUME PipelineInv, OwnerInv, PromiseInv, AllReachGo, WriteGo
    PROVE  /\ Delivered(This)'
           /\ \A c \in claimed : Owned(c)'
  <1>1. /\ at \in DOMAIN Headers /\ This \in Selected /\ This \in Header
        /\ phase = "go" /\ UNCHANGED <<ir, at, emitted, claimed, local>>
    BY AtWork DEF WriteGo
  <1>2. types \subseteq types' /\ owners \subseteq owners' /\ owners' \subseteq types'
    BY DEF WriteGo, PipelineInv, TypeOK
  <1>3. /\ local \subseteq ir[This].values \ (GlobalClassHandles \cup Projections)
        /\ local \subseteq GlobalOwned
    BY <1>1 DEF OwnerInv, AfterClaim, PipelineInv, NeedOwnership
  <1>4. FacadeClasses = ir[This].classes /\ FacadeClasses \subseteq GlobalClassHandles
    <2>1. FacadeClasses = ir[This].classes
      BY <1>1, HeaderFacts DEF FacadeClasses, PipelineInv
    <2>2. FacadeClasses \subseteq ClassHandles(This)
      BY <1>1, HeaderFacts DEF FacadeClasses, ClassHandles, PipelineInv
    <2> QED
      BY <1>1, <2>1, <2>2 DEF GlobalClassHandles
  <1>5. CASE ir[This].goContent
    <2>1. /\ types' = types \cup ((FacadeClasses \cup NewOpaques) \X {This})
          /\ owners' = owners \cup
                ((FacadeClasses \cup (NewOpaques \cap LocalOwned)) \X {This})
      BY <1>5 DEF WriteGo
    <2>2. ir[This].opaques \subseteq Promised'
      <3>1. \A c \in ir[This].opaques :
                c \in FacadeClasses \cup NewOpaques \cup emitted \cup Projections
        BY DEF NewOpaques
      <3>2. emitted \cup Projections \subseteq Promised'
        BY <1>1, <1>2, PromisesStand DEF PromiseInv, Promised
      <3>3. ir[This].opaques \subseteq Handle
        BY <1>1, HeaderFacts DEF PipelineInv
      <3>4. \A c \in (FacadeClasses \cup NewOpaques) \cap Handle : c \in Promised'
        BY <1>1, <2>1 DEF Promised
      <3> QED
        BY <3>1, <3>2, <3>3, <3>4
    <2>3. Delivered(This)'
      <3>1. (NeedOwnership(This) \subseteq claimed)'
        BY <1>1, <1>2, PromisesStand DEF PromiseInv, AfterClaim, This
      <3>2. This' = This
        BY <1>1 DEF This
      <3> QED
        BY <1>1, <1>4, <2>1, <2>2, <3>1, <3>2 DEF Delivered
    <2>4. local \subseteq NewOpaques \cap LocalOwned
      <3>1. local # {} => LocalOwned = local
        BY <1>3 DEF LocalOwned
      <3>2. local \subseteq ir[This].opaques
        BY <1>1, <1>3, HeaderFacts DEF PipelineInv
      <3> QED
        BY <1>3, <1>4, <3>1, <3>2 DEF NewOpaques
    <2>5. \A c \in local : Owned(c)'
      BY <1>1, <2>1, <2>4 DEF Owned
    <2> QED
      BY <1>1, <1>2, <2>3, <2>5, PromisesStand DEF PromiseInv
  <1>6. CASE ~ir[This].goContent
    <2>1. ir[This].opaques = {}
      BY <1>1, <1>6 DEF AllReachGo
    <2>2. ir[This].classes = {} /\ local = {}
      BY <1>1, <1>3, <2>1, HeaderFacts DEF PipelineInv
    <2>3. (NeedOwnership(This) \subseteq claimed)'
      BY <1>1, <1>2, PromisesStand DEF PromiseInv, AfterClaim, This
    <2>4. This' = This
      BY <1>1 DEF This
    <2>5. Delivered(This)'
      BY <1>1, <2>1, <2>2, <2>3, <2>4 DEF Delivered
    <2> QED
      BY <1>1, <1>2, <2>2, <2>5, PromisesStand DEF PromiseInv
  <1> QED
    BY <1>5, <1>6

LEMMA PromiseStep == ASSUME PipelineInv, OwnerInv, PromiseInv, [Next]_vars PROVE PromiseInv'
  <1>1. /\ UNCHANGED ir
        /\ types \subseteq types' /\ owners \subseteq owners' /\ claimed \subseteq claimed'
    BY DEF Next, Start, Claim, WriteHeader, WriteSource, WriteGo, WriteMetadata,
           FinishHeader, Fail, output, vars
  <1>2. AllReachGo' = AllReachGo /\ Selected' = Selected
    BY <1>1, KnownFromTheStart DEF AllReachGo
  <1>3. SUFFICES ASSUME AllReachGo PROVE PromiseInv'
    BY <1>2 DEF PromiseInv
  <1>4. CASE Start
    <2>1. /\ UNCHANGED <<claimed, owners>> /\ phase' \in {"claim", "done"}
          /\ emitted' \subseteq GlobalClassHandles \cup GlobalOwned
          /\ \A k \in 1 .. at' - 1 : Headers[k] \notin Selected
          /\ phase' = "done" => at' = Len(Headers) + 1
          /\ phase = "start"
      <3>1. Start /\ UNCHANGED <<claimed, owners>>
        BY <1>4 DEF Start, output
      <3>2. at' \in 1 .. Len(Headers) + 1 /\ (phase' = "done" => at' \notin DOMAIN Headers)
        BY <1>4 DEF Start, Advance
      <3>3. phase' = "done" => at' = Len(Headers) + 1
        BY <3>2, HeaderAssumption
      <3> QED
        BY <3>1, <3>3 DEF Start, Advance
    <2>2. (emitted \subseteq Promised)'
      BY <1>1, <2>1, PromisesStand DEF Promised
    <2>3. \A c \in claimed : Owned(c)'
      BY <1>1, <1>3, <2>1, PromisesStand DEF PromiseInv
    <2> QED
      BY <1>2, <2>1, <2>2, <2>3 DEF PromiseInv, AfterClaim
  <1>5. CASE FinishHeader
    <2>1. at \in DOMAIN Headers /\ at \in Nat /\ This \in Header /\ This \in Selected
      BY <1>5, AtWork DEF FinishHeader
    <2>2. /\ phase' \in {"claim", "done"} /\ at' \in Nat /\ at < at'
          /\ \A k \in at + 1 .. at' - 1 : Headers[k] \notin Selected
          /\ phase' = "done" => at' = Len(Headers) + 1
      BY <1>5, <2>1, HeaderAssumption DEF FinishHeader, Advance
    <2>3. /\ phase = "ir" /\ UNCHANGED claimed
          /\ emitted' = emitted \cup ir[This].opaques
      BY <1>5 DEF FinishHeader, RecordEmitted
    <2>4. Delivered(This) /\ emitted \subseteq Promised
      BY <1>3, <2>3 DEF PromiseInv
    <2>5. (emitted \subseteq Promised)'
      BY <1>1, <2>3, <2>4, PromisesStand DEF Delivered
    <2>6. \A i \in 1 .. at' - 1 : Headers[i] \in Selected => Delivered(Headers[i])'
      <3> SUFFICES ASSUME NEW i, i \in 1 .. at' - 1, Headers[i] \in Selected
                   PROVE  Delivered(Headers[i])'
        OBVIOUS
      <3>1. i \in 1 .. at - 1 \/ i = at
        BY <2>1, <2>2, BeforeAtOrBetween
      <3>2. Delivered(Headers[i])
        BY <1>3, <2>4, <3>1 DEF PromiseInv, This
      <3> QED
        BY <1>1, <3>2, PromisesStand
    <2>7. \A c \in claimed : Owned(c)'
      BY <1>1, <1>3, <2>3, PromisesStand DEF PromiseInv
    <2> QED
      BY <1>2, <2>2, <2>3, <2>5, <2>6, <2>7 DEF PromiseInv, AfterClaim
  <1>6. CASE ~(Start \/ FinishHeader)
    <2>1. UNCHANGED <<at, emitted>> /\ This' = This /\ (phase' = "done" => phase = "done")
      BY <1>6 DEF Next, Claim, WriteHeader, WriteSource, WriteGo, WriteMetadata,
                  Fail, vars, This
    <2>2. (emitted \subseteq Promised)'
      BY <1>1, <1>3, <2>1, PromisesStand DEF PromiseInv
    <2>3. (\A i \in 1 .. at - 1 : Headers[i] \in Selected => Delivered(Headers[i]))'
      BY <1>1, <1>2, <1>3, <2>1, PromisesStand DEF PromiseInv
    <2>4. (phase \in {"metadata", "ir"} => Delivered(This))'
      <3>1. CASE WriteGo
        BY <1>3, <3>1, GoKeepsPromises
      <3>2. CASE ~WriteGo
        <4>1. phase' \in {"metadata", "ir"} => phase \in {"metadata", "ir"}
          BY <1>6, <3>2 DEF Next, Claim, WriteHeader, WriteSource, WriteMetadata, Fail, vars
        <4> QED
          BY <1>1, <1>3, <2>1, <4>1, PromisesStand DEF PromiseInv
      <3> QED
        BY <3>1, <3>2
    <2>5. (phase \in AfterClaim => NeedOwnership(This) \subseteq claimed)'
      <3>1. CASE Claim
        <4>1. NeedOwnership(This) \subseteq claimed'
          BY <3>1 DEF Claim, ClaimNew
        <4> QED
          BY <1>1, <2>1, <4>1, PromisesStand
      <3>2. CASE ~Claim
        <4>1. phase' \in AfterClaim => phase \in AfterClaim
          BY <1>6, <3>2 DEF Next, WriteHeader, WriteSource, WriteGo, WriteMetadata,
                            Fail, vars, AfterClaim
        <4> QED
          BY <1>1, <1>3, <2>1, <4>1, PromisesStand DEF PromiseInv
      <3> QED
        BY <3>1, <3>2
    <2>6. (\A c \in claimed : \/ Owned(c) \/ phase = "failed"
                              \/ (phase \in {"h", "cpp", "go"} /\ c \in local))'
      <3>1. CASE Claim
        <4>1. \A c \in claimed : Owned(c)'
          BY <1>1, <1>3, <3>1, PromisesStand DEF PromiseInv, Claim
        <4> QED
          BY <3>1, <4>1 DEF Claim
      <3>2. CASE WriteGo
        BY <1>3, <3>2, GoKeepsPromises DEF WriteGo
      <3>3. CASE ~(Claim \/ WriteGo)
        <4>1. /\ UNCHANGED <<claimed, local>>
              /\ phase \in {"h", "cpp", "go"} => phase' \in {"h", "cpp", "go", "failed"}
              /\ phase = "failed" => phase' = "failed"
          BY <1>6, <3>3 DEF Next, WriteHeader, WriteSource, WriteMetadata, Fail, vars
        <4> QED
          BY <1>1, <1>3, <4>1, PromisesStand DEF PromiseInv
      <3> QED
        BY <3>1, <3>2, <3>3
    <2> QED
      BY <1>2, <1>3, <2>1, <2>2, <2>3, <2>4, <2>5, <2>6 DEF PromiseInv
  <1> QED
    BY <1>4, <1>5, <1>6

\* At the end every selected header has done its part, and the projections
\* belong to selected headers, so what is promised is there.
LEMMA PromisesRedeemed ==
    ASSUME PipelineInv, PromiseInv, AllReachGo, phase = "done"
    PROVE  /\ \A h \in Selected : Delivered(h)
           /\ \A c \in GlobalClassHandles \cup GlobalOwned \cup Projections : Owned(c)
  <1>1. \A h \in Selected : Delivered(h)
    <2> SUFFICES ASSUME NEW i \in DOMAIN Headers, Headers[i] \in Selected
                 PROVE  Delivered(Headers[i])
      BY DEF Selected, Header
    <2>1. i \in 1 .. at - 1
      BY HeaderAssumption DEF PromiseInv
    <2> QED
      BY <2>1 DEF PromiseInv
  <1>2. Selected \subseteq Header
    BY DEF Selected
  <1>3. ASSUME NEW h \in Selected, NEW c \in ir[h].classes PROVE Owned(c)
    BY <1>1, <1>2, <1>3 DEF Delivered, Owned
  <1>4. ASSUME NEW c \in GlobalClassHandles PROVE Owned(c)
    BY <1>2, <1>3 DEF GlobalClassHandles, ClassHandles, AllReachGo
  <1>5. ASSUME NEW c \in GlobalOwned PROVE Owned(c)
    <2>1. c \in claimed
      BY <1>1 DEF GlobalOwned, Delivered
    <2> QED
      BY <2>1 DEF PromiseInv
  <1>6. ASSUME NEW c \in Projections PROVE Owned(c)
    <2>1. PICK h \in Header : c \in ir[h].projected
      BY DEF Projections
    <2>2. c \in ir[h].classes /\ ir[h].declares
      BY <2>1, HeaderFacts DEF PipelineInv
    <2>3. h \in Selected
      BY <2>2 DEF Selected
    <2> QED
      BY <1>3, <2>2, <2>3
  <1> QED
    BY <1>1, <1>4, <1>5, <1>6

LEMMA PromiseInvSuffices == PipelineInv /\ PromiseInv => PromisesKeptIfAllReachGo
  <1> SUFFICES ASSUME PipelineInv, PromiseInv, AllReachGo, phase = "done"
               PROVE  UsedTypesDeclared /\ ValuesHaveOwners
    BY DEF PromisesKeptIfAllReachGo, UsedTypesDeclared, ValuesHaveOwners
  <1>1. \A c : Owned(c) => \E g \in Header : <<c, g>> \in types
    BY DEF Owned, PipelineInv, TypeOK
  <1>2. Selected \subseteq Header
    BY DEF Selected
  <1>3. ASSUME NEW h \in Selected, NEW c \in ir[h].goUses
        PROVE  \E g \in Header : <<c, g>> \in types
    <2>1. c \in Promised
      BY <1>2, HeaderFacts, PromisesRedeemed DEF Delivered, PipelineInv
    <2> QED
      BY <1>1, <2>1, PromisesRedeemed DEF Promised
  <1>4. ASSUME NEW h \in Selected, NEW c \in ir[h].goValues
        PROVE  Owned(c)
    <2>1. c \in ir[h].values
      BY <1>2, HeaderFacts DEF PipelineInv
    <2>2. c \in GlobalClassHandles \cup Projections \cup GlobalOwned
      BY <2>1 DEF NeedOwnership, GlobalOwned
    <2> QED
      BY <2>2, PromisesRedeemed
  <1> QED
    BY <1>3, <1>4 DEF UsedTypesDeclared, ValuesHaveOwners, Owned

-----------------------------------------------------------------------------
\* Before the first step there is nothing in any file.
LEMMA InitialFacts == Init => SymbolInv /\ OwnerInv /\ FileInv /\ PromiseInv
  <1> SUFFICES ASSUME Init PROVE SymbolInv /\ OwnerInv /\ FileInv /\ PromiseInv
    OBVIOUS
  <1> USE DEF Init
  <1>1. SymbolInv
    BY DEF SymbolInv, DefinedOnceUnlessShared, SymbolsDefinedOnce
  <1>2. OwnerInv
    BY DEF OwnerInv, OwnersCanDelete, AfterClaim, AfterSource
  <1>3. FileInv
    BY DEF FileInv, FinishedSetsStand
  <1>4. PromiseInv
    <2>1. \A i \in 1 .. at - 1 : FALSE
      OBVIOUS
    <2> QED
      BY <2>1 DEF PromiseInv, AfterClaim
  <1> QED
    BY <1>1, <1>2, <1>3, <1>4

\* The C sources of a run define no symbol twice if no two headers return
\* strings and no header returns another one's class by value without calling
\* methods on it (synthetic_opaque_model_value_deletes).
THEOREM DefinedOnce == Spec => []DefinedOnceUnlessShared
  <1>1. SymbolInv => DefinedOnceUnlessShared
    BY DEF SymbolInv
  <1> QED
    BY <1>1, InitialFacts, Invariant, SymbolStep, PTL DEF Spec

\* What a wrapper's Close calls is defined by the C source beside it: the set
\* render_owned_opaque_wrapper is applied to is the one deletes are made for.
THEOREM OwnersDelete == Spec => []OwnersCanDelete
  <1>1. OwnerInv => OwnersCanDelete
    BY DEF OwnerInv
  <1> QED
    BY <1>1, InitialFacts, Invariant, OwnerStep, PTL DEF Spec

\* No header's files are replaced by those of a later one unless their stems
\* are the same (scoped_to_header in config.rs).
THEOREM SetsStand == Spec => []StandIfStemsDiffer
  <1>1. FileInv => StandIfStemsDiffer
    BY DEF FileInv, StandIfStemsDiffer
  <1> QED
    BY <1>1, InitialFacts, Invariant, FileStep, PTL DEF Spec

\* If everything that counts as emitted reaches Go, then the types and owners
\* a header leaves to the others are there when the run is done.
THEOREM PromisesKept == Spec => []PromisesKeptIfAllReachGo
  <1> QED
    BY PromiseInvSuffices, InitialFacts, Invariant, OwnerStep, PromiseStep, PTL DEF Spec

=============================================================================
