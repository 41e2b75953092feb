--------------------------- MODULE ParseRunProofs ---------------------------
(***************************************************************************)
(* Proofs about module ParseRun, for any finite set of files, any          *)
(* configurations and anything libclang may show that ShowsUnit allows:    *)
(*                                                                         *)
(*   Invariant          IInv is an invariant                               *)
(*   HandlesReturned    so is UnitsReleased                                *)
(*   NothingHalfRead    so is FailureStopsAll                              *)
(*   CollectedAsRead    so is CInv                                         *)
(*   Types              so is TypeOK                                       *)
(*   HeadersReadWhole   so is EveryDeclarationRead                         *)
(*   EachToOneHeader    so is HandedOutOnce                                *)
(*   BodiesFound        so is DefinitionsMerged                            *)
(*   ArgumentsAsMeant   so is ParseReadsArguments                          *)
(*   BuildAsMeant       so is BuildAgrees                                  *)
(*                                                                         *)
(* IInv says of every phase what libclang has open in it (Opened) and      *)
(* where the units are that the run has found: read, or in line            *)
(* (Accounted).  CInv says that what is collected, together with what the  *)
(* cursors still to be visited declare, is what the units read and the     *)
(* current one declare (Collecting), that no header of the directories is  *)
(* left out in the second pass (Supplemented), and what is handed out.     *)
(* The three theorems after Types follow from what the last state is then  *)
(* known to hold and from what keys, merging and libclang's cursors are    *)
(* like; the last one from what module BuildFlagsProofs says of arguments. *)
(***************************************************************************)
EXTENDS ParseRun, BuildFlagsProofs

Phases == {"given", "resolved", "valid", "units", "visiting", "disposing", "closing",
           "parsed", "handed", "failed"}
Before == {"given", "resolved", "valid"}

\* Between the parse of a unit and its drop.
UnitIsOpen == phase \in {"visiting", "disposing"}

Opened ==
    /\ phase \in Phases
    /\ UnitIsOpen => queue # <<>> /\ live = {Head(queue)}
    /\ ~UnitIsOpen => live = {}
    /\ index <=> phase \in {"units", "visiting", "disposing", "closing"}

Files == {Canonical[p] : p \in Paths}

Typed ==
    /\ in \in Inputs
    /\ phase # "given" => config.headers \in Seq(Files)
    /\ queue \in Seq(Files)
    /\ failing \in BOOLEAN /\ index \in BOOLEAN

\* Validated: headers or directories, and not both.
OneSource == (config.dirs = <<>>) # (config.headers = <<>>)

UnitsAccounted ==
    /\ config.headers # <<>> => read \cup ToSet(queue) = ToSet(config.headers)
    /\ config.dirs # <<>> => Scanned \subseteq read \cup ToSet(queue)

Accounted ==
    /\ phase \in Before => ~failing /\ read = {}
    /\ phase \in {"units", "visiting", "parsed", "handed"} => ~failing
    /\ phase \notin {"given", "resolved", "failed"} => OneSource
    /\ phase \notin Before \cup {"failed"} /\ ~failing => UnitsAccounted
    /\ phase \in {"closing", "parsed", "handed"} /\ ~failing => queue = <<>>
    /\ phase = "visiting" => in.outcome[Head(queue)] \in {"errors", "read"}
    /\ phase = "disposing" /\ ~failing => Head(queue) \in read
    /\ \A u \in read : in.outcome[u] = "read"

IInv == Opened /\ Typed /\ Accounted

(***************************************************************************)
(* Sequences and sets of files                                             *)
(***************************************************************************)

\* Files are among their paths.
LEMMA FilesAreFinite == IsFiniteSet(Files) /\ Files \subseteq Paths
<1>1. Files \subseteq Paths
  BY PathsAssumption DEF Files
<1> QED BY <1>1, PathsAssumption, FS_Subset

\* What a head and a tail hold is what the sequence holds.
LEMMA HeadAndTail ==
    ASSUME NEW S, NEW s \in Seq(S), s # <<>>
    PROVE  /\ Tail(s) \in Seq(S)
           /\ Head(s) \in S
           /\ ToSet(s) = {Head(s)} \cup ToSet(Tail(s))
<1>1. /\ Tail(s) \in Seq(S)
      /\ Head(s) \in S /\ Head(s) = s[1]
      /\ Len(s) \in Nat \ {0} /\ Len(Tail(s)) = Len(s) - 1
      /\ DOMAIN s = 1..Len(s) /\ DOMAIN Tail(s) = 1..Len(Tail(s))
      /\ \A i \in 1..Len(Tail(s)) : Tail(s)[i] = s[i + 1]
  OBVIOUS
<1>2. ASSUME NEW i \in DOMAIN s PROVE s[i] \in {Head(s)} \cup ToSet(Tail(s))
  <2>1. CASE i = 1
    BY <1>1, <2>1
  <2>2. CASE i # 1
    <3>1. i - 1 \in DOMAIN Tail(s) /\ Tail(s)[i - 1] = s[i]
      BY <1>1, <2>2
    <3> QED BY <3>1 DEF ToSet
  <2> QED BY <2>1, <2>2
<1>3. ASSUME NEW i \in DOMAIN Tail(s) PROVE Tail(s)[i] \in ToSet(s)
  BY <1>1 DEF ToSet
<1>4. Head(s) \in ToSet(s)
  BY <1>1 DEF ToSet
<1> QED BY <1>1, <1>2, <1>3, <1>4 DEF ToSet

\* A set put in some order loses none of its elements.
LEMMA InSomeOrder ==
    ASSUME NEW S, IsFiniteSet(S), NEW s \in SetToSeqs(S)
    PROVE  s \in Seq(S) /\ ToSet(s) = S
<1> DEFINE n == Cardinality(S)
<1>1. n \in Nat
  BY FS_CardinalityType
<1>2. s \in [1..n -> S] /\ \A i, j \in 1..n : i # j => s[i] # s[j]
  BY DEF SetToSeqs
<1>3. s \in Injection(1..n, S)
  BY <1>2 DEF Injection, IsInjective
<1>4. IsFiniteSet(1..n) /\ Cardinality(1..n) = n
  BY <1>1, FS_Interval
<1>5. s \in Surjection(1..n, S)
  BY <1>3, <1>4, FS_Injection
<1>6. ToSet(s) = S
  BY <1>2, <1>5 DEF ToSet, Surjection
<1> QED BY <1>1, <1>2, <1>6

\* What is listed are files.
LEMMA ListedAreFiles ==
    /\ \A extension : Listed(extension) \subseteq Files
    /\ Scanned \subseteq Files /\ SupplementalHeaders \subseteq Files
<1>1. \A extension : Listed(extension) \subseteq Files
  BY PathsAssumption DEF Listed, Files
<1> QED BY <1>1 DEF Scanned, SupplementalHeaders

\* So with files.
LEMMA OrderedFiles ==
    ASSUME NEW S, S \subseteq Files, NEW s \in SetToSeqs(S)
    PROVE  s \in Seq(Files) /\ ToSet(s) = S
<1>1. IsFiniteSet(S)
  BY FilesAreFinite, FS_Subset
<1> QED BY <1>1, InSomeOrder

(***************************************************************************)
(* The first state                                                         *)
(***************************************************************************)

\* In the first state nothing is open, read or in line.
LEMMA InitHolds == Init => IInv
<1> SUFFICES ASSUME Init PROVE IInv
  OBVIOUS
<1> USE DEF Init
<1>1. Opened
  BY DEF Opened, Phases, UnitIsOpen
<1>2. Typed
  <2>1. queue \in Seq(Files)
    OBVIOUS
  <2> QED BY <2>1 DEF Typed
<1>3. Accounted
  BY DEF Accounted, Before
<1> QED BY <1>1, <1>2, <1>3 DEF IInv

(***************************************************************************)
(* What libclang has open                                                  *)
(***************************************************************************)

\* Every step leaves open what its phase says.
LEMMA OpenedHolds == Opened /\ [Next]_vars => Opened'
<1> SUFFICES ASSUME Opened, [Next]_vars PROVE Opened'
  OBVIOUS
<1> USE DEF Opened, Phases, UnitIsOpen
<1>1. CASE ResolveConfig
  BY <1>1 DEF ResolveConfig, parseVars
<1>2. CASE Validate
  BY <1>2 DEF Validate, parseVars
<1>3. CASE OpenIndex
  BY <1>3 DEF OpenIndex
<1>4. CASE ParseUnit
  BY <1>4 DEF ParseUnit
<1>5. CASE SkipCursor \/ EnterNamespace \/ CollectDeclaration
  BY <1>5 DEF SkipCursor, EnterNamespace, CollectDeclaration, Visiting, visitUnchanged
<1>6. CASE ReadDiagnostics
  BY <1>6 DEF ReadDiagnostics
<1>7. CASE DisposeUnit
  BY <1>7 DEF DisposeUnit, Disposed
<1>8. CASE StartSupplement
  BY <1>8 DEF StartSupplement
<1>9. CASE FinishParse
  BY <1>9 DEF FinishParse
<1>10. CASE CloseIndex
  BY <1>10 DEF CloseIndex
<1>11. CASE HandOut
  BY <1>11 DEF HandOut
<1>12. CASE UNCHANGED vars
  BY <1>12 DEF vars
<1> QED
  BY <1>1, <1>2, <1>3, <1>4, <1>5, <1>6, <1>7, <1>8, <1>9, <1>10, <1>11, <1>12 DEF Next

(***************************************************************************)
(* Types                                                                   *)
(***************************************************************************)

\* Every step leaves files in line.
LEMMA TypedHolds == IInv /\ [Next]_vars => Typed'
<1> SUFFICES ASSUME IInv, [Next]_vars PROVE Typed'
  OBVIOUS
<1> USE DEF IInv, Typed
<1>1. CASE ResolveConfig
  <2>1. in.headers \in Seq(Paths)
    BY InputsAssumption
  <2>2. [i \in DOMAIN in.headers |-> Canonical[in.headers[i]]] \in Seq(Files)
    BY <2>1 DEF Files
  <2> QED BY <1>1, <2>2 DEF ResolveConfig, parseVars
<1>2. CASE Validate
  BY <1>2 DEF Validate, parseVars
<1>3. CASE OpenIndex
  <2>1. PICK units \in IF config.headers # <<>> THEN {config.headers} ELSE SetToSeqs(Scanned) :
            queue' = units
    BY <1>3 DEF OpenIndex
  <2>2. queue' \in Seq(Files)
    BY <1>3, <2>1, ListedAreFiles, OrderedFiles DEF OpenIndex
  <2> QED BY <1>3, <2>2 DEF OpenIndex
<1>4. CASE ParseUnit
  BY <1>4 DEF ParseUnit
<1>5. CASE SkipCursor \/ EnterNamespace \/ CollectDeclaration
  BY <1>5 DEF SkipCursor, EnterNamespace, CollectDeclaration, Visiting, visitUnchanged
<1>6. CASE ReadDiagnostics
  BY <1>6 DEF ReadDiagnostics, HasErrors
<1>7. CASE DisposeUnit
  <2>1. queue # <<>>
    BY <1>7 DEF DisposeUnit, Opened, UnitIsOpen
  <2> QED BY <1>7, <2>1, HeadAndTail DEF DisposeUnit, Remaining
<1>8. CASE StartSupplement
  <2>1. queue' \in Seq(Files)
    BY <1>8, ListedAreFiles, OrderedFiles DEF StartSupplement
  <2> QED BY <1>8, <2>1 DEF StartSupplement
<1>9. CASE FinishParse
  BY <1>9 DEF FinishParse
<1>10. CASE CloseIndex
  BY <1>10 DEF CloseIndex
<1>11. CASE HandOut
  BY <1>11 DEF HandOut
<1>12. CASE UNCHANGED vars
  BY <1>12 DEF vars
<1> QED
  BY <1>1, <1>2, <1>3, <1>4, <1>5, <1>6, <1>7, <1>8, <1>9, <1>10, <1>11, <1>12 DEF Next

(***************************************************************************)
(* Where the units are                                                     *)
(***************************************************************************)

\* What is found depends on the configuration and the files alone.
LEMMA ScannedStays == in' = in /\ config' = config => Scanned' = Scanned
  BY DEF Scanned, Listed

\* So does whether all of it is accounted for.
LEMMA AccountStays ==
    ASSUME in' = in, config' = config, read' = read, queue' = queue
    PROVE  UnitsAccounted' <=> UnitsAccounted
  BY ScannedStays DEF UnitsAccounted

\* Actions that neither take a unit out of line nor read one.
LEMMA AccountedOutside ==
    ASSUME IInv,
           ResolveConfig \/ Validate \/ SkipCursor \/ EnterNamespace \/ CollectDeclaration
                \/ CloseIndex \/ HandOut \/ UNCHANGED vars
    PROVE  Accounted'
<1> USE DEF IInv, Accounted, Before
<1>1. CASE ResolveConfig
  BY <1>1 DEF ResolveConfig, parseVars
<1>2. CASE Validate
  BY <1>2 DEF Validate, Valid, OneSource, parseVars
<1>3. CASE SkipCursor \/ EnterNamespace \/ CollectDeclaration
  <2>1. UNCHANGED <<in, phase, failing, config, queue, read>>
    BY <1>3 DEF SkipCursor, EnterNamespace, CollectDeclaration, visitUnchanged
  <2> QED BY <2>1, AccountStays DEF OneSource
<1>4. CASE CloseIndex
  BY <1>4, AccountStays DEF CloseIndex, OneSource
<1>5. CASE HandOut
  BY <1>5, AccountStays DEF HandOut, OneSource
<1>6. CASE UNCHANGED vars
  BY <1>6, AccountStays DEF vars, OneSource
<1> QED BY <1>1, <1>2, <1>3, <1>4, <1>5, <1>6

\* Units get in line: of the configuration, or of its directories.
LEMMA AccountedAtIndex == ASSUME IInv, OpenIndex PROVE Accounted'
<1> USE DEF IInv, Accounted, Before
<1>1. UNCHANGED <<in, failing, config, read>> /\ phase' \in {"units", "failed"}
      /\ ~failing /\ read = {}
  BY DEF OpenIndex
<1>2. OneSource
  BY DEF OpenIndex
<1>3. UnitsAccounted'
  <2>1. CASE config.headers # <<>>
    <3>1. queue' = config.headers /\ config.dirs = <<>>
      BY <2>1, <1>2 DEF OpenIndex, OneSource
    <3> QED BY <1>1, <3>1 DEF UnitsAccounted
  <2>2. CASE config.headers = <<>>
    <3>1. queue' \in SetToSeqs(Scanned)
      BY <2>2 DEF OpenIndex
    <3>2. ToSet(queue') = Scanned
      BY <3>1, ListedAreFiles, OrderedFiles
    <3> QED BY <1>1, <2>2, <3>2, ScannedStays DEF UnitsAccounted
  <2> QED BY <2>1, <2>2
<1> QED BY <1>1, <1>2, <1>3 DEF OneSource

\* A unit that cannot be parsed makes the run fail.
LEMMA AccountedAtParse == ASSUME IInv, ParseUnit PROVE Accounted'
<1> USE DEF IInv, Accounted, Before
<1>1. in.outcome[Head(queue)] \in UnitOutcomes
  <2>1. Head(queue) \in Files
    BY HeadAndTail DEF Typed, ParseUnit
  <2> QED BY <2>1, InputsAssumption DEF Typed, Files
<1>2. UNCHANGED <<in, config, queue, read>> /\ OneSource /\ UnitsAccounted
  BY DEF ParseUnit
<1>3. UnitsAccounted' /\ OneSource'
  BY <1>2, AccountStays DEF OneSource
<1> QED BY <1>1, <1>2, <1>3 DEF ParseUnit, UnitOutcomes

\* A unit is read only if nothing was wrong with it.
LEMMA AccountedAtDiagnostics == ASSUME IInv, ReadDiagnostics PROVE Accounted'
<1> USE DEF IInv, Accounted, Before
<1>1. UNCHANGED <<in, config, queue>> /\ OneSource /\ UnitsAccounted /\ phase' = "disposing"
  BY DEF ReadDiagnostics
<1>2. queue # <<>> /\ queue \in Seq(Files)
  BY DEF ReadDiagnostics, Opened, UnitIsOpen, Typed
<1>3. Head(queue) \in ToSet(queue)
  BY <1>2, HeadAndTail
<1>4. read \subseteq read' /\ read' \subseteq read \cup {Head(queue)}
  BY DEF ReadDiagnostics
<1>5. UnitsAccounted'
  BY <1>1, <1>3, <1>4, ScannedStays DEF UnitsAccounted
<1>6. /\ ~failing' => Head(queue) \in read'
      /\ \A u \in read' : in.outcome[u] = "read"
  BY DEF ReadDiagnostics, HasErrors
<1> QED BY <1>1, <1>5, <1>6 DEF OneSource

\* A unit leaves the line when it has been read, or the run has failed.
LEMMA AccountedAtDrop == ASSUME IInv, DisposeUnit PROVE Accounted'
<1> USE DEF IInv, Accounted, Before
<1>1. /\ UNCHANGED <<in, failing, config, read>> /\ OneSource
      /\ queue' = Tail(queue) /\ phase' = IF failing THEN "closing" ELSE "units"
  BY DEF DisposeUnit, Remaining
<1>2. queue # <<>> /\ queue \in Seq(Files)
  BY DEF DisposeUnit, Opened, UnitIsOpen, Typed
<1>3. ToSet(queue) = {Head(queue)} \cup ToSet(queue')
  BY <1>1, <1>2, HeadAndTail
<1>4. ASSUME ~failing PROVE UnitsAccounted'
  <2>1. UnitsAccounted /\ Head(queue) \in read
    BY <1>4 DEF DisposeUnit
  <2> QED BY <1>1, <1>3, <2>1, ScannedStays DEF UnitsAccounted
<1> QED BY <1>1, <1>4 DEF OneSource

\* The second pass adds units and forgets none: the line was empty.
LEMMA AccountedAtEnds == ASSUME IInv, StartSupplement \/ FinishParse PROVE Accounted'
<1> USE DEF IInv, Accounted, Before
<1>1. CASE StartSupplement
  <2>1. /\ UNCHANGED <<in, phase, failing, config, read>> /\ phase = "units" /\ queue = <<>>
        /\ OneSource /\ UnitsAccounted /\ ~failing
    BY <1>1 DEF StartSupplement
  <2>2. ToSet(queue) = {}
    BY <2>1 DEF ToSet
  <2>3. ToSet(queue') = SupplementalHeaders
    BY <1>1, ListedAreFiles, OrderedFiles DEF StartSupplement
  <2>4. config.headers # <<>> => SupplementalHeaders = {}
    BY <2>1 DEF OneSource, SupplementalHeaders
  <2>5. UnitsAccounted'
    BY <2>1, <2>2, <2>3, <2>4, ScannedStays DEF UnitsAccounted
  <2> QED BY <2>1, <2>5 DEF OneSource
<1>2. CASE FinishParse
  BY <1>2, AccountStays DEF FinishParse, OneSource
<1> QED BY <1>1, <1>2

\* IInv is inductive.
LEMMA StepHolds == IInv /\ [Next]_vars => IInv'
<1> SUFFICES ASSUME IInv, [Next]_vars PROVE IInv'
  OBVIOUS
<1>1. Opened' /\ Typed'
  BY OpenedHolds, TypedHolds DEF IInv
<1>2. Accounted'
  BY AccountedOutside, AccountedAtIndex, AccountedAtParse, AccountedAtDiagnostics,
     AccountedAtDrop, AccountedAtEnds DEF Next
<1> QED BY <1>1, <1>2 DEF IInv

(***************************************************************************)
(* Theorems                                                                *)
(***************************************************************************)

\* At every moment the phase tells what libclang has open, and every unit that
\* was found is read or in line, unless the run is failing.
THEOREM Invariant == Spec => []IInv
  BY InitHolds, StepHolds, PTL DEF Spec

\* The Drops of parser.rs and compiler.rs: one unit at a time, under a living
\* index, and nothing is left when a run ends or fails, wherever it fails.
THEOREM HandlesReturned == Spec => []UnitsReleased
<1>1. IInv => UnitsReleased
  BY DEF UnitsReleased, IInv, Opened, UnitIsOpen
<1> QED BY <1>1, Invariant, PTL

\* parse(), parser.rs:160: a run hands out declarations only after every unit it
\* found was read and had no error; a unit that is gone, that libclang does not
\* give or that has errors stops the run.
THEOREM NothingHalfRead == Spec => []FailureStopsAll
<1>1. ASSUME IInv, phase = "handed"
      PROVE  /\ OneSource /\ \A u \in read : in.outcome[u] = "read"
             /\ config.headers # <<>> => read = ToSet(config.headers)
             /\ config.dirs # <<>> => Scanned \subseteq read
  <2>1. UnitsAccounted /\ queue = <<>> /\ OneSource /\ \A u \in read : in.outcome[u] = "read"
    BY <1>1 DEF IInv, Accounted, Before
  <2>2. ToSet(queue) = {}
    BY <2>1 DEF ToSet
  <2> QED BY <2>1, <2>2 DEF UnitsAccounted
<1>2. Scanned = {} => Listed("header") = {}
  BY DEF Scanned
<1>3. IInv => FailureStopsAll
  BY <1>1, <1>2 DEF FailureStopsAll, GenerationHeaders, OneSource
<1> QED BY <1>3, Invariant, PTL

(***************************************************************************)
(* Declarations                                                            *)
(***************************************************************************)

\* A record with the fields of a declaration.
Shaped(e) ==
    e = [kind |-> e.kind, header |-> e.header, namespace |-> e.namespace, name |-> e.name,
         sig |-> e.sig, defined |-> e.defined, operators |-> e.operators]

\* A declaration as it is collected: only operators may have bodies, and the
\* operators of a class are its header's.
Collectable(e) ==
    /\ Shaped(e)
    /\ e.kind # "operator" => ~e.defined
    /\ e.kind # "record" => e.operators = {}
    /\ \A o \in e.operators : /\ Shaped(o) /\ o.kind = "operator" /\ o.header = e.header
                              /\ o.operators = {}

\* What an operator is collected as.
LEMMA OperatorShaped ==
    ASSUME NEW c, NEW namespace
    PROVE  /\ Collectable(Operator(c, namespace))
           /\ Shaped(Operator(c, namespace))
           /\ Operator(c, namespace).kind = "operator"
           /\ Operator(c, namespace).header = Canonical[c.path]
           /\ Operator(c, namespace).operators = {}
  BY DEF Operator, Entity, Shaped, Collectable

\* What a class is collected as.
LEMMA RecordShaped ==
    ASSUME NEW c, NEW namespace,
           \A k \in UNION {{k} \cup ToSet(k.kids) : k \in ToSet(c.kids)} : k.path = c.path
    PROVE  /\ Collectable(Record(c, namespace))
           /\ Record(c, namespace).kind = "record"
           /\ Record(c, namespace).header = Canonical[c.path]
           /\ Record(c, namespace).namespace = namespace
           /\ Record(c, namespace).name = c.name
<1> DEFINE kids == {k \in ToSet(c.kids) : ShouldCollect(k)}
           public == {k \in kids : k.access = "public"}
           ofFriends == UNION {ToSet(k.kids) : k \in {k \in public : k.kind = "friend"}}
           members == {k.name : k \in {k \in public : k.kind = "member"}}
                           \cup {"abstract" : k \in {k \in kids : "pure" \in k.sig}}
           found == {k \in public \cup ofFriends : k.kind = "operator"}
           operators == {Operator(k, namespace) : k \in found}
<1>1. Record(c, namespace) = [Entity("record", c, namespace) EXCEPT !.sig = members, !.operators = operators]
  BY DEF Record
<1>2. \A k \in found : k.path = c.path
  OBVIOUS
<1>3. \A o \in operators : /\ Shaped(o) /\ o.kind = "operator" /\ o.header = Canonical[c.path]
                           /\ o.operators = {}
  BY <1>2, OperatorShaped
<1> HIDE DEF members, operators
<1>4. Record(c, namespace) =
        [kind |-> "record", header |-> Canonical[c.path], namespace |-> namespace, name |-> c.name,
         sig |-> members, defined |-> FALSE, operators |-> operators]
  BY <1>1 DEF Entity
<1> QED BY <1>3, <1>4 DEF Collectable, Shaped

\* Keys, field by field.
LEMMA KeyShaped ==
    ASSUME NEW e, Shaped(e)
    PROVE  /\ OperatorKey(e) =
                [kind |-> e.kind, header |-> e.header, namespace |-> e.namespace, name |-> e.name,
                 sig |-> e.sig, defined |-> FALSE, operators |-> e.operators]
           /\ Key(e) =
                [kind |-> e.kind, header |-> e.header, namespace |-> e.namespace, name |-> e.name,
                 sig |-> e.sig, defined |-> FALSE, operators |-> {OperatorKey(o) : o \in e.operators}]
<1>1. ASSUME NEW k, NEW h, NEW n, NEW m, NEW s, NEW d, NEW os,
             e = [kind |-> k, header |-> h, namespace |-> n, name |-> m, sig |-> s, defined |-> d,
                  operators |-> os]
      PROVE  /\ OperatorKey(e) = [kind |-> k, header |-> h, namespace |-> n, name |-> m, sig |-> s,
                                  defined |-> FALSE, operators |-> os]
             /\ Key(e) = [kind |-> k, header |-> h, namespace |-> n, name |-> m, sig |-> s,
                          defined |-> FALSE, operators |-> {OperatorKey(o) : o \in os}]
  <2> DEFINE r == [kind |-> k, header |-> h, namespace |-> n, name |-> m, sig |-> s, defined |-> d,
                   operators |-> os]
             keys == {OperatorKey(o) : o \in os}
             q == [kind |-> k, header |-> h, namespace |-> n, name |-> m, sig |-> s,
                   defined |-> FALSE, operators |-> os]
  <2>1. OperatorKey(e) = q
    <3> DEFINE no == FALSE
    <3>1. OperatorKey(r) = [r EXCEPT !.defined = no]
      BY DEF OperatorKey
    <3> HIDE DEF no
    <3>2. OperatorKey(r) = [q EXCEPT !.defined = no]
      BY <3>1
    <3> QED BY <1>1, <3>2 DEF no
  <2>2. Key(e) = [q EXCEPT !.operators = {OperatorKey(o) : o \in q.operators}]
    BY <2>1 DEF Key
  <2> HIDE DEF keys
  <2>3. Key(e) = [q EXCEPT !.operators = keys]
    BY <2>2 DEF keys
  <2> QED BY <2>1, <2>3 DEF keys
<1> QED BY <1>1 DEF Shaped

\* A declaration without its bodies, field by field.
LEMMA PlainlyShaped ==
    ASSUME NEW e, Shaped(e)
    PROVE  Plainly(e) =
              [kind |-> e.kind, header |-> e.header, namespace |-> e.namespace, name |-> e.name,
               sig |-> e.sig, defined |-> FALSE,
               operators |-> {<<o.namespace, o.name, o.sig>> : o \in e.operators}]
<1>1. ASSUME NEW k, NEW h, NEW n, NEW m, NEW s, NEW d, NEW os,
             e = [kind |-> k, header |-> h, namespace |-> n, name |-> m, sig |-> s, defined |-> d,
                  operators |-> os]
      PROVE  Plainly(e) = [kind |-> k, header |-> h, namespace |-> n, name |-> m, sig |-> s,
                           defined |-> FALSE,
                           operators |-> {<<o.namespace, o.name, o.sig>> : o \in os}]
  <2> DEFINE r == [kind |-> k, header |-> h, namespace |-> n, name |-> m, sig |-> s, defined |-> d,
                   operators |-> os]
             names == {<<o.namespace, o.name, o.sig>> : o \in os}
  <2>1. Plainly(r) = [r EXCEPT !.defined = FALSE, !.operators = names]
    BY DEF Plainly
  <2> HIDE DEF names
  <2>2. Plainly(e) = [r EXCEPT !.defined = FALSE, !.operators = names]
    BY <2>1, <1>1
  <2> QED BY <2>2 DEF names
<1> QED BY <1>1 DEF Shaped

\* Operators of one header are alike exactly if their namespaces, names and
\* signatures are.
LEMMA AlikeOperators ==
    ASSUME NEW o, NEW p, Shaped(o), Shaped(p), o.kind = "operator", p.kind = "operator",
           o.header = p.header, o.operators = {}, p.operators = {}
    PROVE  OperatorKey(o) = OperatorKey(p) <=>
              <<o.namespace, o.name, o.sig>> = <<p.namespace, p.name, p.sig>>
<1>1. /\ OperatorKey(o).namespace = o.namespace /\ OperatorKey(o).name = o.name
      /\ OperatorKey(o).sig = o.sig
      /\ OperatorKey(p).namespace = p.namespace /\ OperatorKey(p).name = p.name
      /\ OperatorKey(p).sig = p.sig
  BY KeyShaped
<1>2. ASSUME o.namespace = p.namespace, o.name = p.name, o.sig = p.sig
      PROVE  OperatorKey(o) = OperatorKey(p)
  <2>1. /\ OperatorKey(o) =
              [kind |-> o.kind, header |-> o.header, namespace |-> o.namespace, name |-> o.name,
               sig |-> o.sig, defined |-> FALSE, operators |-> o.operators]
        /\ OperatorKey(p) =
              [kind |-> p.kind, header |-> p.header, namespace |-> p.namespace, name |-> p.name,
               sig |-> p.sig, defined |-> FALSE, operators |-> p.operators]
    BY KeyShaped
  <2> QED BY <1>2, <2>1
<1> QED BY <1>1, <1>2

\* What keys tell apart is what is told apart when bodies are left aside.
LEMMA KeysArePlain ==
    ASSUME NEW e, NEW f, Collectable(e), Collectable(f)
    PROVE  Key(e) = Key(f) <=> Plainly(e) = Plainly(f)
<1> DEFINE keys(g) == {OperatorKey(o) : o \in g.operators}
           names(g) == {<<o.namespace, o.name, o.sig>> : o \in g.operators}
           same == /\ e.kind = f.kind /\ e.header = f.header /\ e.namespace = f.namespace
                   /\ e.name = f.name /\ e.sig = f.sig
<1>1. ASSUME same PROVE keys(e) = keys(f) <=> names(e) = names(f)
  <2>1. \A o \in e.operators, p \in f.operators :
            OperatorKey(o) = OperatorKey(p) <=>
              <<o.namespace, o.name, o.sig>> = <<p.namespace, p.name, p.sig>>
    BY <1>1, AlikeOperators DEF Collectable
  <2>2. keys(e) = keys(f) => names(e) = names(f)
    BY <2>1
  <2>3. ASSUME names(e) = names(f) PROVE keys(e) = keys(f)
    <3>1. ASSUME NEW o \in e.operators PROVE OperatorKey(o) \in keys(f)
      <4>1. <<o.namespace, o.name, o.sig>> \in names(f)
        BY <2>3
      <4>2. PICK p \in f.operators : <<o.namespace, o.name, o.sig>> = <<p.namespace, p.name, p.sig>>
        BY <4>1
      <4> QED BY <4>2, <2>1
    <3>2. ASSUME NEW p \in f.operators PROVE OperatorKey(p) \in keys(e)
      <4>1. <<p.namespace, p.name, p.sig>> \in names(e)
        BY <2>3
      <4>2. PICK o \in e.operators : <<o.namespace, o.name, o.sig>> = <<p.namespace, p.name, p.sig>>
        BY <4>1
      <4> QED BY <4>2, <2>1
    <3> QED BY <3>1, <3>2
  <2> QED BY <2>2, <2>3
<1>2. /\ Key(e).kind = e.kind /\ Key(e).header = e.header /\ Key(e).namespace = e.namespace
      /\ Key(e).name = e.name /\ Key(e).sig = e.sig /\ Key(e).operators = keys(e)
      /\ Key(f).kind = f.kind /\ Key(f).header = f.header /\ Key(f).namespace = f.namespace
      /\ Key(f).name = f.name /\ Key(f).sig = f.sig /\ Key(f).operators = keys(f)
  BY KeyShaped DEF Collectable
<1>3. /\ Plainly(e).kind = e.kind /\ Plainly(e).header = e.header /\ Plainly(e).namespace = e.namespace
      /\ Plainly(e).name = e.name /\ Plainly(e).sig = e.sig /\ Plainly(e).operators = names(e)
      /\ Plainly(f).kind = f.kind /\ Plainly(f).header = f.header /\ Plainly(f).namespace = f.namespace
      /\ Plainly(f).name = f.name /\ Plainly(f).sig = f.sig /\ Plainly(f).operators = names(f)
  BY PlainlyShaped DEF Collectable
<1> DEFINE Shape(g, os) == [kind |-> g.kind, header |-> g.header, namespace |-> g.namespace,
                            name |-> g.name, sig |-> g.sig, defined |-> FALSE, operators |-> os]
<1>a. ASSUME same, NEW os PROVE Shape(e, os) = Shape(f, os)
  BY <1>a
<1>4. same /\ keys(e) = keys(f) => Key(e) = Key(f)
  <2>1. Key(e) = Shape(e, keys(e)) /\ Key(f) = Shape(f, keys(f))
    BY KeyShaped DEF Collectable
  <2> HIDE DEF Shape, keys, same
  <2> QED BY <1>a, <2>1
<1>5. same /\ names(e) = names(f) => Plainly(e) = Plainly(f)
  <2>1. Plainly(e) = Shape(e, names(e)) /\ Plainly(f) = Shape(f, names(f))
    BY PlainlyShaped DEF Collectable
  <2> HIDE DEF Shape, names, same
  <2> QED BY <1>a, <2>1
<1> HIDE DEF Shape
<1> HIDE DEF keys, names
<1> QED BY <1>1, <1>2, <1>3, <1>4, <1>5

(***************************************************************************)
(* Merging                                                                 *)
(***************************************************************************)

\* An operator as a class of a header has it.
IsOperatorOf(o, h) == Shaped(o) /\ o.kind = "operator" /\ o.header = h /\ o.operators = {}

\* An operator that gets a body stays alike.
LEMMA OperatorDefined ==
    ASSUME NEW o, NEW h, IsOperatorOf(o, h), NEW d
    PROVE  /\ IsOperatorOf([o EXCEPT !.defined = d], h)
           /\ OperatorKey([o EXCEPT !.defined = d]) = OperatorKey(o)
           /\ [o EXCEPT !.defined = d].defined = d
<1> DEFINE r == [kind |-> o.kind, header |-> o.header, namespace |-> o.namespace, name |-> o.name,
                 sig |-> o.sig, defined |-> o.defined, operators |-> o.operators]
           m == [kind |-> o.kind, header |-> o.header, namespace |-> o.namespace, name |-> o.name,
                 sig |-> o.sig, defined |-> d, operators |-> o.operators]
<1>1. [o EXCEPT !.defined = d] = [r EXCEPT !.defined = d]
  BY DEF IsOperatorOf, Shaped
<1>2. [r EXCEPT !.defined = d] = m
  OBVIOUS
<1>3. Shaped(m) /\ IsOperatorOf(m, h)
  BY DEF IsOperatorOf, Shaped
<1>4. OperatorKey(m) = OperatorKey(o)
  BY <1>3, KeyShaped DEF IsOperatorOf
<1> QED BY <1>1, <1>2, <1>3, <1>4

\* Operators that are alike are merged, and none is lost.
LEMMA OperatorsMerged ==
    ASSUME NEW S, NEW h, \A o \in S : IsOperatorOf(o, h)
    PROVE  /\ \A m \in DedupeOperators(S) :
                  /\ IsOperatorOf(m, h)
                  /\ m.defined <=> \E p \in S : OperatorKey(p) = OperatorKey(m) /\ p.defined
           /\ {OperatorKey(m) : m \in DedupeOperators(S)} = {OperatorKey(o) : o \in S}
<1> DEFINE d(o) == \E p \in S : OperatorKey(p) = OperatorKey(o) /\ p.defined
           M(o) == [o EXCEPT !.defined = d(o)]
<1>1. DedupeOperators(S) = {M(o) : o \in S}
  BY DEF DedupeOperators
<1> HIDE DEF d
<1>2. \A o \in S : IsOperatorOf(M(o), h) /\ OperatorKey(M(o)) = OperatorKey(o) /\ M(o).defined = d(o)
  BY OperatorDefined
<1> HIDE DEF M
<1>3. ASSUME NEW o \in S
      PROVE  M(o).defined <=> \E p \in S : OperatorKey(p) = OperatorKey(M(o)) /\ p.defined
  BY <1>2 DEF d
<1>4. {OperatorKey(m) : m \in DedupeOperators(S)} = {OperatorKey(o) : o \in S}
  BY <1>1, <1>2
<1> QED BY <1>1, <1>2, <1>3, <1>4

\* Declarations that are alike are merged into one that is alike, with a body
\* where any has one.
LEMMA MergedIsAlike ==
    ASSUME NEW alike, NEW e \in alike, \A a \in alike : Collectable(a) /\ Key(a) = Key(e)
    PROVE  /\ Collectable(Merged(e, alike))
           /\ Key(Merged(e, alike)) = Key(e)
           /\ Merged(e, alike).header = e.header /\ Merged(e, alike).kind = e.kind
           /\ Merged(e, alike).defined <=> \E a \in alike : a.defined
           /\ \A m \in Merged(e, alike).operators :
                  m.defined <=> \E a \in alike : \E p \in a.operators :
                                    OperatorKey(p) = OperatorKey(m) /\ p.defined
<1> DEFINE all == UNION {a.operators : a \in alike}
           os == DedupeOperators(all)
           d == \E a \in alike : a.defined
           r == [kind |-> e.kind, header |-> e.header, namespace |-> e.namespace, name |-> e.name,
                 sig |-> e.sig, defined |-> e.defined, operators |-> e.operators]
           m == [kind |-> e.kind, header |-> e.header, namespace |-> e.namespace, name |-> e.name,
                 sig |-> e.sig, defined |-> d, operators |-> os]
<1>1. \A a \in alike : /\ a.kind = e.kind /\ a.header = e.header
                       /\ {OperatorKey(o) : o \in a.operators} = {OperatorKey(o) : o \in e.operators}
  <2> SUFFICES ASSUME NEW a \in alike
               PROVE  /\ a.kind = e.kind /\ a.header = e.header
                      /\ {OperatorKey(o) : o \in a.operators} = {OperatorKey(o) : o \in e.operators}
    OBVIOUS
  <2>1. /\ Key(a).kind = a.kind /\ Key(a).header = a.header
        /\ Key(a).operators = {OperatorKey(o) : o \in a.operators}
        /\ Key(e).kind = e.kind /\ Key(e).header = e.header
        /\ Key(e).operators = {OperatorKey(o) : o \in e.operators}
    BY KeyShaped DEF Collectable
  <2>2. Key(a) = Key(e)
    OBVIOUS
  <2> HIDE DEF all, os
  <2> QED BY <2>1, <2>2
<1>2. \A o \in all : IsOperatorOf(o, e.header)
  BY <1>1 DEF Collectable, IsOperatorOf
<1>3. /\ \A o \in os : /\ IsOperatorOf(o, e.header)
                       /\ o.defined <=> \E p \in all : OperatorKey(p) = OperatorKey(o) /\ p.defined
      /\ {OperatorKey(o) : o \in os} = {OperatorKey(o) : o \in all}
  BY <1>2, OperatorsMerged
<1>4. {OperatorKey(o) : o \in all} = {OperatorKey(o) : o \in e.operators}
  BY <1>1
<1>5. Merged(e, alike) = [r EXCEPT !.defined = d, !.operators = os]
  BY DEF Merged, Collectable, Shaped
<1> HIDE DEF d, os
<1>6. Merged(e, alike) = m
  BY <1>5
<1>7. Shaped(m)
  BY DEF Shaped
<1>8. Key(m) = Key(e)
  <2>1. m.kind = e.kind /\ m.header = e.header /\ m.namespace = e.namespace /\ m.name = e.name
        /\ m.sig = e.sig /\ m.operators = os
    OBVIOUS
  <2> HIDE DEF m
  <2>2. {OperatorKey(o) : o \in m.operators} = {OperatorKey(o) : o \in e.operators}
    BY <2>1, <1>3, <1>4
  <2>3. /\ Key(m) =
                [kind |-> m.kind, header |-> m.header, namespace |-> m.namespace, name |-> m.name,
                 sig |-> m.sig, defined |-> FALSE, operators |-> {OperatorKey(o) : o \in m.operators}]
        /\ Key(e) =
                [kind |-> e.kind, header |-> e.header, namespace |-> e.namespace, name |-> e.name,
                 sig |-> e.sig, defined |-> FALSE, operators |-> {OperatorKey(o) : o \in e.operators}]
    BY <1>7, KeyShaped DEF Collectable
  <2> QED BY <2>1, <2>2, <2>3
<1>9. m.header = e.header /\ m.kind = e.kind /\ m.operators = os /\ m.defined = d
  OBVIOUS
<1>10. Collectable(m)
  <2>1. e.kind # "operator" => ~d
    BY <1>1 DEF d, Collectable
  <2>2. e.kind # "record" => os = {}
    <3>1. e.kind # "record" => all = {}
      BY <1>1 DEF Collectable
    <3> QED BY <3>1 DEF os, DedupeOperators
  <2> QED BY <1>3, <1>7, <1>9, <2>1, <2>2 DEF Collectable, IsOperatorOf
<1>11. \A o \in os : o.defined <=> \E a \in alike : \E p \in a.operators :
                                    OperatorKey(p) = OperatorKey(o) /\ p.defined
  BY <1>3
<1> HIDE DEF m
<1> QED BY <1>6, <1>8, <1>9, <1>10, <1>11 DEF d

\* A set of places has a first one.
LEMMA FirstPlace ==
    ASSUME NEW n \in Nat, NEW T, T \subseteq 1..n, T # {}
    PROVE  \E i \in T : \A j \in 1..(i - 1) : j \notin T
<1> DEFINE R == OpToRel(<, Nat)
<1>1. R = {ss \in Nat \X Nat : ss[1] < ss[2]}
  BY DEF OpToRel
<1>2. IsWellFoundedOn(R, Nat)
  BY NatLessThanWellFounded
<1>3. \A a, b \in Nat : a < b => <<a, b>> \in R
  BY <1>1
<1>4. T \subseteq Nat
  OBVIOUS
<1> HIDE DEF R
<1>5. PICK i \in T : \A j \in T : ~(<<j, i>> \in R)
  BY <1>2, <1>4, WFMin
<1>6. ASSUME NEW j \in T, j < i PROVE FALSE
  <2>1. <<j, i>> \in R
    BY <1>3, <1>4, <1>6
  <2> QED BY <1>5, <2>1
<1> QED BY <1>6

\* What there is of some declarations once they are merged.
Deduped(merged, all) ==
    /\ \A i \in DOMAIN merged : \E e \in all : merged[i] = Merged(e, {a \in all : Key(a) = Key(e)})
    /\ \A e \in all : \E i \in DOMAIN merged : Key(merged[i]) = Key(e)
    /\ \A i, j \in DOMAIN merged : Key(merged[i]) = Key(merged[j]) => i = j

\* dedupe_api loses no declaration and keeps none twice.
LEMMA DedupeMerges ==
    ASSUME NEW s, s \in Seq(ToSet(s)), \A e \in ToSet(s) : Collectable(e)
    PROVE  Deduped(Dedupe(s), ToSet(s))
<1> DEFINE all == ToSet(s)
           keys == [i \in DOMAIN s |-> Key(s[i])]
           alike(e) == {a \in all : Key(a) = Key(e)}
           merged == Dedupe(s)
<1>1. /\ Len(s) \in Nat /\ DOMAIN s = 1..Len(s) /\ DOMAIN keys = DOMAIN s
      /\ \A i \in DOMAIN s : s[i] \in all /\ keys[i] = Key(s[i])
  BY DEF ToSet
<1>2. DOMAIN merged = Firsts(keys) /\ Firsts(keys) \subseteq DOMAIN s
  BY <1>1 DEF Dedupe, Firsts
<1>3. ASSUME NEW i \in Firsts(keys)
      PROVE  merged[i] = Merged(s[i], alike(s[i]))
  <2>1. merged[i] = Merged(s[i], {e \in all : Key(e) = keys[i]})
    BY <1>2 DEF Dedupe
  <2> QED BY <2>1, <1>1, <1>2
<1>4. ASSUME NEW i \in Firsts(keys) PROVE Key(merged[i]) = Key(s[i])
  <2>1. s[i] \in alike(s[i]) /\ \A a \in alike(s[i]) : Collectable(a) /\ Key(a) = Key(s[i])
    BY <1>1, <1>2
  <2> HIDE DEF alike, merged
  <2> QED BY <1>3, <2>1, MergedIsAlike
<1> HIDE DEF merged
<1>5. ASSUME NEW e \in all PROVE \E i \in Firsts(keys) : Key(s[i]) = Key(e)
  <2> DEFINE T == {i \in DOMAIN s : Key(s[i]) = Key(e)}
  <2>1. PICK k \in DOMAIN s : s[k] = e
    BY DEF ToSet
  <2>2. T # {} /\ T \subseteq 1..Len(s)
    BY <1>1, <2>1
  <2>3. PICK i \in T : \A j \in 1..(i - 1) : j \notin T
    BY <1>1, <2>2, FirstPlace
  <2>4. \A j \in 1..(i - 1) : j \in DOMAIN s
    BY <1>1, <2>3
  <2>5. i \in Firsts(keys)
    BY <1>1, <2>3, <2>4 DEF Firsts
  <2> QED BY <2>3, <2>5
<1>6. ASSUME NEW i \in Firsts(keys), NEW j \in Firsts(keys), Key(s[i]) = Key(s[j])
      PROVE  i = j
  <2>1. i \in Nat /\ j \in Nat /\ i >= 1 /\ j >= 1 /\ keys[i] = keys[j]
    BY <1>1, <1>2, <1>6
  <2> HIDE DEF keys
  <2>2. ~(i < j) /\ ~(j < i)
    BY <2>1 DEF Firsts
  <2> QED BY <2>1, <2>2
<1> HIDE DEF keys
<1>7. \A i \in DOMAIN merged : \E e \in all : merged[i] = Merged(e, alike(e))
  BY <1>1, <1>2, <1>3
<1>8. \A e \in all : \E i \in DOMAIN merged : Key(merged[i]) = Key(e)
  BY <1>2, <1>4, <1>5
<1>9. \A i, j \in DOMAIN merged : Key(merged[i]) = Key(merged[j]) => i = j
  BY <1>2, <1>4, <1>6
<1> QED BY <1>7, <1>8, <1>9 DEF Deduped, merged

(***************************************************************************)
(* Sequences                                                               *)
(***************************************************************************)

\* A sequence, of whatever.
IsSequence(s) == s \in Seq(ToSet(s))

\* Two sequences one after the other hold what both hold.
LEMMA SequenceJoined ==
    ASSUME NEW s, NEW t, IsSequence(s), IsSequence(t)
    PROVE  IsSequence(s \o t) /\ ToSet(s \o t) = ToSet(s) \cup ToSet(t)
<1> DEFINE all == ToSet(s) \cup ToSet(t)
<1>1. s \in Seq(all) /\ t \in Seq(all)
  BY DEF IsSequence
<1> HIDE DEF all
<1>2. /\ s \o t \in Seq(all)
      /\ Len(s) \in Nat /\ Len(t) \in Nat /\ Len(s \o t) = Len(s) + Len(t)
      /\ DOMAIN s = 1..Len(s) /\ DOMAIN t = 1..Len(t) /\ DOMAIN (s \o t) = 1..(Len(s) + Len(t))
      /\ \A i \in 1..(Len(s) + Len(t)) : (s \o t)[i] = IF i <= Len(s) THEN s[i] ELSE t[i - Len(s)]
  BY <1>1
<1>3. ASSUME NEW i \in DOMAIN (s \o t) PROVE (s \o t)[i] \in ToSet(s) \cup ToSet(t)
  <2>1. CASE i <= Len(s)
    BY <1>2, <2>1 DEF ToSet
  <2>2. CASE ~(i <= Len(s))
    <3>1. i - Len(s) \in DOMAIN t /\ (s \o t)[i] = t[i - Len(s)]
      BY <1>2, <2>2
    <3> QED BY <3>1 DEF ToSet
  <2> QED BY <2>1, <2>2
<1>4. ASSUME NEW i \in DOMAIN s PROVE s[i] \in ToSet(s \o t)
  <2>1. i \in DOMAIN (s \o t) /\ (s \o t)[i] = s[i]
    BY <1>2
  <2> QED BY <2>1 DEF ToSet
<1>5. ASSUME NEW i \in DOMAIN t PROVE t[i] \in ToSet(s \o t)
  <2>1. i + Len(s) \in DOMAIN (s \o t) /\ (s \o t)[i + Len(s)] = t[i]
    BY <1>2
  <2> QED BY <2>1 DEF ToSet
<1>6. ToSet(s \o t) = all
  BY <1>3, <1>4, <1>5 DEF ToSet, all
<1> QED BY <1>2, <1>6 DEF IsSequence, all

\* The rest of a sequence is one.
LEMMA RestIsSequence ==
    ASSUME NEW s, IsSequence(s), s # <<>>
    PROVE  IsSequence(Tail(s)) /\ ToSet(s) = {Head(s)} \cup ToSet(Tail(s))
<1>1. /\ Tail(s) \in Seq(ToSet(s)) /\ ToSet(s) = {Head(s)} \cup ToSet(Tail(s))
  BY HeadAndTail DEF IsSequence
<1>2. Len(Tail(s)) \in Nat /\ DOMAIN Tail(s) = 1..Len(Tail(s))
  BY <1>1
<1>3. \A i \in 1..Len(Tail(s)) : Tail(s)[i] \in ToSet(Tail(s))
  BY <1>2 DEF ToSet
<1>4. Tail(s) \in Seq(ToSet(Tail(s)))
  <2> DEFINE t == Tail(s)
  <2> HIDE DEF t
  <2>1. ASSUME t \in Seq(ToSet(s)), \A i \in 1..Len(t) : t[i] \in ToSet(t)
        PROVE  t \in Seq(ToSet(t))
    BY <2>1
  <2> QED BY <1>1, <1>3, <2>1 DEF t
<1> QED BY <1>1, <1>4 DEF IsSequence

(***************************************************************************)
(* What libclang shows                                                     *)
(***************************************************************************)

\* All cursors of a unit, with their namespaces.
All(u) == Nested(Top(in.shown[u]))

\* What is collected of a cursor, namespaces being entered.
Wanted(q) == ShouldCollect(q[1]) /\ q[1].kind # "namespace"

\* What the walk over some cursors collects.
DeclarationsOf(S) == UNION {ToSet(Declared(q[1], q[2])) : q \in {q \in S : Wanted(q)}}

CollectedFrom(U) == UNION {DeclarationsOf(All(u)) : u \in U}

\* Of the units the assumption on inputs holds.
LEMMA UnitShown == ASSUME in \in Inputs, NEW u \in Files PROVE ShowsUnit(in, u)
  BY InputsAssumption DEF Files

\* The cursors of a namespace, and whether it is entered.
Kids(q) == {<<k, Append(q[2], q[1].name)>> : k \in ToSet(q[1].kids)}
Entered(q) == q[1].kind = "namespace" /\ q[1].name # ""

\* A cursor is inside some when it is in a namespace among them.
LEMMA InsideOne ==
    \A S, r : r \in Inside(S) <=> \E q \in S : Entered(q) /\ r \in Kids(q)
<1> SUFFICES ASSUME NEW S, NEW r
             PROVE  r \in Inside(S) <=> \E q \in S : Entered(q) /\ r \in Kids(q)
  OBVIOUS
<1>1. Inside(S) = UNION {Kids(q) : q \in {q \in S : Entered(q)}}
  BY DEF Inside, Kids, Entered
<1> QED BY <1>1

\* What is inside of more cursors is more, and of both what is inside of each.
LEMMA InsideJoins ==
    /\ \A S, T : Inside(S \cup T) = Inside(S) \cup Inside(T)
    /\ \A S, T : S \subseteq T => Inside(S) \subseteq Inside(T)
    /\ Inside({}) = {}
<1>1. ASSUME NEW S, NEW T, S \subseteq T PROVE Inside(S) \subseteq Inside(T)
  <2> SUFFICES ASSUME NEW r \in Inside(S) PROVE r \in Inside(T)
    OBVIOUS
  <2> QED BY <1>1, InsideOne
<1>2. ASSUME NEW S, NEW T PROVE Inside(S \cup T) \subseteq Inside(S) \cup Inside(T)
  <2> SUFFICES ASSUME NEW r \in Inside(S \cup T) PROVE r \in Inside(S) \/ r \in Inside(T)
    OBVIOUS
  <2>1. PICK q \in S \cup T : Entered(q) /\ r \in Kids(q)
    BY InsideOne
  <2>2. CASE q \in S
    BY <2>1, <2>2, InsideOne
  <2>3. CASE q \in T
    BY <2>1, <2>3, InsideOne
  <2> QED BY <2>2, <2>3
<1>3. Inside({}) = {}
  BY InsideOne
<1>4. \A S, T : Inside(S) \subseteq Inside(S \cup T) /\ Inside(T) \subseteq Inside(S \cup T)
  BY <1>1
<1>5. \A S, T : Inside(S \cup T) = Inside(S) \cup Inside(T)
  <2> SUFFICES ASSUME NEW S, NEW T PROVE Inside(S \cup T) = Inside(S) \cup Inside(T)
    OBVIOUS
  <2> QED BY <1>2, <1>4
<1> QED BY <1>1, <1>3, <1>5

\* So is what is nested.
LEMMA NestedJoins ==
    /\ \A S, T : Nested(S \cup T) = Nested(S) \cup Nested(T)
    /\ Nested({}) = {}
<1>1. ASSUME NEW S, NEW T PROVE Nested(S \cup T) = Nested(S) \cup Nested(T)
  <2>1. Inside(S \cup T) = Inside(S) \cup Inside(T)
    BY InsideJoins
  <2>2. Inside(Inside(S \cup T)) = Inside(Inside(S)) \cup Inside(Inside(T))
    BY <2>1, InsideJoins
  <2> QED BY <2>1, <2>2 DEF Nested
<1> QED BY <1>1, InsideJoins DEF Nested

\* So is what is declared.
LEMMA DeclarationsJoin ==
    \A S, T : DeclarationsOf(S \cup T) = DeclarationsOf(S) \cup DeclarationsOf(T)
  BY DEF DeclarationsOf

\* The walk ends: nothing of a unit is nested deeper than Nested looks.
LEMMA AllIsClosed ==
    ASSUME in \in Inputs, NEW u \in Files
    PROVE  /\ Inside(All(u)) \subseteq All(u)
           /\ \A p \in All(u) : /\ Inside({p}) \subseteq All(u)
                                /\ Inside(Inside(Inside({p}))) = {}
<1> DEFINE t == Top(in.shown[u])
           i == Inside(t)
           ii == Inside(i)
<1>1. Inside(ii) = {} /\ All(u) = (t \cup i) \cup ii
  BY UnitShown DEF ShowsUnit, All, Nested
<1>2. Inside(All(u)) = i \cup ii
  <2>1. /\ Inside((t \cup i) \cup ii) = Inside(t \cup i) \cup Inside(ii)
        /\ Inside(t \cup i) = Inside(t) \cup Inside(i)
    BY InsideJoins
  <2> QED BY <1>1, <2>1
<1>3. Inside(Inside(All(u))) = ii
  <2>1. Inside(i \cup ii) = Inside(i) \cup Inside(ii)
    BY InsideJoins
  <2> QED BY <1>1, <1>2, <2>1
<1>4. Inside(Inside(Inside(All(u)))) = {}
  BY <1>1, <1>3
<1> HIDE DEF t, i, ii
<1>5. ASSUME NEW p \in All(u)
      PROVE  Inside({p}) \subseteq All(u) /\ Inside(Inside(Inside({p}))) = {}
  <2>1. {p} \subseteq All(u)
    OBVIOUS
  <2>2. Inside({p}) \subseteq Inside(All(u))
    BY <2>1, InsideJoins
  <2>3. Inside(Inside({p})) \subseteq Inside(Inside(All(u)))
    BY <2>2, InsideJoins
  <2>4. Inside(Inside(Inside({p}))) \subseteq Inside(Inside(Inside(All(u))))
    BY <2>3, InsideJoins
  <2> QED BY <1>1, <1>2, <1>4, <2>2, <2>4
<1> QED BY <1>1, <1>2, <1>5

\* A cursor, and what is in it, is of the same file.
LEMMA InsideIsThere ==
    ASSUME in \in Inputs, NEW u \in Files, NEW S, S \subseteq All(u), NEW r \in Inside(S)
    PROVE  \E q \in S : /\ r[1].path = q[1].path /\ r[1].system = q[1].system
<1>1. PICK q \in S : r \in Kids(q)
  BY InsideOne
<1>2. PICK k \in ToSet(q[1].kids) : r = <<k, Append(q[2], q[1].name)>>
  BY <1>1 DEF Kids
<1>3. k \in UNION {{j} \cup ToSet(j.kids) : j \in ToSet(q[1].kids)}
  OBVIOUS
<1>4. k.path = q[1].path /\ k.system = q[1].system
  BY <1>3, UnitShown DEF ShowsUnit, All
<1>5. r[1] = k
  BY <1>2
<1> QED BY <1>4, <1>5

\* Every cursor of a unit is of a file that the unit shows at the top.
LEMMA ShownAtTop ==
    ASSUME in \in Inputs, NEW u \in Files, NEW r \in All(u)
    PROVE  \E c \in ToSet(in.shown[u]) : r[1].path = c.path /\ r[1].system = c.system
<1> DEFINE t == Top(in.shown[u])
           i == Inside(t)
<1>1. All(u) = (t \cup i) \cup Inside(i) /\ t \subseteq All(u) /\ i \subseteq All(u)
  BY DEF All, Nested
<1>2. \A q \in t : \E c \in ToSet(in.shown[u]) : q[1].path = c.path /\ q[1].system = c.system
  BY DEF Top
<1> HIDE DEF t
<1>3. \A q \in i : \E c \in ToSet(in.shown[u]) : q[1].path = c.path /\ q[1].system = c.system
  <2> SUFFICES ASSUME NEW q \in Inside(t)
               PROVE  \E c \in ToSet(in.shown[u]) : q[1].path = c.path /\ q[1].system = c.system
    OBVIOUS
  <2>1. PICK p \in t : q[1].path = p[1].path /\ q[1].system = p[1].system
    BY <1>1, InsideIsThere
  <2> QED BY <1>2, <2>1
<1> HIDE DEF i
<1>4. ASSUME r \in Inside(i)
      PROVE  \E c \in ToSet(in.shown[u]) : r[1].path = c.path /\ r[1].system = c.system
  <2>1. PICK p \in i : r[1].path = p[1].path /\ r[1].system = p[1].system
    BY <1>1, <1>4, InsideIsThere
  <2> QED BY <1>3, <2>1
<1> QED BY <1>1, <1>2, <1>3, <1>4

\* What a cursor declares is of its file; a class is what its record says.
LEMMA DeclaredShaped ==
    ASSUME in \in Inputs, NEW u \in Files, NEW q \in All(u)
    PROVE  /\ IsSequence(Declared(q[1], q[2]))
           /\ \A e \in ToSet(Declared(q[1], q[2])) :
                  /\ Collectable(e) /\ e.header = Canonical[q[1].path]
                  /\ e.kind = "record" => IsClass(q[1]) /\ e = Record(q[1], q[2])
<1> DEFINE c == q[1]
           n == q[2]
           record == Record(c, n)
           unnamed == {k \in ToSet(c.kids) : k.kind = "enum" /\ k.name = ""}
           Fine(e) == /\ Collectable(e) /\ e.header = Canonical[c.path]
                      /\ e.kind = "record" => IsClass(c) /\ e = Record(c, n)
<1>1. \A k \in UNION {{k} \cup ToSet(k.kids) : k \in ToSet(c.kids)} : k.path = c.path
  BY UnitShown DEF ShowsUnit, All
<1>2. IsClass(c) => Fine(record)
  BY <1>1, RecordShaped
<1>3. Fine(Operator(c, n))
  BY OperatorShaped
<1>4. ASSUME NEW kind \in {"function", "enum", "callback", "macro"}, NEW d, NEW m, d.path = c.path
      PROVE  Fine(Entity(kind, d, m))
  BY <1>4 DEF Entity, Collectable, Shaped
<1>5. ASSUME unnamed # {}
      PROVE  Fine([Entity("enum", CHOOSE k \in unnamed : TRUE, n) EXCEPT !.name = c.name])
  <2> DEFINE k == CHOOSE k \in unnamed : TRUE
             m == [kind |-> "enum", header |-> Canonical[k.path], namespace |-> n, name |-> c.name,
                   sig |-> k.sig, defined |-> FALSE, operators |-> {}]
  <2>1. k \in unnamed
    BY <1>5
  <2> HIDE DEF k
  <2>2. k.path = c.path
    <3>1. k \in ToSet(c.kids)
      BY <2>1
    <3> QED BY <3>1, <1>1
  <2>3. [Entity("enum", k, n) EXCEPT !.name = c.name] = m
    <3> DEFINE no == FALSE
               e == [kind |-> "enum", header |-> Canonical[k.path], namespace |-> n, name |-> k.name,
                     sig |-> k.sig, defined |-> no, operators |-> {}]
    <3>1. Entity("enum", k, n) = e
      BY DEF Entity
    <3> HIDE DEF no
    <3>2. [Entity("enum", k, n) EXCEPT !.name = c.name] =
              [kind |-> "enum", header |-> Canonical[k.path], namespace |-> n, name |-> c.name,
               sig |-> k.sig, defined |-> no, operators |-> {}]
      BY <3>1
    <3> QED BY <3>2 DEF no
  <2>4. Fine(m)
    BY <2>2 DEF Collectable, Shaped
  <2> QED BY <2>3, <2>4 DEF k
<1> HIDE DEF Fine, unnamed, record
<1>6. Declared(c, n) = <<>> \/ \E e : Declared(c, n) = <<e>> /\ Fine(e)
  <2> DEFINE d == Declared(c, n)
  <2>1. CASE IsClass(c)
    <3>1. d \in {<<>>, <<record>>}
      BY <2>1 DEF Declared, IsClass, record
    <3> QED BY <3>1, <2>1, <1>2
  <2>2. CASE ~IsClass(c) /\ c.kind = "operator"
    <3>1. d = <<Operator(c, n)>>
      BY <2>2 DEF Declared, IsClass
    <3> QED BY <3>1, <1>3
  <2>3. CASE ~IsClass(c) /\ c.kind \in {"function", "enum"}
    <3>1. d = <<Entity(c.kind, c, n)>>
      BY <2>3 DEF Declared, IsClass
    <3> QED BY <3>1, <1>4, <2>3
  <2>4. CASE ~IsClass(c) /\ c.kind = "typedef" /\ "callback" \in c.sig
    <3>1. d = <<Entity("callback", c, n)>>
      BY <2>4 DEF Declared, IsClass
    <3> QED BY <3>1, <1>4
  <2>5. CASE ~IsClass(c) /\ c.kind = "typedef" /\ "callback" \notin c.sig /\ unnamed # {}
    <3>1. d = <<[Entity("enum", CHOOSE k \in unnamed : TRUE, n) EXCEPT !.name = c.name]>>
      BY <2>5 DEF Declared, IsClass, unnamed
    <3> QED BY <3>1, <1>5, <2>5
  <2>6. CASE ~IsClass(c) /\ c.kind = "macro" /\ c.defined
    <3>1. d = <<Entity("macro", c, <<>>)>>
      BY <2>6 DEF Declared, IsClass
    <3> QED BY <3>1, <1>4
  <2>7. CASE /\ ~IsClass(c) /\ c.kind \notin {"operator", "function", "enum"}
             /\ ~(c.kind = "typedef" /\ ("callback" \in c.sig \/ unnamed # {}))
             /\ ~(c.kind = "macro" /\ c.defined)
    <3>1. d = <<>>
      BY <2>7 DEF Declared, IsClass, unnamed
    <3> QED BY <3>1
  <2> QED BY <2>1, <2>2, <2>3, <2>4, <2>5, <2>6, <2>7
<1>7. CASE Declared(c, n) = <<>>
  BY <1>7 DEF IsSequence, ToSet
<1>8. CASE \E e : Declared(c, n) = <<e>> /\ Fine(e)
  <2>1. PICK e : Declared(c, n) = <<e>> /\ Fine(e)
    BY <1>8
  <2>2. ToSet(<<e>>) = {e} /\ <<e>> \in Seq({e})
    BY DEF ToSet
  <2> QED BY <2>1, <2>2 DEF IsSequence, Fine
<1> QED BY <1>6, <1>7, <1>8

(***************************************************************************)
(* The declarations a run has collected                                    *)
(***************************************************************************)

\* Paths of the project that the walk over some units comes by.
SeenIn(U) == {q[1].path : q \in {q \in UNION {All(u) : u \in U} : ShouldCollect(q[1])}}

\* Cursors in line to be visited, with their namespaces.
PendingIn(s) == {<<t.cursor, t.namespace>> : t \in ToSet(s)}
Pending == PendingIn(todo)
Current == read \cup {Head(queue)}

\* What is collected, and what is to be visited still, is what the units read
\* declare; once it is merged, it is that in another form.
Collecting ==
    /\ phase \in Before => api = <<>> /\ discovered = {} /\ pass = 1 /\ queue = <<>>
    /\ phase \in {"units", "visiting", "disposing"} => IsSequence(api)
    /\ phase = "units" => ToSet(api) = CollectedFrom(read) /\ discovered \subseteq SeenIn(read)
    /\ phase = "visiting" =>
          /\ IsSequence(todo) /\ Pending \subseteq All(Head(queue))
          /\ ToSet(api) \cup DeclarationsOf(Nested(Pending)) = CollectedFrom(Current)
          /\ discovered \subseteq SeenIn(Current)
    /\ phase = "disposing" /\ ~failing =>
          ToSet(api) = CollectedFrom(read) /\ discovered \subseteq SeenIn(read)
    /\ phase \in {"closing", "parsed", "handed"} /\ ~failing =>
          Deduped(api, CollectedFrom(read)) /\ discovered \subseteq SeenIn(read) /\ pass = 2
    /\ \A i \in DOMAIN api : Collectable(api[i])
    /\ discovered \subseteq Paths

\* In the second pass, every header of the directories was seen, is read, or
\* stands in line.
Supplemented ==
    pass = 2 /\ config.dirs # <<>> /\ ~failing =>
        \A h \in Listed("header") : \/ h \in read \cup ToSet(queue)
                                    \/ \E seen \in discovered : Canonical[seen] = h

\* Units stand in line once, and are there.
InLine ==
    /\ NoRepetition(queue)
    /\ phase \notin {"given", "resolved", "failed"} => NoRepetition(config.headers)
    /\ read \cup live \subseteq Files
    /\ config.dirs # <<>> => read \cup ToSet(queue) \subseteq in.present
    /\ pass \in {1, 2}

\* In the end each header has been handed its own.
HandedOut ==
    phase = "handed" =>
        parts = [h \in GenerationHeaders |->
                    Restrict(api, {i \in DOMAIN api : Canonical[api[i].header] = h})]

CInv == Collecting /\ InLine /\ Supplemented /\ HandedOut

\* What can be collected depends on the configuration and the files alone.
LEMMA CollectionsStay ==
    ASSUME in' = in, config' = config
    PROVE  /\ \A U : CollectedFrom(U)' = CollectedFrom(U)
           /\ \A U : SeenIn(U)' = SeenIn(U)
           /\ \A S : DeclarationsOf(S)' = DeclarationsOf(S)
           /\ \A u : All(u)' = All(u)
           /\ \A extension : Listed(extension)' = Listed(extension)
           /\ GenerationHeaders' = GenerationHeaders
<1>1. \A c : ShouldCollect(c)' = ShouldCollect(c)
  BY DEF ShouldCollect
<1>2. \A u : All(u)' = All(u)
  BY DEF All
<1>3. \A c, n : Declared(c, n)' = Declared(c, n)
  BY DEF Declared, Record, ShouldCollect
<1>4. \A S : DeclarationsOf(S)' = DeclarationsOf(S)
  BY DEF DeclarationsOf, Wanted, Declared, Record, ShouldCollect
<1>5. \A U : CollectedFrom(U)' = CollectedFrom(U)
  BY DEF CollectedFrom, DeclarationsOf, Wanted, Declared, Record, ShouldCollect, All
<1>6. \A U : SeenIn(U)' = SeenIn(U)
  BY DEF SeenIn, All, ShouldCollect
<1>7. \A extension : Listed(extension)' = Listed(extension)
  BY DEF Listed
<1> QED BY <1>2, <1>4, <1>5, <1>6, <1>7 DEF GenerationHeaders

\* One more unit adds what it declares.
LEMMA OneMoreUnit ==
    ASSUME NEW U, NEW u
    PROVE  /\ CollectedFrom(U \cup {u}) = CollectedFrom(U) \cup DeclarationsOf(All(u))
           /\ SeenIn(U) \subseteq SeenIn(U \cup {u})
           /\ \A q \in All(u) : ShouldCollect(q[1]) => q[1].path \in SeenIn(U \cup {u})
<1>1. CollectedFrom(U \cup {u}) = CollectedFrom(U) \cup DeclarationsOf(All(u))
  BY DEF CollectedFrom
<1>2. UNION {All(v) : v \in U} \subseteq UNION {All(v) : v \in U \cup {u}}
      /\ All(u) \subseteq UNION {All(v) : v \in U \cup {u}}
  OBVIOUS
<1> QED BY <1>1, <1>2 DEF SeenIn

\* No unit adds nothing.
LEMMA NothingCollected == CollectedFrom({}) = {} /\ SeenIn({}) = {} /\ DeclarationsOf(Nested({})) = {}
<1>1. DeclarationsOf({}) = {}
  BY DEF DeclarationsOf
<1> QED BY <1>1, NestedJoins DEF CollectedFrom, SeenIn

\* What is collected a wanted cursor of a unit declares.
LEMMA CollectedIsShaped ==
    ASSUME in \in Inputs, NEW U, U \subseteq Files, NEW e \in CollectedFrom(U)
    PROVE  \E u \in U : \E q \in All(u) :
              /\ Wanted(q) /\ e \in ToSet(Declared(q[1], q[2]))
              /\ Collectable(e) /\ e.header = Canonical[q[1].path]
              /\ e.kind = "record" => IsClass(q[1]) /\ e = Record(q[1], q[2])
<1>1. PICK u \in U : e \in DeclarationsOf(All(u))
  BY DEF CollectedFrom
<1>2. PICK q \in All(u) : Wanted(q) /\ e \in ToSet(Declared(q[1], q[2]))
  BY <1>1 DEF DeclarationsOf
<1> QED BY <1>1, <1>2, DeclaredShaped

\* The places that a walk comes by are files' paths.
LEMMA SeenArePaths == ASSUME in \in Inputs, NEW U, U \subseteq Files PROVE SeenIn(U) \subseteq Paths
<1> SUFFICES ASSUME NEW p \in SeenIn(U) PROVE p \in Paths
  OBVIOUS
<1>1. PICK u \in U : \E q \in All(u) : p = q[1].path
  BY DEF SeenIn
<1>2. PICK q \in All(u) : p = q[1].path
  BY <1>1
<1>3. PICK c \in ToSet(in.shown[u]) : q[1].path = c.path
  BY ShownAtTop
<1> QED BY <1>2, <1>3, UnitShown DEF ShowsUnit

(***************************************************************************)
(* Steps of the walk                                                       *)
(***************************************************************************)

\* Cursors get in line with the namespace they are in.
LEMMA InLineToVisit ==
    ASSUME NEW s, IsSequence(s), NEW n, NEW t,
           t = [i \in DOMAIN s |-> [cursor |-> s[i], namespace |-> n]]
    PROVE  IsSequence(t) /\ PendingIn(t) = {<<c, n>> : c \in ToSet(s)}
<1>1. /\ Len(s) \in Nat /\ DOMAIN s = 1..Len(s) /\ DOMAIN t = DOMAIN s
      /\ \A i \in DOMAIN s : t[i] = [cursor |-> s[i], namespace |-> n]
  BY DEF IsSequence
<1>2. ToSet(t) = {[cursor |-> c, namespace |-> n] : c \in ToSet(s)}
  BY <1>1 DEF ToSet
<1>3. IsSequence(t)
  BY <1>1 DEF IsSequence, ToSet
<1>4. \A c : [cursor |-> c, namespace |-> n].cursor = c /\ [cursor |-> c, namespace |-> n].namespace = n
  OBVIOUS
<1>5. PendingIn(t) = {<<c, n>> : c \in ToSet(s)}
  <2>1. PendingIn(t) = {<<x.cursor, x.namespace>> : x \in {[cursor |-> c, namespace |-> n] : c \in ToSet(s)}}
    BY <1>2 DEF PendingIn
  <2> QED BY <2>1, <1>4
<1> QED BY <1>3, <1>5

\* What is to be visited is the head and the rest of the line.
LEMMA PendingJoins ==
    /\ \A s, t : IsSequence(s) /\ IsSequence(t) => PendingIn(s \o t) = PendingIn(s) \cup PendingIn(t)
    /\ \A s : IsSequence(s) /\ s # <<>> =>
          PendingIn(s) = {<<Head(s).cursor, Head(s).namespace>>} \cup PendingIn(Tail(s))
<1>1. ASSUME NEW s, NEW t, IsSequence(s), IsSequence(t)
      PROVE  PendingIn(s \o t) = PendingIn(s) \cup PendingIn(t)
  BY <1>1, SequenceJoined DEF PendingIn
<1>2. ASSUME NEW s, IsSequence(s), s # <<>>
      PROVE  PendingIn(s) = {<<Head(s).cursor, Head(s).namespace>>} \cup PendingIn(Tail(s))
  BY <1>2, RestIsSequence DEF PendingIn
<1> QED BY <1>1, <1>2

\* Where a cursor is not wanted, nothing that is in it is.
LEMMA NothingInSkipped ==
    ASSUME in \in Inputs, NEW u \in Files, NEW p \in All(u), ~ShouldCollect(p[1])
    PROVE  DeclarationsOf(Nested({p})) = {}
<1> DEFINE Same(S) == \A r \in S : r[1].path = p[1].path /\ r[1].system = p[1].system
<1>1. {p} \subseteq All(u) /\ Inside({p}) \subseteq All(u)
  BY AllIsClosed
<1>2. Same({p})
  OBVIOUS
<1>3. Same(Inside({p}))
  BY <1>1, <1>2, InsideIsThere
<1>4. Same(Inside(Inside({p})))
  BY <1>1, <1>3, InsideIsThere
<1>5. Same(Nested({p}))
  BY <1>2, <1>3, <1>4 DEF Nested
<1>6. \A r \in Nested({p}) : ~ShouldCollect(r[1])
  BY <1>5 DEF ShouldCollect
<1> QED BY <1>6 DEF DeclarationsOf, Wanted

\* What is inside of one cursor are its own.
LEMMA InsideSingle == \A p, r : r \in Inside({p}) <=> Entered(p) /\ r \in Kids(p)
<1> SUFFICES ASSUME NEW p, NEW r PROVE r \in Inside({p}) <=> Entered(p) /\ r \in Kids(p)
  OBVIOUS
<1>1. r \in Inside({p}) <=> \E q \in {p} : Entered(q) /\ r \in Kids(q)
  BY InsideOne
<1> QED BY <1>1

\* Of a namespace is collected what is in it, unless it has no name.
LEMMA NamespaceEntered ==
    ASSUME in \in Inputs, NEW u \in Files, NEW p \in All(u), p[1].kind = "namespace"
    PROVE  /\ DeclarationsOf(Nested({p})) = DeclarationsOf(Nested(Inside({p})))
           /\ Inside({p}) \subseteq All(u)
           /\ Inside({p}) = IF p[1].name = "" THEN {} ELSE Kids(p)
<1>1. Inside({p}) \subseteq All(u) /\ Inside(Inside(Inside({p}))) = {}
  BY AllIsClosed
<1>2. Nested({p}) = {p} \cup Nested(Inside({p}))
  BY <1>1 DEF Nested
<1>3. DeclarationsOf({p}) = {}
  BY DEF DeclarationsOf, Wanted
<1>4. Inside({p}) = IF p[1].name = "" THEN {} ELSE Kids(p)
  <2>1. \A r : r \in Inside({p}) <=> p[1].name # "" /\ r \in Kids(p)
    BY InsideSingle DEF Entered
  <2> QED BY <2>1
<1>5. DeclarationsOf(Nested({p})) = DeclarationsOf({p}) \cup DeclarationsOf(Nested(Inside({p})))
  BY <1>2, DeclarationsJoin
<1>6. DeclarationsOf(Nested({p})) = DeclarationsOf(Nested(Inside({p})))
  BY <1>3, <1>5
<1> QED BY <1>1, <1>4, <1>6

\* Of any other cursor that is wanted is collected what it declares.
LEMMA DeclarationTaken ==
    ASSUME NEW p, ShouldCollect(p[1]), p[1].kind # "namespace"
    PROVE  DeclarationsOf(Nested({p})) = ToSet(Declared(p[1], p[2]))
<1>1. Inside({p}) = {}
  <2>1. \A r : r \notin Inside({p})
    BY InsideSingle DEF Entered
  <2> QED BY <2>1
<1>2. Nested({p}) = {p}
  BY <1>1, InsideJoins DEF Nested
<1> QED BY <1>2 DEF DeclarationsOf, Wanted

(***************************************************************************)
(* Collecting, step by step                                                *)
(***************************************************************************)

\* In the first state nothing is collected.
LEMMA CollectingStarts == Init => Collecting
<1> SUFFICES ASSUME Init PROVE Collecting
  OBVIOUS
<1> QED BY DEF Init, Collecting, Before

\* Where units are found: nothing is collected yet.
LEMMA CollectingBefore ==
    ASSUME IInv, Collecting, ResolveConfig \/ Validate \/ OpenIndex
    PROVE  Collecting'
<1>1. /\ api = <<>> /\ discovered = {} /\ pass = 1 /\ read = {} /\ queue = <<>>
      /\ ~failing
  BY DEF Collecting, IInv, Accounted, Before, ResolveConfig, Validate, OpenIndex
<1>2. UNCHANGED <<api, discovered, pass, read, failing>>
  BY DEF ResolveConfig, Validate, OpenIndex, parseVars
<1>3. ToSet(api) = {} /\ IsSequence(api)
  BY <1>1 DEF ToSet, IsSequence
<1>4. CollectedFrom({})' = {} /\ SeenIn({})' = {}
  BY DEF CollectedFrom, SeenIn
<1>5. CASE ResolveConfig \/ Validate
  <2>1. phase' \in Before \cup {"failed"} /\ queue' = queue
    BY <1>5 DEF ResolveConfig, Validate, Before, parseVars
  <2> QED BY <1>1, <1>2, <2>1 DEF Collecting, Before
<1>6. CASE OpenIndex
  <2>1. phase' \in {"units", "failed"}
    BY <1>6 DEF OpenIndex
  <2>2. ToSet(api)' = CollectedFrom(read)'
    BY <1>1, <1>2, <1>3, <1>4
  <2>3. IsSequence(api)'
    BY <1>2, <1>3
  <2> QED BY <1>1, <1>2, <2>1, <2>2, <2>3 DEF Collecting, Before
<1> QED BY <1>5, <1>6

\* All cursors at the top of a unit get in line.
LEMMA CollectingAtParse == ASSUME IInv, Collecting, ParseUnit PROVE Collecting'
<1> DEFINE u == Head(queue)
<1>1. /\ phase = "units" /\ queue # <<>> /\ ~failing /\ in \in Inputs /\ u \in Files
      /\ UNCHANGED <<in, config, queue, read, discovered, api, pass>>
  BY HeadAndTail DEF ParseUnit, IInv, Typed, Accounted, Before
<1>2. IsSequence(api) /\ ToSet(api) = CollectedFrom(read) /\ discovered \subseteq SeenIn(read)
  BY <1>1 DEF Collecting
<1>3. CASE failing' /\ phase' = "closing"
  BY <1>1, <1>3 DEF Collecting, Before
<1>4. CASE /\ phase' = "visiting"
           /\ todo' = [i \in DOMAIN in.shown[u] |-> [cursor |-> in.shown[u][i], namespace |-> <<>>]]
  <2>1. IsSequence(in.shown[u])
    BY <1>1, UnitShown DEF ShowsUnit, IsSequence
  <2>2. IsSequence(todo') /\ PendingIn(todo') = Top(in.shown[u])
    BY <1>4, <2>1, InLineToVisit DEF Top
  <2>3. Nested(PendingIn(todo')) = All(u) /\ PendingIn(todo') \subseteq All(u)
    BY <2>2 DEF All, Nested
  <2>4. Current' = read \cup {u}
    BY <1>1 DEF Current
  <2>5. ToSet(api) \cup DeclarationsOf(Nested(PendingIn(todo'))) = CollectedFrom(read \cup {u})
    <3>1. CollectedFrom(read \cup {u}) = CollectedFrom(read) \cup DeclarationsOf(All(u))
      BY OneMoreUnit
    <3> QED BY <1>2, <2>3, <3>1
  <2>6. discovered \subseteq SeenIn(read \cup {u})
    BY <1>2, OneMoreUnit
  <2>7. /\ IsSequence(todo)' /\ Pending' \subseteq All(Head(queue))'
        /\ ToSet(api)' \cup DeclarationsOf(Nested(Pending))' = CollectedFrom(Current)'
        /\ discovered' \subseteq SeenIn(Current)'
    BY <1>1, <2>2, <2>3, <2>4, <2>5, <2>6, CollectionsStay DEF Pending
  <2>8. IsSequence(api)'
    BY <1>1, <1>2
  <2> QED BY <1>1, <1>4, <2>7, <2>8 DEF Collecting, Before
<1> QED BY <1>3, <1>4 DEF ParseUnit

\* A step of the walk: a cursor's declarations are collected, and what is in it
\* gets in line, together all that is wanted of it.
LEMMA CollectingInWalk ==
    ASSUME IInv, Collecting, phase = "visiting", todo # <<>>,
           UNCHANGED <<in, phase, config, queue, read, pass>>,
           NEW d, NEW t, NEW p,
           p = <<Head(todo).cursor, Head(todo).namespace>>,
           IsSequence(d), \A e \in ToSet(d) : Collectable(e), api' = api \o d,
           IsSequence(t), todo' = t \o Tail(todo), PendingIn(t) \subseteq All(Head(queue)),
           ToSet(d) \cup DeclarationsOf(Nested(PendingIn(t))) = DeclarationsOf(Nested({p})),
           discovered' = discovered \/ discovered' = discovered \cup {p[1].path},
           discovered' = discovered \/ ShouldCollect(p[1])
    PROVE  Collecting'
<1> DEFINE u == Head(queue)
           rest == PendingIn(Tail(todo))
<1>1. /\ u \in Files /\ in \in Inputs
  BY HeadAndTail DEF IInv, Typed, Opened, UnitIsOpen
<1>2. /\ IsSequence(api) /\ IsSequence(todo) /\ Pending \subseteq All(u)
      /\ ToSet(api) \cup DeclarationsOf(Nested(Pending)) = CollectedFrom(Current)
      /\ discovered \subseteq SeenIn(Current) /\ \A i \in DOMAIN api : Collectable(api[i])
      /\ discovered \subseteq Paths
  BY DEF Collecting
<1>3. Pending = {p} \cup rest /\ IsSequence(Tail(todo))
  BY <1>2, PendingJoins, RestIsSequence DEF Pending
<1>4. /\ IsSequence(todo') /\ PendingIn(todo') = PendingIn(t) \cup rest
  BY <1>3, PendingJoins, SequenceJoined
<1>5. IsSequence(api') /\ ToSet(api') = ToSet(api) \cup ToSet(d)
  BY <1>2, SequenceJoined
<1>6. ToSet(api') \cup DeclarationsOf(Nested(PendingIn(todo'))) = CollectedFrom(Current)
  <2>1. DeclarationsOf(Nested(Pending)) = DeclarationsOf(Nested({p})) \cup DeclarationsOf(Nested(rest))
    <3>1. Nested(Pending) = Nested({p}) \cup Nested(rest)
      BY <1>3, NestedJoins
    <3> QED BY <3>1, DeclarationsJoin
  <2>2. DeclarationsOf(Nested(PendingIn(todo'))) =
            DeclarationsOf(Nested(PendingIn(t))) \cup DeclarationsOf(Nested(rest))
    <3>1. Nested(PendingIn(todo')) = Nested(PendingIn(t)) \cup Nested(rest)
      BY <1>4, NestedJoins
    <3> QED BY <3>1, DeclarationsJoin
  <2> QED BY <1>2, <1>5, <2>1, <2>2
<1>7. PendingIn(todo') \subseteq All(u)
  BY <1>2, <1>3, <1>4
<1>8. p \in All(u)
  BY <1>2, <1>3
<1>9. discovered' \subseteq SeenIn(Current)
  <2>1. ShouldCollect(p[1]) => p[1].path \in SeenIn(read \cup {u})
    BY <1>8, OneMoreUnit
  <2> QED BY <1>2, <2>1 DEF Current
<1>10. discovered' \subseteq Paths
  <2>1. CASE discovered' = discovered
    BY <2>1, <1>2
  <2>2. CASE discovered' = discovered \cup {p[1].path}
    <3>1. PICK c \in ToSet(in.shown[u]) : p[1].path = c.path
      BY <1>1, <1>8, ShownAtTop
    <3>2. p[1].path \in Paths
      BY <1>1, <3>1, UnitShown DEF ShowsUnit
    <3> QED BY <1>2, <2>2, <3>2
  <2> QED BY <2>1, <2>2
<1>11. \A i \in DOMAIN api' : Collectable(api'[i])
  <2>1. \A e \in ToSet(api') : Collectable(e)
    BY <1>2, <1>5 DEF ToSet
  <2> QED BY <2>1 DEF ToSet
<1>12. Current' = Current
  BY DEF Current
<1>13. /\ IsSequence(todo)' /\ Pending' \subseteq All(Head(queue))'
       /\ ToSet(api)' \cup DeclarationsOf(Nested(Pending))' = CollectedFrom(Current)'
       /\ discovered' \subseteq SeenIn(Current)'
  BY <1>4, <1>6, <1>7, <1>9, <1>12, CollectionsStay DEF Pending
<1> QED BY <1>5, <1>10, <1>11, <1>13 DEF Collecting, Before

\* Each of the three ways to visit a cursor is such a step.
LEMMA CollectingAtCursor ==
    ASSUME IInv, Collecting, SkipCursor \/ EnterNamespace \/ CollectDeclaration
    PROVE  Collecting'
<1> DEFINE u == Head(queue)
           p == <<Head(todo).cursor, Head(todo).namespace>>
<1>1. /\ phase = "visiting" /\ todo # <<>> /\ u \in Files /\ in \in Inputs
      /\ UNCHANGED <<in, phase, config, queue, read, pass>>
  BY HeadAndTail DEF IInv, Typed, Opened, UnitIsOpen, SkipCursor, EnterNamespace,
                     CollectDeclaration, visitUnchanged, Visiting
<1>2. /\ IsSequence(api) /\ IsSequence(todo) /\ p \in All(u)
  <2>1. IsSequence(api) /\ IsSequence(todo) /\ Pending \subseteq All(u)
    BY <1>1 DEF Collecting
  <2> QED BY <1>1, <2>1, PendingJoins DEF Pending
<1>3. Cursor = p[1] /\ Head(todo).namespace = p[2]
  BY DEF Cursor
<1> DEFINE none == <<>>
<1>4. /\ IsSequence(none) /\ ToSet(none) = {} /\ PendingIn(none) = {}
      /\ DeclarationsOf(Nested({})) = {}
  BY NothingCollected DEF IsSequence, ToSet, PendingIn
<1>5. api \o none = api /\ none \o Tail(todo) = Tail(todo) /\ IsSequence(Tail(todo))
  BY <1>1, <1>2, RestIsSequence DEF IsSequence
<1> HIDE DEF p, u, none
<1>6. CASE SkipCursor
  <2>1. /\ ~ShouldCollect(p[1]) /\ todo' = none \o Tail(todo) /\ api' = api \o none
        /\ discovered' = discovered
    BY <1>3, <1>5, <1>6 DEF SkipCursor
  <2>2. ToSet(none) \cup DeclarationsOf(Nested(PendingIn(none))) = DeclarationsOf(Nested({p}))
    BY <1>1, <1>2, <1>4, <2>1, NothingInSkipped
  <2>3. (\A e \in ToSet(none) : Collectable(e)) /\ PendingIn(none) \subseteq All(Head(queue))
    BY <1>4
  <2> QED BY <1>1, <1>4, <2>1, <2>2, <2>3, CollectingInWalk DEF p
<1>7. CASE EnterNamespace
  <2> DEFINE inner == Append(p[2], p[1].name)
             kids == IF p[1].name = "" THEN none ELSE p[1].kids
             t == [i \in DOMAIN kids |-> [cursor |-> kids[i], namespace |-> inner]]
  <2>1. /\ ShouldCollect(p[1]) /\ p[1].kind = "namespace" /\ todo' = t \o Tail(todo)
        /\ api' = api \o none /\ discovered' = discovered \cup {p[1].path}
    BY <1>3, <1>5, <1>7 DEF EnterNamespace, none
  <2>2. IsSequence(kids)
    <3>1. IsSequence(p[1].kids)
      BY <1>1, <1>2, UnitShown DEF ShowsUnit, All, IsSequence
    <3> QED BY <1>4, <3>1
  <2> HIDE DEF kids
  <2>3. IsSequence(t) /\ PendingIn(t) = {<<c, inner>> : c \in ToSet(kids)}
    BY <2>2, InLineToVisit
  <2> HIDE DEF t
  <2>4. PendingIn(t) = Inside({p})
    <3>1. CASE p[1].name = ""
      BY <1>1, <1>2, <1>4, <2>1, <2>3, <3>1, NamespaceEntered DEF kids
    <3>2. CASE p[1].name # ""
      <4>1. PendingIn(t) = Kids(p)
        BY <2>3, <3>2 DEF kids, Kids
      <4> QED BY <1>1, <1>2, <2>1, <3>2, <4>1, NamespaceEntered
    <3> QED BY <3>1, <3>2
  <2>5. /\ PendingIn(t) \subseteq All(u)
        /\ ToSet(none) \cup DeclarationsOf(Nested(PendingIn(t))) = DeclarationsOf(Nested({p}))
    BY <1>1, <1>2, <1>4, <2>1, <2>4, NamespaceEntered
  <2> QED BY <1>1, <1>4, <2>1, <2>3, <2>5, CollectingInWalk DEF p, u
<1>8. CASE CollectDeclaration
  <2> DEFINE d == Declared(p[1], p[2])
  <2>1. /\ ShouldCollect(p[1]) /\ p[1].kind # "namespace" /\ todo' = none \o Tail(todo)
        /\ api' = api \o d
    BY <1>3, <1>5, <1>8 DEF CollectDeclaration
  <2>2. discovered' = discovered \cup {p[1].path}
    <3>1. \A k \in ToSet(p[1].kids) : IsClass(p[1]) => k.path = p[1].path
      BY <1>1, <1>2, UnitShown DEF ShowsUnit, All
    <3> QED BY <1>3, <1>8, <3>1 DEF CollectDeclaration
  <2>3. IsSequence(d) /\ \A e \in ToSet(d) : Collectable(e)
    BY <1>1, <1>2, DeclaredShaped
  <2>4. ToSet(d) \cup DeclarationsOf(Nested(PendingIn(none))) = DeclarationsOf(Nested({p}))
    BY <1>4, <2>1, DeclarationTaken
  <2> HIDE DEF d
  <2> QED BY <1>1, <1>4, <2>1, <2>2, <2>3, <2>4, CollectingInWalk DEF p
<1> QED BY <1>6, <1>7, <1>8

\* When the line is empty, all of the unit is collected; only then is it read.
LEMMA CollectingAtDiagnostics == ASSUME IInv, Collecting, ReadDiagnostics PROVE Collecting'
<1>1. /\ phase = "visiting" /\ todo = <<>> /\ phase' = "disposing"
      /\ UNCHANGED <<in, config, queue, api, discovered, pass>>
      /\ ~failing' => read' = read \cup {Head(queue)}
  BY DEF ReadDiagnostics
<1>2. /\ IsSequence(api) /\ discovered \subseteq SeenIn(Current)
      /\ ToSet(api) \cup DeclarationsOf(Nested(Pending)) = CollectedFrom(Current)
  BY <1>1 DEF Collecting
<1>3. Pending = {}
  BY <1>1 DEF Pending, PendingIn, ToSet
<1>4. ToSet(api) = CollectedFrom(Current)
  BY <1>2, <1>3, NothingCollected
<1>5. ~failing' => ToSet(api)' = CollectedFrom(read)' /\ discovered' \subseteq SeenIn(read)'
  BY <1>1, <1>2, <1>4, CollectionsStay DEF Current
<1> QED BY <1>1, <1>2, <1>5 DEF Collecting, Before

\* Once all units are read, what they declare is merged.
LEMMA CollectingAtEnds ==
    ASSUME IInv, Collecting,
           DisposeUnit \/ StartSupplement \/ FinishParse \/ CloseIndex \/ HandOut \/ UNCHANGED vars
    PROVE  Collecting'
<1>1. CASE DisposeUnit
  <2>1. /\ phase = "disposing" /\ phase' = IF failing THEN "closing" ELSE "units"
        /\ UNCHANGED <<in, failing, config, pass, read, discovered, api>>
    BY <1>1 DEF DisposeUnit
  <2> QED BY <2>1, CollectionsStay DEF Collecting, Before
<1>2. CASE StartSupplement
  <2>1. /\ phase = "units" /\ pass' = 2
        /\ UNCHANGED <<in, phase, failing, config, read, discovered, api>>
    BY <1>2 DEF StartSupplement
  <2> QED BY <2>1, CollectionsStay DEF Collecting, Before
<1>3. CASE FinishParse
  <2>1. /\ phase = "units" /\ pass = 2 /\ phase' = "closing" /\ api' = Dedupe(api)
        /\ UNCHANGED <<in, failing, config, pass, read, discovered>>
    BY <1>3 DEF FinishParse
  <2>2. /\ IsSequence(api) /\ ToSet(api) = CollectedFrom(read) /\ discovered \subseteq SeenIn(read)
        /\ \A e \in ToSet(api) : Collectable(e)
    BY <2>1 DEF Collecting, ToSet
  <2>3. Deduped(api', CollectedFrom(read))
    BY <2>1, <2>2, DedupeMerges DEF IsSequence
  <2>4. \A i \in DOMAIN api' : Collectable(api'[i])
    <3> SUFFICES ASSUME NEW i \in DOMAIN api' PROVE Collectable(api'[i])
      OBVIOUS
    <3> DEFINE alike(e) == {a \in CollectedFrom(read) : Key(a) = Key(e)}
    <3>1. PICK e \in CollectedFrom(read) : api'[i] = Merged(e, alike(e))
      BY <2>3 DEF Deduped
    <3>2. e \in alike(e) /\ \A a \in alike(e) : Collectable(a) /\ Key(a) = Key(e)
      BY <2>2
    <3> HIDE DEF alike
    <3> QED BY <3>1, <3>2, MergedIsAlike
  <2>5. Deduped(api, CollectedFrom(read))' /\ discovered' \subseteq SeenIn(read)'
    BY <2>1, <2>2, <2>3, CollectionsStay
  <2> QED BY <2>1, <2>4, <2>5 DEF Collecting, Before
<1>4. CASE CloseIndex
  <2>1. /\ phase = "closing" /\ phase' = IF failing THEN "failed" ELSE "parsed"
        /\ UNCHANGED <<in, failing, config, pass, read, discovered, api>>
    BY <1>4 DEF CloseIndex
  <2> QED BY <2>1, CollectionsStay DEF Collecting, Before
<1>5. CASE HandOut
  <2>1. /\ phase = "parsed" /\ phase' = "handed"
        /\ UNCHANGED <<in, failing, config, pass, read, discovered, api>>
    BY <1>5 DEF HandOut
  <2> QED BY <2>1, CollectionsStay DEF Collecting, Before
<1>6. CASE UNCHANGED vars
  <2>1. UNCHANGED <<in, phase, failing, config, pass, queue, todo, read, discovered, api>>
    BY <1>6 DEF vars
  <2>2. Pending' = Pending /\ Current' = Current
    BY <2>1 DEF Pending, Current
  <2> QED BY <2>1, <2>2, CollectionsStay DEF Collecting, Before
<1> QED BY <1>1, <1>2, <1>3, <1>4, <1>5, <1>6

(***************************************************************************)
(* The line of units                                                       *)
(***************************************************************************)

\* A set put in some order has each of its elements once.
LEMMA OrderedOnce ==
    ASSUME NEW S, IsFiniteSet(S), NEW s \in SetToSeqs(S)
    PROVE  NoRepetition(s)
<1> DEFINE n == Cardinality(S)
<1>1. n \in Nat
  BY FS_CardinalityType
<1>2. s \in [1..n -> S] /\ \A i, j \in 1..n : i # j => s[i] # s[j]
  BY DEF SetToSeqs
<1> QED BY <1>1, <1>2 DEF NoRepetition

\* Without its head a line without repetition has none.
LEMMA RestOnce ==
    ASSUME NEW S, NEW s \in Seq(S), s # <<>>, NoRepetition(s)
    PROVE  NoRepetition(Tail(s))
<1>1. /\ Len(Tail(s)) = Len(s) - 1 /\ Len(s) \in Nat \ {0}
      /\ DOMAIN s = 1..Len(s) /\ DOMAIN Tail(s) = 1..Len(Tail(s))
      /\ \A i \in 1..Len(Tail(s)) : Tail(s)[i] = s[i + 1]
  OBVIOUS
<1>2. ASSUME NEW i \in DOMAIN Tail(s), NEW j \in DOMAIN Tail(s), Tail(s)[i] = Tail(s)[j]
      PROVE  i = j
  <2>1. i + 1 \in DOMAIN s /\ j + 1 \in DOMAIN s /\ s[i + 1] = s[j + 1]
    BY <1>1, <1>2
  <2>2. i + 1 = j + 1
    BY <2>1 DEF NoRepetition
  <2> QED BY <1>1, <2>2
<1> QED BY <1>2 DEF NoRepetition

\* What is listed is there.
LEMMA ListedArePresent == Scanned \subseteq in.present /\ SupplementalHeaders \subseteq in.present
<1>1. \A extension : Listed(extension) \subseteq in.present
  BY DEF Listed
<1> QED BY <1>1 DEF Scanned, SupplementalHeaders

\* Every step leaves units in line once, and none that is not there.
LEMMA InLineHolds == IInv /\ Collecting /\ InLine /\ [Next]_vars => InLine'
<1> SUFFICES ASSUME IInv, Collecting, InLine, [Next]_vars PROVE InLine'
  OBVIOUS
<1>1. ASSUME UNCHANGED <<in, config>>, phase \in {"given", "resolved", "failed"} =>
                                          phase' \in {"given", "resolved", "failed"},
             read' \subseteq read \cup ToSet(queue), ToSet(queue') \subseteq ToSet(queue),
             NoRepetition(queue'), live' \subseteq ToSet(queue) \cup live, pass' = pass
      PROVE  InLine'
  <2>1. ToSet(queue) \subseteq Files
    BY DEF IInv, Typed, ToSet
  <2>2. /\ phase' \notin {"given", "resolved", "failed"} => NoRepetition(config.headers)
        /\ read' \cup live' \subseteq Files
        /\ config.dirs # <<>> => read' \cup ToSet(queue') \subseteq in.present
        /\ pass' \in {1, 2}
    BY <1>1, <2>1 DEF InLine
  <2> QED BY <1>1, <2>2 DEF InLine, NoRepetition
<1>2. queue # <<>> => Head(queue) \in ToSet(queue)
  BY HeadAndTail DEF IInv, Typed
<1>3. CASE ResolveConfig
  <2>1. queue = <<>> /\ read = {} /\ live = {} /\ pass = 1
    BY <1>3 DEF ResolveConfig, Collecting, IInv, Opened, UnitIsOpen, Accounted, Before
  <2>2. ToSet(<<>>) = {} /\ NoRepetition(<<>>)
    BY DEF ToSet, NoRepetition
  <2>3. UNCHANGED <<queue, read, live, pass>> /\ phase' \in {"failed", "resolved"}
    BY <1>3 DEF ResolveConfig, parseVars
  <2> QED BY <2>1, <2>2, <2>3 DEF InLine
<1>4. CASE Validate
  <2>1. /\ UNCHANGED <<in, config, queue, read, live, pass>>
        /\ phase' # "failed" => NoRepetition(config.headers)
    BY <1>4 DEF Validate, Valid, parseVars
  <2> QED BY <2>1 DEF InLine, NoRepetition
<1>5. CASE OpenIndex
  <2>1. /\ UNCHANGED <<in, config, read, live, pass>> /\ read = {} /\ live = {}
        /\ NoRepetition(config.headers) /\ pass = 1
        /\ OneSource
    BY <1>5 DEF OpenIndex, IInv, Opened, UnitIsOpen, Accounted, Before, InLine, Collecting
  <2>2. PICK units \in IF config.headers # <<>> THEN {config.headers} ELSE SetToSeqs(Scanned) :
            queue' = units
    BY <1>5 DEF OpenIndex
  <2>3. CASE config.headers # <<>>
    <3>1. queue' = config.headers /\ config.dirs = <<>>
      BY <2>1, <2>2, <2>3 DEF OneSource
    <3> QED BY <2>1, <3>1 DEF InLine, NoRepetition
  <2>4. CASE config.headers = <<>>
    <3>1. queue' \in SetToSeqs(Scanned) /\ IsFiniteSet(Scanned)
      BY <2>2, <2>4, ListedAreFiles, FilesAreFinite, FS_Subset
    <3>2. NoRepetition(queue') /\ ToSet(queue') = Scanned
      BY <3>1, OrderedOnce, InSomeOrder
    <3> QED BY <2>1, <3>2, ListedArePresent DEF InLine, NoRepetition
  <2> QED BY <2>3, <2>4
<1>6. CASE ParseUnit
  <2>1. /\ UNCHANGED <<in, config, queue, read, pass>> /\ phase = "units"
        /\ live' \subseteq live \cup ToSet(queue)
    BY <1>2, <1>6 DEF ParseUnit
  <2> QED BY <1>1, <2>1 DEF InLine
<1>7. CASE SkipCursor \/ EnterNamespace \/ CollectDeclaration \/ UNCHANGED vars
  <2>1. UNCHANGED <<in, config, phase, queue, read, live, pass>>
    BY <1>7 DEF SkipCursor, EnterNamespace, CollectDeclaration, visitUnchanged, vars
  <2> QED BY <1>1, <2>1 DEF InLine
<1>8. CASE ReadDiagnostics
  <2>1. /\ UNCHANGED <<in, config, queue, live, pass>> /\ phase = "visiting"
        /\ read' \subseteq read \cup ToSet(queue)
    BY <1>2, <1>8 DEF ReadDiagnostics, IInv, Opened, UnitIsOpen
  <2> QED BY <1>1, <2>1 DEF InLine
<1>9. CASE DisposeUnit
  <2>1. /\ UNCHANGED <<in, config, read, pass>> /\ phase = "disposing"
        /\ live' \subseteq live /\ queue' = Tail(queue) /\ queue # <<>> /\ queue \in Seq(Files)
    BY <1>9 DEF DisposeUnit, Disposed, Remaining, IInv, Opened, UnitIsOpen, Typed
  <2>2. ToSet(queue') \subseteq ToSet(queue) /\ NoRepetition(queue')
    BY <2>1, HeadAndTail, RestOnce DEF InLine
  <2> QED BY <1>1, <2>1, <2>2
<1>10. CASE StartSupplement
  <2>1. /\ UNCHANGED <<in, config, phase, read, live>> /\ pass' = 2
        /\ queue' \in SetToSeqs(SupplementalHeaders) /\ phase = "units"
    BY <1>10 DEF StartSupplement
  <2>2. IsFiniteSet(SupplementalHeaders)
    BY ListedAreFiles, FilesAreFinite, FS_Subset
  <2>3. NoRepetition(queue') /\ ToSet(queue') = SupplementalHeaders
    BY <2>1, <2>2, OrderedOnce, InSomeOrder
  <2> QED BY <2>1, <2>3, ListedArePresent DEF InLine, NoRepetition
<1>11. CASE FinishParse \/ CloseIndex \/ HandOut
  <2>1. UNCHANGED <<in, config, queue, read, live, pass>> /\ phase \in {"units", "closing", "parsed"}
    BY <1>11 DEF FinishParse, CloseIndex, HandOut
  <2> QED BY <1>1, <2>1 DEF InLine
<1> QED
  BY <1>3, <1>4, <1>5, <1>6, <1>7, <1>8, <1>9, <1>10, <1>11 DEF Next

\* The second pass leaves no header of the directories out.
LEMMA SupplementedHolds == IInv /\ Collecting /\ Supplemented /\ [Next]_vars => Supplemented'
<1> SUFFICES ASSUME IInv, Collecting, Supplemented, [Next]_vars PROVE Supplemented'
  OBVIOUS
<1>1. ASSUME UNCHANGED <<in, config, pass>>, ~failing' => ~failing,
             ~failing' => read \cup ToSet(queue) \subseteq read' \cup ToSet(queue'),
             discovered \subseteq discovered'
      PROVE  Supplemented'
  BY <1>1, CollectionsStay DEF Supplemented
<1>2. ASSUME phase \in Before, pass' = pass PROVE Supplemented'
  BY <1>2 DEF Supplemented, Collecting
<1>3. CASE ResolveConfig \/ Validate \/ OpenIndex
  BY <1>2, <1>3 DEF ResolveConfig, Validate, OpenIndex, parseVars, Before
<1>4. CASE ParseUnit
  BY <1>1, <1>4 DEF ParseUnit, IInv, Accounted
<1>5. CASE SkipCursor \/ EnterNamespace \/ CollectDeclaration \/ UNCHANGED vars
  <2>1. UNCHANGED <<in, config, pass, failing, read, queue>> /\ discovered \subseteq discovered'
    BY <1>5 DEF SkipCursor, EnterNamespace, CollectDeclaration, visitUnchanged, vars
  <2> QED BY <1>1, <2>1
<1>6. CASE ReadDiagnostics
  <2>1. UNCHANGED <<in, config, pass, queue, discovered>> /\ ~failing /\ read \subseteq read'
    BY <1>6 DEF ReadDiagnostics, IInv, Accounted
  <2> QED BY <1>1, <2>1
<1>7. CASE DisposeUnit
  <2>1. /\ UNCHANGED <<in, config, pass, read, failing, discovered>> /\ queue' = Tail(queue)
        /\ queue # <<>> /\ queue \in Seq(Files)
        /\ ~failing => Head(queue) \in read
    BY <1>7 DEF DisposeUnit, Remaining, IInv, Opened, UnitIsOpen, Typed, Accounted
  <2>2. ToSet(queue) = {Head(queue)} \cup ToSet(queue')
    BY <2>1, HeadAndTail
  <2> QED BY <1>1, <2>1, <2>2
<1>8. CASE StartSupplement
  <2>1. /\ UNCHANGED <<in, config, read, discovered>>
        /\ queue' \in SetToSeqs(SupplementalHeaders)
    BY <1>8 DEF StartSupplement
  <2>2. ToSet(queue') = SupplementalHeaders
    BY <2>1, ListedAreFiles, OrderedFiles
  <2>3. \A h \in Listed("header") : config.dirs # <<>> =>
            \/ h \in ToSet(queue') \/ \E seen \in discovered : Canonical[seen] = h
    BY <2>2 DEF SupplementalHeaders
  <2> QED BY <2>1, <2>3, CollectionsStay DEF Supplemented
<1>9. CASE FinishParse \/ CloseIndex \/ HandOut
  BY <1>1, <1>9 DEF FinishParse, CloseIndex, HandOut
<1> QED
  BY <1>3, <1>4, <1>5, <1>6, <1>7, <1>8, <1>9 DEF Next

\* What is handed out is what is collected, by its headers.
LEMMA HandedOutHolds == HandedOut /\ [Next]_vars => HandedOut'
<1> SUFFICES ASSUME HandedOut, [Next]_vars PROVE HandedOut'
  OBVIOUS
<1>1. CASE HandOut
  <2>1. /\ UNCHANGED <<in, config, api>>
        /\ parts' = [h \in GenerationHeaders |->
                        Restrict(api, {i \in DOMAIN api : Canonical[api[i].header] = h})]
    BY <1>1 DEF HandOut
  <2> QED BY <2>1, CollectionsStay DEF HandedOut
<1>2. CASE UNCHANGED vars
  <2>1. UNCHANGED <<in, phase, config, api, parts>>
    BY <1>2 DEF vars
  <2> QED BY <2>1, CollectionsStay DEF HandedOut
<1>3. CASE Next /\ ~HandOut
  <2>1. phase' # "handed"
    BY <1>3 DEF Next, ResolveConfig, Validate, OpenIndex, ParseUnit, SkipCursor, EnterNamespace,
                CollectDeclaration, Visiting, visitUnchanged, ReadDiagnostics, DisposeUnit,
                StartSupplement, FinishParse, CloseIndex
  <2> QED BY <2>1 DEF HandedOut
<1> QED BY <1>1, <1>2, <1>3

\* CInv is inductive, given IInv.
LEMMA CInvHolds ==
    /\ Init => CInv
    /\ IInv /\ CInv /\ [Next]_vars => CInv'
<1>1. ASSUME Init PROVE CInv
  <2>1. Collecting
    BY <1>1, CollectingStarts
  <2>2. ToSet(<<>>) = {} /\ NoRepetition(<<>>)
    BY DEF ToSet, NoRepetition
  <2> QED BY <1>1, <2>1, <2>2 DEF Init, CInv, InLine, Supplemented, HandedOut
<1>2. ASSUME IInv, CInv, [Next]_vars PROVE CInv'
  <2>1. Collecting'
    BY <1>2, CollectingBefore, CollectingAtParse, CollectingAtCursor, CollectingAtDiagnostics,
       CollectingAtEnds DEF Next, CInv
  <2> QED BY <1>2, <2>1, InLineHolds, SupplementedHolds, HandedOutHolds DEF CInv
<1> QED BY <1>1, <1>2

\* At every moment the API is what the units read declare (parse_unit and
\* collect_entity, parser.rs), short of what the walk has still to visit.
THEOREM CollectedAsRead == Spec => []CInv
<1>1. IInv /\ CInv /\ [Next]_vars => IInv' /\ CInv'
  BY StepHolds, CInvHolds
<1> QED BY InitHolds, CInvHolds, <1>1, PTL DEF Spec

\* TypeOK: types, no unit in line twice, and no body but an operator's.
THEOREM Types == Spec => []TypeOK
<1>1. ASSUME IInv, CInv PROVE TypeOK
  <2>1. ToSet(queue) \cup live \cup read \subseteq {Canonical[p] : p \in Paths}
    <3>1. ToSet(queue) \subseteq Files
      BY <1>1 DEF IInv, Typed, ToSet
    <3> QED BY <1>1, <3>1 DEF CInv, InLine, Files
  <2>2. /\ discovered \subseteq Paths
        /\ \A i \in DOMAIN api : ~api[i].defined \/ api[i].kind = "operator"
    BY <1>1 DEF CInv, Collecting, Collectable
  <2> QED BY <1>1, <2>1, <2>2 DEF TypeOK, CInv, InLine, IInv, Opened, Phases, Typed
<1> QED BY <1>1, Invariant, CollectedAsRead, PTL

(***************************************************************************)
(* What is handed out                                                      *)
(***************************************************************************)

\* Of some declarations those of a header.
OfHeader(S, h) == {e \in S : Canonical[e.header] = h}

\* Headers that get a wrapper are files by their canonical paths.
LEMMA GeneratedAreFiles ==
    ASSUME IInv, phase # "given"
    PROVE  GenerationHeaders \subseteq Files /\ \A h \in GenerationHeaders : Canonical[h] = h
<1>1. GenerationHeaders \subseteq Files
  BY ListedAreFiles DEF GenerationHeaders, IInv, Typed, ToSet
<1>2. \A h \in Files : Canonical[h] = h
  BY PathsAssumption DEF Files
<1> QED BY <1>1, <1>2

\* What the invariants say of the last state.
LEMMA AtHandOut ==
    ASSUME IInv, CInv, phase = "handed"
    PROVE  /\ in \in Inputs /\ read \subseteq Files /\ OneSource
           /\ Deduped(api, CollectedFrom(read)) /\ discovered \subseteq SeenIn(read)
           /\ \A e \in CollectedFrom(read) : Collectable(e)
           /\ config.headers # <<>> => read = ToSet(config.headers)
           /\ config.dirs # <<>> =>
                  /\ read \subseteq in.present
                  /\ \A h \in Listed("header") : h \in read \/ \E seen \in discovered : Canonical[seen] = h
           /\ DOMAIN parts = GenerationHeaders
           /\ \A h \in GenerationHeaders :
                  /\ DOMAIN parts[h] = {i \in DOMAIN api : Canonical[api[i].header] = h}
                  /\ \A i \in DOMAIN parts[h] : parts[h][i] = api[i]
<1>1. /\ in \in Inputs /\ read \subseteq Files /\ ~failing /\ queue = <<>> /\ OneSource /\ UnitsAccounted
  BY DEF IInv, Typed, Accounted, Before, CInv, InLine
<1>2. ToSet(queue) = {}
  BY <1>1 DEF ToSet
<1>3. Deduped(api, CollectedFrom(read)) /\ discovered \subseteq SeenIn(read) /\ pass = 2
  BY <1>1 DEF CInv, Collecting
<1>4. \A e \in CollectedFrom(read) : Collectable(e)
  BY <1>1, CollectedIsShaped
<1>5. parts = [h \in GenerationHeaders |->
                  Restrict(api, {i \in DOMAIN api : Canonical[api[i].header] = h})]
  BY DEF CInv, HandedOut
<1>6. \A h \in GenerationHeaders :
                  /\ DOMAIN parts[h] = {i \in DOMAIN api : Canonical[api[i].header] = h}
                  /\ \A i \in DOMAIN parts[h] : parts[h][i] = api[i]
  BY <1>5 DEF Restrict
<1>7. config.dirs # <<>> =>
         /\ read \subseteq in.present
         /\ \A h \in Listed("header") : h \in read \/ \E seen \in discovered : Canonical[seen] = h
  BY <1>1, <1>2, <1>3 DEF CInv, InLine, Supplemented
<1>8. config.headers # <<>> => read = ToSet(config.headers)
  BY <1>1, <1>2 DEF UnitsAccounted
<1> QED BY <1>1, <1>3, <1>4, <1>5, <1>6, <1>7, <1>8

\* What a merged declaration stands for.
LEMMA MergedFrom ==
    ASSUME NEW A, NEW S, Deduped(A, S), \A e \in S : Collectable(e), NEW i \in DOMAIN A
    PROVE  \E e \in S :
              /\ A[i] = Merged(e, {a \in S : Key(a) = Key(e)})
              /\ Collectable(A[i]) /\ Key(A[i]) = Key(e) /\ Plainly(A[i]) = Plainly(e)
              /\ A[i].header = e.header /\ A[i].kind = e.kind
<1> DEFINE alike(e) == {a \in S : Key(a) = Key(e)}
<1>1. PICK e \in S : A[i] = Merged(e, alike(e))
  BY DEF Deduped
<1>2. e \in alike(e) /\ \A a \in alike(e) : Collectable(a) /\ Key(a) = Key(e)
  OBVIOUS
<1> HIDE DEF alike
<1>3. /\ Collectable(A[i]) /\ Key(A[i]) = Key(e) /\ A[i].header = e.header /\ A[i].kind = e.kind
  BY <1>1, <1>2, MergedIsAlike
<1>4. Plainly(A[i]) = Plainly(e)
  BY <1>3, KeysArePlain
<1> QED BY <1>1, <1>3, <1>4 DEF alike

\* Bodies aside, a header is handed what was collected of it.
LEMMA PartsArePlain ==
    ASSUME IInv, CInv, phase = "handed", NEW h \in GenerationHeaders
    PROVE  Plain(ToSet(parts[h])) = Plain(OfHeader(CollectedFrom(read), h))
<1> DEFINE S == CollectedFrom(read)
<1>1. /\ Deduped(api, S) /\ \A e \in S : Collectable(e)
      /\ DOMAIN parts[h] = {i \in DOMAIN api : Canonical[api[i].header] = h}
      /\ \A i \in DOMAIN parts[h] : parts[h][i] = api[i]
  BY AtHandOut
<1> HIDE DEF S
<1>2. ASSUME NEW i \in DOMAIN parts[h] PROVE Plainly(parts[h][i]) \in Plain(OfHeader(S, h))
  <2>1. i \in DOMAIN api /\ Canonical[api[i].header] = h /\ parts[h][i] = api[i]
    BY <1>1
  <2>2. PICK e \in S : Plainly(api[i]) = Plainly(e) /\ api[i].header = e.header
    BY <1>1, <2>1, MergedFrom
  <2> QED BY <2>1, <2>2 DEF Plain, OfHeader
<1>3. ASSUME NEW e \in OfHeader(S, h) PROVE Plainly(e) \in Plain(ToSet(parts[h]))
  <2>1. e \in S /\ Canonical[e.header] = h
    BY DEF OfHeader
  <2>2. PICK i \in DOMAIN api : Key(api[i]) = Key(e)
    BY <1>1, <2>1 DEF Deduped
  <2>3. Collectable(api[i]) /\ Collectable(e)
    BY <1>1, <2>1, MergedFrom
  <2>4. Plainly(api[i]) = Plainly(e)
    BY <2>2, <2>3, KeysArePlain
  <2>5. api[i].header = e.header
    <3>1. Plainly(api[i]).header = api[i].header /\ Plainly(e).header = e.header
      BY <2>3, PlainlyShaped DEF Collectable
    <3> QED BY <2>4, <3>1
  <2>6. i \in DOMAIN parts[h] /\ parts[h][i] = api[i]
    BY <1>1, <2>1, <2>5
  <2>7. api[i] \in ToSet(parts[h])
    BY <2>6 DEF ToSet
  <2> QED BY <2>4, <2>7 DEF Plain
<1>4. \A x \in ToSet(parts[h]) : \E i \in DOMAIN parts[h] : x = parts[h][i]
  BY DEF ToSet
<1> QED BY <1>2, <1>3, <1>4 DEF Plain, S

\* What a unit shows of a header a cursor of that header declares.
LEMMA ShownIsShaped ==
    ASSUME in \in Inputs, NEW u \in Files, NEW h, NEW e \in ShownBy(u, h)
    PROVE  \E q \in All(u) :
              /\ ~q[1].system /\ q[1].kind # "namespace" /\ e \in ToSet(Declared(q[1], q[2]))
              /\ Collectable(e) /\ e.header = Canonical[q[1].path] /\ e.header = h
              /\ e.kind = "record" => IsClass(q[1]) /\ e = Record(q[1], q[2])
<1>1. Canonical[e.header] = h
  BY DEF ShownBy
<1>2. PICK q \in All(u) : ~q[1].system /\ q[1].kind # "namespace" /\ e \in ToSet(Declared(q[1], q[2]))
  BY DEF ShownBy, All
<1>3. /\ Collectable(e) /\ e.header = Canonical[q[1].path]
      /\ e.kind = "record" => IsClass(q[1]) /\ e = Record(q[1], q[2])
  BY <1>2, DeclaredShaped
<1>4. q[1].path \in Paths
  <2>1. PICK c \in ToSet(in.shown[u]) : q[1].path = c.path
    BY ShownAtTop
  <2> QED BY <2>1, UnitShown DEF ShowsUnit
<1>5. e.header = h
  BY <1>1, <1>3, <1>4, PathsAssumption
<1> QED BY <1>2, <1>3, <1>5

\* What is collected of a header, some unit read has shown as the project's.
LEMMA CollectedIsShown ==
    ASSUME in \in Inputs, read \subseteq Files, NEW h, NEW e \in OfHeader(CollectedFrom(read), h)
    PROVE  \E u \in read :
              /\ e \in ShownBy(u, h) /\ e.header = h
              /\ \E c \in ToSet(in.shown[u]) : ~c.system /\ Canonical[c.path] = h /\ ShouldCollect(c)
<1>1. PICK u \in read : \E q \in All(u) :
              /\ Wanted(q) /\ e \in ToSet(Declared(q[1], q[2])) /\ e.header = Canonical[q[1].path]
  BY CollectedIsShaped DEF OfHeader
<1>2. PICK q \in All(u) :
              /\ Wanted(q) /\ e \in ToSet(Declared(q[1], q[2])) /\ e.header = Canonical[q[1].path]
  BY <1>1
<1>3. Canonical[e.header] = h /\ u \in Files
  BY DEF OfHeader
<1>4. ~q[1].system /\ q[1].kind # "namespace" /\ ShouldCollect(q[1])
  BY <1>2 DEF Wanted, ShouldCollect
<1>5. e \in ShownBy(u, h)
  BY <1>2, <1>3, <1>4 DEF ShownBy, All
<1>6. PICK c \in ToSet(in.shown[u]) : q[1].path = c.path /\ q[1].system = c.system
  BY <1>3, ShownAtTop
<1>7. e.header = h
  BY <1>3, <1>5, ShownIsShaped
<1>8. ShouldCollect(c)
  BY <1>4, <1>6 DEF ShouldCollect
<1> QED BY <1>2, <1>4, <1>5, <1>6, <1>7, <1>8

\* A unit shows a file by one path: what it shows of a header is collected if
\* one such cursor is.
LEMMA ShownIsCollected ==
    ASSUME in \in Inputs, read \subseteq Files, NEW u \in read, NEW h,
           \A c \in ToSet(in.shown[u]) : ~c.system /\ Canonical[c.path] = h => ShouldCollect(c),
           NEW e \in ShownBy(u, h)
    PROVE  e \in OfHeader(CollectedFrom(read), h)
<1>1. u \in Files /\ Canonical[e.header] = h
  BY DEF ShownBy
<1>2. PICK q \in All(u) :
              /\ ~q[1].system /\ q[1].kind # "namespace" /\ e \in ToSet(Declared(q[1], q[2]))
              /\ e.header = Canonical[q[1].path] /\ e.header = h
  BY <1>1, ShownIsShaped
<1>3. PICK c \in ToSet(in.shown[u]) : q[1].path = c.path /\ q[1].system = c.system
  BY <1>1, ShownAtTop
<1>4. ShouldCollect(c)
  BY <1>2, <1>3
<1>5. Wanted(q)
  BY <1>2, <1>3, <1>4 DEF Wanted, ShouldCollect
<1> QED BY <1>1, <1>2, <1>5 DEF OfHeader, CollectedFrom, DeclarationsOf

\* Precondition SeenAlike: whichever unit shows a header, the header by itself
\* declares the same.
LEMMA ShownAlike ==
    ASSUME in \in Inputs, SeenAlike, NEW h \in GenerationHeaders, NEW u \in read,
           NEW c \in ToSet(in.shown[u]), ~c.system, Canonical[c.path] = h
    PROVE  Plain(ShownBy(u, h)) = Plain(ShownBy(h, h))
<1>1. CASE u = h
  BY <1>1
<1>2. CASE u # h
  BY <1>2 DEF SeenAlike
<1> QED BY <1>1, <1>2

\* Precondition NoLinksOut: a header that is read by itself is collected.
LEMMA OwnIsCollected ==
    ASSUME IInv, CInv, phase = "handed", NoLinksOut, NEW h \in GenerationHeaders, h \in read,
           NEW c \in ToSet(in.shown[h]), ~c.system, Canonical[c.path] = h
    PROVE  ShouldCollect(c)
<1>1. in \in Inputs /\ h \in Files /\ OneSource
  BY AtHandOut
<1>2. ParentDir[c.path] = ParentDir[h] /\ Extension[c.path] = Extension[h]
  BY <1>1, UnitShown DEF ShowsUnit
<1>3. Extension[h] = "header" /\ (config.dirs # <<>> => ParentDir[h] \in ToSet(config.dirs))
  BY DEF NoLinksOut
<1>4. config.headers # <<>> => h \in ToSet(config.headers)
  BY DEF GenerationHeaders
<1> QED BY <1>1, <1>2, <1>3, <1>4 DEF ShouldCollect, OneSource

\* Every header is read by itself, or a unit has shown it as one of the project's.
LEMMA HeaderWasSeen ==
    ASSUME IInv, CInv, phase = "handed", NEW h \in GenerationHeaders, h \notin read
    PROVE  \E u \in read : \E c \in ToSet(in.shown[u]) : Canonical[c.path] = h /\ ShouldCollect(c)
<1>1. /\ OneSource /\ in \in Inputs /\ read \subseteq Files /\ discovered \subseteq SeenIn(read)
      /\ config.headers # <<>> => read = ToSet(config.headers)
      /\ config.dirs # <<>> => \A g \in Listed("header") :
                                  g \in read \/ \E seen \in discovered : Canonical[seen] = g
  BY AtHandOut
<1>2. config.headers = <<>> /\ h \in Listed("header") /\ config.dirs # <<>>
  BY <1>1 DEF GenerationHeaders, OneSource
<1>3. PICK seen \in discovered : Canonical[seen] = h
  BY <1>1, <1>2
<1>4. PICK u \in read : \E q \in All(u) : ShouldCollect(q[1]) /\ seen = q[1].path
  BY <1>1, <1>3 DEF SeenIn
<1>5. PICK q \in All(u) : ShouldCollect(q[1]) /\ seen = q[1].path
  BY <1>4
<1>6. PICK c \in ToSet(in.shown[u]) : q[1].path = c.path /\ q[1].system = c.system
  BY <1>1, ShownAtTop
<1>7. ShouldCollect(c)
  BY <1>5, <1>6 DEF ShouldCollect
<1> QED BY <1>3, <1>5, <1>6, <1>7

\* EveryDeclarationRead: parse (parser.rs) with its supplemental headers hands
\* each header all it declares by itself, whichever units have shown it.
THEOREM HeadersReadWhole == Spec => []EveryDeclarationRead
<1>1. ASSUME IInv, CInv, phase = "handed", SeenAlike, NoLinksOut, NEW h \in GenerationHeaders
      PROVE  Plain(ToSet(parts[h])) = Plain(ShownBy(h, h))
  <2> DEFINE S == OfHeader(CollectedFrom(read), h)
  <2>1. in \in Inputs /\ read \subseteq Files
    BY <1>1, AtHandOut
  <2>5. Plain(ToSet(parts[h])) = Plain(S)
    BY <1>1, PartsArePlain
  <2>2. Plain(S) \subseteq Plain(ShownBy(h, h))
    <3> SUFFICES ASSUME NEW e \in S PROVE Plainly(e) \in Plain(ShownBy(h, h))
      BY DEF Plain
    <3>1. PICK u \in read :
              /\ e \in ShownBy(u, h)
              /\ \E c \in ToSet(in.shown[u]) : ~c.system /\ Canonical[c.path] = h
      BY <2>1, CollectedIsShown
    <3>2. Plain(ShownBy(u, h)) = Plain(ShownBy(h, h))
      BY <1>1, <2>1, <3>1, ShownAlike
    <3> QED BY <3>1, <3>2 DEF Plain
  <2>3. CASE h \in read
    <3>1. \A e \in ShownBy(h, h) : e \in S
      BY <1>1, <2>1, <2>3, OwnIsCollected, ShownIsCollected
    <3>2. Plain(ShownBy(h, h)) \subseteq Plain(S)
      BY <3>1 DEF Plain
    <3> QED BY <2>5, <2>2, <3>2
  <2>4. CASE h \notin read
    <3>1. PICK u \in read : \E c \in ToSet(in.shown[u]) : Canonical[c.path] = h /\ ShouldCollect(c)
      BY <1>1, <2>4, HeaderWasSeen
    <3>2. PICK c \in ToSet(in.shown[u]) : Canonical[c.path] = h /\ ShouldCollect(c)
      BY <3>1
    <3>3. ~c.system
      BY <3>2 DEF ShouldCollect
    <3>4. Plain(ShownBy(u, h)) = Plain(ShownBy(h, h))
      BY <1>1, <2>1, <3>2, <3>3, ShownAlike
    <3>5. \A d \in ToSet(in.shown[u]) : ~d.system /\ Canonical[d.path] = h => ShouldCollect(d)
      <4>1. \A d \in ToSet(in.shown[u]) : Canonical[d.path] = h => d.path = c.path
        BY <2>1, <3>2, UnitShown DEF ShowsUnit
      <4> QED BY <3>2, <4>1 DEF ShouldCollect
    <3>6. \A e \in ShownBy(u, h) : e \in S
      BY <2>1, <3>5, ShownIsCollected
    <3>7. Plain(ShownBy(u, h)) \subseteq Plain(S)
      BY <3>6 DEF Plain
    <3> QED BY <2>5, <2>2, <3>4, <3>7
  <2> QED BY <2>3, <2>4
<1>2. IInv /\ CInv => EveryDeclarationRead
  BY <1>1 DEF EveryDeclarationRead
<1> QED BY <1>2, Invariant, CollectedAsRead, PTL

\* Declarations with one key are one declaration.
LEMMA FieldsOfKey ==
    ASSUME NEW e, NEW f, Collectable(e), Collectable(f), Key(e) = Key(f)
    PROVE  /\ e.kind = f.kind /\ e.header = f.header /\ e.namespace = f.namespace /\ e.name = f.name
           /\ e.sig = f.sig /\ Declaration(e) = Declaration(f)
<1>1. /\ Key(e).kind = e.kind /\ Key(e).header = e.header /\ Key(e).namespace = e.namespace
      /\ Key(e).name = e.name /\ Key(e).sig = e.sig
      /\ Key(f).kind = f.kind /\ Key(f).header = f.header /\ Key(f).namespace = f.namespace
      /\ Key(f).name = f.name /\ Key(f).sig = f.sig
  BY KeyShaped DEF Collectable
<1> QED BY <1>1 DEF Declaration

\* A unit shows a file by one path, and a class defined once.
LEMMA ShownOnce ==
    ASSUME in \in Inputs, NEW u \in Files
    PROVE  /\ \A c, d \in ToSet(in.shown[u]) : Canonical[c.path] = Canonical[d.path] => c.path = d.path
           /\ \A p, q \in All(u) :
                IsClass(p[1]) /\ IsClass(q[1]) /\ p[1].path = q[1].path
                  /\ p[1].name = q[1].name /\ p[2] = q[2] => p[1].kids = q[1].kids
  BY UnitShown DEF ShowsUnit, All

\* A header has one declaration of a name, kind and signature, and one
\* definition of a class.
LEMMA OneDeclaration ==
    ASSUME IInv, CInv, phase = "handed", SeenAlike, NEW h \in GenerationHeaders,
           NEW e \in OfHeader(CollectedFrom(read), h), NEW f \in OfHeader(CollectedFrom(read), h),
           Declaration(e) = Declaration(f)
    PROVE  Key(e) = Key(f)
<1>1. /\ in \in Inputs /\ read \subseteq Files /\ h \in Files
      /\ Collectable(e) /\ Collectable(f)
  BY AtHandOut, GeneratedAreFiles DEF OfHeader
<1>2. e.kind = f.kind /\ e.namespace = f.namespace /\ e.name = f.name
  BY DEF Declaration
<1>3. e.header = h /\ f.header = h
  BY <1>1, CollectedIsShown
<1>4. CASE e.kind # "record"
  <2>1. e.sig = f.sig
    BY <1>2, <1>4 DEF Declaration
  <2>2. e.operators = {} /\ f.operators = {}
    BY <1>1, <1>2, <1>4 DEF Collectable
  <2>3. /\ Key(e) =
              [kind |-> e.kind, header |-> e.header, namespace |-> e.namespace, name |-> e.name,
               sig |-> e.sig, defined |-> FALSE, operators |-> {OperatorKey(o) : o \in e.operators}]
        /\ Key(f) =
              [kind |-> f.kind, header |-> f.header, namespace |-> f.namespace, name |-> f.name,
               sig |-> f.sig, defined |-> FALSE, operators |-> {OperatorKey(o) : o \in f.operators}]
    BY <1>1, KeyShaped DEF Collectable
  <2> QED BY <1>2, <1>3, <2>1, <2>2, <2>3
<1>5. CASE e.kind = "record"
  <2>1. PICK d \in ShownBy(h, h) : Plainly(d) = Plainly(e)
    <3>1. PICK u \in read : /\ e \in ShownBy(u, h)
                            /\ \E c \in ToSet(in.shown[u]) : ~c.system /\ Canonical[c.path] = h
      BY <1>1, CollectedIsShown
    <3>2. Plain(ShownBy(u, h)) = Plain(ShownBy(h, h))
      BY <1>1, <3>1, ShownAlike
    <3>3. Plainly(e) \in Plain(ShownBy(h, h))
      BY <3>1, <3>2 DEF Plain
    <3> QED BY <3>3 DEF Plain
  <2>2. PICK g \in ShownBy(h, h) : Plainly(g) = Plainly(f)
    <3>1. PICK u \in read : /\ f \in ShownBy(u, h)
                            /\ \E c \in ToSet(in.shown[u]) : ~c.system /\ Canonical[c.path] = h
      BY <1>1, CollectedIsShown
    <3>2. Plain(ShownBy(u, h)) = Plain(ShownBy(h, h))
      BY <1>1, <3>1, ShownAlike
    <3>3. Plainly(f) \in Plain(ShownBy(h, h))
      BY <3>1, <3>2 DEF Plain
    <3> QED BY <3>3 DEF Plain
  <2>3. PICK p \in All(h) : /\ Collectable(d) /\ d.header = Canonical[p[1].path] /\ d.header = h
                            /\ d.kind = "record" => IsClass(p[1]) /\ d = Record(p[1], p[2])
    BY <1>1, ShownIsShaped
  <2>4. PICK q \in All(h) : /\ Collectable(g) /\ g.header = Canonical[q[1].path] /\ g.header = h
                            /\ g.kind = "record" => IsClass(q[1]) /\ g = Record(q[1], q[2])
    BY <1>1, ShownIsShaped
  <2>5. Key(d) = Key(e) /\ Key(g) = Key(f)
    BY <1>1, <2>1, <2>2, <2>3, <2>4, KeysArePlain
  <2>6. /\ d.kind = "record" /\ g.kind = "record"
        /\ d.namespace = g.namespace /\ d.name = g.name
    BY <1>1, <1>2, <1>5, <2>3, <2>4, <2>5, FieldsOfKey
  <2>7. p[1].path = q[1].path
    <3>1. PICK b \in ToSet(in.shown[h]) : p[1].path = b.path
      BY <1>1, ShownAtTop
    <3>2. PICK c \in ToSet(in.shown[h]) : q[1].path = c.path
      BY <1>1, ShownAtTop
    <3>3. b.path = c.path
      <4>1. Canonical[b.path] = Canonical[c.path]
        BY <2>3, <2>4, <3>1, <3>2
      <4> QED BY <1>1, <4>1, ShownOnce
    <3> QED BY <3>1, <3>2, <3>3
  <2>8. /\ d.name = p[1].name /\ d.namespace = p[2] /\ g.name = q[1].name /\ g.namespace = q[2]
    <3>1. \A k \in UNION {{k} \cup ToSet(k.kids) : k \in ToSet(p[1].kids)} : k.path = p[1].path
      BY <1>1, UnitShown DEF ShowsUnit, All
    <3>2. \A k \in UNION {{k} \cup ToSet(k.kids) : k \in ToSet(q[1].kids)} : k.path = q[1].path
      BY <1>1, UnitShown DEF ShowsUnit, All
    <3> QED BY <2>3, <2>4, <2>6, <3>1, <3>2, RecordShaped
  <2>9. p[1].kids = q[1].kids
    BY <1>1, <2>3, <2>4, <2>6, <2>7, <2>8, ShownOnce
  <2>10. Record(p[1], p[2]) = Record(q[1], q[2])
    <3> DEFINE kids == {k \in ToSet(p[1].kids) : ShouldCollect(k)}
               public == {k \in kids : k.access = "public"}
               ofFriends == UNION {ToSet(k.kids) : k \in {k \in public : k.kind = "friend"}}
               members == {k.name : k \in {k \in public : k.kind = "member"}}
                              \cup {"abstract" : k \in {k \in kids : "pure" \in k.sig}}
               operators == {Operator(k, p[2]) : k \in {k \in public \cup ofFriends : k.kind = "operator"}}
    <3>1. /\ Record(p[1], p[2]) =
                [Entity("record", p[1], p[2]) EXCEPT !.sig = members, !.operators = operators]
          /\ Record(q[1], q[2]) =
                [Entity("record", q[1], q[2]) EXCEPT !.sig = members, !.operators = operators]
      BY <2>6, <2>8, <2>9 DEF Record
    <3> HIDE DEF members, operators
    <3>2. Record(p[1], p[2]) =
            [kind |-> "record", header |-> Canonical[p[1].path], namespace |-> p[2],
             name |-> p[1].name, sig |-> members, defined |-> FALSE, operators |-> operators]
      BY <3>1 DEF Entity
    <3>3. Record(q[1], q[2]) =
            [kind |-> "record", header |-> Canonical[q[1].path], namespace |-> q[2],
             name |-> q[1].name, sig |-> members, defined |-> FALSE, operators |-> operators]
      BY <3>1 DEF Entity
    <3> QED BY <2>6, <2>7, <2>8, <3>2, <3>3
  <2> QED BY <2>3, <2>4, <2>5, <2>6, <2>10
<1> QED BY <1>4, <1>5

\* What is collected is of a header that gets a wrapper.
LEMMA CollectedIsGenerated ==
    ASSUME IInv, CInv, phase = "handed", NEW e \in CollectedFrom(read)
    PROVE  Canonical[e.header] \in GenerationHeaders
<1>1. /\ in \in Inputs /\ read \subseteq Files /\ OneSource
      /\ config.dirs # <<>> => read \subseteq in.present
  BY AtHandOut
<1>2. PICK u \in read : \E q \in All(u) : Wanted(q) /\ e.header = Canonical[q[1].path]
  BY <1>1, CollectedIsShaped
<1>3. PICK q \in All(u) : Wanted(q) /\ e.header = Canonical[q[1].path]
  BY <1>2
<1>4. PICK c \in ToSet(in.shown[u]) : q[1].path = c.path /\ q[1].system = c.system
  BY <1>1, ShownAtTop
<1>5. c.path \in Paths /\ (u \in in.present => Canonical[c.path] \in in.present)
  BY <1>1, UnitShown DEF ShowsUnit
<1>6. Canonical[e.header] = Canonical[c.path] /\ ShouldCollect(c)
  BY <1>3, <1>4, <1>5, PathsAssumption DEF Wanted, ShouldCollect
<1>7. CASE config.headers # <<>>
  BY <1>6, <1>7 DEF ShouldCollect, GenerationHeaders
<1>8. CASE config.headers = <<>>
  <2>1. /\ Extension[c.path] = "header" /\ ParentDir[c.path] \in ToSet(config.dirs)
        /\ Canonical[c.path] \in in.present
    BY <1>1, <1>5, <1>6, <1>8 DEF ShouldCollect, OneSource
  <2>2. PICK p \in Entries : /\ Canonical[p] = Canonical[c.path] /\ ParentDir[p] = ParentDir[c.path]
                             /\ Extension[p] = Extension[c.path]
    BY <1>5, PathsAssumption
  <2>3. Canonical[p] \in Listed("header")
    BY <2>1, <2>2 DEF Listed
  <2> QED BY <1>6, <1>8, <2>2, <2>3 DEF GenerationHeaders
<1> QED BY <1>7, <1>8

\* HandedOutOnce: should_collect_cursor and filter_to_header agree on what the
\* project's headers are, and dedupe_api leaves each declaration once.
THEOREM EachToOneHeader == Spec => []HandedOutOnce
<1>1. ASSUME IInv, CInv, phase = "handed", NEW i \in DOMAIN api
      PROVE  \E h \in DOMAIN parts : api[i] \in ToSet(parts[h])
  <2> DEFINE h == Canonical[api[i].header]
  <2>1. PICK e \in CollectedFrom(read) : api[i].header = e.header
    <3>1. Deduped(api, CollectedFrom(read)) /\ \A e \in CollectedFrom(read) : Collectable(e)
      BY <1>1, AtHandOut
    <3> QED BY <1>1, <3>1, MergedFrom
  <2>2. h \in GenerationHeaders
    BY <1>1, <2>1, CollectedIsGenerated
  <2>3. h \in DOMAIN parts /\ i \in DOMAIN parts[h] /\ parts[h][i] = api[i]
    BY <1>1, <2>2, AtHandOut
  <2>4. api[i] \in ToSet(parts[h])
    BY <2>3 DEF ToSet
  <2> QED BY <2>3, <2>4
<1>2. ASSUME IInv, CInv, phase = "handed", SeenAlike, NEW h \in DOMAIN parts
      PROVE  NoRepetition([i \in DOMAIN parts[h] |-> Declaration(parts[h][i])])
  <2>1. /\ h \in GenerationHeaders /\ Deduped(api, CollectedFrom(read))
        /\ \A e \in CollectedFrom(read) : Collectable(e)
        /\ DOMAIN parts[h] = {i \in DOMAIN api : Canonical[api[i].header] = h}
        /\ \A i \in DOMAIN parts[h] : parts[h][i] = api[i]
    BY <1>2, AtHandOut
  <2>2. ASSUME NEW i \in DOMAIN parts[h], NEW j \in DOMAIN parts[h],
               Declaration(parts[h][i]) = Declaration(parts[h][j])
        PROVE  i = j
    <3>1. /\ i \in DOMAIN api /\ j \in DOMAIN api /\ Declaration(api[i]) = Declaration(api[j])
          /\ Canonical[api[i].header] = h /\ Canonical[api[j].header] = h
      BY <2>1, <2>2
    <3>2. PICK e \in CollectedFrom(read) :
              Collectable(api[i]) /\ Key(api[i]) = Key(e) /\ api[i].header = e.header
      BY <2>1, <3>1, MergedFrom
    <3>3. PICK f \in CollectedFrom(read) :
              Collectable(api[j]) /\ Key(api[j]) = Key(f) /\ api[j].header = f.header
      BY <2>1, <3>1, MergedFrom
    <3>4. Declaration(e) = Declaration(f)
      BY <2>1, <3>1, <3>2, <3>3, FieldsOfKey
    <3>5. e \in OfHeader(CollectedFrom(read), h) /\ f \in OfHeader(CollectedFrom(read), h)
      BY <3>1, <3>2, <3>3 DEF OfHeader
    <3>6. Key(e) = Key(f)
      BY <1>2, <2>1, <3>4, <3>5, OneDeclaration
    <3> QED BY <2>1, <3>1, <3>2, <3>3, <3>6 DEF Deduped
  <2> QED BY <2>2 DEF NoRepetition
<1>3. IInv /\ CInv => HandedOutOnce
  BY <1>1, <1>2 DEF HandedOutOnce
<1> QED BY <1>3, Invariant, CollectedAsRead, PTL

\* The bodies of a declaration, among those of its header.
LEMMA BodiesOne ==
    ASSUME NEW e, NEW x, NEW k
    PROVE  <<x, k>> \in Bodies(e) <=>
              x = Plainly(e) /\ \E p \in OperatorsOf(e) : p.defined /\ k = OperatorKey(p)
  BY DEF Bodies

\* A merged operator has a body if and only if one of those it stands for has.
LEMMA MergedBodies ==
    ASSUME NEW S, \A a \in S : Collectable(a), NEW e \in S, NEW m,
           m = Merged(e, {a \in S : Key(a) = Key(e)}),
           NEW o \in OperatorsOf(m)
    PROVE  o.defined <=> \E a \in S : <<Plainly(m), OperatorKey(o)>> \in Bodies(a)
<1> DEFINE alike == {a \in S : Key(a) = Key(e)}
<1>1. e \in alike /\ \A a \in alike : Collectable(a) /\ Key(a) = Key(e)
  OBVIOUS
<1>2. alike \subseteq S /\ m = Merged(e, alike)
  OBVIOUS
<1> HIDE DEF alike
<1>3. /\ Collectable(m) /\ Key(m) = Key(e) /\ m.kind = e.kind
      /\ m.defined <=> \E a \in alike : a.defined
      /\ \A k \in m.operators : k.defined <=> \E a \in alike : \E p \in a.operators :
                                    OperatorKey(p) = OperatorKey(k) /\ p.defined
  <2> DEFINE n == Merged(e, alike)
  <2>1. /\ Collectable(n) /\ Key(n) = Key(e) /\ n.kind = e.kind
        /\ n.defined <=> \E a \in alike : a.defined
        /\ \A k \in n.operators : k.defined <=> \E a \in alike : \E p \in a.operators :
                                      OperatorKey(p) = OperatorKey(k) /\ p.defined
    BY <1>1, MergedIsAlike
  <2>2. m = n
    BY <1>2
  <2> HIDE DEF n
  <2> QED BY <2>1, <2>2
<1>4. \A a \in S : Plainly(a) = Plainly(m) <=> a \in alike
  BY <1>3, KeysArePlain DEF alike
<1>5. \A a \in alike : a.kind = m.kind
  BY <1>1, <1>3, FieldsOfKey
<1>6. CASE m.kind = "operator"
  <2>1. o = m /\ \A a \in alike : OperatorsOf(a) = {a}
    BY <1>1, <1>3, <1>5, <1>6 DEF OperatorsOf, Collectable
  <2>2. \A a \in alike : OperatorKey(a) = OperatorKey(m)
    <3> SUFFICES ASSUME NEW a \in alike PROVE OperatorKey(a) = OperatorKey(m)
      OBVIOUS
    <3>1. a.header = m.header /\ a.namespace = m.namespace /\ a.name = m.name /\ a.sig = m.sig
      BY <1>1, <1>3, FieldsOfKey
    <3>2. a.operators = {} /\ m.operators = {} /\ a.kind = "operator"
      BY <1>1, <1>3, <1>5, <1>6 DEF Collectable
    <3> QED BY <1>1, <1>3, <1>6, <3>1, <3>2, AlikeOperators DEF Collectable
  <2>3. ASSUME NEW a \in alike PROVE <<Plainly(m), OperatorKey(o)>> \in Bodies(a) <=> a.defined
    <3>1. Plainly(a) = Plainly(m) /\ OperatorKey(a) = OperatorKey(o) /\ OperatorsOf(a) = {a}
      BY <1>2, <1>4, <2>1, <2>2
    <3> QED BY <3>1, BodiesOne
  <2>4. \A a \in S : <<Plainly(m), OperatorKey(o)>> \in Bodies(a) => a \in alike
    BY <1>4, BodiesOne
  <2> QED BY <1>2, <1>3, <2>1, <2>3, <2>4
<1>7. CASE m.kind # "operator"
  <2>1. o \in m.operators
    BY <1>7 DEF OperatorsOf
  <2>2. \A a \in alike : OperatorsOf(a) = a.operators
    BY <1>1, <1>5, <1>7 DEF OperatorsOf, Collectable
  <2>3. ASSUME NEW a \in alike
        PROVE  <<Plainly(m), OperatorKey(o)>> \in Bodies(a) <=>
                  \E p \in a.operators : OperatorKey(p) = OperatorKey(o) /\ p.defined
    BY <1>2, <1>4, <2>2, BodiesOne
  <2>4. \A a \in S : <<Plainly(m), OperatorKey(o)>> \in Bodies(a) => a \in alike
    BY <1>4, BodiesOne
  <2> QED BY <1>2, <1>3, <2>1, <2>3, <2>4
<1> QED BY <1>6, <1>7

\* DefinitionsMerged: dedupe_operators and dedupe_records keep the body of an
\* operator whichever unit has shown it, and make none up.
THEOREM BodiesFound == Spec => []DefinitionsMerged
<1>1. ASSUME IInv, CInv, phase = "handed", PathsTell, NEW h \in DOMAIN parts,
             NEW m \in ToSet(parts[h]), NEW o \in OperatorsOf(m)
      PROVE  o.defined <=>
                <<Plainly(m), OperatorKey(o)>> \in UNION {UNION {Bodies(e) : e \in ShownBy(u, h)} : u \in read}
  <2> DEFINE S == CollectedFrom(read)
  <2>1. /\ in \in Inputs /\ read \subseteq Files
        /\ h \in GenerationHeaders /\ Deduped(api, S) /\ \A e \in S : Collectable(e)
        /\ DOMAIN parts[h] = {i \in DOMAIN api : Canonical[api[i].header] = h}
        /\ \A i \in DOMAIN parts[h] : parts[h][i] = api[i]
    BY <1>1, AtHandOut
  <2>2. \A u \in read : \A e \in ShownBy(u, h) : e \in OfHeader(S, h)
    <3> SUFFICES ASSUME NEW u \in read, NEW e \in ShownBy(u, h) PROVE e \in OfHeader(S, h)
      OBVIOUS
    <3>1. \A c \in ToSet(in.shown[u]) : ~c.system /\ Canonical[c.path] = h => ShouldCollect(c)
      BY <1>1, <2>1 DEF PathsTell
    <3> QED BY <2>1, <3>1, ShownIsCollected
  <2>3. \A e \in OfHeader(S, h) : \E u \in read : e \in ShownBy(u, h)
    BY <2>1, CollectedIsShown
  <2> HIDE DEF S
  <2>4. PICK i \in DOMAIN api : m = api[i] /\ Canonical[api[i].header] = h
    BY <2>1 DEF ToSet
  <2>5. PICK e \in S : m = Merged(e, {a \in S : Key(a) = Key(e)}) /\ Collectable(m)
    BY <2>1, <2>4, MergedFrom
  <2>6. o.defined <=> \E a \in S : <<Plainly(m), OperatorKey(o)>> \in Bodies(a)
    BY <2>1, <2>5, MergedBodies
  <2>7. ASSUME NEW a \in S, <<Plainly(m), OperatorKey(o)>> \in Bodies(a)
        PROVE  \E u \in read : a \in ShownBy(u, h)
    <3>1. Plainly(m) = Plainly(a)
      BY <2>7, BodiesOne
    <3>2. m.header = a.header
      BY <2>1, <2>5, <3>1, KeysArePlain, FieldsOfKey
    <3>3. a \in OfHeader(S, h)
      BY <2>4, <3>2 DEF OfHeader
    <3> QED BY <2>3, <3>3
  <2>8. \A u \in read : \A a \in ShownBy(u, h) : a \in S
    BY <2>2 DEF OfHeader
  <2>9. (\E a \in S : <<Plainly(m), OperatorKey(o)>> \in Bodies(a)) <=>
            \E u \in read : \E a \in ShownBy(u, h) : <<Plainly(m), OperatorKey(o)>> \in Bodies(a)
    BY <2>7, <2>8
  <2> QED BY <2>6, <2>9
<1>2. IInv /\ CInv => DefinitionsMerged
  BY <1>1 DEF DefinitionsMerged
<1> QED BY <1>2, Invariant, CollectedAsRead, PTL

(***************************************************************************)
(* What libclang is told                                                   *)
(***************************************************************************)

\* The configuration is resolved once, every unit gets its arguments, and the
\* package those that are exported.
Configured ==
    /\ phase # "given" => /\ config.args = ResolveClangArgs(in.env, in.args) /\ config.dirs = in.dirs
                          /\ config.ldflags = ResolveLdflags(in.env, in.ldflags)
    /\ phase = "visiting" => args = CollectClangArgs(config.args, config.dirs, ParentDir[Head(queue)])
    /\ phase = "handed" => /\ exported.cxx = ExportedCxxflags(in.args, config.args)
                           /\ exported.ld = ExportedLdflags(config.ldflags)

\* So it stays.
LEMMA ConfiguredHolds == Configured /\ [Next]_vars => Configured'
<1> SUFFICES ASSUME Configured, [Next]_vars PROVE Configured'
  OBVIOUS
<1> USE DEF Configured
<1>1. CASE ResolveConfig
  BY <1>1 DEF ResolveConfig
<1>2. CASE ParseUnit
  BY <1>2 DEF ParseUnit
<1>3. CASE Validate \/ OpenIndex \/ ReadDiagnostics \/ DisposeUnit \/ StartSupplement \/ FinishParse
              \/ CloseIndex \/ HandOut
  BY <1>3 DEF Validate, OpenIndex, ReadDiagnostics, DisposeUnit, StartSupplement, FinishParse,
              CloseIndex, HandOut, parseVars
<1>4. CASE SkipCursor \/ EnterNamespace \/ CollectDeclaration
  BY <1>4 DEF SkipCursor, EnterNamespace, CollectDeclaration, visitUnchanged
<1>5. CASE UNCHANGED vars
  BY <1>5 DEF vars
<1> QED BY <1>1, <1>2, <1>3, <1>4, <1>5 DEF Next

\* Configured arguments that are plain.
LEMMA PlainHere ==
    ASSUME NEW raw, IsLine(in.env, raw), PlainOptions(raw)
    PROVE  /\ Plain0(in.env, raw)
           /\ Meant(raw) = CompilerReads(Expanded(in.env, raw))
           /\ CompilerReads(Expanded(in.env, raw)).open = ""
<1> DEFINE env == in.env
<1>1. IsLine(env, raw)
  OBVIOUS
<1>2. Meant(raw) = CompilerReads(Expanded(env, raw)) /\ Meant(raw).open = ""
  BY DEF Meant, Expanded, PlainOptions
<1>3. /\ raw \in Seq(Words)
      /\ \A w \in ToSet(raw) :
            /\ w.kind \in {"none", "rel", "abs", "var"}
            /\ w.kind = "none" => w.name = <<>>
            /\ w.kind = "var" => w.name # <<>> /\ w.name[1] \in DOMAIN env
      /\ \A v \in DOMAIN env : env[v] \in Words
  BY <1>1 DEF IsLine
<1>4. /\ \A i \in DOMAIN raw : /\ raw[i].kind = "none" => raw[i].opt # ""
                               /\ raw[i].opt = "-x" => raw[i].kind = "none"
                               /\ raw[i].opt = "-std=" => raw[i].kind # "none"
      /\ \A i \in DOMAIN raw : i > 1 /\ raw[i - 1].kind = "none" => raw[i].opt = ""
  BY DEF PlainOptions
<1>5. \A i \in DOMAIN raw : raw[i].kind = "var" =>
            /\ Expand(env, [raw[i] EXCEPT !.opt = ""]).opt = ""
            /\ Expand(env, [raw[i] EXCEPT !.opt = ""]).kind \in {"rel", "abs"}
  BY DEF PlainOptions
<1> HIDE DEF env
<1>6. Values(env)
  BY <1>3 DEF Values
<1>7. ASSUME NEW i \in DOMAIN raw
      PROVE  /\ raw[i] \in LineWords(env) /\ raw[i].kind \in {"none", "rel", "abs", "var"}
             /\ raw[i].kind = "none" => raw[i].name = <<>>
             /\ raw[i].kind = "var" => /\ env[raw[i].name[1]].opt = ""
                                       /\ env[raw[i].name[1]].kind \in {"rel", "abs"}
  <2> DEFINE w == raw[i]
             v == [w EXCEPT !.opt = ""]
  <2>1. w \in Words /\ w \in ToSet(raw)
    BY <1>3 DEF ToSet
  <2>2. /\ w.kind \in {"none", "rel", "abs", "var"}
        /\ w.kind = "none" => w.name = <<>>
        /\ w.kind = "var" => w.name # <<>> /\ w.name[1] \in DOMAIN env
    BY <1>3, <2>1
  <2>3. w \in LineWords(env)
    BY <2>1, <2>2 DEF LineWords
  <2>4. v.opt = "" /\ v.kind = w.kind /\ v.name = w.name
    <3> HIDE DEF w
    <3> QED BY <2>1 DEF Words
  <2>5. w.kind = "var" => Expand(env, v).opt = "" /\ Expand(env, v).kind \in {"rel", "abs"}
    BY <1>5
  <2> HIDE DEF v
  <2>6. w.kind = "var" => Expand(env, v) = env[w.name[1]]
    <3> HIDE DEF w
    <3> QED BY <2>4 DEF Expand
  <2> QED BY <2>2, <2>3, <2>5, <2>6
<1>8. raw \in Seq(LineWords(env))
  <2> DEFINE n == Len(raw)
  <2>1. raw = [i \in 1..n |-> raw[i]] /\ n \in Nat /\ DOMAIN raw = 1..n
    BY <1>3
  <2> HIDE DEF n
  <2>2. \A i \in 1..n : raw[i] \in LineWords(env)
    BY <1>7, <2>1
  <2>3. raw \in [1..n -> LineWords(env)]
    BY <2>1, <2>2
  <2> QED BY <2>1, <2>3
<1>9. Plain0(env, raw)
  BY <1>4, <1>6, <1>7, <1>8 DEF Plain0
<1> QED BY <1>2, <1>9 DEF env

\* A directory that is looked in is among those of the command line.
LEMMA LooksLead ==
    ASSUME NEW b, NEW d, LooksIn(b, Place(d))
    PROVE  d \in ToSet(AllAt(<<>>, b.dirs)) \cup ToSet(AllAt(<<>>, b.systemDirs))
<1>1. ASSUME NEW s, Has(s, Place(d)) PROVE d \in ToSet(AllAt(<<>>, s))
  <2>1. PICK i \in DOMAIN s : s[i] = Place(d)
    BY <1>1 DEF Has
  <2>2. At(<<>>, s[i]) = d
    BY <2>1, PlaceLeads
  <2>3. i \in DOMAIN AllAt(<<>>, s) /\ AllAt(<<>>, s)[i] = d
    BY <2>2 DEF AllAt
  <2> QED BY <2>3 DEF ToSet
<1> QED BY <1>1 DEF LooksIn

\* What libclang reads for the unit that is visited.
LEMMA ReadHere ==
    ASSUME IInv, Configured
    PROVE  ParseReadsArguments
<1> SUFFICES ASSUME phase = "visiting", PlainOptions(in.args) PROVE ParseReadsArguments
  BY DEF ParseReadsArguments
<1> DEFINE b == CompilerReads(args)
           m == Meant(in.args)
           parent == ParentDir[Head(queue)]
           places == AllAt(<<>>, b.dirs)
<1>1. in \in Inputs /\ queue \in Seq(Files) /\ queue # <<>>
  BY DEF IInv, Typed, Opened, UnitIsOpen
<1>2. /\ config.dirs = in.dirs
      /\ args = CollectClangArgs(ResolveClangArgs(in.env, in.args), config.dirs, parent)
  BY DEF Configured
<1>3. config.dirs \in Seq(Dirs)
  BY <1>1, <1>2, InputsAssumption DEF Dirs
<1>4. parent \in Dirs
  <2>1. Head(queue) \in Files
    BY <1>1, HeadAndTail
  <2>2. Head(queue) \in Paths
    BY <2>1, FilesAreFinite
  <2> QED BY <2>2, PathsAssumption DEF Dirs
<1>5. /\ Plain0(in.env, in.args) /\ m = CompilerReads(Expanded(in.env, in.args))
      /\ CompilerReads(Expanded(in.env, in.args)).open = ""
  <2>1. IsLine(in.env, in.args)
    BY <1>1, InputsAssumption
  <2> QED BY <2>1, PlainHere
<1>6. ReadsAsMeant(b, m, config.dirs, parent)
  <2> HIDE DEF parent, m
  <2> QED BY <1>2, <1>3, <1>4, <1>5, CollectedReads
<1> HIDE DEF b, m, parent
<1>7. /\ b \in Accumulators /\ m \in Accumulators
      /\ b.open = "" /\ b.files = m.files /\ b.defines = m.defines
      /\ b.language = OrDefault(m.language, DefaultLanguage)
      /\ b.standard = OrDefault(m.standard, DefaultStandard)
      /\ SamePlaces(b.systemDirs, m.systemDirs)
      /\ \A i \in 1..Len(config.dirs) : LooksIn(b, Place(config.dirs[i]))
      /\ LooksIn(b, Place(parent))
  BY <1>6 DEF ReadsAsMeant
<1>8. PICK ds \in Seq(Words) : SamePlaces(ds, m.dirs) /\ Grown(ds, b.dirs)
  BY <1>6 DEF ReadsAsMeant
<1>9. /\ m.dirs \in Seq(Words) /\ m.systemDirs \in Seq(Words) /\ b.systemDirs \in Seq(Words)
  BY <1>7 DEF Accumulators
<1>10. /\ SubSeq(places, 1, Len(m.dirs)) = AllAt(Base, m.dirs)
       /\ \A i \in Len(m.dirs) + 1..Len(places) : ~Contains(SubSeq(places, 1, i - 1), places[i])
  BY <1>8, <1>9, GrownLead
<1>11. AllAt(<<>>, b.systemDirs) = AllAt(Base, m.systemDirs)
  BY <1>7, <1>9, PlacesLead
<1>12. ToSet(config.dirs) \cup {parent} \subseteq ToSet(places) \cup ToSet(AllAt(<<>>, b.systemDirs))
  <2>1. parent \in ToSet(places) \cup ToSet(AllAt(<<>>, b.systemDirs))
    BY <1>7, LooksLead
  <2>2. ASSUME NEW d \in ToSet(config.dirs) PROVE d \in ToSet(places) \cup ToSet(AllAt(<<>>, b.systemDirs))
    <3>1. PICK i \in 1..Len(config.dirs) : config.dirs[i] = d
      BY <1>3, <2>2 DEF ToSet
    <3>2. LooksIn(b, Place(d))
      BY <1>7, <3>1
    <3> QED BY <3>2, LooksLead
  <2> QED BY <2>1, <2>2
<1> HIDE DEF places
<1>13. /\ b.language = (IF m.language = Option("") THEN Word("", "rel", <<"c++">>) ELSE m.language)
       /\ b.standard = (IF m.standard = Option("") THEN Word("", "rel", <<"c++17">>) ELSE m.standard)
  BY <1>7 DEF OrDefault, Nothing, DefaultLanguage, DefaultStandard
<1> QED BY <1>7, <1>10, <1>11, <1>12, <1>13 DEF ParseReadsArguments, b, m, parent, places

\* libclang reads the arguments of every unit as the configuration means them,
\* then looks where the configuration's directories and the unit are, each
\* place once.
THEOREM ArgumentsAsMeant == Spec => []ParseReadsArguments
<1>1. Init => Configured
  BY DEF Init, Configured
<1>2. IInv /\ Configured => ParseReadsArguments
  BY ReadHere
<1>3. Spec => []Configured
  BY <1>1, ConfiguredHolds, PTL DEF Spec
<1> QED BY <1>2, <1>3, Invariant, PTL

\* What the package is compiled with.
LEMMA IncludesHere ==
    ASSUME IInv, Configured, phase = "handed"
    PROVE  IncludesAgree
<1> SUFFICES ASSUME PlainOptions(in.args) PROVE IncludesAgree
  BY DEF IncludesAgree
<1> DEFINE f == ExportedCxxflags(in.args, ResolveClangArgs(in.env, in.args))
           b == CompilerReads(f)
           m == CompilerReads(Expanded(in.env, in.args))
<1>1. in \in Inputs
  BY DEF IInv, Typed
<1>2. Plain0(in.env, in.args) /\ Meant(in.args) = m
  <2>1. IsLine(in.env, in.args)
    BY <1>1, InputsAssumption
  <2> QED BY <2>1, PlainHere
<1>3. exported.cxx = f
  BY DEF Configured
<1>4. BuiltLike(f, m)
  BY <1>2, ExportRead
<1> HIDE DEF f, m
<1>5. /\ b.open = "" /\ b.files = <<>> /\ b.defines = m.defines /\ b.standard = m.standard
      /\ SameLook(b.dirs, m.dirs)
  BY <1>4 DEF BuiltLike
<1> HIDE DEF b
<1>6. CompilerReads(exported.cxx) = b
  BY <1>3 DEF b
<1> QED BY <1>2, <1>5, <1>6 DEF IncludesAgree, SameLook

\* What the linker is given.
LEMMA LibrariesHere ==
    ASSUME IInv, Configured, phase = "handed"
    PROVE  LibrariesAgree
<1> SUFFICES ASSUME PlainOptions(in.ldflags) PROVE LibrariesAgree
  BY DEF LibrariesAgree
<1> DEFINE f == ExportedLdflags(ResolveLdflags(in.env, in.ldflags))
           b == CompilerReads(f)
           m == CompilerReads(Expanded(in.env, in.ldflags))
<1>1. in \in Inputs
  BY DEF IInv, Typed
<1>2. Plain0(in.env, in.ldflags) /\ Meant(in.ldflags) = m
  <2>1. IsLine(in.env, in.ldflags)
    BY <1>1, InputsAssumption
  <2> QED BY <2>1, PlainHere
<1>3. exported.ld = f
  BY DEF Configured
<1>4. LinkedLike(b, m)
  BY <1>2, LinkRead
<1>5. CompilerReads(exported.ld) = b
  BY <1>3
<1> HIDE DEF b, m
<1>6. /\ AllWalked(OutputDir, b.libraryDirs) = AllWalked(Base, m.libraryDirs)
      /\ SameFiles(b.files, m.files) /\ b \in Accumulators /\ m \in Accumulators
  BY <1>4 DEF LinkedLike
<1>7. DOMAIN b.files = 1..Len(b.files) /\ DOMAIN m.files = 1..Len(m.files)
  <2>1. b.files \in Seq(Words) /\ m.files \in Seq(Words)
    BY <1>6 DEF Accumulators
  <2> QED BY <2>1
<1>8. /\ DOMAIN b.files = DOMAIN m.files
      /\ \A i \in DOMAIN m.files :
            IF IsLibraryFile(m.files[i])
            THEN Walk(At(OutputDir, b.files[i])) = Walk(At(Base, m.files[i]))
            ELSE b.files[i] = m.files[i]
  BY <1>6, <1>7 DEF SameFiles, SameFile, LeadsTo
<1> QED BY <1>2, <1>5, <1>6, <1>8 DEF LibrariesAgree

\* The package is compiled and linked with what the configuration means,
\* directories and libraries leading from the package to the same places.
THEOREM BuildAsMeant == Spec => []BuildAgrees
<1>1. Init => Configured
  BY DEF Init, Configured
<1>2. IInv /\ Configured => BuildAgrees
  BY IncludesHere, LibrariesHere DEF BuildAgrees
<1>3. Spec => []Configured
  BY <1>1, ConfiguredHolds, PTL DEF Spec
<1> QED BY <1>2, <1>3, Invariant, PTL
===============================================================================
