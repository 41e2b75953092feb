SPECIFICATION Spec
CONSTANTS
    Texts <- AllTexts
    Base <- BaseDir
    OutputDir <- PackageDir
    LibraryFiles <- Libraries
    Inputs <- AllInputs
    Paths <- AllPaths
    Entries <- DirectoryEntries
    Canonical <- LeadTo
    ParentDir <- Parents
    Extension <- Extensions
INVARIANTS
    TypeOK
    UnitsReleased
    FailureStopsAll
    EveryDeclarationRead
    HandedOutOnce
    DefinitionsMerged
    ParseReadsArguments
    BuildAgrees
PROPERTY
    RunEnds
CHECK_DEADLOCK FALSE
