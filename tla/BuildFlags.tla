------------------------------ MODULE BuildFlags ------------------------------
(***************************************************************************)
(* The compiler and linker arguments of a configuration: resolved against  *)
(* the configuration's directory (src/config.rs), completed for libclang   *)
(* (src/parsing/compiler.rs), and exported to the generated package's cgo  *)
(* flags (src/codegen/c_abi.rs).                                           *)
(***************************************************************************)
EXTENDS Integers, Sequences, SequencesExt

CONSTANTS
    Texts,                  \* options, and components of paths
    Base,                   \* the configuration's directory, a path
    OutputDir,              \* the directory of the generated package, a path
    LibraryFiles            \* file names that end in .a, .so, .dylib, .o, .obj

(* A path is a sequence of components, ".." being one up, among directories *)
(* without links.  An argument is a word                                    *)
(*   [opt, kind, name]                                                      *)
(* of an option ("" without one) and the text that follows it in the same   *)
(* word: "none", a "rel"ative or "abs"olute path, or a "var"iable.  A       *)
(* variable that is not set expands to "unset".                             *)

Word(opt, kind, name) == [opt |-> opt, kind |-> kind, name |-> name]
Option(opt) == Word(opt, "none", <<>>)

\* The package's directory is there and canonical when flags are exported: absolute_output_dir.
ASSUME TextsAssumption ==
    /\ {"", "-I", "-x", "-std=", "c++", "c++17", ".."} \subseteq Texts
    /\ Base \in Seq(Texts) /\ OutputDir \in Seq(Texts) /\ ~Contains(OutputDir, "..")

Kinds == {"none", "rel", "abs", "var", "unset", "src"}
Words == [opt : Texts, kind : Kinds, name : Seq(Texts)]

\* Arguments as they are written, and what their variables stand for.
IsLine(env, words) ==
    /\ words \in Seq(Words)
    /\ \A w \in ToSet(words) :
          /\ w.kind \in {"none", "rel", "abs", "var"}
          /\ w.kind = "none" => w.name = <<>>
          /\ w.kind = "var" => w.name # <<>> /\ w.name[1] \in DOMAIN env
    /\ \A v \in DOMAIN env : env[v] \in Words

(***************************************************************************)
(* Resolution: config.rs.                                                  *)
(***************************************************************************)

\* A word read as plain text: the value of an option in the word before it.
AsText(w) == IF w.opt = "" THEN w ELSE Word("", "rel", <<w.opt>> \o w.name)

\* One pass: what a variable stands for is not looked at again.
Expand(env, w) ==
    IF w.kind # "var" THEN w
    ELSE IF w.opt = "" THEN env[w.name[1]]
    ELSE [AsText(env[w.name[1]]) EXCEPT !.opt = w.opt]

\* resolve_relative_config_path_arg, which canonicalizes what is there: ".." may stay.
ResolvePath(env, w) ==
    LET text == AsText(Expand(env, w)) IN
    IF text.kind \in {"none", "abs", "unset"} THEN text
    ELSE Word("", "abs", Base \o text.name)

ResolveJoined(env, w) == [ResolvePath(env, [w EXCEPT !.opt = ""]) EXCEPT !.opt = w.opt]

\* mutant: the value of an option in a word of its own is not rewritten
JoinedOnly(env, acc, w) ==
    [args |-> Append(acc.args, IF w.opt \in {"-I", "-isystem"} /\ w.kind # "none"
                               THEN ResolveJoined(env, w) ELSE Expand(env, w)),
     detached |-> FALSE]

ResolveClangArg(env, acc, w) ==
    IF acc.detached
    THEN [args |-> Append(acc.args, ResolvePath(env, w)), detached |-> FALSE]
    ELSE [args |-> Append(acc.args, IF w.opt \in {"-I", "-isystem"}
                                    THEN ResolveJoined(env, w) ELSE Expand(env, w)),
          detached |-> w.opt \in {"-I", "-isystem"} /\ w.kind = "none"]

ResolveClangArgs(env, args) ==
    FoldLeft(LAMBDA acc, w : ResolveClangArg(env, acc, w),
             [args |-> <<>>, detached |-> FALSE], args).args

\* is_relative_library_file_arg, is_direct_library_file_ldflag
IsLibraryFile(w) ==
    w.opt = "" /\ w.kind \in {"rel", "abs"} /\ w.name # <<>> /\ Last(w.name) \in LibraryFiles

\* What follows -L is expanded before it is resolved, which expands it again.
ResolveSearchDir(env, w) == ResolvePath(env, Expand(env, w))

ResolveLdflag(env, acc, w) ==
    LET expanded == Expand(env, w)
        dir == ResolveSearchDir(env, [w EXCEPT !.opt = ""]) IN
    IF acc.detached
    THEN [args |-> Append(acc.args, ResolveSearchDir(env, w)), detached |-> FALSE]
    ELSE [args |-> Append(acc.args,
                          IF w.opt = "-L" THEN [dir EXCEPT !.opt = "-L"]
                          ELSE IF IsLibraryFile(expanded) THEN ResolvePath(env, expanded)
                          ELSE expanded),
          detached |-> w.opt = "-L" /\ w.kind = "none"]

ResolveLdflags(env, flags) ==
    FoldLeft(LAMBDA acc, w : ResolveLdflag(env, acc, w),
             [args |-> <<>>, detached |-> FALSE], flags).args

\* Whether a variable was not set: loading the configuration fails.
Unresolved(args) == \E i \in DOMAIN args : args[i].kind = "unset"

(***************************************************************************)
(* Completion for libclang: compiler.rs.                                   *)
(***************************************************************************)

IsInclude(w) == w.opt \in {"-I", "-isystem"}

ScanArg(dir, acc, w) ==
    [found |-> \/ acc.found
               \/ acc.detached /\ w = Word("", "abs", dir)
               \/ ~acc.detached /\ IsInclude(w) /\ w.kind = "abs" /\ w.name = dir,
     detached |-> ~acc.detached /\ IsInclude(w) /\ w.kind = "none"]

\* The scan of add_include_if_missing, which skips the values of options.
Mentions(args, dir) ==
    FoldLeft(LAMBDA acc, w : ScanArg(dir, acc, w), [found |-> FALSE, detached |-> FALSE], args).found

AddIncludeIfMissing(args, dir) ==
    IF Mentions(args, dir) THEN args ELSE Append(args, Word("-I", "abs", dir))

\* add_input_dir_includes, add_parse_entry_parent_include
AddIncludes(args, dirs, parent) ==
    AddIncludeIfMissing(FoldLeft(AddIncludeIfMissing, args, dirs), parent)

\* The platform's own directories, which follow, are left out.
CollectClangArgs(args, dirs, parent) ==
    LET language == IF \E i \in DOMAIN args : args[i] = Option("-x") THEN <<>>
                    ELSE <<Option("-x"), Word("", "rel", <<"c++">>)>>
        standard == IF \E i \in DOMAIN args : args[i].opt = "-std=" THEN <<>>
                    ELSE <<Word("-std=", "rel", <<"c++17">>)>> IN
    AddIncludes(args \o language \o standard, dirs, parent)

\* The last standard and the last language count; a word left over is a file.
Take(acc, opt, text) ==
    CASE opt = "-I" -> [acc EXCEPT !.dirs = Append(@, text)]
      [] opt = "-isystem" -> [acc EXCEPT !.systemDirs = Append(@, text)]
      [] opt = "-L" -> [acc EXCEPT !.libraryDirs = Append(@, text)]
      [] opt = "-D" -> [acc EXCEPT !.defines = Append(@, text)]
      [] opt = "-x" -> [acc EXCEPT !.language = text]
      [] opt = "-std=" -> [acc EXCEPT !.standard = text]
      [] OTHER -> [acc EXCEPT !.files = Append(@, text)]

\* The text that follows a known option in its word; other words stay as they are.
ValueOf(w) == IF w.opt \in {"-I", "-isystem", "-L", "-D", "-x", "-std="} THEN [w EXCEPT !.opt = ""] ELSE w

\* An option without text takes the next word.
ReadWord(acc, w) ==
    IF acc.open # "" THEN [Take(acc, acc.open, AsText(w)) EXCEPT !.open = ""]
    ELSE IF w.kind = "none" THEN [acc EXCEPT !.open = w.opt]
    ELSE Take(acc, w.opt, ValueOf(w))

NothingRead ==
    [dirs |-> <<>>, systemDirs |-> <<>>, libraryDirs |-> <<>>, defines |-> <<>>, files |-> <<>>,
     language |-> Option(""), standard |-> Option(""), open |-> ""]

\* How a compiler reads arguments.
CompilerReads(args) == FoldLeft(ReadWord, NothingRead, args)

\* What a path of the command line stands for in a directory, and where that leads.
At(dir, w) ==
    CASE w.kind = "abs" -> w.name
      [] w.kind = "src" -> OutputDir \o w.name
      [] OTHER -> dir \o w.name

StepTo(at, c) == IF c = ".." THEN Front(at) ELSE Append(at, c)

Walk(path) == FoldLeft(StepTo, <<>>, path)

AllAt(dir, ws) == [i \in DOMAIN ws |-> At(dir, ws[i])]

AllWalked(dir, ws) == [i \in DOMAIN ws |-> Walk(At(dir, ws[i]))]

FirstOnes(s) == FoldLeft(LAMBDA acc, x : IF Contains(acc, x) THEN acc ELSE Append(acc, x), <<>>, s)

(***************************************************************************)
(* Export to cgo: c_abi.rs.                                                *)
(***************************************************************************)

\* mutant: the step up from the last common directory is missing
OneUpShort(path, base) ==
    LET common == LongestCommonPrefix({path, base})
        ups == Len(base) - Len(common) IN
    [i \in 1..(IF ups > 1 THEN ups - 1 ELSE ups) |-> ".."] \o SubSeq(path, Len(common) + 1, Len(path))

RelativePathFrom(path, base) ==
    LET common == LongestCommonPrefix({path, base}) IN
    [i \in 1..(Len(base) - Len(common)) |-> ".."] \o SubSeq(path, Len(common) + 1, Len(path))

\* Written after ${SRCDIR}: relative to the package.
FromPackage(path) == Word("", "src", RelativePathFrom(path, OutputDir))

ExportedIncludePath(raw, resolved) ==
    IF raw.kind \in {"var", "abs"} \/ resolved.kind # "abs" THEN resolved
    ELSE FromPackage(resolved.name)

\* The text of a joined include: raw_arg.strip_prefix("-I"), or the resolved one.
RawInclude(raw, resolved) == IF raw.opt = "-I" THEN [raw EXCEPT !.opt = ""] ELSE [resolved EXCEPT !.opt = ""]

\* The word after an option that stands alone.
ExportValue(acc, raw, resolved) ==
    CASE acc.open = "-I" ->
            acc.flags \o <<Option("-I"), ExportedIncludePath(AsText(raw), AsText(resolved))>>
      [] acc.open = "-D" -> acc.flags \o <<Option("-D"), resolved>>
      [] OTHER -> acc.flags

\* A joined include is exported once; -isystem and other options are not exported.
ExportJoined(acc, raw, resolved) ==
    LET path == ExportedIncludePath(RawInclude(raw, resolved), [resolved EXCEPT !.opt = ""])
        include == [path EXCEPT !.opt = "-I"] IN
    CASE resolved.opt = "-I" ->
            IF include \in ToSet(acc.flags) THEN acc.flags ELSE Append(acc.flags, include)
      [] resolved.opt \in {"-D", "-std="} -> Append(acc.flags, resolved)
      [] OTHER -> acc.flags

ExportCxxflag(acc, raw, resolved) ==
    IF acc.open # "" THEN [flags |-> ExportValue(acc, raw, resolved), open |-> ""]
    ELSE IF resolved.kind = "none" /\ resolved.opt \in {"-I", "-D", "-isystem"}
    THEN [acc EXCEPT !.open = resolved.opt]
    ELSE [acc EXCEPT !.flags = ExportJoined(acc, raw, resolved)]

\* An option at the end of the arguments is dropped.
ExportedCxxflags(raw, resolved) ==
    FoldLeftDomain(LAMBDA acc, i : ExportCxxflag(acc, raw[i], resolved[i]),
                   [flags |-> <<Word("-I", "src", <<>>)>>, open |-> ""], resolved).flags

ExportedLdflag(flag) ==
    IF ~IsLibraryFile(flag) THEN flag
    ELSE IF flag.kind = "rel" THEN [flag EXCEPT !.kind = "src"]
    ELSE FromPackage(flag.name)

ExportedLdflags(flags) == [i \in DOMAIN flags |-> ExportedLdflag(flags[i])]
===============================================================================
