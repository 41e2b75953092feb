---------------------------- MODULE SymbolNames ----------------------------
(***************************************************************************)
(* The names of the C symbols: src/codegen/ir_norm/naming.rs, and in       *)
(* src/codegen/ir_norm.rs what becomes of functions that get one name.     *)
(*                                                                         *)
(* A symbol is a sequence of words and underscores, as identifiers are in  *)
(* TypeNorm.                                                               *)
(***************************************************************************)
EXTENDS TypeNorm, FiniteSets

CONSTANT Lower              \* the lower-case form of the words that have another

LowerCase(w) == IF w \in DOMAIN Lower THEN Lower[w] ELSE w

Join(parts) == Tail(FlattenSeq([i \in DOMAIN parts |-> <<"_">> \o parts[i]]))

Unqualified(ns, owner, tail) ==         \* mutant: the namespace is left out
    Join(<<<<"cgowrap">>>> \o owner \o <<tail>>)

\* symbol_name
SymbolName(ns, owner, tail) ==
    Join(<<<<"cgowrap">>>> \o ns \o owner \o <<tail>>)

\* All that is no letter or digit.
Separator == {"_", "*", " ", "<", "["}

\* sanitize_symbol_token: lower case, and one underscore between words.
Sanitize(base) ==
    LET text == Join(base)
        words == {i \in DOMAIN text : text[i] \notin Separator}
        kept == {i \in DOMAIN text : i \in words \/
                   (i - 1 \in words /\ \E j \in words : j > i)}
    IN  [n \in 1 .. Cardinality(kept) |->
            LET i == CHOOSE i \in kept : Cardinality({j \in kept : j <= i}) = n
            IN  IF i \in words THEN LowerCase(text[i]) ELSE "_"]

\* Of a type's text, const is a word of its own for a type that is not a class.
CppWords(s) == IF s.const THEN <<<<"const">>>> \o s.base ELSE s.base

\* type_signature_token, without the lengths of arrays.
Token(t) ==
    CASE t.kind \in {"Primitive", "Void"}  -> Sanitize(CppWords(t.cpp))
      [] t.kind = "Enum"                   -> <<"enum_">> \o Sanitize(t.cpp.base)
      [] t.kind = "CString"                -> <<IF t.cpp.const THEN "c_str" ELSE "mut_c_str">>
      [] t.kind = "String"                 -> <<"string">>
      [] t.kind = "FixedByteArray"         -> <<"byte_array">>
      [] t.kind = "Pointer"                -> <<"ptr_">> \o Sanitize(CppWords(t.cpp))
      [] t.kind = "Reference"              -> <<"ref_">> \o Sanitize(CppWords(t.cpp))
      [] t.kind = "ExternStructPointer"    -> <<"extern_ptr_">> \o Sanitize(t.cpp.base)
      [] t.kind = "ExternStructReference"  -> <<"extern_ref_">> \o Sanitize(t.cpp.base)
      [] t.kind = "ModelReference"         -> <<"model_ref_">> \o Sanitize(t.cpp.base)
      [] t.kind = "ModelPointer"           -> <<"model_ptr_">> \o Sanitize(t.cpp.base)
      [] t.kind = "ModelValue"             -> <<"model_value_">> \o Sanitize(t.cpp.base)
      [] t.kind = "Callback"               -> <<"callback_">> \o Sanitize(CppWords(t.cpp))
      [] t.kind = "FixedArray"             -> <<"array_">> \o Sanitize(t.cpp.base)
      [] t.kind = "FixedModelArray"        -> <<"model_array_">> \o Sanitize(<<t.handle>>)

Constness(f) ==
    IF f.kind # "Method" THEN << >> ELSE <<<<IF f.const THEN "const" ELSE "mut">>>>

\* overload_suffix (of a method, self is not among params)
OverloadSuffix(f) ==
    Join((IF f.params = << >> THEN <<<<"void">>>>
          ELSE [i \in DOMAIN f.params |-> Token(f.params[i])]) \o Constness(f))

Numeral == <<"1", "2", "3", "4", "5", "6", "7", "8", "9">>

Candidate(f) == f.name \o <<"_", "_">> \o OverloadSuffix(f)

\* The name of the i-th function among others of its name: repetitions of one
\* suffix are numbered.
Renamed(fs, i) ==
    LET nth == Cardinality({j \in 1 .. i :
                  fs[j].name = fs[i].name /\ Candidate(fs[j]) = Candidate(fs[i])})
    IN  IF nth = 1 THEN Candidate(fs[i])
        ELSE Candidate(fs[i]) \o <<"_", Numeral[nth]>>

\* assign_unique_function_symbols
AssignUnique(fs) ==
    [i \in DOMAIN fs |->
        IF \E j \in DOMAIN fs : j # i /\ fs[j].name = fs[i].name
        THEN [fs[i] EXCEPT !.name = Renamed(fs, i)] ELSE fs[i]]

\* ensure_unique_function_symbols
SymbolsUnique(fs) ==
    \A i, j \in DOMAIN fs : fs[i].name = fs[j].name => i = j
=============================================================================
