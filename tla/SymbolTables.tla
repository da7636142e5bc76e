---------------------------- MODULE SymbolTables ----------------------------
(* What the walkers make of a file in each language: its symbols and what they  *)
(* belong to, its imports, and its calls with the symbol that makes each        *)
(* (src/parser/walkers; TypeScript, which has more cases, is CallSites).        *)
EXTENDS Integers, Sequences, FiniteSetsExt

CONSTANTS
    Sheets,     \* syntax trees: [lang, type, up], a node's parent a smaller one, or 0
    Unread

(* A language is a table.  Each of its rules says what a declaration is, given    *)
(* what it is declared in: <<node type, declared in, kind of symbol, then>>.     *)
(* Then: "walk" its body, "stop"; or it is no symbol, and its children are       *)
(* declared where it is ("through"), under a name only ("named"), or in the type *)
(* that it names ("impl").  "rest": what follows in the file is declared in it.  *)
(* Functions are walked for calls if their type is among the scopes, under a     *)
(* symbol whose kind is among the owners.  Imports are found at the top or       *)
(* everywhere.  A type without a rule is neither a symbol nor walked.            *)
Types == {"class", "interface", "enum"}
Anywhere == Types \cup {"none", "module", "function", "method", "impl", "decorator"}
Callers == {"function", "method"}

Python ==
    [rules |-> {<<"function_definition", {"class"}, "method", "walk">>,
                <<"function_definition", Anywhere \ {"class"}, "function", "walk">>,
                <<"class_definition", Anywhere, "class", "walk">>,
                <<"decorated_definition", Anywhere, "none", "through">>,
                <<"assignment", {"none"}, "constant", "stop">>},
     scopes |-> {"function_definition"}, owners |-> Callers, imports |-> "top"]

Go ==
    [rules |-> {<<"function_declaration", {"none"}, "function", "stop">>,
                <<"method_declaration", {"none"}, "method", "stop">>,
                <<"type_declaration", {"none"}, "none", "through">>,
                <<"struct_type", {"none"}, "class", "stop">>,
                <<"interface_type", {"none"}, "interface", "stop">>,
                <<"const_spec", {"none"}, "constant", "stop">>},
     scopes |-> {"function_declaration", "method_declaration"}, owners |-> Callers, imports |-> "top"]

Rust ==
    [rules |-> {<<"function_item", {"none"}, "function", "stop">>,
                <<"function_item", Anywhere \ {"none"}, "method", "stop">>,
                <<"struct_item", Anywhere, "class", "stop">>,
                <<"trait_item", Anywhere, "interface", "walk">>,
                <<"mod_item", Anywhere, "module", "walk">>,
                <<"impl_item", Anywhere, "none", "impl">>},
     scopes |-> {"function_item"}, owners |-> Callers, imports |-> "top"]

Java ==
    [rules |-> {<<"class_declaration", Anywhere, "class", "walk">>,
                <<"interface_declaration", Anywhere, "interface", "walk">>,
                <<"enum_declaration", Anywhere, "enum", "walk">>,
                <<"annotation_type_declaration", Anywhere, "decorator", "walk">>,
                <<"method_declaration", Anywhere, "method", "stop">>,
                <<"constructor_declaration", Anywhere, "method", "stop">>},
     scopes |-> {"method_declaration", "constructor_declaration"}, owners |-> {"method"}, imports |-> "top"]

CSharp ==
    [rules |-> {<<"namespace_declaration", Anywhere, "module", "walk">>,
                <<"file_scoped_namespace_declaration", Anywhere, "module", "rest">>,
                <<"class_declaration", Anywhere, "class", "walk">>,
                <<"interface_declaration", Anywhere, "interface", "walk">>,
                <<"method_declaration", Anywhere, "method", "stop">>,
                <<"constructor_declaration", Anywhere, "method", "stop">>},
     scopes |-> {"method_declaration", "constructor_declaration"}, owners |-> {"method"}, imports |-> "top"]

Kotlin ==
    [rules |-> {<<"class_declaration", Anywhere, "class", "walk">>,
                <<"object_declaration", Anywhere, "class", "walk">>,
                <<"function_declaration", Types, "method", "stop">>,
                <<"function_declaration", {"none"}, "function", "stop">>,
                <<"property_declaration", Types \cup {"none"}, "variable", "stop">>,
                <<"companion_object", Anywhere, "none", "through">>},
     scopes |-> {"function_declaration"}, owners |-> Callers, imports |-> "everywhere"]

Swift ==
    [rules |-> {<<"class_declaration", Anywhere, "class", "walk">>,
                <<"protocol_declaration", Anywhere, "interface", "walk">>,
                <<"extension_declaration", Anywhere, "none", "through">>,
                <<"function_declaration", Types, "method", "stop">>,
                <<"function_declaration", {"none"}, "function", "stop">>,
                <<"init_declaration", Anywhere, "method", "stop">>,
                <<"property_declaration", Types \cup {"none"}, "variable", "stop">>},
     scopes |-> {"function_declaration", "init_declaration", "subscript_declaration", "deinit_declaration"},
     owners |-> Callers, imports |-> "everywhere"]

Php ==
    [rules |-> {<<"namespace_definition", Anywhere, "none", "named">>,
                <<"class_declaration", Anywhere, "class", "walk">>,
                <<"enum_declaration", Anywhere, "enum", "walk">>,
                <<"function_definition", Anywhere, "function", "stop">>,
                <<"method_declaration", Anywhere, "method", "stop">>,
                <<"const_element", Anywhere, "constant", "stop">>},
     scopes |-> {"function_definition", "method_declaration"}, owners |-> Callers, imports |-> "everywhere"]

Ruby ==
    [rules |-> {<<"body_statement", Anywhere, "none", "through">>,
                <<"class", Anywhere, "class", "walk">>,
                <<"module", Anywhere, "module", "walk">>,
                <<"method", {"class", "module"}, "method", "stop">>,
                <<"method", {"none"}, "function", "stop">>,
                <<"singleton_method", {"class", "module"}, "method", "stop">>,
                <<"assignment", {"none"}, "constant", "stop">>},
     scopes |-> {"method", "singleton_method"}, owners |-> Callers, imports |-> "everywhere"]

Cpp ==
    [rules |-> {<<"function_definition", {"none"}, "function", "stop">>,
                <<"function_definition", Anywhere \ {"none"}, "method", "stop">>,
                <<"class_specifier", Anywhere, "class", "walk">>,
                <<"enum_specifier", Anywhere, "enum", "stop">>,
                <<"namespace_definition", Anywhere, "module", "walk">>,
                <<"template_declaration", Anywhere, "none", "through">>},
     scopes |-> {"function_definition"}, owners |-> Callers, imports |-> "everywhere"]

\* The registry of the walkers.
WALKERS == [python |-> Python, go |-> Go, rust |-> Rust, java |-> Java, csharp |-> CSharp,
            kotlin |-> Kotlin, swift |-> Swift, php |-> Php, ruby |-> Ruby, cpp |-> Cpp]

-----------------------------------------------------------------------------
VARIABLES
    sheet,      \* the file
    parsed       \* Unread, or [symbols, imports, calls]

reading == <<sheet, parsed>>

ReadInit == sheet \in Sheets /\ parsed = Unread

Lang == WALKERS[sheet.lang]
Spots == DOMAIN sheet.type
Upwards == LET F[i \in Spots] == {i} \cup (IF sheet.up[i] = 0 THEN {} ELSE F[sheet.up[i]]) IN F

\* A node that no rule knows ends the walk.
Rule(type, in) ==
    LET fit == {x \in Lang.rules : x[1] = type /\ in \in x[2]}
    IN  IF fit = {} THEN [kind |-> "none", then |-> "stop"]
        ELSE LET x == CHOOSE x \in fit : TRUE IN [kind |-> x[3], then |-> x[4]]

\* A namespace for the rest of the file, before i: the first one claims all that follows.
Claim(i) == {j \in 1 .. i - 1 : sheet.type[j] = "file_scoped_namespace_declaration" /\ sheet.up[j] = 0
                                /\ sheet.up[i] = 0}

AtTop == [seen |-> TRUE, parent |-> 0, path |-> <<>>, in |-> "none"]
Under(at, i, kind) == [at EXCEPT !.parent = i, !.path = Append(@, i), !.in = kind]

FileStart(i) == IF Claim(i) = {} THEN AtTop ELSE Under(AtTop, Min(Claim(i)), "module")

\* extractInBody: where the children of a node are declared, and where a node is.
Handed ==
    LET H[i \in Spots] ==
            LET at == IF sheet.up[i] = 0 THEN FileStart(i) ELSE H[sheet.up[i]]
                rule == Rule(sheet.type[i], at.in)
            IN  CASE rule.then = "walk" -> Under(at, i, rule.kind)
                  [] rule.then = "through" -> at
                  [] rule.then = "named" -> [at EXCEPT !.path = Append(@, i)]
                  [] rule.then = "impl" -> [at EXCEPT !.path = <<i>>, !.in = "impl"]
                  [] rule.then \in {"stop", "rest"} -> [at EXCEPT !.seen = FALSE]
    IN  H
Declared(i) == IF sheet.up[i] = 0 THEN FileStart(i) ELSE Handed[sheet.up[i]]

KindOf(i) == IF Declared(i).seen THEN Rule(sheet.type[i], Declared(i).in).kind ELSE "none"

(* Mutant: the first symbol of the file that contains the scope. *)
FirstOwner(i) ==
    LET all == {j \in Upwards[i] : KindOf(j) \in Lang.owners}
    IN  IF all = {} THEN {} ELSE {Min(all)}

\* innermostContainingSymbol, and extractCallsInBody for each scope
OwnersOf(i) == {j \in Upwards[i] : KindOf(j) \in Lang.owners}
IsScope(i) == sheet.type[i] \in Lang.scopes
CallSpots(i) ==
    {j \in Spots : /\ sheet.type[j] = "call" /\ i \in Upwards[j]
                   /\ \A k \in Upwards[j] : IsScope(k) => k \in Upwards[i]}

Read ==
    /\ parsed = Unread
    /\ parsed' =
         [symbols |-> {[at |-> i, kind |-> KindOf(i), parent |-> Declared(i).parent,
                        name |-> Append(Declared(i).path, i)] : i \in {j \in Spots : KindOf(j) # "none"}},
          imports |-> {i \in Spots : /\ sheet.type[i] = "import"
                                     /\ Lang.imports = "top" => sheet.up[i] = 0},
          calls |-> {<<i, j, Max(OwnersOf(i))>> : <<i, j>> \in
                        {x \in Spots \X Spots : /\ IsScope(x[1]) /\ OwnersOf(x[1]) # {}
                                                /\ x[2] \in CallSpots(x[1])}}]
    /\ UNCHANGED sheet

-----------------------------------------------------------------------------
\* What a symbol belongs to is a symbol, found before it, that it is in or that claims the
\* file, and begins its name; but members that an impl of Rust adds have the type's name.
Symbol(i) == CHOOSE x \in parsed.symbols : x.at = i
SymbolsNest ==
    parsed # Unread => \A x \in parsed.symbols :
        x.parent # 0 =>
            /\ \E y \in parsed.symbols : y.at = x.parent
            /\ x.parent \in Upwards[x.at] \/ \E k \in Upwards[x.at] : x.parent \in Claim(k)
            /\ \/ \E i \in 1 .. Len(x.name) : SubSeq(x.name, 1, i) = Symbol(x.parent).name
               \/ \E k \in Upwards[x.at] : sheet.type[k] = "impl_item"

\* A symbol is declared directly in the innermost type or module around it, or in the
\* namespace of the file; and a function that is declared in a type is a method of it.
InnermostHolds ==
    parsed # Unread => \A x \in parsed.symbols :
        /\ \A y \in parsed.symbols : y.at \in Upwards[x.at] \ {x.at} => y.at <= x.parent
        /\ \A j \in 1 .. x.at - 1 : sheet.type[j] = "file_scoped_namespace_declaration" => x.parent # 0
        /\ x.kind = "function" => x.parent = 0 \/ Symbol(x.parent).kind \notin Types

\* A call in a function is counted once, for the innermost symbol around it that can make
\* calls, if there is one; and calls outside of functions are not counted.
CalledOnce ==
    parsed # Unread => \A j \in Spots :
        sheet.type[j] = "call" =>
            LET makers == {x.at : x \in {y \in parsed.symbols : y.kind \in Callers /\ y.at \in Upwards[j]}}
                around == {i \in Upwards[j] : IsScope(i)}
            IN  {x \in parsed.calls : x[2] = j} =
                   IF around = {} \/ makers = {} THEN {} ELSE {<<Max(around), j, Max(makers)>>}

\* Symbols have their places, and calls their makers.
SymbolsRight == SymbolsNest /\ InnermostHolds /\ CalledOnce
=============================================================================
