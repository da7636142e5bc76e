------------------------------ MODULE CallSites ------------------------------
(* How a walker finds the calls of a file and the function that makes each of    *)
(* them (src/parser/walkers/_base.ts, and the loop of every walker; typescript.ts *)
(* has all the cases).  Functions nest in each other, in classes and in arguments *)
(* of calls, with and without a name; symbols are only those that are declared    *)
(* directly in the file or in the body of a symbol.                              *)
EXTENDS Integers, FiniteSetsExt

CONSTANT SyntaxTrees    \* syntax trees: [kind, up], each node's parent a smaller one, or 0

(* Kinds: "function", a declaration or a method, with its statements below it;    *)
(* "const", a declaration with its value below it; "arrow", a function that is an *)
(* expression, with its body below it; "class", "block" of statements, "call".    *)
ASSUME FilesAssumption ==
    \A t \in SyntaxTrees : \A i \in DOMAIN t.kind :
        /\ t.kind[i] \in {"function", "const", "arrow", "class", "block", "call"}
        /\ t.up[i] \in 0 .. i - 1

VARIABLES
    tree,     \* of the file
    sites,    \* found: <<scope, call, symbol>>, from the walk over each scope
    walked

extraction == <<tree, sites, walked>>

ExtractInit == tree \in SyntaxTrees /\ sites = {} /\ walked = FALSE

-----------------------------------------------------------------------------
Places == DOMAIN tree.kind
Kind(i) == tree.kind[i]
Inside(i) == {j \in Places : tree.up[j] = i}

\* What a node is in: itself, its parent and so on.
Enclosing == LET F[i \in Places] == {i} \cup (IF tree.up[i] = 0 THEN {} ELSE F[tree.up[i]]) IN F
Between(i, j) == {k \in Enclosing[j] \ {i, j} : i \in Enclosing[k]}

\* extractSymbolsIn: declarations, down through the bodies of those found.
IsSymbol ==
    LET F[i \in Places] ==
            /\ Kind(i) \in {"function", "const", "class"}
            /\ tree.up[i] # 0 => (Kind(tree.up[i]) \in {"function", "class"} /\ F[tree.up[i]])
    IN  F

\* Those that can own a call: functions, methods, and constants that are one.
Owning == {i \in Places : /\ IsSymbol[i]
                          /\ \/ Kind(i) = "function"
                             \/ Kind(i) = "const" /\ \E j \in Inside(i) : Kind(j) = "arrow"}

\* innermostContainingSymbol
Owner(i) == IF Owning \cap Enclosing[i] = {} THEN 0 ELSE Max(Owning \cap Enclosing[i])

Scope(i) == Kind(i) \in {"function", "arrow"}

\* A walk stops at a function, unless that is the body it began with.
Stops(i) == {k \in Places : Scope(k)} \ (IF Kind(i) = "arrow" THEN Inside(i) ELSE {})

\* extractCallsInBody
CallsIn(i) == {j \in Places : i \in Enclosing[j] \ {j} /\ Kind(j) = "call" /\ Between(i, j) \cap Stops(i) = {}}

Extract ==
    /\ ~walked /\ walked' = TRUE
    /\ sites' = {<<i, j, Owner(i)>> : <<i, j>> \in
                    {x \in Places \X Places : Scope(x[1]) /\ Owner(x[1]) # 0 /\ x[2] \in CallsIn(x[1])}}
    /\ UNCHANGED tree

ExtractSpec == ExtractInit /\ [][Extract]_extraction

-----------------------------------------------------------------------------
\* A call in a function, and in a symbol, is found once (the NESTED-SCOPE FIX of
\* _base.ts): unless the whole body of a function is a function.
Curried(j) == \E k \in Enclosing[j] : Scope(k) /\ tree.up[k] # 0 /\ Kind(tree.up[k]) = "arrow"
OncePerCall ==
    walked => \A j \in Places :
        Kind(j) = "call" /\ (\E i \in Enclosing[j] : Scope(i) /\ Owner(i) # 0) /\ ~Curried(j)
            => Cardinality({x \in sites : x[2] = j}) = 1

\* No function but the one whose body a call is in, or the innermost of those around
\* it that has a name, is said to make it.
CallerIsInnermost ==
    walked => \A x \in sites :
        x[3] \in Enclosing[x[2]] /\ \A k \in Owning : k \in Enclosing[x[2]] => k \in Enclosing[x[3]]

\* Calls are recorded once, and under the symbol that makes them.
CallsOnce == OncePerCall /\ CallerIsInnermost
=============================================================================
