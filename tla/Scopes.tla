------------------------------- MODULE Scopes -------------------------------
(***************************************************************************)
(* Namespaces and the names in them, while a program is parsed statement   *)
(* by statement and commands are run in between (scope.c, symbol.c, and    *)
(* the parser's actions in gram.y).                                        *)
(*                                                                         *)
(* Namespaces and symbols are numbered in the order they are allocated; 0  *)
(* is the null pointer. A block, a function or a loop has a namespace that *)
(* no symbol stands for; those that are dropped as soon as they are        *)
(* allocated have no number. What a symbol denotes, its type and the code  *)
(* of functions are left out.                                              *)
(***************************************************************************)
EXTENDS Integers, Sequences, FiniteSets

CONSTANTS
  Names,          \* atoms
  Paths,          \* fully qualified names, sequences of atoms
  Imports,        \* the lists of paths of import statements
  Declarations,   \* what the program may declare: [kind, name, publish]
  MaxNamespaces,  \* bound: namespaces allocated
  MaxSymbols,     \* bound: symbols allocated
  MaxNesting,     \* bound: blocks within blocks
  ExtendsAround   \* whether `extend namespace` names a namespace around it

Publishes == {"private", "protected", "public"}

ASSUME ScopesConstants ==
  /\ Paths \subseteq Seq(Names) \ {<<>>}
  /\ Imports \subseteq Seq(Paths) \ {<<>>}
  /\ Declarations \subseteq [kind : {"value", "namespace", "typedef", "function"},
                            name : Names, publish : Publishes]
  /\ {MaxNamespaces, MaxSymbols, MaxNesting} \subseteq Nat
  /\ ExtendsAround \in BOOLEAN

VARIABLES
  spaces,     \* the namespaces
  symbols,
  current,    \* CurrentNamespace
  top,        \* TopNamespace: the global one, or the debugger's
  nesting,    \* the blocks the parser is in, innermost first
  abandoned   \* named namespaces in which a parse error has been met

scopeVars == <<spaces, symbols, current, top, nesting, abandoned>>

Global == 1

Entry(symbol, publish) == [symbol |-> symbol, publish |-> publish]

NewNamespace(outer) == [previous |-> outer, publish |-> "public", names |-> <<>>]

\* defined: a function's body has been seen (not symbol.forward), a type name's type.
\* home and declared record where and how the symbol was declared.
NewSymbol(name, class, defined, namespace, publish) ==
  [name |-> name, class |-> class, defined |-> defined, namespace |-> namespace,
   home |-> current, declared |-> publish]

IsNamespace(s) == s # 0 /\ symbols[s].class = "namespace"

-----------------------------------------------------------------------------
(* Lookup *)

Earliest(S) == CHOOSE i \in S : \A j \in S : i <= j

\* The entries of namespace n for a name. A namespace that is closed shows its private
\* names to nobody, unless allowed.
Matches(n, name, allowPrivate) ==
  {i \in DOMAIN spaces[n].names :
     /\ symbols[spaces[n].names[i].symbol].name = name
     /\ \/ allowPrivate
        \/ spaces[n].publish # "private"
        \/ spaces[n].names[i].publish # "private"}

\* The first entry for a name, in n or, if the search goes on, in the namespaces
\* around it: scope[i] is the i-th of them.
NamespaceFindNamelist(n, name, search, allowPrivate) ==
  LET scope[i \in 0..Len(spaces)] ==
        IF i = 0 THEN n
        ELSE IF search /\ scope[i - 1] # 0 THEN spaces[scope[i - 1]].previous ELSE 0
      has == {i \in DOMAIN scope : scope[i] # 0 /\ Matches(scope[i], name, allowPrivate) # {}}
      m == scope[Earliest(has)]
  IN  IF has = {} THEN Entry(0, "private")
      ELSE spaces[m].names[Earliest(Matches(m, name, allowPrivate))]

NamespaceFindName(n, name, search) == NamespaceFindNamelist(n, name, search, FALSE).symbol

\* BuildFullname, for every component: what a path means to the compiler.
BuildFullname(path) ==
  LET means[i \in 1..Len(path)] ==
        IF i = 1 THEN NamespaceFindName(current, path[1], TRUE)
        ELSE LET s == means[i - 1]
             IN  IF IsNamespace(s) THEN NamespaceFindName(symbols[s].namespace, path[i], FALSE)
                 ELSE 0
  IN  means[Len(path)]

\* What it means to the commands undefine, edit and print, and the namespace that
\* they take the symbol to be in.
NamespaceLocate(path) ==
  LET in(n, name, search) ==
        [namespace |-> n, symbol |-> NamespaceFindNamelist(n, name, search, TRUE).symbol]
      at[i \in 1..Len(path)] ==
        IF i = 1 THEN in(current, path[1], TRUE)
        ELSE LET s == at[i - 1].symbol
             IN  IF IsNamespace(s) THEN in(symbols[s].namespace, path[i], FALSE)
                 ELSE [namespace |-> 0, symbol |-> 0]
  IN  at[Len(path)]

-----------------------------------------------------------------------------
(* Adding and removing names. ns stands for spaces and syms for symbols. *)

NamespaceRemoveName(names, name, syms) ==
  LET at == {i \in DOMAIN names : syms[names[i].symbol].name = name}
      i == Earliest(at)
  IN  IF at = {} THEN names ELSE SubSeq(names, 1, i - 1) \o SubSeq(names, i + 1, Len(names))

NamespaceAddName_Shadow(ns, n, s, publish, syms) ==
  [ns EXCEPT ![n].names = <<Entry(s, publish)>> \o @]

NamespaceAddName(ns, n, s, publish, syms) ==
  [ns EXCEPT ![n].names =
     <<Entry(s, publish)>> \o NamespaceRemoveName(@, syms[s].name, syms)]

NamespaceImport_All(ns, n, from, publish) ==
  LET names == ns[from].names
      added[i \in 0..Len(names)] ==
        IF i = 0 THEN ns
        ELSE NamespaceAddName(added[i - 1], n, names[i].symbol, publish, symbols)
  IN  added[Len(names)]

\* Every public entry of `from`, with the publication of the import statement.
NamespaceImport(ns, n, from, publish) ==
  LET names == ns[from].names
      added[i \in 0..Len(names)] ==
        IF i = 0 THEN ns
        ELSE IF names[i].publish = "public"
        THEN NamespaceAddName(added[i - 1], n, names[i].symbol, publish, symbols)
        ELSE added[i - 1]
  IN  added[Len(names)]

\* The table of symbols and the namespaces after a declaration, and the symbol meant.
Tables(syms, ns, s) == [symbols |-> syms, spaces |-> ns, symbol |-> s]

\* ParseNewSymbol, where nothing is hooked to an earlier declaration.
ParseNewSymbol(symbol, publish) ==
  LET syms == Append(symbols, symbol)
  IN  Tables(syms, NamespaceAddName(spaces, current, Len(syms), publish, syms), Len(syms))

\* typedef with a type or without one; the type is hooked to a name declared before.
ParseTypedef(name, publish, typed) ==
  LET s == NamespaceFindName(current, name, FALSE)
  IN  IF typed /\ s # 0 /\ symbols[s].class = "typedef" /\ ~symbols[s].defined
      THEN Tables([symbols EXCEPT ![s].defined = TRUE], spaces, s)
      ELSE ParseNewSymbol(NewSymbol(name, "typedef", typed, 0, publish), publish)

\* func_decl: a function that was declared without a body, here or in a namespace
\* around this one, is the one meant; of another type, it is an error and the body
\* goes nowhere.
ParseFunction(name, publish, sameType) ==
  LET s == NamespaceFindName(current, name, TRUE)
  IN  IF s # 0 /\ symbols[s].class = "value" /\ ~symbols[s].defined
      THEN Tables(symbols, spaces, IF sameType THEN s ELSE 0)
      ELSE ParseNewSymbol(NewSymbol(name, "value", TRUE, 0, publish), publish)

-----------------------------------------------------------------------------
(* Statements *)

ScopeInit ==
  /\ spaces = <<NewNamespace(0)>> /\ symbols = <<>>
  /\ current = Global /\ top = Global
  /\ nesting = <<>> /\ abandoned = {}

Become(tables) ==
  /\ Len(tables.symbols) <= MaxSymbols /\ Len(tables.spaces) <= MaxNamespaces
  /\ symbols' = tables.symbols /\ spaces' = tables.spaces

\* The parser goes into namespace n and will come back to the current one. s: the
\* symbol of the function whose body this is.
Into(n, kind, s) ==
  /\ Len(nesting) < MaxNesting
  /\ nesting' = <<[kind |-> kind, saved |-> current, entered |-> n, symbol |-> s]>> \o nesting
  /\ current' = n

\* ... and comes back to n.
Back(n) == nesting' = Tail(nesting) /\ current' = n

In(kind) == nesting # <<>> /\ Head(nesting).kind = kind

\* A variable, a constant, an argument or an exception.
Declare(name, publish) ==
  /\ Become(ParseNewSymbol(NewSymbol(name, "value", TRUE, 0, publish), publish))
  /\ UNCHANGED <<current, top, nesting, abandoned>>

Typedef(name, publish, typed) ==
  /\ Become(ParseTypedef(name, publish, typed))
  /\ UNCHANGED <<current, top, nesting, abandoned>>

\* namespace_start and namespace_end.
BlockStart ==
  /\ Become(Tables(symbols, Append(spaces, NewNamespace(current)), 0))
  /\ Into(Len(spaces'), "block", 0)
  /\ UNCHANGED <<top, abandoned>>

BlockEnd ==
  /\ In("block")
  /\ Back(spaces[current].previous)
  /\ UNCHANGED <<spaces, symbols, top, abandoned>>

\* A declaration without a body: its namespace is left at once.
Prototype(name, publish, sameType) ==
  LET f == ParseFunction(name, publish, sameType)
      s == f.symbol
  IN
  /\ Become(IF s = 0 THEN f ELSE [f EXCEPT !.symbols = [@ EXCEPT ![s].defined = FALSE]])
  /\ UNCHANGED <<current, top, nesting, abandoned>>

FunctionStart(name, publish, sameType) ==
  LET f == ParseFunction(name, publish, sameType) IN
  /\ Become([f EXCEPT !.spaces = Append(@, NewNamespace(current))])
  /\ Into(Len(spaces'), "function", f.symbol)
  /\ UNCHANGED <<top, abandoned>>

\* A function without a symbol, of the wrong type, is compiled for nothing.
FunctionEnd ==
  LET s == Head(nesting).symbol IN
  /\ In("function")
  /\ symbols' = IF s = 0 THEN symbols ELSE [symbols EXCEPT ![s].defined = TRUE]
  /\ Back(spaces[current].previous)
  /\ UNCHANGED <<spaces, top, abandoned>>

\* The name is seen where the namespace is declared; inside, so is everything in it.
NamespaceStart(name, publish) ==
  LET n == Len(spaces) + 1
      d == ParseNewSymbol(NewSymbol(name, "namespace", TRUE, n, publish), publish)
  IN
  /\ Become([d EXCEPT !.spaces = Append(@, NewNamespace(current))])
  /\ Into(n, "namespace", d.symbol)
  /\ UNCHANGED <<top, abandoned>>

Entered == {nesting[i].entered : i \in DOMAIN nesting}

\* `extend namespace`: what is declared before is seen again.
ExtendStart(name) ==
  LET s == NamespaceFindName(current, name, TRUE)
      n == symbols[s].namespace
  IN
  /\ IsNamespace(s)
  /\ ExtendsAround \/ n \notin Entered
  /\ spaces' = [spaces EXCEPT ![n].publish = IF n # current THEN "public" ELSE @]
  /\ Into(n, "namespace", s)
  /\ UNCHANGED <<symbols, top, abandoned>>

NamespaceEnd_Open ==
  LET outer == Head(nesting).saved IN
  /\ In("namespace")
  /\ Back(outer)
  /\ UNCHANGED <<spaces, symbols, top, abandoned>>

\* The end closes the namespace to lookups of private names, but not one that is
\* the namespace around the statement too. A block further in (ExtendsAround) so
\* closes a namespace that the parser is still in.
NamespaceEnd ==
  LET outer == Head(nesting).saved IN
  /\ In("namespace")
  /\ Back(outer)
  /\ IF current # outer
     THEN /\ spaces' = [spaces EXCEPT ![current].publish = "private"]
          /\ abandoned' = abandoned \ {current}
     ELSE UNCHANGED <<spaces, abandoned>>
  /\ UNCHANGED <<symbols, top>>

\* The grammar's `error reset`: the parser forgets what it was in, and so does not
\* close the namespaces it had opened.
ResetParser ==
  /\ nesting' = <<>> /\ current' = top
  /\ abandoned' = abandoned \cup
       {nesting[i].entered : i \in {j \in DOMAIN nesting : nesting[j].kind = "namespace"}}

ParseError ==
  /\ nesting # <<>>
  /\ ResetParser
  /\ UNCHANGED <<spaces, symbols, top>>

\* The paths are looked up as they are parsed: one that goes through something else
\* than a namespace is a syntax error. The first that does not end at a namespace is
\* an error when those before it have been imported.
Import(paths, publish) ==
  LET found == [i \in DOMAIN paths |-> BuildFullname(paths[i])]
      parsed == \A i \in DOMAIN paths :
                  Len(paths[i]) > 1 => IsNamespace(BuildFullname(SubSeq(paths[i], 1, Len(paths[i]) - 1)))
      bad == {i \in DOMAIN paths : ~IsNamespace(found[i])}
      good == IF ~parsed THEN 0 ELSE IF bad = {} THEN Len(paths) ELSE Earliest(bad) - 1
      imported[i \in 0..good] ==
        IF i = 0 THEN spaces
        ELSE NamespaceImport(imported[i - 1], current, symbols[found[i]].namespace, publish)
  IN
  /\ spaces' = imported[good]
  /\ IF parsed /\ bad = {} THEN UNCHANGED <<current, nesting, abandoned>> ELSE ResetParser
  /\ UNCHANGED <<symbols, top>>

-----------------------------------------------------------------------------
(* Commands, run when a statement at the top has been parsed *)

\* The name is removed from the namespace that NamespaceLocate tells.
Undefine(path) ==
  LET at == NamespaceLocate(path) IN
  /\ nesting = <<>>
  /\ at.symbol # 0
  /\ spaces' = [spaces EXCEPT ![at.namespace].names =
                  NamespaceRemoveName(@, symbols[at.symbol].name, symbols)]
  /\ UNCHANGED <<symbols, current, top, nesting, abandoned>>

\* DebugSetFrame: the program has stopped in a statement parsed in namespace n. The
\* debugger's own names are left out.
DebugSetFrame(n) ==
  /\ nesting = <<>>
  /\ Become(Tables(symbols, Append(spaces, NewNamespace(n)), 0))
  /\ current' = Len(spaces') /\ top' = Len(spaces')
  /\ UNCHANGED <<nesting, abandoned>>

DebugDone ==
  /\ nesting = <<>>
  /\ current' = Global /\ top' = Global
  /\ UNCHANGED <<spaces, symbols, nesting, abandoned>>

ScopeNext ==
  \/ \E d \in Declarations :
       \/ d.kind = "value" /\ Declare(d.name, d.publish)
       \/ d.kind = "namespace" /\ NamespaceStart(d.name, d.publish)
       \/ \E typed \in BOOLEAN : d.kind = "typedef" /\ Typedef(d.name, d.publish, typed)
       \/ \E sameType \in BOOLEAN :
            /\ d.kind = "function"
            /\ \/ Prototype(d.name, d.publish, sameType)
               \/ FunctionStart(d.name, d.publish, sameType)
  \/ \E name \in Names : ExtendStart(name)
  \/ \E paths \in Imports, publish \in Publishes : Import(paths, publish)
  \/ \E path \in Paths : Undefine(path)
  \/ \E n \in DOMAIN spaces : DebugSetFrame(n)
  \/ BlockStart \/ BlockEnd \/ FunctionEnd \/ NamespaceEnd \/ ParseError \/ DebugDone

ScopeSpec == ScopeInit /\ [][ScopeNext]_scopeVars

-----------------------------------------------------------------------------
(* Properties *)

\* The symbol of entry i in the list of n.
Listed(n, i) == symbols[spaces[n].names[i].symbol]

\* Namespaces that have a name and whose end the parser has seen.
Closed ==
  {symbols[s].namespace : s \in {t \in DOMAIN symbols : IsNamespace(t)}} \ (Entered \cup abandoned)

ScopesTypeOK ==
  /\ spaces \in Seq([previous : Nat, publish : Publishes,
                    names : Seq([symbol : DOMAIN symbols, publish : Publishes])])
  /\ \A s \in DOMAIN symbols :
       /\ symbols[s].class \in {"value", "typedef", "namespace"}
       /\ symbols[s].namespace \in (IF IsNamespace(s) THEN DOMAIN spaces ELSE {0})
  /\ {current, top} \subseteq DOMAIN spaces

\* A name is listed once in a namespace, the current namespace is the one around
\* the statement being parsed, and the namespaces that show their private names are
\* those it is in: "make all of the symbols visible while compiling within the
\* namespace" (gram.y, at `namespace`), through blocks left by errors or in order.
ScopesSound ==
  /\ ScopesTypeOK
  /\ current = (IF nesting = <<>> THEN top ELSE Head(nesting).entered)
  /\ \A n \in DOMAIN spaces :
       /\ spaces[n].previous < n
       /\ \A i, j \in DOMAIN spaces[n].names :
            Listed(n, i).name = Listed(n, j).name => i = j
       /\ n \in Closed => spaces[n].publish = "private"
       /\ spaces[n].publish = "private" => n \in Closed \/ ExtendsAround

\* "`protected` may be seen outside with `::` but not imported"; a name declared with
\* neither that nor `public` "may not be seen outside at all" (tutorial, Namespaces):
\* a name that is not public is only ever listed where it was declared, and no path
\* leads the compiler to a private one in a namespace that is closed, whatever has
\* been imported, extended, left by errors or debugged.
PrivateHidden ==
  /\ \A n \in DOMAIN spaces : \A i \in DOMAIN spaces[n].names :
       Listed(n, i).declared # "public" => n = Listed(n, i).home
  /\ \A p \in Paths :
       LET s == BuildFullname(p)
       IN  s # 0 /\ symbols[s].declared = "private" => symbols[s].home \notin Closed

\* What the compiler takes a path for is what the commands print, edit and undefine
\* for it: once undefined, the path means that symbol no more.
CommandsAgree ==
  nesting = <<>> /\ top = Global =>
    \A p \in Paths :
      LET s == BuildFullname(p)
          at == NamespaceLocate(p)
          n == at.namespace
      IN  s # 0 =>
            /\ at.symbol = s
            /\ \E i \in DOMAIN spaces[n].names : \A j \in DOMAIN spaces[n].names :
                 Listed(n, j).name = symbols[s].name <=> i = j

=============================================================================
