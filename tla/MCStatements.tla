---------------------------- MODULE MCStatements ----------------------------
(* Statements as they are parsed and as they are executed: a behaviour is of one *)
(* kind.                                                                         *)
EXTENDS Jumps, Scopes

CONSTANTS x1, x2, x3, x4, A, B, a, b

VARIABLE what

MCTwixts   == {x1, x2, x3}
MCClauses  == {<<A>>, <<A, B>>}

\* A namespace a in which there may be another one, and names that hide them.
MCPaths == {<<a>>, <<b>>, <<a, b>>}
MCImports == {<<<<a>>>>, <<<<a>>, <<b>>>>, <<<<a>>, <<a, b>>>>}
All(kind, name, P) == [kind : {kind}, name : {name}, publish : P]
MCDeclarations ==
  All("namespace", a, {"public"}) \cup All("function", a, {"public"})
  \cup All("value", b, {"private"}) \cup All("typedef", b, {"protected"})

MCInit == what \in {"jumps", "names"} /\ Init /\ ScopeInit

MCNext ==
  \/ what = "jumps" /\ Next /\ UNCHANGED <<scopeVars, what>>
  \/ what = "names" /\ ScopeNext /\ UNCHANGED <<vars, what>>

\* Evaluation of enter and leave expressions ends.
MCSpec ==
  /\ MCInit /\ [][MCNext]_<<vars, scopeVars, what>>
  /\ WF_<<vars, scopeVars, what>>(what = "jumps" /\ (EnterDone \/ LeaveDone) /\ UNCHANGED <<scopeVars, what>>)
=============================================================================
