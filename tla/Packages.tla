------------------------------ MODULE Packages ------------------------------
(***************************************************************************)
(* The package registry of src/package.go and the life cycle vnet.Run     *)
(* (src/vnet.go) drives it: init functions register packages and declare   *)
(* dependencies, the loop's init hook configures them and calls            *)
(* InitPackages, which resolves the declared names into dependency edges   *)
(* and calls every package's Init in dependency order; when the loop ends  *)
(* Run calls ExitPackages, which calls Exit in the reverse order.          *)
(*                                                                         *)
(* The order itself is computed by elib's dep.Deps (outside the            *)
(* repository): here it is any order of the packages that puts a          *)
(* package's Deps before it and its AntiDeps after it, or a panic when no  *)
(* such order exists.  A package's Init and Exit are the packages' own     *)
(* code: each may return an error.                                         *)
(***************************************************************************)
EXTENDS Naturals, Sequences, SequencesExt, FiniteSets, TLC

CONSTANTS
  Names,     \* package names registered by init functions
  Empty,     \* the "(empty)" package AddPackage puts at index 0
  MaxDecls   \* DependsOn/DependedOnBy calls

Forward == "forward"   \* depMap[forward]: packages this package depends on
Anti == "anti"         \* depMap[anti]: packages that depend on this one

VARIABLES
  packages,  \* packageMain.packages, index 0 first
  depMap,    \* depMap[n]: the [typ, name] pairs declared on package n
  decls,     \* DependsOn/DependedOnBy calls made
  edges,     \* resolved p.dep.Deps/AntiDeps as <<first, then>> pairs
  order,     \* packageMain.deps: order[i] is the package Index(i - 1) names
  phase,     \* "register", "init", "exit", "done" or "panic"
  inited,    \* the packages whose Init returned nil, in call order
  exited     \* the packages whose Exit returned nil, in call order

vars == <<packages, depMap, decls, edges, order, phase, inited, exited>>

Registered == Range(packages)

\* addDep(name, typ) on package n.
AddDep(n, d, typ) ==
  /\ phase = "register"
  /\ decls < MaxDecls
  /\ [typ |-> typ, name |-> d] \notin depMap[n]
  /\ depMap' = [depMap EXCEPT ![n] = @ \cup {[typ |-> typ, name |-> d]}]
  /\ decls' = decls + 1
  /\ UNCHANGED <<packages, edges, order, phase, inited, exited>>

\* DependsOn(d) on package n.
DependsOn(n, d) == AddDep(n, d, Forward)

\* DependedOnBy(d) on package n.
DependedOnBy(n, d) == AddDep(n, d, Anti)

\* AddPackage(n): index 0 is the empty package, made on the first call.
AddPackage(n) ==
  /\ phase = "register"
  /\ n \notin Registered
  /\ packages' = (IF packages = <<>> THEN <<Empty>> ELSE packages) \o <<n>>
  /\ UNCHANGED <<depMap, decls, edges, order, phase, inited, exited>>

\* Mutant: the two dependency kinds resolved the wrong way round.
ResolvedSwapped(p) ==
  {IF e.typ = Anti THEN <<e.name, p>> ELSE <<p, e.name>> : e \in depMap[p]}

\* The dependency edges InitPackages' first loop adds for package p: a
\* forward dependency d goes before p, an anti dependency d after p.
Resolved(p) ==
  {IF e.typ = Forward THEN <<e.name, p>> ELSE <<p, e.name>> : e \in depMap[p]}

\* The orders elib's dep.Deps may give: every edge respected.
Orders(E) ==
  {o \in [1..Len(packages) -> Registered] :
     /\ Range(o) = Registered
     /\ \A i, j \in DOMAIN o : <<o[j], o[i]>> \in E => j < i}

\* Mutant: a name with no registered package silently skipped.
UnknownSkipped == FALSE

\* InitPackages' panic "unknown dependent package": a registered package
\* declared a dependency on a name no package registered.
Unknown == \E p \in Registered : \E e \in depMap[p] : e.name \notin Registered

\* vnetConfigure, from the loop's init hook: ConfigurePackages, then
\* InitPackages' resolution.  An unknown dependency name panics; a cycle
\* leaves elib no order (taken as a panic too).  Then the Init calls begin.
InitPackages ==
  /\ phase = "register"
  /\ LET E == UNION {Resolved(packages[i]) : i \in DOMAIN packages}
     IN  IF Unknown \/ Orders(E) = {}
         THEN /\ phase' = "panic"
              /\ UNCHANGED <<edges, order>>
         ELSE /\ edges' = E
              /\ \E o \in Orders(E) : order' = o
              /\ phase' = "init"
  /\ UNCHANGED <<packages, depMap, decls, inited, exited>>

\* The next call of InitPackages' second loop: Init of the package at
\* Index(i).  An error ends InitPackages, vnetConfigure returns it and the
\* loop's init hook panics.  The empty package's Init is Package.Init.
InitNext ==
  /\ phase = "init"
  /\ Len(inited) < Len(order)
  /\ LET p == order[Len(inited) + 1]
     IN  \/ /\ inited' = Append(inited, p)
            /\ UNCHANGED phase
         \/ /\ p # Empty
            /\ phase' = "panic"
            /\ UNCHANGED inited
  /\ UNCHANGED <<packages, depMap, decls, edges, order, exited>>

\* Every Init returned nil: the loop runs until it quits, and Run calls
\* ExitPackages.
LoopRun ==
  /\ phase = "init"
  /\ Len(inited) = Len(order)
  /\ phase' = "exit"
  /\ UNCHANGED <<packages, depMap, decls, edges, order, inited, exited>>

\* Mutant: ExitPackages walking Index instead of IndexReverse.
ExitNextForward ==
  /\ phase = "exit"
  /\ Len(exited) < Len(order)
  /\ LET p == order[Len(exited) + 1]
     IN  \/ /\ exited' = Append(exited, p)
            /\ UNCHANGED phase
         \/ /\ p # Empty
            /\ phase' = "done"
            /\ UNCHANGED exited
  /\ UNCHANGED <<packages, depMap, decls, edges, order, inited>>

\* The next call of ExitPackages: Exit of the package at IndexReverse(i).
\* An error ends ExitPackages and Run returns it.
ExitNext ==
  /\ phase = "exit"
  /\ Len(exited) < Len(order)
  /\ LET p == order[Len(order) - Len(exited)]
     IN  \/ /\ exited' = Append(exited, p)
            /\ UNCHANGED phase
         \/ /\ p # Empty
            /\ phase' = "done"
            /\ UNCHANGED exited
  /\ UNCHANGED <<packages, depMap, decls, edges, order, inited>>

\* ExitPackages' loop is over: it returns nil and so does Run.
ExitDone ==
  /\ phase = "exit"
  /\ Len(exited) = Len(order)
  /\ phase' = "done"
  /\ UNCHANGED <<packages, depMap, decls, edges, order, inited, exited>>

Init ==
  /\ packages = <<>>
  /\ depMap = [n \in Names \cup {Empty} |-> {}]
  /\ decls = 0
  /\ edges = {}
  /\ order = <<>>
  /\ phase = "register"
  /\ inited = <<>>
  /\ exited = <<>>

Next ==
  \/ \E n \in Names : AddPackage(n)
  \/ \E n, d \in Names : DependsOn(n, d) \/ DependedOnBy(n, d)
  \/ InitPackages
  \/ InitNext
  \/ LoopRun
  \/ ExitNext
  \/ ExitDone

Spec == Init /\ [][Next]_vars

TypeOK ==
  /\ packages \in Seq(Names \cup {Empty})
  /\ depMap \in [Names \cup {Empty} -> SUBSET [typ : {Forward, Anti}, name : Names]]
  /\ decls \in 0..MaxDecls
  /\ edges \subseteq Registered \X Registered
  /\ order \in Seq(Registered)
  /\ phase \in {"register", "init", "exit", "done", "panic"}
  /\ inited \in Seq(Names \cup {Empty})
  /\ exited \in Seq(Names \cup {Empty})
=============================================================================
