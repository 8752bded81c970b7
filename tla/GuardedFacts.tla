---------------------------- MODULE GuardedFacts ----------------------------
(***************************************************************************)
(* What the guards of the solver mean.  A path decides every branch; the   *)
(* program restricted to a path keeps the statements and the calls whose   *)
(* guards admit it.  A guarded fact is justified when every path its guard *)
(* admits has the fact in the points-to solution of the restricted         *)
(* program.  alias() and expandCondFIObjs are modelled here (without       *)
(* fields), since they only read what the solver leaves behind.            *)
(***************************************************************************)
EXTENDS CondAndersen

CONSTANTS
  Path,               \* the paths through the program
  Admits(_),          \* the paths a guard admits
  PathSolution(_, _)  \* a points-to solution of the program on one path

onPath(p, path) ==
  [p EXCEPT !.stmts = {s \in @ : path \in Admits(s.guard)},
            !.calls = {c \in @ : path \in Admits(c.guard)}]

ASSUME PathAssumption ==
  \A p \in Programs, path \in Path :
    /\ PathSolution(p, path) \in [Node -> SUBSET Obj]
    /\ IsSolution(onPath(p, path), PathSolution(p, path))

(* alias(): a common object under guards that are satisfiable together;    *)
(* with kLimit = 0, any common object.                                     *)
mayAlias(v, w) ==
  \/ v = w /\ ~unconditional
  \/ \E o \in answer[v] \cap answer[w] :
       unconditional \/ guardIsSat(guardAnd(guardOf(rep[v], o), guardOf(rep[w], o)))

-----------------------------------------------------------------------------
(* GuardsJustified: without limits, a fact is claimed only for paths on    *)
(* which it can arise, and so is a copy edge, however often guards were    *)
(* conjoined, merged, moved or dropped with the edges of merged nodes.     *)
FactsJustified ==
  \A n \in Node : \A o \in answer[n] : \A path \in Admits(guardOf(rep[n], o)) :
    o \in PathSolution(prog, path)[n]

EdgesJustified ==
  \A e \in DOMAIN consCG : \A path \in Admits(consCG[e]) :
    Respects(PathSolution(prog, path), e)

GuardsJustified ==
  pc \notin {"addr", "attach"} => FactsJustified /\ EdgesJustified

(* GuardsSound: the other direction, at the end: whatever holds on a path  *)
(* is claimed under a guard that admits it.                                *)
GuardsSound ==
  pc = "done" =>
    \A path \in Path : \A n \in Node : \A o \in PathSolution(prog, path)[n] :
      o \in answer[n] /\ path \in Admits(guardOf(rep[n], o))

someObjectOnPath(v, w, path) ==
  PathSolution(prog, path)[v] \cap PathSolution(prog, path)[w] # {}

(* AliasSound: alias() never denies an alias that some path produces.      *)
AliasSound ==
  pc = "done" =>
    \A v, w \in Node :
      (\E path \in Path : someObjectOnPath(v, w, path)) => mayAlias(v, w)

(* AliasExact: and it never reports one that no path produces, which is    *)
(* what the guards are kept for.                                           *)
AliasExact ==
  pc = "done" =>
    \A v, w \in Node : v # w =>
      (mayAlias(v, w) <=> \E path \in Path : someObjectOnPath(v, w, path))

-----------------------------------------------------------------------------
(* The programs whose guards are sound for certain.  What the statement or *)
(* call s of p makes flow from x to y when the points-to sets are S:       *)
flows(p, S, s, x, y) ==
  \/ /\ s \in p.stmts
     /\ \/ s.kind = "copy"  /\ x = s.src /\ y = s.dst
        \/ s.kind = "load"  /\ x \in S[s.src] \ ConstObj /\ y = s.dst
        \/ s.kind = "store" /\ x = s.src /\ y \in S[s.dst] \ ConstObj
  \/ /\ s \in p.calls
     /\ s.fun \in S[s.fp]
     /\ <<x, y>> \in s.args

(* Every fact arrives one way: no object flows to a node by two statements *)
(* or calls or from two nodes, or to a node whose address-of it is;        *)
(* nothing flows in a circle, and constant objects are only pointed to.    *)
oneWay(p) ==
  LET S  == Solution(p)
      By == p.stmts \cup p.calls
  IN  /\ \A s, t \in By, x, z, y \in Node :
           flows(p, S, s, x, y) /\ flows(p, S, t, z, y) /\ S[x] \cap S[z] # {}
             => s = t /\ x = z
      /\ \A a \in p.addr, s \in By, x \in Node :
           flows(p, S, s, x, a[2]) => a[1] \notin S[x]
      /\ \A N \in SUBSET Node : N # {} =>
           \E y \in N : \A s \in By, x \in N : ~flows(p, S, s, x, y)
      /\ \A s \in By, x, y \in Node :
           flows(p, S, s, x, y) => x \notin ConstObj /\ y \notin ConstObj
=============================================================================
