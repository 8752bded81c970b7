----------------------------- MODULE PathFacts ------------------------------
(***************************************************************************)
(* What the facts of the path-sensitive analysis mean: the program is      *)
(* executed along every path, and what its variables hold is compared with *)
(* what the analysis claims.  A path is the set of branches that are true. *)
(* prog.trace lists the statements in program order, those of a called     *)
(* function once for every call, with the call site, the node that calls,  *)
(* and the variable a parameter or a returned value is bound to.           *)
(***************************************************************************)
EXTENDS PathSensitive

CONSTANT NoObj     \* the value of a pointer that holds none

Path == SUBSET PathAtom

taken(f, path) == f.cond = NoAtom \/ (f.cond \in path) = f.branch

(* The blocks on a path.                                                   *)
onPath(path) ==
  LET next(B) == UNION {{b} \cup {f.dst : f \in {x \in prog.flow : x.src = b /\ taken(x, path)}}
                          : b \in B}
  IN  FoldSet(LAMBDA b, B : next(B), prog.entry, Block)

(* The operand of a phi whose edge the path takes.                         *)
chosenOperand(n, blocks, path) ==
  CHOOSE op \in n.ops : op[2] \in blocks /\ \E f \in prog.flow :
    f.src = op[2] /\ f.dst = n.block /\ taken(f, path)

assigned(s, n, v, x) ==
  [s EXCEPT !.val[v] = x, !.seen = IF x = NoObj THEN @ ELSE @ \cup {<<n.node, v, x, n.site>>}]

(* One statement: its effect on the variables and on memory.               *)
executed(s, x, blocks, path) ==
  LET n == nodes[x.node]
  IN
  IF nodes[x.call].block \notin blocks THEN s
  ELSE CASE n.kind = "addr" -> assigned(s, x, n.dst, n.src)
         [] n.kind = "copy" -> assigned(s, x, n.dst, s.val[n.src])
         [] n.kind = "phi"  -> assigned(s, x, n.dst, s.val[chosenOperand(n, blocks, path)[1]])
         [] n.kind = "load" -> assigned(s, x, n.dst,
              IF s.val[n.src] = NoObj THEN NoObj ELSE s.mem[s.val[n.src]])
         [] n.kind = "store" /\ s.val[n.dst] # NoObj ->
              [s EXCEPT !.mem[s.val[n.dst]] = s.val[n.src],
                        !.seen = IF s.val[n.src] = NoObj THEN @
                                 ELSE @ \cup {<<x.node, s.val[n.dst], s.val[n.src], x.site>>}]
         [] n.kind \in parmKinds -> assigned(s, x, n.dst, s.val[x.from])
         [] OTHER -> s

execution(path) ==
  LET blocks == onPath(path)
  IN
  FoldLeft(LAMBDA s, x : executed(s, x, blocks, path),
           [val |-> [v \in Var |-> NoObj], mem |-> [x \in Obj |-> NoObj], seen |-> {}],
           prog.trace)

(* In a world of this path in which the call site is active.               *)
claims(f, path, site) ==
  \E w \in f[3].bdd : w \cap PathAtom = path /\ (site = NoSite \/ site \in w)

-----------------------------------------------------------------------------
(* A level ends, or the analysis.                                          *)
levelEnds == pc = "done" \/ (pc = "level" /\ currentK > 0)

(* Nothing that happens on a path is missed: whatever a statement puts     *)
(* into a variable or an object, the analysis has after that statement, in *)
(* a world of this path and of this call.  Strong updates, residual        *)
(* guards and call-site atoms may all lose it.                             *)
PathSound ==
  levelEnds =>
    \A path \in Path : \A x \in execution(path).seen :
      \E f \in outPts : f[1] = x[1] /\ f[2] = x[2] /\ f[4] = x[3] /\ claims(f, path, x[4])

(* What the analysis claims of a statement in a world is what the          *)
(* statement computes there, whenever the path gets to it: conditional     *)
(* overwriting leaves nothing stale behind.  It does at a join that a      *)
(* definition from above the branch reaches, because nothing on that edge  *)
(* says which arm was taken; after a store to an object that stands for    *)
(* several, or through a pointer that has itself to be computed, because   *)
(* the store is visited, and hands on what it will overwrite, before the   *)
(* pointer arrives; and where calls, whose order the worlds do not tell,   *)
(* are involved.                                                           *)
phisMergeArms ==
  \A e \in prog.edges : nodes[e.dst].kind = "mssaPhi" => ~isTrue(getNodeGuard(prog, e.src))

storesToSureObjects ==
  \A n \in nodesOf({"store"}) : \E m \in nodesOf({"addr"}) :
    nodes[m].dst = nodes[n].dst /\ nodes[m].src \in StrongObj

PathExact ==
  levelEnds /\ phisMergeArms /\ storesToSureObjects /\ nodesOf({"formalParm"}) = {} =>
    \A path \in Path :
      LET happens == execution(path).seen
          blocks  == onPath(path)
      IN  \A f \in outPts :
            (/\ nodes[f[1]].kind \in stmtKinds \ {"store"}
             /\ nodes[f[1]].block \in blocks
             /\ claims(f, path, NoSite)) => <<f[1], f[2], f[4], NoSite>> \in happens

(* Two pointers that end up with the same object on some path are never    *)
(* said not to alias.                                                      *)
PathAliasSound ==
  pc = "done" =>
    \A path \in Path : LET val == execution(path).val IN
      \A v1, v2 \in Var :
        (v1 # v2 /\ val[v1] # NoObj /\ val[v1] = val[v2]) => alias(v1, v2)

(* When the worklist runs empty every edge has handed on all it will,      *)
(* although the change a store makes to its target is not reported as one  *)
(* and a store is updated anew, in any order, at every visit.              *)
EdgesSettled ==
  pc = "done" => \A e \in prog.edges : contents(brings(e)) \subseteq contents(inPts)

(* The levels and the worklist of each come to an end, although call and   *)
(* return edges close cycles and a strong update takes facts back.         *)
PSTerminates == <>(pc = "done")
=============================================================================
