--------------------------- MODULE MCCondAndersen ---------------------------
(***************************************************************************)
(* Model checking of the solver: the guard algebra is PathCond with its    *)
(* limits and FastGuard, the paths are the truth assignments of the        *)
(* branches, the solutions are the least ones, and the programs are the    *)
(* families below.                                                         *)
(***************************************************************************)
EXTENDS GuardedFacts, TLC

CONSTANTS
  va, vb, vd, ve, vf, ox, oy,              \* pointers and two objects
  Branch, MaxDepth, ContainsDepth, kLimit, mLimit, nLimit

G == INSTANCE GuardLimits

MCtrueGuard        == G!getTrue
MCguardIsTrue(g)   == G!isTrue(g)
MCguardIsFalse(g)  == G!isFalse(g)
MCguardAnd(g, h)   == G!getAnd(g, h)
MCguardOr(g, h)    == G!getOr(g, h)
MCguardIsSat(g)    == G!isSat(g)
MCguardLimited(g)  == G!applyLimits(g)
MCguardCapped(g)   == G!cappedChains(g)
MCguardKept(g, h)  == G!keepsChain(g, h)
MCAdmits(g)        == G!Den(g)
MCPath             == G!Assignment
Unlimited          == -1

-----------------------------------------------------------------------------
(* The least solution, by iteration from nothing.                          *)
consequences(p, S) ==
  [n \in Node |-> S[n]
     \cup {x \in Obj : <<x, n>> \in p.addr}
     \cup UNION {S[s.src] : s \in {t \in p.stmts : t.kind = "copy" /\ t.dst = n}}
     \cup UNION {UNION {S[x] : x \in S[s.src] \ ConstObj} :
                   s \in {t \in p.stmts : t.kind = "load" /\ t.dst = n}}
     \cup UNION {S[s.src] : s \in {t \in p.stmts : t.kind = "store"
                                                   /\ n \in S[t.dst] \ ConstObj}}
     \cup UNION {UNION {S[arg[1]] : arg \in {x \in c.args : x[2] = n}} :
                   c \in {x \in p.calls : x.fun \in S[x.fp]}}]

RECURSIVE lfp(_, _)
lfp(p, S) == LET T == consequences(p, S) IN IF T = S THEN S ELSE lfp(p, T)

least(p) == lfp(p, [n \in Node |-> {}])

MCSolution(p)           == least(p)
MCPathSolution(p, path) == least(onPath(p, path))

-----------------------------------------------------------------------------
(* Programs.  In every statement of a pool the guard is open: absent       *)
(* statements, unconditional ones and ones under a branch are combined     *)
(* freely.                                                                 *)
cond(br)  == G!getAtom(br, TRUE)
ncond(br) == G!getAtom(br, FALSE)
stmt(k, src, dst, g) == [kind |-> k, src |-> src, dst |-> dst, guard |-> g]
program(addr, stmts, calls) == [addr |-> addr, stmts |-> stmts, calls |-> calls]

choices(k, src, dst, guards) == {{}} \cup {{stmt(k, src, dst, g)} : g \in guards}

someBranch == CHOOSE br \in Branch : TRUE
openGuards == {G!getTrue, cond(someBranch)}

(* A cycle of two pointers through memory: va and vb copied to each other, *)
(* vb read back from what va points to, vb written there.                  *)
Cycles ==
  {program({<<ox, va>>, <<oy, vb>>}, s1 \cup s2 \cup s3 \cup s4, {}) :
     s1 \in choices("copy", va, vb, openGuards),
     s2 \in choices("copy", vb, va, openGuards),
     s3 \in choices("store", vb, va, openGuards),
     s4 \in choices("load", va, vb, openGuards)}

(* Calls through the pointer va: to oy, which is passed vb and may return  *)
(* it, closing a cycle, and to ox, which the first call may put into va.   *)
call(fp, fun, args, g) == [fp |-> fp, fun |-> fun, args |-> args, guard |-> g]

Calls ==
  {program({<<oy, va>>, <<ox, vb>>, <<oy, vd>>}, s1 \cup s2,
           {call(va, oy, {<<vb, vd>>}, g1), call(va, ox, {<<vd, vb>>}, g2)}) :
     s1 \in choices("copy", vd, vb, openGuards),
     s2 \in choices("copy", vd, va, openGuards),
     g1 \in openGuards, g2 \in openGuards}

(* No cycle and one way only for every fact: va is copied to vb, a call    *)
(* through ve passes vb to vd, vd is written through ve, and vf is read    *)
(* through ve, unconditionally.                                            *)
forest(guards) ==
  {program({<<ox, va>>, <<oy, ve>>},
           {stmt("copy", va, vb, g1), stmt("store", vd, ve, g3), stmt("load", ve, vf, G!getTrue)},
           {call(ve, oy, {<<vb, vd>>}, g2)}) :
     g1 \in guards, g2 \in guards, g3 \in guards}

positive == {G!getTrue} \cup {cond(br) : br \in Branch}

signed   == {cond(br) : br \in Branch} \cup {ncond(br) : br \in Branch}
Forest   == forest({G!getTrue} \cup signed)

(* Two ways from va to ve, which passes what it gets on to vf: with a      *)
(* guard on every edge, or on the first edge of either way only.  The      *)
(* sweep sees ve after both.                                               *)
diamond(first1, first2, second, last) ==
  {program({<<ox, va>>},
           {stmt("copy", va, vb, g1), stmt("copy", va, vd, g2), stmt("copy", vb, ve, g3),
            stmt("copy", vd, ve, g4), stmt("copy", ve, vf, g5)}, {}) :
     g1 \in first1, g2 \in first2, g3 \in second, g4 \in second, g5 \in last}

Diamond == diamond({cond(someBranch)}, signed, signed, {G!getTrue})
Arms    == diamond(signed, signed, {G!getTrue}, positive)

Acyclic == Forest \cup Arms

-----------------------------------------------------------------------------
(* What the theorems about sound guards ask of the programs holds of the   *)
(* forest, and what they ask of the algebra holds of all guards of two     *)
(* operations at most: nothing cuts a path that the operands admit.        *)
ASSUME ForestIsOneWay == \A p \in Forest \cap Programs : oneWay(p)

atoms  == {G!getTrue, G!getCappedTrue, G!getFalse}
            \cup {G!getAtom(br, b) : br \in Branch, b \in BOOLEAN}
joined(gs, hs) == UNION {{G!getAnd(g, h), G!getOr(g, h)} : g \in gs, h \in hs}
built  == atoms \cup joined(atoms, atoms)

ASSUME AlgebraWidens ==
  /\ \A g \in built :
       /\ G!isTrue(g) => MCPath \subseteq G!Den(g)
       /\ G!isFalse(g) => G!Den(g) = {}
       /\ G!Den(g) # {} => G!isSat(g)
       /\ G!Den(g) \subseteq G!Den(G!applyLimits(g))
  /\ \A g, h \in built :
       /\ G!Den(g) \cap G!Den(h) \subseteq G!Den(G!getAnd(g, h))
       /\ G!Den(g) \cap G!Den(h) \subseteq G!Den(G!getOr(g, h))
=============================================================================
