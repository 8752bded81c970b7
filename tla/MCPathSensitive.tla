-------------------------- MODULE MCPathSensitive ---------------------------
(***************************************************************************)
(* Model checking of the path-sensitive analysis: small programs with an   *)
(* if/else, and with a function called twice.                              *)
(***************************************************************************)
EXTENDS PathFacts, TLC

CONSTANTS c, s1, s2, oa, ob, oh, op, oq, b0, b1, b2, b3, bf, fmain, ff

MCVar == {"va", "vb", "p", "q", "p1", "q1", "w", "x", "y", "z", "a", "r"}

-----------------------------------------------------------------------------
(* Building blocks.                                                        *)
def(k, d, s, bb)   == [kind |-> k, dst |-> d, src |-> s, block |-> bb, fun |-> fmain]
phi(d, ops, bb)    == [kind |-> "phi", dst |-> d, ops |-> ops, block |-> bb, fun |-> fmain]
parm(k, d, bb, f)  == [kind |-> k, dst |-> d, block |-> bb, fun |-> f]
mem(k, bb, f)      == [kind |-> k, block |-> bb, fun |-> f]

anEdge(k, s, d, objs, site, preds) ==
  [kind |-> k, src |-> s, dst |-> d, objs |-> objs, site |-> site, preds |-> preds]
dir(s, d)             == anEdge("dir", s, d, {}, NoSite, {})
ind(s, d, objs)       == anEdge("ind", s, d, objs, NoSite, {})
indPhi(s, d, objs, bs) == anEdge("ind", s, d, objs, NoSite, bs)

jump(s, d)         == [src |-> s, dst |-> d, cond |-> NoAtom, branch |-> TRUE]
onBranch(s, d, br) == [src |-> s, dst |-> d, cond |-> c, branch |-> br]

ifElse == {onBranch(b0, b1, TRUE), onBranch(b0, b2, FALSE), jump(b1, b3), jump(b2, b3)}

bind(n, v)         == <<[node |-> n, call |-> n, from |-> v, site |-> NoSite]>>
step(n)            == bind(n, "va")
within(n, v, s, k) == <<[node |-> n, call |-> k, from |-> v, site |-> s]>>

program(ns, es, flow, trace) ==
  [nodes |-> ns, edges |-> es, flow |-> flow, entry |-> {b0, bf}, trace |-> trace]

given(cond, S) == IF cond THEN S ELSE {}

-----------------------------------------------------------------------------
(* *p may be written before the branch and in either arm, and is read in   *)
(* the first arm and after the join.  p is the address of o.               *)
armNodes(o, v0, v1, v2) ==
  ("p" :> def("addr", "p", o, b0)) @@ ("va" :> def("addr", "va", oa, b0)) @@
  ("vb" :> def("addr", "vb", ob, b0)) @@
  (IF v0 = "" THEN <<>> ELSE "st0" :> def("store", "p", v0, b0)) @@
  (IF v1 = "" THEN <<>> ELSE "st1" :> def("store", "p", v1, b1)) @@
  (IF v2 = "" THEN <<>> ELSE "st2" :> def("store", "p", v2, b2)) @@
  ("ld1" :> def("load", "x", "p", b1)) @@
  ("m3" :> mem("mssaPhi", b3, fmain)) @@ ("ld3" :> def("load", "y", "p", b3))

armEdges(o, v0, v1, v2) ==
  LET at1 == IF v1 = "" THEN "st0" ELSE "st1"
      at2 == IF v2 = "" THEN "st0" ELSE "st2"
      some(v) == v # ""
      writes(n, v) == given(some(v), {dir("p", n), dir(v, n)})
  IN  writes("st0", v0) \cup writes("st1", v1) \cup writes("st2", v2)
      \cup {dir("p", "ld1"), dir("p", "ld3"), ind("m3", "ld3", {o})}
      \cup given(some(v0) /\ some(v1), {ind("st0", "st1", {o})})
      \cup given(some(v0) /\ some(v2), {ind("st0", "st2", {o})})
      \cup given(some(v0) \/ some(v1), {ind(at1, "ld1", {o}), indPhi(at1, "m3", {o}, {b1})})
      \cup given(some(v0) \/ some(v2), {indPhi(at2, "m3", {o}, {b2})})

(* One definition that enters the join from both sides is one edge.        *)
joined(es) ==
  {IF e.preds = {} THEN e
   ELSE [e EXCEPT !.preds = UNION {d.preds : d \in {x \in es : x.src = e.src /\ x.dst = e.dst}}]
     : e \in es}

arms(o, v0, v1, v2) ==
  program(armNodes(o, v0, v1, v2), joined(armEdges(o, v0, v1, v2)), ifElse,
          step("p") \o step("va") \o step("vb") \o
          (IF v0 = "" THEN <<>> ELSE step("st0")) \o
          (IF v1 = "" THEN <<>> ELSE step("st1")) \o step("ld1") \o
          (IF v2 = "" THEN <<>> ELSE step("st2")) \o step("ld3"))

Arms == {arms(o, v0, v1, v2) : o \in {oh, op}, v0 \in {"", "va"}, v1 \in {"", "vb"},
                               v2 \in {"", "va", "vb"}}

(* z is p in one arm and q in the other; *p is written before the branch,  *)
(* *z after the join, and both are read then.                              *)
selectNodes ==
  ("p" :> def("addr", "p", op, b0)) @@ ("q" :> def("addr", "q", oq, b0)) @@
  ("va" :> def("addr", "va", oa, b0)) @@ ("vb" :> def("addr", "vb", ob, b0)) @@
  ("stp" :> def("store", "p", "va", b0)) @@
  ("p1" :> def("copy", "p1", "p", b1)) @@ ("q1" :> def("copy", "q1", "q", b2)) @@
  ("z" :> phi("z", {<<"p1", b1>>, <<"q1", b2>>}, b3)) @@
  ("stz" :> def("store", "z", "vb", b3)) @@
  ("x" :> def("load", "x", "p", b3)) @@ ("y" :> def("load", "y", "q", b3))

Select ==
  {program(selectNodes,
    {dir("p", "stp"), dir("va", "stp"), dir("p", "p1"),
     dir("q", "q1"), dir("p1", "z"), dir("q1", "z"), dir("z", "stz"), dir("vb", "stz"),
     dir("p", "x"), dir("q", "y"), ind("stp", "stz", {op}),
     ind("stz", "x", {op}), ind("stz", "y", {oq})},
    ifElse,
    step("p") \o step("q") \o step("va") \o step("vb") \o step("stp") \o
    step("p1") \o step("q1") \o step("z") \o step("stz") \o step("x") \o step("y"))}

(* Two calls of a function that returns its parameter, in either arm or    *)
(* one after the other.                                                    *)
identity(bb1, bb2) ==
  program(
    ("va" :> def("addr", "va", oa, b0)) @@ ("vb" :> def("addr", "vb", ob, b0)) @@
    ("ap1" :> parm("actualParm", "va", bb1, fmain)) @@
    ("ap2" :> parm("actualParm", "vb", bb2, fmain)) @@
    ("fp" :> parm("formalParm", "a", bf, ff)) @@ ("fr" :> parm("formalRet", "a", bf, ff)) @@
    ("x" :> parm("actualRet", "x", bb1, fmain)) @@ ("y" :> parm("actualRet", "y", bb2, fmain)),
    {dir("va", "ap1"), dir("vb", "ap2"), anEdge("callDir", "ap1", "fp", {}, s1, {}),
     anEdge("callDir", "ap2", "fp", {}, s2, {}), dir("fp", "fr"),
     anEdge("retDir", "fr", "x", {}, s1, {}), anEdge("retDir", "fr", "y", {}, s2, {})},
    ifElse,
    step("va") \o step("vb") \o bind("ap1", "va") \o bind("ap2", "vb") \o
    within("fp", "va", s1, "ap1") \o within("fr", "a", s1, "ap1") \o bind("x", "a") \o
    within("fp", "vb", s2, "ap2") \o within("fr", "a", s2, "ap2") \o bind("y", "a"))

Identity == {identity(b1, b2), identity(b0, b0)}

(* Calls, one after the other, of a function that writes its parameter to  *)
(* *p; *p is read after each.                                              *)
setterNodes(bb) ==
  ("p" :> def("addr", "p", op, b0)) @@
  ("va" :> def("addr", "va", oa, b0)) @@ ("vb" :> def("addr", "vb", ob, b0)) @@
  ("ap1" :> parm("actualParm", "va", bb, fmain)) @@
  ("ap2" :> parm("actualParm", "vb", b0, fmain)) @@
  ("fp" :> parm("formalParm", "a", bf, ff)) @@
  ("st" :> [def("store", "p", "a", bf) EXCEPT !.fun = ff]) @@
  ("fin" :> mem("formalIn", bf, ff)) @@ ("fout" :> mem("formalOut", bf, ff)) @@
  ("ain1" :> mem("actualIn", bb, fmain)) @@ ("aout1" :> mem("actualOut", bb, fmain)) @@
  ("ain2" :> mem("actualIn", b0, fmain)) @@ ("aout2" :> mem("actualOut", b0, fmain)) @@
  ("x" :> def("load", "x", "p", bb)) @@ ("y" :> def("load", "y", "p", b0))

firstCall ==
  {dir("va", "ap1"), anEdge("callDir", "ap1", "fp", {}, s1, {}), dir("fp", "st"),
   dir("p", "st"), dir("p", "x"),
   anEdge("callInd", "ain1", "fin", {op}, s1, {}), ind("fin", "st", {op}),
   ind("st", "fout", {op}), anEdge("retInd", "fout", "aout1", {op}, s1, {}),
   ind("aout1", "x", {op})}

secondCall ==
  {dir("vb", "ap2"), dir("p", "y"), anEdge("callDir", "ap2", "fp", {}, s2, {}),
   anEdge("callInd", "ain2", "fin", {op}, s2, {}),
   anEdge("retInd", "fout", "aout2", {op}, s2, {}),
   ind("aout1", "ain2", {op}), ind("aout2", "y", {op})}

firstCallTrace ==
  step("p") \o step("va") \o step("vb") \o
  within("fp", "va", s1, "ap1") \o within("st", "a", s1, "ap1") \o step("x")

SetOnce ==
  {program([n \in DOMAIN setterNodes(bb) \ {"ap2", "ain2", "aout2", "y"} |->
              setterNodes(bb)[n]],
           firstCall, ifElse, firstCallTrace) : bb \in {b0, b1}}
SetTwice ==
  {program(setterNodes(b0), firstCall \cup secondCall, ifElse,
           firstCallTrace \o
           within("fp", "vb", s2, "ap2") \o within("st", "a", s2, "ap2") \o step("y"))}

(* The function is called once and writes va, which is no parameter of it. *)
SetSame ==
  {program([n \in DOMAIN setterNodes(b0) \ {"ap1", "fp", "ap2", "ain2", "aout2", "y"} |->
              IF n = "st" THEN [setterNodes(b0)["st"] EXCEPT !.src = "va"]
              ELSE setterNodes(b0)[n]],
           {e \in firstCall \cup {dir("va", "st")} : {e.src, e.dst} \cap {"ap1", "fp"} = {}},
           ifElse,
           step("p") \o step("va") \o within("st", "va", s1, "ain1") \o step("x"))}

PathPrograms == Arms \cup Select \cup Identity \cup SetOnce \cup SetTwice
=============================================================================
