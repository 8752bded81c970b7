------------------------------ MODULE MCFields ------------------------------
(***************************************************************************)
(* Model checking of the field-sensitive solver: an object with two        *)
(* fields, whose offsets wrap around (MaxFieldLimit), beside a plain one.  *)
(***************************************************************************)
EXTENDS FieldFacts, MCCondAndersen

CONSTANTS ox0, ox1     \* the fields of ox

MCGepObj          == {ox0, ox1}
MCbase            == [o \in Obj |-> IF o \in {ox0, ox1} THEN ox ELSE o]
MCgepObjVar(o, k) ==
  IF base[o] # ox THEN o
  ELSE IF ((IF o = ox1 THEN 1 ELSE 0) + k) % 2 = 0 THEN ox0 ELSE ox1

-----------------------------------------------------------------------------
(* The least solution given F, by iteration.                               *)
fieldConsequences(p, gs, F, S) ==
  LET P == [p EXCEPT !.addr = {<<canon(a[1], F), a[2]>> : a \in @}]
      Q == consequences(P, S)
  IN  [n \in Node |-> Q[n]
         \cup UNION {{gepTarget(o, s, F) : o \in S[s.src]} : s \in {t \in gs : t.dst = n}}]

RECURSIVE fieldLfp(_, _, _, _)
fieldLfp(p, gs, F, S) ==
  LET T == fieldConsequences(p, gs, F, S) IN IF T = S THEN S ELSE fieldLfp(p, gs, F, T)

MCFieldSolution(p, gs, F) == fieldLfp(p, gs, F, [n \in Node |-> {}])

-----------------------------------------------------------------------------
gep(src, dst, off, g) ==
  [kind |-> "normalGep", src |-> src, dst |-> dst, off |-> off, guard |-> g]
variantGep(src, dst, g) ==
  [kind |-> "variantGep", src |-> src, dst |-> dst, off |-> 0, guard |-> g]

openGep(src, dst, guards) ==
  {{gep(src, dst, k, g)} : k \in {0, 1}, g \in guards}
    \cup {{variantGep(src, dst, g)} : g \in guards}

(* A walk along a list: vb = &va->f, *vb = va, va = vb or va = *vb, and a  *)
(* second gep from va into vd.                                             *)
Walks ==
  {program({<<ox, va>>}, {stmt("store", va, vb, G!getTrue)} \cup s1 \cup s2, {}) :
     s1 \in choices("copy", vb, va, openGuards),
     s2 \in choices("load", vb, va, {G!getTrue})}

(* A call that binds the field's address to the pointer it was taken from. *)
Recursions ==
  {program({<<ox, va>>, <<oy, vd>>}, {}, {call(vd, oy, {<<vb, va>>}, g)}) : g \in openGuards}

(* vd holds the object under one literal and a field of it under another,  *)
(* beside ve, which holds the field, or the object that a variant gep has  *)
(* collapsed.  Where an object arrives twice, it arrives under literals.   *)
Holders ==
  {program({<<ox, va>>}, {stmt("copy", va, vd, g1), stmt("copy", vb, vd, g2)} \cup s3, {}) :
     g1 \in signed, g2 \in signed, s3 \in choices("copy", vb, ve, signed)}

(* A field taken through a pointer that holds the object conditionally,    *)
(* and a field of the object itself.                                       *)
Chains == {program({<<ox, va>>}, {stmt("copy", va, vb, g)}, {}) : g \in signed}

chainGeps ==
  {{gep(vb, vd, 1, g), gep(va, ve, k, h)} :
     k \in {0, 1}, g \in {G!getTrue} \cup signed, h \in signed}

holderGeps(p) ==
  IF \E s \in p.stmts : s.dst = ve
  THEN {{variantGep(va, vb, G!getTrue)}}
         \cup {{gep(va, vb, k, g)} : k \in {0, 1}, g \in {G!getTrue} \cup signed}
  ELSE {{gep(va, vb, k, G!getTrue), variantGep(va, ve, g)} : k \in {0, 1}, g \in signed}

FieldPrograms == Walks \cup Recursions \cup Holders \cup Chains

openGeps(p) ==
  IF p.calls # {} THEN openGep(va, vb, {G!getTrue})
  ELSE IF p \in Holders THEN holderGeps(p)
  ELSE IF p \in Chains THEN chainGeps
  ELSE {g1 \cup g2 : g1 \in openGep(va, vb, openGuards),
                     g2 \in {{}, {gep(va, vd, 1, G!getTrue)}, {variantGep(va, vd, G!getTrue)}}}

(* The addresses of two fields in two pointers that form a cycle.          *)
Siblings == {program({<<ox, va>>}, {stmt("copy", vb, vd, g), stmt("copy", vd, vb, g)}, {}) :
               g \in openGuards}

siblingGeps(p) == {{gep(va, vb, 0, G!getTrue), gep(va, vd, 1, G!getTrue)}}
=============================================================================
