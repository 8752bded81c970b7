----------------------------- MODULE ValueFlow ------------------------------
(***************************************************************************)
(* The program the path-sensitive analysis works on: a sparse value-flow   *)
(* graph whose nodes are statements and memory-SSA definitions, the        *)
(* control-flow graph of basic blocks they sit in, and the guards that     *)
(* PathSensitiveFlowSensitive, SVFG, VFG and MemSSA read off both.         *)
(*                                                                         *)
(* Programs are handed over complete, with direct calls only: nothing is   *)
(* resolved on the fly.  Fields are left out.                              *)
(***************************************************************************)
EXTENDS Guard

CONSTANTS
  Var,           \* top-level pointers
  Obj,           \* address-taken objects
  ConstObj,      \* constant objects: neither read nor written
  StrongObj,     \* objects a store through a sure pointer overwrites
  Block,
  Fun,
  NoAtom,        \* the branch of an unconditional control-flow edge
  NoSite,        \* the call site of an intraprocedural edge
  Programs

stmtKinds == {"addr", "copy", "phi", "load", "store"}
parmKinds == {"actualParm", "formalParm", "formalRet", "actualRet"}
memKinds  == {"mssaPhi", "formalIn", "formalOut", "actualIn", "actualOut"}

(* A node: dst and src are the operands of a statement (an object as the   *)
(* source of an address statement, the pointer as the destination of a     *)
(* store), ops the operands of a phi with the blocks they come from.       *)
IsNode(n) ==
  /\ n.kind \in stmtKinds \cup parmKinds \cup memKinds
  /\ n.block \in Block
  /\ n.fun \in Fun
  /\ n.kind \in stmtKinds => n.dst \in Var
  /\ n.kind = "addr" => n.src \in Obj
  /\ n.kind \in {"copy", "load", "store"} => n.src \in Var
  /\ n.kind = "phi" => n.ops \subseteq Var \X Block
  /\ n.kind \in parmKinds => n.dst \in Var

(* An edge: objs are the objects an indirect edge is about, site the call  *)
(* site of a call or return edge, preds the predecessor blocks under which *)
(* the edge enters a memory phi.                                           *)
sourceKinds ==
  [dir     |-> stmtKinds \cup parmKinds,
   callDir |-> {"actualParm"},
   retDir  |-> {"formalRet"},
   ind     |-> memKinds \cup {"store"},
   callInd |-> memKinds \cup {"store"},
   retInd  |-> memKinds \cup {"store"}]

IsEdge(p, e) ==
  /\ DOMAIN e = {"kind", "src", "dst", "objs", "site", "preds"}
  /\ e.kind \in DOMAIN sourceKinds
  /\ {e.src, e.dst} \subseteq DOMAIN p.nodes
  /\ e.objs \subseteq Obj
  /\ e.site \in ContextAtom \cup {NoSite}
  /\ e.preds \subseteq Block
  /\ p.nodes[e.src].kind \in sourceKinds[e.kind]

(* A control-flow edge, under one outcome of a branch or unconditional.    *)
IsFlow(f) ==
  /\ DOMAIN f = {"src", "dst", "cond", "branch"}
  /\ {f.src, f.dst} \subseteq Block
  /\ f.cond \in PathAtom \cup {NoAtom}
  /\ f.branch \in BOOLEAN

IsProgram(p) ==
  /\ \A n \in DOMAIN p.nodes : IsNode(p.nodes[n])
  /\ \A e \in p.edges : IsEdge(p, e)
  /\ \A f \in p.flow : IsFlow(f)

ASSUME ValueFlowAssumption ==
  /\ ConstObj \subseteq Obj
  /\ StrongObj \subseteq Obj \ ConstObj
  /\ Var \cap Obj = {}
  /\ \A p \in Programs : IsProgram(p)

-----------------------------------------------------------------------------
(* The guard of a block: the disjunction of its conditional in-edges; the  *)
(* unconditional ones do not take part.                                    *)
flowGuard(f) == IF f.cond = NoAtom THEN getTrue ELSE atom(f.cond, f.branch)

condInEdges(p, bb) == {f \in p.flow : f.dst = bb /\ f.cond # NoAtom}

getNodeGuard(p, n) ==
  LET ins == condInEdges(p, p.nodes[n].block)
  IN  IF ins = {} THEN getTrue ELSE anyOf({flowGuard(f) : f \in ins})

(* The guard of the edge from one predecessor, of a phi operand.           *)
getPhiOperandGuard(p, bb, pred) ==
  LET ins == {f \in condInEdges(p, bb) : f.src = pred}
  IN  IF ins = {} THEN getTrue ELSE flowGuard(CHOOSE f \in ins : TRUE)

(* An edge into a memory phi carries the guards of the operands it stands  *)
(* for; into a load or a store the guard of its block.                     *)
indirectEdgeGuard(p, e) ==
  CASE p.nodes[e.dst].kind = "mssaPhi" ->
         anyOf({getPhiOperandGuard(p, p.nodes[e.dst].block, b) : b \in e.preds})
    [] p.nodes[e.dst].kind \in {"load", "store"} -> getNodeGuard(p, e.dst)
    [] OTHER -> getTrue

contextEdgeGuard(e) == atom(e.site, TRUE)
=============================================================================
