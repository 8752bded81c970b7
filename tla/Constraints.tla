---------------------------- MODULE Constraints ----------------------------
(***************************************************************************)
(* The program a points-to analysis is asked about, as the constraint      *)
(* graph builder hands it over (SVF/svf/lib/Graphs/ConsG.cpp,              *)
(* SVF/svf/include/SVFIR): address-of, copy, load and store statements     *)
(* with the guards of their basic blocks, and the parameter and return     *)
(* bindings of the calls that function pointers may resolve to.  A guard   *)
(* is a value the constraints themselves never look into.                  *)
(*                                                                         *)
(* The graph only holds statements whose two operands are pointers         *)
(* (SVFStmt::isPTAEdge), so the isPointer() tests of processLoad and       *)
(* processStore are left out.                                              *)
(***************************************************************************)

CONSTANTS
  Node,          \* nodes of the constraint graph (variables and objects)
  Obj,           \* memory objects, which are nodes too
  ConstObj,      \* constant objects: nothing is loaded from or stored to them
  Programs,      \* the programs under analysis
  Solution(_)    \* a points-to solution of each program

edge(k, s, d) == [kind |-> k, src |-> s, dst |-> d]

Edge == [kind : {"copy", "load", "store"}, src : Node, dst : Node]

(* p = q is [copy, q, p], p = *q is [load, q, p], *p = q is [store, q, p]. *)
IsStmt(s) ==
  /\ DOMAIN s = {"kind", "src", "dst", "guard"}
  /\ edge(s.kind, s.src, s.dst) \in Edge

(* What one function pointer binds when it points to one function: the     *)
(* actual/formal and return/receiver pairs, under the call site's guard.   *)
IsCall(c) ==
  /\ DOMAIN c = {"fp", "fun", "args", "guard"}
  /\ c.fp \in Node
  /\ c.fun \in Obj
  /\ c.args \subseteq Node \X Node

IsProgram(p) ==
  /\ DOMAIN p = {"addr", "stmts", "calls"}
  /\ p.addr \subseteq Obj \X Node
  /\ \A s \in p.stmts : IsStmt(s)
  /\ \A c \in p.calls : IsCall(c)

-----------------------------------------------------------------------------
(* The inclusion constraints: what it means that S, the points-to set of   *)
(* every node, accounts for a statement and for a whole program, whatever  *)
(* the guards.  This is the reference the solver is measured against.      *)
Respects(S, e) ==
  /\ e.kind = "copy"  => S[e.src] \subseteq S[e.dst]
  /\ e.kind = "load"  => \A o \in S[e.src] \ ConstObj : S[o] \subseteq S[e.dst]
  /\ e.kind = "store" => \A o \in S[e.dst] \ ConstObj : S[e.src] \subseteq S[o]

IsSolution(p, S) ==
  /\ \A a \in p.addr : a[1] \in S[a[2]]
  /\ \A s \in p.stmts : Respects(S, s)
  /\ \A c \in p.calls : c.fun \in S[c.fp] =>
       \A arg \in c.args : S[arg[1]] \subseteq S[arg[2]]

ASSUME ConstraintsAssumption ==
  /\ Node # {}
  /\ ConstObj \subseteq Obj
  /\ Obj \subseteq Node
  /\ \A p \in Programs :
       /\ IsProgram(p)
       /\ Solution(p) \in [Node -> SUBSET Obj]
       /\ IsSolution(p, Solution(p))
=============================================================================
