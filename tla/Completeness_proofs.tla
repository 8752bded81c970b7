------------------------- MODULE Completeness_proofs -------------------------
(***************************************************************************)
(* The solver forgets no work (NoLostWork), for every program, guard       *)
(* algebra and choice of options, although it merges nodes that are        *)
(* waiting, takes some cycles up at their root only, and adds edges while  *)
(* it walks them.  Hence its answer accounts for the whole program         *)
(* (Complete), and it implements the abstract analysis PointsTo.           *)
(***************************************************************************)
EXTENDS Precision_proofs

-----------------------------------------------------------------------------
(* What the worklist and the graph operations do, exactly.                 *)

(* push leaves the representative of the node on the worklist.             *)
LEMMA PushRange ==
  ASSUME NEW w \in Seq(Node), NEW n \in Node, rep \in [Node -> Node]
  PROVE  Range(push(w, n)) = Range(w) \cup {rep[n]}
<1>1. CASE rep[n] \in Range(w)
  BY <1>1 DEF push
<1>2. CASE rep[n] \notin Range(w)
  <2>1. push(w, n) = Append(w, rep[n]) /\ rep[n] \in Node
    BY <1>2 DEF push
  <2> QED BY <2>1 DEF Range
<1> QED BY <1>1, <1>2

(* Taking the first element leaves the others.                             *)
LEMMA TailRange ==
  ASSUME NEW w \in Seq(Node), w # <<>>
  PROVE  Range(w) \subseteq {Head(w)} \cup Range(Tail(w))
<1>1. SUFFICES ASSUME NEW i \in 1..Len(w)
               PROVE  w[i] \in {Head(w)} \cup Range(Tail(w))
  BY DEF Range
<1>2. CASE i = 1
  BY <1>2
<1>3. CASE i # 1
  <2>1. i - 1 \in DOMAIN Tail(w) /\ Tail(w)[i - 1] = w[i]
    BY <1>3
  <2> QED BY <2>1 DEF Range
<1> QED BY <1>2, <1>3

(* The edge f after n was merged into r.                                   *)
end(m, n, r)       == IF m = n THEN r ELSE m
mergedEdge(f, n, r) == edge(f.kind, end(f.src, n, r), end(f.dst, n, r))

(* Merging n into r moves every edge and drops nothing but the copies that *)
(* would lead from a node to itself.                                       *)
LEMMA MoveEdgesDomain ==
  ASSUME NEW g, DOMAIN g \subseteq Edge, NEW n \in Node, NEW r \in Node, n # r
  PROVE  \A e : e \in DOMAIN moveEdgesToRepNode(g, n, r) <=>
           /\ \E f \in DOMAIN g : e = mergedEdge(f, n, r)
           /\ e.kind = "copy" => e.src # e.dst
<1> DEFINE h == reTarget(g, "dst", n, r)
           k == reTarget(h, "src", n, r)
<1>1. \A e : e \in DOMAIN h <=> /\ \E f \in DOMAIN g : e = moved(f, "dst", n, r)
                                /\ e.kind = "copy" => e.src # e.dst
  BY DEF reTarget
<1>2. \A e : e \in DOMAIN k <=> /\ \E f \in DOMAIN h : e = moved(f, "src", n, r)
                                /\ e.kind = "copy" => e.src # e.dst
  <2> HIDE DEF h
  <2> QED BY DEF reTarget
<1>3. \A f \in Edge : moved(f, "dst", n, r) = edge(f.kind, f.src, end(f.dst, n, r))
  BY DEF moved, Edge, edge, end
<1>4. \A f \in Edge : moved(f, "src", n, r) = edge(f.kind, end(f.src, n, r), f.dst)
  BY DEF moved, Edge, edge, end
<1>5. \A f \in Edge : moved(f, "dst", n, r) \in Edge
  BY MovedIsEdge
<1>6. \A f \in DOMAIN g :
        moved(moved(f, "dst", n, r), "src", n, r) = mergedEdge(f, n, r)
  BY <1>3, <1>4, <1>5 DEF mergedEdge, edge
<1>7. ASSUME NEW f \in DOMAIN g, moved(f, "dst", n, r) \notin DOMAIN h
      PROVE  mergedEdge(f, n, r).kind = "copy"
             /\ mergedEdge(f, n, r).src = mergedEdge(f, n, r).dst
  <2>1. f.kind = "copy" /\ f.src = end(f.dst, n, r)
    BY <1>1, <1>3, <1>7 DEF edge
  <2>2. f.src # n
    BY <2>1 DEF end
  <2> QED BY <2>1, <2>2 DEF mergedEdge, edge, end
<1> HIDE DEF h
<1>8. ASSUME NEW e, e \in DOMAIN k
      PROVE  \E f \in DOMAIN g : e = mergedEdge(f, n, r)
  BY <1>1, <1>2, <1>6, <1>8
<1>9. ASSUME NEW f \in DOMAIN g,
             mergedEdge(f, n, r).kind = "copy" =>
               mergedEdge(f, n, r).src # mergedEdge(f, n, r).dst
      PROVE  mergedEdge(f, n, r) \in DOMAIN k
  BY <1>2, <1>6, <1>7, <1>9
<1>10. k = moveEdgesToRepNode(g, n, r)
  BY DEF moveEdgesToRepNode, h
<1> HIDE DEF k
<1> QED BY <1>2, <1>8, <1>9, <1>10

-----------------------------------------------------------------------------
(* NoLostWork must hold of every node from the start, and the roots of the *)
(* cycles being merged must still be on the stack: a merge gives them new  *)
(* edges and facts and pushes nothing.                                     *)
Unforgotten == \A n \in live : settled(n) \/ pending(n)

StackInv ==
  /\ pc \in {"addr", "attach", "update", "done"} => nodeStack = {}
  /\ pc = "merge" => todo \subseteq nodeStack /\ \A p \in subs : p[2] \in nodeStack

WorkInv == PreciseInv /\ StackInv /\ Unforgotten

(* Some node on the worklist, or about to be put there, stands for n.      *)
queued(n) == \E m \in Range(worklist) \cup cpySrcNodes : rep[m] = n

(* An edge that is there stays, whatever else is added.                    *)
LEMMA DerivedKept ==
  ASSUME NEW o, NEW e, derived(o, e), UNCHANGED rep,
         DOMAIN consCG \subseteq DOMAIN consCG'
  PROVE  derived(o, e)'
BY DEF derived, derivedEdge

(* New copies, and facts elsewhere, give a node no new loads and stores.   *)
LEMMA TasksKept ==
  ASSUME NEW n, pts'[n] = pts[n],
         DOMAIN consCG \subseteq DOMAIN consCG',
         \A e \in DOMAIN consCG' : e \in DOMAIN consCG \/ e.kind = "copy"
  PROVE  tasks(n)' = tasks(n)
<1>1. through(n)' = through(n)
  BY DEF through
<1> QED BY <1>1 DEF tasks

(* A node that is done stays done if it gets no facts and no copies.       *)
LEMMA SettledKept ==
  ASSUME TypeOK, NEW n \in Node, settled(n), UNCHANGED rep, pts'[n] = pts[n],
         \A m \in Node : pts[m] \subseteq pts'[m],
         DOMAIN consCG \subseteq DOMAIN consCG',
         \A e \in DOMAIN consCG' : e \in DOMAIN consCG \/ (e.kind = "copy" /\ e.src # n)
  PROVE  settled(n)'
<1>1. \A e \in edges("copy")' : e.src = n => copied(e)'
  <2>1. ASSUME NEW e \in edges("copy")', e.src = n PROVE copied(e)'
    <3>1. e \in edges("copy") /\ e.dst \in Node
      BY <2>1 DEF edges, TypeOK, Edge
    <3>2. pts[n] \subseteq pts[e.dst]
      BY <2>1, <3>1 DEF settled, copied
    <3> QED BY <2>1, <3>1, <3>2 DEF copied
  <2> QED BY <2>1
<1>2. tasks(n)' = tasks(n)
  BY TasksKept
<1>3. \A t \in tasks(n) : derived(t[1], t[2])'
  BY DerivedKept DEF settled
<1> QED BY <1>1, <1>2, <1>3 DEF settled

(* Everything stays as it is for a node when graph, facts and worklist do, *)
(* outside the loops over loads, stores and copies.                        *)
LEMMA UnforgottenKept ==
  ASSUME PreciseInv, Unforgotten, UNCHANGED <<pts, rep>>,
         DOMAIN consCG' = DOMAIN consCG,
         Range(worklist) \cup cpySrcNodes \subseteq Range(worklist') \cup cpySrcNodes',
         nodeStack \subseteq nodeStack',
         pc \notin {"loadstore", "propagate"} \/ (pc = "propagate" /\ todo = {})
  PROVE  Unforgotten'
<1> SUFFICES ASSUME NEW n \in live PROVE (settled(n) \/ pending(n))'
  BY DEF Unforgotten, live
<1>1. n \in Node /\ TypeOK
  BY DEF live, PreciseInv
<1>2. settled(n) => settled(n)'
  BY <1>1, SettledKept
<1>3. pending(n) => settled(n) \/ n \in nodeStack \/ queued(n)
  BY DEF pending, settled, queued
<1>4. n \in nodeStack \/ queued(n) => pending(n)'
  BY DEF pending, queued
<1> QED BY <1>2, <1>3, <1>4 DEF Unforgotten

(* An address gives its variable an object and puts it on the worklist.    *)
LEMMA AddrUnforgotten ==
  ASSUME WorkInv, NEW a \in todo, processAddr(a)
  PROVE  Unforgotten'
<1>1. /\ TypeOK /\ Unforgotten
      /\ a[1] \in Obj /\ a[2] \in Node
  BY ProgramFacts DEF WorkInv, PreciseInv, TypeOK, processAddr, IsProgram
<1>2. SUFFICES ASSUME NEW n \in live PROVE (settled(n) \/ pending(n))'
  BY DEF Unforgotten, live, processAddr
<1>3. /\ n \in Node /\ UNCHANGED <<rep, consCG, cpySrcNodes, nodeStack>> /\ pc = "addr"
      /\ \A m \in Node : pts'[m] = IF m = a[2] THEN pts[m] \cup {a[1]} ELSE pts[m]
  BY <1>1 DEF processAddr, TypeOK, live
<1>4. Range(worklist) \subseteq Range(worklist')
  BY <1>1, PushRange DEF processAddr, TypeOK
<1>5. n \in nodeStack \/ queued(n) => pending(n)'
  BY <1>3, <1>4 DEF pending, queued
<1>6. CASE pts'[n] = pts[n]
  <2>1. settled(n) => settled(n)'
    BY <1>1, <1>3, <1>6, SettledKept
  <2> QED BY <1>1, <1>3, <1>5, <2>1 DEF Unforgotten, pending, queued
<1>7. CASE pts'[n] # pts[n]
  <2>1. n = a[2] /\ rep[n] = n /\ worklist' = push(worklist, n)
    BY <1>3, <1>7 DEF processAddr, live
  <2>2. n \in Range(worklist')
    BY <1>1, <1>3, <2>1, PushRange DEF TypeOK
  <2> QED BY <1>3, <2>1, <2>2 DEF pending
<1> QED BY <1>6, <1>7

(* Merging: a node other than the two keeps what it had, through moved     *)
(* edges; the root is on the stack.                                        *)
LEMMA MergeUnforgotten ==
  ASSUME WorkInv, NEW p \in subs, mergeNodeToRep(p[1], p[2])
  PROVE  Unforgotten'
<1> DEFINE n == p[1]
           r == p[2]
<1>1. TypeOK /\ Unforgotten /\ pc = "merge" /\ pc' = "merge"
  BY DEF WorkInv, PreciseInv, mergeNodeToRep
<1>2. n \in Node /\ r \in Node /\ n # r /\ rep[n] = n /\ rep[r] = r /\ r \in nodeStack
  BY <1>1 DEF WorkInv, PreciseInv, Within, TypeOK, SubsWithin, StackInv, live
<1>3. /\ consCG' = moveEdgesToRepNode(consCG, n, r)
      /\ UNCHANGED <<worklist, cpySrcNodes, nodeStack>>
      /\ \A m \in Node : rep'[m] = end(rep[m], n, r)
      /\ pts' = [pts EXCEPT ![r] = @ \cup pts[n]]
  BY DEF mergeNodeToRep, end
<1> HIDE DEF n, r
<1>4. \A m \in Node : pts'[m] = IF m = r THEN pts[r] \cup pts[n] ELSE pts[m]
  BY <1>1, <1>2, <1>3 DEF TypeOK
<1>5. \A e : e \in DOMAIN consCG' <=>
        /\ \E f \in DOMAIN consCG : e = mergedEdge(f, n, r)
        /\ e.kind = "copy" => e.src # e.dst
  <2>1. DOMAIN consCG \subseteq Edge
    BY <1>1 DEF TypeOK
  <2> QED BY <1>2, <1>3, <2>1, MoveEdgesDomain
<1>6. SUFFICES ASSUME NEW m \in Node, rep'[m] = m PROVE (settled(m) \/ pending(m))'
  BY DEF Unforgotten, live
<1>7. m # n /\ rep[m] = m
  BY <1>1, <1>2, <1>3, <1>6 DEF end, TypeOK
<1>8. CASE m = r
  BY <1>2, <1>3, <1>8 DEF pending
<1>9. ASSUME m # r, \E w \in Range(worklist) \cup cpySrcNodes : rep[w] = m
      PROVE  pending(m)'
  <2>1. PICK w \in Range(worklist) \cup cpySrcNodes : rep[w] = m
    BY <1>9
  <2>2. w \in Node
    BY <1>1 DEF TypeOK, Range
  <2>3. rep'[w] = m
    BY <1>3, <1>7, <2>1, <2>2 DEF end
  <2> QED BY <1>3, <2>3 DEF pending
<1>10. ASSUME m # r, settled(m) PROVE settled(m)'
  <2>1. ASSUME NEW e \in edges("copy")', e.src = m PROVE copied(e)'
    <3>1. PICK f \in DOMAIN consCG : e = mergedEdge(f, n, r)
      BY <1>5 DEF edges
    <3>2. /\ f.kind = "copy" /\ f.src = m /\ f.dst \in Node
          /\ e.dst = end(f.dst, n, r)
      BY <1>1, <1>10, <2>1, <3>1 DEF edges, mergedEdge, edge, end, TypeOK, Edge
    <3>3. pts[m] \subseteq pts[f.dst]
      BY <1>10, <3>2 DEF settled, copied, edges
    <3>4. pts[f.dst] \subseteq pts'[e.dst]
      BY <1>2, <1>4, <3>2 DEF end
    <3> QED BY <1>4, <1>10, <2>1, <3>3, <3>4 DEF copied
  <2>2. ASSUME NEW o \in pts[m] \ ConstObj, NEW e \in through(m)'
        PROVE  derived(o, e)'
    <3>1. PICK f \in DOMAIN consCG : e = mergedEdge(f, n, r)
      BY <1>5, <2>2 DEF through
    <3>2. f \in through(m) /\ e.kind = f.kind /\ f.kind \in {"load", "store"} /\ f \in Edge
      <4>1. f \in Edge
        BY <1>1 DEF TypeOK
      <4>2. /\ e.kind = f.kind
            /\ e.src = end(f.src, n, r) /\ e.dst = end(f.dst, n, r)
        BY <3>1 DEF mergedEdge, edge
      <4>3. \/ e.kind = "load" /\ e.src = m
            \/ e.kind = "store" /\ e.dst = m
        BY <2>2 DEF through
      <4> QED BY <1>10, <4>1, <4>2, <4>3 DEF through, end
    <3>3. o \in Node /\ derived(o, f)
      <4>1. o \in Node /\ <<o, f>> \in tasks(m)
        BY <1>1, <1>6, <3>2, ConstraintsAssumption DEF tasks, TypeOK
      <4>2. \A t \in tasks(m) : derived(t[1], t[2])
        BY <1>10 DEF settled
      <4> QED BY <4>1, <4>2
    <3>4. derivedEdge(o, e)' = mergedEdge(derivedEdge(o, f), n, r)
      BY <1>3, <3>1, <3>2, <3>3 DEF derivedEdge, mergedEdge, edge, Edge
    <3>5. derivedEdge(o, f).kind = "copy"
      BY DEF derivedEdge, edge
    <3> QED BY <1>5, <3>3, <3>4, <3>5 DEF derived, mergedEdge, edge
  <2> QED BY <1>4, <1>10, <2>1, <2>2 DEF settled, tasks
<1>11. CASE m # r
  <2>1. settled(m) \/ m \in nodeStack
          \/ \E w \in Range(worklist) \cup cpySrcNodes : rep[w] = m
    BY <1>1, <1>7 DEF Unforgotten, live, pending
  <2> QED BY <1>3, <1>9, <1>10, <1>11, <2>1 DEF pending
<1> QED BY <1>8, <1>11

(* Taking a node up: all its loads and stores are in the loop.             *)
LEMMA ProcessNodeUnforgotten ==
  ASSUME PreciseInv, Unforgotten, NEW r \in Node, processNode(r), idle,
         UNCHANGED <<pts, rep, consCG, cpySrcNodes>>,
         \A n \in Node : n \in nodeStack \/ queued(n) =>
            n = r \/ n \in nodeStack' \/ queued(n)'
  PROVE  Unforgotten'
<1> SUFFICES ASSUME NEW n \in live PROVE (settled(n) \/ pending(n))'
  BY DEF Unforgotten, live
<1>1. n \in Node /\ TypeOK
  BY DEF live, PreciseInv
<1>2. CASE n = r
  <2>1. cur' = r /\ pc' = "loadstore" /\ todo' = pts[r] \X through(r)
    BY DEF processNode
  <2>2. \A t \in tasks(r)' : t \in todo'
    BY <2>1 DEF tasks, through
  <2> QED BY <1>2, <2>1, <2>2 DEF pending
<1>3. CASE n # r
  <2>1. settled(n) => settled(n)'
    BY <1>1, SettledKept
  <2>2. settled(n) \/ n \in nodeStack \/ queued(n)
    BY DEF Unforgotten, pending, settled, queued, idle
  <2> QED BY <1>1, <1>3, <2>1, <2>2 DEF pending, queued
<1> QED BY <1>2, <1>3

(* A load or store that is processed has its edge; the source of a new     *)
(* edge is put on the worklist.                                            *)
LEMMA LoadStoreUnforgotten ==
  ASSUME WorkInv, pc = "loadstore", NEW t \in todo, processLoadStore(t[1], t[2])
  PROVE  Unforgotten'
<1> DEFINE o == t[1]
           e == t[2]
           new == derivedEdge(o, e)
           added == addCopyEdges(consCG, IF o \in ConstObj THEN {} ELSE {new})
<1>1. /\ TypeOK /\ Unforgotten /\ Within
      /\ o \in Obj /\ o \in Node /\ e \in DOMAIN consCG /\ t = <<o, e>>
  BY ConstraintsAssumption DEF WorkInv, PreciseInv, TypeOK, edges
<1>2. /\ pc' = "loadstore" /\ todo' = todo \ {t}
      /\ UNCHANGED <<cur, pts, rep, nodeStack, cpySrcNodes>>
  BY <1>1 DEF processLoadStore
<1>3. DOMAIN consCG' = DOMAIN added
  BY MergeEdgeGuardDomain DEF processLoadStore
<1>4. \A f : f \in DOMAIN consCG' <=> f \in DOMAIN consCG
                \/ (o \notin ConstObj /\ f = new /\ new.src # new.dst)
  BY <1>3, AddCopyEdgesDomain
<1>5. new.kind = "copy" /\ new.src \in Node /\ rep[new.src] = new.src
  BY <1>1 DEF TypeOK, Within, RepsWithin, GraphWithin, live, derivedEdge, edge
<1>6. worklist' = IF new \in DOMAIN added \ DOMAIN consCG
                  THEN push(worklist, new.src) ELSE worklist
  BY DEF processLoadStore
<1> HIDE DEF new, added
<1>7. Range(worklist) \subseteq Range(worklist')
  BY <1>1, <1>5, <1>6, PushRange DEF TypeOK
<1>8. new \in DOMAIN consCG' \ DOMAIN consCG => new.src \in Range(worklist')
  BY <1>1, <1>3, <1>5, <1>6, PushRange DEF TypeOK
<1>9. o \notin ConstObj => derived(o, e)'
  <2>1. derivedEdge(o, e)' = new
    BY <1>2 DEF derivedEdge, new
  <2> QED BY <1>4, <2>1 DEF derived
<1>10. SUFFICES ASSUME NEW n \in live PROVE (settled(n) \/ pending(n))'
  BY <1>2 DEF Unforgotten, live
<1>11. n \in Node /\ n \in live
  BY DEF live
<1>12. \A f \in DOMAIN consCG' : f \in DOMAIN consCG \/ f.kind = "copy"
  BY <1>4, <1>5
<1>13. CASE n = new.src /\ new \in DOMAIN consCG' \ DOMAIN consCG
  BY <1>2, <1>5, <1>8, <1>13 DEF pending
<1>14. CASE ~(n = new.src /\ new \in DOMAIN consCG' \ DOMAIN consCG)
  <2>1. \A f \in DOMAIN consCG' : f \in DOMAIN consCG \/ (f.kind = "copy" /\ f.src # n)
    BY <1>4, <1>5, <1>14
  <2>2. settled(n) => settled(n)'
    BY <1>1, <1>2, <1>4, <1>11, <2>1, SettledKept
  <2>3. n \in nodeStack \/ queued(n) => pending(n)'
    BY <1>2, <1>7 DEF pending, queued
  <2>4. ASSUME n = cur, \A u \in tasks(n) : u \in todo \/ derived(u[1], u[2])
        PROVE  pending(n)'
    <3>1. tasks(n)' = tasks(n)
      BY <1>2, <1>4, <1>12, TasksKept
    <3>2. ASSUME NEW u \in tasks(n) PROVE u \in todo' \/ derived(u[1], u[2])'
      <4>1. CASE u = t
        <5>1. o \notin ConstObj
          BY <1>1, <3>2, <4>1 DEF tasks
        <5> QED BY <1>9, <4>1, <5>1
      <4>2. CASE u # t /\ u \in todo
        BY <1>2, <4>2
      <4>3. CASE derived(u[1], u[2])
        BY <1>2, <1>4, <4>3, DerivedKept
      <4> QED BY <2>4, <4>1, <4>2, <4>3
    <3> QED BY <1>2, <2>4, <3>1, <3>2 DEF pending
  <2>5. settled(n) \/ n \in nodeStack \/ queued(n)
          \/ (n = cur /\ \A u \in tasks(n) : u \in todo \/ derived(u[1], u[2]))
    BY <1>1, <1>11 DEF Unforgotten, pending, queued
  <2> QED BY <2>2, <2>3, <2>4, <2>5
<1> QED BY <1>13, <1>14

(* Once its loads and stores are done, the copies of the node are walked.  *)
LEMMA HandleCopyUnforgotten ==
  ASSUME WorkInv, handleCopyGep
  PROVE  Unforgotten'
<1>1. /\ TypeOK /\ Unforgotten
      /\ pc = "loadstore" /\ todo = {} /\ pc' = "propagate"
      /\ UNCHANGED <<cur, pts, rep, consCG, nodeStack, worklist, cpySrcNodes>>
      /\ todo' = {e \in edges("copy") : e.src = cur /\ pts[cur] # {}}
  BY DEF WorkInv, PreciseInv, handleCopyGep
<1>2. SUFFICES ASSUME NEW n \in live PROVE (settled(n) \/ pending(n))'
  BY <1>1 DEF Unforgotten, live
<1>3. n \in Node
  BY DEF live
<1>4. settled(n) => settled(n)'
  BY <1>1, <1>3, SettledKept
<1>5. n \in nodeStack \/ queued(n) => pending(n)'
  BY <1>1 DEF pending, queued
<1>6. ASSUME n = cur, \A t \in tasks(n) : derived(t[1], t[2])
      PROVE  pending(n)'
  <2>1. tasks(n)' = tasks(n) /\ edges("copy")' = edges("copy")
    BY <1>1 DEF tasks, through, edges
  <2>2. \A t \in tasks(n) : derived(t[1], t[2])'
    BY <1>1, <1>6, DerivedKept
  <2>3. \A e \in edges("copy") : e.src = n => e \in todo' \/ copied(e)'
    BY <1>1, <1>6 DEF copied
  <2> QED BY <1>1, <1>6, <2>1, <2>2, <2>3 DEF pending
<1> QED BY <1>1, <1>4, <1>5, <1>6 DEF Unforgotten, pending, queued

(* A copy is done when it has been made; if it gave its destination        *)
(* anything, that node is on the worklist.                                 *)
LEMMA CopyUnforgotten ==
  ASSUME WorkInv, NEW e \in todo, processCopy(e)
  PROVE  Unforgotten'
<1>1. /\ TypeOK /\ Unforgotten /\ Within
      /\ pc = "propagate" /\ pc' = "propagate" /\ todo' = todo \ {e}
      /\ UNCHANGED <<cur, rep, consCG, nodeStack, cpySrcNodes>>
  BY DEF WorkInv, PreciseInv, processCopy
<1>2. e \in edges("copy") /\ e.src \in Node /\ e.dst \in Node /\ rep[e.dst] = e.dst
  BY <1>1 DEF TypeOK, edges, Edge, Within, GraphWithin, live
<1>3. \A m \in Node : pts'[m] = IF m = e.dst THEN pts[m] \cup pts[e.src] ELSE pts[m]
  BY <1>1, <1>2 DEF TypeOK, processCopy
<1>4. worklist' = IF addsPts(e) THEN push(worklist, e.dst) ELSE worklist
  BY DEF processCopy
<1>5. Range(worklist) \subseteq Range(worklist')
  BY <1>1, <1>2, <1>4, PushRange DEF TypeOK
<1>6. SUFFICES ASSUME NEW n \in live PROVE (settled(n) \/ pending(n))'
  BY <1>1 DEF Unforgotten, live
<1>7. n \in Node
  BY DEF live
<1>8. CASE pts'[n] # pts[n]
  <2>1. n = e.dst /\ addsPts(e)
    BY <1>3, <1>7, <1>8 DEF addsPts
  <2>2. n \in Range(worklist')
    BY <1>1, <1>2, <1>4, <2>1, PushRange DEF TypeOK
  <2> QED BY <1>1, <1>2, <2>1, <2>2 DEF pending
<1>9. CASE pts'[n] = pts[n]
  <2>1. settled(n) => settled(n)'
    BY <1>1, <1>3, <1>7, <1>9, SettledKept
  <2>2. n \in nodeStack \/ queued(n) => pending(n)'
    BY <1>1, <1>5 DEF pending, queued
  <2>3. ASSUME n = cur, \A f \in edges("copy") : f.src = n => f \in todo \/ copied(f),
               \A t \in tasks(n) : derived(t[1], t[2])
        PROVE  pending(n)'
    <3>1. tasks(n)' = tasks(n) /\ edges("copy")' = edges("copy")
      BY <1>1, <1>9, TasksKept DEF edges
    <3>2. \A t \in tasks(n) : derived(t[1], t[2])'
      BY <1>1, <2>3, DerivedKept
    <3>3. ASSUME NEW f \in edges("copy"), f.src = n PROVE f \in todo' \/ copied(f)'
      <4>1. f.dst \in Node
        BY <1>1, <3>3 DEF TypeOK, edges, Edge
      <4>2. CASE f = e
        BY <1>2, <1>3, <1>9, <3>3, <4>2 DEF copied
      <4>3. CASE f # e
        BY <1>1, <1>3, <1>9, <2>3, <3>3, <4>1, <4>3 DEF copied
      <4> QED BY <4>2, <4>3
    <3> QED BY <1>1, <2>3, <3>1, <3>2, <3>3 DEF pending
  <2>4. settled(n) \/ n \in nodeStack \/ queued(n)
          \/ (/\ n = cur
              /\ \A f \in edges("copy") : f.src = n => f \in todo \/ copied(f)
              /\ \A t \in tasks(n) : derived(t[1], t[2]))
    BY <1>1 DEF Unforgotten, pending, queued
  <2> QED BY <2>1, <2>2, <2>3, <2>4
<1> QED BY <1>8, <1>9

(* A call that was resolved adds copies, whose sources will be pushed.     *)
LEMMA ConnectUnforgotten ==
  ASSUME WorkInv, NEW c \in todo, connectCaller2CalleeParams(c)
  PROVE  Unforgotten'
<1> DEFINE added == addCopyEdges(consCG, boundEdges(c))
<1>1. /\ TypeOK /\ Unforgotten /\ Within
      /\ pc = "update" /\ pc' = "update"
      /\ UNCHANGED <<pts, rep, nodeStack, worklist>>
      /\ DOMAIN consCG' = DOMAIN added
      /\ cpySrcNodes' = cpySrcNodes \cup {e.src : e \in DOMAIN added \ DOMAIN consCG}
  BY DEF WorkInv, PreciseInv, connectCaller2CalleeParams
<1>2. \A e : e \in DOMAIN added <=>
               e \in DOMAIN consCG \/ (e \in boundEdges(c) /\ e.src # e.dst)
  BY AddCopyEdgesDomain
<1> HIDE DEF added
<1>3. \A e \in boundEdges(c) : e.kind = "copy" /\ rep[e.src] = e.src
  <2>1. c.args \subseteq Node \X Node
    BY <1>1, ProgramFacts DEF TypeOK, IsProgram, IsCall
  <2>2. \A m \in Node : rep[rep[m]] = rep[m]
    BY <1>1 DEF Within, RepsWithin
  <2> QED BY <2>1, <2>2 DEF boundEdges, edge
<1>4. SUFFICES ASSUME NEW n \in live PROVE (settled(n) \/ pending(n))'
  BY <1>1 DEF Unforgotten, live
<1>5. n \in Node
  BY DEF live
<1>6. n \in nodeStack \/ queued(n) => pending(n)'
  BY <1>1 DEF pending, queued
<1>7. CASE \E e \in DOMAIN added \ DOMAIN consCG : e.src = n
  <2>1. n \in cpySrcNodes' /\ rep'[n] = n
    BY <1>1, <1>2, <1>3, <1>7
  <2> QED BY <2>1 DEF pending
<1>8. CASE \A e \in DOMAIN added \ DOMAIN consCG : e.src # n
  <2>1. \A e \in DOMAIN consCG' : e \in DOMAIN consCG \/ (e.kind = "copy" /\ e.src # n)
    BY <1>1, <1>2, <1>3, <1>8
  <2>2. settled(n) => settled(n)'
    BY <1>1, <1>2, <1>5, <2>1, SettledKept
  <2> QED BY <1>1, <1>6, <2>2 DEF Unforgotten, pending, queued
<1> QED BY <1>7, <1>8

(* Every handler leaves each node finished, or in somebody's hands.        *)
LEMMA WorkStep == WorkInv /\ [Next]_vars => WorkInv'
<1> SUFFICES ASSUME WorkInv, [Next]_vars PROVE WorkInv' OBVIOUS
<1>a. /\ PreciseInv /\ PreciseInv' /\ StackInv /\ Unforgotten
      /\ TypeOK
  BY PreciseStep DEF WorkInv, PreciseInv
<1> DEFINE Kept == StackInv' /\ Unforgotten'
<1>1. ASSUME NEW a \in todo, processAddr(a) PROVE Kept
  BY <1>1, <1>a, AddrUnforgotten DEF processAddr, StackInv
<1>2. ASSUME \/ beginAttach \/ SCCDetect \/ \E r \in todo : beginSCC(r)
      PROVE  Kept
  <2>1. StackInv'
    BY <1>2, <1>a DEF beginAttach, SCCDetect, beginSCC, StackInv, PreciseInv, Within,
                      SubsWithin
  <2>2. /\ UNCHANGED <<pts, rep, consCG, worklist, cpySrcNodes>>
        /\ nodeStack \subseteq nodeStack'
        /\ pc \notin {"loadstore", "propagate"}
    BY <1>2, <1>a DEF beginAttach, SCCDetect, beginSCC, StackInv
  <2> QED BY <1>a, <2>1, <2>2, UnforgottenKept
<1>3. ASSUME NEW s \in todo, attachStaticEdgeGuard(s) PROVE Kept
  <2>1. DOMAIN consCG' = DOMAIN consCG
    BY <1>3, MergeEdgeGuardDomain DEF attachStaticEdgeGuard
  <2>2. Unforgotten'
    BY <1>3, <1>a, <2>1, UnforgottenKept DEF attachStaticEdgeGuard
  <2> QED BY <1>3, <1>a, <2>2 DEF attachStaticEdgeGuard, StackInv
<1>4. ASSUME NEW p \in subs, mergeNodeToRep(p[1], p[2]) PROVE Kept
  BY <1>4, <1>a, MergeUnforgotten DEF mergeNodeToRep, StackInv
<1>5. ASSUME NEW r \in nodeStack, sweepNode(r) PROVE Kept
  <2>1. r \in Node
    BY <1>a DEF TypeOK
  <2>2. Unforgotten'
    BY <1>5, <1>a, <2>1, ProcessNodeUnforgotten DEF sweepNode, queued
  <2> QED BY <1>5, <2>2 DEF sweepNode, processNode, StackInv
<1>6. ASSUME popFromWorklist PROVE Kept
  <2> DEFINE r == rep[Head(worklist)]
  <2>1. r \in Node
    BY <1>6, <1>a DEF TypeOK, popFromWorklist
  <2>2. /\ processNode(r) /\ idle
        /\ UNCHANGED <<pts, rep, consCG, cpySrcNodes, nodeStack>>
        /\ worklist' = Tail(worklist) /\ worklist # <<>> /\ worklist \in Seq(Node)
    BY <1>6, <1>a DEF popFromWorklist, TypeOK
  <2>3. ASSUME NEW n \in Node, queued(n) PROVE n = r \/ queued(n)'
    <3>1. Range(worklist) \subseteq {Head(worklist)} \cup Range(worklist')
      BY <2>2, TailRange
    <3> QED BY <2>2, <2>3, <3>1 DEF queued
  <2> HIDE DEF r
  <2>4. Unforgotten'
    BY <1>a, <2>1, <2>2, <2>3, ProcessNodeUnforgotten
  <2> QED BY <2>2, <2>4 DEF processNode, StackInv
<1>7. ASSUME NEW t \in todo, processLoadStore(t[1], t[2]), pc = "loadstore" PROVE Kept
  BY <1>7, <1>a, LoadStoreUnforgotten DEF processLoadStore, StackInv
<1>8. ASSUME handleCopyGep PROVE Kept
  BY <1>8, <1>a, HandleCopyUnforgotten DEF handleCopyGep, StackInv
<1>9. ASSUME NEW e \in todo, processCopy(e) PROVE Kept
  BY <1>9, <1>a, CopyUnforgotten DEF processCopy, StackInv
<1>10. ASSUME updateCallGraph \/ finish PROVE Kept
  <2>1. /\ UNCHANGED <<pts, rep, consCG, worklist, cpySrcNodes, nodeStack>>
        /\ pc \in {"merge", "propagate"} /\ todo = {} /\ nodeStack = {}
        /\ pc' \in {"update", "done"}
    BY <1>10 DEF updateCallGraph, finish, solved, idle
  <2> QED BY <1>a, <2>1, UnforgottenKept DEF StackInv
<1>11. ASSUME NEW c \in todo, connectCaller2CalleeParams(c) PROVE Kept
  BY <1>11, <1>a, ConnectUnforgotten DEF connectCaller2CalleeParams, StackInv
<1>12. ASSUME NEW n \in cpySrcNodes, pushCpySrcNode(n) PROVE Kept
  <2>1. /\ UNCHANGED <<pc, todo, subs, pts, rep, consCG, nodeStack>> /\ pc = "update"
        /\ cpySrcNodes' = cpySrcNodes \ {n}
    BY <1>12 DEF pushCpySrcNode
  <2>2. Range(worklist') = Range(worklist) \cup {rep[n]} /\ rep[rep[n]] = rep[n]
    BY <1>12, <1>a, PushRange
       DEF pushCpySrcNode, TypeOK, PreciseInv, Within, RepsWithin
  <2>3. SUFFICES ASSUME NEW m \in live PROVE (settled(m) \/ pending(m))'
    BY <1>a, <2>1 DEF Unforgotten, live, StackInv
  <2>4. settled(m) => settled(m)'
    BY <1>a, <2>1, SettledKept DEF live
  <2>5. m \in nodeStack \/ queued(m) => pending(m)'
    BY <2>1, <2>2 DEF pending, queued
  <2> QED BY <1>a, <2>1, <2>4, <2>5 DEF Unforgotten, pending, queued
<1>13. ASSUME UNCHANGED vars PROVE Kept
  <2>1. StackInv'
    BY <1>13, <1>a DEF StackInv, vars
  <2>2. Unforgotten'
    BY <1>13, <1>a DEF Unforgotten, live, settled, pending, copied, derived,
         derivedEdge, tasks, through, edges, vars
  <2> QED BY <2>1, <2>2
<1>14. Kept
  BY <1>1, <1>2, <1>3, <1>4, <1>5, <1>6, <1>7, <1>8, <1>9, <1>10, <1>11, <1>12, <1>13
     DEF Next, processLoad, processStore
<1> QED BY <1>a, <1>14 DEF WorkInv

(* At the start no node points to anything, so there is nothing to do.     *)
LEMMA WorkInit == Init => WorkInv
<1> SUFFICES ASSUME Init PROVE WorkInv OBVIOUS
<1>1. PreciseInv
  BY PreciseInit
<1>2. \A n \in Node : pts[n] = {}
  BY DEF Init
<1>3. \A n \in live : settled(n)
  BY <1>2 DEF settled, copied, tasks, live
<1> QED BY <1>1, <1>3 DEF Init, WorkInv, StackInv, Unforgotten

(* SolverForgetsNothing: whatever the program and in whatever order the    *)
(* solver works, no node is ever left unfinished with nobody to come back  *)
(* to it.                                                                  *)
THEOREM SolverForgetsNothing == Spec => []NoLostWork
<1>1. WorkInv => NoLostWork
  BY DEF WorkInv, Unforgotten, NoLostWork
<1> QED BY <1>1, WorkInit, WorkStep, PTL DEF Spec

-----------------------------------------------------------------------------
(* Where each constraint of the program is, in terms of the nodes that     *)
(* stand for its operands.  A statement whose operands were merged into    *)
(* one node may have lost its edge: then it asks for nothing.              *)
constraintIn(k, x, y) ==
  \/ edge(k, rep[x], rep[y]) \in DOMAIN consCG
  \/ k = "copy" /\ rep[x] = rep[y]

AddrIn ==
  \A a \in prog.addr : \/ pc = "addr" /\ a \in todo
                       \/ a[1] \in pts[rep[a[2]]]

StmtsIn == \A s \in prog.stmts : constraintIn(s.kind, s.src, s.dst)

CallsIn ==
  \A c \in resolved :
    \/ pc = "update" /\ c \in todo
    \/ \A arg \in c.args : constraintIn("copy", arg[1], arg[2])

(* Nothing is merged before the addresses are in, the sources of new       *)
(* copies are pushed before the next round, and the solver stops with      *)
(* nothing left to do.                                                     *)
PhaseInv ==
  /\ pc = "addr" => \A n \in Node : rep[n] = n
  /\ pc # "update" => cpySrcNodes = {}
  /\ pc = "done" => worklist = <<>> /\ newCalls = {}

AccountInv == WorkInv /\ AddrIn /\ StmtsIn /\ CallsIn /\ PhaseInv

(* Steps that merge nothing keep the edges.                                *)
LEMMA InGraphKept ==
  ASSUME NEW k, NEW x, NEW y, constraintIn(k, x, y), UNCHANGED rep,
         DOMAIN consCG \subseteq DOMAIN consCG'
  PROVE  constraintIn(k, x, y)'
BY DEF constraintIn

(* Steps that merge nothing, and resolve no call, leave every constraint   *)
(* where it was.                                                           *)
LEMMA AccountKept ==
  ASSUME AddrIn, StmtsIn, CallsIn, prog \in Programs, rep \in [Node -> Node],
         UNCHANGED <<prog, rep, resolved>>,
         DOMAIN consCG \subseteq DOMAIN consCG',
         \A n \in Node : pts[n] \subseteq pts'[n],
         pc = "addr" => (pc' = "addr" /\ todo' = todo) \/ todo = {},
         pc = "update" => (pc' = "update" /\ todo' = todo) \/ todo = {}
  PROVE  AddrIn' /\ StmtsIn' /\ CallsIn'
<1>1. AddrIn'
  <2>1. \A a \in prog.addr : a[2] \in Node
    BY ProgramFacts DEF IsProgram
  <2> QED BY <2>1 DEF AddrIn
<1>2. StmtsIn'
  BY InGraphKept DEF StmtsIn
<1>3. CallsIn'
  BY InGraphKept DEF CallsIn
<1> QED BY <1>1, <1>2, <1>3

(* Merging moves every edge, and points every operand to the node that     *)
(* stands for it now.                                                      *)
LEMMA InGraphMerge ==
  ASSUME TypeOK, NEW n \in Node, NEW r \in Node, n # r,
         consCG' = moveEdgesToRepNode(consCG, n, r),
         \A m \in Node : rep'[m] = end(rep[m], n, r),
         NEW k, NEW x \in Node, NEW y \in Node, constraintIn(k, x, y)
  PROVE  constraintIn(k, x, y)'
<1>1. DOMAIN consCG \subseteq Edge
  BY DEF TypeOK
<1>2. \A e : e \in DOMAIN consCG' <=>
        /\ \E f \in DOMAIN consCG : e = mergedEdge(f, n, r)
        /\ e.kind = "copy" => e.src # e.dst
  BY <1>1, MoveEdgesDomain
<1> DEFINE f == edge(k, rep[x], rep[y])
           e == edge(k, rep'[x], rep'[y])
<1>3. e = mergedEdge(f, n, r) /\ e.kind = k /\ e.src = rep'[x] /\ e.dst = rep'[y]
  BY DEF mergedEdge, edge
<1> HIDE DEF e, f
<1>4. CASE f \in DOMAIN consCG
  <2>1. e \in DOMAIN consCG' \/ (k = "copy" /\ rep'[x] = rep'[y])
    BY <1>2, <1>3, <1>4
  <2> QED BY <2>1 DEF constraintIn, e
<1>5. CASE k = "copy" /\ rep[x] = rep[y]
  BY <1>5 DEF constraintIn
<1> QED BY <1>4, <1>5 DEF constraintIn, f

LEMMA AccountMerge ==
  ASSUME AccountInv, NEW p \in subs, mergeNodeToRep(p[1], p[2])
  PROVE  AddrIn' /\ StmtsIn' /\ CallsIn'
<1> DEFINE n == p[1]
           r == p[2]
<1>1. /\ TypeOK /\ AddrIn /\ StmtsIn /\ CallsIn /\ pc = "merge"
      /\ n \in Node /\ r \in Node /\ n # r
  BY DEF AccountInv, WorkInv, PreciseInv, Within, SubsWithin, TypeOK, mergeNodeToRep
<1>2. /\ consCG' = moveEdgesToRepNode(consCG, n, r)
      /\ UNCHANGED <<prog, pc, resolved>>
      /\ \A m \in Node : rep'[m] = end(rep[m], n, r)
      /\ pts' = [pts EXCEPT ![r] = @ \cup pts[n]]
  BY DEF mergeNodeToRep, end
<1> HIDE DEF n, r
<1>3. \A m \in Node : pts'[m] = IF m = r THEN pts[r] \cup pts[n] ELSE pts[m]
  BY <1>1, <1>2 DEF TypeOK
<1>4. IsProgram(prog) /\ resolved \subseteq prog.calls
  BY <1>1, ProgramFacts DEF TypeOK
<1>5. AddrIn'
  <2>1. ASSUME NEW a \in prog.addr PROVE a[1] \in pts'[rep'[a[2]]]
    <3>1. a[2] \in Node /\ rep[a[2]] \in Node
      BY <1>1, <1>4 DEF TypeOK, IsProgram
    <3>2. a[1] \in pts[rep[a[2]]]
      BY <1>1 DEF AddrIn
    <3> QED BY <1>1, <1>2, <1>3, <3>1, <3>2 DEF end
  <2> QED BY <1>2, <2>1 DEF AddrIn
<1>6. \A k, x, y : x \in Node /\ y \in Node /\ constraintIn(k, x, y) => constraintIn(k, x, y)'
  BY <1>1, <1>2, InGraphMerge
<1>7. StmtsIn'
  <2>1. \A s \in prog.stmts : s.src \in Node /\ s.dst \in Node
    BY <1>4 DEF IsProgram, IsStmt, edge, Edge
  <2> QED BY <1>1, <1>2, <1>6, <2>1 DEF StmtsIn
<1>8. CallsIn'
  <2>1. \A c \in resolved : c.args \subseteq Node \X Node
    BY <1>4 DEF IsProgram, IsCall
  <2>2. ASSUME NEW c \in resolved, NEW arg \in c.args PROVE constraintIn("copy", arg[1], arg[2])'
    BY <1>1, <1>6, <2>1, <2>2 DEF CallsIn
  <2> QED BY <1>2, <2>2 DEF CallsIn
<1> QED BY <1>5, <1>7, <1>8

(* A call that was resolved binds its arguments.                           *)
LEMMA AccountConnect ==
  ASSUME AddrIn, StmtsIn, CallsIn, NEW c \in todo, connectCaller2CalleeParams(c)
  PROVE  AddrIn' /\ StmtsIn' /\ CallsIn'
<1>1. /\ pc = "update" /\ pc' = "update" /\ todo' = todo \ {c}
      /\ UNCHANGED <<prog, pts, rep, resolved>>
      /\ DOMAIN consCG' = DOMAIN addCopyEdges(consCG, boundEdges(c))
  BY DEF connectCaller2CalleeParams
<1>2. \A e : e \in DOMAIN consCG'
               <=> e \in DOMAIN consCG \/ (e \in boundEdges(c) /\ e.src # e.dst)
  BY <1>1, AddCopyEdgesDomain
<1>3. ASSUME NEW arg \in c.args PROVE constraintIn("copy", arg[1], arg[2])'
  <2>1. edge("copy", rep[arg[1]], rep[arg[2]]) \in boundEdges(c)
    BY DEF boundEdges
  <2> QED BY <1>1, <1>2, <2>1 DEF constraintIn, edge
<1>4. \A k, x, y : constraintIn(k, x, y) => constraintIn(k, x, y)'
  BY <1>1, <1>2, InGraphKept
<1>5. AddrIn' /\ StmtsIn'
  BY <1>1, <1>4 DEF AddrIn, StmtsIn
<1>6. CallsIn'
  BY <1>1, <1>3, <1>4 DEF CallsIn
<1> QED BY <1>5, <1>6

(* Every handler keeps account of every constraint.                        *)
LEMMA AccountStep == AccountInv /\ [Next]_vars => AccountInv'
<1> SUFFICES ASSUME AccountInv, [Next]_vars PROVE AccountInv' OBVIOUS
<1>a. /\ WorkInv /\ WorkInv' /\ TypeOK /\ AddrIn /\ StmtsIn /\ CallsIn /\ PhaseInv
      /\ prog \in Programs /\ rep \in [Node -> Node]
  BY WorkStep DEF AccountInv, WorkInv, PreciseInv, TypeOK
<1> DEFINE Kept == AddrIn' /\ StmtsIn' /\ CallsIn' /\ PhaseInv'
<1>1. ASSUME NEW a \in todo, processAddr(a) PROVE Kept
  <2>1. /\ pc = "addr" /\ pc' = "addr" /\ todo' = todo \ {a}
        /\ UNCHANGED <<prog, rep, consCG, resolved, cpySrcNodes>>
        /\ pts' = [pts EXCEPT ![a[2]] = @ \cup {a[1]}]
    BY <1>1 DEF processAddr
  <2>2. \A b \in prog.addr : b[2] \in Node /\ rep[b[2]] = b[2]
    BY <1>a, <2>1, ProgramFacts DEF TypeOK, IsProgram, PhaseInv
  <2>3. a \in prog.addr
    BY <1>a, <2>1 DEF TypeOK
  <2>4. AddrIn'
    BY <1>a, <2>1, <2>2, <2>3 DEF AddrIn, TypeOK
  <2>5. StmtsIn' /\ CallsIn'
    BY <1>a, <2>1 DEF StmtsIn, CallsIn, constraintIn
  <2> QED BY <1>a, <2>1, <2>4, <2>5 DEF PhaseInv
<1>2. ASSUME \/ beginAttach \/ SCCDetect \/ handleCopyGep \/ popFromWorklist \/ finish
             \/ \E r \in todo : beginSCC(r)
             \/ \E r \in nodeStack : sweepNode(r)
      PROVE  Kept
  <2>1. /\ UNCHANGED <<prog, pts, rep, consCG, resolved, cpySrcNodes>>
        /\ pc \in {"addr", "update"} => todo = {}
        /\ pc' # "addr" /\ pc' # "update"
        /\ cpySrcNodes = {} \/ pc # "update"
        /\ pc' = "done" => worklist' = <<>> /\ newCalls = {}
    BY <1>2, <1>a DEF beginAttach, SCCDetect, handleCopyGep, popFromWorklist, finish,
                      beginSCC, sweepNode, processNode, solved, idle
  <2>2. AddrIn' /\ StmtsIn' /\ CallsIn'
    BY <1>a, <2>1, AccountKept
  <2>3. newCalls' = newCalls
    BY <2>1 DEF newCalls
  <2> QED BY <1>a, <2>1, <2>2, <2>3 DEF PhaseInv
<1>3. ASSUME NEW s \in todo, attachStaticEdgeGuard(s) PROVE Kept
  <2>1. DOMAIN consCG' = DOMAIN consCG
    BY <1>3, MergeEdgeGuardDomain DEF attachStaticEdgeGuard
  <2>2. /\ UNCHANGED <<prog, pc, pts, rep, resolved, cpySrcNodes>> /\ pc = "attach"
    BY <1>3 DEF attachStaticEdgeGuard
  <2>3. AddrIn' /\ StmtsIn' /\ CallsIn'
    BY <1>a, <2>1, <2>2, AccountKept
  <2> QED BY <1>a, <2>2, <2>3 DEF PhaseInv
<1>4. ASSUME NEW p \in subs, mergeNodeToRep(p[1], p[2]) PROVE Kept
  <2>1. UNCHANGED <<pc, cpySrcNodes>> /\ pc = "merge"
    BY <1>4 DEF mergeNodeToRep
  <2>2. AddrIn' /\ StmtsIn' /\ CallsIn'
    BY <1>4, AccountMerge
  <2> QED BY <1>a, <2>1, <2>2 DEF PhaseInv
<1>5. ASSUME NEW t \in todo, processLoadStore(t[1], t[2]), pc = "loadstore" PROVE Kept
  <2>1. UNCHANGED <<prog, pc, pts, rep, resolved, cpySrcNodes>>
    BY <1>5 DEF processLoadStore
  <2>2. DOMAIN consCG \subseteq DOMAIN consCG'
    BY <1>5, MergeEdgeGuardDomain, AddCopyEdgesDomain DEF processLoadStore
  <2>3. AddrIn' /\ StmtsIn' /\ CallsIn'
    BY <1>5, <1>a, <2>1, <2>2, AccountKept
  <2> QED BY <1>5, <1>a, <2>1, <2>3 DEF PhaseInv
<1>6. ASSUME NEW e \in todo, processCopy(e) PROVE Kept
  <2>1. /\ UNCHANGED <<prog, pc, rep, consCG, resolved, cpySrcNodes>>
        /\ pc = "propagate"
        /\ pts' = [pts EXCEPT ![e.dst] = @ \cup pts[e.src]]
    BY <1>6 DEF processCopy
  <2>2. \A n \in Node : pts[n] \subseteq pts'[n]
    BY <1>a, <2>1 DEF TypeOK
  <2>3. AddrIn' /\ StmtsIn' /\ CallsIn'
    BY <1>a, <2>1, <2>2, AccountKept
  <2> QED BY <1>a, <2>1, <2>3 DEF PhaseInv
<1>7. ASSUME updateCallGraph PROVE Kept
  <2>1. /\ pc \in {"merge", "propagate"} /\ pc' = "update" /\ todo' = newCalls
        /\ resolved' = resolved \cup newCalls
        /\ UNCHANGED <<prog, pts, rep, consCG>>
    BY <1>7 DEF updateCallGraph, solved, idle
  <2>2. AddrIn' /\ StmtsIn'
    BY <1>a, <2>1 DEF AddrIn, StmtsIn, constraintIn
  <2>3. CallsIn'
    BY <1>a, <2>1 DEF CallsIn, constraintIn
  <2> QED BY <2>1, <2>2, <2>3 DEF PhaseInv
<1>8. ASSUME NEW c \in todo, connectCaller2CalleeParams(c) PROVE Kept
  <2>1. pc = "update" /\ pc' = "update"
    BY <1>8 DEF connectCaller2CalleeParams
  <2>2. AddrIn' /\ StmtsIn' /\ CallsIn'
    BY <1>8, <1>a, AccountConnect
  <2> QED BY <2>1, <2>2 DEF PhaseInv
<1>9. ASSUME NEW n \in cpySrcNodes, pushCpySrcNode(n) PROVE Kept
  <2>1. /\ UNCHANGED <<prog, pc, todo, pts, rep, consCG, resolved>> /\ pc = "update"
    BY <1>9 DEF pushCpySrcNode
  <2>2. AddrIn' /\ StmtsIn' /\ CallsIn'
    BY <1>a, <2>1, AccountKept
  <2> QED BY <2>1, <2>2 DEF PhaseInv
<1>10. ASSUME UNCHANGED vars PROVE Kept
  <2>1. /\ UNCHANGED <<prog, pc, todo, pts, rep, consCG, resolved, cpySrcNodes, worklist>>
    BY <1>10 DEF vars
  <2>2. AddrIn' /\ StmtsIn' /\ CallsIn'
    BY <1>a, <2>1, AccountKept
  <2>3. newCalls' = newCalls
    BY <2>1 DEF newCalls
  <2> QED BY <1>a, <2>1, <2>2, <2>3 DEF PhaseInv
<1>11. Kept
  BY <1>1, <1>2, <1>3, <1>4, <1>5, <1>6, <1>7, <1>8, <1>9, <1>10
     DEF Next, processLoad, processStore
<1> QED BY <1>a, <1>11 DEF AccountInv

(* At the start every statement has its edge.                              *)
LEMMA AccountInit == Init => AccountInv
<1> SUFFICES ASSUME Init PROVE AccountInv OBVIOUS
<1>1. WorkInv /\ IsProgram(prog)
  BY WorkInit, ProgramFacts DEF Init
<1>2. \A s \in prog.stmts : s.src \in Node /\ s.dst \in Node
  BY <1>1 DEF IsProgram, IsStmt, edge, Edge
<1>3. StmtsIn
  BY <1>2 DEF Init, StmtsIn, constraintIn
<1>4. AddrIn /\ CallsIn /\ PhaseInv
  BY DEF Init, AddrIn, CallsIn, PhaseInv
<1> QED BY <1>1, <1>3, <1>4 DEF AccountInv

-----------------------------------------------------------------------------
(* When the solver stops, nobody has anything left to do, so every node is *)
(* settled: what the nodes hold accounts for every edge, and the edges     *)
(* account for every constraint.                                           *)
LEMMA AllSettled ==
  ASSUME AccountInv, pc = "done"
  PROVE  \A n \in live : settled(n)
<1>1. nodeStack = {} /\ worklist = <<>> /\ cpySrcNodes = {} /\ Unforgotten
  BY DEF AccountInv, WorkInv, StackInv, PhaseInv
<1>2. Range(worklist) = {}
  BY <1>1 DEF Range
<1> QED BY <1>1, <1>2 DEF Unforgotten, pending

LEMMA CopyAccounted ==
  ASSUME AccountInv, pc = "done",
         NEW x \in Node, NEW y \in Node, constraintIn("copy", x, y)
  PROVE  pts[rep[x]] \subseteq pts[rep[y]]
<1>1. rep[x] \in live
  BY DEF AccountInv, WorkInv, PreciseInv, TypeOK, Within, RepsWithin, live
<1>2. CASE edge("copy", rep[x], rep[y]) \in DOMAIN consCG
  BY <1>1, <1>2, AllSettled DEF settled, edges, edge, copied
<1>3. CASE rep[x] = rep[y]
  BY <1>3
<1> QED BY <1>2, <1>3 DEF constraintIn

LEMMA DerivedAccounted ==
  ASSUME AccountInv, pc = "done",
         NEW n \in live, NEW e \in through(n), NEW o \in pts[n] \ ConstObj
  PROVE  /\ e.kind = "load"  => pts[rep[o]] \subseteq pts[e.dst]
         /\ e.kind = "store" => pts[e.src] \subseteq pts[rep[o]]
<1>1. /\ TypeOK /\ GraphWithin /\ RepsWithin /\ n \in Node
      /\ e \in DOMAIN consCG
  BY DEF AccountInv, WorkInv, PreciseInv, Within, live, through
<1>2. o \in Node
  BY <1>1, ConstraintsAssumption DEF TypeOK
<1>3. rep[o] \in live /\ e.src \in live /\ e.dst \in live
  BY <1>1, <1>2 DEF TypeOK, RepsWithin, GraphWithin, live
<1> DEFINE d == derivedEdge(o, e)
<1>4. derived(o, e)
  <2>1. <<o, e>> \in tasks(n)
    BY DEF tasks
  <2>2. \A t \in tasks(n) : derived(t[1], t[2])
    BY AllSettled DEF settled
  <2> QED BY <2>1, <2>2
<1>5. d.kind = "copy" /\ d.src \in live
  BY <1>3 DEF derivedEdge, edge
<1>6. pts[d.src] \subseteq pts[d.dst]
  <2> HIDE DEF d
  <2>1. CASE d \in DOMAIN consCG
    BY <1>5, <2>1, AllSettled DEF settled, edges, copied
  <2>2. CASE d.src = d.dst
    BY <2>2
  <2> QED BY <1>4, <2>1, <2>2 DEF derived, d
<1> QED BY <1>6 DEF derivedEdge, edge

LEMMA AnswerAccounts ==
  ASSUME AccountInv, pc = "done"
  PROVE  IsSolution(prog, answer)
<1>1. /\ TypeOK /\ RepsWithin /\ AddrIn /\ StmtsIn /\ CallsIn /\ newCalls = {}
  BY DEF AccountInv, WorkInv, PreciseInv, Within, PhaseInv
<1>2. IsProgram(prog)
  BY <1>1, ProgramFacts DEF TypeOK
<1>3. \A n \in Node : answer[n] = pts[rep[n]]
  BY DEF answer
<1>4. \A a \in prog.addr : a[1] \in answer[a[2]]
  BY <1>1, <1>2, <1>3 DEF AddrIn, IsProgram
<1>5. ASSUME NEW s \in prog.stmts PROVE Respects(answer, s)
  <2>1. /\ s.src \in Node /\ s.dst \in Node
        /\ constraintIn(s.kind, s.src, s.dst)
    BY <1>1, <1>2 DEF IsProgram, IsStmt, edge, Edge, StmtsIn
  <2>2. s.kind = "copy" => answer[s.src] \subseteq answer[s.dst]
    BY <1>3, <2>1, CopyAccounted
  <2> DEFINE e == edge(s.kind, rep[s.src], rep[s.dst])
  <2>3. rep[s.src] \in live /\ rep[s.dst] \in live
    BY <1>1, <2>1 DEF TypeOK, RepsWithin, live
  <2>4. ASSUME s.kind = "load", NEW o \in answer[s.src] \ ConstObj
        PROVE  answer[o] \subseteq answer[s.dst]
    <3>1. e \in through(rep[s.src]) /\ e.kind = "load" /\ e.dst = rep[s.dst]
      BY <2>1, <2>4 DEF constraintIn, through, edge
    <3>2. o \in pts[rep[s.src]] \ ConstObj
      BY <1>3, <2>1
    <3>3. o \in Node
      BY <1>1, <2>1, <3>2, ConstraintsAssumption DEF TypeOK
    <3> HIDE DEF e
    <3> QED BY <1>3, <2>1, <2>3, <3>1, <3>2, <3>3, DerivedAccounted
  <2>5. ASSUME s.kind = "store", NEW o \in answer[s.dst] \ ConstObj
        PROVE  answer[s.src] \subseteq answer[o]
    <3>1. e \in through(rep[s.dst]) /\ e.kind = "store" /\ e.src = rep[s.src]
      BY <2>1, <2>5 DEF constraintIn, through, edge
    <3>2. o \in pts[rep[s.dst]] \ ConstObj
      BY <1>3, <2>1
    <3>3. o \in Node
      BY <1>1, <2>1, <3>2, ConstraintsAssumption DEF TypeOK
    <3> HIDE DEF e
    <3> QED BY <1>3, <2>1, <2>3, <3>1, <3>2, <3>3, DerivedAccounted
  <2> QED BY <2>2, <2>4, <2>5 DEF Respects
<1>6. ASSUME NEW c \in prog.calls, c.fun \in answer[c.fp], NEW arg \in c.args
      PROVE  answer[arg[1]] \subseteq answer[arg[2]]
  <2>1. c.fp \in Node /\ arg[1] \in Node /\ arg[2] \in Node
    BY <1>2 DEF IsProgram, IsCall
  <2>2. c \in resolved
    BY <1>1, <1>3, <1>6, <2>1 DEF newCalls
  <2>3. constraintIn("copy", arg[1], arg[2])
    BY <1>1, <2>2 DEF CallsIn
  <2> QED BY <1>3, <2>1, <2>3, CopyAccounted
<1> QED BY <1>4, <1>5, <1>6 DEF IsSolution

LEMMA AccountComplete == AccountInv => Complete
BY AnswerAccounts DEF Complete

(* SolverComplete: whatever the program, when the solver declares itself   *)
(* done its answer accounts for every statement, and for every call its    *)
(* own function pointers resolve to.                                       *)
THEOREM SolverComplete == Spec => []Complete
BY AccountComplete, AccountInit, AccountStep, PTL DEF Spec

-----------------------------------------------------------------------------
(* Until the solver stops, the answer it holds only grows: each handler    *)
(* adds to the sets of the nodes it leaves in place, and a merged node     *)
(* reads the set of the node that now stands for it.                       *)
LEMMA AnswerGrows ==
  ASSUME AccountInv, Next, ~finish
  PROVE  /\ pc # "done" /\ pc' # "done"
         /\ UNCHANGED prog
         /\ \A n \in Node : answer[n] \subseteq answer'[n]
<1>a. TypeOK /\ \A n \in Node : rep[n] \in Node
  BY DEF AccountInv, WorkInv, PreciseInv, TypeOK
<1>b. \A n \in Node : answer[n] = pts[rep[n]] /\ answer'[n] = pts'[rep'[n]]
  BY DEF answer
<1> DEFINE Grown == /\ pc # "done" /\ pc' # "done"
                    /\ UNCHANGED prog
                    /\ \A n \in Node : pts[rep[n]] \subseteq pts'[rep'[n]]
<1>1. ASSUME NEW a \in todo, processAddr(a) PROVE Grown
  <2>1. \A n \in Node : pts[n] \subseteq pts'[n]
    BY <1>1, <1>a DEF processAddr, TypeOK
  <2> QED BY <1>1, <1>a, <2>1 DEF processAddr
<1>2. ASSUME NEW e \in todo, processCopy(e) PROVE Grown
  <2>1. \A n \in Node : pts[n] \subseteq pts'[n]
    BY <1>2, <1>a DEF processCopy, TypeOK
  <2> QED BY <1>2, <1>a, <2>1 DEF processCopy
<1>3. ASSUME NEW p \in subs, mergeNodeToRep(p[1], p[2]) PROVE Grown
  <2>1. /\ pc = "merge" /\ UNCHANGED <<pc, prog>>
        /\ pts' = [pts EXCEPT ![p[2]] = @ \cup pts[p[1]]]
        /\ \A n \in Node : rep'[n] = IF rep[n] = p[1] THEN p[2] ELSE rep[n]
        /\ p[2] \in Node
    BY <1>3, <1>a DEF mergeNodeToRep, TypeOK
  <2>2. \A n \in Node : pts'[n] = IF n = p[2] THEN pts[n] \cup pts[p[1]] ELSE pts[n]
    BY <1>a, <2>1 DEF TypeOK
  <2> QED BY <1>a, <2>1, <2>2
<1>4. ASSUME \/ beginAttach \/ SCCDetect \/ handleCopyGep \/ popFromWorklist
             \/ updateCallGraph
             \/ \E s \in todo : attachStaticEdgeGuard(s)
             \/ \E r \in todo : beginSCC(r)
             \/ \E r \in nodeStack : sweepNode(r)
             \/ \E t \in todo : processLoad(t[1], t[2])
             \/ \E t \in todo : processStore(t[1], t[2])
             \/ \E c \in todo : connectCaller2CalleeParams(c)
             \/ \E n \in cpySrcNodes : pushCpySrcNode(n)
      PROVE  Grown
  BY <1>4 DEF beginAttach, SCCDetect, handleCopyGep, popFromWorklist, updateCallGraph,
              attachStaticEdgeGuard, beginSCC, sweepNode, processNode, processLoad,
              processStore, processLoadStore, connectCaller2CalleeParams,
              pushCpySrcNode, solved, idle
<1>5. Grown
  BY <1>1, <1>2, <1>3, <1>4 DEF Next
<1> QED BY <1>5, <1>b

LEMMA SolverInit == Init => PTA!Init
<1> SUFFICES ASSUME Init PROVE PTA!Init OBVIOUS
<1>1. answer = [n \in Node |-> {}]
  BY DEF Init, answer
<1> QED BY <1>1 DEF Init, PTA!Init

(* Every handler is a step of the abstract analysis, or none it can see.   *)
LEMMA SolverStep ==
  ASSUME AccountInv, AccountInv', [Next]_vars
  PROVE  [PTA!Next]_<<prog, answer, (pc = "done")>>
<1>1. CASE finish
  <2>1. pc # "done" /\ pc' = "done" /\ UNCHANGED <<prog, pts, rep>>
    BY <1>1 DEF finish, solved, idle
  <2>2. UNCHANGED answer
    BY <2>1 DEF answer
  <2>3. Complete'
    BY AccountComplete, PTL
  <2>4. PTA!IsSolution(prog, answer)
    BY <2>1, <2>2, <2>3
       DEF Complete, IsSolution, PTA!IsSolution, Respects, PTA!Respects
  <2>5. PTA!Finish
    BY <2>1, <2>2, <2>4 DEF PTA!Finish
  <2> QED BY <2>5 DEF PTA!Next
<1>2. CASE Next /\ ~finish
  <2>1. /\ pc # "done" /\ pc' # "done" /\ UNCHANGED prog
        /\ \A n \in Node : answer[n] \subseteq answer'[n]
    BY <1>2, AnswerGrows
  <2>2. answer' \in [Node -> SUBSET Obj]
    BY DEF AccountInv, WorkInv, PreciseInv, TypeOK, answer
  <2>3. \A n \in Node : answer'[n] \subseteq Solution(prog)[n]
    BY <2>1 DEF AccountInv, WorkInv, PreciseInv, Within, TypeOK, FactsWithin,
                RepsWithin, answer, Sol
  <2>4. PTA!Grow
    BY <2>1, <2>2, <2>3 DEF PTA!Grow
  <2> QED BY <2>4 DEF PTA!Next
<1>3. CASE UNCHANGED vars
  BY <1>3 DEF vars, answer
<1> QED BY <1>1, <1>2, <1>3

(* SolverImplementsPointsTo: for every program, guard algebra and choice   *)
(* of options the solver behaves as the abstract analysis: its answer only *)
(* grows, stays within every solution it is measured against, and          *)
(* accounts for the program when the solver stops.                         *)
THEOREM SolverImplementsPointsTo == Spec => ImplementsPointsTo
<1>1. AccountInv /\ AccountInv' /\ [Next]_vars
        => [PTA!Next]_<<prog, answer, (pc = "done")>>
  BY SolverStep
<1> QED
  BY <1>1, SolverInit, AccountInit, AccountStep, PTL
     DEF Spec, ImplementsPointsTo, PTA!Spec
=============================================================================
