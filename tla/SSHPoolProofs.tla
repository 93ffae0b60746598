--------------------------- MODULE SSHPoolProofs ---------------------------
(***************************************************************************)
(* Proofs about SSHPool, for any nodes, users, clients and any bound on    *)
(* the connections.                                                        *)
(***************************************************************************)
EXTENDS SSHPool, FiniteSetTheorems, TLAPS

-----------------------------------------------------------------------------
(* The inductive invariant.                                                 *)

\* A client belongs to one node: whoever refers to it does so for that node.
RefersTo(n, k) == pool[n] = k \/ \E u \in Users : user[u] = <<n, k>>

HomeInv == \A k \in Clients : \A m, n \in Nodes :
             RefersTo(m, k) /\ RefersTo(n, k) => m = n

IInv == /\ TypeOK
        /\ HomeInv
        /\ PooledIsUsable
        /\ PoolBounded
        /\ CalmSharing

LEMMA InvInit == Init => IInv
<1> SUFFICES ASSUME Init PROVE IInv
  OBVIOUS
<1>1. Pooled(pool) = {}
  BY DEF Init, Pooled
<1>2. PoolBounded
  BY <1>1, FS_EmptySet, MaxConnectionsAssumption DEF PoolBounded
<1>3. TypeOK
  BY <1>1 DEF Init, TypeOK
<1>4. HomeInv /\ PooledIsUsable /\ CalmSharing
  BY <1>1, NoneAssumption DEF Init, HomeInv, RefersTo, PooledIsUsable, CalmSharing
<1> QED
  BY <1>2, <1>3, <1>4 DEF IInv

-----------------------------------------------------------------------------
(* What the building blocks do.                                             *)

States == {"open", "dead", "closed"}

\* What concerns the pool alone.
PoolType ==
  /\ pool \in [Nodes -> Clients \cup {None}]
  /\ older \in [Nodes -> SUBSET Nodes]
  /\ \A n \in Nodes : older[n] \subseteq Pooled(pool) \ {n}
  /\ idle \subseteq Pooled(pool)
  /\ conn \in [Clients -> States]
  /\ PoolBounded

LEMMA PooledIsFinite ==
  ASSUME NEW p
  PROVE  IsFiniteSet(Pooled(p)) /\ Cardinality(Pooled(p)) \in Nat
<1>1. Pooled(p) \in SUBSET Nodes
  BY DEF Pooled
<1> QED
  BY <1>1, NodesAssumption, FS_Subset, FS_CardinalityType

LEMMA ForgetEffect ==
  ASSUME PoolType, NEW n \in Nodes, NEW S, Forget(n), conn' = Close(S, conn)
  PROVE  PoolType'
<1>1. Pooled(pool') = Pooled(pool) \ {n}
  BY DEF Forget, Pooled, PoolType
<1>2. Cardinality(Pooled(pool')) <= MaxConnections
  <2>1. IsFiniteSet(Pooled(pool)) /\ Cardinality(Pooled(pool)) \in Nat
    BY PooledIsFinite
  <2>2. Cardinality(Pooled(pool) \ {n}) \in {Cardinality(Pooled(pool)) - 1, Cardinality(Pooled(pool))}
    BY <2>1, FS_RemoveElement
  <2>3. Cardinality(Pooled(pool)) <= MaxConnections /\ MaxConnections \in Nat
    BY MaxConnectionsAssumption DEF PoolType, PoolBounded
  <2> QED
    BY <1>1, <2>1, <2>2, <2>3
<1>3. conn' \in [Clients -> States]
  BY DEF Close, PoolType, States
<1>4. /\ pool' \in [Nodes -> Clients \cup {None}]
      /\ older' \in [Nodes -> SUBSET Nodes]
      /\ \A m \in Nodes : older'[m] \subseteq Pooled(pool') \ {m}
      /\ idle' \subseteq Pooled(pool')
  BY <1>1 DEF Forget, PoolType
<1> QED
  BY <1>2, <1>3, <1>4 DEF PoolType, PoolBounded

\* Put inserts the client and evicts nobody, or the oldest of a full pool.
Evicted(S, n) ==
  \A m \in S : /\ m \in Pooled(pool) \ {n} /\ older[m] = {}
               /\ n \notin Pooled(pool)
               /\ Cardinality(Pooled(pool)) = MaxConnections

LEMMA PutEffect ==
  ASSUME PoolType, NEW n \in Nodes, NEW c \in Clients,
         NEW cs \in [Clients -> States], Put(n, c, cs)
  PROVE  /\ PoolType'
         /\ \E S \in SUBSET Nodes :
              /\ Evicted(S, n)
              /\ pool' = [x \in Nodes |-> IF x \in S THEN None
                                          ELSE IF x = n THEN c ELSE pool[x]]
              /\ conn' = Close({pool[x] : x \in S}, cs)
<1> DEFINE p == [pool EXCEPT ![n] = c]
           o == Touched(n, p)
           P == Pooled(pool)
<1>0. IsFiniteSet(P) /\ Cardinality(P) \in Nat /\ MaxConnections \in Nat
      /\ Cardinality(P) <= MaxConnections
  BY PooledIsFinite, MaxConnectionsAssumption DEF PoolType, PoolBounded
<1>5. /\ IsFiniteSet(P \cup {n})
      /\ Cardinality(P \cup {n}) = IF n \in P THEN Cardinality(P) ELSE Cardinality(P) + 1
  BY <1>0, FS_AddElement
<1>1. p \in [Nodes -> Clients \cup {None}] /\ Pooled(p) = P \cup {n}
  BY NoneAssumption DEF PoolType, Pooled
<1>2. /\ o \in [Nodes -> SUBSET Nodes]
      /\ \A x \in Nodes : o[x] = IF x = n THEN P \ {n} ELSE older[x] \ {n}
      /\ \A x \in Nodes : o[x] \subseteq (P \cup {n}) \ {x}
  BY <1>1 DEF Touched, PoolType, Pooled
<1>3. CASE Cardinality(P \cup {n}) <= MaxConnections /\ Insert(n, c, cs)
  <2>1. pool' = p /\ older' = o /\ idle' = idle \ {n} /\ conn' = cs
    BY <1>3 DEF Insert
  <2>2. PoolType'
    BY <2>1, <1>1, <1>2, <1>3 DEF PoolType, PoolBounded
  <2>3. Evicted({}, n)
    BY DEF Evicted
  <2>4. pool' = [x \in Nodes |-> IF x \in {} THEN None
                                 ELSE IF x = n THEN c ELSE pool[x]]
    BY <2>1 DEF PoolType
  <2>5. conn' = Close({pool[x] : x \in {}}, cs)
    BY <2>1 DEF Close
  <2> QED
    BY <2>2, <2>3, <2>4, <2>5
<1>4. CASE Cardinality(P \cup {n}) > MaxConnections /\ InsertAndEvict(n, c, cs)
  <2>1. PICK m \in Pooled(p) :
          /\ o[m] = {}
          /\ pool' = [p EXCEPT ![m] = None]
          /\ older' = [x \in Nodes |-> o[x] \ {m}]
          /\ idle' = idle \ {m, n}
          /\ conn' = Close({p[m]}, cs)
    BY <1>4 DEF InsertAndEvict
  <2>2. n \notin P /\ Cardinality(P) = MaxConnections
        /\ Cardinality(P \cup {n}) = MaxConnections + 1
    BY <1>0, <1>4, <1>5
  <2>3. P # {}
    BY <2>2, FS_EmptySet, MaxConnectionsAssumption
  <2>4. m \in P /\ m # n /\ m \in Nodes
    BY <2>1, <2>2, <2>3, <1>1, <1>2 DEF Pooled
  <2>5. older[m] = {}
    <3>1. o[m] = older[m] \ {n}
      BY <2>4, <1>2
    <3>2. n \notin older[m]
      BY <2>2, <2>4 DEF PoolType
    <3> QED
      BY <2>1, <3>1, <3>2
  <2>6. Pooled(pool') = (P \cup {n}) \ {m}
    BY <2>1, <1>1, NoneAssumption DEF Pooled
  <2>7. Cardinality(Pooled(pool')) = MaxConnections
    <3>1. Cardinality((P \cup {n}) \ {m}) = Cardinality(P \cup {n}) - 1
      BY <1>5, <2>4, FS_RemoveElement
    <3> QED
      BY <3>1, <2>2, <2>6, <1>0
  <2>8. PoolType'
    <3>1. conn' \in [Clients -> States]
      BY <2>1 DEF Close, States
    <3>2. /\ pool' \in [Nodes -> Clients \cup {None}]
          /\ older' \in [Nodes -> SUBSET Nodes]
      BY <2>1, <1>1, <1>2
    <3>3. \A x \in Nodes : older'[x] \subseteq Pooled(pool') \ {x}
      BY <2>1, <2>6, <1>2
    <3>4. idle' \subseteq Pooled(pool')
      BY <2>1, <2>6 DEF PoolType
    <3> QED
      BY <3>1, <3>2, <3>3, <3>4, <2>7, <1>0 DEF PoolType, PoolBounded
  <2>9. Evicted({m}, n)
    BY <2>2, <2>4, <2>5 DEF Evicted
  <2>10. pool' = [x \in Nodes |-> IF x \in {m} THEN None
                                  ELSE IF x = n THEN c ELSE pool[x]]
    BY <2>1, <2>4 DEF PoolType
  <2>11. conn' = Close({pool[x] : x \in {m}}, cs)
    <3>1. p[m] = pool[m]
      BY <2>4 DEF PoolType
    <3>2. {p[m]} = {pool[x] : x \in {m}}
      BY <3>1
    <3> QED
      BY <3>2, <2>1
  <2> QED
    BY <2>4, <2>8, <2>9, <2>10, <2>11
<1> QED
  BY <1>3, <1>4 DEF Put

-----------------------------------------------------------------------------
(* Each step preserves the invariant.                                       *)

LEMMA InvUnfolded ==
  ASSUME IInv
  PROVE  /\ TypeOK /\ HomeInv /\ PooledIsUsable /\ PoolBounded /\ CalmSharing
         /\ PoolType
BY DEF IInv, PoolType, TypeOK, States

LEMMA TypeFromPool ==
  ASSUME PoolType', user' \in [Users -> (Nodes \X Clients) \cup {None}],
         displaced' \in BOOLEAN
  PROVE  TypeOK' /\ PoolBounded'
BY DEF PoolType, TypeOK, States

\* A step after which nobody refers to a client who did not before.
LEMMA HomeKept ==
  ASSUME HomeInv,
         \A n \in Nodes, k \in Clients : RefersTo(n, k)' => RefersTo(n, k)
  PROVE  HomeInv'
BY DEF HomeInv

LEMMA InvGetCached ==
  ASSUME IInv, NEW u \in Users, NEW n \in Nodes, GetCached(u, n)
  PROVE  IInv'
<1>0. TypeOK /\ HomeInv /\ PooledIsUsable /\ PoolBounded /\ CalmSharing /\ PoolType
  BY InvUnfolded
<1>1. /\ user' = [user EXCEPT ![u] = <<n, pool[n]>>]
      /\ older' = Touched(n, pool)
      /\ UNCHANGED <<pool, idle, conn, displaced>>
      /\ pool[n] \in Clients /\ n \in Pooled(pool)
  BY <1>0 DEF GetCached, Usable, TypeOK, Pooled
<1>2. Pooled(pool') = Pooled(pool)
  BY <1>1
<1>3. PoolType'
  <2>1. older' \in [Nodes -> SUBSET Nodes]
        /\ \A m \in Nodes : older'[m] \subseteq Pooled(pool') \ {m}
    BY <1>0, <1>1, <1>2 DEF Touched, PoolType, Pooled
  <2> QED
    BY <2>1, <1>0, <1>1, <1>2 DEF PoolType, PoolBounded
<1>4. TypeOK' /\ PoolBounded'
  <2>1. user' \in [Users -> (Nodes \X Clients) \cup {None}]
    BY <1>0, <1>1 DEF TypeOK
  <2> QED
    BY <2>1, <1>0, <1>1, <1>3, TypeFromPool DEF TypeOK
<1>5. HomeInv'
  <2>1. ASSUME NEW m \in Nodes, NEW k \in Clients, RefersTo(m, k)'
        PROVE  RefersTo(m, k)
    BY <2>1, <1>0, <1>1 DEF RefersTo, TypeOK
  <2> QED
    BY <2>1, <1>0, HomeKept
<1>6. PooledIsUsable' /\ CalmSharing'
  BY <1>0, <1>1, <1>2 DEF PooledIsUsable, CalmSharing
<1> QED
  BY <1>4, <1>5, <1>6 DEF IInv

LEMMA InvGetNew ==
  ASSUME IInv, NEW u \in Users, NEW n \in Nodes, NEW k \in Clients, GetNew(u, n, k)
  PROVE  IInv'
<1> DEFINE cs == [Close({pool[n]}, conn) EXCEPT ![k] = "open"]
<1>0. TypeOK /\ HomeInv /\ PooledIsUsable /\ PoolBounded /\ CalmSharing /\ PoolType
  BY InvUnfolded
<1>1. /\ user' = [user EXCEPT ![u] = <<n, k>>]
      /\ Put(n, k, cs) /\ displaced' = displaced
      /\ \A m \in Nodes : ~RefersTo(m, k)
  BY DEF GetNew, Unused, RefersTo
<1>2. /\ cs \in [Clients -> States]
      /\ \A j \in Clients : cs[j] = IF j = k THEN "open"
                                    ELSE IF j = pool[n] THEN "closed" ELSE conn[j]
  BY <1>0 DEF Close, PoolType, States
<1>3. PICK S \in SUBSET Nodes :
        /\ Evicted(S, n)
        /\ pool' = [x \in Nodes |-> IF x \in S THEN None
                                    ELSE IF x = n THEN k ELSE pool[x]]
        /\ conn' = Close({pool[x] : x \in S}, cs)
  BY <1>0, <1>1, <1>2, PutEffect
<1>4. PoolType'
  BY <1>0, <1>1, <1>2, PutEffect
<1>5. TypeOK' /\ PoolBounded'
  <2>1. user' \in [Users -> (Nodes \X Clients) \cup {None}]
    BY <1>0, <1>1 DEF TypeOK
  <2> QED
    BY <2>1, <1>0, <1>1, <1>4, TypeFromPool DEF TypeOK
<1>6. n \notin S /\ \A m \in S : pool[m] # None
  BY <1>3 DEF Evicted, Pooled
<1>7. HomeInv'
  <2>1. \A m \in Nodes, j \in Clients :
          RefersTo(m, j)' => RefersTo(m, j) \/ (m = n /\ j = k)
    BY <1>0, <1>1, <1>3, NoneAssumption DEF RefersTo, TypeOK
  <2> QED
    BY <2>1, <1>0, <1>1 DEF HomeInv
\* Two entries never hold one client.
<1>8. \A x, y \in Nodes : pool[x] = pool[y] /\ pool[x] \in Clients => x = y
  BY <1>0 DEF HomeInv, RefersTo
<1>9. \A x \in Nodes : pool[x] # k
  BY <1>1 DEF RefersTo
<1>10. PooledIsUsable'
  <2> SUFFICES ASSUME NEW m \in Nodes, pool'[m] # None
               PROVE  conn'[pool'[m]] # "closed"
    BY DEF PooledIsUsable, Pooled
  <2>1. m \notin S
    BY <1>3
  <2>2. CASE m = n
    <3>1. pool'[m] = k
      BY <2>1, <2>2, <1>3
    <3>2. conn'[k] = "open"
      BY <1>2, <1>3, <1>9 DEF Close
    <3> QED
      BY <3>1, <3>2
  <2>3. CASE m # n
    <3>1. pool'[m] = pool[m] /\ pool[m] # None /\ pool[m] \in Clients
      BY <2>1, <2>3, <1>0, <1>3 DEF TypeOK
    <3>2. conn[pool[m]] # "closed"
      BY <3>1, <1>0 DEF PooledIsUsable, Pooled
    <3>3. pool[m] # k /\ pool[m] # pool[n] /\ pool[m] \notin {pool[x] : x \in S}
      BY <3>1, <2>1, <2>3, <1>8, <1>9
    <3>4. conn'[pool[m]] = conn[pool[m]]
      BY <3>1, <3>3, <1>2, <1>3 DEF Close
    <3> QED
      BY <3>1, <3>2, <3>4
  <2> QED
    BY <2>2, <2>3
<1>11. CalmSharing'
  <2> SUFFICES ASSUME ~displaced', NEW j \in Clients, conn'[j] = "open"
               PROVE  \E m \in Nodes : pool'[m] = j
    BY DEF CalmSharing
  <2>1. CASE j = k
    BY <2>1, <1>3, <1>6
  <2>2. CASE j # k
    <3>1. conn[j] = "open" /\ j # pool[n] /\ j \notin {pool[x] : x \in S}
      BY <2>2, <1>2, <1>3 DEF Close
    <3>2. PICK m \in Nodes : pool[m] = j
      BY <3>1, <1>0, <1>1 DEF CalmSharing
    <3>3. m # n /\ m \notin S
      BY <3>1, <3>2
    <3> QED
      BY <3>2, <3>3, <1>3
  <2> QED
    BY <2>1, <2>2
<1> QED
  BY <1>5, <1>7, <1>10, <1>11 DEF IInv

LEMMA InvGetFails ==
  ASSUME IInv, NEW u \in Users, NEW n \in Nodes, GetFails(u, n)
  PROVE  IInv'
<1>0. TypeOK /\ HomeInv /\ PooledIsUsable /\ PoolBounded /\ CalmSharing /\ PoolType
  BY InvUnfolded
<1>1. /\ Forget(n) /\ conn' = Close({pool[n]}, conn)
      /\ pool' = [pool EXCEPT ![n] = None]
      /\ UNCHANGED <<user, displaced>>
  BY DEF GetFails, Forget
<1>2. TypeOK' /\ PoolBounded'
  <2>1. PoolType'
    BY <1>0, <1>1, ForgetEffect
  <2> QED
    BY <2>1, <1>0, <1>1, TypeFromPool DEF TypeOK
<1>3. HomeInv'
  <2>1. \A m \in Nodes, k \in Clients : RefersTo(m, k)' => RefersTo(m, k)
    BY <1>0, <1>1, NoneAssumption DEF RefersTo, TypeOK
  <2> QED
    BY <2>1, <1>0, HomeKept
<1>4. \A x, y \in Nodes : pool[x] = pool[y] /\ pool[x] \in Clients => x = y
  BY <1>0 DEF HomeInv, RefersTo
<1>5. PooledIsUsable'
  BY <1>0, <1>1, <1>4 DEF PooledIsUsable, Pooled, Close, TypeOK
<1>6. CalmSharing'
  BY <1>0, <1>1 DEF CalmSharing, Close, TypeOK
<1> QED
  BY <1>2, <1>3, <1>5, <1>6 DEF IInv

LEMMA InvReturnLive ==
  ASSUME IInv, NEW u \in Users, NEW n \in Nodes, NEW c \in Clients,
         ReturnLive(u, n, c)
  PROVE  IInv'
<1>0. TypeOK /\ HomeInv /\ PooledIsUsable /\ PoolBounded /\ CalmSharing /\ PoolType
  BY InvUnfolded
<1>1. /\ user[u] = <<n, c>> /\ conn[c] = "open"
      /\ user' = [user EXCEPT ![u] = None]
      /\ Put(n, c, conn) /\ displaced' = displaced
  BY DEF ReturnLive
<1>2. conn \in [Clients -> States]
  BY <1>0 DEF PoolType
<1>3. PICK S \in SUBSET Nodes :
        /\ Evicted(S, n)
        /\ pool' = [x \in Nodes |-> IF x \in S THEN None
                                    ELSE IF x = n THEN c ELSE pool[x]]
        /\ conn' = Close({pool[x] : x \in S}, conn)
  BY <1>0, <1>1, <1>2, PutEffect
<1>4. TypeOK' /\ PoolBounded'
  <2>1. PoolType'
    BY <1>0, <1>1, <1>2, PutEffect
  <2> QED
    BY <2>1, <1>0, <1>1, TypeFromPool DEF TypeOK
<1>5. n \notin S
  BY <1>3 DEF Evicted
<1>6. HomeInv'
  <2>1. RefersTo(n, c)
    BY <1>1 DEF RefersTo
  <2>2. \A m \in Nodes, k \in Clients : RefersTo(m, k)' => RefersTo(m, k)
    BY <2>1, <1>0, <1>1, <1>3, NoneAssumption DEF RefersTo, TypeOK
  <2> QED
    BY <2>2, <1>0, HomeKept
\* The client is pooled for no other node.
<1>7. /\ \A x, y \in Nodes : pool[x] = pool[y] /\ pool[x] \in Clients => x = y
      /\ \A x \in Nodes : pool[x] = c => x = n
  BY <1>0, <1>1 DEF HomeInv, RefersTo
<1>8. PooledIsUsable'
  <2> SUFFICES ASSUME NEW m \in Nodes, pool'[m] # None
               PROVE  conn'[pool'[m]] # "closed"
    BY DEF PooledIsUsable, Pooled
  <2>1. m \notin S
    BY <1>3
  <2>2. CASE m = n
    BY <2>1, <2>2, <1>1, <1>3, <1>5, <1>7 DEF Close
  <2>3. CASE m # n
    <3>1. pool'[m] = pool[m] /\ pool[m] # None /\ pool[m] \in Clients
      BY <2>1, <2>3, <1>0, <1>3 DEF TypeOK
    <3>2. conn[pool[m]] # "closed"
      BY <3>1, <1>0 DEF PooledIsUsable, Pooled
    <3>3. pool[m] \notin {pool[x] : x \in S}
      BY <3>1, <2>1, <1>7
    <3> QED
      BY <3>1, <3>2, <3>3, <1>3 DEF Close
  <2> QED
    BY <2>2, <2>3
\* Before a displacement the client is still the one of its node, so that the map
\* does not change.
<1>9. CalmSharing'
  <2> SUFFICES ASSUME ~displaced', NEW j \in Clients, conn'[j] = "open"
               PROVE  \E m \in Nodes : pool'[m] = j
    BY DEF CalmSharing
  <2>1. pool[n] = c
    BY <1>0, <1>1, <1>7 DEF CalmSharing
  <2>2. conn[j] = "open" /\ j \notin {pool[x] : x \in S}
    BY <1>3 DEF Close
  <2>3. PICK m \in Nodes : pool[m] = j
    BY <2>2, <1>0, <1>1 DEF CalmSharing
  <2>4. m \notin S
    BY <2>2, <2>3
  <2> QED
    BY <2>1, <2>3, <2>4, <1>3
<1> QED
  BY <1>4, <1>6, <1>8, <1>9 DEF IInv

LEMMA InvReturnDead ==
  ASSUME IInv, NEW u \in Users, NEW n \in Nodes, NEW c \in Clients,
         ReturnDead(u, n, c)
  PROVE  IInv'
<1>0. TypeOK /\ HomeInv /\ PooledIsUsable /\ PoolBounded /\ CalmSharing /\ PoolType
  BY InvUnfolded
<1>1. /\ user[u] = <<n, c>> /\ conn[c] # "open"
      /\ user' = [user EXCEPT ![u] = None]
      /\ Forget(n) /\ conn' = Close({c}, conn)
      /\ pool' = [pool EXCEPT ![n] = None]
      /\ displaced' = (displaced \/ pool[n] \notin {None, c})
  BY DEF ReturnDead, Forget
<1>2. TypeOK' /\ PoolBounded'
  <2>1. PoolType'
    BY <1>0, <1>1, ForgetEffect
  <2>2. displaced' \in BOOLEAN
    BY <1>0, <1>1 DEF TypeOK
  <2> QED
    BY <2>1, <2>2, <1>0, <1>1, TypeFromPool DEF TypeOK
<1>3. HomeInv'
  <2>1. \A m \in Nodes, k \in Clients : RefersTo(m, k)' => RefersTo(m, k)
    BY <1>0, <1>1, NoneAssumption DEF RefersTo, TypeOK
  <2> QED
    BY <2>1, <1>0, HomeKept
<1>4. \A x \in Nodes : pool[x] = c => x = n
  BY <1>0, <1>1 DEF HomeInv, RefersTo
<1>5. PooledIsUsable'
  BY <1>0, <1>1, <1>4 DEF PooledIsUsable, Pooled, Close, TypeOK
<1>6. CalmSharing'
  <2> SUFFICES ASSUME ~displaced', NEW j \in Clients, conn'[j] = "open"
               PROVE  \E m \in Nodes : pool'[m] = j
    BY DEF CalmSharing
  <2>1. j # c /\ conn[j] = "open" /\ ~displaced /\ pool[n] \in {None, c}
    BY <1>0, <1>1 DEF Close, TypeOK
  <2>2. PICK m \in Nodes : pool[m] = j
    BY <2>1, <1>0 DEF CalmSharing
  <2>3. m # n
    BY <2>1, <2>2, NoneAssumption
  <2> QED
    BY <2>2, <2>3, <1>0, <1>1 DEF TypeOK
<1> QED
  BY <1>2, <1>3, <1>5, <1>6 DEF IInv

\* Drop, Break and BecomeIdle leave the map alone.
LEMMA InvElsewhere ==
  ASSUME IInv,
         \/ \E u \in Users : Drop(u)
         \/ \E k \in Clients : Break(k)
         \/ \E n \in Nodes : BecomeIdle(n)
  PROVE  IInv'
<1>0. TypeOK /\ HomeInv /\ PooledIsUsable /\ PoolBounded /\ CalmSharing /\ PoolType
  BY InvUnfolded
<1>1. /\ UNCHANGED <<pool, older, displaced>>
      /\ idle' \subseteq Pooled(pool)
      /\ user' \in [Users -> (Nodes \X Clients) \cup {None}]
      /\ \A u \in Users : user'[u] \in {user[u], None}
      /\ conn' \in [Clients -> States]
      /\ \A k \in Clients : conn'[k] = conn[k] \/ (conn[k] = "open" /\ conn'[k] = "dead")
  BY <1>0 DEF Drop, Break, BecomeIdle, TypeOK, PoolType, States
<1>2. Pooled(pool') = Pooled(pool)
  BY <1>1
<1>3. TypeOK' /\ PoolBounded'
  BY <1>0, <1>1, <1>2 DEF TypeOK, PoolBounded, States
<1>4. HomeInv'
  <2>1. \A m \in Nodes, k \in Clients : RefersTo(m, k)' => RefersTo(m, k)
    BY <1>1, NoneAssumption DEF RefersTo, TypeOK
  <2> QED
    BY <2>1, <1>0, HomeKept
<1>5. PooledIsUsable' /\ CalmSharing'
  BY <1>0, <1>1, <1>2 DEF PooledIsUsable, CalmSharing, TypeOK, Pooled
<1> QED
  BY <1>3, <1>4, <1>5 DEF IInv

LEMMA InvNext == IInv /\ [Next]_vars => IInv'
<1> SUFFICES ASSUME IInv, [Next]_vars PROVE IInv'
  OBVIOUS
<1>1. ASSUME NEW u \in Users, NEW n \in Nodes, Get(u, n) PROVE IInv'
  BY <1>1, InvGetCached, InvGetNew, InvGetFails DEF Get
<1>2. ASSUME NEW u \in Users, NEW n \in Nodes, Return(u, n) PROVE IInv'
  BY <1>2, InvReturnLive, InvReturnDead DEF Return
<1>3. CASE UNCHANGED vars
  BY <1>3 DEF IInv, vars, TypeOK, HomeInv, RefersTo, PooledIsUsable, PoolBounded,
              CalmSharing, Pooled
<1> QED
  BY <1>1, <1>2, <1>3, InvElsewhere DEF Next

LEMMA Invariance == Spec => []IInv
BY InvInit, InvNext, PTL DEF Spec

-----------------------------------------------------------------------------
(* The theorems.                                                            *)

\* The variables of the pool keep their types.
THEOREM TypeCorrect == Spec => []TypeOK
<1>1. IInv => TypeOK
  BY DEF IInv
<1> QED
  BY <1>1, Invariance, PTL

\* The pool never holds a client that it has closed, whoever else uses it.
THEOREM NoClosedClient == Spec => []PooledIsUsable
<1>1. IInv => PooledIsUsable
  BY DEF IInv
<1> QED
  BY <1>1, Invariance, PTL

\* After each Get and Return, MaxConnections is kept.
THEOREM Bounded == Spec => []PoolBounded
<1>1. IInv => PoolBounded
  BY DEF IInv
<1> QED
  BY <1>1, Invariance, PTL

\* Before the first displacement a node has one open client and none is leaked.
THEOREM NoLeakWhileCalm == Spec => []CalmSharing
<1>1. IInv => CalmSharing
  BY DEF IInv
<1> QED
  BY <1>1, Invariance, PTL

\* A client of the pool that a user of n holds is the one of n.
LEMMA HolderSeesItsNode ==
  ASSUME IInv, NEW u \in Users, NEW n \in Nodes, NEW c \in Clients,
         user[u] = <<n, c>>, NEW m \in Nodes, pool[m] = c
  PROVE  m = n
BY DEF IInv, HomeInv, RefersTo

CutOffStep ==
  \A u \in Users, n \in Nodes, c \in Clients :
    user[u] = <<n, c>> /\ conn[c] = "open" /\ conn'[c] = "closed" =>
      /\ pool[n] = c
      /\ n \in idle \/ (older[n] = {} /\ Cardinality(Pooled(pool)) = MaxConnections)

\* Put closes only the oldest entry of a full pool.
LEMMA PutCutsOff ==
  ASSUME IInv, NEW n \in Nodes, NEW d \in Clients, NEW cs \in [Clients -> States],
         Put(n, d, cs), NEW c \in Clients, cs[c] = "open", conn'[c] = "closed"
  PROVE  \E m \in Nodes : /\ pool[m] = c /\ older[m] = {}
                          /\ Cardinality(Pooled(pool)) = MaxConnections
<1>1. PICK S \in SUBSET Nodes : Evicted(S, n) /\ conn' = Close({pool[x] : x \in S}, cs)
  BY InvUnfolded, PutEffect
<1>2. PICK m \in S : pool[m] = c
  BY <1>1 DEF Close
<1> QED
  BY <1>1, <1>2 DEF Evicted

\* Only an old entry is closed under its users.
THEOREM CutOff == Spec => CutOffOnlyIfOld
<1>1. ASSUME IInv, Next PROVE CutOffStep
  <2> SUFFICES ASSUME NEW u \in Users, NEW n \in Nodes, NEW c \in Clients,
                      user[u] = <<n, c>>, conn[c] = "open", conn'[c] = "closed"
               PROVE  /\ pool[n] = c
                      /\ \/ n \in idle
                         \/ older[n] = {} /\ Cardinality(Pooled(pool)) = MaxConnections
    BY DEF CutOffStep
  <2>0. conn \in [Clients -> States]
    BY <1>1, InvUnfolded DEF PoolType
  \* It is enough to find an old entry with this client.
  <2>1. SUFFICES \E m \in Nodes :
                   /\ pool[m] = c
                   /\ \/ m \in idle
                      \/ older[m] = {} /\ Cardinality(Pooled(pool)) = MaxConnections
    BY <1>1, HolderSeesItsNode
  <2>2. ASSUME NEW v \in Users, NEW m \in Nodes, NEW k \in Clients, GetNew(v, m, k)
        PROVE  \E x \in Nodes :
                 /\ pool[x] = c
                 /\ \/ x \in idle
                    \/ older[x] = {} /\ Cardinality(Pooled(pool)) = MaxConnections
    <3> DEFINE cs == [Close({pool[m]}, conn) EXCEPT ![k] = "open"]
    <3>1. /\ Put(m, k, cs) /\ cs \in [Clients -> States] /\ ~Usable(m) /\ k # c
          /\ cs[c] = IF c = pool[m] THEN "closed" ELSE "open"
      BY <2>0, <2>2 DEF GetNew, Unused, Close, States
    <3>2. CASE c = pool[m]
      BY <3>1, <3>2, NoneAssumption DEF Usable
    <3>3. CASE c # pool[m]
      <4>1. cs[c] = "open"
        BY <3>1, <3>3
      <4> HIDE DEF cs
      <4> QED
        BY <3>1, <4>1, <1>1, PutCutsOff
    <3> QED
      BY <3>2, <3>3
  <2>3. ASSUME NEW v \in Users, NEW m \in Nodes, GetFails(v, m)
        PROVE  \E x \in Nodes : pool[x] = c /\ x \in idle
    BY <2>3, NoneAssumption DEF GetFails, Usable, Close
  <2>4. ASSUME NEW v \in Users, NEW m \in Nodes, NEW k \in Clients, ReturnLive(v, m, k)
        PROVE  \E x \in Nodes : /\ pool[x] = c /\ older[x] = {}
                                /\ Cardinality(Pooled(pool)) = MaxConnections
    <3>1. Put(m, k, conn)
      BY <2>4 DEF ReturnLive
    <3> QED
      BY <3>1, <2>0, <1>1, PutCutsOff
  <2>5. ASSUME NEW v \in Users, NEW m \in Nodes, NEW k \in Clients, ReturnDead(v, m, k)
        PROVE  FALSE
    BY <2>5 DEF ReturnDead, Close
  <2>6. ASSUME \/ \E v \in Users, m \in Nodes : GetCached(v, m)
               \/ \E v \in Users : Drop(v)
               \/ \E k \in Clients : Break(k)
               \/ \E m \in Nodes : BecomeIdle(m)
        PROVE  FALSE
    BY <2>0, <2>6 DEF GetCached, Drop, Break, BecomeIdle
  <2> QED
    BY <1>1, <2>2, <2>3, <2>4, <2>5, <2>6 DEF Next, Get, Return
<1>2. ASSUME UNCHANGED vars PROVE CutOffStep
  BY <1>2 DEF vars, CutOffStep
<1>3. IInv /\ [Next]_vars => [CutOffStep]_vars
  BY <1>1, <1>2
<1>4. IInv /\ [Next]_vars =>
        [\A u \in Users, n \in Nodes, c \in Clients :
           user[u] = <<n, c>> /\ conn[c] = "open" /\ conn'[c] = "closed" =>
             /\ pool[n] = c
             /\ n \in idle \/ (older[n] = {} /\ Cardinality(Pooled(pool)) = MaxConnections)]_vars
  BY <1>3 DEF CutOffStep
<1> QED
  BY <1>4, Invariance, PTL DEF Spec, CutOffOnlyIfOld
=============================================================================
