------------------------------ MODULE SSHPool ------------------------------
(***************************************************************************)
(* The pool of SSH connections (internal/ssh/pool.go): one client per      *)
(* node, handed to everybody who asks for that node, while others still    *)
(* use it.  Get, Return and the eviction hold the pool's lock from         *)
(* beginning to end, so each is one step; its users run commands on their  *)
(* client without the lock, and a connection may break at any time.        *)
(***************************************************************************)
EXTENDS Naturals, FiniteSets

CONSTANTS Nodes, Users, None,
          Clients,          \* bound: clients that exist at the same time
          MaxConnections    \* PoolConfig.MaxConnections (10 in the code)

ASSUME NoneAssumption == None \notin Clients \cup (Nodes \X Clients)
ASSUME NodesAssumption == IsFiniteSet(Nodes)
ASSUME MaxConnectionsAssumption == MaxConnections \in Nat \ {0}

VARIABLES pool,       \* Pool.connections: the client of each node
          older,      \* per node of the pool: those with an earlier lastUsed
          idle,       \* nodes whose lastUsed is more than IdleTimeout ago
          conn,       \* per client: open, dead (the connection broke), closed
          user,       \* per user: the node and client of its Get
          displaced   \* history: some Return has removed another client's entry

vars == <<pool, older, idle, conn, user, displaced>>

Pooled(p) == {n \in Nodes : p[n] # None}

TypeOK ==
  /\ pool \in [Nodes -> Clients \cup {None}]
  /\ older \in [Nodes -> SUBSET Nodes]
  /\ \A n \in Nodes : older[n] \subseteq Pooled(pool) \ {n}
  /\ idle \subseteq Pooled(pool)
  /\ conn \in [Clients -> {"open", "dead", "closed"}]
  /\ user \in [Users -> (Nodes \X Clients) \cup {None}]
  /\ displaced \in BOOLEAN

Init == /\ pool = [n \in Nodes |-> None]
        /\ older = [n \in Nodes |-> {}]
        /\ idle = {}
        /\ conn = [k \in Clients |-> "closed"]
        /\ user = [u \in Users |-> None]
        /\ displaced = FALSE

-----------------------------------------------------------------------------
(* What Get and Return are made of.                                         *)

\* Client.Close, for a set of clients.
Close(S, cs) == [k \in Clients |-> IF k \in S THEN "closed" ELSE cs[k]]

\* lastUsed = time.Now() in the entry of n, where p is the pool then.
Touched(n, p) == [m \in Nodes |-> IF m = n THEN Pooled(p) \ {n} ELSE older[m] \ {n}]

\* delete(p.connections, n).
Forget(n) == /\ pool' = [pool EXCEPT ![n] = None]
             /\ older' = [m \in Nodes |-> IF m = n THEN {} ELSE older[m] \ {n}]
             /\ idle' = idle \ {n}

Insert(n, c, cs) == /\ pool' = [pool EXCEPT ![n] = c]
                    /\ older' = Touched(n, pool')
                    /\ idle' = idle \ {n}
                    /\ conn' = cs

\* evictLRU: the entry that was used least recently goes.  One more than
\* MaxConnections is the most that there can be, so the loop runs once.
InsertAndEvict_Newest(n, c, cs) ==
  LET p == [pool EXCEPT ![n] = c]
      o == Touched(n, p)
  IN  \E m \in Pooled(p) \ {n} :
        /\ o[m] = Pooled(p) \ {m, n}
        /\ pool' = [p EXCEPT ![m] = None]
        /\ older' = [x \in Nodes |-> IF x = m THEN {} ELSE o[x] \ {m}]
        /\ idle' = idle \ {m, n}
        /\ conn' = Close({p[m]}, cs)

InsertAndEvict(n, c, cs) ==
  LET p == [pool EXCEPT ![n] = c]
      o == Touched(n, p)
  IN  \E m \in Pooled(p) :
        /\ o[m] = {}
        /\ pool' = [p EXCEPT ![m] = None]
        /\ older' = [x \in Nodes |-> o[x] \ {m}]
        /\ idle' = idle \ {m, n}
        /\ conn' = Close({p[m]}, cs)

\* p.connections[n] = the client c, then evictLRU.
Put(n, c, cs) ==
  LET size == Cardinality(Pooled(pool) \cup {n})
  IN  \/ size <= MaxConnections /\ Insert(n, c, cs)
      \/ size > MaxConnections /\ InsertAndEvict(n, c, cs)

-----------------------------------------------------------------------------
(* Get.                                                                     *)

\* The entry is not too old and answers the keepalive.
Usable(n) == pool[n] # None /\ n \notin idle /\ conn[pool[n]] = "open"

GetCached(u, n) ==
  /\ user[u] = None /\ Usable(n)
  /\ user' = [user EXCEPT ![u] = <<n, pool[n]>>]
  /\ older' = Touched(n, pool)
  /\ UNCHANGED <<pool, idle, conn, displaced>>

\* A new client has a name that nobody refers to.
Unused(k) == /\ conn[k] = "closed"
             /\ \A n \in Nodes : pool[n] # k
             /\ \A u \in Users, n \in Nodes : user[u] # <<n, k>>

GetNew_LeavesOldOpen(u, n, k) ==
  /\ user[u] = None /\ ~Usable(n) /\ Unused(k)
  /\ user' = [user EXCEPT ![u] = <<n, k>>]
  /\ Put(n, k, [conn EXCEPT ![k] = "open"])
  /\ UNCHANGED displaced

\* What is in the way is closed, and a client is dialed.
GetNew(u, n, k) ==
  /\ user[u] = None /\ ~Usable(n) /\ Unused(k)
  /\ user' = [user EXCEPT ![u] = <<n, k>>]
  /\ Put(n, k, [Close({pool[n]}, conn) EXCEPT ![k] = "open"])
  /\ UNCHANGED displaced

\* The same, and dialing fails.
GetFails(u, n) ==
  /\ user[u] = None /\ ~Usable(n)
  /\ Forget(n)
  /\ conn' = Close({pool[n]}, conn)
  /\ UNCHANGED <<user, displaced>>

-----------------------------------------------------------------------------
(* Return, and what happens in between.                                     *)

ReturnLive_WithoutCheck(u, n, c) ==
  /\ user[u] = <<n, c>>
  /\ user' = [user EXCEPT ![u] = None]
  /\ Put(n, c, conn)
  /\ UNCHANGED displaced

\* The client becomes the node's client, whatever was in the map.
ReturnLive(u, n, c) ==
  /\ user[u] = <<n, c>> /\ conn[c] = "open"
  /\ user' = [user EXCEPT ![u] = None]
  /\ Put(n, c, conn)
  /\ UNCHANGED displaced

\* The keepalive fails: the client is closed (again), and the node's entry goes,
\* whichever client it holds.
ReturnDead(u, n, c) ==
  /\ user[u] = <<n, c>> /\ conn[c] # "open"
  /\ user' = [user EXCEPT ![u] = None]
  /\ Forget(n)
  /\ conn' = Close({c}, conn)
  /\ displaced' = (displaced \/ pool[n] \notin {None, c})

\* runnerForNode and CompareNodes never return their clients.
Drop(u) == /\ user[u] # None
           /\ user' = [user EXCEPT ![u] = None]
           /\ UNCHANGED <<pool, older, idle, conn, displaced>>

Break(k) == /\ conn[k] = "open"
            /\ conn' = [conn EXCEPT ![k] = "dead"]
            /\ UNCHANGED <<pool, older, idle, user, displaced>>

\* Time passes: the oldest entry that is not idle becomes it.
BecomeIdle(n) == /\ n \in Pooled(pool) \ idle /\ older[n] \subseteq idle
                 /\ idle' = idle \cup {n}
                 /\ UNCHANGED <<pool, older, conn, user, displaced>>

-----------------------------------------------------------------------------

Get(u, n) == \/ GetCached(u, n)
             \/ \E k \in Clients : GetNew(u, n, k)
             \/ GetFails(u, n)

Return(u, n) == \E c \in Clients : ReturnLive(u, n, c) \/ ReturnDead(u, n, c)

Next == \/ \E u \in Users, n \in Nodes : Get(u, n) \/ Return(u, n)
        \/ \E u \in Users : Drop(u)
        \/ \E k \in Clients : Break(k)
        \/ \E n \in Nodes : BecomeIdle(n)

Spec == Init /\ [][Next]_vars

-----------------------------------------------------------------------------
(* Properties.                                                              *)

\* The pool never holds a client that it has closed, although it closes clients
\* that others hold and will return ("dead connections are discarded
\* atomically").
PooledIsUsable == \A n \in Pooled(pool) : conn[pool[n]] # "closed"

\* No more connections are kept than MaxConnections.
PoolBounded == Cardinality(Pooled(pool)) <= MaxConnections

\* As long as no Return has removed the entry of another client, every open
\* client is in the pool: each node has one at most, and none is leaked.
CalmSharing ==
  ~displaced => \A k \in Clients : conn[k] = "open" => \E n \in Nodes : pool[n] = k

\* A working client is closed under somebody who uses it only because its entry
\* has been idle or is the least recently used of a full pool.
CutOffOnlyIfOld ==
  [][\A u \in Users, n \in Nodes, c \in Clients :
       user[u] = <<n, c>> /\ conn[c] = "open" /\ conn'[c] = "closed" =>
         /\ pool[n] = c
         /\ n \in idle \/ (older[n] = {} /\ Cardinality(Pooled(pool)) = MaxConnections)]_vars
=============================================================================
