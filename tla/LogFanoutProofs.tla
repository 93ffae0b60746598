--------------------------- MODULE LogFanoutProofs ---------------------------
(***************************************************************************)
(* Proofs about LogFanout, for any number of browsers and lines and any    *)
(* capacities: the slice and a quiet fan-out are exact, and no browser     *)
(* sees lines out of order.                                                *)
(***************************************************************************)
EXTENDS LogFanout, FiniteSetTheorems, TLAPS

-----------------------------------------------------------------------------
(* The slice.  Half way through a compaction it is what it will be when     *)
(* the moves that are left are made.                                        *)

Members == {c \in Subscribers : handler[c] \in {"serving", "leaving"}}

Size == IF mu = Nil THEN subs.len ELSE subs.len - 1

\* Element i of the slice is c, or will be.
Becomes(i, c) == \/ <<i, c>> \in moves
                 \/ heap[subs.arr][i] = c /\ \A v \in Subscribers : <<i, v>> \notin moves

SliceInv ==
  /\ mu = Nil => moves = {}
  /\ mu # Nil => subs.len >= 1
  /\ \A c \in Subscribers : handler[c] = "unsubscribing" <=> mu = c
  /\ subs.arr = 0 => subs.len = 0
  /\ moves \subseteq (1 .. Size) \X Subscribers
  /\ \A i \in 1 .. Size : \A c, v \in Subscribers : <<i, c>> \in moves /\ <<i, v>> \in moves => c = v
  /\ \A c \in Members : \E i \in 1 .. Size : Becomes(i, c)
  /\ \A i \in 1 .. Size : \E c \in Members : Becomes(i, c)
  /\ \A i, j \in 1 .. Size : \A c \in Members : Becomes(i, c) /\ Becomes(j, c) => i = j
  /\ \A c \in closed : handler[c] = "gone"

-----------------------------------------------------------------------------
(* The fan-out.                                                             *)

\* The subscribers that the fan-out is through with.
Done == {heap[fan.arr][i] : i \in 1 .. fan.next - 1} \ {fan.ch}

FanInv ==
  /\ fan.next >= 1
  /\ fan.pc = "sending" => line >= 1
  /\ fan.pc = "idle" => fan.ch = Nil /\ fan.next > fan.len
  /\ fan.arr = 0 => fan.len = 0
  /\ fan.arr # 0 => fan.len <= Len(heap[fan.arr])

\* As long as nobody leaves, the copied slice stays what it was, though others are added
\* to the same array.
QuietInv ==
  ~disturbed =>
    /\ ~panic /\ mu = Nil
    /\ subs.arr = fan.arr => fan.len <= subs.len
    /\ fan.next <= fan.len + 1
    /\ due = {heap[fan.arr][i] : i \in 1 .. fan.len}
    /\ due \subseteq Members
    /\ \A i, j \in 1 .. fan.len : heap[fan.arr][i] = heap[fan.arr][j] => i = j
    /\ fan.ch # Nil => fan.next > 1 /\ fan.ch = heap[fan.arr][fan.next - 1]

\* ... and every subscriber the fan-out is through with has got the line once, or is counted.
CountInv ==
  ~disturbed =>
    /\ \A c \in Done : sentTo[c] <= 1
    /\ \A c \in Subscribers \ Done : sentTo[c] = 0
    /\ dropped - base = Cardinality({c \in Done : sentTo[c] = 0})

-----------------------------------------------------------------------------
(* The order of the lines.                                                  *)

Sorted(s) == \A i, j \in 1 .. Len(s) : i < j => s[i] <= s[j]

OrderInv(c) ==
  /\ Sorted(merged[c]) /\ Sorted(chan[c])
  /\ \A i \in 1 .. Len(merged[c]) : shown[c] <= merged[c][i] /\ merged[c][i] <= line
  /\ \A j \in 1 .. Len(chan[c]) : shown[c] <= chan[c][j] /\ chan[c][j] <= line
  /\ \A i \in 1 .. Len(merged[c]), j \in 1 .. Len(chan[c]) : merged[c][i] <= chan[c][j]
  /\ shown[c] <= line


-----------------------------------------------------------------------------

IInv == TypeOK /\ SliceInv /\ FanInv /\ QuietInv /\ CountInv /\ \A c \in Subscribers : OrderInv(c)

\* Init establishes every part of the invariant.
LEMMA InitInv == Init => IInv
<1> SUFFICES ASSUME Init PROVE IInv
  OBVIOUS
<1> USE NilAssumption, CapAssumption, MaxLinesAssumption
<1>1. TypeOK
  <2>1. heap \in Seq(Seq(Elements)) /\ Len(heap) = 0
    BY DEF Init
  <2>2. /\ chan \in [Subscribers -> Seq(1 .. MaxLines)] /\ merged \in [Subscribers -> Seq(1 .. MaxLines)]
        /\ \A c \in Subscribers : Len(chan[c]) = 0 /\ Len(merged[c]) = 0
    BY DEF Init
  <2>3. subs \in [arr : 0 .. Len(heap), len : Nat] /\ subs.arr = 0
    BY <2>1 DEF Init
  <2>4. fan \in [pc : {"idle", "sending"}, arr : 0 .. Len(heap), len : Nat, next : Nat,
                 ch : Elements]
    BY <2>1 DEF Init, Elements
  <2>5. /\ moves \subseteq (1 .. subs.len) \X Subscribers
        /\ handler \in [Subscribers -> {"new", "serving", "leaving", "unsubscribing", "gone"}]
        /\ fanin \in [Subscribers -> {"new", "running", "ended"}]
        /\ shown \in [Subscribers -> 0 .. MaxLines] /\ sentTo \in [Subscribers -> Nat]
    BY DEF Init
  <2>6. /\ mu \in Elements /\ line \in 0 .. MaxLines /\ dropped \in Nat /\ closed \subseteq Subscribers
        /\ due \subseteq Subscribers /\ base \in 0 .. dropped
    BY DEF Init, Elements
  <2>b. panic \in BOOLEAN /\ disturbed \in BOOLEAN
    BY Zenon DEF Init
  <2>7. \A c \in Subscribers : Len(chan[c]) <= ChanCap /\ Len(merged[c]) <= MergedCap
    BY <2>2
  <2> QED BY <2>1, <2>2, <2>3, <2>4, <2>5, <2>6, <2>7, <2>b DEF TypeOK
<1>2. SliceInv
  BY DEF Init, SliceInv, Members, Size, Becomes
<1>3. FanInv /\ QuietInv
  BY DEF Init, FanInv, QuietInv, Members
<1>4. Done = {}
  BY DEF Init, Done
<1>5. CountInv
  BY <1>4, FS_EmptySet DEF Init, CountInv
<1>6. ASSUME NEW c \in Subscribers PROVE OrderInv(c)
  BY DEF Init, OrderInv, Sorted
<1> QED BY <1>1, <1>2, <1>3, <1>5, <1>6 DEF IInv

\* An assignment to one element of one array changes that element and nothing else.
LEMMA PutElement ==
  ASSUME NEW h \in Seq(Seq(Elements)), NEW a \in 1 .. Len(h), NEW k \in 1 .. Len(h[a]),
         NEW x \in Elements, NEW g, g = [h EXCEPT ![a][k] = x]
  PROVE  /\ g \in Seq(Seq(Elements)) /\ Len(g) = Len(h)
         /\ \A b \in 1 .. Len(h) : Len(g[b]) = Len(h[b])
         /\ \A b, i \in Nat : g[b][i] = IF b = a /\ i = k THEN x ELSE h[b][i]
<1>1. h[a] \in Seq(Elements)
  OBVIOUS
<1> DEFINE s == [h[a] EXCEPT ![k] = x]
<1>2. s \in Seq(Elements) /\ Len(s) = Len(h[a])
  BY <1>1
<1>3. \A i \in Nat : i # k => s[i] = h[a][i]
  BY <1>1
<1>4. s[k] = x
  BY <1>1
<1>5. g = [h EXCEPT ![a] = s]
  OBVIOUS
<1> HIDE DEF s
<1>6. g \in Seq(Seq(Elements)) /\ Len(g) = Len(h)
  BY <1>2, <1>5
<1>7. \A b \in Nat : b # a => g[b] = h[b]
  BY <1>5
<1>8. g[a] = s
  BY <1>5
<1> QED BY <1>2, <1>3, <1>4, <1>6, <1>7, <1>8

\* A new array leaves the others as they were.
LEMMA NewArray ==
  ASSUME NEW h \in Seq(Seq(Elements)), NEW s \in Seq(Elements), NEW g, g = Append(h, s)
  PROVE  /\ g \in Seq(Seq(Elements)) /\ Len(g) = Len(h) + 1 /\ g[Len(h) + 1] = s
         /\ \A b \in 1 .. Len(h) : g[b] = h[b]
  OBVIOUS

\* What Subscribe does to the arrays: the slice gets one more element, and no other
\* element of the slice or of any array changes.
LEMMA SubscribeAppends ==
  ASSUME TypeOK, SliceInv, NEW c \in Subscribers, Subscribe(c)
  PROVE  /\ heap' \in Seq(Seq(Elements)) /\ Len(heap') >= Len(heap)
         /\ subs'.arr \in 1 .. Len(heap') /\ subs'.len = subs.len + 1
         /\ subs' \in [arr : 0 .. Len(heap'), len : Nat]
         /\ subs'.len <= Len(heap'[subs'.arr])
         /\ subs'.arr = subs.arr \/ subs'.arr > Len(heap)
         /\ heap'[subs'.arr][subs.len + 1] = c
         /\ \A i \in 1 .. subs.len : heap'[subs'.arr][i] = heap[subs.arr][i]
         /\ \A b \in 1 .. Len(heap) : Len(heap'[b]) = Len(heap[b])
         /\ \A b \in 1 .. Len(heap) : \A i \in Nat :
              (b = subs.arr /\ i = subs.len + 1) \/ heap'[b][i] = heap[b][i]
<1> USE DEF Elements
<1>1. /\ heap \in Seq(Seq(Elements)) /\ subs \in [arr : 0 .. Len(heap), len : Nat]
      /\ subs.arr # 0 => subs.len <= Len(heap[subs.arr])
      /\ subs.arr = 0 => subs.len = 0
  BY DEF TypeOK, SliceInv
<1>2. CASE subs.len < Capacity
  <2>1. subs.arr \in 1 .. Len(heap) /\ subs.len + 1 \in 1 .. Len(heap[subs.arr])
    <3>1. subs.arr # 0 /\ subs.len < Len(heap[subs.arr])
      BY <1>1, <1>2 DEF Capacity
    <3>2. subs.arr \in 1 .. Len(heap) /\ subs.len \in Nat
      BY <1>1, <3>1
    <3>3. heap[subs.arr] \in Seq(Elements)
      BY <1>1, <3>2
    <3> QED BY <3>1, <3>2, <3>3
  <2>2. heap' = [heap EXCEPT ![subs.arr][subs.len + 1] = c]
    BY <1>2 DEF Subscribe
  <2>3. subs' = [subs EXCEPT !.len = @ + 1]
    BY <1>2 DEF Subscribe
  <2> HIDE DEF Elements
  <2>4. c \in Elements
    BY DEF Elements
  <2>5. /\ heap' \in Seq(Seq(Elements)) /\ Len(heap') = Len(heap)
        /\ \A b \in 1 .. Len(heap) : Len(heap'[b]) = Len(heap[b])
        /\ \A b, i \in Nat :
             heap'[b][i] = IF b = subs.arr /\ i = subs.len + 1 THEN c ELSE heap[b][i]
    <3>1. heap \in Seq(Seq(Elements))
      BY <1>1
    <3> QED BY <2>1, <2>2, <2>4, <3>1, PutElement
  <2>6. subs'.arr = subs.arr /\ subs'.len = subs.len + 1 /\ subs' \in [arr : 0 .. Len(heap), len : Nat]
    BY <1>1, <2>3
  <2>7. \A b \in 1 .. Len(heap) : b \in Nat
    OBVIOUS
  <2>8. Len(heap) \in Nat /\ subs.len \in Nat /\ subs.arr \in Nat /\ Len(heap'[subs.arr]) = Len(heap[subs.arr])
    BY <1>1, <2>1, <2>5
  <2>9. heap'[subs.arr][subs.len + 1] = c /\ \A i \in 1 .. subs.len : heap'[subs.arr][i] = heap[subs.arr][i]
    <3>1. subs.len + 1 \in Nat /\ \A i \in 1 .. subs.len : i \in Nat /\ i # subs.len + 1
      BY <2>8
    <3> QED BY <2>5, <2>8, <3>1
  <2>10. \A b \in 1 .. Len(heap) : \A i \in Nat :
           (b = subs.arr /\ i = subs.len + 1) \/ heap'[b][i] = heap[b][i]
    BY <2>5, <2>7
  <2> QED BY <2>1, <2>5, <2>6, <2>8, <2>9, <2>10
<1>3. CASE ~(subs.len < Capacity)
  <2>1. heap' = Append(heap, Grown(c)) /\ subs' = [arr |-> Len(heap) + 1, len |-> subs.len + 1]
    BY <1>3 DEF Subscribe
  <2>2. Capacity \in Nat /\ Capacity = subs.len
    <3>1. CASE subs.arr = 0
      BY <1>1, <3>1 DEF Capacity
    <3>2. CASE subs.arr # 0
      <4>1. subs.arr \in 1 .. Len(heap) /\ subs.len \in Nat
        BY <1>1, <3>2
      <4>2. heap[subs.arr] \in Seq(Elements)
        BY <1>1, <4>1
      <4> QED BY <1>1, <1>3, <3>2, <4>1, <4>2 DEF Capacity
    <3> QED BY <3>1, <3>2
  <2>3. \A i \in 1 .. subs.len : heap[subs.arr][i] \in Elements
    BY <1>1
  <2> DEFINE n == IF Capacity = 0 THEN 1 ELSE 2 * Capacity
             el(i) == IF i <= Capacity THEN heap[subs.arr][i] ELSE IF i = Capacity + 1 THEN c ELSE Nil
  <2>n. n \in Nat /\ n >= subs.len + 1
    BY <2>2
  <2>e. \A i \in 1 .. n : el(i) \in Elements
    BY <2>2, <2>3
  <2>g. Grown(c) = [i \in 1 .. n |-> el(i)]
    BY DEF Grown
  <2>5. Grown(c)[subs.len + 1] = c /\ \A i \in 1 .. subs.len : Grown(c)[i] = heap[subs.arr][i]
    BY <2>2, <2>n, <2>g
  <2> HIDE DEF n, el
  <2>4. Grown(c) \in Seq(Elements) /\ Len(Grown(c)) >= subs.len + 1
    BY <2>n, <2>e, <2>g
  <2> HIDE DEF Elements
  <2>6. /\ heap' \in Seq(Seq(Elements)) /\ Len(heap') = Len(heap) + 1
        /\ heap'[Len(heap) + 1] = Grown(c) /\ \A b \in 1 .. Len(heap) : heap'[b] = heap[b]
    BY <1>1, <2>1, <2>4, NewArray
  <2>7. subs'.arr = Len(heap) + 1 /\ subs'.len = subs.len + 1
    BY <2>1
  <2>8. subs' \in [arr : 0 .. Len(heap'), len : Nat]
    BY <1>1, <2>1, <2>6
  <2>9. Len(heap) \in Nat /\ subs.len \in Nat /\ Len(heap) + 1 \in 1 .. Len(heap')
    BY <1>1, <2>6
  <2>10. heap'[subs'.arr] = Grown(c)
    BY <2>6, <2>7
  <2>11. subs'.arr \in 1 .. Len(heap') /\ subs'.arr > Len(heap) /\ Len(heap') >= Len(heap)
    BY <2>6, <2>7, <2>9
  <2>12. subs'.len <= Len(heap'[subs'.arr])
    BY <2>4, <2>7, <2>10
  <2>13. /\ \A b \in 1 .. Len(heap) : Len(heap'[b]) = Len(heap[b])
         /\ \A b \in 1 .. Len(heap) : \A i \in Nat : heap'[b][i] = heap[b][i]
    BY <2>6
  <2> QED BY <2>5, <2>6, <2>7, <2>8, <2>10, <2>11, <2>12, <2>13
<1> QED BY <1>2, <1>3

-----------------------------------------------------------------------------
(* The slice: one lemma per operation of the lock, one for everything else. *)

LEMMA SliceUnchanged ==
  ASSUME SliceInv, UNCHANGED slices, closed' = closed, Members' = Members,
         \A c \in Subscribers : handler'[c] = "unsubscribing" <=> handler[c] = "unsubscribing",
         \A c \in Subscribers : handler[c] = "gone" => handler'[c] = "gone",
         closed \subseteq Subscribers
  PROVE  SliceInv'
<1>1. Size' = Size /\ heap' = heap /\ subs' = subs /\ mu' = mu /\ moves' = moves
  BY DEF slices, Size
<1>2. \A i, c : Becomes(i, c)' <=> Becomes(i, c)
  BY <1>1 DEF Becomes
<1> QED BY <1>1, <1>2 DEF SliceInv

LEMMA SliceSubscribe ==
  ASSUME TypeOK, SliceInv, NEW c \in Subscribers, Subscribe(c)
  PROVE  SliceInv'
<1>1. /\ mu = Nil /\ mu' = Nil /\ moves = {} /\ moves' = {} /\ closed' = closed
      /\ handler[c] = "new" /\ handler' = [handler EXCEPT ![c] = "serving"]
  BY DEF Subscribe, SliceInv
<1>2. subs.len \in Nat /\ subs'.len = subs.len + 1 /\ Size = subs.len /\ Size' = subs.len + 1
  BY <1>1, SubscribeAppends DEF Size, TypeOK
<1>3. Members' = Members \cup {c} /\ c \notin Members /\ Members \subseteq Subscribers
  BY <1>1 DEF Members, TypeOK
<1>n. PICK n \in Nat : n = subs.len + 1
  BY <1>2
<1>4. \A i \in 1 .. subs.len : \A x : Becomes(i, x)' <=> Becomes(i, x)
  BY <1>1, SubscribeAppends DEF Becomes
<1>5. \A x : Becomes(n, x)' <=> x = c
  <2>1. heap'[subs'.arr][subs.len + 1] = c
    BY SubscribeAppends
  <2> QED BY <1>1, <1>n, <2>1 DEF Becomes
<1>6. \A i : i \in 1 .. Size' <=> i \in 1 .. subs.len \/ i = n
  BY <1>2, <1>n
<1>7. /\ \A i \in 1 .. subs.len : \E x \in Members : Becomes(i, x)
      /\ \A x \in Members : \E i \in 1 .. subs.len : Becomes(i, x)
      /\ \A i, j \in 1 .. subs.len : \A x \in Members : Becomes(i, x) /\ Becomes(j, x) => i = j
  BY <1>2 DEF SliceInv
<1>8. \A i \in 1 .. subs.len : ~ Becomes(i, c)
  <2> SUFFICES ASSUME NEW i \in 1 .. subs.len, Becomes(i, c) PROVE FALSE
    OBVIOUS
  <2>1. PICK x \in Members : Becomes(i, x)
    BY <1>7
  <2>2. x = c
    BY <1>1, <2>1 DEF Becomes
  <2> QED BY <1>3, <2>1, <2>2
<1>9. \A x \in Members' : \E i \in 1 .. Size' : Becomes(i, x)'
  <2> SUFFICES ASSUME NEW x \in Members' PROVE \E i \in 1 .. Size' : Becomes(i, x)'
    OBVIOUS
  <2>1. CASE x = c
    BY <1>5, <1>6, <2>1
  <2>2. CASE x \in Members
    <3>1. PICK i \in 1 .. subs.len : Becomes(i, x)
      BY <1>7, <2>2
    <3> QED BY <1>4, <1>6, <3>1
  <2> QED BY <1>3, <2>1, <2>2
<1>10. \A i \in 1 .. Size' : \E x \in Members' : Becomes(i, x)'
  <2> SUFFICES ASSUME NEW i \in 1 .. Size' PROVE \E x \in Members' : Becomes(i, x)'
    OBVIOUS
  <2>1. CASE i = n
    BY <1>3, <1>5, <2>1
  <2>2. CASE i \in 1 .. subs.len
    <3>1. PICK x \in Members : Becomes(i, x)
      BY <1>7, <2>2
    <3> QED BY <1>3, <1>4, <2>2, <3>1
  <2> QED BY <1>6, <2>1, <2>2
<1>11. \A i, j \in 1 .. Size' : \A x \in Members' : Becomes(i, x)' /\ Becomes(j, x)' => i = j
  <2> SUFFICES ASSUME NEW i \in 1 .. Size', NEW j \in 1 .. Size', NEW x \in Members',
                      Becomes(i, x)', Becomes(j, x)'
               PROVE  i = j
    OBVIOUS
  <2>1. CASE x = c
    <3>1. i = n
      BY <1>4, <1>6, <1>8, <2>1
    <3>2. j = n
      BY <1>4, <1>6, <1>8, <2>1
    <3> QED BY <3>1, <3>2
  <2>2. CASE x # c /\ x \in Members
    <3>1. i \in 1 .. subs.len /\ j \in 1 .. subs.len
      BY <1>5, <1>6, <2>2
    <3> QED BY <1>4, <1>7, <2>2, <3>1
  <2> QED BY <1>3, <2>1, <2>2
<1>12. subs'.arr # 0
  BY SubscribeAppends
<1>13. \A x \in Subscribers : handler'[x] = "unsubscribing" <=> mu' = x
  BY <1>1, NilAssumption DEF SliceInv, TypeOK
<1>14. \A x \in closed' : handler'[x] = "gone"
  BY <1>1 DEF SliceInv, TypeOK
<1> QED BY <1>1, <1>9, <1>10, <1>11, <1>12, <1>13, <1>14 DEF SliceInv

\* Without a compaction under way the slice is what the array says.
LEMMA SliceIsArray ==
  ASSUME TypeOK, SliceInv, mu = Nil
  PROVE  /\ moves = {} /\ Held = Members /\ Members \subseteq Subscribers
         /\ \A i \in 1 .. subs.len : heap[subs.arr][i] \in Members
         /\ \A i, j \in 1 .. subs.len : heap[subs.arr][i] = heap[subs.arr][j] => i = j
         /\ \A c \in Members : \E i \in 1 .. subs.len : heap[subs.arr][i] = c
<1>1. moves = {} /\ Size = subs.len /\ Members \subseteq Subscribers
  BY DEF SliceInv, Size, Members
<1>2. \A i, x : Becomes(i, x) <=> heap[subs.arr][i] = x
  BY <1>1 DEF Becomes
<1>3. \A i \in 1 .. subs.len : heap[subs.arr][i] \in Members
  BY <1>1, <1>2 DEF SliceInv
<1>4. \A c \in Members : \E i \in 1 .. subs.len : heap[subs.arr][i] = c
  BY <1>1, <1>2 DEF SliceInv
<1>5. \A i, j \in 1 .. subs.len : heap[subs.arr][i] = heap[subs.arr][j] => i = j
  BY <1>1, <1>2, <1>3 DEF SliceInv
<1> QED BY <1>1, <1>3, <1>4, <1>5 DEF Held

LEMMA SliceUnsubscribeBegin ==
  ASSUME TypeOK, SliceInv, NEW c \in Subscribers, UnsubscribeBegin(c)
  PROVE  /\ SliceInv' /\ moves' \subseteq (1 .. subs'.len) \X Subscribers
<1> DEFINE p == Position(c)
           Src(i) == IF i < p THEN i ELSE i + 1
<1>1. /\ mu = Nil /\ mu' = c /\ closed' = closed /\ heap' = heap /\ subs' = subs
      /\ moves' = {<<i, heap[subs.arr][i + 1]>> : i \in p .. subs.len - 1}
      /\ handler[c] = "leaving" /\ handler' = [handler EXCEPT ![c] = "unsubscribing"]
  BY DEF UnsubscribeBegin
<1>2. /\ moves = {} /\ Members \subseteq Subscribers
      /\ \A i \in 1 .. subs.len : heap[subs.arr][i] \in Members
      /\ \A i, j \in 1 .. subs.len : heap[subs.arr][i] = heap[subs.arr][j] => i = j
      /\ \A x \in Members : \E i \in 1 .. subs.len : heap[subs.arr][i] = x
  BY <1>1, SliceIsArray
<1>3. c \in Members /\ Members' = Members \ {c}
  BY <1>1 DEF Members, TypeOK
<1>4. p \in 1 .. subs.len /\ heap[subs.arr][p] = c
  BY <1>2, <1>3 DEF Position
<1>5. subs.len \in Nat /\ p \in Nat /\ p >= 1 /\ subs.len >= p /\ Size' = subs.len - 1
  <2>1. subs.len \in Nat
    BY DEF TypeOK
  <2>2. Size' = subs.len - 1
    BY <1>1, NilAssumption DEF Size
  <2> HIDE DEF p
  <2> QED BY <1>4, <2>1, <2>2
<1> HIDE DEF p
<1>6. \A i \in 1 .. Size' : \A x : <<i, x>> \in moves' <=> i >= p /\ x = heap[subs.arr][i + 1]
  BY <1>1, <1>5
<1>7. \A i \in 1 .. Size' : Src(i) \in 1 .. subs.len /\ i + 1 \in 1 .. subs.len /\ Src(i) # p
  BY <1>5
<1>8. \A i \in 1 .. Size' : \A x : Becomes(i, x)' <=> heap[subs.arr][Src(i)] = x
  <2> SUFFICES ASSUME NEW i \in 1 .. Size', NEW x PROVE Becomes(i, x)' <=> heap[subs.arr][Src(i)] = x
    OBVIOUS
  <2>1. CASE i < p
    BY <1>1, <1>5, <1>6, <2>1 DEF Becomes
  <2>2. CASE ~(i < p)
    <3>1. heap[subs.arr][i + 1] \in Subscribers
      BY <1>2, <1>7
    <3>2. i >= p
      BY <1>5, <2>2
    <3> QED BY <1>1, <1>6, <2>2, <3>1, <3>2 DEF Becomes
  <2> QED BY <2>1, <2>2
<1>9. \A i \in 1 .. Size' : \E x \in Members' : Becomes(i, x)'
  BY <1>2, <1>3, <1>4, <1>7, <1>8
<1>10. \A i, j \in 1 .. Size' : Src(i) = Src(j) => i = j
  BY <1>5
<1>11. \A i, j \in 1 .. Size' : \A x \in Members' : Becomes(i, x)' /\ Becomes(j, x)' => i = j
  BY <1>2, <1>7, <1>8, <1>10
<1>12. \A x \in Members' : \E i \in 1 .. Size' : Becomes(i, x)'
  <2> SUFFICES ASSUME NEW x \in Members' PROVE \E i \in 1 .. Size' : Becomes(i, x)'
    OBVIOUS
  <2>1. PICK k \in 1 .. subs.len : heap[subs.arr][k] = x
    BY <1>2, <1>3
  <2>2. k # p
    BY <1>3, <1>4, <2>1
  <2>3. CASE k < p
    <3>1. k \in 1 .. Size' /\ Src(k) = k
      BY <1>5, <2>3
    <3> QED BY <1>8, <2>1, <3>1
  <2>4. CASE k > p
    <3>1. k - 1 \in 1 .. Size' /\ Src(k - 1) = k
      BY <1>5, <2>4
    <3> QED BY <1>8, <2>1, <3>1
  <2> QED BY <1>5, <2>2, <2>3, <2>4
<1>13. moves' \subseteq (1 .. Size') \X Subscribers
  BY <1>1, <1>2, <1>5, <1>7
<1>14. \A i \in 1 .. Size' : \A x, y \in Subscribers : <<i, x>> \in moves' /\ <<i, y>> \in moves' => x = y
  BY <1>6
<1>15. \A x \in Subscribers : handler'[x] = "unsubscribing" <=> mu' = x
  BY <1>1, NilAssumption DEF SliceInv, TypeOK
<1>16. \A x \in closed' : handler'[x] = "gone"
  BY <1>1 DEF SliceInv, TypeOK
<1>17. subs'.arr = 0 => subs'.len = 0
  BY <1>1 DEF SliceInv
<1>18. mu' # Nil /\ subs'.len >= 1
  BY <1>1, <1>5, NilAssumption
<1>19. SliceInv'
  BY <1>9, <1>11, <1>12, <1>13, <1>14, <1>15, <1>16, <1>17, <1>18 DEF SliceInv
<1>20. moves' \subseteq (1 .. subs'.len) \X Subscribers
  BY <1>1, <1>5, <1>13
<1> QED BY <1>19, <1>20

\* A move puts what an element becomes where it belongs.
LEMMA SliceUnsubscribeMove ==
  ASSUME TypeOK, SliceInv, UnsubscribeMove
  PROVE  /\ SliceInv' /\ heap' \in Seq(Seq(Elements)) /\ Len(heap') = Len(heap)
         /\ \A b \in 1 .. Len(heap) : Len(heap'[b]) = Len(heap[b])
         /\ mu # Nil
<1>1. PICK m \in moves : heap' = [heap EXCEPT ![subs.arr][m[1]] = m[2]] /\ moves' = moves \ {m}
  BY DEF UnsubscribeMove
<1>2. /\ UNCHANGED <<subs, mu, closed, handler>> /\ mu # Nil
      /\ subs.len \in Nat /\ subs.len >= 1 /\ Size = subs.len - 1 /\ Size' = Size /\ Members' = Members
  BY <1>1 DEF UnsubscribeMove, SliceInv, Size, TypeOK, browsers, Members
<1>3. PICK k \in 1 .. Size, v \in Subscribers : m = <<k, v>>
  BY <1>1 DEF SliceInv
<1>4. /\ heap \in Seq(Seq(Elements)) /\ subs.arr \in 1 .. Len(heap) /\ subs.len <= Len(heap[subs.arr])
      /\ v \in Elements
  <2>1. /\ heap \in Seq(Seq(Elements)) /\ subs.arr \in 0 .. Len(heap)
        /\ subs.arr # 0 => subs.len <= Len(heap[subs.arr])
    BY DEF TypeOK
  <2>2. subs.arr # 0
    BY <1>2 DEF SliceInv
  <2> QED BY <1>3, <2>1, <2>2 DEF Elements
<1>5. k \in 1 .. Len(heap[subs.arr])
  <2>1. heap[subs.arr] \in Seq(Elements)
    BY <1>4
  <2> QED BY <1>2, <1>4, <2>1
<1>6. heap' = [heap EXCEPT ![subs.arr][k] = v]
  BY <1>1, <1>3
<1>7. /\ heap' \in Seq(Seq(Elements)) /\ Len(heap') = Len(heap)
      /\ \A b \in 1 .. Len(heap) : Len(heap'[b]) = Len(heap[b])
      /\ \A b, i \in Nat : heap'[b][i] = IF b = subs.arr /\ i = k THEN v ELSE heap[b][i]
  BY <1>4, <1>5, <1>6, PutElement
<1>8. \A i \in 1 .. Size : heap'[subs.arr][i] = IF i = k THEN v ELSE heap[subs.arr][i]
  <2>1. subs.arr \in Nat /\ \A i \in 1 .. Size : i \in Nat
    BY <1>2, <1>4
  <2> QED BY <1>7, <2>1
<1>9. \A i \in 1 .. Size : \A x, y \in Subscribers : <<i, x>> \in moves /\ <<i, y>> \in moves => x = y
  BY DEF SliceInv
<1>10. \A i, x : <<i, x>> \in moves' <=> <<i, x>> \in moves /\ ~(i = k /\ x = v)
  BY <1>1, <1>3
<1>11. \A i \in 1 .. Size : \A x \in Subscribers : Becomes(i, x)' <=> Becomes(i, x)
  <2> SUFFICES ASSUME NEW i \in 1 .. Size, NEW x \in Subscribers PROVE Becomes(i, x)' <=> Becomes(i, x)
    OBVIOUS
  <2>1. CASE i = k
    <3>1. \A y \in Subscribers : <<k, y>> \in moves <=> y = v
      BY <1>1, <1>3, <1>9
    <3> QED BY <1>2, <1>8, <1>10, <2>1, <3>1 DEF Becomes
  <2>2. CASE i # k
    BY <1>2, <1>8, <1>10, <2>2 DEF Becomes
  <2> QED BY <2>1, <2>2
<1>12. Members \subseteq Subscribers
  BY DEF Members
<1>13. moves' \subseteq (1 .. Size') \X Subscribers
  BY <1>1, <1>2 DEF SliceInv
<1>14. /\ \A x \in Members' : \E i \in 1 .. Size' : Becomes(i, x)'
       /\ \A i \in 1 .. Size' : \E x \in Members' : Becomes(i, x)'
       /\ \A i, j \in 1 .. Size' : \A x \in Members' : Becomes(i, x)' /\ Becomes(j, x)' => i = j
  BY <1>2, <1>11, <1>12 DEF SliceInv
<1>15. \A i \in 1 .. Size' : \A x, y \in Subscribers : <<i, x>> \in moves' /\ <<i, y>> \in moves' => x = y
  BY <1>2, <1>9, <1>10
<1>16. SliceInv'
  BY <1>2, <1>13, <1>14, <1>15 DEF SliceInv
<1> QED BY <1>2, <1>7, <1>16

LEMMA SliceUnsubscribeEnd ==
  ASSUME TypeOK, SliceInv, UnsubscribeEnd
  PROVE  SliceInv'
<1>1. /\ mu # Nil /\ mu \in Subscribers /\ moves = {} /\ moves' = {} /\ heap' = heap
      /\ subs' = [subs EXCEPT !.len = @ - 1] /\ closed' = closed \cup {mu}
      /\ handler' = [handler EXCEPT ![mu] = "gone"] /\ mu' = Nil /\ handler[mu] = "unsubscribing"
  BY DEF UnsubscribeEnd, SliceInv, TypeOK, Elements
<1>2. /\ subs.len \in Nat /\ subs.len >= 1 /\ subs'.arr = subs.arr /\ subs'.len = subs.len - 1
      /\ Size = subs.len - 1
  BY <1>1 DEF SliceInv, TypeOK, Size
<1>3. Size' = Size
  BY <1>1, <1>2 DEF Size
<1>4. Members' = Members
  BY <1>1 DEF Members, TypeOK
<1>5. \A i, x : Becomes(i, x)' <=> Becomes(i, x)
  BY <1>1, <1>2 DEF Becomes
<1>6. \A x \in Subscribers : handler'[x] = "unsubscribing" <=> mu' = x
  BY <1>1, NilAssumption DEF SliceInv, TypeOK
<1>7. \A x \in closed' : handler'[x] = "gone"
  BY <1>1 DEF SliceInv, TypeOK
<1>8. /\ \A x \in Members' : \E i \in 1 .. Size' : Becomes(i, x)'
      /\ \A i \in 1 .. Size' : \E x \in Members' : Becomes(i, x)'
      /\ \A i, j \in 1 .. Size' : \A x \in Members' : Becomes(i, x)' /\ Becomes(j, x)' => i = j
  BY <1>3, <1>4, <1>5 DEF SliceInv
<1>9. subs'.arr = 0 => subs'.len = 0
  BY <1>2 DEF SliceInv
<1> QED BY <1>1, <1>6, <1>7, <1>8, <1>9 DEF SliceInv

-----------------------------------------------------------------------------
(* The fan-out, in the same way.                                            *)

\* A list of n elements is finite, and has n elements when they differ.
LEMMA Enumerated ==
  ASSUME NEW n \in Nat, NEW s
  PROVE  /\ [i \in 1 .. n |-> s[i]] \in Surjection(1 .. n, {s[i] : i \in 1 .. n})
         /\ IsFiniteSet({s[i] : i \in 1 .. n})
<1> DEFINE S == {s[i] : i \in 1 .. n}
           f == [i \in 1 .. n |-> s[i]]
<1>1. IsFiniteSet(1 .. n)
  BY FS_Interval
<1>2. f \in Surjection(1 .. n, S)
  BY DEF Surjection
<1>3. IsFiniteSet(S)
  <2> HIDE DEF f, S
  <2> QED BY <1>1, <1>2, FS_Surjection
<1> QED BY <1>2, <1>3

LEMMA EnumeratedDistinct ==
  ASSUME NEW n \in Nat, NEW s, \A i, j \in 1 .. n : s[i] = s[j] => i = j
  PROVE  Cardinality({s[i] : i \in 1 .. n}) = n
<1> DEFINE S == {s[i] : i \in 1 .. n}
           f == [i \in 1 .. n |-> s[i]]
<1>1. f \in Bijection(1 .. n, S)
  BY Enumerated DEF Bijection, Injection, IsInjective, Surjection
<1>2. ExistsBijection(1 .. n, S)
  BY <1>1 DEF ExistsBijection
<1> QED BY <1>2, FS_CountingElements

FanoutInv == FanInv /\ QuietInv /\ CountInv

LEMMA FanUnchanged ==
  ASSUME FanoutInv, UNCHANGED <<heap, subs, mu, fan, line, dropped, panic, history>>,
         Members' = Members
  PROVE  FanoutInv'
<1>1. Done' = Done
  BY DEF Done
<1> QED BY <1>1 DEF FanoutInv, FanInv, QuietInv, CountInv, history

\* Once somebody has left, only the bounds of the copied slice matter.
LEMMA FanDisturbed ==
  ASSUME FanInv, disturbed', UNCHANGED <<fan, line>>,
         Len(heap') = Len(heap), fan.arr \in 0 .. Len(heap),
         \A b \in 1 .. Len(heap) : Len(heap'[b]) = Len(heap[b]), Len(heap) \in Nat
  PROVE  FanoutInv'
<1>1. FanInv'
  <2>1. fan.arr # 0 => fan.arr \in 1 .. Len(heap)
    OBVIOUS
  <2> QED BY <2>1 DEF FanInv
<1> QED BY <1>1 DEF FanoutInv, QuietInv, CountInv

LEMMA FanSubscribe ==
  ASSUME TypeOK, SliceInv, FanoutInv, NEW c \in Subscribers, Subscribe(c)
  PROVE  FanoutInv'
<1>1. /\ mu = Nil /\ mu' = Nil /\ handler[c] = "new" /\ handler' = [handler EXCEPT ![c] = "serving"]
      /\ UNCHANGED <<fan, line, dropped, panic, due, sentTo, base, disturbed>>
  BY DEF Subscribe, history
<1>2. Members \subseteq Members'
  BY <1>1 DEF Members, TypeOK
<1>3. /\ fan.arr \in 0 .. Len(heap) /\ fan.len \in Nat /\ fan.next \in Nat /\ Len(heap) \in Nat
      /\ subs.len \in Nat
  BY DEF TypeOK
<1>4. FanInv'
  <2>1. fan.arr # 0 => fan.arr \in 1 .. Len(heap)
    BY <1>3
  <2> QED BY <1>1, <2>1, SubscribeAppends DEF FanInv, FanoutInv
<1>5. CASE disturbed
  BY <1>1, <1>4, <1>5 DEF FanoutInv, QuietInv, CountInv
<1>6. CASE ~disturbed
  <2>1. \A i \in 1 .. fan.len : heap'[fan.arr][i] = heap[fan.arr][i]
    <3> SUFFICES ASSUME NEW i \in 1 .. fan.len PROVE heap'[fan.arr][i] = heap[fan.arr][i]
      OBVIOUS
    <3>1. fan.arr \in 1 .. Len(heap) /\ i \in Nat
      BY <1>3 DEF FanInv, FanoutInv
    <3>2. ~(fan.arr = subs.arr /\ i = subs.len + 1)
      BY <1>3, <1>6 DEF QuietInv, FanoutInv
    <3> QED BY <3>1, <3>2, SubscribeAppends
  <2>2. fan.next - 1 <= fan.len
    BY <1>3, <1>6 DEF QuietInv, FanoutInv
  <2>3. Done' = Done
    <3>1. \A i \in 1 .. fan.next - 1 : i \in 1 .. fan.len
      BY <1>3, <2>2
    <3>2. {heap'[fan.arr][i] : i \in 1 .. fan.next - 1} = {heap[fan.arr][i] : i \in 1 .. fan.next - 1}
      BY <2>1, <3>1, Zenon
    <3> QED BY <1>1, <3>2 DEF Done
  <2>4. CountInv'
    BY <1>1, <2>3 DEF CountInv, FanoutInv
  <2>5. subs'.arr = fan.arr => fan.len <= subs'.len
    <3>1. subs'.len = subs.len + 1 /\ (subs'.arr = subs.arr \/ subs'.arr > Len(heap))
      BY SubscribeAppends
    <3> QED BY <1>3, <1>6, <3>1 DEF QuietInv, FanoutInv
  <2>6. fan.ch # Nil => fan.next > 1 /\ fan.ch = heap'[fan.arr][fan.next - 1]
    BY <1>3, <1>6, <2>1, <2>2 DEF QuietInv, FanoutInv
  <2>7. due = {heap'[fan.arr][i] : i \in 1 .. fan.len}
    BY <1>6, <2>1 DEF QuietInv, FanoutInv
  <2>8. \A i, j \in 1 .. fan.len : heap'[fan.arr][i] = heap'[fan.arr][j] => i = j
    BY <1>6, <2>1 DEF QuietInv, FanoutInv
  <2>9. due \subseteq Members' /\ ~panic /\ fan.next <= fan.len + 1
    BY <1>2, <1>6 DEF QuietInv, FanoutInv
  <2>10. QuietInv'
    BY <1>1, <2>5, <2>6, <2>7, <2>8, <2>9 DEF QuietInv
  <2> QED BY <1>4, <2>4, <2>10 DEF FanoutInv
<1> QED BY <1>5, <1>6

LEMMA FanNotify ==
  ASSUME TypeOK, SliceInv, ~panic, Notify
  PROVE  FanoutInv'
<1>1. /\ mu = Nil /\ mu' = Nil /\ heap' = heap /\ subs' = subs /\ panic' = panic /\ Members' = Members
      /\ line' = line + 1 /\ due' = Held /\ sentTo' = [c \in Subscribers |-> 0] /\ base' = dropped
      /\ dropped' = dropped
  BY DEF Notify, slices, browsers, Members
<1>2. /\ fan'.pc = "sending" /\ fan'.arr = subs.arr /\ fan'.len = subs.len /\ fan'.next = 1
      /\ fan'.ch = Nil
  BY DEF Notify
<1>3. FanInv'
  BY <1>1, <1>2 DEF FanInv, TypeOK, SliceInv
<1>4. QuietInv'
  <2>1. ~panic' /\ mu' = Nil /\ fan'.next <= fan'.len + 1 /\ fan'.ch = Nil
    BY <1>1, <1>2 DEF TypeOK
  <2>2. subs'.arr = fan'.arr => fan'.len <= subs'.len
    BY <1>1, <1>2 DEF TypeOK
  <2>3. due' = {heap'[fan'.arr][i] : i \in 1 .. fan'.len}
    BY <1>1, <1>2 DEF Held
  <2>4. due' \subseteq Members'
    BY <1>1, SliceIsArray
  <2>5. \A i, j \in 1 .. fan'.len : heap'[fan'.arr][i] = heap'[fan'.arr][j] => i = j
    BY <1>1, <1>2, SliceIsArray
  <2> QED BY <2>1, <2>2, <2>3, <2>4, <2>5 DEF QuietInv
<1>5. Done' = {}
  BY <1>2 DEF Done
<1>6. {c \in Done' : sentTo'[c] = 0} = {}
  BY <1>5
<1>7. dropped' - base' = Cardinality({c \in Done' : sentTo'[c] = 0})
  <2>1. Cardinality({}) = 0
    BY FS_EmptySet
  <2>2. dropped' - base' = 0
    BY <1>1 DEF TypeOK
  <2> QED BY <1>6, <2>1, <2>2
<1>8. CountInv'
  BY <1>1, <1>5, <1>7 DEF CountInv
<1> QED BY <1>3, <1>4, <1>8 DEF FanoutInv

\* The fan-out reads an element of the slice that it has not read yet.
LEMMA FanRead ==
  ASSUME TypeOK, FanoutInv, NotifyRead
  PROVE  FanoutInv' /\ fan'.ch \in Elements
<1>1. /\ fan.pc = "sending" /\ fan.ch = Nil /\ fan.next <= fan.len
      /\ fan' = [fan EXCEPT !.ch = heap[fan.arr][fan.next], !.next = @ + 1]
      /\ UNCHANGED <<heap, subs, mu, line, dropped, panic, due, sentTo, base, disturbed>>
      /\ Members' = Members
  BY DEF NotifyRead, slices, browsers, history, Members
<1>2. /\ fan'.pc = fan.pc /\ fan'.arr = fan.arr /\ fan'.len = fan.len /\ fan'.next = fan.next + 1
      /\ fan'.ch = heap[fan.arr][fan.next]
      /\ fan.next \in Nat /\ fan.len \in Nat /\ fan.next >= 1
      /\ fan.arr \in 1 .. Len(heap) /\ fan.len <= Len(heap[fan.arr])
  BY <1>1 DEF TypeOK, FanInv, FanoutInv
<1>3. fan'.ch \in Elements
  <2>1. heap[fan.arr] \in Seq(Elements)
    BY <1>2 DEF TypeOK
  <2> QED BY <1>1, <1>2, <2>1
<1>4. FanInv'
  BY <1>1, <1>2 DEF FanInv, FanoutInv
<1>5. CASE disturbed
  BY <1>1, <1>3, <1>4, <1>5 DEF FanoutInv, QuietInv, CountInv
<1>6. CASE ~disturbed
  <2>1. QuietInv'
    BY <1>1, <1>2, <1>6 DEF QuietInv, FanoutInv
  <2>2. Done' = Done
    <3>1. \A i, j \in 1 .. fan.len : heap[fan.arr][i] = heap[fan.arr][j] => i = j
      BY <1>6 DEF QuietInv, FanoutInv
    <3>2. \A i \in 1 .. fan.len : heap[fan.arr][i] \in Subscribers
      BY <1>6 DEF QuietInv, FanoutInv, Members
    <3>3. \A i \in 1 .. fan.next - 1 : i \in 1 .. fan.len /\ i # fan.next
      BY <1>1, <1>2
    <3>4. fan.next \in 1 .. fan.len
      BY <1>1, <1>2
    <3>5. \A i : i \in 1 .. fan'.next - 1 <=> i \in 1 .. fan.next - 1 \/ i = fan.next
      BY <1>2
    <3>6. Done = {heap[fan.arr][i] : i \in 1 .. fan.next - 1}
      BY <1>1, <3>2, <3>3, NilAssumption DEF Done
    <3>7. Done' = {heap[fan.arr][i] : i \in 1 .. fan'.next - 1} \ {heap[fan.arr][fan.next]}
      BY <1>1, <1>2 DEF Done
    <3> QED BY <3>1, <3>3, <3>4, <3>5, <3>6, <3>7
  <2>3. CountInv'
    BY <1>1, <2>2 DEF CountInv, FanoutInv
  <2> QED BY <1>3, <1>4, <2>1, <2>3 DEF FanoutInv
<1> QED BY <1>5, <1>6

\* A quiet fan-out sends to a subscriber that is there and has not got the line, and either
\* gives it the line or counts it.
LEMMA FanSend ==
  ASSUME TypeOK, SliceInv, FanoutInv, NotifySend
  PROVE  FanoutInv'
<1> DEFINE c == fan.ch
<1>1. /\ c # Nil /\ fan' = [fan EXCEPT !.ch = Nil]
      /\ UNCHANGED <<heap, subs, mu, line, closed, due, base, disturbed>> /\ Members' = Members
  BY DEF NotifySend, slices, browsers, Members
<1>2. /\ fan'.pc = fan.pc /\ fan'.arr = fan.arr /\ fan'.len = fan.len /\ fan'.next = fan.next
      /\ fan'.ch = Nil
      /\ fan.next \in Nat /\ fan.len \in Nat /\ c \in Subscribers
  BY <1>1 DEF TypeOK, Elements
<1>3. FanInv'
  BY <1>1, <1>2 DEF FanInv, FanoutInv
<1>4. CASE disturbed
  BY <1>1, <1>3, <1>4 DEF FanoutInv, QuietInv, CountInv
<1>5. CASE ~disturbed
  <2> DEFINE Uncounted == {x \in Done : sentTo[x] = 0}
  <2>1. /\ fan.next > 1 /\ fan.next <= fan.len + 1 /\ c = heap[fan.arr][fan.next - 1]
        /\ due \subseteq Members /\ due = {heap[fan.arr][i] : i \in 1 .. fan.len} /\ ~panic
    BY <1>1, <1>5 DEF QuietInv, FanoutInv
  <2>2. Done' = Done \cup {c} /\ c \notin Done /\ Done \subseteq Members
    <3>1. \A i \in 1 .. fan.next - 1 : i \in 1 .. fan.len
      BY <1>2, <2>1
    <3>2. fan.next - 1 \in 1 .. fan.next - 1
      BY <1>2, <2>1
    <3>3. \A i \in 1 .. fan.next - 1 : heap[fan.arr][i] \in Members
      BY <2>1, <3>1
    <3>4. Done' = {heap[fan.arr][i] : i \in 1 .. fan.next - 1} \ {Nil}
      BY <1>1, <1>2 DEF Done
    <3>5. Done = {heap[fan.arr][i] : i \in 1 .. fan.next - 1} \ {c}
      BY DEF Done
    <3>6. Nil \notin Members
      BY NilAssumption DEF Members
    <3> QED BY <2>1, <3>2, <3>3, <3>4, <3>5, <3>6
  <2>3. c \in Members /\ c \notin closed
    <3>1. fan.next - 1 \in 1 .. fan.len
      BY <1>2, <2>1
    <3>2. c \in Members
      BY <2>1, <3>1
    <3> QED BY <3>2 DEF SliceInv, Members
  <2>4. \A x \in Subscribers \ Done : sentTo[x] = 0
    BY <1>5 DEF CountInv, FanoutInv
  <2>5. (\A x \in Done : sentTo[x] <= 1) /\ dropped - base = Cardinality(Uncounted)
    BY <1>5 DEF CountInv, FanoutInv
  <2>6. IsFiniteSet(Uncounted)
    <3>1. fan.next - 1 \in Nat
      BY <1>2, <2>1
    <3>2. IsFiniteSet({heap[fan.arr][i] : i \in 1 .. fan.next - 1})
      BY <3>1, Enumerated
    <3>3. Uncounted \subseteq {heap[fan.arr][i] : i \in 1 .. fan.next - 1}
      BY DEF Done
    <3> QED BY <3>2, <3>3, FS_Subset
  <2>7. QuietInv'
    <3>1. ~panic'
      BY <2>1, <2>3 DEF NotifySend
    <3> QED BY <1>1, <1>2, <1>5, <3>1 DEF QuietInv, FanoutInv
  <2>8. Members \subseteq Subscribers /\ sentTo \in [Subscribers -> Nat] /\ dropped \in Nat /\ base \in Nat
    BY DEF Members, TypeOK
  <2> HIDE DEF c, Uncounted
  <2>9. CASE sentTo' = [sentTo EXCEPT ![c] = @ + 1] /\ dropped' = dropped
    <3>1. sentTo'[c] = 1 /\ \A x \in Subscribers : x # c => sentTo'[x] = sentTo[x]
      BY <1>2, <2>2, <2>4, <2>8, <2>9
    <3>2. {x \in Done' : sentTo'[x] = 0} = Uncounted
      BY <2>2, <2>8, <3>1 DEF Uncounted
    <3>3. (\A x \in Done' : sentTo'[x] <= 1) /\ \A x \in Subscribers \ Done' : sentTo'[x] = 0
      BY <2>2, <2>4, <2>5, <2>8, <3>1
    <3>4. CountInv'
      BY <1>1, <2>5, <2>9, <3>2, <3>3 DEF CountInv
    <3> QED BY <1>3, <2>7, <3>4 DEF FanoutInv
  <2>10. CASE sentTo' = sentTo /\ dropped' = dropped + 1
    <3>1. {x \in Done' : sentTo'[x] = 0} = Uncounted \cup {c} /\ c \notin Uncounted
      BY <1>2, <2>2, <2>4, <2>10 DEF Uncounted
    <3>2. Cardinality(Uncounted \cup {c}) = Cardinality(Uncounted) + 1
      BY <2>6, <3>1, FS_AddElement
    <3>3. (\A x \in Done' : sentTo'[x] <= 1) /\ \A x \in Subscribers \ Done' : sentTo'[x] = 0
      BY <1>2, <2>2, <2>4, <2>5, <2>10
    <3>4. dropped' - base' = Cardinality(Uncounted \cup {c})
      BY <1>1, <2>5, <2>8, <2>10, <3>2
    <3>5. CountInv'
      BY <3>1, <3>3, <3>4 DEF CountInv
    <3> QED BY <1>3, <2>7, <3>5 DEF FanoutInv
  <2> QED BY <2>3, <2>9, <2>10 DEF NotifySend, c
<1> QED BY <1>4, <1>5

LEMMA FanEnd ==
  ASSUME TypeOK, FanoutInv, NotifyEnd
  PROVE  FanoutInv'
<1>1. /\ fan.ch = Nil /\ fan.next > fan.len /\ fan' = [fan EXCEPT !.pc = "idle"]
      /\ UNCHANGED <<heap, subs, mu, line, dropped, panic, due, sentTo, base, disturbed>>
      /\ Members' = Members
  BY DEF NotifyEnd, slices, browsers, history, Members
<1>2. /\ fan'.arr = fan.arr /\ fan'.len = fan.len /\ fan'.next = fan.next /\ fan'.ch = fan.ch
      /\ fan'.pc = "idle"
  BY <1>1 DEF TypeOK
<1>3. Done' = Done
  BY <1>1, <1>2 DEF Done
<1> QED BY <1>1, <1>2, <1>3 DEF FanoutInv, FanInv, QuietInv, CountInv

-----------------------------------------------------------------------------
(* The types, in three parts.                                               *)

ArraysOK ==
  /\ heap \in Seq(Seq(Elements))
  /\ subs \in [arr : 0 .. Len(heap), len : Nat]
  /\ subs.arr # 0 => subs.len <= Len(heap[subs.arr])
  /\ mu \in Elements
  /\ moves \subseteq (1 .. subs.len) \X Subscribers
  /\ fan \in [pc : {"idle", "sending"}, arr : 0 .. Len(heap), len : Nat, next : Nat,
              ch : Elements]

LinesOK ==
  /\ line \in 0 .. MaxLines
  /\ chan \in [Subscribers -> Seq(1 .. MaxLines)]
  /\ merged \in [Subscribers -> Seq(1 .. MaxLines)]
  /\ \A c \in Subscribers : Len(chan[c]) <= ChanCap /\ Len(merged[c]) <= MergedCap
  /\ shown \in [Subscribers -> 0 .. MaxLines]

BrowsersOK ==
  /\ closed \subseteq Subscribers
  /\ handler \in [Subscribers -> {"new", "serving", "leaving", "unsubscribing", "gone"}]
  /\ fanin \in [Subscribers -> {"new", "running", "ended"}]

CountsOK ==
  /\ dropped \in Nat /\ base \in 0 .. dropped
  /\ panic \in BOOLEAN /\ disturbed \in BOOLEAN
  /\ due \subseteq Subscribers
  /\ sentTo \in [Subscribers -> Nat]

LEMMA TypeParts ==
  /\ TypeOK => ArraysOK /\ LinesOK /\ BrowsersOK /\ CountsOK
  /\ ArraysOK' /\ LinesOK' /\ BrowsersOK' /\ CountsOK' => TypeOK'
  BY DEF TypeOK, ArraysOK, LinesOK, BrowsersOK, CountsOK

\* Each part depends on its own variables only.
LEMMA TypeFrames ==
  ASSUME TypeOK
  PROVE  /\ UNCHANGED <<slices, fan>> => ArraysOK'
         /\ UNCHANGED <<line, chan, merged, shown>> => LinesOK'
         /\ UNCHANGED <<closed, handler, fanin>> => BrowsersOK'
         /\ UNCHANGED <<dropped, panic, history>> => CountsOK'
<1>1. ASSUME UNCHANGED <<slices, fan>> PROVE ArraysOK'
  BY <1>1, TypeParts DEF ArraysOK, slices
<1>2. ASSUME UNCHANGED <<line, chan, merged, shown>> PROVE LinesOK'
  BY <1>2, TypeParts DEF LinesOK
<1>3. ASSUME UNCHANGED <<closed, handler, fanin>> PROVE BrowsersOK'
  BY <1>3, TypeParts DEF BrowsersOK
<1>4. ASSUME UNCHANGED <<dropped, panic, history>> PROVE CountsOK'
  BY <1>4, TypeParts DEF CountsOK, history
<1> QED BY <1>1, <1>2, <1>3, <1>4

LEMMA TypeSubscribe ==
  ASSUME TypeOK, SliceInv, NEW c \in Subscribers, Subscribe(c)
  PROVE  TypeOK'
<1>1. ArraysOK'
  <2>1. /\ UNCHANGED <<mu, moves, fan>> /\ moves = {}
    BY DEF Subscribe, SliceInv
  <2>2. fan.arr \in 0 .. Len(heap')
    <3>1. fan.arr \in 0 .. Len(heap) /\ Len(heap) \in Nat
      BY DEF TypeOK
    <3>2. Len(heap') >= Len(heap) /\ Len(heap') \in Nat
      BY SubscribeAppends
    <3> QED BY <3>1, <3>2
  <2>3. fan \in [pc : {"idle", "sending"}, arr : 0 .. Len(heap'), len : Nat, next : Nat, ch : Elements]
    BY <2>2 DEF TypeOK
  <2>4. mu' \in Elements /\ moves' = {}
    BY <2>1 DEF TypeOK
  <2> QED BY <2>1, <2>3, <2>4, SubscribeAppends DEF ArraysOK
<1>2. BrowsersOK'
  BY DEF Subscribe, BrowsersOK, TypeOK
<1>3. LinesOK' /\ CountsOK'
  BY TypeFrames DEF Subscribe
<1> QED BY <1>1, <1>2, <1>3, TypeParts

LEMMA TypeUnsubscribeBegin ==
  ASSUME TypeOK, SliceInv, NEW c \in Subscribers, UnsubscribeBegin(c)
  PROVE  TypeOK'
<1>1. ArraysOK'
  BY SliceUnsubscribeBegin DEF UnsubscribeBegin, ArraysOK, TypeOK, Elements
<1>2. BrowsersOK'
  BY DEF UnsubscribeBegin, BrowsersOK, TypeOK
<1>3. LinesOK'
  BY TypeFrames DEF UnsubscribeBegin
<1>4. CountsOK'
  <2>1. UNCHANGED <<dropped, panic, due, sentTo, base>>
    BY DEF UnsubscribeBegin
  <2>2. disturbed' \in BOOLEAN /\ panic \in BOOLEAN
    BY TypeParts, Zenon DEF UnsubscribeBegin, CountsOK
  <2> QED BY <2>1, <2>2 DEF CountsOK, TypeOK
<1> QED BY <1>1, <1>2, <1>3, <1>4, TypeParts

LEMMA TypeUnsubscribeMove ==
  ASSUME TypeOK, SliceInv, UnsubscribeMove
  PROVE  TypeOK'
<1>1. UNCHANGED <<subs, mu, fan, line, dropped, closed, chan, browsers, panic, history>>
      /\ moves' \subseteq moves
  BY DEF UnsubscribeMove
<1>2. ArraysOK'
  <2>1. subs.arr # 0 => subs.len <= Len(heap'[subs.arr])
    <3>1. subs.arr # 0 => subs.arr \in 1 .. Len(heap) /\ subs.len <= Len(heap[subs.arr])
      BY DEF TypeOK
    <3> QED BY <3>1, SliceUnsubscribeMove
  <2> QED BY <1>1, <2>1, SliceUnsubscribeMove DEF ArraysOK, TypeOK
<1>3. LinesOK' /\ BrowsersOK' /\ CountsOK'
  BY <1>1, TypeFrames DEF browsers
<1> QED BY <1>2, <1>3, TypeParts

LEMMA TypeUnsubscribeEnd ==
  ASSUME TypeOK, SliceInv, UnsubscribeEnd
  PROVE  TypeOK'
<1>1. /\ mu \in Subscribers /\ subs.len >= 1 /\ subs' = [subs EXCEPT !.len = @ - 1]
      /\ closed' = closed \cup {mu} /\ handler' = [handler EXCEPT ![mu] = "gone"] /\ mu' = Nil
      /\ UNCHANGED <<heap, moves, fan, fanin>> /\ moves = {}
  BY DEF UnsubscribeEnd, SliceInv, TypeOK, Elements
<1>2. ArraysOK'
  <2>1. /\ subs' \in [arr : 0 .. Len(heap), len : Nat] /\ subs'.arr = subs.arr /\ subs'.len = subs.len - 1
        /\ subs.len \in Nat
    <3>1. subs \in [arr : 0 .. Len(heap), len : Nat]
      BY DEF TypeOK
    <3> QED BY <1>1, <3>1
  <2>2. subs.arr # 0 => subs'.len <= Len(heap[subs.arr])
    <3>1. subs.arr # 0 => heap[subs.arr] \in Seq(Elements)
      BY DEF TypeOK
    <3>2. subs.arr # 0 => Len(heap[subs.arr]) \in Nat /\ subs.len <= Len(heap[subs.arr])
      BY <3>1 DEF TypeOK
    <3> QED BY <2>1, <3>2
  <2>3. mu' \in Elements
    BY <1>1 DEF Elements
  <2> QED BY <1>1, <2>1, <2>2, <2>3 DEF ArraysOK, TypeOK
<1>3. BrowsersOK'
  BY <1>1 DEF BrowsersOK, TypeOK
<1>4. LinesOK' /\ CountsOK'
  BY TypeFrames DEF UnsubscribeEnd
<1> QED BY <1>2, <1>3, <1>4, TypeParts

LEMMA TypeNotify ==
  ASSUME TypeOK, SliceInv, Notify
  PROVE  TypeOK'
<1>1. ArraysOK'
  <2>1. UNCHANGED slices /\ fan' = [pc |-> "sending", arr |-> subs.arr, len |-> subs.len,
                                    next |-> 1, ch |-> Nil]
    BY DEF Notify
  <2>2. fan' \in [pc : {"idle", "sending"}, arr : 0 .. Len(heap), len : Nat, next : Nat, ch : Elements]
    BY <2>1 DEF TypeOK, Elements
  <2> QED BY <2>1, <2>2 DEF ArraysOK, TypeOK, slices
<1>2. LinesOK'
  BY MaxLinesAssumption DEF Notify, LinesOK, TypeOK, browsers
<1>3. BrowsersOK'
  BY TypeFrames DEF Notify, browsers
<1>4. CountsOK'
  <2>1. disturbed' \in BOOLEAN /\ panic' \in BOOLEAN
    BY TypeParts, Zenon DEF Notify, CountsOK
  <2>2. Held \subseteq Subscribers
    <3>1. mu = Nil
      BY DEF Notify
    <3> QED BY <3>1, SliceIsArray DEF Notify
  <2> QED BY <2>1, <2>2 DEF Notify, CountsOK, TypeOK
<1> QED BY <1>1, <1>2, <1>3, <1>4, TypeParts

LEMMA TypeRead ==
  ASSUME TypeOK, FanoutInv, NotifyRead
  PROVE  TypeOK'
<1>1. ArraysOK'
  <2>1. UNCHANGED slices /\ fan' = [fan EXCEPT !.ch = heap[fan.arr][fan.next], !.next = @ + 1]
    BY DEF NotifyRead
  <2>2. fan'.ch \in Elements
    BY FanRead
  <2>3. fan' \in [pc : {"idle", "sending"}, arr : 0 .. Len(heap), len : Nat, next : Nat, ch : Elements]
    <3>1. fan \in [pc : {"idle", "sending"}, arr : 0 .. Len(heap), len : Nat, next : Nat, ch : Elements]
      BY DEF TypeOK
    <3>2. heap[fan.arr][fan.next] \in Elements
      BY <2>1, <2>2, <3>1
    <3>3. fan' = [pc |-> fan.pc, arr |-> fan.arr, len |-> fan.len, next |-> fan.next + 1,
                  ch |-> heap[fan.arr][fan.next]]
      BY <2>1, <3>1
    <3> QED BY <3>1, <3>2, <3>3
  <2> QED BY <2>1, <2>3 DEF ArraysOK, TypeOK, slices
<1>2. LinesOK' /\ BrowsersOK' /\ CountsOK'
  BY TypeFrames DEF NotifyRead, browsers
<1> QED BY <1>1, <1>2, TypeParts

LEMMA TypeSend ==
  ASSUME TypeOK, FanoutInv, NotifySend
  PROVE  TypeOK'
<1> DEFINE c == fan.ch
<1>1. /\ c \in Subscribers /\ fan' = [fan EXCEPT !.ch = Nil] /\ line \in 1 .. MaxLines
      /\ UNCHANGED <<slices, line, closed, browsers, due, base, disturbed>>
  BY DEF NotifySend, TypeOK, Elements, FanoutInv, FanInv
<1>2. ArraysOK'
  BY <1>1 DEF ArraysOK, TypeOK, slices, Elements
<1>3. BrowsersOK'
  BY <1>1, TypeFrames DEF browsers
<1>4. CASE panic' = TRUE /\ UNCHANGED <<chan, sentTo, dropped>>
  <2>1. panic' \in BOOLEAN /\ disturbed' \in BOOLEAN
    BY <1>1, <1>4, TypeParts, Zenon DEF CountsOK
  <2>2. CountsOK'
    BY <1>1, <1>4, <2>1 DEF CountsOK, TypeOK
  <2>3. LinesOK'
    BY <1>1, <1>4, TypeFrames DEF browsers
  <2> QED BY <1>2, <1>3, <2>2, <2>3, TypeParts
<1>5. CASE /\ Len(chan[c]) < ChanCap /\ chan' = [chan EXCEPT ![c] = Append(@, line)]
           /\ sentTo' = [sentTo EXCEPT ![c] = @ + 1] /\ UNCHANGED <<panic, dropped>>
  <2>1. Append(chan[c], line) \in Seq(1 .. MaxLines) /\ Len(Append(chan[c], line)) <= ChanCap
    BY <1>1, <1>5, CapAssumption DEF TypeOK
  <2>2. LinesOK'
    BY <1>1, <1>5, <2>1 DEF LinesOK, TypeOK, browsers
  <2>3. CountsOK'
    <3>1. sentTo \in [Subscribers -> Nat]
      BY DEF TypeOK
    <3>2. sentTo' \in [Subscribers -> Nat]
      BY <1>1, <1>5, <3>1
    <3>3. panic' \in BOOLEAN /\ disturbed' \in BOOLEAN
      BY <1>1, <1>5, TypeParts, Zenon DEF CountsOK
    <3> QED BY <1>1, <1>5, <3>2, <3>3 DEF CountsOK, TypeOK
  <2> QED BY <1>2, <1>3, <2>2, <2>3, TypeParts
<1>6. CASE dropped' = dropped + 1 /\ UNCHANGED <<panic, chan, sentTo>>
  <2>1. CountsOK'
    BY <1>1, <1>6 DEF CountsOK, TypeOK
  <2>2. LinesOK'
    BY <1>1, <1>6, TypeFrames DEF browsers
  <2> QED BY <1>2, <1>3, <2>1, <2>2, TypeParts
<1> QED BY <1>4, <1>5, <1>6 DEF NotifySend

LEMMA TypeEnd ==
  ASSUME TypeOK, NotifyEnd
  PROVE  TypeOK'
<1>1. ArraysOK'
  <2>1. UNCHANGED slices /\ fan' = [fan EXCEPT !.pc = "idle"]
    BY DEF NotifyEnd
  <2>2. fan' \in [pc : {"idle", "sending"}, arr : 0 .. Len(heap), len : Nat, next : Nat, ch : Elements]
    BY <2>1 DEF TypeOK
  <2> QED BY <2>1, <2>2 DEF ArraysOK, TypeOK, slices
<1>2. LinesOK' /\ BrowsersOK' /\ CountsOK'
  BY TypeFrames DEF NotifyEnd, browsers
<1> QED BY <1>1, <1>2, TypeParts


\* The head and the tail of a queue that is not empty.
LEMMA QueueEnds ==
  ASSUME NEW S, NEW s \in Seq(S), s # <<>>
  PROVE  /\ Len(s) \in Nat /\ Len(s) >= 1 /\ Head(s) \in S /\ Head(s) = s[1]
         /\ Tail(s) \in Seq(S) /\ Len(Tail(s)) = Len(s) - 1
         /\ \A i \in 1 .. Len(Tail(s)) : Tail(s)[i] = s[i + 1]
<1>1. Len(s) \in Nat /\ Len(s) >= 1
  OBVIOUS
<1>2. Head(s) \in S /\ Head(s) = s[1]
  BY <1>1
<1>3. Tail(s) \in Seq(S) /\ Len(Tail(s)) = Len(s) - 1
  BY <1>1
<1>4. \A i \in 1 .. Len(Tail(s)) : Tail(s)[i] = s[i + 1]
  BY <1>1
<1> QED BY <1>1, <1>2, <1>3, <1>4

\* The two goroutines of a browser only move lines along.
LEMMA TypeFanIn ==
  ASSUME TypeOK, NEW c \in Subscribers, FanIn(c)
  PROVE  TypeOK'
<1>1. /\ chan[c] \in Seq(1 .. MaxLines) /\ chan[c] # <<>> /\ merged[c] \in Seq(1 .. MaxLines)
      /\ chan' = [chan EXCEPT ![c] = Tail(@)] /\ UNCHANGED <<line, shown>>
  BY DEF FanIn, TypeOK
<1>2. /\ Head(chan[c]) \in 1 .. MaxLines /\ Tail(chan[c]) \in Seq(1 .. MaxLines)
      /\ Len(Tail(chan[c])) <= Len(chan[c]) /\ Len(chan[c]) <= ChanCap /\ Len(chan[c]) \in Nat
      /\ Len(Tail(chan[c])) \in Nat
  <2>1. Len(chan[c]) <= ChanCap
    BY DEF TypeOK
  <2>2. /\ Len(chan[c]) \in Nat /\ Len(chan[c]) >= 1 /\ Head(chan[c]) \in 1 .. MaxLines
        /\ Tail(chan[c]) \in Seq(1 .. MaxLines) /\ Len(Tail(chan[c])) = Len(chan[c]) - 1
    BY <1>1, QueueEnds, Zenon
  <2> QED BY <2>1, <2>2, CapAssumption
<1>3. /\ chan' \in [Subscribers -> Seq(1 .. MaxLines)]
      /\ \A x \in Subscribers : Len(chan'[x]) <= ChanCap
  <2>1. chan' \in [Subscribers -> Seq(1 .. MaxLines)]
    BY <1>1, <1>2 DEF TypeOK
  <2>2. \A x \in Subscribers : x # c => chan'[x] = chan[x]
    BY <1>1 DEF TypeOK
  <2>3. chan'[c] = Tail(chan[c]) /\ Len(chan'[c]) <= ChanCap
    BY <1>1, <1>2, CapAssumption DEF TypeOK
  <2> QED BY <2>1, <2>2, <2>3 DEF TypeOK
<1>4. /\ merged' \in [Subscribers -> Seq(1 .. MaxLines)]
      /\ \A x \in Subscribers : Len(merged'[x]) <= MergedCap
  <2>1. CASE Len(merged[c]) < MergedCap
    <3>1. merged' = [merged EXCEPT ![c] = Append(@, Head(chan[c]))]
      BY <2>1 DEF FanIn
    <3>2. /\ Append(merged[c], Head(chan[c])) \in Seq(1 .. MaxLines)
          /\ Len(Append(merged[c], Head(chan[c]))) <= MergedCap
      BY <1>1, <1>2, <2>1, CapAssumption
    <3> QED BY <3>1, <3>2 DEF TypeOK
  <2>2. CASE ~(Len(merged[c]) < MergedCap)
    BY <2>2 DEF FanIn, TypeOK
  <2> QED BY <2>1, <2>2
<1>5. LinesOK'
  BY <1>1, <1>3, <1>4 DEF LinesOK, TypeOK
<1>6. ArraysOK' /\ BrowsersOK' /\ CountsOK'
  BY TypeFrames DEF FanIn
<1> QED BY <1>5, <1>6, TypeParts

LEMMA TypeFanInEnds ==
  ASSUME TypeOK, NEW c \in Subscribers, FanInEnds(c)
  PROVE  TypeOK'
<1>1. BrowsersOK'
  BY DEF FanInEnds, BrowsersOK, TypeOK
<1>2. ArraysOK' /\ LinesOK' /\ CountsOK'
  BY TypeFrames DEF FanInEnds
<1> QED BY <1>1, <1>2, TypeParts

LEMMA TypeWriteLoop ==
  ASSUME TypeOK, NEW c \in Subscribers, WriteLoop(c)
  PROVE  TypeOK'
<1>1. /\ merged[c] \in Seq(1 .. MaxLines) /\ merged[c] # <<>>
      /\ merged' = [merged EXCEPT ![c] = Tail(@)] /\ UNCHANGED <<line, chan, closed, fanin>>
  BY DEF WriteLoop, TypeOK
<1>2. /\ Head(merged[c]) \in 0 .. MaxLines /\ Tail(merged[c]) \in Seq(1 .. MaxLines)
      /\ Len(Tail(merged[c])) <= MergedCap
  <2>1. Len(merged[c]) <= MergedCap
    BY DEF TypeOK
  <2>2. /\ Len(merged[c]) \in Nat /\ Len(merged[c]) >= 1 /\ Head(merged[c]) \in 1 .. MaxLines
        /\ Tail(merged[c]) \in Seq(1 .. MaxLines) /\ Len(Tail(merged[c])) = Len(merged[c]) - 1
    BY <1>1, QueueEnds, Zenon
  <2> QED BY <2>1, <2>2, CapAssumption
<1>3. shown' \in [Subscribers -> 0 .. MaxLines]
  BY <1>2 DEF WriteLoop, TypeOK
<1>4. LinesOK'
  BY <1>1, <1>2, <1>3 DEF LinesOK, TypeOK
<1>5. handler' \in [Subscribers -> {"new", "serving", "leaving", "unsubscribing", "gone"}]
  BY DEF WriteLoop, TypeOK
<1>6. BrowsersOK'
  BY <1>1, <1>5 DEF BrowsersOK, TypeOK
<1>7. ArraysOK' /\ CountsOK'
  BY TypeFrames DEF WriteLoop
<1> QED BY <1>4, <1>6, <1>7, TypeParts

-----------------------------------------------------------------------------
(* The order of the lines: each queue is sorted, the channel comes after    *)
(* merged, and both after what the browser has been shown.                  *)

LEMMA ElementsOf ==
  ASSUME NEW S, NEW s \in Seq(S)
  PROVE  \A i \in 1 .. Len(s) : s[i] \in S
  OBVIOUS

\* What holds of the ends of the queues of c.
LEMMA QueueTypes ==
  ASSUME TypeOK, NEW c \in Subscribers
  PROVE  /\ chan[c] \in Seq(1 .. MaxLines) /\ merged[c] \in Seq(1 .. MaxLines)
         /\ Len(chan[c]) \in Nat /\ Len(merged[c]) \in Nat
         /\ \A i \in 1 .. Len(chan[c]) : chan[c][i] \in Nat
         /\ \A i \in 1 .. Len(merged[c]) : merged[c][i] \in Nat
         /\ shown[c] \in Nat /\ line \in Nat
<1>1. chan[c] \in Seq(1 .. MaxLines) /\ merged[c] \in Seq(1 .. MaxLines)
  BY DEF TypeOK
<1>2. shown[c] \in Nat /\ line \in Nat
  BY MaxLinesAssumption DEF TypeOK
<1>3. \A i \in 1 .. MaxLines : i \in Nat
  BY MaxLinesAssumption
<1>4. /\ \A i \in 1 .. Len(chan[c]) : chan[c][i] \in 1 .. MaxLines
      /\ \A i \in 1 .. Len(merged[c]) : merged[c][i] \in 1 .. MaxLines
  BY <1>1, ElementsOf, Zenon
<1>5. Len(chan[c]) \in Nat /\ Len(merged[c]) \in Nat
  BY <1>1
<1> QED BY <1>1, <1>2, <1>3, <1>4, <1>5

LEMMA OrderUnchanged ==
  ASSUME NEW c \in Subscribers, OrderInv(c), chan'[c] = chan[c], merged'[c] = merged[c],
         shown'[c] = shown[c], line' = line
  PROVE  OrderInv(c)'
  BY DEF OrderInv, Sorted

LEMMA OrderNotify ==
  ASSUME TypeOK, NEW c \in Subscribers, OrderInv(c), Notify
  PROVE  OrderInv(c)'
<1>1. line' = line + 1 /\ UNCHANGED <<chan, merged, shown>>
  BY DEF Notify, browsers
<1>2. \A i \in 1 .. Len(merged[c]) : shown[c] <= merged[c][i] /\ merged[c][i] <= line + 1
  BY QueueTypes DEF OrderInv
<1>3. \A i \in 1 .. Len(chan[c]) : shown[c] <= chan[c][i] /\ chan[c][i] <= line + 1
  BY QueueTypes DEF OrderInv
<1>4. shown[c] <= line + 1
  BY QueueTypes DEF OrderInv
<1> QED BY <1>1, <1>2, <1>3, <1>4 DEF OrderInv, Sorted

\* The line that is sent is the newest.
LEMMA OrderSend ==
  ASSUME TypeOK, NEW c \in Subscribers, OrderInv(c), NotifySend
  PROVE  OrderInv(c)'
<1>1. UNCHANGED <<merged, shown, line>>
  BY DEF NotifySend, browsers
<1>2. CASE chan'[c] = chan[c]
  BY <1>1, <1>2, OrderUnchanged
<1>3. CASE chan'[c] = Append(chan[c], line)
  <2> DEFINE n == Len(chan[c])
  <2>1. /\ Len(chan'[c]) = n + 1 /\ chan'[c][n + 1] = line /\ n \in Nat
        /\ \A i \in 1 .. n : chan'[c][i] = chan[c][i]
    BY <1>3, QueueTypes
  <2>2. \A i \in 1 .. n + 1 : i \in 1 .. n \/ i = n + 1
    BY <2>1
  <2>3. \A i \in 1 .. n : chan[c][i] <= line /\ shown[c] <= chan[c][i] /\ chan[c][i] \in Nat
    BY QueueTypes DEF OrderInv
  <2>4. line \in Nat /\ shown[c] <= line /\ \A i \in 1 .. Len(merged[c]) : merged[c][i] <= line
    BY QueueTypes DEF OrderInv
  <2>5. /\ \A i, j \in 1 .. n : i < j => chan[c][i] <= chan[c][j]
        /\ \A i \in 1 .. Len(merged[c]), j \in 1 .. n : merged[c][i] <= chan[c][j]
    BY DEF OrderInv, Sorted
  <2> HIDE DEF n
  <2>6. \A i, j \in 1 .. n + 1 : i < j => chan'[c][i] <= chan'[c][j]
    <3> SUFFICES ASSUME NEW i \in 1 .. n + 1, NEW j \in 1 .. n + 1, i < j
                 PROVE  chan'[c][i] <= chan'[c][j]
      OBVIOUS
    <3>1. i \in 1 .. n
      BY <2>1
    <3> QED BY <2>1, <2>2, <2>3, <2>5, <3>1
  <2>7. \A j \in 1 .. n + 1 : shown[c] <= chan'[c][j] /\ chan'[c][j] <= line
    BY <2>1, <2>2, <2>3, <2>4
  <2>8. \A i \in 1 .. Len(merged[c]), j \in 1 .. n + 1 : merged[c][i] <= chan'[c][j]
    BY <2>1, <2>2, <2>4, <2>5
  <2> QED BY <1>1, <2>1, <2>6, <2>7, <2>8 DEF OrderInv, Sorted
<1>4. chan'[c] = chan[c] \/ chan'[c] = Append(chan[c], line)
  <2>1. UNCHANGED chan \/ chan' = [chan EXCEPT ![fan.ch] = Append(chan[fan.ch], line)]
    BY Zenon DEF NotifySend
  <2>2. chan \in [Subscribers -> Seq(1 .. MaxLines)]
    BY DEF TypeOK
  <2>3. CASE fan.ch = c
    BY <2>1, <2>2, <2>3
  <2>4. CASE fan.ch # c
    BY <2>1, <2>2, <2>4
  <2> QED BY <2>3, <2>4
<1> QED BY <1>2, <1>3, <1>4

\* The first line of the channel goes behind the last one of merged, or is dropped.
LEMMA OrderFanIn ==
  ASSUME TypeOK, NEW c \in Subscribers, OrderInv(c), FanIn(c)
  PROVE  OrderInv(c)'
<1> DEFINE h == Head(chan[c])
           m == Len(merged[c])
           n == Len(chan[c])
<1>1. /\ chan[c] # <<>> /\ chan'[c] = Tail(chan[c]) /\ UNCHANGED <<shown, line>>
      /\ merged'[c] = merged[c] \/ merged'[c] = Append(merged[c], h)
  BY DEF FanIn, TypeOK
<1>2. /\ Len(chan[c]) \in Nat /\ Len(chan[c]) >= 1 /\ h = chan[c][1]
      /\ Len(Tail(chan[c])) = Len(chan[c]) - 1
      /\ \A i \in 1 .. Len(Tail(chan[c])) : Tail(chan[c])[i] = chan[c][i + 1]
  <2>1. chan[c] \in Seq(1 .. MaxLines)
    BY QueueTypes
  <2> QED BY <1>1, <2>1, QueueEnds, Zenon
<1>3. \A i \in 1 .. n - 1 : i + 1 \in 1 .. n
  BY <1>2
<1>4. 1 \in 1 .. n /\ Len(chan'[c]) = n - 1
  BY <1>1, <1>2
<1>5. \A i \in 1 .. n - 1 : chan'[c][i] = chan[c][i + 1]
  BY <1>1, <1>2
<1>6. /\ \A i, j \in 1 .. n : i < j => chan[c][i] <= chan[c][j]
      /\ \A i, j \in 1 .. m : i < j => merged[c][i] <= merged[c][j]
      /\ \A i \in 1 .. m, j \in 1 .. n : merged[c][i] <= chan[c][j]
      /\ \A j \in 1 .. n : shown[c] <= chan[c][j] /\ chan[c][j] <= line
      /\ \A i \in 1 .. m : shown[c] <= merged[c][i] /\ merged[c][i] <= line
      /\ shown[c] <= line
  BY DEF OrderInv, Sorted
<1>7. m \in Nat /\ n \in Nat
  BY QueueTypes
<1> HIDE DEF h, m, n
<1>8. \A i, j \in 1 .. n - 1 : i < j => chan'[c][i] <= chan'[c][j]
  <2> SUFFICES ASSUME NEW i \in 1 .. n - 1, NEW j \in 1 .. n - 1, i < j
               PROVE  chan'[c][i] <= chan'[c][j]
    OBVIOUS
  <2>1. i + 1 < j + 1
    BY <1>7
  <2> QED BY <1>3, <1>5, <1>6, <2>1
<1>9. \A j \in 1 .. n - 1 : shown[c] <= chan'[c][j] /\ chan'[c][j] <= line
  BY <1>3, <1>5, <1>6
<1>10. CASE merged'[c] = merged[c]
  <2>1. \A i \in 1 .. m, j \in 1 .. n - 1 : merged[c][i] <= chan'[c][j]
    BY <1>3, <1>5, <1>6
  <2> QED BY <1>1, <1>4, <1>6, <1>8, <1>9, <1>10, <2>1 DEF OrderInv, Sorted, m
<1>11. CASE merged'[c] = Append(merged[c], h)
  <2>1. /\ Len(merged'[c]) = m + 1 /\ merged'[c][m + 1] = h
        /\ \A i \in 1 .. m : merged'[c][i] = merged[c][i]
    BY <1>11, QueueTypes DEF m
  <2>2. \A i \in 1 .. m + 1 : i \in 1 .. m \/ i = m + 1
    BY <1>7
  <2>3. \A i \in 1 .. m : merged[c][i] <= h
    BY <1>2, <1>4, <1>6
  <2>4. \A j \in 1 .. n - 1 : h <= chan'[c][j]
    <3> SUFFICES ASSUME NEW j \in 1 .. n - 1 PROVE h <= chan'[c][j]
      OBVIOUS
    <3>1. 1 < j + 1
      OBVIOUS
    <3> QED BY <1>2, <1>3, <1>4, <1>5, <1>6, <3>1
  <2>5. shown[c] <= h /\ h <= line
    BY <1>2, <1>4, <1>6
  <2>6. \A i, j \in 1 .. m + 1 : i < j => merged'[c][i] <= merged'[c][j]
    <3> SUFFICES ASSUME NEW i \in 1 .. m + 1, NEW j \in 1 .. m + 1, i < j
                 PROVE  merged'[c][i] <= merged'[c][j]
      OBVIOUS
    <3>1. i \in 1 .. m
      BY <1>7
    <3> QED BY <1>6, <2>1, <2>2, <2>3, <3>1
  <2>7. \A i \in 1 .. m + 1 : shown[c] <= merged'[c][i] /\ merged'[c][i] <= line
    BY <1>6, <2>1, <2>2, <2>5
  <2>8. \A i \in 1 .. m + 1, j \in 1 .. n - 1 : merged'[c][i] <= chan'[c][j]
    <3>1. \A i \in 1 .. m, j \in 1 .. n - 1 : merged[c][i] <= chan'[c][j]
      BY <1>3, <1>5, <1>6
    <3> QED BY <2>1, <2>2, <2>4, <3>1
  <2> QED BY <1>1, <1>4, <1>6, <1>8, <1>9, <2>1, <2>6, <2>7, <2>8 DEF OrderInv, Sorted
<1> QED BY <1>1, <1>10, <1>11

\* The browser is shown the first line of merged, or it is skipped.
LEMMA OrderWrite ==
  ASSUME TypeOK, NEW c \in Subscribers, OrderInv(c), WriteLoop(c)
  PROVE  OrderInv(c)' /\ shown'[c] >= shown[c]
<1> DEFINE h == Head(merged[c])
           m == Len(merged[c])
<1>1. /\ merged[c] # <<>> /\ merged'[c] = Tail(merged[c]) /\ UNCHANGED <<chan, line>>
      /\ shown'[c] = shown[c] \/ shown'[c] = h
  BY DEF WriteLoop, TypeOK
<1>2. /\ m \in Nat /\ m >= 1 /\ h = merged[c][1] /\ Len(Tail(merged[c])) = m - 1
      /\ \A i \in 1 .. Len(Tail(merged[c])) : Tail(merged[c])[i] = merged[c][i + 1]
  <2>1. merged[c] \in Seq(1 .. MaxLines)
    BY QueueTypes
  <2> QED BY <1>1, <2>1, QueueEnds, Zenon
<1>3. \A i \in 1 .. m - 1 : i + 1 \in 1 .. m
  BY <1>2
<1>4. 1 \in 1 .. m /\ Len(merged'[c]) = m - 1
  BY <1>1, <1>2
<1>5. \A i \in 1 .. m - 1 : merged'[c][i] = merged[c][i + 1]
  BY <1>1, <1>2
<1>6. /\ \A i, j \in 1 .. m : i < j => merged[c][i] <= merged[c][j]
      /\ \A i \in 1 .. m, j \in 1 .. Len(chan[c]) : merged[c][i] <= chan[c][j]
      /\ \A j \in 1 .. Len(chan[c]) : shown[c] <= chan[c][j] /\ chan[c][j] <= line
      /\ \A i \in 1 .. m : shown[c] <= merged[c][i] /\ merged[c][i] <= line
      /\ shown[c] <= line /\ Sorted(chan[c])
  BY DEF OrderInv, Sorted
<1>7. shown[c] \in Nat
  BY QueueTypes
<1> HIDE DEF h, m
<1>8. \A i, j \in 1 .. m - 1 : i < j => merged'[c][i] <= merged'[c][j]
  <2> SUFFICES ASSUME NEW i \in 1 .. m - 1, NEW j \in 1 .. m - 1, i < j
               PROVE  merged'[c][i] <= merged'[c][j]
    OBVIOUS
  <2>1. i + 1 < j + 1
    BY <1>2
  <2> QED BY <1>3, <1>5, <1>6, <2>1
<1>9. /\ \A i \in 1 .. m - 1 : shown[c] <= merged'[c][i] /\ merged'[c][i] <= line
      /\ \A i \in 1 .. m - 1, j \in 1 .. Len(chan[c]) : merged'[c][i] <= chan[c][j]
  BY <1>3, <1>5, <1>6
<1>10. /\ \A i \in 1 .. m - 1 : h <= merged'[c][i]
       /\ \A j \in 1 .. Len(chan[c]) : h <= chan[c][j]
       /\ shown[c] <= h /\ h <= line
  <2>1. ASSUME NEW i \in 1 .. m - 1 PROVE h <= merged'[c][i]
    <3>1. 1 < i + 1
      OBVIOUS
    <3> QED BY <1>2, <1>3, <1>4, <1>5, <1>6, <3>1
  <2> QED BY <1>2, <1>4, <1>6, <2>1
<1>11. shown'[c] >= shown[c]
  <2>1. CASE shown'[c] = shown[c]
    BY <1>7, <2>1
  <2>2. CASE shown'[c] = h
    BY <1>10, <2>2
  <2> QED BY <1>1, <2>1, <2>2
<1>12. /\ \A i \in 1 .. m - 1 : shown'[c] <= merged'[c][i]
       /\ \A j \in 1 .. Len(chan[c]) : shown'[c] <= chan[c][j]
       /\ shown'[c] <= line
  BY <1>1, <1>6, <1>9, <1>10
<1> QED BY <1>1, <1>4, <1>6, <1>8, <1>9, <1>11, <1>12 DEF OrderInv, Sorted

-----------------------------------------------------------------------------
(* The step.                                                                *)

LEMMA NextInv ==
  ASSUME IInv, [Next]_vars
  PROVE  IInv' /\ \A c \in Subscribers : shown'[c] >= shown[c]
<1>1. /\ TypeOK /\ SliceInv /\ FanoutInv /\ \A c \in Subscribers : OrderInv(c)
      /\ closed \subseteq Subscribers /\ \A c \in Subscribers : shown[c] \in Nat
  BY DEF IInv, FanoutInv, TypeOK
<1>2. SUFFICES ASSUME TRUE
               PROVE  /\ TypeOK' /\ SliceInv' /\ FanoutInv'
                      /\ \A c \in Subscribers : OrderInv(c)' /\ shown'[c] >= shown[c]
  BY DEF IInv, FanoutInv
<1> DEFINE Lines == UNCHANGED <<line, chan, merged, shown>>
<1>3. Lines => \A c \in Subscribers : OrderInv(c)' /\ shown'[c] >= shown[c]
  BY <1>1, OrderUnchanged
<1>4. ASSUME NEW c \in Subscribers, Subscribe(c)
      PROVE  TypeOK' /\ SliceInv' /\ FanoutInv' /\ Lines
  BY <1>1, <1>4, TypeSubscribe, SliceSubscribe, FanSubscribe DEF Subscribe
<1>5. ASSUME NEW c \in Subscribers, UnsubscribeBegin(c)
      PROVE  TypeOK' /\ SliceInv' /\ FanoutInv' /\ Lines
  <2>1. disturbed' /\ UNCHANGED <<fan, line, heap, chan, merged, shown>>
    BY <1>5 DEF UnsubscribeBegin
  <2>2. fan.arr \in 0 .. Len(heap) /\ Len(heap) \in Nat
    BY <1>1 DEF TypeOK
  <2>3. FanoutInv'
    BY <1>1, <2>1, <2>2, FanDisturbed DEF FanoutInv
  <2> QED BY <1>1, <1>5, <2>1, <2>3, TypeUnsubscribeBegin, SliceUnsubscribeBegin
<1>6. ASSUME UnsubscribeMove PROVE TypeOK' /\ SliceInv' /\ FanoutInv' /\ Lines
  <2>1. /\ Len(heap') = Len(heap) /\ mu # Nil
        /\ \A b \in 1 .. Len(heap) : Len(heap'[b]) = Len(heap[b])
    BY <1>1, <1>6, SliceUnsubscribeMove
  <2>2. fan.arr \in 0 .. Len(heap) /\ Len(heap) \in Nat
    BY <1>1 DEF TypeOK
  <2>3. UNCHANGED <<fan, line, chan, merged, shown, disturbed>>
    BY <1>6 DEF UnsubscribeMove, browsers, history
  <2>4. disturbed'
    BY <1>1, <2>1, <2>3 DEF FanoutInv, QuietInv
  <2>5. FanoutInv'
    BY <1>1, <2>1, <2>2, <2>3, <2>4, FanDisturbed DEF FanoutInv
  <2> QED BY <1>1, <1>6, <2>3, <2>5, TypeUnsubscribeMove, SliceUnsubscribeMove
<1>7. ASSUME UnsubscribeEnd PROVE TypeOK' /\ SliceInv' /\ FanoutInv' /\ Lines
  <2>1. mu # Nil /\ UNCHANGED <<heap, fan, line, chan, merged, shown, disturbed>>
    BY <1>7 DEF UnsubscribeEnd, history
  <2>2. fan.arr \in 0 .. Len(heap) /\ Len(heap) \in Nat
    BY <1>1 DEF TypeOK
  <2>3. disturbed'
    BY <1>1, <2>1 DEF FanoutInv, QuietInv
  <2>4. FanoutInv'
    BY <1>1, <2>1, <2>2, <2>3, FanDisturbed DEF FanoutInv
  <2> QED BY <1>1, <1>7, <2>1, <2>4, TypeUnsubscribeEnd, SliceUnsubscribeEnd
\* The worker does not touch the slice.
<1>8. ASSUME UNCHANGED <<slices, closed, handler>> PROVE SliceInv'
  <2>1. Members' = Members
    BY <1>8 DEF Members
  <2> QED BY <1>1, <1>8, <2>1, SliceUnchanged
<1>9. ASSUME Notify, ~panic
      PROVE  /\ TypeOK' /\ SliceInv' /\ FanoutInv'
             /\ \A c \in Subscribers : OrderInv(c)' /\ shown'[c] >= shown[c]
  <2>1. UNCHANGED <<slices, closed, handler, shown>>
    BY <1>9 DEF Notify, browsers
  <2>2. TypeOK' /\ SliceInv' /\ FanoutInv'
    BY <1>1, <1>8, <1>9, <2>1, TypeNotify, FanNotify
  <2>3. \A c \in Subscribers : OrderInv(c)'
    BY <1>1, <1>9, OrderNotify
  <2> QED BY <1>1, <2>1, <2>2, <2>3
<1>10. ASSUME NotifyRead PROVE TypeOK' /\ SliceInv' /\ FanoutInv' /\ Lines
  <2>1. UNCHANGED <<slices, closed, handler>> /\ Lines
    BY <1>10 DEF NotifyRead, browsers
  <2> QED BY <1>1, <1>8, <1>10, <2>1, TypeRead, FanRead
<1>11. ASSUME NotifySend
       PROVE  /\ TypeOK' /\ SliceInv' /\ FanoutInv'
              /\ \A c \in Subscribers : OrderInv(c)' /\ shown'[c] >= shown[c]
  <2>1. UNCHANGED <<slices, closed, handler, shown>>
    BY <1>11 DEF NotifySend, browsers
  <2>2. TypeOK' /\ SliceInv' /\ FanoutInv'
    BY <1>1, <1>8, <1>11, <2>1, TypeSend, FanSend
  <2>3. \A c \in Subscribers : OrderInv(c)'
    BY <1>1, <1>11, OrderSend
  <2> QED BY <1>1, <2>1, <2>2, <2>3
<1>12. ASSUME NotifyEnd PROVE TypeOK' /\ SliceInv' /\ FanoutInv' /\ Lines
  <2>1. UNCHANGED <<slices, closed, handler>> /\ Lines
    BY <1>12 DEF NotifyEnd, browsers
  <2> QED BY <1>1, <1>8, <1>12, <2>1, TypeEnd, FanEnd
<1>13. ASSUME NEW c \in Subscribers, FanIn(c)
       PROVE  /\ TypeOK' /\ SliceInv' /\ FanoutInv'
              /\ \A d \in Subscribers : OrderInv(d)' /\ shown'[d] >= shown[d]
  <2>1. /\ UNCHANGED <<slices, closed, handler, fan, line, dropped, panic, history, shown>>
        /\ Members' = Members
    BY <1>13 DEF FanIn, Members
  <2>2. FanoutInv'
    BY <1>1, <2>1, FanUnchanged DEF slices
  <2>3. ASSUME NEW d \in Subscribers PROVE OrderInv(d)'
    <3>1. CASE d = c
      BY <1>1, <1>13, <3>1, OrderFanIn
    <3>2. CASE d # c
      <4>1. chan'[d] = chan[d] /\ merged'[d] = merged[d]
        BY <1>1, <1>13, <3>2 DEF FanIn, TypeOK
      <4> QED BY <1>1, <2>1, <4>1, OrderUnchanged
    <3> QED BY <3>1, <3>2
  <2> QED BY <1>1, <1>8, <1>13, <2>1, <2>2, <2>3, TypeFanIn
<1>14. ASSUME NEW c \in Subscribers, FanInEnds(c)
       PROVE  TypeOK' /\ SliceInv' /\ FanoutInv' /\ Lines
  <2>1. /\ UNCHANGED <<slices, closed, handler, fan, line, dropped, panic, history>> /\ Lines
        /\ Members' = Members
    BY <1>14 DEF FanInEnds, Members
  <2>2. FanoutInv'
    BY <1>1, <2>1, FanUnchanged DEF slices
  <2> QED BY <1>1, <1>8, <1>14, <2>1, <2>2, TypeFanInEnds
<1>15. ASSUME NEW c \in Subscribers, WriteLoop(c)
       PROVE  /\ TypeOK' /\ SliceInv' /\ FanoutInv'
              /\ \A d \in Subscribers : OrderInv(d)' /\ shown'[d] >= shown[d]
  <2>1. /\ UNCHANGED <<slices, closed, fan, line, dropped, panic, history, chan>>
        /\ handler[c] = "serving"
        /\ handler' = handler \/ handler' = [handler EXCEPT ![c] = "leaving"]
    BY <1>15 DEF WriteLoop
  <2>2. /\ Members' = Members
        /\ \A d \in Subscribers : handler'[d] = "unsubscribing" <=> handler[d] = "unsubscribing"
        /\ \A d \in Subscribers : handler[d] = "gone" => handler'[d] = "gone"
    BY <1>1, <2>1 DEF Members, TypeOK
  <2>3. FanoutInv'
    BY <1>1, <2>1, <2>2, FanUnchanged DEF slices
  <2>4. SliceInv'
    BY <1>1, <2>1, <2>2, SliceUnchanged
  <2>5. ASSUME NEW d \in Subscribers PROVE OrderInv(d)' /\ shown'[d] >= shown[d]
    <3>1. CASE d = c
      BY <1>1, <1>15, <3>1, OrderWrite
    <3>2. CASE d # c
      <4>1. shown'[d] = shown[d] /\ merged'[d] = merged[d]
        BY <1>1, <1>15, <3>2 DEF WriteLoop, TypeOK
      <4>2. shown'[d] >= shown[d]
        BY <1>1, <4>1
      <4> QED BY <1>1, <2>1, <4>1, <4>2, OrderUnchanged
    <3> QED BY <3>1, <3>2
  <2> QED BY <1>1, <1>15, <2>3, <2>4, <2>5, TypeWriteLoop
<1>16. ASSUME UNCHANGED vars PROVE TypeOK' /\ SliceInv' /\ FanoutInv' /\ Lines
  <2>1. /\ UNCHANGED <<slices, closed, handler, fan, line, dropped, panic, history, fanin>> /\ Lines
        /\ Members' = Members
    BY <1>16 DEF vars, browsers, Members
  <2>2. FanoutInv'
    BY <1>1, <2>1, FanUnchanged DEF slices
  <2>3. TypeOK'
    BY <1>1, <2>1, TypeFrames, TypeParts
  <2> QED BY <1>8, <2>1, <2>2, <2>3
<1> HIDE DEF Lines
<1> QED BY <1>3, <1>4, <1>5, <1>6, <1>7, <1>9, <1>10, <1>11, <1>12, <1>13, <1>14, <1>15, <1>16
        DEF Next, Worker, Browser

-----------------------------------------------------------------------------
(* The theorems.                                                            *)

THEOREM Invariant == Spec => []IInv
<1>1. IInv /\ [Next]_vars => IInv'
  BY NextInv
<1> QED BY InitInv, <1>1, PTL DEF Spec

\* Slice, arrays, channels, queues and counters always have their types: no index leaves an
\* array, no queue is longer than its capacity.
THEOREM TypeCorrect == Spec => []TypeOK
<1>1. IInv => TypeOK
  BY DEF IInv
<1> QED BY Invariant, <1>1, PTL

\* Whoever grows or compacts the shared array, the slice holds exactly the handlers that have
\* subscribed, and a fan-out that nobody leaves reaches each of them once, or counts the line.
THEOREM FanoutExact == Spec => []FanoutIsExact
<1>1. IInv => SliceIsExact
  <2> SUFFICES ASSUME IInv, mu = Nil
               PROVE  Held = Members /\ Cardinality(Held) = subs.len /\ Held \cap closed = {}
    BY DEF SliceIsExact, Members
  <2>1. TypeOK /\ SliceInv /\ subs.len \in Nat
    BY DEF IInv, TypeOK
  <2>2. Held = Members /\ \A i, j \in 1 .. subs.len : heap[subs.arr][i] = heap[subs.arr][j] => i = j
    BY <2>1, SliceIsArray
  <2>3. Cardinality(Held) = subs.len
    <3> DEFINE n == subs.len
               s == heap[subs.arr]
    <3>1. n \in Nat /\ \A i, j \in 1 .. n : s[i] = s[j] => i = j
      BY <2>1, <2>2
    <3>2. Held = {s[i] : i \in 1 .. n}
      BY DEF Held
    <3> HIDE DEF n, s
    <3>3. Cardinality({s[i] : i \in 1 .. n}) = n
      BY <3>1, EnumeratedDistinct
    <3> QED BY <3>1, <3>2, <3>3 DEF n
  <2>4. Members \cap closed = {}
    BY <2>1 DEF SliceInv, Members
  <2> QED BY <2>2, <2>3, <2>4
<1>2. IInv => QuietFanoutIsExact
  <2> SUFFICES ASSUME IInv, ~disturbed
               PROVE  /\ ~panic
                      /\ fan.pc = "idle" =>
                           /\ \A c \in due : sentTo[c] <= 1
                           /\ \A c \in Subscribers \ due : sentTo[c] = 0
                           /\ dropped - base = Cardinality({c \in due : sentTo[c] = 0})
    BY DEF QuietFanoutIsExact
  <2>1. ~panic
    BY DEF IInv, QuietInv
  <2>2. ASSUME fan.pc = "idle" PROVE Done = due
    <3>1. fan.next - 1 = fan.len /\ fan.ch = Nil
      <4>1. fan.next \in Nat /\ fan.len \in Nat
        BY DEF IInv, TypeOK
      <4>2. fan.next <= fan.len + 1
        BY DEF IInv, QuietInv
      <4>3. fan.next > fan.len /\ fan.ch = Nil
        BY <2>2 DEF IInv, FanInv
      <4> QED BY <4>1, <4>2, <4>3
    <3>2. due = {heap[fan.arr][i] : i \in 1 .. fan.len} /\ Nil \notin due
      BY NilAssumption DEF IInv, QuietInv, Members
    <3> QED BY <3>1, <3>2 DEF Done
  <2> QED BY <2>1, <2>2 DEF IInv, CountInv
<1>3. IInv => FanoutIsExact
  BY <1>1, <1>2 DEF FanoutIsExact
<1> QED BY Invariant, <1>3, PTL

\* No browser is shown a line after a later one.
THEOREM LinesInOrder == Spec => OrderKept
<1>1. IInv /\ [Next]_vars => [\A c \in Subscribers : shown'[c] >= shown[c]]_vars
  BY NextInv
<1> QED BY Invariant, <1>1, PTL DEF Spec, OrderKept

=============================================================================
